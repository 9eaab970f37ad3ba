-------------------------- MODULE WebSocket_proofs --------------------------
(***************************************************************************)
(* What holds of a connection for every length of replies, every size of   *)
(* buffer, any number of units and any mixture of frames.                  *)
(***************************************************************************)
EXTENDS MCWebSocket, SequenceTheorems, FiniteSetTheorems, TLAPS

Positions == 1..MaxUnits

\* The sequences that packages and replies pass through.
Lists ==
    /\ up \in Seq(Positions)
    /\ toMain \in Seq(Positions)
    /\ toIO \in Seq(Positions)
    /\ sendBuf \in Seq(Positions)
    /\ replied \in Seq(Positions)

\* The packages that go up in a read of n units.
Framed == IF OpcodeGoesUp(sent[nread + 1]) THEN <<nread + 1>> ELSE <<>>

GoneUp(n) ==
    IF flag = "isWebSocket" THEN Framed
    ELSE IF flag = "wf_unknown" /\ HandShakeRead(n) THEN <<>>
    ELSE Plain(n)

\* What the client does.
ClientStep == Hello \/ HelloInParts \/ Package \/ \E kind \in Frames : Frame(kind)

-----------------------------------------------------------------------------
\* Shifting an element of a sequence into the one before it.
LEMMA ConcatAssoc ==
    \A a, b, c \in Seq(Positions) : (a \o b) \o c = a \o (b \o c)
  BY ConcatAssociative

LEMMA ConcatAppend ==
    ASSUME NEW a \in Seq(Positions), NEW b \in Seq(Positions), b # <<>>
    PROVE  /\ Head(b) \in Positions
           /\ Tail(b) \in Seq(Positions)
           /\ Append(a, Head(b)) \in Seq(Positions)
           /\ <<Head(b)>> \in Seq(Positions)
           /\ a \o b = Append(a, Head(b)) \o Tail(b)
           /\ b = <<Head(b)>> \o Tail(b)
<1>1. Head(b) \in Positions /\ Tail(b) \in Seq(Positions) /\ b = <<Head(b)>> \o Tail(b)
  OBVIOUS
<1>2. <<Head(b)>> \in Seq(Positions) /\ Append(a, Head(b)) \in Seq(Positions)
  BY <1>1
<1>3. Append(a, Head(b)) = a \o <<Head(b)>>
  BY <1>1
<1>4. (a \o <<Head(b)>>) \o Tail(b) = a \o (<<Head(b)>> \o Tail(b))
  BY <1>1, <1>2, ConcatAssoc
<1>5. QED
  BY <1>1, <1>2, <1>3, <1>4

LEMMA EmptyConcat ==
    ASSUME NEW a \in Seq(Positions)
    PROVE  a \o <<>> = a /\ <<>> \o a = a /\ <<>> \in Seq(Positions)
  OBVIOUS

LEMMA ConcatIn ==
    ASSUME NEW a \in Seq(Positions), NEW b \in Seq(Positions)
    PROVE  a \o b \in Seq(Positions)
  OBVIOUS

\* What is in the frame, and what a plain read holds.
LEMMA GoneUpFacts ==
    ASSUME NEW n \in 1..MaxUnits, nread \in Nat, nread + n <= MaxUnits
    PROVE  GoneUp(n) \in Seq(Positions)
<1>1. \A i \in 1..n : nread + i \in Positions
  <2>1. MaxUnits \in Nat /\ n \in Nat
    BY WebSocketAssumption DEF WebSocketAssumption
  <2>2. QED
    BY <2>1 DEF Positions
<1>2. nread + 1 \in Positions
  BY <1>1
<1>3. Framed \in Seq(Positions)
  <2>1. CASE OpcodeGoesUp(sent[nread + 1])
    <3>1. Framed = <<nread + 1>>
      BY <2>1 DEF Framed
    <3>2. QED
      BY <1>2, <3>1
  <2>2. CASE ~OpcodeGoesUp(sent[nread + 1])
    <3>1. Framed = <<>>
      BY <2>2 DEF Framed
    <3>2. QED
      BY <3>1
  <2>3. QED
    BY <2>1, <2>2
<1>4. Plain(n) \in Seq(Positions)
  <2>1. CASE sent[1] # "package"
    <3>1. Plain(n) = <<>>
      BY <2>1 DEF Plain
    <3>2. QED
      BY <3>1
  <2>2. CASE sent[1] = "package"
    <3>1. Plain(n) = [i \in 1..n |-> nread + i]
      BY <2>2 DEF Plain
    <3>2. [i \in 1..n |-> nread + i] \in Seq(Positions)
      BY <1>1
    <3>3. QED
      BY <3>1, <3>2
  <2>3. QED
    BY <2>1, <2>2
<1>5. CASE flag = "isWebSocket"
  BY <1>3, <1>5 DEF GoneUp
<1>6. CASE flag # "isWebSocket" /\ flag = "wf_unknown" /\ HandShakeRead(n)
  <2>1. GoneUp(n) = <<>>
    BY <1>6 DEF GoneUp
  <2>2. QED
    BY <2>1
<1>7. CASE flag # "isWebSocket" /\ ~(flag = "wf_unknown" /\ HandShakeRead(n))
  BY <1>4, <1>7 DEF GoneUp
<1>8. QED
  BY <1>5, <1>6, <1>7

\* Each of the four ways to read sends that to main, and leaves the replies
\* alone.
LEMMA ReadFacts ==
    ASSUME TypeOK, Lists, NEW n \in 1..MaxUnits,
           DoHandShake(n) \/ NotWebSocket(n) \/ ReadPlain(n) \/ ReadFrame(n)
    PROVE  /\ GoneUp(n) \in Seq(Positions)
           /\ up' = up \o GoneUp(n)
           /\ toMain' = toMain \o GoneUp(n)
           /\ nread' = nread + n
           /\ nread + n <= Len(sent)
           /\ status = "connected"
           /\ status' \in {"connected", "while_Close"}
           /\ UNCHANGED <<client, sent, toIO, pc, listed, sendBuf, out, replied>>
<1>1. Reads(n) /\ UNCHANGED <<client, sent, toIO, pc, listed, sendBuf, out, replied>>
  BY DEF DoHandShake, NotWebSocket, ReadPlain, ReadFrame, clientVars, ioVars
<1>2. nread' = nread + n /\ nread + n <= Len(sent) /\ status = "connected"
  BY <1>1 DEF Reads
<1>3. GoneUp(n) \in Seq(Positions)
  <2>1. MaxUnits \in Nat /\ n \in Nat
    BY WebSocketAssumption DEF WebSocketAssumption
  <2>2. Len(sent) \in Nat /\ Len(sent) <= MaxUnits /\ nread \in 0..Len(sent)
    BY DEF TypeOK
  <2>3. nread \in Nat /\ nread + n <= MaxUnits
    BY <1>2, <2>1, <2>2
  <2>4. QED
    BY <2>3, GoneUpFacts
<1>4. status' \in {"connected", "while_Close"}
  BY <1>2 DEF DoHandShake, NotWebSocket, ReadPlain, ReadFrame
<1>5. up' = up \o GoneUp(n) /\ toMain' = toMain \o GoneUp(n)
  <2>1. CASE DoHandShake(n)
    <3>1. GoneUp(n) = <<>> /\ up' = up /\ toMain' = toMain
      BY <2>1 DEF DoHandShake, GoneUp
    <3>2. up \o <<>> = up /\ toMain \o <<>> = toMain
      BY EmptyConcat DEF Lists
    <3>3. QED
      BY <3>1, <3>2
  <2>2. CASE NotWebSocket(n)
    BY <2>2 DEF NotWebSocket, GoneUp, GoUp
  <2>3. CASE ReadPlain(n)
    BY <2>3 DEF ReadPlain, GoneUp, GoUp
  <2>4. CASE ReadFrame(n)
    <3>1. flag = "isWebSocket"
      BY <2>4 DEF ReadFrame
    <3>2. up' = up \o Framed /\ toMain' = toMain \o Framed
      BY <2>4 DEF ReadFrame, GoUp, Framed
    <3>3. QED
      BY <3>1, <3>2 DEF GoneUp
  <2>5. QED
    BY <2>1, <2>2, <2>3, <2>4
<1>6. QED
  BY <1>1, <1>2, <1>3, <1>4, <1>5

\* The client adds units behind those that it has sent.
LEMMA SendsFacts ==
    ASSUME TypeOK, NEW units \in Seq(Kinds), Sends(units)
    PROVE  /\ sent' \in Seq(Kinds)
           /\ Len(sent') = Len(sent) + Len(units)
           /\ Len(sent') <= MaxUnits
           /\ \A i \in 1..Len(sent) : sent'[i] = sent[i]
           /\ \A i \in 1..Len(units) : sent'[Len(sent) + i] = units[i]
<1>1. sent \in Seq(Kinds) /\ Len(sent) \in Nat /\ Len(units) \in Nat
  BY DEF TypeOK
<1>2. sent' = sent \o units /\ Len(sent) + Len(units) <= MaxUnits
  BY DEF Sends
<1>3. QED
  BY <1>1, <1>2, ConcatProperties

LEMMA ClientFacts ==
    ASSUME TypeOK, ClientStep
    PROVE  /\ sent' \in Seq(Kinds)
           /\ Len(sent') \in Nat
           /\ Len(sent) <= Len(sent')
           /\ Len(sent') <= MaxUnits
           /\ \A i \in 1..Len(sent) : sent'[i] = sent[i]
           /\ UNCHANGED <<client, nread, flag, status, toMain, toIO, pc, listed,
                          sendBuf, out, replied, up>>
<1>1. ASSUME NEW units \in Seq(Kinds), Sends(units)
      PROVE  /\ sent' \in Seq(Kinds)
             /\ Len(sent') \in Nat
             /\ Len(sent) <= Len(sent')
             /\ Len(sent') <= MaxUnits
             /\ \A i \in 1..Len(sent) : sent'[i] = sent[i]
             /\ UNCHANGED <<client, nread, flag, status, toMain, toIO, pc, listed,
                            sendBuf, out, replied, up>>
  <2>1. UNCHANGED <<client, nread, flag, status, toMain, toIO, pc, listed,
                    sendBuf, out, replied, up>>
    BY <1>1 DEF Sends, ioVars
  <2>2. /\ sent' \in Seq(Kinds)
        /\ Len(sent') = Len(sent) + Len(units)
        /\ Len(sent') <= MaxUnits
        /\ \A i \in 1..Len(sent) : sent'[i] = sent[i]
    BY <1>1, SendsFacts
  <2>3. Len(sent) \in Nat /\ Len(units) \in Nat
    BY DEF TypeOK
  <2>4. QED
    BY <2>1, <2>2, <2>3
<1>2. CASE Hello
  <2>1. <<"hello">> \in Seq(Kinds) /\ Sends(<<"hello">>)
    BY <1>2 DEF Hello, Kinds
  <2>2. QED
    BY <1>1, <2>1
<1>3. CASE HelloInParts
  <2>1. <<"get", "rest">> \in Seq(Kinds) /\ Sends(<<"get", "rest">>)
    BY <1>3 DEF HelloInParts, Kinds
  <2>2. QED
    BY <1>1, <2>1
<1>4. CASE Package
  <2>1. <<"package">> \in Seq(Kinds) /\ Sends(<<"package">>)
    BY <1>4 DEF Package, Kinds
  <2>2. QED
    BY <1>1, <2>1
<1>5. CASE \E kind \in Frames : Frame(kind)
  <2>1. PICK kind \in Frames : Frame(kind)
    BY <1>5
  <2>2. <<kind>> \in Seq(Kinds) /\ Sends(<<kind>>)
    BY <2>1 DEF Frame, Kinds
  <2>3. QED
    BY <1>1, <2>2
<1>6. QED
  BY <1>2, <1>3, <1>4, <1>5 DEF ClientStep

\* What the two ways to take a reply into the buffer have in common.
LEMMA TakeFacts ==
    ASSUME TypeOK, Lists, IOSend \/ IOSendFull
    PROVE  /\ toIO # <<>>
           /\ Head(toIO) \in Positions
           /\ toIO' = Tail(toIO)
           /\ toIO' \in Seq(Positions)
           /\ pc' = "batch"
           /\ listed' \in BOOLEAN
           /\ UNCHANGED <<client, sent, nread, flag, status, toMain, up>>
<1>1. toIO # <<>> /\ toIO' = Tail(toIO) /\ pc' = "batch"
        /\ UNCHANGED <<client, sent, nread, flag, status, toMain, up>>
  BY DEF IOSend, IOSendFull, TakesReply, clientVars
<1>2. listed' \in BOOLEAN
  BY DEF IOSend, IOSendFull, TypeOK
<1>3. Head(toIO) \in Positions /\ Tail(toIO) \in Seq(Positions)
  BY <1>1, ConcatAppend DEF Lists
<1>4. QED
  BY <1>1, <1>2, <1>3

\* Writing the buffer out adds it to what was written, or nothing.
LEMMA ToSendFacts ==
    ASSUME Lists, toSend(sendBuf)
    PROVE  /\ replied' \in Seq(Positions)
           /\ status = "connected" => replied' = replied \o sendBuf
<1>1. replied' = replied \/ replied' = replied \o sendBuf
  BY DEF toSend
<1>2. replied \in Seq(Positions) /\ replied \o sendBuf \in Seq(Positions)
  BY ConcatIn DEF Lists
<1>3. replied' \in Seq(Positions)
  <2>1. CASE replied' = replied
    BY <1>2, <2>1
  <2>2. CASE replied' = replied \o sendBuf
    BY <1>2, <2>2
  <2>3. QED
    BY <1>1, <2>1, <2>2
<1>4. status = "connected" => replied' = replied \o sendBuf
  BY DEF toSend
<1>5. QED
  BY <1>3, <1>4

-----------------------------------------------------------------------------
\* Room in the buffer: ReplyLen bytes for one more.
LEMMA BytesAppend ==
    ASSUME NEW s \in Seq(Positions), NEW x \in Positions
    PROVE  /\ Bytes(s) \in Nat
           /\ Bytes(Append(s, x)) = Bytes(s) + ReplyLen
<1>1. Len(Append(s, x)) = Len(s) + 1 /\ Len(s) \in Nat
  OBVIOUS
<1>2. \A k \in Nat : ReplyLen * k \in Nat /\ ReplyLen * (k + 1) = ReplyLen * k + ReplyLen
  BY WebSocketAssumption DEF WebSocketAssumption
<1>3. QED
  BY <1>1, <1>2 DEF Bytes

LEMMA BytesFew ==
    /\ Bytes(<<>>) = 0
    /\ 0 < MAX_BUFFER_SIZE
    /\ \A x : Bytes(<<x>>) < MAX_BUFFER_SIZE
<1>1. /\ ReplyLen \in Nat /\ MAX_BUFFER_SIZE \in Nat /\ ReplyLen + 10 < MAX_BUFFER_SIZE
      /\ ReplyLen * 0 = 0 /\ ReplyLen * 1 = ReplyLen
  BY WebSocketAssumption DEF WebSocketAssumption
<1>2. Len(<<>>) = 0 /\ \A x : Len(<<x>>) = 1
  OBVIOUS
<1>3. QED
  BY <1>1, <1>2 DEF Bytes

\* After each step in which a reply gets into the buffer, there is room.
LEMMA BufferKept ==
    ASSUME TypeOK, Lists, IOSend \/ IOSendFull
    PROVE  sendBuf' \in Seq(Positions) /\ Bytes(sendBuf') < MAX_BUFFER_SIZE
<1>1. Head(toIO) \in Positions
  BY TakeFacts
<1>2. CASE IOSend
  <2>1. sendBuf' = Append(sendBuf, Head(toIO)) /\ Fits
    BY <1>2 DEF IOSend
  <2>2. sendBuf \in Seq(Positions)
    BY DEF Lists
  <2>3. Bytes(sendBuf) \in Nat /\ Bytes(Append(sendBuf, Head(toIO))) = Bytes(sendBuf) + ReplyLen
    BY <1>1, <2>2, BytesAppend
  <2>4. Bytes(Append(sendBuf, Head(toIO))) < MAX_BUFFER_SIZE
    <3>1. wsLenAdd \in Nat
      BY DEF wsLenAdd
    <3>2. ReplyLen \in Nat /\ MAX_BUFFER_SIZE \in Nat
      BY WebSocketAssumption DEF WebSocketAssumption
    <3>3. ~(ReplyLen + Bytes(sendBuf) + wsLenAdd >= MAX_BUFFER_SIZE)
      BY <2>1 DEF Fits
    <3>4. QED
      BY <2>3, <3>1, <3>2, <3>3
  <2>5. Append(sendBuf, Head(toIO)) \in Seq(Positions)
    BY <1>1, <2>2
  <2>6. QED
    BY <2>1, <2>4, <2>5
<1>3. CASE IOSendFull
  <2>1. sendBuf' = <<Head(toIO)>>
    BY <1>3 DEF IOSendFull
  <2>2. <<Head(toIO)>> \in Seq(Positions)
    BY <1>1
  <2>3. QED
    BY <2>1, <2>2, BytesFew
<1>4. QED
  BY <1>2, <1>3

-----------------------------------------------------------------------------
\* Every step keeps the types.
LEMMA InitTypeOK == Init => TypeOK
<1> SUFFICES ASSUME Init PROVE TypeOK
  OBVIOUS
<1>1. /\ sent = <<>> /\ toMain = <<>> /\ toIO = <<>> /\ sendBuf = <<>>
      /\ up = <<>> /\ replied = <<>>
  BY DEF Init
<1>2. <<>> \in Seq(Kinds) /\ <<>> \in Seq(1..MaxUnits) /\ Len(<<>>) = 0
  OBVIOUS
<1>3. /\ sent \in Seq(Kinds) /\ Len(sent) = 0
      /\ toMain \in Seq(1..MaxUnits) /\ toIO \in Seq(1..MaxUnits)
      /\ sendBuf \in Seq(1..MaxUnits) /\ up \in Seq(1..MaxUnits)
      /\ replied \in Seq(1..MaxUnits)
  BY <1>1, <1>2
<1>4. Bytes(sendBuf) < MAX_BUFFER_SIZE
  BY <1>1, BytesFew
<1>5. Len(sent) <= MaxUnits /\ nread \in 0..Len(sent)
  <2>1. MaxUnits \in Nat
    BY WebSocketAssumption DEF WebSocketAssumption
  <2>2. QED
    BY <1>3, <2>1 DEF Init
<1>6. QED
  BY <1>3, <1>4, <1>5 DEF Init, TypeOK

LEMMA NextTypeOK == TypeOK /\ [Next]_vars => TypeOK'
<1> SUFFICES ASSUME TypeOK, [Next]_vars PROVE TypeOK'
  OBVIOUS
<1>1. Lists
  BY DEF TypeOK, Lists, Positions
<1>2. CASE UNCHANGED vars
  BY <1>2 DEF TypeOK, vars, clientVars, ioVars, Bytes
<1>3. CASE ClientStep
  <2>1. /\ sent' \in Seq(Kinds) /\ Len(sent') \in Nat
        /\ Len(sent) <= Len(sent') /\ Len(sent') <= MaxUnits
        /\ UNCHANGED <<client, nread, flag, status, toMain, toIO, pc, listed,
                       sendBuf, out, replied, up>>
    BY <1>3, ClientFacts
  <2>2. Len(sent) \in Nat
    BY DEF TypeOK
  <2>3. nread' \in 0..Len(sent')
    <3>1. nread \in 0..Len(sent) /\ nread' = nread
      BY <2>1 DEF TypeOK
    <3>2. QED
      BY <2>1, <2>2, <3>1
  <2>4. QED
    BY <2>1, <2>3 DEF TypeOK, Bytes
<1>4. ASSUME NEW n \in 1..MaxUnits,
             DoHandShake(n) \/ NotWebSocket(n) \/ ReadPlain(n) \/ ReadFrame(n)
      PROVE  TypeOK'
  <2>1. /\ GoneUp(n) \in Seq(Positions)
        /\ up' = up \o GoneUp(n)
        /\ toMain' = toMain \o GoneUp(n)
        /\ nread' = nread + n
        /\ nread + n <= Len(sent)
        /\ status' \in {"connected", "while_Close"}
        /\ UNCHANGED <<client, sent, toIO, pc, listed, sendBuf, out, replied>>
    BY <1>1, <1>4, ReadFacts
  <2>2. up' \in Seq(Positions) /\ toMain' \in Seq(Positions)
    BY <1>1, <2>1, ConcatIn DEF Lists
  <2>3. nread' \in 0..Len(sent')
    <3>1. nread \in Nat /\ Len(sent) \in Nat /\ MaxUnits \in Nat /\ n \in Nat
      BY WebSocketAssumption DEF WebSocketAssumption, TypeOK
    <3>2. nread + n \in 0..Len(sent)
      BY <2>1, <3>1
    <3>3. QED
      BY <2>1, <3>2
  <2>4. flag' \in {"wf_unknown", "notWebSocket", "isWebSocket"}
    BY <1>4 DEF DoHandShake, NotWebSocket, ReadPlain, ReadFrame, TypeOK
  <2>5. QED
    BY <2>1, <2>2, <2>3, <2>4 DEF TypeOK, Positions, Bytes
<1>5. CASE MainReply
  <2>1. toMain # <<>> /\ toMain' = Tail(toMain) /\ toIO' = Append(toIO, Head(toMain))
          /\ UNCHANGED <<client, sent, nread, flag, status, pc, listed, sendBuf,
                         replied, up>>
    BY <1>5 DEF MainReply, clientVars
  <2>2. toMain' \in Seq(Positions) /\ toIO' \in Seq(Positions)
    BY <1>1, <2>1, ConcatAppend DEF Lists
  <2>3. QED
    BY <2>1, <2>2 DEF TypeOK, Positions, Bytes
<1>6. CASE IOSend \/ IOSendFull
  <2>1. /\ toIO' \in Seq(Positions) /\ pc' = "batch" /\ listed' \in BOOLEAN
        /\ UNCHANGED <<client, sent, nread, flag, status, toMain, up>>
    BY <1>1, <1>6, TakeFacts
  <2>2. sendBuf' \in Seq(Positions) /\ Bytes(sendBuf') < MAX_BUFFER_SIZE
    BY <1>1, <1>6, BufferKept
  <2>3. replied' \in Seq(Positions)
    <3>1. CASE IOSend
      BY <1>1, <3>1 DEF IOSend, Lists
    <3>2. CASE IOSendFull
      <4>1. toSend(sendBuf)
        BY <3>2 DEF IOSendFull
      <4>2. QED
        BY <1>1, <4>1, ToSendFacts
    <3>3. QED
      BY <1>6, <3>1, <3>2
  <2>4. (Bytes(sendBuf) < MAX_BUFFER_SIZE)'
    BY <2>2 DEF Bytes
  <2>5. QED
    BY <2>1, <2>2, <2>3, <2>4 DEF TypeOK, Positions
<1>7. CASE IOFlush
  <2>1. pc' = "idle" /\ listed' = FALSE
          /\ UNCHANGED <<client, sent, nread, flag, status, toMain, toIO, up>>
    BY <1>7 DEF IOFlush, clientVars
  <2>2. CASE listed
    <3>1. toSend(sendBuf) /\ sendBuf' = <<>>
      BY <1>7, <2>2 DEF IOFlush
    <3>2. replied' \in Seq(Positions)
      BY <1>1, <3>1, ToSendFacts
    <3>3. sendBuf' \in Seq(Positions) /\ Bytes(sendBuf') < MAX_BUFFER_SIZE
      BY <3>1, BytesFew
    <3>4. (Bytes(sendBuf) < MAX_BUFFER_SIZE)'
      BY <3>3 DEF Bytes
    <3>5. QED
      BY <2>1, <3>2, <3>3, <3>4 DEF TypeOK, Positions
  <2>3. CASE ~listed
    <3>1. sendBuf' = sendBuf /\ replied' = replied
      BY <1>7, <2>3 DEF IOFlush
    <3>2. QED
      BY <2>1, <3>1 DEF TypeOK, Bytes
  <2>4. QED
    BY <2>2, <2>3
<1>8. QED
  BY <1>2, <1>3, <1>4, <1>5, <1>6, <1>7 DEF Next, ClientStep, ReadCallback

\* The variables keep their types.
THEOREM TypeCorrect == Spec => []TypeOK
<1>1. QED
  BY InitTypeOK, NextTypeOK, PTL DEF Spec

-----------------------------------------------------------------------------
\* The order of the replies does not change when one moves on by a place.
LEMMA MoveOn ==
    ASSUME NEW r \in Seq(Positions), NEW a \in Seq(Positions),
           NEW b \in Seq(Positions), b # <<>>
    PROVE  (r \o Append(a, Head(b))) \o Tail(b) = (r \o a) \o b
<1>1. /\ Tail(b) \in Seq(Positions)
      /\ Append(a, Head(b)) \in Seq(Positions)
      /\ a \o b = Append(a, Head(b)) \o Tail(b)
  BY ConcatAppend
<1>2. (r \o Append(a, Head(b))) \o Tail(b) = r \o (Append(a, Head(b)) \o Tail(b))
  BY <1>1, ConcatAssoc
<1>3. (r \o a) \o b = r \o (a \o b)
  BY ConcatAssoc
<1>4. QED
  BY <1>1, <1>2, <1>3

\* The first element of b may as well stand alone in front of the rest.
LEMMA MoveFirst ==
    ASSUME NEW r \in Seq(Positions), NEW b \in Seq(Positions), b # <<>>
    PROVE  (r \o <<Head(b)>>) \o Tail(b) = r \o b
<1>1. /\ Tail(b) \in Seq(Positions)
      /\ <<Head(b)>> \in Seq(Positions)
      /\ b = <<Head(b)>> \o Tail(b)
  BY ConcatAppend
<1>2. (r \o <<Head(b)>>) \o Tail(b) = r \o (<<Head(b)>> \o Tail(b))
  BY <1>1, ConcatAssoc
<1>3. QED
  BY <1>1, <1>2

\* No step loses, repeats or reorders a reply while the connection is up.
LEMMA NextReplies == TypeOK /\ RepliesKept /\ [Next]_vars => RepliesKept'
<1> SUFFICES ASSUME TypeOK, RepliesKept, [Next]_vars, status' = "connected"
             PROVE  replied' \o sendBuf' \o toIO' \o toMain' = up'
  BY DEF RepliesKept
<1>1. Lists
  BY DEF TypeOK, Lists, Positions
<1>2. /\ up \in Seq(Positions) /\ toMain \in Seq(Positions) /\ toIO \in Seq(Positions)
      /\ sendBuf \in Seq(Positions) /\ replied \in Seq(Positions)
      /\ replied \o sendBuf \in Seq(Positions)
      /\ (replied \o sendBuf) \o toIO \in Seq(Positions)
  BY <1>1, ConcatIn DEF Lists
<1>3. CASE UNCHANGED vars
  BY <1>3 DEF RepliesKept, vars, clientVars, ioVars
<1>4. CASE ClientStep
  <2>1. UNCHANGED <<status, toMain, toIO, sendBuf, replied, up>>
    BY <1>4, ClientFacts
  <2>2. QED
    BY <2>1 DEF RepliesKept
<1>5. ASSUME NEW n \in 1..MaxUnits,
             DoHandShake(n) \/ NotWebSocket(n) \/ ReadPlain(n) \/ ReadFrame(n)
      PROVE  replied' \o sendBuf' \o toIO' \o toMain' = up'
  <2>1. /\ GoneUp(n) \in Seq(Positions)
        /\ up' = up \o GoneUp(n)
        /\ toMain' = toMain \o GoneUp(n)
        /\ status = "connected"
        /\ UNCHANGED <<toIO, sendBuf, replied>>
    BY <1>1, <1>5, ReadFacts
  <2>2. ((replied \o sendBuf) \o toIO) \o toMain = up
    BY <2>1 DEF RepliesKept
  <2>3. (((replied \o sendBuf) \o toIO) \o toMain) \o GoneUp(n)
            = ((replied \o sendBuf) \o toIO) \o (toMain \o GoneUp(n))
    BY <1>2, <2>1, ConcatAssoc, ZenonT(60)
  <2>4. QED
    BY <2>1, <2>2, <2>3
<1>6. CASE MainReply
  <2>1. toMain # <<>> /\ toMain' = Tail(toMain) /\ toIO' = Append(toIO, Head(toMain))
          /\ UNCHANGED <<status, sendBuf, replied, up>>
    BY <1>6 DEF MainReply
  <2>2. ((replied \o sendBuf) \o Append(toIO, Head(toMain))) \o Tail(toMain)
            = ((replied \o sendBuf) \o toIO) \o toMain
    BY <1>2, <2>1, MoveOn, ZenonT(60)
  <2>3. QED
    BY <2>1, <2>2 DEF RepliesKept
<1>7. CASE IOSend
  <2>1. toIO # <<>> /\ toIO' = Tail(toIO) /\ UNCHANGED <<status, toMain, up>>
    BY <1>1, <1>7, TakeFacts
  <2>2. sendBuf' = Append(sendBuf, Head(toIO)) /\ replied' = replied
    BY <1>7 DEF IOSend
  <2>3. (replied \o Append(sendBuf, Head(toIO))) \o Tail(toIO)
            = (replied \o sendBuf) \o toIO
    BY <1>2, <2>1, MoveOn, ZenonT(60)
  <2>4. QED
    BY <2>1, <2>2, <2>3 DEF RepliesKept
<1>8. CASE IOSendFull
  <2>1. toIO # <<>> /\ toIO' = Tail(toIO) /\ UNCHANGED <<status, toMain, up>>
    BY <1>1, <1>8, TakeFacts
  <2>2. sendBuf' = <<Head(toIO)>> /\ toSend(sendBuf)
    BY <1>8 DEF IOSendFull
  <2>3. replied' = replied \o sendBuf
    BY <1>1, <2>1, <2>2, ToSendFacts
  <2>4. ((replied \o sendBuf) \o <<Head(toIO)>>) \o Tail(toIO)
            = (replied \o sendBuf) \o toIO
    BY <1>2, <2>1, MoveFirst
  <2>5. QED
    BY <2>1, <2>2, <2>3, <2>4 DEF RepliesKept
<1>9. CASE IOFlush
  <2>1. UNCHANGED <<status, toMain, toIO, up>>
    BY <1>9 DEF IOFlush
  <2>2. CASE listed
    <3>1. toSend(sendBuf) /\ sendBuf' = <<>>
      BY <1>9, <2>2 DEF IOFlush
    <3>2. replied' = replied \o sendBuf
      BY <1>1, <2>1, <3>1, ToSendFacts
    <3>3. (replied \o sendBuf) \o <<>> = replied \o sendBuf
      BY <1>2, EmptyConcat
    <3>4. QED
      BY <2>1, <3>1, <3>2, <3>3 DEF RepliesKept
  <2>3. CASE ~listed
    BY <1>9, <2>1, <2>3 DEF IOFlush, RepliesKept
  <2>4. QED
    BY <2>2, <2>3
<1>10. QED
  BY <1>3, <1>4, <1>5, <1>6, <1>7, <1>8, <1>9 DEF Next, ClientStep, ReadCallback

\* While a connection is up, every package that went up is in exactly one
\* place, in order, or has its reply written, for any number of units and any
\* size of the buffer.
THEOREM RepliesSafe == Spec => []RepliesKept
<1>1. Init => RepliesKept
  <2> SUFFICES ASSUME Init PROVE RepliesKept
    OBVIOUS
  <2>1. <<>> \o <<>> = <<>>
    OBVIOUS
  <2>2. QED
    BY <2>1 DEF Init, RepliesKept
<1>2. QED
  BY <1>1, NextReplies, TypeCorrect, PTL DEF Spec

\* The socket is listed while there is something in the buffer: a buffer that
\* is too full for a reply is not empty, so its socket was listed before.
LEMMA NextListed == TypeOK /\ RepliesListed /\ [Next]_vars => RepliesListed'
<1> SUFFICES ASSUME TypeOK, RepliesListed, [Next]_vars PROVE RepliesListed'
  OBVIOUS
<1>1. Lists
  BY DEF TypeOK, Lists, Positions
<1>2. ASSUME UNCHANGED <<sendBuf, pc, listed>> PROVE RepliesListed'
  BY <1>2 DEF RepliesListed
<1>3. CASE UNCHANGED vars
  BY <1>2, <1>3 DEF vars, ioVars
<1>4. CASE ClientStep
  BY <1>2, <1>4, ClientFacts
<1>5. CASE ReadCallback \/ MainReply
  <2>1. UNCHANGED <<sendBuf, pc, listed>>
    BY <1>5 DEF ReadCallback, DoHandShake, NotWebSocket, ReadPlain, ReadFrame,
                MainReply, ioVars
  <2>2. QED
    BY <1>2, <2>1
<1>6. CASE IOSend
  BY <1>6 DEF IOSend, TakesReply, RepliesListed
<1>7. CASE IOSendFull
  <2>1. ~Fits /\ pc' = "batch" /\ listed' = listed
    BY <1>7 DEF IOSendFull, TakesReply
  <2>2. CASE sendBuf = <<>>
    <3>1. Bytes(sendBuf) = 0
      BY <2>2, WebSocketAssumption DEF Bytes, WebSocketAssumption
    <3>2. QED
      BY <2>1, <3>1, WebSocketAssumption DEF Fits, wsLenAdd, WebSocketAssumption
  <2>3. CASE sendBuf # <<>>
    BY <2>1, <2>3 DEF RepliesListed
  <2>4. QED
    BY <2>2, <2>3
<1>8. CASE IOFlush
  BY <1>8 DEF IOFlush, RepliesListed
<1>9. QED
  BY <1>3, <1>4, <1>5, <1>6, <1>7, <1>8 DEF Next, ClientStep

\* No reply stays in the send buffer beyond its batch (pairCallback, which does
\* not list the socket where it finds the buffer full).
THEOREM ListedSafe == Spec => []RepliesListed
<1>1. Init => RepliesListed
  BY DEF Init, RepliesListed
<1>2. QED
  BY <1>1, NextListed, TypeCorrect, PTL DEF Spec

-----------------------------------------------------------------------------
\* What a client makes of the frames.

\* Before the first read nothing goes out.
Quiet ==
    flag = "wf_unknown" =>
        /\ up = <<>> /\ toMain = <<>> /\ toIO = <<>>
        /\ out = <<>>
        /\ pc = "idle"

Written == [head : Seq(Nat), body : Seq(Positions)]

OutOK == out \in Seq(Written)

\* One written buffer, as the client sees it.
Readable(w) ==
    IF flag = "isWebSocket"
    THEN /\ w.head[1] = 130
         /\ Len(w.head) = HeadLen(w.head)
         /\ PayloadLen(w.head) = Bytes(w.body)
    ELSE w.head = <<>>

FramesInv == TypeOK /\ Quiet /\ OutOK /\ RepliesReadable

\* A length that fits into the buffer fits into the head, in either form.
LEMMA HeadRead ==
    ASSUME NEW len \in Nat, len < 65536
    PROVE  /\ FrameHead(len) \in Seq(Nat)
           /\ FrameHead(len)[1] = 130
           /\ Len(FrameHead(len)) = HeadLen(FrameHead(len))
           /\ PayloadLen(FrameHead(len)) = len
<1>1. CASE len < 126
  <2>1. FrameHead(len) = <<130, len>>
    BY <1>1 DEF FrameHead
  <2>2. QED
    BY <1>1, <2>1 DEF HeadLen, PayloadLen
<1>2. CASE ~(len < 126)
  <2>1. FrameHead(len) = <<130, 126, len \div 256, len % 256>>
    BY <1>2 DEF FrameHead
  <2>2. len \div 256 \in Nat /\ len % 256 \in Nat /\ (len \div 256) * 256 + (len % 256) = len
    OBVIOUS
  <2>3. <<130, 126, len \div 256, len % 256>> \in Seq(Nat)
    BY <2>2
  <2>4. Len(FrameHead(len)) = 4 /\ FrameHead(len)[2] = 126 /\ FrameHead(len)[1] = 130
          /\ FrameHead(len)[3] = len \div 256 /\ FrameHead(len)[4] = len % 256
    BY <2>1
  <2>5. HeadLen(FrameHead(len)) = 4
    BY <2>4 DEF HeadLen
  <2>6. PayloadLen(FrameHead(len)) = (len \div 256) * 256 + (len % 256)
    BY <2>4 DEF PayloadLen
  <2>7. QED
    BY <2>1, <2>2, <2>3, <2>4, <2>5, <2>6
<1>3. QED
  BY <1>1, <1>2

\* toSend keeps what was written readable.
LEMMA ToSendReadable ==
    ASSUME FramesInv, toSend(sendBuf), flag' = flag
    PROVE  OutOK' /\ RepliesReadable'
<1>1. sendBuf \in Seq(Positions) /\ Bytes(sendBuf) < MAX_BUFFER_SIZE /\ OutOK /\ RepliesReadable
  BY DEF FramesInv, TypeOK, Positions
<1>2. CASE status # "connected"
  <2>1. out' = out
    BY <1>2 DEF toSend
  <2>2. QED
    BY <1>1, <2>1 DEF OutOK, RepliesReadable, Bytes
<1>3. CASE status = "connected"
  <2> DEFINE head == IF flag = "isWebSocket" THEN FrameHead(Bytes(sendBuf)) ELSE <<>>
             w == [head |-> head, body |-> sendBuf]
  <2>1. out' = Append(out, w)
    BY <1>3 DEF toSend
  <2>2. Bytes(sendBuf) \in Nat /\ Bytes(sendBuf) < 65536
    <3>1. Bytes(sendBuf) \in Nat
      <4>1. Len(sendBuf) \in Nat /\ ReplyLen \in Nat
        BY <1>1, WebSocketAssumption DEF WebSocketAssumption
      <4>2. \A k \in Nat : ReplyLen * k \in Nat
        BY <4>1
      <4>3. QED
        BY <4>1, <4>2 DEF Bytes
    <3>2. MAX_BUFFER_SIZE \in Nat /\ MAX_BUFFER_SIZE <= 65536
      BY WebSocketAssumption DEF WebSocketAssumption
    <3>3. QED
      BY <1>1, <3>1, <3>2
  <2>3. head \in Seq(Nat) /\ Readable(w)
    <3>1. CASE flag = "isWebSocket"
      <4>1. head = FrameHead(Bytes(sendBuf))
        BY <3>1
      <4>2. /\ head \in Seq(Nat) /\ head[1] = 130 /\ Len(head) = HeadLen(head)
            /\ PayloadLen(head) = Bytes(sendBuf)
        BY <2>2, <4>1, HeadRead
      <4>3. w.head = head /\ w.body = sendBuf
        OBVIOUS
      <4> HIDE DEF head, w
      <4>4. QED
        BY <3>1, <4>2, <4>3 DEF Readable
    <3>2. CASE flag # "isWebSocket"
      BY <3>2 DEF Readable
    <3>3. QED
      BY <3>1, <3>2
  <2>4. w \in Written
    BY <1>1, <2>3 DEF Written
  <2> HIDE DEF w
  <2>5. out \in Seq(Written)
    BY <1>1 DEF OutOK
  <2>6. Append(out, w) \in Seq(Written)
    BY <2>4, <2>5
  <2>7. \A i \in DOMAIN Append(out, w) : Readable(Append(out, w)[i])
    <3>1. \A i \in DOMAIN out : Readable(out[i])
      BY <1>1 DEF RepliesReadable, Readable
    <3>2. \A i \in DOMAIN Append(out, w) :
              (i \in DOMAIN out /\ Append(out, w)[i] = out[i]) \/ Append(out, w)[i] = w
      BY <2>4, <2>5
    <3>3. QED
      BY <2>3, <3>1, <3>2
  <2>8. OutOK'
    BY <2>1, <2>6 DEF OutOK
  <2>9. RepliesReadable'
    BY <2>1, <2>7 DEF RepliesReadable, Readable, Bytes
  <2>10. QED
    BY <2>8, <2>9
<1>4. QED
  BY <1>2, <1>3

LEMMA InitFrames == Init => FramesInv
<1> SUFFICES ASSUME Init PROVE FramesInv
  OBVIOUS
<1>1. out = <<>> /\ Quiet
  BY DEF Init, Quiet
<1>2. <<>> \in Seq(Written) /\ DOMAIN <<>> = {}
  OBVIOUS
<1>3. OutOK /\ RepliesReadable
  BY <1>1, <1>2 DEF OutOK, RepliesReadable
<1>4. QED
  BY <1>1, <1>3, InitTypeOK DEF FramesInv

LEMMA NextFrames == FramesInv /\ [Next]_vars => FramesInv'
<1> SUFFICES ASSUME FramesInv, [Next]_vars PROVE Quiet' /\ OutOK' /\ RepliesReadable'
  BY NextTypeOK DEF FramesInv
<1>1. TypeOK /\ Quiet /\ OutOK /\ RepliesReadable
  BY DEF FramesInv
<1>2. Lists
  BY <1>1 DEF TypeOK, Lists, Positions
<1>3. CASE UNCHANGED vars
  BY <1>1, <1>3 DEF Quiet, OutOK, RepliesReadable, vars, clientVars, ioVars, Bytes
<1>4. CASE ClientStep
  <2>1. UNCHANGED <<flag, toMain, toIO, pc, out, up>>
    BY <1>1, <1>4, ClientFacts
  <2>2. QED
    BY <1>1, <2>1 DEF Quiet, OutOK, RepliesReadable, Bytes
<1>5. ASSUME NEW n \in 1..MaxUnits,
             DoHandShake(n) \/ NotWebSocket(n) \/ ReadPlain(n) \/ ReadFrame(n)
      PROVE  Quiet' /\ OutOK' /\ RepliesReadable'
  <2>1. out' = out
    BY <1>5 DEF DoHandShake, NotWebSocket, ReadPlain, ReadFrame, ioVars
  <2>2. flag' # "wf_unknown" /\ (flag' = flag \/ flag = "wf_unknown")
    BY <1>5 DEF DoHandShake, NotWebSocket, ReadPlain, ReadFrame
  <2>3. RepliesReadable'
    <3>1. CASE flag' = flag
      BY <1>1, <2>1, <3>1 DEF RepliesReadable, Bytes
    <3>2. CASE flag = "wf_unknown"
      <4>1. out' = <<>>
        BY <1>1, <2>1, <3>2 DEF Quiet
      <4>2. QED
        BY <4>1 DEF RepliesReadable
    <3>3. QED
      BY <2>2, <3>1, <3>2
  <2>4. Quiet' /\ OutOK'
    BY <1>1, <2>1, <2>2 DEF Quiet, OutOK
  <2>5. QED
    BY <2>3, <2>4
<1>6. CASE MainReply
  <2>1. toMain # <<>> /\ UNCHANGED <<flag, out>>
    BY <1>6 DEF MainReply
  <2>2. flag # "wf_unknown"
    BY <1>1, <2>1 DEF Quiet
  <2>3. QED
    BY <1>1, <2>1, <2>2 DEF Quiet, OutOK, RepliesReadable, Bytes
<1>7. CASE IOSend \/ IOSendFull
  <2>1. toIO # <<>> /\ flag' = flag
    BY <1>1, <1>2, <1>7, TakeFacts
  <2>2. flag # "wf_unknown"
    BY <1>1, <2>1 DEF Quiet
  <2>3. CASE IOSend
    <3>1. out' = out
      BY <2>3 DEF IOSend
    <3>2. QED
      BY <1>1, <2>1, <2>2, <3>1 DEF Quiet, OutOK, RepliesReadable, Bytes
  <2>4. CASE IOSendFull
    <3>1. toSend(sendBuf)
      BY <2>4 DEF IOSendFull
    <3>2. OutOK' /\ RepliesReadable'
      BY <2>1, <3>1, ToSendReadable
    <3>3. QED
      BY <2>1, <2>2, <3>2 DEF Quiet
  <2>5. QED
    BY <1>7, <2>3, <2>4
<1>8. CASE IOFlush
  <2>1. pc = "batch" /\ flag' = flag
    BY <1>8 DEF IOFlush
  <2>2. flag # "wf_unknown"
    BY <1>1, <2>1 DEF Quiet
  <2>3. CASE listed
    <3>1. toSend(sendBuf)
      BY <1>8, <2>3 DEF IOFlush
    <3>2. OutOK' /\ RepliesReadable'
      BY <2>1, <3>1, ToSendReadable
    <3>3. QED
      BY <2>1, <2>2, <3>2 DEF Quiet
  <2>4. CASE ~listed
    <3>1. out' = out
      BY <1>8, <2>4 DEF IOFlush
    <3>2. QED
      BY <1>1, <2>1, <2>2, <3>1 DEF Quiet, OutOK, RepliesReadable, Bytes
  <2>5. QED
    BY <2>3, <2>4
<1>9. QED
  BY <1>3, <1>4, <1>5, <1>6, <1>7, <1>8 DEF Next, ClientStep, ReadCallback

\* A client can tell where each frame ends, for every length of a reply and
\* every size of the buffer up to 65536 bytes.
THEOREM ReadableSafe == Spec => []RepliesReadable
<1>1. FramesInv => RepliesReadable
  BY DEF FramesInv
<1>2. QED
  BY <1>1, InitFrames, NextFrames, PTL DEF Spec

-----------------------------------------------------------------------------
\* What the client has sent, and what was read of it.

\* A connection on which packages were sent plainly is never a websocket one.
Begun == flag = "isWebSocket" => Len(sent) > 0 /\ sent[1] # "package"

AllPackages ==
    (Len(sent) > 0 /\ sent[1] = "package") =>
        \A i \in 1..Len(sent) : sent[i] = "package"

\* Before the answer to a handshake nothing else is sent.
ShortHello ==
    flag # "isWebSocket" =>
        /\ Len(sent) > 0 /\ sent[1] = "hello" => Len(sent) = 1
        /\ Len(sent) > 0 /\ sent[1] = "get" => Len(sent) = 2
        /\ \A i \in 1..Len(sent) : sent[i] # "binaryFrame"

Unread == flag = "wf_unknown" => nread = 0

\* A connection that is not up any more has been sent a close frame.
CloseSent ==
    status # "connected" => \E j \in 1..Len(sent) : sent[j] = "closeFrame"

\* A waiting client has at most one unit under way.
OneUnread ==
    (client = "waits" /\ flag = "isWebSocket") =>
        /\ Len(sent) <= nread + 1
        /\ \A i \in 1..Len(sent) :
               i > nread => sent[i] \in {"binaryFrame", "closeFrame"}

SentInv == Begun /\ AllPackages /\ ShortHello /\ Unread /\ CloseSent /\ OneUnread

UpInOrder ==
    \A i \in 1..Len(up) :
        /\ up[i] <= nread
        /\ sent[up[i]] \in {"binaryFrame", "package"}
        /\ i > 1 => up[i - 1] < up[i]

NoneDropped ==
    client = "waits" =>
        \A j \in 1..nread : sent[j] = "binaryFrame" =>
            \E i \in 1..Len(up) : up[i] = j

IInv == TypeOK /\ RepliesKept /\ SentInv /\ UpInOrder /\ NoneDropped

LEMMA InitUp == Init => IInv
<1> SUFFICES ASSUME Init PROVE IInv
  OBVIOUS
<1>1. /\ sent = <<>> /\ up = <<>> /\ nread = 0 /\ flag = "wf_unknown"
      /\ status = "connected" /\ replied = <<>> /\ sendBuf = <<>>
      /\ toIO = <<>> /\ toMain = <<>>
  BY DEF Init
<1>2. Len(<<>>) = 0 /\ <<>> \o <<>> = <<>>
  OBVIOUS
<1>3. Len(sent) = 0 /\ Len(up) = 0
  BY <1>1, <1>2
<1>4. SentInv
  BY <1>1, <1>3 DEF SentInv, Begun, AllPackages, ShortHello, Unread, CloseSent, OneUnread
<1>5. UpInOrder /\ NoneDropped
  BY <1>1, <1>3 DEF UpInOrder, NoneDropped
<1>6. RepliesKept
  BY <1>1, <1>2 DEF RepliesKept
<1>7. QED
  BY <1>4, <1>5, <1>6, InitTypeOK DEF IInv

\* What the client adds.
LEMMA ClientAdds ==
    ASSUME TypeOK, ClientStep
    PROVE  \/ sent = <<>> /\ sent' = <<"hello">>
           \/ sent = <<>> /\ sent' = <<"get", "rest">>
           \/ /\ \A i \in 1..Len(sent) : sent[i] = "package"
              /\ sent' = Append(sent, "package")
           \/ /\ flag = "isWebSocket"
              /\ \A i \in 1..Len(sent) : sent[i] # "closeFrame"
              /\ \E kind \in Frames :
                     /\ sent' = Append(sent, kind)
                     /\ client = "waits" =>
                            kind \in {"binaryFrame", "closeFrame"} /\ Answered
<1>1. sent \in Seq(Kinds) /\ DOMAIN sent = 1..Len(sent)
  BY DEF TypeOK
<1>2. \A u \in Kinds : sent \o <<u>> = Append(sent, u)
  BY <1>1
<1>3. CASE Hello
  <2>1. sent = <<>> /\ sent' = sent \o <<"hello">>
    BY <1>3 DEF Hello, Sends
  <2>2. QED
    BY <2>1
<1>4. CASE HelloInParts
  <2>1. sent = <<>> /\ sent' = sent \o <<"get", "rest">>
    BY <1>4 DEF HelloInParts, Sends
  <2>2. QED
    BY <2>1
<1>5. CASE Package
  <2>1. sent' = sent \o <<"package">> /\ \A i \in DOMAIN sent : sent[i] = "package"
    BY <1>5 DEF Package, Sends
  <2>2. "package" \in Kinds
    BY DEF Kinds
  <2>3. QED
    BY <1>1, <1>2, <2>1, <2>2
<1>6. CASE \E kind \in Frames : Frame(kind)
  <2>1. PICK kind \in Frames : Frame(kind)
    BY <1>6
  <2>2. /\ flag = "isWebSocket"
        /\ \A i \in DOMAIN sent : sent[i] # "closeFrame"
        /\ client = "waits" => kind \in {"binaryFrame", "closeFrame"} /\ Answered
        /\ sent' = sent \o <<kind>>
    BY <2>1 DEF Frame, Sends
  <2>3. kind \in Kinds
    BY DEF Kinds
  <2>4. sent' = Append(sent, kind)
    BY <1>2, <2>2, <2>3
  <2>5. QED
    BY <1>1, <2>2, <2>4
<1>7. QED
  BY <1>3, <1>4, <1>5, <1>6 DEF ClientStep

\* Every reply of a connection that is up answers a package that was read.
LEMMA RepliedRead ==
    ASSUME IInv, status = "connected", NEW k \in DOMAIN replied
    PROVE  replied[k] <= nread
<1>1. Lists /\ UpInOrder
  BY DEF IInv, TypeOK, Lists, Positions
<1>2. ((replied \o sendBuf) \o toIO) \o toMain = up
  BY DEF IInv, RepliesKept
<1>3. \A a, b \in Seq(Positions) : \A j \in 1..Len(a) :
          j \in 1..Len(a \o b) /\ (a \o b)[j] = a[j]
  OBVIOUS
<1>4. k \in 1..Len(replied)
  BY <1>1 DEF Lists
<1>5. replied \o sendBuf \in Seq(Positions) /\ (replied \o sendBuf) \o toIO \in Seq(Positions)
  BY <1>1, ConcatIn DEF Lists
<1>6. k \in 1..Len(replied \o sendBuf) /\ (replied \o sendBuf)[k] = replied[k]
  BY <1>1, <1>3, <1>4 DEF Lists
<1>7. k \in 1..Len((replied \o sendBuf) \o toIO)
        /\ ((replied \o sendBuf) \o toIO)[k] = replied[k]
  BY <1>1, <1>3, <1>5, <1>6 DEF Lists
<1>8. k \in 1..Len(up) /\ up[k] = replied[k]
  BY <1>1, <1>2, <1>3, <1>5, <1>7 DEF Lists
<1>9. QED
  BY <1>1, <1>8 DEF UpInOrder

\* A step of the client keeps what is known of its units.
LEMMA ClientSent ==
    ASSUME IInv, ClientStep
    PROVE  SentInv'
<1>1. TypeOK /\ SentInv /\ UpInOrder
  BY DEF IInv
<1>2. UNCHANGED <<client, nread, flag, status, toMain, toIO, replied>>
        /\ sent \in Seq(Kinds) /\ Len(sent) \in Nat /\ nread \in Nat
        /\ nread <= Len(sent)
  BY <1>1, ClientFacts DEF TypeOK
<1>3. ASSUME NEW k, sent' = Append(sent, k)
      PROVE  /\ Len(sent') = Len(sent) + 1
             /\ \A i \in 1..Len(sent) : sent'[i] = sent[i]
             /\ sent'[Len(sent) + 1] = k
             /\ \A i \in 1..Len(sent') : i \in 1..Len(sent) \/ i = Len(sent) + 1
  BY <1>2, <1>3
<1>4. CASE sent = <<>> /\ sent' = <<"hello">>
  <2>1. Len(sent) = 0 /\ Len(sent') = 1 /\ sent'[1] = "hello"
    BY <1>4
  <2>2. flag # "isWebSocket" /\ status = "connected"
    BY <1>1, <2>1 DEF SentInv, Begun, CloseSent, TypeOK
  <2>3. Begun' /\ AllPackages' /\ ShortHello' /\ Unread' /\ CloseSent' /\ OneUnread'
    BY <1>1, <1>2, <2>1, <2>2 DEF SentInv, Begun, AllPackages, ShortHello, Unread,
                                  CloseSent, OneUnread
  <2>4. QED
    BY <2>3 DEF SentInv
<1>5. CASE sent = <<>> /\ sent' = <<"get", "rest">>
  <2>1. Len(sent) = 0 /\ Len(sent') = 2 /\ sent'[1] = "get" /\ sent'[2] = "rest"
    BY <1>5
  <2>2. flag # "isWebSocket" /\ status = "connected"
    BY <1>1, <2>1 DEF SentInv, Begun, CloseSent, TypeOK
  <2>3. Begun' /\ AllPackages' /\ ShortHello' /\ Unread' /\ CloseSent' /\ OneUnread'
    BY <1>1, <1>2, <2>1, <2>2 DEF SentInv, Begun, AllPackages, ShortHello, Unread,
                                  CloseSent, OneUnread
  <2>4. QED
    BY <2>3 DEF SentInv
<1>6. CASE /\ \A i \in 1..Len(sent) : sent[i] = "package"
           /\ sent' = Append(sent, "package")
  <2>1. /\ Len(sent') = Len(sent) + 1
        /\ \A i \in 1..Len(sent') : sent'[i] = "package"
    BY <1>3, <1>6
  <2>2. sent'[1] = "package" /\ Len(sent') > 0
    BY <1>2, <2>1
  <2>3. flag # "isWebSocket"
    <3>1. SUFFICES ASSUME flag = "isWebSocket" PROVE FALSE
      OBVIOUS
    <3>2. Len(sent) > 0 /\ sent[1] # "package"
      BY <1>1, <3>1 DEF SentInv, Begun
    <3>3. QED
      BY <1>2, <1>6, <3>2
  <2>4. status = "connected"
    BY <1>1, <1>2, <1>6 DEF SentInv, CloseSent
  <2>5. Begun' /\ AllPackages' /\ Unread' /\ CloseSent' /\ OneUnread'
    BY <1>1, <1>2, <2>1, <2>2, <2>3, <2>4 DEF SentInv, Begun, AllPackages,
        Unread, CloseSent, OneUnread
  <2>6. ShortHello'
    BY <2>1, <2>2 DEF ShortHello
  <2>7. QED
    BY <2>5, <2>6 DEF SentInv
<1>7. CASE /\ flag = "isWebSocket"
           /\ \A i \in 1..Len(sent) : sent[i] # "closeFrame"
           /\ \E kind \in Frames :
                  /\ sent' = Append(sent, kind)
                  /\ client = "waits" =>
                         kind \in {"binaryFrame", "closeFrame"} /\ Answered
  <2>1. PICK kind \in Frames :
                  /\ sent' = Append(sent, kind)
                  /\ client = "waits" =>
                         kind \in {"binaryFrame", "closeFrame"} /\ Answered
    BY <1>7
  <2>2. /\ Len(sent') = Len(sent) + 1
        /\ \A i \in 1..Len(sent) : sent'[i] = sent[i]
        /\ sent'[Len(sent) + 1] = kind
        /\ \A i \in 1..Len(sent') : i \in 1..Len(sent) \/ i = Len(sent) + 1
    BY <1>3, <2>1
  <2>3. Len(sent) > 0 /\ sent[1] # "package"
    BY <1>1, <1>7 DEF SentInv, Begun
  <2>4. status = "connected"
    BY <1>1, <1>7 DEF SentInv, CloseSent
  <2>5. sent'[1] = sent[1] /\ Len(sent') > 0
    BY <1>2, <2>2, <2>3
  <2>6. Begun' /\ AllPackages' /\ ShortHello' /\ Unread' /\ CloseSent'
    BY <1>2, <1>7, <2>3, <2>4, <2>5 DEF Begun, AllPackages, ShortHello, Unread, CloseSent
  <2>7. OneUnread'
    <3> SUFFICES ASSUME client = "waits"
                 PROVE  /\ Len(sent') <= nread + 1
                        /\ \A i \in 1..Len(sent') :
                               i > nread => sent'[i] \in {"binaryFrame", "closeFrame"}
      BY <1>2 DEF OneUnread
    <3>1. Len(sent) <= nread
      <4>1. SUFFICES ASSUME Len(sent) > nread PROVE FALSE
        BY <1>2
      <4>2. sent[Len(sent)] \in {"binaryFrame", "closeFrame"}
        BY <1>1, <1>2, <1>7, <2>3, <4>1 DEF SentInv, OneUnread
      <4>3. sent[Len(sent)] = "binaryFrame"
        BY <1>2, <1>7, <2>3, <4>2
      <4>4. Len(sent) \in DOMAIN sent
        BY <1>2, <2>3
      <4>5. PICK k \in DOMAIN replied : replied[k] = Len(sent)
        BY <2>1, <4>3, <4>4 DEF Answered
      <4>6. replied[k] <= nread
        BY <2>4, RepliedRead
      <4>7. QED
        BY <1>2, <4>1, <4>5, <4>6
    <3>2. kind \in {"binaryFrame", "closeFrame"}
      BY <2>1
    <3>3. QED
      BY <1>2, <2>2, <3>1, <3>2
  <2>8. QED
    BY <2>6, <2>7 DEF SentInv
<1>8. QED
  BY <1>1, <1>4, <1>5, <1>6, <1>7, ClientAdds

\* A read keeps it, too.
LEMMA ReadSent ==
    ASSUME IInv, NEW n \in 1..MaxUnits,
           DoHandShake(n) \/ NotWebSocket(n) \/ ReadPlain(n) \/ ReadFrame(n)
    PROVE  SentInv'
<1>1. TypeOK /\ SentInv /\ Lists
  BY DEF IInv, TypeOK, Lists, Positions
<1>2. /\ nread' = nread + n /\ nread + n <= Len(sent) /\ status = "connected"
      /\ UNCHANGED <<client, sent>>
      /\ nread \in Nat /\ n \in Nat /\ n > 0 /\ Len(sent) \in Nat
  <2>1. n \in Nat /\ n > 0
    BY WebSocketAssumption DEF WebSocketAssumption
  <2>2. QED
    BY <1>1, <2>1, ReadFacts DEF TypeOK
<1>3. Len(sent) > 0 /\ Len(sent) = Len(sent') /\ sent' = sent
  BY <1>2
<1>4. AllPackages' /\ flag' # "wf_unknown"
  BY <1>1, <1>3 DEF SentInv, AllPackages, DoHandShake, NotWebSocket, ReadPlain, ReadFrame
<1>5. Unread'
  BY <1>4 DEF Unread
<1>6. CASE DoHandShake(n)
  <2>1. flag = "wf_unknown" /\ flag' = "isWebSocket" /\ HandShakeRead(n) /\ status' = status
    BY <1>6 DEF DoHandShake
  <2>2. sent[1] # "package" /\ nread = 0
    BY <1>1, <2>1 DEF SentInv, Unread, HandShakeRead
  <2>3. Len(sent) <= nread + n
    <3>1. (sent[1] = "hello" => Len(sent) = 1) /\ (sent[1] = "get" => Len(sent) = 2)
      BY <1>1, <1>3, <2>1 DEF SentInv, ShortHello
    <3>2. sent[1] = "hello" \/ (sent[1] = "get" /\ n >= 2)
      BY <2>1 DEF HandShakeRead
    <3>3. nread \in Nat /\ n \in Nat /\ n > 0 /\ Len(sent) \in Nat
      BY <1>2
    <3>4. CASE sent[1] = "hello"
      BY <3>1, <3>3, <3>4
    <3>5. CASE sent[1] # "hello"
      <4>1. Len(sent) = 2 /\ n >= 2
        BY <3>1, <3>2, <3>5
      <4>2. QED
        BY <3>3, <4>1
    <3>6. QED
      BY <3>4, <3>5
  <2>4. Begun' /\ ShortHello' /\ CloseSent'
    BY <1>2, <1>3, <2>1, <2>2 DEF Begun, ShortHello, CloseSent
  <2>5. OneUnread'
    <3>1. \A i \in 1..Len(sent) : ~(i > nread + n)
      BY <1>2, <2>3
    <3>2. Len(sent) <= nread + n + 1
      BY <1>2, <2>3
    <3>3. QED
      BY <1>2, <1>3, <3>1, <3>2 DEF OneUnread
  <2>6. QED
    BY <1>4, <1>5, <2>4, <2>5 DEF SentInv
<1>7. CASE NotWebSocket(n) \/ ReadPlain(n)
  <2>1. flag # "isWebSocket" /\ flag' # "isWebSocket" /\ status' = status
    BY <1>7 DEF NotWebSocket, ReadPlain
  <2>2. Begun' /\ ShortHello' /\ CloseSent' /\ OneUnread'
    BY <1>1, <1>2, <1>3, <2>1 DEF SentInv, Begun, ShortHello, CloseSent, OneUnread
  <2>3. QED
    BY <1>4, <1>5, <2>2 DEF SentInv
<1>8. CASE ReadFrame(n)
  <2>1. flag = "isWebSocket" /\ flag' = "isWebSocket"
    BY <1>8 DEF ReadFrame
  <2>2. Begun' /\ ShortHello'
    BY <1>1, <1>3, <2>1 DEF SentInv, Begun, ShortHello
  <2>3. CloseSent'
    <3>1. status' = IF sent[nread + 1] = "closeFrame" THEN "while_Close" ELSE status
      BY <1>8 DEF ReadFrame
    <3>2. nread + 1 \in 1..Len(sent)
      BY <1>2
    <3>3. CASE sent[nread + 1] = "closeFrame"
      BY <1>3, <3>2, <3>3 DEF CloseSent
    <3>4. CASE sent[nread + 1] # "closeFrame"
      <4>1. status' = "connected"
        BY <1>2, <3>1, <3>4
      <4>2. QED
        BY <4>1 DEF CloseSent
    <3>5. QED
      BY <3>3, <3>4
  <2>4. OneUnread'
    <3> SUFFICES ASSUME client = "waits"
                 PROVE  /\ Len(sent) <= nread + n + 1
                        /\ \A i \in 1..Len(sent) : i > nread + n =>
                               sent[i] \in {"binaryFrame", "closeFrame"}
      BY <1>2, <1>3 DEF OneUnread
    <3>1. /\ Len(sent) <= nread + 1
          /\ \A i \in 1..Len(sent) :
                 i > nread => sent[i] \in {"binaryFrame", "closeFrame"}
      BY <1>1, <2>1 DEF SentInv, OneUnread
    <3>2. Len(sent) <= nread + n + 1
      BY <1>2, <3>1
    <3>3. \A i \in 1..Len(sent) : i > nread + n => i > nread
      BY <1>2
    <3>4. QED
      BY <3>1, <3>2, <3>3
  <2>5. QED
    BY <1>4, <1>5, <2>2, <2>3, <2>4 DEF SentInv
<1>9. QED
  BY <1>6, <1>7, <1>8

\* What was read of a frame or of packages is what goes up.
LEMMA GoneUpRead ==
    ASSUME IInv, NEW n \in 1..MaxUnits,
           DoHandShake(n) \/ NotWebSocket(n) \/ ReadPlain(n) \/ ReadFrame(n)
    PROVE  /\ GoneUp(n) \in Seq(Positions)
           /\ \A i \in 1..Len(GoneUp(n)) :
                  /\ GoneUp(n)[i] \in (nread + 1)..(nread + n)
                  /\ sent[GoneUp(n)[i]] \in {"binaryFrame", "package"}
                  /\ i > 1 => GoneUp(n)[i - 1] < GoneUp(n)[i]
           /\ client = "waits" =>
                  \A j \in (nread + 1)..(nread + n) : sent[j] = "binaryFrame" =>
                      \E i \in 1..Len(GoneUp(n)) : GoneUp(n)[i] = j
<1>1. TypeOK /\ SentInv /\ Lists
  BY DEF IInv, TypeOK, Lists, Positions
<1>2. /\ GoneUp(n) \in Seq(Positions) /\ nread + n <= Len(sent)
      /\ nread \in Nat /\ n \in Nat /\ n > 0 /\ Len(sent) \in Nat
  <2>1. n \in Nat /\ n > 0
    BY WebSocketAssumption DEF WebSocketAssumption
  <2>2. QED
    BY <1>1, <2>1, ReadFacts DEF TypeOK
<1>3. \A j \in (nread + 1)..(nread + n) : j \in 1..Len(sent)
  BY <1>2
<1>4. CASE DoHandShake(n)
  <2>1. flag = "wf_unknown" /\ HandShakeRead(n)
    BY <1>4 DEF DoHandShake
  <2>2. GoneUp(n) = <<>> /\ Len(<<>>) = 0
    BY <2>1 DEF GoneUp
  <2>3. \A j \in 1..Len(sent) : sent[j] # "binaryFrame"
    BY <1>1, <2>1 DEF SentInv, ShortHello
  <2>4. QED
    BY <1>2, <1>3, <2>2, <2>3
<1>5. CASE NotWebSocket(n) \/ ReadPlain(n)
  <2>1. flag # "isWebSocket" /\ GoneUp(n) = Plain(n)
    BY <1>5 DEF NotWebSocket, ReadPlain, GoneUp
  <2>2. \A j \in 1..Len(sent) : sent[j] # "binaryFrame"
    BY <1>1, <2>1 DEF SentInv, ShortHello
  <2>3. CASE sent[1] # "package"
    <3>1. Plain(n) = <<>> /\ Len(<<>>) = 0
      BY <2>3 DEF Plain
    <3>2. QED
      BY <1>2, <1>3, <2>1, <2>2, <3>1
  <2>4. CASE sent[1] = "package"
    <3>1. Plain(n) = [i \in 1..n |-> nread + i]
      BY <2>4 DEF Plain
    <3>2. Len(Plain(n)) = n /\ \A i \in 1..n : Plain(n)[i] = nread + i
      BY <1>2, <3>1
    <3>3. \A j \in 1..Len(sent) : sent[j] = "package"
      BY <1>1, <1>2, <2>4 DEF SentInv, AllPackages
    <3>4. \A i \in 1..n : nread + i \in (nread + 1)..(nread + n)
      BY <1>2
    <3>5. \A i \in 1..n : i > 1 => i - 1 \in 1..n /\ nread + (i - 1) < nread + i
      BY <1>2
    <3>6. \A i \in 1..Len(GoneUp(n)) :
                  /\ GoneUp(n)[i] \in (nread + 1)..(nread + n)
                  /\ sent[GoneUp(n)[i]] \in {"binaryFrame", "package"}
                  /\ i > 1 => GoneUp(n)[i - 1] < GoneUp(n)[i]
      BY <1>3, <2>1, <3>2, <3>3, <3>4, <3>5
    <3>7. QED
      BY <1>2, <1>3, <2>2, <3>6
  <2>5. QED
    BY <2>3, <2>4
<1>6. CASE ReadFrame(n)
  <2>1. flag = "isWebSocket" /\ GoneUp(n) = Framed
    BY <1>6 DEF ReadFrame, GoneUp
  <2>2. client = "waits" => \A j \in (nread + 1)..(nread + n) : j = nread + 1
    <3>1. client = "waits" => Len(sent) <= nread + 1
      BY <1>1, <2>1 DEF SentInv, OneUnread
    <3>2. QED
      BY <1>2, <3>1
  <2>3. nread + 1 \in (nread + 1)..(nread + n)
    BY <1>2
  <2>4. CASE sent[nread + 1] = "binaryFrame"
    <3>1. Framed = <<nread + 1>>
      BY <2>4 DEF Framed, OpcodeGoesUp
    <3>2. Len(Framed) = 1 /\ Framed[1] = nread + 1 /\ \A i \in 1..Len(Framed) : i = 1
      BY <3>1
    <3>3. \A i \in 1..Len(Framed) :
                  /\ Framed[i] \in (nread + 1)..(nread + n)
                  /\ sent[Framed[i]] \in {"binaryFrame", "package"}
                  /\ i > 1 => Framed[i - 1] < Framed[i]
      BY <2>3, <2>4, <3>2
    <3>4. \E i \in 1..Len(Framed) : Framed[i] = nread + 1
      BY <3>2
    <3>5. QED
      BY <1>2, <2>1, <2>2, <3>3, <3>4
  <2>5. CASE sent[nread + 1] # "binaryFrame"
    <3>1. Framed = <<>> /\ Len(<<>>) = 0
      BY <2>5 DEF Framed, OpcodeGoesUp
    <3>2. QED
      BY <1>2, <2>1, <2>2, <2>5, <3>1
  <2>6. QED
    BY <2>4, <2>5
<1>7. QED
  BY <1>4, <1>5, <1>6

\* Increasing sequences that follow each other.
LEMMA Follows ==
    ASSUME NEW a \in Seq(Positions), NEW b \in Seq(Positions), NEW k \in Nat,
           \A i \in 1..Len(a) : a[i] <= k /\ (i > 1 => a[i - 1] < a[i]),
           \A i \in 1..Len(b) : b[i] > k /\ (i > 1 => b[i - 1] < b[i])
    PROVE  \A i \in 1..Len(a \o b) : i > 1 => (a \o b)[i - 1] < (a \o b)[i]
<1> DEFINE c == a \o b
<1>1. /\ Len(a) \in Nat /\ Len(b) \in Nat
      /\ Len(c) = Len(a) + Len(b)
      /\ \A i \in 1..Len(a) : c[i] = a[i]
      /\ \A i \in 1..Len(b) : c[Len(a) + i] = b[i]
  OBVIOUS
<1>2. (\A i \in 1..Len(a) : a[i] \in Int) /\ (\A i \in 1..Len(b) : b[i] \in Int)
  <2>1. (\A i \in 1..Len(a) : a[i] \in Positions) /\ (\A i \in 1..Len(b) : b[i] \in Positions)
    OBVIOUS
  <2>2. \A j \in Positions : j \in Int
    BY DEF Positions
  <2>3. QED
    BY <2>1, <2>2
<1> HIDE DEF c
<1>3. SUFFICES ASSUME NEW i \in 1..Len(c), i > 1 PROVE c[i - 1] < c[i]
  BY DEF c
<1>4. CASE i <= Len(a)
  <2>1. i \in 1..Len(a) /\ i - 1 \in 1..Len(a)
    BY <1>1, <1>3, <1>4
  <2>2. QED
    BY <1>1, <1>3, <2>1
<1>5. CASE i = Len(a) + 1
  <2>1. 1 \in 1..Len(b) /\ Len(a) \in 1..Len(a) /\ i - 1 = Len(a)
    BY <1>1, <1>3, <1>5
  <2>2. c[i] = b[1] /\ c[i - 1] = a[Len(a)]
    BY <1>1, <1>5, <2>1
  <2>3. a[Len(a)] <= k /\ b[1] > k /\ a[Len(a)] \in Int /\ b[1] \in Int
    BY <1>2, <2>1
  <2>4. QED
    BY <2>2, <2>3
<1>6. CASE i > Len(a) + 1
  <2>1. PICK j \in 1..Len(b) : i = Len(a) + j /\ j > 1 /\ j - 1 \in 1..Len(b)
                                 /\ i - 1 = Len(a) + (j - 1)
    <3>1. i - Len(a) \in 1..Len(b) /\ i = Len(a) + (i - Len(a)) /\ i - Len(a) > 1
            /\ (i - Len(a)) - 1 \in 1..Len(b) /\ i - 1 = Len(a) + ((i - Len(a)) - 1)
      BY <1>1, <1>3, <1>6
    <3>2. QED
      BY <3>1
  <2>2. c[i] = b[j] /\ c[i - 1] = b[j - 1]
    BY <1>1, <2>1
  <2>3. b[j - 1] < b[j]
    BY <2>1
  <2>4. QED
    BY <2>2, <2>3
<1>7. QED
  BY <1>1, <1>3, <1>4, <1>5, <1>6

\* What goes up in a read follows what went up before.
LEMMA ReadUp ==
    ASSUME IInv, NEW n \in 1..MaxUnits,
           DoHandShake(n) \/ NotWebSocket(n) \/ ReadPlain(n) \/ ReadFrame(n)
    PROVE  UpInOrder' /\ NoneDropped'
<1> DEFINE g == GoneUp(n)
<1>1. TypeOK /\ Lists /\ UpInOrder /\ NoneDropped
  BY DEF IInv, TypeOK, Lists, Positions
<1>2. /\ g \in Seq(Positions) /\ up \in Seq(Positions) /\ up' = up \o g
      /\ nread' = nread + n /\ sent' = sent /\ client' = client
  BY <1>1, ReadFacts DEF Lists
<1>3. /\ \A i \in 1..Len(g) :
             /\ g[i] \in (nread + 1)..(nread + n)
             /\ sent[g[i]] \in {"binaryFrame", "package"}
             /\ i > 1 => g[i - 1] < g[i]
      /\ client = "waits" =>
             \A j \in (nread + 1)..(nread + n) : sent[j] = "binaryFrame" =>
                 \E i \in 1..Len(g) : g[i] = j
  BY GoneUpRead
<1>4. nread \in Nat /\ n \in Nat /\ n > 0
  BY <1>1, WebSocketAssumption DEF WebSocketAssumption, TypeOK
<1> HIDE DEF g
<1>5. /\ Len(up) \in Nat /\ Len(g) \in Nat /\ Len(up \o g) = Len(up) + Len(g)
      /\ \A i \in 1..Len(up) : (up \o g)[i] = up[i]
      /\ \A i \in 1..Len(g) : (up \o g)[Len(up) + i] = g[i]
  BY <1>2
<1>6. /\ \A i \in 1..Len(up) : up[i] <= nread /\ (i > 1 => up[i - 1] < up[i])
      /\ \A i \in 1..Len(g) : g[i] > nread /\ (i > 1 => g[i - 1] < g[i])
  <2>1. \A i \in 1..Len(up) : up[i] <= nread /\ (i > 1 => up[i - 1] < up[i])
    BY <1>1 DEF UpInOrder
  <2>2. \A j \in (nread + 1)..(nread + n) : j > nread
    BY <1>4
  <2>3. \A i \in 1..Len(g) : g[i] > nread /\ (i > 1 => g[i - 1] < g[i])
    BY <1>3, <2>2
  <2>4. QED
    BY <2>1, <2>3
<1>7. \A i \in 1..Len(up \o g) : i > 1 => (up \o g)[i - 1] < (up \o g)[i]
  BY <1>2, <1>4, <1>6, Follows
<1>8. \A i \in 1..Len(up \o g) :
          (up \o g)[i] <= nread + n /\ sent[(up \o g)[i]] \in {"binaryFrame", "package"}
  <2> SUFFICES ASSUME NEW i \in 1..Len(up \o g)
               PROVE  (up \o g)[i] <= nread + n
                        /\ sent[(up \o g)[i]] \in {"binaryFrame", "package"}
    OBVIOUS
  <2>1. CASE i <= Len(up)
    <3>1. i \in 1..Len(up)
      BY <1>5, <2>1
    <3>2. (up \o g)[i] = up[i] /\ up[i] <= nread /\ sent[up[i]] \in {"binaryFrame", "package"}
      BY <1>1, <1>5, <3>1 DEF UpInOrder
    <3>3. up[i] \in Positions /\ \A j \in Positions : j <= nread => j <= nread + n
      <4>1. up[i] \in Positions
        BY <1>2, <3>1
      <4>2. QED
        BY <1>4, <4>1 DEF Positions
    <3>4. QED
      BY <3>2, <3>3
  <2>2. CASE i > Len(up)
    <3>1. i - Len(up) \in 1..Len(g) /\ i = Len(up) + (i - Len(up))
      BY <1>5, <2>2
    <3>2. (up \o g)[i] = g[i - Len(up)]
      BY <1>5, <3>1
    <3>3. \A j \in (nread + 1)..(nread + n) : j <= nread + n
      BY <1>4
    <3>4. QED
      BY <1>3, <3>1, <3>2, <3>3
  <2>3. QED
    BY <1>5, <2>1, <2>2
<1>9. UpInOrder'
  BY <1>2, <1>7, <1>8 DEF UpInOrder
<1>10. NoneDropped'
  <2> SUFFICES ASSUME client = "waits", NEW j \in 1..(nread + n), sent[j] = "binaryFrame"
               PROVE  \E i \in 1..Len(up \o g) : (up \o g)[i] = j
    BY <1>2 DEF NoneDropped
  <2>1. CASE j <= nread
    <3>1. j \in 1..nread
      BY <1>4, <2>1
    <3>2. PICK i \in 1..Len(up) : up[i] = j
      BY <1>1, <3>1 DEF NoneDropped
    <3>3. i \in 1..Len(up \o g)
      BY <1>5
    <3>4. QED
      BY <1>5, <3>2, <3>3
  <2>2. CASE j > nread
    <3>1. j \in (nread + 1)..(nread + n)
      BY <1>4, <2>2
    <3>2. PICK i \in 1..Len(g) : g[i] = j
      BY <1>3, <3>1
    <3>3. Len(up) + i \in 1..Len(up \o g)
      BY <1>5
    <3>4. QED
      BY <1>5, <3>2, <3>3
  <2>3. QED
    BY <1>4, <2>1, <2>2
<1>11. QED
  BY <1>9, <1>10

LEMMA NextUp == IInv /\ [Next]_vars => IInv'
<1> SUFFICES ASSUME IInv, [Next]_vars PROVE SentInv' /\ UpInOrder' /\ NoneDropped'
  BY NextTypeOK, NextReplies DEF IInv
<1>1. TypeOK /\ SentInv /\ UpInOrder /\ NoneDropped /\ Lists
  BY DEF IInv, TypeOK, Lists, Positions
<1>2. ASSUME UNCHANGED <<client, sent, nread, flag, status, up>>
      PROVE  SentInv' /\ UpInOrder' /\ NoneDropped'
  BY <1>1, <1>2 DEF SentInv, Begun, AllPackages, ShortHello, Unread, CloseSent,
                    OneUnread, UpInOrder, NoneDropped
<1>3. CASE UNCHANGED vars
  BY <1>2, <1>3 DEF vars, clientVars
<1>4. CASE ClientStep
  <2>1. /\ UNCHANGED <<client, nread, up>>
        /\ \A i \in 1..Len(sent) : sent'[i] = sent[i]
    BY <1>1, <1>4, ClientFacts
  <2>2. \A j \in 1..nread : j \in 1..Len(sent)
    BY <1>1 DEF TypeOK
  <2>3. \A i \in 1..Len(up) : up[i] \in 1..nread
    <3>1. \A i \in 1..Len(up) : up[i] \in Positions
      BY <1>1 DEF Lists
    <3>2. \A j \in Positions : j <= nread => j \in 1..nread
      BY <1>1 DEF Positions, TypeOK
    <3>3. QED
      BY <1>1, <3>1, <3>2 DEF UpInOrder
  <2>4. UpInOrder'
    BY <1>1, <2>1, <2>2, <2>3 DEF UpInOrder
  <2>5. NoneDropped'
    BY <1>1, <2>1, <2>2 DEF NoneDropped
  <2>6. QED
    BY <1>4, <2>4, <2>5, ClientSent
<1>5. ASSUME NEW n \in 1..MaxUnits,
             DoHandShake(n) \/ NotWebSocket(n) \/ ReadPlain(n) \/ ReadFrame(n)
      PROVE  SentInv' /\ UpInOrder' /\ NoneDropped'
  BY <1>5, ReadSent, ReadUp
<1>6. CASE MainReply \/ IOSend \/ IOSendFull \/ IOFlush
  <2>1. UNCHANGED <<client, sent, nread, flag, status, up>>
    BY <1>6 DEF MainReply, IOSend, IOSendFull, IOFlush, clientVars
  <2>2. QED
    BY <1>2, <2>1
<1>7. QED
  BY <1>3, <1>4, <1>5, <1>6 DEF Next, ClientStep, ReadCallback

\* Packages go up in order and none twice, and a client that waits for its
\* answers loses none, however its units are joined in reads.
THEOREM PackagesSafe == Spec => []PackagesGoUp
<1>1. IInv => PackagesGoUp
  <2> SUFFICES ASSUME IInv PROVE PackagesGoUp
    OBVIOUS
  <2>1. DOMAIN up = 1..Len(up)
    BY DEF IInv, TypeOK
  <2>2. QED
    BY <2>1 DEF IInv, UpInOrder, NoneDropped, PackagesGoUp
<1>2. QED
  BY <1>1, InitUp, NextUp, PTL DEF Spec

-----------------------------------------------------------------------------
(***************************************************************************)
(* The codec of the handshake's key                                        *)
(***************************************************************************)
\* What a byte of a digest can be.
Octets == 0..255

\* Numbers are divided into groups of three and of four.
LEMMA Thirds ==
    ASSUME NEW j \in Nat \ {0}
    PROVE  /\ (j - 1) \div 3 \in Nat /\ (j - 1) % 3 \in 0..2
           /\ j = 3 * ((j - 1) \div 3) + ((j - 1) % 3) + 1
  OBVIOUS

LEMMA Fourths ==
    ASSUME NEW g \in Nat, NEW k \in 1..4
    PROVE  (4 * g + k - 1) \div 4 = g /\ (4 * g + k - 1) % 4 = k - 1
  OBVIOUS

\* Four characters of six bits are three bytes of eight.
LEMMA Bits ==
    ASSUME NEW x \in Octets, NEW y \in Octets, NEW z \in Octets
    PROVE  /\ x \div 4 \in 0..63
           /\ (x % 4) * 16 + y \div 16 \in 0..63
           /\ (y % 16) * 4 + z \div 64 \in 0..63
           /\ z % 64 \in 0..63
           /\ (((x \div 4) * 64 + ((x % 4) * 16 + y \div 16)) * 64
                  + ((y % 16) * 4 + z \div 64)) * 64 + (z % 64)
              = x * 65536 + y * 256 + z
  BY DEF Octets

LEMMA Unpack ==
    ASSUME NEW x \in Octets, NEW y \in Octets, NEW z \in Octets
    PROVE  LET m == x * 65536 + y * 256 + z
           IN  /\ m \div 65536 = x
               /\ (m \div 256) % 256 = y
               /\ m % 256 = z
  BY DEF Octets

\* The characters of a code: all six bits but for one '=' behind what is left over.
LEMMA EncodeFact ==
    ASSUME NEW src \in Seq(Octets)
    PROVE  LET G == (Len(src) + 2) \div 3
               d == EncodeBase64(src)
               c(g, k) == Byte(src, 3 * g + k)
           IN  /\ G \in Nat /\ Len(d) = 4 * G /\ DOMAIN d = 1..(4 * G)
               /\ \A g \in 0..(G - 1) :
                      /\ c(g, 1) \in Octets /\ c(g, 2) \in Octets /\ c(g, 3) \in Octets
                      /\ d[4 * g + 1] = c(g, 1) \div 4
                      /\ d[4 * g + 2] = (c(g, 1) % 4) * 16 + c(g, 2) \div 16
                      /\ d[4 * g + 3] = (c(g, 2) % 16) * 4 + c(g, 3) \div 64
                      /\ d[4 * g + 4] = IF g = G - 1 /\ Len(src) % 3 # 0 THEN Pad ELSE c(g, 3) % 64
                      /\ g = G - 1 /\ Len(src) % 3 # 0 => c(g, 3) = 0
<1> DEFINE n == Len(src)
           G == (n + 2) \div 3
           d == EncodeBase64(src)
           c(g, k) == Byte(src, 3 * g + k)
           Char(g, k) ==
               CASE k = 0 -> c(g, 1) \div 4
                 [] k = 1 -> (c(g, 1) % 4) * 16 + c(g, 2) \div 16
                 [] k = 2 -> (c(g, 2) % 16) * 4 + c(g, 3) \div 64
                 [] OTHER -> c(g, 3) % 64
<1>1. n \in Nat
  OBVIOUS
<1>2. G \in Nat /\ (n % 3 # 0 => 3 * G > n) /\ 3 * G >= n /\ 4 * G \in Nat
  BY <1>1
<1>3. LastChars(src) = IF n % 3 = 0 THEN 0 ELSE 1
  BY DEF LastChars
<1>4. d = [i \in 1..(4 * G) |-> IF i > 4 * G - LastChars(src) THEN Pad
                                ELSE Char((i - 1) \div 4, (i - 1) % 4)]
  BY DEF EncodeBase64
<1>5. DOMAIN d = 1..(4 * G) /\ Len(d) = 4 * G
  BY <1>2, <1>4
<1>6. \A i \in Nat \ {0} : Byte(src, i) \in Octets
  <2>1. \A i \in 1..n : src[i] \in Octets
    OBVIOUS
  <2>2. 0 \in Octets
    BY DEF Octets
  <2>3. QED
    BY <1>1, <2>1, <2>2 DEF Byte
<1>7. ASSUME NEW g \in 0..(G - 1)
      PROVE  /\ c(g, 1) \in Octets /\ c(g, 2) \in Octets /\ c(g, 3) \in Octets
             /\ d[4 * g + 1] = c(g, 1) \div 4
             /\ d[4 * g + 2] = (c(g, 1) % 4) * 16 + c(g, 2) \div 16
             /\ d[4 * g + 3] = (c(g, 2) % 16) * 4 + c(g, 3) \div 64
             /\ d[4 * g + 4] = IF g = G - 1 /\ n % 3 # 0 THEN Pad ELSE c(g, 3) % 64
             /\ g = G - 1 /\ n % 3 # 0 => c(g, 3) = 0
  <2>1. g \in Nat /\ g <= G - 1
    BY <1>2
  <2>2. c(g, 1) \in Octets /\ c(g, 2) \in Octets /\ c(g, 3) \in Octets
    BY <1>6, <2>1
  <2>3. \A k \in 1..4 : /\ 4 * g + k \in 1..(4 * G)
                        /\ (4 * g + k - 1) \div 4 = g /\ (4 * g + k - 1) % 4 = k - 1
    BY <1>2, <2>1, Fourths
  <2>4. \A k \in 1..4 : 4 * g + k > 4 * G - LastChars(src) <=> g = G - 1 /\ n % 3 # 0 /\ k = 4
    BY <1>2, <1>3, <2>1
  <2>5. \A k \in 1..4 : d[4 * g + k] = IF g = G - 1 /\ n % 3 # 0 /\ k = 4 THEN Pad
                                       ELSE Char(g, k - 1)
    <3> HIDE DEF Char, d, G, n
    <3> SUFFICES ASSUME NEW k \in 1..4
                 PROVE  d[4 * g + k] = IF g = G - 1 /\ n % 3 # 0 /\ k = 4 THEN Pad ELSE Char(g, k - 1)
      OBVIOUS
    <3>1. PICK i : i = 4 * g + k
      OBVIOUS
    <3>2. i \in 1..(4 * G) /\ (i - 1) \div 4 = g /\ (i - 1) % 4 = k - 1
      BY <2>3, <3>1
    <3>3. d[i] = IF i > 4 * G - LastChars(src) THEN Pad ELSE Char(g, k - 1)
      BY <1>4, <3>2
    <3>4. QED
      BY <2>4, <3>1, <3>3
  <2>6. g = G - 1 /\ n % 3 # 0 => c(g, 3) = 0
    <3>1. g = G - 1 /\ n % 3 # 0 => 3 * g + 3 > n
      BY <1>2, <2>1
    <3>2. QED
      BY <1>1, <2>1, <3>1 DEF Byte
  <2>7. /\ Char(g, 1 - 1) = c(g, 1) \div 4
        /\ Char(g, 2 - 1) = (c(g, 1) % 4) * 16 + c(g, 2) \div 16
        /\ Char(g, 3 - 1) = (c(g, 2) % 16) * 4 + c(g, 3) \div 64
        /\ Char(g, 4 - 1) = c(g, 3) % 64
    <3> HIDE DEF c
    <3>1. QED
      OBVIOUS
  <2>8. 1 \in 1..4 /\ 2 \in 1..4 /\ 3 \in 1..4 /\ 4 \in 1..4
    OBVIOUS
  <2> HIDE DEF Char, d, G, c
  <2>9. QED
    BY <2>2, <2>5, <2>6, <2>7, <2>8
<1>8. QED
  BY <1>2, <1>5, <1>7

\* A byte is never taken for '='.
LEMMA PadsFact ==
    ASSUME NEW src \in Seq(Octets)
    PROVE  /\ Cardinality(Pads(EncodeBase64(src))) = LastChars(src)
           /\ Len(EncodeBase64(src)) = 4 * ((Len(src) + 2) \div 3)
<1> DEFINE n == Len(src)
           G == (n + 2) \div 3
           d == EncodeBase64(src)
           c(g, k) == Byte(src, 3 * g + k)
<1>1. /\ G \in Nat /\ Len(d) = 4 * G /\ DOMAIN d = 1..(4 * G)
      /\ \A g \in 0..(G - 1) :
             /\ c(g, 1) \in Octets /\ c(g, 2) \in Octets /\ c(g, 3) \in Octets
             /\ d[4 * g + 1] = c(g, 1) \div 4
             /\ d[4 * g + 2] = (c(g, 1) % 4) * 16 + c(g, 2) \div 16
             /\ d[4 * g + 3] = (c(g, 2) % 16) * 4 + c(g, 3) \div 64
             /\ d[4 * g + 4] = IF g = G - 1 /\ n % 3 # 0 THEN Pad ELSE c(g, 3) % 64
  BY EncodeFact
<1>2. n \in Nat /\ (n % 3 # 0 => G \in Nat \ {0})
  OBVIOUS
<1> HIDE DEF n, G, d, c
<1>3. \A g \in 0..(G - 1) : /\ d[4 * g + 1] # Pad /\ d[4 * g + 2] # Pad /\ d[4 * g + 3] # Pad
                            /\ d[4 * g + 4] = Pad <=> g = G - 1 /\ n % 3 # 0
  <2>1. \A x \in 0..63 : x # Pad
    BY DEF Pad
  <2> SUFFICES ASSUME NEW g \in 0..(G - 1)
               PROVE  /\ d[4 * g + 1] # Pad /\ d[4 * g + 2] # Pad /\ d[4 * g + 3] # Pad
                      /\ d[4 * g + 4] = Pad <=> g = G - 1 /\ n % 3 # 0
    OBVIOUS
  <2>2. /\ c(g, 1) \div 4 \in 0..63
        /\ (c(g, 1) % 4) * 16 + c(g, 2) \div 16 \in 0..63
        /\ (c(g, 2) % 16) * 4 + c(g, 3) \div 64 \in 0..63
        /\ c(g, 3) % 64 \in 0..63
    <3>1. PICK x \in Octets, y \in Octets, z \in Octets : x = c(g, 1) /\ y = c(g, 2) /\ z = c(g, 3)
      BY <1>1
    <3>2. /\ x \div 4 \in 0..63 /\ (x % 4) * 16 + y \div 16 \in 0..63
          /\ (y % 16) * 4 + z \div 64 \in 0..63 /\ z % 64 \in 0..63
      BY Bits
    <3>3. QED
      BY <3>1, <3>2
  <2>3. QED
    BY <1>1, <2>1, <2>2, ZenonT(60)
<1>4. \A i \in 1..(4 * G) : d[i] = Pad <=> i = 4 * G /\ n % 3 # 0
  <2> SUFFICES ASSUME NEW i \in 1..(4 * G)
               PROVE  d[i] = Pad <=> i = 4 * G /\ n % 3 # 0
    OBVIOUS
  <2>1. PICK g \in 0..(G - 1) : i = 4 * g + 1 \/ i = 4 * g + 2 \/ i = 4 * g + 3 \/ i = 4 * g + 4
    <3>1. (i - 1) \div 4 \in 0..(G - 1)
      BY <1>1
    <3>2. i = 4 * ((i - 1) \div 4) + ((i - 1) % 4) + 1 /\ (i - 1) % 4 \in 0..3
      BY <1>1
    <3>3. QED
      BY <1>1, <3>1, <3>2
  <2>2. CASE i = 4 * g + 4
    BY <1>1, <1>3, <2>2
  <2>3. CASE i = 4 * g + 1 \/ i = 4 * g + 2 \/ i = 4 * g + 3
    <3>1. i # 4 * G
      BY <1>1, <2>3
    <3>2. QED
      BY <1>3, <2>3, <3>1
  <2>4. QED
    BY <2>1, <2>2, <2>3
<1>5. Cardinality(Pads(d)) = IF n % 3 = 0 THEN 0 ELSE 1
  <2>1. Pads(d) = {i \in 1..(4 * G) : i = 4 * G /\ n % 3 # 0}
    BY <1>1, <1>4 DEF Pads
  <2>2. CASE n % 3 = 0
    <3>1. Pads(d) = {}
      BY <2>1, <2>2
    <3>2. QED
      BY <2>2, <3>1, FS_EmptySet
  <2>3. CASE n % 3 # 0
    <3>1. 4 * G \in 1..(4 * G)
      BY <1>2, <2>3
    <3>2. Pads(d) = {4 * G}
      BY <2>1, <2>3, <3>1
    <3>3. QED
      BY <2>3, <3>2, FS_Singleton
  <2>4. QED
    BY <2>2, <2>3
<1>6. QED
  BY <1>1, <1>5 DEF LastChars, n, G, d

\* What is decoded is what was encoded, with a byte too many if one was left over.
LEMMA DecodeFact ==
    ASSUME NEW src \in Seq(Octets)
    PROVE  LET code == EncodeBase64(src)
           IN  DecodeBase64(code) = IF Len(src) % 3 = 1 THEN Append(src, 0) ELSE src
<1> DEFINE n == Len(src)
           G == (n + 2) \div 3
           d == EncodeBase64(src)
           c(g, k) == Byte(src, 3 * g + k)
           v(g, k) == LET ch == d[4 * g + k] IN IF ch = Pad THEN 0 ELSE ch
           ncode(g) == ((v(g, 1) * 64 + v(g, 2)) * 64 + v(g, 3)) * 64 + v(g, 4)
           B(g, k) == CASE k = 0 -> ncode(g) \div 65536
                        [] k = 1 -> (ncode(g) \div 256) % 256
                        [] OTHER -> ncode(g) % 256
           all == IF n % 3 = 1 THEN Append(src, 0) ELSE src
<1>1. /\ G \in Nat
      /\ \A g \in 0..(G - 1) :
             /\ c(g, 1) \in Octets /\ c(g, 2) \in Octets /\ c(g, 3) \in Octets
             /\ d[4 * g + 1] = c(g, 1) \div 4
             /\ d[4 * g + 2] = (c(g, 1) % 4) * 16 + c(g, 2) \div 16
             /\ d[4 * g + 3] = (c(g, 2) % 16) * 4 + c(g, 3) \div 64
             /\ d[4 * g + 4] = IF g = G - 1 /\ n % 3 # 0 THEN Pad ELSE c(g, 3) % 64
             /\ g = G - 1 /\ n % 3 # 0 => c(g, 3) = 0
  BY EncodeFact
<1>2. Cardinality(Pads(d)) = (IF n % 3 = 0 THEN 0 ELSE 1) /\ Len(d) = 4 * G
  BY PadsFact DEF LastChars
<1>3. n \in Nat /\ all \in Seq(Octets) /\ Len(all) = 3 * G - (IF n % 3 = 0 THEN 0 ELSE 1)
      /\ \A i \in 1..Len(all) : all[i] = Byte(src, i)
  <2>1. n \in Nat /\ 0 \in Octets
    BY DEF Octets
  <2>2. CASE n % 3 = 1
    <3>1. n + 1 = 3 * G - 1
      BY <2>1, <2>2
    <3>2. all = Append(src, 0)
      BY <2>2
    <3>3. all \in Seq(Octets) /\ Len(all) = n + 1 /\ \A i \in 1..(n + 1) : all[i] = Byte(src, i)
      BY <2>1, <3>2 DEF Byte
    <3>4. QED
      BY <2>1, <2>2, <3>1, <3>3
  <2>3. CASE n % 3 # 1
    <3>1. n = 3 * G - (IF n % 3 = 0 THEN 0 ELSE 1)
      BY <2>1, <2>3
    <3>2. QED
      BY <2>1, <2>3, <3>1 DEF Byte
  <2>4. QED
    BY <2>2, <2>3
<1>4. DecodeBase64(d) = [i \in 1..Len(all) |-> B((i - 1) \div 3, (i - 1) % 3)]
  <2>1. DecodeBase64(d) =
            [i \in 1..(3 * (Len(d) \div 4) - (IF Cardinality(Pads(d)) > 2 THEN 2 ELSE Cardinality(Pads(d)))) |->
                B((i - 1) \div 3, (i - 1) % 3)]
    BY DEF DecodeBase64
  <2> HIDE DEF n, G, d, c, B, all
  <2>2. 3 * (Len(d) \div 4) - (IF Cardinality(Pads(d)) > 2 THEN 2 ELSE Cardinality(Pads(d))) = Len(all)
    <3>1. Len(d) \div 4 = G
      BY <1>1, <1>2
    <3>2. (IF Cardinality(Pads(d)) > 2 THEN 2 ELSE Cardinality(Pads(d))) = (IF n % 3 = 0 THEN 0 ELSE 1)
      BY <1>2
    <3>3. QED
      BY <1>1, <1>3, <3>1, <3>2
  <2>3. QED
    BY <2>1, <2>2
<1>5. ASSUME NEW g \in 0..(G - 1)
      PROVE  B(g, 0) = c(g, 1) /\ B(g, 1) = c(g, 2) /\ B(g, 2) = c(g, 3)
  <2> HIDE DEF c, G, n, d
  <2>1. v(g, 1) = c(g, 1) \div 4 /\ v(g, 2) = (c(g, 1) % 4) * 16 + c(g, 2) \div 16
        /\ v(g, 3) = (c(g, 2) % 16) * 4 + c(g, 3) \div 64
        /\ v(g, 4) = c(g, 3) % 64
    <3>1. \A x \in 0..63 : x # Pad
      BY DEF Pad
    <3>2. /\ c(g, 1) \div 4 \in 0..63
          /\ (c(g, 1) % 4) * 16 + c(g, 2) \div 16 \in 0..63
          /\ (c(g, 2) % 16) * 4 + c(g, 3) \div 64 \in 0..63
          /\ c(g, 3) % 64 \in 0..63
      <4>1. PICK x \in Octets, y \in Octets, z \in Octets : x = c(g, 1) /\ y = c(g, 2) /\ z = c(g, 3)
        BY <1>1
      <4>2. /\ x \div 4 \in 0..63 /\ (x % 4) * 16 + y \div 16 \in 0..63
            /\ (y % 16) * 4 + z \div 64 \in 0..63 /\ z % 64 \in 0..63
        BY Bits
      <4>3. QED
        BY <4>1, <4>2
    <3>3. c(g, 3) = 0 => c(g, 3) % 64 = 0
      OBVIOUS
    <3>4. QED
      BY <1>1, <3>1, <3>2, <3>3, ZenonT(60)
  <2> HIDE DEF v
  <2>2. ncode(g) = c(g, 1) * 65536 + c(g, 2) * 256 + c(g, 3)
    BY <1>1, <2>1, Bits
  <2> HIDE DEF ncode
  <2>3. /\ ncode(g) \div 65536 = c(g, 1) /\ (ncode(g) \div 256) % 256 = c(g, 2)
        /\ ncode(g) % 256 = c(g, 3)
    BY <1>1, <2>2, Unpack
  <2>4. QED
    BY <2>3
<1>6. ASSUME NEW i \in 1..Len(all) PROVE B((i - 1) \div 3, (i - 1) % 3) = all[i]
  <2> HIDE DEF B, G, n, all
  <2>1. PICK g : g = (i - 1) \div 3
    OBVIOUS
  <2>2. PICK k : k = (i - 1) % 3
    OBVIOUS
  <2>3. i \in Nat \ {0} /\ i <= 3 * G
    BY <1>1, <1>3
  <2>4. g \in Nat /\ k \in 0..2 /\ i = 3 * g + k + 1
    BY <2>1, <2>2, <2>3, Thirds
  <2>5. g \in 0..(G - 1)
    BY <1>1, <2>3, <2>4
  <2>6. B(g, k) = Byte(src, 3 * g + k + 1)
    BY <1>5, <2>4, <2>5
  <2>7. QED
    BY <1>3, <2>1, <2>2, <2>4, <2>6
<1>7. QED
  <2>1. DecodeBase64(d) = all
    <3> HIDE DEF B, all
    <3>1. QED
      BY <1>3, <1>4, <1>6
  <2>2. QED
    BY <2>1

\* DecodeBase64 gives back what EncodeBase64 was given, however long, but for a
\* byte too many if one byte was left over.
THEOREM Base64Inverse ==
    \A src \in Seq(0..255) :
        DecodeBase64(EncodeBase64(src)) = IF Len(src) % 3 = 1 THEN Append(src, 0) ELSE src
  BY DecodeFact DEF Octets

\* The key that the handshake sends decodes to its digest, and is padded as
\* base64 asks for.
THEOREM KeyExact == Spec => []Base64Exact
<1>1. ASSUME NEW k \in {2, 3, 5}, NEW src \in [1..k -> EdgeBytes]
      PROVE  /\ DecodeBase64(EncodeBase64(src)) = src
             /\ Len(EncodeBase64(src)) = 4 * ((k + 2) \div 3)
             /\ Cardinality(Pads(EncodeBase64(src))) = (3 - (k % 3)) % 3
  <2>1. src \in Seq(Octets) /\ Len(src) = k
    BY DEF EdgeBytes, Octets
  <2>2. k % 3 # 1 /\ LastChars(src) = (3 - (k % 3)) % 3
    BY <2>1 DEF LastChars
  <2>3. DecodeBase64(EncodeBase64(src)) = src
    BY <2>1, <2>2, DecodeFact
  <2>4. QED
    BY <2>1, <2>2, <2>3, PadsFact
<1>2. Base64Exact
  BY <1>1 DEF Base64Exact, Base64Followed
<1>3. QED
  BY <1>2, PTL
=============================================================================
