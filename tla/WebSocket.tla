----------------------------- MODULE WebSocket -----------------------------
(***************************************************************************)
(* A connection of ServerIOSocket from its first read on: how it finds out *)
(* that the client speaks websocket, what it takes out of each read, and   *)
(* how replies are put into frames.                                        *)
(*                                                                         *)
(* What the client sends is a sequence of units, each named by its         *)
(* position: a handshake, or the two parts of one, plain packages, and     *)
(* frames, of which a binary one holds one package.  A read takes any      *)
(* number of whole units, as TCP may join what was sent in several calls.  *)
(* A reply is the position of the package that it answers.                 *)
(***************************************************************************)
EXTENDS Integers, Sequences

CONSTANTS
    OtherFrames,        \* eWebSocketOpCode without binaryFrame and closeFrame
    ReplyLen,           \* bytes of a reply
    MAX_BUFFER_SIZE,    \* bytes of _pSendBuf
    MaxUnits            \* bound: units that the client sends

\* The code has 8192 bytes, so that no frame needs the long form of a length,
\* and a reply fits into an empty buffer.
ASSUME WebSocketAssumption ==
    /\ ReplyLen \in Nat \ {0}
    /\ MAX_BUFFER_SIZE \in Nat
    /\ ReplyLen + 10 < MAX_BUFFER_SIZE
    /\ MAX_BUFFER_SIZE <= 65536
    /\ MaxUnits \in Nat
    /\ OtherFrames \subseteq {"continueFrame", "textFrame", "pingFrame", "pongFrame"}

VARIABLES
    client,     \* "waits" for an answer before its next package, or does not
    sent,       \* the kinds of the units the client has sent
    nread,      \* units that were read from the bufferevent
    flag,       \* _nWebSocketFlag
    status,     \* _status
    toMain,     \* packages on their way to the main thread
    toIO,       \* replies on their way to the io thread
    pc,         \* "batch" while the io thread is in pairCallback
    listed,     \* whether needSendList holds the socket
    sendBuf,    \* _pSendBuf up to _nSendBufLen
    \* History
    up,         \* the packages that went up
    out,        \* what was written to the bufferevent: head and body of each
    replied     \* the replies in out

clientVars == <<client, sent>>
ioVars == <<toIO, pc, listed, sendBuf, out, replied>>
vars == <<clientVars, nread, flag, status, toMain, ioVars, up>>

Frames == OtherFrames \cup {"binaryFrame", "closeFrame"}
Kinds == Frames \cup {"hello", "get", "rest", "package"}

\* After accept.
Init ==
    /\ client \in {"waits", "sends"}
    /\ sent = <<>>
    /\ nread = 0
    /\ flag = "wf_unknown"
    /\ status = "connected"
    /\ toMain = <<>>
    /\ toIO = <<>>
    /\ pc = "idle"
    /\ listed = FALSE
    /\ sendBuf = <<>>
    /\ up = <<>>
    /\ out = <<>>
    /\ replied = <<>>

-----------------------------------------------------------------------------
\* The client.
Sends(units) ==
    /\ Len(sent) + Len(units) <= MaxUnits
    /\ sent' = sent \o units
    /\ UNCHANGED <<client, nread, flag, status, toMain, ioVars, up>>

Hello == sent = <<>> /\ Sends(<<"hello">>)

\* A handshake in two segments, the first without the key.
HelloInParts == sent = <<>> /\ Sends(<<"get", "rest">>)

\* A client that does not speak websocket.
Package == (\A i \in DOMAIN sent : sent[i] = "package") /\ Sends(<<"package">>)

Answered == \A i \in DOMAIN sent :
    sent[i] = "binaryFrame" => \E k \in DOMAIN replied : replied[k] = i

\* After the handshake is answered; nothing follows a close frame.
Frame(kind) ==
    /\ flag = "isWebSocket"
    /\ \A i \in DOMAIN sent : sent[i] # "closeFrame"
    /\ client = "waits" => kind \in {"binaryFrame", "closeFrame"} /\ Answered
    /\ Sends(<<kind>>)

-----------------------------------------------------------------------------
\* recv, called with n units in the bufferevent; the callback is made for a
\* connection that is while_Close too, but then nothing is read.
Reads(n) ==
    /\ pc = "idle"
    /\ status = "connected"
    /\ nread + n <= Len(sent)
    /\ nread' = nread + n

\* GET and the key are in what was read (doWebSocketHandShake).
HandShakeRead(n) == sent[1] = "hello" \/ (sent[1] = "get" /\ n >= 2)

\* asynRecive for each package.
GoUp(packages) ==
    /\ up' = up \o packages
    /\ toMain' = toMain \o packages

\* doWebSocket: the handshake is answered, and whatever else was read with it
\* is dropped.
DoHandShake(n) ==
    /\ Reads(n)
    /\ flag = "wf_unknown"
    /\ HandShakeRead(n)
    /\ flag' = "isWebSocket"
    /\ UNCHANGED <<clientVars, status, toMain, ioVars, up>>

\* Packages cut out of what was read without websocket.  Text that begins with
\* GET is taken for a head whose length the buffer never reaches.
Plain(n) == IF sent[1] # "package" THEN <<>> ELSE [i \in 1..n |-> nread + i]

\* doWebSocket: the connection is taken for a plain one, for ever.
NotWebSocket(n) ==
    /\ Reads(n)
    /\ flag = "wf_unknown"
    /\ ~HandShakeRead(n)
    /\ flag' = "notWebSocket"
    /\ GoUp(Plain(n))
    /\ UNCHANGED <<clientVars, status, ioVars>>

ReadPlain(n) ==
    /\ Reads(n)
    /\ flag = "notWebSocket"
    /\ GoUp(Plain(n))
    /\ UNCHANGED <<clientVars, flag, status, ioVars>>

\* Mutant: text frames go up as well.
OpcodeGoesUpText(kind) == kind \in {"binaryFrame", "textFrame"}

\* removeWebSocketHead returns true.
OpcodeGoesUp(kind) == kind = "binaryFrame"

\* removeWebSocketHead: one frame is taken from what was read, and the others
\* are dropped.
ReadFrame(n) ==
    /\ Reads(n)
    /\ flag = "isWebSocket"
    /\ LET kind == sent[nread + 1]
       IN  /\ GoUp(IF OpcodeGoesUp(kind) THEN <<nread + 1>> ELSE <<>>)
           /\ status' = IF kind = "closeFrame" THEN "while_Close" ELSE status
    /\ UNCHANGED <<clientVars, flag, ioVars>>

-----------------------------------------------------------------------------
\* Main takes a package, and the application answers it.
MainReply ==
    /\ toMain # <<>>
    /\ toMain' = Tail(toMain)
    /\ toIO' = Append(toIO, Head(toMain))
    /\ UNCHANGED <<clientVars, nread, flag, status, pc, listed, sendBuf, out,
                   replied, up>>

-----------------------------------------------------------------------------
Bytes(replies) == ReplyLen * Len(replies)

\* Mutant: the short form up to 126.
FrameHeadOffByOne(len) ==
    IF len <= 126 THEN <<130, len>> ELSE <<130, 126, len \div 256, len % 256>>

\* sendWebSocketBuff: a final binary frame, its length in one byte or three.
FrameHead(len) ==
    IF len < 126 THEN <<130, len>> ELSE <<130, 126, len \div 256, len % 256>>

\* toSend: refused unless connected, a frame on a websocket connection.
toSend(replies) ==
    IF status # "connected" THEN UNCHANGED <<out, replied>>
    ELSE /\ replied' = replied \o replies
         /\ out' = Append(out,
                [head |-> IF flag = "isWebSocket" THEN FrameHead(Bytes(replies))
                          ELSE <<>>,
                 body |-> replies])

wsLenAdd == IF flag = "isWebSocket" THEN 10 ELSE 0

\* expandSendBuf finds room.
Fits == ~(ReplyLen + Bytes(sendBuf) + wsLenAdd >= MAX_BUFFER_SIZE)

TakesReply ==
    /\ toIO # <<>>
    /\ toIO' = Tail(toIO)
    /\ pc' = "batch"

\* Mutant: the socket is not listed.
IOSendUnlisted ==
    /\ TakesReply
    /\ Fits
    /\ sendBuf' = Append(sendBuf, Head(toIO))
    /\ UNCHANGED <<clientVars, nread, flag, status, toMain, listed, out, replied, up>>

\* pairCallback, send_buf: the reply is added to the buffer.
IOSend ==
    /\ TakesReply
    /\ Fits
    /\ sendBuf' = Append(sendBuf, Head(toIO))
    /\ listed' = TRUE
    /\ UNCHANGED <<clientVars, nread, flag, status, toMain, out, replied, up>>

\* Mutant: the full buffer is written but not emptied.
IOSendFullKeeps ==
    /\ TakesReply
    /\ ~Fits
    /\ toSend(sendBuf)
    /\ sendBuf' = Append(sendBuf, Head(toIO))
    /\ UNCHANGED <<clientVars, nread, flag, status, toMain, listed, up>>

\* pairCallback, send_buf: the buffer is full and is written out first
\* (consumeSendBuf); the socket is not listed on this path.
IOSendFull ==
    /\ TakesReply
    /\ ~Fits
    /\ toSend(sendBuf)
    /\ sendBuf' = <<Head(toIO)>>
    /\ UNCHANGED <<clientVars, nread, flag, status, toMain, listed, up>>

\* pairCallback, after the loop: the buffers of the listed sockets are written
\* out.
IOFlush ==
    /\ pc = "batch"
    /\ pc' = "idle"
    /\ listed' = FALSE
    /\ IF listed THEN toSend(sendBuf) /\ sendBuf' = <<>>
                 ELSE UNCHANGED <<out, replied, sendBuf>>
    /\ UNCHANGED <<clientVars, nread, flag, status, toMain, toIO, up>>

-----------------------------------------------------------------------------
ReadCallback ==
    \E n \in 1..MaxUnits :
        DoHandShake(n) \/ NotWebSocket(n) \/ ReadPlain(n) \/ ReadFrame(n)

Next ==
    \/ Hello \/ HelloInParts \/ Package
    \/ \E kind \in Frames : Frame(kind)
    \/ ReadCallback
    \/ MainReply
    \/ IOSend \/ IOSendFull \/ IOFlush

Spec == Init /\ [][Next]_vars

\* Both threads keep running their event loops, and what was sent arrives.
FairSpec ==
    /\ Spec
    /\ WF_vars(ReadCallback)
    /\ WF_vars(MainReply)
    /\ WF_vars(IOSend \/ IOSendFull)
    /\ WF_vars(IOFlush)

-----------------------------------------------------------------------------
TypeOK ==
    /\ client \in {"waits", "sends"}
    /\ sent \in Seq(Kinds)
    /\ Len(sent) <= MaxUnits
    /\ nread \in 0..Len(sent)
    /\ flag \in {"wf_unknown", "notWebSocket", "isWebSocket"}
    /\ status \in {"connected", "while_Close"}
    /\ toMain \in Seq(1..MaxUnits)
    /\ toIO \in Seq(1..MaxUnits)
    /\ pc \in {"idle", "batch"}
    /\ listed \in BOOLEAN
    /\ sendBuf \in Seq(1..MaxUnits)
    /\ Bytes(sendBuf) < MAX_BUFFER_SIZE
    /\ up \in Seq(1..MaxUnits)
    /\ replied \in Seq(1..MaxUnits)

\* Only packages go up, in the order in which they were sent and none twice,
\* whatever a read joins and recv drops (removeWebSocketHead); and of a client
\* that waits for its answers none is dropped.
PackagesGoUp ==
    /\ \A i \in DOMAIN up :
           /\ up[i] <= nread
           /\ sent[up[i]] \in {"binaryFrame", "package"}
           /\ i > 1 => up[i - 1] < up[i]
    /\ client = "waits" =>
           \A j \in 1..nread : sent[j] = "binaryFrame" =>
               \E i \in DOMAIN up : up[i] = j

\* While the connection is up no reply is lost, repeated or overtaken on the
\* way from the package over both mailboxes and the send buffer, whichever of
\* the paths of pairCallback it takes.
RepliesKept ==
    status = "connected" => replied \o sendBuf \o toIO \o toMain = up

\* The length that a client reads in a head (RFC 6455).
PayloadLen(head) ==
    IF head[2] < 126 THEN head[2] ELSE head[3] * 256 + head[4]
HeadLen(head) == IF head[2] < 126 THEN 2 ELSE 4

\* A client can tell where each frame ends, whatever number of replies the
\* buffer has joined in it, and every frame but the handshake is framed
\* (sendWebSocketBuff).
RepliesReadable ==
    \A i \in DOMAIN out :
        IF flag = "isWebSocket"
        THEN /\ out[i].head[1] = 130
             /\ Len(out[i].head) = HeadLen(out[i].head)
             /\ PayloadLen(out[i].head) = Bytes(out[i].body)
        ELSE out[i].head = <<>>

\* A reply in the send buffer is written at the end of the batch that put it
\* there: the socket is in needSendList, although pairCallback does not list it
\* when expandSendBuf, which counts the head of the frame too, finds no room.
RepliesListed == sendBuf # <<>> => pc = "batch" /\ listed

\* A client that waits for its answers gets one for each package, unless it
\* closes.
EveryPackageAnswered ==
    \A p \in 1..MaxUnits :
        (client = "waits" /\ p \in DOMAIN sent /\ sent[p] = "binaryFrame")
            ~> (\E k \in DOMAIN replied : replied[k] = p)

\* The comment on while_Close in SocketBase.h, "about to be closed, can still
\* send but not receive": what has gone up is still answered.
StillSends ==
    status = "while_Close" => replied \o sendBuf \o toIO \o toMain = up
=============================================================================
