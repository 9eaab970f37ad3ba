--------------------------- MODULE Framing_proofs ---------------------------
(***************************************************************************)
(* What holds of recv for every length of packages, of the head, of the    *)
(* buffer and of the reads; and of the codec for every value and string.   *)
(***************************************************************************)
EXTENDS MCFraming, SequenceTheorems, TLAPS

\* Where package i begins; the one after the last begins after the last byte.
StartOf(i) == IF i <= Len(packs) THEN packs[i].first ELSE total + 1

\* The packages fill the stream.
Packed ==
    /\ StartOf(1) = 1
    /\ \A i \in 1..Len(packs) : StartOf(i + 1) = packs[i].first + packs[i].len
    /\ \A i \in 1..Len(packs) : \A j \in 1..Len(packs) + 1 :
           i < j => packs[i].first + packs[i].len <= StartOf(j)

\* The buffer holds the last bytes that were read.
Buffered ==
    /\ Len(recvBuf) <= nread
    /\ \A k \in 1..Len(recvBuf) : recvBuf[k] = nread - Len(recvBuf) + k
    /\ pc = "idle" => tmpIndex = 0

\* The bytes that have gone up.
UpEnd == nread - Len(recvBuf) + tmpIndex

\* Each package that went up follows on the one before it, and the last byte
\* of the last one is at UpEnd.
UpJoined ==
    /\ \A i \in 1..Len(up) : /\ Len(up[i]) > 0
                             /\ \A k \in 2..Len(up[i]) : up[i][k] = up[i][k - 1] + 1
    /\ \A i \in 2..Len(up) : up[i][1] = up[i - 1][Len(up[i - 1])] + 1
    /\ up # <<>> => up[1][1] = 1 /\ up[Len(up)][Len(up[Len(up)])] = UpEnd
    /\ up = <<>> => UpEnd = 0

\* The next package to go up begins where the loop stands.
AtHead ==
    InStep => Len(up) <= Len(packs) /\ UpEnd + 1 = StartOf(Len(up) + 1)

\* A package begins at the front of the buffer.
FrontIsHead ==
    (InStep /\ recvBuf # <<>>) =>
        \E i \in 1..Len(packs) : packs[i].first = recvBuf[1]

UpWhole == InStep => \A i \in 1..Len(up) : i <= Len(packs) /\ Whole(i)

IInv ==
    /\ TypeOK
    /\ Packed
    /\ Buffered
    /\ UpJoined
    /\ AtHead
    /\ FrontIsHead
    /\ UpWhole
    /\ InputDrained
    /\ NothingWaits

-----------------------------------------------------------------------------
\* An element of a sequence is of the type of its elements.
LEMMA ElementFact ==
    ASSUME NEW S, NEW s \in Seq(S), NEW i \in 1..Len(s)
    PROVE  s[i] \in S
OBVIOUS

\* What the constants say of a package.
LEMMA PackFact ==
    ASSUME TypeOK, NEW i \in 1..Len(packs)
    PROVE  /\ packs[i].first \in Nat /\ packs[i].len \in Nat
           /\ packs[i].len > 0 /\ packs[i].len >= HEADLEN
           /\ packs[i].len + MaxRead <= MAX_BUFFER_SIZE + 1
<1>1. packs \in Seq([first : Nat, len : PackageLens])
  BY DEF TypeOK
<1>2. packs[i] \in [first : Nat, len : PackageLens]
  BY <1>1, ElementFact
<1>3. packs[i].first \in Nat /\ packs[i].len \in PackageLens
  BY <1>2
<1>4. packs[i].len \in Nat /\ HEADLEN \in Nat /\ HEADLEN > 0
  <2>1. HEADLEN \in Nat /\ HEADLEN > 0
    BY FramingAssumption
  <2>2. packs[i].len \in Nat
    BY <1>3, FramingAssumption, Zenon
  <2>3. QED
    BY <2>1, <2>2
<1>5. /\ packs[i].len >= HEADLEN
      /\ packs[i].len + MaxRead <= MAX_BUFFER_SIZE + 1
  BY <1>3, RoomAssumption
<1>6. QED
  BY <1>3, <1>4, <1>5

\* The sizes of things.
LEMMA SizeFact ==
    ASSUME TypeOK
    PROVE  /\ total \in Nat /\ arrived \in Nat /\ nread \in Nat /\ len \in Nat
           /\ nread <= arrived /\ arrived <= total
           /\ Len(recvBuf) \in Nat /\ tmpIndex \in Nat /\ tmpIndex <= Len(recvBuf)
           /\ Len(recvBuf) <= MAX_BUFFER_SIZE
           /\ Len(packs) \in Nat /\ Len(up) \in Nat
           /\ DOMAIN packs = 1..Len(packs) /\ DOMAIN up = 1..Len(up)
           /\ DOMAIN recvBuf = 1..Len(recvBuf)
<1>1. Len(recvBuf) \in Nat
  BY DEF TypeOK
<1>2. QED
  BY <1>1 DEF TypeOK

\* The initial state satisfies the inductive invariant.
LEMMA InitIInv == Init => IInv
<1> SUFFICES ASSUME Init PROVE IInv
  OBVIOUS
<1>1. TypeOK
  BY FramingAssumption DEF Init, TypeOK
<1>2. Packed /\ Buffered /\ InputDrained
  BY DEF Init, Packed, StartOf, Buffered, InputDrained
<1>3. UpJoined /\ AtHead
  <2>1. /\ Len(up) = 0 /\ Len(packs) = 0 /\ Len(recvBuf) = 0
        /\ up = <<>> /\ nread = 0 /\ tmpIndex = 0 /\ total = 0
    BY DEF Init
  <2>2. UpEnd = 0
    BY <2>1 DEF UpEnd
  <2>3. UpJoined
    BY <2>1, <2>2 DEF UpJoined
  <2>4. AtHead
    BY <2>1, <2>2 DEF AtHead, StartOf
  <2>5. QED
    BY <2>3, <2>4
<1>4. FrontIsHead /\ UpWhole /\ NothingWaits
  BY DEF Init, FrontIsHead, UpWhole, NothingWaits
<1>5. QED
  BY <1>1, <1>2, <1>3, <1>4 DEF IInv

\* As long as not all bytes that were sent have gone up, there is a package
\* that is next to go up.
LEMMA NextIsSent ==
    ASSUME TypeOK, AtHead, InStep, UpEnd < total
    PROVE  /\ Len(up) + 1 \in 1..Len(packs)
           /\ packs[Len(up) + 1].first = UpEnd + 1
<1>1. UpEnd \in Int /\ total \in Int
  BY SizeFact DEF UpEnd
<1>2. Len(up) <= Len(packs) /\ UpEnd + 1 = StartOf(Len(up) + 1)
  BY DEF AtHead
<1>3. Len(up) \in Nat /\ Len(packs) \in Nat
  BY SizeFact
<1>4. Len(up) # Len(packs)
  BY <1>1, <1>2, <1>3 DEF StartOf
<1>5. QED
  BY <1>2, <1>3, <1>4 DEF StartOf

\* As long as the beginnings of packages are not lost, every head that is
\* decoded says the length of the package that is next to go up.
LEMMA HeadIsNext ==
    ASSUME IInv, InStep, HeadReadable
    PROVE  /\ Len(up) + 1 \in 1..Len(packs)
           /\ packs[Len(up) + 1].first = UpEnd + 1
           /\ HeadLen = {packs[Len(up) + 1].len}
<1>1. TypeOK /\ Packed /\ Buffered /\ AtHead
  BY DEF IInv
<1>0. Len(packs) \in Nat /\ DOMAIN packs = 1..Len(packs)
  BY <1>1, SizeFact
<1>2. Len(recvBuf) > tmpIndex /\ tmpIndex \in Nat /\ Len(recvBuf) \in Nat
  BY <1>1, SizeFact, FramingAssumption DEF HeadReadable, Remaining
<1>3. /\ Len(up) + 1 \in 1..Len(packs)
      /\ packs[Len(up) + 1].first = UpEnd + 1
  <2>1. UpEnd < total
    BY <1>1, <1>2, SizeFact DEF UpEnd
  <2>2. QED
    BY <1>1, <2>1, NextIsSent
<1>4. \A i, j \in 1..Len(packs) : packs[i].first = packs[j].first => i = j
  <2>1. ASSUME NEW i \in 1..Len(packs), NEW j \in 1..Len(packs), i < j
        PROVE  packs[i].first # packs[j].first
    <3>1. StartOf(j) = packs[j].first
      BY <1>0 DEF StartOf
    <3>2. packs[i].first + packs[i].len <= StartOf(j)
      BY <1>0, <1>1, <2>1 DEF Packed
    <3>3. /\ packs[i].len > 0 /\ packs[i].len \in Nat
          /\ packs[i].first \in Nat /\ packs[j].first \in Nat
      BY <1>1, PackFact
    <3>4. QED
      BY <3>1, <3>2, <3>3
  <2>2. QED
    BY <2>1, <1>0
<1>5. DOMAIN packs = 1..Len(packs)
  BY <1>0
<1>6. CASE class = "ClientIOSocket"
  <2>1. HeadByte = recvBuf[tmpIndex + 1]
    BY <1>6 DEF HeadByte
  <2>2. HeadByte = packs[Len(up) + 1].first
    BY <1>1, <1>2, <1>3, <2>1 DEF Buffered, UpEnd, TypeOK
  <2>3. {i \in DOMAIN packs : packs[i].first = HeadByte} = {Len(up) + 1}
    BY <1>3, <1>4, <1>5, <2>2
  <2>4. QED
    BY <1>3, <2>3 DEF HeadLen
<1>7. CASE class = "ServerIOSocket"
  <2>1. HeadByte = recvBuf[1] /\ OneLength
    BY <1>7 DEF HeadByte, InStep
  <2>2. PICK i \in 1..Len(packs) : packs[i].first = recvBuf[1]
    BY <1>1, <1>2 DEF IInv, FrontIsHead
  <2>3. {j \in DOMAIN packs : packs[j].first = HeadByte} = {i}
    BY <1>4, <1>5, <2>1, <2>2
  <2>4. packs[i].len = packs[Len(up) + 1].len
    BY <1>3, <1>5, <2>1 DEF OneLength
  <2>5. QED
    BY <1>3, <2>3, <2>4 DEF HeadLen
<1>8. QED
  BY <1>1, <1>3, <1>6, <1>7 DEF TypeOK

\* A part of a sequence.
LEMMA PartFact ==
    ASSUME NEW S, NEW s \in Seq(S), NEW m \in Nat, NEW n \in Nat, m <= n, n <= Len(s)
    PROVE  /\ SubSeq(s, m + 1, n) \in Seq(S)
           /\ Len(SubSeq(s, m + 1, n)) = n - m
           /\ \A k \in 1..(n - m) : SubSeq(s, m + 1, n)[k] = s[m + k]
OBVIOUS

\* Two sequences after each other.
LEMMA ConcatFact ==
    ASSUME NEW S, NEW s \in Seq(S), NEW t \in Seq(S)
    PROVE  /\ s \o t \in Seq(S)
           /\ Len(s \o t) = Len(s) + Len(t)
           /\ \A k \in 1..(Len(s) + Len(t)) :
                  (s \o t)[k] = IF k <= Len(s) THEN s[k] ELSE t[k - Len(s)]
OBVIOUS

\* What a read does to the buffer.
LEMMA RecvFact ==
    ASSUME TypeOK, NEW n \in 1..MaxRead, Recv(n)
    PROVE  \E m \in Nat :
               /\ m = IF arrived + n - nread < Room THEN arrived + n - nread ELSE Room
               /\ len' = m /\ nread' = nread + m
               /\ recvBuf' \in Seq(Nat)
               /\ Len(recvBuf') = Len(recvBuf) + m
               /\ \A k \in 1..(Len(recvBuf) + m) :
                      recvBuf'[k] = IF k <= Len(recvBuf) THEN recvBuf[k]
                                    ELSE nread + (k - Len(recvBuf))
<1>1. /\ arrived \in Nat /\ nread \in Nat /\ nread <= arrived /\ n \in Nat
      /\ Len(recvBuf) \in Nat /\ Len(recvBuf) <= MAX_BUFFER_SIZE
      /\ MAX_BUFFER_SIZE \in Nat
  <2>1. MAX_BUFFER_SIZE \in Nat /\ MaxRead \in Nat
    BY FramingAssumption
  <2>2. QED
    BY <2>1, SizeFact
<1>2. PICK m \in Nat :
          m = IF arrived + n - nread < Room THEN arrived + n - nread ELSE Room
  <2>1. arrived + n - nread \in Nat
    BY <1>1
  <2>2. Room \in Nat
    BY <1>1 DEF Room
  <2>3. QED
    BY <2>1, <2>2
<1>3. /\ len' = m
      /\ nread' = nread + m
      /\ recvBuf' = recvBuf \o [i \in 1..m |-> nread + i]
  <2>1. /\ arrived' = arrived + n
        /\ len' = IF arrived + n - nread < Room THEN arrived + n - nread ELSE Room
        /\ nread' = nread + len'
        /\ recvBuf' = recvBuf \o [i \in 1..len' |-> nread + i]
    BY DEF Recv, Filled
  <2>2. len' = m
    BY <1>2, <2>1, Zenon
  <2>3. QED
    BY <2>1, <2>2
<1>4. recvBuf \in Seq(Nat)
  BY DEF TypeOK
<1>5. DEFINE new == [i \in 1..m |-> nread + i]
<1>6. new \in Seq(Nat) /\ Len(new) = m /\ \A k \in 1..m : new[k] = nread + k
  BY <1>1
<1>7. recvBuf' = recvBuf \o new
  BY <1>3
<1>8. HIDE DEF new
<1>9. /\ recvBuf' \in Seq(Nat) /\ Len(recvBuf') = Len(recvBuf) + m
      /\ \A k \in 1..(Len(recvBuf) + m) :
             recvBuf'[k] = IF k <= Len(recvBuf) THEN recvBuf[k] ELSE new[k - Len(recvBuf)]
  BY <1>4, <1>6, <1>7, ConcatFact
<1>10. ASSUME NEW k \in 1..(Len(recvBuf) + m), ~(k <= Len(recvBuf))
       PROVE  new[k - Len(recvBuf)] = nread + (k - Len(recvBuf))
  <2>1. k - Len(recvBuf) \in 1..m
    BY <1>1, <1>10
  <2>2. QED
    BY <1>6, <2>1
<1>11. QED
  BY <1>2, <1>3, <1>9, <1>10

\* What a turn of the loop does.
LEMMA PassUpFact ==
    ASSUME TypeOK, Buffered, PassUp
    PROVE  \E h \in HeadLen :
               /\ h \in Nat /\ h > 0 /\ h <= Remaining
               /\ tmpIndex' = tmpIndex + h
               /\ up' \in Seq(Seq(Nat)) /\ Len(up') = Len(up) + 1
               /\ \A i \in 1..Len(up) : up'[i] = up[i]
               /\ Len(up'[Len(up) + 1]) = h
               /\ \A k \in 1..h : up'[Len(up) + 1][k] = UpEnd + k
<1>1. PICK h \in HeadLen :
          /\ h > 0
          /\ h <= Remaining
          /\ up' = Append(up, SubSeq(recvBuf, tmpIndex + 1, tmpIndex + h))
          /\ tmpIndex' = tmpIndex + h
  BY DEF PassUp
<1>2. h \in Nat
  <2>1. CASE h \in Spelled
    BY <2>1, FramingAssumption
  <2>2. CASE \E i \in DOMAIN packs : h = packs[i].len
    BY <2>2, PackFact, SizeFact
  <2>3. QED
    BY <2>1, <2>2 DEF HeadLen
<1>3. /\ tmpIndex \in Nat /\ Len(recvBuf) \in Nat /\ nread \in Nat
      /\ tmpIndex + h <= Len(recvBuf)
  BY <1>1, <1>2, SizeFact DEF Remaining
<1>4. recvBuf \in Seq(Nat) /\ up \in Seq(Seq(Nat))
  BY DEF TypeOK
<1>5. DEFINE new == SubSeq(recvBuf, tmpIndex + 1, tmpIndex + h)
<1>6. /\ new \in Seq(Nat) /\ Len(new) = h
      /\ \A k \in 1..h : new[k] = recvBuf[tmpIndex + k]
  <2>1. /\ new \in Seq(Nat) /\ Len(new) = (tmpIndex + h) - tmpIndex
        /\ \A k \in 1..((tmpIndex + h) - tmpIndex) : new[k] = recvBuf[tmpIndex + k]
    BY <1>2, <1>3, <1>4, PartFact
  <2>2. (tmpIndex + h) - tmpIndex = h
    BY <1>2, <1>3
  <2>3. QED
    BY <2>1, <2>2
<1>7. \A k \in 1..h : new[k] = UpEnd + k
  <2>1. ASSUME NEW k \in 1..h
        PROVE  recvBuf[tmpIndex + k] = UpEnd + k
    <3>1. tmpIndex + k \in 1..Len(recvBuf)
      BY <1>2, <1>3
    <3>2. recvBuf[tmpIndex + k] = nread - Len(recvBuf) + (tmpIndex + k)
      BY <3>1 DEF Buffered
    <3>3. QED
      BY <1>2, <1>3, <3>2 DEF UpEnd
  <2>2. QED
    BY <1>6, <2>1
<1>8. /\ up' \in Seq(Seq(Nat)) /\ Len(up') = Len(up) + 1
      /\ \A i \in 1..Len(up) : up'[i] = up[i]
      /\ up'[Len(up) + 1] = new
  <2>1. up' = Append(up, new)
    BY <1>1
  <2>2. HIDE DEF new
  <2>3. QED
    BY <1>4, <1>6, <2>1
<1>9. QED
  BY <1>1, <1>2, <1>6, <1>7, <1>8

\* What the end of recv does to the buffer.
LEMMA LeaveFact ==
    ASSUME TypeOK, Buffered, Leave
    PROVE  /\ recvBuf' \in Seq(Nat)
           /\ Len(recvBuf') = Remaining
           /\ \A k \in 1..Remaining : recvBuf'[k] = UpEnd + k
<1>1. /\ tmpIndex \in Nat /\ Len(recvBuf) \in Nat /\ nread \in Nat
      /\ tmpIndex <= Len(recvBuf)
  BY SizeFact
<1>2. recvBuf' = SubSeq(recvBuf, tmpIndex + 1, Len(recvBuf)) /\ recvBuf \in Seq(Nat)
  BY DEF Leave, TypeOK
<1>3. /\ recvBuf' \in Seq(Nat) /\ Len(recvBuf') = Remaining
      /\ \A k \in 1..Remaining : recvBuf'[k] = recvBuf[tmpIndex + k]
  BY <1>1, <1>2, PartFact DEF Remaining
<1>4. ASSUME NEW k \in 1..Remaining
      PROVE  recvBuf[tmpIndex + k] = UpEnd + k
  <2>1. tmpIndex + k \in 1..Len(recvBuf)
    BY <1>1 DEF Remaining
  <2>2. recvBuf[tmpIndex + k] = nread - Len(recvBuf) + (tmpIndex + k)
    BY <2>1 DEF Buffered
  <2>3. QED
    BY <1>1, <2>2 DEF UpEnd, Remaining
<1>5. QED
  BY <1>3, <1>4
-----------------------------------------------------------------------------
\* The peer's step keeps the invariant.
LEMMA SendSafe ==
    ASSUME IInv, NEW l \in PackageLens, Send(l)
    PROVE  IInv'
<1>1. /\ TypeOK /\ Packed /\ Buffered /\ UpJoined /\ AtHead /\ FrontIsHead
      /\ UpWhole /\ InputDrained /\ NothingWaits
  BY DEF IInv
<1>2. DEFINE new == [first |-> total + 1, len |-> l]
<1>3. /\ total \in Nat /\ arrived \in Nat /\ nread \in Nat
      /\ nread <= arrived /\ arrived <= total
      /\ Len(recvBuf) \in Nat /\ tmpIndex \in Nat
      /\ Len(packs) \in Nat /\ Len(up) \in Nat
  BY <1>1, SizeFact
<1>4. l \in Nat /\ l > 0
  <2>1. l >= HEADLEN /\ HEADLEN \in Nat /\ HEADLEN > 0
    BY FramingAssumption, RoomAssumption
  <2>2. l \in Nat
    BY FramingAssumption, Zenon
  <2>3. QED
    BY <2>1, <2>2
<1>5. /\ class' = class /\ arrived' = arrived /\ nread' = nread /\ recvBuf' = recvBuf
      /\ pc' = pc /\ len' = len /\ tmpIndex' = tmpIndex /\ up' = up
      /\ total' = total + l
  BY DEF Send
<1>6. /\ packs' \in Seq([first : Nat, len : PackageLens])
      /\ Len(packs') = Len(packs) + 1
      /\ \A i \in 1..Len(packs) : packs'[i] = packs[i]
      /\ packs'[Len(packs) + 1] = new
  <2>1. packs \in Seq([first : Nat, len : PackageLens])
    BY <1>1 DEF TypeOK
  <2>2. new \in [first : Nat, len : PackageLens]
    BY <1>3
  <2>3. packs' = Append(packs, new)
    BY DEF Send
  <2>4. HIDE DEF new
  <2>5. QED
    BY <2>1, <2>2, <2>3
<1>7. packs'[Len(packs) + 1].first = total + 1 /\ packs'[Len(packs) + 1].len = l
  BY <1>6
<1>8. HIDE DEF new
<1>9. DOMAIN packs' = 1..Len(packs) + 1 /\ DOMAIN packs = 1..Len(packs)
  BY <1>1, <1>6, SizeFact
<1>10. TypeOK'
  <2>1. total' \in Nat /\ arrived \in 0..total' /\ nread \in 0..arrived
    BY <1>3, <1>4, <1>5
  <2>2. QED
    BY <1>1, <1>5, <1>6, <2>1 DEF TypeOK
<1>11. /\ \A i \in 1..Len(packs) + 1 : StartOf(i)' = StartOf(i)
       /\ StartOf(Len(packs) + 2)' = total + l + 1
       /\ StartOf(Len(packs) + 1) = total + 1
  <2>1. ASSUME NEW i \in 1..Len(packs) + 1
        PROVE  StartOf(i)' = StartOf(i)
    <3>1. CASE i <= Len(packs)
      BY <1>3, <1>6, <3>1 DEF StartOf
    <3>2. CASE i = Len(packs) + 1
      BY <1>3, <1>6, <1>7, <3>2 DEF StartOf
    <3>3. QED
      BY <1>3, <3>1, <3>2
  <2>2. StartOf(Len(packs) + 2)' = total' + 1 /\ StartOf(Len(packs) + 1) = total + 1
    BY <1>3, <1>6 DEF StartOf
  <2>3. QED
    BY <1>5, <2>1, <2>2
<1>12. Packed'
  <2>1. StartOf(1)' = 1
    BY <1>1, <1>3, <1>11 DEF Packed
  <2>2. ASSUME NEW i \in 1..Len(packs) + 1
        PROVE  StartOf(i + 1)' = packs'[i].first + packs'[i].len
    <3>1. CASE i <= Len(packs)
      <4>1. StartOf(i + 1) = packs[i].first + packs[i].len
        BY <1>1, <3>1 DEF Packed
      <4>2. StartOf(i + 1)' = StartOf(i + 1)
        BY <1>3, <1>11, <3>1
      <4>3. QED
        BY <1>6, <3>1, <4>1, <4>2
    <3>2. CASE i = Len(packs) + 1
      <4>1. StartOf(i + 1)' = total + l + 1
        BY <1>3, <1>5, <1>6, <3>2 DEF StartOf
      <4>2. QED
        BY <1>3, <1>4, <1>7, <3>2, <4>1
    <3>3. QED
      BY <1>3, <3>1, <3>2
  <2>3. ASSUME NEW i \in 1..Len(packs) + 1, NEW j \in 1..Len(packs) + 2, i < j
        PROVE  packs'[i].first + packs'[i].len <= StartOf(j)'
    <3>1. CASE j <= Len(packs) + 1
      <4>1. i \in 1..Len(packs) /\ j \in 1..Len(packs) + 1
        BY <1>3, <2>3, <3>1
      <4>2. packs[i].first + packs[i].len <= StartOf(j)
        BY <1>1, <2>3, <4>1 DEF Packed
      <4>3. QED
        BY <1>6, <1>11, <4>1, <4>2
    <3>2. CASE j = Len(packs) + 2 /\ i <= Len(packs)
      <4>1. packs[i].first + packs[i].len <= total + 1
        BY <1>1, <1>3, <3>2 DEF Packed, StartOf
      <4>2. packs[i].first \in Nat /\ packs[i].len \in Nat
        BY <1>1, <3>2, PackFact
      <4>3. StartOf(j)' = total + l + 1
        BY <1>3, <1>5, <1>6, <3>2 DEF StartOf
      <4>4. packs'[i] = packs[i]
        BY <1>6, <3>2
      <4>5. QED
        BY <1>3, <1>4, <4>1, <4>2, <4>3, <4>4
    <3>3. CASE j = Len(packs) + 2 /\ i = Len(packs) + 1
      <4>1. StartOf(j)' = total + l + 1
        BY <1>3, <1>5, <1>6, <3>3 DEF StartOf
      <4>2. QED
        BY <1>3, <1>4, <1>7, <3>3, <4>1
    <3>4. QED
      BY <1>3, <3>1, <3>2, <3>3
  <2>4. QED
    BY <1>3, <1>6, <2>1, <2>2, <2>3 DEF Packed
<1>13. Buffered' /\ UpJoined' /\ UpEnd' = UpEnd
  BY <1>1, <1>5 DEF Buffered, UpJoined, UpEnd
<1>14. InStep' => InStep
  <2>1. ASSUME OneLength' PROVE OneLength
    BY <1>6, <1>9, <2>1 DEF OneLength
  <2>2. QED
    BY <1>5, <2>1 DEF InStep
<1>15. AtHead'
  <2>1. SUFFICES ASSUME InStep'
                 PROVE  Len(up)' <= Len(packs)' /\ UpEnd' + 1 = StartOf(Len(up) + 1)'
    BY <1>5 DEF AtHead
  <2>2. Len(up) <= Len(packs) /\ UpEnd + 1 = StartOf(Len(up) + 1)
    BY <1>1, <1>14, <2>1 DEF AtHead
  <2>3. Len(up) + 1 \in 1..Len(packs) + 1
    BY <1>3, <2>2
  <2>4. StartOf(Len(up) + 1)' = StartOf(Len(up) + 1)
    BY <1>5, <1>11, <2>3
  <2>5. QED
    BY <1>3, <1>5, <1>6, <1>13, <2>2, <2>4
<1>16. FrontIsHead'
  BY <1>1, <1>3, <1>5, <1>6, <1>14 DEF FrontIsHead
<1>17. UpWhole'
  <2>1. ASSUME InStep', NEW i \in 1..Len(up)
        PROVE  i <= Len(packs') /\ Whole(i)'
    <3>1. i <= Len(packs) /\ Whole(i)
      BY <1>1, <1>14, <2>1 DEF UpWhole
    <3>2. packs'[i] = packs[i]
      BY <1>3, <1>6, <3>1
    <3>3. QED
      BY <1>3, <1>5, <1>6, <3>1, <3>2 DEF Whole
  <2>2. QED
    BY <1>5, <2>1 DEF UpWhole
<1>18. InputDrained'
  BY <1>1, <1>5 DEF InputDrained
<1>19. NothingWaits'
  <2>1. SUFFICES ASSUME pc = "idle", InStep', class = "ClientIOSocket" \/ len >= HEADLEN,
                        Len(up) < Len(packs')
                 PROVE  Len(recvBuf) < packs'[Len(up) + 1].len
    BY <1>5 DEF NothingWaits
  <2>2. CASE Len(up) < Len(packs)
    <3>1. Len(recvBuf) < packs[Len(up) + 1].len
      BY <1>1, <1>14, <2>1, <2>2 DEF NothingWaits
    <3>2. QED
      BY <1>3, <1>6, <2>2, <3>1, SMTT(30)
  <2>3. CASE Len(up) = Len(packs)
    <3>1. UpEnd + 1 = total + 1 /\ tmpIndex = 0
      BY <1>1, <1>11, <1>14, <2>1, <2>3 DEF AtHead, Buffered
    <3>2. Len(recvBuf) = 0
      BY <1>1, <1>3, <3>1 DEF UpEnd, Buffered
    <3>3. QED
      BY <1>4, <1>7, <2>3, <3>2
  <2>4. QED
    BY <1>3, <1>6, <2>1, <2>2, <2>3
<1>20. QED
  BY <1>10, <1>12, <1>13, <1>15, <1>16, <1>17, <1>18, <1>19 DEF IInv
\* A read keeps the invariant: the buffer grows at its end, and the client's
\* has room for all that has arrived.
LEMMA RecvSafe ==
    ASSUME IInv, NEW n \in 1..MaxRead, Recv(n)
    PROVE  IInv'
<1>1. /\ TypeOK /\ Packed /\ Buffered /\ UpJoined /\ AtHead /\ FrontIsHead
      /\ UpWhole /\ InputDrained /\ NothingWaits
  BY DEF IInv
<1>2. /\ total \in Nat /\ arrived \in Nat /\ nread \in Nat
      /\ nread <= arrived /\ arrived <= total /\ n \in Nat /\ n > 0 /\ n <= MaxRead
      /\ Len(recvBuf) \in Nat /\ Len(recvBuf) <= MAX_BUFFER_SIZE
      /\ Len(packs) \in Nat /\ Len(up) \in Nat
      /\ MAX_BUFFER_SIZE \in Nat /\ MaxRead \in Nat
  <2>1. MAX_BUFFER_SIZE \in Nat /\ MaxRead \in Nat
    BY FramingAssumption
  <2>2. QED
    BY <1>1, <2>1, SizeFact
<1>3. /\ pc = "idle" /\ pc' = "parse" /\ tmpIndex = 0 /\ tmpIndex' = 0
      /\ class' = class /\ packs' = packs /\ total' = total /\ up' = up
      /\ arrived + n <= total
  BY <1>1 DEF Recv, Buffered
<1>4. PICK m \in Nat :
          /\ m = IF arrived + n - nread < Room THEN arrived + n - nread ELSE Room
          /\ len' = m /\ nread' = nread + m
          /\ recvBuf' \in Seq(Nat)
          /\ Len(recvBuf') = Len(recvBuf) + m
          /\ \A k \in 1..(Len(recvBuf) + m) :
                 recvBuf'[k] = IF k <= Len(recvBuf) THEN recvBuf[k]
                               ELSE nread + (k - Len(recvBuf))
  BY <1>1, RecvFact
<1>sizes. /\ m <= MAX_BUFFER_SIZE - Len(recvBuf) /\ m <= arrived + n - nread
          /\ arrived' = arrived + n /\ nread' = nread + m
          /\ Len(recvBuf') = Len(recvBuf) + m
  <2>1. m <= Room /\ m <= arrived + n - nread
    BY <1>2, <1>4 DEF Room
  <2>2. arrived' = arrived + n
    BY DEF Recv
  <2>3. QED
    BY <1>4, <2>1, <2>2 DEF Room
<1>5. TypeOK'
  <2>1. Len(recvBuf') <= MAX_BUFFER_SIZE
    BY <1>2, <1>sizes
  <2>2. arrived' \in 0..total'
    BY <1>2, <1>3, <1>sizes
  <2>3. nread' \in 0..arrived'
    BY <1>2, <1>sizes
  <2>4. tmpIndex' \in 0..Len(recvBuf')
    BY <1>2, <1>3, <1>sizes
  <2>5. len' \in Nat
    BY <1>4
  <2>6. QED
    BY <1>1, <1>3, <1>4, <2>1, <2>2, <2>3, <2>4, <2>5 DEF TypeOK
<1>6. Packed'
  BY <1>1, <1>3 DEF Packed, StartOf
<1>7. Buffered'
  <2>1. ASSUME NEW k \in 1..(Len(recvBuf) + m)
        PROVE  recvBuf'[k] = nread' - Len(recvBuf') + k
    <3>1. CASE k <= Len(recvBuf)
      <4>1. recvBuf[k] = nread - Len(recvBuf) + k
        BY <1>1, <1>2, <3>1 DEF Buffered
      <4>2. recvBuf'[k] = recvBuf[k]
        BY <1>4, <3>1
      <4>3. QED
        BY <1>2, <1>sizes, <4>1, <4>2
    <3>2. CASE ~(k <= Len(recvBuf))
      <4>1. recvBuf'[k] = nread + (k - Len(recvBuf))
        BY <1>4, <3>2
      <4>2. k \in Int
        OBVIOUS
      <4>3. QED
        BY <1>2, <1>sizes, <4>1, <4>2
    <3>3. QED
      BY <3>1, <3>2
  <2>2. Len(recvBuf') <= nread'
    BY <1>1, <1>2, <1>4 DEF Buffered
  <2>3. QED
    BY <1>3, <1>4, <2>1, <2>2 DEF Buffered
<1>8. UpEnd' = UpEnd /\ UpEnd = nread - Len(recvBuf)
  <2>1. UpEnd = nread - Len(recvBuf)
    BY <1>2, <1>3 DEF UpEnd
  <2>2. UpEnd' = (nread + m) - (Len(recvBuf) + m) + 0
    BY <1>3, <1>4 DEF UpEnd
  <2>3. (nread + m) - (Len(recvBuf) + m) + 0 = nread - Len(recvBuf)
    BY <1>2
  <2>4. QED
    BY <2>1, <2>2, <2>3
<1>9. UpJoined'
  BY <1>1, <1>3, <1>8 DEF UpJoined
<1>10. InStep' = InStep
  BY <1>3 DEF InStep, OneLength
<1>11. AtHead'
  BY <1>1, <1>3, <1>8, <1>10 DEF AtHead, StartOf
<1>12. UpWhole'
  BY <1>1, <1>3, <1>10 DEF UpWhole, Whole
<1>13. NothingWaits'
  BY <1>3 DEF NothingWaits
<1>14. UpEnd < total
  BY <1>2, <1>3, <1>8
<1>15. FrontIsHead'
  <2>1. SUFFICES ASSUME InStep, recvBuf' # <<>>
                 PROVE  \E i \in 1..Len(packs) : packs[i].first = recvBuf'[1]
    BY <1>3, <1>10 DEF FrontIsHead
  <2>2. Len(recvBuf) + m > 0
    BY <1>2, <1>4, <2>1, SMTT(30)
  <2>3. CASE Len(recvBuf) = 0
    <3>1. recvBuf'[1] = UpEnd + 1
      <4>1. 1 \in 1..(Len(recvBuf) + m) /\ ~(1 <= Len(recvBuf))
        BY <1>2, <2>2, <2>3
      <4>2. recvBuf'[1] = nread + (1 - Len(recvBuf))
        BY <1>4, <4>1
      <4>3. QED
        BY <1>2, <1>8, <2>3, <4>2
    <3>2. QED
      BY <1>1, <1>14, <2>1, <3>1, NextIsSent
  <2>4. CASE Len(recvBuf) > 0
    <3>1. recvBuf'[1] = recvBuf[1] /\ recvBuf # <<>>
      <4>1. 1 \in 1..(Len(recvBuf) + m) /\ 1 <= Len(recvBuf)
        BY <1>2, <2>4
      <4>2. recvBuf'[1] = recvBuf[1]
        BY <1>4, <4>1
      <4>3. QED
        BY <2>4, <4>2
    <3>2. QED
      BY <1>1, <2>1, <3>1 DEF FrontIsHead
  <2>5. QED
    BY <1>2, <2>3, <2>4
<1>16. InputDrained'
  <2>1. SUFFICES ASSUME class = "ClientIOSocket"
                 PROVE  nread' = arrived'
    BY <1>3 DEF InputDrained
  <2>2. nread = arrived /\ InStep
    BY <1>1, <2>1 DEF InputDrained, InStep
  <2>3. /\ Len(up) + 1 \in 1..Len(packs)
        /\ packs[Len(up) + 1].first = UpEnd + 1
    BY <1>1, <1>14, <2>2, NextIsSent
  <2>4. Len(recvBuf) < packs[Len(up) + 1].len
    BY <1>1, <1>2, <1>3, <2>1, <2>2, <2>3 DEF NothingWaits
  <2>5. /\ packs[Len(up) + 1].len \in Nat
        /\ packs[Len(up) + 1].len + MaxRead <= MAX_BUFFER_SIZE + 1
    BY <1>1, <2>3, PackFact
  <2>6. n <= MAX_BUFFER_SIZE - Len(recvBuf)
    BY <1>2, <2>4, <2>5
  <2>7. m = n
    <3>1. arrived + n - nread = n
      BY <1>2, <2>2
    <3>2. m = IF n < Room THEN n ELSE Room
      BY <1>4, <3>1
    <3>3. n <= Room /\ Room \in Int
      BY <1>2, <2>6 DEF Room
    <3>4. QED
      BY <1>2, <3>2, <3>3
  <2>8. QED
    BY <1>sizes, <2>2, <2>7
<1>17. QED
  BY <1>5, <1>6, <1>7, <1>9, <1>11, <1>12, <1>13, <1>15, <1>16 DEF IInv

\* Handing up a package keeps the invariant: as long as the loop stands at
\* the beginning of a package, it is that package, and the loop stands at the
\* beginning of the next one afterwards.
LEMMA PassUpSafe ==
    ASSUME IInv, PassUp
    PROVE  IInv'
<1>1. /\ TypeOK /\ Packed /\ Buffered /\ UpJoined /\ AtHead /\ FrontIsHead
      /\ UpWhole /\ InputDrained /\ NothingWaits
  BY DEF IInv
<1>2. /\ nread \in Nat /\ Len(recvBuf) \in Nat /\ tmpIndex \in Nat
      /\ Len(packs) \in Nat /\ Len(up) \in Nat /\ DOMAIN up = 1..Len(up)
  BY <1>1, SizeFact
<1>3. /\ pc = "parse" /\ pc' = pc /\ HeadReadable
      /\ class' = class /\ packs' = packs /\ total' = total /\ arrived' = arrived
      /\ nread' = nread /\ recvBuf' = recvBuf /\ len' = len
  BY DEF PassUp
<1>4. PICK h \in HeadLen :
          /\ h \in Nat /\ h > 0 /\ h <= Remaining
          /\ tmpIndex' = tmpIndex + h
          /\ up' \in Seq(Seq(Nat)) /\ Len(up') = Len(up) + 1
          /\ \A i \in 1..Len(up) : up'[i] = up[i]
          /\ Len(up'[Len(up) + 1]) = h
          /\ \A k \in 1..h : up'[Len(up) + 1][k] = UpEnd + k
  BY <1>1, PassUpFact
<1>5. UpEnd' = UpEnd + h /\ UpEnd \in Int
  BY <1>2, <1>3, <1>4 DEF UpEnd
<1>6. TypeOK'
  <2>1. tmpIndex' \in 0..Len(recvBuf)
    BY <1>2, <1>4 DEF Remaining
  <2>2. QED
    BY <1>1, <1>3, <1>4, <2>1 DEF TypeOK
<1>7. Packed' /\ Buffered' /\ InputDrained' /\ NothingWaits'
  BY <1>1, <1>3 DEF Packed, StartOf, Buffered, InputDrained, NothingWaits
<1>8. InStep' = InStep
  BY <1>3 DEF InStep, OneLength
<1>9. FrontIsHead'
  BY <1>1, <1>3, <1>8 DEF FrontIsHead
<1>10. UpJoined'
  <2>1. ASSUME NEW i \in 1..Len(up')
        PROVE  /\ Len(up'[i]) > 0
               /\ \A k \in 2..Len(up'[i]) : up'[i][k] = up'[i][k - 1] + 1
    <3>1. CASE i <= Len(up)
      <4>1. i \in 1..Len(up) /\ up'[i] = up[i]
        BY <1>2, <1>4, <3>1
      <4>2. QED
        BY <1>1, <4>1 DEF UpJoined
    <3>2. CASE i = Len(up) + 1
      <4>1. ASSUME NEW k \in 2..h
            PROVE  up'[i][k] = up'[i][k - 1] + 1
        <5>1. k \in 1..h /\ k - 1 \in 1..h
          BY <1>4
        <5>2. up'[i][k] = UpEnd + k /\ up'[i][k - 1] = UpEnd + (k - 1)
          BY <1>4, <3>2, <5>1
        <5>3. QED
          BY <1>4, <1>5, <5>2
      <4>2. QED
        BY <1>4, <3>2, <4>1
    <3>3. QED
      BY <1>2, <1>4, <3>1, <3>2
  <2>2. /\ up'[Len(up) + 1][1] = UpEnd + 1
        /\ up'[Len(up) + 1][h] = UpEnd + h
    BY <1>4
  <2>3. ASSUME NEW i \in 2..Len(up')
        PROVE  up'[i][1] = up'[i - 1][Len(up'[i - 1])] + 1
    <3>1. CASE i <= Len(up)
      <4>1. i \in 1..Len(up) /\ i - 1 \in 1..Len(up) /\ i \in 2..Len(up)
        BY <1>2, <3>1
      <4>2. up'[i] = up[i] /\ up'[i - 1] = up[i - 1]
        BY <1>4, <4>1
      <4>3. QED
        BY <1>1, <4>1, <4>2 DEF UpJoined
    <3>2. CASE i = Len(up) + 1
      <4>1. up # <<>> /\ up'[i - 1] = up[Len(up)]
        BY <1>2, <1>4, <3>2
      <4>2. up[Len(up)][Len(up[Len(up)])] = UpEnd
        BY <1>1, <4>1 DEF UpJoined
      <4>3. QED
        BY <2>2, <3>2, <4>1, <4>2
    <3>3. QED
      BY <1>2, <1>4, <3>1, <3>2
  <2>4. up' # <<>> /\ up'[1][1] = 1
    <3>0. up' # <<>>
      BY <1>2, <1>4
    <3>1. CASE up = <<>>
      <4>1. Len(up) = 0 /\ UpEnd = 0
        BY <1>1, <3>1 DEF UpJoined
      <4>2. QED
        BY <2>2, <3>0, <4>1
    <3>2. CASE up # <<>>
      <4>1. 1 \in 1..Len(up) /\ up[1][1] = 1
        BY <1>1, <1>2, <3>2 DEF UpJoined, TypeOK
      <4>2. up'[1] = up[1]
        BY <1>4, <4>1
      <4>3. QED
        BY <3>0, <4>1, <4>2
    <3>3. QED
      BY <3>1, <3>2
  <2>5. up'[Len(up')][Len(up'[Len(up')])] = UpEnd'
    BY <1>4, <1>5, <2>2
  <2>6. QED
    BY <2>1, <2>3, <2>4, <2>5 DEF UpJoined
<1>11. AtHead' /\ UpWhole'
  <2>1. SUFFICES ASSUME InStep
                 PROVE  /\ Len(up') <= Len(packs)
                        /\ UpEnd' + 1 = StartOf(Len(up) + 1)'
                        /\ \A i \in 1..Len(up') : i <= Len(packs) /\ Whole(i)'
    BY <1>3, <1>8 DEF AtHead, UpWhole
  <2>2. /\ Len(up) + 1 \in 1..Len(packs)
        /\ packs[Len(up) + 1].first = UpEnd + 1
        /\ h = packs[Len(up) + 1].len
    BY <1>3, <1>4, <2>1, HeadIsNext
  <2>3. StartOf(Len(up) + 1)' = UpEnd' + 1
    <3>1. StartOf((Len(up) + 1) + 1) = packs[Len(up) + 1].first + packs[Len(up) + 1].len
      BY <1>1, <2>2 DEF Packed
    <3>2. StartOf(Len(up) + 1)' = StartOf((Len(up) + 1) + 1)
      BY <1>3, <1>4 DEF StartOf
    <3>3. packs[Len(up) + 1].first + packs[Len(up) + 1].len = UpEnd' + 1
      <4>1. packs[Len(up) + 1].first + packs[Len(up) + 1].len = (UpEnd + 1) + h
        BY <2>2
      <4>2. UpEnd' + 1 = (UpEnd + 1) + h
        BY <1>4, <1>5
      <4>3. QED
        BY <4>1, <4>2
    <3>4. QED
      BY <3>1, <3>2, <3>3
  <2>4. ASSUME NEW i \in 1..Len(up')
        PROVE  i <= Len(packs) /\ Whole(i)'
    <3>1. CASE i <= Len(up)
      <4>1. i <= Len(packs) /\ Whole(i) /\ up'[i] = up[i]
        BY <1>1, <1>2, <1>4, <2>1, <3>1 DEF UpWhole
      <4>2. QED
        BY <1>3, <4>1 DEF Whole
    <3>2. CASE i = Len(up) + 1
      <4>0. up'[i] \in Seq(Nat)
        BY <1>4, ElementFact
      <4>1. DOMAIN up'[i] = 1..h
        BY <1>4, <3>2, <4>0
      <4>2. ASSUME NEW k \in 1..h
            PROVE  up'[i][k] = packs[i].first + k - 1
        BY <1>4, <1>5, <2>2, <3>2
      <4>3. QED
        BY <1>3, <1>4, <2>2, <3>2, <4>1, <4>2 DEF Whole
    <3>3. QED
      BY <1>2, <1>4, <3>1, <3>2
  <2>5. QED
    BY <1>2, <1>4, <2>2, <2>3, <2>4
<1>12. QED
  BY <1>6, <1>7, <1>9, <1>10, <1>11 DEF IInv

\* A loop that never ends keeps the invariant.
LEMMA HangSafe ==
    ASSUME IInv, Hang
    PROVE  IInv'
<1>1. pc' = "hung"
        /\ UNCHANGED <<class, packs, total, arrived, nread, recvBuf, len, tmpIndex, up>>
  BY DEF Hang
<1>2. InStep' <=> InStep
  BY <1>1 DEF InStep, OneLength
<1>3. TypeOK'
  BY <1>1 DEF IInv, TypeOK
<1>4. Packed'
  BY <1>1 DEF IInv, Packed, StartOf
<1>5. Buffered'
  BY <1>1 DEF IInv, Buffered
<1>6. UpJoined'
  BY <1>1 DEF IInv, UpJoined, UpEnd
<1>7. AtHead'
  BY <1>1, <1>2 DEF IInv, AtHead, UpEnd, StartOf
<1>8. FrontIsHead'
  BY <1>1, <1>2 DEF IInv, FrontIsHead
<1>9. UpWhole'
  BY <1>1, <1>2 DEF IInv, UpWhole, Whole
<1>10. InputDrained'
  BY <1>1 DEF IInv, InputDrained
<1>11. NothingWaits'
  BY <1>1 DEF NothingWaits
<1>12. QED
  BY <1>3, <1>4, <1>5, <1>6, <1>7, <1>8, <1>9, <1>10, <1>11 DEF IInv

\* The end of recv keeps the invariant: what is left is the beginning of a
\* package that is not complete.
LEMMA LeaveSafe ==
    ASSUME IInv, Leave
    PROVE  IInv'
<1>1. /\ TypeOK /\ Packed /\ Buffered /\ UpJoined /\ AtHead /\ FrontIsHead
      /\ UpWhole /\ InputDrained /\ NothingWaits
  BY DEF IInv
<1>2. /\ total \in Nat /\ nread \in Nat /\ nread <= total /\ len \in Nat
      /\ Len(recvBuf) \in Nat /\ tmpIndex \in Nat /\ tmpIndex <= Len(recvBuf)
      /\ Len(recvBuf) <= MAX_BUFFER_SIZE
      /\ Len(packs) \in Nat /\ Len(up) \in Nat
      /\ MAX_BUFFER_SIZE \in Nat /\ HEADLEN \in Nat
  <2>1. MAX_BUFFER_SIZE \in Nat /\ HEADLEN \in Nat
    BY FramingAssumption
  <2>2. QED
    BY <1>1, <2>1, SizeFact
<1>3. /\ pc' = "idle" /\ tmpIndex' = 0
      /\ class' = class /\ packs' = packs /\ total' = total /\ arrived' = arrived
      /\ nread' = nread /\ len' = len /\ up' = up
      /\ HeadReadable => \E h \in HeadLen : h > Remaining
  BY DEF Leave
<1>4. /\ recvBuf' \in Seq(Nat)
      /\ Len(recvBuf') = Remaining
      /\ \A k \in 1..Remaining : recvBuf'[k] = UpEnd + k
  BY <1>1, LeaveFact
<1>5. /\ Remaining \in Nat /\ Remaining = Len(recvBuf) - tmpIndex
      /\ UpEnd = nread - Remaining /\ UpEnd' = UpEnd
  BY <1>2, <1>3, <1>4 DEF Remaining, UpEnd
<1>6. TypeOK'
  <2>1. Len(recvBuf') <= MAX_BUFFER_SIZE /\ tmpIndex' \in 0..Len(recvBuf')
    BY <1>2, <1>3, <1>4, <1>5
  <2>2. QED
    BY <1>1, <1>3, <1>4, <2>1 DEF TypeOK
<1>7. Packed' /\ InputDrained'
  BY <1>1, <1>3 DEF Packed, StartOf, InputDrained
<1>8. Buffered'
  <2>1. Len(recvBuf') <= nread'
    BY <1>1, <1>2, <1>3, <1>4, <1>5 DEF Buffered
  <2>2. \A k \in 1..Len(recvBuf') : recvBuf'[k] = nread' - Len(recvBuf') + k
    BY <1>2, <1>3, <1>4, <1>5
  <2>3. QED
    BY <1>3, <2>1, <2>2 DEF Buffered
<1>9. UpJoined'
  BY <1>1, <1>3, <1>5 DEF UpJoined
<1>10. InStep' = InStep
  BY <1>3 DEF InStep, OneLength
<1>11. AtHead'
  BY <1>1, <1>3, <1>5, <1>10 DEF AtHead, StartOf
<1>12. UpWhole'
  BY <1>1, <1>3, <1>10 DEF UpWhole, Whole
<1>13. FrontIsHead'
  <2>1. SUFFICES ASSUME InStep, recvBuf' # <<>>
                 PROVE  \E i \in 1..Len(packs) : packs[i].first = recvBuf'[1]
    BY <1>3, <1>10 DEF FrontIsHead
  <2>2. Remaining > 0
    BY <1>4, <1>5, <2>1
  <2>3. recvBuf'[1] = UpEnd + 1 /\ UpEnd < total
    BY <1>2, <1>4, <1>5, <2>2
  <2>4. QED
    BY <1>1, <2>1, <2>3, NextIsSent
<1>14. NothingWaits'
  <2>1. SUFFICES ASSUME InStep, class = "ClientIOSocket" \/ len >= HEADLEN,
                        Len(up) < Len(packs)
                 PROVE  Remaining < packs[Len(up) + 1].len
    BY <1>3, <1>4, <1>10 DEF NothingWaits
  <2>2. Len(up) + 1 \in 1..Len(packs)
    BY <1>2, <2>1
  <2>3. /\ packs[Len(up) + 1].len \in Nat
        /\ packs[Len(up) + 1].len > 0 /\ packs[Len(up) + 1].len >= HEADLEN
    BY <1>1, <2>2, PackFact
  <2>4. CASE HeadReadable
    <3>1. HeadLen = {packs[Len(up) + 1].len}
      BY <2>1, <2>4, HeadIsNext
    <3>2. QED
      BY <1>3, <1>5, <2>3, <2>4, <3>1
  <2>5. CASE ~HeadReadable
    <3>1. Remaining < HEADLEN \/ Remaining <= 0
      BY <1>1, <1>2, <1>5, <2>1, <2>5 DEF HeadReadable, TypeOK
    <3>2. QED
      BY <1>2, <1>5, <2>3, <3>1
  <2>6. QED
    BY <2>4, <2>5
<1>15. QED
  BY <1>6, <1>7, <1>8, <1>9, <1>11, <1>12, <1>13, <1>14 DEF IInv

-----------------------------------------------------------------------------
LEMMA Invariance == Spec => []IInv
<1>1. IInv /\ [Next]_vars => IInv'
  <2> SUFFICES ASSUME IInv, [Next]_vars PROVE IInv'
    OBVIOUS
  <2>1. CASE UNCHANGED vars
    BY <2>1 DEF vars, IInv, TypeOK, Packed, StartOf, Buffered, UpJoined, UpEnd, AtHead,
                FrontIsHead, UpWhole, Whole, InputDrained, NothingWaits, InStep, OneLength
  <2>2. CASE \E l \in PackageLens : Send(l)
    BY <2>2, SendSafe
  <2>3. CASE \E n \in 1..MaxRead : Recv(n)
    BY <2>3, RecvSafe
  <2>4. CASE PassUp
    BY <2>4, PassUpSafe
  <2>5. CASE Hang
    BY <2>5, HangSafe
  <2>6. CASE Leave
    BY <2>6, LeaveSafe
  <2>7. QED
    BY <2>1, <2>2, <2>3, <2>4, <2>5, <2>6 DEF Next
<1>2. QED
  BY InitIInv, <1>1, PTL DEF Spec

\* The variables keep their types: in particular _nRecvBufLen never exceeds
\* the buffer, and tmpIndex never exceeds _nRecvBufLen.
THEOREM TypeCorrect == Spec => []TypeOK
<1>1. IInv => TypeOK
  BY DEF IInv
<1>2. QED
  BY Invariance, <1>1, PTL

\* The client's recv hands up the packages as they were sent, wherever the
\* reads cut the stream; so does the server's as long as all packages have the
\* same length.
THEOREM FramesSafe == Spec => []FramesWhole
<1>1. IInv => FramesWhole
  <2> SUFFICES ASSUME IInv PROVE FramesWhole
    OBVIOUS
  <2>1. TypeOK /\ AtHead /\ UpWhole
    BY DEF IInv
  <2>2. DOMAIN up = 1..Len(up)
    BY <2>1, SizeFact
  <2>3. QED
    BY <2>1, <2>2 DEF FramesWhole, AtHead, UpWhole
<1>2. QED
  BY Invariance, <1>1, PTL

\* Whatever the lengths, recv neither loses, repeats nor reorders bytes.
THEOREM BytesSafe == Spec => []BytesKept
<1>1. IInv => BytesKept
  <2> SUFFICES ASSUME IInv PROVE BytesKept
    OBVIOUS
  <2>1. TypeOK /\ Buffered /\ UpJoined
    BY DEF IInv
  <2>2. /\ DOMAIN up = 1..Len(up) /\ Len(up) \in Nat
        /\ DOMAIN recvBuf = 1..Len(recvBuf)
    BY <2>1, SizeFact
  <2>3. ASSUME NEW i \in 1..Len(up)
        PROVE  /\ \A k \in 2..Len(up[i]) : up[i][k] = up[i][k - 1] + 1
               /\ up[i][1] = IF i = 1 THEN 1 ELSE up[i - 1][Len(up[i - 1])] + 1
               /\ DOMAIN up[i] = 1..Len(up[i]) /\ Len(up[i]) \in Nat
    <3>1. up[i] \in Seq(Nat)
      BY <2>1, ElementFact DEF TypeOK
    <3>2. up # <<>>
      BY <2>2
    <3>3. i = 1 \/ i \in 2..Len(up)
      BY <2>2
    <3>4. up[i][1] = IF i = 1 THEN 1 ELSE up[i - 1][Len(up[i - 1])] + 1
      BY <2>1, <3>2, <3>3 DEF UpJoined
    <3>5. \A k \in 2..Len(up[i]) : up[i][k] = up[i][k - 1] + 1
      BY <2>1 DEF UpJoined
    <3>6. QED
      BY <3>1, <3>4, <3>5
  <2>4. ASSUME NEW i \in 1..Len(up), NEW k \in DOMAIN up[i]
        PROVE  /\ k > 1 => up[i][k] = up[i][k - 1] + 1
               /\ k = 1 => up[i][1] = IF i = 1 THEN 1
                                      ELSE up[i - 1][Len(up[i - 1])] + 1
    <3>1. k \in 1..Len(up[i]) /\ Len(up[i]) \in Nat
      BY <2>3, <2>4
    <3>2. k > 1 => k \in 2..Len(up[i])
      BY <3>1
    <3>3. QED
      BY <2>3, <3>2
  <2>5. \A k \in DOMAIN recvBuf : recvBuf[k] = nread - Len(recvBuf) + k
    BY <2>1, <2>2 DEF Buffered
  <2>6. QED
    BY <2>2, <2>4, <2>5 DEF BytesKept
<1>2. QED
  BY Invariance, <1>1, PTL

\* The client's recv takes all that has arrived.
THEOREM DrainSafe == Spec => []InputDrained
<1>1. IInv => InputDrained
  BY DEF IInv
<1>2. QED
  BY Invariance, <1>1, PTL

\* Between two calls no complete package waits in the client's buffer, nor in
\* the server's after a call that has read a head.
THEOREM WaitSafe == Spec => []NothingWaits
<1>1. IInv => NothingWaits
  BY DEF IInv
<1>2. QED
  BY Invariance, <1>1, PTL

-----------------------------------------------------------------------------
(***************************************************************************)
(* The codec of heads, protocols and strings                               *)
(***************************************************************************)
\* What a byte can be, and the values that are written.
Octets == 0..255
Values == {v \in Nat : v < 128 * (256 * 256 * 256)}

\* A value that an integer of w bytes can have.
Fits(v, w) == (w = 1 => v < 256) /\ (w = 2 => v < (256 * 256))

\* The bytes of a value, divided out, add up to it.
LEMMA Digits ==
    ASSUME NEW v \in Values
    PROVE  /\ v \div 1 = v
           /\ (v % 256) \in Octets /\ ((v \div 256) % 256) \in Octets
           /\ ((v \div (256 * 256)) % 256) \in Octets /\ ((v \div (256 * 256 * 256)) % 256) \in Octets
           /\ v = (v % 256) + ((v \div 256) % 256) * 256 + ((v \div (256 * 256)) % 256) * (256 * 256)
                    + ((v \div (256 * 256 * 256)) % 256) * (256 * 256 * 256)
           /\ v < 256 => (v % 256) = v
           /\ v < (256 * 256) => v = (v % 256) + ((v \div 256) % 256) * 256
<1>1. v \in Nat /\ v < 128 * (256 * 256 * 256)
  BY DEF Values
<1>2. PICK x \in Nat : x = v \div 256
  BY <1>1
<1>3. v = 256 * x + (v % 256) /\ (v % 256) \in 0..255 /\ v \div 1 = v
  BY <1>1, <1>2
<1>4. PICK y \in Nat : y = x \div 256
  OBVIOUS
<1>5. x = 256 * y + (x % 256) /\ (x % 256) \in 0..255
  BY <1>4
<1>6. y = v \div (256 * 256)
  BY <1>1, <1>2, <1>4
<1>7. PICK z \in Nat : z = y \div 256
  OBVIOUS
<1>8. y = 256 * z + (y % 256) /\ (y % 256) \in 0..255
  BY <1>7
<1>9. z = v \div (256 * 256 * 256)
  BY <1>1, <1>6, <1>7
<1>10. z < 128 /\ (z % 256) = z
  BY <1>1, <1>9
<1>11. (v < 256 => x = 0) /\ (v < 256 * 256 => y = 0)
  BY <1>1, <1>2, <1>6
<1>12. v = (v % 256) + (x % 256) * 256 + (y % 256) * (256 * 256) + (z % 256) * (256 * 256 * 256)
  BY <1>1, <1>3, <1>5, <1>8, <1>10
<1>13. QED
  BY <1>1, <1>2, <1>3, <1>5, <1>6, <1>8, <1>9, <1>10, <1>11, <1>12 DEF Octets

LEMMA ReversedFact ==
    ASSUME NEW S, NEW s \in Seq(S)
    PROVE  /\ B!Reversed(s) \in Seq(S) /\ Len(B!Reversed(s)) = Len(s)
           /\ \A i \in 1..Len(s) : B!Reversed(s)[i] = s[Len(s) + 1 - i]
           /\ B!Reversed(B!Reversed(s)) = s
<1>1. Len(s) \in Nat /\ DOMAIN s = 1..Len(s)
  OBVIOUS
<1>2. B!Reversed(s) = [i \in 1..Len(s) |-> s[Len(s) + 1 - i]]
  BY <1>1 DEF B!Reversed
<1>3. \A i \in 1..Len(s) : Len(s) + 1 - i \in 1..Len(s) /\ s[Len(s) + 1 - i] \in S
  BY <1>1
<1>4. B!Reversed(s) \in Seq(S) /\ Len(B!Reversed(s)) = Len(s)
  BY <1>1, <1>2, <1>3
<1>5. B!Reversed(B!Reversed(s)) = [i \in 1..Len(s) |-> B!Reversed(s)[Len(s) + 1 - i]]
  BY <1>4 DEF B!Reversed
<1>6. \A i \in 1..Len(s) : B!Reversed(s)[Len(s) + 1 - i] = s[i]
  BY <1>1, <1>2, <1>3
<1>7. B!Reversed(B!Reversed(s)) = s
  BY <1>1, <1>5, <1>6
<1>8. QED
  BY <1>1, <1>2, <1>4, <1>7

\* The bytes of a value in memory, in the order of the host, are that value.
LEMMA ImageFact ==
    ASSUME NEW v \in Values, NEW w \in {1, 2, 4, 8}, Fits(v, w), NEW host \in BOOLEAN
    PROVE  /\ B!Image(v, w, host) \in Seq(Octets) /\ Len(B!Image(v, w, host)) = w
           /\ B!ValueOf(B!Image(v, w, host), host) = v
           /\ B!Reversed(B!Image(v, w, host)) = B!Image(v, w, ~host)
<1> DEFINE little == [i \in 1..w |-> IF i > 4 THEN 0 ELSE (v \div B!Weight[i]) % 256]
<1>1. /\ little[1] = v % 256
      /\ w > 1 => little[2] = (v \div 256) % 256
      /\ w > 2 => little[3] = (v \div (256 * 256)) % 256 /\ little[4] = (v \div (256 * 256 * 256)) % 256
      /\ \A i \in 5..w : little[i] = 0
  BY Digits DEF B!Weight
<1>2. little \in Seq(Octets) /\ Len(little) = w
  <2>1. \A i \in 1..w : little[i] \in Octets
    <3>1. 0 \in Octets
      BY DEF Octets
    <3>2. \A i \in 1..w : i = 1 \/ (i = 2 /\ w > 1) \/ ((i = 3 \/ i = 4) /\ w > 2) \/ i \in 5..w
      OBVIOUS
    <3> HIDE DEF little
    <3>3. QED
      BY <1>1, <3>1, <3>2, Digits
  <2>2. QED
    BY <2>1
<1>3. B!Little(little) = v
  <2> HIDE DEF little
  <2>1. CASE w = 1
    <3>1. B!Little(little) = little[1] * 1 + 0 + 0 + 0
      BY <1>2, <2>1 DEF B!Little, B!Weight
    <3>2. QED
      BY <1>1, <2>1, <3>1, Digits DEF Fits, Values
  <2>2. CASE w = 2
    <3>1. B!Little(little) = little[1] * 1 + little[2] * 256 + 0 + 0
      BY <1>2, <2>2 DEF B!Little, B!Weight
    <3>2. QED
      BY <1>1, <2>2, <3>1, Digits DEF Fits, Values, Octets
  <2>3. CASE w > 2
    <3>1. B!Little(little) = little[1] * 1 + little[2] * 256 + little[3] * (256 * 256) + little[4] * (256 * 256 * 256)
      BY <1>2, <2>3 DEF B!Little, B!Weight
    <3>2. B!Little(little) = (v % 256) * 1 + ((v \div 256) % 256) * 256
                + ((v \div (256 * 256)) % 256) * (256 * 256)
                + ((v \div (256 * 256 * 256)) % 256) * (256 * 256 * 256)
      BY <1>1, <2>3, <3>1
    <3>3. PICK x \in Octets : x = v % 256
      BY Digits
    <3>4. PICK y \in Octets : y = (v \div 256) % 256
      BY Digits
    <3>5. PICK z \in Octets : z = (v \div (256 * 256)) % 256
      BY Digits
    <3>6. PICK t \in Octets : t = (v \div (256 * 256 * 256)) % 256
      BY Digits
    <3>7. v = x + y * 256 + z * (256 * 256) + t * (256 * 256 * 256)
      BY <3>3, <3>4, <3>5, <3>6, Digits
    <3>8. QED
      BY <3>2, <3>3, <3>4, <3>5, <3>6, <3>7 DEF Octets
  <2>4. QED
    BY <2>1, <2>2, <2>3
<1>4. B!Image(v, w, host) = IF host THEN B!Reversed(little) ELSE little
  BY DEF B!Image
<1>5. B!Image(v, w, ~host) = IF host THEN little ELSE B!Reversed(little)
  BY DEF B!Image
<1> HIDE DEF little
<1>6. /\ B!Reversed(little) \in Seq(Octets) /\ Len(B!Reversed(little)) = w
      /\ B!Reversed(B!Reversed(little)) = little
  BY <1>2, ReversedFact
<1>7. QED
  BY <1>2, <1>3, <1>4, <1>5, <1>6 DEF B!ValueOf

\* Turned to the order of the stream, they are the bytes of that order.
LEMMA Turned ==
    ASSUME NEW v \in Values, NEW w \in {1, 2, 4, 8}, Fits(v, w),
           NEW big \in BOOLEAN, NEW host \in BOOLEAN
    PROVE  (IF B!IS_SAME_ENDIAN(big, host) THEN B!Image(v, w, host)
            ELSE B!Reversed(B!Image(v, w, host))) = B!Image(v, w, big)
<1>1. CASE big = host
  BY <1>1 DEF B!IS_SAME_ENDIAN
<1>2. CASE big # host
  <2>1. big = ~host
    BY <1>2
  <2>2. QED
    BY <1>2, <2>1, ImageFact DEF B!IS_SAME_ENDIAN
<1>3. QED
  BY <1>1, <1>2

LEMMA OneByte ==
    ASSUME NEW v \in Values, v < 256, NEW big \in BOOLEAN
    PROVE  /\ B!Image(v, 1, big) = <<v>> /\ v \in Octets
           /\ B!Image(v, 1, big) \in Seq(Octets) /\ Len(B!Image(v, 1, big)) = 1
<1>1. v % 256 = v /\ v \in Octets /\ v \div 1 = v
  BY Digits DEF Octets, Values
<1> DEFINE little == [i \in 1..1 |-> IF i > 4 THEN 0 ELSE (v \div B!Weight[i]) % 256]
<1>2. little = <<v>>
  BY <1>1 DEF B!Weight
<1>3. little \in Seq(Octets) /\ Len(little) = 1
  BY <1>1, <1>2
<1>4. B!Image(v, 1, big) = IF big THEN B!Reversed(little) ELSE little
  BY DEF B!Image
<1> HIDE DEF little
<1>5. B!Reversed(little) = little
  <2>1. B!Reversed(little) \in Seq(Octets) /\ Len(B!Reversed(little)) = 1 /\ B!Reversed(little)[1] = little[1]
    BY <1>3, ReversedFact
  <2>2. QED
    BY <1>3, <2>1
<1>6. QED
  BY <1>1, <1>2, <1>3, <1>4, <1>5

-----------------------------------------------------------------------------
\* Streams in full.
Out(buf, size, big, host, thrown) ==
    [buf |-> buf, size |-> size, big |-> big, host |-> host, thrown |-> thrown]
In(buf, curr, big, host, thrown, got) ==
    [buf |-> buf, curr |-> curr, big |-> big, host |-> host, thrown |-> thrown,
     got |-> got]

\* What a stream that can take them has after the bytes p.
Added(buf, size, big, host, p) ==
    IF size - Len(buf) < Len(p) THEN Out(buf, size, big, host, "overflow")
    ELSE Out(buf \o p, size, big, host, "none")

LEMMA WriteFact ==
    ASSUME NEW buf, NEW size, NEW big, NEW host, NEW p
    PROVE  /\ B!write(Out(buf, size, big, host, "none"), p) = Added(buf, size, big, host, p)
           /\ B!write(Out(buf, size, big, host, "overflow"), p) = Out(buf, size, big, host, "overflow")
<1> DEFINE b == Out(buf, size, big, host, "none")
<1>1. b.thrown = "none" /\ b.buf = buf /\ b.size = size
  BY DEF Out
<1>2. [b EXCEPT !.thrown = "overflow"] = Out(buf, size, big, host, "overflow")
  BY DEF Out
<1>3. [b EXCEPT !.buf = @ \o p] = Out(buf \o p, size, big, host, "none")
  <2>1. ASSUME NEW x
        PROVE  [b EXCEPT !.buf = x] = Out(x, size, big, host, "none")
    BY DEF Out
  <2> HIDE DEF b
  <2>2. [b EXCEPT !.buf = @ \o p] = Out(b.buf \o p, size, big, host, "none")
    BY <2>1
  <2>3. QED
    BY <1>1, <2>2
<1>4. B!write(b, p) = Added(buf, size, big, host, p)
  <2> HIDE DEF b
  <2>1. QED
    BY <1>1, <1>2, <1>3 DEF B!write, Added
<1>5. Out(buf, size, big, host, "overflow").thrown = "overflow"
  BY DEF Out
<1>6. QED
  BY <1>4, <1>5 DEF B!write

IntTypes == {"char", "short", "int", "long"}

LEMMA SizeofFact ==
    /\ DOMAIN B!sizeof = IntTypes
    /\ B!sizeof["char"] = 1 /\ B!sizeof["short"] = 2 /\ B!sizeof["int"] = 4 /\ B!sizeof["long"] = 8
    /\ B!sizeof.char = 1 /\ B!sizeof.short = 2 /\ B!sizeof.int = 4 /\ B!sizeof.long = 8
  BY DEF B!sizeof, IntTypes

\* An integer is written in the order of the stream, or not at all.
LEMMA PutFact ==
    ASSUME NEW buf, NEW size, NEW big \in BOOLEAN, NEW host \in BOOLEAN,
           NEW v \in Values, NEW type \in IntTypes, Fits(v, B!sizeof[type])
    PROVE  /\ B!putInt(Out(buf, size, big, host, "none"), v, type)
                 = Added(buf, size, big, host, B!Image(v, B!sizeof[type], big))
           /\ B!putInt(Out(buf, size, big, host, "overflow"), v, type)
                 = Out(buf, size, big, host, "overflow")
<1>1. B!sizeof[type] \in {1, 2, 4, 8} /\ (type = "char" <=> B!sizeof[type] = 1)
  BY SizeofFact DEF IntTypes
<1>2. CASE type = "char"
  <2>1. v < 256
    BY <1>1, <1>2 DEF Fits
  <2>2. B!Image(v, B!sizeof[type], big) = <<v>>
    BY <1>1, <1>2, <2>1, OneByte
  <2>3. QED
    BY <1>2, <2>2, WriteFact DEF B!putInt
<1>3. CASE type # "char"
  <2> DEFINE q == IF B!IS_SAME_ENDIAN(big, host) THEN B!Image(v, B!sizeof[type], host)
                  ELSE B!Reversed(B!Image(v, B!sizeof[type], host))
  <2>1. q = B!Image(v, B!sizeof[type], big)
    BY <1>1, Turned
  <2>2. ASSUME NEW t
        PROVE  B!putInt(Out(buf, size, big, host, t), v, type)
                 = B!write(Out(buf, size, big, host, t), q)
    BY <1>3 DEF B!putInt, B!write_care_endian, Out
  <2> HIDE DEF q
  <2>3. QED
    BY <2>1, <2>2, WriteFact
<1>4. QED
  BY <1>2, <1>3

\* What is in front of a place does not change what is read from there on.
LEMMA ReadPartFact ==
    ASSUME NEW S, NEW a \in Seq(S), NEW p \in Seq(S), NEW z \in Seq(S),
           NEW k \in Nat, k <= Len(a \o p \o z), Len(a) + Len(p) <= k
    PROVE  SubSeq(SubSeq(a \o p \o z, 1, k), Len(a) + 1, Len(a) + Len(p)) = p
<1> DEFINE f == a \o p \o z
<1> DEFINE t == SubSeq(f, 1, k)
<1> DEFINE u == SubSeq(t, Len(a) + 1, Len(a) + Len(p))
<1>1. f \in Seq(S) /\ Len(f) = Len(a) + Len(p) + Len(z)
  OBVIOUS
<1>2. \A i \in 1..Len(p) : f[Len(a) + i] = p[i]
  OBVIOUS
<1> HIDE DEF f
<1>3. t \in Seq(S) /\ Len(t) = k /\ \A i \in 1..k : t[i] = f[i]
  BY <1>1
<1> HIDE DEF t
<1>4. Len(u) = Len(p) /\ u \in Seq(S) /\ \A i \in 1..Len(p) : u[i] = t[Len(a) + i]
  BY <1>3
<1> HIDE DEF u
<1>5. \A i \in 1..Len(p) : u[i] = p[i]
  <2> TAKE i \in 1..Len(p)
  <2>1. Len(a) + i \in 1..k
    OBVIOUS
  <2>2. QED
    BY <1>2, <1>3, <1>4, <2>1
<1>6. u = p
  BY <1>4, <1>5
<1>7. QED
  BY <1>6 DEF u, t, f

\* t is the first k bytes of full, in which p stands after the first i bytes.
At(t, k, full, i, p) ==
    /\ \E a, z \in Seq(Octets) : i = Len(a) /\ full = a \o p \o z
    /\ p \in Seq(Octets)
    /\ k \in Nat /\ k <= Len(full) /\ i <= k
    /\ t = SubSeq(full, 1, k)

LEMMA AtFact ==
    ASSUME NEW t, NEW k, NEW full, NEW i, NEW p, At(t, k, full, i, p)
    PROVE  /\ i \in Nat /\ k \in Nat /\ i <= k /\ Len(p) \in Nat /\ p \in Seq(Octets)
           /\ full \in Seq(Octets) /\ k <= Len(full) /\ i + Len(p) <= Len(full)
           /\ Len(t) = k
           /\ k >= i + Len(p) => SubSeq(t, i + 1, i + Len(p)) = p
           /\ k = Len(full) => t = full
<1>1. p \in Seq(Octets) /\ k \in Nat /\ k <= Len(full) /\ i <= k /\ t = SubSeq(full, 1, k)
  BY DEF At
<1>2. PICK a \in Seq(Octets), z \in Seq(Octets) : i = Len(a) /\ full = a \o p \o z
  BY DEF At
<1>3. full \in Seq(Octets) /\ Len(full) = Len(a) + Len(p) + Len(z)
  BY <1>1, <1>2
<1>4. Len(a) \in Nat /\ Len(p) \in Nat /\ Len(z) \in Nat
  BY <1>1, <1>2
<1>5. Len(t) = k
  BY <1>1, <1>3
<1>6. ASSUME k >= i + Len(p)
      PROVE  SubSeq(t, i + 1, i + Len(p)) = p
  <2>1. k <= Len(a \o p \o z) /\ Len(a) + Len(p) <= k
    BY <1>1, <1>2, <1>4, <1>6
  <2>2. SubSeq(SubSeq(a \o p \o z, 1, k), Len(a) + 1, Len(a) + Len(p)) = p
    BY <1>1, <2>1, ReadPartFact
  <2>3. QED
    BY <1>1, <1>2, <2>2
<1>7. k = Len(full) => t = full
  BY <1>1, <1>3
<1>8. i + Len(p) <= Len(full)
  BY <1>2, <1>3, <1>4
<1>9. QED
  BY <1>1, <1>2, <1>3, <1>4, <1>5, <1>6, <1>7, <1>8

\* A read takes the next bytes, or throws.
LEMMA ReadOrFact ==
    ASSUME NEW t, NEW i \in Nat, NEW big, NEW host, NEW got, NEW w \in Nat, NEW cause,
           Len(t) \in Nat
    PROVE  /\ Len(t) < i + w =>
                 B!readOr(In(t, i, big, host, "none", got), w, cause) = In(t, i, big, host, cause, got)
           /\ Len(t) >= i + w =>
                 B!readOr(In(t, i, big, host, "none", got), w, cause)
                    = In(t, i + w, big, host, "none", SubSeq(t, i + 1, i + w))
<1> DEFINE b == In(t, i, big, host, "none", got)
<1>1. b.thrown = "none" /\ b.buf = t /\ b.curr = i
  BY DEF In
<1>2. B!avail(b) = Len(t) - i
  BY <1>1 DEF B!avail
<1>3. CASE Len(t) < i + w
  <2>1. B!avail(b) < w
    BY <1>2, <1>3
  <2>2. B!readOr(b, w, cause) = [b EXCEPT !.thrown = cause]
    BY <1>1, <2>1 DEF B!readOr
  <2>3. [b EXCEPT !.thrown = cause] = In(t, i, big, host, cause, got)
    BY DEF In
  <2>4. QED
    BY <1>3, <2>2, <2>3
<1>4. CASE Len(t) >= i + w
  <2> DEFINE p == SubSeq(t, i + 1, i + w)
  <2>1. ~(B!avail(b) < w)
    BY <1>2, <1>4
  <2>2. ASSUME NEW x
        PROVE  [b EXCEPT !.curr = x] = In(t, x, big, host, "none", got)
    BY DEF In
  <2>3. ASSUME NEW x, NEW q
        PROVE  [In(t, x, big, host, "none", got) EXCEPT !.got = q]
                  = In(t, x, big, host, "none", q)
    BY DEF In
  <2>4. B!readOr(b, w, cause)
           = [[b EXCEPT !.curr = b.curr + w] EXCEPT !.got = SubSeq(b.buf, b.curr + 1, b.curr + w)]
    BY <1>1, <2>1 DEF B!readOr
  <2>5. B!readOr(b, w, cause) = [[b EXCEPT !.curr = b.curr + w] EXCEPT !.got = p]
    <3> HIDE DEF b
    <3>1. QED
      BY <1>1, <2>4
  <2> HIDE DEF b, p
  <2>6. B!readOr(b, w, cause) = In(t, b.curr + w, big, host, "none", p)
    BY <2>2, <2>3, <2>5
  <2>7. QED
    BY <1>1, <1>4, <2>6 DEF b, p
<1>5. QED
  BY <1>3, <1>4

\* An integer that an integer of a type of w bytes can have.
Typed(v, w, type) ==
    v \in Values /\ type \in IntTypes /\ w = B!sizeof[type] /\ Fits(v, w)

\* An integer that was written comes back, to a host of either order, from a
\* stream that goes that far; another one throws.
LEMMA GetFact ==
    ASSUME NEW t, NEW k, NEW full, NEW i, NEW v, NEW w, NEW type, Typed(v, w, type),
           NEW big \in BOOLEAN, NEW host \in BOOLEAN, NEW got,
           At(t, k, full, i, B!Image(v, w, big))
    PROVE  /\ k < i + w =>
                 \E cause \in {"end", "overflow"} :
                     B!getInt(In(t, i, big, host, "none", got), type) = In(t, i, big, host, cause, got)
           /\ k >= i + w =>
                 \E g : /\ B!getInt(In(t, i, big, host, "none", got), type)
                              = In(t, i + w, big, host, "none", g)
                        /\ B!Got(In(t, i + w, big, host, "none", g)) = v
<1> DEFINE p == B!Image(v, w, big)
<1> DEFINE b == In(t, i, big, host, "none", got)
<1> DEFINE g == B!Image(v, w, host)
<1>1. /\ v \in Values /\ type \in IntTypes /\ w = B!sizeof[type] /\ Fits(v, w)
      /\ w \in {1, 2, 4, 8} /\ (type = "char" <=> w = 1)
  BY SizeofFact DEF IntTypes, Typed
<1>2. Len(p) = w
  BY <1>1, ImageFact
<1>3. /\ i \in Nat /\ k \in Nat /\ i <= k /\ Len(t) = k
      /\ k >= i + w => SubSeq(t, i + 1, i + w) = p
  <2> HIDE DEF p
  <2>1. At(t, k, full, i, p)
    BY DEF p
  <2>2. QED
    BY <1>2, <2>1, AtFact
<1>4. b.big = big /\ b.host = host
  BY DEF In
<1>5. ASSUME NEW cause
      PROVE  /\ k < i + w => B!readOr(b, w, cause) = In(t, i, big, host, cause, got)
             /\ k >= i + w => B!readOr(b, w, cause) = In(t, i + w, big, host, "none", p)
  <2> HIDE DEF p
  <2>1. i \in Nat /\ w \in Nat /\ Len(t) \in Nat
    BY <1>1, <1>3
  <2>2. /\ Len(t) < i + w => B!readOr(b, w, cause) = In(t, i, big, host, cause, got)
        /\ Len(t) >= i + w =>
              B!readOr(b, w, cause) = In(t, i + w, big, host, "none", SubSeq(t, i + 1, i + w))
    BY <2>1, ReadOrFact
  <2> HIDE DEF b
  <2>3. QED
    BY <1>3, <2>1, <2>2
<1>6. g = (IF B!IS_SAME_ENDIAN(host, big) THEN p ELSE B!Reversed(p))
  <2>1. (IF B!IS_SAME_ENDIAN(host, big) THEN B!Image(v, w, big) ELSE B!Reversed(B!Image(v, w, big)))
           = B!Image(v, w, host)
    BY <1>1, Turned
  <2>2. QED
    BY <2>1
<1>7. B!ValueOf(g, host) = v
  BY <1>1, ImageFact
<1>8. B!Got(In(t, i + w, big, host, "none", g)) = v
  <2>1. /\ In(t, i + w, big, host, "none", g).got = g
        /\ In(t, i + w, big, host, "none", g).host = host
    BY DEF In
  <2>2. QED
    BY <1>7, <2>1 DEF B!Got
<1>9. CASE type = "char"
  <2>1. w = 1
    BY <1>1, <1>9
  <2>2. B!getInt(b, type) = B!readOr(b, w, "end")
    BY <1>9, <2>1 DEF B!getInt, B!read
  <2>3. g = p
    BY <1>1, <2>1, OneByte DEF Fits
  <2> HIDE DEF p, b, g
  <2>4. /\ k < i + w => B!readOr(b, w, "end") = In(t, i, big, host, "end", got)
        /\ k >= i + w => B!readOr(b, w, "end") = In(t, i + w, big, host, "none", p)
    BY <1>5
  <2>5. QED
    BY <1>8, <2>2, <2>3, <2>4 DEF b
<1>10. CASE type # "char"
  <2> DEFINE q == B!readOr(b, w, "overflow")
  <2>1. B!getInt(b, type) = IF q.thrown # "none" \/ B!IS_SAME_ENDIAN(b.big, b.host) THEN q
                          ELSE [q EXCEPT !.got = B!Reversed(@)]
    BY <1>1, <1>10 DEF B!getInt, B!read_care_endian
  <2>2. /\ k < i + w => q = In(t, i, big, host, "overflow", got)
        /\ k >= i + w => q = In(t, i + w, big, host, "none", p)
    BY <1>5
  <2> HIDE DEF p, b, g, q
  <2>3. ASSUME k < i + w
        PROVE  B!getInt(b, type) = In(t, i, big, host, "overflow", got)
    <3>1. q.thrown = "overflow"
      BY <2>2, <2>3 DEF In
    <3>2. QED
      BY <2>1, <2>2, <2>3, <3>1
  <2>4. ASSUME k >= i + w
        PROVE  B!getInt(b, type) = In(t, i + w, big, host, "none", g)
    <3>1. q = In(t, i + w, big, host, "none", p)
      BY <2>2, <2>4
    <3>2. q.thrown = "none"
      BY <3>1 DEF In
    <3>3. CASE big = host
      BY <1>4, <1>6, <2>1, <3>1, <3>2, <3>3 DEF B!IS_SAME_ENDIAN
    <3>4. CASE big # host
      <4>1. B!getInt(b, type) = [q EXCEPT !.got = B!Reversed(@)]
        BY <1>4, <2>1, <3>2, <3>4 DEF B!IS_SAME_ENDIAN
      <4>2. [q EXCEPT !.got = B!Reversed(@)] = In(t, i + w, big, host, "none", B!Reversed(p))
        BY <3>1 DEF In
      <4>3. g = B!Reversed(p)
        BY <1>6, <3>4 DEF B!IS_SAME_ENDIAN
      <4>4. QED
        BY <4>1, <4>2, <4>3
    <3>5. QED
      BY <3>3, <3>4
  <2>5. QED
    BY <1>8, <2>3, <2>4 DEF b
<1>11. QED
  BY <1>9, <1>10

-----------------------------------------------------------------------------
\* What a stream of size bytes is after the bytes p were written to it, at
\* once or one part after the other.
Took(b, size, big, host, p) ==
    /\ size >= Len(p) => b = Out(p, size, big, host, "none")
    /\ size < Len(p) => \E x : b = Out(x, size, big, host, "overflow")

LEMMA TookPart ==
    ASSUME NEW b, NEW size \in Nat, NEW big, NEW host, NEW p \in Seq(Octets), NEW q \in Seq(Octets),
           Took(b, size, big, host, p), NEW c,
           b = Out(p, size, big, host, "none") => c = Added(p, size, big, host, q),
           \A x : b = Out(x, size, big, host, "overflow") => c = b
    PROVE  Took(c, size, big, host, p \o q)
<1>1. p \o q \in Seq(Octets) /\ Len(p \o q) = Len(p) + Len(q)
  OBVIOUS
<1>2. CASE size < Len(p)
  <2>1. PICK x : b = Out(x, size, big, host, "overflow")
    BY <1>2 DEF Took
  <2>2. c = Out(x, size, big, host, "overflow")
    BY <2>1
  <2>3. size < Len(p \o q)
    BY <1>1, <1>2
  <2>4. QED
    BY <1>1, <2>2, <2>3 DEF Took
<1>3. CASE size >= Len(p)
  <2>1. c = Added(p, size, big, host, q)
    BY <1>3 DEF Took
  <2>2. (size - Len(p) < Len(q)) <=> (size < Len(p \o q))
    BY <1>1
  <2>3. CASE size - Len(p) < Len(q)
    <3>1. c = Out(p, size, big, host, "overflow") /\ size < Len(p \o q)
      BY <2>1, <2>2, <2>3 DEF Added
    <3>2. ~(size >= Len(p \o q))
      BY <1>1, <3>1
    <3>3. QED
      BY <3>1, <3>2 DEF Took
  <2>4. CASE ~(size - Len(p) < Len(q))
    <3>1. c = Out(p \o q, size, big, host, "none") /\ ~(size < Len(p \o q))
      BY <2>1, <2>2, <2>4 DEF Added
    <3>2. QED
      BY <3>1 DEF Took
  <2>5. QED
    BY <2>3, <2>4
<1>4. QED
  BY <1>2, <1>3

LEMMA TookBytes ==
    ASSUME NEW b, NEW size \in Nat, NEW big, NEW host, NEW p \in Seq(Octets), NEW q \in Seq(Octets),
           Took(b, size, big, host, p)
    PROVE  Took(B!write(b, q), size, big, host, p \o q)
<1>1. b = Out(p, size, big, host, "none") => B!write(b, q) = Added(p, size, big, host, q)
  BY WriteFact
<1>2. \A x : b = Out(x, size, big, host, "overflow") => B!write(b, q) = b
  BY WriteFact
<1>3. QED
  BY <1>1, <1>2, TookPart

LEMMA TookInt ==
    ASSUME NEW b, NEW size \in Nat, NEW big \in BOOLEAN, NEW host \in BOOLEAN,
           NEW p \in Seq(Octets), Took(b, size, big, host, p),
           NEW v \in Values, NEW type \in IntTypes, NEW w, w = B!sizeof[type], Fits(v, w)
    PROVE  Took(B!putInt(b, v, type), size, big, host, p \o B!Image(v, w, big))
<1> DEFINE q == B!Image(v, w, big)
<1>1. q \in Seq(Octets)
  BY ImageFact, SizeofFact DEF IntTypes
<1>2. b = Out(p, size, big, host, "none") => B!putInt(b, v, type) = Added(p, size, big, host, q)
  BY PutFact
<1>3. \A x : b = Out(x, size, big, host, "overflow") => B!putInt(b, v, type) = b
  BY PutFact
<1> HIDE DEF q
<1>4. Took(B!putInt(b, v, type), size, big, host, p \o q)
  BY <1>1, <1>2, <1>3, TookPart
<1>5. QED
  BY <1>4 DEF q

LEMMA TookNone ==
    ASSUME NEW size \in Nat, NEW big, NEW host
    PROVE  Took(B!bostream(size, big, host), size, big, host, <<>>)
  BY DEF Took, B!bostream, Out

\* The length in front of a string.
LengthBytes(n, big) ==
    IF n < 255 THEN B!Image(n, 1, big)
    ELSE IF B!MiddleForm(n) THEN B!Image(255, 1, big) \o B!Image(n, 2, big)
    ELSE B!Image(255, 1, big) \o B!Image(B!LongMark, 2, big) \o B!Image(n, 8, big)

LEMMA Marks ==
    /\ 255 \in Values /\ B!LongMark \in Values /\ Fits(255, 1) /\ Fits(B!LongMark, 2)
    /\ ~B!MiddleForm(B!LongMark)
  BY SMT DEF Values, Fits, B!LongMark, B!MiddleForm

LEMMA LengthFact ==
    ASSUME NEW n \in Values, NEW big \in BOOLEAN
    PROVE  /\ n \in Nat
           /\ n < 255 => Fits(n, 1)
           /\ B!MiddleForm(n) => Fits(n, 2)
           /\ Fits(n, 8)
  BY SMT DEF Values, Fits, B!MiddleForm

LEMMA LengthBytesFact ==
    ASSUME NEW n \in Values, NEW big \in BOOLEAN
    PROVE  /\ LengthBytes(n, big) \in Seq(Octets)
           /\ Len(LengthBytes(n, big)) = IF n < 255 THEN 1 ELSE IF B!MiddleForm(n) THEN 3 ELSE 11
<1> DEFINE c == B!Image(255, 1, big)
<1> DEFINE w == B!Image(B!LongMark, 2, big)
<1>1. c \in Seq(Octets) /\ Len(c) = 1 /\ w \in Seq(Octets) /\ Len(w) = 2
  BY Marks, ImageFact
<1>2. n < 255 => B!Image(n, 1, big) \in Seq(Octets) /\ Len(B!Image(n, 1, big)) = 1
  BY LengthFact, ImageFact
<1>3. B!MiddleForm(n) => B!Image(n, 2, big) \in Seq(Octets) /\ Len(B!Image(n, 2, big)) = 2
  BY LengthFact, ImageFact
<1>4. B!Image(n, 8, big) \in Seq(Octets) /\ Len(B!Image(n, 8, big)) = 8
  BY LengthFact, ImageFact
<1>5. LengthBytes(n, big) = IF n < 255 THEN B!Image(n, 1, big)
                            ELSE IF B!MiddleForm(n) THEN c \o B!Image(n, 2, big)
                            ELSE c \o w \o B!Image(n, 8, big)
  BY DEF LengthBytes
<1> HIDE DEF c, w
<1>6. ASSUME B!MiddleForm(n)
      PROVE  c \o B!Image(n, 2, big) \in Seq(Octets) /\ Len(c \o B!Image(n, 2, big)) = 3
  <2> DEFINE q == B!Image(n, 2, big)
  <2>1. q \in Seq(Octets) /\ Len(q) = 2
    BY <1>3, <1>6
  <2> HIDE DEF q
  <2>2. c \o q \in Seq(Octets) /\ Len(c \o q) = 1 + 2
    <3>1. PICK x \in Seq(Octets), y \in Seq(Octets) : x = c /\ y = q /\ Len(x) = 1 /\ Len(y) = 2
      BY <1>1, <2>1
    <3>2. x \o y \in Seq(Octets)
      OBVIOUS
    <3>3. Len(x \o y) = Len(x) + Len(y)
      OBVIOUS
    <3>4. QED
      BY <3>1, <3>2, <3>3
  <2>3. QED
    BY <2>2 DEF q
<1>7. /\ c \o w \o B!Image(n, 8, big) \in Seq(Octets)
      /\ Len(c \o w \o B!Image(n, 8, big)) = 11
  <2> DEFINE q == B!Image(n, 8, big)
  <2>1. q \in Seq(Octets) /\ Len(q) = 8
    BY <1>4
  <2> HIDE DEF q
  <2>2. c \o w \in Seq(Octets) /\ Len(c \o w) = 1 + 2
    <3>1. PICK x \in Seq(Octets), y \in Seq(Octets) : x = c /\ y = w /\ Len(x) = 1 /\ Len(y) = 2
      BY <1>1
    <3>2. x \o y \in Seq(Octets)
      OBVIOUS
    <3>3. Len(x \o y) = Len(x) + Len(y)
      OBVIOUS
    <3>4. QED
      BY <3>1, <3>2, <3>3
  <2> DEFINE cw == c \o w
  <2> HIDE DEF cw
  <2>3. cw \in Seq(Octets) /\ Len(cw) = 3
    BY <2>2 DEF cw
  <2>4. cw \o q \in Seq(Octets) /\ Len(cw \o q) = 3 + 8
    <3>1. PICK x \in Seq(Octets), y \in Seq(Octets) : x = cw /\ y = q /\ Len(x) = 3 /\ Len(y) = 8
      BY <2>1, <2>3
    <3>2. x \o y \in Seq(Octets)
      OBVIOUS
    <3>3. Len(x \o y) = Len(x) + Len(y)
      OBVIOUS
    <3>4. QED
      BY <3>1, <3>2, <3>3
  <2>5. QED
    BY <2>4 DEF q, cw
<1>8. CASE n < 255
  BY <1>2, <1>5, <1>8
<1>9. CASE ~(n < 255) /\ B!MiddleForm(n)
  BY <1>5, <1>6, <1>9
<1>10. CASE ~(n < 255) /\ ~B!MiddleForm(n)
  BY <1>5, <1>7, <1>10
<1>11. QED
  BY <1>8, <1>9, <1>10

\* A string is written behind its length, or the stream throws.
LEMMA PutStringFact ==
    ASSUME NEW s \in Seq(Octets), Len(s) \in Values, NEW size \in Nat,
           NEW big \in BOOLEAN, NEW host \in BOOLEAN
    PROVE  Took(B!putString(B!bostream(size, big, host), s), size, big, host,
                LengthBytes(Len(s), big) \o s)
<1> DEFINE n == Len(s)
<1> DEFINE e == B!bostream(size, big, host)
<1>1. Took(e, size, big, host, <<>>)
  BY TookNone
<1>2. "char" \in IntTypes /\ "short" \in IntTypes /\ "long" \in IntTypes
  BY DEF IntTypes
<1>3. Took(B!putLength(e, n), size, big, host, LengthBytes(n, big))
  <2> HIDE DEF n, e
  <2>0. n \in Values
    BY DEF n
  <2> USE <2>0
  <2>1. \A p \in Seq(Octets) : <<>> \o p = p
    OBVIOUS
  <2> DEFINE none == <<>>
  <2>5. none \in Seq(Octets) /\ Took(e, size, big, host, none)
    BY <1>1
  <2> HIDE DEF none
  <2>2. CASE n < 255
    <3>1. Took(B!putInt(e, n, "char"), size, big, host, none \o B!Image(n, 1, big))
      BY <1>2, <2>2, <2>5, LengthFact, SizeofFact, TookInt
    <3>2. none \o B!Image(n, 1, big) = LengthBytes(n, big)
      BY <2>1, <2>2, LengthFact, ImageFact DEF LengthBytes, none
    <3>3. B!putLength(e, n) = B!putInt(e, n, "char")
      BY <2>2 DEF B!putLength, B!ShortForm
    <3>4. QED
      BY <3>1, <3>2, <3>3
  <2>3. CASE ~(n < 255)
    <3> DEFINE b == B!putInt(e, 255, "char")
    <3> DEFINE c == B!Image(255, 1, big)
    <3>1. c \in Seq(Octets)
      BY Marks, ImageFact
    <3>2. Took(b, size, big, host, none \o c)
      BY <1>2, <2>5, Marks, SizeofFact, TookInt
    <3>3. B!putLength(e, n) = IF B!MiddleForm(n) THEN B!putInt(b, n, "short")
                            ELSE B!putInt(B!putInt(b, B!LongMark, "short"), n, "long")
      BY <2>3 DEF B!putLength, B!ShortForm
    <3>4. LengthBytes(n, big) = IF B!MiddleForm(n) THEN c \o B!Image(n, 2, big)
                                ELSE c \o B!Image(B!LongMark, 2, big) \o B!Image(n, 8, big)
      BY <2>3 DEF LengthBytes
    <3> HIDE DEF b, c
    <3>5. Took(b, size, big, host, c)
      BY <2>1, <3>1, <3>2 DEF none
    <3>6. CASE B!MiddleForm(n)
      <4>1. Took(B!putInt(b, n, "short"), size, big, host, c \o B!Image(n, 2, big))
        BY <1>2, <3>1, <3>5, <3>6, LengthFact, SizeofFact, TookInt
      <4>2. QED
        BY <3>3, <3>4, <3>6, <4>1
    <3>7. CASE ~(B!MiddleForm(n))
      <4> DEFINE d == B!putInt(b, B!LongMark, "short")
      <4> DEFINE w == B!Image(B!LongMark, 2, big)
      <4>1. w \in Seq(Octets)
        BY Marks, ImageFact
      <4>2. Took(d, size, big, host, c \o w)
        BY <1>2, <3>1, <3>5, Marks, SizeofFact, TookInt
      <4>3. B!putLength(e, n) = B!putInt(d, n, "long") /\ LengthBytes(n, big) = c \o w \o B!Image(n, 8, big)
        BY <3>3, <3>4, <3>7
      <4> HIDE DEF d, w
      <4>4. c \o w \in Seq(Octets)
        BY <3>1, <4>1
      <4>5. Took(B!putInt(d, n, "long"), size, big, host, c \o w \o B!Image(n, 8, big))
        BY <1>2, <4>2, <4>4, LengthFact, SizeofFact, TookInt
      <4>6. QED
        BY <4>3, <4>5
    <3>8. QED
      BY <3>6, <3>7
  <2>4. QED
    BY <2>2, <2>3
<1>4. LengthBytes(n, big) \in Seq(Octets)
  BY LengthBytesFact
<1>5. B!putString(e, s) = B!write(B!putLength(e, n), s)
  BY DEF B!putString
<1>6. Took(B!write(B!putLength(e, n), s), size, big, host, LengthBytes(n, big) \o s)
  <2> HIDE DEF n, e
  <2>1. QED
    BY <1>3, <1>4, TookBytes
<1>7. QED
  BY <1>5, <1>6

-----------------------------------------------------------------------------
LEMMA ExceptFact ==
    ASSUME NEW t, NEW i, NEW big, NEW host, NEW cause, NEW got, NEW x
    PROVE  /\ [In(t, i, big, host, cause, got) EXCEPT !.curr = x] = In(t, x, big, host, cause, got)
           /\ [In(t, i, big, host, cause, got) EXCEPT !.thrown = "rangeerror"]
                 = In(t, i, big, host, "rangeerror", got)
  BY DEF In

\* What comes of reading a string s into memory of ssize bytes, of which k of
\* len bytes are there.
Reads(r, t, k, count, s, ssize, big, host) ==
    /\ (ssize > Len(s) /\ k = count) => r = In(t, k, big, host, "none", s)
    /\ (ssize > Len(s) /\ k < count) => r.thrown \in {"end", "overflow"}
    /\ (ssize <= Len(s) /\ k = count) =>
           /\ r.thrown = "rangeerror"
           /\ Len(s) < 255 => \E g : r = In(t, 0, big, host, "rangeerror", g)

\* The characters of a string, of which the length was read.
LEMMA BodyFact ==
    ASSUME NEW t, NEW k, NEW full, NEW i, NEW s, At(t, k, full, i, s), Len(full) = i + Len(s),
           NEW big, NEW host, NEW got, NEW type \in IntTypes,
           B!Got(In(t, i, big, host, "none", got)) = Len(s), NEW ssize \in Nat,
           Len(s) < 255 => i = B!sizeof[type]
    PROVE  Reads(B!readBody(In(t, i, big, host, "none", got), type, ssize),
                 t, k, Len(full), s, ssize, big, host)
<1> DEFINE b == In(t, i, big, host, "none", got)
<1> DEFINE n == Len(s)
<1> DEFINE r == B!readBody(b, type, ssize)
<1>1. b.thrown = "none" /\ b.curr = i /\ B!Got(b) = n
  BY DEF In
<1>2. /\ i \in Nat /\ k \in Nat /\ i <= k /\ n \in Nat /\ k <= Len(full)
      /\ Len(full) = i + n /\ Len(t) = k
      /\ k >= i + n => SubSeq(t, i + 1, i + n) = s
  BY AtFact
<1>3. CASE ssize <= n
  <2>1. r = B!BackBy(b, B!sizeof[type])
    <3> HIDE DEF b
    <3>1. QED
      BY <1>1, <1>2, <1>3 DEF B!readBody
  <2>2. B!BackBy(b, B!sizeof[type]) = [[b EXCEPT !.curr = b.curr - B!sizeof[type]] EXCEPT !.thrown = "rangeerror"]
    BY DEF B!BackBy
  <2>3. ASSUME NEW x
        PROVE  [b EXCEPT !.curr = x] = In(t, x, big, host, "none", got)
    BY ExceptFact
  <2>4. ASSUME NEW x
        PROVE  [In(t, x, big, host, "none", got) EXCEPT !.thrown = "rangeerror"]
                  = In(t, x, big, host, "rangeerror", got)
    BY ExceptFact
  <2> HIDE DEF b, r
  <2>5. r = In(t, b.curr - B!sizeof[type], big, host, "rangeerror", got)
    BY <2>1, <2>2, <2>3, <2>4
  <2>6. r.thrown = "rangeerror"
    BY <2>5 DEF In
  <2>7. n < 255 => b.curr - B!sizeof[type] = 0
    BY <1>1, <1>2, SizeofFact DEF IntTypes, n
  <2>8. n < 255 => r = In(t, 0, big, host, "rangeerror", got)
    BY <2>5, <2>7
  <2>9. ~(ssize > n)
    BY <1>2, <1>3
  <2>10. Reads(r, t, k, Len(full), s, ssize, big, host)
    BY <2>6, <2>8, <2>9 DEF Reads, n
  <2>11. QED
    BY <2>10 DEF r, b
<1>4. CASE ssize > n
  <2> DEFINE q == B!readOr(b, n, "end")
  <2>1. r = q
    <3> HIDE DEF b
    <3>1. QED
      BY <1>1, <1>2, <1>4 DEF B!readBody, B!read
  <2>2. /\ Len(t) < i + n => q = In(t, i, big, host, "end", got)
        /\ Len(t) >= i + n => q = In(t, i + n, big, host, "none", SubSeq(t, i + 1, i + n))
    <3>1. Len(t) \in Nat /\ i \in Nat /\ n \in Nat
      BY <1>2
    <3> HIDE DEF n
    <3>2. QED
      BY ONLY <3>1, ReadOrFact
  <2> HIDE DEF r, b, q
  <2>3. ASSUME k = Len(full)
        PROVE  r = In(t, k, big, host, "none", s)
    <3>1. Len(t) >= i + n /\ i + n = k
      BY <1>2, <2>3
    <3>2. SubSeq(t, i + 1, i + n) = s
      BY <1>2, <3>1
    <3> HIDE DEF n
    <3>3. QED
      BY <2>1, <2>2, <3>1, <3>2
  <2>4. ASSUME k < Len(full)
        PROVE  r.thrown = "end"
    <3>1. Len(t) < i + n
      BY <1>2, <2>4
    <3>2. r = In(t, i, big, host, "end", got)
      BY <2>1, <2>2, <3>1
    <3>3. QED
      BY <3>2 DEF In
  <2>5. ~(ssize <= n)
    BY <1>2, <1>4
  <2>6. Reads(r, t, k, Len(full), s, ssize, big, host)
    BY <2>3, <2>4, <2>5 DEF Reads, n
  <2>7. QED
    BY <2>6 DEF r, b
<1>5. QED
  BY <1>2, <1>3, <1>4

\* A stream that threw before the characters has come to its end.
LEMMA ThrownFact ==
    ASSUME NEW t, NEW i, NEW big, NEW host, NEW cause \in {"end", "overflow"}, NEW got,
           NEW type, NEW k \in Nat, NEW count \in Nat, k < count, NEW s, NEW ssize
    PROVE  /\ In(t, i, big, host, cause, got).thrown = cause /\ cause # "none"
           /\ Reads(B!readBody(In(t, i, big, host, cause, got), type, ssize),
                    t, k, count, s, ssize, big, host)
<1>1. In(t, i, big, host, cause, got).thrown = cause /\ cause # "none"
  BY DEF In
<1>2. B!readBody(In(t, i, big, host, cause, got), type, ssize) = In(t, i, big, host, cause, got)
  BY <1>1 DEF B!readBody
<1>3. k # count
  OBVIOUS
<1>4. QED
  BY <1>1, <1>2, <1>3 DEF Reads

\* The parts of a string in a stream.
Joined(c, w, q, s) ==
    /\ q \o s \in Seq(Octets) /\ c \o w \in Seq(Octets) /\ Len(c \o w) = Len(c) + Len(w)
    /\ w \o (q \o s) \in Seq(Octets) /\ c \o w \o q \in Seq(Octets)
    /\ Len(c \o w \o q) = Len(c) + Len(w) + Len(q)
    /\ c \o w \o q \o s = c \o w \o (q \o s)
    /\ c \o w \o q \o s = c \o (w \o (q \o s))

LEMMA Parts ==
    ASSUME NEW c \in Seq(Octets), NEW w \in Seq(Octets), NEW q \in Seq(Octets), NEW s \in Seq(Octets)
    PROVE  Joined(c, w, q, s)
<1>1. q \o s \in Seq(Octets) /\ c \o w \in Seq(Octets) /\ Len(c \o w) = Len(c) + Len(w)
  OBVIOUS
<1>2. PICK x \in Seq(Octets) : x = c \o w
  BY <1>1
<1>3. PICK y \in Seq(Octets) : y = q \o s
  BY <1>1
<1>4. w \o y \in Seq(Octets) /\ x \o q \in Seq(Octets) /\ Len(x \o q) = Len(x) + Len(q)
  OBVIOUS
<1>5. (x \o q) \o s = x \o (q \o s)
  BY ConcatAssociative, SMTT(30)
<1>6. (c \o w) \o y = c \o (w \o y)
  BY ConcatAssociative, SMTT(30)
<1>7. QED
  BY <1>1, <1>2, <1>3, <1>4, <1>5, <1>6 DEF Joined

LEMMA AtPart ==
    ASSUME NEW a \in Seq(Octets), NEW p \in Seq(Octets), NEW z \in Seq(Octets),
           NEW full, full = a \o p \o z, NEW i, Len(a) = i,
           NEW k \in Nat, k <= Len(full), i <= k
    PROVE  At(SubSeq(full, 1, k), k, full, i, p)
  BY DEF At

LEMMA AtFirst ==
    ASSUME NEW p \in Seq(Octets), NEW z \in Seq(Octets),
           NEW full, full = p \o z, NEW k \in Nat, k <= Len(full)
    PROVE  At(SubSeq(full, 1, k), k, full, 0, p)
<1>0. <<>> \in Seq(Octets)
  OBVIOUS
<1>1. PICK a \in Seq(Octets) : a = <<>>
  BY <1>0
<1>2. Len(a) = 0 /\ a \o p = p
  BY <1>1
<1>3. full = a \o p \o z /\ 0 <= k
  BY <1>2
<1>4. QED
  BY <1>2, <1>3, AtPart

LEMMA AtLast ==
    ASSUME NEW a \in Seq(Octets), NEW p \in Seq(Octets),
           NEW full, full = a \o p, NEW i, Len(a) = i,
           NEW k \in Nat, k <= Len(full), i <= k
    PROVE  At(SubSeq(full, 1, k), k, full, i, p)
<1>0. <<>> \in Seq(Octets)
  OBVIOUS
<1>1. PICK z \in Seq(Octets) : z = <<>>
  BY <1>0
<1>2. a \o p \o z = a \o p
  BY <1>1
<1>3. full = a \o p \o z
  BY <1>2
<1>4. QED
  BY <1>3, AtPart

\* What stands where in the bytes of a string.
Layout(t, k, full, n, s, big) ==
    /\ full \in Seq(Octets) /\ k \in Nat /\ k <= Len(full)
    /\ n < 255 =>
           /\ Len(full) = 1 + n
           /\ At(t, k, full, 0, B!Image(n, 1, big))
           /\ k >= 1 => At(t, k, full, 1, s)
    /\ ~(n < 255) => At(t, k, full, 0, B!Image(255, 1, big))
    /\ (~(n < 255) /\ B!MiddleForm(n)) =>
           /\ Len(full) = 3 + n
           /\ k >= 1 => At(t, k, full, 1, B!Image(n, 2, big))
           /\ k >= 3 => At(t, k, full, 3, s)
    /\ (~(n < 255) /\ ~B!MiddleForm(n)) =>
           /\ Len(full) = 11 + n
           /\ k >= 1 => At(t, k, full, 1, B!Image(B!LongMark, 2, big))
           /\ k >= 3 => At(t, k, full, 3, B!Image(n, 8, big))
           /\ k >= 11 => At(t, k, full, 11, s)

LEMMA LayoutFact ==
    ASSUME NEW s \in Seq(Octets), Len(s) \in Values, NEW big \in BOOLEAN,
           NEW k \in Nat, k <= Len(LengthBytes(Len(s), big) \o s)
    PROVE  Layout(SubSeq(LengthBytes(Len(s), big) \o s, 1, k), k,
                  LengthBytes(Len(s), big) \o s, Len(s), s, big)
<1> DEFINE n == Len(s)
<1> DEFINE full == LengthBytes(n, big) \o s
<1> DEFINE t == SubSeq(full, 1, k)
<1>1. /\ n \in Nat /\ k <= Len(full) /\ full \in Seq(Octets)
      /\ Len(full) = Len(LengthBytes(n, big)) + n
      /\ Len(LengthBytes(n, big)) = IF n < 255 THEN 1 ELSE IF B!MiddleForm(n) THEN 3 ELSE 11
  <2>1. PICK h \in Seq(Octets) : h = LengthBytes(n, big)
    BY LengthBytesFact
  <2>2. h \o s \in Seq(Octets) /\ Len(h \o s) = Len(h) + Len(s)
    OBVIOUS
  <2>3. Len(LengthBytes(n, big)) = IF n < 255 THEN 1 ELSE IF B!MiddleForm(n) THEN 3 ELSE 11
    BY LengthBytesFact
  <2>4. QED
    BY <2>1, <2>2, <2>3
<1>2. n \in Values
  OBVIOUS
<1>4. PICK c \in Seq(Octets) : c = B!Image(255, 1, big) /\ Len(c) = 1
  BY Marks, ImageFact
<1>5. ASSUME n < 255
      PROVE  /\ At(t, k, full, 0, B!Image(n, 1, big))
             /\ k >= 1 => At(t, k, full, 1, s)
  <2>1. PICK q \in Seq(Octets) : q = B!Image(n, 1, big) /\ Len(q) = 1
    BY <1>2, <1>5, LengthFact, ImageFact
  <2>2. full = q \o s
    BY <1>5, <2>1 DEF LengthBytes
  <2> HIDE DEF n, full
  <2>3. At(SubSeq(full, 1, k), k, full, 0, q)
    BY <1>1, <2>2, AtFirst
  <2>4. k >= 1 => At(SubSeq(full, 1, k), k, full, 1, s)
    BY <1>1, <2>1, <2>2, AtLast
  <2>5. QED
    BY <2>1, <2>3, <2>4
<1>6. ASSUME ~(n < 255), B!MiddleForm(n)
      PROVE  /\ At(t, k, full, 0, c)
             /\ k >= 1 => At(t, k, full, 1, B!Image(n, 2, big))
             /\ k >= 3 => At(t, k, full, 3, s)
  <2>1. PICK q \in Seq(Octets) : q = B!Image(n, 2, big) /\ Len(q) = 2
    BY <1>2, <1>6, LengthFact, ImageFact
  <2>2. full = c \o q \o s
    BY <1>4, <1>6, <2>1 DEF LengthBytes
  <2> HIDE DEF n, full
  <2>3. /\ q \o s \in Seq(Octets) /\ c \o q \in Seq(Octets) /\ Len(c \o q) = Len(c) + Len(q)
        /\ c \o q \o s = c \o (q \o s)
    BY ConcatAssociative
  <2>4. Len(c \o q) = 3 /\ full = c \o (q \o s)
    <3>1. Len(c) = 1 /\ Len(q) = 2
      BY <1>4, <2>1
    <3>2. Len(c \o q) = 3
      BY ONLY <2>3, <3>1
    <3>3. QED
      BY <2>2, <2>3, <3>2
  <2>5. At(SubSeq(full, 1, k), k, full, 0, c)
    BY <1>1, <2>3, <2>4, AtFirst
  <2>6. k >= 1 => At(SubSeq(full, 1, k), k, full, 1, q)
    BY <1>1, <1>4, <2>2, AtPart, ZenonT(60)
  <2>7. k >= 3 => At(SubSeq(full, 1, k), k, full, 3, s)
    BY <1>1, <2>2, <2>3, <2>4, AtLast
  <2>8. QED
    BY <2>1, <2>5, <2>6, <2>7
<1>7. ASSUME ~(n < 255), ~B!MiddleForm(n)
      PROVE  /\ At(t, k, full, 0, c)
             /\ k >= 1 => At(t, k, full, 1, B!Image(B!LongMark, 2, big))
             /\ k >= 3 => At(t, k, full, 3, B!Image(n, 8, big))
             /\ k >= 11 => At(t, k, full, 11, s)
  <2>1. PICK q \in Seq(Octets) : q = B!Image(n, 8, big) /\ Len(q) = 8
    BY <1>2, LengthFact, ImageFact
  <2>2. PICK w \in Seq(Octets) : w = B!Image(B!LongMark, 2, big) /\ Len(w) = 2
    BY Marks, ImageFact
  <2>3. full = c \o w \o q \o s
    BY <1>4, <1>7, <2>1, <2>2 DEF LengthBytes
  <2> HIDE DEF n, full
  <2>4. /\ q \o s \in Seq(Octets) /\ c \o w \in Seq(Octets) /\ Len(c \o w) = Len(c) + Len(w)
        /\ w \o (q \o s) \in Seq(Octets) /\ c \o w \o q \in Seq(Octets)
        /\ Len(c \o w \o q) = Len(c) + Len(w) + Len(q)
        /\ c \o w \o q \o s = c \o w \o (q \o s)
        /\ c \o w \o q \o s = c \o (w \o (q \o s))
    <3>1. Joined(c, w, q, s)
      BY Parts
    <3>2. QED
      BY <3>1 DEF Joined
  <2>5. Len(c \o w) = 3 /\ Len(c \o w \o q) = 11
    <3>1. Len(c) = 1 /\ Len(w) = 2 /\ Len(q) = 8
      BY <1>4, <2>1, <2>2
    <3>2. QED
      BY ONLY <2>4, <3>1
  <2>6. full = c \o w \o (q \o s) /\ full = c \o (w \o (q \o s))
    BY <2>3, <2>4
  <2>7. At(SubSeq(full, 1, k), k, full, 0, c)
    BY <1>1, <2>4, <2>6, AtFirst
  <2>8. k >= 1 => At(SubSeq(full, 1, k), k, full, 1, w)
    <3>1. PICK z \in Seq(Octets) : z = q \o s
      BY <2>4
    <3>2. full = c \o w \o z /\ Len(c) = 1
      BY <1>4, <2>6, <3>1
    <3>3. QED
      BY <1>1, <3>2, AtPart
  <2>9. k >= 3 => At(SubSeq(full, 1, k), k, full, 3, q)
    BY <1>1, <2>3, <2>4, <2>5, AtPart
  <2>10. k >= 11 => At(SubSeq(full, 1, k), k, full, 11, s)
    BY <1>1, <2>3, <2>4, <2>5, AtLast
  <2>11. QED
    BY <2>1, <2>2, <2>7, <2>8, <2>9, <2>10
<1>8. Layout(t, k, full, n, s, big)
  <2> HIDE DEF n, full, t
  <2>1. /\ n < 255 => Len(full) = 1 + n
        /\ (~(n < 255) /\ B!MiddleForm(n)) => Len(full) = 3 + n
        /\ (~(n < 255) /\ ~B!MiddleForm(n)) => Len(full) = 11 + n
    BY <1>1
  <2>2. QED
    BY <1>1, <1>4, <1>5, <1>6, <1>7, <2>1 DEF Layout
<1>9. QED
  BY <1>8

\* A string is read whole by who has room for it, from a stream that has all
\* of it; in any other case the stream throws.
LEMMA GetStringFact ==
    ASSUME NEW s \in Seq(Octets), Len(s) \in Values, NEW big \in BOOLEAN, NEW host \in BOOLEAN,
           NEW t, NEW k, NEW full, Layout(t, k, full, Len(s), s, big), NEW got, NEW ssize \in Nat
    PROVE  Reads(B!readcstring(In(t, 0, big, host, "none", got), ssize),
                 t, k, Len(full), s, ssize, big, host)
<1> DEFINE n == Len(s)
<1> DEFINE b == B!getInt(In(t, 0, big, host, "none", got), "char")
<1> DEFINE w == B!getInt(b, "short")
<1> DEFINE x == B!getInt(w, "long")
<1> DEFINE r == B!readcstring(In(t, 0, big, host, "none", got), ssize)
<1>1. /\ n \in Nat /\ n \in Values /\ k \in Nat /\ Len(full) \in Nat /\ k <= Len(full)
      /\ "char" \in IntTypes /\ "short" \in IntTypes /\ "long" \in IntTypes
  BY DEF Layout, IntTypes
<1>2. r = IF b.thrown # "none" \/ B!Got(b) < 255 THEN B!readBody(b, "char", ssize)
          ELSE IF w.thrown # "none" \/ B!MiddleForm(B!Got(w)) THEN B!readBody(w, "short", ssize)
          ELSE B!readBody(x, "long", ssize)
  BY DEF B!readcstring
<1>3. /\ n < 255 => Typed(n, 1, "char")
      /\ B!MiddleForm(n) => Typed(n, 2, "short")
      /\ Typed(n, 8, "long") /\ Typed(255, 1, "char") /\ Typed(B!LongMark, 2, "short")
  BY <1>1, Marks, LengthFact, SizeofFact DEF Typed
<1> HIDE DEF n
<1>4. CASE n < 255
  <2>1. Len(full) = 1 + n /\ At(t, k, full, 0, B!Image(n, 1, big)) /\ (k >= 1 => At(t, k, full, 1, s))
    BY <1>4 DEF Layout, n
  <2>2. /\ k < 0 + 1 => \E cause \in {"end", "overflow"} : b = In(t, 0, big, host, cause, got)
        /\ k >= 0 + 1 => \E g : b = In(t, 0 + 1, big, host, "none", g)
                                /\ B!Got(In(t, 0 + 1, big, host, "none", g)) = n
    BY <1>3, <1>4, <2>1, GetFact
  <2> HIDE DEF b, w, x, r
  <2>3. CASE k < 1
    <3>1. PICK cause \in {"end", "overflow"} : b = In(t, 0, big, host, cause, got)
      BY <2>2, <2>3
    <3>2. b.thrown # "none" /\ k < Len(full)
      <4>1. b.thrown # "none"
        BY <3>1 DEF In
      <4>2. k < Len(full)
        BY <1>1, <2>1, <2>3
      <4>3. QED
        BY <4>1, <4>2
    <3>3. r = B!readBody(b, "char", ssize)
      BY <1>2, <3>2
    <3>4. Reads(B!readBody(b, "char", ssize), t, k, Len(full), s, ssize, big, host)
      BY <1>1, <3>1, <3>2, ThrownFact
    <3>5. QED
      BY <3>3, <3>4 DEF r
  <2>4. CASE k >= 1
    <3>1. PICK g : b = In(t, 1, big, host, "none", g) /\ B!Got(In(t, 1, big, host, "none", g)) = n
      BY <2>2, <2>4
    <3>2. r = B!readBody(b, "char", ssize)
      BY <1>2, <1>4, <3>1
    <3>3. Reads(B!readBody(In(t, 1, big, host, "none", g), "char", ssize),
                t, k, Len(full), s, ssize, big, host)
      BY <1>1, <2>1, <2>4, <3>1, BodyFact, SizeofFact DEF n
    <3>4. QED
      BY <3>1, <3>2, <3>3 DEF r
  <2>5. QED
    BY <1>1, <2>3, <2>4
<1>5. CASE ~(n < 255) /\ B!MiddleForm(n)
  <2>1. /\ Len(full) = 3 + n /\ At(t, k, full, 0, B!Image(255, 1, big))
        /\ k >= 1 => At(t, k, full, 1, B!Image(n, 2, big))
        /\ k >= 3 => At(t, k, full, 3, s)
    BY <1>5 DEF Layout, n
  <2>2. /\ k < 0 + 1 => \E cause \in {"end", "overflow"} : b = In(t, 0, big, host, cause, got)
        /\ k >= 0 + 1 => \E g : b = In(t, 0 + 1, big, host, "none", g)
                                /\ B!Got(In(t, 0 + 1, big, host, "none", g)) = 255
    BY <1>3, <2>1, GetFact
  <2> HIDE DEF b, r
  <2>3. CASE k < 1
    <3>1. PICK cause \in {"end", "overflow"} : b = In(t, 0, big, host, cause, got)
      BY <2>2, <2>3
    <3>2. b.thrown # "none" /\ k < Len(full)
      <4>1. b.thrown # "none"
        BY <3>1 DEF In
      <4>2. k < Len(full)
        BY <1>1, <2>1, <2>3
      <4>3. QED
        BY <4>1, <4>2
    <3> HIDE DEF w, x
    <3>3. r = B!readBody(b, "char", ssize)
      BY <1>2, <3>2
    <3>4. Reads(B!readBody(b, "char", ssize), t, k, Len(full), s, ssize, big, host)
      BY <1>1, <3>1, <3>2, ThrownFact
    <3>5. QED
      BY <3>3, <3>4 DEF r
  <2>4. CASE k >= 1
    <3>1. PICK g : b = In(t, 1, big, host, "none", g) /\ B!Got(In(t, 1, big, host, "none", g)) = 255
      BY <2>2, <2>4
    <3>2. b.thrown = "none" /\ ~(B!Got(b) < 255)
      BY <3>1 DEF In
    <3>3. w = B!getInt(In(t, 1, big, host, "none", g), "short")
      BY <3>1
    <3> HIDE DEF w, x
    <3>4. r = IF w.thrown # "none" \/ B!MiddleForm(B!Got(w)) THEN B!readBody(w, "short", ssize)
              ELSE B!readBody(x, "long", ssize)
      BY <1>2, <3>2
    <3>5. /\ k < 1 + 2 => \E cause \in {"end", "overflow"} : w = In(t, 1, big, host, cause, g)
          /\ k >= 1 + 2 => \E h : w = In(t, 1 + 2, big, host, "none", h)
                                  /\ B!Got(In(t, 1 + 2, big, host, "none", h)) = n
      BY <1>3, <1>5, <2>1, <2>4, <3>3, GetFact
    <3>6. CASE k < 3
      <4>1. PICK cause \in {"end", "overflow"} : w = In(t, 1, big, host, cause, g)
        BY <3>5, <3>6
      <4>2. w.thrown # "none" /\ k < Len(full)
        <5>1. w.thrown # "none"
          BY <4>1 DEF In
        <5>2. k < Len(full)
          BY <1>1, <2>1, <3>6
        <5>3. QED
          BY <5>1, <5>2
      <4>3. r = B!readBody(w, "short", ssize)
        BY <3>4, <4>2
      <4>4. Reads(B!readBody(w, "short", ssize), t, k, Len(full), s, ssize, big, host)
        BY <1>1, <4>1, <4>2, ThrownFact
      <4>5. QED
        BY <4>3, <4>4 DEF r
    <3>7. CASE k >= 3
      <4>1. PICK h : w = In(t, 3, big, host, "none", h) /\ B!Got(In(t, 3, big, host, "none", h)) = n
        BY <3>5, <3>7
      <4>2. r = B!readBody(w, "short", ssize)
        BY <1>5, <3>4, <4>1
      <4>3. Reads(B!readBody(In(t, 3, big, host, "none", h), "short", ssize),
                  t, k, Len(full), s, ssize, big, host)
        BY <1>1, <1>5, <2>1, <3>7, <4>1, BodyFact DEF n
      <4>4. QED
        BY <4>1, <4>2, <4>3 DEF r
    <3>8. QED
      BY <1>1, <3>6, <3>7
  <2>5. QED
    BY <1>1, <2>3, <2>4
<1>6. CASE ~(n < 255) /\ ~B!MiddleForm(n)
  <2>1. /\ Len(full) = 11 + n /\ At(t, k, full, 0, B!Image(255, 1, big))
        /\ k >= 1 => At(t, k, full, 1, B!Image(B!LongMark, 2, big))
        /\ k >= 3 => At(t, k, full, 3, B!Image(n, 8, big))
        /\ k >= 11 => At(t, k, full, 11, s)
    BY <1>6 DEF Layout, n
  <2>2. /\ k < 0 + 1 => \E cause \in {"end", "overflow"} : b = In(t, 0, big, host, cause, got)
        /\ k >= 0 + 1 => \E g : b = In(t, 0 + 1, big, host, "none", g)
                                /\ B!Got(In(t, 0 + 1, big, host, "none", g)) = 255
    BY <1>3, <2>1, GetFact
  <2> HIDE DEF b, r
  <2>3. CASE k < 1
    <3>1. PICK cause \in {"end", "overflow"} : b = In(t, 0, big, host, cause, got)
      BY <2>2, <2>3
    <3>2. b.thrown # "none" /\ k < Len(full)
      <4>1. b.thrown # "none"
        BY <3>1 DEF In
      <4>2. k < Len(full)
        BY <1>1, <2>1, <2>3
      <4>3. QED
        BY <4>1, <4>2
    <3> HIDE DEF w, x
    <3>3. r = B!readBody(b, "char", ssize)
      BY <1>2, <3>2
    <3>4. Reads(B!readBody(b, "char", ssize), t, k, Len(full), s, ssize, big, host)
      BY <1>1, <3>1, <3>2, ThrownFact
    <3>5. QED
      BY <3>3, <3>4 DEF r
  <2>4. CASE k >= 1
    <3>1. PICK g : b = In(t, 1, big, host, "none", g) /\ B!Got(In(t, 1, big, host, "none", g)) = 255
      BY <2>2, <2>4
    <3>2. b.thrown = "none" /\ ~(B!Got(b) < 255)
      BY <3>1 DEF In
    <3>3. w = B!getInt(In(t, 1, big, host, "none", g), "short")
      BY <3>1
    <3> HIDE DEF w
    <3>4. r = IF w.thrown # "none" \/ B!MiddleForm(B!Got(w)) THEN B!readBody(w, "short", ssize)
              ELSE B!readBody(x, "long", ssize)
      BY <1>2, <3>2
    <3>5. /\ k < 1 + 2 => \E cause \in {"end", "overflow"} : w = In(t, 1, big, host, cause, g)
          /\ k >= 1 + 2 => \E h : w = In(t, 1 + 2, big, host, "none", h)
                                  /\ B!Got(In(t, 1 + 2, big, host, "none", h)) = B!LongMark
      BY <1>3, <1>6, <2>1, <2>4, <3>3, GetFact
    <3>6. CASE k < 3
      <4>1. PICK cause \in {"end", "overflow"} : w = In(t, 1, big, host, cause, g)
        BY <3>5, <3>6
      <4>2. w.thrown # "none" /\ k < Len(full)
        <5>1. w.thrown # "none"
          BY <4>1 DEF In
        <5>2. k < Len(full)
          BY <1>1, <2>1, <3>6
        <5>3. QED
          BY <5>1, <5>2
      <4> HIDE DEF x
      <4>3. r = B!readBody(w, "short", ssize)
        BY <3>4, <4>2
      <4>4. Reads(B!readBody(w, "short", ssize), t, k, Len(full), s, ssize, big, host)
        BY <1>1, <4>1, <4>2, ThrownFact
      <4>5. QED
        BY <4>3, <4>4 DEF r
    <3>7. CASE k >= 3
      <4>1. PICK h : w = In(t, 3, big, host, "none", h) /\ B!Got(In(t, 3, big, host, "none", h)) = B!LongMark
        BY <3>5, <3>7
      <4>2. w.thrown = "none" /\ ~B!MiddleForm(B!Got(w))
        BY <4>1, Marks DEF In
      <4>3. x = B!getInt(In(t, 3, big, host, "none", h), "long")
        BY <4>1
      <4> HIDE DEF x
      <4>4. r = B!readBody(x, "long", ssize)
        BY <3>4, <4>2
      <4>5. /\ k < 3 + 8 => \E cause \in {"end", "overflow"} : x = In(t, 3, big, host, cause, h)
            /\ k >= 3 + 8 => \E l : x = In(t, 3 + 8, big, host, "none", l)
                                    /\ B!Got(In(t, 3 + 8, big, host, "none", l)) = n
        BY <1>3, <2>1, <3>7, <4>3, GetFact
      <4>6. CASE k < 11
        <5>1. PICK cause \in {"end", "overflow"} : x = In(t, 3, big, host, cause, h)
          BY <4>5, <4>6
        <5>2. k < Len(full)
          BY <1>1, <2>1, <4>6
        <5>3. Reads(B!readBody(x, "long", ssize), t, k, Len(full), s, ssize, big, host)
          BY <1>1, <5>1, <5>2, ThrownFact
        <5>4. QED
          BY <4>4, <5>3 DEF r
      <4>7. CASE k >= 11
        <5>1. PICK l : x = In(t, 11, big, host, "none", l) /\ B!Got(In(t, 11, big, host, "none", l)) = n
          BY <4>5, <4>7
        <5>2. Reads(B!readBody(In(t, 11, big, host, "none", l), "long", ssize),
                    t, k, Len(full), s, ssize, big, host)
          BY <1>1, <1>6, <2>1, <4>7, <5>1, BodyFact DEF n
        <5>3. QED
          BY <4>4, <5>1, <5>2 DEF r
      <4>8. QED
        BY <1>1, <4>6, <4>7
    <3>8. QED
      BY <1>1, <3>6, <3>7
  <2>5. QED
    BY <1>1, <2>3, <2>4
<1>7. QED
  BY <1>4, <1>5, <1>6

-----------------------------------------------------------------------------
LEMMA StreamFact ==
    ASSUME NEW s, NEW big, NEW host
    PROVE  B!bistream(s, big, host) = In(s, 0, big, host, "none", <<>>)
  BY DEF B!bistream, In

LEMMA OutFact ==
    ASSUME NEW b, NEW size \in Nat, NEW big, NEW host, NEW p \in Seq(Octets),
           Took(b, size, big, host, p)
    PROVE  /\ size >= Len(p) => b.buf = p /\ b.thrown = "none"
           /\ size < Len(p) => b.thrown = "overflow"
  BY DEF Took, Out

LEMMA AllFact ==
    ASSUME NEW p \in Seq(Octets)
    PROVE  SubSeq(p, 1, Len(p)) = p
  OBVIOUS

\* GetFact in one word.
Gets(t, k, i, v, w, type, big, host) ==
    \A got :
        k >= i + w =>
            \E g : /\ B!getInt(In(t, i, big, host, "none", got), type)
                         = In(t, i + w, big, host, "none", g)
                   /\ B!Got(In(t, i + w, big, host, "none", g)) = v

LEMMA GetsFact ==
    ASSUME NEW t, NEW k, NEW full, NEW i, NEW v, NEW w, NEW type, Typed(v, w, type),
           NEW big \in BOOLEAN, NEW host \in BOOLEAN,
           At(t, k, full, i, B!Image(v, w, big))
    PROVE  Gets(t, k, i, v, w, type, big, host)
  BY GetFact DEF Gets

\* An integer of any value that its type has is the bytes of that value in the
\* order of the stream, on a host of either order, and comes back from them on
\* a host of either order.
THEOREM IntegerComesBack ==
    ASSUME NEW v \in Values, NEW type \in IntTypes, Fits(v, B!sizeof[type]),
           NEW big \in BOOLEAN, NEW host \in BOOLEAN, NEW peer \in BOOLEAN
    PROVE  /\ B!putInt(B!bostream(B!sizeof[type], big, host), v, type).buf = B!Image(v, B!sizeof[type], big)
           /\ B!Got(B!getInt(B!bistream(B!Image(v, B!sizeof[type], big), big, peer), type)) = v
<1>1. PICK w \in {1, 2, 4, 8} : w = B!sizeof[type] /\ Typed(v, w, type)
  BY SizeofFact DEF IntTypes, Typed
<1>2. PICK p \in Seq(Octets) : p = B!Image(v, w, big) /\ Len(p) = w
  BY <1>1, ImageFact DEF Typed
<1>3. B!putInt(B!bostream(w, big, host), v, type).buf = p
  <2>1. PICK none \in Seq(Octets) : none = <<>> /\ none \o p = p
    <3>1. <<>> \in Seq(Octets) /\ <<>> \o p = p
      OBVIOUS
    <3>2. QED
      BY <3>1
  <2>2. Took(B!bostream(w, big, host), w, big, host, none)
    BY <1>1, <2>1, TookNone
  <2>3. Took(B!putInt(B!bostream(w, big, host), v, type), w, big, host, none \o B!Image(v, w, big))
    BY <1>1, <2>2, TookInt
  <2>4. Took(B!putInt(B!bostream(w, big, host), v, type), w, big, host, p)
    BY <1>2, <2>1, <2>3
  <2>5. w \in Nat /\ w >= Len(p)
    BY <1>1, <1>2
  <2>6. QED
    BY <2>4, <2>5, OutFact
<1>4. B!Got(B!getInt(B!bistream(p, big, peer), type)) = v
  <2>1. At(p, w, p, 0, p)
    <3>1. PICK none \in Seq(Octets) : none = <<>> /\ p \o none = p
      <4>1. <<>> \in Seq(Octets) /\ p \o <<>> = p
        OBVIOUS
      <4>2. QED
        BY <4>1
    <3>2. SubSeq(p, 1, w) = p
      BY <1>2, AllFact
    <3>3. w \in Nat /\ w <= Len(p) /\ p = p \o none
      BY <1>1, <1>2, <3>1
    <3>4. At(SubSeq(p, 1, w), w, p, 0, p)
      BY <3>3, AtFirst
    <3>5. QED
      BY <3>2, <3>4
  <2>2. At(p, w, p, 0, B!Image(v, w, big))
    BY <1>2, <2>1
  <2> DEFINE got == <<>>
  <2>3. B!bistream(p, big, peer) = In(p, 0, big, peer, "none", got)
    BY StreamFact
  <2> HIDE DEF got
  <2>4. w >= 0 + w
    BY <1>1
  <2>0. Gets(p, w, 0, v, w, type, big, peer)
    BY <1>1, <2>2, GetsFact
  <2>5. w >= 0 + w =>
           \E g : /\ B!getInt(In(p, 0, big, peer, "none", got), type) = In(p, 0 + w, big, peer, "none", g)
                  /\ B!Got(In(p, 0 + w, big, peer, "none", g)) = v
    BY <2>0 DEF Gets
  <2>6. QED
    BY <2>3, <2>4, <2>5
<1>5. QED
  BY <1>1, <1>2, <1>3, <1>4

\* A string of any bytes comes back whole to who has room for it, and to
\* nobody else, from the bytes that putString wrote; nothing is left over.
THEOREM StringComesBack ==
    ASSUME NEW s \in Seq(Octets), Len(s) \in Values, NEW size \in Nat, size >= Len(s) + 11,
           NEW big \in BOOLEAN, NEW host \in BOOLEAN, NEW peer \in BOOLEAN, NEW ssize \in Nat
    PROVE  LET b == B!putString(B!bostream(size, big, host), s)
               r == B!readcstring(B!bistream(b.buf, big, peer), ssize)
           IN  /\ b.thrown = "none" /\ b.buf = LengthBytes(Len(s), big) \o s
               /\ ssize > Len(s) => r.thrown = "none" /\ r.got = s /\ B!avail(r) = 0
               /\ ssize <= Len(s) =>
                     /\ r.thrown = "rangeerror"
                     /\ Len(s) < 255 => \E g : r = In(b.buf, 0, big, peer, "rangeerror", g)
<1> DEFINE n == Len(s)
<1> DEFINE b == B!putString(B!bostream(size, big, host), s)
<1>1. PICK full \in Seq(Octets) : /\ full = LengthBytes(n, big) \o s
                                 /\ Len(full) <= n + 11
  <2>1. PICK h \in Seq(Octets) : h = LengthBytes(n, big) /\ Len(h) \in {1, 3, 11}
    BY LengthBytesFact
  <2>2. h \o s \in Seq(Octets) /\ Len(h \o s) = Len(h) + Len(s)
    OBVIOUS
  <2>3. Len(h \o s) <= n + 11
    <3>1. PICK m \in {1, 3, 11} : m = Len(h)
      BY <2>1
    <3>2. PICK l \in Nat : l = Len(s)
      OBVIOUS
    <3>3. Len(h \o s) = m + l
      BY <2>2, <3>1, <3>2
    <3>4. m + l <= l + 11
      OBVIOUS
    <3>5. QED
      BY <3>2, <3>3, <3>4
  <2>4. QED
    BY <2>1, <2>2, <2>3
<1>2. Took(b, size, big, host, full)
  BY <1>1, PutStringFact
<1>3. size >= Len(full)
  BY <1>1
<1>4. b.buf = full /\ b.thrown = "none"
  BY <1>2, <1>3, OutFact
<1> DEFINE got == <<>>
<1> DEFINE r == B!readcstring(In(full, 0, big, peer, "none", got), ssize)
<1>5. B!bistream(full, big, peer) = In(full, 0, big, peer, "none", got)
  BY StreamFact
<1>6. Layout(full, Len(full), full, n, s, big)
  <2>1. Len(full) \in Nat /\ Len(full) <= Len(LengthBytes(n, big) \o s)
    BY <1>1
  <2>2. Layout(SubSeq(LengthBytes(Len(s), big) \o s, 1, Len(full)), Len(full),
               LengthBytes(Len(s), big) \o s, Len(s), s, big)
    BY <2>1, LayoutFact
  <2>3. SubSeq(full, 1, Len(full)) = full
    BY AllFact
  <2>4. QED
    BY <1>1, <2>2, <2>3
<1>7. Reads(r, full, Len(full), Len(full), s, ssize, big, peer)
  <2> HIDE DEF got
  <2>1. QED
    BY <1>6, GetStringFact
<1> HIDE DEF r, b, got
<1>8. ssize > Len(s) => r.thrown = "none" /\ r.got = s /\ B!avail(r) = 0
  <2> SUFFICES ASSUME ssize > Len(s)
               PROVE  r.thrown = "none" /\ r.got = s /\ B!avail(r) = 0
    OBVIOUS
  <2>1. r = In(full, Len(full), big, peer, "none", s)
    BY <1>7 DEF Reads
  <2>2. r.thrown = "none" /\ r.got = s /\ r.buf = full /\ r.curr = Len(full)
    BY <2>1 DEF In
  <2>3. QED
    BY <2>2 DEF B!avail
<1>9. ssize <= Len(s) =>
        /\ r.thrown = "rangeerror"
        /\ Len(s) < 255 => \E g : r = In(full, 0, big, peer, "rangeerror", g)
  BY <1>7 DEF Reads
<1>10. B!readcstring(B!bistream(b.buf, big, peer), ssize) = r
  BY <1>4, <1>5 DEF r
<1>11. QED
  BY <1>1, <1>4, <1>8, <1>9, <1>10 DEF b

\* Of a string that was cut off, nothing is taken for a whole one; and into
\* too little room a string is not written.
THEOREM ShortStreamThrows ==
    ASSUME NEW s \in Seq(Octets), Len(s) \in Values, NEW big \in BOOLEAN, NEW host \in BOOLEAN,
           NEW k \in Nat, k < Len(LengthBytes(Len(s), big) \o s), NEW ssize \in Nat, ssize > Len(s)
    PROVE  /\ B!readcstring(B!bistream(SubSeq(LengthBytes(Len(s), big) \o s, 1, k), big, host),
                          ssize).thrown \in {"end", "overflow"}
           /\ B!putString(B!bostream(k, big, host), s).thrown = "overflow"
<1> DEFINE n == Len(s)
<1>1. PICK full \in Seq(Octets) : full = LengthBytes(n, big) \o s
  <2>1. PICK h \in Seq(Octets) : h = LengthBytes(n, big)
    BY LengthBytesFact
  <2>2. h \o s \in Seq(Octets)
    OBVIOUS
  <2>3. QED
    BY <2>1, <2>2
<1>2. k < Len(full) /\ Len(full) \in Nat
  BY <1>1
<1>3. B!putString(B!bostream(k, big, host), s).thrown = "overflow"
  <2>1. Took(B!putString(B!bostream(k, big, host), s), k, big, host, full)
    BY <1>1, PutStringFact
  <2>2. QED
    BY <1>2, <2>1, OutFact
<1> DEFINE t == SubSeq(full, 1, k)
<1> DEFINE got == <<>>
<1> DEFINE r == B!readcstring(In(t, 0, big, host, "none", got), ssize)
<1>4. B!bistream(t, big, host) = In(t, 0, big, host, "none", got)
  BY StreamFact
<1>5. Layout(t, k, full, n, s, big)
  <2>1. k <= Len(LengthBytes(n, big) \o s)
    BY <1>1, <1>2
  <2>2. Layout(SubSeq(LengthBytes(Len(s), big) \o s, 1, k), k,
               LengthBytes(Len(s), big) \o s, Len(s), s, big)
    BY <2>1, LayoutFact
  <2>3. QED
    BY <1>1, <2>2
<1>6. Reads(r, t, k, Len(full), s, ssize, big, host)
  <2> HIDE DEF got, t
  <2>1. QED
    BY <1>5, GetStringFact
<1> HIDE DEF r, got, t
<1>7. r.thrown \in {"end", "overflow"}
  BY <1>2, <1>6 DEF Reads
<1>8. QED
  BY <1>1, <1>3, <1>4, <1>7 DEF r, t

LEMMA HeadFact ==
    /\ 8 \in Values /\ Typed(8, 2, "short") /\ 1 \in Values /\ Typed(1, 2, "short")
    /\ \A v \in Values : Typed(v, 4, "int")
    /\ FALSE \in BOOLEAN /\ B!AsShort(4) + 4 = 8
  BY SizeofFact, SMT DEF Typed, Values, Fits, IntTypes, B!AsShort

\* The three fields of a package.
Joined3(c, w, q) ==
    /\ c \o w \in Seq(Octets) /\ Len(c \o w) = Len(c) + Len(w) /\ w \o q \in Seq(Octets)
    /\ c \o w \o q \in Seq(Octets) /\ Len(c \o w \o q) = Len(c) + Len(w) + Len(q)
    /\ c \o w \o q = c \o (w \o q)

LEMMA Joined3Fact ==
    ASSUME NEW c \in Seq(Octets), NEW w \in Seq(Octets), NEW q \in Seq(Octets)
    PROVE  Joined3(c, w, q)
<1>1. c \o w \in Seq(Octets) /\ Len(c \o w) = Len(c) + Len(w) /\ w \o q \in Seq(Octets)
  OBVIOUS
<1>2. PICK x \in Seq(Octets) : x = c \o w
  BY <1>1
<1>3. x \o q \in Seq(Octets) /\ Len(x \o q) = Len(x) + Len(q)
  OBVIOUS
<1>4. (c \o w) \o q = c \o (w \o q)
  BY ConcatAssociative
<1>5. QED
  BY <1>1, <1>2, <1>3, <1>4 DEF Joined3

LEMMA Fields ==
    ASSUME NEW c \in Seq(Octets), NEW w \in Seq(Octets), NEW q \in Seq(Octets),
           NEW i \in Nat, NEW j \in Nat, Len(c) = i, Len(c) + Len(w) = j
    PROVE  \E s \in Seq(Octets) :
               /\ s = c \o w \o q /\ Len(s) = Len(c) + Len(w) + Len(q)
               /\ At(s, Len(s), s, 0, c) /\ At(s, Len(s), s, i, w) /\ At(s, Len(s), s, j, q)
<1>1. Joined3(c, w, q)
  BY Joined3Fact
<1>2. PICK s \in Seq(Octets) : s = c \o w \o q
  BY <1>1 DEF Joined3
<1>3. PICK x \in Seq(Octets) : x = c \o w
  BY <1>1 DEF Joined3
<1>4. PICK y \in Seq(Octets) : y = w \o q
  BY <1>1 DEF Joined3
<1>5. s = x \o q /\ s = c \o y
  BY <1>1, <1>2, <1>3, <1>4 DEF Joined3
<1>6. Len(s) = Len(c) + Len(w) + Len(q) /\ Len(x) = j
  BY <1>1, <1>2, <1>3 DEF Joined3
<1>7. PICK k \in Nat : k = Len(s)
  OBVIOUS
<1>8. SubSeq(s, 1, k) = s
  BY <1>7, AllFact
<1>9. Len(c) \in Nat /\ Len(w) \in Nat /\ Len(q) \in Nat
  OBVIOUS
<1>10. k <= Len(s) /\ i <= k /\ j <= k
  BY <1>6, <1>7, <1>9
<1>11. At(SubSeq(s, 1, k), k, s, 0, c)
  BY <1>5, <1>10, AtFirst
<1>12. At(SubSeq(s, 1, k), k, s, i, w)
  BY <1>2, <1>10, AtPart
<1>13. At(SubSeq(s, 1, k), k, s, j, q)
  BY <1>5, <1>6, <1>10, AtLast
<1>14. QED
  BY <1>2, <1>6, <1>7, <1>8, <1>11, <1>12, <1>13

\* The fields of s are read in their order.
FieldsOf(s, big, peer, a, b, v) ==
    LET count == B!getInt(B!bistream(s, big, peer), "short")
        xyid == B!getInt(count, "short")
    IN  /\ B!Got(count) = a
        /\ B!Got(xyid) = b
        /\ B!Got(B!getInt(xyid, "int")) = v

FieldsRead(a, b, v, big, peer) ==
    \E s \in Seq(Octets) :
        /\ s = B!Image(a, 2, big) \o B!Image(b, 2, big) \o B!Image(v, 4, big)
        /\ Len(s) = 8 /\ FieldsOf(s, big, peer, a, b, v)

LEMMA ReadFields ==
    ASSUME NEW a, NEW b, NEW v, Typed(a, 2, "short"), Typed(b, 2, "short"), Typed(v, 4, "int"),
           NEW big \in BOOLEAN, NEW peer \in BOOLEAN
    PROVE  FieldsRead(a, b, v, big, peer)
<1>0. /\ Typed(a, 2, "short") /\ Typed(b, 2, "short") /\ Typed(v, 4, "int")
      /\ big \in BOOLEAN /\ peer \in BOOLEAN
  OBVIOUS
<1>1. PICK c \in Seq(Octets) : c = B!Image(a, 2, big) /\ Len(c) = 2
  BY ImageFact DEF Typed
<1>2. PICK w \in Seq(Octets) : w = B!Image(b, 2, big) /\ Len(w) = 2
  BY ImageFact DEF Typed
<1>3. PICK q \in Seq(Octets) : q = B!Image(v, 4, big) /\ Len(q) = 4
  BY ImageFact DEF Typed
<1>4. PICK i \in Nat, j \in Nat : i = 2 /\ j = 4
  OBVIOUS
<1>5. Len(c) = i /\ Len(c) + Len(w) = j
  <2>1. Len(c) = 2 /\ Len(w) = 2
    BY <1>1, <1>2
  <2>2. QED
    BY ONLY <1>4, <2>1
<1>6. PICK s \in Seq(Octets) :
          /\ s = c \o w \o q /\ Len(s) = Len(c) + Len(w) + Len(q)
          /\ At(s, Len(s), s, 0, c) /\ At(s, Len(s), s, i, w) /\ At(s, Len(s), s, j, q)
  BY <1>5, Fields
<1>7. PICK k \in Nat : k = Len(s) /\ k = 8
  <2>1. Len(c) = 2 /\ Len(w) = 2 /\ Len(q) = 4 /\ Len(s) = Len(c) + Len(w) + Len(q)
    BY <1>1, <1>2, <1>3, <1>6
  <2>2. Len(s) = 8
    BY ONLY <2>1
  <2>3. QED
    BY <2>2
<1>8. /\ At(s, k, s, 0, B!Image(a, 2, big)) /\ At(s, k, s, 2, B!Image(b, 2, big))
      /\ At(s, k, s, 4, B!Image(v, 4, big))
  BY <1>1, <1>2, <1>3, <1>4, <1>6, <1>7
<1> DEFINE got == <<>>
<1> DEFINE count == B!getInt(B!bistream(s, big, peer), "short")
<1> DEFINE xyid == B!getInt(count, "short")
<1>9. B!bistream(s, big, peer) = In(s, 0, big, peer, "none", got)
  BY StreamFact
<1> HIDE DEF got
<1>10. PICK g : count = In(s, 2, big, peer, "none", g) /\ B!Got(count) = a
  <2>0. Gets(s, k, 0, a, 2, "short", big, peer)
    BY <1>0, <1>8, GetsFact
  <2>1. k >= 0 + 2 =>
          \E g : /\ B!getInt(In(s, 0, big, peer, "none", got), "short")
                       = In(s, 0 + 2, big, peer, "none", g)
                 /\ B!Got(In(s, 0 + 2, big, peer, "none", g)) = a
    BY <2>0 DEF Gets
  <2>2. PICK g : /\ B!getInt(In(s, 0, big, peer, "none", got), "short")
                       = In(s, 2, big, peer, "none", g)
                 /\ B!Got(In(s, 2, big, peer, "none", g)) = a
    BY <1>7, <2>1
  <2>3. QED
    BY <1>9, <2>2
<1>11. PICK h : xyid = In(s, 4, big, peer, "none", h) /\ B!Got(xyid) = b
  <2>0. Gets(s, k, 2, b, 2, "short", big, peer)
    BY <1>0, <1>8, GetsFact
  <2>1. k >= 2 + 2 =>
          \E h : /\ B!getInt(In(s, 2, big, peer, "none", g), "short")
                       = In(s, 2 + 2, big, peer, "none", h)
                 /\ B!Got(In(s, 2 + 2, big, peer, "none", h)) = b
    BY <2>0 DEF Gets
  <2> HIDE DEF count
  <2>2. PICK h : /\ B!getInt(In(s, 2, big, peer, "none", g), "short")
                       = In(s, 4, big, peer, "none", h)
                 /\ B!Got(In(s, 4, big, peer, "none", h)) = b
    BY <1>7, <2>1
  <2>3. QED
    BY <1>10, <2>2
<1>12. B!Got(B!getInt(xyid, "int")) = v
  <2>0. Gets(s, k, 4, v, 4, "int", big, peer)
    BY <1>0, <1>8, GetsFact
  <2>1. k >= 4 + 4 =>
          \E l : /\ B!getInt(In(s, 4, big, peer, "none", h), "int")
                       = In(s, 4 + 4, big, peer, "none", l)
                 /\ B!Got(In(s, 4 + 4, big, peer, "none", l)) = v
    BY <2>0 DEF Gets
  <2> HIDE DEF xyid
  <2>2. QED
    BY <1>7, <1>11, <2>1
<1>13. FieldsOf(s, big, peer, a, b, v)
  BY <1>10, <1>11, <1>12 DEF FieldsOf
<1> HIDE DEF count, xyid, got
<1>14. QED
  BY <1>1, <1>2, <1>3, <1>6, <1>7, <1>13 DEF FieldsRead

\* An integer is all that a stream of its size takes.
LEMMA OneInt ==
    ASSUME NEW v, NEW w, NEW type, Typed(v, w, type), NEW big \in BOOLEAN, NEW host \in BOOLEAN
    PROVE  B!putInt(B!bostream(w, big, host), v, type).buf = B!Image(v, w, big)
  BY IntegerComesBack DEF Typed

\* Two that follow on each other are what a stream of the size of both takes.
LEMMA TwoInts ==
    ASSUME NEW a, NEW b, Typed(a, 2, "short"), Typed(b, 2, "short"),
           NEW big \in BOOLEAN, NEW host \in BOOLEAN, NEW size \in Nat, size = 4
    PROVE  B!putInt(B!putInt(B!bostream(size, big, host), a, "short"), b, "short").buf
              = B!Image(a, 2, big) \o B!Image(b, 2, big)
<1> DEFINE e == B!putInt(B!bostream(size, big, host), a, "short")
<1> DEFINE f == B!putInt(e, b, "short")
<1>1. PICK c \in Seq(Octets) : c = B!Image(a, 2, big) /\ Len(c) = 2
  BY ImageFact DEF Typed
<1>2. PICK w \in Seq(Octets) : w = B!Image(b, 2, big) /\ Len(w) = 2
  BY ImageFact DEF Typed
<1>3. PICK x \in Seq(Octets) : x = c \o w /\ Len(x) = Len(c) + Len(w)
  <2>1. Joined3(c, w, w)
    BY Joined3Fact
  <2>2. QED
    BY <2>1 DEF Joined3
<1>4. PICK none \in Seq(Octets) : none = <<>> /\ none \o c = c
  <2>1. <<>> \in Seq(Octets) /\ <<>> \o c = c
    OBVIOUS
  <2>2. QED
    BY <2>1
<1>5. Took(B!bostream(size, big, host), size, big, host, none)
  BY <1>4, TookNone
<1>6. Took(e, size, big, host, none \o B!Image(a, 2, big))
  BY <1>5, TookInt DEF Typed
<1>7. Took(e, size, big, host, c)
  BY <1>1, <1>4, <1>6
<1>8. Took(f, size, big, host, c \o B!Image(b, 2, big))
  <2> HIDE DEF e
  <2>1. QED
    BY <1>7, TookInt DEF Typed
<1>9. Took(f, size, big, host, x)
  BY <1>2, <1>3, <1>8
<1>10. size >= Len(x)
  <2>1. Len(c) = 2 /\ Len(w) = 2 /\ Len(x) = Len(c) + Len(w) /\ size = 4
    BY <1>1, <1>2, <1>3
  <2>2. QED
    BY ONLY <2>1
<1> HIDE DEF e, f
<1>11. f.buf = x
  BY <1>9, <1>10, OutFact
<1>12. QED
  BY <1>1, <1>2, <1>3, <1>11 DEF e, f

\* A package has the length that its head says, and its fields come back, on a
\* host of either order.
THEOREM HeartbeatComesBack ==
    ASSUME NEW timestamp \in Values, NEW host \in BOOLEAN, NEW peer \in BOOLEAN
    PROVE  /\ Len(B!heartbeatPackage(timestamp, host)) = 8
           /\ FieldsOf(B!heartbeatPackage(timestamp, host), FALSE, peer, 8, 1, timestamp)
<1>1. /\ Typed(8, 2, "short") /\ Typed(1, 2, "short") /\ Typed(timestamp, 4, "int")
      /\ FALSE \in BOOLEAN /\ B!AsShort(4) + 4 = 8
  BY HeadFact
<1>2. PICK a : a = 8 /\ Typed(a, 2, "short")
  BY <1>1
<1>3. PICK b : b = 1 /\ Typed(b, 2, "short")
  BY <1>1
<1>4. PICK big \in BOOLEAN : big = FALSE
  OBVIOUS
<1>5. PICK size \in Nat : size = 4
  OBVIOUS
<1> DEFINE xy == B!putHeartbeat(B!bostream(B!sizeof.int, FALSE, host), timestamp)
<1> DEFINE count == B!AsShort(Len(xy.buf)) + B!headSize
<1> DEFINE head == B!putHead(B!bostream(B!headSize, FALSE, host), [len |-> count, xyid |-> 1])
<1>6. xy.buf = B!Image(timestamp, 4, big)
  <2>1. B!putInt(B!bostream(4, big, host), timestamp, "int").buf = B!Image(timestamp, 4, big)
    BY <1>1, OneInt
  <2>2. QED
    BY <1>4, <2>1, SizeofFact DEF B!putHeartbeat
<1>7. Len(B!Image(timestamp, 4, big)) = 4
  BY <1>1, ImageFact DEF Typed
<1>8. B!heartbeatPackage(timestamp, host) = head.buf \o xy.buf
  BY DEF B!heartbeatPackage
<1> HIDE DEF xy
<1>9. count = 8
  <2>1. Len(xy.buf) = 4
    BY <1>6, <1>7
  <2>2. B!headSize = 4
    BY DEF B!headSize
  <2>3. B!AsShort(Len(xy.buf)) = B!AsShort(4)
    BY <2>1
  <2>4. B!AsShort(4) + 4 = 8
    BY <1>1
  <2>5. QED
    BY <2>2, <2>3, <2>4
<1>10. head = B!putInt(B!putInt(B!bostream(B!headSize, FALSE, host), count, "short"), 1, "short")
  <2> HIDE DEF count
  <2>1. QED
    BY DEF B!putHead
<1> HIDE DEF count, head
<1>11. B!headSize \in Nat /\ B!headSize = 4
  BY DEF B!headSize
<1>12. B!putInt(B!putInt(B!bostream(size, big, host), a, "short"), b, "short").buf
         = B!Image(a, 2, big) \o B!Image(b, 2, big)
  <2>1. size = 4 /\ Typed(a, 2, "short") /\ Typed(b, 2, "short")
    BY <1>2, <1>3, <1>5
  <2>2. QED
    BY <2>1, TwoInts
<1>13. head.buf = B!Image(a, 2, big) \o B!Image(b, 2, big)
  <2>1. head = B!putInt(B!putInt(B!bostream(size, big, host), a, "short"), b, "short")
    BY <1>2, <1>3, <1>4, <1>5, <1>9, <1>10, <1>11
  <2>2. QED
    BY <1>12, <2>1
<1>14. FieldsRead(a, b, timestamp, big, peer)
  <2>1. Typed(a, 2, "short") /\ Typed(b, 2, "short") /\ Typed(timestamp, 4, "int")
    BY <1>1, <1>2, <1>3
  <2>2. QED
    BY <2>1, ReadFields
<1>15. PICK s \in Seq(Octets) :
           /\ s = B!heartbeatPackage(timestamp, host)
           /\ Len(s) = 8 /\ FieldsOf(s, big, peer, a, b, timestamp)
  BY <1>6, <1>8, <1>13, <1>14 DEF FieldsRead
<1>16. QED
  BY <1>2, <1>3, <1>4, <1>15

LEMMA StringFact ==
    ASSUME NEW n \in Values
    PROVE  /\ B!String(n) \in Seq(Octets) /\ Len(B!String(n)) = n
           /\ n \in Nat /\ n + 11 \in Nat /\ n + 1 \in Nat /\ n + 1 > n
<1>1. n \in Nat
  BY DEF Values
<1>2. \A i \in 1..n : i % 7 \in Octets
  BY <1>1 DEF Octets
<1>3. QED
  BY <1>1, <1>2 DEF B!String

\* What the runs look at of a string of n bytes.
StringFollowed(n) ==
    LET b == B!bistream(B!Written(n, TRUE).buf, TRUE, FALSE)
        r == B!readcstring(b, n + 1)
    IN  /\ r.thrown = "none" /\ r.got = B!String(n) /\ B!avail(r) = 0
        /\ B!readcstring(b, n).thrown = "rangeerror"

LEMMA StringsFollowedFact ==
    ASSUME NEW n \in Values
    PROVE  StringFollowed(n)
<1>1. PICK s \in Seq(Octets) : s = B!String(n) /\ Len(s) = n
  BY StringFact
<1>2. PICK size \in Nat, big \in BOOLEAN, host \in BOOLEAN, ssize \in Nat, m \in Nat :
          /\ size = n + 11 /\ big = TRUE /\ host = FALSE /\ ssize = n + 1 /\ m = n
  BY StringFact
<1>3. Len(s) \in Values /\ size >= Len(s) + 11 /\ ssize > Len(s) /\ m <= Len(s)
  BY <1>1, <1>2, StringFact
<1> DEFINE b == B!putString(B!bostream(size, big, host), s)
<1>4. /\ B!readcstring(B!bistream(b.buf, big, host), ssize).thrown = "none"
      /\ B!readcstring(B!bistream(b.buf, big, host), ssize).got = s
      /\ B!avail(B!readcstring(B!bistream(b.buf, big, host), ssize)) = 0
  BY <1>3, StringComesBack
<1>5. B!readcstring(B!bistream(b.buf, big, host), m).thrown = "rangeerror"
  BY <1>3, StringComesBack
<1>6. b = B!Written(n, TRUE)
  BY <1>1, <1>2 DEF B!Written
<1> HIDE DEF b
<1>7. QED
  BY <1>1, <1>2, <1>4, <1>5, <1>6 DEF StringFollowed

ShortFollowed(n, big) ==
    LET s == B!Written(n, big).buf
    IN  /\ \A k \in 0..(Len(s) - 1) :
               /\ B!readcstring(B!bistream(SubSeq(s, 1, k), big, FALSE), n + 1).thrown
                     \in {"end", "overflow"}
               /\ B!putString(B!bostream(k, big, FALSE), B!String(n)).thrown = "overflow"
        /\ B!ShortForm(n) =>
               LET r == B!readcstring(B!bistream(s, big, FALSE), n)
               IN  B!readcstring([r EXCEPT !.thrown = "none"], n + 1).got = B!String(n)

LEMMA ShortFollowedFact ==
    ASSUME NEW n \in Values, NEW big \in BOOLEAN
    PROVE  ShortFollowed(n, big)
<1>1. PICK s \in Seq(Octets) : s = B!String(n) /\ Len(s) = n
  BY StringFact
<1>2. PICK size \in Nat, host \in BOOLEAN, ssize \in Nat, m \in Nat :
          size = n + 11 /\ host = FALSE /\ ssize = n + 1 /\ m = n
  BY StringFact
<1>3. Len(s) \in Values /\ size >= Len(s) + 11 /\ ssize > Len(s) /\ m <= Len(s)
  BY <1>1, <1>2, StringFact
<1> DEFINE b == B!putString(B!bostream(size, big, host), s)
<1>4. b = B!Written(n, big)
  BY <1>1, <1>2 DEF B!Written
<1>5. PICK full \in Seq(Octets) : full = LengthBytes(Len(s), big) \o s
  <2>1. PICK h \in Seq(Octets) : h = LengthBytes(Len(s), big)
    BY <1>3, LengthBytesFact
  <2>2. h \o s \in Seq(Octets)
    OBVIOUS
  <2>3. QED
    BY <2>1, <2>2
<1>6. b.buf = full
  BY <1>3, <1>5, StringComesBack
<1>7. ASSUME NEW k \in 0..(Len(full) - 1)
      PROVE  /\ B!readcstring(B!bistream(SubSeq(full, 1, k), big, host), ssize).thrown
                   \in {"end", "overflow"}
             /\ B!putString(B!bostream(k, big, host), s).thrown = "overflow"
  <2>1. k \in Nat /\ k < Len(full)
    OBVIOUS
  <2>2. k < Len(LengthBytes(Len(s), big) \o s)
    BY <1>5, <2>1
  <2>3. /\ B!readcstring(B!bistream(SubSeq(LengthBytes(Len(s), big) \o s, 1, k), big, host),
                       ssize).thrown \in {"end", "overflow"}
        /\ B!putString(B!bostream(k, big, host), s).thrown = "overflow"
    BY <1>3, <2>1, <2>2, ShortStreamThrows
  <2>4. QED
    BY <1>5, <2>3
<1> DEFINE r == B!readcstring(B!bistream(full, big, host), m)
<1>8. ASSUME B!ShortForm(n)
      PROVE  B!readcstring([r EXCEPT !.thrown = "none"], ssize).got = s
  <2>1. Len(s) < 255
    BY <1>1, <1>8 DEF B!ShortForm
  <2>2. \E g : B!readcstring(B!bistream(b.buf, big, host), m) = In(b.buf, 0, big, host, "rangeerror", g)
    BY <1>3, <2>1, StringComesBack
  <2>3. PICK g : r = In(full, 0, big, host, "rangeerror", g)
    BY <1>6, <2>2
  <2>4. [r EXCEPT !.thrown = "none"] = In(full, 0, big, host, "none", g)
    <3>1. [In(full, 0, big, host, "rangeerror", g) EXCEPT !.thrown = "none"]
             = In(full, 0, big, host, "none", g)
      BY DEF In
    <3>2. QED
      BY <2>3, <3>1
  <2>5. Layout(full, Len(full), full, Len(s), s, big)
    <3>1. Len(full) \in Nat /\ Len(full) <= Len(LengthBytes(Len(s), big) \o s)
      BY <1>5
    <3>2. Layout(SubSeq(LengthBytes(Len(s), big) \o s, 1, Len(full)), Len(full),
                 LengthBytes(Len(s), big) \o s, Len(s), s, big)
      BY <1>3, <3>1, LayoutFact
    <3>3. SubSeq(full, 1, Len(full)) = full
      BY AllFact
    <3>4. QED
      BY <1>5, <3>2, <3>3
  <2> DEFINE z == B!readcstring(In(full, 0, big, host, "none", g), ssize)
  <2>6. Reads(z, full, Len(full), Len(full), s, ssize, big, host)
    BY <1>3, <2>5, GetStringFact
  <2> HIDE DEF z
  <2>7. z = In(full, Len(full), big, host, "none", s)
    BY <1>3, <2>6 DEF Reads
  <2>8. z.got = s
    BY <2>7 DEF In
  <2>9. QED
    BY <2>4, <2>8 DEF z
<1> HIDE DEF b, r
<1>9. QED
  BY <1>1, <1>2, <1>4, <1>6, <1>7, <1>8 DEF ShortFollowed, r

LEMMA EdgesFact == B!Edges \subseteq Values
  BY SMT DEF B!Edges, Values

LEMMA LengthsFact == B!Lengths \subseteq Values /\ B!StringLengths \subseteq Values
  BY SMT DEF B!Lengths, B!StringLengths, Values

LEMMA InTypeFact ==
    ASSUME NEW v \in Values, NEW type \in IntTypes, B!InType(v, type)
    PROVE  Fits(v, B!sizeof[type])
  BY SizeofFact, SMT DEF B!InType, Fits, IntTypes

LEMMA AllFollowed ==
    B!IntegersFollowed /\ B!StringsFollowed /\ B!ShortStreamsFollowed /\ B!PackagesFollowed
<1>1. B!IntegersFollowed
  <2>1. ASSUME NEW host \in BOOLEAN, NEW big \in BOOLEAN, NEW type \in IntTypes, NEW v \in Values,
               Fits(v, B!sizeof[type])
        PROVE  LET b == B!putInt(B!bostream(B!sizeof[type], big, host), v, type)
               IN  /\ B!Got(B!getInt(B!bistream(b.buf, big, host), type)) = v
                   /\ b.buf = B!Image(v, B!sizeof[type], big)
    BY <2>1, IntegerComesBack
  <2>2. QED
    BY <2>1, EdgesFact, InTypeFact, SizeofFact DEF B!IntegersFollowed
<1>2. B!StringsFollowed
  <2>1. \A n \in Values : StringFollowed(n)
    BY StringsFollowedFact
  <2>2. QED
    BY <2>1, LengthsFact DEF B!StringsFollowed, StringFollowed
<1>3. B!ShortStreamsFollowed
  <2>1. B!Lengths \subseteq Values
    BY LengthsFact
  <2>2. \A n \in Values, big \in BOOLEAN : ShortFollowed(n, big)
    BY ShortFollowedFact
  <2>3. QED
    BY <2>1, <2>2 DEF B!ShortStreamsFollowed, ShortFollowed
<1>4. B!PackagesFollowed
  <2>1. ASSUME NEW host \in BOOLEAN, NEW timestamp \in Values
        PROVE  LET s == B!heartbeatPackage(timestamp, host)
                   count == B!getInt(B!bistream(s, FALSE, host), "short")
                   xyid == B!getInt(count, "short")
               IN  /\ B!Got(count) = Len(s)
                   /\ B!Got(xyid) = 1
                   /\ B!Got(B!getInt(xyid, "int")) = timestamp
    BY HeartbeatComesBack DEF FieldsOf
  <2>2. QED
    BY <2>1, EdgesFact DEF B!PackagesFollowed
<1>5. QED
  BY <1>1, <1>2, <1>3, <1>4

\* The codec has the properties that the runs look at, on all that they look
\* at: what bostream has written, bistream reads back.
THEOREM CodecRight == Spec => []CodecExact
  BY AllFollowed, PTL DEF CodecExact
=============================================================================
