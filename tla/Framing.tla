------------------------------ MODULE Framing ------------------------------
(***************************************************************************)
(* How ServerIOSocket::recv and ClientIOSocket::recv cut packages out of   *)
(* the byte stream of a plain (not websocket) connection.                  *)
(*                                                                         *)
(* A byte is named by its position in the stream, so that a buffer is a    *)
(* sequence of positions and a wrong copy shows.  Each turn of the loop in *)
(* recv is a step.  The constant variable class tells the two methods      *)
(* apart: the server's decodes the head at the front of the buffer in      *)
(* every turn, from as many bytes as this call has read; the client's      *)
(* decodes it where the next package begins.                               *)
(***************************************************************************)
EXTENDS Integers, Sequences

CONSTANTS
    PackageLens,        \* the values of head.len that the peer sends
    Spelled,            \* what head.len can be when it is read elsewhere than
                        \* at the beginning of a package
    HEADLEN,            \* bytes of a ProtocolHead
    MAX_BUFFER_SIZE,    \* bytes of _pRecvBuf
    MaxRead,            \* bytes the bufferevent takes from the kernel at once
    MaxPackages         \* bound: packages the peer sends

ASSUME FramingAssumption ==
    /\ HEADLEN \in Nat \ {0}
    /\ MAX_BUFFER_SIZE \in Nat
    /\ MaxRead \in Nat \ {0}
    /\ MaxPackages \in Nat
    /\ PackageLens \subseteq Nat
    /\ Spelled \subseteq Nat

\* A package includes its head, and beside an unfinished package there is room
\* for everything that arrives at once.  The code has 8192 for the buffer,
\* 4096 for a read, and packages of about 2 KB (xc_max_opt_data_len).
ASSUME RoomAssumption ==
    \A l \in PackageLens : l >= HEADLEN /\ l + MaxRead <= MAX_BUFFER_SIZE + 1

VARIABLES
    class,      \* whose recv it is
    packs,      \* the packages sent: first byte and length
    total,      \* bytes sent
    arrived,    \* bytes that the bufferevent has taken from the kernel
    nread,      \* bytes that recv has taken from the bufferevent
    recvBuf,    \* _pRecvBuf up to _nRecvBufLen
    pc,         \* "idle" outside recv, "parse" in its loop, "hung" for ever
    len,        \* recv's locals of these names
    tmpIndex,
    up          \* the packages handed to asynRecive, each with its bytes

vars == <<class, packs, total, arrived, nread, recvBuf, pc, len, tmpIndex, up>>

Init ==
    /\ class \in {"ServerIOSocket", "ClientIOSocket"}
    /\ packs = <<>>
    /\ total = 0
    /\ arrived = 0
    /\ nread = 0
    /\ recvBuf = <<>>
    /\ pc = "idle"
    /\ len = 0
    /\ tmpIndex = 0
    /\ up = <<>>

-----------------------------------------------------------------------------
\* The peer sends a package.
Send(l) ==
    /\ Len(packs) < MaxPackages
    /\ packs' = Append(packs, [first |-> total + 1, len |-> l])
    /\ total' = total + l
    /\ UNCHANGED <<class, arrived, nread, recvBuf, pc, len, tmpIndex, up>>

\* Mutant: the bytes are read to the front of the buffer.
FilledAtFront(bytes) == bytes

\* The buffer with bytes read to _pRecvBuf + _nRecvBufLen.
Filled(bytes) == recvBuf \o bytes

\* Mutant: what is in the buffer already is forgotten.
RoomOfAll == MAX_BUFFER_SIZE

\* MAX_BUFFER_SIZE - _nRecvBufLen.
Room == MAX_BUFFER_SIZE - Len(recvBuf)

\* n bytes arrive, and the read callback calls recv, which takes as many as
\* its buffer has room for.
Recv(n) ==
    /\ pc = "idle"
    /\ arrived + n <= total
    /\ arrived' = arrived + n
    /\ len' = IF arrived + n - nread < Room THEN arrived + n - nread ELSE Room
    /\ recvBuf' = Filled([i \in 1..len' |-> nread + i])
    /\ nread' = nread + len'
    /\ pc' = "parse"
    /\ UNCHANGED <<class, packs, total, tmpIndex, up>>

\* Bytes of the buffer that have not gone up.
Remaining == Len(recvBuf) - tmpIndex

\* Mutant: the client's recv asks for the bytes of this call.
HeadReadableOfThisRead == Remaining > 0 /\ len >= HEADLEN

\* The loop goes on and the head can be decoded (bistream throws when it is
\* attached to fewer bytes than a head has).
HeadReadable ==
    \/ class = "ServerIOSocket" /\ Remaining > 0 /\ len >= HEADLEN
    \/ class = "ClientIOSocket" /\ Remaining >= HEADLEN

\* Where the head is decoded.
HeadByte == recvBuf[IF class = "ServerIOSocket" THEN 1 ELSE tmpIndex + 1]

\* The values that head.len can have there.
HeadLen ==
    LET here == {i \in DOMAIN packs : packs[i].first = HeadByte}
    IN  IF here = {} THEN Spelled ELSE {packs[i].len : i \in here}

\* Mutant: a package that is still incomplete goes up with what there is.
PassUpPart ==
    /\ pc = "parse"
    /\ HeadReadable
    /\ \E h \in HeadLen :
           LET n == IF h <= Remaining THEN h ELSE Remaining
           IN  /\ h > 0
               /\ up' = Append(up, SubSeq(recvBuf, tmpIndex + 1, tmpIndex + n))
               /\ tmpIndex' = tmpIndex + n
    /\ UNCHANGED <<class, packs, total, arrived, nread, recvBuf, pc, len>>

\* A turn of the loop that copies a package and hands it to asynRecive.
PassUp ==
    /\ pc = "parse"
    /\ HeadReadable
    /\ \E h \in HeadLen :
           /\ h > 0
           /\ h <= Remaining
           /\ up' = Append(up, SubSeq(recvBuf, tmpIndex + 1, tmpIndex + h))
           /\ tmpIndex' = tmpIndex + h
    /\ UNCHANGED <<class, packs, total, arrived, nread, recvBuf, pc, len>>

\* A head that says 0: the loop hands up empty packages and never ends.
Hang ==
    /\ pc = "parse"
    /\ HeadReadable
    /\ 0 \in HeadLen
    /\ pc' = "hung"
    /\ UNCHANGED <<class, packs, total, arrived, nread, recvBuf, len, tmpIndex, up>>

\* Mutant: what has gone up stays in the buffer.
LeaveUncut ==
    /\ pc = "parse"
    /\ HeadReadable => \E h \in HeadLen : h > Remaining
    /\ tmpIndex' = 0
    /\ pc' = "idle"
    /\ UNCHANGED <<class, packs, total, arrived, nread, recvBuf, len, up>>

\* The loop ends at a head that cannot be read or a package that is not
\* complete; what has gone up is cut off the buffer (memmove).
Leave ==
    /\ pc = "parse"
    /\ HeadReadable => \E h \in HeadLen : h > Remaining
    /\ recvBuf' = SubSeq(recvBuf, tmpIndex + 1, Len(recvBuf))
    /\ tmpIndex' = 0
    /\ pc' = "idle"
    /\ UNCHANGED <<class, packs, total, arrived, nread, len, up>>

Next ==
    \/ \E l \in PackageLens : Send(l)
    \/ \E n \in 1..MaxRead : Recv(n)
    \/ PassUp
    \/ Hang
    \/ Leave

Spec == Init /\ [][Next]_vars

\* What was sent arrives, and recv runs to its end.
FairSpec ==
    /\ Spec
    /\ WF_vars(\E n \in 1..MaxRead : Recv(n))
    /\ WF_vars(PassUp)
    /\ WF_vars(Leave)

-----------------------------------------------------------------------------
\* Types, and that _nRecvBufLen and tmpIndex stay inside the buffer.
TypeOK ==
    /\ class \in {"ServerIOSocket", "ClientIOSocket"}
    /\ packs \in Seq([first : Nat, len : PackageLens])
    /\ total \in Nat
    /\ arrived \in 0..total
    /\ nread \in 0..arrived
    /\ recvBuf \in Seq(Nat)
    /\ Len(recvBuf) <= MAX_BUFFER_SIZE
    /\ pc \in {"idle", "parse", "hung"}
    /\ len \in Nat
    /\ tmpIndex \in 0..Len(recvBuf)
    /\ up \in Seq(Seq(Nat))

\* Packages all of one length, as this server's own protocol has them.
OneLength == \A i, j \in DOMAIN packs : packs[i].len = packs[j].len

\* What the code is up to: the client's recv always, the server's as long as
\* all packages have the same length.
InStep == class = "ClientIOSocket" \/ OneLength

\* Package i went up as it was sent, with all its bytes and no others.
Whole(i) ==
    /\ Len(up[i]) = packs[i].len
    /\ \A k \in DOMAIN up[i] : up[i][k] = packs[i].first + k - 1

\* What goes up are the packages that were sent, complete and in order,
\* wherever the stream is cut by the reads (recv, "N complete packages").
FramesWhole ==
    InStep => /\ Len(up) <= Len(packs)
              /\ \A i \in DOMAIN up : Whole(i)

\* Whatever the lengths, even when the server has lost the beginnings of
\* packages: no byte goes up twice, is left out or overtakes another, and the
\* buffer holds what comes next.
BytesKept ==
    /\ \A i \in DOMAIN up : \A k \in DOMAIN up[i] :
           /\ k > 1 => up[i][k] = up[i][k - 1] + 1
           /\ k = 1 => up[i][1] = IF i = 1 THEN 1 ELSE up[i - 1][Len(up[i - 1])] + 1
    /\ \A k \in DOMAIN recvBuf : recvBuf[k] = nread - Len(recvBuf) + k

\* The client's recv leaves nothing behind in the bufferevent, for which no
\* callback would come: its buffer has room for all that arrives.
InputDrained == class = "ClientIOSocket" => nread = arrived

\* Between two calls no complete package lies in the buffer, where it would
\* stay until the peer sends more.  The server's recv achieves that only when
\* the call has read at least as many bytes as a head has.
NothingWaits ==
    (pc = "idle" /\ InStep /\ (class = "ClientIOSocket" \/ len >= HEADLEN)) =>
        (Len(up) < Len(packs) => Len(recvBuf) < packs[Len(up) + 1].len)

\* The client's recv hands up every package in the end.
EveryPackageGoesUp ==
    \A p \in 1..MaxPackages :
        (class = "ClientIOSocket" /\ Len(packs) >= p) ~> (Len(up) >= p)
=============================================================================
