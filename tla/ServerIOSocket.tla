--------------------------- MODULE ServerIOSocket ---------------------------
(***************************************************************************)
(* One accepted connection as its io thread holds it: the fields of        *)
(* ServerIOSocket that other parts depend on, and its operations as        *)
(* functions from the old record to the new one.  A reply is the number of *)
(* the request it answers; every reply takes one unit of the send buffer.  *)
(***************************************************************************)
EXTENDS Integers, Sequences

CONSTANT BufferSize     \* MAX_BUFFER_SIZE in units of one reply

\* One reply fits into an empty buffer: a heartbeat is far shorter than
\* MAX_BUFFER_SIZE.
ASSUME BufferSizeAssumption == BufferSize \in Nat /\ BufferSize > 1

\* mem: whether the record is allocated; reading, writing: the read and the
\* write side of the bufferevent, which libevent switches off when it reports
\* an end of file, an error or a timeout.
Status == {"unconnected", "connected", "while_Close", "closed"}
Writing == {"idle", "pending", "failed"}

\* The constructor, bufferevent_enable(EV_READ) and the assignment of
\* "connected" that the io thread makes in the same handler.  out is history:
\* the replies handed to the bufferevent.
Accepted(f, t) ==
    [mem |-> "live", fd |-> f, thread |-> t, status |-> "connected",
     sendBuf |-> <<>>, out |-> <<>>, reading |-> TRUE, writing |-> "idle"]

\* Memory given back to the pool is zeroed (mallocPool::free), so that a stale
\* pointer reads the descriptor 0, no thread and an empty send buffer.
Released(s) ==
    [mem |-> "freed", fd |-> 0, thread |-> 0, status |-> "unconnected",
     sendBuf |-> <<>>, out |-> s.out, reading |-> FALSE, writing |-> "idle"]

\* Before the constructor runs.
Unused ==
    [mem |-> "unused", fd |-> 0, thread |-> 0, status |-> "unconnected",
     sendBuf |-> <<>>, out |-> <<>>, reading |-> FALSE, writing |-> "idle"]

hadSendBufData(s) == s.sendBuf # <<>>

\* toSend hands the bytes to the bufferevent, in the state connected only;
\* otherwise they are dropped.
toSend(s, buf) ==
    IF s.status # "connected" THEN s
    ELSE [s EXCEPT !.out = @ \o buf,
                   !.writing = IF @ = "failed" THEN @ ELSE "pending"]

\* Whether expandSendBuf returns true.
canExpand(s) == ~(1 + Len(s.sendBuf) >= BufferSize)

expandSendBuf(s, reply) == [s EXCEPT !.sendBuf = Append(@, reply)]

\* The buffer is emptied whatever toSend says.
consumeSendBuf(s) ==
    IF hadSendBufData(s)
    THEN [toSend(s, s.sendBuf) EXCEPT !.sendBuf = <<>>]
    ELSE s
=============================================================================
