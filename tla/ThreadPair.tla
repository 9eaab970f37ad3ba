----------------------------- MODULE ThreadPair -----------------------------
(***************************************************************************)
(* The mailbox that ServerSocket and each ServerSocketIOThread owns: the   *)
(* queue _listPackList under _lock, and the socket pair _fdPair whose      *)
(* readable end makes the owner's event loop call pairCallback.            *)
(*                                                                         *)
(* A producer (asynAccept, asynRecive, asynClose, asynSend) pushes under   *)
(* the lock and writes one byte to the pair after it has released it.  The *)
(* owner reads up to RecvMax bytes, then handles packages one by one until *)
(* it finds the queue empty or has reached its limit, and writes a byte to *)
(* itself when packages are left.  The pair is non-blocking: a write to a  *)
(* full one fails, and nobody looks at the result.                         *)
(*                                                                         *)
(* ServerSocket tests the queue for emptiness before it takes the lock,    *)
(* ServerSocketIOThread after; the constant variable class tells them      *)
(* apart, so that one model stands for both.                               *)
(***************************************************************************)
EXTENDS Naturals, Sequences

CONSTANTS
    Producers,      \* the threads that push into this mailbox
    PairDealCount,  \* _nPairDealCount, the configured limit of one callback
    PairCap,        \* bytes the socket pair holds
    RecvMax,        \* bytes one callback reads from the pair (16 in the code)
    QueueBound      \* bound: packages in the queue at once

ASSUME ThreadPairAssumption ==
    /\ PairDealCount \in Nat
    /\ PairCap \in Nat \ {0}
    /\ RecvMax \in Nat \ {0}
    /\ QueueBound \in Nat

VARIABLES
    class,          \* whose mailbox it is
    listPackList,   \* the queue; a package is named by its producer
    fdPair,         \* number of bytes waiting in the socket pair
    producer,       \* producer[p]: where p is in its asyn... call
    owner,          \* where the owner is in pairCallback
    dealCount       \* pairCallback's local of that name

vars == <<class, listPackList, fdPair, producer, owner, dealCount>>

\* No producer is inside its critical section.  The owner's own one is a
\* single step of this model.
LockFree == \A p \in Producers : producer[p] # "push"

Init ==
    /\ class \in {"ServerSocket", "ServerSocketIOThread"}
    /\ listPackList = <<>>
    /\ fdPair = 0
    /\ producer = [p \in Producers |-> "idle"]
    /\ owner = "idle"
    /\ dealCount = 0

-----------------------------------------------------------------------------
\* send(_fdPair[1], "1", 1, 0) on a non-blocking socket.
Notified(bytes) == IF bytes < PairCap THEN bytes + 1 ELSE bytes

\* A producer calls asynAccept, asynRecive, asynClose or asynSend and gets
\* the lock.
Lock(p) ==
    /\ producer[p] = "idle"
    /\ LockFree
    /\ Len(listPackList) < QueueBound
    /\ producer' = [producer EXCEPT ![p] = "push"]
    /\ UNCHANGED <<class, listPackList, fdPair, owner, dealCount>>

\* It pushes the package and leaves the critical section.
Push(p) ==
    /\ producer[p] = "push"
    /\ listPackList' = Append(listPackList, p)
    /\ producer' = [producer EXCEPT ![p] = "notify"]
    /\ UNCHANGED <<class, fdPair, owner, dealCount>>

\* It writes the byte that wakes the owner.
Notify(p) ==
    /\ producer[p] = "notify"
    /\ fdPair' = Notified(fdPair)
    /\ producer' = [producer EXCEPT ![p] = "idle"]
    /\ UNCHANGED <<class, listPackList, owner, dealCount>>

-----------------------------------------------------------------------------
\* Mutant: the test for emptiness is missing.
EmptyReadsNothing == {FALSE}

\* What an unlocked _listPackList.empty() can return: beside a push into the
\* empty queue the read races with the write of the queue's end.
EmptyReads ==
    IF listPackList # <<>> THEN {FALSE}
    ELSE IF LockFree THEN {TRUE} ELSE BOOLEAN

\* The event loop finds the pair readable and calls pairCallback.
Wake ==
    /\ owner = "idle"
    /\ fdPair > 0
    /\ fdPair' = IF fdPair <= RecvMax THEN 0 ELSE fdPair - RecvMax
    /\ owner' = "test"
    /\ dealCount' = 0
    /\ UNCHANGED <<class, listPackList, producer>>

\* while ((dealCount++) <= _nPairDealCount)
MayDeal == dealCount <= PairDealCount

\* The limit is reached: the loop is over.
Stop ==
    /\ owner = "test"
    /\ ~MayDeal
    /\ owner' = "leave"
    /\ dealCount' = dealCount + 1
    /\ UNCHANGED <<class, listPackList, fdPair, producer>>

\* Mutant: the loop does not count.
TestUnlockedUncounted ==
    /\ owner = "test"
    /\ class = "ServerSocket"
    /\ MayDeal
    /\ \E empty \in EmptyReads : owner' = IF empty THEN "leave" ELSE "pop"
    /\ UNCHANGED <<class, listPackList, fdPair, producer, dealCount>>

\* ServerSocket: the test for emptiness, outside the lock.
TestUnlocked ==
    /\ owner = "test"
    /\ class = "ServerSocket"
    /\ MayDeal
    /\ \E empty \in EmptyReads : owner' = IF empty THEN "leave" ELSE "pop"
    /\ dealCount' = dealCount + 1
    /\ UNCHANGED <<class, listPackList, fdPair, producer>>

\* Mutant: the newest package is taken.
PopNewest ==
    /\ owner = "pop"
    /\ LockFree
    /\ listPackList' = SubSeq(listPackList, 1, Len(listPackList) - 1)
    /\ owner' = "test"
    /\ UNCHANGED <<class, fdPair, producer, dealCount>>

\* ServerSocket: lock, front, pop, unlock; then the package is handled.
Pop ==
    /\ owner = "pop"
    /\ LockFree
    /\ listPackList' = Tail(listPackList)
    /\ owner' = "test"
    /\ UNCHANGED <<class, fdPair, producer, dealCount>>

\* ServerSocketIOThread: lock, test, front, pop, unlock.
TestAndPop ==
    /\ owner = "test"
    /\ class = "ServerSocketIOThread"
    /\ MayDeal
    /\ LockFree
    /\ IF listPackList = <<>>
       THEN owner' = "leave" /\ UNCHANGED listPackList
       ELSE owner' = "test" /\ listPackList' = Tail(listPackList)
    /\ dealCount' = dealCount + 1
    /\ UNCHANGED <<class, fdPair, producer>>

\* Mutant: the owner does not wake itself.
LeaveSilently ==
    /\ owner = "leave"
    /\ owner' = "idle"
    /\ UNCHANGED <<class, listPackList, fdPair, producer, dealCount>>

\* After the loop the owner wakes itself again when packages are left; the
\* test is outside the lock in both classes.
Leave ==
    /\ owner = "leave"
    /\ \E empty \in EmptyReads :
           fdPair' = IF empty THEN fdPair ELSE Notified(fdPair)
    /\ owner' = "idle"
    /\ UNCHANGED <<class, listPackList, producer, dealCount>>

-----------------------------------------------------------------------------
Next ==
    \/ \E p \in Producers : Lock(p) \/ Push(p) \/ Notify(p)
    \/ Wake \/ Stop \/ TestUnlocked \/ Pop \/ TestAndPop \/ Leave

\* A producer that has the lock goes on to the end of its call; it need not
\* make another one.  The owner's loop runs, and the mutex lets a waiting
\* owner in eventually although producers keep taking it (strong fairness).
Fairness ==
    /\ \A p \in Producers : WF_vars(Push(p)) /\ WF_vars(Notify(p))
    /\ WF_vars(Wake) /\ WF_vars(Stop) /\ WF_vars(TestUnlocked) /\ WF_vars(Leave)
    /\ SF_vars(Pop) /\ SF_vars(TestAndPop)

Spec == Init /\ [][Next]_vars

FairSpec == Spec /\ Fairness

-----------------------------------------------------------------------------
\* The mailbox's variables have their types; in particular the byte count
\* stays within what the pair holds.
TypeOK ==
    /\ class \in {"ServerSocket", "ServerSocketIOThread"}
    /\ listPackList \in Seq(Producers)
    /\ fdPair \in 0..PairCap
    /\ producer \in [Producers -> {"idle", "push", "notify"}]
    /\ owner \in {"idle", "test", "pop", "leave"}
    /\ dealCount \in 0..(PairDealCount + 2)

\* No wake-up is lost: when packages wait and the owner is back in its event
\* loop, a byte waits too, or a producer is about to write one
\* (ServerSocket.cpp:131-135 against :203 and :325).
NoLostWakeup ==
    (owner = "idle" /\ listPackList # <<>>) =>
        \/ fdPair > 0
        \/ \E p \in Producers : producer[p] = "notify"

\* front() and pop() never meet an empty queue although ServerSocket tests
\* for emptiness before it takes the lock (ServerSocket.cpp:216-221).
PopNeverEmpty == (owner = "pop" /\ LockFree) => listPackList # <<>>

\* One callback handles a bounded number of packages: one more than the
\* configured limit, since the post-increment is compared with <= (the comment
\* on _nPairDealCount in ServerSocket.h promises the limit itself).
BatchBounded == owner = "test" => dealCount <= PairDealCount + 1

\* The owner always gets back to its event loop, where its timers and its
\* other sockets are served, however fast the producers push.
OwnerYields == []<>(owner = "idle")

\* The mailbox seen as the abstract channel.
Channel == INSTANCE FifoChannel WITH
    Senders <- Producers, Capacity <- QueueBound, chan <- listPackList

\* Every package pushed is handled once, in the order of the pushes
\* (asynAccept, asynRecive, asynClose, asynSend against pairCallback).
ChannelSpec == Channel!Spec

\* Its safety part: the mailbox changes only by a push at the end or a pop at
\* the front.
ChannelSafety == Channel!Init /\ [][Channel!Next]_(Channel!vars)
=============================================================================
