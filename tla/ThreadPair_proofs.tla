-------------------------- MODULE ThreadPair_proofs --------------------------
(***************************************************************************)
(* What holds of the mailbox for every number of producers, every batch    *)
(* limit, every capacity of the socket pair and both places of the test    *)
(* for emptiness.                                                          *)
(***************************************************************************)
EXTENDS ThreadPair, TLAPS

\* One critical section at a time: producers that are past _lock exclude one
\* another (SelfLock in the asyn... functions).
OneInside ==
    \A p, q \in Producers :
        (producer[p] = "push" /\ producer[q] = "push") => p = q

\* Push never overfills the bound that Lock has tested.
RoomInside ==
    \A p \in Producers : producer[p] = "push" => Len(listPackList) < QueueBound

\* The limit holds between the test and the pop too.
PopBounded == owner = "pop" => dealCount <= PairDealCount + 1

IInv ==
    /\ TypeOK
    /\ OneInside
    /\ RoomInside
    /\ PopBounded
    /\ NoLostWakeup
    /\ PopNeverEmpty
    /\ BatchBounded

USE ThreadPairAssumption

\* The initial state satisfies the inductive invariant.
LEMMA InitIInv == Init => IInv
BY DEF Init, IInv, TypeOK, OneInside, RoomInside, PopBounded, NoLostWakeup, PopNeverEmpty,
       BatchBounded, LockFree

\* Every step of the producers and of the owner preserves it.
LEMMA NextIInv == IInv /\ [Next]_vars => IInv'
<1> SUFFICES ASSUME IInv, [Next]_vars PROVE IInv'
  OBVIOUS
<1> USE DEF IInv, TypeOK, OneInside, RoomInside, PopBounded, NoLostWakeup, PopNeverEmpty,
            BatchBounded, LockFree
<1>1. CASE UNCHANGED vars
  BY <1>1 DEF vars
<1>2. ASSUME NEW p \in Producers, Lock(p) PROVE IInv'
  BY <1>2 DEF Lock
<1>3. ASSUME NEW p \in Producers, Push(p) PROVE IInv'
  BY <1>3 DEF Push
<1>4. ASSUME NEW p \in Producers, Notify(p) PROVE IInv'
  BY <1>4 DEF Notify, Notified
<1>5. CASE Wake
  BY <1>5 DEF Wake
<1>6. CASE Stop
  BY <1>6 DEF Stop, MayDeal
<1>7. CASE TestUnlocked
  <2>1. PICK empty \in EmptyReads : owner' = IF empty THEN "leave" ELSE "pop"
    BY <1>7 DEF TestUnlocked
  <2>2. (~empty /\ LockFree) => listPackList # <<>>
    BY DEF EmptyReads
  <2>3. owner' \in {"leave", "pop"} /\ (owner' = "pop" <=> ~empty)
    BY <2>1
  <2>4. QED
    BY <1>7, <2>2, <2>3 DEF TestUnlocked, MayDeal
<1>8. CASE Pop
  BY <1>8 DEF Pop
<1>9. CASE TestAndPop
  BY <1>9 DEF TestAndPop, MayDeal
<1>10. CASE Leave
  <2>1. PICK empty \in EmptyReads :
            fdPair' = IF empty THEN fdPair ELSE Notified(fdPair)
    BY <1>10 DEF Leave
  <2>2. listPackList # <<>> => ~empty
    BY DEF EmptyReads
  <2>3. fdPair' \in 0..PairCap /\ (listPackList # <<>> => fdPair' > 0)
    BY <2>1, <2>2 DEF Notified
  <2>4. QED
    BY <1>10, <2>3 DEF Leave
<1>11. QED
  BY <1>1, <1>2, <1>3, <1>4, <1>5, <1>6, <1>7, <1>8, <1>9, <1>10 DEF Next

\* Hence it holds in every reachable state.
THEOREM Invariance == Spec => []IInv
BY InitIInv, NextIInv, PTL DEF Spec

\* The variables of the mailbox keep their types, and the byte count stays
\* within the capacity of the pair.
THEOREM TypeCorrect == Spec => []TypeOK
BY Invariance, PTL DEF IInv

\* No wake-up is lost between asyn... and pairCallback, although the byte is
\* written after the lock is released, a write to a full pair fails, and the
\* owner looks at the queue without the lock.
THEOREM WakeupSafe == Spec => []NoLostWakeup
BY Invariance, PTL DEF IInv

\* The owner never pops an empty queue, although ServerSocket tests for
\* emptiness outside the lock.
THEOREM PopSafe == Spec => []PopNeverEmpty
BY Invariance, PTL DEF IInv

\* A callback handles at most one package more than the configured limit.
THEOREM BatchSafe == Spec => []BatchBounded
BY Invariance, PTL DEF IInv

-----------------------------------------------------------------------------
\* The mailbox implements the abstract channel: each of its steps puts one
\* package at the end, takes the first one, or leaves the channel alone.
THEOREM ImplementsChannel == Spec => ChannelSafety
<1> USE DEF IInv, TypeOK, RoomInside, PopNeverEmpty, LockFree, Channel!vars
<1>1. Init => Channel!Init
  BY DEF Init, Channel!Init
<1>2. IInv /\ [Next]_vars => [Channel!Next]_(Channel!vars)
  <2> SUFFICES ASSUME IInv, [Next]_vars
               PROVE  Channel!Next \/ UNCHANGED listPackList
    BY DEF Channel!vars
  <2>1. ASSUME NEW p \in Producers, Push(p) PROVE Channel!Next
    BY <2>1 DEF Push, Channel!Next, Channel!Put
  <2>2. CASE Pop
    BY <2>2 DEF Pop, Channel!Next, Channel!Take
  <2>3. CASE TestAndPop
    BY <2>3 DEF TestAndPop, Channel!Next, Channel!Take
  <2>4. ASSUME NEW p \in Producers, Lock(p) \/ Notify(p)
        PROVE  UNCHANGED listPackList
    BY <2>4 DEF Lock, Notify
  <2>5. CASE Wake \/ Stop \/ TestUnlocked \/ Leave \/ UNCHANGED vars
    BY <2>5 DEF Wake, Stop, TestUnlocked, Leave, vars
  <2>6. QED
    BY <2>1, <2>2, <2>3, <2>4, <2>5 DEF Next
<1>3. QED
  BY <1>1, <1>2, Invariance, PTL DEF Spec, ChannelSafety
=============================================================================
