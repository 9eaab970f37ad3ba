----------------------------- MODULE FreeQueue -----------------------------
(***************************************************************************)
(* FreeQueue, the queue built on compare-and-swap, with its nodes taken    *)
(* from mallocManager as __new_obj does, beside other users of the same    *)
(* pool.  Every read and every compare-and-swap of Push and Pop is a step. *)
(*                                                                         *)
(* The header says that the queue cannot be used yet and doubts Pop's test *)
(* for emptiness.  The module shows what it can be used for: any number of *)
(* threads may push at the same time, but a Pop must be alone.             *)
(***************************************************************************)
EXTENDS MallocManager

CONSTANTS
    Threads,        \* the threads that push and pop
    NodeSize,       \* sizeof(FreeQueueNode<T>)
    AppSizes,       \* what the other users of the manager ask for
    Null,
    MaxPush         \* bound: calls of Push

ASSUME FreeQueueAssumption ==
    /\ MaxPush \in Nat
    /\ NodeSize \in 1..(mem_max_size - 1)
    /\ Threads \cup {"app"} \subseteq Holders
    /\ "app" \notin Threads
    /\ Null \notin Pointers \cup {<<0, 0>>}

VARIABLES
    pTail,      \* _pTail
    next,       \* next[p]: the field next of the node at p
    data,       \* data[p]: the field data, a value named by who pushed it
    pc,         \* pc[t]: what thread t does next
    n, p, q,    \* n[t], p[t]: the locals of Push and Pop; q[t]: p->next, the
                \* third argument of Pop's compare-and-swap
    pushes      \* calls of Push so far

queueVars == <<pTail, next, data, pc, n, p, q, pushes>>
vars == <<memVars, queueVars>>

\* The node that the constructor makes, outside the pools.
pHead == <<0, 0>>
Nodes == Pointers \cup {pHead}

Init ==
    /\ MemInit
    /\ pTail = pHead
    /\ next = [x \in Nodes |-> Null]
    /\ data = [x \in Nodes |-> Null]
    /\ pc = [t \in Threads |-> "idle"]
    /\ n = [t \in Threads |-> Null]
    /\ p = [t \in Threads |-> Null]
    /\ q = [t \in Threads |-> Null]
    /\ pushes = 0

-----------------------------------------------------------------------------
Pushing == {"fill", "readTail", "link", "swing"}
Popping == {"readNext", "take", "test", "swingBack", "finish"}

Goes(t, from, to) == pc[t] = from /\ pc' = [pc EXCEPT ![t] = to]

\* The locals of thread t go out of scope.
Returns(t) ==
    /\ n' = [n EXCEPT ![t] = Null]
    /\ p' = [p EXCEPT ![t] = Null]
    /\ q' = [q EXCEPT ![t] = Null]

\* Mutant: a Pop may begin while others push.
PopMayOverlap(t) == \A u \in Threads : pc[u] \notin Popping

\* How the queue must be used: a Pop begins when no other call is under way.
PopMayBegin(t) == \A u \in Threads : pc[u] = "idle"

PushMayBegin(t) == \A u \in Threads : pc[u] \notin Popping

\* Push: the node is allocated.
PushNew(t) ==
    /\ PushMayBegin(t)
    /\ Goes(t, "idle", "fill")
    /\ pushes < MaxPush
    /\ pushes' = pushes + 1
    /\ \E x \in Pointers :
           /\ MallocSmall(t, NodeSize, x)
           /\ n' = [n EXCEPT ![t] = x]
    /\ UNCHANGED <<pTail, next, data, p, q>>

\* Push: n->data = data; n->next = nullptr.
PushFill(t) ==
    /\ Goes(t, "fill", "readTail")
    /\ Write(n[t])
    /\ data' = [data EXCEPT ![n[t]] = t]
    /\ next' = [next EXCEPT ![n[t]] = Null]
    /\ UNCHANGED <<pTail, n, p, q, pushes>>

\* Push: p = _pTail.
PushReadTail(t) ==
    /\ Goes(t, "readTail", "link")
    /\ p' = [p EXCEPT ![t] = pTail]
    /\ UNCHANGED <<memVars, pTail, next, data, n, q, pushes>>

\* Mutant: the node is written to p->next without a comparison.
PushLinkPlain(t) ==
    /\ Goes(t, "link", "swing")
    /\ next' = [next EXCEPT ![p[t]] = n[t]]
    /\ UNCHANGED <<memVars, pTail, data, n, p, q, pushes>>

\* Push: the compare-and-swap of p->next from nullptr to n succeeds.
PushLink(t) ==
    /\ Goes(t, "link", "swing")
    /\ next[p[t]] = Null
    /\ next' = [next EXCEPT ![p[t]] = n[t]]
    /\ UNCHANGED <<memVars, pTail, data, n, p, q, pushes>>

\* Push: it fails, and the loop reads _pTail again.
PushRetry(t) ==
    /\ Goes(t, "link", "readTail")
    /\ next[p[t]] # Null
    /\ UNCHANGED <<memVars, pTail, next, data, n, p, q, pushes>>

\* Push: the compare-and-swap of _pTail from p to n, whose result nobody
\* looks at.
PushSwing(t) ==
    /\ Goes(t, "swing", "idle")
    /\ pTail' = IF pTail = p[t] THEN n[t] ELSE pTail
    /\ Returns(t)
    /\ UNCHANGED <<memVars, next, data, pushes>>

-----------------------------------------------------------------------------
\* Pop: p = _pHead->next; an empty queue returns 0 at once.
PopBegin(t) ==
    /\ PopMayBegin(t)
    /\ next[pHead] # Null
    /\ Goes(t, "idle", "readNext")
    /\ p' = [p EXCEPT ![t] = next[pHead]]
    /\ UNCHANGED <<memVars, pTail, next, data, n, q, pushes>>

\* Pop: p->next is read for the compare-and-swap.
PopReadNext(t) ==
    /\ Goes(t, "readNext", "take")
    /\ q' = [q EXCEPT ![t] = next[p[t]]]
    /\ UNCHANGED <<memVars, pTail, next, data, n, p, pushes>>

\* Pop: the compare-and-swap of _pHead->next from p to p->next; it can only
\* fail beside another Pop.
PopTake(t) ==
    /\ Goes(t, "take", "test")
    /\ next[pHead] = p[t]
    /\ next' = [next EXCEPT ![pHead] = q[t]]
    /\ UNCHANGED <<memVars, pTail, data, n, p, q, pushes>>

\* Pop: the test for emptiness.
PopTest(t) ==
    /\ Goes(t, "test", IF next[pHead] = Null THEN "swingBack" ELSE "finish")
    /\ UNCHANGED <<memVars, pTail, next, data, n, p, q, pushes>>

\* Pop: the compare-and-swap of _pTail from p to _pHead, tried until it
\* succeeds.
PopSwingBack(t) ==
    /\ Goes(t, "swingBack", "finish")
    /\ pTail = p[t]
    /\ pTail' = pHead
    /\ UNCHANGED <<memVars, next, data, n, p, q, pushes>>

\* Pop: the node is deleted, which zeroes it.
PopFinish(t) ==
    /\ Goes(t, "finish", "idle")
    /\ FreeSmall(p[t], fixSize(NodeSize))
    /\ next' = [next EXCEPT ![p[t]] = Null]
    /\ data' = [data EXCEPT ![p[t]] = Null]
    /\ Returns(t)
    /\ UNCHANGED <<pTail, pushes>>

-----------------------------------------------------------------------------
\* The rest of the server uses the manager as well: it writes to and frees
\* what it holds, and sometimes frees what it does not hold any more.
AppHolds(x) == x \in DOMAIN holder => holder[x] = "app"

AppMalloc(size) ==
    /\ (\E x \in Pointers : MallocSmall("app", size, x)) \/ NewBig(size)
    /\ UNCHANGED queueVars

AppInsert(x) == InsertBig("app", x) /\ UNCHANGED queueVars

AppWrite(x) == AppHolds(x) /\ Write(x) /\ UNCHANGED queueVars

AppFree(x) ==
    /\ AppHolds(x)
    /\ (\E c \in SizeClasses : FreeSmall(x, c)) \/ FreeBig(x) \/ FreeUnknown(x)
    /\ UNCHANGED queueVars

Next ==
    \/ \E t \in Threads :
           \/ PushNew(t) \/ PushFill(t) \/ PushReadTail(t) \/ PushLink(t)
           \/ PushRetry(t) \/ PushSwing(t)
           \/ PopBegin(t) \/ PopReadNext(t) \/ PopTake(t) \/ PopTest(t)
           \/ PopSwingBack(t) \/ PopFinish(t)
    \/ \E size \in AppSizes : AppMalloc(size)
    \/ \E x \in Pointers : AppInsert(x) \/ AppWrite(x) \/ AppFree(x)

Spec == Init /\ [][Next]_vars

-----------------------------------------------------------------------------
TypeOK ==
    /\ MemTypeOK
    /\ pTail \in Nodes
    /\ next \in [Nodes -> Nodes \cup {Null}]
    /\ data \in [Nodes -> Threads \cup {Null}]
    /\ pc \in [Threads -> {"idle"} \cup Pushing \cup Popping]
    /\ n \in [Threads -> Pointers \cup {Null}]
    /\ p \in [Threads -> Nodes \cup {Null}]
    /\ q \in [Threads -> Nodes \cup {Null}]
    /\ pushes \in 0..MaxPush

\* The comment in Push, "assume that this always succeeds", and the loop in
\* Pop that must not run for ever: whoever is about to swing _pTail finds it
\* on the node it has read.
TailSwingSucceeds ==
    \A t \in Threads : pc[t] \in {"swing", "swingBack"} => pTail = p[t]

\* The nodes from _pHead on, as a first-in first-out channel of values.
Step(x) == IF x = Null THEN Null ELSE next[x]
Walk[i \in 0..MaxPush] == IF i = 0 THEN next[pHead] ELSE Step(Walk[i - 1])
Chain == [i \in 1..(CHOOSE k \in 0..MaxPush :
                        /\ Walk[k] = Null
                        /\ \A j \in 0..(k - 1) : Walk[j] # Null)
              |-> data[Walk[i - 1]]]

Queue == INSTANCE FifoChannel WITH
    Senders <- Threads, Capacity <- MaxPush, chan <- Chain

\* The linked nodes are a first-in first-out channel: a value enters it when
\* its node is linked, leaves it when Pop unlinks the node, and is neither
\* lost nor repeated, though nodes are used again.
QueueSpec == Queue!Init /\ [][Queue!Next]_Chain
=============================================================================
