-------------------------- MODULE FreeQueue_proofs --------------------------
(***************************************************************************)
(* What holds of the memory manager and of the queue on top of it for      *)
(* every set of size classes, blocks and threads, and any other users.     *)
(***************************************************************************)
EXTENDS FreeQueue, SequenceTheorems, FiniteSetTheorems, WellFoundedInduction, TLAPS

(***************************************************************************)
(* The memory manager                                                      *)
(***************************************************************************)
\* x is in the free list of some pool.
IsFree(x) == \E c \in DOMAIN freeList : \E i \in 1..Len(freeList[c]) : freeList[c][i] = x

\* No chunk is twice in the free lists.
FreeApart ==
    \A c, d \in DOMAIN freeList :
        \A i \in 1..Len(freeList[c]), j \in 1..Len(freeList[d]) :
            freeList[c][i] = freeList[d][j] => c = d /\ i = j

\* A free chunk is part of a block that the manager has, is nobody's, and is zero.
FreeUnused ==
    \A x \in Pointers : IsFree(x) =>
        x \notin DOMAIN smallPtrs /\ x[1] \in heap /\ x \notin dirty

\* The manager's two lists have every pointer that is held.
Listed == DOMAIN holder = DOMAIN smallPtrs \cup bigPtrs

\* Every pointer that the manager has handed out is into a block that it has.
UsedInHeap == \A x \in DOMAIN smallPtrs \cup bigPtrs \cup pending : x[1] \in heap

\* A great block is no pool's, and begins with its only pointer.
BigAlone ==
    /\ \A x \in bigPtrs \cup pending :
           /\ x[2] = 1
           /\ \A y \in Pointers : y \in DOMAIN smallPtrs \/ IsFree(y) => y[1] # x[1]
    /\ bigPtrs \cap pending = {}
    /\ pending \cap dirty = {}

MemInv ==
    /\ MemTypeOK
    /\ FreeApart
    /\ FreeUnused
    /\ Listed
    /\ UsedInHeap
    /\ BigAlone

\* A block is split into at least one chunk and at most mem_max_size.
LEMMA CountFact ==
    ASSUME NEW c \in SizeClasses
    PROVE  getCount(c) \in 1..mem_max_size
<1>1. c \in Nat \ {0} /\ mem_max_size \in Nat \ {0} /\ c <= mem_max_size
  BY MallocAssumption
<1>2. CASE c >= mem_max_size
  BY <1>1, <1>2 DEF getCount
<1>3. CASE c < mem_max_size
  <2> DEFINE m == mem_max_size
             k == m \div c
  <2>1. k \in Int /\ c * k <= m /\ m < c * k + c
    BY <1>1, SMT
  <2>2. k >= 1
    <3>1. ASSUME k <= 0 PROVE FALSE
      <4>1. c * k <= 0
        BY <1>1, <2>1, <3>1, SMT
      <4>2. QED
        BY <1>1, <1>3, <2>1, <4>1
    <3>2. QED
      BY <2>1, <3>1
  <2>3. k <= c * k
    BY <1>1, <2>1, <2>2, SMT
  <2>4. k \in 1..m
    BY <1>1, <2>1, <2>2, <2>3
  <2>5. QED
    BY <1>1, <1>3, <2>4 DEF getCount
<1>4. QED
  BY <1>1, <1>2, <1>3

\* The chunks of a class when a request comes: there is at least one.
LEMMA StockedFact ==
    ASSUME MemTypeOK, NEW c \in SizeClasses, NEW b \in Blocks
    PROVE  Stocked(c, b) \in Seq(Pointers) /\ Len(Stocked(c, b)) \in Nat \ {0}
<1>1. getCount(c) \in Nat \ {0} /\ 1..getCount(c) \subseteq Places
  BY CountFact, MallocAssumption DEF Places
<1>2. Split(b, c) \in [1..getCount(c) -> Pointers]
  BY <1>1 DEF Split, Pointers
<1>3. Split(b, c) \in Seq(Pointers) /\ Len(Split(b, c)) = getCount(c)
  BY <1>1, <1>2
<1>4. ASSUME c \in DOMAIN freeList, freeList[c] # <<>>
      PROVE  freeList[c] \in Seq(Pointers) /\ Len(freeList[c]) \in Nat \ {0}
  BY <1>4 DEF MemTypeOK
<1>5. QED
  BY <1>1, <1>3, <1>4 DEF Stocked

\* The manager starts with nothing.
LEMMA MemInitInv == MemInit => MemInv
<1> SUFFICES ASSUME MemInit PROVE MemInv
  OBVIOUS
<1>1. DOMAIN freeList = {} /\ DOMAIN smallPtrs = {} /\ DOMAIN holder = {}
  BY DEF MemInit
<1>2. MemTypeOK
  BY <1>1 DEF MemInit, MemTypeOK
<1>3. QED
  BY <1>1, <1>2 DEF MemInit, MemInv, FreeApart, FreeUnused, Listed, UsedInHeap, BigAlone, IsFree

-----------------------------------------------------------------------------
\* Nothing that the heap is asked for was in use.
LEMMA UnusedBlock ==
    ASSUME MemInv, NEW b \in Blocks, b \notin heap, NEW y \in Pointers, y[1] = b
    PROVE  y \notin DOMAIN smallPtrs \cup bigPtrs \cup pending /\ ~IsFree(y)
BY DEF MemInv, UsedInHeap, FreeUnused

\* The chunks that a small request can choose from are unused, zero, and
\* different from each other and from those of other classes.
LEMMA StockedUnused ==
    ASSUME MemInv, NEW c \in SizeClasses, NEW b \in Blocks,
           IF c \in DOMAIN freeList /\ freeList[c] # <<>>
           THEN UNCHANGED <<heap, dirty>>
           ELSE /\ b \notin heap
                /\ heap' = heap \cup {b}
                /\ dirty' = dirty \ ({b} \X Places)
    PROVE  /\ heap \subseteq heap' /\ heap' \subseteq Blocks /\ dirty' \subseteq dirty
           /\ \A i \in 1..Len(Stocked(c, b)) :
                  /\ Stocked(c, b)[i] \notin DOMAIN smallPtrs \cup bigPtrs \cup pending
                  /\ Stocked(c, b)[i][1] \in heap'
                  /\ Stocked(c, b)[i] \notin dirty'
                  /\ \A x \in bigPtrs \cup pending : Stocked(c, b)[i][1] # x[1]
                  /\ \A j \in 1..Len(Stocked(c, b)) :
                         Stocked(c, b)[i] = Stocked(c, b)[j] => i = j
                  /\ \A d \in DOMAIN freeList \ {c} : \A j \in 1..Len(freeList[d]) :
                         Stocked(c, b)[i] # freeList[d][j]
<1> DEFINE s == Stocked(c, b)
<1>1. s \in Seq(Pointers)
  BY StockedFact DEF MemInv
<1>2. CASE c \in DOMAIN freeList /\ freeList[c] # <<>>
  <2>1. s = freeList[c] /\ heap' = heap /\ dirty' = dirty
    BY <1>2 DEF Stocked
  <2>2. heap \subseteq Blocks
    BY DEF MemInv, MemTypeOK
  <2>3. ASSUME NEW i \in 1..Len(s)
        PROVE  /\ s[i] \in Pointers /\ IsFree(s[i])
               /\ s[i] \notin DOMAIN smallPtrs /\ s[i][1] \in heap /\ s[i] \notin dirty
    <3>1. s[i] \in Pointers
      BY <1>1
    <3>2. IsFree(s[i])
      BY <1>2, <2>1 DEF IsFree
    <3>3. QED
      BY <3>1, <3>2 DEF MemInv, FreeUnused
  <2>4. ASSUME NEW i \in 1..Len(s), NEW x \in bigPtrs \cup pending
        PROVE  s[i][1] # x[1] /\ s[i] # x
    BY <2>3 DEF MemInv, BigAlone
  <2>5. ASSUME NEW i \in 1..Len(s), NEW j \in 1..Len(s), s[i] = s[j]
        PROVE  i = j
    BY <1>2, <2>1, <2>5 DEF MemInv, FreeApart
  <2>6. ASSUME NEW i \in 1..Len(s), NEW d \in DOMAIN freeList \ {c}, NEW j \in 1..Len(freeList[d])
        PROVE  s[i] # freeList[d][j]
    BY <1>2, <2>1 DEF MemInv, FreeApart
  <2>7. QED
    BY <2>1, <2>2, <2>3, <2>4, <2>5, <2>6
<1>3. CASE ~(c \in DOMAIN freeList /\ freeList[c] # <<>>)
  <2>1. s = Split(b, c) /\ b \notin heap /\ heap' = heap \cup {b} /\ dirty' = dirty \ ({b} \X Places)
    BY <1>3 DEF Stocked
  <2>2. heap \subseteq Blocks
    BY DEF MemInv, MemTypeOK
  <2>3. getCount(c) \in 1..mem_max_size /\ mem_max_size \in Nat
    BY CountFact, MallocAssumption
  <2>4. Len(s) = getCount(c) /\ \A i \in 1..Len(s) : s[i] = <<b, i>> /\ i \in Places
    BY <2>1, <2>3 DEF Split, Places
  <2>5. ASSUME NEW i \in 1..Len(s)
        PROVE  /\ s[i] \in Pointers /\ s[i][1] = b
               /\ s[i] \notin DOMAIN smallPtrs \cup bigPtrs \cup pending /\ ~IsFree(s[i])
    <3>1. s[i] = <<b, i>> /\ i \in Places /\ b \notin heap
      BY <2>1, <2>4
    <3>2. <<b, i>> \in Pointers /\ <<b, i>>[1] = b
      BY <3>1 DEF Pointers
    <3>3. <<b, i>> \notin DOMAIN smallPtrs \cup bigPtrs \cup pending /\ ~IsFree(<<b, i>>)
      BY <3>1, <3>2, UnusedBlock
    <3>4. QED
      BY <3>1, <3>2, <3>3
  <2>6. ASSUME NEW i \in 1..Len(s), NEW x \in bigPtrs \cup pending
        PROVE  s[i][1] # x[1]
    BY <2>1, <2>5 DEF MemInv, UsedInHeap
  <2>7. ASSUME NEW i \in 1..Len(s) PROVE s[i] \notin dirty'
    <3>1. s[i] = <<b, i>> /\ i \in Places
      BY <2>4
    <3>2. s[i] \in {b} \X Places
      BY <3>1
    <3>3. QED
      BY <2>1, <3>2
  <2>8. ASSUME NEW i \in 1..Len(s), NEW j \in 1..Len(s), s[i] = s[j]
        PROVE  i = j
    BY <2>4, <2>8
  <2>9. ASSUME NEW i \in 1..Len(s), NEW d \in DOMAIN freeList \ {c}, NEW j \in 1..Len(freeList[d])
        PROVE  s[i] # freeList[d][j]
    BY <2>5 DEF IsFree
  <2>10. QED
    BY <2>1, <2>2, <2>5, <2>6, <2>7, <2>8, <2>9
<1>4. QED
  BY <1>2, <1>3

\* A small request gets a chunk that nobody holds and that is zero.
LEMMA MallocSmallStep ==
    ASSUME MemInv, NEW h \in Holders, NEW size, NEW x, MallocSmall(h, size, x)
    PROVE  /\ MemInv'
           /\ x \in Pointers /\ x \notin DOMAIN holder /\ x \notin dirty'
           /\ holder' = With(holder, x, h)
<1>1. PICK c \in SizeClasses, b \in Blocks :
          /\ x = Head(Stocked(c, b))
          /\ IF c \in DOMAIN freeList /\ freeList[c] # <<>>
             THEN UNCHANGED <<heap, dirty>>
             ELSE /\ b \notin heap
                  /\ heap' = heap \cup {b}
                  /\ dirty' = dirty \ ({b} \X Places)
          /\ freeList' = With(freeList, c, Tail(Stocked(c, b)))
          /\ smallPtrs' = With(smallPtrs, x, c)
          /\ holder' = With(holder, x, h)
          /\ UNCHANGED <<bigPtrs, pending>>
  BY DEF MallocSmall
<1> DEFINE s == Stocked(c, b)
<1>2. s \in Seq(Pointers) /\ Len(s) \in Nat \ {0}
  BY StockedFact DEF MemInv
<1>3. x = s[1] /\ 1 \in 1..Len(s) /\ x \in Pointers
  BY <1>1, <1>2
<1>4. /\ Tail(s) \in Seq(Pointers) /\ Len(Tail(s)) = Len(s) - 1
      /\ \A i \in 1..Len(Tail(s)) : Tail(s)[i] = s[i + 1] /\ i + 1 \in 1..Len(s)
  BY <1>2
<1>5. /\ heap \subseteq heap' /\ heap' \subseteq Blocks /\ dirty' \subseteq dirty
      /\ \A i \in 1..Len(s) :
             /\ s[i] \notin DOMAIN smallPtrs \cup bigPtrs \cup pending
             /\ s[i][1] \in heap'
             /\ s[i] \notin dirty'
             /\ \A y \in bigPtrs \cup pending : s[i][1] # y[1]
             /\ \A j \in 1..Len(s) : s[i] = s[j] => i = j
             /\ \A d \in DOMAIN freeList \ {c} : \A j \in 1..Len(freeList[d]) :
                    s[i] # freeList[d][j]
  BY <1>1, StockedUnused
<1>6. /\ DOMAIN freeList' = DOMAIN freeList \cup {c} /\ freeList'[c] = Tail(s)
      /\ \A d \in DOMAIN freeList : d # c => freeList'[d] = freeList[d]
  BY <1>1 DEF With
<1>7. /\ DOMAIN smallPtrs' = DOMAIN smallPtrs \cup {x} /\ smallPtrs'[x] = c
      /\ \A y \in DOMAIN smallPtrs : y # x => smallPtrs'[y] = smallPtrs[y]
  BY <1>1 DEF With
<1>8. /\ DOMAIN holder' = DOMAIN holder \cup {x} /\ holder'[x] = h
      /\ \A y \in DOMAIN holder : y # x => holder'[y] = holder[y]
  BY <1>1 DEF With
<1>9. freeList' = [d \in DOMAIN freeList' |-> freeList'[d]] /\ smallPtrs' = [y \in DOMAIN smallPtrs' |-> smallPtrs'[y]]
      /\ holder' = [y \in DOMAIN holder' |-> holder'[y]]
  BY <1>1 DEF With
<1> HIDE DEF s
<1>10. x \notin DOMAIN holder /\ x \notin dirty' /\ x[1] \in heap'
       /\ \A y \in bigPtrs \cup pending : x[1] # y[1]
  BY <1>3, <1>5 DEF MemInv, Listed
<1>11. ASSUME NEW y, IsFree(y)'
       PROVE  y # x /\ (IsFree(y) \/ \E i \in 2..Len(s) : y = s[i])
  <2>1. PICK d \in DOMAIN freeList' : \E i \in 1..Len(freeList'[d]) : freeList'[d][i] = y
    BY <1>11 DEF IsFree
  <2>2. CASE d = c
    <3>1. PICK i \in 1..Len(Tail(s)) : Tail(s)[i] = y
      BY <1>6, <2>1, <2>2
    <3>2. y = s[i + 1] /\ i + 1 \in 1..Len(s) /\ i + 1 # 1 /\ i + 1 \in 2..Len(s)
      BY <1>2, <1>4, <3>1
    <3>3. QED
      BY <1>3, <1>5, <3>2
  <2>3. CASE d # c
    <3>1. d \in DOMAIN freeList /\ freeList'[d] = freeList[d]
      BY <1>6, <2>3
    <3>2. PICK i \in 1..Len(freeList[d]) : freeList[d][i] = y
      BY <2>1, <3>1
    <3>3. IsFree(y)
      BY <3>1, <3>2 DEF IsFree
    <3>4. y # x
      BY <1>3, <1>5, <2>3, <3>1, <3>2
    <3>5. QED
      BY <3>3, <3>4
  <2>4. QED
    BY <2>2, <2>3
<1>12. MemTypeOK'
  <2>1. DOMAIN freeList' \subseteq SizeClasses
    BY <1>6 DEF MemInv, MemTypeOK
  <2>2. ASSUME NEW d \in DOMAIN freeList' PROVE freeList'[d] \in Seq(Pointers)
    <3>1. CASE d = c
      BY <1>4, <1>6, <3>1
    <3>2. CASE d # c
      BY <1>6, <3>2 DEF MemInv, MemTypeOK
    <3>3. QED
      BY <3>1, <3>2
  <2>3. freeList' \in [DOMAIN freeList' -> Seq(Pointers)]
    BY <1>9, <2>2
  <2>4. DOMAIN smallPtrs' \subseteq Pointers
    BY <1>3, <1>7 DEF MemInv, MemTypeOK
  <2>5. ASSUME NEW y \in DOMAIN smallPtrs' PROVE smallPtrs'[y] \in DOMAIN freeList'
    <3>1. CASE y = x
      BY <1>6, <1>7, <3>1
    <3>2. CASE y # x
      BY <1>6, <1>7, <3>2 DEF MemInv, MemTypeOK
    <3>3. QED
      BY <3>1, <3>2
  <2>6. smallPtrs' \in [DOMAIN smallPtrs' -> DOMAIN freeList']
    BY <1>9, <2>5
  <2>7. DOMAIN holder' \subseteq Pointers
    BY <1>3, <1>8 DEF MemInv, MemTypeOK
  <2>8. ASSUME NEW y \in DOMAIN holder' PROVE holder'[y] \in Holders
    <3>1. CASE y = x
      BY <1>8, <3>1
    <3>2. CASE y # x
      BY <1>8, <3>2 DEF MemInv, MemTypeOK
    <3>3. QED
      BY <3>1, <3>2
  <2>9. holder' \in [DOMAIN holder' -> Holders]
    BY <1>9, <2>8
  <2>10. QED
    BY <1>1, <1>5, <2>1, <2>3, <2>4, <2>6, <2>7, <2>9 DEF MemInv, MemTypeOK
<1>13. FreeApart'
  <2> SUFFICES ASSUME NEW d \in DOMAIN freeList', NEW e \in DOMAIN freeList',
                      NEW i \in 1..Len(freeList'[d]), NEW j \in 1..Len(freeList'[e]),
                      freeList'[d][i] = freeList'[e][j]
               PROVE  d = e /\ i = j
    BY DEF FreeApart
  <2>1. CASE d # c /\ e # c
    BY <1>6, <2>1 DEF MemInv, FreeApart
  <2>2. CASE d = c /\ e = c
    <3>1. i \in 1..Len(Tail(s)) /\ j \in 1..Len(Tail(s)) /\ Tail(s)[i] = Tail(s)[j]
      BY <1>6, <2>2
    <3>2. s[i + 1] = s[j + 1] /\ i + 1 \in 1..Len(s) /\ j + 1 \in 1..Len(s)
      BY <1>4, <3>1
    <3>3. i + 1 = j + 1
      BY <1>5, <3>2
    <3>4. QED
      BY <1>2, <1>4, <2>2, <3>1, <3>3
  <2>3. CASE d = c /\ e # c
    <3>1. i \in 1..Len(Tail(s)) /\ Tail(s)[i] = freeList[e][j] /\ e \in DOMAIN freeList \ {c}
          /\ j \in 1..Len(freeList[e])
      BY <1>6, <2>3
    <3>2. s[i + 1] = freeList[e][j] /\ i + 1 \in 1..Len(s)
      BY <1>4, <3>1
    <3>3. QED
      BY <1>5, <3>1, <3>2
  <2>4. CASE d # c /\ e = c
    <3>1. j \in 1..Len(Tail(s)) /\ Tail(s)[j] = freeList[d][i] /\ d \in DOMAIN freeList \ {c}
          /\ i \in 1..Len(freeList[d])
      BY <1>6, <2>4
    <3>2. s[j + 1] = freeList[d][i] /\ j + 1 \in 1..Len(s)
      BY <1>4, <3>1
    <3>3. QED
      BY <1>5, <3>1, <3>2
  <2>5. QED
    BY <2>1, <2>2, <2>3, <2>4
<1>14. ASSUME NEW y \in Pointers, IsFree(y)'
       PROVE  /\ y \notin DOMAIN smallPtrs' /\ y[1] \in heap' /\ y \notin dirty'
              /\ \A z \in bigPtrs \cup pending : y[1] # z[1]
  <2>1. CASE IsFree(y)
    <3>1. y \notin DOMAIN smallPtrs /\ y[1] \in heap /\ y \notin dirty
      BY <2>1 DEF MemInv, FreeUnused
    <3>2. \A z \in bigPtrs \cup pending : y[1] # z[1]
      BY <2>1 DEF MemInv, BigAlone
    <3>3. QED
      BY <1>5, <1>7, <1>11, <1>14, <3>1, <3>2
  <2>2. CASE \E i \in 2..Len(s) : y = s[i]
    <3>1. PICK i \in 2..Len(s) : y = s[i]
      BY <2>2
    <3>2. i \in 1..Len(s)
      BY <1>2, <3>1
    <3>3. QED
      BY <1>5, <1>7, <1>11, <1>14, <3>1, <3>2
  <2>3. QED
    BY <1>11, <1>14, <2>1, <2>2
<1>15. Listed' /\ UsedInHeap'
  <2>1. ASSUME NEW y \in DOMAIN smallPtrs' \cup bigPtrs' \cup pending' PROVE y[1] \in heap'
    BY <1>1, <1>5, <1>7, <1>10 DEF MemInv, UsedInHeap
  <2>2. Listed'
    BY <1>1, <1>7, <1>8 DEF MemInv, Listed
  <2>3. QED
    BY <2>1, <2>2 DEF UsedInHeap
<1>16. BigAlone'
  <2>1. ASSUME NEW y \in bigPtrs \cup pending, NEW z \in Pointers,
               z \in DOMAIN smallPtrs' \/ IsFree(z)'
        PROVE  z[1] # y[1]
    <3>1. CASE z = x
      BY <1>10, <3>1
    <3>2. CASE z \in DOMAIN smallPtrs
      BY <3>2 DEF MemInv, BigAlone
    <3>3. CASE IsFree(z)'
      BY <1>14, <3>3
    <3>4. QED
      BY <1>7, <2>1, <3>1, <3>2, <3>3
  <2>2. pending \cap dirty' = {} /\ bigPtrs \cap pending = {} /\ \A y \in bigPtrs \cup pending : y[2] = 1
    BY <1>5 DEF MemInv, BigAlone
  <2>3. bigPtrs' = bigPtrs /\ pending' = pending
    BY <1>1
  <2>4. QED
    BY <2>1, <2>2, <2>3 DEF BigAlone
<1>17. FreeUnused'
  BY <1>14 DEF FreeUnused
<1>18. QED
  BY <1>1, <1>3, <1>10, <1>12, <1>13, <1>15, <1>16, <1>17 DEF MemInv

\* A great request takes a block that was not in use, and zeroes it.
LEMMA NewBigStep ==
    ASSUME MemInv, NEW size, NewBig(size)
    PROVE  MemInv' /\ holder' = holder
<1>1. PICK b \in Blocks \ heap :
          /\ heap' = heap \cup {b}
          /\ pending' = pending \cup {<<b, 1>>}
          /\ dirty' = dirty \ {<<b, 1>>}
  BY DEF NewBig
<1>2. UNCHANGED <<freeList, smallPtrs, bigPtrs, holder>>
  BY DEF NewBig
<1>3. PICK x : x = <<b, 1>>
  OBVIOUS
<1>4. x \in Pointers /\ x[1] = b /\ x[2] = 1
  BY <1>3, MallocAssumption DEF Pointers, Places
<1>5. x \notin DOMAIN smallPtrs \cup bigPtrs \cup pending /\ ~IsFree(x)
  BY <1>1, <1>4, UnusedBlock
<1>6. MemTypeOK'
  BY <1>1, <1>2, <1>3, <1>4 DEF MemInv, MemTypeOK
<1>7. \A y : IsFree(y)' <=> IsFree(y)
  BY <1>2 DEF IsFree
<1>8. FreeApart' /\ Listed'
  BY <1>2 DEF MemInv, FreeApart, Listed
<1>9. FreeUnused'
  BY <1>1, <1>2, <1>7 DEF MemInv, FreeUnused
<1>10. UsedInHeap'
  BY <1>1, <1>2, <1>3, <1>4 DEF MemInv, UsedInHeap
<1>11. BigAlone'
  <2>1. pending' = pending \cup {x} /\ dirty' = dirty \ {x} /\ bigPtrs' = bigPtrs
        /\ smallPtrs' = smallPtrs
    BY <1>1, <1>2, <1>3
  <2>2. \A y \in Pointers : y \in DOMAIN smallPtrs \/ IsFree(y) => y[1] # x[1]
    BY <1>1, <1>4 DEF MemInv, UsedInHeap, FreeUnused
  <2>3. ASSUME NEW z \in bigPtrs' \cup pending', NEW y \in Pointers,
               y \in DOMAIN smallPtrs' \/ IsFree(y)'
        PROVE  y[1] # z[1]
    BY <1>7, <2>1, <2>2, <2>3 DEF MemInv, BigAlone
  <2>4. \A z \in bigPtrs' \cup pending' : z[2] = 1
    BY <1>4, <2>1 DEF MemInv, BigAlone
  <2>5. bigPtrs' \cap pending' = {} /\ pending' \cap dirty' = {}
    BY <1>5, <2>1 DEF MemInv, BigAlone
  <2>6. QED
    BY <2>3, <2>4, <2>5 DEF BigAlone
<1>12. QED
  BY <1>2, <1>6, <1>8, <1>9, <1>10, <1>11 DEF MemInv

\* The block is then filed, still zero, and somebody's.
LEMMA InsertBigStep ==
    ASSUME MemInv, NEW h \in Holders, NEW x, InsertBig(h, x)
    PROVE  /\ MemInv'
           /\ x \in Pointers /\ x \notin DOMAIN holder /\ x \notin dirty'
           /\ holder' = With(holder, x, h)
<1>1. /\ x \in pending /\ pending' = pending \ {x} /\ bigPtrs' = bigPtrs \cup {x}
      /\ holder' = With(holder, x, h)
      /\ heap' = heap /\ freeList' = freeList /\ smallPtrs' = smallPtrs /\ dirty' = dirty
  BY DEF InsertBig
<1>2. /\ DOMAIN holder' = DOMAIN holder \cup {x} /\ holder'[x] = h
      /\ \A y \in DOMAIN holder : y # x => holder'[y] = holder[y]
      /\ holder' = [y \in DOMAIN holder' |-> holder'[y]]
  BY <1>1 DEF With
<1>3. x \in Pointers
  BY <1>1 DEF MemInv, MemTypeOK
<1>4. x \notin DOMAIN smallPtrs /\ x \notin bigPtrs /\ x \notin dirty
  BY <1>1, <1>3 DEF MemInv, BigAlone
<1>5. \A y : IsFree(y)' <=> IsFree(y)
  BY <1>1 DEF IsFree
<1>6. MemTypeOK'
  <2>1. \A y \in DOMAIN holder' : holder'[y] \in Holders
    BY <1>2 DEF MemInv, MemTypeOK
  <2>2. DOMAIN holder' \subseteq Pointers
    BY <1>2, <1>3 DEF MemInv, MemTypeOK
  <2>3. holder' \in [DOMAIN holder' -> Holders]
    BY <1>2, <2>1
  <2>4. QED
    BY <1>1, <1>3, <2>2, <2>3 DEF MemInv, MemTypeOK
<1>7. FreeApart' /\ Listed' /\ FreeUnused' /\ UsedInHeap'
  BY <1>1, <1>2, <1>5 DEF MemInv, FreeApart, Listed, FreeUnused, UsedInHeap
<1>8. BigAlone'
  BY <1>1, <1>4, <1>5 DEF MemInv, BigAlone
<1>9. QED
  BY <1>1, <1>3, <1>4, <1>6, <1>7, <1>8 DEF MemInv, Listed

\* A chunk that somebody held goes back, zeroed, to its class.
LEMMA FreeSmallStep ==
    ASSUME MemInv, NEW x, NEW c, FreeSmall(x, c)
    PROVE  /\ MemInv'
           /\ x \in DOMAIN holder
           /\ holder' = Without(holder, x)
<1>1. /\ x \in DOMAIN smallPtrs /\ c = smallPtrs[x]
      /\ freeList' = [freeList EXCEPT ![c] = Append(@, x)]
      /\ smallPtrs' = Without(smallPtrs, x) /\ holder' = Without(holder, x)
      /\ dirty' = dirty \ {x}
      /\ heap' = heap /\ bigPtrs' = bigPtrs /\ pending' = pending
  BY DEF FreeSmall
<1>2. c \in DOMAIN freeList /\ freeList[c] \in Seq(Pointers) /\ x \in Pointers
  BY <1>1 DEF MemInv, MemTypeOK
<1>3. DOMAIN holder' = DOMAIN holder \ {x} /\ DOMAIN smallPtrs' = DOMAIN smallPtrs \ {x}
  BY <1>1 DEF Without
<1>4. \A y \in DOMAIN smallPtrs' : smallPtrs'[y] = smallPtrs[y]
  BY <1>1 DEF Without
<1>5. \A y \in DOMAIN holder' : holder'[y] = holder[y]
  BY <1>1 DEF Without
<1>6. holder' = [y \in DOMAIN holder' |-> holder'[y]]
  BY <1>1 DEF Without
<1>7. smallPtrs' = [y \in DOMAIN smallPtrs' |-> smallPtrs'[y]]
  BY <1>1 DEF Without
<1> DEFINE k == Len(freeList[c])
<1>8. /\ DOMAIN freeList' = DOMAIN freeList
      /\ freeList'[c] \in Seq(Pointers) /\ Len(freeList'[c]) = k + 1 /\ k \in Nat
      /\ freeList'[c][k + 1] = x /\ \A i \in 1..k : freeList'[c][i] = freeList[c][i]
      /\ \A d \in DOMAIN freeList : d # c => freeList'[d] = freeList[d]
  BY <1>1, <1>2
<1> HIDE DEF k
<1>9. x \in DOMAIN holder /\ x[1] \in heap /\ ~IsFree(x) /\ x \notin bigPtrs \cup pending
  BY <1>1, <1>2 DEF MemInv, Listed, UsedInHeap, FreeUnused, BigAlone
<1>10. ASSUME NEW y, IsFree(y)' PROVE IsFree(y) \/ y = x
  <2>1. PICK d \in DOMAIN freeList' : \E i \in 1..Len(freeList'[d]) : freeList'[d][i] = y
    BY <1>10 DEF IsFree
  <2>2. CASE d = c
    <3>1. PICK i \in 1..(k + 1) : freeList'[c][i] = y
      BY <1>8, <2>1, <2>2
    <3>2. CASE i = k + 1
      BY <1>8, <3>1, <3>2
    <3>3. CASE i # k + 1
      <4>1. i \in 1..k
        BY <1>8, <3>3
      <4>2. freeList[c][i] = y /\ i \in 1..Len(freeList[c])
        BY <1>8, <3>1, <4>1 DEF k
      <4>3. QED
        BY <1>2, <4>2 DEF IsFree
    <3>4. QED
      BY <3>2, <3>3
  <2>3. CASE d # c
    BY <1>8, <2>1, <2>3 DEF IsFree
  <2>4. QED
    BY <2>2, <2>3
<1>11. MemTypeOK'
  <2>1. ASSUME NEW d \in DOMAIN freeList' PROVE freeList'[d] \in Seq(Pointers)
    <3>1. CASE d = c
      BY <1>8, <3>1
    <3>2. CASE d # c
      BY <1>8, <3>2 DEF MemInv, MemTypeOK
    <3>3. QED
      BY <3>1, <3>2
  <2>2. freeList' = [d \in DOMAIN freeList' |-> freeList'[d]]
    BY <1>1
  <2>3. freeList' \in [DOMAIN freeList' -> Seq(Pointers)] /\ DOMAIN freeList' \subseteq SizeClasses
    BY <1>8, <2>1, <2>2 DEF MemInv, MemTypeOK
  <2>4. smallPtrs' \in [DOMAIN smallPtrs' -> DOMAIN freeList'] /\ DOMAIN smallPtrs' \subseteq Pointers
    <3>1. \A y \in DOMAIN smallPtrs' : smallPtrs'[y] \in DOMAIN freeList'
      BY <1>3, <1>4, <1>8 DEF MemInv, MemTypeOK
    <3>2. QED
      BY <1>3, <1>7, <3>1 DEF MemInv, MemTypeOK
  <2>5. holder' \in [DOMAIN holder' -> Holders] /\ DOMAIN holder' \subseteq Pointers
    <3>1. \A y \in DOMAIN holder' : holder'[y] \in Holders
      BY <1>3, <1>5 DEF MemInv, MemTypeOK
    <3>2. QED
      BY <1>3, <1>6, <3>1 DEF MemInv, MemTypeOK
  <2>6. QED
    BY <1>1, <2>3, <2>4, <2>5 DEF MemInv, MemTypeOK
<1>12. FreeApart'
  <2> SUFFICES ASSUME NEW d \in DOMAIN freeList', NEW e \in DOMAIN freeList',
                      NEW i \in 1..Len(freeList'[d]), NEW j \in 1..Len(freeList'[e]),
                      freeList'[d][i] = freeList'[e][j]
               PROVE  d = e /\ i = j
    BY DEF FreeApart
  <2> DEFINE Old(f, m) == f \in DOMAIN freeList /\ m \in 1..Len(freeList[f])
                          /\ freeList'[f][m] = freeList[f][m]
  <2>1. ASSUME NEW f \in DOMAIN freeList', NEW m \in 1..Len(freeList'[f])
        PROVE  Old(f, m) \/ (f = c /\ m = k + 1)
    <3>1. CASE f = c
      <4>1. CASE m = k + 1
        BY <3>1, <4>1
      <4>2. CASE m # k + 1
        <5>1. m \in 1..k
          BY <1>8, <3>1, <4>2
        <5>2. QED
          BY <1>2, <1>8, <3>1, <5>1 DEF k
      <4>3. QED
        BY <4>1, <4>2
    <3>2. CASE f # c
      BY <1>8, <3>2
    <3>3. QED
      BY <3>1, <3>2
  <2>2. ASSUME NEW f, NEW m, Old(f, m) PROVE freeList'[f][m] # x
    BY <1>9, <2>2 DEF IsFree
  <2>3. CASE Old(d, i) /\ Old(e, j)
    <3>1. /\ d \in DOMAIN freeList /\ e \in DOMAIN freeList
          /\ i \in 1..Len(freeList[d]) /\ j \in 1..Len(freeList[e])
          /\ freeList[d][i] = freeList[e][j]
      BY <2>3
    <3>2. FreeApart
      BY DEF MemInv
    <3>3. QED
      BY <3>1, <3>2 DEF FreeApart
  <2>4. CASE d = c /\ i = k + 1 /\ Old(e, j)
    BY <1>8, <2>2, <2>4
  <2>5. CASE e = c /\ j = k + 1 /\ Old(d, i)
    BY <1>8, <2>2, <2>5
  <2>6. CASE d = c /\ i = k + 1 /\ e = c /\ j = k + 1
    BY <2>6
  <2> HIDE DEF Old
  <2>7. QED
    BY <2>1, <2>3, <2>4, <2>5, <2>6
<1>13. FreeUnused'
  BY <1>1, <1>3, <1>9, <1>10 DEF MemInv, FreeUnused
<1>14. Listed' /\ UsedInHeap'
  <2>1. Listed'
    BY <1>1, <1>3, <1>9 DEF MemInv, Listed
  <2>2. QED
    BY <1>1, <1>3, <2>1 DEF MemInv, UsedInHeap
<1>15. BigAlone'
  <2>1. ASSUME NEW z \in bigPtrs \cup pending, NEW y \in Pointers,
               y \in DOMAIN smallPtrs' \/ IsFree(y)'
        PROVE  y[1] # z[1]
    BY <1>1, <1>2, <1>3, <1>10, <2>1 DEF MemInv, BigAlone
  <2>2. \A z \in bigPtrs \cup pending : z[2] = 1
    BY DEF MemInv, BigAlone
  <2>3. bigPtrs \cap pending = {} /\ pending \cap dirty' = {}
    BY <1>1 DEF MemInv, BigAlone
  <2>4. QED
    BY <1>1, <2>1, <2>2, <2>3 DEF BigAlone
<1>16. QED
  BY <1>1, <1>9, <1>11, <1>12, <1>13, <1>14, <1>15 DEF MemInv

\* A great block goes back to the heap: nothing else was in it.
LEMMA FreeBigStep ==
    ASSUME MemInv, NEW x, FreeBig(x)
    PROVE  /\ MemInv'
           /\ x \in DOMAIN holder
           /\ holder' = Without(holder, x)
<1>1. /\ x \in bigPtrs /\ heap' = heap \ {x[1]} /\ bigPtrs' = bigPtrs \ {x}
      /\ holder' = Without(holder, x) /\ x \notin DOMAIN smallPtrs
      /\ freeList' = freeList /\ smallPtrs' = smallPtrs /\ pending' = pending /\ dirty' = dirty
  BY DEF FreeBig
<1>2. DOMAIN holder' = DOMAIN holder \ {x} /\ \A y \in DOMAIN holder' : holder'[y] = holder[y]
  BY <1>1 DEF Without
<1>3. holder' = [y \in DOMAIN holder' |-> holder'[y]]
  BY <1>1 DEF Without
<1>4. \A y : IsFree(y)' <=> IsFree(y)
  BY <1>1 DEF IsFree
<1>5. x \in Pointers /\ x \in DOMAIN holder /\ x \notin pending
  BY <1>1 DEF MemInv, MemTypeOK, Listed, BigAlone
<1>6. ASSUME NEW y \in bigPtrs \cup pending, y # x PROVE y[1] # x[1]
  <2>1. y \in Pointers /\ x \in Pointers /\ y[2] = 1 /\ x[2] = 1
    BY <1>1, <1>5 DEF MemInv, MemTypeOK, BigAlone
  <2>2. y = <<y[1], y[2]>> /\ x = <<x[1], x[2]>>
    BY <2>1 DEF Pointers
  <2>3. QED
    BY <1>6, <2>1, <2>2
<1>7. \A y \in Pointers : y \in DOMAIN smallPtrs \/ IsFree(y) => y[1] # x[1]
  BY <1>1 DEF MemInv, BigAlone
<1>8. MemTypeOK'
  <2>1. \A y \in DOMAIN holder' : holder'[y] \in Holders
    BY <1>2 DEF MemInv, MemTypeOK
  <2>2. DOMAIN holder' \subseteq Pointers
    BY <1>2 DEF MemInv, MemTypeOK
  <2>3. holder' \in [DOMAIN holder' -> Holders]
    BY <1>3, <2>1
  <2>4. QED
    BY <1>1, <2>2, <2>3 DEF MemInv, MemTypeOK
<1>9. FreeApart'
  BY <1>1 DEF MemInv, FreeApart
<1>10. Listed'
  BY <1>1, <1>2 DEF MemInv, Listed
<1>11. FreeUnused'
  BY <1>1, <1>4, <1>7 DEF MemInv, FreeUnused
<1>12. UsedInHeap'
  <2>1. DOMAIN smallPtrs \subseteq Pointers
    BY DEF MemInv, MemTypeOK
  <2>2. QED
    BY <1>1, <1>5, <1>6, <1>7, <2>1 DEF MemInv, UsedInHeap
<1>13. BigAlone'
  BY <1>1, <1>4 DEF MemInv, BigAlone
<1>14. QED
  BY <1>1, <1>5, <1>8, <1>9, <1>10, <1>11, <1>12, <1>13 DEF MemInv

\* A write touches what its holder holds, which is neither free nor on its way.
LEMMA WriteStep ==
    ASSUME MemInv, NEW x, Write(x)
    PROVE  MemInv' /\ holder' = holder
<1>1. /\ x \in DOMAIN holder /\ dirty' = dirty \cup {x} /\ heap' = heap /\ freeList' = freeList
      /\ smallPtrs' = smallPtrs /\ bigPtrs' = bigPtrs /\ pending' = pending /\ holder' = holder
  BY DEF Write
<1>2. \A y : IsFree(y)' <=> IsFree(y)
  BY <1>1 DEF IsFree
<1>3. x \in Pointers /\ (x \in DOMAIN smallPtrs \/ x \in bigPtrs)
  BY <1>1 DEF MemInv, MemTypeOK, Listed
<1>4. ~IsFree(x) /\ x \notin pending
  <2>1. CASE x \in DOMAIN smallPtrs
    BY <1>3, <2>1 DEF MemInv, FreeUnused, BigAlone
  <2>2. CASE x \in bigPtrs
    BY <1>3, <2>2 DEF MemInv, BigAlone
  <2>3. QED
    BY <1>3, <2>1, <2>2
<1>5. MemTypeOK' /\ FreeApart' /\ Listed' /\ UsedInHeap'
  BY <1>1, <1>3 DEF MemInv, MemTypeOK, FreeApart, Listed, UsedInHeap
<1>6. FreeUnused'
  BY <1>1, <1>2, <1>4 DEF MemInv, FreeUnused
<1>7. BigAlone'
  BY <1>1, <1>2, <1>4 DEF MemInv, BigAlone
<1>8. QED
  BY <1>1, <1>5, <1>6, <1>7 DEF MemInv

\* Nothing changes where nothing is done.
LEMMA MemSame ==
    ASSUME MemInv, UNCHANGED memVars
    PROVE  MemInv' /\ holder' = holder
BY DEF MemInv, MemTypeOK, FreeApart, FreeUnused, Listed, UsedInHeap, BigAlone, IsFree, memVars

\* The invariant says that no memory has two users.
LEMMA MemSafe == MemInv => NoSharing
<1> SUFFICES ASSUME MemInv PROVE NoSharing
  OBVIOUS
<1>1. ASSUME NEW c \in DOMAIN freeList, NEW i \in DOMAIN freeList[c]
      PROVE  freeList[c][i] \notin DOMAIN holder
  <2>1. freeList[c] \in Seq(Pointers) /\ i \in 1..Len(freeList[c])
    BY DEF MemInv, MemTypeOK
  <2>2. freeList[c][i] \in Pointers /\ IsFree(freeList[c][i])
    BY <2>1 DEF IsFree
  <2>3. freeList[c][i] \notin DOMAIN smallPtrs
    BY <2>2 DEF MemInv, FreeUnused
  <2>4. freeList[c][i] \notin bigPtrs
    BY <2>2 DEF MemInv, BigAlone
  <2>5. QED
    BY <2>3, <2>4 DEF MemInv, Listed
<1>2. ASSUME NEW c \in DOMAIN freeList, NEW i \in DOMAIN freeList[c],
             NEW d \in DOMAIN freeList, NEW j \in DOMAIN freeList[d],
             freeList[c][i] = freeList[d][j]
      PROVE  c = d /\ i = j
  <2>1. i \in 1..Len(freeList[c]) /\ j \in 1..Len(freeList[d])
    BY DEF MemInv, MemTypeOK
  <2>2. QED
    BY <1>2, <2>1 DEF MemInv, FreeApart
<1>3. \A x \in Pointers : avail(x) <=> x \in DOMAIN holder
  BY DEF MemInv, Listed, avail
<1>4. QED
  BY <1>1, <1>2, <1>3 DEF NoSharing

-----------------------------------------------------------------------------
(***************************************************************************)
(* The queue                                                               *)
(***************************************************************************)
\* Thread t holds the memory at x.
Holds(t, x) == x \in DOMAIN holder /\ holder[x] = t

\* x is a node that a Push has and has not linked.
Private(x) == \E t \in Threads : pc[t] \in {"fill", "readTail", "link"} /\ n[t] = x

\* x is a node that a Pop has unlinked and not deleted.
Removed(x) == \E t \in Threads : pc[t] \in {"test", "swingBack", "finish"} /\ p[t] = x

\* x is in the chain that starts with _pHead.
Linked(x) ==
    \/ x = pHead
    \/ x \in Pointers /\ (\E t \in Threads : Holds(t, x)) /\ ~Private(x) /\ ~Removed(x)

\* A Pop has taken the only node, and _pTail is still on it.
Emptied == next[pHead] = Null /\ \E t \in Threads : pc[t] \in {"test", "swingBack"}

\* The node whose next the next Push writes.
LastNode == IF Emptied THEN pHead ELSE pTail

\* x was linked by a Push that has not swung _pTail to it.
Ahead(x) == \E t \in Threads : pc[t] = "swing" /\ n[t] = x

\* A Pop runs beside no other call.
Alone ==
    \A t \in Threads : pc[t] \in Popping =>
        \A u \in Threads : u # t => pc[u] = "idle"

\* The locals of a Push: its node is its own, and new until it is linked.
PushLocals ==
    \A t \in Threads :
        /\ pc[t] \in Pushing => n[t] \in Pointers /\ Holds(t, n[t])
        /\ pc[t] \in {"readTail", "link", "swing"} => next[n[t]] = Null
        /\ pc[t] \in {"link", "swing"} => p[t] \in Nodes /\ Linked(p[t])

\* The tail that a Push has read is the tail, or has a successor.
TailRead ==
    \A t \in Threads : pc[t] = "link" => p[t] = pTail \/ next[p[t]] # Null

\* A Push about to swing _pTail has put its node behind it, and the tail is
\* still the node that it read.
Swings ==
    \A t \in Threads : pc[t] = "swing" => p[t] = pTail /\ next[pTail] = n[t]

\* The locals of a Pop.
PopLocals ==
    \A t \in Threads :
        /\ pc[t] \in Popping => p[t] \in Pointers /\ \E u \in Threads : Holds(u, p[t])
        /\ pc[t] \in {"readNext", "take"} => next[pHead] = p[t]
        /\ pc[t] = "take" => q[t] = next[p[t]]
        /\ pc[t] = "test" /\ next[pHead] = Null => pTail = p[t]
        /\ pc[t] = "swingBack" => next[pHead] = Null /\ pTail = p[t]

\* The successor of a linked node is linked, and of no other.
Chained ==
    \A x \in Nodes : Linked(x) /\ next[x] # Null =>
        /\ next[x] # pHead /\ Linked(next[x])
        /\ \A y \in Nodes : Linked(y) /\ next[y] = next[x] => y = x

\* One linked node has no successor: the last, or the one that a Push has put
\* behind it.
OneEnd ==
    /\ Linked(LastNode)
    /\ \A x \in Nodes : Linked(x) =>
           (next[x] = Null <=> Ahead(x) \/ (x = LastNode /\ \A t \in Threads : pc[t] # "swing"))

ChainInv == Alone /\ PushLocals /\ TailRead /\ Swings /\ PopLocals /\ Chained /\ OneEnd

QueueInv == TypeOK /\ MemInv /\ ChainInv

\* A step that leaves the chain as it is.
Stays ==
    \A x \in Nodes : Linked(x) => Linked(x)' /\ next'[x] = next[x] /\ data'[x] = data[x]

\* A step that puts the node y behind the last.
Links(y) ==
    /\ y \in Pointers /\ Linked(y)' /\ next'[y] = Null
    /\ \A x \in Nodes : Linked(x) =>
           Linked(x)' /\ x # y /\ next'[x] = IF next[x] = Null THEN y ELSE next[x]
    /\ data' = data

\* A step that takes the first node away.
Unlinks ==
    /\ next[pHead] # Null /\ next'[pHead] = next[next[pHead]]
    /\ \A x \in Nodes : Linked(x) /\ x # next[pHead] =>
           Linked(x)' /\ (x # pHead => next'[x] = next[x])
    /\ data' = data

USE FreeQueueAssumption

\* While a Push is under way there is no Pop.
LEMMA NoPops ==
    ASSUME QueueInv, NEW t \in Threads, pc[t] \in Pushing
    PROVE  /\ \A u \in Threads : pc[u] \notin Popping
           /\ \A x : ~Removed(x)
           /\ ~Emptied /\ LastNode = pTail /\ pTail \in Nodes /\ Linked(pTail)
<1>1. ASSUME NEW u \in Threads, pc[u] \in Popping PROVE FALSE
  <2>1. u # t
    BY <1>1 DEF Pushing, Popping
  <2>2. pc[t] = "idle"
    BY <1>1, <2>1 DEF QueueInv, ChainInv, Alone
  <2>3. QED
    BY <2>2 DEF Pushing
<1>2. \A x : ~Removed(x)
  BY <1>1 DEF Removed, Popping
<1>3. ~Emptied
  BY <1>1 DEF Emptied, Popping
<1>4. LastNode = pTail
  BY <1>3 DEF LastNode
<1>5. pTail \in Nodes /\ Linked(pTail)
  BY <1>4 DEF QueueInv, ChainInv, OneEnd, TypeOK
<1>6. QED
  BY <1>1, <1>2, <1>3, <1>4, <1>5

\* While a Pop is under way there is no other call.
LEMMA NoPushes ==
    ASSUME QueueInv, NEW t \in Threads, pc[t] \in Popping
    PROVE  /\ \A u \in Threads : u # t => pc[u] = "idle"
           /\ \A u \in Threads : pc[u] \notin Pushing
           /\ \A x : ~Private(x) /\ ~Ahead(x)
           /\ \A x : Removed(x) <=> pc[t] \in {"test", "swingBack", "finish"} /\ x = p[t]
<1>1. \A u \in Threads : u # t => pc[u] = "idle"
  BY DEF QueueInv, ChainInv, Alone
<1>2. \A u \in Threads : pc[u] \notin Pushing
  BY <1>1 DEF Pushing, Popping
<1>3. \A x : ~Private(x) /\ ~Ahead(x)
  BY <1>2 DEF Private, Ahead, Pushing
<1>4. \A x : Removed(x) <=> pc[t] \in {"test", "swingBack", "finish"} /\ x = p[t]
  BY <1>1 DEF Removed
<1>5. QED
  BY <1>1, <1>2, <1>3, <1>4

\* What thread t does next changes, and nothing else of that kind.
LEMMA GoesFact ==
    ASSUME QueueInv, NEW t \in Threads, NEW from, NEW to, Goes(t, from, to)
    PROVE  /\ pc[t] = from /\ pc'[t] = to
           /\ \A u \in Threads : u # t => pc'[u] = pc[u]
           /\ to \in {"idle"} \cup Pushing \cup Popping =>
                  pc' \in [Threads -> {"idle"} \cup Pushing \cup Popping]
BY DEF QueueInv, TypeOK, Goes

\* Initially the chain is _pHead alone.
LEMMA InitQueue == Init => QueueInv
<1> SUFFICES ASSUME Init PROVE QueueInv
  OBVIOUS
<1>1. MemInv
  BY MemInitInv DEF Init
<1>2. TypeOK
  BY <1>1 DEF Init, TypeOK, MemInv, Nodes, pHead
<1>3. \A t \in Threads : pc[t] = "idle"
  BY DEF Init
<1>4. DOMAIN holder = {}
  BY DEF Init, MemInit
<1>5. \A x : Linked(x) <=> x = pHead
  BY <1>4 DEF Linked, Holds
<1>6. ~Emptied /\ LastNode = pHead /\ next[pHead] = Null /\ \A x : ~Ahead(x)
  BY <1>3 DEF Emptied, LastNode, Ahead, Init, Nodes, pHead
<1>7. Alone /\ PushLocals /\ TailRead /\ Swings /\ PopLocals
  BY <1>3 DEF Alone, PushLocals, TailRead, Swings, PopLocals, Pushing, Popping
<1>8. Chained /\ OneEnd
  BY <1>3, <1>5, <1>6 DEF Chained, OneEnd
<1>9. QED
  BY <1>1, <1>2, <1>7, <1>8 DEF QueueInv, ChainInv

\* Other users of the manager never hold a thread's node, so that the queue
\* does not change with them.
LEMMA ChainSame ==
    ASSUME QueueInv, MemInv', UNCHANGED queueVars,
           \A t \in Threads, x \in Pointers : Holds(t, x)' <=> Holds(t, x)
    PROVE  QueueInv' /\ Stays
<1>1. UNCHANGED <<pTail, next, data, pc, n, p, q, pushes>>
  BY DEF queueVars
<1>2. TypeOK'
  BY <1>1 DEF QueueInv, TypeOK, MemInv
<1>3. \A x : /\ Private(x)' <=> Private(x)
             /\ Removed(x)' <=> Removed(x)
             /\ Ahead(x)' <=> Ahead(x)
  BY <1>1 DEF Private, Removed, Ahead
<1>4. \A x : Linked(x)' <=> Linked(x)
  BY <1>3 DEF Linked
<1>5. (Emptied' <=> Emptied) /\ LastNode' = LastNode
  BY <1>1 DEF Emptied, LastNode
<1>6. Alone' /\ TailRead' /\ Swings'
  BY <1>1 DEF QueueInv, ChainInv, Alone, TailRead, Swings
<1>7. PushLocals'
  BY <1>1, <1>4 DEF QueueInv, ChainInv, PushLocals
<1>8. PopLocals'
  BY <1>1 DEF QueueInv, ChainInv, PopLocals
<1>9. Chained'
  BY <1>1, <1>4 DEF QueueInv, ChainInv, Chained
<1>10. OneEnd'
  BY <1>1, <1>3, <1>4, <1>5 DEF QueueInv, ChainInv, OneEnd
<1>11. Stays
  BY <1>1, <1>4 DEF Stays
<1>12. QED
  BY <1>2, <1>6, <1>7, <1>8, <1>9, <1>10, <1>11 DEF QueueInv, ChainInv

\* The steps of the other users.
LEMMA AppSteps ==
    ASSUME QueueInv,
           \/ \E size \in AppSizes : AppMalloc(size)
           \/ \E x \in Pointers : AppInsert(x) \/ AppWrite(x) \/ AppFree(x)
    PROVE  QueueInv' /\ Stays
<1>1. MemInv /\ "app" \in Holders /\ "app" \notin Threads
  BY DEF QueueInv
<1>2. ASSUME NEW x, x \notin DOMAIN holder, holder' = With(holder, x, "app")
      PROVE  \A t \in Threads, y \in Pointers : Holds(t, y)' <=> Holds(t, y)
  BY <1>1, <1>2 DEF With, Holds
<1>3. ASSUME NEW x, AppHolds(x), x \in DOMAIN holder, holder' = Without(holder, x)
      PROVE  \A t \in Threads, y \in Pointers : Holds(t, y)' <=> Holds(t, y)
  BY <1>1, <1>3 DEF Without, Holds, AppHolds
<1>4. holder' = holder => \A t \in Threads, y \in Pointers : Holds(t, y)' <=> Holds(t, y)
  BY DEF Holds
<1>5. ASSUME NEW size \in AppSizes, AppMalloc(size) PROVE QueueInv' /\ Stays
  <2>1. UNCHANGED queueVars
    BY <1>5 DEF AppMalloc
  <2>2. CASE \E x \in Pointers : MallocSmall("app", size, x)
    BY <1>1, <1>2, <2>1, <2>2, MallocSmallStep, ChainSame
  <2>3. CASE NewBig(size)
    BY <1>1, <1>4, <2>1, <2>3, NewBigStep, ChainSame
  <2>4. QED
    BY <1>5, <2>2, <2>3 DEF AppMalloc
<1>6. ASSUME NEW x \in Pointers, AppInsert(x) PROVE QueueInv' /\ Stays
  BY <1>1, <1>2, <1>6, InsertBigStep, ChainSame DEF AppInsert
<1>7. ASSUME NEW x \in Pointers, AppWrite(x) PROVE QueueInv' /\ Stays
  BY <1>1, <1>4, <1>7, WriteStep, ChainSame DEF AppWrite
<1>8. ASSUME NEW x \in Pointers, AppFree(x) PROVE QueueInv' /\ Stays
  <2>1. UNCHANGED queueVars /\ AppHolds(x)
    BY <1>8 DEF AppFree
  <2>2. CASE \E c \in SizeClasses : FreeSmall(x, c)
    BY <1>1, <1>3, <2>1, <2>2, FreeSmallStep, ChainSame
  <2>3. CASE FreeBig(x)
    BY <1>1, <1>3, <2>1, <2>3, FreeBigStep, ChainSame
  <2>4. CASE FreeUnknown(x)
    BY <1>1, <1>4, <2>1, <2>4, MemSame, ChainSame DEF FreeUnknown
  <2>5. QED
    BY <1>8, <2>2, <2>3, <2>4 DEF AppFree
<1>9. QED
  BY <1>5, <1>6, <1>7, <1>8

\* Where the manager is not called, threads hold what they held.
LEMMA HoldersSame ==
    ASSUME QueueInv, UNCHANGED memVars
    PROVE  MemInv' /\ \A t, x : Holds(t, x)' <=> Holds(t, x)
BY MemSame DEF QueueInv, Holds

-----------------------------------------------------------------------------
\* A Push gets a node that nobody holds, so that it is not in the chain.
LEMMA PushNewStep ==
    ASSUME QueueInv, NEW t \in Threads, PushNew(t)
    PROVE  QueueInv' /\ Stays
<1>1. /\ Goes(t, "idle", "fill") /\ PushMayBegin(t)
      /\ pushes < MaxPush /\ pushes' = pushes + 1
      /\ pTail' = pTail /\ next' = next /\ data' = data /\ p' = p /\ q' = q
  BY DEF PushNew
<1>2. PICK x \in Pointers : MallocSmall(t, NodeSize, x) /\ n' = [n EXCEPT ![t] = x]
  BY DEF PushNew
<1>3. /\ pc[t] = "idle" /\ pc'[t] = "fill" /\ \A u \in Threads : u # t => pc'[u] = pc[u]
      /\ pc' \in [Threads -> {"idle"} \cup Pushing \cup Popping]
  BY <1>1, GoesFact DEF Pushing
<1>4. MemInv' /\ x \notin DOMAIN holder /\ holder' = With(holder, x, t)
  <2>1. t \in Holders /\ MemInv
    BY DEF QueueInv
  <2>2. QED
    BY <1>2, <2>1, MallocSmallStep
<1>5. TypeOK'
  <2>1. n' \in [Threads -> Pointers \cup {Null}]
    BY <1>2 DEF QueueInv, TypeOK
  <2>2. pushes' \in 0..MaxPush
    BY <1>1 DEF QueueInv, TypeOK
  <2>3. QED
    BY <1>1, <1>3, <1>4, <2>1, <2>2 DEF QueueInv, TypeOK, MemInv
<1>6. n'[t] = x /\ \A u \in Threads : u # t => n'[u] = n[u]
  BY <1>2 DEF QueueInv, TypeOK
<1>7. /\ Holds(t, x)'
      /\ \A u, y : y # x => (Holds(u, y)' <=> Holds(u, y))
      /\ \A u : ~Holds(u, x)
  BY <1>4 DEF With, Holds
<1>8. \A u \in Threads : pc[u] \notin Popping /\ pc'[u] \notin Popping
  BY <1>1, <1>3 DEF PushMayBegin, Popping
<1>9. x # pHead /\ ~Linked(x) /\ \A u \in Threads : pc[u] \in Pushing => n[u] # x
  <2>1. x # pHead
    BY MallocAssumption DEF Pointers, Places, pHead
  <2>2. QED
    BY <1>7, <2>1 DEF Linked, QueueInv, ChainInv, PushLocals
<1>10. \A y : Linked(y)' <=> Linked(y)
  <2>1. \A y : ~Removed(y) /\ ~Removed(y)'
    BY <1>8 DEF Removed, Popping
  <2>2. \A y : y # x => (Private(y)' <=> Private(y))
    BY <1>3, <1>6 DEF Private
  <2>3. Private(x)'
    BY <1>3, <1>6 DEF Private
  <2>4. QED
    BY <1>7, <1>9, <2>1, <2>2, <2>3 DEF Linked
<1>11. /\ \A y : Ahead(y)' <=> Ahead(y)
       /\ LastNode' = LastNode
  <2>1. ~Emptied /\ ~Emptied'
    BY <1>8 DEF Emptied, Popping
  <2>2. \A y : Ahead(y)' <=> Ahead(y)
    BY <1>3, <1>6 DEF Ahead
  <2>3. QED
    BY <1>1, <2>1, <2>2 DEF LastNode
<1>12. Alone' /\ PopLocals'
  BY <1>8 DEF Alone, PopLocals, Popping
<1>13. PushLocals'
  <2> SUFFICES ASSUME NEW u \in Threads
               PROVE  /\ pc'[u] \in Pushing => n'[u] \in Pointers /\ Holds(u, n[u])'
                      /\ pc'[u] \in {"readTail", "link", "swing"} => next'[n'[u]] = Null
                      /\ pc'[u] \in {"link", "swing"} => p'[u] \in Nodes /\ Linked(p[u])'
    BY DEF PushLocals
  <2>1. CASE u = t
    BY <1>3, <1>6, <1>7, <2>1
  <2>2. CASE u # t
    <3>1. pc'[u] = pc[u] /\ n'[u] = n[u] /\ p'[u] = p[u] /\ next' = next
      BY <1>1, <1>3, <1>6, <2>2
    <3>2. /\ pc[u] \in Pushing => n[u] \in Pointers /\ Holds(u, n[u])
          /\ pc[u] \in {"readTail", "link", "swing"} => next[n[u]] = Null
          /\ pc[u] \in {"link", "swing"} => p[u] \in Nodes /\ Linked(p[u])
      BY DEF QueueInv, ChainInv, PushLocals
    <3>3. pc[u] \in Pushing => Holds(u, n[u])'
      BY <1>7, <1>9, <3>1, <3>2 DEF Holds
    <3>4. pc[u] \in {"link", "swing"} => Linked(p[u])'
      BY <1>1, <1>10, <3>1, <3>2
    <3>5. QED
      BY <3>1, <3>2, <3>3, <3>4
  <2>3. QED
    BY <2>1, <2>2
<1>14. TailRead' /\ Swings'
  BY <1>1, <1>3, <1>6 DEF QueueInv, ChainInv, TailRead, Swings
<1>15. Chained' /\ OneEnd'
  <2>1. Chained'
    BY <1>1, <1>10 DEF QueueInv, ChainInv, Chained
  <2>2. OneEnd'
    BY <1>1, <1>3, <1>10, <1>11 DEF QueueInv, ChainInv, OneEnd
  <2>3. QED
    BY <2>1, <2>2
<1>16. Stays
  BY <1>1, <1>10 DEF Stays
<1>17. QED
  BY <1>4, <1>5, <1>12, <1>13, <1>14, <1>15, <1>16 DEF QueueInv, ChainInv

\* The node is filled: it is not in the chain yet.
LEMMA PushFillStep ==
    ASSUME QueueInv, NEW t \in Threads, PushFill(t)
    PROVE  QueueInv' /\ Stays
<1>1. /\ Goes(t, "fill", "readTail") /\ Write(n[t])
      /\ data' = [data EXCEPT ![n[t]] = t] /\ next' = [next EXCEPT ![n[t]] = Null]
      /\ pTail' = pTail /\ n' = n /\ p' = p /\ q' = q /\ pushes' = pushes
  BY DEF PushFill
<1>2. /\ pc[t] = "fill" /\ pc'[t] = "readTail" /\ \A u \in Threads : u # t => pc'[u] = pc[u]
      /\ pc' \in [Threads -> {"idle"} \cup Pushing \cup Popping]
  BY <1>1, GoesFact DEF Pushing
<1>3. MemInv' /\ \A u, y : Holds(u, y)' <=> Holds(u, y)
  BY <1>1, WriteStep DEF QueueInv, Holds
<1>4. n[t] \in Nodes /\ n[t] # pHead /\ ~Linked(n[t]) /\ pHead \in Nodes
  <2>1. n[t] \in Pointers /\ Private(n[t])
    BY <1>2 DEF QueueInv, ChainInv, PushLocals, Pushing, Private
  <2>2. n[t] # pHead
    BY <2>1, MallocAssumption DEF Pointers, Places, pHead
  <2>3. QED
    BY <2>1, <2>2 DEF Linked, Nodes
<1>5. next'[n[t]] = Null /\ \A y \in Nodes : y # n[t] => next'[y] = next[y]
  BY <1>1, <1>4 DEF QueueInv, TypeOK
<1>6. TypeOK'
  <2>1. next' \in [Nodes -> Nodes \cup {Null}] /\ data' \in [Nodes -> Threads \cup {Null}]
    BY <1>1, <1>4 DEF QueueInv, TypeOK
  <2>2. QED
    BY <1>1, <1>2, <1>3, <2>1 DEF QueueInv, TypeOK, MemInv
<1>7. \A u \in Threads : pc[u] \notin Popping /\ pc'[u] \notin Popping
  BY <1>2, NoPops DEF Pushing, Popping
<1>8. \A y : Linked(y)' <=> Linked(y)
  <2>1. \A y : ~Removed(y) /\ ~Removed(y)'
    BY <1>7 DEF Removed, Popping
  <2>2. \A y : Private(y)' <=> Private(y)
    BY <1>1, <1>2 DEF Private
  <2>3. QED
    BY <1>3, <2>1, <2>2 DEF Linked
<1>9. /\ \A y : Ahead(y)' <=> Ahead(y)
      /\ LastNode' = LastNode /\ LastNode = pTail
  <2>1. ~Emptied /\ ~Emptied'
    BY <1>7 DEF Emptied, Popping
  <2>2. \A y : Ahead(y)' <=> Ahead(y)
    BY <1>1, <1>2 DEF Ahead
  <2>3. QED
    BY <1>1, <2>1, <2>2 DEF LastNode
<1>10. Alone' /\ PopLocals'
  BY <1>7 DEF Alone, PopLocals, Popping
<1>11. \A y \in Nodes : Linked(y) => next'[y] = next[y]
  BY <1>4, <1>5
<1>12. PushLocals'
  <2> SUFFICES ASSUME NEW u \in Threads
               PROVE  /\ pc'[u] \in Pushing => n'[u] \in Pointers /\ Holds(u, n[u])'
                      /\ pc'[u] \in {"readTail", "link", "swing"} => next'[n'[u]] = Null
                      /\ pc'[u] \in {"link", "swing"} => p'[u] \in Nodes /\ Linked(p[u])'
    BY DEF PushLocals
  <2>1. /\ pc[u] \in Pushing => n[u] \in Pointers /\ Holds(u, n[u])
        /\ pc[u] \in {"readTail", "link", "swing"} => next[n[u]] = Null
        /\ pc[u] \in {"link", "swing"} => p[u] \in Nodes /\ Linked(p[u])
    BY DEF QueueInv, ChainInv, PushLocals
  <2>2. pc'[u] \in Pushing => pc[u] \in Pushing
    BY <1>2 DEF Pushing
  <2>3. Holds(u, n[u])' <=> Holds(u, n[u])
    BY <1>1, <1>3 DEF Holds
  <2>4. Linked(p[u])' <=> Linked(p[u])
    BY <1>1, <1>8
  <2>5. pc'[u] \in {"readTail", "link", "swing"} => next'[n'[u]] = Null
    BY <1>1, <1>2, <1>5, <2>1 DEF Pushing, Nodes
  <2>6. QED
    BY <1>1, <1>2, <2>1, <2>2, <2>3, <2>4, <2>5
<1>13. TailRead'
  <2> SUFFICES ASSUME NEW u \in Threads, pc'[u] = "link"
               PROVE  p'[u] = pTail' \/ next'[p'[u]] # Null
    BY DEF TailRead
  <2>1. pc[u] = "link" /\ p[u] \in Nodes /\ Linked(p[u])
    BY <1>2 DEF QueueInv, ChainInv, PushLocals
  <2>2. QED
    BY <1>1, <1>11, <2>1 DEF QueueInv, ChainInv, TailRead
<1>14. Swings'
  <2> SUFFICES ASSUME NEW u \in Threads, pc'[u] = "swing"
               PROVE  p'[u] = pTail' /\ next'[pTail'] = n'[u]
    BY DEF Swings
  <2>1. pc[u] = "swing" /\ p[u] = pTail /\ next[pTail] = n[u] /\ pTail \in Nodes /\ Linked(pTail)
    BY <1>2, NoPops DEF QueueInv, ChainInv, Swings, Pushing
  <2>2. QED
    BY <1>1, <1>11, <2>1
<1>15. Chained'
  BY <1>8, <1>11 DEF QueueInv, ChainInv, Chained
<1>16. OneEnd'
  BY <1>2, <1>8, <1>9, <1>11 DEF QueueInv, ChainInv, OneEnd
<1>17. Stays
  <2>1. \A y \in Nodes : y # n[t] => data'[y] = data[y]
    BY <1>1 DEF QueueInv, TypeOK
  <2>2. QED
    BY <1>4, <1>8, <1>11, <2>1 DEF Stays
<1>18. QED
  BY <1>3, <1>6, <1>10, <1>12, <1>13, <1>14, <1>15, <1>16, <1>17 DEF QueueInv, ChainInv

\* _pTail is linked, and so is what a Push reads of it.
LEMMA PushReadTailStep ==
    ASSUME QueueInv, NEW t \in Threads, PushReadTail(t)
    PROVE  QueueInv' /\ Stays
<1>1. /\ Goes(t, "readTail", "link") /\ p' = [p EXCEPT ![t] = pTail]
      /\ pTail' = pTail /\ next' = next /\ data' = data /\ n' = n /\ q' = q /\ pushes' = pushes
      /\ UNCHANGED memVars
  BY DEF PushReadTail
<1>2. /\ pc[t] = "readTail" /\ pc'[t] = "link" /\ \A u \in Threads : u # t => pc'[u] = pc[u]
      /\ pc' \in [Threads -> {"idle"} \cup Pushing \cup Popping]
  BY <1>1, GoesFact DEF Pushing
<1>3. MemInv' /\ \A u, y : Holds(u, y)' <=> Holds(u, y)
  BY <1>1, HoldersSame
<1>4. pTail \in Nodes /\ Linked(pTail)
  BY <1>2, NoPops DEF Pushing
<1>5. p'[t] = pTail /\ \A u \in Threads : u # t => p'[u] = p[u]
  BY <1>1 DEF QueueInv, TypeOK
<1>6. TypeOK'
  <2>1. p' \in [Threads -> Nodes \cup {Null}]
    BY <1>1, <1>4 DEF QueueInv, TypeOK
  <2>2. QED
    BY <1>1, <1>2, <1>3, <2>1 DEF QueueInv, TypeOK, MemInv
<1>7. \A u \in Threads : pc[u] \notin Popping /\ pc'[u] \notin Popping
  BY <1>2, NoPops DEF Pushing, Popping
<1>8. \A y : Linked(y)' <=> Linked(y)
  <2>1. \A y : ~Removed(y) /\ ~Removed(y)'
    BY <1>7 DEF Removed, Popping
  <2>2. \A y : Private(y)' <=> Private(y)
    BY <1>1, <1>2 DEF Private
  <2>3. QED
    BY <1>3, <2>1, <2>2 DEF Linked
<1>9. /\ \A y : Ahead(y)' <=> Ahead(y)
      /\ LastNode' = LastNode
  <2>1. ~Emptied /\ ~Emptied'
    BY <1>7 DEF Emptied, Popping
  <2>2. \A y : Ahead(y)' <=> Ahead(y)
    BY <1>1, <1>2 DEF Ahead
  <2>3. QED
    BY <1>1, <2>1, <2>2 DEF LastNode
<1>10. Alone' /\ PopLocals'
  BY <1>7 DEF Alone, PopLocals, Popping
<1>11. PushLocals'
  <2> SUFFICES ASSUME NEW u \in Threads
               PROVE  /\ pc'[u] \in Pushing => n'[u] \in Pointers /\ Holds(u, n[u])'
                      /\ pc'[u] \in {"readTail", "link", "swing"} => next'[n'[u]] = Null
                      /\ pc'[u] \in {"link", "swing"} => p'[u] \in Nodes /\ Linked(p[u])'
    BY DEF PushLocals
  <2>1. /\ pc[u] \in Pushing => n[u] \in Pointers /\ Holds(u, n[u])
        /\ pc[u] \in {"readTail", "link", "swing"} => next[n[u]] = Null
        /\ pc[u] \in {"link", "swing"} => p[u] \in Nodes /\ Linked(p[u])
    BY DEF QueueInv, ChainInv, PushLocals
  <2>2. /\ pc'[u] \in Pushing => pc[u] \in Pushing
        /\ pc'[u] \in {"readTail", "link", "swing"} => pc[u] \in {"readTail", "link", "swing"}
        /\ pc'[u] \in {"link", "swing"} => u = t \/ pc[u] \in {"link", "swing"}
    BY <1>2 DEF Pushing
  <2>3. Holds(u, n[u])' <=> Holds(u, n[u])
    BY <1>1, <1>3 DEF Holds
  <2>4. pc'[u] \in {"link", "swing"} => p'[u] \in Nodes /\ Linked(p[u])'
    <3>1. CASE u = t
      BY <1>4, <1>5, <1>8, <3>1
    <3>2. CASE u # t
      BY <1>5, <1>8, <2>1, <2>2, <3>2
    <3>3. QED
      BY <3>1, <3>2
  <2>5. QED
    BY <1>1, <2>1, <2>2, <2>3, <2>4
<1>12. TailRead' /\ Swings'
  BY <1>1, <1>2, <1>5 DEF QueueInv, ChainInv, TailRead, Swings
<1>13. Chained'
  BY <1>1, <1>8 DEF QueueInv, ChainInv, Chained
<1>14. OneEnd'
  BY <1>1, <1>2, <1>8, <1>9 DEF QueueInv, ChainInv, OneEnd
<1>15. Stays
  BY <1>1, <1>8 DEF Stays
<1>16. QED
  BY <1>3, <1>6, <1>10, <1>11, <1>12, <1>13, <1>14, <1>15 DEF QueueInv, ChainInv

\* A Push that finds a successor begins again.
LEMMA PushRetryStep ==
    ASSUME QueueInv, NEW t \in Threads, PushRetry(t)
    PROVE  QueueInv' /\ Stays
<1>1. /\ Goes(t, "link", "readTail") /\ p' = p
      /\ pTail' = pTail /\ next' = next /\ data' = data /\ n' = n /\ q' = q /\ pushes' = pushes
      /\ UNCHANGED memVars
  BY DEF PushRetry
<1>2. /\ pc[t] = "link" /\ pc'[t] = "readTail" /\ \A u \in Threads : u # t => pc'[u] = pc[u]
      /\ pc' \in [Threads -> {"idle"} \cup Pushing \cup Popping]
  BY <1>1, GoesFact DEF Pushing
<1>3. MemInv' /\ \A u, y : Holds(u, y)' <=> Holds(u, y)
  BY <1>1, HoldersSame
<1>4. TypeOK'
  BY <1>1, <1>2, <1>3 DEF QueueInv, TypeOK, MemInv
<1>5. \A u \in Threads : pc[u] \notin Popping /\ pc'[u] \notin Popping
  BY <1>2, NoPops DEF Pushing, Popping
<1>6. \A y : Linked(y)' <=> Linked(y)
  <2>1. \A y : ~Removed(y) /\ ~Removed(y)'
    BY <1>5 DEF Removed, Popping
  <2>2. \A y : Private(y)' <=> Private(y)
    BY <1>1, <1>2 DEF Private
  <2>3. QED
    BY <1>3, <2>1, <2>2 DEF Linked
<1>7. /\ \A y : Ahead(y)' <=> Ahead(y)
      /\ LastNode' = LastNode
  <2>1. ~Emptied /\ ~Emptied'
    BY <1>5 DEF Emptied, Popping
  <2>2. \A y : Ahead(y)' <=> Ahead(y)
    BY <1>1, <1>2 DEF Ahead
  <2>3. QED
    BY <1>1, <2>1, <2>2 DEF LastNode
<1>8. Alone' /\ PopLocals'
  BY <1>5 DEF Alone, PopLocals, Popping
<1>9. PushLocals'
  <2> SUFFICES ASSUME NEW u \in Threads
               PROVE  /\ pc'[u] \in Pushing => n'[u] \in Pointers /\ Holds(u, n[u])'
                      /\ pc'[u] \in {"readTail", "link", "swing"} => next'[n'[u]] = Null
                      /\ pc'[u] \in {"link", "swing"} => p'[u] \in Nodes /\ Linked(p[u])'
    BY DEF PushLocals
  <2>1. /\ pc[u] \in Pushing => n[u] \in Pointers /\ Holds(u, n[u])
        /\ pc[u] \in {"readTail", "link", "swing"} => next[n[u]] = Null
        /\ pc[u] \in {"link", "swing"} => p[u] \in Nodes /\ Linked(p[u])
    BY DEF QueueInv, ChainInv, PushLocals
  <2>2. /\ pc'[u] \in Pushing => pc[u] \in Pushing
        /\ pc'[u] \in {"readTail", "link", "swing"} => pc[u] \in {"readTail", "link", "swing"}
        /\ pc'[u] \in {"link", "swing"} => pc[u] \in {"link", "swing"}
    BY <1>2 DEF Pushing
  <2>3. (Holds(u, n[u])' <=> Holds(u, n[u])) /\ (Linked(p[u])' <=> Linked(p[u]))
    BY <1>1, <1>3, <1>6 DEF Holds
  <2>4. QED
    BY <1>1, <2>1, <2>2, <2>3
<1>10. TailRead' /\ Swings'
  BY <1>1, <1>2 DEF QueueInv, ChainInv, TailRead, Swings
<1>11. Chained'
  BY <1>1, <1>6 DEF QueueInv, ChainInv, Chained
<1>12. OneEnd'
  BY <1>1, <1>2, <1>6, <1>7 DEF QueueInv, ChainInv, OneEnd
<1>13. Stays
  BY <1>1, <1>6 DEF Stays
<1>14. QED
  BY <1>3, <1>4, <1>8, <1>9, <1>10, <1>11, <1>12, <1>13 DEF QueueInv, ChainInv

\* The compare-and-swap that succeeds is on the tail: of the nodes that were a
\* tail only the last has no successor, and no other Push is about to swing.
LEMMA PushLinkStep ==
    ASSUME QueueInv, NEW t \in Threads, PushLink(t)
    PROVE  QueueInv' /\ \E y : y = n[t] /\ Links(y)
<1>1. /\ Goes(t, "link", "swing") /\ next[p[t]] = Null /\ next' = [next EXCEPT ![p[t]] = n[t]]
      /\ pTail' = pTail /\ data' = data /\ n' = n /\ p' = p /\ q' = q /\ pushes' = pushes
      /\ UNCHANGED memVars
  BY DEF PushLink
<1>2. /\ pc[t] = "link" /\ pc'[t] = "swing" /\ \A u \in Threads : u # t => pc'[u] = pc[u]
      /\ pc' \in [Threads -> {"idle"} \cup Pushing \cup Popping]
  BY <1>1, GoesFact DEF Pushing
<1>3. MemInv' /\ \A u, y : Holds(u, y)' <=> Holds(u, y)
  BY <1>1, HoldersSame
<1>4. p[t] = pTail /\ pTail \in Nodes /\ Linked(pTail)
  BY <1>1, <1>2 DEF QueueInv, ChainInv, TailRead, PushLocals
<1>5. /\ n[t] \in Pointers /\ Holds(t, n[t]) /\ next[n[t]] = Null
      /\ n[t] # pHead /\ n[t] \in Nodes /\ Private(n[t]) /\ ~Linked(n[t]) /\ n[t] # pTail
      /\ n[t] # Null
  <2>1. n[t] \in Pointers /\ Holds(t, n[t]) /\ next[n[t]] = Null
    BY <1>2 DEF QueueInv, ChainInv, PushLocals, Pushing
  <2>2. n[t] # pHead /\ n[t] # Null
    BY <2>1, MallocAssumption DEF Pointers, Places, pHead
  <2>3. Private(n[t])
    BY <1>2 DEF Private
  <2>4. QED
    BY <1>4, <2>1, <2>2, <2>3 DEF Linked, Nodes
<1>6. /\ next'[pTail] = n[t] /\ next[pTail] = Null
      /\ \A y \in Nodes : y # pTail => next'[y] = next[y]
  BY <1>1, <1>4 DEF QueueInv, TypeOK
<1>7. TypeOK'
  <2>1. next' \in [Nodes -> Nodes \cup {Null}]
    BY <1>1, <1>5 DEF QueueInv, TypeOK
  <2>2. QED
    BY <1>1, <1>2, <1>3, <2>1 DEF QueueInv, TypeOK, MemInv
<1>8. \A u \in Threads : pc[u] \notin Popping /\ pc'[u] \notin Popping
  BY <1>2, NoPops DEF Pushing, Popping
<1>9. \A u \in Threads : pc[u] # "swing"
  <2>1. ASSUME NEW u \in Threads, pc[u] = "swing" PROVE FALSE
    <3>1. next[pTail] = n[u] /\ n[u] \in Pointers
      BY <2>1 DEF QueueInv, ChainInv, Swings, PushLocals, Pushing
    <3>2. QED
      BY <1>6, <3>1
  <2>2. QED
    BY <2>1
<1>10. \A u \in Threads : u # t /\ pc[u] \in Pushing => n[u] # n[t]
  BY <1>5 DEF QueueInv, ChainInv, PushLocals, Holds
<1>11. \A y : Linked(y)' <=> Linked(y) \/ y = n[t]
  <2>1. \A y : ~Removed(y) /\ ~Removed(y)'
    BY <1>8 DEF Removed, Popping
  <2>2. \A y : Private(y)' <=> Private(y) /\ y # n[t]
    BY <1>1, <1>2, <1>10 DEF Private, Pushing
  <2>3. QED
    BY <1>3, <1>5, <2>1, <2>2 DEF Linked
<1>12. \A y : Ahead(y)' <=> y = n[t]
  BY <1>1, <1>2, <1>9 DEF Ahead
<1>13. LastNode' = pTail /\ LastNode = pTail
  <2>1. ~Emptied /\ ~Emptied'
    BY <1>8 DEF Emptied, Popping
  <2>2. QED
    BY <1>1, <2>1 DEF LastNode
<1>14. Alone' /\ PopLocals'
  BY <1>8 DEF Alone, PopLocals, Popping
<1>15. PushLocals'
  <2> SUFFICES ASSUME NEW u \in Threads
               PROVE  /\ pc'[u] \in Pushing => n'[u] \in Pointers /\ Holds(u, n[u])'
                      /\ pc'[u] \in {"readTail", "link", "swing"} => next'[n'[u]] = Null
                      /\ pc'[u] \in {"link", "swing"} => p'[u] \in Nodes /\ Linked(p[u])'
    BY DEF PushLocals
  <2>1. /\ pc[u] \in Pushing => n[u] \in Pointers /\ Holds(u, n[u])
        /\ pc[u] \in {"readTail", "link", "swing"} => next[n[u]] = Null
        /\ pc[u] \in {"link", "swing"} => p[u] \in Nodes /\ Linked(p[u])
    BY DEF QueueInv, ChainInv, PushLocals
  <2>2. /\ pc'[u] \in Pushing => pc[u] \in Pushing
        /\ pc'[u] \in {"readTail", "link", "swing"} => pc[u] \in {"readTail", "link"}
        /\ pc'[u] \in {"link", "swing"} => pc[u] \in {"link", "swing"}
    BY <1>2, <1>9 DEF Pushing
  <2>3. (Holds(u, n[u])' <=> Holds(u, n[u])) /\ (Linked(p[u]) => Linked(p[u])')
    BY <1>1, <1>3, <1>11 DEF Holds
  <2>4. ASSUME pc[u] \in {"readTail", "link"} PROVE n[u] # pTail /\ n[u] \in Nodes
    <3>1. n[u] \in Pointers /\ Holds(u, n[u])
      BY <2>1, <2>4 DEF Pushing
    <3>2. n[u] # pTail
      <4>1. Private(n[u])
        BY <2>4 DEF Private
      <4>2. n[u] # pHead
        BY <3>1, MallocAssumption DEF Pointers, Places, pHead
      <4>3. QED
        BY <1>4, <4>1, <4>2 DEF Linked
    <3>3. QED
      BY <3>1, <3>2 DEF Nodes
  <2>5. QED
    BY <1>1, <1>6, <2>1, <2>2, <2>3, <2>4
<1>16. TailRead'
  <2> SUFFICES ASSUME NEW u \in Threads, pc'[u] = "link"
               PROVE  p'[u] = pTail' \/ next'[p'[u]] # Null
    BY DEF TailRead
  <2>1. pc[u] = "link" /\ p[u] \in Nodes
    BY <1>2 DEF QueueInv, ChainInv, PushLocals
  <2>2. QED
    BY <1>1, <1>6, <2>1 DEF QueueInv, ChainInv, TailRead
<1>17. Swings'
  BY <1>1, <1>2, <1>4, <1>6, <1>9 DEF Swings
<1>18. Chained'
  <2> SUFFICES ASSUME NEW x \in Nodes, Linked(x)', next'[x] # Null
               PROVE  /\ next'[x] # pHead /\ Linked(next[x])'
                      /\ \A y \in Nodes : Linked(y)' /\ next'[y] = next'[x] => y = x
    BY DEF Chained
  <2>1. next'[n[t]] = Null
    BY <1>5, <1>6
  <2>2. Linked(x) /\ x # n[t]
    BY <1>11, <2>1
  <2>3. \A y \in Nodes : Linked(y) /\ y # pTail => next'[y] = next[y] /\ next[y] # n[t]
    BY <1>5, <1>6 DEF QueueInv, ChainInv, Chained
  <2>4. CASE x = pTail
    <3>1. next'[x] = n[t]
      BY <1>6, <2>4
    <3>2. \A y \in Nodes : Linked(y)' /\ next'[y] = n[t] => y = x
      BY <1>5, <1>11, <2>1, <2>3, <2>4
    <3>3. Linked(next[x])'
      BY <1>11, <3>1
    <3>4. QED
      BY <1>5, <3>1, <3>2, <3>3
  <2>5. CASE x # pTail
    <3>1. next'[x] = next[x] /\ next[x] # Null /\ next[x] # n[t]
      BY <2>2, <2>3, <2>5
    <3>2. next[x] # pHead /\ Linked(next[x]) /\ \A y \in Nodes : Linked(y) /\ next[y] = next[x] => y = x
      BY <2>2, <3>1 DEF QueueInv, ChainInv, Chained
    <3>3. Linked(next[x])'
      BY <1>11, <3>1, <3>2
    <3>4. ASSUME NEW y \in Nodes, Linked(y)', next'[y] = next[x] PROVE y = x
      <4>1. y # n[t] /\ y # pTail
        BY <1>6, <2>1, <3>1, <3>4
      <4>2. Linked(y) /\ next[y] = next[x]
        BY <1>6, <1>11, <3>4, <4>1
      <4>3. QED
        BY <3>2, <4>2
    <3>5. QED
      BY <3>1, <3>2, <3>3, <3>4
  <2>6. QED
    BY <2>4, <2>5
<1>19. OneEnd'
  <2>1. Linked(LastNode)'
    BY <1>4, <1>11, <1>13
  <2>2. ASSUME NEW x \in Nodes, Linked(x)'
        PROVE  next'[x] = Null <=> x = n[t]
    <3>1. CASE x = n[t]
      BY <1>5, <1>6, <3>1
    <3>2. CASE x = pTail
      BY <1>5, <1>6, <3>2
    <3>3. CASE x # n[t] /\ x # pTail
      <4>1. Linked(x) /\ next'[x] = next[x] /\ ~Ahead(x)
        BY <1>6, <1>9, <1>11, <2>2, <3>3 DEF Ahead
      <4>2. next[x] # Null
        BY <1>13, <3>3, <4>1 DEF QueueInv, ChainInv, OneEnd
      <4>3. QED
        BY <3>3, <4>1, <4>2
    <3>4. QED
      BY <3>1, <3>2, <3>3
  <2>3. QED
    BY <1>2, <1>12, <2>1, <2>2 DEF OneEnd
<1>20. \E y : y = n[t] /\ Links(y)
  <2>1. PICK y : y = n[t]
    OBVIOUS
  <2>2. y \in Pointers /\ Linked(y)' /\ next'[y] = Null
    BY <1>5, <1>6, <1>11, <2>1
  <2>3. ASSUME NEW x \in Nodes, Linked(x)
        PROVE  Linked(x)' /\ x # y /\ next'[x] = IF next[x] = Null THEN y ELSE next[x]
    <3>1. next[x] = Null <=> x = pTail
      BY <1>6, <1>9, <1>13, <2>3 DEF QueueInv, ChainInv, OneEnd, Ahead
    <3>2. QED
      BY <1>5, <1>6, <1>11, <2>1, <2>3, <3>1
  <2>4. QED
    BY <1>1, <2>1, <2>2, <2>3 DEF Links
<1>21. QED
  BY <1>3, <1>7, <1>14, <1>15, <1>16, <1>17, <1>18, <1>19, <1>20 DEF QueueInv, ChainInv

\* The swing of _pTail finds it where the Push read it, and moves it to the end.
LEMMA PushSwingStep ==
    ASSUME QueueInv, NEW t \in Threads, PushSwing(t)
    PROVE  QueueInv' /\ Stays
<1>1. /\ Goes(t, "swing", "idle") /\ pTail' = (IF pTail = p[t] THEN n[t] ELSE pTail)
      /\ next' = next /\ data' = data /\ pushes' = pushes /\ Returns(t)
      /\ UNCHANGED memVars
  BY DEF PushSwing
<1>2. /\ pc[t] = "swing" /\ pc'[t] = "idle" /\ \A u \in Threads : u # t => pc'[u] = pc[u]
      /\ pc' \in [Threads -> {"idle"} \cup Pushing \cup Popping]
  BY <1>1, GoesFact
<1>3. MemInv' /\ \A u, y : Holds(u, y)' <=> Holds(u, y)
  BY <1>1, HoldersSame
<1>4. /\ n[t] \in Pointers /\ Holds(t, n[t]) /\ next[n[t]] = Null /\ n[t] \in Nodes
      /\ p[t] = pTail /\ next[pTail] = n[t] /\ n[t] # Null
  BY <1>2 DEF QueueInv, ChainInv, PushLocals, Swings, Pushing, Nodes
<1>5. pTail' = n[t]
  BY <1>1, <1>4
<1>6. \A u \in Threads : u # t => n'[u] = n[u] /\ p'[u] = p[u] /\ q'[u] = q[u]
  BY <1>1 DEF Returns, QueueInv, TypeOK
<1>7. TypeOK'
  <2>1. /\ n' \in [Threads -> Pointers \cup {Null}] /\ p' \in [Threads -> Nodes \cup {Null}]
        /\ q' \in [Threads -> Nodes \cup {Null}]
    BY <1>1 DEF QueueInv, TypeOK, Returns
  <2>2. QED
    BY <1>1, <1>2, <1>3, <1>4, <1>5, <2>1 DEF QueueInv, TypeOK, MemInv
<1>8. \A u \in Threads : pc[u] \notin Popping /\ pc'[u] \notin Popping
  BY <1>2, NoPops DEF Pushing, Popping
<1>9. pTail \in Nodes /\ Linked(pTail)
  BY <1>2, NoPops DEF Pushing
<1>10. \A u \in Threads : u # t => pc[u] # "swing"
  BY <1>4 DEF QueueInv, ChainInv, Swings, PushLocals, Pushing, Holds
<1>11. \A y : Linked(y)' <=> Linked(y)
  <2>1. \A y : ~Removed(y) /\ ~Removed(y)'
    BY <1>8 DEF Removed, Popping
  <2>2. \A y : Private(y)' <=> Private(y)
    BY <1>2, <1>6 DEF Private
  <2>3. QED
    BY <1>3, <2>1, <2>2 DEF Linked
<1>12. (\A y : ~Ahead(y)') /\ (\A y : Ahead(y) <=> y = n[t])
  BY <1>2, <1>10 DEF Ahead
<1>13. LastNode' = n[t]
  <2>1. ~Emptied'
    BY <1>8 DEF Emptied, Popping
  <2>2. QED
    BY <1>5, <2>1 DEF LastNode
<1>14. Linked(n[t])
  BY <1>4, <1>9 DEF QueueInv, ChainInv, Chained
<1>15. Alone' /\ PopLocals'
  BY <1>8 DEF Alone, PopLocals, Popping
<1>16. PushLocals'
  <2> SUFFICES ASSUME NEW u \in Threads
               PROVE  /\ pc'[u] \in Pushing => n'[u] \in Pointers /\ Holds(u, n[u])'
                      /\ pc'[u] \in {"readTail", "link", "swing"} => next'[n'[u]] = Null
                      /\ pc'[u] \in {"link", "swing"} => p'[u] \in Nodes /\ Linked(p[u])'
    BY DEF PushLocals
  <2>1. CASE u = t
    BY <1>2, <2>1 DEF Pushing
  <2>2. CASE u # t
    <3>1. pc'[u] = pc[u] /\ n'[u] = n[u] /\ p'[u] = p[u]
      BY <1>2, <1>6, <2>2
    <3>2. /\ pc[u] \in Pushing => n[u] \in Pointers /\ Holds(u, n[u])
          /\ pc[u] \in {"readTail", "link", "swing"} => next[n[u]] = Null
          /\ pc[u] \in {"link", "swing"} => p[u] \in Nodes /\ Linked(p[u])
      BY DEF QueueInv, ChainInv, PushLocals
    <3>3. (Holds(u, n[u])' <=> Holds(u, n[u])) /\ (Linked(p[u])' <=> Linked(p[u]))
      BY <1>3, <1>11, <3>1 DEF Holds
    <3>4. QED
      BY <1>1, <3>1, <3>2, <3>3
  <2>3. QED
    BY <2>1, <2>2
<1>17. TailRead'
  <2> SUFFICES ASSUME NEW u \in Threads, pc'[u] = "link"
               PROVE  p'[u] = pTail' \/ next'[p'[u]] # Null
    BY DEF TailRead
  <2>1. u # t /\ pc[u] = "link" /\ p'[u] = p[u]
    BY <1>2, <1>6
  <2>2. p[u] = pTail \/ next[p[u]] # Null
    BY <2>1 DEF QueueInv, ChainInv, TailRead
  <2>3. QED
    BY <1>1, <1>4, <2>1, <2>2
<1>18. Swings'
  BY <1>2, <1>10 DEF Swings
<1>19. Chained'
  BY <1>1, <1>11 DEF QueueInv, ChainInv, Chained
<1>20. OneEnd'
  <2>1. Linked(LastNode)'
    BY <1>11, <1>13, <1>14
  <2>2. ASSUME NEW x \in Nodes, Linked(x)'
        PROVE  next'[x] = Null <=> x = n[t]
    <3>1. Linked(x) /\ next'[x] = next[x]
      BY <1>1, <1>11, <2>2
    <3>2. next[x] = Null <=> Ahead(x)
      BY <1>2, <3>1 DEF QueueInv, ChainInv, OneEnd
    <3>3. QED
      BY <1>12, <3>1, <3>2
  <2>3. \A u \in Threads : pc'[u] # "swing"
    BY <1>2, <1>10
  <2>4. QED
    BY <1>12, <1>13, <2>1, <2>2, <2>3 DEF OneEnd
<1>21. Stays
  BY <1>1, <1>11 DEF Stays
<1>22. QED
  BY <1>3, <1>7, <1>15, <1>16, <1>17, <1>18, <1>19, <1>20, <1>21 DEF QueueInv, ChainInv

-----------------------------------------------------------------------------
\* A Pop that finds a node finds a linked one, which a thread holds.
LEMMA PopBeginStep ==
    ASSUME QueueInv, NEW t \in Threads, PopBegin(t)
    PROVE  QueueInv' /\ Stays
<1>1. /\ Goes(t, "idle", "readNext") /\ PopMayBegin(t) /\ next[pHead] # Null
      /\ p' = [p EXCEPT ![t] = next[pHead]]
      /\ pTail' = pTail /\ next' = next /\ data' = data /\ n' = n /\ q' = q /\ pushes' = pushes
      /\ UNCHANGED memVars
  BY DEF PopBegin
<1>2. /\ pc'[t] = "readNext" /\ \A u \in Threads : pc[u] = "idle" /\ (u # t => pc'[u] = "idle")
      /\ pc' \in [Threads -> {"idle"} \cup Pushing \cup Popping]
  BY <1>1, GoesFact DEF Popping, PopMayBegin
<1>3. MemInv' /\ \A u, y : Holds(u, y)' <=> Holds(u, y)
  BY <1>1, HoldersSame
<1>4. next[pHead] \in Nodes /\ next[pHead] # pHead /\ Linked(next[pHead])
  BY <1>1 DEF QueueInv, ChainInv, Chained, TypeOK, Nodes, Linked
<1>5. next[pHead] \in Pointers /\ \E u \in Threads : Holds(u, next[pHead])
  BY <1>4 DEF Linked
<1>6. p'[t] = next[pHead]
  BY <1>1 DEF QueueInv, TypeOK
<1>7. TypeOK'
  <2>1. p' \in [Threads -> Nodes \cup {Null}]
    BY <1>1, <1>4 DEF QueueInv, TypeOK
  <2>2. QED
    BY <1>1, <1>2, <1>3, <2>1 DEF QueueInv, TypeOK, MemInv
<1>8. /\ \A y : ~Removed(y) /\ ~Removed(y)' /\ ~Private(y) /\ ~Private(y)' /\ ~Ahead(y) /\ ~Ahead(y)'
      /\ ~Emptied /\ ~Emptied'
  BY <1>2 DEF Removed, Private, Ahead, Emptied
<1>9. \A y : Linked(y)' <=> Linked(y)
  BY <1>3, <1>8 DEF Linked
<1>10. LastNode' = LastNode
  BY <1>1, <1>8 DEF LastNode
<1>11. (Alone /\ PushLocals /\ TailRead /\ Swings)'
  BY <1>2 DEF Pushing, Alone, PushLocals, TailRead, Swings, Popping
<1>12. PopLocals'
  <2> SUFFICES ASSUME NEW u \in Threads
               PROVE  /\ pc'[u] \in Popping => p'[u] \in Pointers /\ \E v \in Threads : Holds(v, p[u])'
                      /\ pc'[u] \in {"readNext", "take"} => next'[pHead] = p'[u]
                      /\ pc'[u] = "take" => q'[u] = next'[p'[u]]
                      /\ pc'[u] = "test" /\ next'[pHead] = Null => pTail' = p'[u]
                      /\ pc'[u] = "swingBack" => next'[pHead] = Null /\ pTail' = p'[u]
    BY DEF PopLocals
  <2>1. CASE u = t
    <3>1. PICK v \in Threads : Holds(v, next[pHead])
      BY <1>5
    <3>2. Holds(v, p[t])'
      BY <1>3, <1>6, <3>1 DEF Holds
    <3>3. QED
      BY <1>1, <1>2, <1>5, <1>6, <2>1, <3>2
  <2>2. CASE u # t
    BY <1>2, <2>2 DEF Popping
  <2>3. QED
    BY <2>1, <2>2
<1>13. Chained'
  BY <1>1, <1>9 DEF QueueInv, ChainInv, Chained
<1>14. OneEnd'
  <2>1. \A u \in Threads : pc[u] # "swing" /\ pc'[u] # "swing"
    BY <1>2
  <2>2. QED
    BY <1>1, <1>8, <1>9, <1>10, <2>1 DEF QueueInv, ChainInv, OneEnd
<1>15. Stays
  BY <1>1, <1>9 DEF Stays
<1>16. QED
  BY <1>3, <1>7, <1>11, <1>12, <1>13, <1>14, <1>15 DEF QueueInv, ChainInv

\* Nothing comes between the reading of a successor and its use.
LEMMA PopReadNextStep ==
    ASSUME QueueInv, NEW t \in Threads, PopReadNext(t)
    PROVE  QueueInv' /\ Stays
<1>1. /\ Goes(t, "readNext", "take") /\ q' = [q EXCEPT ![t] = next[p[t]]]
      /\ pTail' = pTail /\ next' = next /\ data' = data /\ n' = n /\ p' = p /\ pushes' = pushes
      /\ UNCHANGED memVars
  BY DEF PopReadNext
<1>2. /\ pc[t] = "readNext" /\ pc'[t] = "take" /\ \A u \in Threads : u # t => pc'[u] = pc[u]
      /\ pc' \in [Threads -> {"idle"} \cup Pushing \cup Popping]
  BY <1>1, GoesFact DEF Popping
<1>3. \A u \in Threads : u # t => pc[u] = "idle" /\ pc'[u] = "idle"
  BY <1>2, NoPushes DEF Popping
<1>4. MemInv' /\ \A u, y : Holds(u, y)' <=> Holds(u, y)
  BY <1>1, HoldersSame
<1>5. p[t] \in Pointers /\ p[t] \in Nodes /\ (\E u \in Threads : Holds(u, p[t])) /\ next[pHead] = p[t]
  BY <1>2 DEF QueueInv, ChainInv, PopLocals, Popping, Nodes
<1>6. q'[t] = next[p[t]]
  BY <1>1 DEF QueueInv, TypeOK
<1>7. TypeOK'
  <2>1. q' \in [Threads -> Nodes \cup {Null}]
    BY <1>1, <1>5 DEF QueueInv, TypeOK
  <2>2. QED
    BY <1>1, <1>2, <1>4, <2>1 DEF QueueInv, TypeOK, MemInv
<1>8. /\ \A y : ~Removed(y) /\ ~Removed(y)' /\ ~Private(y) /\ ~Private(y)' /\ ~Ahead(y) /\ ~Ahead(y)'
      /\ ~Emptied /\ ~Emptied'
  BY <1>2, <1>3 DEF Removed, Private, Ahead, Emptied
<1>9. \A y : Linked(y)' <=> Linked(y)
  BY <1>4, <1>8 DEF Linked
<1>10. LastNode' = LastNode
  BY <1>1, <1>8 DEF LastNode
<1>11. (Alone /\ PushLocals /\ TailRead /\ Swings)'
  BY <1>2, <1>3 DEF Pushing, Alone, PushLocals, TailRead, Swings, Popping
<1>12. PopLocals'
  <2> SUFFICES ASSUME NEW u \in Threads
               PROVE  /\ pc'[u] \in Popping => p'[u] \in Pointers /\ \E v \in Threads : Holds(v, p[u])'
                      /\ pc'[u] \in {"readNext", "take"} => next'[pHead] = p'[u]
                      /\ pc'[u] = "take" => q'[u] = next'[p'[u]]
                      /\ pc'[u] = "test" /\ next'[pHead] = Null => pTail' = p'[u]
                      /\ pc'[u] = "swingBack" => next'[pHead] = Null /\ pTail' = p'[u]
    BY DEF PopLocals
  <2>1. CASE u = t
    <3>1. PICK v \in Threads : Holds(v, p[t])
      BY <1>5
    <3>2. Holds(v, p[t])'
      BY <1>1, <1>4, <3>1 DEF Holds
    <3>3. QED
      BY <1>1, <1>2, <1>5, <1>6, <2>1, <3>2
  <2>2. CASE u # t
    BY <1>3, <2>2 DEF Popping
  <2>3. QED
    BY <2>1, <2>2
<1>13. Chained'
  BY <1>1, <1>9 DEF QueueInv, ChainInv, Chained
<1>14. OneEnd'
  <2>1. \A u \in Threads : pc[u] # "swing" /\ pc'[u] # "swing"
    BY <1>2, <1>3
  <2>2. QED
    BY <1>1, <1>8, <1>9, <1>10, <2>1 DEF QueueInv, ChainInv, OneEnd
<1>15. Stays
  BY <1>1, <1>9 DEF Stays
<1>16. QED
  BY <1>4, <1>7, <1>11, <1>12, <1>13, <1>14, <1>15 DEF QueueInv, ChainInv

\* The first node leaves the chain; if it was the only one, _pTail is on it.
LEMMA PopTakeStep ==
    ASSUME QueueInv, NEW t \in Threads, PopTake(t)
    PROVE  QueueInv' /\ Unlinks
<1>1. /\ Goes(t, "take", "test") /\ next[pHead] = p[t] /\ next' = [next EXCEPT ![pHead] = q[t]]
      /\ pTail' = pTail /\ data' = data /\ n' = n /\ p' = p /\ q' = q /\ pushes' = pushes
      /\ UNCHANGED memVars
  BY DEF PopTake
<1>2. /\ pc[t] = "take" /\ pc'[t] = "test" /\ \A u \in Threads : u # t => pc'[u] = pc[u]
      /\ pc' \in [Threads -> {"idle"} \cup Pushing \cup Popping]
  BY <1>1, GoesFact DEF Popping
<1>3. \A u \in Threads : u # t => pc[u] = "idle" /\ pc'[u] = "idle"
  BY <1>2, NoPushes DEF Popping
<1>4. MemInv' /\ \A u, y : Holds(u, y)' <=> Holds(u, y)
  BY <1>1, HoldersSame
<1>5. /\ p[t] \in Pointers /\ p[t] \in Nodes /\ (\E u \in Threads : Holds(u, p[t]))
      /\ q[t] = next[p[t]] /\ p[t] # pHead /\ p[t] # Null /\ pHead \in Nodes
  <2>1. p[t] \in Pointers /\ (\E u \in Threads : Holds(u, p[t])) /\ q[t] = next[p[t]]
    BY <1>2 DEF QueueInv, ChainInv, PopLocals, Popping
  <2>2. p[t] # pHead /\ p[t] # Null
    BY <2>1, MallocAssumption DEF Pointers, Places, pHead
  <2>3. QED
    BY <2>1, <2>2 DEF Nodes
<1>6. next'[pHead] = next[p[t]] /\ \A y \in Nodes : y # pHead => next'[y] = next[y]
  BY <1>1, <1>5 DEF QueueInv, TypeOK
<1>7. TypeOK'
  <2>1. next' \in [Nodes -> Nodes \cup {Null}]
    BY <1>1 DEF QueueInv, TypeOK
  <2>2. QED
    BY <1>1, <1>2, <1>4, <2>1 DEF QueueInv, TypeOK, MemInv
<1>8. \A y : ~Removed(y) /\ ~Private(y) /\ ~Private(y)' /\ ~Ahead(y) /\ ~Ahead(y)'
  BY <1>2, <1>3 DEF Removed, Private, Ahead
<1>9. (\A y : Removed(y)' <=> y = p[t]) /\ ~Emptied /\ (Emptied' <=> next[p[t]] = Null)
  BY <1>1, <1>2, <1>3, <1>6 DEF Removed, Emptied
<1>10. \A y : Linked(y)' <=> Linked(y) /\ y # p[t]
  BY <1>4, <1>5, <1>8, <1>9 DEF Linked
<1>11. Linked(p[t]) /\ Linked(pHead) /\ LastNode = pTail
  BY <1>5, <1>8, <1>9 DEF Linked, LastNode
<1>12. \A u \in Threads : pc[u] # "swing" /\ pc'[u] # "swing"
  BY <1>2, <1>3
<1>13. \A x \in Nodes : Linked(x) => (next[x] = Null <=> x = pTail)
  BY <1>8, <1>11, <1>12 DEF QueueInv, ChainInv, OneEnd
<1>14. \A y \in Nodes : Linked(y) /\ next[y] = p[t] => y = pHead
  BY <1>1, <1>5, <1>11 DEF QueueInv, ChainInv, Chained
<1>15. (Alone /\ PushLocals /\ TailRead /\ Swings)'
  BY <1>2, <1>3 DEF Pushing, Alone, PushLocals, TailRead, Swings, Popping
<1>16. PopLocals'
  <2> SUFFICES ASSUME NEW u \in Threads
               PROVE  /\ pc'[u] \in Popping => p'[u] \in Pointers /\ \E v \in Threads : Holds(v, p[u])'
                      /\ pc'[u] \in {"readNext", "take"} => next'[pHead] = p'[u]
                      /\ pc'[u] = "take" => q'[u] = next'[p'[u]]
                      /\ pc'[u] = "test" /\ next'[pHead] = Null => pTail' = p'[u]
                      /\ pc'[u] = "swingBack" => next'[pHead] = Null /\ pTail' = p'[u]
    BY DEF PopLocals
  <2>1. CASE u = t
    <3>1. PICK v \in Threads : Holds(v, p[t])
      BY <1>5
    <3>2. Holds(v, p[t])'
      BY <1>1, <1>4, <3>1 DEF Holds
    <3>3. QED
      BY <1>1, <1>2, <1>5, <1>6, <1>11, <1>13, <2>1, <3>2
  <2>2. CASE u # t
    BY <1>3, <2>2 DEF Popping
  <2>3. QED
    BY <2>1, <2>2
<1>17. Chained'
  <2> SUFFICES ASSUME NEW x \in Nodes, Linked(x)', next'[x] # Null
               PROVE  /\ next'[x] # pHead /\ Linked(next[x])'
                      /\ \A y \in Nodes : Linked(y)' /\ next'[y] = next'[x] => y = x
    BY DEF Chained
  <2>1. Linked(x) /\ x # p[t]
    BY <1>10
  <2>2. CASE x = pHead
    <3>1. next'[x] = next[p[t]] /\ next[p[t]] # Null
      BY <1>6, <2>2
    <3>2. /\ next[p[t]] # pHead /\ Linked(next[p[t]])
          /\ \A y \in Nodes : Linked(y) /\ next[y] = next[p[t]] => y = p[t]
      BY <1>5, <1>11, <3>1 DEF QueueInv, ChainInv, Chained
    <3>3. next[p[t]] # p[t]
      BY <1>5, <1>11, <1>14
    <3>4. Linked(next[x])'
      BY <1>10, <3>1, <3>2, <3>3
    <3>5. ASSUME NEW y \in Nodes, Linked(y)', next'[y] = next'[x] PROVE y = x
      BY <1>6, <1>10, <2>2, <3>1, <3>2, <3>5
    <3>6. QED
      BY <3>1, <3>2, <3>4, <3>5
  <2>3. CASE x # pHead
    <3>1. next'[x] = next[x] /\ next[x] # p[t]
      BY <1>6, <1>14, <2>1, <2>3
    <3>2. /\ next[x] # pHead /\ Linked(next[x])
          /\ \A y \in Nodes : Linked(y) /\ next[y] = next[x] => y = x
      BY <2>1, <3>1 DEF QueueInv, ChainInv, Chained
    <3>3. Linked(next[x])'
      BY <1>10, <3>1, <3>2
    <3>4. ASSUME NEW y \in Nodes, Linked(y)', next'[y] = next[x] PROVE y = x
      <4>1. Linked(y) /\ y # p[t]
        BY <1>10, <3>4
      <4>2. y # pHead
        BY <1>5, <1>6, <1>11, <2>1, <3>2, <3>4
      <4>3. QED
        BY <1>6, <3>2, <3>4, <4>1, <4>2
    <3>5. QED
      BY <3>1, <3>2, <3>3, <3>4
  <2>4. QED
    BY <2>2, <2>3
<1>18. OneEnd'
  <2>1. CASE next[p[t]] = Null
    <3>1. LastNode' = pHead /\ pTail = p[t]
      BY <1>5, <1>9, <1>11, <1>13, <2>1 DEF LastNode
    <3>2. Linked(LastNode)'
      BY <1>5, <1>10, <1>11, <3>1
    <3>3. ASSUME NEW x \in Nodes, Linked(x)' PROVE next'[x] = Null <=> x = pHead
      BY <1>6, <1>10, <1>13, <2>1, <3>1, <3>3
    <3>4. QED
      BY <1>8, <1>12, <3>1, <3>2, <3>3 DEF OneEnd
  <2>2. CASE next[p[t]] # Null
    <3>1. LastNode' = pTail /\ pTail # p[t] /\ pTail # pHead
      BY <1>1, <1>5, <1>9, <1>11, <1>13, <2>2 DEF LastNode
    <3>2. Linked(pTail)
      BY <1>11 DEF QueueInv, ChainInv, OneEnd
    <3>3. Linked(LastNode)'
      BY <1>10, <3>1, <3>2
    <3>4. ASSUME NEW x \in Nodes, Linked(x)' PROVE next'[x] = Null <=> x = pTail
      BY <1>6, <1>10, <1>13, <2>2, <3>1, <3>4
    <3>5. QED
      BY <1>8, <1>12, <3>1, <3>3, <3>4 DEF OneEnd
  <2>3. QED
    BY <2>1, <2>2
<1>19. Unlinks
  BY <1>1, <1>5, <1>6, <1>10 DEF Unlinks
<1>20. QED
  BY <1>4, <1>7, <1>15, <1>16, <1>17, <1>18, <1>19 DEF QueueInv, ChainInv

\* The test sends Pop to the swing exactly if the chain is empty.
LEMMA PopTestStep ==
    ASSUME QueueInv, NEW t \in Threads, PopTest(t)
    PROVE  QueueInv' /\ Stays
<1> DEFINE to == IF next[pHead] = Null THEN "swingBack" ELSE "finish"
<1>1. /\ Goes(t, "test", to) /\ pTail' = pTail /\ next' = next /\ data' = data /\ n' = n /\ p' = p
      /\ q' = q /\ pushes' = pushes /\ UNCHANGED memVars
  BY DEF PopTest
<1>2. /\ pc[t] = "test" /\ pc'[t] = to /\ \A u \in Threads : u # t => pc'[u] = pc[u]
      /\ pc' \in [Threads -> {"idle"} \cup Pushing \cup Popping]
  BY <1>1, GoesFact DEF Popping
<1>3. \A u \in Threads : u # t => pc[u] = "idle" /\ pc'[u] = "idle"
  BY <1>2, NoPushes DEF Popping
<1>4. MemInv' /\ \A u, y : Holds(u, y)' <=> Holds(u, y)
  BY <1>1, HoldersSame
<1>5. TypeOK'
  BY <1>1, <1>2, <1>4 DEF QueueInv, TypeOK, MemInv
<1>6. \A y : /\ ~Private(y) /\ ~Private(y)' /\ ~Ahead(y) /\ ~Ahead(y)'
             /\ Removed(y)' <=> Removed(y)
  BY <1>1, <1>2, <1>3 DEF Removed, Private, Ahead
<1>7. Emptied' <=> Emptied
  BY <1>1, <1>2, <1>3 DEF Emptied
<1>8. (\A y : Linked(y)' <=> Linked(y)) /\ LastNode' = LastNode
  BY <1>1, <1>4, <1>6, <1>7 DEF Linked, LastNode
<1>9. (Alone /\ PushLocals /\ TailRead /\ Swings)'
  BY <1>2, <1>3 DEF Pushing, Alone, PushLocals, TailRead, Swings, Popping
<1>10. PopLocals'
  <2> SUFFICES ASSUME NEW u \in Threads
               PROVE  /\ pc'[u] \in Popping => p'[u] \in Pointers /\ \E v \in Threads : Holds(v, p[u])'
                      /\ pc'[u] \in {"readNext", "take"} => next'[pHead] = p'[u]
                      /\ pc'[u] = "take" => q'[u] = next'[p'[u]]
                      /\ pc'[u] = "test" /\ next'[pHead] = Null => pTail' = p'[u]
                      /\ pc'[u] = "swingBack" => next'[pHead] = Null /\ pTail' = p'[u]
    BY DEF PopLocals
  <2>1. CASE u = t
    <3>1. p[t] \in Pointers /\ (\E v \in Threads : Holds(v, p[t])) /\ (next[pHead] = Null => pTail = p[t])
      BY <1>2 DEF QueueInv, ChainInv, PopLocals, Popping
    <3>2. PICK v \in Threads : Holds(v, p[t])
      BY <3>1
    <3>3. Holds(v, p[t])'
      BY <1>1, <1>4, <3>2 DEF Holds
    <3>4. QED
      BY <1>1, <1>2, <2>1, <3>1, <3>3
  <2>2. CASE u # t
    BY <1>3, <2>2 DEF Popping
  <2>3. QED
    BY <2>1, <2>2
<1>11. Chained'
  BY <1>1, <1>8 DEF QueueInv, ChainInv, Chained
<1>12. OneEnd'
  <2>1. \A u \in Threads : pc[u] # "swing" /\ pc'[u] # "swing"
    BY <1>2, <1>3
  <2>2. QED
    BY <1>1, <1>6, <1>8, <2>1 DEF QueueInv, ChainInv, OneEnd
<1>13. Stays
  BY <1>1, <1>8 DEF Stays
<1>14. QED
  BY <1>4, <1>5, <1>9, <1>10, <1>11, <1>12, <1>13 DEF QueueInv, ChainInv

\* _pTail goes back to _pHead, which is all there is of the chain.
LEMMA PopSwingBackStep ==
    ASSUME QueueInv, NEW t \in Threads, PopSwingBack(t)
    PROVE  QueueInv' /\ Stays
<1>1. /\ Goes(t, "swingBack", "finish") /\ pTail' = pHead /\ next' = next /\ data' = data
      /\ n' = n /\ p' = p /\ q' = q /\ pushes' = pushes /\ UNCHANGED memVars
  BY DEF PopSwingBack
<1>2. /\ pc[t] = "swingBack" /\ pc'[t] = "finish" /\ \A u \in Threads : u # t => pc'[u] = pc[u]
      /\ pc' \in [Threads -> {"idle"} \cup Pushing \cup Popping]
  BY <1>1, GoesFact DEF Popping
<1>3. \A u \in Threads : u # t => pc[u] = "idle" /\ pc'[u] = "idle"
  BY <1>2, NoPushes DEF Popping
<1>4. MemInv' /\ \A u, y : Holds(u, y)' <=> Holds(u, y)
  BY <1>1, HoldersSame
<1>5. TypeOK'
  BY <1>1, <1>2, <1>4 DEF QueueInv, TypeOK, MemInv, Nodes
<1>6. \A y : /\ ~Private(y) /\ ~Private(y)' /\ ~Ahead(y) /\ ~Ahead(y)'
             /\ Removed(y)' <=> Removed(y)
  BY <1>1, <1>2, <1>3 DEF Removed, Private, Ahead
<1>7. /\ next[pHead] = Null /\ p[t] \in Pointers /\ (\E v \in Threads : Holds(v, p[t]))
  BY <1>2 DEF QueueInv, ChainInv, PopLocals, Popping
<1>8. Emptied /\ ~Emptied'
  BY <1>1, <1>2, <1>3, <1>7 DEF Emptied
<1>9. LastNode' = LastNode
  BY <1>1, <1>8 DEF LastNode
<1>10. \A y : Linked(y)' <=> Linked(y)
  BY <1>4, <1>6 DEF Linked
<1>11. (Alone /\ PushLocals /\ TailRead /\ Swings)'
  BY <1>2, <1>3 DEF Pushing, Alone, PushLocals, TailRead, Swings, Popping
<1>12. PopLocals'
  <2>1. PICK v \in Threads : Holds(v, p[t])
    BY <1>7
  <2>2. Holds(v, p[t])'
    BY <1>1, <1>4, <2>1 DEF Holds
  <2>3. QED
    BY <1>1, <1>2, <1>3, <1>7, <2>2 DEF PopLocals, Popping
<1>13. Chained'
  BY <1>1, <1>10 DEF QueueInv, ChainInv, Chained
<1>14. OneEnd'
  <2>1. \A u \in Threads : pc[u] # "swing" /\ pc'[u] # "swing"
    BY <1>2, <1>3
  <2>2. QED
    BY <1>1, <1>6, <1>9, <1>10, <2>1 DEF QueueInv, ChainInv, OneEnd
<1>15. Stays
  BY <1>1, <1>10 DEF Stays
<1>16. QED
  BY <1>4, <1>5, <1>11, <1>12, <1>13, <1>14, <1>15 DEF QueueInv, ChainInv

\* The node that is deleted is in no chain, and nobody's tail.
LEMMA PopFinishStep ==
    ASSUME QueueInv, NEW t \in Threads, PopFinish(t)
    PROVE  QueueInv' /\ Stays
<1>1. /\ Goes(t, "finish", "idle") /\ FreeSmall(p[t], fixSize(NodeSize)) /\ Returns(t)
      /\ next' = [next EXCEPT ![p[t]] = Null] /\ data' = [data EXCEPT ![p[t]] = Null]
      /\ pTail' = pTail /\ pushes' = pushes
  BY DEF PopFinish
<1>2. /\ pc[t] = "finish" /\ pc'[t] = "idle" /\ \A u \in Threads : u # t => pc'[u] = pc[u]
      /\ pc' \in [Threads -> {"idle"} \cup Pushing \cup Popping]
  BY <1>1, GoesFact DEF Popping
<1>3. \A u \in Threads : pc'[u] = "idle" /\ (u # t => pc[u] = "idle")
  BY <1>2, NoPushes DEF Popping
<1>4. MemInv' /\ holder' = Without(holder, p[t])
  BY <1>1, FreeSmallStep DEF QueueInv
<1>5. \A u, y : y # p[t] => (Holds(u, y)' <=> Holds(u, y))
  <2>1. PICK x : x = p[t]
    OBVIOUS
  <2>2. holder' = Without(holder, x)
    BY <1>4, <2>1
  <2>3. DOMAIN holder' = DOMAIN holder \ {x} /\ \A y \in DOMAIN holder' : holder'[y] = holder[y]
    BY <2>2 DEF Without
  <2>4. \A u, y : y # x => (Holds(u, y)' <=> Holds(u, y))
    BY <2>3 DEF Holds
  <2>5. QED
    BY <2>1, <2>4
<1>6. p[t] \in Pointers /\ p[t] \in Nodes /\ p[t] # pHead /\ pHead \in Nodes
  <2>1. p[t] \in Pointers
    BY <1>2 DEF QueueInv, ChainInv, PopLocals, Popping
  <2>2. QED
    BY <2>1, MallocAssumption DEF Pointers, Places, pHead, Nodes
<1>7. \A y \in Nodes : y # p[t] => next'[y] = next[y]
  BY <1>1 DEF QueueInv, TypeOK
<1>8. TypeOK'
  <2>1. /\ n' \in [Threads -> Pointers \cup {Null}] /\ p' \in [Threads -> Nodes \cup {Null}]
        /\ q' \in [Threads -> Nodes \cup {Null}]
    BY <1>1 DEF QueueInv, TypeOK, Returns
  <2>2. next' \in [Nodes -> Nodes \cup {Null}] /\ data' \in [Nodes -> Threads \cup {Null}]
    BY <1>1 DEF QueueInv, TypeOK
  <2>3. QED
    BY <1>1, <1>2, <1>4, <2>1, <2>2 DEF QueueInv, TypeOK, MemInv
<1>9. \A y : ~Private(y) /\ ~Private(y)' /\ ~Ahead(y) /\ ~Ahead(y)' /\ ~Removed(y)'
  BY <1>2, <1>3 DEF Removed, Private, Ahead
<1>10. \A y : Removed(y) <=> y = p[t]
  BY <1>2, <1>3 DEF Removed
<1>11. ~Emptied /\ ~Emptied' /\ LastNode' = pTail /\ LastNode = pTail
  BY <1>1, <1>2, <1>3 DEF Emptied, LastNode
<1>12. ~Linked(p[t])
  BY <1>6, <1>10 DEF Linked
<1>13. \A y : Linked(y)' <=> Linked(y)
  <2>1. PICK x : x = p[t]
    OBVIOUS
  <2>2. x # pHead /\ (\A u, y : y # x => (Holds(u, y)' <=> Holds(u, y))) /\ ~Linked(x)
    BY <1>5, <1>6, <1>12, <2>1
  <2>3. \A u : ~Holds(u, x)'
    BY <1>4, <2>1 DEF Holds, Without
  <2>4. ~Linked(x)'
    BY <2>2, <2>3 DEF Linked
  <2>5. \A y : y # x => (Linked(y)' <=> Linked(y))
    BY <1>9, <1>10, <2>1, <2>2 DEF Linked
  <2>6. QED
    BY <2>2, <2>4, <2>5
<1>14. \A y \in Nodes : Linked(y) => next'[y] = next[y]
  BY <1>7, <1>12
<1>15. (Alone /\ PushLocals /\ TailRead /\ Swings /\ PopLocals)'
  BY <1>3 DEF Pushing, Alone, PushLocals, TailRead, Swings, Popping, PopLocals
<1>16. Chained'
  BY <1>13, <1>14 DEF QueueInv, ChainInv, Chained
<1>17. OneEnd'
  <2>1. \A u \in Threads : pc[u] # "swing" /\ pc'[u] # "swing"
    BY <1>2, <1>3
  <2>2. QED
    BY <1>9, <1>11, <1>13, <1>14, <2>1 DEF QueueInv, ChainInv, OneEnd
<1>18. Stays
  <2>1. \A y \in Nodes : y # p[t] => data'[y] = data[y]
    BY <1>1 DEF QueueInv, TypeOK
  <2>2. QED
    BY <1>12, <1>13, <1>14, <2>1 DEF Stays
<1>19. QED
  BY <1>4, <1>8, <1>15, <1>16, <1>17, <1>18 DEF QueueInv, ChainInv

\* QueueInv is inductive.
LEMMA QueueNext == QueueInv /\ [Next]_vars => QueueInv'
<1> SUFFICES ASSUME QueueInv, [Next]_vars PROVE QueueInv'
  OBVIOUS
<1>1. CASE UNCHANGED vars
  <2>1. UNCHANGED memVars /\ UNCHANGED queueVars
    BY <1>1 DEF vars
  <2>2. QED
    BY <2>1, HoldersSame, ChainSame
<1>2. ASSUME NEW t \in Threads,
             \/ PushNew(t) \/ PushFill(t) \/ PushReadTail(t) \/ PushLink(t)
             \/ PushRetry(t) \/ PushSwing(t)
      PROVE  QueueInv'
  BY <1>2, PushNewStep, PushFillStep, PushReadTailStep, PushLinkStep, PushRetryStep, PushSwingStep
<1>3. ASSUME NEW t \in Threads,
             \/ PopBegin(t) \/ PopReadNext(t) \/ PopTake(t) \/ PopTest(t)
             \/ PopSwingBack(t) \/ PopFinish(t)
      PROVE  QueueInv'
  BY <1>3, PopBeginStep, PopReadNextStep, PopTakeStep, PopTestStep, PopSwingBackStep, PopFinishStep
<1>4. ASSUME \/ \E size \in AppSizes : AppMalloc(size)
             \/ \E x \in Pointers : AppInsert(x) \/ AppWrite(x) \/ AppFree(x)
      PROVE  QueueInv'
  BY <1>4, AppSteps
<1>5. QED
  BY <1>1, <1>2, <1>3, <1>4 DEF Next

-----------------------------------------------------------------------------
\* The inductive invariant of manager and queue.
THEOREM Invariance == Spec => []QueueInv
BY InitQueue, QueueNext, PTL DEF Spec

\* Manager and queue keep their types.
THEOREM TypeCorrect == Spec => []TypeOK
<1>1. QueueInv => TypeOK
  BY DEF QueueInv
<1>2. QED
  BY <1>1, Invariance, PTL

\* No chunk has two users, whatever is asked for and freed, pointers freed
\* twice included.
THEOREM SharingSafe == Spec => []NoSharing
<1>1. QueueInv => NoSharing
  BY MemSafe DEF QueueInv
<1>2. QED
  BY <1>1, Invariance, PTL

\* The compare-and-swaps of _pTail, whose results Push ignores and for which
\* Pop loops, succeed.
THEOREM SwingSafe == Spec => []TailSwingSucceeds
<1>1. QueueInv => TailSwingSucceeds
  BY DEF QueueInv, ChainInv, Swings, PopLocals, TailSwingSucceeds
<1>2. QED
  BY <1>1, Invariance, PTL

\* Memory is zero when it is handed out, although malloc does not clear it.
THEOREM ZeroSafe == Spec => ZeroedOnHandOut
<1>1. QueueInv /\ [Next]_vars => [HandsOutZero]_memVars
  <2> SUFFICES ASSUME QueueInv, [Next]_vars PROVE [HandsOutZero]_memVars
    OBVIOUS
  <2>1. ASSUME NEW x, NEW h, holder' = With(holder, x, h), x \notin dirty' PROVE HandsOutZero
    BY <2>1 DEF With, HandsOutZero
  <2>2. ASSUME NEW x, holder' = Without(holder, x) PROVE HandsOutZero
    BY <2>2 DEF Without, HandsOutZero
  <2>3. holder' = holder => HandsOutZero
    BY DEF HandsOutZero
  <2>4. UNCHANGED memVars => [HandsOutZero]_memVars
    OBVIOUS
  <2>5. MemInv /\ Threads \cup {"app"} \subseteq Holders
    BY DEF QueueInv
  <2>6. ASSUME NEW x \in Pointers, NEW h \in Holders, NEW size, MallocSmall(h, size, x)
        PROVE  HandsOutZero
    BY <2>1, <2>5, <2>6, MallocSmallStep
  <2>7. ASSUME NEW t \in Threads, PushNew(t) PROVE HandsOutZero
    BY <2>5, <2>6, <2>7 DEF PushNew
  <2>8. ASSUME NEW t \in Threads, PushFill(t) PROVE HandsOutZero
    BY <2>3, <2>5, <2>8, WriteStep DEF PushFill
  <2>9. ASSUME NEW t \in Threads, PopFinish(t) PROVE HandsOutZero
    BY <2>2, <2>5, <2>9, FreeSmallStep DEF PopFinish
  <2>10. ASSUME NEW t \in Threads,
                \/ PushReadTail(t) \/ PushLink(t) \/ PushRetry(t) \/ PushSwing(t) \/ PopBegin(t)
                \/ PopReadNext(t) \/ PopTake(t) \/ PopTest(t) \/ PopSwingBack(t)
         PROVE  UNCHANGED memVars
    BY <2>10 DEF PushReadTail, PushLink, PushRetry, PushSwing, PopBegin, PopReadNext, PopTake,
                 PopTest, PopSwingBack
  <2>11. ASSUME NEW size \in AppSizes, AppMalloc(size) PROVE HandsOutZero
    BY <2>3, <2>5, <2>6, <2>11, NewBigStep DEF AppMalloc
  <2>12. ASSUME NEW x \in Pointers, AppInsert(x) PROVE HandsOutZero
    BY <2>1, <2>5, <2>12, InsertBigStep DEF AppInsert
  <2>13. ASSUME NEW x \in Pointers, AppWrite(x) PROVE HandsOutZero
    BY <2>3, <2>5, <2>13, WriteStep DEF AppWrite
  <2>14. ASSUME NEW x \in Pointers, AppFree(x) PROVE HandsOutZero
    <3>1. CASE \E c \in SizeClasses : FreeSmall(x, c)
      BY <2>2, <2>5, <3>1, FreeSmallStep
    <3>2. CASE FreeBig(x)
      BY <2>2, <2>5, <3>2, FreeBigStep
    <3>3. CASE FreeUnknown(x)
      BY <2>3, <3>3 DEF FreeUnknown, memVars
    <3>4. QED
      BY <2>14, <3>1, <3>2, <3>3 DEF AppFree
  <2>15. CASE UNCHANGED vars
    BY <2>4, <2>15 DEF vars
  <2>16. QED
    BY <2>4, <2>7, <2>8, <2>9, <2>10, <2>11, <2>12, <2>13, <2>14, <2>15 DEF Next
<1>2. QED
  BY <1>1, Invariance, PTL DEF Spec, ZeroedOnHandOut

-----------------------------------------------------------------------------
(***************************************************************************)
(* The queue as a channel: what the nodes behind _pHead carry              *)
(***************************************************************************)
\* The i-th successor of _pHead if the nodes behind it are s.
At(s, i) == IF i < Len(s) THEN s[i + 1] ELSE Null

\* The nodes behind _pHead are s, in this order.
Lists(s) ==
    /\ s \in Seq(Pointers)
    /\ next[pHead] = At(s, 0)
    /\ \A i \in 1..Len(s) : Linked(s[i]) /\ next[s[i]] = At(s, i)

Values(s) == [i \in 1..Len(s) |-> data[s[i]]]

\* A set of numbers has a least one.
LEMMA Least ==
    ASSUME NEW T, T \subseteq Nat, T # {}
    PROVE  \E m \in T : \A k \in T : m <= k
<1>1. PICK R : R = OpToRel(<, Nat)
  OBVIOUS
<1>2. IsWellFoundedOn(R, Nat)
  BY <1>1, NatLessThanWellFounded
<1>3. PICK x \in T : \A y \in T : ~ (<<y, x>> \in R)
  BY <1>2, WFMin
<1>4. \A i, j \in Nat : j < i => <<j, i>> \in R
  BY <1>1 DEF OpToRel
<1>5. ASSUME NEW y \in T PROVE x <= y
  <2>1. ~(y < x)
    BY <1>3, <1>4
  <2>2. QED
    BY <2>1
<1>6. QED
  BY <1>5

\* Walk exists and is what its definition says, if some function is.
LEMMA WalkDef ==
    ASSUME NEW W, W = [i \in 0..MaxPush |-> IF i = 0 THEN next[pHead] ELSE Step(W[i - 1])]
    PROVE  Walk = [i \in 0..MaxPush |-> IF i = 0 THEN next[pHead] ELSE Step(Walk[i - 1])]
BY DEF Walk

\* Walk steps through the nodes behind _pHead, and then stays on Null.
LEMMA WalkAt ==
    ASSUME NEW s, Lists(s)
    PROVE  \A i \in 0..MaxPush : Walk[i] = At(s, i)
<1>1. s \in Seq(Pointers) /\ Len(s) \in Nat /\ MaxPush \in Nat
  BY DEF Lists
<1>2. At(s, 0) = next[pHead]
  BY DEF Lists
<1>3. ASSUME NEW i \in Nat \ {0} PROVE At(s, i) = Step(At(s, i - 1))
  <2>1. CASE i - 1 < Len(s)
    <3>1. i \in 1..Len(s) /\ (i - 1) + 1 = i
      BY <1>1, <2>1
    <3>2. At(s, i - 1) = s[i]
      BY <2>1, <3>1 DEF At
    <3>3. s[i] # Null /\ next[s[i]] = At(s, i)
      BY <1>1, <3>1 DEF Lists
    <3>4. QED
      BY <3>2, <3>3 DEF Step
  <2>2. CASE ~(i - 1 < Len(s))
    BY <1>1, <2>2 DEF At, Step
  <2>3. QED
    BY <2>1, <2>2
<1>4. PICK W : W = [i \in 0..MaxPush |-> At(s, i)]
  OBVIOUS
<1>5. W = [i \in 0..MaxPush |-> IF i = 0 THEN next[pHead] ELSE Step(W[i - 1])]
  <2>1. ASSUME NEW i \in 0..MaxPush
        PROVE  W[i] = IF i = 0 THEN next[pHead] ELSE Step(W[i - 1])
    <3>1. CASE i = 0
      BY <1>1, <1>2, <1>4, <3>1
    <3>2. CASE i # 0
      <4>1. i \in Nat \ {0} /\ i - 1 \in 0..MaxPush
        BY <1>1, <3>2
      <4>2. W[i - 1] = At(s, i - 1) /\ W[i] = At(s, i)
        BY <1>4, <4>1
      <4>3. QED
        BY <1>3, <3>2, <4>1, <4>2
    <3>3. QED
      BY <3>1, <3>2
  <2>2. QED
    BY <1>4, <2>1
<1>6. Walk = [i \in 0..MaxPush |-> IF i = 0 THEN next[pHead] ELSE Step(Walk[i - 1])]
  BY <1>5, WalkDef
<1> DEFINE T == {i \in 0..MaxPush : Walk[i] # At(s, i)}
<1>7. ASSUME T # {} PROVE FALSE
  <2>1. T \subseteq Nat
    BY <1>1
  <2>2. PICK m \in T : \A k \in T : m <= k
    BY <1>7, <2>1, Least
  <2>3. CASE m = 0
    BY <1>1, <1>2, <1>6, <2>2, <2>3
  <2>4. CASE m # 0
    <3>1. m \in Nat \ {0} /\ m - 1 \in 0..MaxPush /\ ~(m <= m - 1) /\ m \in 0..MaxPush
      BY <1>1, <2>2, <2>4
    <3>2. m - 1 \notin T
      BY <2>2, <3>1
    <3>3. Walk[m - 1] = At(s, m - 1)
      BY <3>1, <3>2
    <3>4. Walk[m] = Step(Walk[m - 1])
      BY <1>6, <2>4, <3>1
    <3>5. Walk[m] = At(s, m)
      BY <1>3, <3>1, <3>3, <3>4
    <3>6. QED
      BY <2>2, <3>5
  <2>5. QED
    BY <2>3, <2>4
<1>8. QED
  BY <1>7

\* Chain is the values of the nodes behind _pHead.
LEMMA ChainOf == \A s : Lists(s) /\ Len(s) <= MaxPush => Chain = Values(s)
<1> SUFFICES ASSUME NEW s, Lists(s), Len(s) <= MaxPush PROVE Chain = Values(s)
  OBVIOUS
<1>1. s \in Seq(Pointers) /\ Len(s) \in 0..MaxPush /\ MaxPush \in Nat
  BY DEF Lists
<1>2. \A i \in 0..MaxPush : Walk[i] = At(s, i)
  BY WalkAt
<1>3. \A i \in 0..MaxPush : Walk[i] = Null <=> i >= Len(s)
  BY <1>1, <1>2 DEF At
<1> DEFINE E(k) == Walk[k] = Null /\ \A j \in 0..(k - 1) : Walk[j] # Null
<1>4. E(Len(s))
  BY <1>1, <1>3
<1>5. \A k \in 0..MaxPush : E(k) => k = Len(s)
  <2> SUFFICES ASSUME NEW k \in 0..MaxPush, E(k), k # Len(s) PROVE FALSE
    OBVIOUS
  <2>1. Len(s) \in 0..(k - 1)
    BY <1>1, <1>3
  <2>2. QED
    BY <1>1, <1>3, <2>1
<1>6. (CHOOSE k \in 0..MaxPush : E(k)) = Len(s)
  BY <1>1, <1>4, <1>5
<1>7. Chain = [i \in 1..Len(s) |-> data[Walk[i - 1]]]
  BY <1>6 DEF Chain
<1>8. \A i \in 1..Len(s) : Walk[i - 1] = s[i]
  BY <1>1, <1>2 DEF At
<1>9. QED
  BY <1>7, <1>8 DEF Values

-----------------------------------------------------------------------------
\* _pHead and the nodes behind it are in the chain.
LEMMA ListNodes ==
    ASSUME NEW s, Lists(s)
    PROVE  /\ s \in Seq(Pointers) /\ Len(s) \in Nat
           /\ pHead \in Nodes /\ Linked(pHead) /\ next[pHead] = At(s, 0)
           /\ \A i \in 1..Len(s) :
                  /\ s[i] \in Pointers /\ s[i] \in Nodes /\ s[i] # pHead /\ s[i] # Null
                  /\ Linked(s[i]) /\ next[s[i]] = At(s, i)
<1>1. pHead \in Nodes /\ Linked(pHead)
  BY DEF Nodes, Linked
<1>2. \A x \in Pointers : x \in Nodes /\ x # pHead /\ x # Null
  BY MallocAssumption DEF Nodes, Pointers, Places, pHead
<1>3. s \in Seq(Pointers) /\ Len(s) \in Nat /\ \A i \in 1..Len(s) : s[i] \in Pointers
  BY DEF Lists
<1>4. QED
  BY <1>1, <1>2, <1>3 DEF Lists

\* A step that leaves the chain as it is leaves what it carries.
LEMMA StayList ==
    ASSUME NEW s, Lists(s), Stays
    PROVE  Lists(s)' /\ Values(s)' = Values(s)
<1>1. /\ s \in Seq(Pointers) /\ Len(s) \in Nat
      /\ next'[pHead] = At(s, 0)
      /\ \A i \in 1..Len(s) : Linked(s[i])' /\ next'[s[i]] = At(s, i) /\ data'[s[i]] = data[s[i]]
  BY ListNodes DEF Stays
<1>2. Lists(s)'
  BY <1>1 DEF Lists, At
<1>3. QED
  BY <1>1, <1>2 DEF Values

\* The node that a Push links is the last.
LEMMA LinkList ==
    ASSUME NEW s, Lists(s), NEW y, Links(y)
    PROVE  Lists(Append(s, y))' /\ Values(Append(s, y))' = Append(Values(s), data[y])
<1> DEFINE r == Append(s, y)
           l == Len(s)
<1>1. /\ s \in Seq(Pointers) /\ l \in Nat
      /\ pHead \in Nodes /\ Linked(pHead) /\ next[pHead] = At(s, 0)
      /\ \A i \in 1..l : /\ s[i] \in Nodes /\ s[i] # Null
                         /\ Linked(s[i]) /\ next[s[i]] = At(s, i)
  BY ListNodes
<1>2. y \in Pointers /\ Linked(y)' /\ next'[y] = Null /\ data' = data
  BY DEF Links
<1>3. r \in Seq(Pointers) /\ Len(r) = l + 1 /\ r[l + 1] = y /\ \A i \in 1..l : r[i] = s[i]
  BY <1>1, <1>2
<1>4. \A i \in 0..l : At(r, i) = IF At(s, i) = Null THEN y ELSE At(s, i)
  <2>1. \A i \in 0..l : i < l => At(r, i) = At(s, i) /\ At(s, i) # Null
    BY <1>1, <1>3 DEF At
  <2>2. At(r, l) = y /\ At(s, l) = Null
    BY <1>1, <1>3 DEF At
  <2>3. \A i \in 0..l : i < l \/ i = l
    BY <1>1
  <2>4. QED
    BY <2>1, <2>2, <2>3
<1>5. At(r, l + 1) = Null
  BY <1>3 DEF At
<1>6. next'[pHead] = At(r, 0)
  BY <1>1, <1>4 DEF Links
<1>7. ASSUME NEW i \in 1..Len(r) PROVE Linked(r[i])' /\ next'[r[i]] = At(r, i)
  <2>1. CASE i = l + 1
    BY <1>2, <1>3, <1>5, <2>1
  <2>2. CASE i # l + 1
    <3>1. i \in 1..l /\ i \in 0..l /\ r[i] = s[i]
      BY <1>1, <1>3, <2>2
    <3>2. Linked(s[i])' /\ next'[s[i]] = IF next[s[i]] = Null THEN y ELSE next[s[i]]
      BY <1>1, <3>1 DEF Links
    <3>3. next'[s[i]] = At(r, i)
      BY <1>1, <1>4, <3>1, <3>2
    <3>4. QED
      BY <3>1, <3>2, <3>3
  <2>3. QED
    BY <2>1, <2>2
<1>8. Lists(r)'
  BY <1>3, <1>6, <1>7 DEF Lists, At
<1>9. Values(r)' = Append(Values(s), data[y])
  <2>1. Values(r)' = [i \in 1..(l + 1) |-> data[r[i]]]
    BY <1>2, <1>3 DEF Values
  <2>2. Values(s) = [i \in 1..l |-> data[s[i]]]
    BY DEF Values
  <2>3. Append(Values(s), data[y]) = [i \in 1..(l + 1) |-> IF i = l + 1 THEN data[y] ELSE data[s[i]]]
    BY <1>1, <2>2
  <2>4. \A i \in 1..(l + 1) : data[r[i]] = IF i = l + 1 THEN data[y] ELSE data[s[i]]
    <3>1. \A i \in 1..(l + 1) : i # l + 1 => i \in 1..l
      BY <1>1
    <3>2. QED
      BY <1>3, <3>1
  <2>5. QED
    BY <2>1, <2>3, <2>4
<1>10. QED
  BY <1>8, <1>9

\* The node that a Pop unlinks was the first, and occurs only once.
LEMMA UnlinkList ==
    ASSUME QueueInv, NEW s, Lists(s), Unlinks
    PROVE  s # <<>> /\ Lists(Tail(s))' /\ Values(Tail(s))' = Tail(Values(s))
<1> DEFINE r == Tail(s)
           l == Len(s)
<1>1. /\ s \in Seq(Pointers) /\ l \in Nat
      /\ pHead \in Nodes /\ Linked(pHead) /\ next[pHead] = At(s, 0)
      /\ \A i \in 1..l : /\ s[i] \in Nodes /\ s[i] # Null /\ s[i] # pHead
                         /\ Linked(s[i]) /\ next[s[i]] = At(s, i)
  BY ListNodes
<1>2. l > 0 /\ next[pHead] = s[1] /\ s # <<>> /\ 1 \in 1..l
  BY <1>1 DEF Unlinks, At
<1>3. r \in Seq(Pointers) /\ Len(r) = l - 1 /\ \A i \in 1..(l - 1) : r[i] = s[i + 1]
  BY <1>1, <1>2
<1>4. \A i \in 0..(l - 1) : At(r, i) = At(s, i + 1)
  BY <1>1, <1>2, <1>3 DEF At
<1>5. next'[pHead] = At(r, 0)
  <2>1. next'[pHead] = At(s, 1)
    BY <1>1, <1>2 DEF Unlinks
  <2>2. At(s, 1) = At(r, 0)
    BY <1>1, <1>2, <1>4
  <2>3. QED
    BY <2>1, <2>2
<1>6. ASSUME NEW i \in 1..(l - 1) PROVE s[i + 1] # s[1]
  <2>1. i \in 1..l /\ i + 1 \in 1..l
    BY <1>1
  <2>2. next[s[i]] = s[i + 1]
    BY <1>1, <2>1 DEF At
  <2>3. \A x \in Nodes : Linked(x) /\ next[x] = next[pHead] => x = pHead
    BY <1>1, <1>2 DEF QueueInv, ChainInv, Chained
  <2>4. QED
    BY <1>1, <1>2, <2>1, <2>2, <2>3
<1>7. ASSUME NEW i \in 1..Len(r) PROVE Linked(r[i])' /\ next'[r[i]] = At(r, i)
  <2>1. i \in 1..(l - 1) /\ i \in 0..(l - 1) /\ i + 1 \in 1..l /\ r[i] = s[i + 1]
    BY <1>1, <1>3
  <2>2. Linked(s[i + 1])' /\ next'[s[i + 1]] = next[s[i + 1]]
    BY <1>1, <1>2, <1>6, <2>1 DEF Unlinks
  <2>3. next[s[i + 1]] = At(r, i)
    BY <1>1, <1>4, <2>1
  <2>4. QED
    BY <2>1, <2>2, <2>3
<1>8. Lists(r)'
  BY <1>3, <1>5, <1>7 DEF Lists, At
<1>9. Values(r)' = Tail(Values(s))
  <2>1. Values(r)' = [i \in 1..(l - 1) |-> data[s[i + 1]]]
    BY <1>3 DEF Values, Unlinks
  <2>2. Values(s) = [i \in 1..l |-> data[s[i]]]
    BY DEF Values
  <2>3. Tail(Values(s)) = [i \in 1..(l - 1) |-> data[s[i + 1]]]
    BY <1>1, <1>2, <2>2
  <2>4. QED
    BY <2>1, <2>3
<1>10. QED
  BY <1>2, <1>8, <1>9

-----------------------------------------------------------------------------
\* The threads whose Push has begun and has not linked its node.
Entering == {t \in Threads : pc[t] \in {"fill", "readTail", "link"}}

\* The nodes in the chain and those on the way to it are from different calls
\* of Push.
Counted(s) == IsFiniteSet(Entering) /\ Len(s) + Cardinality(Entering) <= pushes

\* A Push links a node that carries its value.
Filled == \A t \in Threads : pc[t] \in {"readTail", "link"} => data[n[t]] = t

ListInv == Filled /\ \E s : Lists(s) /\ Counted(s)

LEMMA InitList == Init => ListInv /\ Queue!Init
<1> SUFFICES ASSUME Init PROVE ListInv /\ Queue!Init
  OBVIOUS
<1>1. \A t \in Threads : pc[t] = "idle"
  BY DEF Init
<1>2. next[pHead] = Null
  BY DEF Init, Nodes
<1>3. PICK s : s = <<>>
  OBVIOUS
<1>4. s \in Seq(Pointers) /\ Len(s) = 0
  BY <1>3
<1>5. Lists(s)
  BY <1>2, <1>4 DEF Lists, At
<1>6. Counted(s)
  <2>1. Entering = {}
    BY <1>1 DEF Entering
  <2>2. QED
    BY <1>4, <2>1, FS_EmptySet DEF Counted, Init
<1>7. Filled
  BY <1>1 DEF Filled
<1>8. Chain = <<>>
  <2>1. Chain = Values(s)
    BY <1>4, <1>5, ChainOf
  <2>2. QED
    BY <1>4, <2>1 DEF Values
<1>9. QED
  BY <1>5, <1>6, <1>7, <1>8 DEF ListInv, Queue!Init

\* The chain has no more nodes than Push was called, and Chain shows them all.
LEMMA ListFits ==
    \A s : TypeOK /\ Lists(s) /\ Counted(s) =>
        /\ Len(s) + Cardinality(Entering) <= MaxPush
        /\ Cardinality(Entering) \in Nat
        /\ Chain = Values(s)
<1> SUFFICES ASSUME NEW s, TypeOK, Lists(s), Counted(s)
             PROVE  /\ Len(s) + Cardinality(Entering) <= MaxPush
                    /\ Cardinality(Entering) \in Nat
                    /\ Chain = Values(s)
  OBVIOUS
<1>1. Cardinality(Entering) \in Nat
  BY FS_CardinalityType DEF Counted
<1>2. Len(s) \in Nat /\ pushes \in 0..MaxPush /\ MaxPush \in Nat
  BY DEF Lists, TypeOK
<1>3. Len(s) + Cardinality(Entering) <= MaxPush /\ Len(s) <= MaxPush
  BY <1>1, <1>2 DEF Counted
<1>4. QED
  BY <1>1, <1>3, ChainOf

\* Chain shows the nodes behind _pHead.
Shown == \A s : Lists(s) /\ Counted(s) => Chain = Values(s)

LEMMA ChainShown == TypeOK => Shown
BY ListFits DEF Shown

\* A step that leaves the chain, and who is on the way to it, leaves Chain.
LEMMA SameList ==
    ASSUME QueueInv, QueueInv', ListInv, Stays, Filled', pushes' = pushes, Entering' = Entering
    PROVE  ListInv' /\ Chain' = Chain
<1>1. PICK s : Lists(s) /\ Counted(s)
  BY DEF ListInv
<1>2. Lists(s)' /\ Values(s)' = Values(s)
  BY <1>1, StayList
<1>3. Counted(s)'
  BY <1>1 DEF Counted
<1>4. (TypeOK => Shown)'
  BY ChainShown, PTL
<1>5. Chain = Values(s)
  BY <1>1, ListFits DEF QueueInv
<1>6. Chain' = Values(s)'
  BY <1>2, <1>3, <1>4 DEF QueueInv, Shown
<1>7. QED
  BY <1>2, <1>3, <1>5, <1>6 DEF ListInv

\* The steps of a thread change what it does next, and nothing else of that kind.
LEMMA EnterSame ==
    ASSUME QueueInv, NEW t \in Threads, NEW from, NEW to, Goes(t, from, to),
           from \in {"fill", "readTail", "link"} <=> to \in {"fill", "readTail", "link"}
    PROVE  Entering' = Entering
BY GoesFact DEF Entering

\* A call of Push counts as one, before it has a node as well as after.
LEMMA PushNewList ==
    ASSUME QueueInv, ListInv, NEW t \in Threads, PushNew(t)
    PROVE  ListInv' /\ Chain' = Chain
<1>1. QueueInv' /\ Stays
  BY PushNewStep
<1>2. /\ Goes(t, "idle", "fill") /\ pushes' = pushes + 1 /\ data' = data
      /\ \A u \in Threads : u # t => n'[u] = n[u]
  BY DEF PushNew, QueueInv, TypeOK
<1>3. pc[t] = "idle" /\ pc'[t] = "fill" /\ \A u \in Threads : u # t => pc'[u] = pc[u]
  BY <1>2, GoesFact
<1>4. Entering' = Entering \cup {t} /\ t \notin Entering
  BY <1>3 DEF Entering
<1>5. PICK s : Lists(s) /\ Counted(s)
  BY DEF ListInv
<1>6. Lists(s)' /\ Values(s)' = Values(s)
  BY <1>1, <1>5, StayList
<1>7. Counted(s)'
  <2>1. IsFiniteSet(Entering') /\ Cardinality(Entering') = Cardinality(Entering) + 1
    BY <1>4, <1>5, FS_AddElement DEF Counted
  <2>2. Len(s) \in Nat /\ Cardinality(Entering) \in Nat /\ pushes \in Nat
    BY <1>5, FS_CardinalityType DEF Lists, Counted, QueueInv, TypeOK
  <2>3. Len(s) + Cardinality(Entering') <= pushes'
    BY <1>2, <1>5, <2>1, <2>2 DEF Counted
  <2>4. QED
    BY <2>1, <2>3 DEF Counted
<1>8. Filled'
  BY <1>2, <1>3 DEF ListInv, Filled
<1>9. (TypeOK => Shown)'
  BY ChainShown, PTL
<1>10. Chain = Values(s) /\ Chain' = Values(s)'
  BY <1>1, <1>5, <1>6, <1>7, <1>9, ListFits DEF QueueInv, Shown
<1>11. QED
  BY <1>6, <1>7, <1>8, <1>10 DEF ListInv

\* The compare-and-swap of Push puts its value at the end.
LEMMA PushLinkList ==
    ASSUME QueueInv, ListInv, NEW t \in Threads, PushLink(t)
    PROVE  ListInv' /\ Queue!Put(t)
<1>1. PICK y : QueueInv' /\ y = n[t] /\ Links(y)
  BY PushLinkStep
<1>2. Goes(t, "link", "swing") /\ pushes' = pushes /\ data' = data /\ n' = n
  BY DEF PushLink
<1>3. pc[t] = "link" /\ pc'[t] = "swing" /\ \A u \in Threads : u # t => pc'[u] = pc[u]
  BY <1>2, GoesFact
<1>4. Entering' = Entering \ {t} /\ t \in Entering
  BY <1>3 DEF Entering
<1>5. PICK s : Lists(s) /\ Counted(s)
  BY DEF ListInv
<1> DEFINE r == Append(s, y)
<1>6. Lists(r)' /\ Values(r)' = Append(Values(s), data[y])
  BY <1>1, <1>5, LinkList
<1>7. Len(r) = Len(s) + 1 /\ Len(s) \in Nat
  BY <1>1, <1>5 DEF Lists, Links
<1>8. /\ IsFiniteSet(Entering') /\ Cardinality(Entering') = Cardinality(Entering) - 1
      /\ Cardinality(Entering') \in Nat /\ Cardinality(Entering) \in Nat
  BY <1>4, <1>5, FS_RemoveElement, FS_CardinalityType DEF Counted
<1>9. Counted(r)'
  <2>1. pushes \in Nat
    BY DEF QueueInv, TypeOK
  <2>2. Len(r) + Cardinality(Entering') <= pushes'
    BY <1>2, <1>5, <1>7, <1>8, <2>1 DEF Counted
  <2>3. QED
    BY <1>8, <2>2 DEF Counted
<1>10. data[y] = t
  BY <1>1, <1>3 DEF ListInv, Filled
<1>11. Filled'
  BY <1>2, <1>3 DEF ListInv, Filled
<1>12. (TypeOK => Shown)'
  BY ChainShown, PTL
<1>13. Chain' = Values(r)'
  BY <1>1, <1>6, <1>9, <1>12 DEF QueueInv, Shown
<1>14. Chain = Values(s) /\ Len(s) + Cardinality(Entering) <= MaxPush
  BY <1>5, ListFits DEF QueueInv
<1>15. Len(Chain) < MaxPush
  <2>1. Len(Chain) = Len(s)
    BY <1>7, <1>14 DEF Values
  <2>2. MaxPush \in Nat
    OBVIOUS
  <2>3. QED
    BY <1>7, <1>8, <1>14, <2>1, <2>2
<1>16. Queue!Put(t)
  BY <1>6, <1>10, <1>13, <1>14, <1>15 DEF Queue!Put
<1>17. QED
  BY <1>6, <1>9, <1>11, <1>16 DEF ListInv

\* The compare-and-swap of Pop takes the first value.
LEMMA PopTakeList ==
    ASSUME QueueInv, ListInv, NEW t \in Threads, PopTake(t)
    PROVE  ListInv' /\ Queue!Take
<1>1. QueueInv' /\ Unlinks
  BY PopTakeStep
<1>2. Goes(t, "take", "test") /\ pushes' = pushes /\ data' = data /\ n' = n
  BY DEF PopTake
<1>3. pc[t] = "take" /\ pc'[t] = "test" /\ \A u \in Threads : u # t => pc'[u] = pc[u]
  BY <1>2, GoesFact
<1>4. Entering' = Entering
  BY <1>3 DEF Entering
<1>5. PICK s : Lists(s) /\ Counted(s)
  BY DEF ListInv
<1> DEFINE r == Tail(s)
<1>6. s # <<>> /\ Lists(r)' /\ Values(r)' = Tail(Values(s))
  BY <1>1, <1>5, UnlinkList
<1>7. Len(s) \in Nat \ {0} /\ Len(r) = Len(s) - 1
  BY <1>5, <1>6 DEF Lists
<1>8. Counted(r)'
  <2>1. pushes \in Nat /\ Cardinality(Entering) \in Nat
    BY <1>5, FS_CardinalityType DEF QueueInv, TypeOK, Counted
  <2>2. Len(r) + Cardinality(Entering') <= pushes'
    BY <1>2, <1>4, <1>5, <1>7, <2>1 DEF Counted
  <2>3. QED
    BY <1>4, <1>5, <2>2 DEF Counted
<1>9. Filled'
  BY <1>2, <1>3 DEF ListInv, Filled
<1>10. (TypeOK => Shown)'
  BY ChainShown, PTL
<1>11. Chain' = Tail(Chain)
  BY <1>1, <1>5, <1>6, <1>8, <1>10, ListFits DEF QueueInv, Shown
<1>12. Chain # <<>>
  <2>1. Chain = Values(s)
    BY <1>5, ListFits DEF QueueInv
  <2>2. QED
    BY <1>7, <2>1 DEF Values
<1>13. QED
  BY <1>6, <1>8, <1>9, <1>11, <1>12 DEF ListInv, Queue!Take

\* The other steps of a Push.
LEMMA PushList ==
    ASSUME QueueInv, ListInv, NEW t \in Threads,
           PushFill(t) \/ PushReadTail(t) \/ PushRetry(t) \/ PushSwing(t)
    PROVE  ListInv' /\ Chain' = Chain
<1>1. CASE PushFill(t)
  <2>1. QueueInv' /\ Stays
    BY <1>1, PushFillStep
  <2>2. /\ Goes(t, "fill", "readTail") /\ data' = [data EXCEPT ![n[t]] = t]
        /\ n' = n /\ pushes' = pushes
    BY <1>1 DEF PushFill
  <2>3. pc[t] = "fill" /\ pc'[t] = "readTail" /\ \A u \in Threads : u # t => pc'[u] = pc[u]
    BY <2>2, GoesFact
  <2>4. Filled'
    <3>1. \A u \in Threads : pc[u] \in {"fill", "readTail", "link"} => n[u] \in Nodes /\ Holds(u, n[u])
      BY DEF QueueInv, ChainInv, PushLocals, Pushing, Nodes
    <3>2. \A u \in Threads : u # t /\ pc[u] \in {"readTail", "link"} => n[u] # n[t]
      BY <2>3, <3>1 DEF Holds
    <3>3. data'[n[t]] = t /\ \A x \in Nodes : x # n[t] => data'[x] = data[x]
      BY <2>2, <2>3, <3>1 DEF QueueInv, TypeOK
    <3>4. QED
      BY <2>2, <2>3, <3>1, <3>2, <3>3 DEF ListInv, Filled
  <2>5. Entering' = Entering
    BY <2>3 DEF Entering
  <2>6. QED
    BY <2>1, <2>2, <2>4, <2>5, SameList
<1>2. CASE PushReadTail(t) \/ PushRetry(t)
  <2>1. QueueInv' /\ Stays
    BY <1>2, PushReadTailStep, PushRetryStep
  <2>2. /\ Goes(t, "readTail", "link") \/ Goes(t, "link", "readTail")
        /\ data' = data /\ n' = n /\ pushes' = pushes
    BY <1>2 DEF PushReadTail, PushRetry
  <2>3. /\ pc[t] \in {"readTail", "link"} /\ pc'[t] \in {"readTail", "link"}
        /\ \A u \in Threads : u # t => pc'[u] = pc[u]
    BY <2>2, GoesFact
  <2>4. Filled' /\ Entering' = Entering
    BY <2>2, <2>3 DEF ListInv, Filled, Entering
  <2>5. QED
    BY <2>1, <2>2, <2>4, SameList
<1>3. CASE PushSwing(t)
  <2>1. QueueInv' /\ Stays
    BY <1>3, PushSwingStep
  <2>2. /\ Goes(t, "swing", "idle") /\ data' = data /\ pushes' = pushes
        /\ \A u \in Threads : u # t => n'[u] = n[u]
    BY <1>3 DEF PushSwing, Returns, QueueInv, TypeOK
  <2>3. pc[t] = "swing" /\ pc'[t] = "idle" /\ \A u \in Threads : u # t => pc'[u] = pc[u]
    BY <2>2, GoesFact
  <2>4. Filled' /\ Entering' = Entering
    BY <2>2, <2>3 DEF ListInv, Filled, Entering
  <2>5. QED
    BY <2>1, <2>2, <2>4, SameList
<1>4. QED
  BY <1>1, <1>2, <1>3

\* The other steps of a Pop, beside which nobody pushes.
LEMMA PopList ==
    ASSUME QueueInv, ListInv, NEW t \in Threads,
           PopBegin(t) \/ PopReadNext(t) \/ PopTest(t) \/ PopSwingBack(t) \/ PopFinish(t)
    PROVE  ListInv' /\ Chain' = Chain
<1>1. QueueInv' /\ Stays
  BY PopBeginStep, PopReadNextStep, PopTestStep, PopSwingBackStep, PopFinishStep
<1>2. PICK from \in {"idle", "readNext", "test", "swingBack", "finish"},
           to \in {"idle", "readNext", "take", "swingBack", "finish"} : Goes(t, from, to)
  BY DEF PopBegin, PopReadNext, PopTest, PopSwingBack, PopFinish
<1>3. pc[t] = from /\ pc'[t] = to /\ \A u \in Threads : u # t => pc'[u] = pc[u]
  BY <1>2, GoesFact
<1>4. pushes' = pushes
  BY DEF PopBegin, PopReadNext, PopTest, PopSwingBack, PopFinish
<1>5. pc[t] \in Popping \/ \A u \in Threads : pc[u] = "idle"
  BY DEF Goes, Popping, PopBegin, PopMayBegin, PopReadNext, PopTest, PopSwingBack, PopFinish
<1>6. \A u \in Threads : u # t => pc[u] = "idle"
  BY <1>5, NoPushes
<1>7. Filled' /\ Entering' = Entering
  BY <1>3, <1>6 DEF Filled, Entering
<1>8. QED
  BY <1>1, <1>4, <1>7, SameList

\* Every step is one of the channel, or leaves it as it is.
LEMMA ListNext ==
    QueueInv /\ ListInv /\ [Next]_vars => ListInv' /\ [Queue!Next]_Chain
<1> SUFFICES ASSUME QueueInv, ListInv, [Next]_vars PROVE ListInv' /\ [Queue!Next]_Chain
  OBVIOUS
<1>1. ASSUME QueueInv', Stays, UNCHANGED queueVars PROVE ListInv' /\ Chain' = Chain
  <2>1. pushes' = pushes /\ Filled' /\ Entering' = Entering
    BY <1>1 DEF queueVars, ListInv, Filled, Entering
  <2>2. QED
    BY <1>1, <2>1, SameList
<1>2. CASE UNCHANGED vars
  <2>1. UNCHANGED memVars /\ UNCHANGED queueVars
    BY <1>2 DEF vars
  <2>2. QED
    BY <1>1, <2>1, HoldersSame, ChainSame
<1>3. CASE \/ \E size \in AppSizes : AppMalloc(size)
           \/ \E x \in Pointers : AppInsert(x) \/ AppWrite(x) \/ AppFree(x)
  <2>1. QueueInv' /\ Stays
    BY <1>3, AppSteps
  <2>2. UNCHANGED queueVars
    BY <1>3 DEF AppMalloc, AppInsert, AppWrite, AppFree
  <2>3. QED
    BY <1>1, <2>1, <2>2
<1>4. ASSUME NEW t \in Threads,
             \/ PushNew(t) \/ PushFill(t) \/ PushReadTail(t) \/ PushRetry(t) \/ PushSwing(t)
             \/ PopBegin(t) \/ PopReadNext(t) \/ PopTest(t) \/ PopSwingBack(t) \/ PopFinish(t)
      PROVE  ListInv' /\ Chain' = Chain
  BY <1>4, PushNewList, PushList, PopList
<1>5. ASSUME NEW t \in Threads, PushLink(t) PROVE ListInv' /\ Queue!Next
  BY <1>5, PushLinkList DEF Queue!Next
<1>6. ASSUME NEW t \in Threads, PopTake(t) PROVE ListInv' /\ Queue!Next
  BY <1>6, PopTakeList DEF Queue!Next
<1>7. QED
  BY <1>2, <1>3, <1>4, <1>5, <1>6 DEF Next

\* Manager and queue implement a first-in first-out channel of at most MaxPush
\* values.
THEOREM ImplementsQueue == Spec => QueueSpec
<1>1. Init => QueueInv /\ ListInv /\ Queue!Init
  BY InitQueue, InitList
<1>2. QueueInv /\ ListInv /\ [Next]_vars => QueueInv' /\ ListInv' /\ [Queue!Next]_Chain
  BY QueueNext, ListNext
<1>3. QED
  BY <1>1, <1>2, PTL DEF Spec, QueueSpec
=============================================================================
