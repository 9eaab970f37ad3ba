--------------------------- MODULE MallocManager ---------------------------
(***************************************************************************)
(* mallocManager and its mallocPools, from which every buffer and object   *)
(* of the server comes (__new, __delete).  Requests below mem_max_size are *)
(* rounded up to a size class and served from that class's pool, greater   *)
(* ones go to the heap.                                                    *)
(*                                                                         *)
(* Each call runs under _lock and is one step, but for a great request,    *)
(* which takes its memory before it takes the lock.  A pointer is a block  *)
(* of the heap and a place in it.                                          *)
(***************************************************************************)
EXTENDS Integers, Sequences

CONSTANTS
    SizeClasses,    \* the sizes fixSize rounds up to: 8, 16, .., 8192, 10240
    mem_max_size,   \* the greatest of them
    Blocks,         \* bound: what new char[] can return at one time
    Holders         \* who asks for memory

ASSUME MallocAssumption ==
    /\ SizeClasses \subseteq Nat \ {0}
    /\ mem_max_size \in SizeClasses
    /\ \A c \in SizeClasses : c <= mem_max_size

VARIABLES
    heap,       \* blocks that new char[] has returned and nobody has deleted
    freeList,   \* freeList[c]: _free_list of the pool for c; the domain is
                \* that of _small_list
    smallPtrs,  \* _small_ptr_list: the class of each chunk handed out
    bigPtrs,    \* _big_ptr_list: the great blocks handed out
    pending,    \* great blocks that are not in _big_ptr_list yet
    holder,     \* who holds each pointer handed out
    dirty       \* pointers whose memory is not all zero

memVars == <<heap, freeList, smallPtrs, bigPtrs, pending, holder, dirty>>

Places == 1..mem_max_size
Pointers == Blocks \X Places

MemInit ==
    /\ heap = {}
    /\ freeList = [c \in {} |-> <<>>]
    /\ smallPtrs = [p \in {} |-> 0]
    /\ bigPtrs = {}
    /\ pending = {}
    /\ holder = [p \in {} |-> 0]
    /\ dirty = {}

-----------------------------------------------------------------------------
\* What a request is rounded up to.
fixSize(size) ==
    IF size > mem_max_size THEN size
    ELSE CHOOSE c \in SizeClasses :
             size <= c /\ \A d \in SizeClasses : size <= d => c <= d

\* How many chunks a pool takes from the heap at once.
getCount(size) == IF size >= mem_max_size THEN 1 ELSE mem_max_size \div size

\* The chunks into which doExpand splits a block.
Split(b, c) == [i \in 1..getCount(c) |-> <<b, i>>]

With(f, x, y) == [z \in DOMAIN f \cup {x} |-> IF z = x THEN y ELSE f[z]]
Without(f, x) == [z \in DOMAIN f \ {x} |-> f[z]]

\* The free chunks of class c when a request comes: a pool that does not
\* exist yet or has none left takes a block b from the heap (doExpand).
Stocked(c, b) ==
    IF c \in DOMAIN freeList /\ freeList[c] # <<>> THEN freeList[c] ELSE Split(b, c)

\* malloc of a small size by h, which becomes the holder of p.  A block that
\* is taken from the heap for it is zeroed.
MallocSmall(h, size, p) ==
    \E c \in SizeClasses, b \in Blocks :
        /\ c = fixSize(size)
        /\ c < mem_max_size
        /\ p = Head(Stocked(c, b))
        /\ IF c \in DOMAIN freeList /\ freeList[c] # <<>>
           THEN UNCHANGED <<heap, dirty>>
           ELSE /\ b \notin heap
                /\ heap' = heap \cup {b}
                /\ dirty' = dirty \ ({b} \X Places)
        /\ freeList' = With(freeList, c, Tail(Stocked(c, b)))
        /\ smallPtrs' = With(smallPtrs, p, c)
        /\ holder' = With(holder, p, h)
        /\ UNCHANGED <<bigPtrs, pending>>

\* malloc of a great size, before the lock: a block from the heap, zeroed.
NewBig(size) ==
    /\ fixSize(size) >= mem_max_size
    /\ \E b \in Blocks \ heap :
           /\ heap' = heap \cup {b}
           /\ pending' = pending \cup {<<b, 1>>}
           /\ dirty' = dirty \ {<<b, 1>>}
    /\ UNCHANGED <<freeList, smallPtrs, bigPtrs, holder>>

\* malloc of a great size, under the lock, and its return to h.
InsertBig(h, p) ==
    /\ p \in pending
    /\ pending' = pending \ {p}
    /\ bigPtrs' = bigPtrs \cup {p}
    /\ holder' = With(holder, p, h)
    /\ UNCHANGED <<heap, freeList, smallPtrs, dirty>>

\* Mutant: a chunk goes back to the pool it came from without a look into
\* _small_ptr_list.
FreeSmallUnlisted(p, c) ==
    /\ c \in DOMAIN freeList
    /\ p[1] \in heap
    /\ p \notin bigPtrs \cup pending
    /\ p[2] <= getCount(c)
    /\ freeList' = [freeList EXCEPT ![c] = Append(@, p)]
    /\ smallPtrs' = Without(smallPtrs, p)
    /\ holder' = Without(holder, p)
    /\ dirty' = dirty \ {p}
    /\ UNCHANGED <<heap, bigPtrs, pending>>

\* Mutant: mallocPool::free does not zero the chunk.
FreeSmallUncleared(p, c) ==
    /\ p \in DOMAIN smallPtrs
    /\ c = smallPtrs[p]
    /\ freeList' = [freeList EXCEPT ![c] = Append(@, p)]
    /\ smallPtrs' = Without(smallPtrs, p)
    /\ holder' = Without(holder, p)
    /\ UNCHANGED <<heap, bigPtrs, pending, dirty>>

\* free of a chunk: it is zeroed and goes back to its pool.
FreeSmall(p, c) ==
    /\ p \in DOMAIN smallPtrs
    /\ c = smallPtrs[p]
    /\ freeList' = [freeList EXCEPT ![c] = Append(@, p)]
    /\ smallPtrs' = Without(smallPtrs, p)
    /\ holder' = Without(holder, p)
    /\ dirty' = dirty \ {p}
    /\ UNCHANGED <<heap, bigPtrs, pending>>

\* free of a great block.
FreeBig(p) ==
    /\ p \notin DOMAIN smallPtrs
    /\ p \in bigPtrs
    /\ heap' = heap \ {p[1]}
    /\ bigPtrs' = bigPtrs \ {p}
    /\ holder' = Without(holder, p)
    /\ UNCHANGED <<freeList, smallPtrs, pending, dirty>>

\* free of a pointer that nobody holds, as after a second close of one
\* connection: it is in no list, and free returns false.
FreeUnknown(p) ==
    /\ p \notin DOMAIN smallPtrs
    /\ p \notin bigPtrs
    /\ UNCHANGED memVars

\* The holder of p writes to it.
Write(p) ==
    /\ p \in DOMAIN holder
    /\ dirty' = dirty \cup {p}
    /\ UNCHANGED <<heap, freeList, smallPtrs, bigPtrs, pending, holder>>

\* avail: the pointer is one that the manager has handed out.
avail(p) == p \in DOMAIN smallPtrs \cup bigPtrs

-----------------------------------------------------------------------------
MemTypeOK ==
    /\ heap \subseteq Blocks
    /\ DOMAIN freeList \subseteq SizeClasses
    /\ freeList \in [DOMAIN freeList -> Seq(Pointers)]
    /\ DOMAIN smallPtrs \subseteq Pointers
    /\ smallPtrs \in [DOMAIN smallPtrs -> DOMAIN freeList]
    /\ bigPtrs \subseteq Pointers
    /\ pending \subseteq Pointers
    /\ DOMAIN holder \subseteq Pointers
    /\ holder \in [DOMAIN holder -> Holders]
    /\ dirty \subseteq Pointers

\* No memory has two users: a chunk that somebody holds is in no free list, no
\* chunk is twice in the free lists, and the manager knows exactly the
\* pointers that are held.  That holds although objects are freed a second
\* time (the note on a second close in ServerIOSocket.cpp
\* removeWebSocketHead): mallocManager::free looks every pointer up first.
NoSharing ==
    /\ \A c \in DOMAIN freeList : \A i \in DOMAIN freeList[c] :
           /\ freeList[c][i] \notin DOMAIN holder
           /\ \A d \in DOMAIN freeList : \A j \in DOMAIN freeList[d] :
                  freeList[c][i] = freeList[d][j] => c = d /\ i = j
    /\ \A p \in Pointers : avail(p) <=> p \in DOMAIN holder

\* Memory is zero when it is handed out (the memset in mallocPool::malloc is
\* commented out, and what free and doExpand zero has to do for it; buffers
\* that are searched as strings and fields no constructor sets rely on it).
HandsOutZero ==
    \A x \in Pointers :
        x \in DOMAIN holder' /\ x \notin DOMAIN holder => x \notin dirty'

ZeroedOnHandOut == [][HandsOutZero]_memVars
=============================================================================
