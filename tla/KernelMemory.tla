---------------------------- MODULE KernelMemory ----------------------------
(***************************************************************************)
(* KMemAlloc and KMemFree of kernel/kmemmgr.c with the two allocators they *)
(* dispatch to: the free block list of kernel/mem_fbl.c (AnySizeBuffer)    *)
(* and the pools of 4K pages of kmemmgr.c.                                 *)
(*                                                                         *)
(* Free blocks are records at their addresses, linked by next and prev as  *)
(* the headers in memory are; a list is what one meets by following next.  *)
(* Operations on AnySizeBuffer are critical sections of its spin lock.     *)
(* The page pools have no lock: their callers are taken one at a time.     *)
(* What each thread has allocated (dwTotalMemSize) is left out.            *)
(***************************************************************************)
EXTENDS Integers, Sequences, FiniteSetsExt, Functions

CONSTANTS
  Regions,        \* SystemMemRegion: a sequence of [start, size]
  Header,         \* sizeof(__FREE_BUFFER_HEADER) = sizeof(__USED_BUFFER_HEADER)
  MinBuffer,      \* MIN_BUFFER_SIZE
  Sizes,          \* sizes that clients ask AnySizeBuffer for
  PoolNum,        \* KMEM_MAX_4K_POOL_NUM
  PoolPages       \* pages of a pool

NULL == 0

ASSUME MemoryAssumption ==
  /\ Regions \in Seq([start : Nat \ {NULL}, size : Nat])
  /\ Regions # <<>> /\ Regions[1].size >= Header
  \* Each element is a physical memory range of its own (mem_scat.c).
  /\ \A i, j \in DOMAIN Regions :
       i # j => (Regions[i].start..Regions[i].start + Regions[i].size - 1)
                  \intersect (Regions[j].start..Regions[j].start + Regions[j].size - 1) = {}
  /\ Header \in Nat \ {0} /\ MinBuffer \in Nat \ {0}
  /\ Sizes \subseteq Nat
  /\ PoolNum \in Nat \ {0} /\ PoolPages \in Nat \ {0}

VARIABLES
  lpFreeBufferHeader,
  free,             \* address of each free block -> [size, next, prev]
  used,             \* address of each allocated block -> its dwBlockSize
  dwFreeSize,
  dwFreeBlocks,
  appended,         \* regions that Initialize has put into the list
  dwOccupMap,       \* pages of each pool whose bit is set
  dwMaxBlockSize,   \* the cached longest free run of each pool, in pages
  lent              \* runs of pages that clients hold: [pool, start, num]

bufferVars == <<lpFreeBufferHeader, free, used, dwFreeSize, dwFreeBlocks, appended>>
poolVars   == <<dwOccupMap, dwMaxBlockSize, lent>>
memVars == <<bufferVars, poolVars>>

Pools == 1..PoolNum
Pages == 0..PoolPages - 1

\* InitBufferMgr and CreateBuffer2 on the first region.
MemInit ==
  /\ lpFreeBufferHeader = Regions[1].start
  /\ free = [a \in {Regions[1].start} |->
               [size |-> Regions[1].size - Header, next |-> NULL, prev |-> NULL]]
  /\ used = << >>
  /\ dwFreeSize = Regions[1].size - Header
  /\ dwFreeBlocks = 1
  /\ appended = 1
  /\ dwOccupMap = [i \in Pools |-> {}]
  /\ dwMaxBlockSize = [i \in Pools |-> PoolPages]
  /\ lent = {}

-----------------------------------------------------------------------------
(* The doubly linked list.                                                  *)

\* The k-th element of the list, counted from 0; NULL behind the last one.
Nth[k \in 0..Cardinality(DOMAIN free)] ==
  IF k = 0 THEN lpFreeBufferHeader
  ELSE IF Nth[k - 1] = NULL THEN NULL ELSE free[Nth[k - 1]].next

Without(f, a) == Restrict(f, DOMAIN f \ {a})
Place(f, a, blk) == [x \in DOMAIN f \union {a} |-> IF x = a THEN blk ELSE f[x]]

\* p and n become neighbours, where they are blocks.
Connect(f, p, n) ==
  [a \in DOMAIN f |-> [f[a] EXCEPT !.next = IF a = p THEN n ELSE @,
                                   !.prev = IF a = n THEN p ELSE @]]

\* Puts blk, which names its neighbours, into the list at a.
LinkIn(f, a, blk) == Connect(Connect(Place(f, a, blk), blk.prev, a), a, blk.next)

-----------------------------------------------------------------------------
(* Allocation.                                                              *)

AtLeastMin(dwSize) == IF dwSize < MinBuffer THEN MinBuffer ELSE dwSize

\* The first block of the list that is large enough.
FirstFit(dwSize) ==
  LET fit == {k \in DOMAIN Nth : Nth[k] # NULL /\ free[Nth[k]].size >= dwSize}
  IN IF fit = {} THEN NULL ELSE Nth[Min(fit)]

\* What would be left over is no block.
TakeWhole(b, dwSize) == free[b].size <= dwSize + MinBuffer + Header

AllocateWhole(b) ==
  LET blk == free[b] IN
  /\ free' = Connect(Without(free, b), blk.prev, blk.next)
  /\ lpFreeBufferHeader' = IF blk.prev = NULL THEN blk.next ELSE lpFreeBufferHeader
  /\ used' = Place(used, b, blk.size)
  /\ dwFreeSize' = dwFreeSize - blk.size
  /\ dwFreeBlocks' = dwFreeBlocks - 1

\* The lower part is allocated, the rest takes the place of the block.
Separate(b, dwSize) ==
  LET blk  == free[b]
      rest == b + Header + dwSize IN
  /\ free' = LinkIn(Without(free, b), rest,
                    [blk EXCEPT !.size = @ - Header - dwSize])
  /\ lpFreeBufferHeader' = IF blk.prev = NULL THEN rest ELSE lpFreeBufferHeader
  /\ used' = Place(used, b, dwSize)
  /\ dwFreeSize' = dwFreeSize - dwSize - Header
  /\ UNCHANGED dwFreeBlocks

\* KMemAlloc(dwSize, KMEM_SIZE_TYPE_ANY).  Nothing changes if no block fits.
Allocate(dwSize) ==
  LET size == AtLeastMin(dwSize)
      b    == FirstFit(size) IN
  /\ dwSize # 0
  /\ appended = Len(Regions)
  /\ b # NULL
  /\ IF TakeWhole(b, size) THEN AllocateWhole(b) ELSE Separate(b, size)
  /\ UNCHANGED <<appended, poolVars>>

-----------------------------------------------------------------------------
(* Release.                                                                 *)

Adjacent(f, p, n) == p # NULL /\ n # NULL /\ p + f[p].size + Header = n

\* p swallows its successor n.
Absorb(f, p, n) ==
  LET larger == [f EXCEPT ![p].size = @ + f[n].size + Header]
  IN Connect(Without(larger, n), p, f[n].next)

\* Whether to merge is decided before either merge is made.
CombinePrev(f, a) ==
  IF Adjacent(f, f[a].prev, a) THEN Absorb(f, f[a].prev, a) ELSE f
CombineNeighbor(f, a) ==
  LET g   == CombinePrev(f, a)
      cur == IF a \in DOMAIN g THEN a ELSE f[a].prev
  IN IF Adjacent(f, a, f[a].next) THEN Absorb(g, cur, f[a].next) ELSE g

\* The position of a in the list: before the first block of a higher address.
Position(a) == Min({k \in DOMAIN Nth : Nth[k] = NULL \/ Nth[k] > a})

\* Each merge turns a header into free memory.
BlockOnly(size, merges) == size
Gained(size, merges) == size + merges * Header

\* ReleaseAndCombine, which also puts the regions of Initialize into the list.
ReleaseAndCombine(a, size) ==
  LET at     == Position(a)
      blk    == [size |-> size, next |-> Nth[at],
                 prev |-> IF at = 0 THEN NULL ELSE Nth[at - 1]]
      linked == LinkIn(free, a, blk)
      merges == Cardinality(DOMAIN linked) - Cardinality(DOMAIN CombineNeighbor(linked, a)) IN
  /\ free' = CombineNeighbor(linked, a)
  /\ lpFreeBufferHeader' = IF at = 0 THEN a ELSE lpFreeBufferHeader
  /\ dwFreeSize' = dwFreeSize + Gained(size, merges)
  /\ dwFreeBlocks' = dwFreeBlocks + 1 - merges

\* KMemFree of a block that was allocated; the flags and identifiers of the
\* header stand for a \in DOMAIN used.
KMemFree(a) ==
  /\ a \in DOMAIN used
  /\ ReleaseAndCombine(a, used[a])
  /\ used' = Without(used, a)
  /\ UNCHANGED <<appended, poolVars>>

\* Initialize goes on with the next region; one that is too small is left out.
AppendBuffer ==
  /\ appended < Len(Regions)
  /\ appended' = appended + 1
  /\ LET r == Regions[appended + 1] IN
     IF r.size < Header + MinBuffer
     THEN UNCHANGED <<lpFreeBufferHeader, free, dwFreeSize, dwFreeBlocks>>
     ELSE ReleaseAndCombine(r.start, r.size - Header)
  /\ UNCHANGED <<used, poolVars>>

-----------------------------------------------------------------------------
(* The page pools.                                                          *)

Run(start, num) == start..start + num - 1

\* The first run of num clear bits.  The scan does not stop at the end of the
\* map: there it takes what lies behind for clear.
Find0String(num, map) ==
  Min({s \in 0..PoolPages : Run(s, num) \intersect map = {}})

\* UpdateMaxBlock
LongestFreeRun(map) ==
  Max({n \in 0..PoolPages :
         \E s \in 0..PoolPages - n : Run(s, n) \intersect map = {}})

MaxLessNum(map, max, num) == max - num
MaxAfterAllocate(map, max, num) == LongestFreeRun(map)

\* KMemAlloc(num pages, KMEM_SIZE_TYPE_4K): the first pool whose cached size
\* admits the request.
_4kAllocate(num) ==
  LET fit == {i \in Pools : dwMaxBlockSize[i] >= num} IN
  /\ appended = Len(Regions)
  /\ num # 0 /\ fit # {}
  /\ LET i     == Min(fit)
         start == Find0String(num, dwOccupMap[i])
         map   == dwOccupMap[i] \union Run(start, num) IN
     /\ start # PoolPages
     /\ dwOccupMap' = [dwOccupMap EXCEPT ![i] = map]
     /\ dwMaxBlockSize' = [dwMaxBlockSize EXCEPT ![i] = MaxAfterAllocate(map, @, num)]
     /\ lent' = lent \union {[pool |-> i, start |-> start, num |-> num]}
  /\ UNCHANGED bufferVars

\* KMemFree of a run: clients give back what they were lent, with its size.
_4kFree(run) ==
  /\ run \in lent
  /\ LET map == dwOccupMap[run.pool] \ Run(run.start, run.num) IN
     /\ dwOccupMap' = [dwOccupMap EXCEPT ![run.pool] = map]
     /\ dwMaxBlockSize' = [dwMaxBlockSize EXCEPT ![run.pool] = LongestFreeRun(map)]
  /\ lent' = lent \ {run}
  /\ UNCHANGED bufferVars

-----------------------------------------------------------------------------
MemNext ==
  \/ AppendBuffer
  \/ \E dwSize \in Sizes : Allocate(dwSize)
  \/ \E a \in DOMAIN used : KMemFree(a)
  \/ \E num \in 1..PoolPages : _4kAllocate(num)
  \/ \E run \in lent : _4kFree(run)

MemSpec == MemInit /\ [][MemNext]_memVars

-----------------------------------------------------------------------------
(* Properties.                                                              *)

Extent(a, size) == a..a + size + Header - 1
Payload(a, size) == a + Header..a + Header + size - 1
Blocks == DOMAIN free \union DOMAIN used
BlockSize(a) == IF a \in DOMAIN free THEN free[a].size ELSE used[a]
Appended == {Regions[i] : i \in {j \in 1..appended :
                                   j = 1 \/ Regions[j].size >= Header + MinBuffer}}

\* Allocated and free blocks with their headers tile the regions: after any
\* sequence of splits and merges nothing overlaps and nothing is lost, and
\* dwFreeSize and dwFreeBlocks, which the merges maintain, are exact.
BlocksTileRegions ==
  /\ DOMAIN free \intersect DOMAIN used = {}
  /\ \A a, b \in Blocks : a < b => a + BlockSize(a) + Header <= b
  /\ UNION {Extent(a, BlockSize(a)) : a \in Blocks}
       = UNION {r.start..r.start + r.size - 1 : r \in Appended}
  /\ dwFreeBlocks = Cardinality(DOMAIN free)
  /\ dwFreeSize = Cardinality(UNION {Payload(a, free[a].size) : a \in DOMAIN free})

\* The pointers of the list reach every free block once, by rising address and
\* the same way back, and no two free blocks touch: a request fails only if no
\* contiguous free memory serves it, whichever neighbours were freed first.
FreeListIsCoalesced ==
  /\ Nth[Cardinality(DOMAIN free)] = NULL
  /\ {Nth[k] : k \in DOMAIN Nth} \ {NULL} = DOMAIN free
  /\ \A a \in DOMAIN free :
       LET n == free[a].next IN
       /\ free[a].prev = NULL <=> a = lpFreeBufferHeader
       /\ n # NULL => a + free[a].size + Header < n /\ free[n].prev = a

\* The bit maps hold exactly the pages that are lent out, no page twice, and
\* the cached size that decides whether a pool is searched is that of its
\* longest free run.
PoolsAreExact ==
  /\ \A i \in Pools :
       LET mine == {r \in lent : r.pool = i} IN
       /\ dwOccupMap[i] = UNION {Run(r.start, r.num) : r \in mine}
       /\ dwOccupMap[i] \subseteq Pages
       /\ \A r, q \in mine :
            r # q => Run(r.start, r.num) \intersect Run(q.start, q.num) = {}
       /\ dwMaxBlockSize[i] = LongestFreeRun(dwOccupMap[i])
=============================================================================
