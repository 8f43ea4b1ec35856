----------------------------- MODULE PageFrames -----------------------------
(***************************************************************************)
(* The page frame manager of kernel/memmgr.c: a buddy allocator.  Level l  *)
(* lists the free blocks of 2^l frames, newest first, and has a bit for    *)
(* every block that is free; a block is linked through the control records *)
(* of its first frame, whose fields keep their last values when the block  *)
(* leaves the list.  Each call is one critical section of the manager.     *)
(***************************************************************************)
EXTENDS Naturals, FiniteSetsExt

CONSTANTS
  FrameNum,       \* dwTotalFrameNum
  Top             \* PAGE_FRAME_BLOCK_NUM - 1: the highest level


Frames == 0..FrameNum - 1
Levels == 0..Top
NULL   == FrameNum

VARIABLES
  lists,            \* [head, next, prev, map]: the lists and the bit maps
  dwFreeFrameNum,
  lent              \* blocks that clients hold: [frame, level]

vars == <<lists, dwFreeFrameNum, lent>>

\* PageFrameMgrInit cuts the frames into the largest blocks from below.
InitialBlocks(l) ==
  IF l = Top THEN {k * 2^Top : k \in 0..(FrameNum \div 2^Top) - 1}
  ELSE IF (FrameNum \div 2^l) % 2 = 1 THEN {(FrameNum \div 2^(l + 1)) * 2^(l + 1)}
  ELSE {}

InitialLevel(f) == Min({l \in Levels : f \in InitialBlocks(l)} \union {Top})
MinOrNull(S) == IF S = {} THEN NULL ELSE Min(S)
MaxOrNull(S) == IF S = {} THEN NULL ELSE Max(S)

Init ==
  /\ lists = [head |-> [l \in Levels |-> MinOrNull(InitialBlocks(l))],
              next |-> [f \in Frames |->
                 MinOrNull({g \in InitialBlocks(InitialLevel(f)) : g > f})],
              prev |-> [f \in Frames |->
                 MaxOrNull({g \in InitialBlocks(InitialLevel(f)) : g < f})],
              map  |-> [l \in Levels |-> {f \div 2^l : f \in InitialBlocks(l)}]]
  /\ dwFreeFrameNum = FrameNum
  /\ lent = {}

-----------------------------------------------------------------------------
(* Lists and buddies.                                                       *)

LevelOf(pages) == Min({l \in Levels : pages <= 2^l})
Index(f, l)    == f \div 2^l
Buddy(f, l)    == LET k == Index(f, l) IN (IF k % 2 = 1 THEN k - 1 ELSE k + 1) * 2^l
IsFree(s, f, l) == Index(f, l) \in s.map[l]

\* The block becomes the header of its level, and its bit is set.
Insert(s, f, l) ==
  [s EXCEPT !.head[l] = f,
            !.next[f] = s.head[l],
            !.prev = [g \in Frames |-> IF g = s.head[l] THEN f
                                       ELSE IF g = f THEN NULL ELSE @[g]],
            !.map[l] = @ \union {Index(f, l)}]

\* Deletion of the header in __FrameAlloc: if there is another block, the
\* lpPrevFrame that is reset is the one of the header itself.
DeleteHeader(s, l) ==
  LET f == s.head[l] IN
  [s EXCEPT !.head[l] = s.next[f],
            !.prev[f] = IF s.next[f] # NULL THEN NULL ELSE @,
            !.map[l] = @ \ {Index(f, l)}]

\* Deletion of a buddy in __FrameFree: lpPrevFrame tells whether it is first.
DeleteBuddy(s, f, l) ==
  [s EXCEPT !.head[l] = IF s.prev[f] = NULL THEN s.next[f] ELSE @,
            !.next = [g \in Frames |-> IF g = s.prev[f] THEN s.next[f] ELSE @[g]],
            !.prev = [g \in Frames |-> IF g = s.next[f] THEN s.prev[f] ELSE @[g]],
            !.map[l] = @ \ {Index(f, l)}]

-----------------------------------------------------------------------------
(* The two operations.                                                      *)

\* The upper halves of a block of level j, down to level i, become free.
Split(s, f, i, j) ==
  LET after[l \in i..j] == IF l = j THEN s
                           ELSE Insert(after[l + 1], f + 2^l, l)
  IN after[i]

__FrameAlloc(dwSize) ==
  LET i   == LevelOf(dwSize)
      fit == {j \in i..Top : lists.head[j] # NULL} IN
  /\ fit # {}
  /\ LET j == Min(fit)
         f == lists.head[j] IN
     /\ lists' = Split(DeleteHeader(lists, j), f, i, j)
     /\ lent' = lent \union {[frame |-> f, level |-> i]}
  /\ dwFreeFrameNum' = dwFreeFrameNum - 2^i

\* A block that comes back is merged with its buddy as long as that is free.
Combine(s, f, i) ==
  LET after[l \in i..Top] ==
        IF l = i THEN [frame |-> f, lists |-> s, level |-> i]
        ELSE LET a == after[l - 1]
                 b == Buddy(a.frame, l - 1) IN
             IF a.level = l - 1 /\ IsFree(a.lists, b, l - 1)
             THEN [frame |-> IF b < a.frame THEN b ELSE a.frame,
                   lists |-> DeleteBuddy(a.lists, b, l - 1),
                   level |-> l]
             ELSE a
  IN after[Top]

\* Clients give back what they were given, with its size.
__FrameFree(block) ==
  /\ block \in lent
  /\ LET c == Combine(lists, block.frame, block.level)
     IN lists' = Insert(c.lists, c.frame, c.level)
  /\ dwFreeFrameNum' = dwFreeFrameNum + 2^block.level
  /\ lent' = lent \ {block}

Next ==
  \/ \E dwSize \in 1..2^Top : __FrameAlloc(dwSize)
  \/ \E block \in lent : __FrameFree(block)

Spec == Init /\ [][Next]_vars

-----------------------------------------------------------------------------
(* Properties.                                                              *)

\* What one meets on the way through the list of level l.
Listed(l) ==
  LET nth[k \in 0..FrameNum] ==
        IF k = 0 THEN lists.head[l]
        ELSE IF nth[k - 1] = NULL THEN NULL ELSE lists.next[nth[k - 1]]
  IN {nth[k] : k \in 0..FrameNum} \ {NULL}

\* A block that was allocated, or combined with its buddy, has left its list:
\* the free blocks of a level are those on its list.
DeletedFromList ==
  \A l \in Levels : Listed(l) = {f \in Frames : f % 2^l = 0 /\ IsFree(lists, f, l)}
=============================================================================
