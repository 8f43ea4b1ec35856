--------------------------- MODULE PriorityQueue ---------------------------
(***************************************************************************)
(* The priority queue of kernel/objqueue.c, on which every wait queue,     *)
(* ready queue, sleeping queue and timer queue of the kernel is built.     *)
(* A queue is the sequence of its elements from header to tail; the        *)
(* queue's own spin lock makes each operation one step, so the operations  *)
(* are pure functions of the sequence.  The priority an element was        *)
(* inserted with is given by the function pri.                           *)
(***************************************************************************)
EXTENDS Naturals, Sequences, SequencesExt

\* The scan starts at the tail and stops at the first element whose priority
\* is not lower, so elements of equal priority stay in order of arrival.
InsertIntoQueue(q, x, pri) ==
  InsertAt(q, 1 + SelectLastInSeq(q, LAMBDA y : pri[y] >= pri[x]), x)

ObjectInQueue(q, x) == Contains(q, x)

\* Only the first occurrence is taken out; an absent object changes nothing
\* (the C routine returns FALSE, which callers here see as ~ObjectInQueue).
DeleteFromQueue(q, x) == RemoveFirst(q, x)

\* GetHeaderElement returns the header and unlinks it.
HeaderElement(q) == Head(q)
WithoutHeader(q) == Tail(q)
=============================================================================
