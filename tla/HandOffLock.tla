---------------------------- MODULE HandOffLock ----------------------------
(***************************************************************************)
(* What the mutex promises: a recursive lock with one owner and a line of  *)
(* requesters.  A release passes the lock to the first in line, and only a *)
(* lock nobody is in line for becomes free, so nobody can jump the line.   *)
(* There is no counter, no thread status and no timer here.                *)
(***************************************************************************)
EXTENDS Naturals, Sequences, SequencesExt

CONSTANTS Threads, NoThread

VARIABLES owner, depth, line

lockVars == <<owner, depth, line>>

Init == owner = NoThread /\ depth = 0 /\ line = <<>>

Acquire(t) ==
  /\ owner = NoThread /\ line = <<>>
  /\ owner' = t /\ depth' = 1
  /\ UNCHANGED line

Reacquire(t) ==
  /\ owner = t
  /\ depth' = depth + 1
  /\ UNCHANGED <<owner, line>>

JoinLine(t) ==
  /\ owner \notin {NoThread, t}
  /\ ~Contains(line, t)
  /\ line' = Append(line, t)
  /\ UNCHANGED <<owner, depth>>

LeaveLine(t) ==
  /\ Contains(line, t)
  /\ line' = RemoveFirst(line, t)
  /\ UNCHANGED <<owner, depth>>

Release(t) ==
  /\ owner = t
  /\ \/ /\ depth > 1
        /\ depth' = depth - 1
        /\ UNCHANGED <<owner, line>>
     \/ /\ depth = 1 /\ line = <<>>
        /\ owner' = NoThread /\ depth' = 0
        /\ UNCHANGED line
     \/ /\ depth = 1 /\ line # <<>>
        /\ owner' = Head(line) /\ line' = Tail(line)
        /\ UNCHANGED depth

\* The lock is destroyed, or made again: nobody owns it, nobody is in line.
Reset == owner' = NoThread /\ depth' = 0 /\ line' = <<>>

Next ==
  \/ \E t \in Threads :
       Acquire(t) \/ Reacquire(t) \/ JoinLine(t) \/ LeaveLine(t) \/ Release(t)
  \/ Reset

Spec == Init /\ [][Next]_lockVars
=============================================================================
