--------------------------- MODULE BoundedChannel ---------------------------
(***************************************************************************)
(* What a mailbox promises about its messages: a channel of bounded        *)
(* capacity that delivers every message once, in the order they were sent. *)
(***************************************************************************)
EXTENDS Naturals, Sequences

CONSTANTS Messages, NoMessage, MaxSize

VARIABLES
  buffer,     \* sent and not yet delivered, oldest first
  capacity,   \* 0: the channel is gone
  delivered   \* the message delivered last

channelVars == <<buffer, capacity, delivered>>

Init == buffer = <<>> /\ capacity \in 1..MaxSize /\ delivered = NoMessage

Send(m) ==
  /\ Len(buffer) < capacity
  /\ buffer' = Append(buffer, m)
  /\ UNCHANGED <<capacity, delivered>>

Deliver ==
  /\ buffer # <<>>
  /\ delivered' = Head(buffer)
  /\ buffer' = Tail(buffer)
  /\ UNCHANGED capacity

\* Only an empty channel changes its capacity.
Resize ==
  /\ buffer = <<>>
  /\ capacity > 0 /\ capacity' \in 1..MaxSize
  /\ UNCHANGED <<buffer, delivered>>

Close == buffer' = <<>> /\ capacity' = 0 /\ UNCHANGED delivered

Next == (\E m \in Messages : Send(m)) \/ Deliver \/ Resize \/ Close

Spec == Init /\ [][Next]_channelVars
=============================================================================
