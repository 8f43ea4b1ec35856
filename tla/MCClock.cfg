SPECIFICATION FairSpec
CONSTANTS
  Timers = {r1, r2}
  Sleepers = {s1, s2}
  Spans = {1, 2, 3}
  MaxTick = 9
  LastTick = 5
INVARIANTS
  NoteMatchesHeader
  NoTimerMissed
  NoSleeperMissed
PROPERTIES
  FiresOnTick
  SleepsToTheEnd
  InterruptEnds
CHECK_DEADLOCK FALSE
