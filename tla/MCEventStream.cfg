\* A live subscription, and one that may resume at a cursor, over channels of
\* one event. Once the last event is added and everyone has left, all stops.
SPECIFICATION FairSpec
CONSTANTS
  Subs = {s1, s2}
  Resuming = {s2}
  Kinds = {"commit", "label", "sync"}
  MaxEvents = 3
  BufferSize = 1
  CrossoverSize = 1
INVARIANTS
  TypeOK
  InOrder
  NoGap
PROPERTIES
  CutOffEnds
CHECK_DEADLOCK FALSE
