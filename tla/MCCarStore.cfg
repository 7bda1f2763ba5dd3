SPECIFICATION Spec
CONSTANTS
  p1 = p1
  p2 = p2
  a1 = a1
  k1 = k1
  k2 = k2
  NoProc = NoProc
  NoActor = NoActor
  NoKey = NoKey
  Procs <- TwoProcs
  Actors <- OneActor
  Keys <- TwoKeys
  MaxCommits = 3
  ChunkSize = 1
SYMMETRY Symmetry
CONSTRAINT FewerCommits
INVARIANTS LinearHistory LockedReadFresh HeadReadable OnlyCommittedIsTold TreeHistory WipedStaysEmpty
PROPERTIES NoOverwrite IsRepoHistory
