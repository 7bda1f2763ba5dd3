\* Three requests on two actors: contention on one actor's lock while another
\* actor's entry comes and goes. No symmetry: liveness is checked.
SPECIFICATION FairSpec
CONSTANTS
  p1 = p1
  p2 = p2
  p3 = p3
  a1 = a1
  a2 = a2
  l1 = l1
  l2 = l2
  l3 = l3
  NoProc = NoProc
  NoActor = NoActor
  NoLock = NoLock
  Procs <- MCProcs
  Actors <- MCActors
  Locks <- MCLocks
INVARIANTS EntriesAreExact
PROPERTIES EveryRequestServed IsActorMutex
