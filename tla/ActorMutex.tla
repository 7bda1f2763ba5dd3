------------------------------ MODULE ActorMutex ------------------------------
(* What Manager.lockActor (repo/manager.go) promises its callers: one lock per *)
(* actor, held by at most one request at a time, locks of different actors     *)
(* being independent of each other.                                            *)
EXTENDS Naturals

CONSTANTS Procs,   \* the goroutines serving requests
          Actors,  \* the actor ids (atp.Aid)
          NoProc   \* "nobody"

VARIABLE owner     \* owner[a]: the request that may touch actor a's repo

Init == owner = [a \in Actors |-> NoProc]

Acquire(p, a) ==
  /\ owner[a] = NoProc
  /\ \A b \in Actors : owner[b] # p
  /\ owner' = [owner EXCEPT ![a] = p]

Release(p, a) ==
  /\ owner[a] = p
  /\ owner' = [owner EXCEPT ![a] = NoProc]

Next == \E p \in Procs, a \in Actors : Acquire(p, a) \/ Release(p, a)

Spec == Init /\ [][Next]_owner
===============================================================================
