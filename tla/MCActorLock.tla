------------------------------ MODULE MCActorLock ------------------------------
(* A small instance of ActorLock: three requests, two actors.                  *)
EXTENDS ActorLock

CONSTANTS p1, p2, p3, a1, a2, l1, l2, l3

MCProcs == {p1, p2, p3}
MCActors == {a1, a2}
MCLocks == {l1, l2, l3}
===============================================================================
