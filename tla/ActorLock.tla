------------------------------- MODULE ActorLock -------------------------------
(* Manager.lockActor (user_service/internal/repo/manager.go): the per-actor    *)
(* lock every repo operation takes. A map from actor to a reference-counted    *)
(* lock object is guarded by the map mutex lklk; the object's own mutex is     *)
(* waited for outside lklk, so between counting itself in and owning the lock  *)
(* a request relies on nobody removing the entry it waits on.                  *)
EXTENDS Naturals, FiniteSets

CONSTANTS Procs,    \* the goroutines serving requests
          Actors,   \* the actor ids
          Locks,    \* the *actorLock objects the allocator can hand out
          NoProc, NoActor, NoLock

ASSUME ProcsAssumption ==
  /\ IsFiniteSet(Procs)
  /\ NoProc \notin Procs /\ NoActor \notin Actors /\ NoLock \notin Locks

VARIABLES lklk,        \* holder of the map mutex
          actorLocks,  \* the map: actor -> lock object, NoLock when absent
          count,       \* actorLock.count of every object
          held,        \* holder of the object's own mutex lk
          pc,          \* where each request is in lockActor or in its unlock
          actor,       \* the actor the request is about
          ulk          \* the request's pointer to the lock object

vars == <<lklk, actorLocks, count, held, pc, actor, ulk>>

(* Program points: "enter" waits for lklk in lockActor, "find" holds it,       *)
(* "wait" waits for the object's mutex, "critical" is the repo operation,      *)
(* "leave" waits for lklk in the returned unlock closure, "unlock" and "drop"  *)
(* are its two halves under lklk.                                              *)
Points == {"idle", "enter", "find", "wait", "critical", "leave", "unlock", "drop"}
Referring == {"wait", "critical", "leave", "unlock", "drop"}
Owning == {"critical", "leave", "unlock"}

Goto(p, point) == pc' = [pc EXCEPT ![p] = point]

Init ==
  /\ lklk = NoProc
  /\ actorLocks = [a \in Actors |-> NoLock]
  /\ count = [l \in Locks |-> 0]
  /\ held = [l \in Locks |-> NoProc]
  /\ pc = [p \in Procs |-> "idle"]
  /\ actor = [p \in Procs |-> NoActor]
  /\ ulk = [p \in Procs |-> NoLock]

(* An object nothing points to any more is garbage; a new one is zeroed.       *)
Unreferenced(l) ==
  /\ \A a \in Actors : actorLocks[a] # l
  /\ \A p \in Procs : ulk[p] # l

Request(p, a) ==
  /\ pc[p] = "idle"
  /\ actor' = [actor EXCEPT ![p] = a]
  /\ Goto(p, "enter")
  /\ UNCHANGED <<lklk, actorLocks, count, held, ulk>>

(* rm.lklk.Lock(), on the way in and on the way out.                           *)
LockMap(p) ==
  /\ lklk = NoProc
  /\ \/ pc[p] = "enter" /\ Goto(p, "find")
     \/ pc[p] = "leave" /\ Goto(p, "unlock")
  /\ lklk' = p
  /\ UNCHANGED <<actorLocks, count, held, actor, ulk>>

(* Mutant: a request joining an entry does not count itself in.                *)
JoinUncounted(p) ==
  /\ pc[p] = "find" /\ actorLocks[actor[p]] # NoLock
  /\ ulk' = [ulk EXCEPT ![p] = actorLocks[actor[p]]]
  /\ lklk' = NoProc
  /\ Goto(p, "wait")
  /\ UNCHANGED <<actorLocks, count, held, actor>>

(* The entry is there: count this request in and release lklk.                 *)
JoinEntry(p) ==
  LET l == actorLocks[actor[p]] IN
  /\ pc[p] = "find"
  /\ l # NoLock
  /\ ulk' = [ulk EXCEPT ![p] = l]
  /\ count' = [count EXCEPT ![l] = @ + 1]
  /\ lklk' = NoProc
  /\ Goto(p, "wait")
  /\ UNCHANGED <<actorLocks, held, actor>>

(* No entry: store &actorLock{} in the map and count this request in.          *)
NewEntry(p) ==
  /\ pc[p] = "find"
  /\ actorLocks[actor[p]] = NoLock
  /\ \E l \in Locks :
       /\ Unreferenced(l)
       /\ actorLocks' = [actorLocks EXCEPT ![actor[p]] = l]
       /\ ulk' = [ulk EXCEPT ![p] = l]
       /\ count' = [count EXCEPT ![l] = 1]
       /\ held' = [held EXCEPT ![l] = NoProc]
  /\ lklk' = NoProc
  /\ Goto(p, "wait")
  /\ UNCHANGED actor

(* ulk.lk.Lock(), outside lklk.                                                *)
LockActor(p) ==
  /\ pc[p] = "wait"
  /\ held[ulk[p]] = NoProc
  /\ held' = [held EXCEPT ![ulk[p]] = p]
  /\ Goto(p, "critical")
  /\ UNCHANGED <<lklk, actorLocks, count, actor, ulk>>

(* The repo operation returns and its deferred unlock() starts.                *)
Finish(p) ==
  /\ pc[p] = "critical"
  /\ Goto(p, "leave")
  /\ UNCHANGED <<lklk, actorLocks, count, held, actor, ulk>>

(* Mutant: the closure only counts the request out and leaves lk locked.       *)
ForgetUnlock(p) ==
  /\ pc[p] = "unlock"
  /\ Goto(p, "drop")
  /\ UNCHANGED <<lklk, actorLocks, count, held, actor, ulk>>

(* ulk.lk.Unlock(), under lklk: a waiter may get the lock before "drop" runs.  *)
UnlockActor(p) ==
  /\ pc[p] = "unlock"
  /\ held' = [held EXCEPT ![ulk[p]] = NoProc]
  /\ Goto(p, "drop")
  /\ UNCHANGED <<lklk, actorLocks, count, actor, ulk>>

(* Mutant: the zero test reads the count before it is decremented.             *)
DropTooFew(p) ==
  LET l == ulk[p] IN
  /\ pc[p] = "drop"
  /\ count' = [count EXCEPT ![l] = @ - 1]
  /\ actorLocks' = IF count[l] = 0 THEN [actorLocks EXCEPT ![actor[p]] = NoLock]
                                   ELSE actorLocks
  /\ lklk' = NoProc
  /\ ulk' = [ulk EXCEPT ![p] = NoLock]
  /\ actor' = [actor EXCEPT ![p] = NoActor]
  /\ Goto(p, "idle")
  /\ UNCHANGED held

(* ulk.count--, delete the entry at zero, rm.lklk.Unlock().                    *)
DropEntry(p) ==
  LET l == ulk[p] IN
  /\ pc[p] = "drop"
  /\ count' = [count EXCEPT ![l] = @ - 1]
  /\ actorLocks' = IF count[l] = 1 THEN [actorLocks EXCEPT ![actor[p]] = NoLock]
                                   ELSE actorLocks
  /\ lklk' = NoProc
  /\ ulk' = [ulk EXCEPT ![p] = NoLock]
  /\ actor' = [actor EXCEPT ![p] = NoActor]
  /\ Goto(p, "idle")
  /\ UNCHANGED held

Step(p) ==
  \/ LockMap(p) \/ JoinEntry(p) \/ NewEntry(p) \/ LockActor(p)
  \/ Finish(p) \/ UnlockActor(p) \/ DropEntry(p)

Next == \E p \in Procs : Step(p) \/ \E a \in Actors : Request(p, a)

Spec == Init /\ [][Next]_vars

(* A waiter on a Go sync.Mutex is handed the lock once it has waited for 1 ms  *)
(* (starvation mode), so an acquisition enabled again and again succeeds; the  *)
(* operation itself ends, its request context having a timeout.                *)
Fairness ==
  \A p \in Procs : /\ SF_vars(LockMap(p)) /\ SF_vars(LockActor(p))
                   /\ WF_vars(JoinEntry(p)) /\ WF_vars(NewEntry(p)) /\ WF_vars(Finish(p))
                   /\ WF_vars(UnlockActor(p)) /\ WF_vars(DropEntry(p))

FairSpec == Spec /\ Fairness

-------------------------------------------------------------------------------
(* Every variable has its type.                                                *)
TypeOK ==
  /\ lklk \in Procs \cup {NoProc}
  /\ actorLocks \in [Actors -> Locks \cup {NoLock}]
  /\ count \in [Locks -> Nat]
  /\ held \in [Locks -> Procs \cup {NoProc}]
  /\ pc \in [Procs -> Points]
  /\ actor \in [Procs -> Actors \cup {NoActor}]
  /\ ulk \in [Procs -> Locks \cup {NoLock}]

(* Two requests never run a repo operation on one actor at the same time,      *)
(* although entries are removed and recreated while others wait: what every    *)
(* `unlock := rm.lockActor(ctx, actor); defer unlock()` relies on.             *)
MutualExclusion ==
  \A p, q \in Procs :
    p # q /\ pc[p] \in Owning /\ pc[q] \in Owning => actor[p] # actor[q]

(* A request counted in keeps pointing at the entry in the map: nobody deletes *)
(* or replaces the entry under a waiter, so a newcomer queues on the same lock.*)
EntryStays ==
  \A p \in Procs :
    pc[p] \in Referring => ulk[p] = actorLocks[actor[p]] /\ ulk[p] # NoLock

(* An actor's entry is in the map only while a request for it is under way:    *)
(* the map does not grow with the actors ever served.                          *)
NoLeakedEntry ==
  \A a \in Actors :
    actorLocks[a] # NoLock => \E p \in Procs : actor[p] = a /\ pc[p] \in Referring

(* Together: an actor's entry is in the map, and is one and the same, exactly  *)
(* from its first request's arrival to its last one's departure.               *)
EntriesAreExact == EntryStays /\ NoLeakedEntry

(* A request that asks for an actor's lock gets it, whatever the others do.    *)
EveryRequestServed ==
  \A p \in Procs : pc[p] = "enter" ~> pc[p] = "critical"

(* lockActor implements one independent mutex per actor.                       *)
owner == [a \in Actors |->
            IF \E p \in Procs : actor[p] = a /\ pc[p] \in Owning
              THEN CHOOSE p \in Procs : actor[p] = a /\ pc[p] \in Owning
              ELSE NoProc]
Mutex == INSTANCE ActorMutex
IsActorMutex == Mutex!Spec

===============================================================================
