---------------------------- MODULE ActorLockProofs ----------------------------
(* Mutual exclusion of Manager.lockActor for any number of requests, actors    *)
(* and lock objects.                                                           *)
EXTENDS ActorLock, FiniteSetTheorems, TLAPS

(* The requests that hold a pointer to l: what l.count counts.                 *)
Referrers(l) == {p \in Procs : ulk[p] = l}

(* lklk is held exactly by the request inside one of its critical sections.    *)
MapGuarded == \A p \in Procs : pc[p] \in {"find", "unlock", "drop"} <=> lklk = p

Pointers ==
  \A p \in Procs : /\ pc[p] # "idle" => actor[p] \in Actors
                   /\ pc[p] \notin Referring => ulk[p] = NoLock

Counted == \A l \in Locks : count[l] = Cardinality(Referrers(l))

OwnersHold == \A p \in Procs : pc[p] \in Owning => held[ulk[p]] = p

(* No object is shared by two actors.                                          *)
EntriesDistinct ==
  \A a, b \in Actors : actorLocks[a] = actorLocks[b] /\ actorLocks[a] # NoLock => a = b

IInv == /\ TypeOK /\ MapGuarded /\ Pointers /\ EntryStays /\ Counted
        /\ OwnersHold /\ EntriesDistinct /\ NoLeakedEntry

-------------------------------------------------------------------------------
(* The initial state satisfies the inductive invariant: nobody refers to any   *)
(* object.                                                                     *)
LEMMA InitIInv == Init => IInv
<1> SUFFICES ASSUME Init PROVE IInv
  OBVIOUS
<1>1. Counted
  <2> SUFFICES ASSUME NEW l \in Locks PROVE count[l] = Cardinality(Referrers(l))
    BY DEF Counted
  <2>1. Referrers(l) = {}
    BY ProcsAssumption DEF Init, Referrers
  <2> QED
    BY <2>1, FS_EmptySet DEF Init
<1> QED
  BY <1>1, ProcsAssumption DEF Init, IInv, TypeOK, MapGuarded, Pointers, EntryStays, OwnersHold,
     EntriesDistinct, NoLeakedEntry, Points, Referring, Owning

(* A request that lets go of an object leaves one reference less.              *)
LEMMA RemoveReferrer ==
  ASSUME NEW p \in Procs, NEW l, p \in Referrers(l)
  PROVE  /\ Cardinality(Referrers(l) \ {p}) = Cardinality(Referrers(l)) - 1
         /\ Cardinality(Referrers(l)) # 1 => Referrers(l) \ {p} # {}
<1>1. IsFiniteSet(Referrers(l))
  BY ProcsAssumption, FS_Subset DEF Referrers
<1> QED
  BY <1>1, FS_RemoveElement, FS_EmptySet, FS_CardinalityType

(* A step whose references do not change leaves the counts right.              *)
LEMMA SameReferrers ==
  ASSUME Counted, UNCHANGED <<count, ulk>>
  PROVE  Counted'
BY DEF Counted, Referrers

(* Typing is inductive given that a decremented count was positive.            *)
LEMMA TypeStep ==
  ASSUME IInv, NEW p \in Procs, Step(p) \/ \E a \in Actors : Request(p, a)
  PROVE  TypeOK'
<1> USE DEF TypeOK, Goto, Points
<1>1. CASE \E a \in Actors : Request(p, a)
  BY <1>1 DEF IInv, Request
<1>2. CASE LockMap(p)
  BY <1>2 DEF IInv, LockMap
<1>3. CASE JoinEntry(p)
  <2>1. actorLocks[actor[p]] \in Locks
    BY <1>3 DEF IInv, Pointers, JoinEntry
  <2> QED
    BY <1>3, <2>1 DEF IInv, JoinEntry
<1>4. CASE NewEntry(p)
  BY <1>4 DEF IInv, NewEntry, Pointers
<1>5. CASE LockActor(p)
  BY <1>5 DEF IInv, LockActor, EntryStays, Referring
<1>6. CASE Finish(p)
  BY <1>6 DEF IInv, Finish
<1>7. CASE UnlockActor(p)
  BY <1>7 DEF IInv, UnlockActor
<1>8. CASE DropEntry(p)
  <2>1. ulk[p] \in Locks /\ p \in Referrers(ulk[p])
    BY <1>8 DEF IInv, DropEntry, EntryStays, Referring, Referrers
  <2>2. IsFiniteSet(Referrers(ulk[p])) /\ IsFiniteSet(Referrers(ulk[p]) \ {p})
    BY ProcsAssumption, FS_Subset, FS_RemoveElement DEF Referrers
  <2>3. count[ulk[p]] - 1 \in Nat
    BY <2>1, <2>2, RemoveReferrer, FS_CardinalityType DEF IInv, Counted
  <2> QED
    BY <1>8, <2>1, <2>3 DEF IInv, DropEntry
<1> QED
  BY <1>1, <1>2, <1>3, <1>4, <1>5, <1>6, <1>7, <1>8 DEF Step

-------------------------------------------------------------------------------
(* Every step of every request preserves the inductive invariant.              *)
LEMMA StepIInv == IInv /\ [Next]_vars => IInv'
<1> SUFFICES ASSUME IInv, [Next]_vars PROVE IInv'
  OBVIOUS
<1> USE DEF Goto, Points, Referring, Owning
<1>0. CASE UNCHANGED vars
  BY <1>0 DEF vars, IInv, TypeOK, MapGuarded, Pointers, EntryStays, Counted, Referrers,
     OwnersHold, EntriesDistinct, NoLeakedEntry
<1> SUFFICES ASSUME NEW p \in Procs, Step(p) \/ \E a \in Actors : Request(p, a)
             PROVE  IInv'
  BY <1>0 DEF Next
<1>t. TypeOK'
  BY TypeStep
<1>1. ASSUME NEW a \in Actors, Request(p, a) PROVE IInv'
  <2> USE <1>1 DEF Request, IInv, TypeOK
  <2>1. MapGuarded' BY DEF MapGuarded
  <2>2. Pointers' BY DEF Pointers
  <2>3. EntryStays' BY DEF EntryStays
  <2>4. Counted' BY SameReferrers
  <2>5. OwnersHold' BY DEF OwnersHold
  <2>6. EntriesDistinct' BY DEF EntriesDistinct
  <2>7. NoLeakedEntry' BY DEF NoLeakedEntry
  <2> QED BY <1>t, <2>1, <2>2, <2>3, <2>4, <2>5, <2>6, <2>7
<1>2. CASE LockMap(p)
  <2> USE <1>2 DEF LockMap, IInv, TypeOK
  <2>1. MapGuarded' BY ProcsAssumption DEF MapGuarded
  <2>2. Pointers' BY DEF Pointers
  <2>3. EntryStays' BY DEF EntryStays
  <2>4. Counted' BY SameReferrers
  <2>5. OwnersHold' BY DEF OwnersHold
  <2>6. EntriesDistinct' BY DEF EntriesDistinct
  <2>7. NoLeakedEntry' BY DEF NoLeakedEntry
  <2> QED BY <1>t, <2>1, <2>2, <2>3, <2>4, <2>5, <2>6, <2>7
<1>3. CASE JoinEntry(p)
  <2> DEFINE l == actorLocks[actor[p]]
  <2> USE <1>3 DEF JoinEntry, IInv, TypeOK
  <2>0. l \in Locks /\ ulk[p] = NoLock BY DEF Pointers
  <2>1. MapGuarded' BY ProcsAssumption DEF MapGuarded
  <2>2. Pointers' BY DEF Pointers
  <2>3. EntryStays' BY DEF EntryStays
  <2>4. ASSUME NEW m \in Locks PROVE count'[m] = Cardinality(Referrers(m)')
    <3>1. CASE m = l
      <4>1. Referrers(m)' = Referrers(m) \cup {p} /\ p \notin Referrers(m)
        BY <2>0, <3>1, ProcsAssumption DEF Referrers
      <4>2. IsFiniteSet(Referrers(m))
        BY ProcsAssumption, FS_Subset DEF Referrers
      <4>3. Cardinality(Referrers(m) \cup {p}) = Cardinality(Referrers(m)) + 1
        BY ONLY <4>1, <4>2, FS_AddElement
      <4> QED
        BY <3>1, <4>1, <4>3 DEF Counted
    <3>2. CASE m # l
      <4>1. Referrers(m)' = Referrers(m)
        BY <2>0, <3>2, ProcsAssumption DEF Referrers
      <4> QED
        BY <3>2, <4>1 DEF Counted
    <3> QED BY <3>1, <3>2
  <2>5. OwnersHold' BY DEF OwnersHold
  <2>6. EntriesDistinct' BY DEF EntriesDistinct
  <2>7. NoLeakedEntry' BY DEF NoLeakedEntry
  <2> QED BY <1>t, <2>1, <2>2, <2>3, <2>4, <2>5, <2>6, <2>7 DEF Counted
<1>4. CASE NewEntry(p)
  <2>0. PICK l \in Locks :
          /\ Unreferenced(l)
          /\ actorLocks' = [actorLocks EXCEPT ![actor[p]] = l]
          /\ ulk' = [ulk EXCEPT ![p] = l]
          /\ count' = [count EXCEPT ![l] = 1]
          /\ held' = [held EXCEPT ![l] = NoProc]
    BY <1>4 DEF NewEntry
  <2> USE <1>4, <2>0 DEF NewEntry, IInv, TypeOK
  <2>a. actor[p] \in Actors /\ ulk[p] = NoLock BY DEF Pointers
  <2>1. MapGuarded' BY ProcsAssumption DEF MapGuarded
  <2>2. Pointers' BY DEF Pointers
  <2>3. EntryStays' BY <2>a, ProcsAssumption DEF EntryStays, Pointers
  <2>4. ASSUME NEW m \in Locks PROVE count'[m] = Cardinality(Referrers(m)')
    <3>1. CASE m = l
      <4>1. Referrers(m) = {} /\ Referrers(m)' = Referrers(m) \cup {p}
        BY <3>1 DEF Referrers, Unreferenced
      <4>2. IsFiniteSet(Referrers(m)) /\ Cardinality(Referrers(m)) = 0 /\ p \notin Referrers(m)
        BY <4>1, FS_EmptySet
      <4>3. Cardinality(Referrers(m) \cup {p}) = Cardinality(Referrers(m)) + 1
        BY ONLY <4>2, FS_AddElement
      <4> QED
        BY <3>1, <4>1, <4>2, <4>3
    <3>2. CASE m # l
      <4>1. Referrers(m)' = Referrers(m)
        BY <2>a, <3>2, ProcsAssumption DEF Referrers
      <4> QED
        BY <3>2, <4>1 DEF Counted
    <3> QED BY <3>1, <3>2
  <2>5. OwnersHold' BY <2>a DEF OwnersHold, Unreferenced
  <2>6. EntriesDistinct' BY <2>a DEF EntriesDistinct, Unreferenced
  <2>7. NoLeakedEntry' BY <2>a DEF NoLeakedEntry
  <2> QED BY <1>t, <2>1, <2>2, <2>3, <2>4, <2>5, <2>6, <2>7 DEF Counted
<1>5. CASE LockActor(p)
  <2> USE <1>5 DEF LockActor, IInv, TypeOK
  <2>0. ulk[p] \in Locks BY DEF EntryStays
  <2>1. MapGuarded' BY DEF MapGuarded
  <2>2. Pointers' BY DEF Pointers
  <2>3. EntryStays' BY DEF EntryStays
  <2>4. Counted' BY SameReferrers
  <2>5. OwnersHold' BY <2>0, ProcsAssumption DEF OwnersHold
  <2>6. EntriesDistinct' BY DEF EntriesDistinct
  <2>7. NoLeakedEntry' BY DEF NoLeakedEntry
  <2> QED BY <1>t, <2>1, <2>2, <2>3, <2>4, <2>5, <2>6, <2>7
<1>6. CASE Finish(p)
  <2> USE <1>6 DEF Finish, IInv, TypeOK
  <2>1. MapGuarded' BY DEF MapGuarded
  <2>2. Pointers' BY DEF Pointers
  <2>3. EntryStays' BY DEF EntryStays
  <2>4. Counted' BY SameReferrers
  <2>5. OwnersHold' BY DEF OwnersHold
  <2>6. EntriesDistinct' BY DEF EntriesDistinct
  <2>7. NoLeakedEntry' BY DEF NoLeakedEntry
  <2> QED BY <1>t, <2>1, <2>2, <2>3, <2>4, <2>5, <2>6, <2>7
<1>7. CASE UnlockActor(p)
  <2> USE <1>7 DEF UnlockActor, IInv, TypeOK
  <2>1. MapGuarded' BY DEF MapGuarded
  <2>2. Pointers' BY DEF Pointers
  <2>3. EntryStays' BY DEF EntryStays
  <2>4. Counted' BY SameReferrers
  <2>5. OwnersHold' BY DEF OwnersHold
  <2>6. EntriesDistinct' BY DEF EntriesDistinct
  <2>7. NoLeakedEntry' BY DEF NoLeakedEntry
  <2> QED BY <1>t, <2>1, <2>2, <2>3, <2>4, <2>5, <2>6, <2>7
<1>8. CASE DropEntry(p)
  <2> DEFINE l == ulk[p]
  <2> USE <1>8 DEF DropEntry, IInv, TypeOK
  <2>0. l \in Locks /\ l = actorLocks[actor[p]] /\ actor[p] \in Actors /\ p \in Referrers(l)
    BY DEF EntryStays, Pointers, Referrers
  <2>a. count[l] = Cardinality(Referrers(l)) BY <2>0 DEF Counted
  (* The entry goes only with its last referrer.                               *)
  <2>b. ASSUME count[l] = 1 PROVE EntryStays' /\ NoLeakedEntry' /\ EntriesDistinct'
    <3>1. \A q \in Procs : ulk[q] = l => q = p
      <4>a. IsFiniteSet(Referrers(l)) /\ p \in Referrers(l)
        BY <2>0, ProcsAssumption, FS_Subset DEF Referrers
      <4>b. Cardinality(Referrers(l)) = 1
        BY <2>a, <2>b
      <4>1. IsFiniteSet(Referrers(l) \ {p}) /\ Cardinality(Referrers(l) \ {p}) = 0
        BY ONLY <4>a, <4>b, FS_RemoveElement
      <4>2. Referrers(l) \ {p} = {}
        BY <4>1, FS_EmptySet
      <4> QED
        BY <4>2 DEF Referrers
    <3>2. EntryStays' BY <2>0, <2>b, <3>1, ProcsAssumption DEF EntryStays
    <3>3. NoLeakedEntry' BY <2>0, <2>b, <3>1 DEF NoLeakedEntry, EntryStays
    <3>4. EntriesDistinct' BY <2>0, <2>b DEF EntriesDistinct
    <3> QED BY <3>2, <3>3, <3>4
  <2>c. ASSUME count[l] # 1 PROVE EntryStays' /\ NoLeakedEntry' /\ EntriesDistinct'
    <3>0. Referrers(l) \ {p} # {}
      BY <2>0, <2>a, <2>c, RemoveReferrer
    <3>1. PICK q \in Procs : q # p /\ ulk[q] = l
      BY <3>0 DEF Referrers
    <3>2. EntryStays' BY <2>0, <2>c, ProcsAssumption DEF EntryStays
    <3>3. pc[q] \in Referring /\ actor[q] = actor[p]
      BY <2>0, <3>1, ProcsAssumption DEF Pointers, EntryStays, EntriesDistinct
    <3>4. NoLeakedEntry' BY <2>0, <2>c, <3>1, <3>3 DEF NoLeakedEntry
    <3>5. EntriesDistinct' BY <2>0, <2>c DEF EntriesDistinct
    <3> QED BY <3>2, <3>4, <3>5
  <2>1. MapGuarded' BY ProcsAssumption DEF MapGuarded
  <2>2. Pointers' BY DEF Pointers
  <2>4. ASSUME NEW m \in Locks PROVE count'[m] = Cardinality(Referrers(m)')
    <3>1. CASE m = l
      <4>1. Referrers(m)' = Referrers(m) \ {p}
        BY <2>0, <3>1, ProcsAssumption DEF Referrers
      <4> QED
        BY <2>0, <2>a, <3>1, <4>1, RemoveReferrer
    <3>2. CASE m # l
      <4>1. Referrers(m)' = Referrers(m)
        BY <2>0, <3>2, ProcsAssumption DEF Referrers
      <4> QED
        BY <3>2, <4>1 DEF Counted
    <3> QED BY <3>1, <3>2
  <2>5. OwnersHold' BY DEF OwnersHold
  <2> QED BY <1>t, <2>1, <2>2, <2>b, <2>c, <2>4, <2>5 DEF Counted
<1> QED
  BY <1>1, <1>2, <1>3, <1>4, <1>5, <1>6, <1>7, <1>8 DEF Step

-------------------------------------------------------------------------------
(* The inductive invariant holds in every reachable state.                     *)
THEOREM Invariance == Spec => []IInv
<1> QED
  BY InitIInv, StepIInv, PTL DEF Spec

(* Two requests never run a repo operation on one actor at the same time.      *)
THEOREM MutualExclusionHolds == Spec => []MutualExclusion
<1>1. IInv => MutualExclusion
  BY DEF IInv, MutualExclusion, OwnersHold, EntryStays, Owning, Referring
<1> QED
  BY <1>1, Invariance, PTL

(* No entry is replaced under a waiter, and none outlives its requests.        *)
THEOREM EntriesHold == Spec => []EntriesAreExact
<1>1. IInv => EntriesAreExact
  BY DEF IInv, EntriesAreExact
<1> QED
  BY <1>1, Invariance, PTL
-------------------------------------------------------------------------------
(* Refinement: the owner of an actor in ActorMutex is the request between its  *)
(* ulk.lk.Lock() and its ulk.lk.Unlock().                                      *)
OwnsActor(p, a) == actor[p] = a /\ pc[p] \in Owning

OwnerFact ==
  /\ owner \in [Actors -> Procs \cup {NoProc}]
  /\ \A a \in Actors, p \in Procs : owner[a] = p <=> OwnsActor(p, a)

(* owner[a] is the one request that owns a.                                    *)
LEMMA OwnerIsOwner == IInv => OwnerFact
<1> SUFFICES ASSUME IInv PROVE OwnerFact
  OBVIOUS
<1>1. MutualExclusion
  BY DEF IInv, MutualExclusion, OwnersHold, EntryStays, Owning, Referring
<1>2. ASSUME NEW a \in Actors
      PROVE  /\ owner[a] \in Procs \cup {NoProc}
             /\ \A p \in Procs : owner[a] = p <=> OwnsActor(p, a)
  <2> DEFINE Owner(p) == actor[p] = a /\ pc[p] \in Owning
  <2>1. CASE \E p \in Procs : Owner(p)
    <3>1. owner[a] = CHOOSE p \in Procs : Owner(p)
      BY <2>1 DEF owner
    <3>2. owner[a] \in Procs /\ Owner(owner[a])
      BY <2>1, <3>1
    <3>3. \A p, q \in Procs : Owner(p) /\ Owner(q) => p = q
      BY <1>1 DEF MutualExclusion
    <3> QED
      BY <3>2, <3>3 DEF OwnsActor
  <2>2. CASE ~ \E p \in Procs : Owner(p)
    BY <2>2, ProcsAssumption DEF owner, OwnsActor
  <2> QED
    BY <2>1, <2>2
<1>3. owner = [a \in Actors |-> owner[a]]
  BY DEF owner
<1> QED
  BY <1>2, <1>3 DEF OwnerFact

(* A step that changes no ownership leaves ActorMutex's state as it is.        *)
LEMMA SameOwners ==
  ASSUME OwnerFact, OwnerFact',
         \A q \in Procs, a \in Actors : OwnsActor(q, a)' <=> OwnsActor(q, a)
  PROVE  owner' = owner
<1>1. ASSUME NEW a \in Actors PROVE owner'[a] = owner[a]
  <2>1. CASE owner[a] \in Procs
    BY <2>1 DEF OwnerFact
  <2>2. CASE owner[a] \notin Procs
    BY <2>2 DEF OwnerFact
  <2> QED
    BY <2>1, <2>2
<1> QED
  BY <1>1 DEF OwnerFact

(* Every step of lockActor is a step of ActorMutex or changes no ownership.    *)
LEMMA StepRefines ==
  ASSUME IInv, OwnerFact, OwnerFact', [Next]_vars
  PROVE  [Mutex!Next]_owner
<1> USE DEF Goto, Points, Owning
<1>0. CASE UNCHANGED vars
  <2>1. \A q \in Procs, a \in Actors : OwnsActor(q, a)' <=> OwnsActor(q, a)
    BY <1>0 DEF vars, OwnsActor
  <2> QED
    BY <2>1, SameOwners
<1> SUFFICES ASSUME NEW p \in Procs, Step(p) \/ \E a \in Actors : Request(p, a)
             PROVE  [Mutex!Next]_owner
  BY <1>0 DEF Next
<1>1. CASE LockActor(p)
  <2> DEFINE a == actor[p]
  <2>1. a \in Actors /\ ulk[p] \in Locks /\ ulk[p] = actorLocks[a]
    BY <1>1 DEF LockActor, IInv, TypeOK, Pointers, EntryStays, Referring
  <2>2. \A q \in Procs : ~OwnsActor(q, a)
    BY <1>1, <2>1, ProcsAssumption
       DEF LockActor, IInv, OwnersHold, EntryStays, Referring, OwnsActor
  <2>3. owner[a] = NoProc
    BY <2>1, <2>2 DEF OwnerFact
  <2>4. \A b \in Actors : owner[b] # p
    BY <1>1 DEF LockActor, OwnerFact, OwnsActor
  <2>5. \A q \in Procs, b \in Actors :
          OwnsActor(q, b)' <=> OwnsActor(q, b) \/ (q = p /\ b = a)
    BY <1>1 DEF LockActor, OwnsActor, IInv, TypeOK
  <2>6. owner'[a] = p
    BY <2>1, <2>5 DEF OwnerFact
  <2>7. ASSUME NEW b \in Actors, b # a PROVE owner'[b] = owner[b]
    <3>1. CASE owner[b] \in Procs
      BY <2>5, <3>1 DEF OwnerFact
    <3>2. CASE owner[b] \notin Procs
      BY <2>5, <2>7, <3>2 DEF OwnerFact
    <3> QED
      BY <3>1, <3>2
  <2>8. owner' = [owner EXCEPT ![a] = p]
    BY <2>1, <2>6, <2>7 DEF OwnerFact
  <2> QED
    BY <2>1, <2>3, <2>4, <2>8 DEF Mutex!Next, Mutex!Acquire
<1>2. CASE UnlockActor(p)
  <2> DEFINE a == actor[p]
  <2>1. a \in Actors /\ OwnsActor(p, a)
    BY <1>2 DEF UnlockActor, IInv, Pointers, OwnsActor
  <2>2. owner[a] = p
    BY <2>1 DEF OwnerFact
  <2>3. \A q \in Procs, b \in Actors : OwnsActor(q, b)' <=> OwnsActor(q, b) /\ q # p
    BY <1>2 DEF UnlockActor, OwnsActor, IInv, TypeOK
  <2>4. owner'[a] = NoProc
    <3>1. \A q \in Procs : OwnsActor(q, a) => q = p
      BY <2>1, <2>2 DEF OwnerFact
    <3>2. owner'[a] \notin Procs
      BY <2>1, <2>3, <3>1 DEF OwnerFact
    <3> QED
      BY <2>1, <3>2 DEF OwnerFact
  <2>5. ASSUME NEW b \in Actors, b # a PROVE owner'[b] = owner[b]
    <3>0. ~OwnsActor(p, b)
      BY <2>5 DEF OwnsActor
    <3>1. CASE owner[b] \in Procs
      BY <2>3, <3>0, <3>1 DEF OwnerFact
    <3>2. CASE owner[b] \notin Procs
      BY <2>3, <3>2 DEF OwnerFact
    <3> QED
      BY <3>1, <3>2
  <2>6. owner' = [owner EXCEPT ![a] = NoProc]
    BY <2>1, <2>4, <2>5 DEF OwnerFact
  <2> QED
    BY <2>1, <2>2, <2>6 DEF Mutex!Next, Mutex!Release
<1>3. CASE ~LockActor(p) /\ ~UnlockActor(p)
  <2>1. \A q \in Procs, a \in Actors : OwnsActor(q, a)' <=> OwnsActor(q, a)
    BY <1>3 DEF Step, Request, LockMap, JoinEntry, NewEntry, Finish, DropEntry, OwnsActor,
       IInv, TypeOK
  <2> QED
    BY <2>1, SameOwners
<1> QED
  BY <1>1, <1>2, <1>3

(* lockActor implements one independent mutex per actor.                       *)
THEOREM ImplementsActorMutex == Spec => IsActorMutex
<1>1. Init => Mutex!Init
  BY DEF Init, Mutex!Init, owner, Owning
<1>2. IInv /\ OwnerFact /\ OwnerFact' /\ [Next]_vars => [Mutex!Next]_owner
  BY StepRefines
<1> QED
  BY <1>1, <1>2, Invariance, OwnerIsOwner, PTL DEF Spec, IsActorMutex, Mutex!Spec
===============================================================================
