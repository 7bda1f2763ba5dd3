---------------------------- MODULE CarStoreProofs ----------------------------
(* Invariants of CarStore for any number of requests, actors and commits, with *)
(* every failure, crash, read without the lock and misreported transaction it  *)
(* models; and, in the second part, what holds of every repo whose cached      *)
(* shard was never left behind.                                                *)
EXTENDS CarStore, TLAPS

Writing == {"put", "insert", "cacheput"}

(* Every request but a record read holds its actor's lock until it replies.    *)
LockInv == \A p \in Procs : pc[p] # "idle" /\ kind(p) # "get" => lock[aid(p)] = p

(* A request under way was asked for, and is at a point of its kind of request.*)
ReqInv ==
  \A p \in Procs :
    /\ pc[p] # "idle" => req[p] \in Request
    /\ pc[p] = "rev" => kind(p) \in WriteKinds
    /\ pc[p] \in Writing \cup {"session", "build"} => kind(p) \in WriteKinds \cup {"init"}
    /\ pc[p] \in {"head", "found"} => kind(p) \in {"root", "get"}
    /\ pc[p] \in {"list", "wiperows", "wipeobjs"} => kind(p) = "wipe"
    /\ pc[p] \notin Lookups => io[p] = "check"

(* What the program knows of an actor's last shard was committed for it.       *)
CommittedFor(s, a) == s = EmptyShard \/ (s \in history /\ s.aid = a)
Durable ==
  /\ rows \subseteq history
  /\ \A a \in Actors : CommittedFor(cache[a], a)
  /\ \A p \in Procs : /\ pc[p] # "idle" => CommittedFor(base[p], aid(p))
                      /\ pc[p] # "idle" => CommittedFor(found[p], aid(p))
                      /\ pc[p] = "idle" => base[p] = EmptyShard /\ found[p] = EmptyShard

(* A shard's commit was made on an earlier shard of its actor, and the records *)
(* it did not write itself were written by shards of the actor too.            *)
Extends(s) ==
  /\ s.seq <= s.rev /\ s.rev <= tid
  /\ IF s.seq = 1 THEN commits[s.rev].parent = 0
     ELSE \E t \in history : /\ t.aid = s.aid /\ t.seq = s.seq - 1
                             /\ commits[s.rev].parent = t.rev /\ t.rev < s.rev
  /\ \A k \in Keys : LET w == commits[s.rev].tree[k] IN
       w \notin {0, s.rev} => \E t \in history : t.aid = s.aid /\ t.rev = w
HistoryInv == \A s \in history : Extends(s)
WriteOK(p) ==
  /\ pc[p] \in Writing => Extends(new[p]) /\ new[p] \in Shard /\ new[p].aid = aid(p)
  /\ pc[p] = "cacheput" => new[p] \in history
  /\ pc[p] \in Writing /\ kind(p) # "init" => \E t \in history : t.aid = aid(p)
WriteInv == \A p \in Procs : WriteOK(p)

(* InitNewRepo finds no shard of its actor.                                    *)
InitInv ==
  /\ \A s \in history : s.aid \in inited
  /\ \A p \in Procs :
       pc[p] \in {"session", "build", "put", "insert"} /\ kind(p) = "init" =>
         /\ aid(p) \in inited
         /\ \A s \in history : s.aid # aid(p)

(* A wipe works on all the rows its actor still has.                           *)
WipeInv ==
  \A p \in Procs :
    /\ pc[p] \in {"wiperows", "wipeobjs"} => todo[p] = RowsOf(aid(p)) /\ aid(p) \in doomed
    /\ pc[p] = "wipeobjs" => /\ chunk[p] \subseteq history /\ chunk[p] \cap rows = {}
                             /\ \A s \in chunk[p] : s.aid = aid(p)

(* A write past its read of the base is for an actor that is not wiped.        *)
LiveInv ==
  \A p \in Procs :
    /\ pc[p] \in {"put", "insert"} => aid(p) \notin wiped
    /\ pc[p] \in {"session", "build"} /\ kind(p) = "init" => aid(p) \notin wiped

KeptInv ==
  /\ acked \subseteq history
  /\ \A s \in history : s.aid \notin doomed => s \in rows

UInv == /\ TypeOK /\ LockInv /\ ReqInv /\ Durable /\ HistoryInv /\ WriteInv /\ InitInv
        /\ WipeInv /\ LiveInv /\ WipedStaysEmpty /\ KeptInv

-------------------------------------------------------------------------------
(* Fields of shards and of requests.                                           *)
LEMMA ShardFields ==
  ASSUME NEW s \in Shard \cup {EmptyShard}
  PROVE  s.seq \in 0 .. MaxCommits /\ s.rev \in 0 .. MaxCommits
BY ConstantsAssumption DEF Shard, EmptyShard, Revs

(* A request under way names an actor, and a write names a record key.         *)
LEMMA RequestFields ==
  ASSUME UInv, NEW p \in Procs, pc[p] # "idle"
  PROVE  aid(p) \in Actors /\ (kind(p) \in WriteKinds \cup {"init"} => req[p].key \in Keys)
BY DEF UInv, ReqInv, Request, aid, kind, WriteKinds

(* Two locked requests under way work on different actors.                     *)
LEMMA LockExclusive ==
  ASSUME UInv, NEW p \in Procs, NEW q \in Procs,
         pc[p] # "idle", kind(p) # "get", pc[q] # "idle", kind(q) # "get", aid(p) = aid(q)
  PROVE  p = q
BY DEF UInv, LockInv

(* Types: a shard's seq stays below its rev, so numbering never runs over.     *)
LEMMA TypeStep ==
  ASSUME UInv, NEW p \in Procs, Step(p)
  PROVE  TypeOK'
<1> USE ConstantsAssumption DEF UInv, TypeOK, Goto, Fails, stored, locals, ghosts, aid, kind,
    Points
<1>1. CASE \E r \in Request : Begin(p, r)
  <2>1. PICK r \in Request : Begin(p, r)
    BY <1>1
  <2>2. r.aid \in Actors /\ r.kind \in {"create", "update", "delete", "init", "root", "wipe"}
    BY <2>1 DEF Begin, Request, WriteKinds
  <2> QED
    BY <2>1, <2>2 DEF Begin, Lookups, WriteKinds
<1>2. CASE \E r \in Request : BeginLockFree(p, r)
  BY <1>2 DEF BeginLockFree, Lookups
<1>3. CASE CacheHit(p)
  <2>1. cache[aid(p)] \in Shard \cup {EmptyShard}
    BY <1>3, RequestFields DEF CacheHit, Lookups
  <2> QED
    BY <1>3, <2>1, ShardFields DEF CacheHit, TakeShard, Lookups
<1>4. CASE CacheMiss(p)
  BY <1>4 DEF CacheMiss
<1>5. CASE QueryLastShard(p)
  <2>1. LastShards(aid(p)) \subseteq Shard \cup {EmptyShard}
    BY DEF LastShards, RowsOf
  <2> QED
    BY <1>5, <2>1 DEF QueryLastShard, Lookups
<1>6. CASE FillCache(p)
  <2>1. found[p].rev \in 0 .. MaxCommits
    BY ShardFields
  <2>2. cache' \in [Actors -> Shard \cup {EmptyShard}]
    BY <1>6 DEF FillCache, CachePut
  <2>3. astray' \subseteq Actors
    BY <1>6, RequestFields DEF FillCache, LeaveCached, Lookups
  <2> QED
    BY <1>6, <2>1, <2>2, <2>3 DEF FillCache, TakeShard, Lookups
<1>7. CASE Build(p)
  <2>1. aid(p) \in Actors /\ req[p].key \in Keys /\ base[p].rev \in 0 .. MaxCommits
    BY <1>7, RequestFields, ShardFields DEF Build, ReqInv
  <2>2. tid' \in Revs
    BY <1>7 DEF Build, Revs
  <2>3. NextSeq(base[p]) \in Revs
    <3>1. base[p] = EmptyShard \/ base[p] \in history
      BY <1>7 DEF Build, Durable, CommittedFor
    <3>2. CASE base[p] = EmptyShard
      BY <1>7, <3>2 DEF Build, NextSeq, EmptyShard, Revs
    <3>3. CASE base[p] \in history
      BY <1>7, <3>3, ShardFields DEF Build, NextSeq, HistoryInv, Extends, Revs
    <3> QED
      BY <3>1, <3>2, <3>3
  <2>4. new' \in [Procs -> Shard \cup {EmptyShard}]
    <3>1. [aid |-> aid(p), seq |-> NextSeq(base[p]), rev |-> tid'] \in Shard
      BY <2>1, <2>2, <2>3 DEF Shard
    <3> QED
      BY <1>7, <3>1 DEF Build
  <2>5. commits' \in [Revs -> Commit]
    <3> DEFINE t == IF kind(p) = "init" THEN NoRecords ELSE commits[base[p].rev].tree
               k == IF kind(p) = "init" THEN "create" ELSE kind(p)
               c == [parent |-> IF kind(p) = "init" THEN 0 ELSE base[p].rev,
                     tree |-> NewTree(k, t, req[p].key, tid')]
    <3>1. t \in Tree
      <4>1. CASE kind(p) = "init"
        BY <4>1 DEF Tree, NoRecords
      <4>2. CASE kind(p) # "init"
        <5>1. base[p] \in Shard
          BY <1>7, <4>2 DEF Build, Readable
        <5>2. commits[base[p].rev] \in Commit
          BY <5>1 DEF Shard
        <5> QED
          BY <4>2, <5>2 DEF Commit
      <4> QED
        BY <4>1, <4>2
    <3>2. NewTree(k, t, req[p].key, tid') \in Tree
      BY <2>1, <2>2, <3>1 DEF NewTree, Tree, Revs
    <3>3. c \in Commit
      BY <2>1, <3>2 DEF Commit
    <3>4. commits' = [commits EXCEPT ![tid'] = c]
      BY <1>7 DEF Build
    <3> HIDE DEF c
    <3> QED
      BY <3>3, <3>4
  <2> QED
    BY <1>7, <2>2, <2>4, <2>5 DEF Build, Revs
<1>8. CASE BuildFails(p)
  BY <1>8 DEF BuildFails, Fails
<1>9. CASE PutObject(p)
  <2>1. new[p] \in Shard
    BY <1>9 DEF PutObject, WriteInv, WriteOK, Writing
  <2>2. objs' \subseteq Shard
    BY <1>9, <2>1 DEF PutObject, Overwrite
  <2> QED
    BY <1>9, <2>2 DEF PutObject
<1>10. CASE InsertRow(p)
  <2>1. new[p] \in Shard
    BY <1>10 DEF InsertRow, WriteInv, WriteOK, Writing
  <2>2. astray' \subseteq Actors
    BY <1>10, RequestFields DEF InsertRow, LeaveCached
  <2> QED
    BY <1>10, <2>1, <2>2 DEF InsertRow
<1>11. CASE InsertFails(p)
  BY <1>11 DEF InsertFails, Fails
<1>12. CASE CacheNewShard(p)
  <2>1. new[p] \in Shard
    BY <1>12 DEF CacheNewShard, WriteInv, WriteOK, Writing
  <2>2. cache' \in [Actors -> Shard \cup {EmptyShard}]
    BY <1>12 DEF CacheNewShard, CachePut
  <2> QED
    BY <1>12, <2>1, <2>2 DEF CacheNewShard
<1>13. CASE ListShards(p)
  <2>1. aid(p) \in Actors /\ RowsOf(aid(p)) \in SUBSET Shard
    BY <1>13, RequestFields DEF ListShards, RowsOf
  <2> QED
    BY <1>13, <2>1 DEF ListShards
<1>14. CASE DeleteRows(p)
  <2>1. PICK c \in NextChunks(todo[p]) :
          /\ rows' = rows \ c
          /\ chunk' = [chunk EXCEPT ![p] = c]
          /\ todo' = [todo EXCEPT ![p] = todo[p] \ c]
    BY <1>14 DEF DeleteRows
  <2>2. c \in SUBSET Shard
    BY <2>1 DEF NextChunks
  <2> QED
    BY <1>14, <2>1, <2>2 DEF DeleteRows
<1>15. CASE DeleteRowsFails(p)
  BY <1>15 DEF DeleteRowsFails, Fails
<1>16. CASE DeleteObjects(p)
  BY <1>16 DEF DeleteObjects, Fails
<1>17. CASE UncacheWiped(p)
  <2>1. aid(p) \in Actors
    BY <1>17, RequestFields DEF UncacheWiped
  <2> QED
    BY <1>17, <2>1 DEF UncacheWiped
<1>18. CASE Reply(p)
  BY <1>18 DEF Reply
<1> QED
  BY <1>1, <1>2, <1>3, <1>4, <1>5, <1>6, <1>7, <1>8, <1>9, <1>10, <1>11, <1>12, <1>13, <1>14,
      <1>15, <1>16, <1>17, <1>18 DEF Step

(* Locks: taken by Begin, given back by Reply, never taken over.               *)
LEMMA LockStep ==
  ASSUME UInv, NEW p \in Procs, Step(p)
  PROVE  LockInv'
<1> USE ConstantsAssumption DEF UInv, LockInv, TypeOK, Goto, Fails, stored, locals, ghosts,
    aid, kind
<1>1. CASE \E r \in Request : Begin(p, r)
  <2>1. PICK r \in Request : Begin(p, r)
    BY <1>1
  <2>2. r.aid \in Actors
    BY DEF Request
  <2>3. \A q \in Procs : pc[q] # "idle" /\ kind(q) # "get" => aid(q) # r.aid
    BY <2>1 DEF Begin
  <2> QED
    BY <2>1, <2>2, <2>3 DEF Begin
<1>2. CASE \E r \in Request : BeginLockFree(p, r)
  BY <1>2 DEF BeginLockFree
<1>3. CASE CacheHit(p)
  BY <1>3 DEF CacheHit, TakeShard
<1>4. CASE CacheMiss(p)
  BY <1>4 DEF CacheMiss
<1>5. CASE QueryLastShard(p)
  BY <1>5 DEF QueryLastShard, Lookups
<1>6. CASE FillCache(p)
  BY <1>6 DEF FillCache, TakeShard, CachePut
<1>7. CASE Build(p)
  BY <1>7 DEF Build, NextSeq, Readable
<1>8. CASE BuildFails(p)
  BY <1>8 DEF BuildFails, Fails
<1>9. CASE PutObject(p)
  BY <1>9 DEF PutObject, Fails, Overwrite
<1>10. CASE InsertRow(p)
  BY <1>10 DEF InsertRow, Fails
<1>11. CASE InsertFails(p)
  BY <1>11 DEF InsertFails, Fails
<1>12. CASE CacheNewShard(p)
  BY <1>12 DEF CacheNewShard, CachePut
<1>13. CASE ListShards(p)
  BY <1>13 DEF ListShards, Fails, RowsOf
<1>14. CASE DeleteRows(p)
  BY <1>14 DEF DeleteRows, Fails, NextChunks, RowsOf
<1>15. CASE DeleteRowsFails(p)
  BY <1>15 DEF DeleteRowsFails, Fails
<1>16. CASE DeleteObjects(p)
  BY <1>16 DEF DeleteObjects, Fails
<1>17. CASE UncacheWiped(p)
  BY <1>17 DEF UncacheWiped
<1>18. CASE Reply(p)
  <2>1. \A q \in Procs : pc'[q] # "idle" => q # p /\ pc[q] # "idle" /\ req'[q] = req[q]
    BY <1>18 DEF Reply
  <2>2. \A q \in Procs : pc[q] # "idle" => aid(q) \in Actors
    BY RequestFields
  <2> QED
    BY <1>18, <2>1, <2>2 DEF Reply
<1> QED
  BY <1>1, <1>2, <1>3, <1>4, <1>5, <1>6, <1>7, <1>8, <1>9, <1>10, <1>11, <1>12, <1>13, <1>14,
      <1>15, <1>16, <1>17, <1>18 DEF Step

(* Requests move along the points of their kind.                               *)
LEMMA ReqStep ==
  ASSUME UInv, NEW p \in Procs, Step(p)
  PROVE  ReqInv'
<1> USE ConstantsAssumption DEF UInv, ReqInv, TypeOK, Writing, Goto, Fails, stored, locals,
    ghosts, aid, kind, Request, WriteKinds, Points, Lookups
<1>1. CASE \E r \in Request : Begin(p, r)
  BY <1>1 DEF Begin
<1>2. CASE \E r \in Request : BeginLockFree(p, r)
  BY <1>2 DEF BeginLockFree
<1>3. CASE CacheHit(p)
  BY <1>3 DEF CacheHit, TakeShard
<1>4. CASE CacheMiss(p)
  BY <1>4 DEF CacheMiss
<1>5. CASE QueryLastShard(p)
  BY <1>5 DEF QueryLastShard, Fails, LastShards, RowsOf
<1>6. CASE FillCache(p)
  BY <1>6 DEF FillCache, TakeShard, CachePut
<1>7. CASE Build(p)
  BY <1>7 DEF Build, NextSeq, Readable
<1>8. CASE BuildFails(p)
  BY <1>8 DEF BuildFails, Fails
<1>9. CASE PutObject(p)
  BY <1>9 DEF PutObject, Fails, Overwrite
<1>10. CASE InsertRow(p)
  BY <1>10 DEF InsertRow, Fails
<1>11. CASE InsertFails(p)
  BY <1>11 DEF InsertFails, Fails
<1>12. CASE CacheNewShard(p)
  BY <1>12 DEF CacheNewShard, CachePut
<1>13. CASE ListShards(p)
  BY <1>13 DEF ListShards, Fails, RowsOf
<1>14. CASE DeleteRows(p)
  BY <1>14 DEF DeleteRows, Fails, NextChunks, RowsOf
<1>15. CASE DeleteRowsFails(p)
  BY <1>15 DEF DeleteRowsFails, Fails
<1>16. CASE DeleteObjects(p)
  BY <1>16 DEF DeleteObjects, Fails
<1>17. CASE UncacheWiped(p)
  BY <1>17 DEF UncacheWiped
<1>18. CASE Reply(p)
  BY <1>18 DEF Reply
<1> QED
  BY <1>1, <1>2, <1>3, <1>4, <1>5, <1>6, <1>7, <1>8, <1>9, <1>10, <1>11, <1>12, <1>13, <1>14,
      <1>15, <1>16, <1>17, <1>18 DEF Step

(* The cache and what is read from it are committed shards of the actor.       *)
LEMMA DurableStep ==
  ASSUME UInv, NEW p \in Procs, Step(p)
  PROVE  Durable'
<1> USE ConstantsAssumption DEF UInv, Durable, CommittedFor, ReqInv, WriteInv, WriteOK,
    Writing, TypeOK, Goto, Fails, stored, locals, ghosts, aid, kind, Request, WriteKinds,
    Points, Lookups, EmptyShard
<1>1. CASE \E r \in Request : Begin(p, r)
  BY <1>1 DEF Begin
<1>2. CASE \E r \in Request : BeginLockFree(p, r)
  BY <1>2 DEF BeginLockFree
<1>3. CASE CacheHit(p)
  BY <1>3 DEF CacheHit, TakeShard
<1>4. CASE CacheMiss(p)
  BY <1>4 DEF CacheMiss
<1>5. CASE QueryLastShard(p)
  BY <1>5 DEF QueryLastShard, Fails, LastShards, RowsOf
<1>6. CASE FillCache(p)
  BY <1>6 DEF FillCache, TakeShard, CachePut
<1>7. CASE Build(p)
  BY <1>7 DEF Build, NextSeq, Readable
<1>8. CASE BuildFails(p)
  BY <1>8 DEF BuildFails, Fails
<1>9. CASE PutObject(p)
  BY <1>9 DEF PutObject, Fails, Overwrite
<1>10. CASE InsertRow(p)
  BY <1>10 DEF InsertRow, Fails
<1>11. CASE InsertFails(p)
  BY <1>11 DEF InsertFails, Fails
<1>12. CASE CacheNewShard(p)
  BY <1>12 DEF CacheNewShard, CachePut
<1>13. CASE ListShards(p)
  BY <1>13 DEF ListShards, Fails, RowsOf
<1>14. CASE DeleteRows(p)
  BY <1>14 DEF DeleteRows, Fails, NextChunks, RowsOf
<1>15. CASE DeleteRowsFails(p)
  BY <1>15 DEF DeleteRowsFails, Fails
<1>16. CASE DeleteObjects(p)
  BY <1>16 DEF DeleteObjects, Fails
<1>17. CASE UncacheWiped(p)
  BY <1>17 DEF UncacheWiped
<1>18. CASE Reply(p)
  BY <1>18 DEF Reply
<1> QED
  BY <1>1, <1>2, <1>3, <1>4, <1>5, <1>6, <1>7, <1>8, <1>9, <1>10, <1>11, <1>12, <1>13, <1>14,
      <1>15, <1>16, <1>17, <1>18 DEF Step

(* A step keeps what a commit already numbered says, and every shard of the    *)
(* history.                                                                    *)
LEMMA CommitsKept ==
  ASSUME UInv, NEW p \in Procs, Step(p)
  PROVE  /\ tid <= tid' /\ tid \in Nat /\ tid' \in Nat
         /\ history \subseteq history'
         /\ \A r \in Revs : r <= tid => commits'[r] = commits[r]
<1> USE ConstantsAssumption DEF stored, locals, ghosts
<1>0. tid \in 0 .. MaxCommits /\ commits \in [Revs -> Commit]
  BY DEF UInv, TypeOK
<1>1. CASE Build(p)
  BY <1>0, <1>1 DEF Build, Revs
<1>2. CASE InsertRow(p)
  BY <1>0, <1>2 DEF InsertRow
<1>3. CASE ~Build(p) /\ ~InsertRow(p)
  <2>1. UNCHANGED <<tid, history, commits>>
    BY <1>3 DEF Step, Begin, BeginLockFree, CacheHit, CacheMiss, QueryLastShard, FillCache,
       BuildFails, PutObject, InsertFails, CacheNewShard, ListShards, DeleteRows,
       DeleteRowsFails, DeleteObjects, UncacheWiped, Reply
  <2> QED
    BY <1>0, <2>1
<1> QED
  BY <1>1, <1>2, <1>3

(* A shard that extends rows inserted earlier goes on doing so: commits and    *)
(* the history are never rewritten.                                            *)
LEMMA ExtendsKept ==
  ASSUME UInv, NEW p \in Procs, Step(p), NEW s \in Shard, Extends(s)
  PROVE  Extends(s)'
<1>1. s.rev \in Revs /\ s.rev <= tid
  BY DEF Extends, Shard
<1>2. s.rev <= tid' /\ commits'[s.rev] = commits[s.rev] /\ history \subseteq history'
  BY <1>1, CommitsKept, ConstantsAssumption DEF Revs
<1> QED
  BY <1>2 DEF Extends

(* Build makes a commit that extends the shard it read.                        *)
LEMMA BuildExtends ==
  ASSUME UInv, NEW p \in Procs, Build(p),
         NEW n, n = [aid |-> aid(p), seq |-> base[p].seq + 1, rev |-> tid + 1]
  PROVE  /\ n \in Shard /\ new' = [new EXCEPT ![p] = n]
         /\ n.aid = aid(p) /\ Extends(n)'
         /\ kind(p) # "init" => \E t \in history : t.aid = aid(p)
<1> DEFINE r == tid + 1
<1>0. TypeOK'
  BY TypeStep DEF Step
<1>a. TypeOK /\ base[p] \in Shard \cup {EmptyShard} /\ aid(p) \in Actors
      /\ req[p].key \in Keys /\ tid \in 0 .. MaxCommits
  BY RequestFields DEF UInv, TypeOK, Build, ReqInv
<1>1. /\ tid' = r /\ r \in Revs
      /\ new' = [new EXCEPT ![p] = n]
      /\ UNCHANGED <<history, req, base>>
  BY <1>a, ConstantsAssumption DEF Build, TypeOK, NextSeq, Revs, ghosts
<1>2. n \in Shard
  <2>1. new'[p] = n
    BY <1>1, <1>a DEF TypeOK
  <2>2. n \in Shard \cup {EmptyShard}
    BY <1>0, <2>1 DEF TypeOK
  <2> QED
    BY <1>a, <2>2, ConstantsAssumption DEF EmptyShard
<1>3. CASE kind(p) = "init"
  <2>1. base[p] = EmptyShard
    BY <1>3 DEF UInv, InitInv, Durable, CommittedFor, Build
  <2>2. commits'[r].parent = 0 /\ commits'[r].tree = NewTree("create", NoRecords, req[p].key, r)
    BY <1>1, <1>3, <1>a DEF Build, TypeOK
  <2>3. \A k \in Keys : commits'[r].tree[k] \in {0, r}
    BY <2>2 DEF NewTree, NoRecords
  <2>4. n.aid = aid(p) /\ n.seq = 1 /\ n.rev = r /\ r \in Nat /\ 1 <= r
    BY <2>1, <1>a, ConstantsAssumption DEF EmptyShard
  <2>5. Extends(n)'
    BY <1>1, <2>2, <2>3, <2>4 DEF Extends
  <2> QED
    BY <1>1, <1>2, <1>3, <2>4, <2>5
<1>4. CASE kind(p) # "init"
  <2> DEFINE b == base[p]
  <2>1. b \in Shard /\ b \in history /\ b.aid = aid(p) /\ Extends(b)
    BY <1>4, ConstantsAssumption
       DEF UInv, TypeOK, Durable, CommittedFor, HistoryInv, Build, Readable, Shard, EmptyShard
  <2>2. b.rev \in Revs /\ b.seq \in Revs /\ b.seq <= b.rev /\ b.rev <= tid
    BY <2>1 DEF Shard, Extends
  <2>3. commits'[r].parent = b.rev
        /\ commits'[r].tree = NewTree(kind(p), commits[b.rev].tree, req[p].key, r)
    BY <1>1, <1>4, <1>a DEF Build, TypeOK
  <2>4. commits[b.rev].tree \in Tree
    BY <2>2 DEF UInv, TypeOK, Commit
  <2>5. \A k \in Keys : commits'[r].tree[k] \in {0, r, commits[b.rev].tree[k]}
    BY <2>3, <2>4 DEF NewTree, Tree
  <2>6. ASSUME NEW k \in Keys, commits'[r].tree[k] \notin {0, r}
        PROVE  \E t \in history : t.aid = aid(p) /\ t.rev = commits'[r].tree[k]
    <3>1. commits'[r].tree[k] = commits[b.rev].tree[k]
      BY <2>5, <2>6
    <3>2. CASE commits[b.rev].tree[k] = b.rev
      BY <2>1, <3>1, <3>2
    <3>3. CASE commits[b.rev].tree[k] # b.rev
      BY <2>1, <2>6, <3>1, <3>3 DEF Extends
    <3> QED
      BY <3>2, <3>3
  <2>7. n.seq # 1 /\ n.seq - 1 = b.seq /\ b.rev < r /\ n.seq <= r
    BY <2>2, <1>a, ConstantsAssumption DEF Revs
  <2>8. n.aid = aid(p) /\ n.rev = r /\ r <= tid'
    BY <1>1, <1>a
  <2>9. Extends(n)'
    BY <1>1, <2>1, <2>3, <2>6, <2>7, <2>8 DEF Extends
  <2> QED
    BY <1>1, <1>2, <2>1, <2>8, <2>9
<1> QED
  BY <1>3, <1>4

(* Writes are built on a committed shard, and only they extend the history.    *)
LEMMA WriteStep ==
  ASSUME UInv, NEW p \in Procs, Step(p)
  PROVE  WriteInv' /\ HistoryInv'
<1> USE DEF stored, locals, ghosts, Goto, Fails, aid, kind, Writing
<1>0. /\ \A s \in Shard : Extends(s) => Extends(s)'
      /\ \A s \in history : s \in Shard /\ Extends(s)
      /\ history \subseteq history'
  BY ExtendsKept, CommitsKept DEF UInv, TypeOK, HistoryInv
<1>t. TypeOK /\ WriteInv
  BY DEF UInv
(* A request whose write is unchanged.                                         *)
<1>u. ASSUME NEW q \in Procs, req'[q] = req[q], new'[q] = new[q],
             pc'[q] \in Writing => pc[q] \in Writing,
             pc'[q] = "cacheput" => new[q] \in history'
      PROVE  WriteOK(q)'
  <2>1. WriteOK(q)
    BY <1>t DEF WriteInv, WriteOK
  <2>2. pc'[q] \in Writing => Extends(new[q]) /\ new[q] \in Shard
    BY <1>u, <2>1 DEF WriteOK
  <2>3. pc'[q] \in Writing => Extends(new[q])'
    <3> SUFFICES ASSUME pc'[q] \in Writing PROVE Extends(new[q])'
      OBVIOUS
    <3>1. PICK s \in Shard : s = new[q] /\ Extends(s)
      BY <2>2
    <3>2. Extends(s)'
      BY <1>0, <3>1
    <3> QED
      BY <1>u, <3>1, <3>2
  <2> QED
    BY <1>0, <1>u, <2>1, <2>3 DEF WriteOK
<1>1. CASE Build(p)
  <2>1. \A q \in Procs \ {p} :
          new'[q] = new[q] /\ pc'[q] = pc[q] /\ req'[q] = req[q]
    BY <1>1, <1>t DEF Build, TypeOK
  <2>2. pc'[p] = "put" /\ req' = req /\ history' = history
    BY <1>1, <1>t DEF Build, TypeOK
  <2>a. PICK n : n = [aid |-> aid(p), seq |-> base[p].seq + 1, rev |-> tid + 1]
    OBVIOUS
  <2>3. /\ n \in Shard /\ new' = [new EXCEPT ![p] = n]
        /\ n.aid = aid(p) /\ Extends(n)'
        /\ kind(p) # "init" => \E t \in history : t.aid = aid(p)
    BY <1>1, <2>a, BuildExtends
  <2>4. new'[p] = n
    BY <2>3, <1>t DEF TypeOK
  <2>5. Extends(new[p])'
    BY <2>3, <2>4
  <2>6. WriteOK(p)'
    BY <2>2, <2>3, <2>4, <2>5 DEF WriteOK
  <2>7. \A q \in Procs \ {p} : WriteOK(q)'
    BY <1>t, <1>u, <2>1, <2>2 DEF WriteInv, WriteOK
  <2> QED
    BY <1>0, <2>2, <2>6, <2>7 DEF HistoryInv, WriteInv
<1>2. CASE InsertRow(p)
  <2>0. new' = new /\ req' = req /\ history' = history \cup {new[p]} /\ pc[p] = "insert"
    BY <1>2 DEF InsertRow
  <2>1. \A q \in Procs : pc'[q] \in Writing =>
          pc[q] \in Writing /\ (pc'[q] = "cacheput" => pc[q] = "cacheput" \/ q = p)
    BY <1>2, <1>t DEF InsertRow, TypeOK
  <2>2. \A q \in Procs : WriteOK(q)'
    BY <1>t, <1>u, <2>0, <2>1 DEF WriteInv, WriteOK
  <2>3. \A s \in history' : s \in Shard /\ Extends(s)
    BY <1>0, <1>t, <2>0 DEF WriteInv, WriteOK
  <2> QED
    BY <1>0, <2>2, <2>3 DEF HistoryInv, WriteInv
<1>3. CASE ~Build(p) /\ ~InsertRow(p)
  <2>1. history' = history
        /\ \A q \in Procs : pc'[q] \in Writing =>
             /\ pc[q] \in Writing /\ new'[q] = new[q] /\ req'[q] = req[q]
             /\ pc'[q] = "cacheput" => pc[q] = "cacheput"
    BY <1>3, <1>t DEF Step, Begin, BeginLockFree, CacheHit, CacheMiss, QueryLastShard,
        FillCache,
       TakeShard, BuildFails, PutObject, InsertFails, CacheNewShard, ListShards, DeleteRows,
       DeleteRowsFails, DeleteObjects, UncacheWiped, Reply, TypeOK, Lookups, WriteKinds,
       Request
  <2>2. ASSUME NEW q \in Procs PROVE WriteOK(q)'
    <3>1. CASE pc'[q] \in Writing
      BY <1>t, <1>u, <2>1, <3>1 DEF WriteInv, WriteOK
    <3>2. CASE pc'[q] \notin Writing
      BY <3>2 DEF WriteOK
    <3> QED
      BY <3>1, <3>2
  <2> QED
    BY <1>0, <2>1, <2>2 DEF HistoryInv, WriteInv
<1> QED
  BY <1>1, <1>2, <1>3

(* A repo is initialized once, on an actor without shards.                     *)
LEMMA InitStep ==
  ASSUME UInv, NEW p \in Procs, Step(p)
  PROVE  InitInv'
<1> USE ConstantsAssumption DEF UInv, InitInv, ReqInv, LockInv, WriteInv, WriteOK, Durable,
    CommittedFor, Writing, TypeOK, Goto, Fails, stored, locals, ghosts, aid, kind, Request,
    WriteKinds, Points, Lookups
<1>1. CASE \E r \in Request : Begin(p, r)
  BY <1>1 DEF Begin
<1>2. CASE \E r \in Request : BeginLockFree(p, r)
  BY <1>2 DEF BeginLockFree
<1>3. CASE CacheHit(p)
  BY <1>3 DEF CacheHit, TakeShard
<1>4. CASE CacheMiss(p)
  BY <1>4 DEF CacheMiss
<1>5. CASE QueryLastShard(p)
  BY <1>5 DEF QueryLastShard, Fails, LastShards, RowsOf
<1>6. CASE FillCache(p)
  BY <1>6 DEF FillCache, TakeShard, CachePut
<1>7. CASE Build(p)
  BY <1>7 DEF Build, NextSeq, Readable
<1>8. CASE BuildFails(p)
  BY <1>8 DEF BuildFails, Fails
<1>9. CASE PutObject(p)
  BY <1>9 DEF PutObject, Fails, Overwrite
<1>10. CASE InsertRow(p)
  <2>1. new[p].aid = aid(p) /\ kind(p) \in WriteKinds \cup {"init"} /\ pc[p] = "insert"
    BY <1>10 DEF InsertRow
  <2>2. aid(p) \in inited
    <3>1. CASE kind(p) = "init"
      BY <2>1, <3>1
    <3>2. CASE kind(p) # "init"
      <4>1. Extends(new[p]) /\ new[p] \in Shard
        BY <2>1
      <4>2. \E t \in history : t.aid = aid(p)
        BY <2>1, <3>2 DEF WriteInv, WriteOK
      <4> QED
        BY <4>2
    <3> QED
      BY <3>1, <3>2
  <2>3. \A q \in Procs : q # p /\ pc[q] # "idle" /\ kind(q) = "init" => aid(q) # aid(p)
    BY <2>1, LockExclusive
  <2> QED
    BY <1>10, <2>1, <2>2, <2>3 DEF InsertRow
<1>11. CASE InsertFails(p)
  BY <1>11 DEF InsertFails, Fails
<1>12. CASE CacheNewShard(p)
  BY <1>12 DEF CacheNewShard, CachePut
<1>13. CASE ListShards(p)
  BY <1>13 DEF ListShards, Fails, RowsOf
<1>14. CASE DeleteRows(p)
  BY <1>14 DEF DeleteRows, Fails, NextChunks, RowsOf
<1>15. CASE DeleteRowsFails(p)
  BY <1>15 DEF DeleteRowsFails, Fails
<1>16. CASE DeleteObjects(p)
  BY <1>16 DEF DeleteObjects, Fails
<1>17. CASE UncacheWiped(p)
  BY <1>17 DEF UncacheWiped
<1>18. CASE Reply(p)
  BY <1>18 DEF Reply
<1> QED
  BY <1>1, <1>2, <1>3, <1>4, <1>5, <1>6, <1>7, <1>8, <1>9, <1>10, <1>11, <1>12, <1>13, <1>14,
      <1>15, <1>16, <1>17, <1>18 DEF Step

(* Under the lock nothing adds rows to an actor being wiped.                   *)
LEMMA WipeStep ==
  ASSUME UInv, NEW p \in Procs, Step(p)
  PROVE  WipeInv'
<1> USE ConstantsAssumption DEF UInv, WipeInv, ReqInv, LockInv, WriteInv, WriteOK, Durable,
    Writing, TypeOK, RowsOf, Goto, Fails, stored, locals, ghosts, aid, kind, Request,
    WriteKinds, Points, Lookups
<1>1. CASE \E r \in Request : Begin(p, r)
  BY <1>1 DEF Begin
<1>2. CASE \E r \in Request : BeginLockFree(p, r)
  BY <1>2 DEF BeginLockFree
<1>3. CASE CacheHit(p)
  BY <1>3 DEF CacheHit, TakeShard
<1>4. CASE CacheMiss(p)
  BY <1>4 DEF CacheMiss
<1>5. CASE QueryLastShard(p)
  BY <1>5 DEF QueryLastShard, Fails, LastShards, RowsOf
<1>6. CASE FillCache(p)
  BY <1>6 DEF FillCache, TakeShard, CachePut
<1>7. CASE Build(p)
  BY <1>7 DEF Build, NextSeq, Readable
<1>8. CASE BuildFails(p)
  BY <1>8 DEF BuildFails, Fails
<1>9. CASE PutObject(p)
  BY <1>9 DEF PutObject, Fails, Overwrite
<1>10. CASE InsertRow(p)
  <2>1. new[p].aid = aid(p) /\ kind(p) \in WriteKinds \cup {"init"} /\ pc[p] = "insert"
    BY <1>10 DEF InsertRow
  <2>2. \A q \in Procs : pc[q] \in {"wiperows", "wipeobjs"} => aid(q) # aid(p)
    BY <2>1, LockExclusive
  <2>3. \A q \in Procs : pc[q] = "wipeobjs" => new[p] \notin chunk[q]
    BY <2>1, <2>2
  <2> QED
    BY <1>10, <2>1, <2>2, <2>3 DEF InsertRow
<1>11. CASE InsertFails(p)
  BY <1>11 DEF InsertFails, Fails
<1>12. CASE CacheNewShard(p)
  BY <1>12 DEF CacheNewShard, CachePut
<1>13. CASE ListShards(p)
  BY <1>13 DEF ListShards, Fails, RowsOf
<1>14. CASE DeleteRows(p)
  BY <1>14 DEF DeleteRows, Fails, NextChunks, RowsOf
<1>15. CASE DeleteRowsFails(p)
  BY <1>15 DEF DeleteRowsFails, Fails
<1>16. CASE DeleteObjects(p)
  BY <1>16 DEF DeleteObjects, Fails
<1>17. CASE UncacheWiped(p)
  BY <1>17 DEF UncacheWiped
<1>18. CASE Reply(p)
  BY <1>18 DEF Reply
<1> QED
  BY <1>1, <1>2, <1>3, <1>4, <1>5, <1>6, <1>7, <1>8, <1>9, <1>10, <1>11, <1>12, <1>13, <1>14,
      <1>15, <1>16, <1>17, <1>18 DEF Step

(* A write that finds its base, or initializes, works on an actor not wiped.   *)
LEMMA LiveStep ==
  ASSUME UInv, NEW p \in Procs, Step(p)
  PROVE  LiveInv'
<1> USE ConstantsAssumption DEF UInv, LiveInv, ReqInv, LockInv, Durable, CommittedFor,
    WipedStaysEmpty, TypeOK, RowsOf, Goto, Fails, stored, locals, ghosts, aid, kind, Request,
    WriteKinds, Points, Lookups, Writing, EmptyShard
<1>1. CASE \E r \in Request : Begin(p, r)
  BY <1>1 DEF Begin
<1>2. CASE \E r \in Request : BeginLockFree(p, r)
  BY <1>2 DEF BeginLockFree
<1>3. CASE CacheHit(p)
  BY <1>3 DEF CacheHit, TakeShard
<1>4. CASE CacheMiss(p)
  BY <1>4 DEF CacheMiss
<1>5. CASE QueryLastShard(p)
  BY <1>5 DEF QueryLastShard, Fails, LastShards, RowsOf
<1>6. CASE FillCache(p)
  BY <1>6 DEF FillCache, TakeShard, CachePut
<1>7. CASE Build(p)
  <2>1. kind(p) # "init" => base[p] \in rows /\ base[p].aid = aid(p)
    BY <1>7 DEF Build, Readable, Shard
  <2>2. aid(p) \notin wiped
    BY <1>7, <2>1, RequestFields DEF Build
  <2> QED
    BY <1>7, <2>2 DEF Build
<1>8. CASE BuildFails(p)
  BY <1>8 DEF BuildFails, Fails
<1>9. CASE PutObject(p)
  BY <1>9 DEF PutObject, Fails, Overwrite
<1>10. CASE InsertRow(p)
  BY <1>10 DEF InsertRow, Fails
<1>11. CASE InsertFails(p)
  BY <1>11 DEF InsertFails, Fails
<1>12. CASE CacheNewShard(p)
  BY <1>12 DEF CacheNewShard, CachePut
<1>13. CASE ListShards(p)
  BY <1>13 DEF ListShards, Fails, RowsOf
<1>14. CASE DeleteRows(p)
  BY <1>14 DEF DeleteRows, Fails, NextChunks, RowsOf
<1>15. CASE DeleteRowsFails(p)
  BY <1>15 DEF DeleteRowsFails, Fails
<1>16. CASE DeleteObjects(p)
  BY <1>16 DEF DeleteObjects, Fails
<1>17. CASE UncacheWiped(p)
  BY <1>17 DEF UncacheWiped
<1>18. CASE Reply(p)
  BY <1>18 DEF Reply
<1> QED
  BY <1>1, <1>2, <1>3, <1>4, <1>5, <1>6, <1>7, <1>8, <1>9, <1>10, <1>11, <1>12, <1>13, <1>14,
      <1>15, <1>16, <1>17, <1>18 DEF Step

(* Rows come back to a wiped actor only by InitNewRepo.                        *)
LEMMA WipedStep ==
  ASSUME UInv, NEW p \in Procs, Step(p)
  PROVE  WipedStaysEmpty'
<1> USE ConstantsAssumption DEF UInv, WipedStaysEmpty, LiveInv, WriteInv, WriteOK, WipeInv,
    ReqInv, LockInv, Writing, TypeOK, RowsOf, Goto, Fails, stored, locals, ghosts, aid, kind,
    Request, WriteKinds, Points, Lookups
<1>1. CASE \E r \in Request : Begin(p, r)
  BY <1>1 DEF Begin
<1>2. CASE \E r \in Request : BeginLockFree(p, r)
  BY <1>2 DEF BeginLockFree
<1>3. CASE CacheHit(p)
  BY <1>3 DEF CacheHit, TakeShard
<1>4. CASE CacheMiss(p)
  BY <1>4 DEF CacheMiss
<1>5. CASE QueryLastShard(p)
  BY <1>5 DEF QueryLastShard, Fails, LastShards, RowsOf
<1>6. CASE FillCache(p)
  BY <1>6 DEF FillCache, TakeShard, CachePut
<1>7. CASE Build(p)
  BY <1>7 DEF Build, NextSeq, Readable
<1>8. CASE BuildFails(p)
  BY <1>8 DEF BuildFails, Fails
<1>9. CASE PutObject(p)
  BY <1>9 DEF PutObject, Fails, Overwrite
<1>10. CASE InsertRow(p)
  BY <1>10 DEF InsertRow, Fails
<1>11. CASE InsertFails(p)
  BY <1>11 DEF InsertFails, Fails
<1>12. CASE CacheNewShard(p)
  BY <1>12 DEF CacheNewShard, CachePut
<1>13. CASE ListShards(p)
  BY <1>13 DEF ListShards, Fails, RowsOf
<1>14. CASE DeleteRows(p)
  BY <1>14 DEF DeleteRows, Fails, NextChunks, RowsOf
<1>15. CASE DeleteRowsFails(p)
  BY <1>15 DEF DeleteRowsFails, Fails
<1>16. CASE DeleteObjects(p)
  BY <1>16 DEF DeleteObjects, Fails
<1>17. CASE UncacheWiped(p)
  BY <1>17 DEF UncacheWiped
<1>18. CASE Reply(p)
  BY <1>18 DEF Reply
<1> QED
  BY <1>1, <1>2, <1>3, <1>4, <1>5, <1>6, <1>7, <1>8, <1>9, <1>10, <1>11, <1>12, <1>13, <1>14,
      <1>15, <1>16, <1>17, <1>18 DEF Step

(* Rows are deleted only by a wipe of their actor.                             *)
LEMMA KeptStep ==
  ASSUME UInv, NEW p \in Procs, Step(p)
  PROVE  KeptInv'
<1> USE ConstantsAssumption DEF UInv, KeptInv, WipeInv, WriteInv, WriteOK, ReqInv, Writing,
    TypeOK, RowsOf, Goto, Fails, stored, locals, ghosts, aid, kind, Request, WriteKinds,
    Points, Lookups
<1>1. CASE \E r \in Request : Begin(p, r)
  BY <1>1 DEF Begin
<1>2. CASE \E r \in Request : BeginLockFree(p, r)
  BY <1>2 DEF BeginLockFree
<1>3. CASE CacheHit(p)
  BY <1>3 DEF CacheHit, TakeShard
<1>4. CASE CacheMiss(p)
  BY <1>4 DEF CacheMiss
<1>5. CASE QueryLastShard(p)
  BY <1>5 DEF QueryLastShard, Fails, LastShards, RowsOf
<1>6. CASE FillCache(p)
  BY <1>6 DEF FillCache, TakeShard, CachePut
<1>7. CASE Build(p)
  BY <1>7 DEF Build, NextSeq, Readable
<1>8. CASE BuildFails(p)
  BY <1>8 DEF BuildFails, Fails
<1>9. CASE PutObject(p)
  BY <1>9 DEF PutObject, Fails, Overwrite
<1>10. CASE InsertRow(p)
  BY <1>10 DEF InsertRow, Fails
<1>11. CASE InsertFails(p)
  BY <1>11 DEF InsertFails, Fails
<1>12. CASE CacheNewShard(p)
  BY <1>12 DEF CacheNewShard, CachePut
<1>13. CASE ListShards(p)
  BY <1>13 DEF ListShards, Fails, RowsOf
<1>14. CASE DeleteRows(p)
  BY <1>14 DEF DeleteRows, Fails, NextChunks, RowsOf
<1>15. CASE DeleteRowsFails(p)
  BY <1>15 DEF DeleteRowsFails, Fails
<1>16. CASE DeleteObjects(p)
  BY <1>16 DEF DeleteObjects, Fails
<1>17. CASE UncacheWiped(p)
  BY <1>17 DEF UncacheWiped
<1>18. CASE Reply(p)
  BY <1>18 DEF Reply
<1> QED
  BY <1>1, <1>2, <1>3, <1>4, <1>5, <1>6, <1>7, <1>8, <1>9, <1>10, <1>11, <1>12, <1>13, <1>14,
      <1>15, <1>16, <1>17, <1>18 DEF Step

-------------------------------------------------------------------------------
(* A service that has just started satisfies the invariant.                    *)
LEMMA InitUInv == Init => UInv
BY ConstantsAssumption
   DEF Init, UInv, TypeOK, LockInv, ReqInv, Durable, CommittedFor, HistoryInv, WriteInv,
     WriteOK, InitInv,
       WipeInv, LiveInv, WipedStaysEmpty, KeptInv, RowsOf, Writing, Points, Lookups, Revs,
       Commit,
       NoCommit, NoRecords, Tree

(* A restart keeps everything the DB and the bucket say.                       *)
LEMMA CrashUInv == UInv /\ Crash => UInv'
BY ConstantsAssumption
   DEF Crash, UInv, TypeOK, LockInv, ReqInv, Durable, CommittedFor, HistoryInv, Extends,
     WriteInv, WriteOK,
       InitInv, WriteOK, WipeInv, LiveInv, WipedStaysEmpty, KeptInv, RowsOf, Writing, Points,
       Lookups,
       stored, ghosts

(* So does one in which nothing moves.                                         *)
LEMMA StutterUInv == UInv /\ UNCHANGED vars => UInv'
BY DEF vars, UInv, TypeOK, LockInv, ReqInv, Durable, CommittedFor, HistoryInv, Extends,
    WriteInv, WriteOK,
       InitInv, WriteOK, WipeInv, LiveInv, WipedStaysEmpty, KeptInv, RowsOf, aid, kind,
       stored, locals, ghosts

(* The invariant is inductive.                                                 *)
THEOREM Invariance == Spec => []UInv
<1>1. UInv /\ [Next]_vars => UInv'
  <2> SUFFICES ASSUME UInv, [Next]_vars PROVE UInv'
    OBVIOUS
  <2>1. ASSUME NEW p \in Procs, Step(p) PROVE UInv'
    BY <2>1, TypeStep, LockStep, ReqStep, DurableStep, WriteStep, InitStep, WipeStep, LiveStep,
       WipedStep, KeptStep DEF UInv
  <2> QED
    BY <2>1, CrashUInv, StutterUInv DEF Next
<1> QED
  BY <1>1, InitUInv, PTL DEF Spec

(* Every variable has its type, the numbering of shards included.              *)
THEOREM TypeCorrect == Spec => []TypeOK
<1>1. UInv => TypeOK
  BY DEF UInv
<1> QED
  BY <1>1, Invariance, PTL

(* No half-done or failed write is ever visible through the last-shard cache,  *)
(* and the row of a commit reported as done stays until its actor is wiped.    *)
THEOREM ToldIsCommitted == Spec => []OnlyCommittedIsTold
<1>1. ASSUME UInv PROVE OnlyCommittedIsTold
  <2>1. \A s \in acked : s.aid \notin doomed => s \in rows
    BY <1>1 DEF UInv, KeptInv
  <2>2. \A a \in Actors : cache[a] # EmptyShard => cache[a] \in history /\ cache[a].aid = a
    BY <1>1 DEF UInv, Durable, CommittedFor
  <2> QED
    BY <2>1, <2>2 DEF OnlyCommittedIsTold
<1> QED
  BY <1>1, Invariance, PTL

(* Every commit, on a fork or not, extends an earlier commit of its actor.     *)
THEOREM HistoryIsTree == Spec => []TreeHistory
<1>1. UInv => TreeHistory
  BY DEF UInv, HistoryInv, Extends, TreeHistory
<1> QED
  BY <1>1, Invariance, PTL

(* Nothing but InitNewRepo gives a wiped actor a shard row again.              *)
THEOREM WipeIsFinal == Spec => []WipedStaysEmpty
<1>1. UInv => WipedStaysEmpty
  BY DEF UInv
<1> QED
  BY <1>1, Invariance, PTL
-------------------------------------------------------------------------------
(* What the per-actor lock buys, as long as the cached shard of the actor is   *)
(* not left behind: its history does not fork, its objects are not overwritten,*)
(* its head stays readable. The requests that hold no lock read the cache and  *)
(* fill it beside all this.                                                    *)

(* The last shard ever committed for its actor, wiped since or not.            *)
IsTop(s) == s \in history /\ \A t \in history : t.aid = s.aid => t.seq <= s.seq

NoShards(a) == \A s \in history : s.aid # a

(* Only an actor that has a shard is left behind.                              *)
AstrayBorn == \A a \in astray : ~NoShards(a)

OneLine ==
  \A s, t \in history : s.aid \notin astray /\ SameObject(s, t) => s = t

(* A wipe that stopped half-way has left the top shard to the last.            *)
TopRow ==
  \A s \in rows : s.aid \notin astray => \E t \in rows : t.aid = s.aid /\ IsTop(t)

CacheTop ==
  \A a \in Actors \ astray : cache[a] # EmptyShard =>
    IsTop(cache[a]) \/ \E p \in Procs : pc[p] = "cacheput" /\ aid(p) = a

(* What a request that holds the lock has read as its actor's last shard still *)
(* is.                                                                         *)
ReadOK(p) ==
  /\ pc[p] \in Lookups /\ io[p] = "fill" =>
       IF found[p] = EmptyShard THEN RowsOf(aid(p)) = {} ELSE IsTop(found[p])
  /\ pc[p] \in {"build", "put", "insert"} /\ base[p] # EmptyShard => IsTop(base[p])
  /\ pc[p] = "found" =>
       IF base[p] = EmptyShard THEN RowsOf(aid(p)) = {} ELSE IsTop(base[p])
  /\ pc[p] \in {"put", "insert"} =>
       /\ new[p].seq = base[p].seq + 1
       /\ base[p] = EmptyShard => NoShards(aid(p))
  /\ pc[p] = "cacheput" => IsTop(new[p])
OnCourse(p) == pc[p] # "idle" /\ kind(p) # "get" /\ aid(p) \notin astray
ReadInv == \A p \in Procs : OnCourse(p) => ReadOK(p)

(* Each row has its object.                                                    *)
ObjectInv ==
  /\ \A s \in rows : s.aid \notin astray => s \in objs
  /\ \A s, t \in objs : SameObject(s, t) => s = t
  /\ \A p \in Procs : pc[p] = "insert" => new[p] \in objs

LInv == AstrayBorn /\ OneLine /\ TopRow /\ CacheTop /\ ReadInv /\ ObjectInv
-------------------------------------------------------------------------------
(* A request past its reads holds its actor's lock.                            *)
LEMMA Writes ==
  ASSUME UInv, NEW p \in Procs,
         pc[p] \in {"rev", "session", "build", "put", "insert", "cacheput", "list", "wiperows",
                   "wipeobjs"}
  PROVE  kind(p) # "get" /\ aid(p) \in Actors
BY RequestFields DEF UInv, ReqInv, Writing, WriteKinds

(* A locked request finds its actor's top shard in the cache, if any.          *)
LEMMA CachedTop ==
  ASSUME UInv, LInv, NEW p \in Procs, OnCourse(p), pc[p] # "cacheput",
         cache[aid(p)] # EmptyShard
  PROVE  IsTop(cache[aid(p)])
<1>1. \A q \in Procs : pc[q] = "cacheput" => aid(q) # aid(p)
  BY Writes, LockExclusive DEF OnCourse
<1> QED
  BY <1>1, RequestFields DEF LInv, CacheTop, OnCourse

(* The last row is the top shard.                                              *)
LEMMA LastRowTop ==
  ASSUME UInv, TopRow, NEW a \in Actors \ astray, NEW s \in LastShards(a)
  PROVE  IF s = EmptyShard THEN RowsOf(a) = {} ELSE s \in RowsOf(a) /\ IsTop(s)
<1>0. rows \subseteq history /\ history \subseteq Shard /\ EmptyShard \notin Shard
  BY ConstantsAssumption DEF UInv, TypeOK, Durable, Shard, EmptyShard
<1>1. CASE RowsOf(a) = {}
  BY <1>1 DEF LastShards
<1>2. CASE RowsOf(a) # {}
  <2>1. s \in RowsOf(a) /\ \A t \in RowsOf(a) : t.seq <= s.seq
    BY <1>2 DEF LastShards
  <2>2. PICK t \in rows : t.aid = a /\ IsTop(t)
    BY <2>1 DEF TopRow, RowsOf
  <2>3. t.seq <= s.seq /\ s.seq \in Nat /\ t.seq \in Nat /\ \A u \in history : u.seq \in Nat
    BY <1>0, <2>1, <2>2, ConstantsAssumption DEF RowsOf, Shard, Revs
  <2>4. IsTop(s)
    BY <1>0, <2>1, <2>2, <2>3 DEF IsTop, RowsOf
  <2> QED
    BY <1>0, <2>1, <2>4 DEF RowsOf
<1> QED
  BY <1>1, <1>2

(* A step is local to its request, and changes rows of that request's actor.   *)
LEMMA StepLocal ==
  ASSUME UInv, NEW p \in Procs, Step(p), NEW q \in Procs, q # p
  PROVE  /\ pc'[q] = pc[q] /\ io'[q] = io[q] /\ req'[q] = req[q]
         /\ found'[q] = found[q] /\ base'[q] = base[q] /\ new'[q] = new[q]
<1>t. TypeOK
  BY DEF UInv
<1> QED
  BY <1>t DEF TypeOK, Goto, Fails, stored, locals, ghosts, Step,
       Begin, BeginLockFree, CacheHit, CacheMiss, QueryLastShard, FillCache,
       TakeShard, Build, BuildFails, PutObject, InsertRow, InsertFails,
       CacheNewShard, ListShards, DeleteRows, DeleteRowsFails, DeleteObjects, UncacheWiped,
       Reply

(* An actor is left behind by a fill of the cache or by an insert reported as  *)
(* failed.                                                                     *)
LEMMA AstrayFrame ==
  ASSUME NEW p \in Procs, Step(p)
  PROVE  /\ astray \subseteq astray'
         /\ astray' \subseteq astray \cup {aid(p)}
         /\ astray' # astray => FillCache(p) \/ InsertRow(p)
BY DEF stored, locals, ghosts, Step,
       Begin, BeginLockFree, CacheHit, CacheMiss, QueryLastShard, FillCache,
       TakeShard, Build, BuildFails, PutObject, InsertRow, InsertFails, LeaveCached,
       CacheNewShard, ListShards, DeleteRows, DeleteRowsFails, DeleteObjects, UncacheWiped,
       Reply

(* What a step changes of the history and the rows: an insert adds its shard,  *)
(* and nobody touches the rows of another actor.                               *)
LEMMA StepFrame ==
  ASSUME UInv, NEW p \in Procs, Step(p), pc[p] # "idle"
  PROVE  /\ history' = history \/ (InsertRow(p) /\ history' = history \cup {new[p]})
         /\ \A a \in Actors \ {aid(p)} : RowsOf(a)' = RowsOf(a)
         /\ rows' = rows \/ InsertRow(p) \/ DeleteRows(p)
<1>t. TypeOK /\ WriteInv /\ WipeInv
  BY DEF UInv
<1>1. CASE InsertRow(p)
  BY <1>t, <1>1 DEF InsertRow, RowsOf, WriteInv, WriteOK, Writing
<1>2. CASE DeleteRows(p)
  BY <1>t, <1>2 DEF DeleteRows, RowsOf, WipeInv, NextChunks, ghosts
<1>3. CASE ~InsertRow(p) /\ ~DeleteRows(p)
  <2>1. UNCHANGED <<rows, history>>
    BY <1>3 DEF stored, locals, ghosts, Step,
       Begin, BeginLockFree, CacheHit, CacheMiss, QueryLastShard, FillCache,
       TakeShard, Build, BuildFails, PutObject, InsertFails, CacheNewShard,
       ListShards, DeleteRowsFails, DeleteObjects, UncacheWiped, Reply
  <2> QED
    BY <2>1 DEF RowsOf
<1> QED
  BY <1>1, <1>2, <1>3

(* The shard a write adds to the history becomes its actor's top one.          *)
LEMMA InsertTops ==
  ASSUME UInv, LInv, NEW p \in Procs, pc[p] = "insert", aid(p) \notin astray,
         history' = history \cup {new[p]}
  PROVE  /\ \A t \in history : t.aid = aid(p) => t.seq < new[p].seq
         /\ \A s : s = new[p] => IsTop(s)'
<1>0. OnCourse(p)
  BY Writes DEF OnCourse
<1>1. /\ new[p] \in Shard /\ new[p].aid = aid(p) /\ new[p].seq = base[p].seq + 1
      /\ base[p] \in Shard \cup {EmptyShard}
      /\ IF base[p] = EmptyShard THEN NoShards(aid(p)) ELSE IsTop(base[p]) /\ base[p].aid = aid(p)
  BY <1>0 DEF LInv, ReadInv, ReadOK, UInv, TypeOK, WriteInv, WriteOK, Writing, Durable,
     CommittedFor
<1>2. history \subseteq Shard /\ base[p].seq \in Nat /\ \A t \in Shard : t.seq \in Nat
  BY <1>1, ShardFields, ConstantsAssumption DEF UInv, TypeOK, Shard, Revs
<1>3. \A t \in history : t.aid = aid(p) => t.seq < new[p].seq
  BY <1>1, <1>2 DEF IsTop, NoShards
<1>5. \A s : s = new[p] => IsTop(s)'
  <2> SUFFICES ASSUME NEW s, s = new[p] PROVE IsTop(s)'
    OBVIOUS
  <2>1. s \in history' /\ \A t \in history' : t.aid = s.aid => t.seq <= s.seq
    BY <1>1, <1>2, <1>3
  <2> QED
    BY <2>1 DEF IsTop
<1> QED
  BY <1>3, <1>5

(* The top shards of other actors stay on top.                                 *)
LEMMA InsertKeepsTops ==
  ASSUME UInv, NEW p \in Procs, pc[p] = "insert", history' = history \cup {new[p]}
  PROVE  \A s : IsTop(s) /\ s.aid # aid(p) => IsTop(s)'
BY DEF IsTop, UInv, WriteInv, WriteOK, Writing

-------------------------------------------------------------------------------
(* An actor left behind has a shard.                                           *)
LEMMA AstrayBornStep ==
  ASSUME UInv, LInv, NEW p \in Procs, Step(p)
  PROVE  AstrayBorn'
<1>1. history \subseteq history' /\ astray' \subseteq astray \cup {aid(p)}
  BY CommitsKept, AstrayFrame
<1>2. ASSUME astray' # astray PROVE \E s \in history' : s.aid = aid(p)
  <2>1. CASE FillCache(p)
    BY <1>1, <1>2, <2>1 DEF FillCache, LeaveCached, UInv, Durable, CommittedFor, Lookups
  <2>2. CASE InsertRow(p)
    BY <2>2 DEF InsertRow, UInv, WriteInv, WriteOK, Writing
  <2> QED
    BY <1>2, <2>1, <2>2, AstrayFrame
<1>3. ASSUME NEW a \in astray', NoShards(a)' PROVE FALSE
  <2>1. \A s \in history' : s.aid # a
    BY <1>3 DEF NoShards
  <2>2. a \notin astray
    BY <1>1, <2>1 DEF LInv, AstrayBorn, NoShards
  <2> QED
    BY <1>1, <1>2, <2>1, <2>2
<1> QED
  BY <1>3 DEF AstrayBorn

(* The history does not fork.                                                  *)
LEMMA OneLineStep ==
  ASSUME UInv, LInv, NEW p \in Procs, Step(p)
  PROVE  OneLine'
<1>a. astray \subseteq astray'
  BY AstrayFrame
<1>1. CASE InsertRow(p) /\ aid(p) \notin astray
  <2>1. pc[p] = "insert" /\ history' = history \cup {new[p]} /\ new[p].aid = aid(p)
        /\ new[p] \in Shard
    BY <1>1 DEF InsertRow, UInv, WriteInv, WriteOK, Writing
  <2>2. \A t \in history : t.aid = aid(p) => t.seq < new[p].seq
    BY <1>1, <2>1, InsertTops
  <2>3. history \subseteq Shard /\ \A t \in Shard : t.seq \in Int
    BY ConstantsAssumption DEF UInv, TypeOK, Shard, Revs
  <2>4. \A t \in history : ~SameObject(t, new[p]) /\ ~SameObject(new[p], t)
    BY <2>1, <2>2, <2>3 DEF SameObject
  <2> QED
    BY <1>a, <2>1, <2>4 DEF LInv, OneLine
<1>2. CASE InsertRow(p) /\ aid(p) \in astray
  <2>1. history' = history \cup {new[p]} /\ new[p].aid \in astray'
    BY <1>2, <1>a DEF InsertRow, UInv, WriteInv, WriteOK, Writing
  <2> QED
    BY <1>a, <2>1 DEF LInv, OneLine, SameObject
<1>3. CASE ~InsertRow(p)
  <2>1. history' = history
    BY <1>3 DEF stored, locals, ghosts, Step,
       Begin, BeginLockFree, CacheHit, CacheMiss, QueryLastShard, FillCache,
       TakeShard, Build, BuildFails, PutObject, InsertFails, CacheNewShard,
       ListShards, DeleteRows, DeleteRowsFails, DeleteObjects, UncacheWiped, Reply
  <2> QED
    BY <1>a, <2>1 DEF LInv, OneLine
<1> QED
  BY <1>1, <1>2, <1>3

(* The top row is the last one a wipe deletes, ties apart.                     *)
LEMMA TopRowStep ==
  ASSUME UInv, LInv, NEW p \in Procs, Step(p)
  PROVE  TopRow'
<1>t. history \subseteq Shard /\ rows \subseteq history /\ \A t \in Shard : t.seq \in Nat
  BY ConstantsAssumption DEF UInv, TypeOK, Durable, Shard, Revs
<1>a. astray \subseteq astray'
  BY AstrayFrame
<1>1. CASE InsertRow(p)
  <2>1. /\ pc[p] = "insert" /\ history' = history \cup {new[p]} /\ rows' = rows \cup {new[p]}
        /\ new[p].aid = aid(p)
    BY <1>1 DEF InsertRow, UInv, WriteInv, WriteOK, Writing
  <2>2. PICK n : n = new[p]
    OBVIOUS
  <2>3. \A s : IsTop(s) /\ s.aid # aid(p) => IsTop(s)'
    BY <2>1, InsertKeepsTops
  <2>4. ASSUME NEW s \in rows', s.aid \notin astray'
        PROVE  \E t \in rows' : t.aid = s.aid /\ IsTop(t)'
    <3>1. CASE s.aid = aid(p)
      <4>1. IsTop(n)'
        BY <1>a, <2>1, <2>2, <2>4, <3>1, InsertTops
      <4> QED
        BY <2>1, <2>2, <3>1, <4>1
    <3>2. CASE s.aid # aid(p)
      BY <1>a, <2>1, <2>3, <2>4, <3>2 DEF LInv, TopRow
    <3> QED
      BY <3>1, <3>2
  <2> QED
    BY <2>4 DEF TopRow
<1>2. CASE DeleteRows(p)
  <2>1. PICK c \in NextChunks(todo[p]) : rows' = rows \ c
    BY <1>2 DEF DeleteRows
  <2>2. todo[p] = RowsOf(aid(p)) /\ history' = history
    BY <1>2 DEF DeleteRows, UInv, WipeInv, ghosts
  <2>3. \A s \in c : s.aid = aid(p)
    BY <2>1, <2>2 DEF NextChunks, RowsOf
  <2>4. ASSUME NEW s \in rows', s.aid \notin astray'
        PROVE  \E t \in rows' : t.aid = s.aid /\ IsTop(t)
    <3>1. PICK t \in rows : t.aid = s.aid /\ IsTop(t)
      BY <1>a, <2>1, <2>4 DEF LInv, TopRow
    <3>2. CASE t \notin c
      BY <2>1, <3>1, <3>2
    <3>3. CASE t \in c
      <4>1. s \in todo[p] \ c
        BY <2>1, <2>2, <2>3, <2>4, <3>1, <3>3 DEF RowsOf
      <4>2. t.seq <= s.seq
        BY <2>1, <3>3, <4>1 DEF NextChunks
      <4>3. IsTop(s)
        BY <1>t, <2>1, <2>4, <3>1, <4>2 DEF IsTop
      <4> QED
        BY <2>4, <4>3
    <3> QED
      BY <3>2, <3>3
  <2> QED
    BY <2>2, <2>4 DEF TopRow, IsTop
<1>3. CASE ~InsertRow(p) /\ ~DeleteRows(p)
  <2>1. UNCHANGED <<rows, history>>
    BY <1>3 DEF stored, locals, ghosts, Step,
       Begin, BeginLockFree, CacheHit, CacheMiss, QueryLastShard, FillCache,
       TakeShard, Build, BuildFails, PutObject, InsertFails, CacheNewShard,
       ListShards, DeleteRowsFails, DeleteObjects, UncacheWiped, Reply
  <2> QED
    BY <1>a, <2>1 DEF LInv, TopRow, IsTop
<1> QED
  BY <1>1, <1>2, <1>3

(* The cache lags behind only while its writer is between the insert and the   *)
(* cache put, under the lock.                                                  *)
LEMMA CacheTopStep ==
  ASSUME UInv, LInv, NEW p \in Procs, Step(p)
  PROVE  CacheTop'
<1>t. TypeOK /\ \A a \in Actors : CommittedFor(cache[a], a)
  BY DEF UInv, Durable
<1>a. astray \subseteq astray'
  BY AstrayFrame
<1> SUFFICES ASSUME NEW a \in Actors \ astray', cache'[a] # EmptyShard
             PROVE  IsTop(cache[a])' \/ \E q \in Procs : pc'[q] = "cacheput" /\ aid(q)' = a
  BY DEF CacheTop
<1>1. CASE InsertRow(p)
  <2>1. /\ pc[p] = "insert" /\ history' = history \cup {new[p]} /\ UNCHANGED <<cache, req>>
        /\ \A q \in Procs : q # p => pc'[q] = pc[q]
        /\ pc'[p] = "cacheput" \/ LeaveCached(p, cache[aid(p)], {new[p]})
    BY <1>1, <1>t, StepLocal DEF InsertRow, Goto, TypeOK
  <2>2. CASE a = aid(p)
    <3>1. CASE pc'[p] = "cacheput"
      BY <2>1, <2>2, <3>1 DEF aid
    <3>2. CASE LeaveCached(p, cache[aid(p)], {new[p]})
      <4>1. cache'[a] = new[p]
        BY <2>1, <2>2, <3>2 DEF LeaveCached
      <4>2. PICK n : n = new[p]
        OBVIOUS
      <4>3. IsTop(n)'
        BY <1>a, <2>1, <2>2, <4>2, InsertTops
      <4> QED
        BY <4>1, <4>2, <4>3
    <3> QED
      BY <2>1, <3>1, <3>2
  <2>3. CASE a # aid(p)
    <3>1. CASE \E q \in Procs : pc[q] = "cacheput" /\ aid(q) = a
      BY <2>1, <2>3, <3>1 DEF aid
    <3>2. CASE ~ \E q \in Procs : pc[q] = "cacheput" /\ aid(q) = a
      <4>1. IsTop(cache[a]) /\ cache[a].aid = a
        BY <1>a, <2>1, <3>2, <1>t DEF LInv, CacheTop, CommittedFor
      <4>2. PICK s : s = cache[a]
        OBVIOUS
      <4>3. IsTop(s)'
        BY <2>1, <2>3, <4>1, <4>2, InsertKeepsTops
      <4> QED
        BY <2>1, <4>2, <4>3
    <3> QED
      BY <3>1, <3>2
  <2> QED
    BY <2>2, <2>3
<1>2. CASE CacheNewShard(p)
  <2>1. /\ pc[p] = "cacheput" /\ UNCHANGED <<history, req>> /\ CachePut(new[p])
        /\ pc' = [pc EXCEPT ![p] = "done"]
    BY <1>2 DEF CacheNewShard, Goto, locals
  <2>2. /\ new[p].aid = aid(p) /\ aid(p) \in Actors
        /\ aid(p) \notin astray => IsTop(new[p])
    BY <2>1, Writes DEF LInv, ReadInv, ReadOK, OnCourse, UInv, WriteInv, WriteOK, Writing
  <2>3. cache' = [cache EXCEPT ![aid(p)] = new[p]]
    BY <2>1, <2>2 DEF CachePut
  <2>4. CASE a = aid(p)
    BY <1>a, <1>t, <2>1, <2>2, <2>3, <2>4 DEF TypeOK, IsTop
  <2>5. CASE a # aid(p)
    <3>1. cache'[a] = cache[a]
      BY <1>t, <2>3, <2>5 DEF TypeOK
    <3> QED
      BY <1>a, <1>t, <2>1, <2>5, <3>1 DEF LInv, CacheTop, IsTop, TypeOK, aid
  <2> QED
    BY <2>4, <2>5
<1>3. CASE FillCache(p)
  <2>1. /\ pc[p] \in Lookups /\ io[p] = "fill" /\ UNCHANGED <<history, req>>
        /\ CachePut(found[p]) /\ \A q \in Procs : q # p => pc'[q] = pc[q]
        /\ LeaveCached(p, found[p], LastShards(aid(p)))
        /\ CommittedFor(found[p], aid(p))
    BY <1>3, StepLocal DEF FillCache, UInv, Durable, Lookups
  <2>2. CASE a = found[p].aid
    <3>1. cache'[a] = found[p] /\ found[p] # EmptyShard
      BY <1>t, <2>1, <2>2, ConstantsAssumption DEF CachePut, TypeOK, EmptyShard
    <3>2. IsTop(found[p])
      <4>1. a = aid(p) /\ found[p] \in LastShards(a)
        BY <2>1, <2>2, <3>1 DEF LeaveCached, CommittedFor
      <4> QED
        BY <1>a, <3>1, <4>1, LastRowTop DEF LInv
    <3> QED
      BY <2>1, <3>1, <3>2 DEF IsTop
  <2>3. CASE a # found[p].aid
    <3>1. cache'[a] = cache[a]
      BY <1>t, <2>1, <2>3 DEF CachePut, TypeOK
    <3> QED
      BY <1>a, <1>t, <2>1, <3>1 DEF LInv, CacheTop, IsTop, TypeOK, aid, Lookups
  <2> QED
    BY <2>2, <2>3
<1>4. CASE UncacheWiped(p)
  <2>1. cache'[a] = cache[a] /\ UNCHANGED <<history, req>> /\ pc[p] = "wiperows"
    BY <1>4, <1>t DEF UncacheWiped, TypeOK, locals
  <2> QED
    BY <1>a, <2>1, <1>4, <1>t, StepLocal DEF LInv, CacheTop, IsTop, aid
<1>5. CASE ~InsertRow(p) /\ ~CacheNewShard(p) /\ ~FillCache(p) /\ ~UncacheWiped(p)
  <2>1. UNCHANGED <<cache, history>> /\ pc[p] # "cacheput"
    BY <1>5 DEF stored, locals, ghosts, Step, Lookups,
       Begin, BeginLockFree, CacheHit, CacheMiss, QueryLastShard, Build,
       BuildFails, PutObject, InsertFails, ListShards, DeleteRows, DeleteRowsFails,
       DeleteObjects, Reply
  <2> QED
    BY <1>a, <2>1, StepLocal DEF LInv, CacheTop, IsTop, aid
<1> QED
  BY <1>1, <1>2, <1>3, <1>4, <1>5

(* What another request has read does not change under it.                     *)
LEMMA OtherReads ==
  ASSUME UInv, LInv, NEW p \in Procs, Step(p), NEW q \in Procs, q # p, OnCourse(q)'
  PROVE  ReadOK(q)'
<1>1. /\ pc'[q] = pc[q] /\ io'[q] = io[q] /\ req'[q] = req[q]
      /\ found'[q] = found[q] /\ base'[q] = base[q] /\ new'[q] = new[q]
  BY StepLocal
<1>2. ReadOK(q) /\ OnCourse(q)
  BY <1>1, AstrayFrame DEF LInv, ReadInv, OnCourse, aid, kind
<1>4. CASE pc[p] = "idle" \/ kind(p) = "get"
  <2>1. pc[p] \in {"idle", "head", "found", "done"}
    BY <1>4 DEF UInv, ReqInv, TypeOK, Points, Lookups, Writing, WriteKinds
  <2>2. UNCHANGED <<rows, history>>
    BY <2>1 DEF stored, locals, ghosts, Step, Lookups,
       Begin, BeginLockFree, CacheHit, CacheMiss, QueryLastShard, FillCache,
       TakeShard, Build, BuildFails, PutObject, InsertRow, InsertFails,
       CacheNewShard, ListShards, DeleteRows, DeleteRowsFails, DeleteObjects, UncacheWiped,
       Reply
  <2> QED
    BY <1>1, <1>2, <2>2 DEF ReadOK, IsTop, NoShards, RowsOf, aid
<1>5. CASE pc[p] # "idle" /\ kind(p) # "get"
  <2>1. aid(q) \in Actors /\ aid(q) # aid(p)
    BY <1>2, <1>5, RequestFields, LockExclusive DEF OnCourse
  <2>2. RowsOf(aid(q))' = RowsOf(aid(q))
    BY <1>1, <1>5, <2>1, StepFrame DEF RowsOf, aid
  <2>3. /\ found[q] # EmptyShard => found[q].aid = aid(q)
        /\ base[q] # EmptyShard => base[q].aid = aid(q)
        /\ pc[q] = "cacheput" => new[q].aid = aid(q)
    BY <1>2 DEF OnCourse, UInv, Durable, CommittedFor, WriteInv, WriteOK, Writing
  <2>4. \A s : IsTop(s) /\ s.aid = aid(q) => IsTop(s)'
    <3>1. CASE history' = history
      BY <3>1 DEF IsTop
    <3>2. CASE history' # history
      <4>1. pc[p] = "insert" /\ history' = history \cup {new[p]}
        BY <1>5, <3>2, StepFrame DEF InsertRow
      <4> QED
        BY <2>1, <4>1, InsertKeepsTops
    <3> QED
      BY <3>1, <3>2
  <2>5. NoShards(aid(q)) => NoShards(aid(q))'
    <3>1. CASE history' = history
      BY <1>1, <3>1 DEF NoShards, aid
    <3>2. CASE history' # history
      <4>1. pc[p] = "insert" /\ history' = history \cup {new[p]}
        BY <1>5, <3>2, StepFrame DEF InsertRow
      <4>2. new[p].aid = aid(p)
        BY <4>1 DEF UInv, WriteInv, WriteOK, Writing
      <4> QED
        BY <1>1, <2>1, <4>1, <4>2 DEF NoShards, aid
    <3> QED
      BY <3>1, <3>2
  <2>6. /\ found[q] # EmptyShard /\ IsTop(found[q]) => IsTop(found[q])'
        /\ base[q] # EmptyShard /\ IsTop(base[q]) => IsTop(base[q])'
        /\ pc[q] = "cacheput" /\ IsTop(new[q]) => IsTop(new[q])'
    <3> PICK f, b, n : f = found[q] /\ b = base[q] /\ n = new[q]
      OBVIOUS
    <3>1. /\ f # EmptyShard /\ IsTop(f) => IsTop(f)'
          /\ b # EmptyShard /\ IsTop(b) => IsTop(b)'
          /\ pc[q] = "cacheput" /\ IsTop(n) => IsTop(n)'
      BY <2>3, <2>4
    <3> QED
      BY <1>1, <3>1
  <2>7. aid(q)' = aid(q)
    BY <1>1 DEF aid
  <2> QED
    BY <1>1, <1>2, <2>2, <2>5, <2>6, <2>7 DEF ReadOK
<1> QED
  BY <1>4, <1>5

(* What a request reads, or has read, is its actor's top shard.                *)
LEMMA ReadStep ==
  ASSUME UInv, LInv, NEW p \in Procs, Step(p)
  PROVE  ReadInv'
<1>t. TypeOK
  BY DEF UInv
<1> SUFFICES ASSUME OnCourse(p)' PROVE ReadOK(p)'
  BY OtherReads DEF ReadInv
<1>b. CASE \E r \in Request : Begin(p, r) \/ BeginLockFree(p, r)
  <2>1. PICK r \in Request : Begin(p, r) \/ BeginLockFree(p, r)
    BY <1>b
  <2>2. io[p] # "fill" /\ r.kind \in WriteKinds \cup {"init", "root", "get", "wipe"}
    BY <2>1 DEF UInv, ReqInv, Begin, BeginLockFree, Lookups, Request
  <2>3. pc'[p] \in Lookups \cup {"idle", "list"} /\ io'[p] # "fill"
    BY <1>t, <2>1, <2>2 DEF Begin, BeginLockFree, Goto, Lookups, TypeOK, WriteKinds
  <2> QED
    BY <2>3 DEF ReadOK, Lookups
<1> SUFFICES ASSUME ~ \E r \in Request : Begin(p, r) \/ BeginLockFree(p, r)
             PROVE  ReadOK(p)'
  BY <1>b
<1>o. OnCourse(p) /\ ReadOK(p)
  <2>1. pc[p] # "idle" /\ (req' = req \/ Reply(p))
    BY DEF stored, locals, ghosts, Step, Lookups, CacheHit, CacheMiss, QueryLastShard,
        FillCache,
       TakeShard, Build, BuildFails, PutObject, InsertRow, InsertFails,
       CacheNewShard, ListShards, DeleteRows, DeleteRowsFails, DeleteObjects, UncacheWiped,
       Reply
  <2>2. ~Reply(p)
    BY <1>t DEF Reply, Goto, TypeOK, OnCourse
  <2> QED
    BY <2>1, <2>2, AstrayFrame DEF OnCourse, LInv, ReadInv, aid, kind
<1>1. CASE CacheHit(p)
  <2>1. /\ pc[p] \in Lookups /\ io[p] = "check" /\ cache[aid(p)] # EmptyShard
        /\ UNCHANGED <<history, io>>
    BY <1>1 DEF CacheHit, ghosts
  <2>2. IsTop(cache[aid(p)])
    BY <1>o, <2>1, CachedTop DEF Lookups
  <2>3. pc'[p] \in {"session", "build", "done", "found"}
        /\ (pc'[p] \in {"build", "found"} => base'[p] = cache[aid(p)])
    BY <1>1, <1>t DEF CacheHit, TakeShard, Goto, TypeOK
  <2> QED
    BY <2>1, <2>2, <2>3 DEF ReadOK, IsTop, Lookups
<1>2. CASE QueryLastShard(p)
  <2>1. UNCHANGED <<rows, history, req>> /\ aid(p) \in Actors
    BY <1>2, RequestFields DEF QueryLastShard, stored, ghosts, Lookups
  <2>2. CASE pc'[p] = "done"
    BY <2>2 DEF ReadOK, Lookups
  <2>3. CASE pc'[p] # "done"
    <3>1. pc' = pc /\ pc[p] \in Lookups /\ found'[p] \in LastShards(aid(p))
      BY <1>2, <1>t, <2>3 DEF QueryLastShard, Fails, Goto, TypeOK
    <3>2. IF found'[p] = EmptyShard THEN RowsOf(aid(p)) = {} ELSE IsTop(found'[p])
      BY <1>o, <2>1, <3>1, LastRowTop DEF LInv, OnCourse
    <3> QED
      BY <2>1, <3>1, <3>2 DEF ReadOK, Lookups, RowsOf, IsTop, aid
  <2> QED
    BY <2>2, <2>3
<1>3. CASE FillCache(p)
  <2>1. /\ pc[p] \in Lookups /\ io[p] = "fill" /\ io'[p] = "check"
        /\ UNCHANGED <<rows, history, req>>
    BY <1>3, <1>t DEF FillCache, TypeOK, stored, ghosts
  <2>2. pc'[p] \in {"session", "build", "done", "found"}
        /\ (pc'[p] \in {"build", "found"} => base'[p] = found[p])
    BY <1>3, <1>t DEF FillCache, TakeShard, Goto, TypeOK
  <2> QED
    BY <1>o, <2>1, <2>2 DEF ReadOK, IsTop, Lookups, RowsOf, aid
<1>4. CASE Build(p)
  <2>1. pc[p] = "build" /\ pc'[p] = "put" /\ UNCHANGED <<history, req, base>>
        /\ new'[p].seq = base[p].seq + 1
    BY <1>4, <1>t DEF Build, Goto, NextSeq, TypeOK, ghosts
  <2>2. base[p] = EmptyShard => NoShards(aid(p))
    <3>1. EmptyShard \notin rows
      BY <1>t, ConstantsAssumption DEF TypeOK, EmptyShard, Shard
    <3>2. base[p] = EmptyShard => kind(p) = "init"
      BY <1>4, <3>1 DEF Build, Readable
    <3> QED
      BY <2>1, <3>2 DEF UInv, InitInv, NoShards
  <2> QED
    BY <1>o, <2>1, <2>2 DEF ReadOK, IsTop, NoShards, Lookups, aid
<1>5. CASE InsertRow(p)
  <2>1. /\ pc[p] = "insert" /\ history' = history \cup {new[p]} /\ UNCHANGED new
        /\ pc'[p] \in {"cacheput", "done"}
    BY <1>5, <1>t DEF InsertRow, Goto, Fails, locals, TypeOK
  <2>2. PICK n : n = new[p]
    OBVIOUS
  <2>3. IsTop(n)'
    BY <1>o, <2>1, <2>2, InsertTops DEF OnCourse
  <2>4. IsTop(new[p])'
    BY <2>1, <2>2, <2>3
  <2> QED
    BY <2>1, <2>4 DEF ReadOK, Lookups
<1>6. CASE PutObject(p)
  BY <1>6, <1>o, <1>t DEF PutObject, Fails, Goto, ReadOK, IsTop, NoShards, Lookups, TypeOK,
      locals,
     ghosts, aid
<1>7. CASE CacheMiss(p) \/ Reply(p)
  <2>1. pc'[p] \in Lookups \cup {"idle"} /\ io'[p] # "fill"
    BY <1>7, <1>t DEF UInv, ReqInv, CacheMiss, Reply, Goto, Lookups, TypeOK
  <2> QED
    BY <2>1 DEF ReadOK, Lookups
<1>8. CASE \/ BuildFails(p) \/ InsertFails(p) \/ CacheNewShard(p) \/ ListShards(p)
           \/ DeleteRows(p) \/ DeleteRowsFails(p) \/ DeleteObjects(p) \/ UncacheWiped(p)
  <2>1. pc'[p] \in {"done", "wiperows", "wipeobjs"}
    BY <1>8, <1>t DEF BuildFails, InsertFails, CacheNewShard, ListShards, DeleteRows,
       DeleteRowsFails, DeleteObjects, UncacheWiped, Fails, Goto, TypeOK
  <2> QED
    BY <2>1 DEF ReadOK, Lookups
<1> QED
  BY <1>1, <1>2, <1>3, <1>4, <1>5, <1>6, <1>7, <1>8 DEF Step

(* Objects are written before their rows and deleted after them.               *)
LEMMA ObjectStep ==
  ASSUME UInv, LInv, NEW p \in Procs, Step(p)
  PROVE  ObjectInv'
<1>t. /\ TypeOK /\ ObjectInv /\ rows \subseteq history /\ history \subseteq Shard
      /\ \A t \in Shard : t.seq \in Nat
  BY ConstantsAssumption DEF UInv, LInv, TypeOK, Durable, Shard, Revs
<1>a. astray \subseteq astray'
  BY AstrayFrame
<1>1. CASE PutObject(p)
  <2>1. /\ pc[p] = "put" /\ UNCHANGED <<rows, new>> /\ new[p] \in Shard /\ new[p].aid = aid(p)
        /\ \A q \in Procs : q # p => pc'[q] = pc[q]
    BY <1>1, StepLocal DEF PutObject, locals, UInv, WriteInv, WriteOK, Writing
  <2>2. CASE UNCHANGED objs
    BY <1>1, <1>a, <1>t, <2>1, <2>2
       DEF PutObject, ObjectInv, Goto, Fails, TypeOK, Overwrite
  <2>3. CASE Overwrite(new[p])
    <3>1. \A s \in rows : s.aid \notin astray => ~SameObject(s, new[p])
      <4>1. CASE aid(p) \in astray
        BY <2>1, <4>1 DEF SameObject
      <4>2. CASE aid(p) \notin astray
        <5>1. OnCourse(p)
          BY <2>1, <4>2, Writes DEF OnCourse
        <5>2. /\ new[p].seq = base[p].seq + 1
              /\ IF base[p] = EmptyShard THEN NoShards(aid(p))
                 ELSE IsTop(base[p]) /\ base[p].aid = aid(p)
          BY <2>1, <5>1 DEF LInv, ReadInv, ReadOK, UInv, Durable, CommittedFor
        <5>3. base[p].seq \in Nat
          BY <1>t, ShardFields, ConstantsAssumption DEF TypeOK
        <5> QED
          BY <1>t, <2>1, <5>2, <5>3 DEF SameObject, IsTop, NoShards
      <4> QED
        BY <4>1, <4>2
    <3>2. \A q \in Procs : pc[q] = "insert" =>
             new[q] \in objs /\ ~SameObject(new[q], new[p])
      BY <1>t, <2>1, Writes, LockExclusive
         DEF ObjectInv, SameObject, LInv, UInv, WriteInv, WriteOK, Writing
    <3>3. /\ \A s \in rows : s.aid \notin astray => s \in objs'
          /\ \A q \in Procs : pc[q] = "insert" => new[q] \in objs'
      BY <1>t, <2>3, <3>1, <3>2 DEF Overwrite, ObjectInv
    <3>4. new[p] \in objs' /\ \A s, t \in objs' : SameObject(s, t) => s = t
      BY <1>t, <2>3 DEF Overwrite, ObjectInv, SameObject
    <3> QED
      BY <1>a, <2>1, <3>3, <3>4 DEF ObjectInv
  <2> QED
    BY <1>1, <2>2, <2>3 DEF PutObject
<1>2. CASE InsertRow(p)
  <2>1. /\ pc[p] = "insert" /\ rows' = rows \cup {new[p]} /\ UNCHANGED <<objs, new>>
        /\ pc'[p] # "insert"
    BY <1>2, <1>t DEF InsertRow, Goto, Fails, TypeOK, locals
  <2> QED
    BY <1>a, <1>t, <2>1, StepLocal DEF ObjectInv, SameObject
<1>3. CASE DeleteRows(p)
  <2>1. rows' \subseteq rows /\ UNCHANGED <<objs, new>> /\ pc'[p] # "insert"
    BY <1>3, <1>t DEF DeleteRows, Goto, Fails, TypeOK
  <2> QED
    BY <1>a, <1>t, <2>1, StepLocal DEF ObjectInv, SameObject
<1>4. CASE DeleteObjects(p)
  <2>1. /\ pc[p] = "wipeobjs" /\ UNCHANGED <<rows, new>> /\ objs' \subseteq objs
        /\ \A o \in objs : (\A s \in chunk[p] : ~SameObject(o, s)) => o \in objs'
        /\ pc'[p] # "insert"
    BY <1>4, <1>t DEF DeleteObjects, Goto, Fails, TypeOK, locals
  <2>2. /\ chunk[p] \subseteq history /\ chunk[p] \cap rows = {}
        /\ \A s \in chunk[p] : s.aid = aid(p)
    BY <2>1 DEF UInv, WipeInv
  <2>3. \A o \in rows : o.aid \notin astray => \A s \in chunk[p] : ~SameObject(o, s)
    BY <1>t, <2>2 DEF LInv, OneLine
  <2>4. \A q \in Procs : pc[q] = "insert" => \A s \in chunk[p] : ~SameObject(new[q], s)
    <3>1. \A q \in Procs : pc[q] = "insert" => new[q].aid # aid(p)
      BY <2>1, Writes, LockExclusive DEF UInv, WriteInv, WriteOK, Writing
    <3> QED
      BY <2>2, <3>1 DEF SameObject
  <2> QED
    BY <1>a, <1>t, <2>1, <2>3, <2>4, StepLocal DEF ObjectInv, SameObject
<1>5. CASE ~PutObject(p) /\ ~InsertRow(p) /\ ~DeleteRows(p) /\ ~DeleteObjects(p)
  <2>1. UNCHANGED <<rows, objs>>
    BY <1>5 DEF stored, locals, ghosts, Step,
       Begin, BeginLockFree, CacheHit, CacheMiss, QueryLastShard, FillCache,
       TakeShard, Build, BuildFails, InsertFails, CacheNewShard, ListShards,
       DeleteRowsFails, UncacheWiped, Reply
  <2>2. pc'[p] # "insert"
    <3>1. CASE \E r \in Request : Begin(p, r)
      BY <3>1, <1>t DEF Begin, Goto, TypeOK, Request, WriteKinds
    <3>2. CASE ~ \E r \in Request : Begin(p, r)
      BY <1>5, <1>t, <3>2 DEF Step, Goto, Fails, TypeOK, Lookups,
         BeginLockFree, CacheHit, CacheMiss, QueryLastShard, FillCache,
       TakeShard, Build, BuildFails, InsertFails, CacheNewShard, ListShards,
       DeleteRowsFails, UncacheWiped, Reply
    <3> QED
      BY <3>1, <3>2
  <2> QED
    BY <1>a, <1>t, <2>1, <2>2, StepLocal DEF ObjectInv, SameObject
<1> QED
  BY <1>1, <1>2, <1>3, <1>4, <1>5

-------------------------------------------------------------------------------
(* Nothing is stored and nobody has asked for anything.                        *)
LEMMA InitLInv == Init => LInv
BY DEF Init, LInv, AstrayBorn, OneLine, TopRow, CacheTop, ReadInv, OnCourse, ObjectInv

(* A restart forgets the cache and the requests.                               *)
LEMMA CrashLInv == LInv /\ Crash => LInv'
BY DEF Crash, LInv, AstrayBorn, OneLine, TopRow, CacheTop, ReadInv, OnCourse, ObjectInv,
       NoShards, IsTop, SameObject, stored, ghosts

(* Stuttering changes nothing.                                                 *)
LEMMA StutterLInv == LInv /\ UNCHANGED vars => LInv'
BY DEF vars, LInv, AstrayBorn, OneLine, TopRow, CacheTop, ReadInv, OnCourse, ReadOK, ObjectInv,
       Lookups,
       IsTop, SameObject, NoShards, RowsOf, aid, kind, stored, locals, ghosts

(* LInv too is inductive.                                                      *)
THEOREM LineInvariance == Spec => []LInv
<1>1. UInv /\ LInv /\ [Next]_vars => LInv'
  <2> SUFFICES ASSUME UInv, LInv, [Next]_vars PROVE LInv'
    OBVIOUS
  <2>1. ASSUME NEW p \in Procs, Step(p) PROVE LInv'
    BY <2>1, AstrayBornStep, OneLineStep, TopRowStep, CacheTopStep, ReadStep, ObjectStep
        DEF LInv
  <2> QED
    BY <2>1, CrashLInv, StutterLInv DEF Next
<1> QED
  BY <1>1, InitLInv, Invariance, PTL DEF Spec

(* NewDeltaSession's promise: no two commits at one place, each on the one     *)
(* just before it, in every repo whose cached shard was never left behind.     *)
THEOREM HistoryIsLinear == Spec => []LinearHistory
<1>1. UInv /\ LInv => LinearHistory
  BY DEF UInv, LInv, OneLine, HistoryInv, Extends, LinearHistory
<1> QED
  BY <1>1, Invariance, LineInvariance, PTL

(* GetRepoRoot and GetRepoRev answer with the last committed shard, whatever   *)
(* reads the cache beside them, until it is left behind.                       *)
THEOREM LockedReadsAreFresh == Spec => []LockedReadFresh
<1>1. UInv /\ LInv => LockedReadFresh
  <2> SUFFICES ASSUME UInv, LInv, NEW p \in Procs, pc[p] = "found", kind(p) = "root",
                      aid(p) \notin doomed \cup astray
               PROVE  base[p] \in LastShards(aid(p))
    BY DEF LockedReadFresh
  <2>0. OnCourse(p)
    BY DEF OnCourse
  <2>1. CASE base[p] = EmptyShard
    BY <2>0, <2>1 DEF LInv, ReadInv, ReadOK, LastShards
  <2>2. CASE base[p] # EmptyShard
    <3>1. IsTop(base[p]) /\ base[p].aid = aid(p)
      BY <2>0, <2>2 DEF LInv, ReadInv, ReadOK, UInv, Durable, CommittedFor
    <3>2. base[p] \in RowsOf(aid(p)) /\ \A t \in RowsOf(aid(p)) : t.seq <= base[p].seq
      BY <3>1 DEF IsTop, UInv, KeptInv, Durable, RowsOf
    <3> QED
      BY <3>2 DEF LastShards
  <2> QED
    BY <2>1, <2>2
<1> QED
  BY <1>1, Invariance, LineInvariance, PTL

(* Whatever writes failed, the head commit and all its records have their      *)
(* rows and their objects.                                                     *)
THEOREM HeadsAreReadable == Spec => []HeadReadable
<1>1. UInv /\ LInv => HeadReadable
  <2> SUFFICES ASSUME UInv, LInv, NEW a \in Actors \ (doomed \cup astray),
                      NEW h \in LastShards(a), h # EmptyShard
               PROVE  /\ Readable(h)
                      /\ \A k \in Keys : LET w == commits[h.rev].tree[k] IN
                           w # 0 => \E s \in RowsOf(a) : s.rev = w /\ Readable(s)
    BY DEF HeadReadable
  <2>1. h \in RowsOf(a) /\ RowsOf(a) \subseteq objs /\ rows \subseteq history
    BY LastRowTop DEF LInv, ObjectInv, UInv, Durable, RowsOf
  <2>2. ASSUME NEW k \in Keys, commits[h.rev].tree[k] # 0
        PROVE  \E s \in RowsOf(a) : s.rev = commits[h.rev].tree[k] /\ Readable(s)
    <3>1. PICK s \in history : s.aid = a /\ s.rev = commits[h.rev].tree[k]
      BY <2>1, <2>2 DEF UInv, HistoryInv, Extends, RowsOf
    <3> QED
      BY <2>1, <3>1 DEF UInv, KeptInv, RowsOf, Readable
  <2> QED
    BY <2>1, <2>2 DEF RowsOf, Readable
<1> QED
  BY <1>1, Invariance, LineInvariance, PTL

(* No PutObject ever lands on the key of a shard that still has its row, short *)
(* of a write on a cached shard that was left behind.                          *)
THEOREM ObjectsAreNotOverwritten == Spec => NoOverwrite
<1>1. UInv /\ LInv /\ LInv' /\ [Next]_vars =>
        \A s \in rows \cap objs : s \in rows' /\ s.aid \notin astray =>
          \A o \in objs' : SameObject(o, s) => o = s
  <2> SUFFICES ASSUME UInv, LInv, LInv', [Next]_vars,
                      NEW s \in rows \cap objs, s \in rows', s.aid \notin astray
               PROVE  \A o \in objs' : SameObject(o, s) => o = s
    OBVIOUS
  <2>1. objs' = objs \/ astray' = astray
    <3>1. ASSUME NEW p \in Procs, Step(p) PROVE objs' = objs \/ astray' = astray
      BY <3>1, AstrayFrame DEF FillCache, InsertRow, stored
    <3> QED
      BY <3>1 DEF Next, Crash, vars, stored
  <2>2. CASE objs' = objs
    BY <2>2 DEF LInv, ObjectInv
  <2>3. CASE astray' = astray
    BY <2>3 DEF LInv, ObjectInv
  <2> QED
    BY <2>1, <2>2, <2>3
<1> QED
  BY <1>1, Invariance, LineInvariance, PTL DEF NoOverwrite, Spec
-------------------------------------------------------------------------------
(* What a write has built: the commit its operation makes of the tree of its   *)
(* base, which is still the actor's last row when the new one is inserted.     *)
OpenTree(p) == IF kind(p) = "init" THEN NoRecords ELSE commits[base[p].rev].tree
OpKind(p) == IF kind(p) = "init" THEN "create" ELSE kind(p)
BuiltOK(p) ==
  pc[p] \in {"put", "insert"} =>
    /\ kind(p) # "init" => base[p] \in rows
    /\ base[p].rev < new[p].rev
    /\ Applicable(OpKind(p), OpenTree(p), req[p].key)
    /\ commits[new[p].rev].tree = NewTree(OpKind(p), OpenTree(p), req[p].key, new[p].rev)
BuiltInv == \A p \in Procs : BuiltOK(p)
(* A step keeps the commits that the rows of the history, and the writes on    *)
(* their way there, refer to.                                                  *)
LEMMA BuiltKept ==
  ASSUME UInv, NEW p \in Procs, Step(p), NEW q \in Procs, BuiltOK(q),
         pc[q] \in {"put", "insert"}, kind(q) # "init" => base[q] \in rows',
         kind(q)' = kind(q), base'[q] = base[q], new'[q] = new[q], req'[q] = req[q]
  PROVE  BuiltOK(q)'
<1>1. \A s \in history : s.rev \in Revs /\ s.rev <= tid
  BY DEF UInv, TypeOK, HistoryInv, Extends, Shard
<1>2. new[q].rev \in Revs /\ new[q].rev <= tid
  BY DEF UInv, WriteInv, WriteOK, Extends, Writing, Shard
<1>3. kind(q) # "init" => base[q].rev \in Revs /\ base[q].rev <= tid
  BY <1>1 DEF UInv, Durable, BuiltOK
<1>4. commits'[new[q].rev] = commits[new[q].rev]
  BY <1>2, CommitsKept
<1>5. kind(q) # "init" => commits'[base[q].rev] = commits[base[q].rev]
  BY <1>3, CommitsKept
<1>6. OpenTree(q)' = OpenTree(q) /\ OpKind(q)' = OpKind(q)
  BY <1>5 DEF OpenTree, OpKind
<1> QED
  BY <1>4, <1>6 DEF BuiltOK

(* The base of a write stays its actor's last row, and the new commit changes  *)
(* one record of it.                                                           *)
LEMMA BuiltStep ==
  ASSUME UInv, LInv, BuiltInv, NEW p \in Procs, Step(p)
  PROVE  BuiltInv'
<1>t. TypeOK /\ BuiltOK(p)
  BY DEF UInv, BuiltInv
<1>1. ASSUME NEW q \in Procs, q # p PROVE BuiltOK(q)'
  <2>1. /\ pc'[q] = pc[q] /\ req'[q] = req[q] /\ base'[q] = base[q] /\ new'[q] = new[q]
        /\ kind(q)' = kind(q)
    BY <1>1, StepLocal DEF kind
  <2> SUFFICES ASSUME pc[q] \in {"put", "insert"} PROVE BuiltOK(q)'
    BY <2>1 DEF BuiltOK
  <2>2. kind(q) # "init" => base[q] \in rows'
    <3> SUFFICES ASSUME kind(q) # "init" PROVE base[q] \in rows'
      OBVIOUS
    <3>1. base[q] \in RowsOf(aid(q)) /\ aid(q) \in Actors
      BY <1>1, RequestFields, ConstantsAssumption
         DEF BuiltInv, BuiltOK, UInv, TypeOK, Durable, CommittedFor, RowsOf, EmptyShard, Shard
    <3>2. CASE pc[p] = "idle" \/ kind(p) = "get"
      <4>0. pc[p] \in {"idle", "head", "found", "done"}
        BY <3>2 DEF UInv, ReqInv, TypeOK, Points, Lookups, Writing, WriteKinds
      <4>1. rows' = rows
        BY <4>0 DEF stored, locals, ghosts, Step, Lookups,
       Begin, BeginLockFree, CacheHit, CacheMiss, QueryLastShard, FillCache,
       TakeShard, Build, BuildFails, PutObject, InsertRow, InsertFails,
       CacheNewShard, ListShards, DeleteRows, DeleteRowsFails, DeleteObjects, UncacheWiped,
       Reply
      <4> QED
        BY <3>1, <4>1 DEF RowsOf
    <3>3. CASE pc[p] # "idle" /\ kind(p) # "get"
      <4>1. aid(q) # aid(p)
        BY <1>1, <3>3, Writes, LockExclusive
      <4>2. base[q] \in RowsOf(aid(q))'
        BY <2>1, <3>1, <3>3, <4>1, StepFrame DEF RowsOf, aid
      <4> QED
        BY <4>2 DEF RowsOf
    <3> QED
      BY <3>2, <3>3
  <2> QED
    BY <1>1, <2>1, <2>2, BuiltKept DEF BuiltInv
<1>2. BuiltOK(p)'
  <2>1. CASE Build(p)
    <3>1. /\ pc[p] = "build" /\ tid < MaxCommits /\ tid' = tid + 1 /\ UNCHANGED <<rows, req, base>>
          /\ kind(p) # "init" => base[p] \in rows
          /\ Applicable(OpKind(p), OpenTree(p), req[p].key)
      BY <2>1 DEF Build, OpKind, OpenTree, Readable
    <3>2. tid' \in Revs /\ tid \in Nat /\ \A r \in Revs : r <= tid => r # tid'
      BY <1>t, <3>1, ConstantsAssumption DEF TypeOK, Revs
    <3>3. new'[p].rev = tid'
      BY <1>t, <2>1 DEF Build, TypeOK
    <3>4. commits'[tid'].tree = NewTree(OpKind(p), OpenTree(p), req[p].key, tid')
      BY <1>t, <2>1, <3>2 DEF Build, OpKind, OpenTree, TypeOK
    <3>5. \A s \in history : s.rev \in Revs /\ s.rev <= tid
      BY DEF UInv, TypeOK, HistoryInv, Extends, Shard
    <3>6. base[p].rev < tid' /\ (kind(p) # "init" => base[p].rev \in Revs /\ base[p].rev <= tid)
      <4>1. base[p] = EmptyShard \/ base[p] \in history
        BY <3>1 DEF UInv, Durable, CommittedFor
      <4>2. kind(p) # "init" => base[p] \in history
        BY <3>1 DEF UInv, Durable
      <4> QED
        BY <3>1, <3>2, <3>5, <4>1, <4>2 DEF EmptyShard, Revs
    <3>7. kind(p) # "init" => commits'[base[p].rev] = commits[base[p].rev]
      BY <3>6, CommitsKept
    <3>8. OpenTree(p)' = OpenTree(p) /\ OpKind(p)' = OpKind(p)
      BY <3>1, <3>7 DEF OpenTree, OpKind, kind
    <3> QED
      BY <3>1, <3>3, <3>4, <3>6, <3>8 DEF BuiltOK, kind
  <2>2. CASE PutObject(p)
    <3>1. /\ pc[p] = "put" /\ UNCHANGED <<rows, req, base, new>> /\ kind(p)' = kind(p)
      BY <2>2 DEF PutObject, locals, kind
    <3> QED
      BY <1>t, <2>2, <3>1, BuiltKept DEF BuiltOK
  <2>3. CASE ~Build(p) /\ ~PutObject(p)
    <3>1. pc'[p] \notin {"put", "insert"}
      <4>1. CASE \E r \in Request : Begin(p, r)
        BY <4>1, <1>t DEF Begin, Goto, TypeOK, Request, WriteKinds
      <4>2. CASE ~ \E r \in Request : Begin(p, r)
        BY <2>3, <1>t, <4>2 DEF Step, Goto, Fails, TypeOK, Lookups,
           BeginLockFree, CacheHit, CacheMiss, QueryLastShard, FillCache, TakeShard,
           BuildFails, InsertRow, InsertFails, CacheNewShard, ListShards, DeleteRows,
           DeleteRowsFails, DeleteObjects, UncacheWiped, Reply
      <4> QED
        BY <4>1, <4>2
    <3> QED
      BY <3>1 DEF BuiltOK
  <2> QED
    BY <2>1, <2>2, <2>3
<1> QED
  BY <1>1, <1>2 DEF BuiltInv

(* A repo's head is the commit of its only last row, if it has a row.          *)
LEMMA HeadRow ==
  UInv /\ LInv =>
    \A a \in Actors \ astray :
      /\ RowsOf(a) = {} => HeadRev(a) = 0
      /\ \A s \in RowsOf(a) : IsTop(s) => HeadRev(a) = s.rev
<1> SUFFICES ASSUME UInv, LInv, NEW a \in Actors \ astray
             PROVE  /\ RowsOf(a) = {} => HeadRev(a) = 0
                    /\ \A s \in RowsOf(a) : IsTop(s) => HeadRev(a) = s.rev
  OBVIOUS
<1>1. RowsOf(a) = {} => HeadRev(a) = 0
  <2>1. ASSUME RowsOf(a) = {} PROVE (CHOOSE s \in LastShards(a) : TRUE) = EmptyShard
    BY <2>1 DEF LastShards
  <2>2. EmptyShard.rev = 0
    BY DEF EmptyShard
  <2> QED
    BY <2>1, <2>2 DEF HeadRev
<1>2. ASSUME NEW s \in RowsOf(a), IsTop(s) PROVE HeadRev(a) = s.rev
  <2>1. rows \subseteq history /\ history \subseteq Shard /\ \A t \in Shard : t.seq \in Nat
    BY ConstantsAssumption DEF UInv, TypeOK, Durable, Shard, Revs
  <2>2. s \in LastShards(a)
    BY <1>2, <2>1 DEF LastShards, RowsOf, IsTop
  <2>3. ASSUME NEW t \in LastShards(a) PROVE t = s
    <3>1. t \in RowsOf(a) /\ s.seq <= t.seq /\ t.seq <= s.seq
      BY <1>2, <2>1, <2>2, <2>3 DEF LastShards
    <3> QED
      BY <1>2, <2>1, <3>1 DEF LInv, OneLine, SameObject, RowsOf
  <2>4. (CHOOSE t \in LastShards(a) : TRUE) = s
    BY <2>2, <2>3
  <2> QED
    BY <2>4 DEF HeadRev
<1> QED
  BY <1>1, <1>2

(* So it is after a step.                                                      *)
LEMMA NextHeadRow ==
  UInv' /\ LInv' =>
    \A a \in Actors \ astray' :
      /\ RowsOf(a)' = {} => HeadRev(a)' = 0
      /\ \A s \in RowsOf(a)' : IsTop(s)' => HeadRev(a)' = s.rev
<1>1. (UInv /\ LInv =>
         \A a \in Actors \ astray :
           /\ RowsOf(a) = {} => HeadRev(a) = 0
           /\ \A s \in RowsOf(a) : IsTop(s) => HeadRev(a) = s.rev)'
  BY HeadRow, PTL
<1> QED
  BY <1>1

(* What the refinement mapping shows of an actor's repo, and of all of them.   *)
HeadRecords(a) == IF HeadSeen(a) = 0 THEN NoRecords ELSE commits[HeadSeen(a)].tree
Born == {s.aid : s \in history}
Same(a) == HeadSeen(a)' = HeadSeen(a) /\ HeadRecords(a)' = HeadRecords(a)

(* A repo whose rows stay has the same head and records after a step.          *)
LEMMA HeadKept ==
  ASSUME UInv, LInv, NEW p \in Procs, Step(p), NEW a \in Actors \ astray,
         RowsOf(a)' = RowsOf(a) \/ HeadRev(a)' = HeadRev(a), a \notin astray'
  PROVE  Same(a)
<1>1. HeadRev(a)' = HeadRev(a)
  BY DEF HeadRev, LastShards
<1>2. HeadRev(a) = 0 \/ (HeadRev(a) \in Revs /\ HeadRev(a) <= tid)
  <2>1. CASE RowsOf(a) = {}
    BY <2>1, HeadRow
  <2>2. CASE RowsOf(a) # {}
    <3>1. PICK s \in RowsOf(a) : IsTop(s)
      BY <2>2 DEF LInv, TopRow, RowsOf
    <3>2. s.rev \in Revs /\ s.rev <= tid
      BY <3>1 DEF IsTop, UInv, TypeOK, HistoryInv, Extends, Shard
    <3> QED
      BY <3>1, <3>2, HeadRow
  <2> QED
    BY <2>1, <2>2
<1> QED
  BY <1>1, <1>2, CommitsKept DEF Same, HeadRecords, HeadSeen

(* A repo lost sight of shows nothing, before a step or after.                 *)
LEMMA AstraySame ==
  ASSUME NEW p \in Procs, Step(p), NEW a \in astray
  PROVE  Same(a) /\ a \in astray'
BY AstrayFrame DEF Same, HeadRecords, HeadSeen

(* The repos of other actors are left alone.                                   *)
LEMMA OtherRepos ==
  ASSUME UInv, LInv, NEW p \in Procs, Step(p), NEW a \in Actors, a # aid(p), pc[p] # "idle"
  PROVE  Same(a)
<1>1. RowsOf(a)' = RowsOf(a) /\ (a \in astray' => a \in astray)
  BY StepFrame, AstrayFrame
<1> QED
  BY <1>1, HeadKept, AstraySame

(* Each step of a request takes its actor's repo along, or loses sight of it.  *)
LEMMA LosesSight ==
  ASSUME UInv, LInv, LInv', NEW p \in Procs, Step(p), pc[p] # "idle",
         aid(p) \notin astray, aid(p) \in astray', Born' = Born
  PROVE  Repo!LoseSight(aid(p))
<1> PICK a : a = aid(p)
  OBVIOUS
<1>1. a \in Born /\ astray' = astray \cup {a} /\ a \in Actors
  BY AstrayFrame, RequestFields DEF LInv, AstrayBorn, NoShards, Born
<1>2. HeadSeen(a)' = 0 /\ HeadRecords(a)' = NoRecords
  BY DEF HeadSeen, HeadRecords
<1>3. \A b \in Actors \ {a} : Same(b)
  BY OtherRepos
<1> QED
  BY <1>1, <1>2, <1>3 DEF Repo!LoseSight, Repo!NoRecords, NoRecords, HeadRecords, Born, Same

(* A step the abstract history does not see.                                   *)
RepoUnchanged ==
  /\ \A a \in Actors : Same(a)
  /\ Born' = Born /\ astray' = astray

(* An insert is the abstract operation of the request's kind, unless the store *)
(* loses sight of the repo, now or earlier.                                    *)
LEMMA InsertRefines ==
  ASSUME UInv, LInv, BuiltInv, UInv', LInv', NEW p \in Procs, InsertRow(p)
  PROVE  Repo!Next \/ RepoUnchanged
<1> PICK a, r, k : a = aid(p) /\ r = new[p].rev /\ k = req[p].key
  OBVIOUS
<1>1. /\ pc[p] = "insert" /\ rows' = rows \cup {new[p]} /\ history' = history \cup {new[p]}
      /\ UNCHANGED <<commits, new>> /\ Step(p)
  BY DEF InsertRow, Step, locals
<1>2. /\ a \in Actors /\ k \in Keys /\ r \in Revs /\ new[p].aid = a
      /\ kind(p) \in WriteKinds \cup {"init"}
  BY <1>1, RequestFields DEF UInv, ReqInv, WriteInv, WriteOK, Writing, Shard
<1>4. \A b \in Actors \ {a} : Same(b)
  BY <1>1, OtherRepos
<1>5. Born' = Born \cup {a}
  BY <1>1, <1>2 DEF Born
<1>6. BuiltOK(p) /\ commits[r].tree = NewTree(OpKind(p), OpenTree(p), k, r)
  BY <1>1 DEF BuiltInv, BuiltOK
<1>9. CASE a \in astray
  <2>1. Born' = Born
    BY <1>5, <1>9 DEF LInv, AstrayBorn, NoShards, Born
  <2>2. astray' = astray /\ Same(a)
    BY <1>1, <1>9, AstraySame, AstrayFrame
  <2> QED
    BY <1>4, <2>1, <2>2 DEF RepoUnchanged
<1>10. CASE a \notin astray /\ a \in astray'
  <2>1. cache[a] # EmptyShard
    BY <1>1, <1>10 DEF InsertRow, LeaveCached
  <2>2. a \in Born
    BY <1>2, <2>1 DEF Born, UInv, Durable, CommittedFor
  <2>3. Repo!LoseSight(a)
    BY <1>1, <1>5, <1>10, <2>2, LosesSight
  <2> QED
    BY <1>2, <2>3 DEF Repo!Next
<1>11. CASE a \notin astray /\ a \notin astray'
  <2>a. astray' = astray
    BY <1>1, <1>11, AstrayFrame
  <2>b. HeadSeen(a) = HeadRev(a) /\ HeadSeen(a)' = r /\ HeadRecords(a)' = commits[r].tree
    <3> PICK n : n = new[p]
      OBVIOUS
    <3>1. n \in RowsOf(a)' /\ IsTop(n)'
      BY <1>1, <1>2, <1>11, InsertTops DEF RowsOf
    <3>2. HeadRev(a)' = n.rev
      BY <1>2, <1>11, <3>1, NextHeadRow
    <3> QED
      BY <1>1, <1>2, <1>11, <3>2, ConstantsAssumption DEF HeadSeen, HeadRecords, Revs
  <2>c. Repo!NewHead(a, r)
    BY <1>2, <1>4, <2>a, <2>b DEF Repo!NewHead, Same
  <2>7. CASE kind(p) = "init"
    <3>1. a \notin Born
      BY <1>1, <2>7 DEF Born, UInv, InitInv
    <3>2. HeadRecords(a)' = [NoRecords EXCEPT ![k] = r]
      BY <1>6, <2>b, <2>7 DEF NewTree, OpKind, OpenTree
    <3>3. Repo!InitRepo(a, k, r)
      BY <1>4, <1>5, <2>b, <3>1, <3>2
         DEF Repo!InitRepo, Repo!NoRecords, NoRecords, HeadRecords, Born, Same
    <3> QED
      BY <1>2, <2>c, <3>3 DEF Repo!Next, Repo!Revs, Revs
  <2>8. CASE kind(p) # "init"
    <3>1. base[p] \in RowsOf(a) /\ IsTop(base[p]) /\ base[p].rev \in Revs
      <4>1. base[p] \in rows /\ base[p] # EmptyShard /\ base[p] \in Shard
        BY <1>1, <1>6, <2>8, ConstantsAssumption DEF BuiltOK, UInv, TypeOK, EmptyShard, Shard
      <4>2. OnCourse(p)
        BY <1>1, <1>11, Writes DEF OnCourse
      <4> QED
        BY <1>1, <4>1, <4>2
           DEF LInv, ReadInv, ReadOK, UInv, Durable, CommittedFor, RowsOf, Shard
    <3>2. HeadSeen(a) = base[p].rev /\ HeadRecords(a) = OpenTree(p)
      BY <1>2, <1>11, <2>b, <2>8, <3>1, HeadRow, ConstantsAssumption
         DEF HeadRecords, OpenTree, Revs
    <3>3. HeadSeen(a) # 0 /\ HeadSeen(a) < r
      BY <1>1, <1>6, <3>1, <3>2, ConstantsAssumption DEF BuiltOK, Revs
    <3>4. Born' = Born
      BY <1>1, <1>5, <3>1 DEF Born, RowsOf, UInv, Durable
    <3>5. /\ HeadRecords(a)' = [HeadRecords(a) EXCEPT ![k] = IF kind(p) = "delete" THEN 0 ELSE r]
          /\ (HeadRecords(a)[k] = 0) <=> (kind(p) = "create")
      BY <1>1, <1>6, <2>b, <2>8, <3>2 DEF BuiltOK, NewTree, Applicable, OpKind
    <3>6. CASE kind(p) = "create"
      <4>1. Repo!CreateRecord(a, k, r)
        BY <1>2, <1>4, <2>b, <3>3, <3>4, <3>5, <3>6
           DEF Repo!CreateRecord, HeadRecords, Born, Same
      <4> QED
        BY <1>2, <2>c, <4>1 DEF Repo!Next, Repo!Revs, Revs
    <3>7. CASE kind(p) = "update"
      <4>1. Repo!UpdateRecord(a, k, r)
        BY <1>2, <1>4, <2>b, <3>3, <3>4, <3>5, <3>7
           DEF Repo!UpdateRecord, HeadRecords, Born, Same
      <4> QED
        BY <1>2, <2>c, <4>1 DEF Repo!Next, Repo!Revs, Revs
    <3>8. CASE kind(p) = "delete"
      <4>1. Repo!DeleteRecord(a, k, r)
        BY <1>2, <1>4, <2>b, <3>3, <3>4, <3>5, <3>8
           DEF Repo!DeleteRecord, HeadRecords, Born, Same
      <4> QED
        BY <1>2, <2>c, <4>1 DEF Repo!Next, Repo!Revs, Revs
    <3> QED
      BY <1>2, <2>8, <3>6, <3>7, <3>8 DEF WriteKinds
  <2> QED
    BY <2>7, <2>8
<1> QED
  BY <1>9, <1>10, <1>11

(* A wipe takes the repo down when its last row goes; until then its head      *)
(* stays.                                                                      *)
LEMMA DeleteRefines ==
  ASSUME UInv, LInv, UInv', LInv', NEW p \in Procs, DeleteRows(p)
  PROVE  Repo!Next \/ RepoUnchanged
<1> PICK a : a = aid(p)
  OBVIOUS
<1>1. /\ pc[p] = "wiperows" /\ UNCHANGED <<history, commits, astray>> /\ Step(p) /\ a \in Actors
  BY RequestFields DEF DeleteRows, Step, ghosts
<1>2. PICK c \in NextChunks(todo[p]) : rows' = rows \ c
  BY DEF DeleteRows
<1>3. c # {} /\ c \subseteq RowsOf(a)
  BY <1>1, <1>2 DEF UInv, WipeInv, NextChunks
<1>4. \A b \in Actors \ {a} : Same(b)
  BY <1>1, OtherRepos
<1>5. Born' = Born
  BY <1>1 DEF Born
<1>8. CASE a \in astray
  BY <1>1, <1>4, <1>5, <1>8, AstraySame DEF RepoUnchanged
<1>6. CASE a \notin astray /\ RowsOf(a)' = {}
  <2>1. HeadSeen(a)' = 0 /\ HeadRecords(a)' = NoRecords
    BY <1>1, <1>6, NextHeadRow DEF HeadRecords, HeadSeen
  <2>2. PICK s \in RowsOf(a) : IsTop(s)
    BY <1>3, <1>6 DEF LInv, TopRow, RowsOf
  <2>3. HeadSeen(a) # 0
    <3>1. s.rev \in Revs
      BY <2>2 DEF IsTop, UInv, TypeOK, Shard
    <3> QED
      BY <1>1, <1>6, <2>2, <3>1, HeadRow, ConstantsAssumption DEF Revs, HeadSeen
  <2>4. Repo!TakeDown(a)
    BY <1>1, <1>4, <1>5, <2>1, <2>3
       DEF Repo!TakeDown, Repo!NoRecords, NoRecords, HeadRecords, Born, Same
  <2> QED
    BY <1>1, <2>4 DEF Repo!Next
<1>7. CASE a \notin astray /\ RowsOf(a)' # {}
  <2>1. PICK s \in RowsOf(a)' : IsTop(s)'
    BY <1>1, <1>7 DEF LInv, TopRow, RowsOf
  <2>2. s \in RowsOf(a) /\ IsTop(s)
    BY <1>1, <1>2, <2>1 DEF RowsOf, IsTop
  <2>3. HeadRev(a)' = HeadRev(a)
    BY <1>1, <1>7, <2>1, <2>2, HeadRow, NextHeadRow
  <2>4. Same(a)
    BY <1>1, <1>7, <2>3, HeadKept
  <2> QED
    BY <1>1, <1>4, <1>5, <2>4 DEF RepoUnchanged
<1> QED
  BY <1>6, <1>7, <1>8

(* A fill of the cache may lose sight of the repo; nothing else is seen.       *)
LEMMA OthersRefine ==
  ASSUME UInv, LInv, UInv', LInv', NEW p \in Procs, Step(p), ~InsertRow(p), ~DeleteRows(p)
  PROVE  Repo!Next \/ RepoUnchanged
<1>1. UNCHANGED <<rows, history>>
  BY DEF stored, locals, ghosts, Step,
       Begin, BeginLockFree, CacheHit, CacheMiss, QueryLastShard, FillCache,
       TakeShard, Build, BuildFails, PutObject, InsertFails, CacheNewShard,
       ListShards, DeleteRowsFails, DeleteObjects, UncacheWiped, Reply
<1>2. Born' = Born /\ \A a \in Actors : RowsOf(a)' = RowsOf(a)
  BY <1>1 DEF RowsOf, Born
<1>3. CASE astray' = astray
  <2>1. \A a \in Actors : Same(a)
    BY <1>2, <1>3, HeadKept, AstraySame
  <2> QED
    BY <1>2, <1>3, <2>1 DEF RepoUnchanged
<1>4. CASE astray' # astray
  <2>1. FillCache(p) /\ aid(p) \notin astray /\ aid(p) \in astray'
    BY <1>4, AstrayFrame
  <2>2. pc[p] # "idle"
    BY <2>1 DEF FillCache, Lookups
  <2>3. Repo!LoseSight(aid(p)) /\ aid(p) \in Actors
    BY <1>2, <2>1, <2>2, LosesSight, RequestFields
  <2> QED
    BY <2>3 DEF Repo!Next
<1> QED
  BY <1>3, <1>4

(* The store implements the abstract history: seen through its heads, their    *)
(* trees and the actors that ever had a repo, every step of every request is   *)
(* InitRepo, one record operation, TakeDown or LoseSight, or shows nothing.    *)
THEOREM ImplementsRepoHistory == Spec => IsRepoHistory
<1> DEFINE rvars == <<[a \in Actors |-> HeadSeen(a)],
                     [a \in Actors |-> HeadRecords(a)], Born, astray>>
<1>1. Init => Repo!Init
  <2> SUFFICES ASSUME Init PROVE Repo!Init
    OBVIOUS
  <2>1. \A a \in Actors : RowsOf(a) = {}
    BY DEF Init, RowsOf
  <2>2. \A a \in Actors : (CHOOSE s \in LastShards(a) : TRUE) = EmptyShard
    BY <2>1 DEF LastShards
  <2>3. EmptyShard.rev = 0
    BY DEF EmptyShard
  <2>4. \A a \in Actors : HeadSeen(a) = 0
    BY <2>2, <2>3 DEF HeadRev, HeadSeen
  <2> QED
    BY <2>4 DEF Init, Repo!Init, Repo!NoRecords, NoRecords
<1>2. Init => BuiltInv
  BY DEF Init, BuiltInv, BuiltOK
<1>3. UInv /\ LInv /\ BuiltInv /\ [Next]_vars => BuiltInv'
  <2> SUFFICES ASSUME UInv, LInv, BuiltInv, [Next]_vars PROVE BuiltInv'
    OBVIOUS
  <2>1. CASE Crash
    BY <2>1 DEF Crash, BuiltInv, BuiltOK
  <2>2. CASE UNCHANGED vars
    BY <2>2 DEF vars, stored, locals, BuiltInv, BuiltOK, OpKind, OpenTree, kind
  <2> QED
    BY <2>1, <2>2, BuiltStep DEF Next
<1>4. UInv /\ UInv' /\ LInv /\ LInv' /\ BuiltInv /\ [Next]_vars => [Repo!Next]_rvars
  <2> SUFFICES ASSUME UInv, UInv', LInv, LInv', BuiltInv, [Next]_vars PROVE [Repo!Next]_rvars
    OBVIOUS
  <2>1. RepoUnchanged => UNCHANGED rvars
    BY DEF RepoUnchanged, Same
  <2>2. CASE Crash \/ UNCHANGED vars
    <3>1. UNCHANGED <<rows, commits, history, astray>>
      BY <2>2 DEF Crash, vars, stored, ghosts
    <3>2. \A a \in Actors : HeadSeen(a)' = HeadSeen(a)
      BY <3>1 DEF HeadSeen, HeadRev, LastShards, RowsOf
    <3> QED
      BY <3>1, <3>2 DEF HeadRecords, Born
  <2>3. ASSUME NEW p \in Procs, Step(p) PROVE Repo!Next \/ RepoUnchanged
    BY <2>3, InsertRefines, DeleteRefines, OthersRefine
  <2> QED
    BY <2>1, <2>2, <2>3 DEF Next
<1>5. [Repo!Next]_rvars => [Repo!Next]_<<[a \in Actors |-> HeadSeen(a)],
         [a \in Actors |-> IF HeadSeen(a) = 0 THEN NoRecords ELSE commits[HeadSeen(a)].tree],
         {s.aid : s \in history}, astray>>
  BY DEF HeadRecords, Born
<1> QED
  BY <1>1, <1>2, <1>3, <1>4, <1>5, Invariance, LineInvariance, PTL
     DEF Spec, IsRepoHistory, Repo!Spec
===============================================================================
