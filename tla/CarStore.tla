------------------------------- MODULE CarStore -------------------------------
(* The repo manager's operations on actors' repos (repo/manager.go, repo.go)   *)
(* and the CAR store under them (car/store.go, meta.go, s3.go,                 *)
(* last_shard_cache.go): one API process whose requests interleave, a Postgres *)
(* table of shards, an S3 bucket with one object per shard, and an in-memory   *)
(* cache of every actor's last shard.                                          *)
(*                                                                             *)
(* A commit is identified with its revision, and revisions with the numbers    *)
(* 1..MaxCommits: NextTID (repo/tid.go) is strictly increasing while the clock *)
(* is, and 0 stands for the undefined CID and the empty rev of "no repo yet".  *)
(* A commit's parent is the head its session was opened on (the signed commit  *)
(* itself leaves Prev nil). The MST of a commit is the map from record path to *)
(* the commit that wrote the record; its nodes are in the commit's own shard.  *)
EXTENDS Integers, FiniteSets

CONSTANTS Procs,            \* requests being served
          Actors, Keys,     \* actor ids; record paths (nsid/rkey)
          NoProc, NoActor, NoKey,
          MaxCommits,       \* bound on the commits ever signed
          ChunkSize         \* shards deleted per batch, 2000 in deleteShards

ASSUME ConstantsAssumption ==
  /\ NoProc \notin Procs /\ NoActor \notin Actors /\ NoKey \notin Keys
  /\ MaxCommits \in Nat /\ ChunkSize \in Nat \ {0}

VARIABLES
  rows,      \* carstore.car_shards, each row with its block_refs (one transaction)
  objs,      \* the S3 objects: the shard each key aid/seq holds
  commits,   \* contents of the signed commits, by rev
  tid,       \* the last rev NextTID returned
  cache,     \* lastShardCache: actor -> shard; EmptyShard when it has no entry
  lock,      \* the holder of each actor's lock (ActorLock)
  inited,    \* actors InitNewRepo was called for: once, when the actor is created
  pc, io,    \* per request: program point, and the step inside lastShardCache.get
  req,       \* per request: what was asked
  rev,       \* per request: the result of GetActorRepoRev
  base,      \* per request: the last shard it works on
  found,     \* per request: the row read from the DB, not yet in the cache
  new,       \* per request: the shard being written
  todo, chunk,  \* per request: shards still to wipe; batch whose objects go next
  (* What happened, for the properties; the program does not keep these.       *)
  history,   \* every shard row ever committed
  acked,     \* shards of the operations that returned success
  doomed,    \* actors whose wipe has listed its shards
  wiped,     \* actors wiped, and not initialized since
  astray     \* actors whose cached shard was once left behind the last row

stored == <<rows, objs, commits, tid, inited>>
locals == <<rev, base, found, new, todo, chunk>>
ghosts == <<history, acked, doomed, wiped, astray>>
vars == <<stored, cache, lock, pc, io, req, locals, ghosts>>

Revs == 1 .. MaxCommits
Shard == [aid : Actors, seq : Revs, rev : Revs]
EmptyShard == [aid |-> NoActor, seq |-> 0, rev |-> 0]   \* GetLastShard's &Shard{}
Tree == [Keys -> 0 .. MaxCommits]
NoRecords == [k \in Keys |-> 0]
Commit == [parent : 0 .. MaxCommits, tree : Tree]
NoCommit == [parent |-> 0, tree |-> NoRecords]

WriteKinds == {"create", "update", "delete"}
Request == [kind : WriteKinds \cup {"init"}, aid : Actors, key : Keys]
             \cup [kind : {"root", "get", "wipe"}, aid : Actors, key : {NoKey}]
NoRequest == [kind |-> "none", aid |-> NoActor, key |-> NoKey]

Lookups == {"rev", "session", "head"}    \* callers of lastShardCache.get
Points == Lookups \cup {"idle", "build", "put", "insert", "cacheput",
                        "list", "wiperows", "wipeobjs", "found", "done"}

aid(p) == req[p].aid
kind(p) == req[p].kind
Goto(p, point) == pc' = [pc EXCEPT ![p] = point]

RowsOf(a) == {s \in rows : s.aid = a}
(* ORDER BY seq DESC, first row: any of those that tie.                        *)
LastShards(a) ==
  LET mine == RowsOf(a) IN
  IF mine = {} THEN {EmptyShard}
  ELSE {s \in mine : \A t \in mine : t.seq <= s.seq}

(* LookupBlockRef finds the row by CID, and doBlockRead compares the CID of    *)
(* what the object holds with the one asked for.                               *)
ReadUnchecked(s) == s # EmptyShard                      \* Mutant
Readable(s) == s \in rows /\ s \in objs
SameSeq(s) == s.seq                                      \* Mutant
NextSeq(s) == s.seq + 1
SameObject(s, t) == s.aid = t.aid /\ s.seq = t.seq       \* keyForShard

Init ==
  /\ rows = {} /\ objs = {} /\ inited = {} /\ tid = 0
  /\ commits = [r \in Revs |-> NoCommit]
  /\ cache = [a \in Actors |-> EmptyShard]
  /\ lock = [a \in Actors |-> NoProc]
  /\ pc = [p \in Procs |-> "idle"]
  /\ io = [p \in Procs |-> "check"]
  /\ req = [p \in Procs |-> NoRequest]
  /\ rev = [p \in Procs |-> 0]
  /\ base = [p \in Procs |-> EmptyShard]
  /\ found = [p \in Procs |-> EmptyShard]
  /\ new = [p \in Procs |-> EmptyShard]
  /\ todo = [p \in Procs |-> {}]
  /\ chunk = [p \in Procs |-> {}]
  /\ history = {} /\ acked = {} /\ doomed = {} /\ wiped = {} /\ astray = {}

-------------------------------------------------------------------------------
(* A request starts by taking the actor's lock, which ActorLock refines.       *)
Begin(p, r) ==
  /\ pc[p] = "idle"
  /\ r.kind # "get"
  /\ lock[r.aid] = NoProc
  /\ lock' = [lock EXCEPT ![r.aid] = p]
  /\ req' = [req EXCEPT ![p] = r]
  /\ Goto(p, CASE r.kind \in WriteKinds -> "rev"
               [] r.kind = "init" -> "session"
               [] r.kind = "root" -> "head"
               [] r.kind = "wipe" -> "list")
  /\ IF r.kind = "init"
       THEN r.aid \notin inited /\ inited' = inited \cup {r.aid}
                                /\ wiped' = wiped \ {r.aid}
       ELSE UNCHANGED <<inited, wiped>>
  /\ UNCHANGED <<rows, objs, commits, tid, cache, io, locals, history, acked, doomed,
                 astray>>

(* Manager.GetRecord and PDS.RecordExists do not take the lock.                *)
BeginLockFree(p, r) ==
  /\ pc[p] = "idle"
  /\ r.kind = "get"
  /\ req' = [req EXCEPT ![p] = r]
  /\ Goto(p, "head")
  /\ UNCHANGED <<stored, cache, lock, io, locals, ghosts>>

(* Any step that can return an error: the operation is given up.               *)
Fails(p) ==
  /\ Goto(p, "done")
  /\ io' = [io EXCEPT ![p] = "check"]

(* The response is sent and the deferred unlock runs.                          *)
Reply(p) ==
  /\ pc[p] \in {"found", "done"}
  /\ Goto(p, "idle")
  /\ lock' = [a \in Actors |-> IF lock[a] = p THEN NoProc ELSE lock[a]]
  /\ req' = [req EXCEPT ![p] = NoRequest]
  /\ rev' = [rev EXCEPT ![p] = 0]
  /\ base' = [base EXCEPT ![p] = EmptyShard]
  /\ found' = [found EXCEPT ![p] = EmptyShard]
  /\ new' = [new EXCEPT ![p] = EmptyShard]
  /\ todo' = [todo EXCEPT ![p] = {}]
  /\ chunk' = [chunk EXCEPT ![p] = {}]
  /\ UNCHANGED <<stored, cache, io, ghosts>>

-------------------------------------------------------------------------------
(* lastShardCache.get: check, query the DB on a miss, put. The three steps are *)
(* not atomic together; what the caller does with the shard is TakeShard.      *)
CachePut(s) ==
  cache' = IF s.aid \in Actors THEN [cache EXCEPT ![s.aid] = s] ELSE cache

(* p leaves s in the cache where the last row is one of last: unless they are  *)
(* the same, the next write will be made on the wrong head.                    *)
LeaveCached(p, s, last) ==
  astray' = IF s \in last \cup {EmptyShard} THEN astray ELSE astray \cup {aid(p)}

TakeShard(p, s) ==
  \/ /\ pc[p] = "rev"                       \* GetActorRepoRev
     /\ rev' = [rev EXCEPT ![p] = s.rev]
     /\ Goto(p, "session")
     /\ UNCHANGED base
  \/ /\ pc[p] = "session"                   \* NewDeltaSession
     /\ IF kind(p) # "init" /\ rev[p] # s.rev
          THEN Goto(p, "done") /\ UNCHANGED base         \* ErrRepoBaseMismatch
          ELSE Goto(p, "build") /\ base' = [base EXCEPT ![p] = s]
     /\ UNCHANGED rev
  \/ /\ pc[p] = "head"                      \* GetActorRepoHead, GetActorRepoRev
     /\ base' = [base EXCEPT ![p] = s]
     /\ Goto(p, "found")
     /\ UNCHANGED rev

CacheHit(p) ==
  /\ pc[p] \in Lookups /\ io[p] = "check"
  /\ cache[aid(p)] # EmptyShard
  /\ TakeShard(p, cache[aid(p)])
  /\ UNCHANGED <<stored, cache, lock, io, req, found, new, todo, chunk, ghosts>>

CacheMiss(p) ==
  /\ pc[p] \in Lookups /\ io[p] = "check"
  /\ cache[aid(p)] = EmptyShard
  /\ io' = [io EXCEPT ![p] = "query"]
  /\ UNCHANGED <<stored, cache, lock, pc, req, locals, ghosts>>

QueryLastShard(p) ==
  /\ pc[p] \in Lookups /\ io[p] = "query"
  /\ \/ /\ \E s \in LastShards(aid(p)) : found' = [found EXCEPT ![p] = s]
        /\ io' = [io EXCEPT ![p] = "fill"]
        /\ UNCHANGED pc
     \/ Fails(p) /\ UNCHANGED found
  /\ UNCHANGED <<stored, cache, lock, req, rev, base, new, todo, chunk, ghosts>>

FillCache(p) ==
  /\ pc[p] \in Lookups /\ io[p] = "fill"
  /\ CachePut(found[p])
  /\ TakeShard(p, found[p])
  /\ io' = [io EXCEPT ![p] = "check"]
  /\ LeaveCached(p, found[p], LastShards(aid(p)))
  /\ UNCHANGED <<stored, lock, req, found, new, todo, chunk, history, acked, doomed, wiped>>

-------------------------------------------------------------------------------
(* The tree after the operation, from the tree t it was opened on; Add fails   *)
(* for a present key, Update and Delete for an absent one.                     *)
Applicable(k, t, key) == (t[key] = 0) <=> (k = "create")
(* Mutant: the write loses the actor's other records.                          *)
NewTreeOnly(k, t, key, r) == [NoRecords EXCEPT ![key] = IF k = "delete" THEN 0 ELSE r]
NewTree(k, t, key, r) == [t EXCEPT ![key] = IF k = "delete" THEN 0 ELSE r]

(* OpenRepo (NewRepo for InitNewRepo), the record operation and Repo.Commit.   *)
(* Opening reads the base commit; NextTID numbers the new one.                 *)
Build(p) ==
  LET t == IF kind(p) = "init" THEN NoRecords ELSE commits[base[p].rev].tree
      k == IF kind(p) = "init" THEN "create" ELSE kind(p)
  IN
  /\ pc[p] = "build"
  /\ tid < MaxCommits
  /\ kind(p) # "init" => Readable(base[p])
  /\ Applicable(k, t, req[p].key)
  /\ tid' = tid + 1
  /\ commits' = [commits EXCEPT ![tid'] =
                   [parent |-> IF kind(p) = "init" THEN 0 ELSE base[p].rev,
                    tree |-> NewTree(k, t, req[p].key, tid')]]
  /\ new' = [new EXCEPT ![p] =
               [aid |-> aid(p), seq |-> NextSeq(base[p]), rev |-> tid']]
  /\ Goto(p, "put")
  /\ UNCHANGED <<rows, objs, inited, cache, lock, io, req, rev, base, found,
                 todo, chunk, ghosts>>

(* The base cannot be read, the record operation does not apply, or signing    *)
(* fails.                                                                      *)
BuildFails(p) ==
  /\ pc[p] = "build"
  /\ Fails(p)
  /\ UNCHANGED <<stored, cache, lock, req, locals, ghosts>>

(* writeNewShardFile: PutObject replaces what the key held. On an error it may *)
(* have been stored or not.                                                    *)
Overwrite(s) == objs' = {o \in objs : ~SameObject(o, s)} \cup {s}

(* Mutant: an error of PutObject is not looked at.                             *)
PutUnchecked(p) ==
  /\ pc[p] = "put"
  /\ Overwrite(new[p]) \/ UNCHANGED objs
  /\ Goto(p, "insert")
  /\ UNCHANGED <<rows, commits, tid, inited, cache, lock, io, req, locals, ghosts>>

PutObject(p) ==
  /\ pc[p] = "put"
  /\ \/ Overwrite(new[p]) /\ Goto(p, "insert") /\ UNCHANGED io
     \/ Overwrite(new[p]) /\ Fails(p)
     \/ UNCHANGED objs /\ Fails(p)
  /\ UNCHANGED <<rows, commits, tid, inited, cache, lock, req, locals, ghosts>>

(* PutShardAndRefs: the shard row and its block_refs in one transaction, which *)
(* may be committed and yet be reported as failed (the connection is lost).    *)
InsertRow(p) ==
  /\ pc[p] = "insert"
  /\ rows' = rows \cup {new[p]}
  /\ history' = history \cup {new[p]}
  /\ \/ Goto(p, "cacheput") /\ UNCHANGED <<io, astray>>
     \/ Fails(p) /\ LeaveCached(p, cache[aid(p)], {new[p]})
  /\ UNCHANGED <<objs, commits, tid, inited, cache, lock, req, locals,
                 acked, doomed, wiped>>

(* Mutant: an error of the transaction is not looked at.                       *)
InsertUnchecked(p) ==
  /\ pc[p] = "insert"
  /\ Goto(p, "cacheput")
  /\ UNCHANGED <<stored, cache, lock, io, req, locals, ghosts>>

InsertFails(p) ==
  /\ pc[p] = "insert"
  /\ Fails(p)
  /\ UNCHANGED <<stored, cache, lock, req, locals, ghosts>>

(* Mutant: the cache keeps the shard the operation started from.               *)
LeaveCache(p) ==
  /\ pc[p] = "cacheput"
  /\ acked' = acked \cup {new[p]}
  /\ Goto(p, "done")
  /\ UNCHANGED <<stored, cache, lock, io, req, locals, history, doomed, wiped, astray>>

(* putLastShardCache, and the operation returns success.                       *)
CacheNewShard(p) ==
  /\ pc[p] = "cacheput"
  /\ CachePut(new[p])
  /\ acked' = acked \cup {new[p]}
  /\ Goto(p, "done")
  /\ UNCHANGED <<stored, lock, io, req, locals, history, doomed, wiped, astray>>

-------------------------------------------------------------------------------
(* WipeActorData, for TakeDownRepo and ResetRepo.                              *)
ListShards(p) ==
  /\ pc[p] = "list"
  /\ \/ /\ todo' = [todo EXCEPT ![p] = RowsOf(aid(p))]
        /\ doomed' = doomed \cup {aid(p)}
        /\ Goto(p, "wiperows")
        /\ UNCHANGED io
     \/ Fails(p) /\ UNCHANGED <<todo, doomed>>
  /\ UNCHANGED <<stored, cache, lock, req, rev, base, found, new, chunk,
                 history, acked, wiped, astray>>

(* The next ChunkSize shards in seq order (all that are left, if fewer).       *)
NextChunks(ss) ==
  {c \in SUBSET ss : /\ c # {}
                     /\ Cardinality(c) <= ChunkSize
                     /\ c # ss => Cardinality(c) = ChunkSize
                     /\ \A s \in c, t \in ss \ c : s.seq <= t.seq}

(* DeleteShardsAndRefs, one transaction per chunk.                             *)
DeleteRows(p) ==
  /\ pc[p] = "wiperows"
  /\ \E c \in NextChunks(todo[p]) :
       /\ rows' = rows \ c
       /\ chunk' = [chunk EXCEPT ![p] = c]
       /\ todo' = [todo EXCEPT ![p] = @ \ c]
  /\ \/ Goto(p, "wipeobjs") /\ UNCHANGED io
     \/ Fails(p)
  /\ UNCHANGED <<objs, commits, tid, inited, cache, lock, req, rev, base, found,
                 new, ghosts>>

DeleteRowsFails(p) ==
  /\ pc[p] = "wiperows" /\ todo[p] # {}
  /\ Fails(p)
  /\ UNCHANGED <<stored, cache, lock, req, locals, ghosts>>

(* deleteShardFiles, after the chunk's rows are gone: S3 deletes some of the   *)
(* objects, all or none, and neither the errors it lists for single keys in an *)
(* answer nor an error of the call say which.                                  *)
DeleteObjects(p) ==
  /\ pc[p] = "wipeobjs"
  /\ \E gone \in SUBSET {o \in objs : \E s \in chunk[p] : SameObject(o, s)} :
       objs' = objs \ gone
  /\ \/ Goto(p, "wiperows") /\ UNCHANGED io
     \/ Fails(p)
  /\ UNCHANGED <<rows, commits, tid, inited, cache, lock, req, locals, ghosts>>

(* removeLastShardCache, and the wipe returns success.                         *)
UncacheWiped(p) ==
  /\ pc[p] = "wiperows" /\ todo[p] = {}
  /\ cache' = [cache EXCEPT ![aid(p)] = EmptyShard]
  /\ wiped' = wiped \cup {aid(p)}
  /\ Goto(p, "done")
  /\ UNCHANGED <<stored, lock, io, req, locals, history, acked, doomed, astray>>

-------------------------------------------------------------------------------
(* The API process dies and is restarted: the requests, the locks and the      *)
(* cache are gone, Postgres and S3 stay.                                       *)
Crash ==
  /\ \E p \in Procs : pc[p] # "idle"
  /\ cache' = [a \in Actors |-> EmptyShard]
  /\ lock' = [a \in Actors |-> NoProc]
  /\ pc' = [p \in Procs |-> "idle"]
  /\ io' = [p \in Procs |-> "check"]
  /\ req' = [p \in Procs |-> NoRequest]
  /\ rev' = [p \in Procs |-> 0]
  /\ base' = [p \in Procs |-> EmptyShard]
  /\ found' = [p \in Procs |-> EmptyShard]
  /\ new' = [p \in Procs |-> EmptyShard]
  /\ todo' = [p \in Procs |-> {}]
  /\ chunk' = [p \in Procs |-> {}]
  /\ UNCHANGED <<stored, ghosts>>

Step(p) ==
  \/ \E r \in Request : Begin(p, r) \/ BeginLockFree(p, r)
  \/ CacheHit(p) \/ CacheMiss(p) \/ QueryLastShard(p) \/ FillCache(p)
  \/ Build(p) \/ BuildFails(p) \/ PutObject(p)
  \/ InsertRow(p) \/ InsertFails(p) \/ CacheNewShard(p)
  \/ ListShards(p) \/ DeleteRows(p) \/ DeleteRowsFails(p) \/ DeleteObjects(p)
  \/ UncacheWiped(p) \/ Reply(p)

Next == Crash \/ \E p \in Procs : Step(p)

Spec == Init /\ [][Next]_vars

-------------------------------------------------------------------------------
(* Every variable has its type.                                                *)
TypeOK ==
  /\ rows \subseteq Shard /\ objs \subseteq Shard
  /\ commits \in [Revs -> Commit] /\ tid \in 0 .. MaxCommits
  /\ cache \in [Actors -> Shard \cup {EmptyShard}]
  /\ lock \in [Actors -> Procs \cup {NoProc}]
  /\ inited \subseteq Actors
  /\ pc \in [Procs -> Points]
  /\ io \in [Procs -> {"check", "query", "fill"}]
  /\ req \in [Procs -> Request \cup {NoRequest}]
  /\ rev \in [Procs -> 0 .. MaxCommits]
  /\ base \in [Procs -> Shard \cup {EmptyShard}]
  /\ found \in [Procs -> Shard \cup {EmptyShard}]
  /\ new \in [Procs -> Shard \cup {EmptyShard}]
  /\ todo \in [Procs -> SUBSET Shard] /\ chunk \in [Procs -> SUBSET Shard]
  /\ history \subseteq Shard /\ acked \subseteq Shard
  /\ doomed \subseteq Actors /\ wiped \subseteq Actors /\ astray \subseteq Actors

(* The shards committed for an actor form one line: no two at the same place,  *)
(* and each commit made on the one just before it. What NewDeltaSession means  *)
(* to ensure: "that we don't write updates on top of the wrong head". Only     *)
(* two things break it: a read without the lock that fills the cache after a   *)
(* commit it missed, and a commit reported as failed.                          *)
LinearHistory ==
  \A s \in history : s.aid \notin astray =>
    /\ \A t \in history : SameObject(s, t) => s = t
    /\ IF s.seq = 1 THEN commits[s.rev].parent = 0
       ELSE \E t \in history : /\ t.aid = s.aid /\ t.seq = s.seq - 1
                               /\ commits[s.rev].parent = t.rev

(* The head of a repo nobody asked to wipe, and whose cached shard was never   *)
(* left behind, can be opened and every record in its tree read, whatever      *)
(* writes failed or were cut short by a crash.                                 *)
HeadReadable ==
  \A a \in Actors \ (doomed \cup astray) : \A h \in LastShards(a) : h # EmptyShard =>
    /\ Readable(h)
    /\ \A k \in Keys : LET w == commits[h.rev].tree[k] IN
         w # 0 => \E s \in RowsOf(a) : s.rev = w /\ Readable(s)

(* An S3 object a shard row points to is never replaced: the "overwrite        *)
(* protections" s3.go leaves to do. Only a write made on a cached shard that   *)
(* was left behind does that.                                                  *)
NoOverwrite ==
  [][\A s \in rows \cap objs : s \in rows' /\ s.aid \notin astray =>
       \A o \in objs' : SameObject(o, s) => o = s]_vars

(* A locked read of the head or rev of a repo nobody asked to wipe answers     *)
(* with the last commit, not with what the cache held earlier, until the cache *)
(* is left behind: the reads without the lock that come and go beside it do    *)
(* no harm but that one.                                                       *)
LockedReadFresh ==
  \A p \in Procs :
    pc[p] = "found" /\ kind(p) = "root" /\ aid(p) \notin doomed \cup astray =>
      base[p] \in LastShards(aid(p))

(* What a client was told is true: a commit whose operation returned success   *)
(* is never lost, short of a wipe, and what the cache holds for an actor was   *)
(* committed to the DB for that actor, so that no failed or half-done write is *)
(* visible through the cache.                                                  *)
OnlyCommittedIsTold ==
  /\ \A s \in acked : s.aid \notin doomed => s \in rows
  /\ \A a \in Actors : cache[a] # EmptyShard => cache[a] \in history /\ cache[a].aid = a

(* Even when a history forks, each commit extends some earlier commit of the   *)
(* same actor by one.                                                          *)
TreeHistory ==
  \A s \in history :
    IF s.seq = 1 THEN commits[s.rev].parent = 0
    ELSE \E t \in history : /\ t.aid = s.aid /\ t.seq = s.seq - 1
                            /\ commits[s.rev].parent = t.rev /\ t.rev < s.rev

(* After a wipe no write brings the repo back, even one that finds the actor's *)
(* last shard still cached: only InitNewRepo does.                             *)
WipedStaysEmpty == \A a \in wiped : RowsOf(a) = {}

(* The store implements the history of commits it promises, and loses sight of *)
(* a repo only when its cached shard is left behind.                           *)
HeadRev(a) == (CHOOSE s \in LastShards(a) : TRUE).rev
HeadSeen(a) == IF a \in astray THEN 0 ELSE HeadRev(a)
Repo == INSTANCE RepoHistory WITH
          head <- [a \in Actors |-> HeadSeen(a)],
          records <- [a \in Actors |-> IF HeadSeen(a) = 0 THEN NoRecords
                                       ELSE commits[HeadSeen(a)].tree],
          born <- {s.aid : s \in history}
IsRepoHistory == Repo!Spec
===============================================================================
