------------------------------ MODULE ProfileCache ------------------------------
(* The copy of a user's profile that a refresh answers with: UserCache, which  *)
(* is Redis with a small local cache in front of it, filled from Postgres by   *)
(* whoever reads it there. Nothing is ever taken out of it; entries expire.    *)
(*                                                                             *)
(* A tick of the clock is longer than a request takes (requestTimeout, fifteen *)
(* seconds), so that a request sees the clock move once at most.               *)
EXTENDS Integers

CONSTANTS Readers,      \* requests being served
          Users,
          RedisTTL, LocalTTL,   \* how long an entry lives, in ticks
          MaxVersion    \* bound on the versions of a user's profile

ASSUME TimesAssumption ==
  RedisTTL \in Nat \ {0} /\ LocalTTL \in Nat \ {0} /\ MaxVersion \in Nat \ {0}

VARIABLES
  version,    \* per user: how often its rows were written: 0 before the sign-up
  deleted,    \* users whose rows have a deleted_at
  age,        \* age[u][v]: ticks since version v was replaced, up to MaxAge
  redis, local,   \* per user: a version (0: none) and the ticks it has left
  reading, who, got,   \* per request: where it is, whose profile, which version
  slow        \* requests being served that have seen the clock move

database == <<version, deleted, age>>
caches == <<redis, local>>
reads == <<reading, who, got, slow>>
cacheVars == <<database, caches, reads>>

Versions == 1 .. MaxVersion
Nobody == "nobody"
NoEntry == [ver |-> 0, left |-> 0]
Entry(v, ttl) == [ver |-> v, left |-> ttl]

(* The age of the oldest answer, and one more.                                 *)
Oldest == RedisTTL + LocalTTL + 1
MaxAge == Oldest + 1

CacheInit ==
  /\ version = [u \in Users |-> 0] /\ deleted = {}
  /\ age = [u \in Users |-> [v \in Versions |-> 0]]
  /\ redis = [u \in Users |-> NoEntry] /\ local = [u \in Users |-> NoEntry]
  /\ reading = [p \in Readers |-> "idle"] /\ who = [p \in Readers |-> Nobody]
  /\ got = [p \in Readers |-> 0]
  /\ slow = {}

At(p, point) == reading[p] = point

Ask(p, u, point, v) ==
  /\ At(p, "idle")
  /\ reading' = [reading EXCEPT ![p] = point]
  /\ who' = [who EXCEPT ![p] = u]
  /\ got' = [got EXCEPT ![p] = v]
  /\ UNCHANGED slow

GoOn(p, point, v) ==
  /\ reading' = [reading EXCEPT ![p] = point]
  /\ got' = [got EXCEPT ![p] = v]
  /\ UNCHANGED <<who, slow>>

Leave(p) ==
  /\ reading' = [reading EXCEPT ![p] = "idle"]
  /\ who' = [who EXCEPT ![p] = Nobody]
  /\ got' = [got EXCEPT ![p] = 0]
  /\ slow' = slow \ {p}

-------------------------------------------------------------------------------
Write(u) ==
  /\ version[u] < MaxVersion
  /\ version' = [version EXCEPT ![u] = @ + 1]
  /\ UNCHANGED age

(* View.CreateUser: what it inserted it puts into the cache.                   *)
CreateUser(p) ==
  /\ \E u \in Users :
       /\ version[u] = 0
       /\ Write(u)
       /\ Ask(p, u, "setLocal", 1)
  /\ UNCHANGED <<deleted, caches>>

(* View.UpdateUserProfile: a transaction that changes the row and leaves the   *)
(* cache as it is. (The rows of a deleted user can still be changed.)          *)
UpdateUserProfile(u) ==
  /\ version[u] > 0 /\ Write(u)
  /\ UNCHANGED <<deleted, caches, reads>>

(* View.DeleteActor leaves the cache as it is, too.                            *)
DeleteActor(u) ==
  /\ version[u] > 0 /\ u \notin deleted
  /\ Write(u)
  /\ deleted' = deleted \cup {u}
  /\ UNCHANGED <<caches, reads>>

(* View.GetAuthenticatedUser, from where the row was read: the password is     *)
(* compared with that row and the profile goes into the cache.                 *)
GetAuthenticatedUser(p) ==
  /\ \E u \in Users \ deleted : version[u] > 0 /\ Ask(p, u, "setLocal", version[u])
  /\ UNCHANGED <<database, caches>>

(* View.GetActorProfile, for a token that may have outlived the account.       *)
GetActorProfile(p) ==
  /\ \E u \in Users : version[u] > 0 /\ Ask(p, u, "get", 0)
  /\ UNCHANGED <<database, caches>>

(* UserCache.Get: the local cache, then Redis; an error is a miss.             *)
Get(p) ==
  /\ At(p, "get")
  /\ LET u == who[p] IN
       \/ local[u] # NoEntry /\ GoOn(p, "served", local[u].ver)
       \/ local[u] = NoEntry /\ redis[u] # NoEntry /\ GoOn(p, "keep", redis[u].ver)
       \/ local[u] = NoEntry /\ GoOn(p, "query", 0)
  /\ UNCHANGED <<database, caches>>

(* Mutant: an entry that is used starts its life again, in Redis too.          *)
KeepAlive(p) ==
  /\ At(p, "keep")
  /\ local' = [local EXCEPT ![who[p]] = Entry(got[p], LocalTTL)]
  /\ redis' = [redis EXCEPT ![who[p]] = Entry(got[p], RedisTTL)]
  /\ GoOn(p, "served", got[p])
  /\ UNCHANGED database

(* What came from Redis is kept in the local cache, for that cache's own time. *)
Keep(p) ==
  /\ At(p, "keep")
  /\ local' = [local EXCEPT ![who[p]] = Entry(got[p], LocalTTL)]
  /\ GoOn(p, "served", got[p])
  /\ UNCHANGED <<database, redis>>

(* ViewMeta.GetActorProfileByID: not for a deleted account.                    *)
GetActorProfileByID(p) ==
  /\ At(p, "query")
  /\ \/ who[p] \notin deleted /\ GoOn(p, "setLocal", version[who[p]])
     \/ Leave(p)
  /\ UNCHANGED <<database, caches>>

(* Mutant: an entry lives in the local cache as long as in Redis.              *)
SetLocalForLong(p) ==
  /\ At(p, "setLocal")
  /\ local' = [local EXCEPT ![who[p]] = Entry(got[p], RedisTTL)]
  /\ GoOn(p, "setRedis", got[p])
  /\ UNCHANGED <<database, redis>>

(* UserCache.Set: the local cache first, and Redis, whose error is logged.     *)
SetLocal(p) ==
  /\ At(p, "setLocal")
  /\ local' = [local EXCEPT ![who[p]] = Entry(got[p], LocalTTL)]
  /\ GoOn(p, "setRedis", got[p])
  /\ UNCHANGED <<database, redis>>

SetRedis(p) ==
  /\ At(p, "setRedis")
  /\ redis' = [redis EXCEPT ![who[p]] = Entry(got[p], RedisTTL)] \/ UNCHANGED redis
  /\ GoOn(p, "served", got[p])
  /\ UNCHANGED <<database, local>>

Answer(p) ==
  /\ At(p, "served")
  /\ Leave(p)
  /\ UNCHANGED <<database, caches>>

(* Either cache drops what it has no room for, and a restart the local one.    *)
Evict(u) ==
  /\ \/ local' = [local EXCEPT ![u] = NoEntry] /\ UNCHANGED redis
     \/ redis' = [redis EXCEPT ![u] = NoEntry] /\ UNCHANGED local
  /\ UNCHANGED <<database, reads>>

-------------------------------------------------------------------------------
Aged(e) == IF e.left > 1 THEN [e EXCEPT !.left = @ - 1] ELSE NoEntry

ClockTick ==
  /\ slow = {}
  /\ redis' = [u \in Users |-> Aged(redis[u])]
  /\ local' = [u \in Users |-> Aged(local[u])]
  /\ age' = [u \in Users |->
              [v \in Versions |->
                IF v < version[u] /\ age[u][v] < MaxAge THEN age[u][v] + 1 ELSE age[u][v]]]
  /\ slow' = {p \in Readers : ~At(p, "idle")}
  /\ UNCHANGED <<version, deleted, reading, who, got>>

Reply(p) ==
  \/ Get(p) \/ Keep(p) \/ GetActorProfileByID(p) \/ SetLocal(p) \/ SetRedis(p) \/ Answer(p)

CacheNext ==
  \/ \E p \in Readers :
       CreateUser(p) \/ GetAuthenticatedUser(p) \/ GetActorProfile(p) \/ Reply(p)
  \/ \E u \in Users : UpdateUserProfile(u) \/ DeleteActor(u) \/ Evict(u)
  \/ ClockTick

(* Requests end, and the clock goes on.                                        *)
CacheSpec ==
  /\ CacheInit /\ [][CacheNext]_cacheVars
  /\ WF_cacheVars(ClockTick) /\ \A p \in Readers : WF_cacheVars(Reply(p))
-------------------------------------------------------------------------------
Entries(ttl) == {NoEntry} \cup [ver : Versions, left : 1 .. ttl]

(* Every variable has its type, and only what once was in the database is      *)
(* cached or answered.                                                         *)
CacheTypeOK ==
  /\ version \in [Users -> 0 .. MaxVersion]
  /\ deleted \subseteq Users
  /\ age \in [Users -> [Versions -> 0 .. MaxAge]]
  /\ redis \in [Users -> Entries(RedisTTL)] /\ local \in [Users -> Entries(LocalTTL)]
  /\ reading \in [Readers ->
                    {"idle", "get", "keep", "query", "setLocal", "setRedis", "served"}]
  /\ who \in [Readers -> Users \cup {Nobody}]
  /\ got \in [Readers -> 0 .. MaxVersion]
  /\ slow \subseteq Readers
  /\ \A u \in Users : redis[u].ver <= version[u] /\ local[u].ver <= version[u]

(* A renamed user's old name, and a deleted user's profile, are answered for   *)
(* so long and no longer: a request that had read the row as it changed, a     *)
(* life in Redis, a local life filled from there at the end of it, and a       *)
(* request that had read that. Every request beside these may refill a cache.  *)
StaleBound ==
  \A p \in Readers :
    At(p, "served") /\ got[p] < version[who[p]] => age[who[p]][got[p]] <= Oldest

(* However requests and caches race, and whatever was put over a newer entry,  *)
(* the caches come to hold nothing but what the database has, once it stays as *)
(* it is; and nothing of a deleted user.                                       *)
Converges ==
  \A u \in Users :
    <>[](/\ redis[u] # NoEntry \/ local[u] # NoEntry => u \notin deleted
         /\ redis[u] = NoEntry \/ redis[u].ver = version[u]
         /\ local[u] = NoEntry \/ local[u].ver = version[u])
===============================================================================
