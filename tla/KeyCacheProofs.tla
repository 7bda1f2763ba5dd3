---------------------------- MODULE KeyCacheProofs ----------------------------
(* What the key caches guarantee for any number of requests and DIDs and any   *)
(* timeouts and period, the clock unbounded but for MaxTime; and then the      *)
(* profile cache, for any number of requests and users and any times to live.  *)
EXTENDS KeyCache, ProfileCache, TLAPS

(* The flag comes before the wipe, and only a wiped cache ends the cleaner.    *)
Stopping == /\ ~open => shutdown
            /\ cleaner \in {"stopped", "panicked"} => shutdown

(* Where the clock stands to the ticker while the process serves, and how old  *)
(* a cached key can be at most: the last sweep saw it unexpired, or it came    *)
(* later. A cleaner waiting for mu has that sweep one period behind it.        *)
Fresh(cache, since) ==
  \A d \in Dids : cache[d] # Absent => cache[d] + since >= nextSweep

SweptInTime ==
  ~shutdown =>
    /\ cleaner = "wait" => /\ now <= nextSweep /\ nextSweep <= now + Period
                           /\ Fresh(ek, Period) /\ Fresh(sk, Period)
    /\ cleaner = "locking" => /\ nextSweep = now + Period
                              /\ Fresh(ek, Period + Period) /\ Fresh(sk, Period + Period)

(* Nobody is loading a key of a DID in quiet.                                  *)
NoLoadWhenQuiet == \A p \in Procs : pc[p] \in Loading => did[p] \notin quiet

IInv == /\ TypeOK /\ Stopping /\ SigningWithinEncrypted /\ StopForgets
        /\ SweptInTime /\ NoLoadWhenQuiet /\ LogoutForgets

-------------------------------------------------------------------------------
(* A process that starts, with empty caches, satisfies the invariant.          *)
LEMMA InitIInv == Init => IInv
<1> SUFFICES ASSUME Init PROVE IInv
  OBVIOUS
<1> USE TimeAssumption DEF Init, Absent
<1>1. TypeOK
  BY DEF TypeOK, Kinds, Points, Loading
<1>2. SigningWithinEncrypted /\ StopForgets /\ Stopping
  BY DEF SigningWithinEncrypted, StopForgets, Stopping
<1>3. SweptInTime
  BY DEF SweptInTime, Fresh
<1>4. NoLoadWhenQuiet /\ LogoutForgets
  BY DEF NoLoadWhenQuiet, LogoutForgets
<1> QED
  BY <1>1, <1>2, <1>3, <1>4 DEF IInv

(* A step that leaves the caches, the clock and the cleaner alone preserves    *)
(* all that is said of them.                                                   *)
LEMMA CachesUnchanged ==
  ASSUME IInv, UNCHANGED <<ek, sk, open, shutdown, cleaner, clock>>
  PROVE  /\ Stopping' /\ SigningWithinEncrypted' /\ StopForgets' /\ SweptInTime'
BY DEF IInv, Stopping, SigningWithinEncrypted, StopForgets, SweptInTime, Fresh, clock

(* Every step of a request preserves the invariant.                            *)
LEMMA ServeIInv ==
  ASSUME IInv, cleaner # "panicked", NEW p \in Procs, Serve(p)
  PROVE  IInv'
<1> USE TimeAssumption, DidsAssumption DEF Goto, Return, KeyCached, Points, Loading, Kinds,
        Absent, service, clock, requests
<1>1. ASSUME NEW k \in Kinds, NEW d \in Dids, Begin(p, k, d) PROVE IInv'
  <2>1. TypeOK'
    BY <1>1 DEF Begin, IInv, TypeOK
  <2>2. NoLoadWhenQuiet' /\ LogoutForgets'
    BY <1>1 DEF Begin, IInv, TypeOK, NoLoadWhenQuiet, LogoutForgets
  <2> QED
    BY <1>1, <2>1, <2>2, CachesUnchanged DEF Begin, IInv
<1>2. CASE CreateEncryptedKey(p)
  <2>1. TypeOK'
    BY <1>2 DEF CreateEncryptedKey, IInv, TypeOK
  <2>2. NoLoadWhenQuiet' /\ LogoutForgets'
    BY <1>2 DEF CreateEncryptedKey, IInv, TypeOK, NoLoadWhenQuiet, LogoutForgets
  <2> QED
    BY <1>2, <2>1, <2>2, CachesUnchanged DEF CreateEncryptedKey, IInv
<1>3. CASE Has(p)
  <2>1. TypeOK'
    BY <1>3 DEF Has, IInv, TypeOK
  <2>2. NoLoadWhenQuiet' /\ LogoutForgets'
    BY <1>3 DEF Has, IInv, TypeOK, NoLoadWhenQuiet, LogoutForgets
  <2> QED
    BY <1>3, <2>1, <2>2, CachesUnchanged DEF Has, IInv
<1>4. CASE Rekey(p)
  <2>1. TypeOK'
    BY <1>4 DEF Rekey, IInv, TypeOK
  <2>2. NoLoadWhenQuiet' /\ LogoutForgets'
    BY <1>4 DEF Rekey, IInv, TypeOK, NoLoadWhenQuiet, LogoutForgets
  <2> QED
    BY <1>4, <2>1, <2>2, CachesUnchanged DEF Rekey, IInv
<1>5. CASE GetKey(p)
  <2>1. TypeOK'
    BY <1>5 DEF GetKey, IInv, TypeOK
  <2>2. NoLoadWhenQuiet' /\ LogoutForgets'
    BY <1>5 DEF GetKey, IInv, TypeOK, NoLoadWhenQuiet, LogoutForgets
  <2> QED
    BY <1>5, <2>1, <2>2, CachesUnchanged DEF GetKey, IInv
<1>6. CASE Decrypt(p)
  <2>1. TypeOK'
    BY <1>6 DEF Decrypt, IInv, TypeOK
  <2>2. NoLoadWhenQuiet' /\ LogoutForgets'
    BY <1>6 DEF Decrypt, IInv, TypeOK, NoLoadWhenQuiet, LogoutForgets
  <2> QED
    BY <1>6, <2>1, <2>2, CachesUnchanged DEF Decrypt, IInv
<1>7. CASE Add(p)
  <2>1. did[p] \in Dids /\ did[p] \notin quiet
    BY <1>7 DEF Add, IInv, TypeOK, NoLoadWhenQuiet
  <2>2. TypeOK'
    BY <1>7, <2>1 DEF Add, IInv, TypeOK
  <2>3. NoLoadWhenQuiet' /\ LogoutForgets'
    BY <1>7, <2>1 DEF Add, IInv, TypeOK, NoLoadWhenQuiet, LogoutForgets
  <2>4. Stopping' /\ StopForgets'
    BY <1>7 DEF Add, IInv, TypeOK, Stopping, StopForgets
  <2>5. SigningWithinEncrypted'
    BY <1>7, <2>1 DEF Add, IInv, TypeOK, SigningWithinEncrypted
  <2>6. SweptInTime'
    BY <1>7, <2>1 DEF Add, IInv, TypeOK, SweptInTime, Fresh
  <2> QED
    BY <2>2, <2>3, <2>4, <2>5, <2>6 DEF IInv
<1>8. CASE Sign(p)
  <2>1. TypeOK'
    BY <1>8 DEF Sign, IInv, TypeOK
  <2>2. NoLoadWhenQuiet' /\ LogoutForgets'
    BY <1>8 DEF Sign, IInv, TypeOK, NoLoadWhenQuiet, LogoutForgets
  <2> QED
    BY <1>8, <2>1, <2>2, CachesUnchanged DEF Sign, IInv
<1>9. CASE Remove(p)
  <2>1. did[p] \in Dids
    BY <1>9 DEF Remove, IInv, TypeOK
  <2>2. TypeOK'
    BY <1>9, <2>1 DEF Remove, IInv, TypeOK
  <2>3. NoLoadWhenQuiet'
    BY <1>9, <2>1 DEF Remove, IInv, TypeOK, NoLoadWhenQuiet, LoadUnderWay
  <2>4. LogoutForgets'
    BY <1>9, <2>1 DEF Remove, IInv, TypeOK, LogoutForgets
  <2>5. Stopping' /\ StopForgets' /\ SigningWithinEncrypted'
    BY <1>9, <2>1 DEF Remove, IInv, TypeOK, Stopping, StopForgets, SigningWithinEncrypted
  <2>6. SweptInTime'
    BY <1>9, <2>1 DEF Remove, IInv, TypeOK, SweptInTime, Fresh
  <2> QED
    BY <2>2, <2>3, <2>4, <2>5, <2>6 DEF IInv
<1> QED
  BY <1>1, <1>2, <1>3, <1>4, <1>5, <1>6, <1>7, <1>8, <1>9 DEF Serve

(* The two loops of a sweep keep a key only if it has not expired, and drop    *)
(* the signing key of every encrypted key they drop.                           *)
LEMMA SweepIInv == ASSUME IInv, Sweep PROVE IInv'
<1> USE TimeAssumption DEF Absent, service, clock, requests
<1>1. TypeOK'
  BY DEF Sweep, IInv, TypeOK
<1>2. NoLoadWhenQuiet' /\ LogoutForgets'
  BY DEF Sweep, IInv, TypeOK, NoLoadWhenQuiet, LogoutForgets
<1>3. Stopping' /\ StopForgets'
  BY DEF Sweep, IInv, TypeOK, Stopping, StopForgets
<1>4. SigningWithinEncrypted'
  BY DEF Sweep, IInv, TypeOK, SigningWithinEncrypted
<1>5. SweptInTime'
  <2> SUFFICES ASSUME ~shutdown PROVE SweptInTime'
    BY DEF Sweep, SweptInTime
  <2>1. open /\ cleaner' = "wait" /\ nextSweep = now + Period
    BY DEF Sweep, IInv, Stopping, SweptInTime
  <2>2. \A d \in Dids : /\ ek'[d] # Absent => now <= ek'[d]
                        /\ sk'[d] # Absent => now <= sk'[d]
    BY <2>1 DEF Sweep, IInv, TypeOK, Expired
  <2> QED
    BY <2>1, <2>2 DEF Sweep, IInv, TypeOK, SweptInTime, Fresh
<1> QED
  BY <1>1, <1>2, <1>3, <1>4, <1>5 DEF IInv

(* Time passes only while the cleaner is in time.                              *)
LEMMA TickIInv == ASSUME IInv, Tick PROVE IInv'
<1> USE TimeAssumption DEF service, requests
<1>1. SweptInTime'
  BY DEF Tick, IInv, TypeOK, SweptInTime, Fresh
<1> QED
  BY <1>1 DEF Tick, IInv, TypeOK, Stopping, SigningWithinEncrypted, StopForgets,
     NoLoadWhenQuiet, LogoutForgets

(* The ticker fires exactly when it is due.                                    *)
LEMMA TickerIInv == ASSUME IInv, TickerFires PROVE IInv'
<1> USE TimeAssumption DEF service, requests
<1>1. SweptInTime'
  BY DEF TickerFires, IInv, TypeOK, SweptInTime, Fresh
<1> QED
  BY <1>1 DEF TickerFires, IInv, TypeOK, Stopping, SigningWithinEncrypted, StopForgets,
     NoLoadWhenQuiet, LogoutForgets

(* Stop, the end of the cleaner and a restart preserve the invariant.          *)
LEMMA StopIInv ==
  ASSUME IInv, RequestStop \/ WipeAll \/ CleanerStops \/ Restart PROVE IInv'
<1> USE TimeAssumption DEF Absent, service, clock, requests
<1>1. TypeOK'
  <2>1. CASE RequestStop
    BY <2>1 DEF RequestStop, IInv, TypeOK
  <2>2. CASE WipeAll
    BY <2>2 DEF WipeAll, IInv, TypeOK
  <2>3. CASE CleanerStops
    BY <2>3 DEF CleanerStops, IInv, TypeOK
  <2>4. CASE Restart
    <3>1. nextSweep' \in Nat /\ ek' \in [Dids -> Nat] /\ sk' \in [Dids -> Nat]
      BY <2>4 DEF Restart, IInv, TypeOK
    <3>2. /\ pc' \in [Procs -> Points] /\ did' \in [Procs -> Dids \cup {NoDid}]
          /\ \A p \in Procs : pc'[p] = "idle"
      BY <2>4 DEF Restart, Points
    <3> QED
      BY <2>4, <3>1, <3>2 DEF Restart, IInv, TypeOK
  <2> QED
    BY <2>1, <2>2, <2>3, <2>4
<1>2. NoLoadWhenQuiet' /\ LogoutForgets'
  BY DEF RequestStop, WipeAll, CleanerStops, Restart, IInv, TypeOK, NoLoadWhenQuiet,
     LogoutForgets, Loading
<1>3. Stopping' /\ StopForgets' /\ SigningWithinEncrypted'
  BY DEF RequestStop, WipeAll, CleanerStops, Restart, IInv, TypeOK, Stopping, StopForgets,
     SigningWithinEncrypted
<1>4. SweptInTime'
  BY DEF RequestStop, WipeAll, CleanerStops, Restart, IInv, TypeOK, SweptInTime, Fresh
<1> QED
  BY <1>1, <1>2, <1>3, <1>4 DEF IInv

-------------------------------------------------------------------------------
(* The invariant holds for ever, whichever request, sweep, stop or restart     *)
(* comes next.                                                                 *)
THEOREM KeyInvariance == Spec => []IInv
<1>1. IInv /\ [Next]_vars => IInv'
  <2> SUFFICES ASSUME IInv, [Next]_vars PROVE IInv'
    OBVIOUS
  <2>1. CASE UNCHANGED vars
    BY <2>1 DEF vars, service, clock, requests, IInv, TypeOK, Stopping,
       SigningWithinEncrypted, StopForgets, SweptInTime, Fresh, NoLoadWhenQuiet, LogoutForgets
  <2>2. CASE Next
    BY <2>2, ServeIInv, SweepIInv, TickIInv, TickerIInv, StopIInv DEF Next
  <2> QED
    BY <2>1, <2>2
<1> QED
  BY <1>1, InitIInv, PTL DEF Spec

(* The variables keep their types.                                             *)
THEOREM KeyTypes == Spec => []TypeOK
BY KeyInvariance, PTL DEF IInv

(* A cached signing key never outlives the encrypted key beside it, and a      *)
(* serving process keeps no key longer than its timeout and one period.        *)
THEOREM KeysAreDropped == Spec => []KeysExpire
<1>1. IInv => KeysDoNotLinger
  BY TimeAssumption DEF IInv, TypeOK, Stopping, SweptInTime, Fresh, KeysDoNotLinger
<1>2. IInv => KeysExpire
  BY <1>1 DEF IInv, KeysExpire
<1> QED
  BY <1>2, KeyInvariance, PTL

(* No call in flight brings a key back after Stop, and a logout with no load   *)
(* under way leaves none behind.                                               *)
THEOREM NoKeyComesBack == Spec => []KeysAreForgotten
<1>1. IInv => KeysAreForgotten
  BY DEF IInv, KeysAreForgotten
<1> QED
  BY <1>1, KeyInvariance, PTL

-------------------------------------------------------------------------------
(* The other cache, of profiles: ProfileCache.                                 *)

(* v is a version that u's profile has or had, replaced at most n ticks ago.   *)
Within(u, v, n) ==
  v \in Versions /\ v <= version[u] /\ (v < version[u] => age[u][v] <= n)

(* What an entry has left bounds the age of what it holds.                     *)
EntryOK(u, e, n) == e # NoEntry => Within(u, e.ver, n - e.left)

EntriesOK(r, l) == \A u \in Users : /\ EntryOK(u, r[u], RedisTTL + 1)
                                    /\ EntryOK(u, l[u], Oldest)

(* A request that has seen the clock move may have what is older by that.      *)
Late(p) == IF p \in slow THEN 1 ELSE 0

ReadOK(p) ==
  /\ reading[p] = "idle" => p \notin slow
  /\ reading[p] # "idle" => who[p] \in Users /\ version[who[p]] > 0
  /\ reading[p] \in {"setLocal", "setRedis"} => Within(who[p], got[p], Late(p))
  /\ reading[p] = "keep" => Within(who[p], got[p], RedisTTL + Late(p))
  /\ reading[p] = "served" => Within(who[p], got[p], RedisTTL + LocalTTL + Late(p))

CacheTypes ==
  /\ version \in [Users -> 0 .. MaxVersion] /\ deleted \subseteq Users
  /\ age \in [Users -> [Versions -> 0 .. MaxAge]]
  /\ redis \in [Users -> Entries(RedisTTL)] /\ local \in [Users -> Entries(LocalTTL)]
  /\ slow \subseteq Readers
PlaceTypes ==
  /\ reading \in [Readers -> {"idle", "get", "keep", "query", "setLocal", "setRedis", "served"}]
  /\ who \in [Readers -> Users \cup {Nobody}] /\ got \in [Readers -> 0 .. MaxVersion]

CacheInv ==
  /\ CacheTypes /\ PlaceTypes
  /\ \A u \in Users : \A v \in Versions : v >= version[u] => age[u][v] = 0
  /\ EntriesOK(redis, local)
  /\ \A p \in Readers : ReadOK(p)

(* An entry that is there has a version, and at least a tick left.             *)
LEMMA EntryThere ==
  ASSUME NEW ttl \in Nat, NEW e \in Entries(ttl), e # NoEntry
  PROVE  e.ver \in Versions /\ e.left \in 1 .. ttl
BY DEF Entries

(* An entry that is put, and what it says.                                     *)
LEMMA EntryPut ==
  ASSUME NEW ttl \in Nat \ {0}, NEW v \in Versions
  PROVE  /\ Entry(v, ttl) \in Entries(ttl)
         /\ Entry(v, ttl).ver = v /\ Entry(v, ttl).left = ttl
BY DEF Entries, Entry

(* A longer time is one, too.                                                  *)
LEMMA WithinMore ==
  ASSUME CacheInv,
         NEW u \in Users, NEW v, NEW m \in Int, NEW n \in Int, m <= n, Within(u, v, m)
  PROVE  Within(u, v, n)
<1>1. v \in Versions => age[u][v] \in Int
  BY TimesAssumption DEF CacheInv, CacheTypes, MaxAge, Oldest
<1> QED
  BY <1>1 DEF Within

(* A write replaces a version just now.                                        *)
LEMMA WriteKeeps ==
  ASSUME CacheInv, NEW w \in Users, Write(w),
         NEW u \in Users, NEW v, NEW n \in Int, n >= 0, Within(u, v, n)
  PROVE  Within(u, v, n)'
<1>1. /\ version[u] \in Int /\ version'[u] \in {version[u], version[u] + 1}
      /\ age' = age /\ v \in Int
  BY TimesAssumption DEF CacheInv, CacheTypes, Write, Within, Versions
<1>2. v = version[u] => age[u][v] = 0
  BY DEF CacheInv, Within
<1> QED
  BY <1>1, <1>2 DEF Within

(* A tick later everything is older by a tick at most.                         *)
LEMMA TickAges ==
  ASSUME CacheInv, ClockTick, NEW u \in Users, NEW v, NEW n \in Int, Within(u, v, n)
  PROVE  Within(u, v, n + 1)'
<1>1. CASE v < version[u]
  <2>1. age[u][v] \in Nat /\ age[u][v] <= n /\ v \in Versions
    BY <1>1, TimesAssumption DEF Within, CacheInv, CacheTypes, MaxAge, Oldest
  <2>2. age'[u][v] <= age[u][v] + 1
    BY <1>1, <2>1 DEF ClockTick
  <2>3. age'[u][v] \in Int
    BY <1>1, <2>1 DEF ClockTick
  <2> QED
    BY <1>1, <2>1, <2>2, <2>3 DEF Within, ClockTick
<1>2. CASE v >= version[u]
  BY <1>2 DEF Within, ClockTick, CacheInv, CacheTypes, Versions
<1> QED
  BY <1>1, <1>2 DEF Within, CacheInv, CacheTypes, Versions

(* Where a request goes to, and that the others stay.                          *)
Rest(p) ==
  \A q \in Readers \ {p} : /\ reading'[q] = reading[q] /\ who'[q] = who[q] /\ got'[q] = got[q]
                           /\ q \in slow' <=> q \in slow
CachePoints == {"idle", "get", "keep", "query", "setLocal", "setRedis", "served"}

(* A request begins, ...                                                       *)
LEMMA Begins ==
  ASSUME CacheInv, NEW p \in Readers,
         NEW u \in Users, NEW point \in CachePoints, NEW v \in 0 .. MaxVersion,
         Ask(p, u, point, v)
  PROVE  /\ PlaceTypes' /\ Rest(p) /\ slow' = slow /\ p \notin slow
         /\ reading'[p] = point /\ who'[p] = u /\ got'[p] = v
<1>t. PlaceTypes /\ ReadOK(p)
  BY DEF CacheInv
<1>1. p \notin slow
  BY <1>t DEF Ask, At, ReadOK
<1> QED
  BY <1>t, <1>1 DEF Ask, PlaceTypes, Rest, CachePoints

(* ... goes on ...                                                             *)
LEMMA GoesOn ==
  ASSUME CacheInv, NEW p \in Readers, NEW point \in CachePoints, NEW v \in 0 .. MaxVersion,
         GoOn(p, point, v)
  PROVE  /\ PlaceTypes' /\ Rest(p) /\ slow' = slow
         /\ reading'[p] = point /\ who'[p] = who[p] /\ got'[p] = v
BY DEF GoOn, CacheInv, PlaceTypes, Rest, CachePoints

(* ... and ends.                                                               *)
LEMMA Ends ==
  ASSUME CacheInv, NEW p \in Readers, Leave(p)
  PROVE  PlaceTypes' /\ Rest(p) /\ slow' = slow \ {p} /\ reading'[p] = "idle"
<1>1. 0 \in 0 .. MaxVersion
  BY TimesAssumption
<1> QED
  BY <1>1 DEF Leave, CacheInv, PlaceTypes, Rest

(* What a request does to the caches keeps the rest.                           *)
LEMMA CacheStepKept ==
  ASSUME CacheInv, NEW p \in Readers, PlaceTypes', Rest(p), slow' \subseteq slow,
         UNCHANGED <<version, deleted, age>>, ReadOK(p)',
         redis' \in [Users -> Entries(RedisTTL)],
         local' \in [Users -> Entries(LocalTTL)], EntriesOK(redis', local')
  PROVE  CacheInv'
<1>1. CacheTypes'
  BY DEF CacheInv, CacheTypes
<1>2. \A u \in Users : \A v \in Versions : v >= version'[u] => age'[u][v] = 0
  BY DEF CacheInv
<1>3. ASSUME NEW q \in Readers PROVE ReadOK(q)'
  <2>1. CASE q = p
    BY <2>1
  <2>2. CASE q # p
    <3>1. ReadOK(q) /\ Late(q)' = Late(q)
      BY <2>2 DEF CacheInv, Rest, Late
    <3>2. reading'[q] = reading[q] /\ who'[q] = who[q] /\ got'[q] = got[q]
      BY <2>2 DEF Rest
    <3>3. \A u, v, n : Within(u, v, n)' = Within(u, v, n)
      BY DEF Within
    <3>4. q \in slow' => q \in slow
      OBVIOUS
    <3> QED
      BY <3>1, <3>2, <3>3, <3>4 DEF ReadOK
  <2> QED
    BY <2>1, <2>2
<1>4. EntriesOK(redis, local)'
  BY DEF EntriesOK, EntryOK, Within, Oldest, NoEntry, Versions
<1> QED
  BY <1>1, <1>2, <1>3, <1>4 DEF CacheInv

(* What an entry that is put holds is as old as what was read.                 *)
LEMMA EntryIsOK ==
  ASSUME CacheInv, NEW u \in Users, NEW v, NEW m \in Int, Within(u, v, m),
         NEW ttl \in Nat \ {0}, NEW n \in Int, m + ttl <= n
  PROVE  EntryOK(u, Entry(v, ttl), n)
<1>1. v \in Versions /\ m <= n - ttl
  BY DEF Within
<1>2. Within(u, v, n - ttl)
  BY <1>1, WithinMore
<1>3. Entry(v, ttl).ver = v /\ Entry(v, ttl).left = ttl
  BY <1>1, EntryPut
<1> QED
  BY <1>2, <1>3 DEF EntryOK

(* UserCache.Get: what is found was replaced as long ago as its entry allows.  *)
LEMMA GetKept ==
  ASSUME CacheInv, NEW p \in Readers, Get(p)
  PROVE  CacheInv'
<1> DEFINE u == who[p]
<1>p. /\ reading[p] = "get" /\ u \in Users /\ version[u] > 0 /\ Late(p) \in {0, 1}
      /\ UNCHANGED <<version, deleted, age, redis, local>>
  BY DEF Get, At, database, caches, CacheInv, ReadOK, Late
<1>t. /\ redis[u] \in Entries(RedisTTL) /\ local[u] \in Entries(LocalTTL)
      /\ EntryOK(u, redis[u], RedisTTL + 1) /\ EntryOK(u, local[u], Oldest)
      /\ RedisTTL \in Nat \ {0} /\ LocalTTL \in Nat \ {0} /\ 0 \in 0 .. MaxVersion
      /\ Versions \subseteq 0 .. MaxVersion
  BY <1>p, TimesAssumption DEF CacheInv, CacheTypes, EntriesOK, Versions
<1>c. {"served", "keep", "query"} \subseteq CachePoints
  BY DEF CachePoints
<1>k. ASSUME PlaceTypes', Rest(p), slow' = slow, ReadOK(p)' PROVE CacheInv'
  BY <1>k, <1>p, CacheStepKept DEF CacheInv, CacheTypes
<1>1. CASE local[u] # NoEntry /\ GoOn(p, "served", local[u].ver)
  <2>1. local[u].ver \in Versions /\ local[u].left \in 1 .. LocalTTL
    BY <1>1, <1>t, EntryThere
  <2>2. Within(u, local[u].ver, Oldest - local[u].left)
    BY <1>1, <1>t DEF EntryOK
  <2>3. /\ PlaceTypes' /\ Rest(p) /\ slow' = slow
        /\ reading'[p] = "served" /\ who'[p] = u /\ got'[p] = local[u].ver
    <3>1. PICK v \in 0 .. MaxVersion : v = local[u].ver
      BY <1>t, <2>1
    <3>2. GoOn(p, "served", v) /\ "served" \in CachePoints
      BY <1>1, <1>c, <3>1
    <3> QED
      BY <3>1, <3>2, GoesOn
  <2>4. Within(u, local[u].ver, RedisTTL + LocalTTL + Late(p))
    <3>1. /\ Oldest - local[u].left \in Int /\ RedisTTL + LocalTTL + Late(p) \in Int
          /\ Oldest - local[u].left <= RedisTTL + LocalTTL + Late(p)
      BY <1>t, <1>p, <2>1 DEF Oldest
    <3> QED
      BY <1>p, <2>2, <3>1, WithinMore
  <2>5. ReadOK(p)'
    BY <1>p, <2>3, <2>4 DEF ReadOK, Within, Late
  <2> QED
    BY <1>k, <2>3, <2>5
<1>2. CASE redis[u] # NoEntry /\ GoOn(p, "keep", redis[u].ver)
  <2>1. redis[u].ver \in Versions /\ redis[u].left \in 1 .. RedisTTL
    BY <1>2, <1>t, EntryThere
  <2>2. Within(u, redis[u].ver, (RedisTTL + 1) - redis[u].left)
    BY <1>2, <1>t DEF EntryOK
  <2>3. /\ PlaceTypes' /\ Rest(p) /\ slow' = slow
        /\ reading'[p] = "keep" /\ who'[p] = u /\ got'[p] = redis[u].ver
    <3>1. PICK v \in 0 .. MaxVersion : v = redis[u].ver
      BY <1>t, <2>1
    <3>2. GoOn(p, "keep", v) /\ "keep" \in CachePoints
      BY <1>2, <1>c, <3>1
    <3> QED
      BY <3>1, <3>2, GoesOn
  <2>4. Within(u, redis[u].ver, RedisTTL + Late(p))
    <3>1. /\ (RedisTTL + 1) - redis[u].left \in Int /\ RedisTTL + Late(p) \in Int
          /\ (RedisTTL + 1) - redis[u].left <= RedisTTL + Late(p)
      BY <1>t, <1>p, <2>1
    <3> QED
      BY <1>p, <2>2, <3>1, WithinMore
  <2>5. ReadOK(p)'
    BY <1>p, <2>3, <2>4 DEF ReadOK, Within, Late
  <2> QED
    BY <1>k, <2>3, <2>5
<1>3. CASE GoOn(p, "query", 0)
  <2>1. /\ PlaceTypes' /\ Rest(p) /\ slow' = slow /\ reading'[p] = "query" /\ who'[p] = u
    BY <1>3, <1>t, <1>c, GoesOn
  <2>2. ReadOK(p)'
    BY <1>p, <2>1 DEF ReadOK
  <2> QED
    BY <1>k, <2>1, <2>2
<1> QED
  BY <1>1, <1>2, <1>3 DEF Get

(* An entry is put into the local cache, ...                                   *)
LEMMA LocalPut ==
  ASSUME CacheInv, NEW u \in Users, NEW v, NEW m \in Int, Within(u, v, m),
         m + LocalTTL <= Oldest, redis' = redis,
         local' = [local EXCEPT ![u] = Entry(v, LocalTTL)]
  PROVE  local' \in [Users -> Entries(LocalTTL)] /\ EntriesOK(redis', local')
<1>t. /\ local \in [Users -> Entries(LocalTTL)] /\ LocalTTL \in Nat \ {0}
      /\ v \in Versions /\ Oldest \in Int
  BY TimesAssumption DEF CacheInv, CacheTypes, Within, Oldest
<1>1. Entry(v, LocalTTL) \in Entries(LocalTTL)
  BY <1>t, EntryPut
<1>2. EntryOK(u, Entry(v, LocalTTL), Oldest)
  BY <1>t, EntryIsOK
<1>3. \A w \in Users : EntryOK(w, local'[w], Oldest)
  BY <1>t, <1>2 DEF CacheInv, EntriesOK
<1> QED
  BY <1>t, <1>1, <1>3 DEF CacheInv, EntriesOK

(* ... or into Redis.                                                          *)
LEMMA RedisPut ==
  ASSUME CacheInv, NEW u \in Users, NEW v, NEW m \in Int, Within(u, v, m), m <= 1,
         local' = local, redis' = [redis EXCEPT ![u] = Entry(v, RedisTTL)]
  PROVE  redis' \in [Users -> Entries(RedisTTL)] /\ EntriesOK(redis', local')
<1>t. /\ redis \in [Users -> Entries(RedisTTL)] /\ RedisTTL \in Nat \ {0}
      /\ v \in Versions
  BY TimesAssumption DEF CacheInv, CacheTypes, Within
<1>1. Entry(v, RedisTTL) \in Entries(RedisTTL)
  BY <1>t, EntryPut
<1>2. EntryOK(u, Entry(v, RedisTTL), RedisTTL + 1)
  BY <1>t, EntryIsOK
<1>3. \A w \in Users : EntryOK(w, redis'[w], RedisTTL + 1)
  BY <1>t, <1>2 DEF CacheInv, EntriesOK
<1> QED
  BY <1>t, <1>1, <1>3 DEF CacheInv, EntriesOK

(* What was read is kept, in the local cache ...                               *)
LEMMA LocalKept ==
  ASSUME CacheInv, NEW p \in Readers, Keep(p) \/ SetLocal(p)
  PROVE  CacheInv'
<1> DEFINE u == who[p]
<1>p. /\ reading[p] \in {"keep", "setLocal"} /\ UNCHANGED <<version, deleted, age, redis>>
      /\ u \in Users /\ version[u] > 0 /\ Late(p) \in {0, 1} /\ got[p] \in 0 .. MaxVersion
      /\ local' = [local EXCEPT ![u] = Entry(got[p], LocalTTL)]
  BY DEF Keep, SetLocal, At, database, CacheInv, ReadOK, Late,
      PlaceTypes
<1>t. RedisTTL \in Nat \ {0} /\ LocalTTL \in Nat \ {0}
  BY TimesAssumption
<1>1. /\ PlaceTypes' /\ Rest(p) /\ slow' = slow /\ who'[p] = u /\ got'[p] = got[p]
      /\ IF reading[p] = "keep" THEN reading'[p] = "served" ELSE reading'[p] = "setRedis"
  <2>1. {"served", "setRedis"} \subseteq CachePoints
    BY DEF CachePoints
  <2> QED
    BY <1>p, <2>1, GoesOn DEF Keep, SetLocal, At
<1>2. /\ reading[p] = "keep" => Within(u, got[p], RedisTTL + Late(p))
      /\ reading[p] = "setLocal" => Within(u, got[p], Late(p))
  BY DEF CacheInv, ReadOK
<1>3. Within(u, got[p], RedisTTL + Late(p))
  <2>1. Late(p) \in Int /\ RedisTTL + Late(p) \in Int /\ Late(p) <= RedisTTL + Late(p)
    BY <1>p, <1>t
  <2> QED
    BY <1>p, <1>2, <2>1, WithinMore
<1>4. /\ local' \in [Users -> Entries(LocalTTL)] /\ EntriesOK(redis', local')
  <2>1. /\ RedisTTL + Late(p) \in Int
        /\ (RedisTTL + Late(p)) + LocalTTL <= Oldest
    BY <1>p, <1>t DEF Oldest
  <2> QED
    BY <1>p, <1>3, <2>1, LocalPut
<1>5. Within(u, got[p], RedisTTL + LocalTTL + Late(p))
  <2>1. /\ RedisTTL + Late(p) \in Int /\ RedisTTL + LocalTTL + Late(p) \in Int
        /\ RedisTTL + Late(p) <= RedisTTL + LocalTTL + Late(p)
    BY <1>p, <1>t
  <2> QED
    BY <1>p, <1>3, <2>1, WithinMore
<1>6. ReadOK(p)'
  BY <1>p, <1>1, <1>2, <1>5 DEF ReadOK, Within, Late
<1> QED
  BY <1>p, <1>1, <1>4, <1>6, CacheStepKept DEF CacheInv, CacheTypes

(* ... and in Redis.                                                           *)
LEMMA RedisKept ==
  ASSUME CacheInv, NEW p \in Readers, SetRedis(p)
  PROVE  CacheInv'
<1> DEFINE u == who[p]
<1>p. /\ reading[p] = "setRedis" /\ UNCHANGED <<version, deleted, age, local>>
      /\ u \in Users /\ version[u] > 0 /\ Late(p) \in {0, 1} /\ got[p] \in 0 .. MaxVersion
      /\ Within(u, got[p], Late(p))
  BY DEF SetRedis, At, database, CacheInv, ReadOK, Late, PlaceTypes
<1>t. RedisTTL \in Nat \ {0} /\ LocalTTL \in Nat \ {0}
  BY TimesAssumption
<1>1. /\ PlaceTypes' /\ Rest(p) /\ slow' = slow /\ who'[p] = u /\ got'[p] = got[p]
      /\ reading'[p] = "served"
  <2>1. "served" \in CachePoints
    BY DEF CachePoints
  <2> QED
    BY <1>p, <2>1, GoesOn DEF SetRedis
<1>2. /\ redis' \in [Users -> Entries(RedisTTL)] /\ EntriesOK(redis', local')
  <2>1. CASE redis' = [redis EXCEPT ![u] = Entry(got[p], RedisTTL)]
    <3>1. Late(p) \in Int /\ Late(p) <= 1
      BY <1>p
    <3> QED
      BY <1>p, <2>1, <3>1, RedisPut
  <2>2. CASE redis' = redis
    BY <1>p, <2>2 DEF CacheInv, CacheTypes
  <2> QED
    BY <2>1, <2>2 DEF SetRedis
<1>3. Within(u, got[p], RedisTTL + LocalTTL + Late(p))
  <2>1. /\ Late(p) \in Int /\ RedisTTL + LocalTTL + Late(p) \in Int
        /\ Late(p) <= RedisTTL + LocalTTL + Late(p)
    BY <1>p, <1>t
  <2> QED
    BY <1>p, <2>1, WithinMore
<1>4. ReadOK(p)'
  BY <1>p, <1>1, <1>3 DEF ReadOK, Within, Late
<1> QED
  BY <1>p, <1>1, <1>2, <1>4, CacheStepKept DEF CacheInv, CacheTypes

(* The database is asked, and a request ends.                                  *)
LEMMA ReadsKept ==
  ASSUME CacheInv, NEW p \in Readers, GetActorProfileByID(p) \/ Answer(p)
  PROVE  CacheInv'
<1> DEFINE u == who[p]
<1>p. /\ UNCHANGED <<version, deleted, age, redis, local>>
      /\ u \in Users /\ version[u] \in Versions /\ version[u] \in 0 .. MaxVersion
  BY DEF GetActorProfileByID, Answer, At, database, caches,
      CacheInv,
    CacheTypes, ReadOK, Versions
<1>1. CASE Leave(p)
  <2>1. PlaceTypes' /\ Rest(p) /\ slow' = slow \ {p} /\ reading'[p] = "idle"
    BY <1>1, Ends
  <2>2. ReadOK(p)'
    BY <2>1 DEF ReadOK
  <2> QED
    BY <1>p, <2>1, <2>2, CacheStepKept DEF CacheInv, CacheTypes
<1>2. CASE GoOn(p, "setLocal", version[u])
  <2>0. "setLocal" \in CachePoints
    BY DEF CachePoints
  <2>1. /\ PlaceTypes' /\ Rest(p) /\ slow' = slow /\ reading'[p] = "setLocal" /\ who'[p] = u
        /\ got'[p] = version[u]
    <3>1. PICK v \in 0 .. MaxVersion : v = version[u]
      BY <1>p
    <3>2. GoOn(p, "setLocal", v)
      BY <1>2, <3>1
    <3> QED
      BY <2>0, <3>1, <3>2, GoesOn
  <2>2. ReadOK(p)'
    BY <1>p, <2>1 DEF ReadOK, Within, Versions
  <2> QED
    BY <1>p, <2>1, <2>2, CacheStepKept DEF CacheInv, CacheTypes
<1> QED
  BY <1>1, <1>2 DEF GetActorProfileByID, Answer

(* A log-in reads the row, a renewal begins with the caches.                   *)
LEMMA SessionsKept ==
  ASSUME CacheInv, NEW p \in Readers,
         GetAuthenticatedUser(p) \/ GetActorProfile(p)
  PROVE  CacheInv'
<1>u. UNCHANGED <<version, deleted, age, redis, local>>
  BY DEF GetAuthenticatedUser, GetActorProfile, database, caches
<1>c. {"setLocal", "get"} \subseteq CachePoints
  BY DEF CachePoints
<1>1. ASSUME NEW u \in Users, version[u] > 0, NEW v \in 0 .. MaxVersion,
             \/ Ask(p, u, "setLocal", v) /\ v = version[u]
             \/ Ask(p, u, "get", v)
      PROVE  CacheInv'
  <2>1. /\ PlaceTypes' /\ Rest(p) /\ slow' = slow /\ p \notin slow /\ who'[p] = u /\ got'[p] = v
        /\ reading'[p] = "get" \/ (reading'[p] = "setLocal" /\ v = version[u])
    BY <1>1, <1>c, Begins
  <2>2. version[u] \in Versions
    BY <1>1 DEF CacheInv, CacheTypes, Versions
  <2>3. ReadOK(p)'
    BY <1>1, <1>u, <2>1, <2>2 DEF ReadOK, Within, Versions
  <2> QED
    BY <1>u, <2>1, <2>3, CacheStepKept DEF CacheInv, CacheTypes
<1>2. CASE GetAuthenticatedUser(p)
  <2>1. PICK u \in Users : version[u] > 0 /\ Ask(p, u, "setLocal", version[u])
    BY <1>2 DEF GetAuthenticatedUser
  <2>2. PICK v \in 0 .. MaxVersion : v = version[u]
    BY DEF CacheInv, CacheTypes
  <2> QED
    BY <1>1, <2>1, <2>2
<1>3. CASE GetActorProfile(p)
  <2>1. 0 \in 0 .. MaxVersion
    BY TimesAssumption
  <2> QED
    BY <1>1, <1>3, <2>1 DEF GetActorProfile
<1> QED
  BY <1>2, <1>3

(* A write to the database leaves the caches as they are.                      *)
LEMMA WritesKept ==
  ASSUME CacheInv, NEW w \in Users, Write(w), deleted' \subseteq Users,
         redis' = redis, local' = local, slow' = slow, PlaceTypes',
         \A p \in Readers : \/ reading'[p] = reading[p] /\ who'[p] = who[p] /\ got'[p] = got[p]
                            \/ /\ p \notin slow /\ version[w] = 0
                               /\ reading'[p] = "setLocal" /\ who'[p] = w /\ got'[p] = 1
  PROVE  CacheInv'
<1>t. RedisTTL \in Nat \ {0} /\ LocalTTL \in Nat \ {0} /\ MaxVersion \in Nat
  BY TimesAssumption
<1>v. /\ version \in [Users -> 0 .. MaxVersion] /\ version[w] < MaxVersion
      /\ version' = [version EXCEPT ![w] = version[w] + 1] /\ age' = age
  BY DEF CacheInv, CacheTypes, Write
<1>1. CacheTypes'
  <2>1. version' \in [Users -> 0 .. MaxVersion]
    BY <1>t, <1>v
  <2> QED
    BY <2>1, <1>v DEF CacheInv, CacheTypes
<1>2. \A u \in Users : \A v \in Versions : v >= version'[u] => age'[u][v] = 0
  <2> TAKE u \in Users
  <2> TAKE v \in Versions
  <2>1. version[u] \in Int /\ version[u] <= version'[u] /\ version'[u] \in Int /\ v \in Int
    BY <1>t, <1>v DEF Versions
  <2> QED
    BY <1>v, <2>1 DEF CacheInv
<1>3. EntriesOK(redis, local)'
  <2>1. ASSUME NEW u \in Users, redis[u] # NoEntry
        PROVE  Within(u, redis[u].ver, (RedisTTL + 1) - redis[u].left)'
    <3>1. redis[u] \in Entries(RedisTTL) /\ EntryOK(u, redis[u], RedisTTL + 1)
      BY DEF CacheInv, CacheTypes, EntriesOK
    <3>2. redis[u].left \in 1 .. RedisTTL
      BY <1>t, <2>1, <3>1, EntryThere
    <3>3. PICK v, n : v = redis[u].ver /\ n = (RedisTTL + 1) - redis[u].left
      OBVIOUS
    <3>4. n \in Int /\ n >= 0 /\ Within(u, v, n)
      BY <1>t, <2>1, <3>1, <3>2, <3>3 DEF EntryOK
    <3>5. Within(u, v, n)'
      BY <3>4, WriteKeeps
    <3> QED
      BY <3>3, <3>5
  <2>2. ASSUME NEW u \in Users, local[u] # NoEntry
        PROVE  Within(u, local[u].ver, (RedisTTL + LocalTTL + 1) - local[u].left)'
    <3>1. local[u] \in Entries(LocalTTL) /\ EntryOK(u, local[u], RedisTTL + LocalTTL + 1)
      BY DEF CacheInv, CacheTypes, EntriesOK, Oldest
    <3>2. local[u].left \in 1 .. LocalTTL
      BY <1>t, <2>2, <3>1, EntryThere
    <3>3. PICK v, n : v = local[u].ver /\ n = (RedisTTL + LocalTTL + 1) - local[u].left
      OBVIOUS
    <3>4. n \in Int /\ n >= 0 /\ Within(u, v, n)
      BY <1>t, <2>2, <3>1, <3>2, <3>3 DEF EntryOK
    <3>5. Within(u, v, n)'
      BY <3>4, WriteKeeps
    <3> QED
      BY <3>3, <3>5
  <2> QED
    BY <2>1, <2>2 DEF EntriesOK, EntryOK, Oldest, NoEntry
<1>4. ASSUME NEW p \in Readers PROVE ReadOK(p)'
  <2>1. CASE reading'[p] = reading[p] /\ who'[p] = who[p] /\ got'[p] = got[p]
    <3>1. ReadOK(p) /\ Late(p) \in {0, 1} /\ Late(p)' = Late(p)
      BY DEF CacheInv, Late
    <3>2. ASSUME NEW n \in Int, n >= 0, reading[p] # "idle", Within(who[p], got[p], n)
          PROVE  Within(who[p], got[p], n)'
      <4>1. PICK u \in Users, v \in Versions : u = who[p] /\ v = got[p]
        BY <3>1, <3>2 DEF ReadOK, Within
      <4>2. Within(u, v, n)'
        BY <3>2, <4>1, WriteKeeps
      <4> QED
        BY <2>1, <4>1, <4>2
    <3>3. PICK k \in {0, 1} : k = Late(p)
      BY <3>1
    <3>4. reading[p] \in {"setLocal", "setRedis"} => Within(who[p], got[p], k)'
      BY <3>1, <3>2, <3>3 DEF ReadOK
    <3>5. reading[p] = "keep" => Within(who[p], got[p], RedisTTL + k)'
      <4>1. RedisTTL + k \in Int /\ RedisTTL + k >= 0
        BY <1>t
      <4> QED
        BY <3>1, <3>2, <3>3, <4>1 DEF ReadOK
    <3>6. reading[p] = "served" => Within(who[p], got[p], RedisTTL + LocalTTL + k)'
      <4>1. RedisTTL + LocalTTL + k \in Int /\ RedisTTL + LocalTTL + k >= 0
        BY <1>t
      <4> QED
        BY <3>1, <3>2, <3>3, <4>1 DEF ReadOK
    <3>7. reading[p] # "idle" => who[p] \in Users /\ version'[who[p]] > 0
      BY <1>t, <1>v, <3>1 DEF ReadOK
    <3>8. Late(p)' = k
      BY <3>1, <3>3
    <3> QED
      BY <2>1, <3>1, <3>4, <3>5, <3>6, <3>7, <3>8 DEF ReadOK
  <2>2. CASE /\ p \notin slow /\ version[w] = 0
             /\ reading'[p] = "setLocal" /\ who'[p] = w /\ got'[p] = 1
    BY <1>t, <1>v, <2>2 DEF ReadOK, Within, Versions
  <2> QED
    BY <2>1, <2>2
<1> QED
  BY <1>1, <1>2, <1>3, <1>4 DEF CacheInv

(* The requests that write to the database.                                    *)
LEMMA DatabaseKept ==
  ASSUME CacheInv,
         \/ \E p \in Readers : CreateUser(p)
         \/ \E u \in Users : UpdateUserProfile(u) \/ DeleteActor(u)
  PROVE  CacheInv'
<1>d. deleted \subseteq Users /\ PlaceTypes
  BY DEF CacheInv, CacheTypes
<1>1. ASSUME NEW p \in Readers, CreateUser(p) PROVE CacheInv'
  <2>1. PICK u \in Users : version[u] = 0 /\ Write(u) /\ Ask(p, u, "setLocal", 1)
    BY <1>1 DEF CreateUser
  <2>2. "setLocal" \in CachePoints /\ 1 \in 0 .. MaxVersion
    BY TimesAssumption DEF CachePoints
  <2>3. /\ PlaceTypes' /\ Rest(p) /\ slow' = slow /\ p \notin slow
        /\ reading'[p] = "setLocal" /\ who'[p] = u /\ got'[p] = 1
    BY <2>1, <2>2, Begins
  <2>4. deleted' = deleted /\ redis' = redis /\ local' = local
    BY <1>1 DEF CreateUser, caches
  <2>5. \A q \in Readers : \/ reading'[q] = reading[q] /\ who'[q] = who[q] /\ got'[q] = got[q]
                           \/ /\ q \notin slow /\ version[u] = 0
                              /\ reading'[q] = "setLocal" /\ who'[q] = u /\ got'[q] = 1
    <3> SUFFICES ASSUME NEW q \in Readers, q # p
                 PROVE  reading'[q] = reading[q] /\ who'[q] = who[q] /\ got'[q] = got[q]
      BY <2>1, <2>3
    <3> QED
      BY <2>3 DEF Rest
  <2> QED
    BY <1>d, <2>1, <2>3, <2>4, <2>5, WritesKept
<1>2. ASSUME NEW u \in Users, UpdateUserProfile(u) \/ DeleteActor(u) PROVE CacheInv'
  <2>1. /\ Write(u) /\ redis' = redis /\ local' = local /\ slow' = slow
        /\ reading' = reading /\ who' = who /\ got' = got /\ deleted' \subseteq Users
    BY <1>2, <1>d DEF UpdateUserProfile, DeleteActor, caches, reads
  <2>2. PlaceTypes'
    BY <1>d, <2>1 DEF PlaceTypes, Nobody
  <2> QED
    BY <2>1, <2>2, WritesKept
<1> QED
  BY <1>1, <1>2

(* An entry is dropped; and steps that change nothing.                         *)
LEMMA EvictKept ==
  ASSUME CacheInv, (\E u \in Users : Evict(u)) \/ UNCHANGED cacheVars
  PROVE  CacheInv'
<1>u. UNCHANGED <<version, deleted, age, reading, who, got, slow>>
  BY DEF Evict, database, reads, cacheVars
<1>1. PlaceTypes' /\ \A p \in Readers : ReadOK(p)'
  BY <1>u DEF CacheInv, PlaceTypes, ReadOK, Within, Late, Versions, Nobody
<1>2. /\ redis' \in [Users -> Entries(RedisTTL)] /\ local' \in [Users -> Entries(LocalTTL)]
      /\ EntriesOK(redis', local')
  <2>t. /\ redis \in [Users -> Entries(RedisTTL)]
        /\ local \in [Users -> Entries(LocalTTL)] /\ EntriesOK(redis, local)
    BY DEF CacheInv, CacheTypes
  <2>n. \A ttl : NoEntry \in Entries(ttl)
    BY DEF Entries
  <2>1. ASSUME NEW u \in Users, Evict(u)
        PROVE  /\ redis' \in [Users -> Entries(RedisTTL)]
               /\ local' \in [Users -> Entries(LocalTTL)] /\ EntriesOK(redis', local')
    BY <2>t, <2>n, <2>1 DEF Evict, EntriesOK, EntryOK
  <2>2. CASE UNCHANGED cacheVars
    BY <2>t, <2>2 DEF cacheVars, caches
  <2> QED
    BY <2>1, <2>2
<1>3. CacheTypes'
  BY <1>u, <1>2 DEF CacheInv, CacheTypes, Versions, MaxAge, Oldest,
    Entries, NoEntry
<1>4. EntriesOK(redis, local)'
  BY <1>u, <1>2 DEF EntriesOK, EntryOK, Within, Oldest, NoEntry, Versions
<1> QED
  BY <1>u, <1>1, <1>3, <1>4 DEF CacheInv, Versions

(* An entry, a tick later.                                                     *)
LEMMA AgedOK ==
  ASSUME CacheInv, ClockTick, NEW u \in Users, NEW ttl \in Nat \ {0}, NEW n \in Int,
         NEW e \in Entries(ttl), EntryOK(u, e, n)
  PROVE  Aged(e) \in Entries(ttl) /\ EntryOK(u, Aged(e), n)'
<1>1. CASE e = NoEntry
  <2>1. Aged(e) = NoEntry
    BY <1>1 DEF Aged, NoEntry
  <2> QED
    BY <2>1 DEF Entries, EntryOK, NoEntry, Aged
<1>2. CASE e # NoEntry
  <2>1. /\ e.ver \in Versions /\ e.left \in 1 .. ttl /\ Within(u, e.ver, n - e.left)
        /\ e \in [ver : Versions, left : 1 .. ttl]
    BY <1>2, EntryThere DEF EntryOK, Entries
  <2>2. CASE e.left > 1
    <3>1. PICK f \in [ver : Versions, left : 1 .. ttl] :
            f.ver = e.ver /\ f.left = e.left - 1 /\ Aged(e) = f
      <4>1. Aged(e) = [e EXCEPT !.left = e.left - 1]
        BY <2>2 DEF Aged
      <4>2. e.left - 1 \in 1 .. ttl
        BY <2>1, <2>2
      <4> QED
        BY <2>1, <4>1, <4>2
    <3>2. Within(u, e.ver, (n - e.left) + 1)'
      <4>1. n - e.left \in Int
        BY <2>1
      <4> QED
        BY <2>1, <4>1, TickAges
    <3>3. (n - e.left) + 1 = n - f.left
      BY <2>1, <3>1
    <3>4. Within(u, f.ver, n - f.left)'
      BY <3>1, <3>2, <3>3
    <3>5. EntryOK(u, f, n)'
      BY <3>4 DEF EntryOK
    <3> QED
      BY <3>1, <3>5 DEF Entries, Aged, NoEntry
  <2>3. CASE ~(e.left > 1)
    <3>1. Aged(e) = NoEntry
      BY <2>3 DEF Aged
    <3> QED
      BY <3>1 DEF Entries, EntryOK, NoEntry, Aged
  <2> QED
    BY <2>2, <2>3
<1> QED
  BY <1>1, <1>2

(* A tick of the clock.                                                        *)
LEMMA TickKept ==
  ASSUME CacheInv, ClockTick
  PROVE  CacheInv'
<1>t. /\ RedisTTL \in Nat \ {0} /\ LocalTTL \in Nat \ {0} /\ MaxVersion \in Nat
      /\ Oldest \in Int /\ MaxAge \in Nat /\ RedisTTL + 1 \in Int
  BY TimesAssumption DEF Oldest, MaxAge
<1>u. UNCHANGED <<version, deleted, reading, who, got>> /\ slow = {}
  BY DEF ClockTick
<1>1. ASSUME NEW u \in Users
      PROVE  /\ redis'[u] \in Entries(RedisTTL) /\ local'[u] \in Entries(LocalTTL)
             /\ (EntryOK(u, redis[u], RedisTTL + 1) /\ EntryOK(u, local[u], Oldest))'
  <2>1. /\ EntryOK(u, redis[u], RedisTTL + 1) /\ EntryOK(u, local[u], RedisTTL + LocalTTL + 1)
        /\ redis[u] \in Entries(RedisTTL) /\ local[u] \in Entries(LocalTTL)
    BY DEF CacheInv, CacheTypes, EntriesOK, Oldest
  <2>2. redis'[u] = Aged(redis[u]) /\ local'[u] = Aged(local[u])
    BY DEF ClockTick
  <2>3. PICK r \in Entries(RedisTTL), l \in Entries(LocalTTL) :
          r = redis[u] /\ l = local[u]
    BY <2>1
  <2>4. Aged(r) \in Entries(RedisTTL) /\ EntryOK(u, Aged(r), RedisTTL + 1)'
    BY <1>t, <2>1, <2>3, AgedOK
  <2>5. /\ Aged(l) \in Entries(LocalTTL)
        /\ EntryOK(u, Aged(l), RedisTTL + LocalTTL + 1)'
    <3>1. RedisTTL + LocalTTL + 1 \in Int
      BY <1>t
    <3> QED
      BY <1>t, <2>1, <2>3, <3>1, AgedOK
  <2>6. PICK x, y : x = Aged(r) /\ y = Aged(l)
    OBVIOUS
  <2>7. EntryOK(u, x, RedisTTL + 1)' /\ EntryOK(u, y, RedisTTL + LocalTTL + 1)'
    BY <2>4, <2>5, <2>6 DEF Aged, NoEntry
  <2>8. redis'[u] = x /\ local'[u] = y
    BY <2>2, <2>3, <2>6
  <2> QED
    BY <2>4, <2>5, <2>6, <2>7, <2>8 DEF Oldest
<1>2. age' \in [Users -> [Versions -> 0 .. MaxAge]]
  BY <1>t DEF ClockTick, CacheInv, CacheTypes
<1>3. CacheTypes'
  <2>1. /\ redis' \in [Users -> Entries(RedisTTL)]
        /\ local' \in [Users -> Entries(LocalTTL)]
    BY <1>1 DEF ClockTick
  <2>2. slow' \subseteq Readers
    BY DEF ClockTick
  <2> QED
    BY <1>u, <1>2, <2>1, <2>2 DEF CacheInv, CacheTypes, Versions, MaxAge,
      Oldest, Entries, NoEntry
<1>4. ASSUME NEW p \in Readers PROVE ReadOK(p)'
  <2>1. ReadOK(p) /\ Late(p) = 0
    BY <1>u DEF CacheInv, Late
  <2>2. CASE reading[p] = "idle"
    <3>1. p \notin slow'
      BY <2>2 DEF ClockTick, At
    <3> QED
      BY <1>u, <2>2, <3>1 DEF ReadOK
  <2>3. CASE reading[p] # "idle"
    <3>1. Late(p)' = 1
      BY <2>3 DEF ClockTick, At, Late
    <3>2. PICK u \in Users : u = who[p]
      BY <2>1, <2>3 DEF ReadOK
    <3>3. ASSUME NEW n \in Int, Within(u, got[p], n) PROVE Within(u, got[p], n + 1)'
      <4>1. PICK v : v = got[p]
        OBVIOUS
      <4>2. Within(u, v, n + 1)'
        BY <3>3, <4>1, TickAges
      <4> QED
        BY <1>u, <4>1, <4>2
    <3>4. reading[p] \in {"setLocal", "setRedis"} => Within(u, got[p], 0 + 1)'
      BY <2>1, <3>2, <3>3 DEF ReadOK
    <3>5. reading[p] = "keep" => Within(u, got[p], RedisTTL + 1)'
      <4>1. reading[p] = "keep" => Within(u, got[p], RedisTTL)
        BY <1>t, <2>1, <3>2 DEF ReadOK
      <4> QED
        BY <1>t, <3>3, <4>1
    <3>6. reading[p] = "served" => Within(u, got[p], (RedisTTL + LocalTTL) + 1)'
      <4>1. reading[p] = "served" => Within(u, got[p], RedisTTL + LocalTTL)
        BY <1>t, <2>1, <3>2 DEF ReadOK
      <4> QED
        BY <1>t, <3>3, <4>1
    <3>7. version'[u] > 0 /\ u = who'[p] /\ reading'[p] = reading[p]
      BY <1>u, <2>1, <2>3, <3>2 DEF ReadOK
    <3> QED
      BY <2>3, <3>1, <3>2, <3>4, <3>5, <3>6, <3>7 DEF ReadOK
  <2> QED
    BY <2>2, <2>3
<1>5. \A u \in Users : \A v \in Versions : v >= version'[u] => age'[u][v] = 0
  BY <1>u DEF ClockTick, CacheInv, CacheTypes, Versions
<1>6. PlaceTypes'
  BY <1>u DEF CacheInv, PlaceTypes, Nobody
<1>7. EntriesOK(redis, local)'
  BY <1>1 DEF EntriesOK, Oldest
<1> QED
  BY <1>3, <1>4, <1>5, <1>6, <1>7 DEF CacheInv, Versions

(* The invariant holds at first, ...                                           *)
LEMMA CacheInvInit == ASSUME CacheInit PROVE CacheInv
<1> USE DEF CacheInit
<1>t. RedisTTL \in Nat /\ LocalTTL \in Nat /\ MaxVersion \in Nat /\ MaxAge \in Nat
  BY TimesAssumption DEF MaxAge, Oldest
<1>1. CacheTypes
  BY <1>t DEF CacheTypes, Entries
<1>2. PlaceTypes
  BY <1>t DEF PlaceTypes
<1>3. EntriesOK(redis, local)
  BY DEF EntriesOK, EntryOK
<1>4. \A p \in Readers : ReadOK(p)
  BY DEF ReadOK
<1> QED
  BY <1>1, <1>2, <1>3, <1>4 DEF CacheInv

(* ... and no step breaks it.                                                  *)
LEMMA CacheInvNext == ASSUME CacheInv, [CacheNext]_(cacheVars) PROVE CacheInv'
<1>1. ASSUME NEW p \in Readers, Reply(p) PROVE CacheInv'
  BY <1>1, GetKept, LocalKept, RedisKept, ReadsKept DEF Reply
<1>2. ASSUME NEW p \in Readers, GetAuthenticatedUser(p) \/ GetActorProfile(p)
      PROVE  CacheInv'
  BY <1>2, SessionsKept
<1> QED
  BY <1>1, <1>2, DatabaseKept, EvictKept, TickKept DEF CacheNext

(* Every run keeps the invariant.                                              *)
THEOREM CacheInvariant == CacheSpec => []CacheInv
<1>1. CacheInit => CacheInv
  BY CacheInvInit
<1>2. CacheInv /\ [CacheNext]_(cacheVars) => CacheInv'
  BY CacheInvNext
<1> QED
  BY <1>1, <1>2, PTL DEF CacheSpec

(* Every variable has its type, and only what once was in the database is      *)
(* cached or answered.                                                         *)
THEOREM CacheTyped == CacheSpec => []CacheTypeOK
<1>1. CacheInv => CacheTypeOK
  <2> SUFFICES ASSUME CacheInv, NEW u \in Users
               PROVE  redis[u].ver <= version[u] /\ local[u].ver <= version[u]
    BY DEF CacheInv, CacheTypes, PlaceTypes, CacheTypeOK
  <2>1. /\ EntryOK(u, redis[u], RedisTTL + 1) /\ EntryOK(u, local[u], Oldest)
        /\ version[u] \in Nat
    BY DEF CacheInv, CacheTypes, EntriesOK
  <2> QED
    BY <2>1 DEF EntryOK, Within, NoEntry
<1> QED
  BY <1>1, CacheInvariant, PTL

(* A profile that was changed is answered for a life in Redis, a local life    *)
(* and a tick at most, however requests refill the caches.                     *)
THEOREM StalenessIsBounded == CacheSpec => []StaleBound
<1>1. CacheInv => StaleBound
  <2> SUFFICES ASSUME CacheInv, NEW p \in Readers, reading[p] = "served", got[p] < version[who[p]]
               PROVE  age[who[p]][got[p]] <= Oldest
    BY DEF StaleBound, At
  <2>1. /\ Within(who[p], got[p], RedisTTL + LocalTTL + Late(p)) /\ Late(p) \in {0, 1}
        /\ who[p] \in Users
    BY DEF CacheInv, ReadOK, Late
  <2>2. age[who[p]][got[p]] \in Int
    BY <2>1, TimesAssumption DEF Within, CacheInv, CacheTypes, MaxAge, Oldest
  <2> QED
    BY <2>1, <2>2, TimesAssumption DEF Within, Oldest
<1> QED
  BY <1>1, CacheInvariant, PTL
===============================================================================
