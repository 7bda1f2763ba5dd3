------------------------------- MODULE KeyCache -------------------------------
(* The key manager (user_service/internal/keymgr): the actors' signing keys,   *)
(* stored encrypted in S3 and decrypted by KMS into two expiring in-memory     *)
(* caches that sessions fill (UpdateKeyCache), commits read (SignForActor),    *)
(* logouts empty (InvalidateKeys) and a cleanup goroutine sweeps. No lock is   *)
(* held over the KMS and S3 calls, so requests, sweeps and the shutdown of the *)
(* process interleave between the steps of one call.                           *)
(*                                                                             *)
(* Time is counted in ticks. A cached key is represented by its expiresAt;     *)
(* there is one key per DID, so its bytes are not modelled. Decoding the       *)
(* decrypted key (signKeyCache.add) does not fail: KMS authenticates it.       *)
EXTENDS Naturals

CONSTANTS Procs,        \* goroutines serving requests
          Dids,
          EncTimeout,   \* sessionTimeout of the encrypted keys: RefreshExpiry
          SignTimeout,  \* of the signing keys: AccessExpiry less five minutes
          Period,       \* of the cleanup ticker: five minutes
          MaxTime       \* bound on the clock

NoDid == "none"

ASSUME TimeAssumption ==
  /\ EncTimeout \in Nat /\ SignTimeout \in Nat \ {0} /\ Period \in Nat \ {0}
  /\ SignTimeout <= EncTimeout
  /\ MaxTime \in Nat

ASSUME DidsAssumption == NoDid \notin Dids

VARIABLES
  stored,     \* DIDs whose encrypted key is in S3
  ek, sk,     \* the two caches: expiresAt of each DID's entry, Absent without one
  open,       \* the caches are there: Stop sets both pointers to nil
  rlocked,    \* a panicking Has left mu read-locked for ever
  shutdown,   \* shutdownRequested, and stopCh closed
  cleaner,    \* the cleanup goroutine
  now, nextSweep,
  pc, did, kind,  \* per request: program point, the DID, what was called
  quiet       \* for the properties: DIDs logged out with no load under way since

service == <<open, rlocked, shutdown>>
clock == <<now, nextSweep>>
requests == <<pc, did, kind>>
vars == <<stored, ek, sk, service, cleaner, clock, requests, quiet>>

Absent == 0
Kinds == {"create", "refresh", "sign", "logout"}
Loading == {"has", "rekey", "fetch", "decrypt", "add"}   \* may still fill the caches
Points == Loading \cup {"idle", "write", "sign", "remove"}

Goto(p, point) == pc' = [pc EXCEPT ![p] = point]

Init ==
  /\ stored = {}
  /\ ek = [d \in Dids |-> Absent] /\ sk = [d \in Dids |-> Absent]
  /\ open = TRUE /\ rlocked = FALSE /\ shutdown = FALSE
  /\ cleaner = "wait"
  /\ now = 0 /\ nextSweep = Period
  /\ pc = [p \in Procs |-> "idle"]
  /\ did = [p \in Procs |-> NoDid]
  /\ kind = [p \in Procs |-> "refresh"]
  /\ quiet = {}

-------------------------------------------------------------------------------
(* The call returns, with or without an error, or panics in a handler, which   *)
(* http.TimeoutHandler recovers.                                               *)
Return(p) ==
  /\ Goto(p, "idle")
  /\ did' = [did EXCEPT ![p] = NoDid]
  /\ UNCHANGED kind

(* UpdateKeyCache is done: SignForActor goes on to sign, the others return.    *)
KeyCached(p) ==
  IF kind[p] = "sign" THEN Goto(p, "sign") /\ UNCHANGED <<did, kind>>
                      ELSE Return(p)

Begin(p, k, d) ==
  /\ pc[p] = "idle" /\ ~shutdown
  /\ k = "create" => d \notin stored
  /\ Goto(p, CASE k = "create" -> "write"
               [] k = "logout" -> "remove"
               [] OTHER -> "has")
  /\ did' = [did EXCEPT ![p] = d]
  /\ kind' = [kind EXCEPT ![p] = k]
  /\ quiet' = IF k \in {"refresh", "sign"} THEN quiet \ {d} ELSE quiet
  /\ UNCHANGED <<stored, ek, sk, service, cleaner, clock>>

(* CreateEncryptedKey: encrypt, then PutObject; the cache is not touched. On   *)
(* an error the key may be in S3 or not.                                       *)
CreateEncryptedKey(p) ==
  /\ pc[p] = "write"
  /\ stored' = stored \cup {did[p]} \/ UNCHANGED stored
  /\ Return(p)
  /\ UNCHANGED <<ek, sk, service, cleaner, clock, quiet>>

(* Has: a snapshot of both caches under the read lock. On nil caches it panics *)
(* before it unlocks.                                                          *)
Has(p) ==
  /\ pc[p] = "has"
  /\ IF ~open THEN rlocked' = TRUE /\ Return(p)
     ELSE /\ UNCHANGED rlocked
          /\ IF sk[did[p]] # Absent THEN KeyCached(p)
             ELSE /\ Goto(p, IF ek[did[p]] # Absent THEN "rekey" ELSE "fetch")
                  /\ UNCHANGED <<did, kind>>
  /\ UNCHANGED <<stored, ek, sk, open, shutdown, cleaner, clock, quiet>>

(* Has calls Set with the encrypted key it saw: KMS decrypts it, or Has        *)
(* answers false.                                                              *)
Rekey(p) ==
  /\ pc[p] = "rekey"
  /\ Goto(p, "add") \/ Goto(p, "fetch")
  /\ UNCHANGED <<stored, ek, sk, service, cleaner, clock, did, kind, quiet>>

(* store.GetKey.                                                               *)
GetKey(p) ==
  /\ pc[p] = "fetch"
  /\ \/ did[p] \in stored /\ Goto(p, "decrypt") /\ UNCHANGED <<did, kind>>
     \/ Return(p)
  /\ UNCHANGED <<stored, ek, sk, service, cleaner, clock, quiet>>

(* Set, called by UpdateKeyCache: KMS decrypts the key.                        *)
Decrypt(p) ==
  /\ pc[p] = "decrypt"
  /\ \/ Goto(p, "add") /\ UNCHANGED <<did, kind>>
     \/ Return(p)
  /\ UNCHANGED <<stored, ek, sk, service, cleaner, clock, quiet>>

(* Mutant: only the signing key is renewed, the encrypted one keeps its expiry.*)
AddSigning(p) ==
  /\ pc[p] = "add" /\ ~rlocked
  /\ IF open
       THEN /\ ek' = [ek EXCEPT ![did[p]] = IF @ = Absent THEN now + EncTimeout ELSE @]
            /\ sk' = [sk EXCEPT ![did[p]] = now + SignTimeout]
            /\ KeyCached(p)
       ELSE UNCHANGED <<ek, sk>> /\ Return(p)
  /\ UNCHANGED <<stored, service, cleaner, clock, quiet>>

(* Mutant: Stop empties the caches but leaves them in place.                   *)
AddAlways(p) ==
  /\ pc[p] = "add" /\ ~rlocked
  /\ ek' = [ek EXCEPT ![did[p]] = now + EncTimeout]
  /\ sk' = [sk EXCEPT ![did[p]] = now + SignTimeout]
  /\ KeyCached(p)
  /\ UNCHANGED <<stored, service, cleaner, clock, quiet>>

(* The rest of Set, under mu: both caches get the key, or nil caches panic.    *)
Add(p) ==
  /\ pc[p] = "add" /\ ~rlocked
  /\ IF open
       THEN /\ ek' = [ek EXCEPT ![did[p]] = now + EncTimeout]
            /\ sk' = [sk EXCEPT ![did[p]] = now + SignTimeout]
            /\ KeyCached(p)
       ELSE UNCHANGED <<ek, sk>> /\ Return(p)
  /\ UNCHANGED <<stored, service, cleaner, clock, quiet>>

(* repoKeyCache.Sign: signs, fails without a key, or panics on a nil cache.    *)
Sign(p) ==
  /\ pc[p] = "sign"
  /\ Return(p)
  /\ UNCHANGED <<stored, ek, sk, service, cleaner, clock, quiet>>

LoadUnderWay(d) == \E p \in Procs : did[p] = d /\ pc[p] \in Loading

(* Mutant: the signing key is wiped first, and its error ends the call.        *)
RemoveSigningFirst(p) ==
  /\ pc[p] = "remove" /\ ~rlocked
  /\ IF open THEN /\ ek' = [ek EXCEPT ![did[p]] = IF sk[did[p]] = Absent THEN @ ELSE Absent]
                  /\ sk' = [sk EXCEPT ![did[p]] = Absent]
                  /\ quiet' = IF LoadUnderWay(did[p]) THEN quiet ELSE quiet \cup {did[p]}
             ELSE UNCHANGED <<ek, sk, quiet>>
  /\ Return(p)
  /\ UNCHANGED <<stored, service, cleaner, clock>>

(* Remove, under mu; a signing key that is not there is only logged.           *)
Remove(p) ==
  /\ pc[p] = "remove" /\ ~rlocked
  /\ IF open THEN /\ ek' = [ek EXCEPT ![did[p]] = Absent]
                  /\ sk' = [sk EXCEPT ![did[p]] = Absent]
                  /\ quiet' = IF LoadUnderWay(did[p]) THEN quiet ELSE quiet \cup {did[p]}
             ELSE UNCHANGED <<ek, sk, quiet>>
  /\ Return(p)
  /\ UNCHANGED <<stored, service, cleaner, clock>>

-------------------------------------------------------------------------------
(* cleanupExpiredKeys: the ticker fires and the flag is read outside mu.       *)
TickerFires ==
  /\ cleaner = "wait" /\ now >= nextSweep
  /\ nextSweep' = nextSweep + Period
  /\ cleaner' = IF shutdown THEN "stopped" ELSE "locking"
  /\ UNCHANGED <<stored, ek, sk, service, now, requests, quiet>>

Expired(cache, d) == cache[d] # Absent /\ now > cache[d]

(* Mutant: a sweep looks at the encrypted keys only.                           *)
SweepEncrypted ==
  /\ cleaner = "locking" /\ ~rlocked
  /\ IF ~open THEN cleaner' = "panicked" /\ UNCHANGED <<ek, sk>>
     ELSE /\ ek' = [d \in Dids |-> IF Expired(ek, d) THEN Absent ELSE ek[d]]
          /\ sk' = [d \in Dids |-> IF Expired(ek, d) THEN Absent ELSE sk[d]]
          /\ cleaner' = IF shutdown THEN "stopped" ELSE "wait"
  /\ UNCHANGED <<stored, service, clock, requests, quiet>>

(* Its two loops, under mu: an expired encrypted key goes with its signing     *)
(* key; a shutdown requested meanwhile skips the loop over the signing keys.   *)
(* Stop may have taken mu first: the nil cache ends the process.               *)
Sweep ==
  /\ cleaner = "locking" /\ ~rlocked
  /\ IF ~open THEN cleaner' = "panicked" /\ UNCHANGED <<ek, sk>>
     ELSE /\ ek' = [d \in Dids |-> IF Expired(ek, d) THEN Absent ELSE ek[d]]
          /\ sk' = [d \in Dids |-> IF Expired(ek, d) \/ (~shutdown /\ Expired(sk, d))
                                     THEN Absent ELSE sk[d]]
          /\ cleaner' = IF shutdown THEN "stopped" ELSE "wait"
  /\ UNCHANGED <<stored, service, clock, requests, quiet>>

(* Stop: the flag and stopCh first, the caches under mu afterwards.            *)
RequestStop ==
  /\ ~shutdown
  /\ shutdown' = TRUE
  /\ UNCHANGED <<stored, ek, sk, open, rlocked, cleaner, clock, requests, quiet>>

WipeAll ==
  /\ shutdown /\ open
  /\ ek' = [d \in Dids |-> Absent] /\ sk' = [d \in Dids |-> Absent]
  /\ open' = FALSE
  /\ UNCHANGED <<stored, rlocked, shutdown, cleaner, clock, requests, quiet>>

CleanerStops ==
  /\ shutdown /\ cleaner = "wait"
  /\ cleaner' = "stopped"
  /\ UNCHANGED <<stored, ek, sk, service, clock, requests, quiet>>

(* The process ends, at any moment, and is started again.                      *)
Restart ==
  /\ ek' = [d \in Dids |-> Absent] /\ sk' = [d \in Dids |-> Absent]
  /\ open' = TRUE /\ rlocked' = FALSE /\ shutdown' = FALSE
  /\ cleaner' = "wait"
  /\ nextSweep' = now + Period
  /\ pc' = [p \in Procs |-> "idle"]
  /\ did' = [p \in Procs |-> NoDid]
  /\ UNCHANGED <<stored, now, kind, quiet>>

(* Time passes. A sweep that is due is served within its tick.                 *)
Tick ==
  /\ now < MaxTime
  /\ shutdown \/ (cleaner = "wait" /\ now < nextSweep)
  /\ now' = now + 1
  /\ UNCHANGED <<stored, ek, sk, service, cleaner, nextSweep, requests, quiet>>

Serve(p) ==
  \/ \E k \in Kinds, d \in Dids : Begin(p, k, d)
  \/ CreateEncryptedKey(p) \/ Has(p) \/ Rekey(p) \/ GetKey(p) \/ Decrypt(p)
  \/ Add(p) \/ Sign(p) \/ Remove(p)

Next ==
  \/ Restart
  \/ /\ cleaner # "panicked"
     /\ \/ \E p \in Procs : Serve(p)
        \/ TickerFires \/ Sweep \/ RequestStop \/ WipeAll \/ CleanerStops \/ Tick

Spec == Init /\ [][Next]_vars

-------------------------------------------------------------------------------
(* Every variable has its type.                                                *)
TypeOK ==
  /\ stored \subseteq Dids /\ quiet \subseteq Dids
  /\ ek \in [Dids -> Nat] /\ sk \in [Dids -> Nat]
  /\ open \in BOOLEAN /\ rlocked \in BOOLEAN /\ shutdown \in BOOLEAN
  /\ cleaner \in {"wait", "locking", "stopped", "panicked"}
  /\ now \in Nat /\ nextSweep \in Nat
  /\ pc \in [Procs -> Points]
  /\ did \in [Procs -> Dids \cup {NoDid}]
  /\ kind \in [Procs -> Kinds]
  /\ \A p \in Procs : pc[p] # "idle" => did[p] \in Dids

(* A signing key in memory never outlives the encrypted key it came from:      *)
(* sweeping an expired encrypted key, which drops the signing key with it,     *)
(* never drops one that a session has just renewed.                            *)
SigningWithinEncrypted ==
  \A d \in Dids : sk[d] # Absent => sk[d] <= ek[d]

(* While the process serves, no key stays in memory longer than its timeout    *)
(* and one period: AccessExpiry less five minutes, plus the five minutes of    *)
(* the ticker, is the life of the access token the key was loaded for.         *)
KeysDoNotLinger ==
  ~shutdown => \A d \in Dids : /\ sk[d] # Absent => now <= sk[d] + Period
                               /\ ek[d] # Absent => now <= ek[d] + Period

KeysExpire == SigningWithinEncrypted /\ KeysDoNotLinger

(* Once Stop has wiped the caches no key comes back, whatever calls were still *)
(* between their KMS request and their cache update.                           *)
StopForgets == ~open => \A d \in Dids : ek[d] = Absent /\ sk[d] = Absent

(* After a logout neither key is in memory until someone loads it again, if no *)
(* load was under way when it came: also when the signing key had expired and  *)
(* only the encrypted one was left.                                            *)
LogoutForgets == \A d \in quiet : ek[d] = Absent /\ sk[d] = Absent

KeysAreForgotten == StopForgets /\ LogoutForgets
===============================================================================
