------------------------------- MODULE Accounts -------------------------------
(* The life of an account in the user service: sign-up, log-in, renaming and   *)
(* deletion of users, creation, renaming and deletion of legislators by the    *)
(* system user, and the creation of that system user itself. Every handler is  *)
(* a sequence of calls to stores that share no transaction - the PLC           *)
(* directory, the S3 key store, Postgres, the actor's repo, the AWS secret -   *)
(* and gives up at the first error. A call fails with or without having taken  *)
(* effect, which covers a crash, a cancelled context and a lost answer.        *)
(*                                                                             *)
(* Left out: passwords, display names and profile records. A repo is there or  *)
(* not (CarStore has its inside), a key is in S3 or not (KeyCache has its use).*)
EXTENDS Naturals

CONSTANTS Procs,      \* requests being served
          Dids,
          Handles, SysHandle,   \* SysHandle is that of SystemUserConfig
          Idents, SysIdent      \* emails of users, ids of legislators

NoDid == "no did"
Blank == [kind |-> "none", handle |-> "none", ident |-> "none"]

ASSUME NamesAssumption ==
  SysHandle \in Handles /\ SysIdent \in Idents /\ NoDid \notin Dids

VARIABLES
  plc,        \* latest operation of each DID in the PLC directory
  keys,       \* DIDs whose encrypted signing key is in S3
  actors,     \* DIDs with rows in actors and in users or legislators
  row,        \* what those rows say: kind, handle and email or legislator id
  deletedActors, deletedProfiles,  \* DIDs whose row there has a deleted_at
  repos,      \* DIDs whose repo has shards
  secret,     \* the DID (and AID) in the system user's secret
  sessions,   \* DIDs for which somebody holds a token
  pc, did, form   \* per request: program point, its DID, the rows it is to write

stores == <<plc, keys, actors, row, deletedActors, deletedProfiles, repos>>
vars == <<stores, secret, sessions, pc, did, form>>

Kinds == {"user", "legislator", "system"}
Forms == [kind : Kinds, handle : Handles, ident : Idents]
Creating == {"key", "insert", "repo", "secret"}         \* with the DID it created
Deleting == {"takedown", "deleteActor", "deleteProfile"} \* past the tombstone
Points == {"idle", "handle", "handle2", "ident", "plc", "login", "tombstone",
           "rehandle", "update"} \cup Creating \cup Deleting

Init ==
  /\ plc = [d \in Dids |-> "none"]
  /\ keys = {} /\ actors = {} /\ repos = {} /\ sessions = {}
  /\ row = [d \in Dids |-> Blank]
  /\ deletedActors = {} /\ deletedProfiles = {}
  /\ secret = NoDid
  /\ pc = [p \in Procs |-> "idle"]
  /\ did = [p \in Procs |-> NoDid]
  /\ form = [p \in Procs |-> Blank]

-------------------------------------------------------------------------------
Request(p, point, d, f) ==
  /\ pc[p] = "idle"
  /\ pc' = [pc EXCEPT ![p] = point]
  /\ did' = [did EXCEPT ![p] = d]
  /\ form' = [form EXCEPT ![p] = f]

Goto(p, point) ==
  /\ pc' = [pc EXCEPT ![p] = point]
  /\ UNCHANGED <<did, form>>

Return(p) ==
  /\ pc' = [pc EXCEPT ![p] = "idle"]
  /\ did' = [did EXCEPT ![p] = NoDid]
  /\ form' = [form EXCEPT ![p] = Blank]

(* recordExists on actors.handle, which has no deleted_at filter: a deleted    *)
(* account keeps its handle (DeleteActor's empty Handle is an omitted column). *)
HandleFree(h) == \A d \in actors : row[d].handle # h

(* recordExists on actors.email or legislators.legislator_id.                  *)
IdentFree(f) ==
  \A d \in actors :
    row[d].ident = f.ident => (row[d].kind = "legislator") # (f.kind = "legislator")

-------------------------------------------------------------------------------
(* handleCreateUser.                                                           *)
CreateUser(p) ==
  /\ \E f \in Forms : f.kind = "user" /\ Request(p, "handle", NoDid, f)
  /\ UNCHANGED <<stores, secret, sessions>>

(* handleCreateLegislator, behind AuthorizeSystem.                             *)
CreateLegislator(p) ==
  /\ secret # NoDid
  /\ \E f \in Forms : f.kind = "legislator" /\ Request(p, "handle", NoDid, f)
  /\ UNCHANGED <<stores, secret, sessions>>

(* AuthorizeSystem found no user in the secret; nothing is validated. The call *)
(* it was made for is a request of its own, after this one.                    *)
EnsureSystemUserExists(p) ==
  /\ secret = NoDid
  /\ Request(p, "plc", NoDid, [kind |-> "system", handle |-> SysHandle, ident |-> SysIdent])
  /\ UNCHANGED <<stores, secret, sessions>>

(* A legislator's second handle is tried when the first is refused.            *)
ValidateHandle(p) ==
  /\ pc[p] \in {"handle", "handle2"}
  /\ \/ HandleFree(form[p].handle) /\ Goto(p, "ident")
     \/ /\ pc[p] = "handle" /\ form[p].kind = "legislator"
        /\ \E h \in Handles \ {form[p].handle} :
             form' = [form EXCEPT ![p].handle = h]
        /\ pc' = [pc EXCEPT ![p] = "handle2"]
        /\ UNCHANGED did
     \/ (pc[p] = "handle" => form[p].kind # "legislator") /\ Return(p)
  /\ UNCHANGED <<stores, secret, sessions>>

(* ResolveNewUser, ResolveNewLegislator.                                       *)
ResolveNew(p) ==
  /\ pc[p] = "ident"
  /\ (IdentFree(form[p]) /\ Goto(p, "plc")) \/ Return(p)
  /\ UNCHANGED <<stores, secret, sessions>>

(* The DID is the hash of an operation with a fresh key: nobody has had it.    *)
CreateDID(p) ==
  /\ pc[p] = "plc"
  /\ \/ \E d \in Dids :
          /\ plc[d] = "none"
          /\ plc' = [plc EXCEPT ![d] = "operation"]
          /\ \/ /\ pc' = [pc EXCEPT ![p] = "key"]
                /\ did' = [did EXCEPT ![p] = d]
                /\ UNCHANGED form
             \/ Return(p)
     \/ UNCHANGED plc /\ Return(p)
  /\ UNCHANGED <<keys, actors, row, deletedActors, deletedProfiles, repos, secret, sessions>>

(* Mutant: an error of the key store is only logged.                           *)
CreateEncryptedKeyUnchecked(p) ==
  /\ pc[p] = "key"
  /\ keys' = keys \cup {did[p]} \/ UNCHANGED keys
  /\ Goto(p, "insert")
  /\ UNCHANGED <<plc, actors, row, deletedActors, deletedProfiles, repos, secret, sessions>>

CreateEncryptedKey(p) ==
  /\ pc[p] = "key"
  /\ \/ keys' = keys \cup {did[p]} /\ (Goto(p, "insert") \/ Return(p))
     \/ UNCHANGED keys /\ Return(p)
  /\ UNCHANGED <<plc, actors, row, deletedActors, deletedProfiles, repos, secret, sessions>>

(* The unique indexes: actors.handle and legislator.legislator_id; there is    *)
(* none on actors.email.                                                       *)
Insertable(f) ==
  /\ HandleFree(f.handle)
  /\ f.kind = "legislator" => IdentFree(f)

(* insertActorAndUserRecords, insertActorAndLegislatorRecords: one transaction.*)
InsertRecords(p) ==
  /\ pc[p] = "insert"
  /\ \/ /\ Insertable(form[p])
        /\ actors' = actors \cup {did[p]}
        /\ row' = [row EXCEPT ![did[p]] = form[p]]
        /\ Goto(p, "repo") \/ Return(p)
     \/ UNCHANGED <<actors, row>> /\ Return(p)
  /\ UNCHANGED <<plc, keys, deletedActors, deletedProfiles, repos, secret, sessions>>

(* Mutant: the system user's repo is best effort.                              *)
InitNewRepoBestEffort(p) ==
  /\ pc[p] = "repo"
  /\ repos' = repos \cup {did[p]} \/ UNCHANGED repos
  /\ IF form[p].kind = "system" THEN Goto(p, "secret") /\ UNCHANGED sessions
     ELSE /\ Return(p)
          /\ sessions' = IF form[p].kind = "user" THEN sessions \cup {did[p]} ELSE sessions
  /\ UNCHANGED <<plc, keys, actors, row, deletedActors, deletedProfiles, secret>>

(* CreateNewUserRepo, CreateNewLegislatorRepo: the repo's first commit, signed *)
(* with the stored key; then a user's tokens (the system user's are dropped).  *)
InitNewRepo(p) ==
  /\ pc[p] = "repo"
  /\ \/ /\ did[p] \in keys
        /\ repos' = repos \cup {did[p]}
        /\ CASE form[p].kind = "user"       -> Return(p) /\ sessions' = sessions \cup {did[p]}
             [] form[p].kind = "legislator" -> Return(p) /\ UNCHANGED sessions
             [] OTHER                       -> Goto(p, "secret") /\ UNCHANGED sessions
     \/ /\ repos' = repos \cup {did[p]} \/ UNCHANGED repos
        /\ Return(p) /\ UNCHANGED sessions
  /\ UNCHANGED <<plc, keys, actors, row, deletedActors, deletedProfiles, secret>>

(* updateSystemApiKeySecret.                                                   *)
UpdateSecret(p) ==
  /\ pc[p] = "secret"
  /\ secret' = did[p] \/ UNCHANGED secret
  /\ Return(p)
  /\ UNCHANGED <<stores, sessions>>

-------------------------------------------------------------------------------
(* GetAuthenticatedUser: only users have a password; users row not looked at.  *)
Login(p) ==
  /\ \E d \in actors \ deletedActors :
       row[d].kind = "user" /\ Request(p, "login", d, Blank)
  /\ UNCHANGED <<stores, secret, sessions>>

(* UpdateKeyCache has to find the key.                                         *)
CreateSession(p) ==
  /\ pc[p] = "login"
  /\ \/ did[p] \in keys /\ sessions' = sessions \cup {did[p]}
     \/ UNCHANGED sessions
  /\ Return(p)
  /\ UNCHANGED <<stores, secret>>

(* RefreshSession asks for the key, AuthenticateSession for the row, deleted   *)
(* or not: a client that refreshes in time keeps its session.                  *)
Refreshable(d) == d \in keys /\ d \in actors

(* The refresh token expires.                                                  *)
SessionEnds(d) ==
  /\ d \in sessions
  /\ sessions' = sessions \ {d}
  /\ UNCHANGED <<stores, secret, pc, did, form>>

-------------------------------------------------------------------------------
(* What the system may work on: a legislator that GetLegislator and            *)
(* GetDidForAid find.                                                          *)
Legislators ==
  {d \in actors \ (deletedActors \cup deletedProfiles) : row[d].kind = "legislator"}

(* GetLatestOp must not be a tombstone.                                        *)
StartDeletion(p, d) == plc[d] = "operation" /\ Request(p, "tombstone", d, Blank)

(* handleDeleteUser, whose token may have outlived the account.                *)
DeleteUser(p) ==
  /\ \E d \in sessions : StartDeletion(p, d)
  /\ UNCHANGED <<stores, secret, sessions>>

(* handleDeleteLegislator.                                                     *)
DeleteLegislator(p) ==
  /\ secret # NoDid
  /\ \E d \in Legislators : StartDeletion(p, d)
  /\ UNCHANGED <<stores, secret, sessions>>

(* Mutant: any tombstone is as good as this request's.                         *)
TombstoneAgain(p) ==
  /\ pc[p] = "tombstone"
  /\ \/ /\ plc' = [plc EXCEPT ![did[p]] = "tombstone"]
        /\ Goto(p, "takedown") \/ Return(p)
     \/ UNCHANGED plc /\ Return(p)
  /\ UNCHANGED <<keys, actors, row, deletedActors, deletedProfiles, repos, secret, sessions>>

(* The directory accepts it after the operation it names as its prev.          *)
TombstoneDID(p) ==
  /\ pc[p] = "tombstone"
  /\ \/ /\ plc[did[p]] = "operation"
        /\ plc' = [plc EXCEPT ![did[p]] = "tombstone"]
        /\ Goto(p, "takedown") \/ Return(p)
     \/ UNCHANGED plc /\ Return(p)
  /\ UNCHANGED <<keys, actors, row, deletedActors, deletedProfiles, repos, secret, sessions>>

TakeDownRepo(p) ==
  /\ pc[p] = "takedown"
  /\ \/ repos' = repos \ {did[p]} /\ (Goto(p, "deleteActor") \/ Return(p))
     \/ UNCHANGED repos /\ Return(p)
  /\ UNCHANGED <<plc, keys, actors, row, deletedActors, deletedProfiles, secret, sessions>>

(* View.DeleteActor.                                                           *)
DeleteActor(p) ==
  /\ pc[p] = "deleteActor"
  /\ \/ /\ deletedActors' = deletedActors \cup {did[p]}
        /\ Goto(p, "deleteProfile") \/ Return(p)
     \/ UNCHANGED deletedActors /\ Return(p)
  /\ UNCHANGED <<plc, keys, actors, row, deletedProfiles, repos, secret, sessions>>

(* View.DeleteUser, View.DeleteLegislator.                                     *)
DeleteProfile(p) ==
  /\ pc[p] = "deleteProfile"
  /\ deletedProfiles' = deletedProfiles \cup {did[p]} \/ UNCHANGED deletedProfiles
  /\ Return(p)
  /\ UNCHANGED <<plc, keys, actors, row, deletedActors, repos, secret, sessions>>

-------------------------------------------------------------------------------
(* handleUpdateUserProfile with a new handle.                                  *)
RenameUser(p) ==
  /\ \E d \in sessions, h \in Handles :
       Request(p, "rehandle", d, [row[d] EXCEPT !.handle = h])
  /\ UNCHANGED <<stores, secret, sessions>>

(* handleUpdateLegislator: it reads and writes the profile record first.       *)
RenameLegislator(p) ==
  /\ secret # NoDid
  /\ \E d \in Legislators \cap repos, h \in Handles :
       Request(p, "rehandle", d, [row[d] EXCEPT !.handle = h])
  /\ UNCHANGED <<stores, secret, sessions>>

RevalidateHandle(p) ==
  /\ pc[p] = "rehandle"
  /\ (HandleFree(form[p].handle) /\ Goto(p, "update")) \/ Return(p)
  /\ UNCHANGED <<stores, secret, sessions>>

(* By id, deleted or not; the unique index decides.                            *)
UpdateHandle(p) ==
  /\ pc[p] = "update"
  /\ \/ /\ HandleFree(form[p].handle)
        /\ row' = [row EXCEPT ![did[p]].handle = form[p].handle]
     \/ UNCHANGED row
  /\ Return(p)
  /\ UNCHANGED <<plc, keys, actors, deletedActors, deletedProfiles, repos, secret, sessions>>

Serve(p) ==
  \/ CreateUser(p) \/ CreateLegislator(p) \/ EnsureSystemUserExists(p)
  \/ ValidateHandle(p) \/ ResolveNew(p) \/ CreateDID(p) \/ CreateEncryptedKey(p)
  \/ InsertRecords(p) \/ InitNewRepo(p) \/ UpdateSecret(p)
  \/ Login(p) \/ CreateSession(p)
  \/ DeleteUser(p) \/ DeleteLegislator(p) \/ TombstoneDID(p) \/ TakeDownRepo(p)
  \/ DeleteActor(p) \/ DeleteProfile(p)
  \/ RenameUser(p) \/ RenameLegislator(p) \/ RevalidateHandle(p) \/ UpdateHandle(p)

Next ==
  \/ \E p \in Procs : Serve(p)
  \/ \E d \in Dids : SessionEnds(d)

Spec == Init /\ [][Next]_vars

-------------------------------------------------------------------------------
(* Every variable has its type, and a request that needs a DID has one.        *)
TypeOK ==
  /\ plc \in [Dids -> {"none", "operation", "tombstone"}]
  /\ keys \subseteq Dids /\ actors \subseteq Dids /\ repos \subseteq Dids
  /\ sessions \subseteq Dids
  /\ deletedActors \subseteq Dids /\ deletedProfiles \subseteq Dids
  /\ row \in [Dids -> Forms \cup {Blank}]
  /\ secret \in Dids \cup {NoDid}
  /\ pc \in [Procs -> Points]
  /\ did \in [Procs -> Dids \cup {NoDid}]
  /\ form \in [Procs -> Forms \cup {Blank}]
  /\ \A p \in Procs : /\ pc[p] \in Creating \cup Deleting => did[p] \in Dids
                      /\ pc[p] \in {"tombstone", "login", "update"} => did[p] \in Dids

(* An account that anyone can look up was registered with the directory and    *)
(* can sign: its key is stored, whatever failed on the way and however many    *)
(* sign-ups raced for the same handle.                                         *)
RowsAreBacked == \A d \in actors : plc[d] # "none" /\ d \in keys

(* A repo belongs to an account of the database; a failed sign-up leaves at    *)
(* most a DID, a key, and an account without a repo.                           *)
ReposHaveOwners == repos \subseteq actors

(* Together: what a failed or a racing sign-up leaves in one store is never    *)
(* taken for an account by another.                                            *)
AccountsAreBacked == RowsAreBacked /\ ReposHaveOwners

(* Deletion goes outside in, whatever fails or runs beside it: no row is       *)
(* marked deleted before the directory has the tombstone, no profile before    *)
(* its actor.                                                                  *)
DeletionInOrder ==
  /\ deletedProfiles \subseteq deletedActors
  /\ \A d \in deletedActors : plc[d] = "tombstone"

(* However often two deletions of one account are started together, one of     *)
(* them takes its repo down and marks its rows.                                *)
DeletedOnce ==
  \A p, q \in Procs :
    pc[p] \in Deleting /\ pc[q] \in Deleting /\ did[p] = did[q] => p = q

(* Together: an account is deleted in one order, by one request.               *)
DeletionIsOrderly == DeletionInOrder /\ DeletedOnce

(* Many requests may find the secret without a system user and start to create *)
(* one; at most one account comes of it.                                       *)
OneSystemUser ==
  \A d, e \in actors : row[d].kind = "system" /\ row[e].kind = "system" => d = e

(* The account that the secret names, as which every privileged request runs,  *)
(* is a system account with its key, and nobody can log in to it or delete it. *)
SecretIsSound ==
  secret # NoDid => /\ secret \in actors /\ row[secret].kind = "system"
                    /\ secret \in repos \cap keys
                    /\ secret \notin sessions /\ plc[secret] = "operation"

(* Together: the system user is one, whole and out of reach.                   *)
SystemUserIsSound == OneSystemUser /\ SecretIsSound

(* Whoever holds a token can renew it: its account has its row and its key.    *)
SessionsRenewable == \A d \in sessions : Refreshable(d)
===============================================================================
