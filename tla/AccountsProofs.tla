---------------------------- MODULE AccountsProofs ----------------------------
(* What the stores agree on about accounts, for any number of requests, DIDs,  *)
(* handles and identities, whichever calls fail.                               *)
EXTENDS Accounts, TLAPS

AtRow == {"tombstone", "login", "rehandle", "update"} \cup Deleting
Filled == {"handle", "handle2", "ident", "plc", "rehandle", "update"} \cup Creating

(* What a request under way can rely on: how far its account has come, and     *)
(* that it works on a row which is not the system user's.                      *)
RequestOK(p) ==
  /\ pc[p] \in Filled => form[p] \in Forms
  /\ form[p].kind = "system" => form[p].handle = SysHandle
  /\ pc[p] \in Creating => plc[did[p]] # "none"
  /\ pc[p] \in Creating \ {"key"} => did[p] \in keys
  /\ pc[p] \in {"key", "insert"} => did[p] \notin actors /\ plc[did[p]] = "operation"
  /\ pc[p] \in {"repo", "secret"} => did[p] \in actors /\ row[did[p]].kind = form[p].kind
  /\ pc[p] = "secret" => did[p] \in repos /\ form[p].kind = "system"
  /\ pc[p] \in AtRow => did[p] \in actors /\ row[did[p]].kind # "system"
  /\ pc[p] = "login" => row[did[p]].kind = "user"
  /\ pc[p] \in Deleting => plc[did[p]] = "tombstone"
  /\ pc[p] = "deleteProfile" => did[p] \in deletedActors

Requests == \A p \in Procs : RequestOK(p)

(* No two requests create the same account.                                    *)
CreatedOnce ==
  \A p, q \in Procs :
    pc[p] \in Creating /\ pc[q] \in Creating /\ did[p] = did[q] => p = q

(* The rows are filled in; the system user has its handle and its DID is alive.*)
Rows ==
  /\ deletedActors \subseteq actors
  /\ \A d \in actors : /\ row[d] \in Forms
                       /\ row[d].kind = "system" => /\ row[d].handle = SysHandle
                                                    /\ plc[d] = "operation"

(* Tokens are issued for users only.                                           *)
SessionsOfUsers == \A d \in sessions : d \in actors /\ row[d].kind = "user"

StoreInv == /\ RowsAreBacked /\ ReposHaveOwners /\ DeletionInOrder
            /\ OneSystemUser /\ SecretIsSound /\ Rows /\ SessionsOfUsers

IInv == TypeOK /\ Requests /\ CreatedOnce /\ DeletedOnce /\ StoreInv

-------------------------------------------------------------------------------
(* An empty system satisfies the invariant.                                    *)
LEMMA InitIInv == Init => IInv
<1> SUFFICES ASSUME Init PROVE IInv
  OBVIOUS
<1> USE DEF Init
<1>1. TypeOK
  BY DEF TypeOK, Points, Creating, Deleting
<1>2. Requests /\ CreatedOnce /\ DeletedOnce
  BY DEF Requests, RequestOK, CreatedOnce, DeletedOnce, Filled, AtRow, Creating, Deleting, Blank
<1>3. StoreInv
  BY DEF StoreInv, RowsAreBacked, ReposHaveOwners, DeletionInOrder, OneSystemUser,
         SecretIsSound, Rows, SessionsOfUsers
<1> QED
  BY <1>1, <1>2, <1>3 DEF IInv

(* Only request q moves.                                                       *)
Only(q) == \A p \in Procs : p # q => /\ pc'[p] = pc[p] /\ did'[p] = did[p]
                                     /\ form'[p] = form[p]

(* What no step takes back, and that rows come from a request's insert alone.  *)
Grows(q) ==
  /\ keys \subseteq keys' /\ actors \subseteq actors' /\ deletedActors \subseteq deletedActors'
  /\ \A d \in actors' \ actors : pc[q] = "insert" /\ d = did[q]
  /\ \A d \in actors : row'[d].kind = row[d].kind
  /\ \A d \in Dids : /\ plc[d] # "none" => plc'[d] # "none"
                     /\ plc[d] = "tombstone" => plc'[d] = "tombstone"
                     /\ plc[d] = "operation" /\ d \notin actors => plc'[d] = "operation"
  /\ \A d \in repos : row[d].kind = "system" => d \in repos'

(* A step of q that takes nothing back leaves the other requests in order.     *)
LEMMA OthersKept ==
  ASSUME IInv, NEW q \in Procs, Only(q), Grows(q), RequestOK(q)'
  PROVE  Requests'
<1> SUFFICES ASSUME NEW p \in Procs, p # q PROVE RequestOK(p)'
  BY DEF Requests
<1>1. RequestOK(p) /\ pc'[p] = pc[p] /\ did'[p] = did[p] /\ form'[p] = form[p]
  BY DEF IInv, Requests, Only
<1>2. pc[p] \in Creating \cup AtRow => did[p] \in Dids
  BY <1>1 DEF IInv, TypeOK, RequestOK, Creating, Deleting, AtRow
<1>3. pc[p] \in {"key", "insert"} => did[p] \notin actors'
  BY <1>1, <1>2 DEF IInv, CreatedOnce, Grows, RequestOK, Creating
<1>4. pc[p] = "secret" => did[p] \in repos'
  BY <1>1 DEF Grows, RequestOK
<1> QED
  BY <1>1, <1>2, <1>3, <1>4 DEF Grows, RequestOK, Creating, Deleting, AtRow

(* A step of q that is not the creation of a DID or a tombstone starts no      *)
(* second creation and no second deletion.                                     *)
LEMMA OnceKept ==
  ASSUME IInv, NEW q \in Procs, Only(q),
         pc'[q] \in Creating => pc[q] \in Creating /\ did'[q] = did[q],
         pc'[q] \in Deleting => pc[q] \in Deleting /\ did'[q] = did[q]
  PROVE  CreatedOnce' /\ DeletedOnce'
BY DEF IInv, CreatedOnce, DeletedOnce, Only

(* A request that only reads leaves the stores as they were.                   *)
LEMMA ReadOnly ==
  ASSUME IInv, NEW q \in Procs, Only(q), UNCHANGED <<stores, secret, sessions>>,
         pc'[q] \notin Deleting, pc'[q] \notin Creating, RequestOK(q)', TypeOK'
  PROVE  IInv'
<1>1. Grows(q)
  BY DEF Grows, stores
<1>2. Requests'
  BY <1>1, OthersKept
<1>3. CreatedOnce' /\ DeletedOnce'
  BY OnceKept
<1>4. StoreInv'
  BY DEF IInv, StoreInv, RowsAreBacked, ReposHaveOwners, DeletionInOrder, OneSystemUser,
         SecretIsSound, Rows, SessionsOfUsers, stores
<1> QED
  BY <1>2, <1>3, <1>4 DEF IInv

(* A request that returns has nothing to rely on.                              *)
LEMMA Returned ==
  ASSUME TypeOK, NEW q \in Procs, Return(q)
  PROVE  /\ Only(q) /\ pc'[q] = "idle" /\ RequestOK(q)'
BY DEF TypeOK, Return, Only, RequestOK, Blank, Filled, AtRow, Creating, Deleting

-------------------------------------------------------------------------------
(* The requests that start, and the checks they make, preserve the invariant.  *)
LEMMA ReadsIInv ==
  ASSUME IInv, NEW p \in Procs,
         \/ CreateUser(p) \/ CreateLegislator(p) \/ EnsureSystemUserExists(p)
         \/ ValidateHandle(p) \/ ResolveNew(p) \/ Login(p) \/ DeleteUser(p)
         \/ DeleteLegislator(p) \/ RenameUser(p) \/ RenameLegislator(p)
         \/ RevalidateHandle(p)
  PROVE  IInv'
<1> USE NamesAssumption
<1>0. TypeOK /\ RequestOK(p) /\ Rows /\ SessionsOfUsers
  BY DEF IInv, Requests, StoreInv
<1>1. UNCHANGED <<stores, secret, sessions>>
  BY DEF CreateUser, CreateLegislator, EnsureSystemUserExists, ValidateHandle, ResolveNew,
         Login, DeleteUser, DeleteLegislator, RenameUser, RenameLegislator, RevalidateHandle
<1>2. CASE \/ CreateUser(p) \/ CreateLegislator(p) \/ EnsureSystemUserExists(p)
  <2>1. PICK f \in Forms, point \in {"handle", "plc"} :
          Request(p, point, NoDid, f) /\ (f.kind = "system" => f.handle = SysHandle)
    BY <1>2 DEF CreateUser, CreateLegislator, EnsureSystemUserExists, Forms, Kinds
  <2>2. Only(p) /\ pc'[p] = point /\ RequestOK(p)'
    BY <1>0, <2>1 DEF Request, TypeOK, Only, RequestOK, AtRow, Creating, Deleting
  <2>3. TypeOK'
    BY <1>0, <1>1, <2>1 DEF Request, TypeOK, stores, Points, Creating, Deleting
  <2> QED
    BY <1>1, <2>2, <2>3, ReadOnly DEF Creating, Deleting
<1>3. CASE ValidateHandle(p)
  <2>1. CASE Return(p)
    BY <1>0, <1>1, <2>1, Returned, ReadOnly DEF Return, TypeOK, stores, Points, Creating,
        Deleting
  <2>2. CASE Goto(p, "ident")
    <3>1. Only(p) /\ pc'[p] = "ident" /\ RequestOK(p)'
      BY <1>0, <1>3, <2>2 DEF ValidateHandle, Goto, TypeOK, Only, RequestOK, Filled, AtRow,
          Creating, Deleting
    <3>2. TypeOK'
      BY <1>0, <1>1, <2>2 DEF Goto, TypeOK, stores, Points, Creating, Deleting
    <3> QED
      BY <1>1, <3>1, <3>2, ReadOnly DEF Creating, Deleting
  <2>3. ASSUME NEW h \in Handles, form' = [form EXCEPT ![p].handle = h], UNCHANGED did,
               form[p].kind = "legislator", pc[p] = "handle",
               pc' = [pc EXCEPT ![p] = "handle2"]
        PROVE  IInv'
    <3>1. form[p] \in Forms /\ form'[p] = [form[p] EXCEPT !.handle = h]
      BY <1>0, <2>3 DEF RequestOK, Filled, TypeOK
    <3>2. form'[p] \in Forms /\ form'[p].kind = "legislator"
      BY <2>3, <3>1 DEF Forms
    <3>3. Only(p) /\ pc'[p] = "handle2" /\ RequestOK(p)'
      BY <1>0, <2>3, <3>2 DEF TypeOK, Only, RequestOK, AtRow, Creating, Deleting
    <3>4. form' \in [Procs -> Forms \cup {Blank}]
      BY <1>0, <2>3, <3>1, <3>2 DEF TypeOK
    <3>5. TypeOK'
      BY <1>0, <1>1, <2>3, <3>4 DEF TypeOK, stores, Points, Creating, Deleting
    <3> QED
      BY <1>1, <3>3, <3>5, ReadOnly DEF Creating, Deleting
  <2> QED
    BY <1>3, <2>1, <2>2, <2>3 DEF ValidateHandle
<1>4. CASE ResolveNew(p) \/ RevalidateHandle(p)
  <2>1. CASE Return(p)
    BY <1>0, <1>1, <2>1, Returned, ReadOnly DEF Return, TypeOK, stores, Points, Creating,
        Deleting
  <2>2. CASE pc[p] = "ident" /\ Goto(p, "plc")
    <3>1. Only(p) /\ pc'[p] = "plc" /\ RequestOK(p)'
      BY <1>0, <2>2 DEF Goto, TypeOK, Only, RequestOK, Filled, AtRow, Creating, Deleting
    <3>2. TypeOK'
      BY <1>0, <1>1, <2>2 DEF Goto, TypeOK, stores, Points, Creating, Deleting
    <3> QED
      BY <1>1, <3>1, <3>2, ReadOnly DEF Creating, Deleting
  <2>3. CASE pc[p] = "rehandle" /\ Goto(p, "update")
    <3>1. Only(p) /\ pc'[p] = "update" /\ RequestOK(p)'
      BY <1>0, <1>1, <2>3 DEF Goto, TypeOK, Only, RequestOK, Filled, AtRow, Creating,
          Deleting, stores
    <3>2. TypeOK'
      BY <1>0, <1>1, <2>3 DEF Goto, TypeOK, stores, Points, Creating, Deleting, RequestOK, AtRow
    <3> QED
      BY <1>1, <3>1, <3>2, ReadOnly DEF Creating, Deleting
  <2> QED
    BY <1>4, <2>1, <2>2, <2>3 DEF ResolveNew, RevalidateHandle
<1>5. CASE Login(p) \/ DeleteUser(p) \/ DeleteLegislator(p)
  <2>1. PICK d \in actors, point \in {"login", "tombstone"} :
          /\ Request(p, point, d, Blank) /\ row[d].kind # "system"
          /\ point = "login" => row[d].kind = "user"
    BY <1>0, <1>5 DEF Login, DeleteUser, DeleteLegislator, StartDeletion, Legislators,
        SessionsOfUsers
  <2>2. Only(p) /\ pc'[p] = point /\ RequestOK(p)'
    BY <1>0, <1>1, <2>1 DEF Request, TypeOK, Only, RequestOK, AtRow, Filled, Creating,
        Deleting, stores, Blank
  <2>3. TypeOK'
    BY <1>0, <1>1, <2>1 DEF Request, TypeOK, stores, Points, Creating, Deleting
  <2> QED
    BY <1>1, <2>2, <2>3, ReadOnly DEF Creating, Deleting
<1>6. CASE RenameUser(p) \/ RenameLegislator(p)
  <2>1. PICK d \in actors, h \in Handles :
          /\ Request(p, "rehandle", d, [row[d] EXCEPT !.handle = h])
          /\ row[d].kind # "system"
    BY <1>0, <1>6 DEF RenameUser, RenameLegislator, Legislators, SessionsOfUsers
  <2> DEFINE f == [row[d] EXCEPT !.handle = h]
  <2>2. f \in Forms /\ f.kind # "system"
    BY <1>0, <2>1 DEF Rows, Forms
  <2> HIDE DEF f
  <2>3. Request(p, "rehandle", d, f)
    BY <2>1 DEF f
  <2>4. Only(p) /\ pc'[p] = "rehandle" /\ RequestOK(p)'
    BY <1>0, <1>1, <2>1, <2>2, <2>3 DEF Request, TypeOK, Only, RequestOK, AtRow, Filled,
        Creating, Deleting, stores
  <2>5. TypeOK'
    BY <1>0, <1>1, <2>1, <2>2, <2>3 DEF Request, TypeOK, stores, Points, Creating, Deleting
  <2> QED
    BY <1>1, <2>4, <2>5, ReadOnly DEF Creating, Deleting
<1> QED
  BY <1>2, <1>3, <1>4, <1>5, <1>6

(* What is left to show of a step that writes a store.                         *)
LEMMA Writes ==
  ASSUME IInv, NEW q \in Procs, Only(q), Grows(q), RequestOK(q)', TypeOK', StoreInv',
         pc'[q] \in Creating => pc[q] \in Creating /\ did'[q] = did[q],
         pc'[q] \in Deleting => pc[q] \in Deleting /\ did'[q] = did[q]
  PROVE  IInv'
BY OthersKept, OnceKept DEF IInv

(* Registering a DID: it is new to the directory, hence to every request.      *)
LEMMA CreateDIDIInv ==
  ASSUME IInv, NEW p \in Procs, CreateDID(p)
  PROVE  IInv'
<1>0. TypeOK /\ RequestOK(p) /\ StoreInv
  BY DEF IInv, Requests
<1>1. UNCHANGED <<keys, actors, row, deletedActors, deletedProfiles, repos, secret, sessions>>
  BY DEF CreateDID
<1>2. CASE UNCHANGED plc /\ Return(p)
  <2>1. TypeOK'
    BY <1>0, <1>1, <1>2 DEF TypeOK, Return, Points, Creating, Deleting
  <2> QED
    BY <1>0, <1>1, <1>2, <2>1, Returned, ReadOnly DEF stores, Creating, Deleting
<1>3. ASSUME NEW d \in Dids, plc[d] = "none", plc' = [plc EXCEPT ![d] = "operation"],
             \/ /\ pc' = [pc EXCEPT ![p] = "key"]
                /\ did' = [did EXCEPT ![p] = d]
                /\ UNCHANGED form
             \/ Return(p)
      PROVE  IInv'
  <2>1. d \notin actors /\ \A q \in Procs : pc[q] \in Creating \cup AtRow => did[q] # d
    BY <1>0, <1>3 DEF IInv, Requests, RequestOK, StoreInv, RowsAreBacked, AtRow
  <2>2. Only(p) /\ pc'[p] \in {"idle", "key"} /\ (pc'[p] = "key" => did'[p] = d)
    BY <1>0, <1>3, Returned DEF TypeOK, Only
  <2>3. Grows(p)
    BY <1>0, <1>1, <1>3 DEF Grows, TypeOK
  <2>4. RequestOK(p)'
    <3>1. CASE Return(p)
      BY <1>0, <3>1, Returned
    <3>2. CASE ~Return(p)
      BY <1>0, <1>1, <1>3, <2>1, <3>2 DEF CreateDID, RequestOK, TypeOK, Creating, Deleting,
          AtRow, Filled
    <3> QED
      BY <3>1, <3>2
  <2>5. TypeOK'
    BY <1>0, <1>1, <1>3 DEF TypeOK, Return, Points, Creating, Deleting
  <2>6. CreatedOnce' /\ DeletedOnce'
    BY <2>1, <2>2 DEF IInv, CreatedOnce, DeletedOnce, Only, Creating, Deleting
  <2>7. StoreInv'
    BY <1>0, <1>1, <1>3, <2>1 DEF StoreInv, TypeOK, RowsAreBacked, ReposHaveOwners,
        DeletionInOrder,
       OneSystemUser, SecretIsSound, Rows, SessionsOfUsers, Refreshable
  <2> QED
    BY <2>2, <2>3, <2>4, <2>5, <2>6, <2>7, OthersKept DEF IInv
<1> QED
  BY <1>2, <1>3 DEF CreateDID

(* The other steps of a creation.                                              *)
LEMMA CreationIInv ==
  ASSUME IInv, NEW p \in Procs,
         \/ CreateEncryptedKey(p) \/ InsertRecords(p) \/ InitNewRepo(p) \/ UpdateSecret(p)
  PROVE  IInv'
<1>0. TypeOK /\ RequestOK(p) /\ StoreInv
  BY DEF IInv, Requests
<1>1. pc[p] \in Creating /\ did[p] \in Dids /\ form[p] \in Forms
  BY <1>0 DEF CreateEncryptedKey, InsertRecords, InitNewRepo, UpdateSecret, TypeOK, RequestOK,
      Creating, Filled
<1>2. Only(p) /\ pc'[p] \notin Deleting /\ (pc'[p] \in Creating => did'[p] = did[p])
  BY <1>0, Returned DEF CreateEncryptedKey, InsertRecords, InitNewRepo, UpdateSecret, Goto,
     TypeOK, Only, Creating, Deleting
<1>3. CASE CreateEncryptedKey(p)
  <2>1. Grows(p)
    BY <1>0, <1>3 DEF CreateEncryptedKey, Grows
  <2>2. RequestOK(p)'
    <3>1. CASE Return(p)
      BY <1>0, <3>1, Returned
    <3>2. CASE Goto(p, "insert")
      <4>1. pc'[p] = "insert" /\ did'[p] = did[p] /\ form'[p] = form[p] /\ pc[p] = "key"
        BY <1>0, <1>3, <3>2 DEF CreateEncryptedKey, Goto, TypeOK
      <4>2. did[p] \in keys' /\ UNCHANGED <<plc, actors, row, deletedActors, repos>>
        BY <1>0, <1>3, <4>1 DEF CreateEncryptedKey, Return, TypeOK
      <4> QED
        BY <1>0, <4>1, <4>2 DEF RequestOK, Creating, Deleting, AtRow, Filled
    <3> QED
      BY <1>3, <3>1, <3>2 DEF CreateEncryptedKey
  <2>3. TypeOK'
    BY <1>0, <1>1, <1>3 DEF CreateEncryptedKey, Goto, Return, TypeOK, Points, Creating, Deleting
  <2>4. StoreInv'
    BY <1>0, <1>3 DEF CreateEncryptedKey, StoreInv, TypeOK, RowsAreBacked, ReposHaveOwners,
        DeletionInOrder, OneSystemUser, SecretIsSound, Rows, SessionsOfUsers
  <2> QED
    BY <1>1, <1>2, <2>1, <2>2, <2>3, <2>4, Writes
<1>4. CASE InsertRecords(p)
  <2>1. did[p] \notin actors /\ did[p] \in keys /\ plc[did[p]] # "none"
    BY <1>0, <1>4 DEF InsertRecords, RequestOK, Creating
  <2>2. Grows(p)
    BY <1>0, <1>1, <1>4, <2>1 DEF InsertRecords, Grows, TypeOK, StoreInv, ReposHaveOwners
  <2>3. RequestOK(p)'
    <3>1. CASE Return(p)
      BY <1>0, <3>1, Returned
    <3>2. CASE ~Return(p)
      BY <1>0, <1>1, <1>4, <2>1, <3>2 DEF InsertRecords, Goto, TypeOK, RequestOK, Creating,
          Deleting, AtRow, Filled
    <3> QED
      BY <3>1, <3>2
  <2>4. TypeOK'
    BY <1>0, <1>1, <1>4 DEF InsertRecords, Goto, Return, TypeOK, Points, Creating, Deleting
  <2>5. StoreInv'
    <3>1. CASE UNCHANGED <<actors, row>>
      BY <1>0, <1>4, <3>1 DEF InsertRecords, StoreInv, TypeOK, RowsAreBacked, ReposHaveOwners,
          DeletionInOrder, OneSystemUser, SecretIsSound, Rows, SessionsOfUsers
    <3>2. CASE /\ Insertable(form[p]) /\ actors' = actors \cup {did[p]}
               /\ row' = [row EXCEPT ![did[p]] = form[p]]
      <4>1. did[p] \notin sessions /\ did[p] \notin repos /\ did[p] # secret
            /\ did[p] \notin deletedActors
        BY <1>0, <2>1, <1>1, NamesAssumption DEF StoreInv, ReposHaveOwners, SessionsOfUsers,
            SecretIsSound, Rows
      <4>2. \A d \in actors : row'[d] = row[d]
        BY <1>0, <2>1, <3>2 DEF TypeOK
      <4>3. row'[did[p]] = form[p]
        BY <1>0, <1>1, <3>2 DEF TypeOK
      <4>4. form[p].kind = "system" =>
               /\ form[p].handle = SysHandle /\ plc[did[p]] = "operation"
               /\ \A d \in actors : row[d].kind # "system"
        BY <1>0, <1>4, <3>2 DEF InsertRecords, Insertable, HandleFree, RequestOK, StoreInv, Rows
      <4>5. UNCHANGED <<plc, keys, deletedActors, deletedProfiles, repos, secret, sessions>>
        BY <1>4 DEF InsertRecords
      <4>6. RowsAreBacked' /\ ReposHaveOwners' /\ DeletionInOrder' /\ SessionsOfUsers'
        BY <1>0, <2>1, <3>2, <4>1, <4>2, <4>3, <4>5
        DEF StoreInv, RowsAreBacked, ReposHaveOwners, DeletionInOrder, SessionsOfUsers
      <4>7. OneSystemUser'
        BY <1>0, <3>2, <4>2, <4>3, <4>4 DEF StoreInv, OneSystemUser
      <4>8. Rows'
        BY <1>0, <1>1, <3>2, <4>2, <4>3, <4>4, <4>5 DEF StoreInv, Rows
      <4>9. SecretIsSound'
        BY <1>0, <3>2, <4>1, <4>2, <4>5 DEF StoreInv, SecretIsSound
      <4> QED
        BY <4>6, <4>7, <4>8, <4>9 DEF StoreInv
    <3> QED
      BY <1>4, <3>1, <3>2 DEF InsertRecords
  <2> QED
    BY <1>1, <1>2, <2>2, <2>3, <2>4, <2>5, Writes
<1>5. CASE InitNewRepo(p)
  <2>1. did[p] \in actors /\ row[did[p]].kind = form[p].kind /\ did[p] \in keys
    BY <1>0, <1>5 DEF InitNewRepo, RequestOK, Creating
  <2>2. /\ repos \subseteq repos' /\ repos' \subseteq repos \cup {did[p]}
        /\ sessions' \subseteq sessions \cup {did[p]}
        /\ sessions' # sessions => form[p].kind = "user"
        /\ UNCHANGED <<plc, keys, actors, row, deletedActors, deletedProfiles, secret>>
    BY <1>0, <1>5 DEF InitNewRepo
  <2>3. Grows(p)
    BY <1>0, <2>2 DEF Grows
  <2>4. RequestOK(p)'
    <3>1. CASE Return(p)
      BY <1>0, <3>1, Returned
    <3>2. CASE ~Return(p)
      <4>1. Goto(p, "secret") /\ did[p] \in repos' /\ form[p].kind = "system"
        BY <1>1, <1>5, <3>2 DEF InitNewRepo, Forms, Kinds
      <4> QED
        BY <1>0, <1>1, <2>1, <2>2, <1>5, <4>1 DEF InitNewRepo, Goto, TypeOK, RequestOK,
            Creating, Deleting, AtRow, Filled
    <3> QED
      BY <3>1, <3>2
  <2>5. pc' \in [Procs -> Points] /\ did' \in [Procs -> Dids \cup {NoDid}]
        /\ form' \in [Procs -> Forms \cup {Blank}]
    BY <1>0, <1>5 DEF InitNewRepo, Goto, Return, TypeOK, Points, Creating, Deleting
  <2>6. \A q \in Procs : q # p => pc'[q] = pc[q] /\ did'[q] = did[q]
    BY <1>2 DEF Only
  <2>7. TypeOK'
    BY <1>0, <1>1, <1>2, <2>2, <2>4, <2>5, <2>6 DEF TypeOK, RequestOK, Creating, Deleting,
        AtRow, Filled
  <2>8. SecretIsSound'
    BY <1>0, <2>1, <2>2 DEF StoreInv, SecretIsSound
  <2>9. RowsAreBacked' /\ ReposHaveOwners' /\ DeletionInOrder' /\ OneSystemUser' /\ Rows'
    BY <1>0, <2>1, <2>2 DEF StoreInv, RowsAreBacked, ReposHaveOwners, DeletionInOrder,
        OneSystemUser, Rows
  <2>10. SessionsOfUsers'
    BY <1>0, <2>1, <2>2 DEF StoreInv, SessionsOfUsers
  <2> QED
    BY <1>1, <1>2, <2>3, <2>4, <2>7, <2>8, <2>9, <2>10, Writes DEF StoreInv
<1>6. CASE UpdateSecret(p)
  <2>1. /\ did[p] \in actors /\ row[did[p]].kind = "system" /\ did[p] \in repos \cap keys
        /\ plc[did[p]] = "operation" /\ did[p] \notin sessions
    BY <1>0, <1>6 DEF UpdateSecret, RequestOK, Creating, StoreInv, Rows, SessionsOfUsers
  <2>2. Return(p) /\ UNCHANGED <<stores, sessions>> /\ secret' \in {did[p], secret}
    BY <1>6 DEF UpdateSecret
  <2>3. Grows(p)
    BY <2>2 DEF Grows, stores
  <2>4. RequestOK(p)' /\ pc'[p] = "idle"
    BY <1>0, <2>2, Returned
  <2>5. TypeOK'
    BY <1>0, <1>1, <2>2 DEF Return, TypeOK, Points, Creating, Deleting, stores
  <2>6. StoreInv'
    BY <1>0, <2>1, <2>2 DEF StoreInv, TypeOK, RowsAreBacked, ReposHaveOwners, DeletionInOrder,
        OneSystemUser, SecretIsSound, Rows, SessionsOfUsers, stores
  <2> QED
    BY <1>2, <2>3, <2>4, <2>5, <2>6, Writes DEF Creating, Deleting
<1> QED
  BY <1>3, <1>4, <1>5, <1>6

(* The steps of a log-in and of a deletion: they work on a row, and not on the *)
(* system user's.                                                              *)
LEMMA AtRowIInv ==
  ASSUME IInv, NEW p \in Procs,
         \/ CreateSession(p) \/ TakeDownRepo(p) \/ DeleteActor(p) \/ DeleteProfile(p)
  PROVE  IInv'
<1>0. TypeOK /\ RequestOK(p) /\ StoreInv
  BY DEF IInv, Requests
<1>1. did[p] \in Dids /\ did[p] \in actors /\ row[did[p]].kind # "system"
  BY <1>0 DEF CreateSession, TakeDownRepo, DeleteActor, DeleteProfile, TypeOK, RequestOK,
      AtRow, Deleting
<1>2. pc'[p] = "idle" => Return(p)
  BY <1>0 DEF CreateSession, TakeDownRepo, DeleteActor, DeleteProfile, Goto, TypeOK
<1>3. /\ Only(p) /\ pc'[p] \notin Creating
      /\ pc'[p] \in Deleting => pc[p] \in Deleting /\ did'[p] = did[p]
  BY <1>0, Returned DEF CreateSession, TakeDownRepo, DeleteActor, DeleteProfile, Goto, TypeOK,
     Only, Creating, Deleting
<1>4. UNCHANGED <<plc, keys, actors, row, secret>>
  BY DEF CreateSession, TakeDownRepo, DeleteActor, DeleteProfile, stores
<1>5. /\ sessions' \subseteq sessions \cup {did[p]}
      /\ sessions' # sessions => row[did[p]].kind = "user"
  BY <1>0 DEF CreateSession, TakeDownRepo, DeleteActor, DeleteProfile, RequestOK
<1>6. repos' \subseteq repos /\ repos \subseteq repos' \cup {did[p]}
  BY DEF CreateSession, TakeDownRepo, DeleteActor, DeleteProfile, stores
<1>7. /\ deletedActors \subseteq deletedActors'
      /\ deletedActors' \subseteq deletedActors \cup {did[p]}
      /\ deletedActors' # deletedActors => plc[did[p]] = "tombstone"
  BY <1>0 DEF CreateSession, TakeDownRepo, DeleteActor, DeleteProfile, stores, RequestOK,
      Deleting
<1>8. /\ deletedProfiles' \subseteq deletedProfiles \cup {did[p]}
      /\ deletedProfiles' # deletedProfiles => did[p] \in deletedActors
  BY <1>0 DEF CreateSession, TakeDownRepo, DeleteActor, DeleteProfile, stores, RequestOK
<1>9. Grows(p)
  BY <1>0, <1>1, <1>4, <1>6, <1>7 DEF Grows
<1>10. RequestOK(p)'
  <2>1. CASE Return(p)
    BY <1>0, <2>1, Returned
  <2>2. CASE ~Return(p)
    BY <1>0, <1>4, <2>2 DEF CreateSession, TakeDownRepo, DeleteActor, DeleteProfile, Goto,
        TypeOK,
       RequestOK, Creating, Deleting, AtRow, Filled
  <2> QED
    BY <2>1, <2>2
<1>11. TypeOK'
  <2>1. pc' \in [Procs -> Points] /\ did' \in [Procs -> Dids \cup {NoDid}]
        /\ form' \in [Procs -> Forms \cup {Blank}]
    BY <1>0 DEF CreateSession, TakeDownRepo, DeleteActor, DeleteProfile, Goto, Return, TypeOK,
       Points, Creating, Deleting
  <2>2. did'[p] \in Dids \/ pc'[p] = "idle"
    BY <1>0, <1>1 DEF CreateSession, TakeDownRepo, DeleteActor, DeleteProfile, Goto, Return,
        TypeOK
  <2> QED
    BY <1>0, <1>1, <1>3, <1>4, <1>5, <1>6, <1>7, <1>8, <2>1, <2>2
        DEF TypeOK, Only, Creating, Deleting
<1>12. SecretIsSound'
  BY <1>0, <1>1, <1>4, <1>5, <1>6 DEF StoreInv, SecretIsSound
<1>13. RowsAreBacked' /\ ReposHaveOwners' /\ OneSystemUser'
  BY <1>0, <1>4, <1>6 DEF StoreInv, RowsAreBacked, ReposHaveOwners, OneSystemUser
<1>14. Rows' /\ DeletionInOrder'
  BY <1>0, <1>1, <1>4, <1>7, <1>8 DEF StoreInv, Rows, DeletionInOrder
<1>15. SessionsOfUsers'
  BY <1>0, <1>1, <1>4, <1>5 DEF StoreInv, SessionsOfUsers
<1> QED
  BY <1>3, <1>9, <1>10, <1>11, <1>12, <1>13, <1>14, <1>15, Writes DEF StoreInv

(* The tombstone: whoever gets it in finds no other deletion past its own.     *)
LEMMA TombstoneIInv ==
  ASSUME IInv, NEW p \in Procs, TombstoneDID(p)
  PROVE  IInv'
<1>0. TypeOK /\ RequestOK(p) /\ StoreInv
  BY DEF IInv, Requests
<1>1. UNCHANGED <<keys, actors, row, deletedActors, deletedProfiles, repos, secret, sessions>>
  BY DEF TombstoneDID
<1>2. did[p] \in Dids /\ did[p] \in actors /\ row[did[p]].kind # "system"
  BY <1>0 DEF TombstoneDID, TypeOK, RequestOK, AtRow
<1>3. CASE UNCHANGED plc /\ Return(p)
  <2>1. TypeOK'
    BY <1>0, <1>1, <1>3 DEF TypeOK, Return, Points, Creating, Deleting
  <2> QED
    BY <1>0, <1>1, <1>3, <2>1, Returned, ReadOnly DEF stores, Creating, Deleting
<1>4. CASE /\ plc[did[p]] = "operation"
           /\ plc' = [plc EXCEPT ![did[p]] = "tombstone"]
           /\ Goto(p, "takedown") \/ Return(p)
  <2>1. \A q \in Procs : pc[q] \in Deleting => did[q] # did[p]
    BY <1>4 DEF IInv, Requests, RequestOK
  <2>2. /\ Only(p) /\ pc'[p] \in {"idle", "takedown"}
        /\ pc'[p] = "takedown" => did'[p] = did[p]
    BY <1>0, <1>4, Returned DEF Goto, TypeOK, Only
  <2>3. Grows(p)
    BY <1>0, <1>1, <1>2, <1>4 DEF Grows, TypeOK
  <2>4. RequestOK(p)'
    <3>1. CASE Return(p)
      BY <1>0, <3>1, Returned
    <3>2. CASE Goto(p, "takedown")
      BY <1>0, <1>1, <1>2, <1>4, <3>2 DEF TombstoneDID, Goto, RequestOK, TypeOK, Creating,
          Deleting, AtRow, Filled
    <3> QED
      BY <1>4, <3>1, <3>2
  <2>5. TypeOK'
    BY <1>0, <1>1, <1>2, <1>4 DEF TypeOK, Goto, Return, Points, Creating, Deleting
  <2>6. CreatedOnce' /\ DeletedOnce'
    BY <2>1, <2>2 DEF IInv, CreatedOnce, DeletedOnce, Only, Creating, Deleting
  <2>7. StoreInv'
    BY <1>0, <1>1, <1>2, <1>4 DEF StoreInv, TypeOK, RowsAreBacked, ReposHaveOwners,
        DeletionInOrder, OneSystemUser, SecretIsSound, Rows, SessionsOfUsers
  <2> QED
    BY <2>2, <2>3, <2>4, <2>5, <2>6, <2>7, OthersKept DEF IInv
<1> QED
  BY <1>3, <1>4 DEF TombstoneDID

(* A new handle for a row that is not the system user's.                       *)
LEMMA UpdateHandleIInv ==
  ASSUME IInv, NEW p \in Procs, UpdateHandle(p)
  PROVE  IInv'
<1>0. TypeOK /\ RequestOK(p) /\ StoreInv
  BY DEF IInv, Requests
<1>1. /\ did[p] \in Dids /\ did[p] \in actors /\ row[did[p]].kind # "system"
      /\ form[p] \in Forms /\ row[did[p]] \in Forms
  BY <1>0 DEF UpdateHandle, TypeOK, RequestOK, AtRow, Filled, StoreInv, Rows
<1>2. /\ Return(p)
      /\ UNCHANGED <<plc, keys, actors, deletedActors, deletedProfiles, repos, secret, sessions>>
  BY DEF UpdateHandle
<1>3. Only(p) /\ pc'[p] = "idle" /\ RequestOK(p)'
  BY <1>0, <1>2, Returned
<1> DEFINE r == [row[did[p]] EXCEPT !.handle = form[p].handle]
<1>4. r \in Forms /\ r.kind = row[did[p]].kind
  BY <1>1 DEF Forms
<1>5. row' = row \/ row' = [row EXCEPT ![did[p]] = r]
  BY <1>0, <1>1 DEF UpdateHandle, TypeOK
<1> HIDE DEF r
<1>6. \A d \in actors : /\ row'[d].kind = row[d].kind /\ row'[d] \in Forms
                        /\ row[d].kind = "system" => row'[d] = row[d]
  BY <1>0, <1>1, <1>4, <1>5 DEF TypeOK, StoreInv, Rows
<1>7. Grows(p)
  BY <1>2, <1>6 DEF Grows
<1>8. TypeOK'
  BY <1>0, <1>2, <1>4, <1>5 DEF TypeOK, Return, Points, Creating, Deleting
<1>9. StoreInv'
  BY <1>0, <1>2, <1>6 DEF StoreInv, TypeOK, RowsAreBacked, ReposHaveOwners, DeletionInOrder,
      OneSystemUser, SecretIsSound, Rows, SessionsOfUsers
<1> QED
  BY <1>3, <1>7, <1>8, <1>9, Writes DEF Creating, Deleting

(* A token that expires takes nothing with it.                                 *)
LEMMA SessionEndsIInv ==
  ASSUME IInv, NEW d \in Dids, SessionEnds(d)
  PROVE  IInv'
<1>1. /\ sessions' \subseteq sessions
      /\ UNCHANGED <<stores, secret, pc, did, form>>
  BY DEF SessionEnds
<1>2. TypeOK' /\ Requests' /\ CreatedOnce' /\ DeletedOnce'
  BY <1>1 DEF IInv, TypeOK, Requests, RequestOK, CreatedOnce, DeletedOnce, stores
<1>3. StoreInv'
  BY <1>1 DEF IInv, StoreInv, TypeOK, RowsAreBacked, ReposHaveOwners, DeletionInOrder,
      OneSystemUser, SecretIsSound, Rows, SessionsOfUsers, stores
<1> QED
  BY <1>2, <1>3 DEF IInv

-------------------------------------------------------------------------------
(* The invariant is inductive, and implies the properties of the run.          *)
THEOREM AccountInvariance == Spec => []IInv
<1>1. IInv /\ [Next]_vars => IInv'
  <2> SUFFICES ASSUME IInv, [Next]_vars PROVE IInv'
    OBVIOUS
  <2>1. ASSUME NEW p \in Procs, Serve(p) PROVE IInv'
    BY <2>1, ReadsIInv, CreateDIDIInv, CreationIInv, AtRowIInv, TombstoneIInv,
        UpdateHandleIInv DEF Serve
  <2>2. CASE UNCHANGED vars
    BY <2>2 DEF vars, stores, IInv, Requests, RequestOK, CreatedOnce, DeletedOnce, StoreInv,
        TypeOK, RowsAreBacked, ReposHaveOwners, DeletionInOrder, OneSystemUser, SecretIsSound,
        Rows, SessionsOfUsers
  <2> QED
    BY <2>1, <2>2, SessionEndsIInv DEF Next
<1> QED
  BY InitIInv, <1>1, PTL DEF Spec

(* Types, whatever fails (every handler of service/handlers.go).               *)
THEOREM AccountTypes == Spec => []TypeOK
BY AccountInvariance, PTL DEF IInv

(* Whoever finds an actor finds a registered DID and a stored key behind it,   *)
(* and a repo always has its actor (CreateActor, CreateUser, InitNewRepo).     *)
THEOREM AccountsStayBacked == Spec => []AccountsAreBacked
<1>1. IInv => AccountsAreBacked
  BY DEF IInv, StoreInv, AccountsAreBacked
<1> QED
  BY <1>1, AccountInvariance, PTL

(* Deletion proceeds in its order, and one request per account carries it out  *)
(* (handleDeleteUser, handleDeleteLegislator).                                 *)
THEOREM DeletionStaysOrderly == Spec => []DeletionIsOrderly
<1>1. IInv => DeletionIsOrderly
  BY DEF IInv, StoreInv, DeletionIsOrderly
<1> QED
  BY <1>1, AccountInvariance, PTL

(* One system user at most, and the secret names it only when it is complete   *)
(* and out of everybody's reach (ensureSystemUserExists, createSystemUser).    *)
THEOREM SystemUserStaysSound == Spec => []SystemUserIsSound
<1>1. IInv => SystemUserIsSound
  BY DEF IInv, StoreInv, SystemUserIsSound
<1> QED
  BY <1>1, AccountInvariance, PTL

(* The checks of RefreshSession and AuthenticateSession never fail for a token *)
(* that was issued.                                                            *)
THEOREM SessionsGoOn == Spec => []SessionsRenewable
<1>1. IInv => SessionsRenewable
  BY DEF IInv, StoreInv, SessionsOfUsers, RowsAreBacked, SessionsRenewable, Refreshable
<1> QED
  BY <1>1, AccountInvariance, PTL
===============================================================================
