-------------------------------- MODULE Records --------------------------------
(* What the user service keeps twice, or checks before it writes: the profile  *)
(* of an account, in its repo and in Postgres; bills, which are records of the *)
(* system user's repo only; and follows, a record with a row beside it.        *)
(* ProfileCache has the third copy of a user's profile.                        *)
(*                                                                             *)
(* Each of them is in a repo, of which CarStore is the detail: the store looks *)
(* up the last shard in its cache, and asks the database for it when it is not *)
(* there. A write is made on what that shows, whatever was committed since; it *)
(* holds the repo's lock and is one step. A read has no lock: what it found in *)
(* the database goes into the cache when it comes to it, even if a commit left *)
(* a newer shard there. A call to a store takes effect, fails, or does both.   *)
EXTENDS Integers

CONSTANTS Procs,       \* requests being served
          Users, Legislators,
          System,      \* the system user, as the owner of the bills' repo
          Names,       \* display names, and the contents of bills
          Phones,      \* any other field of a legislator's record
          Bills        \* keys of bills

Accounts == Users \cup Legislators
Repos == Accounts \cup {System}
Absent == "absent"
NoRequest == [op |-> "none"]
Profile == [name : Names, phone : Phones \cup {Absent}]
BillRecords == [bills : [Bills -> Names \cup {Absent}]]
Nothing == [name |-> Absent]

(* What the properties tell apart of a repo: a profile, or the bills.          *)
Contents(r) == IF r = System THEN BillRecords ELSE Profile

ASSUME ValuesAssumption == Absent \notin Names /\ System \notin Accounts

VARIABLES
  repo,       \* repo[r]: what the last shard in the database shows of r's repo
  cached,     \* cached[r]: what the cached shard shows of it; {} when there is none
  dbName,     \* users.display_name, legislator.display_name
  pc, req, got,   \* per request: where it is, what it asks for, what it read
  (* What happened, for the properties; the program does not keep these.       *)
  late,       \* requests that hold a shard found before the repo's last commit
  astray,     \* repos whose cached shard was once left behind the last commit
  names,      \* names[a]: every name that a's record ever had
  sent,       \* sent[a]: what the updates of a asked for, in the order of their ends
  disturbed   \* accounts of which an update ended halfway, or two overlapped

repos == <<repo, cached, late, astray>>
edits == <<dbName, names, sent, disturbed>>
requests == <<pc, req, got>>
vars == <<repos, edits, requests>>

Init ==
  /\ sent \in [Accounts -> [name : Names, phone : {Absent}]]
  /\ repo = [r \in Repos |-> IF r = System THEN [bills |-> [k \in Bills |-> Absent]]
                          ELSE sent[r]]
  /\ cached = [r \in Repos |-> {}] /\ late = {} /\ astray = {}
  /\ dbName = [a \in Accounts |-> sent[a].name]
  /\ names = [a \in Accounts |-> {sent[a].name}]
  /\ disturbed = {}
  /\ pc = [p \in Procs |-> "idle"]
  /\ req = [p \in Procs |-> NoRequest] /\ got = [p \in Procs |-> Nothing]

-------------------------------------------------------------------------------
Request(p, point, r) ==
  /\ pc[p] = "idle"
  /\ pc' = [pc EXCEPT ![p] = point]
  /\ req' = [req EXCEPT ![p] = r]
  /\ UNCHANGED got

Goto(p, point) == pc' = [pc EXCEPT ![p] = point] /\ UNCHANGED <<req, got>>

GotoWith(p, point, x) ==
  /\ pc' = [pc EXCEPT ![p] = point]
  /\ got' = [got EXCEPT ![p] = x]
  /\ UNCHANGED req

Return(p) ==
  /\ pc' = [pc EXCEPT ![p] = "idle"]
  /\ req' = [req EXCEPT ![p] = NoRequest]
  /\ got' = [got EXCEPT ![p] = Nothing]

At(p, point) == pc[p] = point

-------------------------------------------------------------------------------
(* What lastShardCache.get comes to when no other request is in between.       *)
Seen(r) == IF cached[r] = {} THEN {repo[r]} ELSE cached[r]

(* The row of a commit with contents x. Once the cache was behind, the shard's *)
(* number may be one that others have, or have passed: it is not the last row. *)
AddRow(r, x) ==
  /\ \/ repo' = [repo EXCEPT ![r] = x]
     \/ r \in astray /\ UNCHANGED repo
  /\ late' = late \cup {q \in Procs : At(q, "fill") /\ req[q].who = r}

(* Mutant: a write leaves in the cache what it was made on.                    *)
CommittedUncached(r, x) ==
  /\ AddRow(r, x)
  /\ cached' = [cached EXCEPT ![r] = Seen(r)]
  /\ UNCHANGED astray

(* A write is answered with success and its shard is cached, it is reported as *)
(* failed although its row is there, or it fails before.                       *)
Committed(r, x) ==
  /\ AddRow(r, x)
  /\ cached' = [cached EXCEPT ![r] = {x}]
  /\ UNCHANGED astray
CommittedUntold(r, x) ==
  /\ AddRow(r, x)
  /\ cached' = [cached EXCEPT ![r] = Seen(r)]
  /\ astray' = astray \cup {r}
NotCommitted(r) ==
  /\ cached' \in {cached, [cached EXCEPT ![r] = Seen(r)]}
  /\ UNCHANGED <<repo, late, astray>>

-------------------------------------------------------------------------------
(* Manager.GetRecord hands the record to its handler, which answers with it,   *)
(* or goes on to change it.                                                    *)
GetRecord(p, x) ==
  \/ req[p].op = "view" /\ Return(p)
  \/ req[p].op \in {"name", "phone"} /\ GotoWith(p, "putRecord", x)

(* PDS.RecordExists, asked for the bill that is to be created.                 *)
RecordExists(p, x) ==
  /\ req[p].op = "create" /\ x.bills[req[p].bill] = Absent
  /\ GotoWith(p, "putBill", Nothing)

(* The repo is opened on the shard that shows x, or the request fails, or ends *)
(* since the bill is there.                                                    *)
Read(p, x) == GetRecord(p, x) \/ RecordExists(p, x) \/ Return(p)

(* lastShardCache.get, without the lock.                                       *)
CacheHit(p) ==
  /\ At(p, "read")
  /\ \E x \in cached[req[p].who] : Read(p, x)
  /\ UNCHANGED <<repos, edits>>

CacheMiss(p) ==
  /\ At(p, "read")
  /\ cached[req[p].who] = {} /\ Goto(p, "query")
  /\ UNCHANGED <<repos, edits>>

GetLastShard(p) ==
  /\ At(p, "query")
  /\ GotoWith(p, "fill", repo[req[p].who]) \/ Return(p)
  /\ UNCHANGED <<repos, edits>>

(* What was found is cached. (If a write has looked the shard up and has still *)
(* to cache its own, nothing is left of it.)                                   *)
FillCache(p) ==
  /\ At(p, "fill")
  /\ LET r == req[p].who IN
       \/ /\ cached' = [cached EXCEPT ![r] = {got[p]}]
          /\ astray' = IF p \in late THEN astray \cup {r} ELSE astray
       \/ UNCHANGED <<cached, astray>>
  /\ late' = late \ {p}
  /\ Read(p, got[p])
  /\ UNCHANGED <<repo, edits>>

(* handleGetUserProfile, handleGetLegislator, and the page of a bill.          *)
View(p) ==
  /\ \E r \in Repos : Request(p, "read", [op |-> "view", who |-> r])
  /\ UNCHANGED <<repos, edits>>

-------------------------------------------------------------------------------
(* Requests that write what the repo and the database both keep of a, and have *)
(* not ended.                                                                  *)
Editors(a) == {p \in Procs : req[p].op \in {"user", "name", "phone"} /\ req[p].who = a}

Disturb(a) == disturbed' = disturbed \cup {a}

(* handleUpdateUserProfile with a display name: the record is written first,   *)
(* whole. (A new handle or email is in the database only.)                     *)
UpdateProfile(p) ==
  /\ \E u \in Users :
       /\ \E n \in Names : Request(p, "putRecord", [op |-> "user", who |-> u, name |-> n])
       /\ IF Editors(u) = {} THEN UNCHANGED disturbed ELSE Disturb(u)
  /\ UNCHANGED <<repos, dbName, names, sent>>

(* handleUpdateLegislator, once it has the row.                                *)
UpdateLegislator(p) ==
  /\ \E l \in Legislators :
       /\ \/ \E n \in Names : Request(p, "read", [op |-> "name", who |-> l, name |-> n])
          \/ \E x \in Phones : Request(p, "read", [op |-> "phone", who |-> l, phone |-> x])
       /\ IF Editors(l) = {} THEN UNCHANGED disturbed ELSE Disturb(l)
  /\ UNCHANGED <<repos, dbName, names, sent>>

(* The record a request writes: of a user, a display name and nothing else; of *)
(* a legislator, what it read with the fields that were sent.                  *)
NewRecord(p) ==
  CASE req[p].op = "user"  -> [name |-> req[p].name, phone |-> Absent]
    [] req[p].op = "name"  -> [got[p] EXCEPT !.name = req[p].name]
    [] req[p].op = "phone" -> [got[p] EXCEPT !.phone = req[p].phone]

NoteName(a, n) == names' = [names EXCEPT ![a] = @ \cup {n}]

(* Mutant: a failed write of the record is only logged.                        *)
PutRecordUnchecked(p) ==
  /\ At(p, "putRecord")
  /\ LET a == req[p].who  x == NewRecord(p) IN
       \/ (Committed(a, x) \/ CommittedUntold(a, x)) /\ NoteName(a, x.name)
       \/ NotCommitted(a) /\ UNCHANGED names
  /\ Goto(p, "validate")
  /\ UNCHANGED <<dbName, sent, disturbed>>

(* PDS.UpdateRecord. The record is there in every tree of the repo.            *)
PutRecord(p) ==
  /\ At(p, "putRecord")
  /\ LET a == req[p].who  x == NewRecord(p) IN
       \/ Committed(a, x) /\ NoteName(a, x.name) /\ Goto(p, "validate") /\ UNCHANGED disturbed
       \/ CommittedUntold(a, x) /\ NoteName(a, x.name) /\ Return(p) /\ Disturb(a)
       \/ NotCommitted(a) /\ UNCHANGED <<names, disturbed>> /\ Return(p)
  /\ UNCHANGED <<dbName, sent>>

(* A request fails with its record written.                                    *)
FailHalfway(p) ==
  /\ Disturb(req[p].who)
  /\ Return(p)

(* ValidateHandle and the check of the email, when they are asked for.         *)
Validate(p) ==
  /\ At(p, "validate")
  /\ \/ Goto(p, "update") /\ UNCHANGED disturbed
     \/ FailHalfway(p)
  /\ UNCHANGED <<repos, dbName, names, sent>>

(* What the edits of a have asked for once p's is done.                        *)
Sent(p) ==
  LET a == req[p].who IN
  CASE req[p].op = "user"   -> [sent EXCEPT ![a] = [name |-> req[p].name, phone |-> Absent]]
    [] req[p].op = "name"   -> [sent EXCEPT ![a].name = req[p].name]
    [] req[p].op = "phone"  -> [sent EXCEPT ![a].phone = req[p].phone]

(* The column, if it is sent: what is zero is left out of the statement.       *)
NameSent(p) ==
  IF req[p].op \in {"user", "name"} THEN req[p].name ELSE dbName[req[p].who]

(* Mutant: the row is given what was read, and not what was sent.              *)
UpdateRowAsRead(p) ==
  /\ At(p, "update")
  /\ dbName' = [dbName EXCEPT ![req[p].who] = got[p].name]
  /\ sent' = Sent(p)
  /\ UNCHANGED disturbed /\ Return(p)
  /\ UNCHANGED <<repos, names>>

(* View.UpdateUserProfile, View.UpdateLegislator: a transaction that sets what *)
(* was sent; the phone is kept in the repo only.                               *)
UpdateRow(p) ==
  /\ At(p, "update")
  /\ LET a == req[p].who IN
       \/ /\ dbName' = [dbName EXCEPT ![a] = NameSent(p)]
          /\ sent' = Sent(p)
          /\ UNCHANGED disturbed /\ Return(p)
       \/ /\ dbName' \in {dbName, [dbName EXCEPT ![a] = NameSent(p)]}
          /\ UNCHANGED sent /\ FailHalfway(p)
  /\ UNCHANGED <<repos, names>>

-------------------------------------------------------------------------------
(* A bill is asked for in its repo before it is created, ...                   *)
CreateBill(p) ==
  /\ \E k \in Bills, n \in Names :
       Request(p, "read", [op |-> "create", who |-> System, bill |-> k, to |-> n])
  /\ UNCHANGED <<repos, edits>>

(* ... and changed or removed without.                                         *)
UpdateBill(p) ==
  /\ \E k \in Bills, n \in Names :
       Request(p, "putBill", [op |-> "update", who |-> System, bill |-> k, to |-> n])
  /\ UNCHANGED <<repos, edits>>

DeleteBill(p) ==
  /\ \E k \in Bills :
       Request(p, "putBill", [op |-> "delete", who |-> System, bill |-> k, to |-> Absent])
  /\ UNCHANGED <<repos, edits>>

(* Mutant: the tree takes a key that it has.                                   *)
TreeAfterAnyway(p, tree) == {[tree EXCEPT !.bills[req[p].bill] = req[p].to]}

(* The tree refuses to add a key that it has, to change or to remove one that  *)
(* it has not.                                                                 *)
TreeAfter(p, tree) ==
  IF (tree.bills[req[p].bill] = Absent) = (req[p].op = "create")
    THEN {[tree EXCEPT !.bills[req[p].bill] = req[p].to]} ELSE {}

(* PDS.CreateRecord, UpdateRecord and DeleteRecord of a bill.                  *)
PutBill(p) ==
  /\ At(p, "putBill")
  /\ \/ \E tree \in Seen(System) : \E x \in TreeAfter(p, tree) :
          Committed(System, x) \/ CommittedUntold(System, x)
     \/ NotCommitted(System)
  /\ Return(p)
  /\ UNCHANGED edits

-------------------------------------------------------------------------------
(* handleGraphFollow: a record is created under a fresh key, which nothing     *)
(* reads, ...                                                                  *)
Follow(p) ==
  /\ \E u \in Users : Request(p, "putFollow", [op |-> "follow", who |-> u])
  /\ UNCHANGED <<repos, edits>>

(* ... beside the profile that the last shard shows.                           *)
PutFollow(p) ==
  /\ At(p, "putFollow")
  /\ LET u == req[p].who IN
       \/ \E x \in Seen(u) :
            \/ Committed(u, x) /\ Goto(p, "followRow")
            \/ CommittedUntold(u, x) /\ Return(p)
       \/ NotCommitted(u) /\ Return(p)
  /\ UNCHANGED edits

(* The statement that inserts its row, whatever the row, has the clause of     *)
(* OnConflictDoUpdate, which names a table "EXLUDED": Postgres refuses it, and *)
(* the transaction with the counters is rolled back.                           *)
RefuseRow(p) ==
  /\ At(p, "followRow") /\ Return(p)
  /\ UNCHANGED <<repos, edits>>

(* handleGraphUnfollow.                                                        *)
Unfollow(p) ==
  /\ \E u \in Users : Request(p, "unfollowRow", [op |-> "unfollow", who |-> u])
  /\ UNCHANGED <<repos, edits>>

(* There is never a row to update, hence no record to delete.                  *)
FindNoRow(p) ==
  /\ At(p, "unfollowRow") /\ Return(p)
  /\ UNCHANGED <<repos, edits>>

-------------------------------------------------------------------------------
(* The process dies and is restarted: requests and the cache are gone.         *)
Restart ==
  /\ cached' = [r \in Repos |-> {}] /\ late' = {}
  /\ pc' = [p \in Procs |-> "idle"]
  /\ req' = [p \in Procs |-> NoRequest] /\ got' = [p \in Procs |-> Nothing]
  /\ LET halfway == {p \in Procs : pc[p] \in {"validate", "update"}} IN
       disturbed' = disturbed \cup {req[p].who : p \in halfway}
  /\ UNCHANGED <<repo, astray, dbName, names, sent>>

Serve(p) ==
  \/ View(p) \/ CacheHit(p) \/ CacheMiss(p) \/ GetLastShard(p) \/ FillCache(p)
  \/ UpdateProfile(p) \/ UpdateLegislator(p) \/ PutRecord(p) \/ Validate(p) \/ UpdateRow(p)
  \/ CreateBill(p) \/ UpdateBill(p) \/ DeleteBill(p) \/ PutBill(p)
  \/ Follow(p) \/ PutFollow(p) \/ RefuseRow(p) \/ Unfollow(p) \/ FindNoRow(p)

Next == Restart \/ \E p \in Procs : Serve(p)

Spec == Init /\ [][Next]_vars
-------------------------------------------------------------------------------
Requests ==
  {NoRequest}
    \cup [op : {"view"}, who : Repos]
    \cup [op : {"user"}, who : Users, name : Names]
    \cup [op : {"follow", "unfollow"}, who : Users]
    \cup [op : {"name"}, who : Legislators, name : Names]
    \cup [op : {"phone"}, who : Legislators, phone : Phones]
    \cup [op : {"create", "update", "delete"}, who : {System}, bill : Bills,
          to : Names \cup {Absent}]

(* Every variable has its type.                                                *)
TypeOK ==
  /\ DOMAIN repo = Repos /\ DOMAIN cached = Repos
  /\ \A r \in Repos : repo[r] \in Contents(r) /\ cached[r] \subseteq Contents(r)
  /\ late \subseteq Procs /\ astray \subseteq Repos
  /\ dbName \in [Accounts -> Names]
  /\ names \in [Accounts -> SUBSET Names] /\ sent \in [Accounts -> Profile]
  /\ disturbed \subseteq Accounts
  /\ pc \in [Procs -> {"idle", "read", "query", "fill", "putRecord", "validate", "update",
                       "putBill", "putFollow", "followRow", "unfollowRow"}]
  /\ req \in [Procs -> Requests]
  /\ got \in [Procs -> Profile \cup BillRecords \cup {Nothing}]

(* The database never has a name that the account's record never had: the repo *)
(* is written first, and a failure, or two updates of one account that run     *)
(* beside each other, leave the database behind and not ahead.                 *)
DbNameWasRecorded == \A a \in Accounts : dbName[a] \in names[a]

(* Updates of an account that follow each other, and that do not stop halfway, *)
(* lose nothing, whatever is read or followed beside them and however often    *)
(* the process restarts: the record has every field as it was sent last, and   *)
(* the row agrees. But for two cases: two updates that overlap may lose a      *)
(* field, or leave record and row different for good; and a read that fills    *)
(* the cache after a commit it missed, or a commit reported as failed, makes   *)
(* later requests read and write beside what was committed.                    *)
EditsAgree ==
  \A a \in Accounts \ (disturbed \cup astray) :
    Editors(a) = {} => repo[a] = sent[a] /\ dbName[a] = repo[a].name

(* A bill is changed by those who set out to change it: of two creations that  *)
(* both found it missing the second is refused. Only a cache left behind, by a *)
(* read without the lock or by a commit reported as failed, lets it through.   *)
CreatedOnce ==
  [][\A k \in Bills :
       /\ System \notin astray
       /\ repo[System].bills[k] # Absent /\ repo'[System].bills[k] # repo[System].bills[k]
       => \E p \in Procs : /\ req[p].op \in {"update", "delete"} /\ req[p].bill = k
                          /\ ~At(p, "idle") /\ pc'[p] = "idle"]_vars
===============================================================================
