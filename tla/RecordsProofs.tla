----------------------------- MODULE RecordsProofs -----------------------------
(* Theorems about Records, for any number of requests, accounts, names and     *)
(* bills; and then about Codec, which encodes what is stored, for values and   *)
(* blocks as unusual as one likes.                                             *)
EXTENDS Records, Codec, WellFoundedInduction, TLAPS

Points == {"idle", "read", "query", "fill", "putRecord", "validate", "update",
           "putBill", "putFollow", "followRow", "unfollowRow"}
Edits == {"user", "name", "phone"}

(* The types: of what is kept, of the requests, and of the repos.              *)
EditTypes ==
  /\ dbName \in [Accounts -> Names]
  /\ names \in [Accounts -> SUBSET Names] /\ sent \in [Accounts -> Profile]
  /\ disturbed \subseteq Accounts
RequestTypes ==
  /\ pc \in [Procs -> Points]
  /\ req \in [Procs -> Requests]
  /\ got \in [Procs -> Profile \cup BillRecords \cup {Nothing}]
RepoTypes ==
  /\ DOMAIN repo = Repos /\ DOMAIN cached = Repos
  /\ \A r \in Repos : repo[r] \in Contents(r) /\ cached[r] \subseteq Contents(r)
  /\ late \subseteq Procs /\ astray \subseteq Repos

(* What a request can be for, at the point where it is.                        *)
PointOK(p) ==
  /\ pc[p] = "idle" <=> req[p] = NoRequest
  /\ pc[p] \in {"read", "query", "fill"} => req[p].op \in {"view", "name", "phone", "create"}
  /\ pc[p] = "fill" => got[p] \in Contents(req[p].who)
  /\ pc[p] \in {"putRecord", "validate", "update"} => req[p].op \in Edits
  /\ pc[p] = "putRecord" /\ req[p].op # "user" => got[p] \in Profile
  /\ pc[p] = "putBill" => req[p].op \in {"create", "update", "delete"}
  /\ pc[p] \in {"putFollow", "followRow"} => req[p].op = "follow"
  /\ pc[p] = "unfollowRow" => req[p].op = "unfollow"

(* Unless a repo went astray, its cached shard is the last one, and so is what *)
(* a request is about to cache, if nothing was committed since it was found.   *)
CacheOK ==
  \A r \in Repos \ astray :
    /\ cached[r] \subseteq {repo[r]}
    /\ \A p \in Procs \ late : pc[p] = "fill" /\ req[p].who = r => got[p] = repo[r]

(* The names in the shards of an account, and those in the database or on the  *)
(* way to it, are among those its record had.                                  *)
RepoNames ==
  \A a \in Accounts :
    /\ repo[a].name \in names[a]
    /\ \A x \in cached[a] : x.name \in names[a]
    /\ \A p \in Procs : pc[p] = "fill" /\ req[p].who = a => got[p].name \in names[a]
EditNames ==
  /\ \A a \in Accounts : dbName[a] \in names[a]
  /\ \A p \in Procs : pc[p] \in {"validate", "update"} /\ req[p].op \in {"user", "name"} =>
       req[p].name \in names[req[p].who]

(* An account that nothing disturbed and that is not astray has one edit at a  *)
(* time, which works on what the edits before it have left.                    *)
Edited(p) ==
  LET a == req[p].who IN
  CASE req[p].op = "user"  -> [name |-> req[p].name, phone |-> Absent]
    [] req[p].op = "name"  -> [sent[a] EXCEPT !.name = req[p].name]
    [] req[p].op = "phone" -> [sent[a] EXCEPT !.phone = req[p].phone]
EditOK(a) ==
  /\ dbName[a] = sent[a].name
  /\ Editors(a) = {} => repo[a] = sent[a]
  /\ \A p, q \in Editors(a) : p = q
  /\ \A p \in Editors(a) :
       /\ pc[p] \in {"read", "query", "fill", "putRecord"} => repo[a] = sent[a]
       /\ pc[p] \in {"fill", "putRecord"} /\ req[p].op # "user" => got[p] = repo[a]
       /\ pc[p] \in {"validate", "update"} => repo[a] = Edited(p)

RepoInv == RepoTypes /\ CacheOK /\ RepoNames
EditInv == EditTypes /\ EditNames /\ \A a \in Accounts \ (disturbed \cup astray) : EditOK(a)
Inv == RequestTypes /\ (\A p \in Procs : PointOK(p)) /\ RepoInv /\ EditInv
-------------------------------------------------------------------------------
(* The fields that a request has.                                              *)
LEMMA RequestFields ==
  ASSUME NEW r \in Requests
  PROVE  /\ r.op = "user" => r.who \in Users /\ r.name \in Names
         /\ r.op = "name" => r.who \in Legislators /\ r.name \in Names
         /\ r.op = "phone" => r.who \in Legislators /\ r.phone \in Phones
         /\ r.op = "view" => r.who \in Repos
         /\ r.op \in {"follow", "unfollow"} => r.who \in Users
         /\ r.op \in {"create", "update", "delete"} =>
              r.who = System /\ r.bill \in Bills /\ r.to \in Names \cup {Absent}
         /\ r.op \in Edits => r.who \in Accounts
         /\ r # NoRequest => r.op # "none" /\ r.who \in Repos
<1> USE DEF Edits, Accounts, Repos
<1>1. CASE r = NoRequest
  BY <1>1 DEF NoRequest
<1>2. CASE r \in [op : {"user"}, who : Users, name : Names]
  BY <1>2
<1>3. CASE r \in [op : {"follow", "unfollow"}, who : Users]
  BY <1>3
<1>4. CASE r \in [op : {"name"}, who : Legislators, name : Names]
  BY <1>4
<1>5. CASE r \in [op : {"phone"}, who : Legislators, phone : Phones]
  BY <1>5
<1>6. CASE r \in [op : {"create", "update", "delete"}, who : {System}, bill : Bills,
                  to : Names \cup {Absent}]
  BY <1>6
<1>7. CASE r \in [op : {"view"}, who : Repos]
  BY <1>7
<1> QED
  BY <1>1, <1>2, <1>3, <1>4, <1>5, <1>6, <1>7 DEF Requests

(* An account's repo shows a profile.                                          *)
LEMMA AccountContents ==
  ASSUME NEW a \in Accounts
  PROVE  a \in Repos /\ a # System /\ Contents(a) = Profile
BY ValuesAssumption DEF Repos, Contents

(* A request's step, as it is for the other requests.                          *)
Others(p) == \A q \in Procs \ {p} : pc'[q] = pc[q] /\ req'[q] = req[q] /\ got'[q] = got[q]

(* How a request goes from point to point.                                     *)
LEMMA Moves ==
  ASSUME RequestTypes, NEW p \in Procs
  PROVE  /\ \A point \in Points, r \in Requests : Request(p, point, r) =>
              /\ RequestTypes' /\ Others(p) /\ pc[p] = "idle"
              /\ pc'[p] = point /\ req'[p] = r
         /\ \A point \in Points : Goto(p, point) =>
              RequestTypes' /\ Others(p) /\ pc'[p] = point /\ req' = req /\ got' = got
         /\ \A point \in Points, x \in Profile \cup BillRecords \cup {Nothing} :
              GotoWith(p, point, x) =>
                RequestTypes' /\ Others(p) /\ pc'[p] = point /\ req' = req /\ got'[p] = x
         /\ Return(p) => RequestTypes' /\ Others(p) /\ pc'[p] = "idle" /\ req'[p] = NoRequest
<1>t. /\ pc \in [Procs -> Points] /\ req \in [Procs -> Requests]
      /\ got \in [Procs -> Profile \cup BillRecords \cup {Nothing}]
  BY DEF RequestTypes
<1>1. ASSUME NEW point \in Points, NEW r \in Requests, Request(p, point, r)
      PROVE  RequestTypes' /\ Others(p) /\ pc[p] = "idle" /\ pc'[p] = point /\ req'[p] = r
  BY <1>t, <1>1 DEF Request, RequestTypes, Others
<1>2. ASSUME NEW point \in Points, Goto(p, point)
      PROVE  RequestTypes' /\ Others(p) /\ pc'[p] = point /\ req' = req /\ got' = got
  BY <1>t, <1>2 DEF Goto, RequestTypes, Others
<1>3. ASSUME NEW point \in Points, NEW x \in Profile \cup BillRecords \cup {Nothing},
             GotoWith(p, point, x)
      PROVE  RequestTypes' /\ Others(p) /\ pc'[p] = point /\ req' = req /\ got'[p] = x
  BY <1>t, <1>3 DEF GotoWith, RequestTypes, Others
<1>4. ASSUME Return(p) PROVE RequestTypes' /\ Others(p) /\ pc'[p] = "idle" /\ req'[p] = NoRequest
  <2>1. "idle" \in Points /\ NoRequest \in Requests
    BY DEF Points, Requests
  <2> QED
    BY <1>t, <1>4, <2>1 DEF Return, RequestTypes, Others
<1> QED
  BY <1>1, <1>2, <1>3, <1>4

(* A request that has ended is at no point that asks for anything.             *)
LEMMA Returned ==
  ASSUME NEW p \in Procs, RequestTypes, Return(p)
  PROVE  /\ RequestTypes' /\ Others(p) /\ PointOK(p)'
         /\ pc'[p] = "idle" /\ req'[p] = NoRequest /\ req'[p].op \notin Edits
BY Moves DEF PointOK, NoRequest, Edits

(* What the others are at is untouched.                                        *)
LEMMA PointsUntouched ==
  ASSUME NEW p \in Procs, Others(p), \A q \in Procs : PointOK(q)
  PROVE  \A q \in Procs \ {p} : PointOK(q)'
BY DEF Others, PointOK, Contents

-------------------------------------------------------------------------------
(* What the cache shows is of the right kind, and current unless astray.       *)
LEMMA SeenIsLast ==
  ASSUME RepoInv, NEW r \in Repos
  PROVE  /\ Seen(r) \subseteq Contents(r)
         /\ r \notin astray => Seen(r) = {repo[r]}
         /\ r \in Accounts => \A x \in Seen(r) : x.name \in names[r]
BY DEF RepoInv, RepoTypes, CacheOK, RepoNames, Seen

(* A step that leaves the repos alone, of a request that is not to fill.       *)
LEMMA ReposUntouched ==
  ASSUME RepoInv, NEW p \in Procs, Others(p), pc'[p] # "fill", UNCHANGED repos,
         \A a \in Accounts : names[a] \subseteq names'[a]
  PROVE  RepoInv'
<1>u. UNCHANGED <<repo, cached, late, astray>>
  BY DEF repos
<1>o. \A q \in Procs : pc'[q] = "fill" => pc[q] = "fill" /\ req'[q] = req[q] /\ got'[q] = got[q]
  BY DEF Others
<1>1. RepoTypes'
  BY <1>u DEF RepoInv, RepoTypes, Contents
<1>2. CacheOK'
  BY <1>u, <1>o DEF RepoInv, CacheOK
<1>3. RepoNames'
  BY <1>u, <1>o DEF RepoInv, RepoNames
<1> QED
  BY <1>1, <1>2, <1>3 DEF RepoInv

(* What a request finds in the database is the last shard.                     *)
LEMMA FoundIsLast ==
  ASSUME RepoInv, NEW p \in Procs, Others(p), req'[p] = req[p], UNCHANGED <<repos, names>>,
         req[p].who \in Repos, got'[p] = repo[req[p].who]
  PROVE  RepoInv'
<1>u. UNCHANGED <<repo, cached, late, astray>>
  BY DEF repos
<1>1. RepoTypes'
  BY <1>u DEF RepoInv, RepoTypes, Contents
<1>2. CacheOK'
  BY <1>u DEF RepoInv, CacheOK, Others
<1>3. RepoNames'
  BY <1>u DEF RepoInv, RepoNames, Others
<1> QED
  BY <1>1, <1>2, <1>3 DEF RepoInv

(* What is filled in the cache is the last shard, or the repo goes astray.     *)
LEMMA FillKeepsRepos ==
  ASSUME RepoInv, NEW p \in Procs, Others(p), PointOK(p), req[p].who \in Repos,
         pc'[p] # "fill", FillCache(p)
  PROVE  RepoInv' /\ astray \subseteq astray' /\ repo' = repo
<1> DEFINE r == req[p].who
<1>f. /\ pc[p] = "fill" /\ UNCHANGED <<repo, names>> /\ late' = late \ {p}
      /\ \/ /\ cached' = [cached EXCEPT ![r] = {got[p]}]
            /\ astray' = IF p \in late THEN astray \cup {r} ELSE astray
         \/ UNCHANGED <<cached, astray>>
  BY DEF FillCache, At, edits
<1>g. got[p] \in Contents(r)
  BY <1>f DEF PointOK
<1>n. r \in Accounts => got[p].name \in names[r]
  BY <1>f DEF RepoInv, RepoNames
<1>o. \A q \in Procs : pc'[q] = "fill" =>
        q # p /\ pc[q] = "fill" /\ req'[q] = req[q] /\ got'[q] = got[q]
  BY DEF Others
<1>c. /\ DOMAIN cached' = Repos
      /\ \A s \in Repos : cached'[s] = cached[s] \/ (s = r /\ cached'[s] = {got[p]})
  BY <1>f DEF RepoInv, RepoTypes
<1>1. RepoTypes'
  <2>1. \A s \in Repos : cached'[s] \subseteq Contents(s)
    BY <1>c, <1>g DEF RepoInv, RepoTypes
  <2> QED
    BY <1>f, <1>c, <2>1 DEF RepoInv, RepoTypes, Contents
<1>2. CacheOK'
  <2>1. ASSUME NEW s \in Repos, s \notin astray' PROVE cached'[s] \subseteq {repo[s]} /\ s \notin astray
    <3>1. s \notin astray /\ cached[s] \subseteq {repo[s]}
      BY <1>f, <2>1 DEF RepoInv, CacheOK
    <3>2. CASE cached'[s] = cached[s]
      BY <3>1, <3>2
    <3>3. CASE cached'[s] # cached[s]
      <4>1. s = r /\ cached'[s] = {got[p]} /\ p \notin late
        BY <1>c, <1>f, <2>1, <3>3
      <4>2. got[p] = repo[s]
        BY <1>f, <3>1, <4>1 DEF RepoInv, CacheOK
      <4> QED
        BY <3>1, <4>1, <4>2
    <3> QED
      BY <3>2, <3>3
  <2>2. \A q \in Procs : q \notin late' /\ pc'[q] = "fill" => q \notin late
    BY <1>f, <1>o
  <2> QED
    BY <1>f, <1>o, <2>1, <2>2 DEF RepoInv, CacheOK
<1>3. RepoNames'
  <2>1. \A a \in Accounts : \A x \in cached'[a] : x.name \in names[a]
    BY <1>c, <1>n, AccountContents DEF RepoInv, RepoNames
  <2> QED
    BY <1>f, <1>o, <2>1 DEF RepoInv, RepoNames
<1> QED
  BY <1>f, <1>1, <1>2, <1>3 DEF RepoInv

(* A commit, told or not, leaves the last shard in the cache or the repo       *)
(* astray; and makes late who is about to cache the shard before it.           *)
LEMMA WriteKeepsRepos ==
  ASSUME RepoInv, NEW p \in Procs, Others(p), pc'[p] # "fill", NEW r \in Repos,
         NEW x \in Contents(r), r \in Accounts => x.name \in names'[r],
         \A a \in Accounts : names[a] \subseteq names'[a],
         Committed(r, x) \/ CommittedUntold(r, x)
  PROVE  /\ RepoInv' /\ astray \subseteq astray'
         /\ \A s \in Repos \ {r} : repo'[s] = repo[s]
         /\ r \notin astray' => repo'[r] = x
<1>t. RepoTypes
  BY DEF RepoInv
<1>1. /\ repo' = [repo EXCEPT ![r] = x] \/ (r \in astray /\ repo' = repo)
      /\ late' = late \cup {q \in Procs : pc[q] = "fill" /\ req[q].who = r}
  <2>1. AddRow(r, x)
    BY DEF Committed, CommittedUntold
  <2> QED
    BY <2>1 DEF AddRow, At
<1>2. \/ cached' = [cached EXCEPT ![r] = {x}] /\ astray' = astray
      \/ cached' = [cached EXCEPT ![r] = Seen(r)] /\ astray' = astray \cup {r}
  BY DEF Committed, CommittedUntold
<1>3. /\ DOMAIN repo' = Repos
      /\ repo'[r] = x \/ (r \in astray /\ repo'[r] = repo[r])
      /\ \A s \in Repos \ {r} : repo'[s] = repo[s]
  BY <1>t, <1>1 DEF RepoTypes
<1>4. /\ DOMAIN cached' = Repos
      /\ cached'[r] = {x} \/ (r \in astray' /\ cached'[r] = Seen(r))
      /\ \A s \in Repos \ {r} : cached'[s] = cached[s]
  BY <1>t, <1>2 DEF RepoTypes
<1>5. astray \subseteq astray' /\ astray' \subseteq Repos
  BY <1>t, <1>2 DEF RepoTypes
<1>o. \A q \in Procs : pc'[q] = "fill" =>
        pc[q] = "fill" /\ req'[q] = req[q] /\ got'[q] = got[q]
  BY DEF Others
<1>s. Seen(r) \subseteq Contents(r) /\ (r \in Accounts => \A y \in Seen(r) : y.name \in names[r])
  BY SeenIsLast
<1>6. RepoTypes'
  <2>1. \A s \in Repos : repo'[s] \in Contents(s) /\ cached'[s] \subseteq Contents(s)
    BY <1>t, <1>3, <1>4, <1>s DEF RepoTypes
  <2> QED
    BY <1>t, <1>1, <1>3, <1>4, <1>5, <2>1 DEF RepoTypes, Contents
<1>7. CacheOK'
  <2>1. ASSUME NEW s \in Repos, s \notin astray' PROVE cached'[s] \subseteq {repo'[s]}
    BY <1>3, <1>4, <1>5, <2>1 DEF RepoInv, CacheOK
  <2>2. ASSUME NEW s \in Repos, s \notin astray', NEW q \in Procs, q \notin late',
               pc'[q] = "fill", req'[q].who = s
        PROVE  got'[q] = repo'[s]
    <3>1. s # r /\ q \notin late
      BY <1>1, <1>o, <2>2
    <3> QED
      BY <1>3, <1>5, <1>o, <2>2, <3>1 DEF RepoInv, CacheOK
  <2> QED
    BY <2>1, <2>2 DEF CacheOK
<1>8. RepoNames'
  <2>1. ASSUME NEW a \in Accounts
        PROVE  repo'[a].name \in names'[a] /\ \A y \in cached'[a] : y.name \in names'[a]
    <3>1. a \in Repos /\ names[a] \subseteq names'[a]
      BY AccountContents
    <3>2. repo[a].name \in names[a] /\ \A y \in cached[a] : y.name \in names[a]
      BY DEF RepoInv, RepoNames
    <3> QED
      BY <1>3, <1>4, <1>s, <3>1, <3>2
  <2> QED
    BY <1>o, <2>1 DEF RepoInv, RepoNames
<1> QED
  BY <1>3, <1>5, <1>6, <1>7, <1>8 DEF RepoInv

(* A write that fails has cached the last shard at most.                       *)
LEMMA FailedWriteKeepsRepos ==
  ASSUME RepoInv, NEW p \in Procs, Others(p), pc'[p] # "fill", NEW r \in Repos,
         UNCHANGED names, NotCommitted(r)
  PROVE  RepoInv' /\ astray' = astray /\ repo' = repo
<1>u. UNCHANGED <<repo, late, astray>> /\ cached' \in {cached, [cached EXCEPT ![r] = Seen(r)]}
  BY DEF NotCommitted
<1>c. /\ DOMAIN cached' = Repos
      /\ \A s \in Repos : cached'[s] = cached[s] \/ (s = r /\ cached'[s] = Seen(s))
  BY <1>u DEF RepoInv, RepoTypes
<1>o. \A q \in Procs : pc'[q] = "fill" =>
        pc[q] = "fill" /\ req'[q] = req[q] /\ got'[q] = got[q]
  BY DEF Others
<1>1. RepoTypes'
  <2>1. \A s \in Repos : cached'[s] \subseteq Contents(s)
    BY <1>c, SeenIsLast DEF RepoInv, RepoTypes
  <2> QED
    BY <1>u, <1>c, <2>1 DEF RepoInv, RepoTypes, Contents
<1>2. CacheOK'
  <2>1. \A s \in Repos \ astray : cached'[s] \subseteq {repo[s]}
    BY <1>c, SeenIsLast DEF RepoInv, CacheOK
  <2> QED
    BY <1>u, <1>o, <2>1 DEF RepoInv, CacheOK
<1>3. RepoNames'
  <2>1. \A a \in Accounts : \A y \in cached'[a] : y.name \in names[a]
    BY <1>c, AccountContents, SeenIsLast DEF RepoInv, RepoNames
  <2> QED
    BY <1>u, <1>o, <2>1 DEF RepoInv, RepoNames
<1> QED
  BY <1>u, <1>1, <1>2, <1>3 DEF RepoInv

-------------------------------------------------------------------------------
(* An account is as it was for a request that is no edit of it.                *)
LEMMA EditUntouched ==
  ASSUME NEW a, NEW p \in Procs, Others(p), EditOK(a), p \notin Editors(a), p \notin Editors(a)',
         repo'[a] = repo[a], dbName'[a] = dbName[a], sent'[a] = sent[a]
  PROVE  EditOK(a)'
<1>1. Editors(a)' = Editors(a)
  BY DEF Editors, Others
<1>2. \A q \in Editors(a) : pc'[q] = pc[q] /\ req'[q] = req[q] /\ got'[q] = got[q] /\ req[q].who = a
  BY DEF Editors, Others
<1>3. \A q \in Editors(a) : Edited(q)' = Edited(q)
  BY <1>2 DEF Edited
<1> QED
  BY <1>1, <1>2, <1>3 DEF EditOK

(* The names on their way are kept, and names only grow.                       *)
LEMMA NamesUntouched ==
  ASSUME Inv, NEW p \in Procs, Others(p),
         \A a \in Accounts : names[a] \subseteq names'[a],
         \A a \in Accounts : dbName'[a] \in names'[a],
         pc'[p] \in {"validate", "update"} /\ req'[p].op \in {"user", "name"} =>
           req'[p].name \in names'[req'[p].who]
  PROVE  EditNames'
<1>1. ASSUME NEW q \in Procs \ {p}, pc'[q] \in {"validate", "update"}, req'[q].op \in {"user", "name"}
      PROVE  req'[q].name \in names'[req'[q].who]
  <2>1. req[q].name \in names[req[q].who] /\ req'[q] = req[q]
    BY <1>1 DEF Inv, EditInv, EditNames, Others
  <2>2. req[q].who \in Accounts
    BY <1>1, <2>1, RequestFields DEF Inv, RequestTypes, Edits
  <2> QED
    BY <2>1, <2>2
<1> QED
  BY <1>1 DEF EditNames

(* The step of a request that is no edit leaves the edits alone, if it leaves  *)
(* the profiles that are not astray alone.                                     *)
LEMMA AsideKept ==
  ASSUME Inv, NEW p \in Procs, RequestTypes', Others(p), PointOK(p)', RepoInv',
         req[p].op \notin Edits, req'[p].op \notin Edits, UNCHANGED edits,
         astray \subseteq astray', \A a \in Accounts \ astray' : repo'[a] = repo[a]
  PROVE  Inv'
<1>u. UNCHANGED <<dbName, names, sent, disturbed>>
  BY DEF edits
<1>1. \A q \in Procs : PointOK(q)'
  BY PointsUntouched DEF Inv
<1>2. EditTypes'
  BY <1>u DEF Inv, EditInv, EditTypes
<1>3. EditNames'
  <2>1. pc'[p] \notin {"validate", "update"}
    BY DEF PointOK
  <2> QED
    BY <1>u, <2>1, NamesUntouched DEF Inv, EditInv, EditNames
<1>4. ASSUME NEW a \in Accounts \ (disturbed' \cup astray') PROVE EditOK(a)'
  <2>1. p \notin Editors(a) /\ p \notin Editors(a)' /\ EditOK(a)
    BY <1>u DEF Editors, Edits, Inv, EditInv
  <2> QED
    BY <1>u, <2>1, EditUntouched
<1> QED
  BY <1>1, <1>2, <1>3, <1>4 DEF Inv, EditInv

(* What an edit's step has to see to: its own account, unless disturbed.       *)
LEMMA EditKept ==
  ASSUME Inv, NEW p \in Procs, req[p].op \in Edits,
         Others(p), req'[p] = req[p] \/ req'[p] = NoRequest,
         RequestTypes', PointOK(p)', RepoInv', EditTypes', EditNames',
         disturbed \subseteq disturbed', astray \subseteq astray',
         \A a \in Accounts \ {req[p].who} :
           repo'[a] = repo[a] /\ dbName'[a] = dbName[a] /\ sent'[a] = sent[a],
         \A w \in Accounts \ (disturbed' \cup astray') : w = req[p].who => EditOK(w)'
  PROVE  Inv'
<1>1. \A q \in Procs : PointOK(q)'
  BY PointsUntouched DEF Inv
<1>2. ASSUME NEW a \in Accounts \ (disturbed' \cup astray') PROVE EditOK(a)'
  <2>1. CASE a = req[p].who
    BY <1>2, <2>1
  <2>2. CASE a # req[p].who
    <3>1. p \notin Editors(a) /\ p \notin Editors(a)' /\ EditOK(a)
      BY <1>2, <2>2 DEF Editors, Inv, EditInv, NoRequest
    <3> QED
      BY <1>2, <2>2, <3>1, EditUntouched
  <2> QED
    BY <2>1, <2>2
<1> QED
  BY <1>1, <1>2 DEF Inv, EditInv

(* The edit of an account that nothing disturbed is the only one, ...          *)
LEMMA AloneEditing ==
  ASSUME Inv, NEW p \in Procs, NEW w \in Accounts, w = req[p].who, req[p].op \in Edits,
         w \notin disturbed, w \notin astray
  PROVE  Editors(w) = {p} /\ EditOK(w)
<1>1. p \in Editors(w) /\ EditOK(w)
  BY DEF Editors, Edits, Inv, EditInv
<1> QED
  BY <1>1 DEF EditOK

(* ... while it goes on, ...                                                   *)
LEMMA EditGoesOn ==
  ASSUME Inv, NEW p \in Procs, NEW w \in Accounts, w = req[p].who, req[p].op \in Edits,
         w \notin disturbed, w \notin astray, Others(p), req'[p] = req[p],
         dbName' = dbName, sent' = sent,
         pc'[p] \in {"read", "query", "fill", "putRecord"} => repo'[w] = sent[w],
         pc'[p] \in {"fill", "putRecord"} /\ req[p].op # "user" => got'[p] = repo'[w],
         pc'[p] \in {"validate", "update"} => repo'[w] = Edited(p)
  PROVE  EditOK(w)'
<1>1. Editors(w) = {p} /\ EditOK(w)
  BY AloneEditing
<1>2. Editors(w)' = {p}
  BY <1>1 DEF Editors, Edits, Others
<1>3. Edited(p)' = Edited(p)
  BY DEF Edited
<1> QED
  BY <1>1, <1>2, <1>3 DEF EditOK

(* ... and there is none when it ends.                                         *)
LEMMA EditEnds ==
  ASSUME Inv, NEW p \in Procs, NEW w \in Accounts, w = req[p].who, req[p].op \in Edits,
         w \notin disturbed, w \notin astray, Others(p), req'[p] = NoRequest,
         dbName'[w] = sent'[w].name, repo'[w] = sent'[w]
  PROVE  EditOK(w)'
<1>1. Editors(w) = {p}
  BY AloneEditing
<1>2. Editors(w)' = {}
  BY <1>1 DEF Editors, Edits, Others, NoRequest
<1> QED
  BY <1>2 DEF EditOK

(* The account and the operation of an edit that has begun.                    *)
LEMMA Editing ==
  ASSUME Inv, NEW p \in Procs, req[p].op \in Edits
  PROVE  /\ req[p].who \in Accounts /\ req[p] # NoRequest
         /\ req[p].op \in {"user", "name"} => req[p].name \in Names
         /\ req[p].op = "phone" => req[p].phone \in Phones
<1>1. req[p] \in Requests
  BY DEF Inv, RequestTypes
<1> QED
  BY <1>1, RequestFields DEF Edits, NoRequest

-------------------------------------------------------------------------------
(* A request that is no edit comes in.                                         *)
LEMMA BeginKept ==
  ASSUME Inv, NEW p \in Procs,
         \/ View(p) \/ CreateBill(p) \/ UpdateBill(p) \/ DeleteBill(p)
         \/ Follow(p) \/ Unfollow(p)
  PROVE  Inv'
<1>t. RequestTypes /\ PointOK(p)
  BY DEF Inv
<1>1. UNCHANGED <<repos, edits>>
  BY DEF View, CreateBill, UpdateBill, DeleteBill, Follow, Unfollow
<1>2. PICK point \in {"read", "putBill", "putFollow", "unfollowRow"}, r \in Requests :
        /\ Request(p, point, r) /\ r.op \notin Edits /\ r # NoRequest
        /\ point = "read" => r.op \in {"view", "create"}
        /\ point = "putBill" => r.op \in {"update", "delete"}
        /\ point = "putFollow" => r.op = "follow"
        /\ point = "unfollowRow" => r.op = "unfollow"
  <2> USE DEF Requests, Edits, NoRequest
  <2>1. CASE View(p)
    <3>1. PICK r \in Repos : Request(p, "read", [op |-> "view", who |-> r])
      BY <2>1 DEF View
    <3>2. [op |-> "view", who |-> r] \in Requests
      OBVIOUS
    <3> QED
      BY <3>1, <3>2
  <2>2. CASE CreateBill(p)
    <3>1. PICK k \in Bills, n \in Names :
            Request(p, "read", [op |-> "create", who |-> System, bill |-> k, to |-> n])
      BY <2>2 DEF CreateBill
    <3>2. [op |-> "create", who |-> System, bill |-> k, to |-> n] \in Requests
      OBVIOUS
    <3> QED
      BY <3>1, <3>2
  <2>3. CASE UpdateBill(p) \/ DeleteBill(p)
    <3>1. PICK o \in {"update", "delete"}, k \in Bills, n \in Names \cup {Absent} :
            Request(p, "putBill", [op |-> o, who |-> System, bill |-> k, to |-> n])
      BY <2>3 DEF UpdateBill, DeleteBill
    <3>2. [op |-> o, who |-> System, bill |-> k, to |-> n] \in Requests
      OBVIOUS
    <3> QED
      BY <3>1, <3>2
  <2>4. CASE Follow(p)
    <3>1. PICK u \in Users : Request(p, "putFollow", [op |-> "follow", who |-> u])
      BY <2>4 DEF Follow
    <3>2. [op |-> "follow", who |-> u] \in Requests
      OBVIOUS
    <3> QED
      BY <3>1, <3>2
  <2>5. CASE Unfollow(p)
    <3>1. PICK u \in Users : Request(p, "unfollowRow", [op |-> "unfollow", who |-> u])
      BY <2>5 DEF Unfollow
    <3>2. [op |-> "unfollow", who |-> u] \in Requests
      OBVIOUS
    <3> QED
      BY <3>1, <3>2
  <2> QED
    BY <2>1, <2>2, <2>3, <2>4, <2>5
<1>3. RequestTypes' /\ Others(p) /\ pc[p] = "idle" /\ pc'[p] = point /\ req'[p] = r
  BY <1>t, <1>2, Moves DEF Points
<1>4. PointOK(p)' /\ pc'[p] # "fill" /\ req'[p].op \notin Edits
  BY <1>2, <1>3 DEF PointOK, Edits
<1>5. req[p].op \notin Edits
  BY <1>t, <1>3 DEF PointOK, NoRequest, Edits
<1>6. RepoInv'
  BY <1>1, <1>3, <1>4, ReposUntouched DEF Inv, edits
<1> QED
  BY <1>1, <1>3, <1>4, <1>5, <1>6, AsideKept DEF repos

(* An edit begins alone, or the account is disturbed.                          *)
LEMMA EditStarts ==
  ASSUME Inv, NEW p \in Procs, UpdateProfile(p) \/ UpdateLegislator(p)
  PROVE  Inv'
<1>t. RequestTypes
  BY DEF Inv
<1>1. PICK point \in {"read", "putRecord"}, r \in Requests :
        /\ Request(p, point, r) /\ r.op \in Edits /\ r # NoRequest
        /\ point = "read" <=> r.op \in {"name", "phone"}
        /\ (Editors(r.who) = {} /\ disturbed' = disturbed) \/ disturbed' = disturbed \cup {r.who}
  <2>1. CASE UpdateProfile(p)
    <3>1. PICK u \in Users, n \in Names :
            /\ Request(p, "putRecord", [op |-> "user", who |-> u, name |-> n])
            /\ (Editors(u) = {} /\ disturbed' = disturbed) \/ disturbed' = disturbed \cup {u}
      BY <2>1 DEF UpdateProfile, Disturb
    <3>2. [op |-> "user", who |-> u, name |-> n] \in Requests
      BY DEF Requests
    <3> QED
      BY <3>1, <3>2 DEF Edits, NoRequest
  <2>2. CASE UpdateLegislator(p)
    <3>1. PICK l \in Legislators :
            /\ \/ \E n \in Names : Request(p, "read", [op |-> "name", who |-> l, name |-> n])
               \/ \E x \in Phones : Request(p, "read", [op |-> "phone", who |-> l, phone |-> x])
            /\ (Editors(l) = {} /\ disturbed' = disturbed) \/ disturbed' = disturbed \cup {l}
      BY <2>2 DEF UpdateLegislator, Disturb
    <3>2. /\ \A n \in Names : [op |-> "name", who |-> l, name |-> n] \in Requests
          /\ \A x \in Phones : [op |-> "phone", who |-> l, phone |-> x] \in Requests
      BY DEF Requests
    <3>3. CASE \E n \in Names : Request(p, "read", [op |-> "name", who |-> l, name |-> n])
      BY <3>1, <3>2, <3>3 DEF Edits, NoRequest
    <3>4. CASE \E x \in Phones : Request(p, "read", [op |-> "phone", who |-> l, phone |-> x])
      BY <3>1, <3>2, <3>4 DEF Edits, NoRequest
    <3> QED
      BY <3>1, <3>3, <3>4
  <2> QED
    BY <2>1, <2>2
<1>2. RequestTypes' /\ Others(p) /\ pc[p] = "idle" /\ pc'[p] = point /\ req'[p] = r
  BY <1>t, <1>1, Moves DEF Points
<1>3. UNCHANGED <<repos, dbName, names, sent>> /\ r.who \in Accounts
  BY <1>1, RequestFields DEF UpdateProfile, UpdateLegislator
<1>4. EditTypes' /\ RepoInv'
  <2>1. EditTypes'
    BY <1>1, <1>3 DEF Inv, EditInv, EditTypes
  <2> QED
    BY <1>2, <1>3, <2>1, ReposUntouched DEF Inv
<1>5. \A q \in Procs : PointOK(q)'
  <2>1. PointOK(p)'
    BY <1>1, <1>2 DEF PointOK, Edits
  <2> QED
    BY <1>2, <2>1, PointsUntouched DEF Inv
<1>6. EditNames'
  <2>1. pc'[p] \notin {"validate", "update"}
    BY <1>2
  <2> QED
    BY <1>2, <1>3, <2>1, NamesUntouched DEF Inv, EditInv, EditNames
<1>7. ASSUME NEW a \in Accounts \ (disturbed' \cup astray') PROVE EditOK(a)'
  <2>u. UNCHANGED <<repo, astray>>
    BY <1>3 DEF repos
  <2>0. EditOK(a) /\ p \notin Editors(a)
    <3>1. req[p] = NoRequest
      BY <1>2 DEF Inv, PointOK
    <3>2. a \notin disturbed /\ a \notin astray
      BY <1>1, <1>7, <2>u
    <3> QED
      BY <3>1, <3>2 DEF Inv, EditInv, Editors, NoRequest
  <2>1. CASE a # r.who
    <3>1. p \notin Editors(a)'
      BY <1>2, <2>1 DEF Editors
    <3> QED
      BY <1>2, <1>3, <2>u, <2>0, <3>1, EditUntouched
  <2>2. CASE a = r.who
    <3>1. Editors(a) = {}
      BY <1>1, <1>7, <2>2
    <3>2. Editors(a)' = {p}
      BY <1>1, <1>2, <2>2, <3>1 DEF Editors, Edits, Others
    <3>3. pc'[p] # "fill" /\ (pc'[p] = "putRecord" => req'[p].op = "user")
      BY <1>1, <1>2 DEF Edits
    <3> QED
      BY <1>2, <1>3, <2>u, <2>0, <3>1, <3>2, <3>3 DEF EditOK
  <2> QED
    BY <2>1, <2>2
<1> QED
  BY <1>2, <1>4, <1>5, <1>6, <1>7 DEF Inv, EditInv

-------------------------------------------------------------------------------
(* What a request goes on to when the repo is opened on a shard.               *)
LEMMA ReadShape ==
  ASSUME Inv, NEW p \in Procs, pc[p] \in {"read", "fill"}, NEW x \in Contents(req[p].who),
         Read(p, x)
  PROVE  /\ RequestTypes' /\ Others(p) /\ PointOK(p)' /\ pc'[p] # "fill"
         /\ \/ pc'[p] = "idle" /\ req'[p] = NoRequest
            \/ /\ pc'[p] = "putRecord" /\ req'[p] = req[p] /\ got'[p] = x
               /\ req[p].op \in {"name", "phone"}
            \/ pc'[p] = "putBill" /\ req'[p] = req[p] /\ req[p].op = "create"
<1>t. RequestTypes /\ PointOK(p) /\ req[p] \in Requests
  BY DEF Inv, RequestTypes
<1>1. CASE Return(p)
  BY <1>t, <1>1, Returned
<1>2. CASE req[p].op \in {"name", "phone"} /\ GotoWith(p, "putRecord", x)
  <2>1. x \in Profile
    BY <1>t, <1>2, RequestFields, AccountContents DEF Edits
  <2>2. RequestTypes' /\ Others(p) /\ pc'[p] = "putRecord" /\ req' = req /\ got'[p] = x
    BY <1>t, <1>2, <2>1, Moves DEF Points
  <2>3. PointOK(p)'
    BY <1>2, <1>t, <2>1, <2>2 DEF PointOK, Edits, NoRequest
  <2> QED
    BY <1>2, <2>2, <2>3
<1>3. CASE req[p].op = "create" /\ GotoWith(p, "putBill", Nothing)
  <2>1. RequestTypes' /\ Others(p) /\ pc'[p] = "putBill" /\ req' = req
    BY <1>t, <1>3, Moves DEF Points
  <2>2. PointOK(p)'
    BY <1>3, <1>t, <2>1 DEF PointOK, NoRequest
  <2> QED
    BY <1>3, <2>1, <2>2
<1> QED
  BY <1>1, <1>2, <1>3 DEF Read, GetRecord, RecordExists

Lookup(p) == CacheHit(p) \/ CacheMiss(p) \/ GetLastShard(p) \/ FillCache(p)

(* Looking up the last shard, and reading the repo on it.                      *)
LEMMA LookupShape ==
  ASSUME Inv, NEW p \in Procs, Lookup(p)
  PROVE  /\ RequestTypes' /\ Others(p) /\ PointOK(p)' /\ RepoInv' /\ UNCHANGED <<repo, edits>>
         /\ astray \subseteq astray' /\ pc[p] \in {"read", "query", "fill"}
         /\ req[p].op \in {"view", "name", "phone", "create"}
         /\ \/ pc'[p] = "idle" /\ req'[p] = NoRequest
            \/ pc'[p] = "query" /\ req'[p] = req[p]
            \/ pc'[p] = "fill" /\ req'[p] = req[p] /\ got'[p] = repo[req[p].who]
            \/ /\ pc'[p] = "putRecord" /\ req'[p] = req[p] /\ req[p].op \in {"name", "phone"}
               /\ \/ pc[p] = "fill" /\ got'[p] = got[p]
                  \/ pc[p] = "read" /\ got'[p] \in cached[req[p].who]
            \/ pc'[p] = "putBill" /\ req'[p] = req[p] /\ req[p].op = "create"
<1>t. RequestTypes /\ PointOK(p) /\ req[p] \in Requests /\ RepoInv
  BY DEF Inv, RequestTypes
<1>p. pc[p] \in {"read", "query", "fill"} /\ UNCHANGED <<repo, edits>>
  BY DEF Lookup, CacheHit, CacheMiss, GetLastShard, FillCache, At, repos
<1>o. req[p].op \in {"view", "name", "phone", "create"} /\ req[p] # NoRequest
  BY <1>p, <1>t DEF PointOK
<1>w. req[p].who \in Repos
  BY <1>o, <1>t, RequestFields
<1>c. repo[req[p].who] \in Contents(req[p].who) /\ cached[req[p].who] \subseteq Contents(req[p].who)
  BY <1>t, <1>w DEF RepoInv, RepoTypes
<1>1. CASE CacheHit(p)
  <2>1. PICK x \in cached[req[p].who] : Read(p, x)
    BY <1>1 DEF CacheHit
  <2>2. UNCHANGED <<repos, edits>> /\ pc[p] = "read" /\ x \in Contents(req[p].who)
    BY <1>1, <1>c DEF CacheHit, At
  <2>3. /\ RequestTypes' /\ Others(p) /\ PointOK(p)' /\ pc'[p] # "fill"
        /\ \/ pc'[p] = "idle" /\ req'[p] = NoRequest
           \/ /\ pc'[p] = "putRecord" /\ req'[p] = req[p] /\ got'[p] = x
              /\ req[p].op \in {"name", "phone"}
           \/ pc'[p] = "putBill" /\ req'[p] = req[p] /\ req[p].op = "create"
    BY <2>1, <2>2, ReadShape
  <2>4. RepoInv' /\ astray' = astray
    BY <1>t, <2>2, <2>3, ReposUntouched DEF repos, edits
  <2> QED
    BY <1>o, <1>p, <2>1, <2>2, <2>3, <2>4
<1>2. CASE CacheMiss(p)
  <2>1. UNCHANGED <<repos, edits>> /\ Goto(p, "query")
    BY <1>2 DEF CacheMiss
  <2>2. RequestTypes' /\ Others(p) /\ pc'[p] = "query" /\ req' = req
    BY <1>t, <2>1, Moves DEF Points
  <2>3. PointOK(p)'
    BY <1>o, <2>2 DEF PointOK
  <2>4. RepoInv' /\ astray' = astray
    BY <1>t, <2>1, <2>2, ReposUntouched DEF repos, edits
  <2> QED
    BY <1>o, <1>p, <2>2, <2>3, <2>4
<1>3. CASE GetLastShard(p)
  <2>1. UNCHANGED <<repos, edits>>
    BY <1>3 DEF GetLastShard
  <2>2. CASE GotoWith(p, "fill", repo[req[p].who])
    <3>1. repo[req[p].who] \in Profile \cup BillRecords \cup {Nothing}
      BY <1>c DEF Contents
    <3>2. RequestTypes' /\ Others(p) /\ pc'[p] = "fill" /\ req' = req /\ got'[p] = repo[req[p].who]
      BY <1>t, <2>2, <3>1, Moves DEF Points
    <3>3. PointOK(p)'
      BY <1>c, <1>o, <3>2 DEF PointOK, Contents
    <3>4. RepoInv' /\ astray' = astray
      BY <1>t, <1>w, <2>1, <3>2, FoundIsLast DEF repos, edits
    <3> QED
      BY <1>o, <1>p, <3>2, <3>3, <3>4
  <2>3. CASE Return(p)
    <3>1. /\ RequestTypes' /\ Others(p) /\ PointOK(p)'
          /\ pc'[p] = "idle" /\ req'[p] = NoRequest
      BY <1>t, <2>3, Returned
    <3>2. RepoInv' /\ astray' = astray
      BY <1>t, <2>1, <3>1, ReposUntouched DEF repos, edits
    <3> QED
      BY <1>o, <1>p, <3>1, <3>2
  <2> QED
    BY <1>3, <2>2, <2>3 DEF GetLastShard
<1>4. CASE FillCache(p)
  <2>1. pc[p] = "fill" /\ Read(p, got[p])
    BY <1>4 DEF FillCache, At
  <2>2. got[p] \in Contents(req[p].who)
    BY <1>t, <2>1 DEF PointOK
  <2>3. /\ RequestTypes' /\ Others(p) /\ PointOK(p)' /\ pc'[p] # "fill"
        /\ \/ pc'[p] = "idle" /\ req'[p] = NoRequest
           \/ /\ pc'[p] = "putRecord" /\ req'[p] = req[p] /\ got'[p] = got[p]
              /\ req[p].op \in {"name", "phone"}
           \/ pc'[p] = "putBill" /\ req'[p] = req[p] /\ req[p].op = "create"
    BY <2>1, <2>2, ReadShape
  <2>4. RepoInv' /\ astray \subseteq astray'
    BY <1>4, <1>t, <1>w, <2>3, FillKeepsRepos
  <2> QED
    BY <1>o, <1>p, <2>1, <2>3, <2>4
<1> QED
  BY <1>1, <1>2, <1>3, <1>4 DEF Lookup

(* A lookup keeps the invariant.                                               *)
LEMMA LookupKept ==
  ASSUME Inv, NEW p \in Procs, Lookup(p)
  PROVE  Inv'
<1>s. /\ RequestTypes' /\ Others(p) /\ PointOK(p)' /\ RepoInv' /\ UNCHANGED <<repo, edits>>
      /\ astray \subseteq astray' /\ pc[p] \in {"read", "query", "fill"}
      /\ req[p].op \in {"view", "name", "phone", "create"}
      /\ \/ pc'[p] = "idle" /\ req'[p] = NoRequest
         \/ pc'[p] = "query" /\ req'[p] = req[p]
         \/ pc'[p] = "fill" /\ req'[p] = req[p] /\ got'[p] = repo[req[p].who]
         \/ /\ pc'[p] = "putRecord" /\ req'[p] = req[p] /\ req[p].op \in {"name", "phone"}
            /\ \/ pc[p] = "fill" /\ got'[p] = got[p]
               \/ pc[p] = "read" /\ got'[p] \in cached[req[p].who]
         \/ pc'[p] = "putBill" /\ req'[p] = req[p] /\ req[p].op = "create"
  BY LookupShape
<1>u. UNCHANGED <<dbName, names, sent, disturbed>>
  BY <1>s DEF edits
<1>1. CASE req[p].op \notin Edits
  <2>1. req'[p].op \notin Edits
    BY <1>1, <1>s DEF NoRequest, Edits
  <2> QED
    BY <1>1, <1>s, <2>1, AsideKept
<1>2. CASE req[p].op \in Edits
  <2>e. req[p].who \in Accounts /\ req[p].op \in {"name", "phone"}
    BY <1>2, <1>s, Editing DEF Edits
  <2>1. EditTypes'
    BY <1>u DEF Inv, EditInv, EditTypes
  <2>2. EditNames'
    <3>1. pc'[p] \notin {"validate", "update"}
      BY <1>s
    <3> QED
      BY <1>s, <1>u, <3>1, NamesUntouched DEF Inv, EditInv, EditNames
  <2>3. ASSUME NEW w \in Accounts \ (disturbed' \cup astray'), w = req[p].who PROVE EditOK(w)'
    <3>1. w \notin disturbed /\ w \notin astray /\ w \in Repos
      BY <1>s, <1>u, <2>3, AccountContents
    <3>2. Editors(w) = {p} /\ EditOK(w)
      BY <1>2, <2>3, <3>1, AloneEditing
    <3>3. /\ repo[w] = sent[w] /\ dbName[w] = sent[w].name
          /\ pc[p] = "fill" => got[p] = repo[w]
      BY <1>s, <2>e, <3>2 DEF EditOK
    <3>4. cached[w] \subseteq {repo[w]}
      BY <3>1 DEF Inv, RepoInv, CacheOK
    <3>5. CASE pc'[p] = "idle" /\ req'[p] = NoRequest
      BY <1>2, <1>s, <1>u, <2>3, <3>1, <3>3, <3>5, EditEnds
    <3>6. CASE ~(pc'[p] = "idle" /\ req'[p] = NoRequest)
      <4>1. req'[p] = req[p] /\ pc'[p] \notin {"validate", "update"}
        BY <1>s, <3>6
      <4>2. pc'[p] \in {"fill", "putRecord"} => got'[p] = repo[w]
        BY <1>s, <2>3, <3>3, <3>4
      <4> QED
        BY <1>2, <1>s, <1>u, <2>3, <3>1, <3>3, <4>1, <4>2, EditGoesOn
    <3> QED
      BY <3>5, <3>6
  <2> QED
    BY <1>2, <1>s, <1>u, <2>1, <2>2, <2>3, EditKept
<1> QED
  BY <1>1, <1>2

(* A bill that the tree takes leaves a tree of bills.                          *)
LEMMA TreeIsKept ==
  ASSUME NEW p \in Procs, req[p].bill \in Bills, req[p].to \in Names \cup {Absent},
         NEW tree \in BillRecords, NEW x \in TreeAfter(p, tree)
  PROVE  /\ x \in BillRecords
         /\ (tree.bills[req[p].bill] = Absent) = (req[p].op = "create")
         /\ \A k \in Bills : x.bills[k] # tree.bills[k] => k = req[p].bill
BY DEF TreeAfter, BillRecords

(* Bills and follows are written beside the profiles.                          *)
LEMMA PutAsideKept ==
  ASSUME Inv, NEW p \in Procs, PutBill(p) \/ PutFollow(p)
  PROVE  Inv'
<1>t. RequestTypes /\ PointOK(p) /\ req[p] \in Requests /\ RepoInv
  BY DEF Inv, RequestTypes
<1>u. UNCHANGED edits /\ UNCHANGED <<names>>
  BY DEF PutBill, PutFollow, edits
<1>r. ASSUME Return(p)
      PROVE  /\ RequestTypes' /\ Others(p) /\ PointOK(p)' /\ pc'[p] # "fill"
             /\ req'[p].op \notin Edits
  BY <1>t, <1>r, Returned
<1>1. CASE PutBill(p)
  <2>1. pc[p] = "putBill" /\ Return(p)
    BY <1>1 DEF PutBill, At
  <2>2. req[p].op \in {"create", "update", "delete"} /\ req[p].op \notin Edits
    BY <1>t, <2>1 DEF PointOK, Edits
  <2>3. req[p].bill \in Bills /\ req[p].to \in Names \cup {Absent}
    BY <1>t, <2>2, RequestFields
  <2>4. System \in Repos /\ System \notin Accounts /\ Contents(System) = BillRecords
    BY ValuesAssumption DEF Repos, Contents
  <2>5. ASSUME NEW tree \in Seen(System), NEW x \in TreeAfter(p, tree),
               Committed(System, x) \/ CommittedUntold(System, x)
        PROVE  RepoInv' /\ astray \subseteq astray' /\ \A a \in Accounts : repo'[a] = repo[a]
    <3>1. tree \in BillRecords
      BY <1>t, <2>4, SeenIsLast
    <3>2. x \in Contents(System)
      BY <2>3, <2>4, <3>1, TreeIsKept
    <3>3. \A a \in Accounts : a \in Repos \ {System}
      BY AccountContents
    <3> QED
      BY <1>r, <1>t, <1>u, <2>1, <2>4, <2>5, <3>2, <3>3, WriteKeepsRepos
  <2>6. ASSUME NotCommitted(System)
        PROVE  RepoInv' /\ astray \subseteq astray' /\ \A a \in Accounts : repo'[a] = repo[a]
    BY <1>r, <1>t, <1>u, <2>1, <2>4, <2>6, FailedWriteKeepsRepos
  <2>7. RepoInv' /\ astray \subseteq astray' /\ \A a \in Accounts : repo'[a] = repo[a]
    BY <1>1, <2>5, <2>6 DEF PutBill
  <2> QED
    BY <1>r, <1>u, <2>1, <2>2, <2>7, AsideKept
<1>2. CASE PutFollow(p)
  <2>1. pc[p] = "putFollow"
    BY <1>2 DEF PutFollow, At
  <2>2. req[p].op = "follow" /\ req[p].op \notin Edits /\ req[p] # NoRequest
    BY <1>t, <2>1 DEF PointOK, Edits
  <2> DEFINE u == req[p].who
  <2>3. u \in Accounts /\ u \in Repos
    BY <1>t, <2>2, RequestFields, AccountContents DEF Accounts
  <2>g. ASSUME Goto(p, "followRow")
        PROVE  /\ RequestTypes' /\ Others(p) /\ PointOK(p)' /\ pc'[p] # "fill"
               /\ req'[p].op \notin Edits
    <3>1. RequestTypes' /\ Others(p) /\ pc'[p] = "followRow" /\ req' = req
      BY <1>t, <2>g, Moves DEF Points
    <3> QED
      BY <2>2, <3>1 DEF PointOK
  <2>4. ASSUME NEW x \in Seen(u), Committed(u, x) \/ CommittedUntold(u, x),
               Goto(p, "followRow") \/ Return(p)
        PROVE  RepoInv' /\ astray \subseteq astray' /\ \A a \in Accounts \ astray' : repo'[a] = repo[a]
    <3>1. x \in Contents(u) /\ x.name \in names[u] /\ (u \notin astray => x = repo[u])
      BY <1>t, <2>3, SeenIsLast
    <3>2. /\ RepoInv' /\ astray \subseteq astray'
          /\ \A s \in Repos \ {u} : repo'[s] = repo[s]
          /\ u \notin astray' => repo'[u] = x
      BY <1>r, <1>t, <1>u, <2>3, <2>g, <2>4, <3>1, WriteKeepsRepos
    <3> QED
      BY <3>1, <3>2, AccountContents
  <2>5. ASSUME NotCommitted(u), Return(p)
        PROVE  RepoInv' /\ astray \subseteq astray' /\ \A a \in Accounts \ astray' : repo'[a] = repo[a]
    BY <1>r, <1>t, <1>u, <2>3, <2>5, FailedWriteKeepsRepos
  <2>6. /\ RepoInv' /\ astray \subseteq astray' /\ \A a \in Accounts \ astray' : repo'[a] = repo[a]
        /\ Goto(p, "followRow") \/ Return(p)
    BY <1>2, <2>4, <2>5 DEF PutFollow
  <2> QED
    BY <1>r, <1>u, <2>2, <2>6, <2>g, AsideKept
<1> QED
  BY <1>1, <1>2

(* A follow's row is refused, and an unfollow finds none.                      *)
LEMMA RowsKept ==
  ASSUME Inv, NEW p \in Procs, RefuseRow(p) \/ FindNoRow(p)
  PROVE  Inv'
<1>t. RequestTypes /\ PointOK(p) /\ RepoInv
  BY DEF Inv
<1>1. pc[p] \in {"followRow", "unfollowRow"} /\ Return(p) /\ UNCHANGED <<repos, edits>>
  BY DEF RefuseRow, FindNoRow, At
<1>2. req[p].op \notin Edits
  BY <1>1, <1>t DEF PointOK, Edits
<1>3. /\ RequestTypes' /\ Others(p) /\ PointOK(p)' /\ pc'[p] # "fill"
      /\ req'[p].op \notin Edits
  BY <1>1, <1>t, Returned
<1>4. RepoInv'
  BY <1>1, <1>3, <1>t, ReposUntouched DEF edits
<1> QED
  BY <1>1, <1>2, <1>3, <1>4, AsideKept DEF repos

-------------------------------------------------------------------------------
(* A profile with one field replaced.                                          *)
LEMMA ProfileFields ==
  ASSUME NEW x \in Profile
  PROVE  /\ x.name \in Names /\ x.phone \in Phones \cup {Absent}
         /\ \A n \in Names : /\ [x EXCEPT !.name = n] \in Profile
                             /\ [x EXCEPT !.name = n].name = n
         /\ \A y \in Phones : /\ [x EXCEPT !.phone = y] \in Profile
                              /\ [x EXCEPT !.phone = y].name = x.name
BY DEF Profile

(* The record that is written, and what the account is left with, are the same *)
(* edit: of what was read, and of what the edits before asked for.             *)
LEMMA NewRecordIsEdited ==
  ASSUME Inv, NEW p \in Procs, pc[p] = "putRecord"
  PROVE  /\ NewRecord(p) \in Profile
         /\ req[p].op \in {"user", "name"} => NewRecord(p).name = req[p].name
         /\ req[p].who \notin disturbed \cup astray => NewRecord(p) = Edited(p)
<1>o. req[p].op \in Edits /\ (req[p].op # "user" => got[p] \in Profile)
  BY DEF Inv, PointOK
<1>e. /\ req[p].who \in Accounts
      /\ req[p].op \in {"user", "name"} => req[p].name \in Names
      /\ req[p].op = "phone" => req[p].phone \in Phones
  BY <1>o, Editing
<1>w. req[p].who \notin disturbed \cup astray /\ req[p].op # "user" => got[p] = sent[req[p].who]
  <2>1. SUFFICES ASSUME req[p].who \notin disturbed, req[p].who \notin astray, req[p].op # "user"
                 PROVE  got[p] = sent[req[p].who]
    OBVIOUS
  <2>2. Editors(req[p].who) = {p} /\ EditOK(req[p].who)
    BY <1>e, <1>o, <2>1, AloneEditing
  <2> QED
    BY <2>1, <2>2 DEF EditOK
<1>1. CASE req[p].op = "user"
  BY <1>1, <1>e DEF NewRecord, Edited, Profile
<1>2. CASE req[p].op = "name"
  <2>1. NewRecord(p) = [got[p] EXCEPT !.name = req[p].name]
    BY <1>2 DEF NewRecord
  <2>2. Edited(p) = [sent[req[p].who] EXCEPT !.name = req[p].name]
    BY <1>2 DEF Edited
  <2> QED
    BY <1>2, <1>e, <1>o, <1>w, <2>1, <2>2, ProfileFields
<1>3. CASE req[p].op = "phone"
  <2>1. NewRecord(p) = [got[p] EXCEPT !.phone = req[p].phone]
    BY <1>3 DEF NewRecord
  <2>2. Edited(p) = [sent[req[p].who] EXCEPT !.phone = req[p].phone]
    BY <1>3 DEF Edited
  <2> QED
    BY <1>3, <1>e, <1>o, <1>w, <2>1, <2>2, ProfileFields
<1> QED
  BY <1>o, <1>1, <1>2, <1>3 DEF Edits

(* What the edits have asked for, once this one is done.                       *)
LEMMA SentIsEdited ==
  ASSUME Inv, NEW p \in Procs, pc[p] = "update"
  PROVE  /\ Sent(p) \in [Accounts -> Profile]
         /\ Sent(p)[req[p].who] = Edited(p)
         /\ \A b \in Accounts \ {req[p].who} : Sent(p)[b] = sent[b]
         /\ Edited(p).name = IF req[p].op \in {"user", "name"} THEN req[p].name
                             ELSE sent[req[p].who].name
<1>o. req[p].op \in Edits
  BY DEF Inv, PointOK
<1>e. /\ req[p].who \in Accounts
      /\ req[p].op \in {"user", "name"} => req[p].name \in Names
      /\ req[p].op = "phone" => req[p].phone \in Phones
  BY <1>o, Editing
<1>s. sent \in [Accounts -> Profile] /\ sent[req[p].who] \in Profile
  BY <1>e DEF Inv, EditInv, EditTypes
<1>1. /\ Edited(p) \in Profile
      /\ Edited(p).name = IF req[p].op \in {"user", "name"} THEN req[p].name
                          ELSE sent[req[p].who].name
  <2>1. CASE req[p].op = "user"
    BY <2>1, <1>e DEF Edited, Profile
  <2>2. CASE req[p].op = "name"
    <3>1. Edited(p) = [sent[req[p].who] EXCEPT !.name = req[p].name]
      BY <2>2 DEF Edited
    <3> QED
      BY <2>2, <3>1, <1>e, <1>s, ProfileFields
  <2>3. CASE req[p].op = "phone"
    <3>1. Edited(p) = [sent[req[p].who] EXCEPT !.phone = req[p].phone]
      BY <2>3 DEF Edited
    <3> QED
      BY <2>3, <3>1, <1>e, <1>s, ProfileFields
  <2> QED
    BY <1>o, <2>1, <2>2, <2>3 DEF Edits
<1>2. Sent(p) = [sent EXCEPT ![req[p].who] = Edited(p)]
  BY <1>o DEF Sent, Edited, Edits
<1> QED
  BY <1>e, <1>s, <1>1, <1>2

(* The record is written, and the request goes on or fails.                    *)
LEMMA PutRecordKept ==
  ASSUME Inv, NEW p \in Procs, PutRecord(p)
  PROVE  Inv'
<1> DEFINE a == req[p].who
           x == NewRecord(p)
<1>t. RequestTypes /\ RepoInv /\ pc[p] = "putRecord" /\ UNCHANGED <<dbName, sent>>
  BY DEF Inv, PutRecord, At
<1>o. req[p].op \in Edits
  BY <1>t DEF Inv, PointOK
<1>e. a \in Accounts /\ req[p] # NoRequest /\ a \in Repos /\ Contents(a) = Profile
  BY <1>o, Editing, AccountContents
<1>n. /\ x \in Profile /\ x.name \in Names
      /\ req[p].op \in {"user", "name"} => x.name = req[p].name
      /\ a \notin disturbed \cup astray => x = Edited(p)
  BY <1>t, NewRecordIsEdited, ProfileFields
<1>v. EditTypes /\ (\A b \in Accounts : dbName[b] \in names[b])
  BY DEF Inv, EditInv, EditNames
<1>r. ASSUME Return(p)
      PROVE  /\ RequestTypes' /\ Others(p) /\ PointOK(p)' /\ pc'[p] = "idle" /\ req'[p] = NoRequest
  BY <1>t, <1>r, Returned
<1>w. ASSUME NoteName(a, x.name)
      PROVE  /\ names' \in [Accounts -> SUBSET Names] /\ x.name \in names'[a]
             /\ \A b \in Accounts : names[b] \subseteq names'[b]
             /\ \A b \in Accounts : dbName'[b] \in names'[b]
  <2>1. names \in [Accounts -> SUBSET Names]
    BY <1>v DEF EditTypes
  <2>2. names' = [names EXCEPT ![a] = names[a] \cup {x.name}]
    BY <1>w DEF NoteName
  <2>3. names[a] \cup {x.name} \in SUBSET Names
    BY <1>e, <1>n, <2>1
  <2>4. names' \in [Accounts -> SUBSET Names] /\ x.name \in names'[a]
    BY <1>e, <2>1, <2>2, <2>3
  <2>5. \A b \in Accounts : names[b] \subseteq names'[b]
    BY <1>e, <2>1, <2>2
  <2> QED
    BY <1>t, <1>v, <2>4, <2>5
<1>1. CASE Committed(a, x) /\ NoteName(a, x.name) /\ Goto(p, "validate") /\ UNCHANGED disturbed
  <2>1. RequestTypes' /\ Others(p) /\ pc'[p] = "validate" /\ req' = req /\ got' = got
    BY <1>t, <1>1, Moves DEF Points
  <2>2. PointOK(p)'
    BY <1>e, <1>o, <2>1 DEF PointOK
  <2>3. /\ RepoInv' /\ astray \subseteq astray'
        /\ \A s \in Repos \ {a} : repo'[s] = repo[s]
        /\ a \notin astray' => repo'[a] = x
    BY <1>1, <1>e, <1>n, <1>t, <1>w, <2>1, WriteKeepsRepos
  <2>4. EditTypes'
    BY <1>1, <1>t, <1>v, <1>w DEF EditTypes
  <2>5. EditNames'
    BY <1>1, <1>n, <1>w, <2>1, NamesUntouched
  <2>6. ASSUME NEW w \in Accounts \ (disturbed' \cup astray'), w = a PROVE EditOK(w)'
    <3>1. w \notin disturbed /\ w \notin astray
      BY <1>1, <2>3, <2>6
    <3>2. repo'[w] = Edited(p)
      BY <1>n, <2>3, <2>6, <3>1
    <3> QED
      BY <1>o, <1>t, <2>1, <2>6, <3>1, <3>2, EditGoesOn
  <2>7. \A b \in Accounts \ {a} : repo'[b] = repo[b] /\ dbName'[b] = dbName[b] /\ sent'[b] = sent[b]
    BY <1>t, <2>3, AccountContents
  <2> QED
    BY <1>1, <1>o, <2>1, <2>2, <2>3, <2>4, <2>5, <2>6, <2>7, EditKept
<1>2. CASE CommittedUntold(a, x) /\ NoteName(a, x.name) /\ Return(p) /\ Disturb(a)
  <2>1. disturbed' = disturbed \cup {a}
    BY <1>2 DEF Disturb
  <2>2. /\ RepoInv' /\ astray \subseteq astray'
        /\ \A s \in Repos \ {a} : repo'[s] = repo[s]
    BY <1>2, <1>e, <1>n, <1>r, <1>t, <1>w, WriteKeepsRepos
  <2>3. EditTypes'
    BY <1>2, <1>e, <1>t, <1>v, <1>w, <2>1 DEF EditTypes
  <2>4. EditNames'
    BY <1>2, <1>r, <1>w, NamesUntouched
  <2>5. \A b \in Accounts \ {a} : repo'[b] = repo[b] /\ dbName'[b] = dbName[b] /\ sent'[b] = sent[b]
    BY <1>t, <2>2, AccountContents
  <2> QED
    BY <1>2, <1>o, <1>r, <2>1, <2>2, <2>3, <2>4, <2>5, EditKept
<1>3. CASE NotCommitted(a) /\ UNCHANGED <<names, disturbed>> /\ Return(p)
  <2>1. RepoInv' /\ astray' = astray /\ repo' = repo
    BY <1>3, <1>e, <1>r, <1>t, FailedWriteKeepsRepos
  <2>2. EditTypes' /\ EditNames'
    <3>1. EditTypes'
      BY <1>3, <1>t, <1>v DEF EditTypes
    <3> QED
      BY <1>3, <1>r, <1>t, <1>v, <3>1, NamesUntouched
  <2>3. ASSUME NEW w \in Accounts \ (disturbed' \cup astray'), w = a PROVE EditOK(w)'
    <3>1. w \notin disturbed /\ w \notin astray
      BY <1>3, <2>1, <2>3
    <3>2. Editors(w) = {p} /\ EditOK(w)
      BY <1>o, <2>3, <3>1, AloneEditing
    <3>3. repo[w] = sent[w] /\ dbName[w] = sent[w].name
      BY <1>t, <3>2 DEF EditOK
    <3> QED
      BY <1>3, <1>o, <1>r, <1>t, <2>1, <2>3, <3>1, <3>3, EditEnds
  <2> QED
    BY <1>3, <1>o, <1>r, <1>t, <2>1, <2>2, <2>3, EditKept
<1> QED
  BY <1>1, <1>2, <1>3 DEF PutRecord

(* The rest of the request is checked, and it goes on or fails halfway.        *)
LEMMA ValidateKept ==
  ASSUME Inv, NEW p \in Procs, Validate(p)
  PROVE  Inv'
<1>t. RequestTypes /\ RepoInv /\ pc[p] = "validate" /\ UNCHANGED <<repos, dbName, names, sent>>
  BY DEF Inv, Validate, At
<1>o. req[p].op \in Edits
  BY <1>t DEF Inv, PointOK
<1>e. req[p].who \in Accounts /\ req[p] # NoRequest
  BY <1>o, Editing
<1>u. UNCHANGED <<repo, astray>>
  BY <1>t DEF repos
<1>v. EditTypes /\ (\A b \in Accounts : dbName[b] \in names[b])
  BY DEF Inv, EditInv, EditNames
<1>1. CASE Goto(p, "update") /\ UNCHANGED disturbed
  <2>1. RequestTypes' /\ Others(p) /\ pc'[p] = "update" /\ req' = req /\ got' = got
    BY <1>t, <1>1, Moves DEF Points
  <2>2. PointOK(p)' /\ RepoInv'
    <3>1. PointOK(p)'
      BY <1>e, <1>o, <2>1 DEF PointOK
    <3> QED
      BY <1>t, <2>1, <3>1, ReposUntouched
  <2>3. EditTypes'
    BY <1>t, <1>v, <1>1 DEF EditTypes
  <2>4. EditNames'
    BY <1>t, <2>1, NamesUntouched DEF Inv, EditInv, EditNames
  <2>5. ASSUME NEW w \in Accounts \ (disturbed' \cup astray'), w = req[p].who PROVE EditOK(w)'
    <3>0. w \notin disturbed /\ w \notin astray
      BY <1>1, <1>u, <2>5
    <3>1. Editors(w) = {p} /\ EditOK(w)
      BY <1>o, <2>5, <3>0, AloneEditing
    <3>2. repo[w] = Edited(p)
      BY <1>t, <3>1 DEF EditOK
    <3> QED
      BY <1>o, <1>t, <1>u, <2>1, <2>5, <3>0, <3>2, EditGoesOn
  <2> QED
    BY <1>1, <1>o, <1>t, <1>u, <2>1, <2>2, <2>3, <2>4, <2>5, EditKept
<1>2. CASE FailHalfway(p)
  <2>1. disturbed' = disturbed \cup {req[p].who} /\ Return(p)
    BY <1>2 DEF FailHalfway, Disturb
  <2>2. RequestTypes' /\ Others(p) /\ PointOK(p)' /\ pc'[p] = "idle" /\ req'[p] = NoRequest
    BY <1>t, <2>1, Returned
  <2>3. EditTypes' /\ RepoInv'
    <3>1. EditTypes'
      BY <1>e, <1>t, <1>v, <2>1 DEF EditTypes
    <3> QED
      BY <1>t, <2>2, <3>1, ReposUntouched
  <2>4. EditNames'
    BY <1>t, <1>v, <2>2, NamesUntouched
  <2> QED
    BY <1>o, <1>t, <1>u, <2>1, <2>2, <2>3, <2>4, EditKept
<1> QED
  BY <1>1, <1>2 DEF Validate

(* The row is given what was sent, or the request fails halfway.               *)
LEMMA UpdateRowKept ==
  ASSUME Inv, NEW p \in Procs, UpdateRow(p)
  PROVE  Inv'
<1> DEFINE a == req[p].who
<1>t. RequestTypes /\ RepoInv /\ pc[p] = "update" /\ UNCHANGED <<repos, names>> /\ Return(p)
  BY DEF Inv, UpdateRow, At, FailHalfway
<1>o. req[p].op \in Edits
  BY <1>t DEF Inv, PointOK
<1>e. a \in Accounts /\ (req[p].op \in {"user", "name"} => req[p].name \in Names)
  BY <1>o, Editing
<1>u. UNCHANGED <<repo, astray>>
  BY <1>t DEF repos
<1>v. EditTypes /\ EditNames
  BY DEF Inv, EditInv
<1>2. RequestTypes' /\ Others(p) /\ PointOK(p)' /\ pc'[p] = "idle" /\ req'[p] = NoRequest
  BY <1>t, Returned
<1>3. RepoInv'
  BY <1>t, <1>2, ReposUntouched
<1>d. /\ NameSent(p) \in Names /\ NameSent(p) \in names[a]
      /\ dbName \in [Accounts -> Names]
  <2>1. dbName \in [Accounts -> Names]
    BY <1>v DEF EditTypes
  <2>2. CASE req[p].op \in {"user", "name"}
    BY <1>e, <1>t, <1>v, <2>1, <2>2 DEF NameSent, EditNames
  <2>3. CASE req[p].op \notin {"user", "name"}
    BY <1>e, <1>v, <2>1, <2>3 DEF NameSent, EditNames
  <2> QED
    BY <2>1, <2>2, <2>3
<1>n. ASSUME dbName' \in {dbName, [dbName EXCEPT ![a] = NameSent(p)]}
      PROVE  /\ dbName' \in [Accounts -> Names] /\ EditNames'
             /\ \A b \in Accounts \ {a} : dbName'[b] = dbName[b]
  <2>1. dbName' \in [Accounts -> Names] /\ \A b \in Accounts \ {a} : dbName'[b] = dbName[b]
    BY <1>d, <1>n
  <2>2. \A b \in Accounts : dbName'[b] \in names'[b]
    BY <1>d, <1>e, <1>n, <1>t, <1>v DEF EditNames
  <2>3. EditNames'
    BY <1>t, <1>2, <2>2, NamesUntouched
  <2> QED
    BY <2>1, <2>3
<1>4. CASE dbName' = [dbName EXCEPT ![a] = NameSent(p)] /\ sent' = Sent(p) /\ UNCHANGED disturbed
  <2>1. sent' \in [Accounts -> Profile] /\ \A b \in Accounts \ {a} : sent'[b] = sent[b]
    BY <1>t, <1>4, SentIsEdited
  <2>2. EditTypes'
    BY <1>t, <1>v, <1>4, <1>n, <2>1 DEF EditTypes
  <2>3. ASSUME NEW w \in Accounts \ (disturbed' \cup astray'), w = a PROVE EditOK(w)'
    <3>0. w \notin disturbed /\ w \notin astray
      BY <1>4, <1>u, <2>3
    <3>1. Editors(w) = {p} /\ EditOK(w)
      BY <1>o, <2>3, <3>0, AloneEditing
    <3>2. repo[w] = Edited(p) /\ dbName[w] = sent[w].name
      BY <1>t, <3>1 DEF EditOK
    <3>3. sent'[w] = Edited(p) /\ NameSent(p) = Edited(p).name
      BY <1>t, <1>4, <2>3, <3>2, SentIsEdited DEF NameSent
    <3>4. dbName'[w] = sent'[w].name /\ repo'[w] = sent'[w]
      BY <1>4, <1>d, <1>e, <1>u, <2>3, <3>2, <3>3
    <3> QED
      BY <1>o, <1>2, <2>3, <3>0, <3>4, EditEnds
  <2> QED
    BY <1>o, <1>u, <1>2, <1>3, <1>4, <1>n, <2>1, <2>2, <2>3, EditKept
<1>5. CASE /\ dbName' \in {dbName, [dbName EXCEPT ![a] = NameSent(p)]}
           /\ UNCHANGED sent /\ FailHalfway(p)
  <2>1. disturbed' = disturbed \cup {a}
    BY <1>5 DEF FailHalfway, Disturb
  <2>2. EditTypes'
    BY <1>e, <1>t, <1>v, <1>5, <1>n, <2>1 DEF EditTypes
  <2> QED
    BY <1>o, <1>u, <1>2, <1>3, <1>5, <1>n, <2>1, <2>2, EditKept
<1> QED
  BY <1>4, <1>5 DEF UpdateRow

(* A restart ends every request, those halfway with their record written.      *)
LEMMA RestartKept ==
  ASSUME Inv, Restart
  PROVE  Inv'
<1>u. /\ UNCHANGED <<repo, astray, dbName, names, sent>>
      /\ cached' = [r \in Repos |-> {}] /\ late' = {}
      /\ disturbed' = disturbed \cup {req[p].who : p \in {q \in Procs : pc[q] \in {"validate", "update"}}}
  BY DEF Restart
<1>1. RequestTypes'
  <2>1. "idle" \in Points /\ NoRequest \in Requests
    BY DEF Points, Requests
  <2> QED
    BY <2>1 DEF Restart, RequestTypes
<1>2. \A p \in Procs : pc'[p] = "idle" /\ req'[p] = NoRequest
  BY DEF Restart
<1>3. \A p \in Procs : PointOK(p)'
  BY <1>2 DEF PointOK
<1>4. RepoInv'
  BY <1>u, <1>2, AccountContents DEF Inv, RepoInv, RepoTypes, CacheOK, RepoNames, Contents
<1>5. disturbed' \subseteq Accounts
  <2>1. \A p \in Procs : pc[p] \in {"validate", "update"} => req[p].who \in Accounts
    BY Editing DEF Inv, PointOK
  <2> QED
    BY <1>u, <2>1 DEF Inv, EditInv, EditTypes
<1>6. EditTypes' /\ EditNames'
  BY <1>u, <1>2, <1>5 DEF Inv, EditInv, EditTypes, EditNames
<1>7. ASSUME NEW a \in Accounts \ (disturbed' \cup astray') PROVE EditOK(a)'
  <2>1. EditOK(a)
    BY <1>u, <1>7 DEF Inv, EditInv
  <2>2. Editors(a)' = {}
    BY <1>2 DEF Editors, NoRequest
  <2>3. repo[a] = sent[a]
    <3>1. CASE Editors(a) = {}
      BY <2>1, <3>1 DEF EditOK
    <3>2. CASE Editors(a) # {}
      <4>1. PICK p \in Procs : p \in Editors(a)
        BY <3>2 DEF Editors
      <4>2. req[p].who = a /\ req[p].op \in Edits /\ pc[p] \notin {"validate", "update"}
        BY <1>u, <1>7, <4>1 DEF Editors, Edits
      <4>3. pc[p] \in Points /\ req[p] # NoRequest
        BY <4>2, Editing DEF Inv, RequestTypes
      <4>4. pc[p] \in {"read", "query", "fill", "putRecord"}
        BY <4>2, <4>3 DEF Points, Inv, PointOK, Edits
      <4> QED
        BY <2>1, <4>1, <4>4 DEF EditOK
    <3> QED
      BY <3>1, <3>2
  <2> QED
    BY <1>u, <2>1, <2>2, <2>3 DEF EditOK
<1> QED
  BY <1>1, <1>3, <1>4, <1>6, <1>7 DEF Inv, EditInv
-------------------------------------------------------------------------------
(* The invariant holds at first, ...                                           *)
LEMMA InitInv == Init => Inv
<1> SUFFICES ASSUME Init PROVE Inv
  OBVIOUS
<1>1. sent \in [Accounts -> Profile] /\ \A a \in Accounts : sent[a].name \in Names
  <2>1. sent \in [Accounts -> [name : Names, phone : {Absent}]]
    BY DEF Init
  <2> QED
    BY <2>1 DEF Profile
<1>2. \A a \in Accounts : repo[a] = sent[a] /\ cached[a] = {}
  BY AccountContents DEF Init
<1>3. RequestTypes
  <2>1. NoRequest \in Requests /\ "idle" \in Points
    BY DEF Requests, Points
  <2> QED
    BY <2>1 DEF Init, RequestTypes
<1>4. \A p \in Procs : PointOK(p) /\ pc[p] = "idle" /\ req[p] = NoRequest
  BY DEF Init, PointOK
<1>5. RepoTypes
  <2>1. System \in Repos => repo[System] \in BillRecords
    BY DEF Init, BillRecords
  <2>2. \A r \in Repos : repo[r] \in Contents(r)
    BY <1>1, <1>2, <2>1, AccountContents DEF Repos, Contents
  <2> QED
    BY <2>2 DEF Init, RepoTypes
<1>6. RepoInv
  <2>1. CacheOK
    BY <1>4 DEF Init, CacheOK
  <2>2. RepoNames
    <3>1. \A a \in Accounts : names[a] = {repo[a].name}
      BY <1>2 DEF Init
    <3> QED
      BY <1>2, <1>4, <3>1 DEF RepoNames
  <2> QED
    BY <1>5, <2>1, <2>2 DEF RepoInv
<1>7. EditTypes /\ EditNames
  BY <1>1, <1>4 DEF Init, EditTypes, EditNames
<1>8. ASSUME NEW a \in Accounts PROVE EditOK(a)
  <2>1. Editors(a) = {}
    BY <1>4 DEF Editors, NoRequest
  <2> QED
    BY <1>2, <2>1 DEF Init, EditOK
<1> QED
  BY <1>3, <1>4, <1>6, <1>7, <1>8 DEF Inv, EditInv

(* ... and no step breaks it.                                                  *)
LEMMA NextInv == Inv /\ [Next]_vars => Inv'
<1> SUFFICES ASSUME Inv, [Next]_vars PROVE Inv'
  OBVIOUS
<1>1. ASSUME NEW p \in Procs, Serve(p) PROVE Inv'
  <2>1. CASE \/ View(p) \/ CreateBill(p) \/ UpdateBill(p) \/ DeleteBill(p)
             \/ Follow(p) \/ Unfollow(p)
    BY <2>1, BeginKept
  <2>2. CASE CacheHit(p) \/ CacheMiss(p) \/ GetLastShard(p) \/ FillCache(p)
    BY <2>2, LookupKept DEF Lookup
  <2>3. CASE UpdateProfile(p) \/ UpdateLegislator(p)
    BY <2>3, EditStarts
  <2>4. CASE PutRecord(p)
    BY <2>4, PutRecordKept
  <2>5. CASE Validate(p)
    BY <2>5, ValidateKept
  <2>6. CASE UpdateRow(p)
    BY <2>6, UpdateRowKept
  <2>7. CASE PutBill(p) \/ PutFollow(p)
    BY <2>7, PutAsideKept
  <2>8. CASE RefuseRow(p) \/ FindNoRow(p)
    BY <2>8, RowsKept
  <2> QED
    BY <1>1, <2>1, <2>2, <2>3, <2>4, <2>5, <2>6, <2>7, <2>8 DEF Serve
<1>2. CASE UNCHANGED vars
  <2>1. /\ UNCHANGED <<repo, cached, late, astray>>
        /\ UNCHANGED <<dbName, names, sent, disturbed>> /\ UNCHANGED <<pc, req, got>>
    BY <1>2 DEF vars, repos, edits, requests
  <2>2. RequestTypes' /\ \A p \in Procs : PointOK(p)'
    BY <2>1 DEF Inv, RequestTypes, PointOK, Contents
  <2>3. RepoInv'
    BY <2>1 DEF Inv, RepoInv, RepoTypes, CacheOK, RepoNames, Contents
  <2>4. EditTypes' /\ EditNames'
    BY <2>1 DEF Inv, EditInv, EditTypes, EditNames
  <2>5. ASSUME NEW a \in Accounts \ (disturbed' \cup astray') PROVE EditOK(a)'
    <3>1. Editors(a)' = Editors(a) /\ \A q \in Editors(a) : Edited(q)' = Edited(q)
      BY <2>1 DEF Editors, Edited
    <3>2. EditOK(a)
      BY <2>1, <2>5 DEF Inv, EditInv
    <3> QED
      BY <2>1, <3>1, <3>2 DEF EditOK
  <2> QED
    BY <2>2, <2>3, <2>4, <2>5 DEF Inv, EditInv
<1> QED
  BY <1>1, <1>2, RestartKept DEF Next

(* Every run keeps the invariant.                                              *)
THEOREM RecordsInvariant == Spec => []Inv
BY InitInv, NextInv, PTL DEF Spec

(* Every variable has its type.                                                *)
THEOREM RecordTypes == Spec => []TypeOK
<1>1. Inv => TypeOK
  BY DEF Inv, RepoInv, RepoTypes, EditInv, EditTypes, RequestTypes, TypeOK, Points
<1> QED
  BY <1>1, RecordsInvariant, PTL

(* The database never has a name that the account's record never had, whatever *)
(* fails and however the updates of an account interleave.                     *)
THEOREM DbFollowsTheRepo == Spec => []DbNameWasRecorded
<1>1. Inv => DbNameWasRecorded
  BY DEF Inv, EditInv, EditNames, DbNameWasRecorded
<1> QED
  BY <1>1, RecordsInvariant, PTL

(* Updates of an account that follow each other, and that do not stop halfway, *)
(* leave the record and the row as they were sent, however reads without the   *)
(* lock, follows, failures and restarts come between, unless one of them left  *)
(* the account's cached shard behind the last commit.                          *)
THEOREM SerialEditsAgree == Spec => []EditsAgree
<1>1. Inv => EditsAgree
  BY DEF Inv, EditInv, EditOK, EditsAgree
<1> QED
  BY <1>1, RecordsInvariant, PTL

(* A bill that exists is changed by a request that set out to change it, until *)
(* a read without the lock, or a commit reported as failed, leaves the cached  *)
(* shard of the bills behind the last commit.                                  *)
THEOREM CreationsDoNotOverwrite == Spec => CreatedOnce
<1> DEFINE Kept == \A k \in Bills :
       /\ System \notin astray
       /\ repo[System].bills[k] # Absent /\ repo'[System].bills[k] # repo[System].bills[k]
       => \E p \in Procs : /\ req[p].op \in {"update", "delete"} /\ req[p].bill = k
                          /\ ~At(p, "idle") /\ pc'[p] = "idle"
<1>1. ASSUME Inv, [Next]_vars, NEW k \in Bills, System \notin astray,
             repo[System].bills[k] # Absent, repo'[System].bills[k] # repo[System].bills[k]
      PROVE  \E p \in Procs : /\ req[p].op \in {"update", "delete"} /\ req[p].bill = k
                              /\ ~At(p, "idle") /\ pc'[p] = "idle"
  <2>s. System \in Repos /\ System \notin Accounts /\ Contents(System) = BillRecords
    BY ValuesAssumption DEF Repos, Contents
  <2>t. RequestTypes /\ RepoInv /\ repo' # repo
    BY <1>1 DEF Inv
  <2>w. ASSUME NEW a \in Accounts, NEW x, Committed(a, x) \/ CommittedUntold(a, x)
        PROVE  repo'[System] = repo[System]
    <3>1. AddRow(a, x)
      BY <2>w DEF Committed, CommittedUntold
    <3> QED
      BY <2>s, <2>t, <3>1, AccountContents DEF AddRow, RepoInv, RepoTypes
  <2>1. PICK p \in Procs : PutBill(p)
    <3>1. PICK p \in Procs : Serve(p)
      BY <1>1, <2>t DEF Next, Restart, vars, repos
    <3>2. PutBill(p) \/ PutRecord(p) \/ PutFollow(p)
      BY <2>t, <3>1 DEF Serve, View, CacheHit, CacheMiss, GetLastShard, FillCache, UpdateProfile,
        UpdateLegislator, Validate, UpdateRow, CreateBill, UpdateBill, DeleteBill, Follow,
        RefuseRow, Unfollow, FindNoRow, repos
    <3>3. ~PutRecord(p)
      <4>1. SUFFICES ASSUME PutRecord(p) PROVE FALSE
        OBVIOUS
      <4>2. req[p].op \in Edits
        BY <1>1, <4>1 DEF PutRecord, At, Inv, PointOK
      <4>3. req[p].who \in Accounts
        BY <1>1, <4>2, Editing
      <4>4. \/ Committed(req[p].who, NewRecord(p)) \/ CommittedUntold(req[p].who, NewRecord(p))
            \/ NotCommitted(req[p].who)
        BY <4>1 DEF PutRecord
      <4> QED
        BY <1>1, <2>t, <2>w, <4>3, <4>4 DEF NotCommitted
    <3>4. ~PutFollow(p)
      <4>1. SUFFICES ASSUME PutFollow(p) PROVE FALSE
        OBVIOUS
      <4>2. req[p].op = "follow" /\ req[p] \in Requests
        BY <1>1, <4>1 DEF PutFollow, At, Inv, PointOK, RequestTypes
      <4>3. req[p].who \in Accounts
        BY <4>2, RequestFields DEF Accounts
      <4>4. \/ NotCommitted(req[p].who)
            \/ \E x \in Seen(req[p].who) :
                 Committed(req[p].who, x) \/ CommittedUntold(req[p].who, x)
        BY <4>1 DEF PutFollow
      <4> QED
        BY <1>1, <2>t, <2>w, <4>3, <4>4 DEF NotCommitted
    <3> QED
      BY <3>2, <3>3, <3>4
  <2>2. PICK tree \in Seen(System) : \E x \in TreeAfter(p, tree) :
          Committed(System, x) \/ CommittedUntold(System, x)
    BY <2>1, <2>t DEF PutBill, NotCommitted
  <2>3. PICK x \in TreeAfter(p, tree) : Committed(System, x) \/ CommittedUntold(System, x)
    BY <2>2
  <2>4. pc[p] = "putBill" /\ Return(p)
    BY <2>1 DEF PutBill, At
  <2>5. req[p].op \in {"create", "update", "delete"} /\ req[p] \in Requests
    BY <1>1, <2>4 DEF Inv, PointOK, RequestTypes
  <2>6. req[p].bill \in Bills /\ req[p].to \in Names \cup {Absent}
    BY <2>5, RequestFields
  <2>7. tree = repo[System] /\ tree \in BillRecords
    BY <1>1, <2>s, <2>t, SeenIsLast
  <2>8. repo'[System] = x
    <3>1. AddRow(System, x)
      BY <2>3 DEF Committed, CommittedUntold
    <3> QED
      BY <1>1, <2>s, <2>t, <3>1 DEF AddRow, RepoInv, RepoTypes
  <2>9. /\ (tree.bills[req[p].bill] = Absent) = (req[p].op = "create")
        /\ \A b \in Bills : x.bills[b] # tree.bills[b] => b = req[p].bill
    BY <2>6, <2>7, TreeIsKept
  <2>10. req[p].bill = k /\ req[p].op \in {"update", "delete"}
    BY <1>1, <2>5, <2>7, <2>8, <2>9
  <2>11. pc'[p] = "idle"
    BY <2>4, <2>t, Returned
  <2> QED
    BY <2>4, <2>10, <2>11 DEF At
<1>2. Inv /\ [Next]_vars => [Kept]_vars
  BY <1>1
<1> QED
  BY <1>2, RecordsInvariant, PTL DEF Spec, CreatedOnce

-------------------------------------------------------------------------------
(* How what is stored is encoded: Codec.                                       *)

(* Induction over the numbers, for a set of them.                              *)
LEMMA NatSet ==
  ASSUME NEW S, 0 \in S, \A n \in Nat : n \in S => n + 1 \in S
  PROVE  \A n \in Nat : n \in S
<1> DEFINE R == {n \in Nat : n \notin S}
<1>1. SUFFICES ASSUME R # {} PROVE FALSE
  OBVIOUS
<1>2. R \subseteq Nat
  OBVIOUS
<1>3. PICK x \in R : \A y \in R : ~(<<y, x>> \in OpToRel(<, Nat))
  <2> HIDE DEF R
  <2> QED
    BY <1>1, <1>2, NatLessThanWellFounded, WFMin
<1>4. \A y \in R : ~(y < x)
  BY <1>3 DEF OpToRel
<1>5. x \in Nat /\ x # 0 /\ x \notin S
  OBVIOUS
<1>6. x - 1 \in Nat /\ x - 1 < x /\ (x - 1) + 1 = x
  BY <1>5
<1>7. x - 1 \in S
  BY <1>4, <1>6
<1> QED
  BY <1>5, <1>6, <1>7

(* A function on 0..n can be defined by its first value and the next ones.     *)
From(a, G, n, A, f) ==
  f \in [0..n -> A] /\ f[0] = a /\ \A i \in 1..n : f[i] = G[<<f[i - 1], i>>]

(* There always is one.                                                        *)
LEMMA Recursion ==
  ASSUME NEW n \in Nat, NEW A, NEW a \in A, NEW G \in [A \X Nat -> A]
  PROVE  \E f : From(a, G, n, A, f)
<1> DEFINE Is(f, m) == /\ f \in [0..m -> A] /\ f[0] = a
                       /\ \A i \in 1..m : f[i] = G[<<f[i - 1], i>>]
           S == {m \in Nat : \E f : Is(f, m)}
<1>1. 0 \in S
  <2> DEFINE g == [i \in 0..0 |-> a]
  <2>1. g \in [0..0 -> A] /\ g[0] = a /\ 1..0 = {}
    OBVIOUS
  <2>2. Is(g, 0)
    <3> HIDE DEF g
    <3> QED
      BY <2>1
  <2> HIDE DEF g, Is
  <2> QED
    BY <2>2
<1>2. ASSUME NEW m \in Nat, m \in S PROVE m + 1 \in S
  <2>1. PICK f : Is(f, m)
    BY <1>2
  <2>2. PICK z \in A : z = G[<<f[m], m + 1>>]
    <3>1. f[m] \in A
      BY <2>1
    <3>2. <<f[m], m + 1>> \in A \X Nat
      BY <3>1
    <3> QED
      BY <3>2
  <2> DEFINE g == [i \in 0..(m + 1) |-> IF i = m + 1 THEN z ELSE f[i]]
  <2>3. g \in [0..(m + 1) -> A]
    BY <2>1
  <2>4. /\ \A i \in 0..m : g[i] = f[i]
        /\ g[m + 1] = z
    OBVIOUS
  <2> HIDE DEF g
  <2>6. ASSUME NEW i \in 1..(m + 1) PROVE g[i] = G[<<g[i - 1], i>>]
    <3>1. CASE i = m + 1
      <4>1. i - 1 = m /\ m \in 0..m
        BY <3>1
      <4> QED
        BY <2>2, <2>4, <3>1, <4>1
    <3>2. CASE i # m + 1
      <4>1. i \in 1..m /\ i - 1 \in 0..m /\ i \in 0..m
        BY <3>2
      <4> QED
        BY <2>1, <2>4, <4>1
    <3> QED
      BY <3>1, <3>2
  <2>7. g[0] = a
    BY <2>1, <2>4
  <2>8. Is(g, m + 1)
    BY <2>3, <2>6, <2>7
  <2> HIDE DEF Is
  <2> QED
    BY <2>8
<1>3. \A m \in Nat : m \in S
  <2> HIDE DEF S
  <2> QED
    BY <1>1, <1>2, NatSet
<1>4. \E f : Is(f, n)
  <2> HIDE DEF Is
  <2> QED
    BY <1>3
<1> QED
  BY <1>4 DEF From

(* The numbers of S up to n in order, a step at a time.                        *)
LEMMA InOrderSteps ==
  ASSUME NEW n \in Nat, NEW S
  PROVE  \E f \in [0..n -> Seq(1..n)] :
           /\ f[0] = <<>> /\ InOrder(S, n) = f[n]
           /\ \A i \in 1..n : f[i] = IF i \in S THEN Append(f[i - 1], i) ELSE f[i - 1]
<1> DEFINE A == Seq(1..n)
           Step(s, i) == IF i \in S /\ i \in 1..n THEN Append(s, i) ELSE s
           G == [p \in A \X Nat |-> Step(p[1], p[2])]
           Eq(f) == f = [i \in 0..n |-> IF i = 0 THEN <<>>
                             ELSE IF i \in S THEN Append(f[i - 1], i) ELSE f[i - 1]]
<1>0. ASSUME NEW s \in A, NEW i \in Nat PROVE Step(s, i) \in A
  <2>1. CASE i \in S /\ i \in 1..n
    <3>1. Append(s, i) \in A
      BY <2>1
    <3> QED
      BY <2>1, <3>1
  <2>2. CASE ~(i \in S /\ i \in 1..n)
    BY <2>2
  <2> QED
    BY <2>1, <2>2
<1>1. G \in [A \X Nat -> A]
  <2> HIDE DEF A, Step
  <2> QED
    BY <1>0
<1>2. <<>> \in A
  OBVIOUS
<1>g. \A s \in A, i \in Nat : G[<<s, i>>] = Step(s, i)
  <2> HIDE DEF A, Step
  <2> QED
    OBVIOUS
<1>3. PICK h \in [0..n -> A] : h[0] = <<>> /\ \A i \in 1..n : h[i] = G[<<h[i - 1], i>>]
  <2> HIDE DEF A, G
  <2>1. PICK a \in A : a = <<>>
    BY <1>2
  <2>2. \E f : From(a, G, n, A, f)
    BY <1>1, Recursion
  <2> QED
    BY <2>1, <2>2 DEF From
<1>4. ASSUME NEW i \in 1..n PROVE h[i] = IF i \in S THEN Append(h[i - 1], i) ELSE h[i - 1]
  <2>1. h[i - 1] \in A /\ i \in Nat
    <3>1. i - 1 \in 0..n /\ i \in Nat
      OBVIOUS
    <3> HIDE DEF A
    <3> QED
      BY <3>1
  <2>2. h[i] = Step(h[i - 1], i)
    <3> HIDE DEF A, Step, G
    <3> QED
      BY <1>3, <2>1, <1>g
  <2> QED
    BY <2>2
<1>5. Eq(h)
  <2> DEFINE e == [i \in 0..n |-> IF i = 0 THEN <<>>
                             ELSE IF i \in S THEN Append(h[i - 1], i) ELSE h[i - 1]]
  <2>1. ASSUME NEW i \in 0..n PROVE h[i] = e[i]
    <3>1. CASE i = 0
      BY <1>3, <3>1
    <3>2. CASE i # 0
      <4>1. i \in 1..n
        BY <3>2
      <4>2. e[i] = IF i \in S THEN Append(h[i - 1], i) ELSE h[i - 1]
        BY <3>2
      <4> HIDE DEF e
      <4> QED
        BY <1>4, <4>1, <4>2
    <3> QED
      BY <3>1, <3>2
  <2>2. DOMAIN h = 0..n /\ h = [i \in 0..n |-> h[i]]
    OBVIOUS
  <2> QED
    BY <2>1, <2>2
<1> DEFINE f == CHOOSE f : Eq(f)
<1>6. Eq(f)
  <2> HIDE DEF Eq
  <2> QED
    BY <1>5
<1>7. InOrder(S, n) = f[n]
  BY DEF InOrder
<1> HIDE DEF f
<1>8. f[0] = <<>>
  BY <1>6
<1>9. ASSUME NEW i \in 1..n PROVE f[i] = IF i \in S THEN Append(f[i - 1], i) ELSE f[i - 1]
  <2>1. i \in 0..n /\ i # 0
    OBVIOUS
  <2> QED
    BY <1>6, <2>1
<1>10. \A m \in 0..n : f[m] \in A
  <2> DEFINE K == {m \in Nat : m \in 0..n => f[m] \in A}
  <2>1. 0 \in K
    BY <1>8, <1>2
  <2>2. ASSUME NEW m \in Nat, m \in K PROVE m + 1 \in K
    <3> SUFFICES ASSUME m + 1 \in 1..n PROVE f[m + 1] \in A
      OBVIOUS
    <3>1. f[m] \in A /\ (m + 1) - 1 = m
      BY <2>2
    <3>2. f[m + 1] = IF m + 1 \in S THEN Append(f[m], m + 1) ELSE f[m]
      BY <1>9, <3>1
    <3>3. Append(f[m], m + 1) \in A
      BY <3>1
    <3> QED
      BY <3>1, <3>2, <3>3
  <2>3. \A m \in Nat : m \in K
    <3> HIDE DEF K
    <3> QED
      BY <2>1, <2>2, NatSet
  <2> QED
    BY <2>3
<1>11. f \in [0..n -> A]
  <2>1. f = [i \in 0..n |-> f[i]]
    BY <1>6
  <2> HIDE DEF A
  <2> QED
    BY <1>10, <2>1
<1> QED
  BY <1>7, <1>8, <1>9, <1>11

(* They are all of them, each once and in order.                               *)
LEMMA InOrderShape ==
  ASSUME NEW n \in Nat, NEW S \in SUBSET (1..n)
  PROVE  /\ InOrder(S, n) \in Seq(1..n)
         /\ \A k \in 1..Len(InOrder(S, n)) : InOrder(S, n)[k] \in S
         /\ \A x \in S : \E k \in 1..Len(InOrder(S, n)) : InOrder(S, n)[k] = x
         /\ \A j, k \in 1..Len(InOrder(S, n)) : j < k => InOrder(S, n)[j] < InOrder(S, n)[k]
<1>1. PICK f \in [0..n -> Seq(1..n)] :
             /\ f[0] = <<>> /\ InOrder(S, n) = f[n]
             /\ \A i \in 1..n : f[i] = IF i \in S THEN Append(f[i - 1], i) ELSE f[i - 1]
  BY InOrderSteps
<1> DEFINE Good(m, s) ==
      /\ \A k \in 1..Len(s) : s[k] \in S /\ s[k] <= m
      /\ \A x \in S : x <= m => \E k \in 1..Len(s) : s[k] = x
      /\ \A j, k \in 1..Len(s) : j < k => s[j] < s[k]
           K == {m \in Nat : m \in 0..n => Good(m, f[m])}
<1>2. 0 \in K
  <2>1. Len(f[0]) = 0 /\ 1..Len(f[0]) = {} /\ \A x \in S : ~(x <= 0)
    BY <1>1
  <2> QED
    BY <2>1
<1>s. ASSUME NEW x \in S PROVE x \in Nat
  OBVIOUS
<1>3. ASSUME NEW m \in Nat, m \in K PROVE m + 1 \in K
  <2> SUFFICES ASSUME m + 1 \in 1..n PROVE Good(m + 1, f[m + 1])
    OBVIOUS
  <2>1. PICK s \in Seq(1..n) : s = f[m] /\ Good(m, s)
    <3>1. m \in 0..n /\ Good(m, f[m])
      BY <1>3
    <3> HIDE DEF Good
    <3> QED
      BY <3>1
  <2>2. f[m + 1] = IF m + 1 \in S THEN Append(s, m + 1) ELSE s
    <3>1. (m + 1) - 1 = m
      OBVIOUS
    <3> QED
      BY <1>1, <2>1, <3>1
  <2>3. CASE m + 1 \notin S
    <3>1. ASSUME NEW x \in S PROVE x \in Nat /\ (x <= m + 1 => x <= m)
      <4>1. x \in 1..n /\ x # m + 1
        BY <2>3
      <4> QED
        BY <4>1
    <3>2. \A k \in 1..Len(s) : s[k] \in Nat /\ s[k] <= m + 1
      BY <2>1
    <3> QED
      BY <2>1, <2>2, <2>3, <3>1, <3>2
  <2>4. CASE m + 1 \in S
    <3> DEFINE t == Append(s, m + 1)
    <3>1. PICK l \in Nat : l = Len(s)
      OBVIOUS
    <3>2. /\ t \in Seq(1..n) /\ Len(t) = l + 1 /\ t[l + 1] = m + 1
          /\ \A k \in 1..l : t[k] = s[k]
      BY <2>4, <3>1
    <3> HIDE DEF t
    <3>3. ASSUME NEW k \in 1..Len(t) PROVE t[k] \in S /\ t[k] <= m + 1
      <4>1. k \in 1..l \/ k = l + 1
        BY <3>2
      <4>2. ASSUME k \in 1..l PROVE s[k] \in S /\ s[k] <= m + 1
        <5>1. s[k] \in S /\ s[k] <= m
          BY <4>2, <3>1, <2>1
        <5>2. s[k] \in Nat
          BY <5>1, <1>s
        <5> QED
          BY <5>1, <5>2
      <4> QED
        BY <4>1, <4>2, <3>2, <2>4
    <3>4. ASSUME NEW x \in S, x <= m + 1 PROVE \E k \in 1..Len(t) : t[k] = x
      <4>1. CASE x = m + 1
        BY <4>1, <3>2
      <4>2. CASE x # m + 1
        <5>1. x <= m
          BY <3>4, <4>2
        <5>2. PICK k \in 1..l : s[k] = x
          BY <2>1, <3>1, <3>4, <5>1
        <5> QED
          BY <3>2, <5>2
      <4> QED
        BY <4>1, <4>2
    <3>5. ASSUME NEW j \in 1..Len(t), NEW k \in 1..Len(t), j < k PROVE t[j] < t[k]
      <4>1. j \in 1..l
        BY <3>2, <3>5
      <4>2. t[j] = s[j] /\ s[j] <= m /\ s[j] \in Nat
        <5>1. s[j] \in 1..n
          BY <2>1, <3>1, <4>1
        <5>2. t[j] = s[j]
          BY <3>2, <4>1
        <5>3. s[j] <= m
          BY <2>1, <3>1, <4>1
        <5> QED
          BY <5>1, <5>2, <5>3
      <4>3. CASE k \in 1..l
        BY <2>1, <3>1, <3>2, <3>5, <4>1, <4>3
      <4>4. CASE k = l + 1
        BY <3>2, <4>2, <4>4
      <4> QED
        BY <3>2, <4>3, <4>4
    <3>6. f[m + 1] = t
      BY <2>2, <2>4 DEF t
    <3> QED
      BY <3>3, <3>4, <3>5, <3>6
  <2> QED
    BY <2>3, <2>4
<1>4. \A m \in Nat : m \in K
  <2> HIDE DEF K
  <2> QED
    BY <1>2, <1>3, NatSet
<1>5. n \in 0..n /\ Good(n, f[n])
  <2> HIDE DEF Good
  <2> QED
    BY <1>4
<1>6. PICK s \in Seq(1..n) : s = InOrder(S, n) /\ Good(n, s)
  <2> HIDE DEF Good
  <2> QED
    BY <1>1, <1>5
<1>7. \A x \in S : x <= n
  OBVIOUS
<1> QED
  BY <1>6, <1>7

(* Of all the numbers, ...                                                     *)
LEMMA InOrderAll ==
  ASSUME NEW n \in Nat
  PROVE  InOrder(1..n, n) = [k \in 1..n |-> k]
<1>1. PICK f \in [0..n -> Seq(1..n)] :
             /\ f[0] = <<>> /\ InOrder(1..n, n) = f[n]
             /\ \A i \in 1..n : f[i] = IF i \in 1..n THEN Append(f[i - 1], i) ELSE f[i - 1]
  BY InOrderSteps
<1> DEFINE K == {m \in Nat : m \in 0..n => f[m] = [k \in 1..m |-> k]}
<1>2. 0 \in K
  <2>1. [k \in 1..0 |-> k] = <<>>
    OBVIOUS
  <2> QED
    BY <1>1, <2>1
<1>3. ASSUME NEW m \in Nat, m \in K PROVE m + 1 \in K
  <2> SUFFICES ASSUME m + 1 \in 1..n PROVE f[m + 1] = [k \in 1..(m + 1) |-> k]
    OBVIOUS
  <2>1. f[m] = [k \in 1..m |-> k]
    BY <1>3
  <2>2. (m + 1) - 1 = m
    OBVIOUS
  <2>3. f[m + 1] = Append(f[m], m + 1)
    BY <1>1, <2>2
  <2>4. f[m] \in Seq(1..n) /\ Len(f[m]) = m
    BY <2>1
  <2> QED
    BY <2>1, <2>3, <2>4
<1>4. \A m \in Nat : m \in K
  <2> HIDE DEF K
  <2> QED
    BY <1>2, <1>3, NatSet
<1> QED
  BY <1>1, <1>4

(* ... and of all but one.                                                     *)
LEMMA InOrderAllBut ==
  ASSUME NEW n \in Nat, NEW x \in 1..n
  PROVE  InOrder((1..n) \ {x}, n) = [k \in 1..(n - 1) |-> IF k < x THEN k ELSE k + 1]
<1> DEFINE Upto(m) == [k \in 1..m |-> IF k < x THEN k ELSE k + 1]
<1>0. PICK S \in SUBSET (1..n) : S = (1..n) \ {x}
  OBVIOUS
<1>1. PICK f \in [0..n -> Seq(1..n)] :
             /\ f[0] = <<>> /\ InOrder(S, n) = f[n]
             /\ \A i \in 1..n : f[i] = IF i \in S THEN Append(f[i - 1], i) ELSE f[i - 1]
  BY InOrderSteps
<1> DEFINE K == {m \in Nat : m \in 0..n => f[m] = IF m < x THEN Upto(m) ELSE Upto(m - 1)}
<1>2. 0 \in K
  <2>1. Upto(0) = <<>>
    OBVIOUS
  <2> HIDE DEF Upto
  <2> QED
    BY <1>1, <2>1
<1>3. ASSUME NEW m \in Nat, m \in K PROVE m + 1 \in K
  <2> SUFFICES ASSUME m + 1 \in 1..n
               PROVE  f[m + 1] = IF m + 1 < x THEN Upto(m + 1) ELSE Upto(m)
    BY (m + 1) - 1 = m
  <2>1. /\ f[m] = IF m < x THEN Upto(m) ELSE Upto(m - 1)
        /\ f[m] \in Seq(1..n)
    BY <1>3
  <2>2. f[m + 1] = IF m + 1 # x THEN Append(f[m], m + 1) ELSE f[m]
    <3>1. (m + 1) - 1 = m
      OBVIOUS
    <3> QED
      BY <1>0, <1>1, <3>1
  <2>3. CASE m + 1 = x
    <3> HIDE DEF Upto
    <3> QED
      BY <2>1, <2>2, <2>3
  <2>4. CASE m + 1 < x
    <3>1. f[m] = Upto(m) /\ Len(f[m]) = m
      BY <2>1, <2>4
    <3>2. f[m + 1] = Append(f[m], m + 1)
      BY <2>2, <2>4
    <3> QED
      BY <2>1, <2>4, <3>1, <3>2
  <2>5. CASE m + 1 > x
    <3>1. f[m] = Upto(m - 1) /\ Len(f[m]) = m - 1 /\ m - 1 \in Nat /\ (m - 1) + 1 = m
      BY <2>1, <2>5
    <3>2. f[m + 1] = Append(f[m], m + 1)
      BY <2>2, <2>5
    <3>3. Append(f[m], m + 1) = Upto(m)
      BY <2>1, <2>5, <3>1
    <3> HIDE DEF Upto
    <3> QED
      BY <2>5, <3>2, <3>3
  <2> QED
    BY <2>3, <2>4, <2>5
<1>4. \A m \in Nat : m \in K
  <2> HIDE DEF K
  <2> QED
    BY <1>2, <1>3, NatSet
<1>5. n \in K /\ n \in 0..n /\ ~(n < x)
  <2> HIDE DEF K
  <2> QED
    BY <1>4
<1>6. f[n] = Upto(n - 1)
  <2> HIDE DEF Upto
  <2> QED
    BY <1>5
<1> QED
  BY <1>0, <1>1, <1>6

(* A name's place in the order of keys.                                        *)
LEMMA RankOf ==
  ASSUME NEW i \in 1..57
  PROVE  Rank(KeyOrder[i]) = i
<1>1. ASSUME NEW j \in 1..57, KeyOrder[j] = KeyOrder[i] PROVE j = i
  BY <1>1, SMTT(120) DEF KeyOrder
<1>2. DOMAIN KeyOrder = 1..57
  BY DEF KeyOrder
<1> QED
  BY <1>1, <1>2 DEF Rank

(* The places of all the names.                                                *)
LEMMA Ranks ==
  /\ Rank("t") = 1 /\ Rank("op") = 2 /\ Rank("did") = 3 /\ Rank("rev") = 4
  /\ Rank("sig") = 5 /\ Rank("url") = 6 /\ Rank("bill") = 7 /\ Rank("data") = 8
  /\ Rank("date") = 9 /\ Rank("name") = 10 /\ Rank("prev") = 11 /\ Rank("rank") = 12
  /\ Rank("role") = 13 /\ Rank("root") = 14 /\ Rank("text") = 15 /\ Rank("type") = 16
  /\ Rank("$type") = 17 /\ Rank("embed") = 18 /\ Rank("error") = 19
  /\ Rank("image") = 20 /\ Rank("langs") = 21 /\ Rank("party") = 22
  /\ Rank("phone") = 23 /\ Rank("reply") = 24 /\ Rank("state") = 25
  /\ Rank("title") = 26 /\ Rank("topic") = 27 /\ Rank("avatar") = 28
  /\ Rank("choice") = 29 /\ Rank("facets") = 30 /\ Rank("labels") = 31
  /\ Rank("parent") = 32 /\ Rank("status") = 33 /\ Rank("address") = 34
  /\ Rank("message") = 35 /\ Rank("session") = 36 /\ Rank("subject") = 37
  /\ Rank("version") = 38 /\ Rank("district") = 39 /\ Rank("endpoint") = 40
  /\ Rank("imageUrl") = 41 /\ Rank("previous") = 42 /\ Rank("services") = 43
  /\ Rank("createdAt") = 44 /\ Rank("billAction") = 45 /\ Rank("identifier") = 46
  /\ Rank("legislator") = 47 /\ Rank("statusDate") = 48 /\ Rank("alsoKnownAs") = 49
  /\ Rank("description") = 50 /\ Rank("displayName") = 51 /\ Rank("legislature") = 52
  /\ Rank("versionType") = 53 /\ Rank("rotationKeys") = 54
  /\ Rank("currentVersion") = 55 /\ Rank("legislativeBody") = 56
  /\ Rank("verificationMethods") = 57
<1>1. \A i \in 1..57 : Rank(KeyOrder[i]) = i
  BY RankOf
<1> QED
  BY <1>1 DEF KeyOrder

(* What every field is, however it was made: a pointer where it must be one,   *)
(* and never left out if it says the type or is bytes.                         *)
FieldKinds == {"const", "text", "int", "bytes", "link", "ref", "union", "list", "map"}

FieldOK(f) ==
  /\ f.kind \in FieldKinds /\ f.nil \in BOOLEAN /\ f.omit \in BOOLEAN
  /\ f.kind \in {"ref", "union"} => f.nil
  /\ f.kind \in {"const", "int", "bytes", "list", "map"} => ~f.nil
  /\ f.kind \in {"const", "bytes"} => ~f.omit

(* A type has its fields in the order of their names.                          *)
CodecOK(q) ==
  /\ Len(q) \in Nat /\ DOMAIN q = 1..Len(q)
  /\ \A i \in 1..Len(q) : FieldOK(q[i]) /\ Rank(q[i].name) \in Nat
  /\ \A i, j \in 1..Len(q) : i < j => Rank(q[i].name) < Rank(q[j].name)

(* The fields as they are made.                                                *)
LEMMA Constructors ==
  /\ FieldOK(Const) /\ Const.name = "$type"
  /\ \A n : /\ FieldOK(Text(n)) /\ Text(n).name = n
            /\ FieldOK(AnyText(n)) /\ AnyText(n).name = n
            /\ FieldOK(NullText(n)) /\ NullText(n).name = n
            /\ FieldOK(OptText(n)) /\ OptText(n).name = n
            /\ FieldOK(Number(n)) /\ Number(n).name = n
            /\ FieldOK(Bytes(n)) /\ Bytes(n).name = n
            /\ FieldOK(Link(n)) /\ Link(n).name = n
            /\ FieldOK(NullLink(n)) /\ NullLink(n).name = n
            /\ FieldOK(Ref(n)) /\ Ref(n).name = n
            /\ FieldOK(OptRef(n)) /\ OptRef(n).name = n
            /\ FieldOK(OptUnion(n)) /\ OptUnion(n).name = n
            /\ FieldOK(List(n)) /\ List(n).name = n
            /\ FieldOK(OptList(n)) /\ OptList(n).name = n
            /\ FieldOK(Map(n)) /\ Map(n).name = n
BY DEF FieldOK, FieldKinds, Field, Const, Text, AnyText, NullText, OptText, Number, Bytes, Link,
       NullLink, Ref, OptRef, OptUnion, List, OptList, Map

(* So it is with every type.                                                   *)
LEMMA CodecsOK == ASSUME NEW T \in Types PROVE CodecOK(Codecs[T])
<1>1. CodecOK(UserProfile)
  BY Ranks, Constructors DEF UserProfile, CodecOK
<1>2. CodecOK(GraphFollow)
  BY Ranks, Constructors DEF GraphFollow, CodecOK
<1>3. CodecOK(BillDetail)
  BY Ranks, Constructors DEF BillDetail, CodecOK
<1>4. CodecOK(BillVersion)
  BY Ranks, Constructors DEF BillVersion, CodecOK
<1>5. CodecOK(BillVersion_VersionRef)
  BY Ranks, Constructors DEF BillVersion_VersionRef, CodecOK
<1>6. CodecOK(BillAction)
  BY Ranks, Constructors DEF BillAction, CodecOK
<1>7. CodecOK(LegislatorProfile)
  BY Ranks, Constructors DEF LegislatorProfile, CodecOK
<1>8. CodecOK(LegislatorVote)
  BY Ranks, Constructors DEF LegislatorVote, CodecOK
<1>9. CodecOK(LegislatorSponsor)
  BY Ranks, Constructors DEF LegislatorSponsor, CodecOK
<1>10. CodecOK(UserLegislatorFollow)
  BY Ranks, Constructors DEF UserLegislatorFollow, CodecOK
<1>11. CodecOK(UserEndorsement)
  BY Ranks, Constructors DEF UserEndorsement, CodecOK
<1>12. CodecOK(UserBillFollow)
  BY Ranks, Constructors DEF UserBillFollow, CodecOK
<1>13. CodecOK(UserActivity)
  BY Ranks, Constructors DEF UserActivity, CodecOK
<1>14. CodecOK(UserActivity_ReplyRef)
  BY Ranks, Constructors DEF UserActivity_ReplyRef, CodecOK
<1>15. CodecOK(UnsignedCommit)
  BY Ranks, Constructors DEF UnsignedCommit, CodecOK
<1>16. CodecOK(SignedCommit)
  BY Ranks, Constructors DEF SignedCommit, CodecOK
<1>17. CodecOK(Op)
  BY Ranks, Constructors DEF Op, CodecOK
<1>18. CodecOK(Service)
  BY Ranks, Constructors DEF Service, CodecOK
<1>19. CodecOK(TombstoneOp)
  BY Ranks, Constructors DEF TombstoneOp, CodecOK
<1>20. CodecOK(EventHeader)
  BY Ranks, Constructors DEF EventHeader, CodecOK
<1>21. CodecOK(ErrorFrame)
  BY Ranks, Constructors DEF ErrorFrame, CodecOK
<1> QED
  BY <1>1, <1>2, <1>3, <1>4, <1>5, <1>6, <1>7, <1>8, <1>9, <1>10, <1>11, <1>12, <1>13, <1>14,
      <1>15, <1>16, <1>17, <1>18, <1>19, <1>20, <1>21 DEF Types, Codecs

(* So a name has one field, ...                                                *)
LEMMA FieldAt ==
  ASSUME NEW T \in Types, NEW i \in 1..Len(Codecs[T])
  PROVE  /\ FieldOf(T, Codecs[T][i].name) = Codecs[T][i]
         /\ Codecs[T][i].name \in FieldNames(T) /\ FieldOK(Codecs[T][i])
<1> DEFINE q == Codecs[T]
<1>1. CodecOK(q) /\ i \in 1..Len(q)
  BY CodecsOK
<1> HIDE DEF q
<1>2. ASSUME NEW j \in 1..Len(q), q[j].name = q[i].name PROVE j = i
  <2>1. PICK r \in Nat : r = Rank(q[i].name) /\ r = Rank(q[j].name)
    BY <1>1, <1>2 DEF CodecOK
  <2>2. ASSUME i < j \/ j < i PROVE FALSE
    <3>1. \/ Rank(q[i].name) < Rank(q[j].name)
          \/ Rank(q[j].name) < Rank(q[i].name)
      BY <1>1, <2>2 DEF CodecOK
    <3>2. r < r
      BY <2>1, <3>1
    <3> QED
      BY <3>2
  <2>3. i \in Nat /\ j \in Nat
    BY <1>1 DEF CodecOK
  <2> QED
    BY <2>2, <2>3
<1>3. DOMAIN q = 1..Len(q) /\ FieldOK(q[i])
  BY <1>1 DEF CodecOK, q
<1>4. q[CHOOSE j \in DOMAIN q : q[j].name = q[i].name] = q[i]
  BY <1>2, <1>3 DEF q
<1> QED
  BY <1>3, <1>4 DEF q, FieldOf, FieldNames

(* ... which is one of the type's.                                             *)
LEMMA FieldHas ==
  ASSUME NEW T \in Types, NEW n \in FieldNames(T)
  PROVE  /\ FieldOK(FieldOf(T, n))
         /\ \E i \in 1..Len(Codecs[T]) : Codecs[T][i] = FieldOf(T, n) /\ Codecs[T][i].name = n
<1>1. DOMAIN Codecs[T] = 1..Len(Codecs[T])
  BY CodecsOK DEF CodecOK
<1>2. PICK i \in 1..Len(Codecs[T]) : Codecs[T][i].name = n
  BY <1>1 DEF FieldNames
<1> QED
  BY <1>2, FieldAt

(* A block of v has an entry for each field that is present, in the order of   *)
(* the type.                                                                   *)
LaidOut(T, v, b, h) ==
  LET q == Codecs[T] IN
  /\ h \in Seq(1..Len(q)) /\ DOMAIN b = 1..Len(h) /\ Len(b) = Len(h)
  /\ \A k \in 1..Len(h) : h[k] \in Present(T, v) /\ b[k] = Entry(q[h[k]], v[q[h[k]].name])
  /\ \A i \in Present(T, v) : \E k \in 1..Len(h) : h[k] = i
  /\ \A j, k \in 1..Len(h) : j < k => h[j] < h[k]

(* So Marshal lays it out.                                                     *)
LEMMA MarshalLaysOut ==
  ASSUME NEW T \in Types, NEW v
  PROVE  \E h : LaidOut(T, v, Marshal(T, v), h)
<1> DEFINE q == Codecs[T]
           all == [i \in DOMAIN q |-> Entry(q[i], v[q[i].name])]
<1>1. PICK n \in Nat : n = Len(q) /\ DOMAIN q = 1..n
  BY CodecsOK DEF CodecOK
<1>2. PICK S \in SUBSET (1..n) : S = Present(T, v)
  BY <1>1 DEF Present
<1>3. Len(all) = n /\ DOMAIN all = 1..n /\ \A i \in 1..n : all[i] = Entry(q[i], v[q[i].name])
  <2> HIDE DEF q
  <2> QED
    BY <1>1
<1>4. Marshal(T, v) = Only(all, S)
  BY <1>2 DEF Marshal
<1> HIDE DEF all
<1>5. PICK h \in Seq(1..n) :
        /\ h = InOrder(S, n)
        /\ \A k \in 1..Len(h) : h[k] \in S
        /\ \A i \in S : \E k \in 1..Len(h) : h[k] = i
        /\ \A j, k \in 1..Len(h) : j < k => h[j] < h[k]
  BY InOrderShape
<1>6. Marshal(T, v) = [k \in 1..Len(h) |-> all[h[k]]]
  BY <1>3, <1>4, <1>5 DEF Only
<1>7. \A k \in 1..Len(h) : h[k] \in 1..n
  BY <1>5
<1>8. \A k \in 1..Len(h) : Marshal(T, v)[k] = Entry(q[h[k]], v[q[h[k]].name])
  BY <1>3, <1>6, <1>7
<1>9. DOMAIN Marshal(T, v) = 1..Len(h) /\ Len(Marshal(T, v)) = Len(h)
  BY <1>6
<1>10. LaidOut(T, v, Marshal(T, v), h)
  <2>1. h \in Seq(1..Len(q))
    BY <1>1
  <2> HIDE DEF q
  <2> QED
    BY <1>2, <1>5, <1>8, <1>9, <2>1 DEF LaidOut, q
<1> QED
  BY <1>10

(* The entry of a name in it.                                                  *)
LEMMA EntryOf ==
  ASSUME NEW T \in Types, NEW v, NEW n \in FieldNames(T),
         NEW b, b = Marshal(T, v), NEW f, f = FieldOf(T, n)
  PROVE  /\ \A k \in DOMAIN b : b[k].name = n => b[k] = Entry(f, v[n]) /\ ~Omitted(f, v[n])
         /\ ~Omitted(f, v[n]) => \E k \in DOMAIN b : b[k] = Entry(f, v[n]) /\ b[k].name = n
<1> DEFINE q == Codecs[T]
<1>1. PICK h : LaidOut(T, v, b, h)
  BY MarshalLaysOut
<1>2. PICK i \in 1..Len(q) : q[i] = f /\ q[i].name = n
  BY FieldHas
<1>3. \A x, g : Entry(g, x).name = g.name
  BY DEF Entry
<1>4. ASSUME NEW k \in DOMAIN b, b[k].name = n
      PROVE  b[k] = Entry(f, v[n]) /\ ~Omitted(f, v[n])
  <2>1. /\ h[k] \in 1..Len(q) /\ h[k] \in Present(T, v)
        /\ b[k] = Entry(q[h[k]], v[q[h[k]].name])
    BY <1>1 DEF LaidOut
  <2>2. q[h[k]].name = n
    BY <1>3, <1>4, <2>1
  <2>3. q[h[k]] = f
    BY <2>1, <2>2, FieldAt
  <2> QED
    BY <2>1, <2>2, <2>3 DEF Present
<1>5. ASSUME ~Omitted(f, v[n])
      PROVE  \E k \in DOMAIN b : b[k] = Entry(f, v[n]) /\ b[k].name = n
  <2>1. DOMAIN q = 1..Len(q)
    BY CodecsOK DEF CodecOK
  <2>2. i \in Present(T, v)
    BY <1>2, <1>5, <2>1 DEF Present
  <2>3. PICK k \in DOMAIN b : b[k] = Entry(q[i], v[q[i].name])
    BY <1>1, <2>2 DEF LaidOut
  <2> QED
    BY <1>2, <1>3, <2>3
<1> QED
  BY <1>4, <1>5

(* Every entry is one of a field.                                              *)
LEMMA EntryIsField ==
  ASSUME NEW T \in Types, NEW v, NEW b, b = Marshal(T, v), NEW k \in DOMAIN b
  PROVE  b[k].name \in FieldNames(T)
<1>1. PICK h : LaidOut(T, v, b, h)
  BY MarshalLaysOut
<1>2. /\ h[k] \in 1..Len(Codecs[T])
      /\ b[k] = Entry(Codecs[T][h[k]], v[Codecs[T][h[k]].name])
  BY <1>1 DEF LaidOut
<1> QED
  BY <1>2, FieldAt DEF Entry

(* The greatest of some numbers is one of them.                                *)
LEMMA MaxIsThere ==
  ASSUME NEW n \in Nat, NEW S \in SUBSET (1..n), S # {}
  PROVE  Max(S) \in S
<1> DEFINE K == {m \in Nat : \A x \in S, k \in 0..m : x + k # n}
<1>1. SUFFICES ASSUME \A y \in S : \E x \in S : ~(y >= x) PROVE FALSE
  <2>1. (\E y \in S : \A x \in S : y >= x) => Max(S) \in S
    BY DEF Max
  <2> QED
    BY <2>1
<1>s. ASSUME NEW x \in S PROVE x \in Nat /\ x <= n
  OBVIOUS
<1>2. 0 \in K
  <2> SUFFICES ASSUME NEW y \in S, y = n PROVE FALSE
    BY <1>s
  <2>1. PICK x \in S : ~(y >= x)
    BY <1>1
  <2> QED
    BY <1>s, <2>1
<1>3. ASSUME NEW m \in Nat, m \in K PROVE m + 1 \in K
  <2> SUFFICES ASSUME NEW y \in S, NEW k \in 0..(m + 1), y + k = n PROVE FALSE
    OBVIOUS
  <2>1. k = m + 1
    BY <1>3
  <2>2. PICK x \in S : ~(y >= x)
    BY <1>1
  <2>3. n - x \in 0..m /\ x + (n - x) = n
    BY <1>s, <2>1, <2>2
  <2> QED
    BY <1>3, <2>3
<1>4. \A m \in Nat : m \in K
  <2> HIDE DEF K
  <2> QED
    BY <1>2, <1>3, NatSet
<1>5. PICK x \in S : TRUE
  OBVIOUS
<1>6. n - x \in Nat /\ x + (n - x) = n /\ n - x \in 0..(n - x)
  BY <1>s
<1> QED
  BY <1>4, <1>6

(* What a field may hold in memory: one of the items it may have, or what is   *)
(* none of the items, as the name of an event.                                 *)
Fits(f, x) == x \in Holds(f) \/ x \notin Items

(* A field that is written can be read, holds then what it held up to what Go  *)
(* does not tell apart, and is written again as it was.                        *)
LEMMA FieldReadsBack ==
  ASSUME NEW f, FieldOK(f), NEW x, Fits(f, x), ~Omitted(f, x), Writable(f, x),
         NEW w, w = Taken(f, Written(f, x))
  PROVE  /\ Readable(f, Written(f, x)) /\ Written(f, x) \notin {Long, Odd}
         /\ Writable(f, w)
         /\ \/ x = w
            \/ f.kind \in {"bytes", "list", "map"} /\ {x, w} = {Nil, Empty}
            \/ f.kind = "const" /\ w = Full
         /\ ~(f.kind = "list" /\ f.omit /\ x = Empty) =>
              ~Omitted(f, w) /\ Written(f, w) = Written(f, x)
<1> USE DEF FieldOK, FieldKinds, Fits, Holds, Zero, Omitted, Writable, Written, Taken, Readable,
            Items, Nil, Empty, Full, Long, Odd
<1>1. CASE f.kind = "const"
  BY <1>1
<1>2. CASE f.kind = "text"
  BY <1>2
<1>3. CASE f.kind = "int"
  BY <1>3
<1>4. CASE f.kind = "bytes"
  BY <1>4
<1>5. CASE f.kind = "link"
  BY <1>5
<1>6. CASE f.kind = "ref"
  BY <1>6
<1>7. CASE f.kind = "union"
  BY <1>7
<1>8. CASE f.kind = "list"
  BY <1>8
<1>9. CASE f.kind = "map"
  BY <1>9
<1> QED
  BY <1>1, <1>2, <1>3, <1>4, <1>5, <1>6, <1>7, <1>8, <1>9

(* What is read fits its field, and so does what nothing was read into. It can *)
(* be written but for a union's object of an unknown type or a missing link.   *)
LEMMA ReadFits ==
  ASSUME NEW f, FieldOK(f)
  PROVE  /\ Fits(f, Zero(f))
         /\ \A x : Readable(f, x) => Fits(f, Taken(f, x))
         /\ \A x : Readable(f, x) /\ ~Writable(f, Taken(f, x)) =>
              \/ f.kind = "union" /\ Taken(f, x) = Odd
              \/ f.kind = "link" /\ Taken(f, x) = Nil
         /\ ~Writable(f, Zero(f)) => f.kind = "link" /\ Zero(f) = Nil
<1> USE DEF FieldOK, FieldKinds, Fits, Holds, Zero, Omitted, Writable, Written, Taken, Readable,
            Items, Nil, Empty, Full, Long, Odd
<1>1. Fits(f, Zero(f))
  OBVIOUS
<1>2. ASSUME NEW x, Readable(f, x) PROVE Fits(f, Taken(f, x))
  BY <1>2
<1>3. ASSUME NEW x, Readable(f, x), ~Writable(f, Taken(f, x))
      PROVE  \/ f.kind = "union" /\ Taken(f, x) = Odd
             \/ f.kind = "link" /\ Taken(f, x) = Nil
  BY <1>3
<1>4. ~Writable(f, Zero(f)) => f.kind = "link" /\ Zero(f) = Nil
  OBVIOUS
<1> QED
  BY <1>1, <1>2, <1>3, <1>4

(* What is read of a block: nothing, or the item of an entry of the name.      *)
LEMMA UnmarshalReads ==
  ASSUME NEW T \in Types, NEW b, Len(b) \in Nat, DOMAIN b = 1..Len(b), NEW w, w = Unmarshal(T, b)
  PROVE  /\ DOMAIN w = FieldNames(T)
         /\ \A n \in FieldNames(T) :
              \/ w[n] = Zero(FieldOf(T, n)) /\ \A i \in DOMAIN b : b[i].name # n
              \/ \E i \in DOMAIN b : b[i].name = n /\ w[n] = Taken(FieldOf(T, n), b[i].item)
<1>1. DOMAIN w = FieldNames(T)
  BY DEF Unmarshal
<1>2. ASSUME NEW n \in FieldNames(T)
      PROVE  \/ w[n] = Zero(FieldOf(T, n)) /\ \A i \in DOMAIN b : b[i].name # n
             \/ \E i \in DOMAIN b : b[i].name = n /\ w[n] = Taken(FieldOf(T, n), b[i].item)
  <2>1. PICK S \in SUBSET (1..Len(b)) : S = {i \in DOMAIN b : b[i].name = n}
    OBVIOUS
  <2>2. w[n] = IF S = {} THEN Zero(FieldOf(T, n)) ELSE Taken(FieldOf(T, n), b[Max(S)].item)
    BY <2>1 DEF Unmarshal
  <2>3. CASE S = {}
    BY <2>1, <2>2, <2>3
  <2>4. CASE S # {}
    <3>1. Max(S) \in S
      BY <2>4, MaxIsThere
    <3> QED
      BY <2>1, <2>2, <2>4, <3>1
  <2> QED
    BY <2>3, <2>4
<1> QED
  BY <1>1, <1>2

(* All the fields of a value fit.                                              *)
FitsAll(T, v) ==
  DOMAIN v = FieldNames(T) /\ \A n \in FieldNames(T) : Fits(FieldOf(T, n), v[n])

(* What is read of any block fits.                                             *)
LEMMA UnmarshalFits ==
  ASSUME NEW T \in Types, NEW b, Len(b) \in Nat, DOMAIN b = 1..Len(b), CanUnmarshal(T, b)
  PROVE  FitsAll(T, Unmarshal(T, b))
<1>1. PICK w : w = Unmarshal(T, b)
  OBVIOUS
<1>2. DOMAIN w = FieldNames(T)
  BY <1>1, UnmarshalReads
<1>3. ASSUME NEW n \in FieldNames(T) PROVE Fits(FieldOf(T, n), w[n])
  <2>1. PICK f : f = FieldOf(T, n) /\ FieldOK(f)
    BY FieldHas
  <2>2. \/ w[n] = Zero(f)
        \/ \E i \in DOMAIN b : b[i].name = n /\ w[n] = Taken(f, b[i].item)
    BY <1>1, <2>1, UnmarshalReads
  <2>3. \A i \in DOMAIN b : b[i].name = n => Readable(f, b[i].item)
    BY <2>1 DEF CanUnmarshal
  <2> QED
    BY <2>1, <2>2, <2>3, ReadFits
<1> QED
  BY <1>1, <1>2, <1>3 DEF FitsAll

(* A foreign block that was read can be written, but for an unknown object or  *)
(* a missing link: ForeignCanBePutBack.                                        *)
LEMMA PutBack ==
  ASSUME NEW T \in Types, NEW b, Len(b) \in Nat, DOMAIN b = 1..Len(b), CanUnmarshal(T, b),
         NEW w, w = Unmarshal(T, b)
  PROVE  \/ CanMarshal(T, w)
         \/ \E n \in FieldNames(T) : LET f == FieldOf(T, n) IN
              \/ f.kind = "union" /\ w[n] = Odd
              \/ f.kind = "link" /\ w[n] = Nil
<1> SUFFICES ASSUME ~CanMarshal(T, w)
             PROVE  \E n \in FieldNames(T) : LET f == FieldOf(T, n) IN
                      \/ f.kind = "union" /\ w[n] = Odd
                      \/ f.kind = "link" /\ w[n] = Nil
  OBVIOUS
<1>1. DOMAIN Codecs[T] = 1..Len(Codecs[T])
  BY CodecsOK DEF CodecOK
<1>2. PICK i \in 1..Len(Codecs[T]) : ~Writable(Codecs[T][i], w[Codecs[T][i].name])
  BY <1>1 DEF CanMarshal, Present
<1>3. PICK f, n : /\ f = Codecs[T][i] /\ n = Codecs[T][i].name
                  /\ FieldOf(T, n) = f /\ n \in FieldNames(T) /\ FieldOK(f)
  BY FieldAt
<1>4. \/ w[n] = Zero(f)
      \/ \E k \in DOMAIN b : b[k].name = n /\ w[n] = Taken(f, b[k].item)
  <2>1. \A m \in FieldNames(T) :
          \/ w[m] = Zero(FieldOf(T, m))
          \/ \E k \in DOMAIN b : b[k].name = m /\ w[m] = Taken(FieldOf(T, m), b[k].item)
    BY UnmarshalReads
  <2> QED
    BY <1>3, <2>1
<1>5. \A k \in DOMAIN b : b[k].name = n => Readable(f, b[k].item)
  BY <1>3 DEF CanUnmarshal
<1>6. \/ f.kind = "union" /\ w[n] = Odd
      \/ f.kind = "link" /\ w[n] = Nil
  BY <1>2, <1>3, <1>4, <1>5, ReadFits
<1> QED
  BY <1>3, <1>6

(* Two values whose fields are present and written alike have the same block.  *)
LEMMA MarshalSame ==
  ASSUME NEW T \in Types, NEW v, NEW w,
         \A n \in FieldNames(T) : LET f == FieldOf(T, n) IN
           /\ Omitted(f, v[n]) <=> Omitted(f, w[n])
           /\ ~Omitted(f, v[n]) => Written(f, v[n]) = Written(f, w[n])
  PROVE  Marshal(T, v) = Marshal(T, w)
<1> DEFINE q == Codecs[T]
           AllOf(u) == [i \in DOMAIN q |-> Entry(q[i], u[q[i].name])]
<1>1. PICK n \in Nat : n = Len(q) /\ DOMAIN q = 1..n
  BY CodecsOK DEF CodecOK
<1>2. ASSUME NEW i \in 1..n
      PROVE  /\ Omitted(q[i], v[q[i].name]) <=> Omitted(q[i], w[q[i].name])
             /\ ~Omitted(q[i], v[q[i].name]) =>
                  Entry(q[i], v[q[i].name]) = Entry(q[i], w[q[i].name])
  <2>1. FieldOf(T, q[i].name) = q[i] /\ q[i].name \in FieldNames(T)
    BY <1>1, FieldAt
  <2> QED
    BY <2>1 DEF Entry
<1>3. PICK S \in SUBSET (1..n) : S = Present(T, v)
  BY <1>1 DEF Present
<1>4. S = Present(T, w)
  BY <1>1, <1>2, <1>3 DEF Present
<1>5. \A i \in S : AllOf(v)[i] = AllOf(w)[i]
  BY <1>1, <1>2, <1>3 DEF Present
<1>6. Len(AllOf(v)) = n /\ Len(AllOf(w)) = n
  <2> HIDE DEF q
  <2> QED
    BY <1>1
<1>7. Marshal(T, v) = Only(AllOf(v), S) /\ Marshal(T, w) = Only(AllOf(w), S)
  BY <1>3, <1>4 DEF Marshal
<1> HIDE DEF AllOf
<1>8. PICK h \in Seq(1..n) : h = InOrder(S, n) /\ \A k \in 1..Len(h) : h[k] \in S
  BY InOrderShape
<1>9. \A k \in DOMAIN h : AllOf(v)[h[k]] = AllOf(w)[h[k]]
  BY <1>5, <1>8
<1> QED
  BY <1>6, <1>7, <1>8, <1>9 DEF Only

(* What was marshalled of a value that fits can be read, ...                   *)
LEMMA MarshalledIsRead ==
  ASSUME NEW T \in Types, NEW v, FitsAll(T, v), CanMarshal(T, v), NEW b, b = Marshal(T, v)
  PROVE  /\ CanUnmarshal(T, b) /\ Len(b) \in Nat /\ DOMAIN b = 1..Len(b)
         /\ \A k \in DOMAIN b : b[k].item \notin {Long, Odd}
<1>1. PICK h : LaidOut(T, v, b, h)
  BY MarshalLaysOut
<1>2. Len(b) \in Nat /\ DOMAIN b = 1..Len(b)
  BY <1>1 DEF LaidOut
<1>3. ASSUME NEW k \in DOMAIN b
      PROVE  /\ b[k].name \in FieldNames(T)
             /\ Readable(FieldOf(T, b[k].name), b[k].item) /\ b[k].item \notin {Long, Odd}
  <2>0. /\ h[k] \in 1..Len(Codecs[T]) /\ h[k] \in Present(T, v)
        /\ b[k] = Entry(Codecs[T][h[k]], v[Codecs[T][h[k]].name])
    BY <1>1 DEF LaidOut
  <2>1. PICK i \in 1..Len(Codecs[T]) :
          /\ i \in Present(T, v)
          /\ b[k] = Entry(Codecs[T][i], v[Codecs[T][i].name])
    BY <2>0
  <2>f. PICK f : f = Codecs[T][i] /\ FieldOf(T, f.name) = f /\ FieldOK(f)
    BY FieldAt
  <2>2. PICK n \in FieldNames(T) :
          f = Codecs[T][i] /\ n = f.name /\ FieldOf(T, n) = f /\ FieldOK(f)
    BY <2>f, FieldAt
  <2>3. Writable(f, v[n]) /\ ~Omitted(f, v[n])
    BY <2>1, <2>2 DEF CanMarshal, Present
  <2>4. Fits(f, v[n])
    BY <2>2 DEF FitsAll
  <2>5. Readable(f, Written(f, v[n])) /\ Written(f, v[n]) \notin {Long, Odd}
    BY <2>2, <2>3, <2>4, FieldReadsBack
  <2> QED
    BY <2>1, <2>2, <2>5 DEF Entry
<1> QED
  BY <1>2, <1>3 DEF CanUnmarshal

(* ... each field as it was written.                                           *)
LEMMA MarshalledFields ==
  ASSUME NEW T \in Types, NEW v, NEW b, b = Marshal(T, v), NEW n \in FieldNames(T),
         NEW f, f = FieldOf(T, n)
  PROVE  Unmarshal(T, b)[n] = IF Omitted(f, v[n]) THEN Zero(f) ELSE Taken(f, Written(f, v[n]))
<1>1. PICK h : LaidOut(T, v, b, h)
  BY MarshalLaysOut
<1>2. Len(b) \in Nat /\ DOMAIN b = 1..Len(b)
  BY <1>1 DEF LaidOut
<1>3. PICK w : w = Unmarshal(T, b)
  OBVIOUS
<1>4. \/ w[n] = Zero(f) /\ \A i \in DOMAIN b : b[i].name # n
      \/ \E i \in DOMAIN b : b[i].name = n /\ w[n] = Taken(f, b[i].item)
  BY <1>2, <1>3, UnmarshalReads
<1>5. /\ \A k \in DOMAIN b : b[k].name = n => b[k] = Entry(f, v[n]) /\ ~Omitted(f, v[n])
      /\ ~Omitted(f, v[n]) => \E k \in DOMAIN b : b[k] = Entry(f, v[n]) /\ b[k].name = n
  BY EntryOf
<1> QED
  BY <1>3, <1>4, <1>5 DEF Entry

(* So it is the same value, and gives the same block again unless it has an    *)
(* optional list that is there and empty.                                      *)
LEMMA RoundTrip ==
  ASSUME NEW T \in Types, NEW v, FitsAll(T, v), CanMarshal(T, v),
         NEW b, b = Marshal(T, v), NEW w, w = Unmarshal(T, b)
  PROVE  /\ SameValue(T, v, w) /\ CanMarshal(T, w)
         /\ ~HasEmptyList(T, v) => Marshal(T, w) = b
<1>1. ASSUME NEW n \in FieldNames(T), NEW f, f = FieldOf(T, n)
      PROVE  /\ \/ v[n] = w[n]
                \/ f.kind \in {"bytes", "list", "map"} /\ {v[n], w[n]} = {Nil, Empty}
                \/ f.kind = "const" /\ w[n] = Full
             /\ ~Omitted(f, w[n]) => Writable(f, w[n])
             /\ ~(f.kind = "list" /\ f.omit /\ v[n] = Empty) =>
                  /\ Omitted(f, v[n]) <=> Omitted(f, w[n])
                  /\ ~Omitted(f, v[n]) => Written(f, v[n]) = Written(f, w[n])
  <2>1. FieldOK(f) /\ Fits(f, v[n])
    BY <1>1, FieldHas DEF FitsAll
  <2>2. w[n] = IF Omitted(f, v[n]) THEN Zero(f) ELSE Taken(f, Written(f, v[n]))
    BY <1>1, MarshalledFields
  <2>3. CASE Omitted(f, v[n])
    BY <2>2, <2>3 DEF Omitted
  <2>4. CASE ~Omitted(f, v[n])
    <3>1. Writable(f, v[n])
      <4>1. PICK i \in 1..Len(Codecs[T]) : Codecs[T][i] = f /\ Codecs[T][i].name = n
        BY <1>1, FieldHas
      <4>2. DOMAIN Codecs[T] = 1..Len(Codecs[T])
        BY CodecsOK DEF CodecOK
      <4> QED
        BY <2>4, <4>1, <4>2 DEF CanMarshal, Present
    <3>2. w[n] = Taken(f, Written(f, v[n]))
      BY <2>2, <2>4
    <3>3. PICK x, y : x = v[n] /\ y = w[n]
      OBVIOUS
    <3>4. /\ Writable(f, y)
          /\ \/ x = y
             \/ f.kind \in {"bytes", "list", "map"} /\ {x, y} = {Nil, Empty}
             \/ f.kind = "const" /\ y = Full
          /\ ~(f.kind = "list" /\ f.omit /\ x = Empty) =>
               ~Omitted(f, y) /\ Written(f, y) = Written(f, x)
      BY <2>1, <2>4, <3>1, <3>2, <3>3, FieldReadsBack
    <3> QED
      BY <2>4, <3>3, <3>4
  <2> QED
    BY <2>3, <2>4
<1>2. SameValue(T, v, w)
  BY <1>1 DEF SameValue
<1>3. CanMarshal(T, w)
  <2>1. DOMAIN Codecs[T] = 1..Len(Codecs[T])
    BY CodecsOK DEF CodecOK
  <2>2. ASSUME NEW i \in Present(T, w) PROVE Writable(Codecs[T][i], w[Codecs[T][i].name])
    <3>1. i \in 1..Len(Codecs[T]) /\ ~Omitted(Codecs[T][i], w[Codecs[T][i].name])
      BY <2>1 DEF Present
    <3>2. PICK n \in FieldNames(T) : n = Codecs[T][i].name /\ FieldOf(T, n) = Codecs[T][i]
      BY <3>1, FieldAt
    <3> QED
      BY <1>1, <3>1, <3>2
  <2> QED
    BY <2>2 DEF CanMarshal
<1>4. ASSUME ~HasEmptyList(T, v) PROVE Marshal(T, w) = b
  <2>1. ASSUME NEW n \in FieldNames(T)
        PROVE  LET f == FieldOf(T, n) IN
                 /\ Omitted(f, v[n]) <=> Omitted(f, w[n])
                 /\ ~Omitted(f, v[n]) => Written(f, v[n]) = Written(f, w[n])
    <3>1. PICK f : f = FieldOf(T, n)
      OBVIOUS
    <3>2. ~(f.kind = "list" /\ f.omit /\ v[n] = Empty)
      BY <1>4, <3>1 DEF HasEmptyList
    <3> QED
      BY <1>1, <3>1, <3>2
  <2> QED
    BY <2>1, MarshalSame
<1> QED
  BY <1>2, <1>3, <1>4

(* What was marshalled is canonical.                                           *)
LEMMA MarshalledIsCanonical ==
  ASSUME NEW T \in Types, NEW v, FitsAll(T, v), CanMarshal(T, v), NEW b, b = Marshal(T, v)
  PROVE  Canonical(T, b)
<1>1. PICK h : LaidOut(T, v, b, h)
  BY MarshalLaysOut
<1>2. \A k \in DOMAIN b : b[k].item \notin {Long, Odd}
  BY MarshalledIsRead
<1>3. ASSUME NEW j \in DOMAIN b, NEW k \in DOMAIN b, j < k
      PROVE  Rank(b[j].name) < Rank(b[k].name)
  <2>1. /\ h[j] \in 1..Len(Codecs[T]) /\ h[k] \in 1..Len(Codecs[T]) /\ h[j] < h[k]
        /\ b[j].name = Codecs[T][h[j]].name /\ b[k].name = Codecs[T][h[k]].name
    BY <1>1, <1>3 DEF LaidOut, Entry
  <2> QED
    BY <2>1, CodecsOK DEF CodecOK
<1>4. ASSUME NEW n \in FieldNames(T), FieldOf(T, n).kind = "const"
      PROVE  \E i \in DOMAIN b : b[i] = [name |-> n, item |-> Full]
  <2>1. PICK f : f = FieldOf(T, n) /\ FieldOK(f) /\ f.name = n
    BY FieldHas
  <2>2. ~Omitted(f, v[n])
    BY <1>4, <2>1 DEF Omitted, FieldOK
  <2>3. \E k \in DOMAIN b : b[k] = Entry(f, v[n])
    BY <2>1, <2>2, EntryOf
  <2>4. Entry(f, v[n]) = [name |-> n, item |-> Full]
    <3>1. Fits(f, v[n]) /\ f.kind = "const" /\ ~f.nil
      BY <1>4, <2>1 DEF FitsAll, FieldOK
    <3>2. v[n] # Nil
      BY <3>1 DEF Fits, Holds, Zero, Items, Nil, Empty, Full, Odd
    <3>3. Written(f, v[n]) = Full
      BY <3>1, <3>2 DEF Written
    <3> QED
      BY <2>1, <3>3 DEF Entry
  <2> QED
    BY <2>3, <2>4
<1> QED
  BY <1>2, <1>3, <1>4 DEF Canonical

(* The entries of blocks that others write of T.                               *)
EntriesOf(T) == [name : FieldNames(T) \cup {"other"}, item : Items]

(* What is left of a sequence without one of its positions, and with another   *)
(* at its end, is still a sequence of the same things.                         *)
LEMMA ChangedKeeps ==
  ASSUME NEW N, NEW b \in Seq([name : N, item : Items]), "other" \in N, NEW c \in Changed(b)
  PROVE  c \in Seq([name : N, item : Items])
<1> DEFINE E == [name : N, item : Items]
<1>1. ASSUME NEW i \in DOMAIN b PROVE RemoveAt(b, i) \in Seq(E) /\ b[i] \in E
  <2>1. i \in 1..Len(b) /\ Len(b) \in Nat
    OBVIOUS
  <2>2. b \in Seq(E)
    OBVIOUS
  <2> HIDE DEF E
  <2>3. b[i] \in E
    BY <2>1, <2>2
  <2>4. SubSeq(b, 1, i - 1) \in Seq(E)
    BY <2>1, <2>2
  <2>5. SubSeq(b, i + 1, Len(b)) \in Seq(E)
    BY <2>1, <2>2
  <2> QED
    BY <2>3, <2>4, <2>5 DEF RemoveAt
<1>2. CASE c = b
  BY <1>2
<1>3. CASE \E i \in DOMAIN b : c = RemoveAt(b, i)
  BY <1>1, <1>3
<1>4. CASE \E i \in DOMAIN b, x \in Items : c = [b EXCEPT ![i].item = x]
  <2>1. PICK i \in DOMAIN b, x \in Items : c = [b EXCEPT ![i].item = x]
    BY <1>4
  <2>2. PICK e \in E : e = [b[i] EXCEPT !.item = x]
    BY <1>1
  <2>3. c = [b EXCEPT ![i] = e]
    BY <2>1, <2>2
  <2>4. b \in Seq(E) /\ i \in 1..Len(b)
    OBVIOUS
  <2> HIDE DEF E
  <2> QED
    BY <2>3, <2>4 DEF E
<1>5. CASE \E i \in DOMAIN b : c = Append(RemoveAt(b, i), b[i])
  <2>1. PICK i \in DOMAIN b : c = Append(RemoveAt(b, i), b[i])
    BY <1>5
  <2>2. PICK r \in Seq(E), e \in E : r = RemoveAt(b, i) /\ e = b[i]
    BY <1>1
  <2> HIDE DEF E
  <2>3. Append(r, e) \in Seq(E)
    OBVIOUS
  <2> QED
    BY <2>1, <2>2, <2>3 DEF E
<1>6. CASE c = Append(b, [name |-> "other", item |-> Full])
  <2>1. PICK e \in E : e = [name |-> "other", item |-> Full]
    BY DEF Items
  <2>2. b \in Seq(E)
    OBVIOUS
  <2> HIDE DEF E
  <2>3. Append(b, e) \in Seq(E)
    BY <2>2
  <2> QED
    BY <1>6, <2>1, <2>3 DEF E
<1> QED
  BY <1>2, <1>3, <1>4, <1>5, <1>6 DEF Changed

(* So the blocks of others have entries of the type's fields, and others.      *)
LEMMA ForeignTyped ==
  ASSUME NEW T \in Types, NEW b \in Foreign(T)
  PROVE  b \in Seq(EntriesOf(T))
<1> DEFINE Blocks == Seq(EntriesOf(T))
           A == SUBSET Blocks
           G == [p \in A \X Nat |-> UNION {Changed(c) : c \in p[1]}]
           Eq(f) == f = [i \in 0..MaxChanges |->
                           IF i = 0 THEN {Usual(T)} ELSE UNION {Changed(c) : c \in f[i - 1]}]
<1>n. MaxChanges \in Nat
  BY BoundsAssumption
<1>1. Usual(T) \in Blocks
  <2>1. PICK n \in Nat : n = Len(Codecs[T]) /\ DOMAIN Codecs[T] = 1..n
    BY CodecsOK DEF CodecOK
  <2>2. ASSUME NEW i \in 1..n PROVE [name |-> Codecs[T][i].name, item |-> Full] \in EntriesOf(T)
    BY <2>1, FieldAt DEF EntriesOf, Items
  <2> QED
    BY <2>1, <2>2 DEF Usual
<1>2. ASSUME NEW X \in A PROVE UNION {Changed(c) : c \in X} \in A
  BY ChangedKeeps DEF EntriesOf
<1>3. G \in [A \X Nat -> A]
  <2>1. ASSUME NEW p \in A \X Nat PROVE UNION {Changed(c) : c \in p[1]} \in A
    <3>1. PICK X \in A : X = p[1]
      OBVIOUS
    <3> HIDE DEF A
    <3> QED
      BY <1>2, <3>1
  <2> HIDE DEF A
  <2> QED
    BY <2>1
<1>4. PICK h \in [0..MaxChanges -> A] :
        h[0] = {Usual(T)} /\ \A i \in 1..MaxChanges : h[i] = G[<<h[i - 1], i>>]
  <2>1. PICK a \in A : a = {Usual(T)}
    BY <1>1
  <2> HIDE DEF A, G
  <2>2. \E f : From(a, G, MaxChanges, A, f)
    BY <1>n, <1>3, Recursion
  <2> QED
    BY <2>1, <2>2 DEF From
<1>5. ASSUME NEW i \in 1..MaxChanges PROVE h[i] = UNION {Changed(c) : c \in h[i - 1]}
  <2>1. PICK X \in A : X = h[i - 1]
    <3>1. i - 1 \in 0..MaxChanges
      BY <1>n
    <3> HIDE DEF A
    <3> QED
      BY <1>4, <3>1
  <2>2. h[i] = G[<<X, i>>] /\ i \in Nat
    <3> HIDE DEF A, G
    <3> QED
      BY <1>4, <1>n, <2>1
  <2>3. G[<<X, i>>] = UNION {Changed(c) : c \in X}
    <3>1. <<X, i>> \in A \X Nat
      BY <2>2
    <3> HIDE DEF A
    <3> QED
      BY <3>1
  <2> QED
    BY <2>1, <2>2, <2>3
<1>6. Eq(h)
  <2> DEFINE e == [i \in 0..MaxChanges |->
                     IF i = 0 THEN {Usual(T)} ELSE UNION {Changed(c) : c \in h[i - 1]}]
  <2>1. ASSUME NEW i \in 0..MaxChanges PROVE h[i] = e[i]
    <3>1. CASE i = 0
      BY <1>4, <3>1
    <3>2. CASE i # 0
      <4>1. i \in 1..MaxChanges
        BY <1>n, <3>2
      <4>2. e[i] = UNION {Changed(c) : c \in h[i - 1]}
        BY <3>2
      <4> HIDE DEF e
      <4> QED
        BY <1>5, <4>1, <4>2
    <3> QED
      BY <3>1, <3>2
  <2>2. h = [i \in 0..MaxChanges |-> h[i]]
    OBVIOUS
  <2> HIDE DEF A, G
  <2> QED
    BY <2>1, <2>2
<1> DEFINE f == CHOOSE f : Eq(f)
<1>7. Eq(f)
  <2> HIDE DEF Eq
  <2> QED
    BY <1>6
<1>8. Foreign(T) = f[MaxChanges]
  BY DEF Foreign
<1> HIDE DEF f
<1> DEFINE K == {m \in Nat : m \in 0..MaxChanges => f[m] \in A}
<1>9. 0 \in K
  <2>1. f[0] = {Usual(T)}
    BY <1>7, <1>n
  <2> QED
    BY <1>1, <2>1
<1>10. ASSUME NEW m \in Nat, m \in K PROVE m + 1 \in K
  <2> SUFFICES ASSUME m + 1 \in 0..MaxChanges PROVE f[m + 1] \in A
    OBVIOUS
  <2>1. m \in 0..MaxChanges /\ (m + 1) - 1 = m /\ m + 1 # 0
    BY <1>n
  <2>2. f[m + 1] = UNION {Changed(c) : c \in f[m]}
    BY <1>7, <2>1
  <2>3. f[m] \in A
    BY <1>10, <2>1
  <2> HIDE DEF A, K
  <2> QED
    BY <1>2, <2>2, <2>3
<1>11. MaxChanges \in K /\ MaxChanges \in 0..MaxChanges
  <2>1. \A m \in Nat : m \in K
    <3> HIDE DEF K
    <3> QED
      BY <1>9, <1>10, NatSet
  <2> HIDE DEF K
  <2> QED
    BY <1>n, <2>1
<1>12. Foreign(T) \in A
  BY <1>8, <1>11
<1> QED
  BY <1>12

(* A block without its signature has the other entries, in their order.        *)
LEMMA SigTakenAway ==
  ASSUME NEW b, Len(b) \in Nat, DOMAIN b = 1..Len(b)
  PROVE  \E g : /\ g \in Seq(1..Len(b)) /\ WithoutSig(b) = [k \in 1..Len(g) |-> b[g[k]]]
                /\ \A k \in 1..Len(g) : b[g[k]].name # "sig"
                /\ \A i \in 1..Len(b) : b[i].name # "sig" => \E k \in 1..Len(g) : g[k] = i
<1>1. PICK n \in Nat : n = Len(b)
  OBVIOUS
<1>2. PICK S \in SUBSET (1..n) : S = {i \in DOMAIN b : b[i].name # "sig"}
  BY <1>1
<1>3. PICK g \in Seq(1..n) : /\ g = InOrder(S, n)
                             /\ \A k \in 1..Len(g) : g[k] \in S
                             /\ \A i \in S : \E k \in 1..Len(g) : g[k] = i
  BY InOrderShape
<1>4. WithoutSig(b) = Only(b, S)
  BY <1>2 DEF WithoutSig
<1>5. WithoutSig(b) = [k \in 1..Len(g) |-> b[g[k]]]
  BY <1>1, <1>3, <1>4 DEF Only
<1>6. /\ g \in Seq(1..Len(b)) /\ \A k \in 1..Len(g) : b[g[k]].name # "sig"
      /\ \A i \in 1..Len(b) : b[i].name # "sig" => \E k \in 1..Len(g) : g[k] = i
  BY <1>1, <1>2, <1>3
<1> QED
  BY <1>5, <1>6

(* The entries of all the fields of a value.                                   *)
AllOf(T, v) == [i \in 1..Len(Codecs[T]) |-> Entry(Codecs[T][i], v[Codecs[T][i].name])]

(* The first n of q without the one at x.                                      *)
AllBut(q, n, x) == [k \in 1..(n - 1) |-> q[IF k < x THEN k ELSE k + 1]]

(* A value of which everything is present, and its block without the sig.      *)
LEMMA AllWritten ==
  ASSUME NEW T \in Types, NEW v, Present(T, v) = 1..Len(Codecs[T]),
         NEW x \in 1..Len(Codecs[T]), Codecs[T][x].name = "sig"
  PROVE  /\ Marshal(T, v) = AllOf(T, v)
         /\ WithoutSig(Marshal(T, v)) = AllBut(AllOf(T, v), Len(Codecs[T]), x)
<1>0. PICK q : q = AllOf(T, v)
  OBVIOUS
<1>1. PICK n \in Nat : n = Len(Codecs[T]) /\ DOMAIN Codecs[T] = 1..n
  BY CodecsOK DEF CodecOK
<1>2. Len(q) = n /\ DOMAIN q = 1..n
  BY <1>0, <1>1 DEF AllOf
<1>3. Marshal(T, v) = q
  <2>1. Marshal(T, v) = Only(q, 1..n)
    BY <1>0, <1>1 DEF Marshal, AllOf
  <2> QED
    <3>1. InOrder(1..n, n) = [k \in 1..n |-> k]
      BY InOrderAll
    <3>2. q = [k \in 1..n |-> q[k]]
      BY <1>0, <1>1 DEF AllOf
    <3> QED
      BY <1>2, <2>1, <3>1, <3>2 DEF Only
<1>4. ASSUME NEW i \in 1..n PROVE q[i].name = "sig" <=> i = x
  <2>1. q[i].name = Codecs[T][i].name
    BY <1>0, <1>1 DEF Entry, AllOf
  <2>2. ASSUME Codecs[T][i].name = "sig" PROVE i = x
    <3>1. CodecOK(Codecs[T])
      BY CodecsOK
    <3>2. \A j, k \in 1..n : j < k => Rank(Codecs[T][j].name) < Rank(Codecs[T][k].name)
      BY <1>1, <3>1 DEF CodecOK
    <3>3. PICK r \in Nat : r = Rank("sig")
      BY Ranks
    <3>4. ~(r < r)
      BY <3>3
    <3>5. ~(i < x) /\ ~(x < i)
      BY <1>1, <2>2, <3>2, <3>3, <3>4
    <3> QED
      BY <1>1, <3>5
  <2> QED
    BY <2>1, <2>2
<1>5. WithoutSig(q) = Only(q, (1..n) \ {x})
  <2>1. {i \in DOMAIN q : q[i].name # "sig"} = (1..n) \ {x}
    BY <1>2, <1>4
  <2> QED
    BY <2>1 DEF WithoutSig
<1>6. WithoutSig(q) = [k \in 1..(n - 1) |-> q[IF k < x THEN k ELSE k + 1]]
  <2>1. x \in 1..n
    BY <1>1
  <2>2. InOrder((1..n) \ {x}, n) = [k \in 1..(n - 1) |-> IF k < x THEN k ELSE k + 1]
    BY <2>1, InOrderAllBut
  <2>3. PICK S \in SUBSET (1..n) : S = (1..n) \ {x}
    OBVIOUS
  <2>4. PICK h : h = InOrder(S, n)
    OBVIOUS
  <2>5. WithoutSig(q) = [k \in DOMAIN h |-> q[h[k]]]
    <3>1. WithoutSig(q) = Only(q, S)
      BY <1>5, <2>3
    <3> QED
      BY <1>2, <2>4, <3>1 DEF Only
  <2>6. DOMAIN h = 1..(n - 1) /\ \A k \in 1..(n - 1) : h[k] = IF k < x THEN k ELSE k + 1
    BY <2>2, <2>3, <2>4
  <2> QED
    BY <2>5, <2>6
<1> QED
  BY <1>0, <1>1, <1>3, <1>6 DEF AllBut

(* The fields of commits.                                                      *)
LEMMA CommitFields ==
  /\ "UnsignedCommit" \in Types /\ "SignedCommit" \in Types
  /\ Codecs["UnsignedCommit"] = UnsignedCommit /\ Codecs["SignedCommit"] = SignedCommit
  /\ FieldNames("UnsignedCommit") = {"did", "rev", "data", "prev", "version"}
  /\ FieldNames("SignedCommit") = {"did", "rev", "sig", "data", "prev", "version"}
<1>1. /\ "UnsignedCommit" \in Types /\ "SignedCommit" \in Types
      /\ Codecs["UnsignedCommit"] = UnsignedCommit /\ Codecs["SignedCommit"] = SignedCommit
  BY DEF Types, Codecs
<1>2. {UnsignedCommit[i].name : i \in DOMAIN UnsignedCommit} =
        {"did", "rev", "data", "prev", "version"}
  BY Constructors DEF UnsignedCommit
<1>3. {SignedCommit[i].name : i \in DOMAIN SignedCommit} =
        {"did", "rev", "sig", "data", "prev", "version"}
  BY Constructors DEF SignedCommit
<1> QED
  BY <1>1, <1>2, <1>3 DEF FieldNames

(* The entries of an unsigned commit: rev is left out when it is empty.        *)
LEMMA UnsignedEntries ==
  ASSUME NEW u, NEW b, b = Marshal("UnsignedCommit", u)
  PROVE  /\ u["rev"] # Empty =>
              b = <<Entry(Text("did"), u["did"]), Entry(AnyText("rev"), u["rev"]),
                    Entry(Link("data"), u["data"]), Entry(NullLink("prev"), u["prev"]),
                    Entry(Number("version"), u["version"])>>
         /\ u["rev"] = Empty =>
              b = <<Entry(Text("did"), u["did"]), Entry(Link("data"), u["data"]),
                    Entry(NullLink("prev"), u["prev"]), Entry(Number("version"), u["version"])>>
<1> DEFINE C == UnsignedCommit
           q == [i \in DOMAIN C |-> Entry(C[i], u[C[i].name])]
<1>1. /\ DOMAIN C = 1..5 /\ C[1] = Text("did") /\ C[2] = AnyText("rev") /\ C[3] = Link("data")
      /\ C[4] = NullLink("prev") /\ C[5] = Number("version")
  BY DEF UnsignedCommit
<1>2. Present("UnsignedCommit", u) = IF u["rev"] = Empty THEN (1..5) \ {2} ELSE 1..5
  <2>1. Present("UnsignedCommit", u) = {i \in 1..5 : ~Omitted(C[i], u[C[i].name])}
    BY <1>1, CommitFields DEF Present
  <2>2. \A x : /\ ~Omitted(Text("did"), x) /\ ~Omitted(Link("data"), x)
               /\ ~Omitted(NullLink("prev"), x) /\ ~Omitted(Number("version"), x)
               /\ Omitted(AnyText("rev"), x) <=> x = Empty
    BY DEF Omitted, Text, Link, NullLink, Number, AnyText, Field, Zero
  <2>3. C[2].name = "rev"
    BY <1>1, Constructors
  <2> HIDE DEF C
  <2>4. \A i \in 1..5 : ~Omitted(C[i], u[C[i].name]) <=> (i = 2 => u["rev"] # Empty)
    BY <1>1, <2>2, <2>3
  <2> QED
    BY <2>1, <2>4
<1>3. /\ q = [i \in 1..5 |-> Entry(C[i], u[C[i].name])]
      /\ Len(q) = 5 /\ DOMAIN q = 1..5
  BY <1>1
<1>4. /\ q[1] = Entry(Text("did"), u["did"]) /\ q[2] = Entry(AnyText("rev"), u["rev"])
      /\ q[3] = Entry(Link("data"), u["data"]) /\ q[4] = Entry(NullLink("prev"), u["prev"])
      /\ q[5] = Entry(Number("version"), u["version"])
  <2> HIDE DEF C
  <2> QED
    BY <1>1, Constructors
<1>5. b = Only(q, Present("UnsignedCommit", u))
  BY CommitFields DEF Marshal
<1> HIDE DEF q
<1>6. CASE u["rev"] # Empty
  <2>1. b = [k \in 1..5 |-> q[k]]
    <3>1. InOrder(1..5, 5) = [k \in 1..5 |-> k]
      BY InOrderAll
    <3> QED
      BY <1>2, <1>3, <1>5, <1>6, <3>1 DEF Only
  <2>2. b = <<q[1], q[2], q[3], q[4], q[5]>>
    BY <2>1
  <2> QED
    BY <1>4, <1>6, <2>2
<1>7. CASE u["rev"] = Empty
  <2>1. b = [k \in 1..(5 - 1) |-> q[IF k < 2 THEN k ELSE k + 1]]
    <3>1. InOrder((1..5) \ {2}, 5) = [k \in 1..(5 - 1) |-> IF k < 2 THEN k ELSE k + 1]
      <4>1. PICK n \in Nat : n = 5
        OBVIOUS
      <4>2. PICK x \in 1..n : x = 2
        BY <4>1
      <4>3. InOrder((1..n) \ {x}, n) = [k \in 1..(n - 1) |-> IF k < x THEN k ELSE k + 1]
        BY InOrderAllBut
      <4> QED
        BY <4>1, <4>2, <4>3
    <3> QED
      BY <1>2, <1>3, <1>5, <1>7, <3>1 DEF Only
  <2>2. b = <<q[1], q[3], q[4], q[5]>>
    BY <2>1
  <2> QED
    BY <1>4, <1>7, <2>2
<1> QED
  BY <1>6, <1>7

(* A field that is set fits, can be written and is not left out.               *)
LEMMA FullFits ==
  ASSUME NEW f, FieldOK(f)
  PROVE  Fits(f, Full) /\ Writable(f, Full) /\ ~Omitted(f, Full)
BY DEF FieldOK, FieldKinds, Fits, Holds, Zero, Omitted, Writable, Items, Nil, Empty, Full,
    Long, Odd

(* A pointer that is nil fits, too, and can be written.                        *)
LEMMA NilFits ==
  ASSUME NEW f, FieldOK(f), f.nil
  PROVE  Fits(f, Nil) /\ Writable(f, Nil)
BY DEF FieldOK, FieldKinds, Fits, Holds, Zero, Omitted, Writable, Items, Nil, Empty, Full,
    Long, Odd

(* A value of which all is set but what may be null.                           *)
LEMMA SetFits ==
  ASSUME NEW T \in Types, NEW v, DOMAIN v = FieldNames(T),
         \A n \in FieldNames(T) : v[n] = Full \/ (v[n] = Nil /\ FieldOf(T, n).nil)
  PROVE  FitsAll(T, v) /\ CanMarshal(T, v)
<1>1. ASSUME NEW n \in FieldNames(T)
      PROVE  Fits(FieldOf(T, n), v[n]) /\ Writable(FieldOf(T, n), v[n])
  <2>1. PICK f : f = FieldOf(T, n) /\ FieldOK(f)
    BY FieldHas
  <2>2. v[n] = Full \/ (v[n] = Nil /\ f.nil)
    BY <2>1
  <2> QED
    BY <2>1, <2>2, FullFits, NilFits
<1>2. ASSUME NEW i \in Present(T, v) PROVE Writable(Codecs[T][i], v[Codecs[T][i].name])
  <2>1. i \in 1..Len(Codecs[T])
    BY CodecsOK DEF Present, CodecOK
  <2>2. PICK n \in FieldNames(T) : n = Codecs[T][i].name /\ FieldOf(T, n) = Codecs[T][i]
    BY <2>1, FieldAt
  <2> QED
    BY <1>1, <2>2
<1> QED
  BY <1>1, <1>2 DEF FitsAll, CanMarshal

(* The commit Repo.Commit stores is, without its sig, the one that it signed.  *)
LEMMA CommitIsSigned ==
  ASSUME NEW u, u = [n \in FieldNames("UnsignedCommit") |-> IF n = "prev" THEN Nil ELSE Full],
         NEW c, c = [n \in FieldNames("SignedCommit") |-> IF n = "sig" THEN Full ELSE u[n]]
  PROVE  /\ WithoutSig(Marshal("SignedCommit", c)) = Marshal("UnsignedCommit", u)
         /\ FitsAll("SignedCommit", c) /\ CanMarshal("SignedCommit", c)
<1> DEFINE C == SignedCommit
           q == [i \in 1..Len(C) |-> Entry(C[i], c[C[i].name])]
<1>1. /\ Len(C) = 6 /\ DOMAIN C = 1..6
      /\ C[1] = Text("did") /\ C[2] = AnyText("rev") /\ C[3] = Bytes("sig")
      /\ C[4] = Link("data") /\ C[5] = NullLink("prev") /\ C[6] = Number("version")
  BY DEF SignedCommit
<1>2. /\ u["did"] = Full /\ u["rev"] = Full /\ u["data"] = Full /\ u["prev"] = Nil
      /\ u["version"] = Full
  BY CommitFields
<1>3. /\ c["did"] = Full /\ c["rev"] = Full /\ c["sig"] = Full /\ c["data"] = Full
      /\ c["prev"] = Nil /\ c["version"] = Full
  BY <1>2, CommitFields
<1>4. FitsAll("SignedCommit", c) /\ CanMarshal("SignedCommit", c)
  <2>1. FieldOf("SignedCommit", "prev").nil
    <3>1. FieldOf("SignedCommit", C[5].name) = C[5] /\ C[5].name = "prev"
      <4>1. PICK T \in Types, i \in 1..6 : T = "SignedCommit" /\ i = 5 /\ Codecs[T] = C
        BY CommitFields
      <4>2. FieldOf(T, Codecs[T][i].name) = Codecs[T][i]
        BY <1>1, <4>1, FieldAt
      <4>3. C[5].name = "prev"
        BY <1>1, Constructors
      <4> QED
        BY <4>1, <4>2, <4>3
    <3>2. C[5].nil
      BY <1>1 DEF NullLink, Field
    <3> QED
      BY <3>1, <3>2
  <2>2. ASSUME NEW n \in FieldNames("SignedCommit")
        PROVE  c[n] = Full \/ (c[n] = Nil /\ FieldOf("SignedCommit", n).nil)
    <3>1. n \in {"did", "rev", "sig", "data", "prev", "version"}
      BY CommitFields
    <3>2. n # "prev" => c[n] = Full
      BY <1>3, <3>1
    <3> QED
      BY <1>3, <2>1, <3>2
  <2>3. DOMAIN c = FieldNames("SignedCommit")
    OBVIOUS
  <2> QED
    BY <2>2, <2>3, CommitFields, SetFits
<1>5. Present("SignedCommit", c) = 1..6
  <2>1. Present("SignedCommit", c) = {i \in 1..6 : ~Omitted(C[i], c[C[i].name])}
    BY <1>1, CommitFields DEF Present
  <2>2. \A x : /\ ~Omitted(Text("did"), x) /\ ~Omitted(Link("data"), x)
               /\ ~Omitted(NullLink("prev"), x) /\ ~Omitted(Number("version"), x)
               /\ ~Omitted(Bytes("sig"), x)
               /\ Omitted(AnyText("rev"), x) <=> x = Empty
    BY DEF Omitted, Text, Link, NullLink, Number, AnyText, Bytes, Field, Zero
  <2>3. C[2].name = "rev" /\ c["rev"] # Empty
    BY <1>1, <1>3, Constructors DEF Full, Empty
  <2> HIDE DEF C
  <2>4. \A i \in 1..6 : ~Omitted(C[i], c[C[i].name])
    BY <1>1, <2>2, <2>3
  <2> QED
    BY <2>1, <2>4
<1>6. /\ q[1] = Entry(Text("did"), Full) /\ q[2] = Entry(AnyText("rev"), Full)
      /\ q[4] = Entry(Link("data"), Full) /\ q[5] = Entry(NullLink("prev"), Nil)
      /\ q[6] = Entry(Number("version"), Full)
  <2> HIDE DEF C
  <2> QED
    BY <1>1, <1>3, Constructors
<1>7. WithoutSig(Marshal("SignedCommit", c)) =
        [k \in 1..(Len(C) - 1) |-> q[IF k < 3 THEN k ELSE k + 1]]
  <2>1. PICK T \in Types, x \in Nat : T = "SignedCommit" /\ x = 3
    BY CommitFields
  <2>2. Codecs[T] = C
    BY <2>1, CommitFields
  <2>3. C[3].name = "sig"
    BY <1>1, Constructors
  <2>4. x \in 1..Len(Codecs[T]) /\ Codecs[T][x].name = "sig"
    <3> HIDE DEF C
    <3> QED
      BY <1>1, <2>1, <2>2, <2>3
  <2>5. Present(T, c) = 1..Len(Codecs[T])
    BY <1>1, <1>5, <2>1, <2>2
  <2>6. WithoutSig(Marshal(T, c)) = AllBut(AllOf(T, c), Len(Codecs[T]), x)
    BY <2>4, <2>5, AllWritten
  <2>7. AllOf(T, c) = q
    BY <2>2 DEF AllOf
  <2> HIDE DEF q, C
  <2> QED
    BY <2>1, <2>2, <2>6, <2>7 DEF AllBut
<1>8. WithoutSig(Marshal("SignedCommit", c)) = <<q[1], q[2], q[4], q[5], q[6]>>
  <2>1. Len(C) = 6
    BY <1>1
  <2> HIDE DEF q, C
  <2> QED
    BY <1>7, <2>1
<1>9. Marshal("UnsignedCommit", u) = <<q[1], q[2], q[4], q[5], q[6]>>
  <2> HIDE DEF q
  <2>1. u["rev"] # Empty
    BY <1>2 DEF Full, Empty
  <2> QED
    BY <1>2, <1>6, <2>1, UnsignedEntries
<1> QED
  BY <1>4, <1>8, <1>9

(* So are the operations that CreateDID and TombstoneDID send.                 *)
LEMMA OpIsSigned ==
  ASSUME NEW T \in {"Op", "TombstoneOp"},
         NEW o, o = [n \in FieldNames(T) |-> IF T = "Op" /\ n = "prev" THEN Nil ELSE Full],
         NEW r, r = [o EXCEPT !.sig = Empty]
  PROVE  /\ WithoutSig(Marshal(T, o)) = Marshal(T, r)
         /\ FitsAll(T, o) /\ CanMarshal(T, o)
<1> DEFINE C == Codecs[T]
           q == [i \in 1..Len(C) |-> Entry(C[i], o[C[i].name])]
           all == [i \in DOMAIN C |-> Entry(C[i], r[C[i].name])]
<1>1. T \in Types /\ Codecs["Op"] = Op /\ Codecs["TombstoneOp"] = TombstoneOp
  BY DEF Types, Codecs
<1>2. PICK m \in Nat : m = Len(C) /\ DOMAIN C = 1..m
  BY <1>1, CodecsOK DEF CodecOK
<1>3. /\ 1 \in 1..m /\ C[1] = AnyText("sig")
      /\ \A i \in 2..m : ~C[i].omit /\ C[i].name # "sig"
      /\ T = "Op" => \A i \in 1..m : C[i].name = "prev" => C[i].nil
  <2>1. CASE T = "Op"
    <3>1. m = 7 /\ C = Op
      BY <1>1, <1>2, <2>1 DEF Op
    <3>2. \A i \in 1..7 : Op[i].name = "prev" => Op[i].nil
      BY DEF Op, AnyText, NullText, Text, Map, List, Field
    <3>3. Op[1] = AnyText("sig") /\ \A i \in 2..7 : ~Op[i].omit /\ Op[i].name # "sig"
      BY DEF Op, AnyText, NullText, Text, Map, List, Field
    <3> QED
      BY <3>1, <3>2, <3>3
  <2>2. CASE T = "TombstoneOp"
    <3>1. m = 3 /\ C = TombstoneOp
      BY <1>1, <1>2, <2>2 DEF TombstoneOp
    <3>3. /\ TombstoneOp[1] = AnyText("sig")
          /\ \A i \in 2..3 : ~TombstoneOp[i].omit /\ TombstoneOp[i].name # "sig"
      BY DEF TombstoneOp, AnyText, NullText, Text, Map, List, Field
    <3> QED
      BY <2>2, <3>1, <3>3
  <2> QED
    BY <2>1, <2>2
<1>4. "sig" \in FieldNames(T) /\ C[1].name = "sig"
  <2>1. C[1].name = "sig"
    BY <1>3, Constructors
  <2> QED
    BY <1>1, <1>2, <1>3, <2>1, FieldAt
<1>5. FitsAll(T, o) /\ CanMarshal(T, o)
  <2>1. ASSUME NEW n \in FieldNames(T) PROVE o[n] = Full \/ (o[n] = Nil /\ FieldOf(T, n).nil)
    <3>1. PICK i \in 1..m : C[i] = FieldOf(T, n) /\ C[i].name = n
      BY <1>1, <1>2, FieldHas
    <3>2. T = "Op" /\ n = "prev" => FieldOf(T, n).nil
      BY <1>3, <3>1
    <3> QED
      BY <3>2
  <2>2. DOMAIN o = FieldNames(T)
    OBVIOUS
  <2> QED
    BY <1>1, <2>1, <2>2, SetFits
<1>6. o["sig"] = Full /\ r["sig"] = Empty /\ \A n \in FieldNames(T) : n # "sig" => r[n] = o[n]
  BY <1>4
<1>7. Present(T, o) = 1..m /\ Present(T, r) = (1..m) \ {1}
  <2>1. ASSUME NEW i \in 2..m PROVE ~Omitted(C[i], o[C[i].name]) /\ ~Omitted(C[i], r[C[i].name])
    BY <1>3 DEF Omitted
  <2>2. ~Omitted(C[1], o["sig"]) /\ Omitted(C[1], r["sig"])
    BY <1>3, <1>6 DEF Omitted, AnyText, Field, Zero, Full, Empty
  <2>3. \A i \in 1..m : i = 1 \/ i \in 2..m
    OBVIOUS
  <2>4. DOMAIN Codecs[T] = 1..m
    BY <1>2
  <2>5. \A i \in 1..m : ~Omitted(C[i], o[C[i].name]) /\ (~Omitted(C[i], r[C[i].name]) <=> i # 1)
    BY <1>4, <2>1, <2>2, <2>3
  <2> QED
    BY <2>4, <2>5 DEF Present
<1>8. WithoutSig(Marshal(T, o)) = [k \in 1..(m - 1) |-> q[IF k < 1 THEN k ELSE k + 1]]
  <2>1. PICK x \in Nat : x = 1
    OBVIOUS
  <2>2. x \in 1..Len(Codecs[T]) /\ Codecs[T][x].name = "sig"
    BY <1>2, <1>3, <1>4, <2>1
  <2>3. Present(T, o) = 1..Len(Codecs[T])
    BY <1>2, <1>7
  <2>4. WithoutSig(Marshal(T, o)) = AllBut(AllOf(T, o), Len(Codecs[T]), x)
    BY <1>1, <2>2, <2>3, AllWritten
  <2>5. AllOf(T, o) = q
    BY DEF AllOf
  <2> HIDE DEF q
  <2> QED
    BY <1>2, <2>1, <2>4, <2>5 DEF AllBut
<1>9. Marshal(T, r) = [k \in 1..(m - 1) |-> all[IF k < 1 THEN k ELSE k + 1]]
  <2>1. PICK x \in 1..m : x = 1
    BY <1>3
  <2>2. PICK S \in SUBSET (1..m) : S = (1..m) \ {x}
    OBVIOUS
  <2>3. InOrder(S, m) = [k \in 1..(m - 1) |-> IF k < x THEN k ELSE k + 1]
    <3>1. InOrder((1..m) \ {x}, m) = [k \in 1..(m - 1) |-> IF k < x THEN k ELSE k + 1]
      BY InOrderAllBut
    <3> QED
      BY <2>2, <3>1
  <2>4. PICK h : h = InOrder(S, m)
    OBVIOUS
  <2>5. Marshal(T, r) = Only(all, S)
    BY <1>7, <2>1, <2>2 DEF Marshal
  <2>6. Len(all) = m
    <3> HIDE DEF C
    <3> QED
      BY <1>2
  <2>7. Marshal(T, r) = [k \in DOMAIN h |-> all[h[k]]]
    <3> HIDE DEF all
    <3> QED
      BY <2>4, <2>5, <2>6 DEF Only
  <2>8. DOMAIN h = 1..(m - 1) /\ \A k \in 1..(m - 1) : h[k] = IF k < 1 THEN k ELSE k + 1
    BY <2>1, <2>3, <2>4
  <2> HIDE DEF all
  <2> QED
    BY <2>7, <2>8
<1>10. ASSUME NEW i \in 2..m PROVE all[i] = q[i]
  <2>1. i \in 1..m /\ C[i].name # "sig" /\ C[i].name \in FieldNames(T)
    BY <1>1, <1>2, <1>3, FieldAt
  <2>2. r[C[i].name] = o[C[i].name]
    BY <1>6, <2>1
  <2> HIDE DEF C
  <2> QED
    BY <1>2, <2>1, <2>2
<1>11. \A k \in 1..(m - 1) : ~(k < 1) /\ k + 1 \in 2..m
  OBVIOUS
<1>12. WithoutSig(Marshal(T, o)) = Marshal(T, r)
  <2> HIDE DEF q, all
  <2> QED
    BY <1>8, <1>9, <1>10, <1>11
<1> QED
  BY <1>5, <1>12

(* The fields of a commit that are signed, ...                                 *)
SignedFields == {"did", "rev", "data", "prev", "version"}

SignedField(n) ==
  CASE n = "did" -> Text("did") [] n = "rev" -> AnyText("rev") [] n = "data" -> Link("data")
    [] n = "prev" -> NullLink("prev") [] n = "version" -> Number("version")

(* ... are those of the stored commit, ...                                     *)
LEMMA SignedFieldOf ==
  ASSUME NEW n \in SignedFields
  PROVE  n \in FieldNames("SignedCommit") /\ FieldOf("SignedCommit", n) = SignedField(n)
<1> DEFINE C == SignedCommit
<1>1. /\ DOMAIN C = 1..6 /\ Len(C) = 6
      /\ C[1] = Text("did") /\ C[2] = AnyText("rev")
      /\ C[4] = Link("data") /\ C[5] = NullLink("prev") /\ C[6] = Number("version")
  BY DEF SignedCommit
<1>2. PICK T \in Types : T = "SignedCommit" /\ Codecs[T] = C
  BY CommitFields
<1>3. \A i \in 1..6 : FieldOf(T, C[i].name) = C[i]
  <2>1. \A i \in 1..Len(Codecs[T]) : FieldOf(T, Codecs[T][i].name) = Codecs[T][i]
    BY FieldAt
  <2> HIDE DEF C
  <2> QED
    BY <1>1, <1>2, <2>1
<1>4. /\ C[1].name = "did" /\ C[2].name = "rev" /\ C[4].name = "data" /\ C[5].name = "prev"
      /\ C[6].name = "version"
  <2> HIDE DEF C
  <2> QED
    BY <1>1, Constructors
<1>5. /\ FieldOf(T, "did") = Text("did") /\ FieldOf(T, "rev") = AnyText("rev")
      /\ FieldOf(T, "data") = Link("data") /\ FieldOf(T, "prev") = NullLink("prev")
      /\ FieldOf(T, "version") = Number("version")
  <2> HIDE DEF C
  <2> QED
    BY <1>1, <1>3, <1>4
<1>6. SignedField(n) = FieldOf(T, n)
  BY <1>5 DEF SignedField, SignedFields
<1> QED
  BY <1>2, <1>6, CommitFields DEF SignedFields

(* ... and what is read as one of them is kept and written as it was.          *)
LEMMA SignedFieldKept ==
  ASSUME NEW n \in SignedFields, NEW x \in Items, Readable(SignedField(n), x)
  PROVE  /\ Taken(SignedField(n), x) = x
         /\ Entry(SignedField(n), x) = [name |-> n, item |-> x]
         /\ n = "rev" => x # Nil
<1>1. /\ SignedField("did") = Text("did") /\ SignedField("rev") = AnyText("rev")
      /\ SignedField("data") = Link("data") /\ SignedField("prev") = NullLink("prev")
      /\ SignedField("version") = Number("version")
  BY DEF SignedField
<1> USE DEF Items, Readable, Taken, Entry, Written, Nil, Empty, Full, Long, Odd, Field
<1>2. CASE n = "did"
  BY <1>1, <1>2 DEF Text
<1>3. CASE n = "rev"
  BY <1>1, <1>3 DEF AnyText
<1>4. CASE n = "data"
  BY <1>1, <1>4 DEF Link
<1>5. CASE n = "prev"
  BY <1>1, <1>5 DEF NullLink
<1>6. CASE n = "version"
  BY <1>1, <1>6 DEF Number
<1> QED
  BY <1>2, <1>3, <1>4, <1>5, <1>6 DEF SignedFields

(* What CheckRepoSig encodes of a commit it read is what it has without its    *)
(* sig exactly when that is plain.                                             *)
LEMMA CheckedIff ==
  ASSUME NEW b \in Seq(EntriesOf("SignedCommit")), CanUnmarshal("SignedCommit", b),
         NEW u, u = Unsigned(Unmarshal("SignedCommit", b)),
         NEW m, m = Marshal("UnsignedCommit", u)
  PROVE  m = WithoutSig(b) <=> Plain(b)
<1> DEFINE E == EntriesOf("SignedCommit")
<1>1. /\ Len(b) \in Nat /\ DOMAIN b = 1..Len(b)
      /\ \A i \in 1..Len(b) : b[i] \in E
  <2> HIDE DEF E
  <2> QED
    BY DEF E
<1>e. ASSUME NEW i \in 1..Len(b)
      PROVE  b[i].item \in Items /\ b[i] = [name |-> b[i].name, item |-> b[i].item]
  BY <1>1 DEF EntriesOf
<1>2. ASSUME NEW n \in SignedFields
      PROVE  \/ u[n] = Zero(SignedField(n)) /\ \A i \in DOMAIN b : b[i].name # n
             \/ \E i \in 1..Len(b) : /\ b[i].name = n /\ u[n] = b[i].item
                                     /\ Entry(SignedField(n), u[n]) = b[i]
                                     /\ n = "rev" => u[n] # Nil
  <2>1. PICK T \in Types : T = "SignedCommit"
    BY CommitFields
  <2>w. PICK w : w = Unmarshal(T, b)
    OBVIOUS
  <2>2. u[n] = w[n]
    BY <2>1, <2>w, CommitFields DEF Unsigned, SignedFields
  <2>3. \A k \in FieldNames(T) :
          \/ w[k] = Zero(FieldOf(T, k)) /\ \A i \in DOMAIN b : b[i].name # k
          \/ \E i \in DOMAIN b : b[i].name = k /\ w[k] = Taken(FieldOf(T, k), b[i].item)
    BY <1>1, <2>w, UnmarshalReads
  <2>4. n \in FieldNames(T) /\ FieldOf(T, n) = SignedField(n)
    BY <2>1, SignedFieldOf
  <2>5. \/ w[n] = Zero(SignedField(n)) /\ \A i \in DOMAIN b : b[i].name # n
        \/ \E i \in DOMAIN b : b[i].name = n /\ w[n] = Taken(SignedField(n), b[i].item)
    BY <2>3, <2>4
  <2>6. ASSUME NEW i \in 1..Len(b), b[i].name = n, w[n] = Taken(SignedField(n), b[i].item)
        PROVE  /\ u[n] = b[i].item /\ Entry(SignedField(n), u[n]) = b[i]
               /\ n = "rev" => u[n] # Nil
    <3>1. Readable(SignedField(n), b[i].item)
      BY <1>1, <2>1, <2>4, <2>6 DEF CanUnmarshal
    <3>2. PICK x \in Items : x = b[i].item
      BY <1>e
    <3>3. Taken(SignedField(n), x) = x /\ Entry(SignedField(n), x) = [name |-> n, item |-> x]
          /\ (n = "rev" => x # Nil)
      BY <3>1, <3>2, SignedFieldKept
    <3> QED
      BY <1>e, <2>2, <2>6, <3>2, <3>3
  <2> QED
    BY <1>1, <2>2, <2>5, <2>6
<1>3. PICK g : /\ g \in Seq(1..Len(b)) /\ WithoutSig(b) = [k \in 1..Len(g) |-> b[g[k]]]
               /\ \A k \in 1..Len(g) : b[g[k]].name # "sig"
               /\ \A i \in 1..Len(b) : b[i].name # "sig" => \E k \in 1..Len(g) : g[k] = i
  BY <1>1, SigTakenAway
<1>4. PICK s : s = WithoutSig(b)
  OBVIOUS
<1>5. /\ DOMAIN s = 1..Len(g) /\ Len(g) \in Nat
      /\ \A k \in 1..Len(g) : g[k] \in 1..Len(b) /\ s[k] = b[g[k]]
  BY <1>3, <1>4
<1>s. ASSUME NEW i \in 1..Len(b), b[i].name # "sig"
      PROVE  \E k \in 1..Len(g) : g[k] = i /\ s[k] = b[i]
  <2>1. PICK k \in 1..Len(g) : g[k] = i
    BY <1>3, <1>s
  <2>2. s[k] = b[g[k]]
    BY <1>5
  <2> QED
    BY <2>1, <2>2
<1>6. /\ u["rev"] # Empty =>
           m = <<Entry(SignedField("did"), u["did"]), Entry(SignedField("rev"), u["rev"]),
                 Entry(SignedField("data"), u["data"]), Entry(SignedField("prev"), u["prev"]),
                 Entry(SignedField("version"), u["version"])>>
      /\ u["rev"] = Empty =>
           m = <<Entry(SignedField("did"), u["did"]), Entry(SignedField("data"), u["data"]),
                 Entry(SignedField("prev"), u["prev"]),
                 Entry(SignedField("version"), u["version"])>>
  <2>1. /\ SignedField("did") = Text("did") /\ SignedField("rev") = AnyText("rev")
        /\ SignedField("data") = Link("data") /\ SignedField("prev") = NullLink("prev")
        /\ SignedField("version") = Number("version")
    BY DEF SignedField
  <2> QED
    BY <2>1, UnsignedEntries
<1>7. \A n \in SignedFields : \A x : Entry(SignedField(n), x).name = n
  <2>1. \A n \in SignedFields : SignedField(n).name = n
    BY Constructors DEF SignedField, SignedFields
  <2> QED
    BY <2>1 DEF Entry
<1> DEFINE called == [i \in DOMAIN s |-> s[i].name]
           N5 == <<"did", "rev", "data", "prev", "version">>
           N4 == <<"did", "data", "prev", "version">>
<1>8. Plain(b) <=> /\ called \in {N5, N4}
                   /\ \A i \in 1..Len(b) : b[i] # [name |-> "rev", item |-> Empty]
  BY <1>1, <1>4 DEF Plain, ToSet
<1>9. ASSUME m = s PROVE Plain(b)
  <2>1. CASE u["rev"] # Empty
    <3>1. m = <<m[1], m[2], m[3], m[4], m[5]>> /\ DOMAIN m = 1..5
      BY <1>6, <2>1
    <3>2. m[2] = Entry(SignedField("rev"), u["rev"])
      BY <1>6, <2>1
    <3>3. /\ m[1].name = "did" /\ m[2].name = "rev" /\ m[3].name = "data" /\ m[4].name = "prev"
          /\ m[5].name = "version"
      BY <1>6, <1>7, <2>1 DEF SignedFields
    <3>4. called = N5
      BY <1>9, <3>1, <3>3
    <3>5. ASSUME NEW i \in 1..Len(b), b[i] = [name |-> "rev", item |-> Empty] PROVE FALSE
      <4>0. b[i].name = "rev" /\ b[i].name # "sig"
        BY <3>5
      <4>1. PICK k \in 1..Len(g) : g[k] = i /\ s[k] = b[i]
        BY <1>s, <4>0
      <4>2. k = 2
        BY <1>5, <1>9, <3>1, <3>3, <3>5, <4>1
      <4>3. Written(SignedField("rev"), u["rev"]) = Empty
        BY <1>9, <3>2, <3>5, <4>1, <4>2 DEF Entry
      <4>4. u["rev"] # Nil
        <5>1. "rev" \in SignedFields /\ ~(\A j \in DOMAIN b : b[j].name # "rev")
          BY <1>1, <3>5 DEF SignedFields
        <5> QED
          BY <1>2, <5>1
      <4>5. SignedField("rev") = AnyText("rev")
        BY DEF SignedField
      <4> QED
        BY <2>1, <4>3, <4>4, <4>5 DEF Written, AnyText, Field
    <3> QED
      BY <1>8, <3>4, <3>5
  <2>2. CASE u["rev"] = Empty
    <3>1. m = <<m[1], m[2], m[3], m[4]>> /\ DOMAIN m = 1..4
      BY <1>6, <2>2
    <3>3. /\ m[1].name = "did" /\ m[2].name = "data" /\ m[3].name = "prev"
          /\ m[4].name = "version"
      BY <1>6, <1>7, <2>2 DEF SignedFields
    <3>4. called = N4
      BY <1>9, <3>1, <3>3
    <3>5. ASSUME NEW i \in 1..Len(b), b[i] = [name |-> "rev", item |-> Empty] PROVE FALSE
      <4>0. b[i].name = "rev" /\ b[i].name # "sig"
        BY <3>5
      <4>1. PICK k \in 1..Len(g) : g[k] = i /\ s[k] = b[i]
        BY <1>s, <4>0
      <4>2. k \in 1..4 /\ s[k].name = "rev"
        BY <1>5, <1>9, <3>1, <3>5, <4>1
      <4> QED
        BY <1>9, <3>3, <4>2
    <3> QED
      BY <1>8, <3>4, <3>5
  <2> QED
    BY <2>1, <2>2
<1>10. ASSUME NEW n \in SignedFields, NEW k \in 1..Len(g), s[k].name = n,
              \A j \in 1..Len(g) : s[j].name = n => j = k
       PROVE  u[n] = s[k].item /\ Entry(SignedField(n), u[n]) = s[k]
  <2>1. g[k] \in DOMAIN b /\ b[g[k]].name = n
    BY <1>1, <1>5, <1>10
  <2>2. PICK i \in 1..Len(b) : /\ b[i].name = n /\ u[n] = b[i].item
                               /\ Entry(SignedField(n), u[n]) = b[i]
    BY <1>2, <2>1
  <2>3. n # "sig"
    BY DEF SignedFields
  <2>4. PICK j \in 1..Len(g) : g[j] = i
    BY <1>3, <2>2, <2>3
  <2>5. j = k
    BY <1>5, <1>10, <2>2, <2>4
  <2> QED
    BY <1>5, <2>2, <2>4, <2>5
<1>11. ASSUME Plain(b) PROVE m = s
  <2>0. \A i \in 1..Len(b) : b[i] # [name |-> "rev", item |-> Empty]
    BY <1>8, <1>11
  <2>s. s = [k \in 1..Len(g) |-> s[k]]
    BY <1>3, <1>4
  <2>1. CASE called = N5
    <3>1. Len(g) = 5 /\ DOMAIN s = 1..5
      <4>1. DOMAIN s = 1..5
        <5>1. DOMAIN called = DOMAIN s /\ DOMAIN called = 1..5
          BY <2>1
        <5> QED
          BY <5>1
      <4>2. PICK l \in Nat : l = Len(g) /\ 1..l = 1..5
        BY <1>5, <4>1
      <4>3. l \in 1..l => l <= 5
        BY <4>2
      <4>4. 5 \in 1..l
        BY <4>2
      <4> QED
        BY <4>1, <4>2, <4>3, <4>4
    <3>2. /\ s[1].name = "did" /\ s[2].name = "rev" /\ s[3].name = "data" /\ s[4].name = "prev"
          /\ s[5].name = "version"
      <4>1. \A k \in 1..5 : s[k].name = N5[k]
        BY <2>1, <3>1
      <4> QED
        BY <4>1
    <3>3. /\ Entry(SignedField("did"), u["did"]) = s[1]
          /\ Entry(SignedField("rev"), u["rev"]) = s[2] /\ u["rev"] = s[2].item
          /\ Entry(SignedField("data"), u["data"]) = s[3]
          /\ Entry(SignedField("prev"), u["prev"]) = s[4]
          /\ Entry(SignedField("version"), u["version"]) = s[5]
      BY <1>10, <3>1, <3>2 DEF SignedFields
    <3>4. u["rev"] # Empty
      <4>1. g[2] \in 1..Len(b) /\ s[2] = b[g[2]]
        BY <1>5, <3>1
      <4> QED
        BY <1>e, <2>0, <3>2, <3>3, <4>1
    <3>5. s = <<s[1], s[2], s[3], s[4], s[5]>>
      BY <2>s, <3>1
    <3> QED
      BY <1>6, <3>3, <3>4, <3>5
  <2>2. CASE called = N4
    <3>1. Len(g) = 4 /\ DOMAIN s = 1..4
      <4>1. DOMAIN s = 1..4
        <5>1. DOMAIN called = DOMAIN s /\ DOMAIN called = 1..4
          BY <2>2
        <5> QED
          BY <5>1
      <4>2. PICK l \in Nat : l = Len(g) /\ 1..l = 1..4
        BY <1>5, <4>1
      <4>3. l \in 1..l => l <= 4
        BY <4>2
      <4>4. 4 \in 1..l
        BY <4>2
      <4> QED
        BY <4>1, <4>2, <4>3, <4>4
    <3>2. /\ s[1].name = "did" /\ s[2].name = "data" /\ s[3].name = "prev"
          /\ s[4].name = "version"
      <4>1. \A k \in 1..4 : s[k].name = N4[k]
        BY <2>2, <3>1
      <4> QED
        BY <4>1
    <3>3. /\ Entry(SignedField("did"), u["did"]) = s[1]
          /\ Entry(SignedField("data"), u["data"]) = s[2]
          /\ Entry(SignedField("prev"), u["prev"]) = s[3]
          /\ Entry(SignedField("version"), u["version"]) = s[4]
      BY <1>10, <3>1, <3>2 DEF SignedFields
    <3>4. u["rev"] = Empty
      <4>1. ASSUME NEW i \in DOMAIN b, b[i].name = "rev" PROVE FALSE
        <5>1. PICK k \in 1..Len(g) : g[k] = i
          BY <1>1, <1>3, <4>1
        <5>2. k \in 1..4 /\ s[k].name = "rev"
          BY <1>5, <3>1, <4>1, <5>1
        <5> QED
          BY <3>2, <5>2
      <4>2. "rev" \in SignedFields
        BY DEF SignedFields
      <4>3. u["rev"] = Zero(SignedField("rev"))
        BY <1>1, <1>2, <4>1, <4>2
      <4> QED
        BY <4>3 DEF SignedField, Zero, AnyText, Field
    <3>5. s = <<s[1], s[2], s[3], s[4]>>
      BY <2>s, <3>1
    <3> QED
      BY <1>6, <3>3, <3>4, <3>5
  <2> QED
    BY <1>8, <1>11, <2>1, <2>2
<1> QED
  BY <1>4, <1>9, <1>11

(* The values handlers make fit.                                               *)
LEMMA MadeFits ==
  ASSUME NEW T \in Types, NEW v \in Values(T)
  PROVE  FitsAll(T, v)
<1>1. PICK S, base, g : /\ base \in {AllSet(T), Bare(T)}
                        /\ \A n \in S : g[n] \in Holds(FieldOf(T, n))
                        /\ v = [n \in FieldNames(T) |-> IF n \in S THEN g[n] ELSE base[n]]
  <2> DEFINE Unusual(S) == {g \in [S -> Items] : \A n \in S : g[n] \in Holds(FieldOf(T, n))}
             With(base, S) == {[n \in FieldNames(T) |-> IF n \in S THEN g[n] ELSE base[n]] :
                                 g \in Unusual(S)}
             Some == UNION {kSubset(k, FieldNames(T)) : k \in 0..MaxUnusual}
  <2>1. Values(T) = UNION {With(AllSet(T), S) \cup With(Bare(T), S) : S \in Some}
    BY DEF Values
  <2>2. PICK S \in Some : v \in With(AllSet(T), S) \cup With(Bare(T), S)
    <3> HIDE DEF With, Some
    <3> QED
      BY <2>1
  <2>3. PICK base \in {AllSet(T), Bare(T)} : v \in With(base, S)
    <3> HIDE DEF With, Some
    <3> QED
      BY <2>2
  <2>4. PICK g \in Unusual(S) : v = [n \in FieldNames(T) |-> IF n \in S THEN g[n] ELSE base[n]]
    <3> HIDE DEF Unusual, Some
    <3> QED
      BY <2>3
  <2> QED
    BY <2>4
<1>2. DOMAIN v = FieldNames(T)
  BY <1>1
<1>3. ASSUME NEW n \in FieldNames(T) PROVE Fits(FieldOf(T, n), v[n])
  <2>1. CASE n \in S
    BY <1>1, <2>1 DEF Fits
  <2>2. CASE n \notin S
    <3>1. v[n] = base[n]
      BY <1>1, <2>2
    <3>2. v[n] = Full \/ v[n] = Zero(FieldOf(T, n))
      BY <1>1, <3>1 DEF AllSet, Bare
    <3>3. Full \in Holds(FieldOf(T, n)) /\ Zero(FieldOf(T, n)) \in Holds(FieldOf(T, n))
      BY DEF Holds
    <3> QED
      BY <3>2, <3>3 DEF Fits
  <2> QED
    BY <2>1, <2>2
<1> QED
  BY <1>2, <1>3 DEF FitsAll

(* A value of items has a block of entries.                                    *)
LEMMA MarshalledEntries ==
  ASSUME NEW T \in Types, NEW v, \A n \in FieldNames(T) : v[n] \in Items,
         NEW b, b = Marshal(T, v)
  PROVE  b \in Seq(EntriesOf(T))
<1>1. PICK h : LaidOut(T, v, b, h)
  BY MarshalLaysOut
<1>2. PICK m \in Nat : m = Len(h) /\ DOMAIN b = 1..m
  <2>1. h \in Seq(1..Len(Codecs[T])) /\ DOMAIN b = 1..Len(h)
    BY <1>1 DEF LaidOut
  <2>2. Len(h) \in Nat
    BY <2>1
  <2> QED
    BY <2>1, <2>2
<1>3. ASSUME NEW k \in 1..m PROVE b[k] \in EntriesOf(T)
  <2>1. /\ h[k] \in 1..Len(Codecs[T])
        /\ b[k] = Entry(Codecs[T][h[k]], v[Codecs[T][h[k]].name])
    BY <1>1, <1>2 DEF LaidOut
  <2>2. PICK f : f = Codecs[T][h[k]] /\ f.name \in FieldNames(T)
    BY <2>1, FieldAt
  <2>3. Written(f, v[f.name]) \in Items
    <3>1. PICK x \in Items : x = v[f.name]
      BY <2>2
    <3>2. Written(f, x) \in {Full, Empty, x}
      BY DEF Written
    <3> QED
      BY <3>1, <3>2 DEF Items
  <2> QED
    BY <2>1, <2>2, <2>3 DEF Entry, EntriesOf
<1>4. b = [k \in 1..m |-> b[k]]
  <2>1. b = [k \in DOMAIN b |-> b[k]]
    <3>1. \A q, S : Only(q, S) = [k \in DOMAIN Only(q, S) |-> Only(q, S)[k]]
      BY DEF Only
    <3>2. \E q, S : b = Only(q, S)
      BY DEF Marshal
    <3> QED
      BY <3>1, <3>2
  <2> QED
    BY <1>2, <2>1
<1> QED
  BY <1>3, <1>4

(* A header is read as it was written.                                         *)
LEMMA HeaderRead ==
  ASSUME NEW x, x.t # Nil, x.op \notin Items,
         NEW h, h = Unmarshal("EventHeader", Marshal("EventHeader", x))
  PROVE  h.t = x.t /\ h.op = x.op
<1>1. PICK T \in Types : T = "EventHeader" /\ Codecs[T] = EventHeader
  BY DEF Types, Codecs
<1>2. PICK b : b = Marshal(T, x)
  OBVIOUS
<1>3. /\ DOMAIN EventHeader = 1..2 /\ Len(EventHeader) = 2
      /\ EventHeader[1] = AnyText("t") /\ EventHeader[2] = Number("op")
  BY DEF EventHeader
<1>4. AnyText("t").name = "t" /\ Number("op").name = "op"
  BY Constructors
<1>5. /\ "t" \in FieldNames(T) /\ FieldOf(T, "t") = AnyText("t")
      /\ "op" \in FieldNames(T) /\ FieldOf(T, "op") = Number("op")
  <2>1. \A i \in 1..Len(Codecs[T]) : /\ FieldOf(T, Codecs[T][i].name) = Codecs[T][i]
                                     /\ Codecs[T][i].name \in FieldNames(T)
    BY FieldAt
  <2> QED
    BY <1>1, <1>3, <1>4, <2>1
<1>6. \A n \in FieldNames(T) :
        Unmarshal(T, b)[n] = IF Omitted(FieldOf(T, n), x[n]) THEN Zero(FieldOf(T, n))
                             ELSE Taken(FieldOf(T, n), Written(FieldOf(T, n), x[n]))
  BY <1>2, MarshalledFields
<1>7. /\ h.t = IF Omitted(AnyText("t"), x.t) THEN Zero(AnyText("t"))
               ELSE Taken(AnyText("t"), Written(AnyText("t"), x.t))
      /\ h.op = IF Omitted(Number("op"), x.op) THEN Zero(Number("op"))
                ELSE Taken(Number("op"), Written(Number("op"), x.op))
  BY <1>1, <1>2, <1>5, <1>6
<1>8. \A y : y # Nil =>
        (IF Omitted(AnyText("t"), y) THEN Zero(AnyText("t"))
         ELSE Taken(AnyText("t"), Written(AnyText("t"), y))) = y
  BY DEF Omitted, Zero, Taken, Written, AnyText, Field
<1>9. \A y : y \notin Items =>
        (IF Omitted(Number("op"), y) THEN Zero(Number("op"))
         ELSE Taken(Number("op"), Written(Number("op"), y))) = y
  BY DEF Omitted, Zero, Taken, Written, Number, Field, Items
<1> QED
  BY <1>7, <1>8, <1>9

(* The headers of events fit, and say the event.                               *)
LEMMA HeaderFits ==
  ASSUME NEW e \in Messages \cup {"error"}
  PROVE  /\ FitsAll("EventHeader", Serialize(e)) /\ CanMarshal("EventHeader", Serialize(e))
         /\ Serialize(e).t # Nil /\ Serialize(e).op \notin Items
         /\ Deserialize(Serialize(e)) = e /\ Serialize(e).op \in {"message", "error"}
<1>1. PICK T \in Types : T = "EventHeader" /\ Codecs[T] = EventHeader
  BY DEF Types, Codecs
<1>2. /\ DOMAIN EventHeader = 1..2 /\ Len(EventHeader) = 2
      /\ EventHeader[1] = AnyText("t") /\ EventHeader[2] = Number("op")
  BY DEF EventHeader
<1>3. AnyText("t").name = "t" /\ Number("op").name = "op"
  BY Constructors
<1>4. FieldNames(T) = {"t", "op"}
  BY <1>1, <1>2, <1>3 DEF FieldNames
<1>5. FieldOf(T, "t") = AnyText("t") /\ FieldOf(T, "op") = Number("op")
  <2>1. \A i \in 1..Len(Codecs[T]) : FieldOf(T, Codecs[T][i].name) = Codecs[T][i]
    BY FieldAt
  <2> QED
    BY <1>1, <1>2, <1>3, <2>1
<1>6. PICK v : v = Serialize(e)
  OBVIOUS
<1>7. /\ v.t = Empty \/ v.t \notin Items
      /\ v.op \notin Items /\ v.op \in {"message", "error"} /\ DOMAIN v = {"t", "op"}
  BY <1>6 DEF Serialize, Messages, Items, Nil, Empty, Full, Long, Odd
<1>8. Fits(AnyText("t"), v.t) /\ Fits(Number("op"), v.op)
  BY <1>7 DEF Fits, Holds, AnyText, Field
<1>9. Writable(AnyText("t"), v.t) /\ Writable(Number("op"), v.op)
  BY <1>7 DEF Writable, AnyText, Number, Field, Items, Nil, Empty, Full, Long, Odd
<1>10. FitsAll(T, v)
  BY <1>4, <1>5, <1>7, <1>8 DEF FitsAll
<1>11. CanMarshal(T, v)
  BY <1>1, <1>2, <1>3, <1>9 DEF CanMarshal, Present
<1>12. v.t # Nil
  BY <1>7 DEF Items, Nil, Empty
<1>13. Deserialize(Serialize(e)) = e
  BY DEF Deserialize, Serialize, Messages
<1> QED
  BY <1>1, <1>6, <1>7, <1>10, <1>11, <1>12, <1>13

(* The headers that others may send with an event ...                          *)
ForeignHeaders(e) == {ForeignHeader(e), [ForeignHeader(e) EXCEPT !.t = "new"],
                      [ForeignHeader(e) EXCEPT !.op = "new"]}

(* ... are read as what they say.                                              *)
LEMMA ForeignHeaderRead ==
  ASSUME NEW e \in Events, NEW x \in ForeignHeaders(e), NEW h,
         h = Unmarshal("EventHeader", Marshal("EventHeader", x)), h.op \in {"message", "error"}
  PROVE  Deserialize(h) = e \/ Deserialize(h) = NoEvent
         \/ (e = "labelInfo" /\ Deserialize(h) = "info")
<1>1. x.t # Nil /\ x.op \notin Items
  BY DEF ForeignHeaders, ForeignHeader, Serialize, Events, Messages, Items, Nil, Empty, Full,
      Long,
         Odd
<1>2. h.t = x.t /\ h.op = x.op
  BY <1>1, HeaderRead
<1>3. PICK t, op : t = x.t /\ op = x.op /\ op \in {"message", "error"}
  BY <1>2
<1>4. Deserialize(h) = CASE op = "error" -> "error"
                         [] op = "message" /\ t \in Messages \cup {"labels"} -> t
                         [] OTHER -> NoEvent
  BY <1>2, <1>3 DEF Deserialize
<1>5. \/ op = "error" /\ e = "error"
      \/ op = "message" /\ t \in {e, "new"}
      \/ op = "message" /\ e = "labelInfo" /\ t = "info"
  BY <1>3 DEF ForeignHeaders, ForeignHeader, Serialize, Events, Messages
<1> QED
  BY <1>4, <1>5 DEF Messages

(* What a header says is an event, or none.                                    *)
LEMMA DeserializeTyped ==
  ASSUME NEW h
  PROVE  Deserialize(h) \in Events \cup {NoEvent}
BY DEF Deserialize, Events, Messages

-------------------------------------------------------------------------------
(* The inductive invariant. What is at hand, ...                               *)
Stages ==
  /\ at \in {"start", "held", "stored", "read", "checked"}
  /\ type \in Types \cup {NoType} /\ (type = NoType <=> at = "start")
  /\ own \in BOOLEAN
  /\ {event, arrived} \subseteq Events \cup {NoEvent}
  /\ at = "start" => ~own /\ signed = Unset /\ checked = Unset /\ event = NoEvent

(* ... that a value fits and a block is a sequence, written from what could be *)
(* written and read as it says, ...                                            *)
Encoded ==
  /\ at \in {"held", "read"} => FitsAll(type, held)
  /\ at \in {"stored", "read", "checked"} =>
       Len(stored) \in Nat /\ DOMAIN stored = 1..Len(stored)
  /\ own => FitsAll(type, wrote) /\ CanMarshal(type, wrote) /\ stored = Marshal(type, wrote)
  /\ at = "read" => CanUnmarshal(type, stored) /\ held = Unmarshal(type, stored)

(* ... that what was signed is what is there without the sig, ...              *)
Signatures ==
  /\ signed # Unset => WithoutSig(stored) = signed
  /\ signed # Unset /\ type = "SignedCommit" => stored \in Seq(EntriesOf("SignedCommit"))
  /\ checked # Unset => at = "checked" /\ (checked = signed <=> Plain(stored))

(* ... and that a frame has the header of its event.                           *)
Frames ==
  /\ event # NoEvent =>
       /\ type = "EventHeader" /\ at \in {"stored", "read"}
       /\ own => event \in Messages \cup {"error"} /\ wrote = Serialize(event)
       /\ ~own => \E x \in ForeignHeaders(event) : stored = Marshal("EventHeader", x)
  /\ at = "read" /\ event # NoEvent =>
       arrived = Deserialize(held) /\ held.op \in {"message", "error"}

CodecInv == Stages /\ Encoded /\ Signatures /\ Frames

(* No type is the one of nothing.                                              *)
LEMMA NoTypeIsNone == NoType \notin Types
BY DEF NoType, Types, Codecs

(* A block of entries is a sequence.                                           *)
LEMMA BlockOfEntries ==
  ASSUME NEW N, NEW b \in Seq([name : N, item : Items])
  PROVE  Len(b) \in Nat /\ DOMAIN b = 1..Len(b)
<1>1. PICK E : E = [name : N, item : Items]
  OBVIOUS
<1>2. b \in Seq(E)
  BY <1>1
<1> QED
  BY <1>2

(* At the start there is nothing.                                              *)
LEMMA InvAtForget ==
  ASSUME Forget
  PROVE  CodecInv'
<1>1. /\ at' = "start" /\ type' = NoType /\ own' = FALSE /\ signed' = Unset /\ checked' = Unset
      /\ event' = NoEvent /\ arrived' = NoEvent
  BY DEF Forget
<1>2. Stages'
  BY <1>1 DEF Stages
<1>3. Encoded'
  BY <1>1 DEF Encoded
<1>4. Signatures'
  BY <1>1 DEF Signatures
<1>5. Frames'
  BY <1>1 DEF Frames
<1> QED
  BY <1>2, <1>3, <1>4, <1>5 DEF CodecInv

(* A value that was made fits.                                                 *)
LEMMA InvAtMake ==
  ASSUME CodecInv, Make
  PROVE  CodecInv'
<1>1. PICK T \in Types : /\ T # "EventHeader" /\ type' = T
                         /\ \E v \in Values(T) : held' = v
  BY DEF Make
<1>2. /\ at = "start" /\ at' = "held" /\ stored' = stored /\ own' = own /\ wrote' = wrote
      /\ signed' = signed /\ checked' = checked /\ event' = event /\ arrived' = arrived
  BY DEF Make
<1>3. /\ ~own /\ signed = Unset /\ checked = Unset /\ event = NoEvent
      /\ own \in BOOLEAN /\ arrived \in Events \cup {NoEvent}
  BY <1>2 DEF CodecInv, Stages
<1>4. FitsAll(T, held')
  BY <1>1, MadeFits
<1>5. Stages'
  BY <1>1, <1>2, <1>3, NoTypeIsNone DEF Stages
<1>6. Encoded'
  BY <1>1, <1>2, <1>3, <1>4 DEF Encoded
<1>7. Signatures'
  BY <1>2, <1>3 DEF Signatures
<1>8. Frames'
  BY <1>2, <1>3 DEF Frames
<1> QED
  BY <1>5, <1>6, <1>7, <1>8 DEF CodecInv

(* A value that is written has its block.                                      *)
LEMMA InvAtPut ==
  ASSUME CodecInv, Put
  PROVE  CodecInv'
<1>1. CASE ~CanMarshal(type, held)
  <2>1. Forget
    BY <1>1 DEF Put
  <2> QED
    BY <2>1, InvAtForget
<1>2. CASE CanMarshal(type, held)
  <2>1. /\ at \in {"held", "read"} /\ event = NoEvent
        /\ stored' = Marshal(type, held) /\ own' = TRUE /\ wrote' = held /\ at' = "stored"
        /\ signed' = Unset /\ type' = type /\ held' = held /\ checked' = checked
        /\ event' = event /\ arrived' = arrived
    BY <1>2 DEF Put
  <2>2. /\ type \in Types /\ type # NoType /\ FitsAll(type, held) /\ checked = Unset
        /\ arrived \in Events \cup {NoEvent}
    BY <2>1 DEF CodecInv, Stages, Encoded, Signatures
  <2>3. Len(stored') \in Nat /\ DOMAIN stored' = 1..Len(stored')
    BY <1>2, <2>1, <2>2, MarshalledIsRead
  <2>4. Stages'
    BY <2>1, <2>2 DEF Stages
  <2>5. Encoded'
    BY <1>2, <2>1, <2>2, <2>3 DEF Encoded
  <2>6. Signatures'
    BY <2>1, <2>2 DEF Signatures
  <2>7. Frames'
    BY <2>1 DEF Frames
  <2> QED
    BY <2>4, <2>5, <2>6, <2>7 DEF CodecInv
<1> QED
  BY <1>1, <1>2

(* A block of others has entries.                                              *)
LEMMA InvAtReceive ==
  ASSUME CodecInv, Receive
  PROVE  CodecInv'
<1>1. PICK T \in Types : /\ type' = T /\ stored' \in Foreign(T)
                         /\ signed' = IF T = "SignedCommit" THEN WithoutSig(stored') ELSE Unset
  BY DEF Receive
<1>2. /\ at = "start" /\ at' = "stored" /\ own' = FALSE /\ held' = held /\ wrote' = wrote
      /\ checked' = checked /\ event' = event /\ arrived' = arrived
  BY DEF Receive
<1>3. checked = Unset /\ event = NoEvent /\ arrived \in Events \cup {NoEvent}
  BY <1>2 DEF CodecInv, Stages
<1>4. PICK b \in Foreign(T) : b = stored'
  BY <1>1
<1>5. b \in Seq(EntriesOf(T))
  BY ForeignTyped
<1>6. Len(b) \in Nat /\ DOMAIN b = 1..Len(b)
  BY <1>5, BlockOfEntries DEF EntriesOf
<1>7. Stages'
  BY <1>1, <1>2, <1>3, NoTypeIsNone DEF Stages
<1>8. Encoded'
  BY <1>2, <1>4, <1>6 DEF Encoded
<1>9. Signatures'
  BY <1>1, <1>2, <1>3, <1>4, <1>5 DEF Signatures
<1>10. Frames'
  BY <1>2, <1>3 DEF Frames
<1> QED
  BY <1>7, <1>8, <1>9, <1>10 DEF CodecInv

(* What is read of a block fits.                                               *)
LEMMA InvAtGet ==
  ASSUME CodecInv, Get
  PROVE  CodecInv'
<1>1. CASE ~CanUnmarshal(type, stored)
  <2>1. Forget
    BY <1>1 DEF Get
  <2> QED
    BY <2>1, InvAtForget
<1>2. CASE CanUnmarshal(type, stored)
  <2>1. /\ at = "stored" /\ event = NoEvent
        /\ held' = Unmarshal(type, stored) /\ at' = "read"
        /\ type' = type /\ stored' = stored /\ own' = own /\ wrote' = wrote
        /\ signed' = signed /\ checked' = checked /\ event' = event /\ arrived' = arrived
    BY <1>2 DEF Get
  <2>2. /\ type \in Types /\ type # NoType /\ own \in BOOLEAN
        /\ arrived \in Events \cup {NoEvent}
        /\ Len(stored) \in Nat /\ DOMAIN stored = 1..Len(stored)
    BY <2>1 DEF CodecInv, Stages, Encoded
  <2>3. FitsAll(type, held')
    BY <1>2, <2>1, <2>2, UnmarshalFits
  <2>4. Stages'
    BY <2>1, <2>2 DEF Stages
  <2>5. Encoded'
    BY <1>2, <2>1, <2>2, <2>3 DEF CodecInv, Encoded
  <2>6. Signatures'
    BY <2>1 DEF CodecInv, Signatures
  <2>7. Frames'
    BY <2>1 DEF Frames
  <2> QED
    BY <2>4, <2>5, <2>6, <2>7 DEF CodecInv
<1> QED
  BY <1>1, <1>2

(* A commit is stored as it was signed.                                        *)
LEMMA InvAtCommit ==
  ASSUME CodecInv, Commit
  PROVE  CodecInv'
<1>1. PICK u : u = [n \in FieldNames("UnsignedCommit") |-> IF n = "prev" THEN Nil ELSE Full]
  OBVIOUS
<1>2. PICK c : c = [n \in FieldNames("SignedCommit") |-> IF n = "sig" THEN Full ELSE u[n]]
  OBVIOUS
<1>3. /\ at = "start" /\ signed' = Marshal("UnsignedCommit", u) /\ held' = c /\ wrote' = c
      /\ stored' = Marshal("SignedCommit", c) /\ type' = "SignedCommit" /\ own' = TRUE
      /\ at' = "stored" /\ checked' = checked /\ event' = event /\ arrived' = arrived
  BY <1>1, <1>2 DEF Commit
<1>4. checked = Unset /\ event = NoEvent /\ arrived \in Events \cup {NoEvent}
  BY <1>3 DEF CodecInv, Stages
<1>5. PICK T \in Types : T = "SignedCommit"
  BY CommitFields
<1>6. /\ WithoutSig(Marshal(T, c)) = Marshal("UnsignedCommit", u)
      /\ FitsAll(T, c) /\ CanMarshal(T, c)
  BY <1>1, <1>2, <1>5, CommitIsSigned
<1>7. PICK b : b = Marshal(T, c) /\ b = stored'
  BY <1>3, <1>5
<1>8. Len(b) \in Nat /\ DOMAIN b = 1..Len(b)
  BY <1>6, <1>7, MarshalledIsRead
<1>9. b \in Seq(EntriesOf(T))
  <2>1. \A n \in FieldNames(T) : c[n] \in Items
    BY <1>1, <1>2, <1>5, CommitFields DEF Items
  <2> QED
    BY <1>7, <2>1, MarshalledEntries
<1>10. Stages'
  BY <1>3, <1>4, <1>5, NoTypeIsNone DEF Stages
<1>11. Encoded'
  BY <1>3, <1>5, <1>6, <1>7, <1>8 DEF Encoded
<1>12. Signatures'
  BY <1>3, <1>4, <1>5, <1>6, <1>7, <1>9 DEF Signatures
<1>13. Frames'
  BY <1>3, <1>4 DEF Frames
<1> QED
  BY <1>10, <1>11, <1>12, <1>13 DEF CodecInv

(* An operation is sent as it was signed.                                      *)
LEMMA InvAtSignOp ==
  ASSUME CodecInv, SignOp
  PROVE  CodecInv'
<1>1. PICK T \in {"Op", "TombstoneOp"} :
        LET o == [n \in FieldNames(T) |-> IF T = "Op" /\ n = "prev" THEN Nil ELSE Full] IN
        /\ signed' = Marshal(T, [o EXCEPT !.sig = Empty])
        /\ held' = o /\ wrote' = o /\ stored' = Marshal(T, o) /\ type' = T
  BY DEF SignOp
<1>2. PICK o : o = [n \in FieldNames(T) |-> IF T = "Op" /\ n = "prev" THEN Nil ELSE Full]
  OBVIOUS
<1>3. /\ at = "start" /\ signed' = Marshal(T, [o EXCEPT !.sig = Empty])
      /\ held' = o /\ wrote' = o /\ stored' = Marshal(T, o) /\ type' = T /\ own' = TRUE
      /\ at' = "stored" /\ checked' = checked /\ event' = event /\ arrived' = arrived
  BY <1>1, <1>2 DEF SignOp
<1>4. checked = Unset /\ event = NoEvent /\ arrived \in Events \cup {NoEvent}
  BY <1>3 DEF CodecInv, Stages
<1>5. T \in Types /\ T # "SignedCommit"
  BY DEF Types, Codecs
<1>6. PICK r : r = [o EXCEPT !.sig = Empty]
  OBVIOUS
<1>7. WithoutSig(Marshal(T, o)) = Marshal(T, r) /\ FitsAll(T, o) /\ CanMarshal(T, o)
  BY <1>2, <1>6, OpIsSigned
<1>8. PICK b : b = Marshal(T, o) /\ b = stored'
  BY <1>3
<1>9. Len(b) \in Nat /\ DOMAIN b = 1..Len(b)
  BY <1>5, <1>7, <1>8, MarshalledIsRead
<1>10. Stages'
  BY <1>3, <1>4, <1>5, NoTypeIsNone DEF Stages
<1>11. Encoded'
  BY <1>3, <1>7, <1>8, <1>9 DEF Encoded
<1>12. Signatures'
  BY <1>3, <1>4, <1>5, <1>6, <1>7, <1>8 DEF Signatures
<1>13. Frames'
  BY <1>3, <1>4 DEF Frames
<1> QED
  BY <1>10, <1>11, <1>12, <1>13 DEF CodecInv

(* The bytes that are checked are those without the sig if they are plain.     *)
LEMMA InvAtCheckRepoSig ==
  ASSUME CodecInv, CheckRepoSig
  PROVE  CodecInv'
<1>1. CASE ~CanMarshal("UnsignedCommit", Unsigned(held))
  <2>1. Forget
    BY <1>1 DEF CheckRepoSig
  <2> QED
    BY <2>1, InvAtForget
<1>2. CASE CanMarshal("UnsignedCommit", Unsigned(held))
  <2>1. /\ at = "read" /\ type = "SignedCommit" /\ signed # Unset
        /\ checked' = Marshal("UnsignedCommit", Unsigned(held)) /\ at' = "checked"
        /\ type' = type /\ held' = held /\ stored' = stored /\ own' = own /\ wrote' = wrote
        /\ signed' = signed /\ event' = event /\ arrived' = arrived
    BY <1>2 DEF CheckRepoSig
  <2>2. /\ type \in Types /\ type # NoType /\ own \in BOOLEAN
        /\ arrived \in Events \cup {NoEvent} /\ event \in Events \cup {NoEvent}
    BY <2>1 DEF CodecInv, Stages
  <2>3. event = NoEvent
    BY <2>1 DEF CodecInv, Frames
  <2>4. /\ held = Unmarshal("SignedCommit", stored) /\ CanUnmarshal("SignedCommit", stored)
        /\ Len(stored) \in Nat /\ DOMAIN stored = 1..Len(stored)
    BY <2>1 DEF CodecInv, Encoded
  <2>5. WithoutSig(stored) = signed /\ stored \in Seq(EntriesOf("SignedCommit"))
    BY <2>1 DEF CodecInv, Signatures
  <2>6. checked' = WithoutSig(stored) <=> Plain(stored)
    <3>1. PICK b \in Seq(EntriesOf("SignedCommit")) : b = stored
      BY <2>5
    <3>2. PICK u : u = Unsigned(Unmarshal("SignedCommit", b))
      OBVIOUS
    <3>3. Marshal("UnsignedCommit", u) = WithoutSig(b) <=> Plain(b)
      BY <2>4, <3>1, <3>2, CheckedIff
    <3> QED
      BY <2>1, <2>4, <3>1, <3>2, <3>3
  <2>7. Stages'
    BY <2>1, <2>2 DEF Stages
  <2>8. Encoded'
    BY <2>1, <2>4 DEF CodecInv, Encoded
  <2>9. Signatures'
    <3>1. Plain(stored)' <=> Plain(stored)
      BY <2>1 DEF Plain
    <3> QED
      BY <2>1, <2>5, <2>6, <3>1 DEF Signatures
  <2>10. Frames'
    BY <2>1, <2>3 DEF Frames
  <2> QED
    BY <2>7, <2>8, <2>9, <2>10 DEF CodecInv
<1> QED
  BY <1>1, <1>2

(* A frame has the header of its event, ...                                    *)
LEMMA InvAtPublish ==
  ASSUME CodecInv, Publish
  PROVE  CodecInv'
<1>1. PICK e \in Events :
        /\ CanSerialize(e) /\ event' = e /\ held' = Serialize(e) /\ wrote' = Serialize(e)
        /\ stored' = Marshal("EventHeader", Serialize(e))
  BY DEF Publish
<1>2. /\ at = "start" /\ type' = "EventHeader" /\ own' = TRUE /\ at' = "stored"
      /\ signed' = signed /\ checked' = checked /\ arrived' = arrived
  BY DEF Publish
<1>3. signed = Unset /\ checked = Unset /\ arrived \in Events \cup {NoEvent}
  BY <1>2 DEF CodecInv, Stages
<1>4. e \in Messages \cup {"error"}
  BY <1>1 DEF CanSerialize
<1>5. PICK T \in Types, v \in {Serialize(e)} : T = "EventHeader"
  BY DEF Types, Codecs
<1>6. FitsAll(T, v) /\ CanMarshal(T, v)
  BY <1>4, <1>5, HeaderFits
<1>7. PICK b : b = Marshal(T, v) /\ b = stored'
  BY <1>1, <1>5
<1>8. Len(b) \in Nat /\ DOMAIN b = 1..Len(b)
  BY <1>6, <1>7, MarshalledIsRead
<1>9. Stages'
  BY <1>1, <1>2, <1>3, <1>5, NoTypeIsNone DEF Stages
<1>10. Encoded'
  BY <1>1, <1>2, <1>5, <1>6, <1>7, <1>8 DEF Encoded
<1>11. Signatures'
  BY <1>2, <1>3 DEF Signatures
<1>12. Frames'
  BY <1>1, <1>2, <1>4 DEF Frames
<1> QED
  BY <1>9, <1>10, <1>11, <1>12 DEF CodecInv

(* ... also one of others.                                                     *)
LEMMA InvAtReceiveFrame ==
  ASSUME CodecInv, ReceiveFrame
  PROVE  CodecInv'
<1>0. PICK e \in Events : event' = e /\ \E x \in ForeignHeaders(e) :
                                          stored' = Marshal("EventHeader", x)
  BY DEF ReceiveFrame, ForeignHeaders
<1>1. PICK x \in ForeignHeaders(e) : event' = e /\ stored' = Marshal("EventHeader", x)
  BY <1>0
<1>2. /\ at = "start" /\ type' = "EventHeader" /\ own' = FALSE /\ at' = "stored"
      /\ signed' = signed /\ checked' = checked /\ arrived' = arrived
  BY DEF ReceiveFrame
<1>3. signed = Unset /\ checked = Unset /\ arrived \in Events \cup {NoEvent}
  BY <1>2 DEF CodecInv, Stages
<1>4. PICK T \in Types : T = "EventHeader"
  BY DEF Types, Codecs
<1>5. PICK b : b = Marshal(T, x) /\ b = stored'
  BY <1>1, <1>4
<1>6. Len(b) \in Nat /\ DOMAIN b = 1..Len(b)
  <2>1. PICK h : LaidOut(T, x, b, h)
    BY <1>5, MarshalLaysOut
  <2>2. h \in Seq(1..Len(Codecs[T])) /\ DOMAIN b = 1..Len(h) /\ Len(b) = Len(h)
    BY <2>1 DEF LaidOut
  <2>3. Len(h) \in Nat
    BY <2>2
  <2> QED
    BY <2>2, <2>3
<1>7. Stages'
  BY <1>1, <1>2, <1>3, <1>4, NoTypeIsNone DEF Stages
<1>8. Encoded'
  BY <1>2, <1>5, <1>6 DEF Encoded
<1>9. Signatures'
  BY <1>2, <1>3 DEF Signatures
<1>10. Frames'
  BY <1>1, <1>2 DEF Frames
<1> QED
  BY <1>7, <1>8, <1>9, <1>10 DEF CodecInv

(* What is read of a frame is what its header says.                            *)
LEMMA InvAtConsume ==
  ASSUME CodecInv, Consume
  PROVE  CodecInv'
<1>1. PICK h : h = Unmarshal("EventHeader", stored)
  OBVIOUS
<1>2. CASE ~(CanUnmarshal("EventHeader", stored) /\ h.op \in {"message", "error"})
  <2>1. Forget
    BY <1>1, <1>2 DEF Consume
  <2> QED
    BY <2>1, InvAtForget
<1>3. CASE CanUnmarshal("EventHeader", stored) /\ h.op \in {"message", "error"}
  <2>1. /\ at = "stored" /\ event # NoEvent
        /\ held' = h /\ arrived' = Deserialize(h) /\ at' = "read"
        /\ type' = type /\ stored' = stored /\ own' = own /\ wrote' = wrote
        /\ signed' = signed /\ checked' = checked /\ event' = event
    BY <1>1, <1>3 DEF Consume
  <2>2. type = "EventHeader"
    BY <2>1 DEF CodecInv, Frames
  <2>3. /\ type \in Types /\ type # NoType /\ own \in BOOLEAN
        /\ event \in Events \cup {NoEvent}
        /\ Len(stored) \in Nat /\ DOMAIN stored = 1..Len(stored)
    BY <2>1 DEF CodecInv, Stages, Encoded
  <2>4. FitsAll(type, h)
    <3>1. CanUnmarshal(type, stored) /\ h = Unmarshal(type, stored)
      BY <1>1, <1>3, <2>2
    <3> QED
      BY <2>3, <3>1, UnmarshalFits
  <2>5. Stages'
    BY <2>1, <2>3, DeserializeTyped DEF Stages
  <2>6. Encoded'
    BY <1>1, <1>3, <2>1, <2>2, <2>3, <2>4 DEF CodecInv, Encoded
  <2>7. Signatures'
    BY <2>1 DEF CodecInv, Signatures
  <2>8. Frames'
    BY <1>3, <2>1, <2>2 DEF CodecInv, Frames
  <2> QED
    BY <2>5, <2>6, <2>7, <2>8 DEF CodecInv
<1> QED
  BY <1>2, <1>3

(* So it holds in every reachable state.                                       *)
THEOREM CodecInvariant == CodecSpec => []CodecInv
<1>1. CodecInit => CodecInv
  <2> SUFFICES ASSUME CodecInit PROVE CodecInv
    OBVIOUS
  <2>1. /\ at = "start" /\ type = NoType /\ own = FALSE /\ signed = Unset /\ checked = Unset
        /\ event = NoEvent /\ arrived = NoEvent
    BY DEF CodecInit
  <2> QED
    BY <2>1 DEF CodecInv, Stages, Encoded, Signatures, Frames
<1>2. CodecInv /\ [CodecNext]_codecVars => CodecInv'
  <2> SUFFICES ASSUME CodecInv, [CodecNext]_codecVars PROVE CodecInv'
    OBVIOUS
  <2>1. CASE Make
    BY <2>1, InvAtMake
  <2>2. CASE Put
    BY <2>2, InvAtPut
  <2>3. CASE Receive
    BY <2>3, InvAtReceive
  <2>4. CASE Get
    BY <2>4, InvAtGet
  <2>5. CASE Commit
    BY <2>5, InvAtCommit
  <2>6. CASE SignOp
    BY <2>6, InvAtSignOp
  <2>7. CASE CheckRepoSig
    BY <2>7, InvAtCheckRepoSig
  <2>8. CASE Publish
    BY <2>8, InvAtPublish
  <2>9. CASE ReceiveFrame
    BY <2>9, InvAtReceiveFrame
  <2>10. CASE Consume
    BY <2>10, InvAtConsume
  <2>11. CASE at \in {"read", "checked"} /\ Forget
    BY <2>11, InvAtForget
  <2>12. CASE UNCHANGED codecVars
    BY <2>12 DEF codecVars, CodecInv, Stages, Encoded, Signatures, Frames, Plain
  <2> QED
    BY <2>1, <2>2, <2>3, <2>4, <2>5, <2>6, <2>7, <2>8, <2>9, <2>10, <2>11, <2>12 DEF CodecNext
<1> QED
  BY <1>1, <1>2, PTL DEF CodecSpec

(* What this service stores is canonical, whatever the value: its keys are in  *)
(* order, it says its type, and nothing in it is too long or of no type.       *)
THEOREM CodecTyped == CodecSpec => []CodecTypeOK
<1>1. CodecInv => CodecTypeOK
  <2> SUFFICES ASSUME CodecInv PROVE CodecTypeOK
    OBVIOUS
  <2>1. Stages
    BY DEF CodecInv
  <2>2. at \in {"held", "read"} => DOMAIN held = FieldNames(type)
    BY DEF CodecInv, Encoded, FitsAll
  <2>3. ASSUME own PROVE Canonical(type, stored)
    <3>1. /\ type \in Types /\ FitsAll(type, wrote) /\ CanMarshal(type, wrote)
          /\ stored = Marshal(type, wrote)
      BY <2>3 DEF CodecInv, Stages, Encoded
    <3> QED
      BY <3>1, MarshalledIsCanonical
  <2> QED
    BY <2>1, <2>2, <2>3 DEF CodecTypeOK, Stages
<1> QED
  BY <1>1, CodecInvariant, PTL

(* What this service wrote can be read, is read as it was, and gives the same  *)
(* block again but for empty optional lists; what others wrote can be put back *)
(* but for what the lexicon does not know; and an event arrives as it was sent.*)
THEOREM WrittenIsReadBack == CodecSpec => []ReadBack
<1>1. CodecInv => ReadBack
  <2> SUFFICES ASSUME CodecInv PROVE ReadBack
    OBVIOUS
  <2>1. RecordsReadBack
    <3>1. ASSUME own
          PROVE  /\ type \in Types /\ FitsAll(type, wrote) /\ CanMarshal(type, wrote)
                 /\ stored = Marshal(type, wrote)
      BY <3>1 DEF CodecInv, Stages, Encoded
    <3>2. ASSUME at = "stored", own PROVE CanUnmarshal(type, stored)
      BY <3>1, <3>2, MarshalledIsRead
    <3>3. ASSUME at = "read", own
          PROVE  /\ SameValue(type, wrote, held) /\ CanMarshal(type, held)
                 /\ ~HasEmptyList(type, wrote) => Marshal(type, held) = stored
      <4>1. held = Unmarshal(type, stored)
        BY <3>3 DEF CodecInv, Encoded
      <4> QED
        BY <3>1, <3>3, <4>1, RoundTrip
    <3> QED
      BY <3>2, <3>3 DEF RecordsReadBack
  <2>2. ForeignCanBePutBack
    <3> SUFFICES ASSUME at = "read"
                 PROVE  \/ CanMarshal(type, held)
                        \/ \E n \in FieldNames(type) : LET f == FieldOf(type, n) IN
                             \/ f.kind = "union" /\ held[n] = Odd
                             \/ f.kind = "link" /\ held[n] = Nil
      BY DEF ForeignCanBePutBack
    <3>1. /\ type \in Types /\ Len(stored) \in Nat /\ DOMAIN stored = 1..Len(stored)
          /\ CanUnmarshal(type, stored) /\ held = Unmarshal(type, stored)
      BY DEF CodecInv, Stages, Encoded
    <3> QED
      BY <3>1, PutBack
  <2>3. EventsReadBack
    <3> SUFFICES ASSUME at = "read", event # NoEvent
                 PROVE  \/ arrived = event
                        \/ ~own /\ arrived = NoEvent
                        \/ ~own /\ event = "labelInfo" /\ arrived = "info"
      BY DEF EventsReadBack
    <3>1. /\ held = Unmarshal("EventHeader", stored) /\ arrived = Deserialize(held)
          /\ held.op \in {"message", "error"} /\ event \in Events
      BY DEF CodecInv, Stages, Encoded, Frames
    <3>2. CASE own
      <4>1. event \in Messages \cup {"error"} /\ stored = Marshal("EventHeader", Serialize(event))
        BY <3>2 DEF CodecInv, Encoded, Frames
      <4>2. PICK e \in Messages \cup {"error"} : e = event
        BY <4>1
      <4>3. PICK x : x = Serialize(e)
        OBVIOUS
      <4>4. x.t # Nil /\ x.op \notin Items /\ Deserialize(x) = e
        BY <4>3, HeaderFits
      <4>5. held = Unmarshal("EventHeader", Marshal("EventHeader", x))
        BY <3>1, <4>1, <4>2, <4>3
      <4>6. held.t = x.t /\ held.op = x.op
        BY <4>4, <4>5, HeaderRead
      <4>7. Deserialize(held) = Deserialize(x)
        BY <4>6 DEF Deserialize
      <4> QED
        BY <3>1, <4>2, <4>4, <4>7
    <3>3. CASE ~own
      <4>1. PICK e \in Events : e = event
        BY <3>1
      <4>2. PICK x \in ForeignHeaders(e) : stored = Marshal("EventHeader", x)
        BY <3>3, <4>1 DEF CodecInv, Frames
      <4>3. PICK h : h = held
        OBVIOUS
      <4>4. \/ Deserialize(h) = e \/ Deserialize(h) = NoEvent
            \/ e = "labelInfo" /\ Deserialize(h) = "info"
        BY <3>1, <4>2, <4>3, ForeignHeaderRead
      <4> QED
        BY <3>1, <3>3, <4>1, <4>3, <4>4
    <3> QED
      BY <3>2, <3>3
  <2> QED
    BY <2>1, <2>2, <2>3 DEF ReadBack
<1> QED
  BY <1>1, CodecInvariant, PTL

(* What is stored of a commit or an operation is, without its sig, what was    *)
(* signed, and CheckRepoSig checks those bytes exactly of a plain commit.      *)
THEOREM SignedIsStored == CodecSpec => []SignaturesHold
<1>1. CodecInv => SignaturesHold
  BY DEF CodecInv, Signatures, SignaturesHold
<1> QED
  BY <1>1, CodecInvariant, PTL

===============================================================================
