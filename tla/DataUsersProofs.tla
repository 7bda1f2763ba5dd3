----------------------------- MODULE DataUsersProofs -----------------------------
(* Theorems about DataUsers, for any number of requests, rows, emails,         *)
(* passwords and Google accounts; and about Pipeline, for any number of runs,  *)
(* legislators, bills, faults and changes.                                     *)
EXTENDS DataUsers, Pipeline, TLAPS

Points == {"idle", "create", "undelete", "setPassword", "findGoogle", "link",
           "markDeleted", "update"}
Ops == {"none", "signup", "createUser", "googleSignup", "googleLogin", "reset",
        "adminReset", "delete", "update"}
Args == [email : Emails \cup {Nobody}, password : Passwords \cup {Nobody},
         google : Googles \cup {Nobody}, deleted : SUBSET BOOLEAN]

(* The types, of what is kept and of the requests; an email has one row.       *)
TableTypes ==
  /\ row \in [Users -> Row \cup {NoRow}] /\ expected \in [Users -> Row \cup {NoRow, Unknown}]
  /\ used \subseteq Users /\ Rows \subseteq used /\ tokens \subseteq Emails
RequestTypes ==
  /\ pc \in [Procs -> Points] /\ op \in [Procs -> Ops]
  /\ user \in [Procs -> Users \cup {Nobody}] /\ seen \in [Procs -> Seen \cup {NoRow}]
  /\ arg \in [Procs -> Args]
OneEmail == \A u, v \in Rows : row[u].email = row[v].email => u = v

(* What a request does at the point where it is, and what it has for it.       *)
PointOK(p) ==
  /\ pc[p] \in {"idle", "create"} <=> user[p] = Nobody
  /\ user[p] # Nobody => user[p] \in used /\ seen[p] \in Seen
  /\ pc[p] = "create" => op[p] \in {"signup", "createUser", "googleSignup"}
  /\ pc[p] = "undelete" => op[p] \in {"signup", "googleSignup", "googleLogin"}
  /\ pc[p] = "setPassword" => op[p] \in {"signup", "reset", "adminReset"}
  /\ pc[p] \in {"findGoogle", "link"} => op[p] = "googleSignup"
  /\ op[p] \in {"signup", "createUser", "googleSignup"} => arg[p].email \in Emails

(* The row of which it is known what it should be is that already, or has a    *)
(* single request, which has read the row as it is; but the sign-up that has   *)
(* still to set the password has undone the deletion.                          *)
Halfway(p) == pc[p] = "setPassword" /\ op[p] = "signup"
KnownOK(u) ==
  /\ u \notin Rows => expected[u] = NoRow
  /\ u \in Rows =>
       /\ expected[u] \in Row
       /\ \A p, q \in On(u) : p = q
       /\ (\A p \in On(u) : ~Halfway(p)) => row[u] = expected[u]
       /\ \A p \in On(u) :
            /\ Halfway(p) => row[u] = [expected[u] EXCEPT !.deleted = FALSE]
            /\ pc[p] # "setPassword" => seen[p] = Read(u)

Inv ==
  /\ TableTypes /\ RequestTypes /\ OneEmail
  /\ \A p \in Procs : PointOK(p)
  /\ \A u \in Users : expected[u] # Unknown => KnownOK(u)
-------------------------------------------------------------------------------
(* A row with some of its fields replaced.                                     *)
LEMMA RowFields ==
  ASSUME NEW x \in Row
  PROVE  /\ x # NoRow /\ x # Unknown
         /\ x.email \in Emails /\ x.password \in Passwords \cup {Nobody}
         /\ x.google \in Linked /\ x.deleted \in BOOLEAN
         /\ \A b \in BOOLEAN :
              /\ [x EXCEPT !.deleted = b] \in Row
              /\ [x EXCEPT !.deleted = b].email = x.email
              /\ [x EXCEPT !.deleted = b].deleted = b
         /\ \A e \in Emails : [x EXCEPT !.email = e] \in Row /\ [x EXCEPT !.email = e].email = e
         /\ \A w \in Passwords \cup {Nobody} :
              /\ [x EXCEPT !.password = w] \in Row
              /\ [x EXCEPT !.password = w].email = x.email
         /\ \A g \in Linked : [x EXCEPT !.google = g] \in Row
<1>1. x # NoRow
  BY NobodyAssumption DEF Row, NoRow
<1>2. x # Unknown
  BY DEF Row, Unknown
<1> QED
  BY <1>1, <1>2 DEF Row

(* The settings are written whole, ...                                         *)
LEMMA DeletedFields ==
  ASSUME NEW x \in Row, NEW b \in BOOLEAN, NEW g \in Linked
  PROVE  /\ [x EXCEPT !.deleted = b, !.google = g] \in Row
         /\ [x EXCEPT !.deleted = b, !.google = g].email = x.email
         /\ [x EXCEPT !.deleted = b, !.google = g].deleted = b
BY DEF Row

(* ... by either of those who write them, ...                                  *)
LEMMA GoogleFields ==
  ASSUME NEW x \in Row, NEW b \in BOOLEAN, NEW g \in Linked
  PROVE  /\ [x EXCEPT !.google = g, !.deleted = b] \in Row
         /\ [x EXCEPT !.google = g, !.deleted = b].email = x.email
         /\ [x EXCEPT !.google = g, !.deleted = b].deleted = b
BY DEF Row

(* ... with what was read of the one where the other is changed.               *)
LEMMA SettingsKept ==
  ASSUME NEW x \in Row, NEW b, NEW g
  PROVE  /\ [x EXCEPT !.deleted = b, !.google = x.google] = [x EXCEPT !.deleted = b]
         /\ [x EXCEPT !.google = g, !.deleted = x.deleted] = [x EXCEPT !.google = g]
BY DEF Row

(* The same fields of a row and of a row are those of one row.                 *)
LEMMA SameFields ==
  ASSUME NEW x \in Row
  PROVE  /\ [x EXCEPT !.deleted = x.deleted] = x
         /\ [x EXCEPT !.email = x.email] = x
         /\ \A w : [[x EXCEPT !.deleted = FALSE] EXCEPT !.password = w] = [x EXCEPT !.password = w, !.deleted = FALSE]
         /\ \A w : [x EXCEPT !.password = w, !.deleted = x.deleted] = [x EXCEPT !.password = w]
BY DEF Row

(* A row that is there, and what a request reads of it.                        *)
LEMMA RowThere ==
  ASSUME TableTypes, NEW u \in Rows
  PROVE  /\ u \in Users /\ u # Nobody /\ u \in used /\ row[u] \in Row
         /\ Read(u) \in Seen
         /\ Read(u).email = row[u].email /\ Read(u).google = row[u].google
         /\ Read(u).deleted = row[u].deleted
<1>1. u \in Users /\ u # Nobody /\ u \in used /\ row[u] \in Row
  BY NobodyAssumption DEF TableTypes, Rows
<1>2. Read(u) = [email |-> row[u].email, google |-> row[u].google, deleted |-> row[u].deleted]
  BY DEF Read
<1> QED
  BY <1>1, <1>2, RowFields DEF Seen

(* A request's step, as it is for the other requests.                          *)
Others(p) ==
  \A q \in Procs \ {p} : /\ pc'[q] = pc[q] /\ op'[q] = op[q] /\ user'[q] = user[q]
                         /\ seen'[q] = seen[q] /\ arg'[q] = arg[q]

(* Where a request goes to.                                                    *)
LEMMA Moves ==
  ASSUME Inv, NEW p \in Procs
  PROVE  /\ \A name \in Ops, point \in Points, u \in Rows \cup {Nobody}, a \in Args :
              Start(p, name, point, u, a) =>
                /\ RequestTypes' /\ Others(p) /\ pc[p] = "idle" /\ user[p] = Nobody
                /\ pc'[p] = point /\ op'[p] = name /\ user'[p] = u /\ arg'[p] = a
                /\ u # Nobody => seen'[p] = Read(u)
         /\ \A point \in Points : Goto(p, point) =>
              /\ RequestTypes' /\ Others(p) /\ pc'[p] = point
              /\ op' = op /\ user' = user /\ seen' = seen /\ arg' = arg
         /\ Return(p) =>
              /\ RequestTypes' /\ Others(p) /\ pc'[p] = "idle"
              /\ op'[p] = "none" /\ user'[p] = Nobody
<1>t. /\ pc \in [Procs -> Points] /\ op \in [Procs -> Ops]
      /\ user \in [Procs -> Users \cup {Nobody}] /\ seen \in [Procs -> Seen \cup {NoRow}]
      /\ arg \in [Procs -> Args] /\ PointOK(p)
  BY DEF RequestTypes, Inv
<1>1. ASSUME NEW name \in Ops, NEW point \in Points, NEW u \in Rows \cup {Nobody}, NEW a \in Args,
             Start(p, name, point, u, a)
      PROVE  /\ RequestTypes' /\ Others(p) /\ pc[p] = "idle" /\ user[p] = Nobody
             /\ pc'[p] = point /\ op'[p] = name /\ user'[p] = u /\ arg'[p] = a
             /\ u # Nobody => seen'[p] = Read(u)
  <2> DEFINE s == IF u = Nobody THEN NoRow ELSE Read(u)
  <2>1. u \in Users \cup {Nobody} /\ s \in Seen \cup {NoRow}
    BY RowThere DEF Inv
  <2>2. /\ pc' = [pc EXCEPT ![p] = point] /\ op' = [op EXCEPT ![p] = name]
        /\ user' = [user EXCEPT ![p] = u] /\ seen' = [seen EXCEPT ![p] = s]
        /\ arg' = [arg EXCEPT ![p] = a] /\ pc[p] = "idle"
    BY <1>1 DEF Start, At
  <2>3. u # Nobody => s = Read(u)
    OBVIOUS
  <2> HIDE DEF s
  <2>4. pc' \in [Procs -> Points] /\ op' \in [Procs -> Ops] /\ arg' \in [Procs -> Args]
    BY <1>t, <2>2
  <2>5. user' \in [Procs -> Users \cup {Nobody}] /\ seen' \in [Procs -> Seen \cup {NoRow}]
    BY <1>t, <2>1, <2>2
  <2>6. Others(p)
    BY <1>t, <2>2 DEF Others
  <2> QED
    BY <1>t, <2>2, <2>3, <2>4, <2>5, <2>6 DEF RequestTypes, PointOK
<1>2. ASSUME NEW point \in Points, Goto(p, point)
      PROVE  /\ RequestTypes' /\ Others(p) /\ pc'[p] = point
             /\ op' = op /\ user' = user /\ seen' = seen /\ arg' = arg
  BY <1>t, <1>2 DEF Goto, RequestTypes, Others
<1>3. ASSUME Return(p)
      PROVE  /\ RequestTypes' /\ Others(p) /\ pc'[p] = "idle"
             /\ op'[p] = "none" /\ user'[p] = Nobody
  <2>1. NoArg \in Args /\ "idle" \in Points /\ "none" \in Ops
    BY DEF NoArg, Args, Points, Ops
  <2>2. pc' \in [Procs -> Points] /\ op' \in [Procs -> Ops] /\ arg' \in [Procs -> Args]
    BY <1>t, <1>3, <2>1 DEF Return
  <2>3. user' \in [Procs -> Users \cup {Nobody}] /\ seen' \in [Procs -> Seen \cup {NoRow}]
    BY <1>t, <1>3 DEF Return
  <2> QED
    BY <1>t, <1>3, <2>2, <2>3 DEF Return, RequestTypes, Others
<1> QED
  BY <1>1, <1>2, <1>3

(* What a step of p has to see to.                                             *)
LEMMA StepKept ==
  ASSUME Inv, NEW p \in Procs, Others(p), used \subseteq used',
         TableTypes', RequestTypes', OneEmail', PointOK(p)',
         \A u \in Users : expected'[u] # Unknown => KnownOK(u)'
  PROVE  Inv'
<1>1. ASSUME NEW q \in Procs PROVE PointOK(q)'
  <2>1. CASE q = p
    BY <2>1
  <2>2. CASE q # p
    <3>1. /\ pc'[q] = pc[q] /\ op'[q] = op[q] /\ user'[q] = user[q]
          /\ seen'[q] = seen[q] /\ arg'[q] = arg[q] /\ PointOK(q)
      BY <2>2 DEF Others, Inv
    <3> QED
      BY <3>1 DEF PointOK
  <2> QED
    BY <2>1, <2>2
<1> QED
  BY <1>1 DEF Inv

(* A row is as it was for a step of a request for another.                     *)
LEMMA RowUntouched ==
  ASSUME NEW p \in Procs, Others(p), NEW u \in Users, KnownOK(u),
         p \notin On(u), p \notin On(u)', row'[u] = row[u], expected'[u] = expected[u]
  PROVE  KnownOK(u)'
<1>1. On(u)' = On(u) /\ (u \in Rows' <=> u \in Rows) /\ Read(u)' = Read(u)
  BY DEF On, Others, Rows, Read
<1>2. \A q \in On(u) : (Halfway(q)' <=> Halfway(q)) /\ pc'[q] = pc[q] /\ seen'[q] = seen[q]
  BY DEF On, Others, Halfway
<1> QED
  BY <1>1, <1>2 DEF KnownOK

(* A request that leaves a row, whatever it wrote: the row is what it should   *)
(* be, or nobody knows.                                                        *)
LEMMA LeavesRow ==
  ASSUME Inv, NEW p \in Procs, Others(p), NEW u \in Users, u = user[p], user'[p] # u,
         expected'[u] # Unknown => expected[u] # Unknown,
         row[u] # NoRow <=> row'[u] # NoRow,
         expected'[u] # Unknown /\ row'[u] # NoRow => expected'[u] = row'[u] /\ row'[u] \in Row,
         expected'[u] # Unknown /\ row'[u] = NoRow => expected'[u] = NoRow
  PROVE  expected'[u] # Unknown => KnownOK(u)'
<1> SUFFICES ASSUME expected'[u] # Unknown PROVE KnownOK(u)'
  OBVIOUS
<1>1. KnownOK(u) /\ p \in On(u)
  BY DEF Inv, On
<1>2. CASE row'[u] = NoRow
  BY <1>2 DEF KnownOK, Rows
<1>3. CASE row'[u] # NoRow
  <2>1. On(u) = {p}
    BY <1>1, <1>3 DEF KnownOK, Rows
  <2>2. On(u)' = {}
    BY <2>1 DEF On, Others
  <2> QED
    BY <1>3, <2>2 DEF KnownOK, Rows
<1> QED
  BY <1>2, <1>3
-------------------------------------------------------------------------------
(* A request begins with a row that it has read.                               *)
LEMMA StartRowKept ==
  ASSUME Inv, NEW p \in Procs, NEW name \in Ops, NEW point \in Points, NEW u \in Rows, NEW a \in Args,
         Start(p, name, point, u, a), UNCHANGED table, tokens' = tokens,
         point \notin {"idle", "create"},
         point = "undelete" => name \in {"signup", "googleSignup", "googleLogin"},
         point = "setPassword" => name \in {"reset", "adminReset"},
         point \in {"findGoogle", "link"} => name = "googleSignup",
         name \in {"signup", "createUser", "googleSignup"} => a.email \in Emails
  PROVE  Inv'
<1>u. row' = row /\ used' = used /\ Rows' = Rows
  BY DEF table, Rows
<1>r. u \in Users /\ u # Nobody /\ u \in used /\ row[u] \in Row /\ Read(u) \in Seen
  BY RowThere DEF Inv
<1>1. /\ RequestTypes' /\ Others(p) /\ user[p] = Nobody
      /\ pc'[p] = point /\ op'[p] = name /\ user'[p] = u /\ arg'[p] = a /\ seen'[p] = Read(u)
  BY <1>r, Moves
<1>2. expected' = IF On(u) \ {p} = {} THEN expected ELSE [expected EXCEPT ![u] = Unknown]
  BY <1>r DEF Start, Touch
<1>3. TableTypes' /\ OneEmail'
  <2>1. expected \in [Users -> Row \cup {NoRow, Unknown}]
    BY DEF Inv, TableTypes
  <2>2. expected' \in [Users -> Row \cup {NoRow, Unknown}]
    BY <1>2, <2>1
  <2> QED
    BY <1>u, <2>2 DEF Inv, TableTypes, OneEmail
<1>4. PointOK(p)'
  BY <1>1, <1>r, <1>u DEF PointOK, Points
<1>5. ASSUME NEW v \in Users, expected'[v] # Unknown PROVE KnownOK(v)'
  <2>t. expected \in [Users -> Row \cup {NoRow, Unknown}]
    BY DEF Inv, TableTypes
  <2>1. CASE v # u
    <3>1. expected'[v] = expected[v]
      BY <1>2, <2>1, <2>t
    <3>2. p \notin On(v) /\ p \notin On(v)' /\ KnownOK(v)
      BY <1>1, <1>5, <2>1, <3>1, NobodyAssumption DEF On, Inv
    <3> QED
      BY <1>1, <1>u, <3>1, <3>2, RowUntouched
  <2>2. CASE v = u
    <3>1. On(u) \ {p} = {} /\ expected'[u] = expected[u]
      BY <1>2, <1>5, <2>2, <2>t
    <3>2. p \notin On(u)
      BY <1>1, <1>r DEF On
    <3>3. KnownOK(u) /\ On(u) = {}
      BY <1>5, <2>2, <3>1, <3>2, <1>r DEF Inv
    <3>4. On(u)' = {p}
      BY <1>1, <3>3 DEF On, Others
    <3>5. Read(u)' = Read(u) /\ ~Halfway(p)'
      BY <1>1, <1>u DEF Read, Halfway
    <3>6. expected[u] \in Row /\ row[u] = expected[u]
      BY <3>3, <1>r DEF KnownOK
    <3> QED
      BY <1>1, <1>u, <2>2, <3>1, <3>4, <3>5, <3>6 DEF KnownOK
  <2> QED
    BY <2>1, <2>2
<1> QED
  BY <1>1, <1>u, <1>3, <1>4, <1>5, StepKept

(* A request begins for an account that is still to be made.                   *)
LEMMA StartNewKept ==
  ASSUME Inv, NEW p \in Procs, NEW name \in {"signup", "createUser", "googleSignup"}, NEW a \in Args,
         Start(p, name, "create", Nobody, a), UNCHANGED table, tokens' = tokens,
         a.email \in Emails
  PROVE  Inv'
<1>u. row' = row /\ used' = used /\ Rows' = Rows /\ expected' = expected
  BY DEF table, Rows, Start
<1>1. /\ RequestTypes' /\ Others(p) /\ user[p] = Nobody
      /\ pc'[p] = "create" /\ op'[p] = name /\ user'[p] = Nobody /\ arg'[p] = a
  <2>1. name \in Ops /\ "create" \in Points /\ Nobody \in Rows \cup {Nobody}
    BY DEF Ops, Points
  <2> QED
    BY <2>1, Moves
<1>2. TableTypes' /\ OneEmail'
  BY <1>u DEF Inv, TableTypes, OneEmail
<1>3. PointOK(p)'
  BY <1>1 DEF PointOK
<1>4. ASSUME NEW v \in Users, expected'[v] # Unknown PROVE KnownOK(v)'
  <2>1. p \notin On(v) /\ p \notin On(v)' /\ KnownOK(v)
    BY <1>1, <1>4, <1>u, NobodyAssumption DEF On, Inv
  <2> QED
    BY <1>1, <1>u, <2>1, RowUntouched
<1> QED
  BY <1>1, <1>u, <1>2, <1>3, <1>4, StepKept

(* A request is refused, having written nothing.                               *)
LEMMA RefuseKept ==
  ASSUME Inv, NEW p \in Procs, Refuse(p), ~Halfway(p)
  PROVE  Inv'
<1>u. row' = row /\ used' = used /\ Rows' = Rows /\ expected' = expected /\ tokens' = tokens
  BY DEF table, Rows, Refuse
<1>1. RequestTypes' /\ Others(p) /\ pc'[p] = "idle" /\ op'[p] = "none" /\ user'[p] = Nobody
  BY Moves DEF Refuse
<1>2. TableTypes' /\ OneEmail'
  BY <1>u DEF Inv, TableTypes, OneEmail
<1>3. PointOK(p)'
  BY <1>1 DEF PointOK
<1>4. ASSUME NEW v \in Users, expected'[v] # Unknown PROVE KnownOK(v)'
  <2>k. KnownOK(v) /\ expected[v] # Unknown /\ user'[p] # v
    BY <1>1, <1>4, <1>u, NobodyAssumption DEF Inv
  <2>1. CASE v # user[p]
    <3>1. p \notin On(v) /\ p \notin On(v)'
      BY <2>1, <2>k DEF On
    <3> QED
      BY <1>1, <1>u, <2>k, <3>1, RowUntouched
  <2>2. CASE v = user[p]
    <3>1. p \in On(v)
      BY <2>2 DEF On
    <3>2. row[v] # NoRow => expected[v] = row[v] /\ row[v] \in Row
      BY <2>k, <3>1 DEF KnownOK, Rows
    <3>3. row[v] = NoRow => expected[v] = NoRow
      BY <2>k DEF KnownOK, Rows
    <3> QED
      BY <1>1, <1>4, <1>u, <2>2, <2>k, <3>2, <3>3, LeavesRow
  <2> QED
    BY <2>1, <2>2
<1> QED
  BY <1>1, <1>u, <1>2, <1>3, <1>4, StepKept

(* A request is refused, and what it wrote stays written.                      *)
LEMMA FailHalfwayKept ==
  ASSUME Inv, NEW p \in Procs, FailHalfway(p), user[p] \in Users
  PROVE  Inv'
<1>u. /\ row' = row /\ used' = used /\ Rows' = Rows /\ tokens' = tokens
      /\ expected' = [expected EXCEPT ![user[p]] = Unknown]
  BY DEF table, Rows, FailHalfway
<1>1. RequestTypes' /\ Others(p) /\ pc'[p] = "idle" /\ op'[p] = "none" /\ user'[p] = Nobody
  BY Moves DEF FailHalfway
<1>t. expected \in [Users -> Row \cup {NoRow, Unknown}]
  BY DEF Inv, TableTypes
<1>2. TableTypes' /\ OneEmail'
  <2>1. expected' \in [Users -> Row \cup {NoRow, Unknown}]
    BY <1>t, <1>u
  <2> QED
    BY <1>u, <2>1 DEF Inv, TableTypes, OneEmail
<1>3. PointOK(p)'
  BY <1>1 DEF PointOK
<1>4. ASSUME NEW v \in Users, expected'[v] # Unknown PROVE KnownOK(v)'
  <2>1. v # user[p] /\ expected'[v] = expected[v]
    BY <1>4, <1>t, <1>u
  <2>2. p \notin On(v) /\ p \notin On(v)' /\ KnownOK(v)
    BY <1>1, <1>4, <2>1, NobodyAssumption DEF On, Inv
  <2> QED
    BY <1>1, <1>u, <2>1, <2>2, RowUntouched
<1> QED
  BY <1>1, <1>u, <1>2, <1>3, <1>4, StepKept

(* A request whose row is gone goes on to make one.                            *)
LEMMA ToCreateKept ==
  ASSUME Inv, NEW p \in Procs, user[p] \in Users \ Rows, op[p] \in {"signup", "googleSignup"},
         CreateInstead(p)
  PROVE  Inv'
<1> USE DEF CreateInstead
<1>u. row' = row /\ used' = used /\ Rows' = Rows /\ expected' = expected /\ tokens' = tokens
  BY DEF table, Rows
<1>1. /\ RequestTypes' /\ Others(p) /\ pc'[p] = "create" /\ op'[p] = op[p]
      /\ user'[p] = Nobody /\ arg'[p] = arg[p]
  BY DEF Inv, RequestTypes, Others, Points
<1>2. TableTypes' /\ OneEmail'
  BY <1>u DEF Inv, TableTypes, OneEmail
<1>3. PointOK(p)'
  BY <1>1 DEF PointOK, Inv
<1>4. ASSUME NEW v \in Users, expected'[v] # Unknown PROVE KnownOK(v)'
  <2>k. KnownOK(v) /\ user'[p] # v
    BY <1>1, <1>4, <1>u, NobodyAssumption DEF Inv
  <2>1. CASE v # user[p]
    <3>1. p \notin On(v) /\ p \notin On(v)'
      BY <2>1, <2>k DEF On
    <3> QED
      BY <1>1, <1>u, <2>k, <3>1, RowUntouched
  <2>2. CASE v = user[p]
    <3>1. v \notin Rows' /\ expected'[v] = NoRow
      BY <1>u, <2>2, <2>k DEF KnownOK
    <3> QED
      BY <3>1 DEF KnownOK
  <2> QED
    BY <2>1, <2>2
<1> QED
  BY <1>1, <1>u, <1>2, <1>3, <1>4, StepKept

(* A row is written: with its own email, or with one that no row has.          *)
LEMMA RowWritten ==
  ASSUME TableTypes, OneEmail, NEW u \in Rows, NEW r \in Row, row' = [row EXCEPT ![u] = r],
         r.email = row[u].email \/ ByEmail(r.email) \subseteq {u}
  PROVE  /\ row' \in [Users -> Row \cup {NoRow}] /\ Rows' = Rows /\ OneEmail'
         /\ row'[u] = r /\ \A v \in Users \ {u} : row'[v] = row[v]
<1>1. /\ row' \in [Users -> Row \cup {NoRow}]
      /\ row'[u] = r /\ \A v \in Users \ {u} : row'[v] = row[v]
  BY RowThere DEF TableTypes
<1>2. Rows' = Rows
  BY <1>1, RowFields DEF Rows
<1>3. ASSUME NEW v \in Rows, v # u PROVE r.email # row[v].email
  BY <1>3 DEF OneEmail, ByEmail
<1>4. OneEmail'
  <2>1. ASSUME NEW v \in Rows, NEW w \in Rows, row'[v].email = row'[w].email PROVE v = w
    <3>1. CASE v = u \/ w = u
      BY <1>1, <1>3, <2>1, <3>1 DEF Rows
    <3>2. CASE v # u /\ w # u
      BY <1>1, <2>1, <3>2 DEF OneEmail, Rows
    <3> QED
      BY <3>1, <3>2
  <2> QED
    BY <1>2, <2>1 DEF OneEmail
<1> QED
  BY <1>1, <1>2, <1>4

(* A request writes its row, and is answered: what is expected of the row, if  *)
(* that is known, is what was written; or it ends with an error.               *)
LEMMA EndRowKept ==
  ASSUME Inv, NEW p \in Procs, user[p] \in Rows, Return(p),
         NEW r \in Row, Set(user[p], r),
         r.email = row[user[p]].email \/ ByEmail(r.email) \subseteq {user[p]},
         tokens' \subseteq Emails,
         NEW e, expected' = IF expected[user[p]] = Unknown THEN expected
                            ELSE [expected EXCEPT ![user[p]] = e],
         expected[user[p]] # Unknown => e = r \/ e = Unknown
  PROVE  Inv'
<1> DEFINE u == user[p]
<1>r. u \in Users /\ u # Nobody /\ row[u] \in Row
  BY RowThere DEF Inv
<1>w. /\ row' \in [Users -> Row \cup {NoRow}] /\ Rows' = Rows /\ OneEmail'
      /\ row'[u] = r /\ \A v \in Users \ {u} : row'[v] = row[v]
  BY RowWritten DEF Inv, Set
<1>x. expected \in [Users -> Row \cup {NoRow, Unknown}]
  BY DEF Inv, TableTypes
<1>e. /\ expected' \in [Users -> Row \cup {NoRow, Unknown}]
      /\ \A v \in Users \ {u} : expected'[v] = expected[v]
      /\ expected[u] = Unknown => expected'[u] = Unknown
      /\ expected[u] # Unknown => expected'[u] \in {r, Unknown}
  <2>1. CASE expected[u] = Unknown
    BY <1>x, <2>1
  <2>2. CASE expected[u] # Unknown
    <3>1. PICK x \in {r, Unknown} : expected' = [expected EXCEPT ![u] = x]
      BY <2>2
    <3> QED
      BY <1>r, <1>x, <2>2, <3>1
  <2> QED
    BY <2>1, <2>2
<1>u. used' = used
  BY DEF Set
<1>1. RequestTypes' /\ Others(p) /\ pc'[p] = "idle" /\ op'[p] = "none" /\ user'[p] = Nobody
  BY Moves
<1>2. TableTypes'
  BY <1>e, <1>u, <1>w DEF Inv, TableTypes
<1>3. PointOK(p)'
  BY <1>1 DEF PointOK
<1>4. ASSUME NEW v \in Users, expected'[v] # Unknown PROVE KnownOK(v)'
  <2>1. CASE v # u
    <3>1. p \notin On(v) /\ p \notin On(v)' /\ KnownOK(v)
      BY <1>1, <1>4, <1>e, <2>1, NobodyAssumption DEF On, Inv
    <3> QED
      BY <1>1, <1>e, <1>w, <2>1, <3>1, RowUntouched
  <2>2. CASE v = u
    <3>1. row[v] # NoRow /\ row'[v] # NoRow /\ row'[v] = r
      BY <1>r, <1>w, <2>2, RowFields
    <3>2. expected[v] # Unknown /\ expected'[v] = row'[v]
      BY <1>4, <1>e, <1>w, <2>2
    <3> QED
      BY <1>1, <1>4, <1>r, <2>2, <3>1, <3>2, LeavesRow
  <2> QED
    BY <2>1, <2>2
<1> QED
  BY <1>1, <1>2, <1>3, <1>4, <1>u, <1>w, StepKept

(* An account is made, under an id that nobody has and with an email that no   *)
(* row has.                                                                    *)
LEMMA CreateKept ==
  ASSUME Inv, NEW p \in Procs, Create(p)
  PROVE  Inv'
<1>p. pc[p] = "create" /\ PointOK(p) /\ arg[p] \in Args /\ user[p] = Nobody
  BY DEF Create, At, Inv, RequestTypes, PointOK
<1>1. CASE Refuse(p)
  <2>1. ~Halfway(p)
    BY <1>p DEF Halfway
  <2> QED
    BY <1>1, <2>1, RefuseKept
<1>2. CASE ~Refuse(p)
  <2>1. PICK u \in Users \ used, r \in Wanted(p) :
          row' = [row EXCEPT ![u] = r] /\ used' = used \cup {u} /\ expected' = [expected EXCEPT ![u] = r]
    BY <1>2 DEF Create
  <2>2. /\ ByEmail(arg[p].email) = {} /\ Return(p)
        /\ tokens' = tokens \/ tokens' = tokens \cup {arg[p].email}
    BY <1>2 DEF Create, Issue
  <2>r. r \in Row /\ r.email = arg[p].email
    BY DEF Wanted
  <2>3. r \in Row /\ r.email = arg[p].email /\ arg[p].email \in Emails
    BY <1>p, <2>2, <2>r DEF PointOK, Args
  <2>4. RequestTypes' /\ Others(p) /\ pc'[p] = "idle" /\ op'[p] = "none" /\ user'[p] = Nobody
    BY <2>2, Moves
  <2>5. u \notin Rows
    BY DEF Inv, TableTypes
  <2>6. /\ row' \in [Users -> Row \cup {NoRow}] /\ expected' \in [Users -> Row \cup {NoRow, Unknown}]
        /\ row'[u] = r /\ expected'[u] = r
        /\ \A v \in Users \ {u} : row'[v] = row[v] /\ expected'[v] = expected[v]
    BY <2>1, <2>3 DEF Inv, TableTypes
  <2>7. Rows' = Rows \cup {u}
    BY <2>3, <2>6, RowFields DEF Rows
  <2>8. TableTypes'
    BY <2>1, <2>2, <2>3, <2>6, <2>7 DEF Inv, TableTypes
  <2>9. OneEmail'
    <3>1. ASSUME NEW v \in Rows' PROVE v = u \/ (v \in Rows /\ row'[v] = row[v] /\ row[v].email # r.email)
      BY <2>2, <2>3, <2>6, <2>7 DEF ByEmail, Rows
    <3> QED
      BY <2>6, <3>1 DEF OneEmail, Inv
  <2>10. PointOK(p)'
    BY <2>4 DEF PointOK
  <2>11. ASSUME NEW v \in Users, expected'[v] # Unknown PROVE KnownOK(v)'
    <3>1. CASE v = u
      <4>1. ASSUME NEW q \in Procs PROVE user[q] # u
        BY NobodyAssumption DEF Inv, PointOK
      <4>2. On(u)' = {}
        BY <2>4, <4>1, NobodyAssumption DEF On, Others
      <4>3. u \in Rows'
        BY <2>7
      <4> QED
        BY <2>3, <2>6, <3>1, <4>2, <4>3 DEF KnownOK
    <3>2. CASE v # u
      <4>1. p \notin On(v) /\ p \notin On(v)' /\ KnownOK(v)
        BY <1>p, <2>4, <2>6, <2>11, <3>2, NobodyAssumption DEF On, Inv
      <4> QED
        BY <2>4, <2>6, <3>2, <4>1, RowUntouched
    <3> QED
      BY <3>1, <3>2
  <2> QED
    BY <2>1, <2>4, <2>8, <2>9, <2>10, <2>11, StepKept
<1> QED
  BY <1>1, <1>2

(* What a request that is at its row, and knows what it should be, has.        *)
LEMMA AtRow ==
  ASSUME Inv, NEW p \in Procs, user[p] \in Rows
  PROVE  /\ user[p] \in Users /\ row[user[p]] \in Row /\ seen[p] \in Seen
         /\ seen[p].email \in Emails /\ seen[p].google \in Linked
         /\ seen[p].deleted \in BOOLEAN
         /\ expected[user[p]] # Unknown =>
              /\ On(user[p]) = {p} /\ expected[user[p]] \in Row
              /\ ~Halfway(p) => row[user[p]] = expected[user[p]]
              /\ Halfway(p) => row[user[p]] = [expected[user[p]] EXCEPT !.deleted = FALSE]
              /\ pc[p] # "setPassword" =>
                   /\ seen[p].email = row[user[p]].email
                   /\ seen[p].google = row[user[p]].google
                   /\ seen[p].deleted = row[user[p]].deleted
<1>1. /\ user[p] \in Users /\ user[p] # Nobody /\ row[user[p]] \in Row
      /\ Read(user[p]).email = row[user[p]].email /\ Read(user[p]).google = row[user[p]].google
      /\ Read(user[p]).deleted = row[user[p]].deleted
  BY RowThere DEF Inv
<1>2. seen[p] \in Seen
  BY <1>1 DEF Inv, PointOK
<1>3. p \in On(user[p])
  BY DEF On
<1>4. expected[user[p]] # Unknown => KnownOK(user[p])
  BY <1>1 DEF Inv
<1>5. ASSUME expected[user[p]] # Unknown
      PROVE  /\ On(user[p]) = {p} /\ expected[user[p]] \in Row
             /\ ~Halfway(p) => row[user[p]] = expected[user[p]]
             /\ Halfway(p) => row[user[p]] = [expected[user[p]] EXCEPT !.deleted = FALSE]
             /\ pc[p] # "setPassword" => seen[p] = Read(user[p])
  BY <1>3, <1>4, <1>5 DEF KnownOK
<1> QED
  BY <1>1, <1>2, <1>5 DEF Seen

(* update_soft_delete(FALSE), and on to the password.                          *)
LEMMA UndeleteGoesOn ==
  ASSUME Inv, NEW p \in Procs, pc[p] = "undelete", user[p] \in Rows, op[p] = "signup",
         Set(user[p], WithDeleted(p, FALSE)), Goto(p, "setPassword"), UNCHANGED <<tokens, expected>>
  PROVE  Inv'
<1> DEFINE u == user[p]
<1>a. /\ u \in Users /\ row[u] \in Row
      /\ seen[p].google \in Linked
      /\ expected[u] # Unknown =>
           On(u) = {p} /\ row[u] = expected[u] /\ seen[p].google = row[u].google
  BY AtRow DEF Halfway
<1> DEFINE r == [row[u] EXCEPT !.deleted = FALSE, !.google = seen[p].google]
<1>r. r \in Row /\ r.email = row[u].email
        /\ (expected[u] # Unknown => r = [expected[u] EXCEPT !.deleted = FALSE])
  <2>1. r \in Row /\ r.email = row[u].email
    BY <1>a, DeletedFields
  <2>2. ASSUME expected[u] # Unknown PROVE r = [expected[u] EXCEPT !.deleted = FALSE]
    BY <1>a, <2>2, SettingsKept
  <2> QED
    BY <2>1, <2>2
<1>s. row' = [row EXCEPT ![u] = r] /\ used' = used
  BY DEF Set, WithDeleted
<1> HIDE DEF r
<1>w. /\ row' \in [Users -> Row \cup {NoRow}] /\ Rows' = Rows /\ OneEmail'
      /\ row'[u] = r /\ \A v \in Users \ {u} : row'[v] = row[v]
  BY <1>r, <1>s, RowWritten DEF Inv
<1>1. /\ RequestTypes' /\ Others(p) /\ pc'[p] = "setPassword"
      /\ op' = op /\ user' = user /\ seen' = seen /\ arg' = arg
  BY Moves DEF Points
<1>2. TableTypes'
  BY <1>s, <1>w DEF Inv, TableTypes
<1>3. PointOK(p)'
  BY <1>1, <1>s DEF PointOK, Inv
<1>4. ASSUME NEW v \in Users, expected'[v] # Unknown PROVE KnownOK(v)'
  <2>1. CASE v # u
    <3>1. p \notin On(v) /\ p \notin On(v)' /\ KnownOK(v)
      BY <1>1, <1>4, <2>1 DEF On, Inv
    <3> QED
      BY <1>1, <1>w, <2>1, <3>1, RowUntouched
  <2>2. CASE v = u
    <3>1. On(v)' = {p}
      BY <1>1, <1>4, <1>a, <2>2 DEF On
    <3>2. Halfway(p)'
      BY <1>1 DEF Halfway
    <3>3. expected'[v] \in Row /\ row'[v] = [expected'[v] EXCEPT !.deleted = FALSE]
      BY <1>4, <1>a, <1>r, <1>w, <2>2
    <3>4. v \in Rows'
      BY <1>w, <2>2
    <3> QED
      BY <1>1, <3>1, <3>2, <3>3, <3>4 DEF KnownOK
  <2> QED
    BY <2>1, <2>2
<1> QED
  BY <1>1, <1>2, <1>3, <1>4, <1>s, <1>w, StepKept

(* update_soft_delete(FALSE), by whatever comes to it.                         *)
LEMMA UndeleteKept ==
  ASSUME Inv, NEW p \in Procs, Undelete(p)
  PROVE  Inv'
<1> DEFINE u == user[p]
<1>p. /\ pc[p] = "undelete" /\ PointOK(p) /\ u \in Users /\ ~Halfway(p)
      /\ op[p] \in {"signup", "googleSignup", "googleLogin"}
  BY DEF Undelete, At, Inv, RequestTypes, PointOK, Halfway
<1>1. CASE Refuse(p)
  BY <1>1, <1>p, RefuseKept
<1>2. CASE u \notin Rows /\ op[p] # "googleLogin" /\ CreateInstead(p)
  BY <1>2, <1>p, ToCreateKept
<1>3. CASE u \in Rows /\ Set(u, WithDeleted(p, FALSE)) /\ op[p] = "signup"
             /\ Goto(p, "setPassword") /\ UNCHANGED <<tokens, expected>>
  BY <1>3, <1>p, UndeleteGoesOn
<1>4. CASE /\ u \in Rows /\ Set(u, WithDeleted(p, FALSE))
           /\ Answer(p, [expected[u] EXCEPT !.deleted = FALSE]) /\ Return(p)
           /\ tokens' = tokens \/ Issue(row[u].email)
  <2> DEFINE r == WithDeleted(p, FALSE)
  <2>1. /\ row[u] \in Row
        /\ seen[p].google \in Linked
        /\ expected[u] # Unknown => row[u] = expected[u] /\ seen[p].google = row[u].google
    BY <1>4, <1>p, AtRow
  <2>2. r \in Row /\ r.email = row[u].email
          /\ (expected[u] # Unknown => r = [expected[u] EXCEPT !.deleted = FALSE])
    <3>1. r \in Row /\ r.email = row[u].email
      BY <2>1, DeletedFields DEF WithDeleted
    <3>2. ASSUME expected[u] # Unknown PROVE r = [expected[u] EXCEPT !.deleted = FALSE]
      BY <2>1, <3>2, SettingsKept DEF WithDeleted
    <3> QED
      BY <3>1, <3>2
  <2>3. tokens' \subseteq Emails
    BY <1>4, <2>1, RowFields DEF Issue, Inv, TableTypes
  <2> HIDE DEF r
  <2>4. Set(u, r)
    BY <1>4 DEF r
  <2> QED
    BY <1>4, <2>2, <2>3, <2>4, EndRowKept DEF Answer
<1> QED
  BY <1>1, <1>2, <1>3, <1>4 DEF Undelete

(* The password is set.                                                        *)
LEMMA SetPasswordKept ==
  ASSUME Inv, NEW p \in Procs, SetPassword(p)
  PROVE  Inv'
<1> DEFINE u == user[p]
<1>p. /\ pc[p] = "setPassword" /\ u \in Users
      /\ arg[p].password \in Passwords \cup {Nobody}
  BY DEF SetPassword, At, Inv, RequestTypes, PointOK, Args
<1>1. CASE op[p] # "signup" /\ Refuse(p)
  BY <1>1, RefuseKept DEF Halfway
<1>2. CASE FailHalfway(p)
  BY <1>2, <1>p, FailHalfwayKept
<1>3. CASE /\ u \in Rows
           /\ Set(u, [row[u] EXCEPT !.password = arg[p].password])
           /\ Answer(p, [expected[u] EXCEPT !.password = arg[p].password,
                                            !.deleted = IF op[p] = "signup" THEN FALSE ELSE @])
           /\ Return(p) /\ UNCHANGED tokens
  <2> DEFINE r == [row[u] EXCEPT !.password = arg[p].password]
             e == [expected[u] EXCEPT !.password = arg[p].password,
                                      !.deleted = IF op[p] = "signup" THEN FALSE ELSE @]
  <2>1. /\ row[u] \in Row
        /\ expected[u] # Unknown =>
             /\ expected[u] \in Row
             /\ op[p] # "signup" => row[u] = expected[u]
             /\ op[p] = "signup" => row[u] = [expected[u] EXCEPT !.deleted = FALSE]
    BY <1>3, <1>p, AtRow DEF Halfway
  <2>2. r \in Row /\ r.email = row[u].email
    BY <1>p, <2>1, RowFields
  <2>3. ASSUME expected[u] # Unknown PROVE e = r
    <3>1. CASE op[p] = "signup"
      <4>1. e = [expected[u] EXCEPT !.password = arg[p].password, !.deleted = FALSE]
        BY <3>1
      <4> QED
        BY <2>1, <2>3, <3>1, <4>1, SameFields
    <3>2. CASE op[p] # "signup"
      <4>1. e = [expected[u] EXCEPT !.password = arg[p].password, !.deleted = expected[u].deleted]
        BY <2>1, <2>3, <3>2 DEF Row
      <4> QED
        BY <2>1, <2>3, <3>2, <4>1, SameFields
    <3> QED
      BY <3>1, <3>2
  <2>4. Set(u, r) /\ expected' = IF expected[u] = Unknown THEN expected
                                 ELSE [expected EXCEPT ![u] = e]
    BY <1>3 DEF Answer
  <2>5. tokens' \subseteq Emails
    BY <1>3 DEF Inv, TableTypes
  <2> HIDE DEF r, e
  <2> QED
    BY <1>3, <2>2, <2>3, <2>4, <2>5, EndRowKept
<1>4. CASE u \notin Rows /\ op[p] = "signup" /\ CreateInstead(p)
  BY <1>4, <1>p, ToCreateKept
<1> QED
  BY <1>1, <1>2, <1>3, <1>4 DEF SetPassword

(* The account is linked to Google's, deleted or not.                          *)
LEMMA LinkKept ==
  ASSUME Inv, NEW p \in Procs, Link(p)
  PROVE  Inv'
<1> DEFINE u == user[p]
<1>p. /\ pc[p] = "link" /\ u \in Users /\ ~Halfway(p) /\ op[p] = "googleSignup"
      /\ arg[p].google \in Linked
  BY DEF Link, At, Inv, RequestTypes, PointOK, Halfway, Args, Linked
<1>1. CASE Refuse(p)
  BY <1>1, <1>p, RefuseKept
<1>2. CASE u \notin Rows /\ CreateInstead(p)
  BY <1>2, <1>p, ToCreateKept
<1>3. CASE /\ u \in Rows /\ Set(u, WithGoogle(p))
           /\ Answer(p, [expected[u] EXCEPT !.google = arg[p].google])
           /\ Issue(row[u].email) /\ Return(p)
  <2> DEFINE r == WithGoogle(p)
  <2>1. /\ row[u] \in Row
        /\ seen[p].deleted \in BOOLEAN
        /\ expected[u] # Unknown => row[u] = expected[u] /\ seen[p].deleted = row[u].deleted
    BY <1>3, <1>p, AtRow
  <2>2. r \in Row /\ r.email = row[u].email
          /\ (expected[u] # Unknown => r = [expected[u] EXCEPT !.google = arg[p].google])
    <3>1. r \in Row /\ r.email = row[u].email
      BY <1>p, <2>1, GoogleFields DEF WithGoogle
    <3>2. ASSUME expected[u] # Unknown PROVE r = [expected[u] EXCEPT !.google = arg[p].google]
      BY <2>1, <3>2, SettingsKept DEF WithGoogle
    <3> QED
      BY <3>1, <3>2
  <2>3. tokens' \subseteq Emails
    BY <1>3, <2>1, RowFields DEF Issue, Inv, TableTypes
  <2> HIDE DEF r
  <2>4. Set(u, r)
    BY <1>3 DEF r
  <2> QED
    BY <1>3, <2>2, <2>3, <2>4, EndRowKept DEF Answer
<1> QED
  BY <1>1, <1>2, <1>3 DEF Link

(* The account is marked as deleted.                                           *)
LEMMA MarkDeletedKept ==
  ASSUME Inv, NEW p \in Procs, MarkDeleted(p)
  PROVE  Inv'
<1> DEFINE u == user[p]
<1>p. pc[p] = "markDeleted" /\ ~Halfway(p)
  BY DEF MarkDeleted, At, Halfway
<1>1. CASE Refuse(p)
  BY <1>1, <1>p, RefuseKept
<1>2. CASE /\ u \in Rows /\ Set(u, WithDeleted(p, TRUE))
           /\ Answer(p, [expected[u] EXCEPT !.deleted = TRUE]) /\ Return(p)
           /\ UNCHANGED tokens
  <2> DEFINE r == WithDeleted(p, TRUE)
  <2>1. /\ row[u] \in Row
        /\ seen[p].google \in Linked
        /\ expected[u] # Unknown => row[u] = expected[u] /\ seen[p].google = row[u].google
    BY <1>2, <1>p, AtRow
  <2>2. r \in Row /\ r.email = row[u].email
          /\ (expected[u] # Unknown => r = [expected[u] EXCEPT !.deleted = TRUE])
    <3>1. r \in Row /\ r.email = row[u].email
      BY <2>1, DeletedFields DEF WithDeleted
    <3>2. ASSUME expected[u] # Unknown PROVE r = [expected[u] EXCEPT !.deleted = TRUE]
      BY <2>1, <3>2, SettingsKept DEF WithDeleted
    <3> QED
      BY <3>1, <3>2
  <2>3. tokens' \subseteq Emails
    BY <1>2 DEF Inv, TableTypes
  <2> HIDE DEF r
  <2>4. Set(u, r)
    BY <1>2 DEF r
  <2> QED
    BY <1>2, <2>2, <2>3, <2>4, EndRowKept DEF Answer
<1> QED
  BY <1>1, <1>2 DEF MarkDeleted

(* What is not sent is not there, as a value.                                  *)
LEMMA NotSent == ASSUME NEW S, NEW x, x \notin S PROVE FALSE = (x \in S)
BY SMT

(* The email, the settings, or both, are written.                              *)
LEMMA UpdateKept ==
  ASSUME Inv, NEW p \in Procs, Update(p)
  PROVE  Inv'
<1> DEFINE u == user[p]
<1>p. pc[p] = "update" /\ ~Halfway(p)
  BY DEF Update, At, Halfway
<1>1. CASE Refuse(p)
  BY <1>1, <1>p, RefuseKept
<1>2. ASSUME NEW e \in Emails \cup {Nobody}, NEW g \in Linked \cup {Same}, NEW settings \in BOOLEAN,
             u \in Rows, e \in {Nobody, seen[p].email} \/ ByEmail(e) \subseteq {u}, Return(p),
             UNCHANGED tokens,
             Set(u, IF settings THEN Merged(p, WithEmail(row[u], seen[p], e), seen[p], g)
                    ELSE WithEmail(row[u], seen[p], e)),
             \/ Answer(p, IF settings
                          THEN Merged(p, WithEmail(expected[u], expected[u], e), expected[u], g)
                          ELSE WithEmail(expected[u], expected[u], e))
             \/ expected' = [expected EXCEPT ![u] = Unknown]
      PROVE  Inv'
  <2> DEFINE Sent(x, old) == IF settings THEN Merged(p, WithEmail(x, old, e), old, g)
                             ELSE WithEmail(x, old, e)
             r == Sent(row[u], seen[p])
  <2>1. /\ row[u] \in Row /\ u \in Users
        /\ seen[p].google \in Linked /\ seen[p].deleted \in BOOLEAN
        /\ expected[u] # Unknown =>
             /\ row[u] = expected[u] /\ seen[p].email = row[u].email
             /\ seen[p].google = row[u].google /\ seen[p].deleted = row[u].deleted
    BY <1>2, <1>p, AtRow
  <2>2. /\ r \in Row
        /\ r.email = row[u].email \/ ByEmail(r.email) \subseteq {u}
    <3>1. PICK x \in Row : x = WithEmail(row[u], seen[p], e) /\ (x.email = row[u].email \/ x.email = e)
      <4>1. CASE e \in {Nobody, seen[p].email}
        BY <2>1, <4>1 DEF WithEmail
      <4>2. CASE e \notin {Nobody, seen[p].email}
        <5>1. e \in Emails /\ WithEmail(row[u], seen[p], e) = [row[u] EXCEPT !.email = e]
          BY <4>2 DEF WithEmail
        <5>2. [row[u] EXCEPT !.email = e] \in Row /\ [row[u] EXCEPT !.email = e].email = e
          BY <2>1, <5>1, RowFields
        <5> QED
          BY <5>1, <5>2
      <4> QED
        BY <4>1, <4>2
    <3>2. e \in {Nobody, seen[p].email} => x = row[u]
      BY <3>1 DEF WithEmail
    <3>3. x.email = row[u].email \/ ByEmail(x.email) \subseteq {u}
      BY <1>2, <3>1, <3>2
    <3>4. CASE ~settings
      BY <3>1, <3>3, <3>4
    <3>5. CASE settings
      <4>1. PICK h \in Linked :
              h = IF g # Same THEN g ELSE IF seen[p].google = Null THEN Nobody ELSE seen[p].google
        BY <2>1 DEF Linked
      <4>2. PICK b \in BOOLEAN :
              b = IF arg[p].deleted = {} THEN seen[p].deleted ELSE TRUE \in arg[p].deleted
        <5>1. CASE arg[p].deleted = {}
          BY <2>1, <5>1
        <5>2. CASE arg[p].deleted # {} /\ TRUE \in arg[p].deleted
          BY <5>2
        <5>3. CASE arg[p].deleted # {} /\ TRUE \notin arg[p].deleted
          <6>1. FALSE = (IF arg[p].deleted = {} THEN seen[p].deleted ELSE TRUE \in arg[p].deleted)
            <7>1. FALSE = (TRUE \in arg[p].deleted)
              BY <5>3, NotSent, Zenon
            <7> QED
              BY <5>3, <7>1, Zenon
          <6> QED
            BY <6>1, Zenon
        <5> QED
          BY <5>1, <5>2, <5>3
      <4>3. r = [x EXCEPT !.google = h, !.deleted = b]
        BY <3>1, <3>5, <4>1, <4>2 DEF Merged
      <4>4. [x EXCEPT !.google = h, !.deleted = b] \in Row
        BY GoogleFields
      <4>5. [x EXCEPT !.google = h, !.deleted = b].email = x.email
        BY DEF Row
      <4> HIDE DEF r
      <4> QED
        BY <3>3, <4>3, <4>4, <4>5
    <3> QED
      BY <3>4, <3>5
  <2>3. ASSUME expected[u] # Unknown PROVE Sent(expected[u], expected[u]) = r
    <3>1. WithEmail(row[u], seen[p], e) = WithEmail(expected[u], expected[u], e)
      BY <2>1, <2>3 DEF WithEmail
    <3>2. Merged(p, WithEmail(row[u], seen[p], e), seen[p], g)
            = Merged(p, WithEmail(row[u], seen[p], e), expected[u], g)
      BY <2>1, <2>3 DEF Merged
    <3> QED
      BY <3>1, <3>2
  <2>4. tokens' \subseteq Emails
    BY <1>2 DEF Inv, TableTypes
  <2>5. Set(u, r)
    BY <1>2
  <2>6. PICK x \in {Sent(expected[u], expected[u]), Unknown} :
          expected' = IF expected[u] = Unknown THEN expected ELSE [expected EXCEPT ![u] = x]
    <3>1. CASE expected' = [expected EXCEPT ![u] = Unknown]
      <4>1. expected[u] = Unknown => expected' = expected
        BY <2>1, <3>1 DEF Inv, TableTypes
      <4> QED
        BY <3>1, <4>1
    <3>2. CASE Answer(p, Sent(expected[u], expected[u]))
      BY <3>2 DEF Answer
    <3> QED
      BY <1>2, <3>1, <3>2
  <2> HIDE DEF r, Sent
  <2>7. expected[u] # Unknown => x = r \/ x = Unknown
    BY <2>3, <2>6
  <2> QED
    BY <1>2, <2>2, <2>4, <2>5, <2>6, <2>7, EndRowKept
<1> QED
  BY <1>1, <1>2 DEF Update

(* An account that has the Google id takes the place of the one with the       *)
(* email, which is left as it is.                                              *)
LEMMA OtherTaken ==
  ASSUME Inv, NEW p \in Procs, pc[p] = "findGoogle", NEW v \in Rows,
         NEW s, s = IF v = user[p] THEN seen[p] ELSE Read(v),
         pc' = [pc EXCEPT ![p] = "undelete"], user' = [user EXCEPT ![p] = v],
         seen' = [seen EXCEPT ![p] = s], Touch(p, v), UNCHANGED <<op, arg, table, tokens>>
  PROVE  Inv'
<1> DEFINE u == user[p]
<1>u. row' = row /\ used' = used /\ Rows' = Rows
  BY DEF table, Rows
<1>p. /\ PointOK(p) /\ u \in Users /\ seen[p] \in Seen /\ op[p] = "googleSignup" /\ ~Halfway(p)
  BY DEF Inv, RequestTypes, PointOK, Halfway
<1>r. v \in Users /\ v # Nobody /\ v \in used /\ row[v] \in Row /\ Read(v) \in Seen
  BY RowThere DEF Inv
<1>s. s \in Seen
  BY <1>p, <1>r
<1>1. /\ RequestTypes' /\ Others(p) /\ pc'[p] = "undelete" /\ user'[p] = v
      /\ op' = op /\ arg' = arg /\ seen'[p] = s
  BY <1>r, <1>s DEF Inv, RequestTypes, Others, Points
<1>2. expected' = IF On(v) \ {p} = {} THEN expected ELSE [expected EXCEPT ![v] = Unknown]
  BY DEF Touch
<1>t. expected \in [Users -> Row \cup {NoRow, Unknown}]
  BY DEF Inv, TableTypes
<1>e. /\ expected' \in [Users -> Row \cup {NoRow, Unknown}]
      /\ \A w \in Users \ {v} : expected'[w] = expected[w]
      /\ expected'[v] # Unknown => On(v) \ {p} = {} /\ expected'[v] = expected[v]
  BY <1>2, <1>r, <1>t
<1>3. TableTypes' /\ OneEmail'
  BY <1>e, <1>u DEF Inv, TableTypes, OneEmail
<1>4. PointOK(p)'
  BY <1>1, <1>p, <1>r, <1>s, <1>u DEF PointOK
<1>5. ASSUME NEW w \in Users, expected'[w] # Unknown PROVE KnownOK(w)'
  <2>1. CASE w # u /\ w # v
    <3>1. p \notin On(w) /\ p \notin On(w)' /\ KnownOK(w)
      BY <1>1, <1>5, <1>e, <2>1 DEF On, Inv
    <3> QED
      BY <1>1, <1>u, <1>e, <2>1, <3>1, RowUntouched
  <2>2. CASE w = u /\ w # v
    <3>1. expected'[w] = expected[w] /\ KnownOK(w) /\ p \in On(w)
      BY <1>5, <1>e, <2>2 DEF Inv, On
    <3>2. row[w] # NoRow => expected[w] = row[w] /\ row[w] \in Row
      BY <1>p, <3>1 DEF KnownOK, Rows
    <3>3. row[w] = NoRow => expected[w] = NoRow
      BY <3>1 DEF KnownOK, Rows
    <3> QED
      BY <1>1, <1>5, <1>u, <2>2, <3>1, <3>2, <3>3, LeavesRow
  <2>3. CASE w = v
    <3>1. On(v) \ {p} = {} /\ expected'[v] = expected[v] /\ KnownOK(v)
      BY <1>5, <1>e, <2>3 DEF Inv
    <3>2. On(v)' = {p}
      BY <1>1, <3>1 DEF On, Others
    <3>3. Read(v)' = Read(v) /\ ~Halfway(p)'
      BY <1>1, <1>u DEF Read, Halfway
    <3>4. expected[v] \in Row /\ row[v] = expected[v]
      BY <1>p, <3>1 DEF KnownOK
    <3>5. s = Read(v)
      <4>1. CASE v = u
        <5>1. p \in On(v) /\ pc[p] # "setPassword"
          BY <4>1 DEF On
        <5> QED
          BY <3>1, <4>1, <5>1 DEF KnownOK
      <4>2. CASE v # u
        BY <4>2
      <4> QED
        BY <4>1, <4>2
    <3> QED
      BY <1>1, <1>u, <2>3, <3>1, <3>2, <3>3, <3>4, <3>5 DEF KnownOK
  <2> QED
    BY <2>1, <2>2, <2>3
<1> QED
  BY <1>1, <1>3, <1>4, <1>5, <1>u, StepKept

(* The account with the Google id is looked for.                               *)
LEMMA FindGoogleKept ==
  ASSUME Inv, NEW p \in Procs, FindGoogle(p)
  PROVE  Inv'
<1> DEFINE Of(v) == IF v = user[p] THEN seen[p] ELSE Read(v)
<1>p. /\ pc[p] = "findGoogle" /\ PointOK(p) /\ ~Halfway(p)
  BY DEF FindGoogle, At, Inv, Halfway
<1>1. CASE Refuse(p)
  BY <1>1, <1>p, RefuseKept
<1>2. ASSUME NEW v \in ByGoogle(arg[p].google),
             pc' = [pc EXCEPT ![p] = "undelete"],
             user' = [user EXCEPT ![p] = v], seen' = [seen EXCEPT ![p] = Of(v)],
             Touch(p, v), UNCHANGED <<op, arg, table, tokens>>
      PROVE  Inv'
  <2>1. v \in Rows
    BY DEF ByGoogle
  <2> QED
    BY <1>2, <1>p, <2>1, OtherTaken
<1>3. CASE Goto(p, "link") /\ UNCHANGED <<table, tokens, expected>>
  <2>u. row' = row /\ used' = used /\ Rows' = Rows
    BY <1>3 DEF table, Rows
  <2>1. /\ RequestTypes' /\ Others(p) /\ pc'[p] = "link"
        /\ op' = op /\ user' = user /\ seen' = seen /\ arg' = arg
    BY <1>3, Moves DEF Points
  <2>2. TableTypes' /\ OneEmail'
    BY <1>3, <2>u DEF Inv, TableTypes, OneEmail
  <2>3. PointOK(p)'
    BY <1>p, <2>1, <2>u DEF PointOK
  <2>4. ASSUME NEW v \in Users, expected'[v] # Unknown PROVE KnownOK(v)'
    <3>1. KnownOK(v) /\ On(v)' = On(v) /\ Read(v)' = Read(v)
      BY <1>3, <2>4, <2>1, <2>u DEF Inv, On, Read
    <3>2. \A q \in On(v) : (Halfway(q)' <=> Halfway(q))
                           /\ (pc'[q] # "setPassword" => pc[q] # "setPassword")
      BY <1>p, <2>1 DEF On, Others, Halfway
    <3> QED
      BY <1>3, <2>1, <2>u, <3>1, <3>2 DEF KnownOK
  <2> QED
    BY <1>3, <2>1, <2>2, <2>3, <2>4, <2>u, StepKept
<1> QED
  BY <1>1, <1>2, <1>3 DEF FindGoogle

(* A row is removed, and every request that is at it finds it gone.            *)
LEMMA AdminDeleteKept ==
  ASSUME Inv, NEW u \in Users, AdminDeleteUser(u)
  PROVE  Inv'
<1>1. /\ row' = [row EXCEPT ![u] = NoRow] /\ used' = used /\ tokens' = tokens
      /\ expected' = [expected EXCEPT ![u] = NoRow]
      /\ UNCHANGED <<pc, op, user, seen, arg>>
  BY DEF AdminDeleteUser, Set, requests
<1>2. /\ row' \in [Users -> Row \cup {NoRow}] /\ expected' \in [Users -> Row \cup {NoRow, Unknown}]
      /\ row'[u] = NoRow /\ expected'[u] = NoRow
      /\ \A v \in Users \ {u} : row'[v] = row[v] /\ expected'[v] = expected[v]
  BY <1>1 DEF Inv, TableTypes
<1>3. Rows' = Rows \ {u}
  BY <1>2 DEF Rows
<1>4. TableTypes' /\ RequestTypes' /\ OneEmail' /\ \A p \in Procs : PointOK(p)'
  <2>1. TableTypes' /\ RequestTypes'
    BY <1>1, <1>2, <1>3 DEF Inv, TableTypes, RequestTypes
  <2>2. OneEmail'
    BY <1>2, <1>3 DEF Inv, OneEmail, Rows
  <2>3. \A p \in Procs : PointOK(p)'
    BY <1>1 DEF Inv, PointOK
  <2> QED
    BY <2>1, <2>2, <2>3
<1>5. ASSUME NEW v \in Users, expected'[v] # Unknown PROVE KnownOK(v)'
  <2>1. CASE v = u
    BY <1>2, <1>3, <2>1 DEF KnownOK
  <2>2. CASE v # u
    <3>1. KnownOK(v) /\ On(v)' = On(v) /\ Read(v)' = Read(v) /\ (v \in Rows' <=> v \in Rows)
      BY <1>1, <1>2, <1>3, <1>5, <2>2 DEF Inv, On, Read
    <3>2. \A q \in On(v) : Halfway(q)' <=> Halfway(q)
      BY <1>1 DEF Halfway
    <3> QED
      BY <1>1, <1>2, <2>2, <3>1, <3>2 DEF KnownOK
  <2> QED
    BY <2>1, <2>2
<1> QED
  BY <1>4, <1>5 DEF Inv

(* A token is issued, or nothing happens.                                      *)
LEMMA TokensKept ==
  ASSUME Inv, UNCHANGED <<table, requests, expected>>, tokens' \subseteq Emails
  PROVE  Inv'
<1>1. UNCHANGED <<row, used, expected, pc, op, user, seen, arg>> /\ Rows' = Rows
  BY DEF table, requests, Rows
<1>2. TableTypes' /\ RequestTypes' /\ OneEmail' /\ \A p \in Procs : PointOK(p)'
  <2>1. TableTypes' /\ RequestTypes'
    BY <1>1 DEF Inv, TableTypes, RequestTypes
  <2>2. OneEmail' /\ \A p \in Procs : PointOK(p)'
    BY <1>1 DEF Inv, OneEmail, PointOK
  <2> QED
    BY <2>1, <2>2
<1>3. ASSUME NEW v \in Users, expected'[v] # Unknown PROVE KnownOK(v)'
  <2>1. KnownOK(v) /\ On(v)' = On(v) /\ Read(v)' = Read(v)
    BY <1>1, <1>3 DEF Inv, On, Read
  <2>2. \A q \in On(v) : Halfway(q)' <=> Halfway(q)
    BY <1>1 DEF Halfway
  <2> QED
    BY <1>1, <2>1, <2>2 DEF KnownOK
<1> QED
  BY <1>2, <1>3 DEF Inv
-------------------------------------------------------------------------------
(* What a request can be sent.                                                 *)
LEMMA ArgFields ==
  /\ NoArg \in Args
  /\ \A w \in Passwords : [NoArg EXCEPT !.password = w] \in Args
  /\ \A d \in SUBSET BOOLEAN : [NoArg EXCEPT !.deleted = d] \in Args
  /\ \A g \in Googles : [NoArg EXCEPT !.google = g] \in Args
  /\ \A e \in Emails :
       /\ [NoArg EXCEPT !.email = e] \in Args /\ [NoArg EXCEPT !.email = e].email = e
       /\ \A w \in Passwords :
            /\ [NoArg EXCEPT !.email = e, !.password = w] \in Args
            /\ [NoArg EXCEPT !.email = e, !.password = w].email = e
       /\ \A g \in Googles :
            /\ [NoArg EXCEPT !.email = e, !.google = g] \in Args
            /\ [NoArg EXCEPT !.email = e, !.google = g].email = e
BY DEF NoArg, Args

(* A request to sign up, with a password or with Google, begins.               *)
LEMMA SignupsKept ==
  ASSUME Inv, NEW p \in Procs, Signup(p) \/ CreateUser(p) \/ GoogleSignup(p)
  PROVE  Inv'
<1> USE DEF Points, Ops
<1>u. UNCHANGED table /\ tokens' = tokens
  BY DEF Signup, CreateUser, GoogleSignup
<1>1. ASSUME NEW e \in Emails, NEW w \in Passwords,
             Start(p, "signup", "create", Nobody, [NoArg EXCEPT !.email = e, !.password = w])
      PROVE  Inv'
  <2> DEFINE a == [NoArg EXCEPT !.email = e, !.password = w]
  <2>1. a \in Args /\ a.email = e
    BY ArgFields
  <2>2. Start(p, "signup", "create", Nobody, a)
    BY <1>1
  <2> HIDE DEF a
  <2> QED
    BY <1>u, <2>1, <2>2, StartNewKept
<1>2. ASSUME NEW e \in Emails, NEW w \in Passwords,
             Start(p, "createUser", "create", Nobody, [NoArg EXCEPT !.email = e, !.password = w])
      PROVE  Inv'
  <2> DEFINE a == [NoArg EXCEPT !.email = e, !.password = w]
  <2>1. a \in Args /\ a.email = e
    BY ArgFields
  <2>2. Start(p, "createUser", "create", Nobody, a)
    BY <1>2
  <2> HIDE DEF a
  <2> QED
    BY <1>u, <2>1, <2>2, StartNewKept
<1>3. ASSUME NEW e \in Emails, NEW g \in Googles,
             Start(p, "googleSignup", "create", Nobody, [NoArg EXCEPT !.email = e, !.google = g])
      PROVE  Inv'
  <2> DEFINE a == [NoArg EXCEPT !.email = e, !.google = g]
  <2>1. a \in Args /\ a.email = e
    BY ArgFields
  <2>2. Start(p, "googleSignup", "create", Nobody, a)
    BY <1>3
  <2> HIDE DEF a
  <2> QED
    BY <1>u, <2>1, <2>2, StartNewKept
<1>4. ASSUME NEW e \in Emails, NEW w \in Passwords, NEW u \in ByEmail(e),
             Start(p, "signup", "undelete", u, [NoArg EXCEPT !.email = e, !.password = w])
      PROVE  Inv'
  <2>1. u \in Rows
    BY DEF ByEmail
  <2> DEFINE a == [NoArg EXCEPT !.email = e, !.password = w]
  <2>2. a \in Args /\ a.email = e
    BY ArgFields
  <2>3. Start(p, "signup", "undelete", u, a)
    BY <1>4
  <2> HIDE DEF a
  <2> QED
    BY <1>u, <2>1, <2>2, <2>3, StartRowKept
<1>5. ASSUME NEW e \in Emails, NEW g \in Googles, NEW u \in ByEmail(e),
             Start(p, "googleSignup", "findGoogle", u, [NoArg EXCEPT !.email = e, !.google = g])
      PROVE  Inv'
  <2>1. u \in Rows
    BY DEF ByEmail
  <2> DEFINE a == [NoArg EXCEPT !.email = e, !.google = g]
  <2>2. a \in Args /\ a.email = e
    BY ArgFields
  <2>3. Start(p, "googleSignup", "findGoogle", u, a)
    BY <1>5
  <2> HIDE DEF a
  <2> QED
    BY <1>u, <2>1, <2>2, <2>3, StartRowKept
<1>6. CASE Signup(p)
  BY <1>6, <1>1, <1>4 DEF Signup
<1>7. CASE CreateUser(p)
  BY <1>7, <1>2 DEF CreateUser
<1>8. CASE GoogleSignup(p)
  BY <1>8, <1>3, <1>5 DEF GoogleSignup
<1> QED
  BY <1>6, <1>7, <1>8

(* A log-in, with Google or with a password.                                   *)
LEMMA LoginsKept ==
  ASSUME Inv, NEW p \in Procs, GoogleLogin(p) \/ Login(p)
  PROVE  Inv'
<1>1. ASSUME NEW u \in Rows, Issue(row[u].email), UNCHANGED <<table, requests, expected>>
      PROVE  Inv'
  <2>1. row[u].email \in Emails
    BY RowThere, RowFields DEF Inv
  <2>2. tokens' \subseteq Emails
    BY <1>1, <2>1 DEF Issue, Inv, TableTypes
  <2> QED
    BY <1>1, <2>2, TokensKept
<1>2. ASSUME NEW g \in Googles, NEW u \in ByGoogle(g), UNCHANGED table, tokens' = tokens,
             Start(p, "googleLogin", "undelete", u, [NoArg EXCEPT !.google = g])
      PROVE  Inv'
  <2>1. u \in Rows
    BY DEF ByGoogle
  <2>2. "googleLogin" \in Ops /\ "undelete" \in Points
    BY DEF Ops, Points
  <2> QED
    BY <1>2, <2>1, <2>2, ArgFields, StartRowKept
<1>3. CASE GoogleLogin(p)
  <2>0. PICK g \in Googles : \E u \in ByGoogle(g) :
          \/ /\ Start(p, "googleLogin", "undelete", u, [NoArg EXCEPT !.google = g])
             /\ UNCHANGED tokens
          \/ Issue(row[u].email) /\ UNCHANGED <<requests, expected>>
    BY <1>3 DEF GoogleLogin
  <2>1. PICK u \in ByGoogle(g) :
          \/ /\ Start(p, "googleLogin", "undelete", u, [NoArg EXCEPT !.google = g])
             /\ UNCHANGED tokens
          \/ Issue(row[u].email) /\ UNCHANGED <<requests, expected>>
    BY <2>0
  <2>2. u \in Rows /\ UNCHANGED table
    BY <1>3 DEF ByGoogle, GoogleLogin
  <2> QED
    BY <1>1, <1>2, <2>1, <2>2
<1>4. CASE Login(p)
  BY <1>1, <1>4 DEF Login
<1> QED
  BY <1>3, <1>4

(* A request of a user who is logged in, or of an operator, begins.            *)
LEMMA ChangesKept ==
  ASSUME Inv, NEW p \in Procs,
         ResetPassword(p) \/ AdminResetPassword(p) \/ DeleteUser(p) \/ UpdateUser(p)
  PROVE  Inv'
<1> USE DEF Points, Ops
<1>u. UNCHANGED table /\ tokens' = tokens
  BY DEF ResetPassword, AdminResetPassword, DeleteUser, UpdateUser
<1>c. Current \subseteq Rows
  BY DEF Current
<1>1. CASE ResetPassword(p)
  <2>1. PICK u \in Rows, w \in Passwords :
          Start(p, "reset", "setPassword", u, [NoArg EXCEPT !.password = w])
    BY <1>1, <1>c DEF ResetPassword
  <2> QED
    BY <1>u, <2>1, ArgFields, StartRowKept
<1>2. CASE AdminResetPassword(p)
  <2>1. PICK u \in Rows, w \in Passwords :
          Start(p, "adminReset", "setPassword", u, [NoArg EXCEPT !.password = w])
    BY <1>2 DEF AdminResetPassword
  <2> QED
    BY <1>u, <2>1, ArgFields, StartRowKept
<1>3. CASE DeleteUser(p)
  <2>1. PICK u \in Rows : Start(p, "delete", "markDeleted", u, NoArg)
    BY <1>3, <1>c DEF DeleteUser
  <2> QED
    BY <1>u, <2>1, ArgFields, StartRowKept
<1>4. CASE UpdateUser(p)
  <2>1. PICK u \in Rows, d \in {{}, {TRUE}, {FALSE}} :
          Start(p, "update", "update", u, [NoArg EXCEPT !.deleted = d])
    BY <1>4, <1>c DEF UpdateUser
  <2>2. [NoArg EXCEPT !.deleted = d] \in Args
    BY ArgFields
  <2> QED
    BY <1>u, <2>1, <2>2, StartRowKept
<1> QED
  BY <1>1, <1>2, <1>3, <1>4

(* The invariant holds at first, ...                                           *)
LEMMA InitInv == Init => Inv
<1> SUFFICES ASSUME Init PROVE Inv
  OBVIOUS
<1>1. Rows = {}
  BY DEF Init, Rows
<1>2. row \in [Users -> Row \cup {NoRow}] /\ expected = row
  BY DEF Init
<1>3. TableTypes /\ OneEmail
  BY <1>1, <1>2 DEF Init, TableTypes, OneEmail
<1>4. RequestTypes
  BY ArgFields DEF Init, RequestTypes, Points, Ops
<1>5. \A p \in Procs : PointOK(p)
  BY DEF Init, PointOK
<1>6. \A u \in Users : KnownOK(u)
  BY <1>1, <1>2 DEF Init, KnownOK
<1> QED
  BY <1>3, <1>4, <1>5, <1>6 DEF Inv

(* ... and no step breaks it.                                                  *)
LEMMA NextInv == Inv /\ [Next]_vars => Inv'
<1> SUFFICES ASSUME Inv, [Next]_vars PROVE Inv'
  OBVIOUS
<1>1. ASSUME NEW p \in Procs, Signup(p) \/ CreateUser(p) \/ GoogleSignup(p) PROVE Inv'
  BY <1>1, SignupsKept
<1>2. ASSUME NEW p \in Procs, GoogleLogin(p) \/ Login(p) PROVE Inv'
  BY <1>2, LoginsKept
<1>3. ASSUME NEW p \in Procs,
             ResetPassword(p) \/ AdminResetPassword(p) \/ DeleteUser(p) \/ UpdateUser(p)
      PROVE  Inv'
  BY <1>3, ChangesKept
<1>4. ASSUME NEW p \in Procs,
             \/ Create(p) \/ Undelete(p) \/ SetPassword(p) \/ FindGoogle(p)
             \/ Link(p) \/ MarkDeleted(p) \/ Update(p)
      PROVE  Inv'
  BY <1>4, CreateKept, UndeleteKept, SetPasswordKept, FindGoogleKept, LinkKept,
    MarkDeletedKept, UpdateKept
<1>5. ASSUME NEW u \in Users, AdminDeleteUser(u) PROVE Inv'
  BY <1>5, AdminDeleteKept
<1>6. CASE UNCHANGED vars
  <2>1. UNCHANGED <<table, requests, expected>> /\ tokens' \subseteq Emails
    BY <1>6 DEF vars, Inv, TableTypes
  <2> QED
    BY <2>1, TokensKept
<1> QED
  BY <1>1, <1>2, <1>3, <1>4, <1>5, <1>6 DEF Next

(* Every run keeps the invariant.                                              *)
THEOREM UsersInvariant == Spec => []Inv
BY InitInv, NextInv, PTL DEF Spec

(* Every variable has its type, and no two rows have one email.                *)
THEOREM UserTypes == Spec => []TypeOK
<1>1. Inv => TypeOK
  BY DEF Inv, TableTypes, RequestTypes, OneEmail, TypeOK, Points, Ops, Args
<1> QED
  BY <1>1, UsersInvariant, PTL

(* Requests that follow each other, and do not stop halfway, leave a row as    *)
(* they were asked to.                                                         *)
THEOREM AnswersHold == Spec => []AnsweredHolds
<1>1. Inv => AnsweredHolds
  <2> SUFFICES ASSUME Inv, NEW u \in Users, On(u) = {}, expected[u] # Unknown
               PROVE  row[u] = expected[u]
    BY DEF AnsweredHolds
  <2>1. KnownOK(u)
    BY DEF Inv
  <2> QED
    BY <2>1 DEF KnownOK, Rows
<1> QED
  BY <1>1, UsersInvariant, PTL

(* A change of user[p]'s row alone leaves the other deletions.                 *)
LEMMA ItsRowAlone ==
  ASSUME Inv, NEW p \in Procs, user[p] \in Rows, NEW r, Set(user[p], r),
         NEW u \in Rows, row[u].deleted, row'[u] # NoRow, ~row'[u].deleted
  PROVE  p \in On(u) /\ ~r.deleted /\ u = user[p]
<1>1. u \in Users /\ row \in [Users -> Row \cup {NoRow}]
  BY RowThere DEF Inv, TableTypes
<1>2. CASE u # user[p]
  <2>1. row'[u] = row[u]
    BY <1>1, <1>2 DEF Set
  <2> QED
    BY <2>1
<1>3. CASE u = user[p]
  <2>1. row'[u] = r
    BY <1>1, <1>3 DEF Set
  <2> QED
    BY <1>3, <2>1 DEF On
<1> QED
  BY <1>2, <1>3

(* Whether the account is deleted when something else, or the settings, are    *)
(* written.                                                                    *)
LEMMA DeletedWritten ==
  ASSUME Inv, NEW p \in Procs, user[p] \in Rows
  PROVE  /\ WithGoogle(p).deleted = seen[p].deleted
         /\ \A b : WithDeleted(p, b).deleted = b
         /\ \A w : [row[user[p]] EXCEPT !.password = w].deleted = row[user[p]].deleted
         /\ \A e : /\ WithEmail(row[user[p]], seen[p], e).deleted = row[user[p]].deleted
                   /\ \A g : Merged(p, WithEmail(row[user[p]], seen[p], e), seen[p], g).deleted
                              = (IF arg[p].deleted = {} THEN seen[p].deleted
                                 ELSE TRUE \in arg[p].deleted)
<1>1. row[user[p]] \in Row
  BY RowThere DEF Inv
<1>2. ASSUME NEW e
      PROVE  /\ WithEmail(row[user[p]], seen[p], e).deleted = row[user[p]].deleted
             /\ \A g : Merged(p, WithEmail(row[user[p]], seen[p], e), seen[p], g).deleted
                        = (IF arg[p].deleted = {} THEN seen[p].deleted
                           ELSE TRUE \in arg[p].deleted)
  <2> DEFINE x == WithEmail(row[user[p]], seen[p], e)
  <2>1. x.deleted = row[user[p]].deleted /\ "deleted" \in DOMAIN x
    BY <1>1 DEF Row, WithEmail
  <2> HIDE DEF x
  <2>2. \A g : Merged(p, x, seen[p], g).deleted
                = (IF arg[p].deleted = {} THEN seen[p].deleted ELSE TRUE \in arg[p].deleted)
    BY <2>1 DEF Merged
  <2> QED
    BY <2>1, <2>2 DEF x
<1> QED
  BY <1>1, <1>2 DEF Row, WithGoogle, WithDeleted

(* The deletion of a row is undone by none but those who may.                  *)
LEMMA UndoneByThese ==
  ASSUME Inv, Next,
         NEW u \in Rows, row[u].deleted, row'[u] # NoRow, ~row'[u].deleted
  PROVE  \E p \in On(u) :
           /\ pc'[p] # pc[p]
           /\ At(p, "undelete") \/ ~seen[p].deleted \/ arg[p].deleted = {FALSE}
<1> DEFINE Undone == \E p \in On(u) :
             /\ pc'[p] # pc[p]
             /\ At(p, "undelete") \/ ~seen[p].deleted \/ arg[p].deleted = {FALSE}
<1>t. u \in Users /\ u \in used /\ row \in [Users -> Row \cup {NoRow}] /\ pc \in [Procs -> Points]
  BY RowThere DEF Inv, TableTypes, RequestTypes
<1>n. row' # row
  OBVIOUS
<1>1. ASSUME NEW p \in Procs, Create(p) PROVE FALSE
  <2>1. PICK v \in Users \ used : \E r : row' = [row EXCEPT ![v] = r]
    BY <1>1, <1>n DEF Create, Refuse, table
  <2>2. v # u
    BY <1>t, <2>1
  <2>3. row'[u] = row[u]
    BY <1>t, <2>1, <2>2
  <2> QED
    BY <2>3
<1>2. ASSUME NEW p \in Procs, Undelete(p) PROVE Undone
  <2>1. user[p] \in Rows /\ Set(user[p], WithDeleted(p, FALSE)) /\ At(p, "undelete")
    BY <1>2, <1>n DEF Undelete, CreateInstead, Refuse, table
  <2>2. pc' = [pc EXCEPT ![p] = "setPassword"] \/ pc' = [pc EXCEPT ![p] = "idle"]
    BY <1>2, <1>n DEF Undelete, CreateInstead, Refuse, Goto, Return, table
  <2>3. pc'[p] # pc[p]
    BY <1>t, <2>1, <2>2 DEF At
  <2>4. p \in On(u)
    BY <2>1, ItsRowAlone
  <2> QED
    BY <2>1, <2>3, <2>4
<1>3. ASSUME NEW p \in Procs, SetPassword(p) PROVE FALSE
  <2>1. user[p] \in Rows /\ Set(user[p], [row[user[p]] EXCEPT !.password = arg[p].password])
    BY <1>3, <1>n DEF SetPassword, CreateInstead, Refuse, FailHalfway, table
  <2>2. u = user[p] /\ ~[row[user[p]] EXCEPT !.password = arg[p].password].deleted
    BY <2>1, ItsRowAlone
  <2> QED
    BY <2>1, <2>2, DeletedWritten
<1>4. ASSUME NEW p \in Procs, Link(p) PROVE Undone
  <2>1. /\ user[p] \in Rows /\ Set(user[p], WithGoogle(p))
        /\ pc' = [pc EXCEPT ![p] = "idle"] /\ At(p, "link")
    BY <1>4, <1>n DEF Link, CreateInstead, Refuse, Return, table
  <2>2. p \in On(u) /\ ~WithGoogle(p).deleted
    BY <2>1, ItsRowAlone
  <2>3. pc'[p] # pc[p]
    BY <1>t, <2>1 DEF At
  <2> QED
    BY <2>1, <2>2, <2>3, DeletedWritten
<1>5. ASSUME NEW p \in Procs, MarkDeleted(p) PROVE FALSE
  <2>1. user[p] \in Rows /\ Set(user[p], WithDeleted(p, TRUE))
    BY <1>5, <1>n DEF MarkDeleted, Refuse, table
  <2>2. ~WithDeleted(p, TRUE).deleted
    BY <2>1, ItsRowAlone
  <2> QED
    BY <2>1, <2>2, DeletedWritten
<1>6. ASSUME NEW p \in Procs, Update(p) PROVE Undone
  <2>1. /\ user[p] \in Rows /\ pc' = [pc EXCEPT ![p] = "idle"] /\ At(p, "update")
        /\ \E e, g : \/ Set(user[p], WithEmail(row[user[p]], seen[p], e))
                    \/ Set(user[p], Merged(p, WithEmail(row[user[p]], seen[p], e), seen[p], g))
    <3>1. ~Refuse(p)
      BY <1>n DEF Refuse, table
    <3> QED
      BY <1>6, <3>1 DEF Update, Return
  <2>2. PICK e, g : \/ Set(user[p], WithEmail(row[user[p]], seen[p], e))
                    \/ Set(user[p], Merged(p, WithEmail(row[user[p]], seen[p], e), seen[p], g))
    BY <2>1
  <2>3. CASE Set(user[p], WithEmail(row[user[p]], seen[p], e))
    <3>1. u = user[p] /\ ~WithEmail(row[user[p]], seen[p], e).deleted
      BY <2>1, <2>3, ItsRowAlone
    <3> QED
      BY <2>1, <3>1, DeletedWritten
  <2>4. CASE Set(user[p], Merged(p, WithEmail(row[user[p]], seen[p], e), seen[p], g))
    <3> DEFINE r == Merged(p, WithEmail(row[user[p]], seen[p], e), seen[p], g)
    <3>1. p \in On(u) /\ ~r.deleted
      BY <2>1, <2>4, ItsRowAlone
    <3>2. ~(IF arg[p].deleted = {} THEN seen[p].deleted ELSE TRUE \in arg[p].deleted)
      BY <2>1, <3>1, DeletedWritten
    <3>3. pc'[p] # pc[p]
      BY <1>t, <2>1 DEF At
    <3>4. arg[p].deleted \subseteq BOOLEAN
      BY DEF Inv, RequestTypes, Args
    <3>5. ~seen[p].deleted \/ arg[p].deleted = {FALSE}
      BY <3>2, <3>4
    <3> QED
      BY <3>1, <3>3, <3>5
  <2> QED
    BY <2>2, <2>3, <2>4
<1>7. ASSUME NEW v \in Users, AdminDeleteUser(v) PROVE FALSE
  BY <1>7, <1>t DEF AdminDeleteUser, Set
<1>8. ASSUME NEW p \in Procs,
             \/ Signup(p) \/ CreateUser(p) \/ GoogleSignup(p) \/ FindGoogle(p)
             \/ GoogleLogin(p) \/ Login(p) \/ ResetPassword(p) \/ AdminResetPassword(p)
             \/ DeleteUser(p) \/ UpdateUser(p)
      PROVE  FALSE
  <2>1. UNCHANGED table
    BY <1>8 DEF Signup, CreateUser, GoogleSignup, FindGoogle, Refuse, GoogleLogin, Login,
      ResetPassword, AdminResetPassword, DeleteUser, UpdateUser
  <2> QED
    BY <1>n, <2>1 DEF table
<1> QED
  BY <1>1, <1>2, <1>3, <1>4, <1>5, <1>6, <1>7, <1>8 DEF Next

(* A deletion is undone by a sign-up, through Google, by settings that are     *)
(* sent and say so, or by a request that had read the settings before it, and  *)
(* by nothing else.                                                            *)
THEOREM DeletionIsKept == Spec => DeletionStays
<1> DEFINE Stays == \A u \in Rows :
             row[u].deleted /\ row'[u] # NoRow /\ ~row'[u].deleted =>
               \E p \in On(u) :
                 /\ pc'[p] # pc[p]
                 /\ At(p, "undelete") \/ ~seen[p].deleted \/ arg[p].deleted = {FALSE}
<1>1. Inv /\ [Next]_vars => [Stays]_vars
  BY UndoneByThese
<1> QED
  BY <1>1, UsersInvariant, PTL DEF Spec, DeletionStays

-------------------------------------------------------------------------------
(* A legislator's profile in the user service is a copy of the data service's  *)
(* row, brought there by the weekly pipeline: Pipeline.                        *)

(* The rows that a sync would take are there; the actor in the user service is *)
(* the one of the call that made it, and has a profile once that was answered, *)
(* and when it is to be updated.                                               *)
SyncOK ==
  /\ \A l \in Legislators : due[l] => loaded[l] # None
  /\ \A l \in Legislators : profile[l] # None => did[l] # None
  /\ \A r \in Runs, l \in Legislators :
       /\ call[r][l] \in {"init", "ok"} => did[l] = r
       /\ call[r][l] \in {"put", "ok"} => profile[l] # None

(* Types of the rows, of the runs and of the texts.                            *)
RowTypes ==
  /\ source \in [Legislators -> Values]
  /\ loaded \in [Legislators -> Values \cup {None}] /\ due \in [Legislators -> BOOLEAN]
  /\ recorded \in [Legislators -> Runs \cup {None}]
  /\ did \in [Legislators -> Runs \cup {None}]
  /\ profile \in [Legislators -> Values \cup {None}]
Stages == {"idle", "etl", "sync", "calls", "text", "bills", "json", "txt"}
Calls == {None, "get", "post", "init", "put", "ok", "failed"}
RunTypes ==
  /\ stage \in [Runs -> Stages]
  /\ call \in [Runs -> [Legislators -> Calls]]
  /\ want \in [Runs -> [Legislators -> Values \cup {None}]]
  /\ \A r \in Runs, l \in Legislators :
       /\ stage[r] # "calls" => call[r][l] = None
       /\ want[r][l] = None <=> call[r][l] = None
TextTypes ==
  /\ stored \in [Bills -> SUBSET Kinds] /\ todo \in [Runs -> SUBSET Bills]
  /\ bill \in [Runs -> Bills \cup {None}]
  /\ \A r \in Runs :
       IF stage[r] \in {"json", "txt"} THEN bill[r] \in Bills ELSE bill[r] = None
CountTypes == faults \in 0 .. MaxFaults /\ changes \in 0 .. MaxChanges

SyncInv ==
  /\ RowTypes /\ RunTypes /\ TextTypes /\ CountTypes
  /\ RecordedIsTheirs /\ SyncOK

(* LegiScan, or an operator, changes a row.                                    *)
LEMMA EditsKept ==
  ASSUME SyncInv, SourceChanges \/ EditRow
  PROVE  SyncInv'
<1> USE DEF SourceChanges, EditRow, service, running, texts
<1>1. RowTypes'
  BY DEF SyncInv, RowTypes, tables
<1>2. RunTypes' /\ TextTypes'
  BY DEF SyncInv, RunTypes, TextTypes, None, Kinds
<1>3. CountTypes'
  BY BoundsAssumption, NoneAssumption DEF SyncInv, CountTypes, Change
<1>4. RecordedIsTheirs'
  BY DEF SyncInv, RecordedIsTheirs, None, tables
<1>5. SyncOK'
  <2>1. \A l \in Legislators : due'[l] => loaded'[l] # None
    <3>1. CASE SourceChanges
      BY <3>1 DEF SyncInv, SyncOK, tables
    <3>2. CASE EditRow
      <4>1. PICK l \in Legislators, v \in Values :
              loaded' = [loaded EXCEPT ![l] = v] /\ due' = [due EXCEPT ![l] = TRUE]
        BY <3>2
      <4>2. RowTypes /\ v # None
        BY BoundsAssumption, NoneAssumption DEF SyncInv
      <4>3. ASSUME NEW m \in Legislators, due'[m] PROVE loaded'[m] # None
        <5>1. CASE m = l
          BY <4>1, <4>2, <5>1 DEF RowTypes
        <5>2. CASE m # l
          <6>1. due[m] /\ loaded'[m] = loaded[m]
            BY <4>1, <4>2, <4>3, <5>2 DEF RowTypes
          <6> QED
            BY <6>1 DEF SyncInv, SyncOK
        <5> QED
          BY <5>1, <5>2
      <4> QED
        BY <4>3
    <3> QED
      BY <3>1, <3>2
  <2> QED
    BY <2>1 DEF SyncInv, SyncOK, None
<1> QED
  BY <1>1, <1>2, <1>3, <1>4, <1>5 DEF SyncInv

(* A run that has no calls moves to a stage without any.                       *)
LEMMA StageTypes ==
  ASSUME RunTypes, NEW r \in Runs, NEW to \in Stages, stage[r] # "calls", to # "calls",
         Enter(r, to), UNCHANGED <<call, want>>
  PROVE  RunTypes'
BY DEF RunTypes, Enter, Stages, Calls, None

(* A run ends, and has no calls.                                               *)
LEMMA EndedTypes ==
  ASSUME RunTypes, NEW r \in Runs, Ended(r)
  PROVE  /\ RunTypes'
         /\ \A q \in Runs, l \in Legislators :
              call'[q][l] = IF q = r THEN None ELSE call[q][l]
<1>1. /\ stage' = [stage EXCEPT ![r] = "idle"]
      /\ call' = [call EXCEPT ![r] = [l \in Legislators |-> None]]
      /\ want' = [want EXCEPT ![r] = [l \in Legislators |-> None]]
  BY DEF Ended, NoCalls, Enter
<1>2. None \in Calls
  BY DEF Calls
<1>3. stage' \in [Runs -> Stages] /\ call' \in [Runs -> [Legislators -> Calls]]
  BY <1>1, <1>2 DEF RunTypes, Stages
<1>4. want' \in [Runs -> [Legislators -> Values \cup {None}]]
  BY <1>1 DEF RunTypes
<1>5. ASSUME NEW q \in Runs, NEW l \in Legislators
      PROVE  /\ call'[q][l] = IF q = r THEN None ELSE call[q][l]
             /\ want'[q][l] = IF q = r THEN None ELSE want[q][l]
             /\ stage'[q] = IF q = r THEN "idle" ELSE stage[q]
  BY <1>1 DEF RunTypes
<1>6. ASSUME NEW q \in Runs, NEW l \in Legislators
      PROVE  /\ stage'[q] # "calls" => call'[q][l] = None
             /\ want'[q][l] = None <=> call'[q][l] = None
  BY <1>5 DEF RunTypes
<1> QED
  BY <1>3, <1>4, <1>5, <1>6 DEF RunTypes, Calls, Stages, None

(* A call of a run moves on.                                                   *)
LEMMA CallTypes ==
  ASSUME RunTypes, NEW r \in Runs, NEW l \in Legislators, call[r][l] # None,
         NEW to \in Calls \ {None}, Call(r, l, to), UNCHANGED <<stage, want>>
  PROVE  /\ RunTypes'
         /\ \A q \in Runs, m \in Legislators :
              call'[q][m] = IF q = r /\ m = l THEN to ELSE call[q][m]
<1>1. call' = [call EXCEPT ![r] = [call[r] EXCEPT ![l] = to]]
  BY DEF Call
<1>2. call[r] \in [Legislators -> Calls]
  BY DEF RunTypes
<1>3. [call[r] EXCEPT ![l] = to] \in [Legislators -> Calls]
  BY <1>2
<1>4. call' \in [Runs -> [Legislators -> Calls]]
  BY <1>1, <1>3 DEF RunTypes
<1>5. ASSUME NEW q \in Runs, NEW m \in Legislators
      PROVE  call'[q][m] = IF q = r /\ m = l THEN to ELSE call[q][m]
  BY <1>1, <1>2 DEF RunTypes
<1>6. ASSUME NEW q \in Runs, NEW m \in Legislators
      PROVE  /\ stage[q] # "calls" => call'[q][m] = None
             /\ want[q][m] = None <=> call'[q][m] = None
  BY <1>5 DEF RunTypes
<1> QED
  BY <1>4, <1>5, <1>6 DEF RunTypes, Calls, Stages, None

(* A run of the stages starts, loads the legislators and reads the due rows.   *)
LEMMA LoadKept ==
  ASSUME SyncInv, NEW r \in Runs, StartRun(r) \/ Etl(r) \/ Extract(r)
  PROVE  SyncInv'
<1> USE DEF StartRun, Etl, Extract, Upsert, service, tables,
    texts
<1>1. RowTypes'
  BY DEF SyncInv, RowTypes, None
<1>2. RunTypes' /\ (UNCHANGED call \/ \A m \in Legislators : call'[r][m] \in {"get", None})
              /\ \A q \in Runs \ {r} : call'[q] = call[q]
  <2>1. CASE StartRun(r)
    <3>1. PICK to \in {"etl", "text"} : Enter(r, to)
      BY <2>1
    <3> QED
      BY <2>1, <3>1, StageTypes DEF SyncInv, Stages
  <2>2. CASE Etl(r)
    BY <2>2, StageTypes DEF SyncInv, Stages
  <2>3. CASE Extract(r) /\ Enter(r, "idle") /\ UNCHANGED <<call, want>>
    BY <2>3, StageTypes DEF SyncInv, Stages
  <2>4. CASE /\ Enter(r, "calls")
             /\ call' = [call EXCEPT ![r] = [l \in Legislators |-> IF due[l] THEN "get" ELSE None]]
             /\ want' = [want EXCEPT ![r] = [l \in Legislators |-> IF due[l] THEN loaded[l] ELSE None]]
    <3>1. stage' = [stage EXCEPT ![r] = "calls"]
      BY <2>4 DEF Enter
    <3>2. stage' \in [Runs -> Stages]
      BY <3>1 DEF SyncInv, RunTypes, Stages
    <3>3. /\ "get" \in Calls /\ None \in Calls /\ "get" # None
          /\ \A l \in Legislators : loaded[l] \in Values \cup {None} /\ (due[l] => loaded[l] # None)
      BY DEF Calls, None, SyncInv, SyncOK, RowTypes
    <3>4. call' \in [Runs -> [Legislators -> Calls]]
      BY <2>4, <3>3 DEF SyncInv, RunTypes
    <3>5. want' \in [Runs -> [Legislators -> Values \cup {None}]]
      BY <2>4, <3>3 DEF SyncInv, RunTypes
    <3>6. ASSUME NEW q \in Runs, NEW l \in Legislators
          PROVE  /\ stage'[q] # "calls" => call'[q][l] = None
                 /\ want'[q][l] = None <=> call'[q][l] = None
      BY <2>4, <3>1, <3>3 DEF SyncInv, RunTypes
    <3>7. RunTypes'
      BY <3>2, <3>4, <3>5, <3>6 DEF RunTypes, Calls, Stages, None
    <3> QED
      BY <2>4, <3>7 DEF SyncInv, RunTypes
  <2> QED
    BY <2>1, <2>2, <2>3, <2>4
<1>3. TextTypes'
  BY DEF SyncInv, TextTypes, RunTypes, Enter, Kinds, None
<1>4. CountTypes'
  BY BoundsAssumption, NoneAssumption DEF SyncInv, CountTypes, Fault, NoFault
<1>5. RecordedIsTheirs'
  BY DEF SyncInv, RecordedIsTheirs, None
<1>6. SyncOK'
  <2>1. \A l \in Legislators : due'[l] => loaded'[l] # None
    BY BoundsAssumption, NoneAssumption DEF SyncInv, SyncOK, RowTypes
  <2>2. UNCHANGED <<did, profile>>
    OBVIOUS
  <2>3. \A q \in Runs, l \in Legislators :
          call'[q][l] = call[q][l] \/ call'[q][l] \in {"get", None}
    BY <1>2
  <2> QED
    BY <2>1, <2>2, <2>3 DEF SyncInv, SyncOK, None
<1> QED
  BY <1>1, <1>2, <1>3, <1>4, <1>5, <1>6 DEF SyncInv

(* A request asks for the legislator, or fails.                                *)
LEMMA AskKept ==
  ASSUME SyncInv, NEW r \in Runs, NEW l \in Legislators, call[r][l] # None,
         NEW to \in {"put", "post", "failed"}, Call(r, l, to), to = "put" => profile[l] # None,
         Fault \/ NoFault,
         UNCHANGED <<source, loaded, due, recorded, did, profile, stage, want, stored, todo,
         bill, changes>>
  PROVE  SyncInv'
<1>1. /\ RunTypes'
      /\ \A q \in Runs, m \in Legislators : call'[q][m] = IF q = r /\ m = l THEN to ELSE call[q][m]
  BY CallTypes DEF SyncInv, Calls, None
<1>2. RowTypes' /\ RecordedIsTheirs'
  BY DEF SyncInv, RowTypes, RecordedIsTheirs, None
<1>3. TextTypes'
  BY DEF SyncInv, TextTypes, Kinds, None
<1>4. CountTypes'
  BY BoundsAssumption, NoneAssumption DEF SyncInv, CountTypes, Fault, NoFault
<1>5. SyncOK'
  BY <1>1 DEF SyncInv, SyncOK, None
<1> QED
  BY <1>1, <1>2, <1>3, <1>4, <1>5 DEF SyncInv

(* The actor of a legislator is made.                                          *)
LEMMA PostKept ==
  ASSUME SyncInv, NEW r \in Runs, NEW l \in Legislators, call[r][l] = "post",
         did[l] = None, did' = [did EXCEPT ![l] = r], Call(r, l, "init"), NoFault,
         UNCHANGED <<source, loaded, due, recorded, profile, stage, want, stored, todo, bill,
         changes>>
  PROVE  SyncInv'
<1>1. /\ RunTypes'
      /\ \A q \in Runs, m \in Legislators :
           call'[q][m] = IF q = r /\ m = l THEN "init" ELSE call[q][m]
  BY CallTypes DEF SyncInv, Calls, None
<1>2. RowTypes'
  BY DEF SyncInv, RowTypes, None
<1>3. TextTypes'
  BY DEF SyncInv, TextTypes, Kinds, None
<1>4. CountTypes'
  BY DEF SyncInv, CountTypes, NoFault
<1>5. \A m \in Legislators : did'[m] = IF m = l THEN r ELSE did[m]
  BY DEF SyncInv, RowTypes
<1>6. RecordedIsTheirs'
  BY <1>5 DEF SyncInv, RecordedIsTheirs, None
<1>7. r # None /\ \A q \in Runs : q # None
  BY BoundsAssumption, NoneAssumption
<1>8. ASSUME NEW q \in Runs, NEW m \in Legislators
      PROVE  /\ call'[q][m] \in {"init", "ok"} => did'[m] = q
             /\ call'[q][m] \in {"put", "ok"} => profile[m] # None
  BY <1>1, <1>5, <1>7 DEF SyncInv, SyncOK
<1>9. SyncOK'
  BY <1>5, <1>7, <1>8 DEF SyncInv, SyncOK, None
<1> QED
  BY <1>1, <1>2, <1>3, <1>4, <1>6, <1>9 DEF SyncInv

(* The profile of an actor is put into its repo, by a call that gets an answer *)
(* or fails, or asks again.                                                    *)
LEMMA ProfileKept ==
  ASSUME SyncInv, NEW r \in Runs, NEW l \in Legislators, call[r][l] \in {"init", "put"},
         profile' = [profile EXCEPT ![l] = want[r][l]], Fault \/ NoFault,
         NEW to \in Calls \ {None}, Call(r, l, to),
         \/ to = "failed"
         \/ to = "ok" /\ call[r][l] = "init"
         \/ to = "put" /\ call[r][l] = "put",
         UNCHANGED <<source, loaded, due, recorded, did, stage, want, stored, todo, bill,
         changes>>
  PROVE  SyncInv'
<1>1. /\ RunTypes'
      /\ \A q \in Runs, m \in Legislators : call'[q][m] = IF q = r /\ m = l THEN to ELSE call[q][m]
  BY CallTypes DEF SyncInv, None
<1>2. want[r][l] \in Values \cup {None} /\ want[r][l] # None
  BY DEF SyncInv, RunTypes, None
<1>3. /\ profile' \in [Legislators -> Values \cup {None}]
      /\ \A m \in Legislators : profile'[m] = IF m = l THEN want[r][l] ELSE profile[m]
  BY <1>2 DEF SyncInv, RowTypes
<1>4. RowTypes'
  BY <1>3 DEF SyncInv, RowTypes, None
<1>5. TextTypes'
  BY DEF SyncInv, TextTypes, Kinds, None
<1>6. CountTypes'
  BY BoundsAssumption, NoneAssumption DEF SyncInv, CountTypes, Fault, NoFault
<1>7. \A m \in Legislators : profile[m] # None => profile'[m] # None
  BY <1>2, <1>3
<1>8. RecordedIsTheirs'
  BY <1>7 DEF SyncInv, RecordedIsTheirs, None
<1>9. profile'[l] # None /\ did[l] # None
  BY <1>2, <1>3, BoundsAssumption, NoneAssumption DEF SyncInv, SyncOK
<1>10. ASSUME NEW m \in Legislators, profile'[m] # None PROVE did[m] # None
  BY <1>3, <1>9, <1>10 DEF SyncInv, SyncOK
<1>11. ASSUME NEW q \in Runs, NEW m \in Legislators
       PROVE  /\ call'[q][m] \in {"init", "ok"} => did[m] = q
              /\ call'[q][m] \in {"put", "ok"} => profile'[m] # None
  BY <1>1, <1>7, <1>9 DEF SyncInv, SyncOK
<1>12. SyncOK'
  BY <1>10, <1>11 DEF SyncInv, SyncOK, None
<1> QED
  BY <1>1, <1>4, <1>5, <1>6, <1>8, <1>12 DEF SyncInv

(* A request to the user service.                                              *)
LEMMA RequestKept ==
  ASSUME SyncInv, NEW r \in Runs, NEW l \in Legislators, Request(r, l)
  PROVE  SyncInv'
<1> USE DEF Fails, service, tables, texts
<1>f. "failed" \in Calls \ {None} /\ "ok" \in Calls \ {None} /\ "put" \in Calls \ {None}
      /\ None = "none"
  BY DEF Calls, None
<1>1. CASE Get(r, l)
  <2>1. PICK to \in {"put", "post", "failed"} :
          Call(r, l, to) /\ (to = "put" => profile[l] # None)
    BY <1>1 DEF Get
  <2> QED
    BY <1>f, <1>1, <2>1, AskKept DEF Get
<1>2. CASE Post(r, l)
  <2>1. CASE did[l] = None /\ did' = [did EXCEPT ![l] = r] /\ Call(r, l, "init")
             /\ NoFault /\ UNCHANGED profile
    BY <1>2, <2>1, PostKept DEF Post
  <2>2. CASE Call(r, l, "failed") /\ (Fault \/ NoFault) /\ UNCHANGED <<did, profile>>
    BY <1>f, <1>2, <2>2, AskKept DEF Post
  <2> QED
    BY <1>2, <2>1, <2>2 DEF Post
<1>3. CASE InitRepo(r, l)
  <2>1. CASE profile' = [profile EXCEPT ![l] = want[r][l]] /\ UNCHANGED did
    <3>1. PICK to \in {"ok", "failed"} : Call(r, l, to) /\ (Fault \/ NoFault)
      BY <1>3, <2>1 DEF InitRepo
    <3> QED
      BY <1>f, <1>3, <2>1, <3>1, ProfileKept DEF InitRepo
  <2>2. CASE Fails(r, l)
    BY <1>f, <1>3, <2>2, AskKept DEF InitRepo
  <2> QED
    BY <1>3, <2>1, <2>2 DEF InitRepo
<1>4. CASE Put(r, l)
  <2>1. CASE profile' = [profile EXCEPT ![l] = want[r][l]] /\ UNCHANGED did
    <3>1. CASE Call(r, l, "failed")
      BY <1>f, <1>4, <2>1, <3>1, ProfileKept DEF Put
    <3>2. CASE UNCHANGED call
      <4>1. Call(r, l, "put")
        BY <1>4, <3>2 DEF Call, Put, SyncInv, RunTypes
      <4> QED
        BY <1>f, <1>4, <2>1, <3>2, <4>1, ProfileKept DEF Put
    <3> QED
      BY <1>4, <2>1, <3>1, <3>2 DEF Put
  <2>2. CASE Fails(r, l)
    BY <1>f, <1>4, <2>2, AskKept DEF Put
  <2> QED
    BY <1>4, <2>1, <2>2 DEF Put
<1> QED
  BY <1>1, <1>2, <1>3, <1>4 DEF Request

(* A run of the sync ends, with what was answered recorded or not.             *)
LEMMA EndKept ==
  ASSUME SyncInv, NEW r \in Runs, Record(r) \/ GiveUp(r)
  PROVE  SyncInv'
<1> USE DEF Record, GiveUp, service, tables, texts
<1>u. /\ UNCHANGED <<source, loaded, did, profile, stored, todo, bill, changes>>
      /\ stage[r] = "calls" /\ Ended(r)
  OBVIOUS
<1>1. RunTypes' /\ \A q \in Runs, m \in Legislators :
                     call'[q][m] = IF q = r THEN None ELSE call[q][m]
  BY <1>u, EndedTypes DEF SyncInv
<1>2. ASSUME NEW m \in Legislators
      PROVE  /\ recorded'[m] = recorded[m] \/ (recorded'[m] = r /\ call[r][m] = "ok")
             /\ due'[m] => due[m]
             /\ recorded'[m] \in Runs \cup {None} /\ due'[m] \in BOOLEAN
  BY DEF SyncInv, RowTypes, Taken, AllOk
<1>3. RowTypes'
  <2>1. recorded' \in [Legislators -> Runs \cup {None}] /\ due' \in [Legislators -> BOOLEAN]
    BY DEF SyncInv, RowTypes
  <2> QED
    BY <1>u, <2>1 DEF SyncInv, RowTypes, None
<1>4. TextTypes'
  <2>1. stage' = [stage EXCEPT ![r] = "idle"]
    BY <1>u DEF Ended, Enter
  <2> QED
    BY <1>u, <2>1 DEF SyncInv, TextTypes, RunTypes, Kinds, None
<1>5. CountTypes'
  BY BoundsAssumption, NoneAssumption DEF SyncInv, CountTypes, Fault, NoFault
<1>6. RecordedIsTheirs'
  BY <1>u, <1>2 DEF SyncInv, SyncOK, RecordedIsTheirs, None
<1>7. SyncOK'
  BY <1>u, <1>1, <1>2 DEF SyncInv, SyncOK, None
<1> QED
  BY <1>1, <1>3, <1>4, <1>5, <1>6, <1>7 DEF SyncInv

(* A run is killed, and some of what it asked for is still done.               *)
LEMMA CrashKept ==
  ASSUME SyncInv, NEW r \in Runs, Crash(r)
  PROVE  SyncInv'
<1> USE DEF Crash, service, tables, texts
<1>u. /\ UNCHANGED <<source, loaded, due, recorded, did, stored, changes>>
      /\ Ended(r)
      /\ todo' = [todo EXCEPT ![r] = {}] /\ bill' = [bill EXCEPT ![r] = None]
  OBVIOUS
<1>1. RunTypes' /\ \A q \in Runs, m \in Legislators :
                     call'[q][m] = IF q = r THEN None ELSE call[q][m]
  BY <1>u, EndedTypes DEF SyncInv
<1>2. PICK done \in SUBSET {m \in Legislators : call[r][m] = "init"} :
        profile' = [m \in Legislators |-> IF m \in done THEN want[r][m] ELSE profile[m]]
  OBVIOUS
<1>3. ASSUME NEW m \in Legislators
      PROVE  /\ profile'[m] = profile[m] \/ (profile'[m] # None /\ did[m] = r)
             /\ profile'[m] \in Values \cup {None}
  <2>1. CASE m \in done
    <3>1. call[r][m] = "init" /\ profile'[m] = want[r][m]
      BY <1>2, <2>1
    <3>2. want[r][m] # None /\ want[r][m] \in Values \cup {None}
      BY <3>1 DEF SyncInv, RunTypes, None
    <3> QED
      BY <3>1, <3>2 DEF SyncInv, SyncOK
  <2>2. CASE m \notin done
    BY <1>2, <2>2 DEF SyncInv, RowTypes
  <2> QED
    BY <2>1, <2>2
<1>4. RowTypes'
  <2>1. profile' \in [Legislators -> Values \cup {None}]
    BY <1>2, <1>3
  <2> QED
    BY <1>u, <2>1 DEF SyncInv, RowTypes, None
<1>5. TextTypes'
  <2>1. stage' = [stage EXCEPT ![r] = "idle"]
    BY <1>u DEF Ended, Enter
  <2>2. todo' \in [Runs -> SUBSET Bills]
    BY <1>u DEF SyncInv, TextTypes
  <2>3. ASSUME NEW q \in Runs
        PROVE  IF stage'[q] \in {"json", "txt"} THEN bill'[q] \in Bills ELSE bill'[q] = None
    <3>1. CASE q = r
      <4>1. stage'[q] = "idle"
        BY <2>1, <3>1 DEF SyncInv, RunTypes
      <4>2. bill'[q] = None
        BY <1>u, <3>1 DEF SyncInv, TextTypes
      <4> QED
        BY <4>1, <4>2
    <3>2. CASE q # r
      <4>1. stage'[q] = stage[q]
        BY <2>1, <3>2 DEF SyncInv, RunTypes
      <4>2. bill'[q] = bill[q]
        BY <1>u, <3>2 DEF SyncInv, TextTypes
      <4> QED
        BY <4>1, <4>2 DEF SyncInv, TextTypes
    <3> QED
      BY <3>1, <3>2
  <2>4. bill' \in [Runs -> Bills \cup {None}]
    BY <1>u DEF SyncInv, TextTypes
  <2> QED
    BY <1>u, <2>2, <2>3, <2>4 DEF SyncInv, TextTypes, Kinds, None
<1>6. CountTypes'
  BY BoundsAssumption, NoneAssumption DEF SyncInv, CountTypes, Fault
<1>7. RecordedIsTheirs'
  BY <1>u, <1>3 DEF SyncInv, RecordedIsTheirs, None
<1>8. SyncOK'
  <2>1. r # None
    BY BoundsAssumption, NoneAssumption
  <2>2. ASSUME NEW m \in Legislators
        PROVE  profile'[m] # None => did[m] # None
    BY <1>3, <2>1 DEF SyncInv, SyncOK
  <2>3. ASSUME NEW q \in Runs, NEW m \in Legislators
        PROVE  /\ call'[q][m] \in {"init", "ok"} => did[m] = q
               /\ call'[q][m] \in {"put", "ok"} => profile'[m] # None
    <3>1. call'[q][m] = call[q][m] \/ call'[q][m] = "none"
      BY <1>1 DEF None
    <3> QED
      BY <3>1, <1>3 DEF SyncInv, SyncOK
  <2> QED
    BY <1>u, <2>2, <2>3 DEF SyncInv, SyncOK, None
<1> QED
  BY <1>1, <1>4, <1>5, <1>6, <1>7, <1>8 DEF SyncInv

(* The stage of the texts.                                                     *)
LEMMA TextsKept ==
  ASSUME SyncInv, NEW r \in Runs,
         \/ ListBills(r) \/ Download(r) \/ SaveJson(r) \/ SavePlain(r)
         \/ TextDone(r)
  PROVE  SyncInv'
<1> USE DEF ListBills, Download, SaveJson, SavePlain, TextDone,
    Skip,
  NotText, service, tables, texts
<1>u. UNCHANGED <<source, loaded, due, recorded, did, profile, call, want, changes>>
  OBVIOUS
<1>1. RowTypes' /\ RecordedIsTheirs' /\ SyncOK'
  BY <1>u DEF SyncInv, RowTypes, SyncOK, RecordedIsTheirs, None
<1>2. PICK to \in {"idle", "bills", "json", "txt"} : Enter(r, to)
  OBVIOUS
<1>3. RunTypes'
  BY <1>u, <1>2, StageTypes DEF SyncInv, Stages
<1>4. CountTypes'
  BY BoundsAssumption, NoneAssumption DEF SyncInv, CountTypes, Fault, NoFault
<1>5. /\ stage' = [stage EXCEPT ![r] = to]
      /\ \A q \in Runs : stage'[q] = IF q = r THEN to ELSE stage[q]
  BY <1>2 DEF Enter, SyncInv, RunTypes
<1>6. todo' \in [Runs -> SUBSET Bills]
  BY DEF SyncInv, TextTypes
<1>7. stored' \in [Bills -> SUBSET Kinds]
  <2>1. CASE UNCHANGED stored
    BY <2>1 DEF SyncInv, TextTypes
  <2>2. ASSUME NEW b \in Bills, NEW kind \in {"pdf", "json", "txt"}, Save(b, kind)
        PROVE  stored' \in [Bills -> SUBSET Kinds]
    BY <2>2 DEF SyncInv, TextTypes, Save, Kinds
  <2>3. CASE Download(r)
    <3>1. todo[r] \subseteq Bills
      BY DEF SyncInv, TextTypes
    <3> QED
      BY <2>1, <2>2, <2>3, <3>1
  <2>4. CASE SaveJson(r) \/ SavePlain(r)
    <3>1. bill[r] \in Bills
      BY <2>4 DEF SyncInv, TextTypes
    <3> QED
      BY <2>1, <2>2, <2>4, <3>1
  <2> QED
    BY <2>1, <2>3, <2>4
<1>8. ASSUME NEW q \in Runs
      PROVE  IF stage'[q] \in {"json", "txt"} THEN bill'[q] \in Bills ELSE bill'[q] = None
  <2>1. IF stage[q] \in {"json", "txt"} THEN bill[q] \in Bills ELSE bill[q] = None
    BY DEF SyncInv, TextTypes
  <2>2. CASE q # r
    <3>1. bill'[q] = bill[q]
      BY <2>2 DEF SyncInv, TextTypes
    <3> QED
      BY <1>5, <2>1, <2>2, <3>1
  <2>3. CASE q = r
    <3>1. CASE bill' = [bill EXCEPT ![r] = None] /\ Enter(r, "bills")
      <4>1. stage'[q] = "bills"
        BY <2>3, <3>1 DEF Enter, SyncInv, RunTypes
      <4>2. bill'[q] = None
        BY <2>3, <3>1 DEF SyncInv, TextTypes
      <4> QED
        BY <4>1, <4>2
    <3>2. CASE UNCHANGED bill /\ (ListBills(r) \/ TextDone(r))
      <4>1. stage[q] \in {"text", "bills"} /\ (Enter(r, "bills") \/ Enter(r, "idle"))
        BY <2>3, <3>2
      <4>2. stage'[q] \in {"bills", "idle"}
        BY <2>3, <4>1 DEF Enter, SyncInv, RunTypes
      <4> QED
        BY <2>1, <3>2, <4>1, <4>2
    <3>3. CASE UNCHANGED bill /\ SaveJson(r) /\ Enter(r, "txt")
      <4>1. stage[q] = "json"
        BY <2>3, <3>3
      <4>2. stage'[q] = "txt"
        BY <2>3, <3>3 DEF Enter, SyncInv, RunTypes
      <4> QED
        BY <2>1, <3>3, <4>1, <4>2
    <3>4. ASSUME NEW b \in todo[r], bill' = [bill EXCEPT ![r] = b]
          PROVE  bill'[q] \in Bills /\ (Enter(r, "json") => stage'[q] = "json")
      BY <2>3, <3>4 DEF Enter, SyncInv, RunTypes, TextTypes
    <3> QED
      BY <3>1, <3>2, <3>3, <3>4
  <2> QED
    BY <2>2, <2>3
<1>9. bill' \in [Runs -> Bills \cup {None}]
  <2>1. todo[r] \subseteq Bills /\ bill \in [Runs -> Bills \cup {None}]
    BY DEF SyncInv, TextTypes
  <2> QED
    BY <2>1
<1>10. TextTypes'
  BY <1>6, <1>7, <1>8, <1>9 DEF SyncInv, TextTypes, Kinds, None
<1> QED
  BY <1>1, <1>3, <1>4, <1>10 DEF SyncInv

(* At the start nothing is loaded and nothing runs.                            *)
LEMMA SyncInit == ASSUME PipelineInit PROVE SyncInv
<1>1. RowTypes /\ RunTypes /\ TextTypes
  BY DEF PipelineInit, RowTypes, RunTypes, TextTypes, Stages, Calls, None
<1>2. CountTypes /\ RecordedIsTheirs /\ SyncOK
  BY BoundsAssumption, NoneAssumption DEF PipelineInit, CountTypes, RecordedIsTheirs, SyncOK,
      None
<1> QED
  BY <1>1, <1>2 DEF SyncInv

(* Every step keeps the invariant.                                             *)
LEMMA SyncNext == ASSUME SyncInv, [PipelineNext]_(pipelineVars) PROVE SyncInv'
<1>1. CASE UNCHANGED pipelineVars
  <2>1. RowTypes' /\ RunTypes' /\ TextTypes' /\ CountTypes'
    BY <1>1 DEF SyncInv, RowTypes, RunTypes, TextTypes, CountTypes, pipelineVars, tables,
      service, running, texts, None, Kinds
  <2>2. RecordedIsTheirs' /\ SyncOK'
    BY <1>1 DEF SyncInv, SyncOK, RecordedIsTheirs, pipelineVars, tables, service,
      running, None
  <2> QED
    BY <2>1, <2>2 DEF SyncInv
<1>2. CASE SourceChanges \/ EditRow
  BY <1>2, EditsKept
<1>3. ASSUME NEW r \in Runs, StartRun(r) \/ Stage(r) \/ Crash(r) PROVE SyncInv'
  BY <1>3, LoadKept, EndKept, TextsKept, CrashKept DEF Stage
<1>4. ASSUME NEW r \in Runs, NEW l \in Legislators, Request(r, l) PROVE SyncInv'
  BY <1>4, RequestKept
<1> QED
  BY <1>1, <1>2, <1>3, <1>4 DEF PipelineNext

(* The invariant of the syncs.                                                 *)
THEOREM SyncInvariant == PipelineSpec => []SyncInv
<1>1. PipelineInit => SyncInv
  BY SyncInit
<1>2. SyncInv /\ [PipelineNext]_(pipelineVars) => SyncInv'
  BY SyncNext
<1> QED
  BY <1>1, <1>2, PTL DEF PipelineSpec

(* Every variable of the pipeline has its type.                                *)
THEOREM SyncTyped == PipelineSpec => []PipelineTypeOK
<1>1. SyncInv => PipelineTypeOK
  BY DEF SyncInv, PipelineTypeOK, RowTypes, RunTypes, TextTypes, CountTypes, Stages, Calls,
      Taken
<1> QED
  BY <1>1, SyncInvariant, PTL

(* Whatever fails, is lost, is sent again or overlaps: the DID that a row has  *)
(* is the one of the legislator's actor in the user service, whose repo has    *)
(* its profile.                                                                *)
THEOREM RecordedDidIsTheirs == PipelineSpec => []RecordedIsTheirs
<1>1. SyncInv => RecordedIsTheirs
  BY DEF SyncInv
<1> QED
  BY <1>1, SyncInvariant, PTL
===============================================================================
