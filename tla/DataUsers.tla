-------------------------------- MODULE DataUsers --------------------------------
(* The accounts of the data service: signing up and logging in, with a         *)
(* password or with Google, deletion that is only marked, and the rest of the  *)
(* users endpoints.                                                            *)
(*                                                                             *)
(* A process runs a handler from its first query to its last without a switch, *)
(* but there may be several processes (a deployment overlaps the one before    *)
(* it), so requests interleave at their statements. What a session has read it *)
(* keeps until it commits: a later query of the same row gives the same        *)
(* object, with the values first read. The settings of a user are one column,  *)
(* which is written whole; they hold the mark of a deletion and the Google id  *)
(* among what a client may put there, these two included.                      *)
EXTENDS Integers, FiniteSets

CONSTANTS Procs, Users,       \* requests being served; ids of rows
          Emails, Passwords, Googles,
          Nobody              \* no password, no Google account, no row

ASSUME NobodyAssumption == Nobody \notin Users \cup Emails \cup Passwords \cup Googles

VARIABLES
  row,        \* users: an id is used once
  used,       \* ids that were ever used
  tokens,     \* emails in the subject of a token that was issued
  pc, op, user, seen, arg,  \* per request: where it is, what it does, to whose row,
                            \* what it read of that row, and what it was sent
  expected    \* expected[u]: u's row as the answered requests left it; Unknown when
              \* one failed halfway, or two overlapped

table == <<row, used>>
requests == <<pc, op, user, seen, arg>>
vars == <<table, tokens, requests, expected>>

Null == "null"  \* in the place of the Google id: the settings are JSON's null
Same == "same"  \* what is not sent
Linked == Googles \cup {Nobody, Null}
Row == [email : Emails, password : Passwords \cup {Nobody},
        google : Linked, deleted : BOOLEAN]
NoRow == [email |-> Nobody]
Unknown == [email |-> "unknown"]
Seen == [email : Emails, google : Linked, deleted : BOOLEAN]
Rows == {u \in Users : row[u] # NoRow}
NoArg == [email |-> Nobody, password |-> Nobody, google |-> Nobody, deleted |-> {}]

Init ==
  /\ row = [u \in Users |-> NoRow] /\ used = {} /\ tokens = {}
  /\ pc = [p \in Procs |-> "idle"] /\ op = [p \in Procs |-> "none"]
  /\ user = [p \in Procs |-> Nobody] /\ seen = [p \in Procs |-> NoRow]
  /\ arg = [p \in Procs |-> NoArg]
  /\ expected = row

-------------------------------------------------------------------------------
(* get_user_by_email, get_user_by_social_provider: the first row, if any.      *)
ByEmail(e) == {u \in Rows : row[u].email = e}
ByGoogle(g) == {u \in Rows : row[u].google = g}

At(p, point) == pc[p] = point
On(u) == {p \in Procs : user[p] = u}

(* What a request needs of what it read.                                       *)
Read(u) == [email |-> row[u].email, google |-> row[u].google, deleted |-> row[u].deleted]

(* Request p has read u's row for a change that another may be about to make.  *)
Touch(p, u) ==
  expected' = IF On(u) \ {p} = {} THEN expected ELSE [expected EXCEPT ![u] = Unknown]

(* Request p has read u's row, or none, and goes on at point.                  *)
Start(p, name, point, u, a) ==
  /\ At(p, "idle")
  /\ pc' = [pc EXCEPT ![p] = point] /\ op' = [op EXCEPT ![p] = name]
  /\ user' = [user EXCEPT ![p] = u]
  /\ seen' = [seen EXCEPT ![p] = IF u = Nobody THEN NoRow ELSE Read(u)]
  /\ arg' = [arg EXCEPT ![p] = a]
  /\ IF u = Nobody THEN UNCHANGED expected ELSE Touch(p, u)

Goto(p, point) == pc' = [pc EXCEPT ![p] = point] /\ UNCHANGED <<op, user, seen, arg>>

Return(p) ==
  /\ pc' = [pc EXCEPT ![p] = "idle"] /\ op' = [op EXCEPT ![p] = "none"]
  /\ user' = [user EXCEPT ![p] = Nobody] /\ seen' = [seen EXCEPT ![p] = NoRow]
  /\ arg' = [arg EXCEPT ![p] = NoArg]

(* A refusal that wrote nothing, and one that leaves something written.        *)
Refuse(p) == Return(p) /\ UNCHANGED <<table, tokens, expected>>

FailHalfway(p) ==
  /\ Return(p)
  /\ expected' = [expected EXCEPT ![user[p]] = Unknown]
  /\ UNCHANGED <<table, tokens>>

(* Answered: the request's row is as r says, if it was known before.           *)
Answer(p, r) ==
  expected' = IF expected[user[p]] = Unknown THEN expected ELSE [expected EXCEPT ![user[p]] = r]

Issue(e) == tokens' = tokens \cup {e}

Set(u, r) == row' = [row EXCEPT ![u] = r] /\ UNCHANGED used

(* Mutant: the settings are the new one alone.                                 *)
OnlyDeleted(p, b) == [row[user[p]] EXCEPT !.deleted = b, !.google = Nobody]

(* The settings as they were read, with one of them changed.                   *)
WithDeleted(p, b) ==
  [row[user[p]] EXCEPT !.deleted = b, !.google = seen[p].google]

WithGoogle(p) ==
  [row[user[p]] EXCEPT !.google = arg[p].google, !.deleted = seen[p].deleted]

-------------------------------------------------------------------------------
(* The rows that a request may ask for: the settings of a new account are      *)
(* whatever is sent, but for Google's.                                         *)
Wanted(p) ==
  {r \in Row : /\ r.email = arg[p].email /\ r.password = arg[p].password /\ r.google # Null
               /\ op[p] = "googleSignup" => r.google = arg[p].google /\ ~r.deleted}

(* Mutant: no index refuses a second row with the email.                       *)
CreateUnchecked(p) ==
  /\ At(p, "create")
  /\ \E u \in Users \ used, r \in Wanted(p) :
       /\ row' = [row EXCEPT ![u] = r] /\ used' = used \cup {u}
       /\ expected' = [expected EXCEPT ![u] = r]
  /\ IF op[p] = "googleSignup" THEN Issue(arg[p].email) ELSE UNCHANGED tokens
  /\ Return(p)

(* create: the index on email refuses a second row.                            *)
Create(p) ==
  /\ At(p, "create")
  /\ \/ /\ ByEmail(arg[p].email) = {}
        /\ \E u \in Users \ used, r \in Wanted(p) :
             /\ row' = [row EXCEPT ![u] = r] /\ used' = used \cup {u}
             /\ expected' = [expected EXCEPT ![u] = r]
        /\ IF op[p] = "googleSignup" THEN Issue(arg[p].email) ELSE UNCHANGED tokens
        /\ Return(p)
     \/ Refuse(p)

(* signup looks for the email first.                                           *)
Signup(p) ==
  /\ \E e \in Emails, w \in Passwords :
       LET a == [NoArg EXCEPT !.email = e, !.password = w] IN
       \/ ByEmail(e) = {} /\ Start(p, "signup", "create", Nobody, a)
       \/ \E u \in ByEmail(e) : row[u].deleted /\ Start(p, "signup", "undelete", u, a)
  /\ UNCHANGED <<table, tokens>>

(* create_user, with the system token, does not.                               *)
CreateUser(p) ==
  /\ \E e \in Emails, w \in Passwords :
       Start(p, "createUser", "create", Nobody, [NoArg EXCEPT !.email = e, !.password = w])
  /\ UNCHANGED <<table, tokens>>

(* The row that was read is not there any more, and one is made.               *)
CreateInstead(p) ==
  /\ pc' = [pc EXCEPT ![p] = "create"] /\ user' = [user EXCEPT ![p] = Nobody]
  /\ seen' = [seen EXCEPT ![p] = NoRow]
  /\ UNCHANGED <<op, arg, table, tokens, expected>>

(* update_soft_delete(FALSE). A sign-up goes on with the password that the row *)
(* has after the commit; Google's requests are answered. A sign-up whose row   *)
(* is gone creates one.                                                        *)
Undelete(p) ==
  /\ At(p, "undelete")
  /\ LET u == user[p] IN
     \/ /\ u \in Rows
        /\ Set(u, WithDeleted(p, FALSE))
        /\ \/ /\ op[p] = "signup" /\ row[u].password # arg[p].password
              /\ Goto(p, "setPassword")
              /\ UNCHANGED <<tokens, expected>>
           \/ /\ op[p] = "signup" /\ row[u].password = arg[p].password
              /\ Answer(p, [expected[u] EXCEPT !.deleted = FALSE]) /\ Return(p)
              /\ UNCHANGED tokens
           \/ /\ op[p] # "signup"
              /\ Answer(p, [expected[u] EXCEPT !.deleted = FALSE]) /\ Return(p)
              /\ Issue(row[u].email)
     \/ u \notin Rows /\ op[p] # "googleLogin" /\ CreateInstead(p)
     \/ Refuse(p)

(* update_user_password, which reads the row first. A sign-up whose row is     *)
(* gone by then creates one too.                                               *)
SetPassword(p) ==
  /\ At(p, "setPassword")
  /\ LET u == user[p] IN
     \/ /\ u \in Rows
        /\ Set(u, [row[u] EXCEPT !.password = arg[p].password])
        /\ Answer(p, [expected[u] EXCEPT !.password = arg[p].password,
                                         !.deleted = IF op[p] = "signup" THEN FALSE ELSE @])
        /\ Return(p)
        /\ UNCHANGED tokens
     \/ u \notin Rows /\ op[p] = "signup" /\ CreateInstead(p)
     \/ op[p] = "signup" /\ FailHalfway(p)
     \/ op[p] # "signup" /\ Refuse(p)

-------------------------------------------------------------------------------
(* google_signup: by email first, then by Google's id.                         *)
GoogleSignup(p) ==
  /\ \E e \in Emails, g \in Googles :
       LET a == [NoArg EXCEPT !.email = e, !.google = g] IN
       \/ ByEmail(e) = {} /\ Start(p, "googleSignup", "create", Nobody, a)
       \/ \E u \in ByEmail(e) : Start(p, "googleSignup", "findGoogle", u, a)
  /\ UNCHANGED <<table, tokens>>

(* An account that has the Google id takes the place of the one with the email.*)
FindGoogle(p) ==
  /\ At(p, "findGoogle")
  /\ LET g == arg[p].google
         Of(u) == IF u = user[p] THEN seen[p] ELSE Read(u) IN
     \/ /\ \E u \in ByGoogle(g) :
             /\ Of(u).deleted
             /\ pc' = [pc EXCEPT ![p] = "undelete"]
             /\ user' = [user EXCEPT ![p] = u] /\ seen' = [seen EXCEPT ![p] = Of(u)]
             /\ Touch(p, u)
        /\ UNCHANGED <<op, arg, table, tokens>>
     \/ /\ \E u \in ByGoogle(g) : ~Of(u).deleted
        /\ Refuse(p)
     \/ /\ ByGoogle(g) = {}
        /\ Goto(p, "link")
        /\ UNCHANGED <<table, tokens, expected>>

(* update_social_provider. A deleted account is linked and stays deleted.      *)
Link(p) ==
  /\ At(p, "link")
  /\ LET u == user[p] IN
     \/ /\ u \in Rows /\ seen[p].google # Null
        /\ Set(u, WithGoogle(p))
        /\ Answer(p, [expected[u] EXCEPT !.google = arg[p].google])
        /\ Issue(row[u].email) /\ Return(p)
     \/ u \notin Rows /\ CreateInstead(p)
     \/ Refuse(p)

(* google_login: a live account is logged in at once.                          *)
GoogleLogin(p) ==
  /\ \E g \in Googles : \E u \in ByGoogle(g) :
       \/ /\ row[u].deleted
          /\ Start(p, "googleLogin", "undelete", u, [NoArg EXCEPT !.google = g])
          /\ UNCHANGED tokens
       \/ /\ ~row[u].deleted /\ At(p, "idle") /\ Issue(row[u].email)
          /\ UNCHANGED <<requests, expected>>
  /\ UNCHANGED table

(* authenticate_user; an account of Google's has no password.                  *)
Authenticates(u, w) ==
  row[u].google # Null /\ ~row[u].deleted /\ row[u].password = w

(* login_for_access_token: one query. refresh_access_token issues a token to   *)
(* who has one.                                                                *)
Login(p) ==
  /\ At(p, "idle")
  /\ \E u \in Rows, w \in Passwords : Authenticates(u, w) /\ Issue(row[u].email)
  /\ UNCHANGED <<table, requests, expected>>

-------------------------------------------------------------------------------
(* get_current_user finds a row, deleted or not, by the email of the token.    *)
Current == {u \in Rows : row[u].email \in tokens}

(* update_user_password, which asks for the current one, ...                   *)
ResetPassword(p) ==
  /\ \E u \in Current, w \in Passwords :
       /\ row[u].password # Nobody
       /\ Start(p, "reset", "setPassword", u, [NoArg EXCEPT !.password = w])
  /\ UNCHANGED <<table, tokens>>

(* ... and admin_update_user_password, which does not.                         *)
AdminResetPassword(p) ==
  /\ \E u \in Rows, w \in Passwords :
       Start(p, "adminReset", "setPassword", u, [NoArg EXCEPT !.password = w])
  /\ UNCHANGED <<table, tokens>>

(* delete_user, with the settings that get_current_user read.                  *)
DeleteUser(p) ==
  /\ \E u \in Current : Start(p, "delete", "markDeleted", u, NoArg)
  /\ UNCHANGED <<table, tokens>>

MarkDeleted(p) ==
  /\ At(p, "markDeleted")
  /\ \/ /\ user[p] \in Rows /\ seen[p].google # Null
        /\ Set(user[p], WithDeleted(p, TRUE))
        /\ Answer(p, [expected[user[p]] EXCEPT !.deleted = TRUE]) /\ Return(p)
        /\ UNCHANGED tokens
     \/ Refuse(p)

(* update_user, for an account deleted or not. What the settings that are sent *)
(* say of the deletion, if they do, is kept here; the rest is chosen where it  *)
(* is used.                                                                    *)
UpdateUser(p) ==
  /\ \E u \in Current, d \in {{}, {TRUE}, {FALSE}} :
       Start(p, "update", "update", u, [NoArg EXCEPT !.deleted = d])
  /\ UNCHANGED <<table, tokens>>

(* Mutant: what is sent takes the place of the settings.                       *)
Replaced(p, r, old, g) ==
  [r EXCEPT !.google = IF g = Same THEN Nobody ELSE g, !.deleted = TRUE \in arg[p].deleted]

(* Row r with the settings old and what was sent, of the deletion and of the   *)
(* Google id g, put into them.                                                 *)
Merged(p, r, old, g) ==
  [r EXCEPT !.google = IF g # Same THEN g ELSE IF old.google = Null THEN Nobody ELSE old.google,
            !.deleted = IF arg[p].deleted = {} THEN old.deleted ELSE TRUE \in arg[p].deleted]

WithEmail(r, old, e) == IF e \in {Nobody, old.email} THEN r ELSE [r EXCEPT !.email = e]

(* update with an email, with settings, or with both. An email that is as it   *)
(* was read is not written. The settings are merged into what was read; null,  *)
(* which stands for them all, takes their place. What is written may still be  *)
(* answered with an error: no answer has null for settings.                    *)
Update(p) ==
  /\ At(p, "update")
  /\ LET u == user[p] IN
     \/ /\ u \in Rows
        /\ \E e \in Emails \cup {Nobody}, g \in Linked \cup {Same}, settings \in BOOLEAN :
             LET Sent(r, old) == IF settings THEN Merged(p, WithEmail(r, old, e), old, g)
                                 ELSE WithEmail(r, old, e) IN
             /\ e \in {Nobody, seen[p].email} \/ ByEmail(e) \subseteq {u}
             /\ ~settings => g = Same /\ arg[p].deleted = {}
             /\ g = Null => arg[p].deleted = {FALSE}
             /\ Set(u, Sent(row[u], seen[p]))
             /\ \/ Answer(p, Sent(expected[u], expected[u]))
                \/ expected' = [expected EXCEPT ![u] = Unknown]
        /\ Return(p)
        /\ UNCHANGED tokens
     \/ Refuse(p)

(* admin_delete_user: a row nothing refers to; its id does not come back.      *)
AdminDeleteUser(u) ==
  /\ u \in Rows
  /\ Set(u, NoRow)
  /\ expected' = [expected EXCEPT ![u] = NoRow]
  /\ UNCHANGED <<tokens, requests>>

Next ==
  \/ \E p \in Procs :
       \/ Signup(p) \/ CreateUser(p) \/ Create(p) \/ Undelete(p) \/ SetPassword(p)
       \/ GoogleSignup(p) \/ FindGoogle(p) \/ Link(p) \/ GoogleLogin(p) \/ Login(p)
       \/ ResetPassword(p) \/ AdminResetPassword(p) \/ DeleteUser(p) \/ MarkDeleted(p)
       \/ UpdateUser(p) \/ Update(p)
  \/ \E u \in Users : AdminDeleteUser(u)

Spec == Init /\ [][Next]_vars
-------------------------------------------------------------------------------
(* Every variable has its type, and no two rows have one email.                *)
TypeOK ==
  /\ row \in [Users -> Row \cup {NoRow}] /\ expected \in [Users -> Row \cup {NoRow, Unknown}]
  /\ used \subseteq Users /\ Rows \subseteq used /\ tokens \subseteq Emails
  /\ pc \in [Procs -> {"idle", "create", "undelete", "setPassword", "findGoogle", "link",
                       "markDeleted", "update"}]
  /\ op \in [Procs -> {"none", "signup", "createUser", "googleSignup", "googleLogin", "reset",
                       "adminReset", "delete", "update"}]
  /\ user \in [Procs -> Users \cup {Nobody}] /\ seen \in [Procs -> Seen \cup {NoRow}]
  /\ arg \in [Procs -> [email : Emails \cup {Nobody}, password : Passwords \cup {Nobody},
                        google : Googles \cup {Nobody}, deleted : SUBSET BOOLEAN]]
  /\ \A u, v \in Rows : row[u].email = row[v].email => u = v

(* Requests that follow each other, and do not stop halfway, do what they say: *)
(* a row is as they left it, the password of a sign-up and the link of Google  *)
(* included, and one setting is not lost to a write of another.                *)
AnsweredHolds ==
  \A u \in Users : On(u) = {} /\ expected[u] # Unknown => row[u] = expected[u]

(* A deleted account comes back by a sign-up, through Google, or because its   *)
(* client says so in the settings that it sends. Nothing else undoes a         *)
(* deletion, the change of another setting included, but a request that had    *)
(* read the settings before it.                                                *)
DeletionStays ==
  [][\A u \in Rows :
       row[u].deleted /\ row'[u] # NoRow /\ ~row'[u].deleted =>
         \E p \in On(u) :
           /\ pc'[p] # pc[p]
           /\ At(p, "undelete") \/ ~seen[p].deleted \/ arg[p].deleted = {FALSE}]_vars
===============================================================================
