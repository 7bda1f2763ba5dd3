------------------------------- MODULE DataContent -------------------------------
(* What users, and the operator for legislators, put on bills in the data      *)
(* service: votes and sponsorships, which have a value, follows, likes, topics *)
(* and memberships, which are there or not, and comments, which are moderated  *)
(* by a language model before they are posted.                                 *)
(*                                                                             *)
(* Processes interleave as in DataUsers; within one process the only switch is *)
(* the wait for the moderation. Foreign keys are those the migrations create;  *)
(* comments.parent_id, which the models declare as one, is not among them.     *)
EXTENDS Integers, FiniteSets

CONSTANTS Procs, Users, Bills,
          Comments,   \* ids, each used once
          Choices     \* of a vote

None == "none"
Likes == {1}
Things == Bills \cup Comments
Values(x) == IF x \in Bills THEN Choices ELSE Likes
Absent == 0

ASSUME ChoicesAssumption == Choices \subseteq Nat \ {0} /\ 1 \in Choices
ASSUME ThingsAssumption == Bills \cap Comments = {} /\ None \notin Things

VARIABLES
  bills,      \* bills that exist
  pair,       \* pair[u][x]: u's row for x, or Absent
  comment,    \* per id: whose it is, the bill, the comment it replies to
  ids,        \* ids that were used
  late,       \* for NoOrphans: replies to what was not there, or was being deleted
  pc, req, seen,  \* per request: where it is, what it asks for, what it read
  heard,      \* heard[u][x]: what pair may be by the answers since the row was last at rest
  fresh       \* rows with no answer since then

answers == <<heard, fresh>>
requests == <<pc, req, seen>>
rows == <<bills, pair, comment, ids, late>>
vars == <<rows, requests, answers>>

NoComment == [by |-> None]
NoRequest == [op |-> None]
Posted == {c \in Comments : comment[c] # NoComment}
There == bills \cup Posted

Init ==
  /\ bills = Bills
  /\ pair = [u \in Users |-> [x \in Things |-> Absent]]
  /\ comment = [c \in Comments |-> NoComment] /\ ids = {} /\ late = {}
  /\ pc = [p \in Procs |-> "idle"] /\ req = [p \in Procs |-> NoRequest]
  /\ seen = [p \in Procs |-> Absent]
  /\ heard = [u \in Users |-> [x \in Things |-> {Absent}]]
  /\ fresh = {}

At(p, point) == pc[p] = point

Start(p, point, r, s) ==
  /\ At(p, "idle")
  /\ pc' = [pc EXCEPT ![p] = point] /\ req' = [req EXCEPT ![p] = r]
  /\ seen' = [seen EXCEPT ![p] = s]

Goto(p, point, r) ==
  /\ pc' = [pc EXCEPT ![p] = point] /\ req' = [req EXCEPT ![p] = r]
  /\ UNCHANGED seen

Return(p) ==
  /\ pc' = [pc EXCEPT ![p] = "idle"] /\ req' = [req EXCEPT ![p] = NoRequest]
  /\ seen' = [seen EXCEPT ![p] = Absent]

Refuse(p) == Return(p) /\ UNCHANGED <<rows, answers>>

-------------------------------------------------------------------------------
OnPair(u, x) == {p \in Procs : req[p].op \in {"cast", "uncast"} /\ req[p].who = u /\ req[p].on = x}

(* A request for u's row for x reads it before it writes. The follows, which   *)
(* are not told apart from the votes of one choice, ask as these do.           *)
AskFor(p, u, x, name, v) ==
  /\ Start(p, "write", [op |-> name, who |-> u, on |-> x, to |-> v], pair[u][x])
  /\ fresh' = IF OnPair(u, x) = {} THEN fresh \cup {<<u, x>>} ELSE fresh
  /\ UNCHANGED <<rows, heard>>

(* The vote of a user, or of a legislator, whose row is in no way different.   *)
Cast(p) == \E u \in Users, b \in Bills, v \in Choices : AskFor(p, u, b, "cast", v)
Uncast(p) == \E u \in Users, b \in Bills : AskFor(p, u, b, "uncast", Absent)

(* endorse_comment, unendorse_comment.                                         *)
Like(p) == \E u \in Users, c \in Posted : AskFor(p, u, c, "cast", 1)
Unlike(p) == \E u \in Users, c \in Posted : AskFor(p, u, c, "uncast", Absent)

(* Which statement the session makes of the change: an insert needs the place  *)
(* free, an update or a delete needs the row there; and what is as it was read *)
(* is not written at all.                                                      *)
Accepts(p) ==
  (pair[req[p].who][req[p].on] = Absent) = (seen[p] = Absent)

(* Request p ends, and its row may be any of h by the answers; with no other   *)
(* request for it left, it is what it is from here on.                         *)
Ends(p, h, isFresh) ==
  LET u == req[p].who
      x == req[p].on
      last == OnPair(u, x) = {p} IN
  /\ heard' = [heard EXCEPT ![u][x] = IF last /\ pair'[u][x] \in h THEN {pair'[u][x]} ELSE h]
  /\ fresh' = IF isFresh /\ ~last THEN fresh ELSE fresh \ {<<u, x>>}
  /\ Return(p)

(* How a request is answered: done, done in silence, refused.                  *)
Answer(p) ==
  LET u == req[p].who
      x == req[p].on IN
  Ends(p, (IF <<u, x>> \in fresh THEN {} ELSE heard[u][x]) \cup {req[p].to}, FALSE)
Unheard(p) == Ends(p, heard[req[p].who][req[p].on] \cup {req[p].to}, FALSE)
Deny(p) == Ends(p, heard[req[p].who][req[p].on], TRUE)

(* Mutant: a row that is there is added to.                                    *)
SetSum(p) == pair' = [pair EXCEPT ![req[p].who][req[p].on] = @ + req[p].to]

Set(p) == pair' = [pair EXCEPT ![req[p].who][req[p].on] = req[p].to]

(* Mutant: a row that is not written is answered for all the same.             *)
WriteUnchecked(p) ==
  /\ At(p, "write")
  /\ IF req[p].on \in There /\ (pair[req[p].who][req[p].on] = Absent \/ req[p].to = Absent)
     THEN Set(p) ELSE UNCHANGED pair
  /\ Answer(p)
  /\ UNCHANGED <<bills, comment, ids, late>>

(* The commit. What the foreign keys, or a row that came or went, refuse, and  *)
(* what there is nothing to remove for, is answered with an error; so may be   *)
(* what has been written.                                                      *)
Write(p) ==
  /\ At(p, "write")
  /\ \/ req[p].to = seen[p] /\ seen[p] # Absent /\ UNCHANGED pair /\ Answer(p)
     \/ req[p].to # seen[p] /\ Accepts(p) /\ req[p].on \in There /\ Set(p)
        /\ (Answer(p) \/ Unheard(p))
     \/ UNCHANGED pair /\ Deny(p)
  /\ UNCHANGED <<bills, comment, ids, late>>

-------------------------------------------------------------------------------
(* create_comment, for a bill or in reply to a comment: any number will do.    *)
CreateComment(p) ==
  /\ \E u \in Users, b \in bills, c \in Comments \cup {None} :
       Start(p, "moderate", [op |-> "post", who |-> u, on |-> b, parent |-> c,
                             judged |-> None], Absent)
  /\ UNCHANGED <<rows, answers>>

(* The model's one word, or a failure. Anything but the two words that are     *)
(* looked for lets the comment pass.                                           *)
Moderate(p) ==
  /\ At(p, "moderate")
  /\ \/ \E word \in {"green", "yellow", "red"} :
          Goto(p, IF word = "green" THEN "insert" ELSE "tell", [req[p] EXCEPT !.judged = word])
     \/ Return(p)
  /\ UNCHANGED <<rows, answers>>

(* The mail to the moderators; a red comment is refused after it, and any      *)
(* comment when it fails.                                                      *)
Tell(p) ==
  /\ At(p, "tell")
  /\ \/ req[p].judged = "yellow" /\ Goto(p, "insert", req[p])
     \/ Return(p)
  /\ UNCHANGED <<rows, answers>>

(* A reply that a deletion's check has not seen.                               *)
Unchecked(c) ==
  c # None /\ (c \notin Posted \/ \E q \in Procs : At(q, "delete") /\ req[q].on = c)

(* Nothing asks for the parent to be there.                                    *)
Insert(p) ==
  /\ At(p, "insert")
  /\ \/ /\ req[p].on \in bills
        /\ \E c \in Comments \ ids :
             /\ comment' = [comment EXCEPT ![c] =
                  [by |-> req[p].who, bill |-> req[p].on, parent |-> req[p].parent]]
             /\ ids' = ids \cup {c}
             /\ late' = IF Unchecked(req[p].parent) THEN late \cup {c} ELSE late
        /\ Return(p)
        /\ UNCHANGED <<bills, pair, answers>>
     \/ Refuse(p)

(* update_comment: whose, on which bill and in reply to what it is may be sent *)
(* changed too. Nobody judges the new text.                                    *)
UpdateComment ==
  /\ \E c \in Posted, u \in Users, b \in bills, d \in Comments \cup {None} :
       /\ comment' = [comment EXCEPT ![c] = [by |-> u, bill |-> b, parent |-> d]]
       /\ late' = IF Unchecked(d) THEN late \cup {c} ELSE late \ {c}
  /\ UNCHANGED <<bills, pair, ids, requests, answers>>

Replies(c) == {d \in Posted : comment[d].parent = c}

(* Mutant: the replies are not looked for.                                     *)
DeleteUnchecked(p) ==
  /\ \E c \in Posted : Start(p, "delete", [op |-> "delete", on |-> c], Absent)
  /\ UNCHANGED <<rows, answers>>

(* delete_comment: with replies it is refused.                                 *)
DeleteComment(p) ==
  /\ \E c \in Posted : Replies(c) = {} /\ Start(p, "delete", [op |-> "delete", on |-> c], Absent)
  /\ UNCHANGED <<rows, answers>>

(* The likes go with it. No replies are looked for again.                      *)
DeleteRow(p) ==
  /\ At(p, "delete")
  /\ LET c == req[p].on IN
     \/ /\ c \in Posted
        /\ comment' = [comment EXCEPT ![c] = NoComment]
        /\ pair' = [u \in Users |-> [pair[u] EXCEPT ![c] = Absent]]
        /\ heard' = [u \in Users |-> [heard[u] EXCEPT ![c] = {Absent}]]
        /\ Return(p)
        /\ late' = late \ {c}
        /\ UNCHANGED <<bills, ids, fresh>>
     \/ Refuse(p)

(* delete_item for a bill: refused while a vote, a follow, a sponsor or a      *)
(* comment refers to it.                                                       *)
DeleteBill(b) ==
  /\ b \in bills
  /\ \A u \in Users : pair[u][b] = Absent
  /\ \A c \in Posted : comment[c].bill # b
  /\ bills' = bills \ {b}
  /\ UNCHANGED <<pair, comment, ids, late, requests, answers>>

Next ==
  \/ \E p \in Procs :
       \/ Cast(p) \/ Uncast(p) \/ Like(p) \/ Unlike(p) \/ Write(p)
       \/ CreateComment(p) \/ Moderate(p) \/ Tell(p) \/ Insert(p)
       \/ DeleteComment(p) \/ DeleteRow(p)
  \/ UpdateComment
  \/ \E b \in Bills : DeleteBill(b)

Spec == Init /\ [][Next]_vars
-------------------------------------------------------------------------------
Comment == [by : Users, bill : Bills, parent : Comments \cup {None}]

Requests ==
  {NoRequest}
    \cup [op : {"cast", "uncast"}, who : Users, on : Things, to : Choices \cup {Absent}]
    \cup [op : {"post"}, who : Users, on : Bills, parent : Comments \cup {None},
          judged : {None, "green", "yellow", "red"}]
    \cup [op : {"delete"}, on : Comments]

(* Every variable has its type.                                                *)
TypeOK ==
  /\ bills \subseteq Bills /\ ids \subseteq Comments /\ Posted \subseteq ids /\ late \subseteq Posted
  /\ \A u \in Users : /\ DOMAIN pair[u] = Things
                      /\ \A x \in Things : pair[u][x] \in Values(x) \cup {Absent}
  /\ comment \in [Comments -> Comment \cup {NoComment}]
  /\ pc \in [Procs -> {"idle", "write", "moderate", "tell", "insert", "delete"}]
  /\ req \in [Procs -> Requests] /\ seen \in [Procs -> Choices \cup {Absent}]
  /\ heard \in [Users -> [Things -> SUBSET (Choices \cup {Absent})]]
  /\ fresh \subseteq Users \X Things

(* When no request for a vote, a follow or a like is on its way, the row is as *)
(* one of those that were answered since it was last at rest left it: of two   *)
(* votes that race, one that was refused does not stand over one that was not. *)
AnswerStands ==
  \A u \in Users, x \in There :
    OnPair(u, x) = {} => pair[u][x] \in heard[u][x]

(* However creations, which wait for the moderation, edits and deletions race: *)
(* every comment has its bill, every vote its bill and every like its comment; *)
(* and a reply loses the comment it replies to only if it was posted, or moved *)
(* there, after the deletion's check or after the deletion.                    *)
NoOrphans ==
  /\ \A c \in Posted : comment[c].bill \in bills
  /\ \A c \in Posted : comment[c].parent \in Posted \cup {None} \/ c \in late
  /\ \A u \in Users, x \in Things : pair[u][x] # Absent => x \in There

===============================================================================
