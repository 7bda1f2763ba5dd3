---------------------------- MODULE DataContentProofs ----------------------------
(* Theorems about DataContent, for any number of requests, users, bills and    *)
(* comments.                                                                   *)
EXTENDS DataContent, TLAPS

Points == {"idle", "write", "moderate", "tell", "insert", "delete"}
Asks == {"cast", "uncast"}
Written == Choices \cup {Absent}

(* The types, of what is kept, of the requests and of what was answered.       *)
RowTypes ==
  /\ bills \subseteq Bills /\ ids \subseteq Comments /\ Posted \subseteq ids /\ late \subseteq Posted
  /\ pair \in [Users -> [Things -> Written]]
  /\ comment \in [Comments -> Comment \cup {NoComment}]
RequestTypes ==
  /\ pc \in [Procs -> Points]
  /\ req \in [Procs -> Requests]
  /\ seen \in [Procs -> Written]
AnswerTypes ==
  /\ heard \in [Users -> [Things -> SUBSET Written]]
  /\ fresh \subseteq Users \X Things

(* A like is there or not.                                                     *)
ValuesOK == \A u \in Users : \A x \in Things : pair[u][x] \in Values(x) \cup {Absent}

(* What a request can be for, at the point where it is.                        *)
PointOK(p) ==
  /\ pc[p] = "idle" => req[p] = NoRequest
  /\ pc[p] = "write" <=> req[p].op \in Asks
  /\ pc[p] \in {"moderate", "tell", "insert"} => req[p].op = "post"
  /\ pc[p] = "delete" => req[p].op = "delete"

(* A request for a row is for a bill, or for a comment that has been there,    *)
(* and it has read the row as it is if no other was answered in between.       *)
AskOK(p) ==
  req[p].op \in Asks =>
    /\ req[p].on \in Bills \cup ids
    /\ req[p].to \in Values(req[p].on) \cup {Absent}
    /\ <<req[p].who, req[p].on>> \in fresh /\ req[p].on \in There =>
         seen[p] = pair[req[p].who][req[p].on]

(* A row is one of those that were answered, even while others are asked for;  *)
(* and of a comment still to come nothing was heard.                           *)
HeardOK == \A u \in Users : \A x \in There : pair[u][x] \in heard[u][x]
NewOK == \A u \in Users : \A c \in Comments \ ids : heard[u][c] = {Absent}

(* While a comment is being deleted, all that replies to it came late.         *)
CheckedOK(p) ==
  pc[p] = "delete" => \A d \in Posted : comment[d].parent = req[p].on => d \in late

Inv ==
  /\ RowTypes /\ RequestTypes /\ AnswerTypes /\ ValuesOK
  /\ (\A p \in Procs : PointOK(p)) /\ (\A p \in Procs : AskOK(p))
  /\ (\A p \in Procs : CheckedOK(p))
  /\ NoOrphans /\ HeardOK /\ NewOK
-------------------------------------------------------------------------------
(* Every value that a row can have is one that a row is typed with.            *)
LEMMA ValuesWritten == \A x \in Things : Values(x) \cup {Absent} \subseteq Written
BY ChoicesAssumption DEF Values, Likes, Written

(* A comment is not the place where none is.                                   *)
LEMMA CommentIsNot == \A u, b, d : [by |-> u, bill |-> b, parent |-> d] # NoComment
BY DEF NoComment

(* What is posted has a writer, a bill and what it replies to.                 *)
LEMMA PostedTypes ==
  ASSUME RowTypes, NEW c \in Posted
  PROVE  /\ c \in Comments /\ comment[c] \in Comment
         /\ comment[c].bill \in Bills /\ comment[c].parent \in Comments \cup {None}
BY DEF RowTypes, Posted, Comment

(* The fields that a request has.                                              *)
LEMMA RequestFields ==
  ASSUME NEW r \in Requests
  PROVE  /\ r.op \in Asks => r.who \in Users /\ r.on \in Things /\ r.to \in Written
         /\ r.op = "post" => /\ r.who \in Users /\ r.on \in Bills
                             /\ r.parent \in Comments \cup {None}
                             /\ \A w \in {"green", "yellow", "red"} :
                                  /\ [r EXCEPT !.judged = w] \in Requests
                                  /\ [r EXCEPT !.judged = w].op = "post"
         /\ r.op = "delete" => r.on \in Comments
<1>1. CASE r = NoRequest
  BY <1>1 DEF NoRequest, None, Asks
<1>2. CASE r \in [op : {"cast", "uncast"}, who : Users, on : Things, to : Choices \cup {Absent}]
  BY <1>2 DEF Asks, Written
<1>3. CASE r \in [op : {"post"}, who : Users, on : Bills, parent : Comments \cup {None},
                  judged : {None, "green", "yellow", "red"}]
  BY <1>3 DEF Asks, Requests
<1>4. CASE r \in [op : {"delete"}, on : Comments]
  BY <1>4 DEF Asks
<1> QED
  BY <1>1, <1>2, <1>3, <1>4 DEF Requests

(* A request's step, as it is for the other requests.                          *)
Others(p) == \A q \in Procs \ {p} : pc'[q] = pc[q] /\ req'[q] = req[q] /\ seen'[q] = seen[q]

(* How a request goes from point to point.                                     *)
LEMMA Moves ==
  ASSUME RequestTypes, NEW p \in Procs
  PROVE  /\ \A point \in Points, r \in Requests, s \in Written : Start(p, point, r, s) =>
              /\ RequestTypes' /\ Others(p) /\ pc[p] = "idle"
              /\ pc'[p] = point /\ req'[p] = r /\ seen'[p] = s
         /\ \A point \in Points, r \in Requests : Goto(p, point, r) =>
              RequestTypes' /\ Others(p) /\ pc'[p] = point /\ req'[p] = r
         /\ Return(p) => RequestTypes' /\ Others(p) /\ pc'[p] = "idle" /\ req'[p] = NoRequest
<1>t. pc \in [Procs -> Points] /\ req \in [Procs -> Requests] /\ seen \in [Procs -> Written]
  BY DEF RequestTypes
<1>1. ASSUME NEW point \in Points, NEW r \in Requests, NEW s \in Written, Start(p, point, r, s)
      PROVE  /\ RequestTypes' /\ Others(p) /\ pc[p] = "idle"
             /\ pc'[p] = point /\ req'[p] = r /\ seen'[p] = s
  BY <1>t, <1>1 DEF Start, At, RequestTypes, Others
<1>2. ASSUME NEW point \in Points, NEW r \in Requests, Goto(p, point, r)
      PROVE  RequestTypes' /\ Others(p) /\ pc'[p] = point /\ req'[p] = r
  BY <1>t, <1>2 DEF Goto, RequestTypes, Others
<1>3. ASSUME Return(p) PROVE RequestTypes' /\ Others(p) /\ pc'[p] = "idle" /\ req'[p] = NoRequest
  <2>1. "idle" \in Points /\ NoRequest \in Requests /\ Absent \in Written
    BY DEF Points, Requests, Written
  <2> QED
    BY <1>t, <1>3, <2>1 DEF Return, RequestTypes, Others
<1> QED
  BY <1>1, <1>2, <1>3

(* The other requests are at the points where they were.                       *)
LEMMA PointsUntouched ==
  ASSUME NEW p \in Procs, Others(p), \A q \in Procs : PointOK(q)
  PROVE  \A q \in Procs \ {p} : PointOK(q)'
BY DEF Others, PointOK

(* Nor does a deletion notice what leaves the comments as they are.            *)
LEMMA ChecksUntouched ==
  ASSUME NEW p \in Procs, Others(p), \A q \in Procs : CheckedOK(q),
         UNCHANGED <<comment, late>>
  PROVE  \A q \in Procs : q # p \/ pc'[q] # "delete" => CheckedOK(q)'
BY DEF Others, CheckedOK, Posted

(* What another request has read is as it was: no bill or comment is there     *)
(* again, and a row that is still fresh was not written.                       *)
LEMMA AskUntouched ==
  ASSUME Inv, NEW q \in Procs, AskOK(q), req'[q] = req[q], seen'[q] = seen[q],
         ids \subseteq ids', There' \subseteq There \cup (Comments \ ids),
         req[q].op \in Asks =>
           \A u \in Users, x \in Things :
             u = req[q].who /\ x = req[q].on /\ <<u, x>> \in fresh' /\ x \in There' =>
               <<u, x>> \in fresh /\ pair'[u][x] = pair[u][x]
  PROVE  AskOK(q)'
<1>1. SUFFICES ASSUME req[q].op \in Asks PROVE AskOK(q)'
  BY DEF AskOK
<1>2. /\ req[q].who \in Users /\ req[q].on \in Things
      /\ req[q].on \in Bills \cup ids /\ req[q].to \in Values(req[q].on) \cup {Absent}
  BY <1>1, RequestFields DEF Inv, RequestTypes, AskOK
<1>3. ASSUME <<req[q].who, req[q].on>> \in fresh', req[q].on \in There'
      PROVE  seen[q] = pair'[req[q].who][req[q].on]
  <2>1. req[q].on \in There
    BY <1>2, <1>3, ThingsAssumption
  <2>2. <<req[q].who, req[q].on>> \in fresh
    BY <1>1, <1>2, <1>3
  <2>3. pair'[req[q].who][req[q].on] = pair[req[q].who][req[q].on]
    BY <1>1, <1>2, <1>3
  <2> QED
    BY <1>1, <2>1, <2>2, <2>3 DEF AskOK
<1> QED
  BY <1>2, <1>3 DEF AskOK, Values

(* A step that leaves the rows, what was answered and the requests for rows    *)
(* alone.                                                                      *)
LEMMA AsideKept ==
  ASSUME Inv, NEW p \in Procs, Others(p), RequestTypes', PointOK(p)', CheckedOK(p)',
         req'[p].op \notin Asks, UNCHANGED <<rows, answers>>
  PROVE  Inv'
<1>u. /\ bills' = bills /\ pair' = pair /\ comment' = comment /\ ids' = ids
      /\ late' = late /\ heard' = heard /\ fresh' = fresh
  BY DEF rows, answers
<1>p. Posted' = Posted /\ There' = There
  BY <1>u DEF Posted, There
<1>1. RowTypes' /\ AnswerTypes' /\ ValuesOK'
  BY <1>u, <1>p DEF Inv, RowTypes, AnswerTypes, ValuesOK, Values
<1>2. NoOrphans' /\ HeardOK' /\ NewOK'
  BY <1>u, <1>p DEF Inv, NoOrphans, HeardOK, NewOK
<1>3. \A q \in Procs : PointOK(q)'
  BY PointsUntouched DEF Inv
<1>4. ASSUME NEW q \in Procs PROVE AskOK(q)'
  <2>1. CASE q = p
    BY <2>1 DEF AskOK
  <2>2. CASE q # p
    BY <1>u, <1>p, <2>2, AskUntouched DEF Others, Inv
  <2> QED
    BY <2>1, <2>2
<1>5. \A q \in Procs : CheckedOK(q)'
  BY <1>u, ChecksUntouched DEF Inv
<1> QED
  BY <1>1, <1>2, <1>3, <1>4, <1>5 DEF Inv

(* A request for a row reads it.                                               *)
LEMMA AskKept ==
  ASSUME Inv, NEW p \in Procs, NEW u \in Users, NEW x \in Bills \cup Posted,
         NEW name \in Asks, NEW v \in Values(x) \cup {Absent}, AskFor(p, u, x, name, v)
  PROVE  Inv'
<1> DEFINE r == [op |-> name, who |-> u, on |-> x, to |-> v]
<1>x. x \in Things /\ x \in Bills \cup ids /\ v \in Written
  <2>1. x \in Things /\ x \in Bills \cup ids
    BY DEF Inv, RowTypes, Things
  <2> QED
    BY <2>1, ValuesWritten
<1>r. r \in Requests /\ r.op \in Asks /\ r.who = u /\ r.on = x /\ r.to = v /\ r # NoRequest
  <2>1. r \in [op : {"cast", "uncast"}, who : Users, on : Things, to : Choices \cup {Absent}]
    BY <1>x DEF Asks, Written
  <2> QED
    BY <2>1 DEF Requests, Asks, NoRequest, None
<1>w. pair[u][x] \in Written
  BY <1>x DEF Inv, RowTypes
<1> HIDE DEF r
<1>1. /\ RequestTypes' /\ Others(p) /\ pc[p] = "idle"
      /\ pc'[p] = "write" /\ req'[p] = r /\ seen'[p] = pair[u][x]
  <2>1. Start(p, "write", r, pair[u][x])
    BY DEF AskFor, r
  <2> QED
    BY <1>r, <1>w, <2>1, Moves DEF Inv, Points
<1>u. /\ bills' = bills /\ pair' = pair /\ comment' = comment /\ ids' = ids /\ late' = late
      /\ heard' = heard
      /\ fresh' = IF OnPair(u, x) = {} THEN fresh \cup {<<u, x>>} ELSE fresh
  BY DEF AskFor, rows
<1>p. Posted' = Posted /\ There' = There
  BY <1>u DEF Posted, There
<1>2. RowTypes' /\ ValuesOK' /\ NoOrphans' /\ HeardOK' /\ NewOK'
  BY <1>u, <1>p DEF Inv, RowTypes, ValuesOK, Values, NoOrphans, HeardOK, NewOK
<1>3. AnswerTypes'
  <2>1. fresh' \subseteq fresh \cup {<<u, x>>}
    BY <1>u
  <2> QED
    BY <1>u, <1>x, <2>1 DEF Inv, AnswerTypes
<1>4. \A q \in Procs : PointOK(q)'
  <2>1. PointOK(p)'
    BY <1>1, <1>r DEF PointOK
  <2> QED
    BY <1>1, <2>1, PointsUntouched DEF Inv
<1>5. ASSUME NEW q \in Procs PROVE AskOK(q)'
  <2>1. CASE q = p
    <3>2. req'[p].who = u /\ req'[p].on = x /\ req'[p].to = v /\ pair'[u][x] = pair[u][x]
      BY <1>1, <1>r, <1>u
    <3>3. req'[p].on \in Bills \cup ids' /\ req'[p].to \in Values(req'[p].on) \cup {Absent}
      BY <1>u, <1>x, <3>2
    <3>4. seen'[p] = pair'[req'[p].who][req'[p].on]
      BY <1>1, <3>2
    <3> QED
      BY <2>1, <3>3, <3>4 DEF AskOK
  <2>2. CASE q # p
    <3>1. ASSUME req[q].op \in Asks, NEW w \in Users, w = req[q].who, NEW y \in Things,
                 y = req[q].on, <<w, y>> \in fresh'
          PROVE  <<w, y>> \in fresh
      <4>1. q \in OnPair(w, y)
        BY <3>1 DEF OnPair, Asks
      <4> QED
        BY <1>u, <3>1, <4>1
    <3> QED
      BY <1>1, <1>u, <1>p, <2>2, <3>1, AskUntouched DEF Others, Inv
  <2> QED
    BY <2>1, <2>2
<1>6. \A q \in Procs : CheckedOK(q)'
  BY <1>1, <1>u, ChecksUntouched DEF Inv
<1> QED
  BY <1>1, <1>2, <1>3, <1>4, <1>5, <1>6 DEF Inv

(* Comments: what is asked, judged, told of and refused changes no row.        *)
LEMMA TalkKept ==
  ASSUME Inv, NEW p \in Procs,
         \/ CreateComment(p) \/ Moderate(p) \/ Tell(p) \/ DeleteComment(p)
         \/ Refuse(p)
  PROVE  Inv'
<1>t. RequestTypes /\ PointOK(p) /\ req[p] \in Requests /\ Absent \in Written /\ NoRequest.op \notin Asks
  BY DEF Inv, RequestTypes, Written, NoRequest, None, Asks
<1> USE DEF Points
<1>1. CASE CreateComment(p)
  <2>1. PICK u \in Users, b \in bills, c \in Comments \cup {None} :
          Start(p, "moderate", [op |-> "post", who |-> u, on |-> b, parent |-> c,
                                judged |-> None], Absent)
    BY <1>1 DEF CreateComment
  <2>2. b \in Bills /\ c \in Comments \cup {None}
    BY DEF Inv, RowTypes
  <2> DEFINE r == [op |-> "post", who |-> u, on |-> b, parent |-> c, judged |-> None]
  <2>3. r \in Requests /\ r.op = "post"
    BY <2>2 DEF Requests
  <2> HIDE DEF r
  <2>4. RequestTypes' /\ Others(p) /\ pc'[p] = "moderate" /\ req'[p] = r
    <3>1. Start(p, "moderate", r, Absent)
      BY <2>1 DEF r
    <3> QED
      BY <1>t, <2>3, <3>1, Moves
  <2>5. PointOK(p)' /\ CheckedOK(p)' /\ req'[p].op \notin Asks
    BY <2>3, <2>4 DEF PointOK, CheckedOK, Asks
  <2> QED
    BY <1>1, <2>4, <2>5, AsideKept DEF CreateComment
<1>2. CASE DeleteComment(p)
  <2>1. PICK c \in Posted :
          Replies(c) = {} /\ Start(p, "delete", [op |-> "delete", on |-> c], Absent)
    BY <1>2 DEF DeleteComment
  <2>2. c \in Comments
    BY DEF Posted
  <2>3. [op |-> "delete", on |-> c] \in Requests
    BY <2>2 DEF Requests
  <2>4. /\ RequestTypes' /\ Others(p) /\ pc'[p] = "delete"
        /\ req'[p].op = "delete" /\ req'[p].on = c
    BY <1>t, <2>1, <2>3, Moves
  <2>5. PointOK(p)' /\ req'[p].op \notin Asks
    BY <2>4 DEF PointOK, Asks
  <2>6. CheckedOK(p)'
    BY <1>2, <2>1, <2>4 DEF DeleteComment, CheckedOK, Replies, Posted, rows
  <2> QED
    BY <1>2, <2>4, <2>5, <2>6, AsideKept DEF DeleteComment
<1>3. ASSUME Return(p), UNCHANGED <<rows, answers>>
      PROVE  Inv'
  <2>1. RequestTypes' /\ Others(p) /\ pc'[p] = "idle" /\ req'[p] = NoRequest
    BY <1>t, <1>3, Moves
  <2>2. PointOK(p)' /\ CheckedOK(p)' /\ req'[p].op \notin Asks
    BY <1>t, <2>1 DEF PointOK, CheckedOK
  <2> QED
    BY <1>3, <2>1, <2>2, AsideKept
<1>4. CASE Moderate(p)
  <2>1. pc[p] = "moderate" /\ UNCHANGED <<rows, answers>>
    BY <1>4 DEF Moderate, At
  <2>2. ASSUME NEW word \in {"green", "yellow", "red"},
               Goto(p, IF word = "green" THEN "insert" ELSE "tell", [req[p] EXCEPT !.judged = word])
        PROVE  Inv'
    <3>1. [req[p] EXCEPT !.judged = word] \in Requests /\ [req[p] EXCEPT !.judged = word].op = "post"
      BY <1>t, <2>1, RequestFields DEF PointOK
    <3>2. RequestTypes' /\ Others(p) /\ pc'[p] \in {"insert", "tell"} /\ req'[p].op = "post"
      BY <1>t, <2>2, <3>1, Moves
    <3>3. PointOK(p)' /\ CheckedOK(p)' /\ req'[p].op \notin Asks
      BY <3>2 DEF PointOK, CheckedOK, Asks
    <3> QED
      BY <2>1, <3>2, <3>3, AsideKept
  <2> QED
    BY <1>3, <1>4, <2>1, <2>2 DEF Moderate
<1>5. CASE Tell(p)
  <2>1. pc[p] = "tell" /\ UNCHANGED <<rows, answers>>
    BY <1>5 DEF Tell, At
  <2>2. ASSUME Goto(p, "insert", req[p]) PROVE Inv'
    <3>1. RequestTypes' /\ Others(p) /\ pc'[p] = "insert" /\ req'[p] = req[p]
      BY <1>t, <2>2, Moves
    <3>2. PointOK(p)' /\ CheckedOK(p)' /\ req'[p].op \notin Asks
      BY <1>t, <2>1, <3>1 DEF PointOK, CheckedOK, Asks
    <3> QED
      BY <2>1, <3>1, <3>2, AsideKept
  <2> QED
    BY <1>3, <1>5, <2>1, <2>2 DEF Tell
<1>6. CASE Refuse(p)
  BY <1>3, <1>6 DEF Refuse
<1> QED
  BY <1>1, <1>2, <1>4, <1>5, <1>6

(* A request for a row ends, having written it or not, and the row is among    *)
(* what it leaves as heard.                                                    *)
LEMMA EndsKept ==
  ASSUME Inv, NEW p \in Procs, pc[p] = "write",
         NEW h \in SUBSET Written, NEW isFresh \in BOOLEAN, Ends(p, h, isFresh),
         UNCHANGED <<bills, comment, ids, late>>,
         UNCHANGED pair \/ (req[p].on \in There /\ Set(p) /\ ~isFresh),
         req[p].on \in There => pair'[req[p].who][req[p].on] \in h
  PROVE  Inv'
<1> DEFINE u == req[p].who
           x == req[p].on
<1>t. /\ RequestTypes /\ req[p].op \in Asks /\ u \in Users /\ x \in Things /\ req[p].to \in Written
      /\ x \in Bills \cup ids /\ req[p].to \in Values(x) \cup {Absent}
  <2>1. req[p].op \in Asks /\ req[p] \in Requests
    BY DEF Inv, RequestTypes, PointOK
  <2> QED
    BY <2>1, RequestFields DEF Inv, AskOK
<1>1. RequestTypes' /\ Others(p) /\ pc'[p] = "idle" /\ req'[p] = NoRequest
  BY <1>t, Moves DEF Ends
<1>p. Posted' = Posted /\ There' = There
  BY DEF Posted, There
<1>v. pair \in [Users -> [Things -> Written]] /\ heard \in [Users -> [Things -> SUBSET Written]]
  BY DEF Inv, RowTypes, AnswerTypes
<1>2. /\ pair' \in [Users -> [Things -> Written]]
      /\ \A w \in Users, y \in Things : w # u \/ y # x => pair'[w][y] = pair[w][y]
      /\ pair'[u][x] = pair[u][x] \/ (pair'[u][x] = req[p].to /\ x \in There /\ ~isFresh)
  <2>1. CASE UNCHANGED pair
    BY <1>v, <2>1
  <2>2. CASE x \in There /\ Set(p) /\ ~isFresh
    <3>1. pair' = [pair EXCEPT ![u] = [pair[u] EXCEPT ![x] = req[p].to]]
      BY <2>2 DEF Set
    <3>2. [pair[u] EXCEPT ![x] = req[p].to] \in [Things -> Written]
      BY <1>t, <1>v
    <3> QED
      BY <1>t, <1>v, <2>2, <3>1, <3>2
  <2> QED
    BY <2>1, <2>2
<1>3. \E g \in SUBSET Written :
        /\ heard' = [heard EXCEPT ![u][x] = g]
        /\ g = h \/ (pair'[u][x] \in h /\ g = {pair'[u][x]})
  BY DEF Ends
<1>4. PICK g \in SUBSET Written :
        /\ heard' = [heard EXCEPT ![u][x] = g]
        /\ x \in There => pair'[u][x] \in g
  BY <1>3
<1>5. /\ heard' \in [Users -> [Things -> SUBSET Written]]
      /\ heard'[u][x] = g
      /\ \A w \in Users, y \in Things : w # u \/ y # x => heard'[w][y] = heard[w][y]
  <2>1. [heard[u] EXCEPT ![x] = g] \in [Things -> SUBSET Written]
    BY <1>t, <1>v
  <2>2. heard' = [heard EXCEPT ![u] = [heard[u] EXCEPT ![x] = g]]
    BY <1>4
  <2> QED
    BY <1>t, <1>v, <2>1, <2>2
<1>6. fresh' \subseteq fresh /\ (~isFresh => <<u, x>> \notin fresh')
  BY DEF Ends
<1>7. RowTypes' /\ AnswerTypes'
  BY <1>p, <1>2, <1>5, <1>6 DEF Inv, RowTypes, AnswerTypes
<1>8. ValuesOK'
  <2>1. ASSUME NEW w \in Users, NEW y \in Things PROVE pair'[w][y] \in Values(y) \cup {Absent}
    <3>1. CASE w = u /\ y = x
      BY <1>t, <1>2, <3>1 DEF Inv, ValuesOK
    <3>2. CASE w # u \/ y # x
      BY <1>2, <3>2 DEF Inv, ValuesOK
    <3> QED
      BY <3>1, <3>2
  <2> QED
    BY <2>1 DEF ValuesOK, Values
<1>9. NoOrphans'
  <2>1. ASSUME NEW w \in Users, NEW y \in Things, pair'[w][y] # Absent PROVE y \in There
    <3>1. CASE w = u /\ y = x
      BY <1>t, <1>2, <2>1, <3>1 DEF Inv, NoOrphans
    <3>2. CASE w # u \/ y # x
      BY <1>2, <2>1, <3>2 DEF Inv, NoOrphans
    <3> QED
      BY <3>1, <3>2
  <2> QED
    BY <1>p, <2>1 DEF Inv, NoOrphans
<1>10. HeardOK'
  <2>1. ASSUME NEW w \in Users, NEW y \in There PROVE pair'[w][y] \in heard'[w][y]
    <3>0. y \in Things
      BY DEF There, Posted, Things, Inv, RowTypes
    <3>1. CASE w = u /\ y = x
      BY <1>4, <1>5, <3>1
    <3>2. CASE w # u \/ y # x
      BY <1>2, <1>5, <3>0, <3>2 DEF Inv, HeardOK
    <3> QED
      BY <3>1, <3>2
  <2> QED
    BY <1>p, <2>1 DEF HeardOK
<1>11. NewOK'
  <2>1. ASSUME NEW w \in Users, NEW c \in Comments \ ids PROVE heard'[w][c] = {Absent}
    <3>1. c # x /\ c \in Things
      BY <1>t, ThingsAssumption DEF Things
    <3> QED
      BY <1>5, <3>1 DEF Inv, NewOK
  <2> QED
    BY <2>1 DEF NewOK
<1>12. \A q \in Procs : PointOK(q)'
  <2>1. PointOK(p)'
    BY <1>1 DEF PointOK, NoRequest, None, Asks
  <2> QED
    BY <1>1, <2>1, PointsUntouched DEF Inv
<1>13. ASSUME NEW q \in Procs PROVE AskOK(q)'
  <2>1. CASE q = p
    BY <1>1, <2>1 DEF AskOK, NoRequest, None, Asks
  <2>2. CASE q # p
    <3>1. ASSUME NEW w \in Users, NEW y \in Things, <<w, y>> \in fresh', y \in There'
          PROVE  <<w, y>> \in fresh /\ pair'[w][y] = pair[w][y]
      <4>1. CASE w = u /\ y = x
        BY <1>2, <1>6, <3>1, <4>1
      <4>2. CASE w # u \/ y # x
        BY <1>2, <1>6, <3>1, <4>2
      <4> QED
        BY <4>1, <4>2
    <3> QED
      BY <1>1, <1>p, <2>2, <3>1, AskUntouched DEF Others, Inv
  <2> QED
    BY <2>1, <2>2
<1>14. \A q \in Procs : CheckedOK(q)'
  BY <1>1, ChecksUntouched DEF Inv
<1> QED
  BY <1>1, <1>7, <1>8, <1>9, <1>10, <1>11, <1>12, <1>13, <1>14 DEF Inv

(* The commit: what was answered without a write had been read as it is.       *)
LEMMA WriteKept ==
  ASSUME Inv, NEW p \in Procs, Write(p)
  PROVE  Inv'
<1> DEFINE u == req[p].who
           x == req[p].on
<1>w. pc[p] = "write" /\ UNCHANGED <<bills, comment, ids, late>>
  BY DEF Write, At
<1>t. /\ req[p].op \in Asks /\ u \in Users /\ x \in Things /\ req[p].to \in Written
      /\ heard[u][x] \in SUBSET Written /\ AskOK(p)
  <2>1. req[p].op \in Asks /\ req[p] \in Requests /\ AskOK(p)
    BY <1>w DEF Inv, RequestTypes, PointOK
  <2>2. u \in Users /\ x \in Things /\ req[p].to \in Written
    BY <2>1, RequestFields
  <2> QED
    BY <2>1, <2>2 DEF Inv, AnswerTypes
<1>h. x \in There => pair[u][x] \in heard[u][x]
  BY <1>t DEF Inv, HeardOK
<1> DEFINE answered == (IF <<u, x>> \in fresh THEN {} ELSE heard[u][x]) \cup {req[p].to}
           unheard == heard[u][x] \cup {req[p].to}
<1>s. answered \in SUBSET Written /\ unheard \in SUBSET Written /\ req[p].to \in answered
        /\ req[p].to \in unheard
  BY <1>t
<1>s1. ASSUME Set(p) PROVE pair'[u][x] = req[p].to
  BY <1>t, <1>s1 DEF Set, Inv, RowTypes
<1>1. CASE req[p].to = seen[p] /\ seen[p] # Absent /\ UNCHANGED pair /\ Answer(p)
  <2>1. x \in There => pair[u][x] \in answered
    <3>1. CASE <<u, x>> \in fresh
      BY <1>1, <1>t, <3>1 DEF AskOK
    <3>2. CASE <<u, x>> \notin fresh
      BY <1>h, <3>2
    <3> QED
      BY <3>1, <3>2
  <2>2. Ends(p, answered, FALSE)
    BY <1>1 DEF Answer
  <2> HIDE DEF answered
  <2> QED
    BY <1>1, <1>s, <1>w, <2>1, <2>2, EndsKept
<1>2. CASE x \in There /\ Set(p) /\ (Answer(p) \/ Unheard(p))
  <2>1. Ends(p, answered, FALSE) \/ Ends(p, unheard, FALSE)
    BY <1>2 DEF Answer, Unheard
  <2> HIDE DEF answered, unheard
  <2>2. pair'[u][x] \in answered /\ pair'[u][x] \in unheard
    BY <1>2, <1>s, <1>s1
  <2> QED
    BY <1>2, <1>s, <1>w, <2>1, <2>2, EndsKept
<1>3. CASE UNCHANGED pair /\ Deny(p)
  <2>1. Ends(p, heard[u][x], TRUE)
    BY <1>3 DEF Deny
  <2> QED
    BY <1>3, <1>t, <1>h, <1>w, <2>1, EndsKept
<1> QED
  BY <1>1, <1>2, <1>3 DEF Write
-------------------------------------------------------------------------------
(* A comment is inserted for a bill that is there, under an id that nothing    *)
(* was asked for; if it replies to what is not there, or is being deleted, it  *)
(* came late.                                                                  *)
LEMMA InsertKept ==
  ASSUME Inv, NEW p \in Procs, Insert(p), ~Refuse(p)
  PROVE  Inv'
<1>t. /\ RequestTypes /\ req[p] \in Requests /\ req[p].op = "post"
      /\ req[p].who \in Users /\ req[p].on \in Bills
  <2>1. req[p] \in Requests /\ req[p].op = "post"
    BY DEF Inv, RequestTypes, PointOK, Insert, At
  <2> QED
    BY <2>1, RequestFields DEF Inv
<1>1. PICK c \in Comments \ ids :
        /\ comment' = [comment EXCEPT ![c] =
             [by |-> req[p].who, bill |-> req[p].on, parent |-> req[p].parent]]
        /\ ids' = ids \cup {c}
        /\ late' = IF Unchecked(req[p].parent) THEN late \cup {c} ELSE late
  BY DEF Insert
<1>2. /\ req[p].on \in bills /\ req[p].parent \in Comments \cup {None}
      /\ Return(p) /\ UNCHANGED <<bills, pair, heard, fresh>>
  BY <1>t, RequestFields DEF Insert, answers
<1>3. RequestTypes' /\ Others(p) /\ pc'[p] = "idle" /\ req'[p] = NoRequest
  BY <1>t, <1>2, Moves
<1>v. comment \in [Comments -> Comment \cup {NoComment}] /\ Posted \subseteq ids /\ Posted \subseteq Comments
  BY DEF Inv, RowTypes, Posted
<1>4. /\ comment'[c] = [by |-> req[p].who, bill |-> req[p].on, parent |-> req[p].parent]
      /\ comment'[c] # NoComment /\ comment'[c] \in Comment
      /\ comment'[c].bill = req[p].on /\ comment'[c].parent = req[p].parent
      /\ \A d \in Comments \ {c} : comment'[d] = comment[d]
      /\ comment' \in [Comments -> Comment \cup {NoComment}]
  <2> DEFINE k == [by |-> req[p].who, bill |-> req[p].on, parent |-> req[p].parent]
  <2>1. k # NoComment /\ k.bill = req[p].on /\ k.parent = req[p].parent
    BY CommentIsNot
  <2>2. k \in Comment
    BY <1>t, <1>2, <1>v DEF Comment
  <2>3. comment' = [comment EXCEPT ![c] = k]
    BY <1>1
  <2> HIDE DEF k
  <2>4. /\ comment'[c] = k /\ comment' \in [Comments -> Comment \cup {NoComment}]
        /\ \A d \in Comments \ {c} : comment'[d] = comment[d]
    BY <1>v, <2>2, <2>3
  <2> QED
    BY <2>1, <2>2, <2>4 DEF k
<1>p. Posted' = Posted \cup {c} /\ There' = There \cup {c}
  <2>1. Posted' = Posted \cup {c}
    BY <1>4 DEF Posted
  <2> QED
    BY <1>2, <2>1 DEF There
<1>c. c \notin There /\ c \in Things
  BY <1>v, ThingsAssumption DEF There, Things, Inv, RowTypes
<1>5. RowTypes' /\ AnswerTypes' /\ ValuesOK'
  BY <1>1, <1>2, <1>4, <1>p, <1>v DEF Inv, RowTypes, AnswerTypes, ValuesOK, Values
<1>6. NoOrphans'
  <2>1. ASSUME NEW d \in Posted'
        PROVE  /\ comment'[d].bill \in bills'
               /\ comment'[d].parent \in Posted' \cup {None} \/ d \in late'
    <3>1. CASE d = c
      BY <1>1, <1>2, <1>4, <1>p, <3>1 DEF Unchecked
    <3>2. CASE d # c
      BY <1>1, <1>2, <1>4, <1>p, <1>v, <2>1, <3>2 DEF Inv, NoOrphans
    <3> QED
      BY <3>1, <3>2
  <2>2. \A u \in Users, x \in Things : pair'[u][x] # Absent => x \in There'
    BY <1>2, <1>p DEF Inv, NoOrphans
  <2> QED
    BY <2>1, <2>2 DEF NoOrphans
<1>7. HeardOK' /\ NewOK'
  <2>1. ASSUME NEW u \in Users PROVE pair[u][c] \in heard[u][c]
    BY <1>c DEF Inv, NoOrphans, NewOK
  <2> QED
    BY <1>1, <1>2, <1>p, <2>1 DEF Inv, HeardOK, NewOK
<1>8. \A q \in Procs : PointOK(q)'
  <2>1. PointOK(p)'
    BY <1>3 DEF PointOK, NoRequest, None, Asks
  <2> QED
    BY <1>3, <2>1, PointsUntouched DEF Inv
<1>9. ASSUME NEW q \in Procs PROVE AskOK(q)'
  <2>1. CASE q = p
    BY <1>3, <2>1 DEF AskOK, NoRequest, None, Asks
  <2>2. CASE q # p
    BY <1>1, <1>2, <1>3, <1>p, <2>2, AskUntouched DEF Others, Inv
  <2> QED
    BY <2>1, <2>2
<1>10. ASSUME NEW q \in Procs PROVE CheckedOK(q)'
  <2>1. CASE q = p
    BY <1>3, <2>1 DEF CheckedOK
  <2>2. CASE q # p
    <3>1. SUFFICES ASSUME pc[q] = "delete", NEW d \in Posted', comment'[d].parent = req[q].on
                   PROVE  d \in late'
      BY <1>3, <2>2 DEF Others, CheckedOK
    <3>2. CASE d = c
      <4>1. req[q].on # None
        BY <3>1, RequestFields, ThingsAssumption DEF Inv, RequestTypes, PointOK, Things
      <4> QED
        BY <1>1, <1>4, <3>1, <3>2, <4>1 DEF Unchecked, At
    <3>3. CASE d # c
      BY <1>1, <1>4, <1>p, <1>v, <3>1, <3>3 DEF Inv, CheckedOK
    <3> QED
      BY <3>2, <3>3
  <2> QED
    BY <2>1, <2>2
<1> QED
  BY <1>3, <1>5, <1>6, <1>7, <1>8, <1>9, <1>10 DEF Inv

(* A comment is changed to another that has its bill.                          *)
LEMMA UpdateCommentKept ==
  ASSUME Inv, UpdateComment
  PROVE  Inv'
<1>1. PICK c \in Posted, u \in Users, b \in bills, d \in Comments \cup {None} :
        /\ comment' = [comment EXCEPT ![c] = [by |-> u, bill |-> b, parent |-> d]]
        /\ late' = IF Unchecked(d) THEN late \cup {c} ELSE late \ {c}
  BY DEF UpdateComment
<1>u. UNCHANGED <<bills, pair, ids, pc, req, seen, heard, fresh>>
  BY DEF UpdateComment, requests, answers
<1>v. /\ comment \in [Comments -> Comment \cup {NoComment}]
      /\ Posted \subseteq Comments /\ bills \subseteq Bills
  BY DEF Inv, RowTypes, Posted
<1>2. /\ comment'[c] # NoComment /\ comment'[c].bill = b /\ comment'[c].parent = d
      /\ \A e \in Comments \ {c} : comment'[e] = comment[e]
      /\ comment' \in [Comments -> Comment \cup {NoComment}]
  <2> DEFINE k == [by |-> u, bill |-> b, parent |-> d]
  <2>1. k # NoComment /\ k.bill = b /\ k.parent = d
    BY CommentIsNot
  <2>2. k \in Comment
    BY <1>v DEF Comment
  <2>3. comment' = [comment EXCEPT ![c] = k]
    BY <1>1
  <2> HIDE DEF k
  <2>4. /\ comment'[c] = k /\ comment' \in [Comments -> Comment \cup {NoComment}]
        /\ \A e \in Comments \ {c} : comment'[e] = comment[e]
    BY <1>v, <2>2, <2>3
  <2> QED
    BY <2>1, <2>4 DEF k
<1>p. Posted' = Posted /\ There' = There
  <2>1. Posted' = Posted
    BY <1>2 DEF Posted
  <2> QED
    BY <1>u, <2>1 DEF There
<1>3. RowTypes' /\ RequestTypes' /\ AnswerTypes' /\ ValuesOK'
  BY <1>1, <1>u, <1>2, <1>p DEF Inv, RowTypes, RequestTypes, AnswerTypes, ValuesOK, Values
<1>4. NoOrphans'
  <2>1. ASSUME NEW e \in Posted'
        PROVE  /\ comment'[e].bill \in bills'
               /\ comment'[e].parent \in Posted' \cup {None} \/ e \in late'
    <3>1. CASE e = c
      BY <1>1, <1>u, <1>2, <1>p, <3>1 DEF Unchecked
    <3>2. CASE e # c
      BY <1>1, <1>u, <1>2, <1>p, <1>v, <2>1, <3>2 DEF Inv, NoOrphans
    <3> QED
      BY <3>1, <3>2
  <2> QED
    BY <1>u, <1>p, <2>1 DEF Inv, NoOrphans
<1>5. HeardOK' /\ NewOK' /\ \A q \in Procs : PointOK(q)'
  BY <1>u, <1>p DEF Inv, HeardOK, NewOK, PointOK
<1>6. ASSUME NEW q \in Procs PROVE AskOK(q)'
  BY <1>u, <1>p, AskUntouched DEF Inv
<1>7. ASSUME NEW q \in Procs PROVE CheckedOK(q)'
  <2>1. SUFFICES ASSUME pc[q] = "delete", NEW e \in Posted', comment'[e].parent = req[q].on
                 PROVE  e \in late'
    BY <1>u DEF CheckedOK
  <2>2. CASE e = c
    <3>1. req[q].on # None
      BY <2>1, RequestFields, ThingsAssumption DEF Inv, RequestTypes, PointOK, Things
    <3> QED
      BY <1>1, <1>2, <2>1, <2>2, <3>1 DEF Unchecked, At
  <2>3. CASE e # c
    BY <1>1, <1>2, <1>p, <1>v, <2>1, <2>3 DEF Inv, CheckedOK
  <2> QED
    BY <2>2, <2>3
<1> QED
  BY <1>3, <1>4, <1>5, <1>6, <1>7 DEF Inv

(* A comment that nothing but what came late replies to is deleted, and its    *)
(* likes with it.                                                              *)
LEMMA DeleteRowKept ==
  ASSUME Inv, NEW p \in Procs, DeleteRow(p), ~Refuse(p)
  PROVE  Inv'
<1> DEFINE c == req[p].on
<1>t. RequestTypes /\ req[p].op = "delete" /\ c \in Comments
  <2>1. req[p] \in Requests /\ req[p].op = "delete"
    BY DEF Inv, RequestTypes, PointOK, DeleteRow, At
  <2> QED
    BY <2>1, RequestFields DEF Inv
<1>1. /\ c \in Posted /\ late' = late \ {c}
      /\ comment' = [comment EXCEPT ![c] = NoComment]
      /\ pair' = [u \in Users |-> [pair[u] EXCEPT ![c] = Absent]]
      /\ heard' = [u \in Users |-> [heard[u] EXCEPT ![c] = {Absent}]]
      /\ Return(p)
      /\ UNCHANGED <<bills, ids, fresh>>
  BY DEF DeleteRow
<1>2. RequestTypes' /\ Others(p) /\ pc'[p] = "idle" /\ req'[p] = NoRequest
  BY <1>t, <1>1, Moves
<1>d. pc[p] = "delete"
  BY DEF DeleteRow, At
<1> HIDE DEF c
<1>v. /\ comment \in [Comments -> Comment \cup {NoComment}]
      /\ pair \in [Users -> [Things -> Written]] /\ heard \in [Users -> [Things -> SUBSET Written]]
      /\ Posted \subseteq Comments /\ c \in Things
  BY <1>t DEF Inv, RowTypes, AnswerTypes, Posted, Things
<1>3. /\ comment' \in [Comments -> Comment \cup {NoComment}]
      /\ comment'[c] = NoComment /\ \A d \in Comments \ {c} : comment'[d] = comment[d]
  BY <1>1, <1>t, <1>v
<1>p. Posted' = Posted \ {c} /\ There' \subseteq There
  <2>1. Posted' = Posted \ {c}
    BY <1>3 DEF Posted
  <2> QED
    BY <1>1, <2>1 DEF There
<1>c. c \notin There'
  BY <1>1, <1>p, <1>t, ThingsAssumption DEF There, Inv, RowTypes
<1>4. /\ pair' \in [Users -> [Things -> Written]] /\ heard' \in [Users -> [Things -> SUBSET Written]]
      /\ \A u \in Users : pair'[u][c] = Absent /\ heard'[u][c] = {Absent}
      /\ \A u \in Users, x \in Things \ {c} : pair'[u][x] = pair[u][x] /\ heard'[u][x] = heard[u][x]
  <2>1. Absent \in Written
    BY DEF Written
  <2>2. ASSUME NEW u \in Users
        PROVE  /\ [pair[u] EXCEPT ![c] = Absent] \in [Things -> Written]
               /\ [heard[u] EXCEPT ![c] = {Absent}] \in [Things -> SUBSET Written]
               /\ pair'[u] = [pair[u] EXCEPT ![c] = Absent]
               /\ heard'[u] = [heard[u] EXCEPT ![c] = {Absent}]
    BY <1>1, <1>v, <2>1
  <2>3. pair' \in [Users -> [Things -> Written]] /\ heard' \in [Users -> [Things -> SUBSET Written]]
    BY <1>1, <2>2
  <2> QED
    BY <1>v, <2>2, <2>3
<1>5. RowTypes' /\ AnswerTypes'
  BY <1>1, <1>3, <1>4, <1>p DEF Inv, RowTypes, AnswerTypes
<1>6. ValuesOK'
  <2>1. ASSUME NEW u \in Users, NEW x \in Things PROVE pair'[u][x] \in Values(x) \cup {Absent}
    BY <1>4 DEF Inv, ValuesOK
  <2> QED
    BY <2>1 DEF ValuesOK, Values
<1>7. NoOrphans'
  <2>1. ASSUME NEW d \in Posted'
        PROVE  /\ comment'[d].bill \in bills'
               /\ comment'[d].parent \in Posted' \cup {None} \/ d \in late'
    <3>1. d \in Posted /\ d # c /\ comment'[d] = comment[d]
      BY <1>3, <1>p, <1>v
    <3>2. comment[d].parent = c => d \in late
      BY <1>d, <3>1 DEF Inv, CheckedOK, c
    <3> QED
      BY <1>1, <1>p, <3>1, <3>2 DEF Inv, NoOrphans
  <2>2. ASSUME NEW u \in Users, NEW x \in Things, pair'[u][x] # Absent PROVE x \in There'
    <3>1. x # c /\ x \in There
      BY <1>4, <2>2 DEF Inv, NoOrphans
    <3> QED
      BY <1>1, <1>p, <3>1 DEF There
  <2> QED
    BY <2>1, <2>2 DEF NoOrphans
<1>8. HeardOK' /\ NewOK'
  <2>1. ASSUME NEW u \in Users, NEW x \in There' PROVE pair'[u][x] \in heard'[u][x]
    <3>1. x # c /\ x \in There /\ x \in Things
      BY <1>c, <1>p, <2>1 DEF There, Things, Inv, RowTypes, Posted
    <3> QED
      BY <1>4, <3>1 DEF Inv, HeardOK
  <2>2. ASSUME NEW u \in Users, NEW d \in Comments \ ids PROVE heard'[u][d] = {Absent}
    BY <1>4 DEF Inv, NewOK, Things
  <2> QED
    BY <1>1, <2>1, <2>2 DEF HeardOK, NewOK
<1>9. \A q \in Procs : PointOK(q)'
  <2>1. PointOK(p)'
    BY <1>2 DEF PointOK, NoRequest, None, Asks
  <2> QED
    BY <1>2, <2>1, PointsUntouched DEF Inv
<1>10. ASSUME NEW q \in Procs PROVE AskOK(q)'
  <2>1. CASE q = p
    BY <1>2, <2>1 DEF AskOK, NoRequest, None, Asks
  <2>2. CASE q # p
    <3>1. ASSUME NEW u \in Users, NEW x \in Things, x \in There' PROVE pair'[u][x] = pair[u][x]
      BY <1>4, <1>c, <3>1
    <3> QED
      BY <1>1, <1>2, <1>p, <2>2, <3>1, AskUntouched DEF Others, Inv
  <2> QED
    BY <2>1, <2>2
<1>11. ASSUME NEW q \in Procs PROVE CheckedOK(q)'
  <2>1. CASE q = p
    BY <1>2, <2>1 DEF CheckedOK
  <2>2. CASE q # p
    BY <1>1, <1>2, <1>3, <1>p, <1>v, <2>2 DEF Others, Inv, CheckedOK
  <2> QED
    BY <2>1, <2>2
<1> QED
  BY <1>2, <1>5, <1>6, <1>7, <1>8, <1>9, <1>10, <1>11 DEF Inv

(* A bill that nothing refers to is deleted.                                   *)
LEMMA DeleteBillKept ==
  ASSUME Inv, NEW b \in Bills, DeleteBill(b)
  PROVE  Inv'
<1>u. UNCHANGED <<pair, comment, ids, late, pc, req, seen, heard, fresh>> /\ bills' = bills \ {b}
  BY DEF DeleteBill, requests, answers
<1>p. Posted' = Posted /\ There' \subseteq There /\ There \subseteq There' \cup {b}
  BY <1>u DEF Posted, There
<1>1. RowTypes' /\ RequestTypes' /\ AnswerTypes' /\ ValuesOK'
  BY <1>u, <1>p DEF Inv, RowTypes, RequestTypes, AnswerTypes, ValuesOK, Values
<1>2. NoOrphans'
  <2>1. ASSUME NEW c \in Posted PROVE comment[c].bill \in bills'
    BY <1>u, <2>1 DEF DeleteBill, Inv, NoOrphans
  <2>2. ASSUME NEW u \in Users, NEW x \in Things, pair[u][x] # Absent PROVE x \in There'
    BY <1>p, <2>2 DEF DeleteBill, Inv, NoOrphans
  <2> QED
    BY <1>u, <1>p, <2>1, <2>2 DEF NoOrphans, Inv
<1>3. HeardOK' /\ NewOK' /\ \A q \in Procs : PointOK(q)'
  BY <1>u, <1>p DEF Inv, HeardOK, NewOK, PointOK
<1>4. ASSUME NEW q \in Procs PROVE AskOK(q)'
  BY <1>u, <1>p, AskUntouched DEF Inv
<1>5. \A q \in Procs : CheckedOK(q)'
  BY <1>u, <1>p DEF Inv, CheckedOK
<1> QED
  BY <1>1, <1>2, <1>3, <1>4, <1>5 DEF Inv
-------------------------------------------------------------------------------
(* The invariant holds at first, ...                                           *)
LEMMA InitInv == Init => Inv
<1> SUFFICES ASSUME Init PROVE Inv
  OBVIOUS
<1>1. Posted = {}
  BY DEF Init, Posted
<1>2. Absent \in Written /\ NoRequest \in Requests
  BY DEF Written, Requests
<1>3. /\ pair = [u \in Users |-> [x \in Things |-> Absent]]
      /\ heard = [u \in Users |-> [x \in Things |-> {Absent}]]
  BY DEF Init
<1>4. \A u \in Users, x \in Things : pair[u][x] = Absent /\ heard[u][x] = {Absent}
  BY <1>3
<1>5. /\ pair \in [Users -> [Things -> Written]]
      /\ heard \in [Users -> [Things -> SUBSET Written]]
  BY <1>2, <1>3
<1>6. RowTypes /\ RequestTypes /\ AnswerTypes /\ ValuesOK
  BY <1>1, <1>2, <1>4, <1>5 DEF Init, RowTypes, RequestTypes, AnswerTypes, ValuesOK, Points
<1>7. \A p \in Procs : PointOK(p) /\ AskOK(p) /\ CheckedOK(p)
  BY DEF Init, PointOK, AskOK, CheckedOK, NoRequest, None, Asks
<1>8. NoOrphans /\ HeardOK /\ NewOK
  BY <1>1, <1>4 DEF Init, NoOrphans, HeardOK, NewOK, There, Things
<1> QED
  BY <1>6, <1>7, <1>8 DEF Inv

(* ... and no step breaks it.                                                  *)
LEMMA NextInv == Inv /\ [Next]_vars => Inv'
<1> SUFFICES ASSUME Inv, [Next]_vars PROVE Inv'
  OBVIOUS
<1>1. ASSUME NEW p \in Procs, Cast(p) \/ Uncast(p) PROVE Inv'
  <2>1. CASE Cast(p)
    <3>1. PICK u \in Users, b \in Bills, v \in Choices : AskFor(p, u, b, "cast", v)
      BY <2>1 DEF Cast
    <3>2. v \in Values(b) \cup {Absent}
      BY DEF Values
    <3> QED
      BY <3>1, <3>2, AskKept DEF Asks
  <2>2. CASE Uncast(p)
    BY <2>2, AskKept DEF Uncast, Asks
  <2> QED
    BY <1>1, <2>1, <2>2
<1>2. ASSUME NEW p \in Procs, Like(p) \/ Unlike(p) PROVE Inv'
  <2>1. CASE Like(p)
    <3>1. PICK u \in Users, c \in Posted : AskFor(p, u, c, "cast", 1)
      BY <2>1 DEF Like
    <3>2. 1 \in Values(c) \cup {Absent}
      BY ChoicesAssumption DEF Values, Likes
    <3> QED
      BY <3>1, <3>2, AskKept DEF Asks
  <2>2. CASE Unlike(p)
    BY <2>2, AskKept DEF Unlike, Asks
  <2> QED
    BY <1>2, <2>1, <2>2
<1>3. ASSUME NEW p \in Procs,
             Write(p) \/ CreateComment(p) \/ Moderate(p) \/ Tell(p) \/ DeleteComment(p)
      PROVE  Inv'
  BY <1>3, WriteKept, TalkKept
<1>4. ASSUME NEW p \in Procs, Insert(p) \/ DeleteRow(p) PROVE Inv'
  BY <1>4, InsertKept, DeleteRowKept, TalkKept
<1>5. CASE UpdateComment
  BY <1>5, UpdateCommentKept
<1>6. ASSUME NEW b \in Bills, DeleteBill(b) PROVE Inv'
  BY <1>6, DeleteBillKept
<1>7. CASE UNCHANGED vars
  <2>1. /\ UNCHANGED <<bills, pair, comment, ids, late>>
        /\ UNCHANGED <<pc, req, seen, heard, fresh>>
    BY <1>7 DEF vars, rows, requests, answers
  <2>2. Posted' = Posted /\ There' = There
    BY <2>1 DEF Posted, There
  <2>3. RowTypes' /\ RequestTypes' /\ AnswerTypes' /\ ValuesOK'
    BY <2>1, <2>2 DEF Inv, RowTypes, RequestTypes, AnswerTypes, ValuesOK, Values
  <2>4. NoOrphans' /\ HeardOK' /\ NewOK'
    BY <2>1, <2>2 DEF Inv, NoOrphans, HeardOK, NewOK
  <2>5. \A p \in Procs : PointOK(p)' /\ AskOK(p)' /\ CheckedOK(p)'
    BY <2>1, <2>2 DEF Inv, PointOK, AskOK, CheckedOK, Values
  <2> QED
    BY <2>3, <2>4, <2>5 DEF Inv
<1> QED
  BY <1>1, <1>2, <1>3, <1>4, <1>5, <1>6, <1>7 DEF Next

(* Every run keeps the invariant.                                              *)
THEOREM ContentInvariant == Spec => []Inv
BY InitInv, NextInv, PTL DEF Spec

(* Every variable has its type.                                                *)
THEOREM ContentTypes == Spec => []TypeOK
<1>1. Inv => TypeOK
  <2> SUFFICES ASSUME Inv PROVE TypeOK
    OBVIOUS
  <2>1. \A u \in Users : DOMAIN pair[u] = Things
    BY DEF Inv, RowTypes
  <2> QED
    BY <2>1 DEF Inv, RowTypes, RequestTypes, AnswerTypes, ValuesOK, TypeOK, Points, Written
<1> QED
  BY <1>1, ContentInvariant, PTL

(* However creations, edits and deletions race, every comment has its bill,    *)
(* every vote its bill and every like its comment; and what a comment replies  *)
(* to is there unless the reply came after the deletion's check.               *)
THEOREM ReferencesHold == Spec => []NoOrphans
<1>1. Inv => NoOrphans
  BY DEF Inv
<1> QED
  BY <1>1, ContentInvariant, PTL

(* Of the votes that race, one that was refused does not stand over one that   *)
(* was answered; the same for follows and likes.                               *)
THEOREM AnsweredVotesStand == Spec => []AnswerStands
<1>1. Inv => AnswerStands
  BY DEF Inv, HeardOK, AnswerStands
<1> QED
  BY <1>1, ContentInvariant, PTL
===============================================================================
