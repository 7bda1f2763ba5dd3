------------------------------ MODULE RepoHistory ------------------------------
(* What the repo manager and the CAR store promise together: an actor's repo   *)
(* is a sequence of commits, each made on top of the one before it, that       *)
(* changes one record and keeps the others, until the repo is taken down, or   *)
(* the store loses sight of its last commit: of such a repo this says no more. *)
EXTENDS Naturals

CONSTANTS Actors,      \* actor ids
          Keys,        \* record paths, nsid/rkey
          MaxCommits   \* bound: commits are numbered 1..MaxCommits, in rev order

VARIABLES head,     \* head[a]: the latest commit of a's repo, 0 when it has none
          records,  \* records[a][k]: the commit that wrote record k, 0 if absent
          born,     \* the actors whose repo was ever initialized
          astray    \* the actors of whose repo the last commit was lost sight of

Revs == 1 .. MaxCommits
NoRecords == [k \in Keys |-> 0]

Init ==
  /\ head = [a \in Actors |-> 0]
  /\ records = [a \in Actors |-> NoRecords]
  /\ born = {} /\ astray = {}

(* The next commit of a's repo has revision r.                                 *)
NewHead(a, r) == head' = [head EXCEPT ![a] = r] /\ UNCHANGED astray

InitRepo(a, k, r) ==
  /\ a \notin born
  /\ born' = born \cup {a}
  /\ records' = [records EXCEPT ![a] = [NoRecords EXCEPT ![k] = r]]

CreateRecord(a, k, r) ==
  /\ head[a] # 0 /\ head[a] < r
  /\ records[a][k] = 0
  /\ records' = [records EXCEPT ![a][k] = r]
  /\ UNCHANGED born

UpdateRecord(a, k, r) ==
  /\ head[a] # 0 /\ head[a] < r
  /\ records[a][k] # 0
  /\ records' = [records EXCEPT ![a][k] = r]
  /\ UNCHANGED born

DeleteRecord(a, k, r) ==
  /\ head[a] # 0 /\ head[a] < r
  /\ records[a][k] # 0
  /\ records' = [records EXCEPT ![a][k] = 0]
  /\ UNCHANGED born

TakeDown(a) ==
  /\ head[a] # 0
  /\ head' = [head EXCEPT ![a] = 0]
  /\ records' = [records EXCEPT ![a] = NoRecords]
  /\ UNCHANGED <<born, astray>>

LoseSight(a) ==
  /\ a \in born \ astray
  /\ astray' = astray \cup {a}
  /\ head' = [head EXCEPT ![a] = 0]
  /\ records' = [records EXCEPT ![a] = NoRecords]
  /\ UNCHANGED born

Next ==
  \E a \in Actors :
    \/ TakeDown(a) \/ LoseSight(a)
    \/ \E r \in Revs :
         /\ NewHead(a, r)
         /\ \E k \in Keys : \/ InitRepo(a, k, r) \/ CreateRecord(a, k, r)
                            \/ UpdateRecord(a, k, r) \/ DeleteRecord(a, k, r)

Spec == Init /\ [][Next]_<<head, records, born, astray>>
===============================================================================
