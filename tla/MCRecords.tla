------------------------------- MODULE MCRecords -------------------------------
(* Two requests and two names, for a user, a legislator and a bill.            *)
EXTENDS Records, TLC

Symmetry == Permutations(Procs) \cup Permutations(Names)

(* Nothing has been done with r's repo, or nothing of it is left.              *)
Untouched(r) ==
  /\ cached[r] = {} /\ r \notin astray
  /\ \A p \in Procs : At(p, "idle") \/ req[p].who # r
  /\ IF r = System THEN \A k \in Bills : repo[r].bills[k] = Absent
     ELSE /\ r \notin disturbed /\ names[r] = {dbName[r]}
          /\ repo[r] = sent[r] /\ repo[r].phone = Absent

(* Requests for different repos have no variable in common that either could   *)
(* tell, so one repo at a time is in use.                                      *)
OneRepo == \E r \in Repos : \A q \in Repos \ {r} : Untouched(q)
================================================================================
