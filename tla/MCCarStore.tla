------------------------------ MODULE MCCarStore ------------------------------
(* One actor, two requests, two records and three commits.                     *)
EXTENDS CarStore, TLC

CONSTANTS p1, p2, a1, k1, k2

OneActor == {a1}
TwoKeys == {k1, k2}
TwoProcs == {p1, p2}

Symmetry == Permutations(TwoProcs)

(* The third commit is one of a single record, and a repo that somebody wipes  *)
(* has had two shards before, so that one more commit can follow half a wipe.  *)
FewerCommits ==
  /\ doomed # {} => Cardinality(history) < MaxCommits
  /\ tid = MaxCommits =>
       \A k \in Keys \ {k1} : /\ \A r \in Revs : commits[r].tree[k] = 0
                              /\ \A p \in Procs : req[p].key # k
===============================================================================
