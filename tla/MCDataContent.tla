------------------------------ MODULE MCDataContent ------------------------------
(* Two requests at a time of one user, for a bill and two comments.            *)
EXTENDS DataContent, TLC

Symmetry == Permutations(Procs) \cup Permutations(Comments)
===============================================================================
