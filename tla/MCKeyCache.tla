------------------------------ MODULE MCKeyCache ------------------------------
(* Two requests over two actors' keys; a signing key lives two ticker periods, *)
(* an encrypted one three, and the clock runs long enough for a key to be      *)
(* loaded, to expire, to be swept and to be loaded again.                      *)
EXTENDS KeyCache, TLC

Symmetry == Permutations(Procs) \cup Permutations(Dids)
===============================================================================
