------------------------------ MODULE MCAccounts ------------------------------
(* Two requests over three DIDs (the system user, and two more or two orphans  *)
(* of failed sign-ups), the system user's handle and one more to race for, and *)
(* one email or legislator id.                                                 *)
EXTENDS Accounts, TLC

Symmetry == Permutations(Procs) \cup Permutations(Dids)
===============================================================================
