------------------------------- MODULE MCDataUsers -------------------------------
(* Two requests at a time over the life of two accounts, with two emails, one  *)
(* password (an account of Google's has none) and one Google account.          *)
EXTENDS DataUsers, TLC

Symmetry ==
  Permutations(Procs) \cup Permutations(Users) \cup Permutations(Passwords)
    \cup Permutations(Emails)
===============================================================================
