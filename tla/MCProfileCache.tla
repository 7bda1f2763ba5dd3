----------------------------- MODULE MCProfileCache -----------------------------
(* Two requests for one user, whose profile is written twice after the sign-up *)
(* (the second time may be its deletion). Redis keeps an entry for two ticks   *)
(* and the local cache for one.                                                *)
EXTENDS ProfileCache
===============================================================================
