-------------------------------- MODULE MCCodec --------------------------------
(* Every type, with values of which up to three fields are unusual and foreign *)
(* blocks two changes away from the usual one.                                 *)
EXTENDS Codec
================================================================================
