------------------------------- MODULE MCPipeline -------------------------------
(* One legislator and one bill, and two runs of the ETL that overlap: the      *)
(* weekly one and one started by hand.                                         *)
EXTENDS Pipeline
===============================================================================
