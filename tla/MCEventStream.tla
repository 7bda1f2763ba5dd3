---------------------------- MODULE MCEventStream ----------------------------
(* EventStream on one or two subscriptions and channels of one event.          *)
EXTENDS EventStream
===============================================================================
