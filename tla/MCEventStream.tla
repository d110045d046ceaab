---------------------------- MODULE MCEventStream ----------------------------
(* Instances of EventStream for TLC: the configurations give its bounds. *)
EXTENDS EventStream
=============================================================================
