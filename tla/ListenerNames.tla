---------------------------- MODULE ListenerNames ----------------------------
(* The listeners that the accept pool and the script level both speak of.      *)

CONSTANTS Listeners, NULL

ASSUME NullAssumption == NULL \notin Listeners
=============================================================================
