---------------------------- MODULE MCSensorQueue ----------------------------
(* Instances of SensorQueue for TLC: a ring of two slots wraps and fills   *)
(* within the few sequence numbers of the configurations.                  *)
EXTENDS SensorQueue
=============================================================================
