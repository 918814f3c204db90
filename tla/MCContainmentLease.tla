------------------------- MODULE MCContainmentLease -------------------------
(* Instances of ContainmentLease for TLC.                                  *)
EXTENDS ContainmentLease
=============================================================================
