---------------------------- MODULE MCAlertStore ----------------------------
(* Instances of AlertStore for TLC.                                        *)
EXTENDS AlertStore

\* Reports of one identity: low, low while a rule matches, high, and a critical
\* event whose type contains "escalat", which is protected.
low == [sev |-> 1, mat |-> 0, prot |-> FALSE, rule |-> FALSE]
muted == [low EXCEPT !.rule = TRUE]
high == [low EXCEPT !.sev = 3]
escalated == [low EXCEPT !.sev = 4, !.prot = TRUE]

AllKinds == {low, muted, high, escalated}
=============================================================================
