--------------------------- MODULE MCAlertPipeline ---------------------------
(* Instances of AlertPipeline for TLC: the daemon with its monitor loop and *)
(* an observer thread, alone or beside the GUI.  Event identifiers are      *)
(* interchangeable.                                                        *)
EXTENDS AlertPipeline, TLC

CONSTANTS daemon, gui, monitor, observer, window

ProcessOf == [t \in Thread |-> IF t = window THEN gui ELSE daemon]

\* Nothing in the repository calls mark_notification yet: the steps without it.
HasCaller == \A t \in Thread : ~mark_notification(t)

EventSymmetry == Permutations(Event)
=============================================================================
