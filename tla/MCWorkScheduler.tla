-------------------------- MODULE MCWorkScheduler --------------------------
EXTENDS WorkScheduler

CONSTANTS t1, t2, t3, k

\* Two tasks with one key and one of them urgent; one more in the background.
MCKeyOf == [t \in Task |-> IF t \in {t1, t2} THEN k ELSE None]
MCPriorityOf == [t \in Task |-> IF t = t2 THEN 0 ELSE 50]
=============================================================================
