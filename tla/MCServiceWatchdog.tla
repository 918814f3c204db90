------------------------- MODULE MCServiceWatchdog -------------------------
EXTENDS ServiceWatchdog

CONSTANT monitor

\* One service: services share the limit on request files and the fate of a run, which
\* is cut short here at any step.
MCSpecs == <<monitor>>
=============================================================================
