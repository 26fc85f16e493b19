------------------------- MODULE MCProcessControl -------------------------
(* Model-checking instance of ProcessControl: the three terminals of the  *)
(* kernel and a process budget of MC_MAX_PROCESSES.                      *)
EXTENDS ProcessControl

MC_NUMTERMINALS == 3
MC_MAX_PROCESSES == 2
\* One keyboard interrupt nested inside a switch tail or a relaunched
\* execute (the tail's own frame counts).
MC_MAX_NEST == 2
\* No nesting: a switch is taken only where no other tail is running, so
\* that a run shows a defect of the unnested code.
MC_UNNESTED == 1

\* The liveness runs: two terminals, each with its shell, are enough for a
\* reader on the foreground terminal and a switch away from it and back.
MC_LIVE_TERMINALS == 2
MC_LIVE_PROCESSES == 2
=============================================================================
