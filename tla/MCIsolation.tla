---------------------------- MODULE MCIsolation ----------------------------
(* Isolation over the ProcessControl instance of MCProcessControl.        *)
EXTENDS Isolation

\* Three terminals, as keyboard.h; a budget of two processes, so that a
\* terminal can hold a shell and its child, two terminals a shell each,
\* and a switch to the third meets the used-up budget.
MC_NUMTERMINALS == 3
MC_MAX_PROCESSES == 2
\* One keyboard interrupt nested inside a switch tail or a relaunched
\* execute (the tail's own frame counts).
MC_MAX_NEST == 2
\* No nesting: a switch is taken only where no other tail is running.
MC_UNNESTED == 1
=============================================================================
