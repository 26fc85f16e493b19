---------------------------- MODULE ProcessTrees ----------------------------
(***************************************************************************)
(* What execution control promises (spec 4.3 and 4.5), without kernel      *)
(* stacks, saved contexts or page directories.  Each terminal owns a stack *)
(* of processes: its root shell first, then each process that the one     *)
(* below it executed and that has not halted.  Only the foreground         *)
(* terminal's top process runs, so execute pushes onto the foreground      *)
(* terminal's stack and halt pops it.  Each process holds one slot of the  *)
(* MAX_PROCESSES shared by all terminals.  A switch changes the foreground *)
(* terminal only.  The kernel may stop for good (a fault the exception     *)
(* handler does not return from); nothing changes after that.             *)
(***************************************************************************)
EXTENDS Integers, Sequences, FiniteSets, SequencesExt

CONSTANTS NUMTERMINALS, MAX_PROCESSES

Terms == 0 .. NUMTERMINALS - 1
Pids  == 0 .. MAX_PROCESSES - 1

VARIABLES
  fg,        \* the foreground terminal
  trees,     \* per terminal: its live processes, root shell first
  crashed    \* the kernel has faulted

vars == <<fg, trees, crashed>>

Live == UNION {ToSet(trees[t]) : t \in Terms}

TypeOK ==
  /\ fg \in Terms
  /\ trees \in [Terms -> Seq(Pids)]
  /\ crashed \in BOOLEAN

(* execute: a program starts on the foreground terminal in a free slot,    *)
(* unless all MAX_PROCESSES slots are taken.                               *)
Launch(p) ==
  /\ ~crashed
  /\ p \in Pids \ Live
  /\ Cardinality(Live) < MAX_PROCESSES
  /\ trees' = [trees EXCEPT ![fg] = Append(@, p)]
  /\ UNCHANGED <<fg, crashed>>

(* halt: the running process, the top of the foreground stack, ends and   *)
(* its slot is free; the process below it resumes.                        *)
Exit ==
  /\ ~crashed
  /\ trees[fg] # <<>>
  /\ trees' = [trees EXCEPT ![fg] = Front(@)]
  /\ UNCHANGED <<fg, crashed>>

(* switch(t): another terminal comes to the foreground.                    *)
Switch(t) ==
  /\ ~crashed
  /\ fg' = t
  /\ UNCHANGED <<trees, crashed>>

Crash ==
  /\ crashed' = TRUE
  /\ UNCHANGED <<fg, trees>>

Init ==
  /\ fg = 0
  /\ trees = [t \in Terms |-> <<>>]
  /\ crashed = FALSE

Next == (\E p \in Pids : Launch(p)) \/ Exit \/ (\E t \in Terms : Switch(t)) \/ Crash

Spec == Init /\ [][Next]_vars
====
