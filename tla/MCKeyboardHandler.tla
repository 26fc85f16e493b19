------------------------ MODULE MCKeyboardHandler ------------------------
(* Model-checking instance of KeyboardHandler: the kernel's three         *)
(* terminals, so that a switch can pass through a terminal on its way to *)
(* a third one while ALT stays held.                                      *)
EXTENDS KeyboardHandler

MC_NUMTERMINALS == 3
=============================================================================
