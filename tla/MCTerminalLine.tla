-------------------------- MODULE MCTerminalLine --------------------------
(* Model-checking instance of TerminalLine: two terminals with a shell    *)
(* each, rows of two bytes, one printable character, and reads of one     *)
(* byte and of more bytes than a row holds.                               *)
EXTENDS TerminalLine

CONSTANTS a

MC_NUMTERMINALS == 2
MC_BUFFERSIZE == 2
MC_Chars == {a}
MC_NBYTES == {1, 3}
MC_MAX_OVERRUN == 1
MC_Readers == {0}
=============================================================================
