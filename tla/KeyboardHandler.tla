--------------------------- MODULE KeyboardHandler ---------------------------
(***************************************************************************)
(* keyboard_handler's dispatch on the scancode (keyboard.c): the modifier  *)
(* flags it keeps per terminal in functionflags, the ALT+F1..F3 terminal   *)
(* switch, and the send_eoi(KEYBOARD) every path must make so that the     *)
(* PIC delivers the next key.  The handler is entered through a trap gate *)
(* (idt.c:374), so IF stays 1; it is the 8259's in-service bit for IRQ 1   *)
(* that keeps the next key (and IRQ 8, behind the cascade) out until the  *)
(* send_eoi.  Each key up to its EOI is therefore one step here, and so   *)
(* is terminal_switch up to its send_eoi (keyboard.c:471).  What runs     *)
(* after it, with interrupts on, is ProcessControl's tail of              *)
(* terminal_switch and relaunched execute; its one effect on these        *)
(* variables, the new shell's prog_count++, is taken here with the        *)
(* switch, and the keys that can cut in before it are ProcessControl's.   *)
(*                                                                         *)
(* Each step handles one scancode the user's keyboard sends.  The keys    *)
(* the user holds down are kept in the ghost "held"; the flags are the    *)
(* kernel's belief about them.  What a printable key, BACKSPACE or ENTER  *)
(* does to the line is TerminalLine's; here they are "any other key".     *)
(* Which terminals have a shell (prog_count # 0) and whether the process  *)
(* budget is used up come from execute and halt (ProcessControl); the     *)
(* budget is a choice at each switch to an empty terminal.                *)
(***************************************************************************)
EXTENDS Integers, FiniteSets

CONSTANTS
  NUMTERMINALS    \* keyboard.h: number of terminals (3)

ASSUME NUMTERMINALS \in Nat \ {0}

Terms == 0 .. NUMTERMINALS - 1
Mods  == {"ctrl", "shift", "alt"}          \* keys with a make and a break code
Flags == Mods \cup {"caps"}                \* CTRLINDEX .. ALTINDEX

VARIABLES
  current_terminal, \* keyboard.c: the foreground terminal
  functionflags,    \* keyboard.c: per terminal, ctrl/shift/caps/alt ON
  shell,            \* the terminals whose prog_count is not 0
  held,             \* ghost: the modifier keys the user holds down
  acked,            \* ghost: send_eoi(KEYBOARD) calls made for the last key
  status            \* "run", or "fault" for good

vars == <<current_terminal, functionflags, shell, held, acked, status>>

TypeOK ==
  /\ current_terminal \in Terms
  /\ functionflags \in [Terms -> [Flags -> BOOLEAN]]
  /\ shell \subseteq Terms
  /\ held \subseteq Mods
  /\ acked \in 0 .. 2
  /\ status \in {"run", "fault"}

-----------------------------------------------------------------------------
(* The path ends in send_eoi(KEYBOARD); return.                           *)
Acked == acked' = 1 /\ UNCHANGED <<current_terminal, shell, status>>

(* ALT, SHIFT or CTRL pressed (or repeated while held): the flag of the   *)
(* foreground terminal goes ON.                                           *)
Press(m) ==
  /\ status = "run"
  /\ functionflags' = [functionflags EXCEPT ![current_terminal][m] = TRUE]
  /\ held' = held \cup {m}
  /\ Acked

\* Mutant: no case for ALTRELEASE, so the break code takes the default
\* path, which ignores releases.
ReleaseAltIgnored(m) ==
  /\ status = "run"
  /\ m \in held
  /\ functionflags' = IF m = "alt" THEN functionflags
                      ELSE [functionflags EXCEPT ![current_terminal][m] = FALSE]
  /\ held' = held \ {m}
  /\ Acked

(* ALT, SHIFT or CTRL released: the flag of the foreground terminal goes  *)
(* OFF, whichever terminal the key was pressed on.                        *)
Release(m) ==
  /\ status = "run"
  /\ m \in held
  /\ functionflags' = [functionflags EXCEPT ![current_terminal][m] = FALSE]
  /\ held' = held \ {m}
  /\ Acked

(* CAPS LOCK: the foreground terminal's caps flag is inverted.           *)
CapsLock ==
  /\ status = "run"
  /\ functionflags' = [functionflags EXCEPT ![current_terminal]["caps"] = ~@]
  /\ Acked
  /\ UNCHANGED held

(* Any other scancode: the default path past the ALT test (CTRL+L, a      *)
(* release, an unmapped key, a full buffer, a printable key), and         *)
(* BACKSPACE, ENTER and its release.  Each ends in one send_eoi.          *)
OtherKey ==
  /\ status = "run"
  /\ Acked
  /\ UNCHANGED <<functionflags, held>>

\* Mutant: terminal_switch sends its EOI only after the prog_count test,
\* on the paths that return.
TerminalSwitchLateEoi(t) ==
  LET ct == current_terminal IN
  CASE t = ct -> acked' = 1 /\ UNCHANGED <<current_terminal, shell, status>>
    [] ct \notin shell -> acked' = 0 /\ status' = "fault" /\ UNCHANGED <<current_terminal, shell>>
    [] t \notin shell ->
         \E full \in BOOLEAN :
           /\ current_terminal' = t
           /\ IF full THEN acked' = 1 /\ UNCHANGED <<shell, status>>
              ELSE acked' = 0 /\ shell' = shell \cup {t} /\ UNCHANGED status
    [] OTHER -> current_terminal' = t /\ acked' = 2 /\ UNCHANGED <<shell, status>>

(* terminal_switch(t) called from the handler, and the handler's own     *)
(* send_eoi when it returns.  The same terminal returns at once.  Saving *)
(* the outgoing context through pcb_loc[current_terminal] faults when    *)
(* that terminal has no process.  Otherwise current_terminal becomes t   *)
(* and the EOI is sent (line 471) before the prog_count test:            *)
(*   - no process on t, budget left: while(1) execute("shell") -- the    *)
(*     handler is never returned to;                                     *)
(*   - no process on t, budget used up: keyboard_helper, return 0, and   *)
(*     the handler sends a second EOI;                                   *)
(*   - t has a process: its context, saved inside an earlier             *)
(*     terminal_switch, is resumed, and that call returns into its own   *)
(*     keyboard_handler, which sends a second EOI.                       *)
TerminalSwitch(t) ==
  LET ct == current_terminal IN
  CASE t = ct -> acked' = 1 /\ UNCHANGED <<current_terminal, shell, status>>
    [] ct \notin shell -> acked' = 0 /\ status' = "fault" /\ UNCHANGED <<current_terminal, shell>>
    [] t \notin shell ->
         \E full \in BOOLEAN :
           /\ current_terminal' = t
           /\ IF full THEN acked' = 2 /\ UNCHANGED <<shell, status>>
              ELSE acked' = 1 /\ shell' = shell \cup {t} /\ UNCHANGED status
    [] OTHER -> current_terminal' = t /\ acked' = 2 /\ UNCHANGED <<shell, status>>

\* Mutant: F1..F3 passed as terminal numbers 1..3 (TERM_1 taken as 1).
FKeyOneBased(t) ==
  /\ status = "run"
  /\ IF functionflags[current_terminal]["alt"] THEN TerminalSwitch(t + 1) ELSE Acked
  /\ UNCHANGED <<functionflags, held>>

(* F(t+1) pressed: a terminal switch if the foreground terminal's ALT    *)
(* flag is ON; otherwise the key has no ascii value and is dropped.      *)
FKey(t) ==
  /\ status = "run"
  /\ IF functionflags[current_terminal]["alt"] THEN TerminalSwitch(t) ELSE Acked
  /\ UNCHANGED <<functionflags, held>>

(* After a fault the exception handler spins.                             *)
Halted == status = "fault" /\ UNCHANGED vars

-----------------------------------------------------------------------------
(* Boot: the flags are statically OFF, terminal 0 is in the foreground and *)
(* kernel main starts its shell; no key is held.                          *)
Init ==
  /\ current_terminal = 0
  /\ functionflags = [t \in Terms |-> [f \in Flags |-> FALSE]]
  /\ shell = {0}
  /\ held = {}
  /\ acked = 0
  /\ status = "run"

Next ==
  \/ \E m \in Mods : Press(m) \/ Release(m)
  \/ CapsLock
  \/ OtherKey
  \/ \E t \in Terms : FKey(t)
  \/ Halted

Spec == Init /\ [][Next]_vars

-----------------------------------------------------------------------------
(* Properties *)

(* A terminal switch happens only while the user holds ALT down.  The    *)
(* ALT flag is kept per terminal and set and cleared on whichever        *)
(* terminal is in the foreground when the make or break code arrives, so *)
(* a flag left ON on a terminal the user switched away from stays ON;    *)
(* it holds only because the user comes back to that terminal with ALT  *)
(* held, and the release there clears it.                                 *)
SwitchOnlyWhileAltHeld ==
  [][current_terminal' # current_terminal => "alt" \in held]_vars

(* Every key is acknowledged: each path of keyboard_handler, including   *)
(* the terminal switches that never return to it, sends                  *)
(* send_eoi(KEYBOARD) before the CPU leaves it.  A path without it would *)
(* leave IRQ 1 in service and the PIC would deliver no further key.      *)
KeyboardAcknowledged ==
  [][status' = "run" => acked' >= 1]_vars
====
