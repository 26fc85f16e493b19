---------------------------- MODULE TerminalLine ----------------------------
(***************************************************************************)
(* The line discipline of keyboard.c: the per-terminal keyboard buffers    *)
(* the keyboard handler fills and terminal_read drains.  IRQ 1's in-      *)
(* service bit holds the next key back until the handler's send_eoi, so   *)
(* the handler is one step per key; terminal_read calls sti()              *)
(* and never cli(), so every statement of it from line 328 on can be      *)
(* interrupted by a key, and it is one step per statement (the copy loop   *)
(* one step per iteration).  A reader's code runs only while its terminal  *)
(* is in the foreground: a switch away saves its context and a switch     *)
(* back resumes it (ProcessControl models that hand-off).                  *)
(*                                                                         *)
(* keyboardbuffer[NUMTERMINALS][BUFFERSIZE] is one array in memory, so it  *)
(* is kept flat: an index past a terminal's row lands in the next row,     *)
(* and past the last row outside the array.                               *)
(*                                                                         *)
(* Characters are model values: which key, shift or caps lock made them is *)
(* data no property tells apart.                                          *)
(***************************************************************************)
EXTENDS Integers, Sequences, SequencesExt

CONSTANTS
  NUMTERMINALS,   \* keyboard.h: number of terminals (3)
  BUFFERSIZE,     \* keyboard.h: keyboard buffer size (128)
  Chars,          \* the printable characters typed (model values)
  NBYTES,         \* the byte counts user programs pass to read
  MAX_OVERRUN,    \* bound: ENTERs pressed past a full buffer, per row
  Readers         \* the terminals whose shell process calls terminal_read

ASSUME Readers \subseteq 0 .. NUMTERMINALS - 1 /\ BUFFERSIZE \in Nat \ {0} /\ MAX_OVERRUN \in Nat /\ NBYTES \subseteq Nat \ {0}

Terms == 0 .. NUMTERMINALS - 1
NL == "\n"
NUL == "NUL"
Bytes == Chars \cup {NL, NUL}
Cells == 0 .. NUMTERMINALS * BUFFERSIZE - 1

VARIABLES
  keyboardbuffer,   \* the flat keyboardbuffer array
  bufferindex,      \* per terminal: next free position of its row
  enter_flag,       \* per terminal: ENTER is held
  read_flag,        \* per terminal: a terminal_read is between lines 329 and 350
  current_terminal,
  tr,               \* per terminal: its process's terminal_read activation
  typed,            \* ghost: the line the user is typing on each terminal
  first,            \* ghost: the first line committed since the read began
  spill             \* ghost: a byte was stored past the end of the array

vars == <<keyboardbuffer, bufferindex, enter_flag, read_flag, current_terminal,
          tr, typed, first, spill>>

\* terminal_read's program counter: "idle" (not in terminal_read), then the
\* statement it executes next: "enter_off" (line 328), "read_on" (329),
\* "spin" (331), "copy" (340-341), "test" (342), "clear" (348), "read_off" (350).
PCs == {"idle", "enter_off", "read_on", "spin", "copy", "test", "clear", "read_off"}

Cell(t, i) == t * BUFFERSIZE + i
Row(t) == {Cell(t, i) : i \in 0 .. BUFFERSIZE - 1}

TypeOK ==
  /\ keyboardbuffer \in [Cells -> Bytes]
  /\ bufferindex \in [Terms -> 0 .. BUFFERSIZE + MAX_OVERRUN]
  /\ enter_flag \in [Terms -> BOOLEAN]
  /\ read_flag \in [Terms -> BOOLEAN]
  /\ current_terminal \in Terms
  /\ tr \in [Terms -> [pc : PCs, nbytes : NBYTES \cup {0}, buf : Seq(Bytes)]]
  /\ typed \in [Terms -> Seq(Chars)]
  /\ first \in [Terms -> Seq(Bytes)]
  /\ spill \in BOOLEAN

-----------------------------------------------------------------------------
(* Array access with C's layout.  A store past the array hits memory the   *)
(* model does not keep; it is recorded in spill.  A load past the array     *)
(* returns whatever byte is there.                                         *)
Stored(k, c) == IF k \in Cells THEN [keyboardbuffer EXCEPT ![k] = c] ELSE keyboardbuffer

Loads(k) == IF k \in Cells THEN {keyboardbuffer[k]} ELSE Bytes

(* clear_keyboard_buffer(terminal) applied to array b: it zeroes the row   *)
(* of current_terminal, whatever terminal it is passed.                    *)
Cleared(b) == [k \in Cells |-> IF k \in Row(current_terminal) THEN NUL ELSE b[k]]

-----------------------------------------------------------------------------
(* The keyboard handler, on the foreground terminal.                      *)

\* Mutant: the bufferindex >= BUFFERSIZE test left out.
KeyCharNoLimit(c) ==
  LET t == current_terminal IN
  /\ keyboardbuffer' = Stored(Cell(t, bufferindex[t]), c)
  /\ spill' = (spill \/ Cell(t, bufferindex[t]) \notin Cells)
  /\ bufferindex' = [bufferindex EXCEPT ![t] = @ + 1]
  /\ typed' = [typed EXCEPT ![t] = Append(@, c)]
  /\ UNCHANGED <<enter_flag, read_flag, current_terminal, tr, first>>

(* A printable key: dropped when the row is full, else stored and echoed. *)
KeyChar(c) ==
  LET t == current_terminal IN
  /\ IF bufferindex[t] >= BUFFERSIZE
     THEN UNCHANGED <<keyboardbuffer, bufferindex, typed, spill>>
     ELSE /\ keyboardbuffer' = Stored(Cell(t, bufferindex[t]), c)
          /\ spill' = (spill \/ Cell(t, bufferindex[t]) \notin Cells)
          /\ bufferindex' = [bufferindex EXCEPT ![t] = @ + 1]
          /\ typed' = [typed EXCEPT ![t] = Append(@, c)]
  /\ UNCHANGED <<enter_flag, read_flag, current_terminal, tr, first>>

(* BACKSPACE: step the index back unless it is 0, then clear that byte.   *)
(* The user sees the last character of the line they type erased.        *)
Backspace ==
  LET t == current_terminal
      i == IF bufferindex[t] # 0 THEN bufferindex[t] - 1 ELSE 0
  IN
  /\ bufferindex' = [bufferindex EXCEPT ![t] = i]
  /\ keyboardbuffer' = Stored(Cell(t, i), NUL)
  /\ spill' = (spill \/ Cell(t, i) \notin Cells)
  /\ typed' = [typed EXCEPT ![t] = IF @ = <<>> THEN <<>> ELSE Front(@)]
  /\ UNCHANGED <<enter_flag, read_flag, current_terminal, tr, first>>

(* ENTER: store '\n' at the index with no bound check, raise enter_flag,  *)
(* and discard the line unless a terminal_read has set read_flag.  The    *)
(* user has committed the line they typed.                                *)
EnterKey ==
  LET t == current_terminal
      k == Cell(t, bufferindex[t])
  IN
  /\ bufferindex[t] < BUFFERSIZE + MAX_OVERRUN
  /\ enter_flag' = [enter_flag EXCEPT ![t] = TRUE]
  /\ spill' = (spill \/ k \notin Cells)
  /\ IF read_flag[t]
     THEN /\ keyboardbuffer' = Stored(k, NL)
          /\ bufferindex' = [bufferindex EXCEPT ![t] = @ + 1]
     ELSE /\ keyboardbuffer' = Cleared(Stored(k, NL))
          /\ bufferindex' = [bufferindex EXCEPT ![t] = 0]
  /\ first' = IF tr[t].pc # "idle" /\ first[t] = <<>>
              THEN [first EXCEPT ![t] = typed[t] \o <<NL>>] ELSE first
  /\ typed' = [typed EXCEPT ![t] = <<>>]
  /\ UNCHANGED <<read_flag, current_terminal, tr>>

(* ENTER released.                                                        *)
EnterRelease ==
  /\ enter_flag' = [enter_flag EXCEPT ![current_terminal] = FALSE]
  /\ UNCHANGED <<keyboardbuffer, bufferindex, read_flag, current_terminal,
                 tr, typed, first, spill>>

(* ALT+F(t+1) to a terminal that has a shell: its context is resumed.     *)
TerminalSwitch(t) ==
  /\ t # current_terminal
  /\ current_terminal' = t
  /\ UNCHANGED <<keyboardbuffer, bufferindex, enter_flag, read_flag, tr,
                 typed, first, spill>>

-----------------------------------------------------------------------------
(* terminal_read(fd, buf, nbytes) of terminal t's process, which runs only *)
(* while t is in the foreground.  current_terminal_read is t.  A NULL buf  *)
(* or a negative nbytes returns -1 before sti() and changes nothing.       *)

Runs(t) == current_terminal = t

At(t, pc) == Runs(t) /\ tr[t].pc = pc

Goto(t, pc) == tr' = [tr EXCEPT ![t].pc = pc]

(* The call, up to sti().                                                  *)
ReadCall(t, n) ==
  /\ At(t, "idle")
  /\ tr' = [tr EXCEPT ![t] = [pc |-> "enter_off", nbytes |-> n, buf |-> <<>>]]
  /\ first' = [first EXCEPT ![t] = <<>>]
  /\ UNCHANGED <<keyboardbuffer, bufferindex, enter_flag, read_flag,
                 current_terminal, typed, spill>>

\* Mutant: line 328 left out, so an ENTER still held from before the call
\* ends the spin.
ReadEnterOffDropped(t) ==
  /\ At(t, "enter_off")
  /\ Goto(t, "read_on")
  /\ UNCHANGED <<keyboardbuffer, bufferindex, enter_flag, read_flag,
                 current_terminal, typed, first, spill>>

(* enter_flag[current_terminal_read] = OFF                                *)
ReadEnterOff(t) ==
  /\ At(t, "enter_off")
  /\ enter_flag' = [enter_flag EXCEPT ![t] = FALSE]
  /\ Goto(t, "read_on")
  /\ UNCHANGED <<keyboardbuffer, bufferindex, read_flag, current_terminal,
                 typed, first, spill>>

(* read_flag[current_terminal_read] = ON                                  *)
ReadFlagOn(t) ==
  /\ At(t, "read_on")
  /\ read_flag' = [read_flag EXCEPT ![t] = TRUE]
  /\ Goto(t, "spin")
  /\ UNCHANGED <<keyboardbuffer, bufferindex, enter_flag, current_terminal,
                 typed, first, spill>>

(* while (enter_flag[current_terminal_read] == OFF);                      *)
ReadSpin(t) ==
  /\ At(t, "spin")
  /\ enter_flag[t]
  /\ Goto(t, "copy")
  /\ UNCHANGED <<keyboardbuffer, bufferindex, enter_flag, read_flag,
                 current_terminal, typed, first, spill>>

(* The copy loop, lines 338-346: buf[i] = keyboardbuffer[t][i] while      *)
(* i < nbytes, then the test for '\n' that breaks out.                     *)
ReadCopy(t) ==
  /\ At(t, "copy")
  /\ LET i == Len(tr[t].buf) IN
       IF i < tr[t].nbytes
       THEN \E c \in Loads(Cell(t, i)) :
              tr' = [tr EXCEPT ![t].buf = Append(@, c), ![t].pc = "test"]
       ELSE Goto(t, "clear")
  /\ UNCHANGED <<keyboardbuffer, bufferindex, enter_flag, read_flag,
                 current_terminal, typed, first, spill>>

(* if (keyboardbuffer[t][i] == '\n') break;  The array is not volatile:   *)
(* the build either tests the byte it just copied or loads it again, after *)
(* whatever keys came in between.                                         *)
ReadTest(t) ==
  /\ At(t, "test")
  /\ \E d \in {Last(tr[t].buf)} \cup Loads(Cell(t, Len(tr[t].buf) - 1)) :
       Goto(t, IF d = NL THEN "clear" ELSE "copy")
  /\ UNCHANGED <<keyboardbuffer, bufferindex, enter_flag, read_flag,
                 current_terminal, typed, first, spill>>

(* clear_keyboard_buffer(current_terminal)                                *)
ReadClear(t) ==
  /\ At(t, "clear")
  /\ keyboardbuffer' = Cleared(keyboardbuffer)
  /\ bufferindex' = [bufferindex EXCEPT ![current_terminal] = 0]
  /\ Goto(t, "read_off")
  /\ UNCHANGED <<enter_flag, read_flag, current_terminal, typed, first, spill>>

(* read_flag[current_terminal_read] = OFF; return bytes_read.             *)
ReadReturn(t) ==
  /\ At(t, "read_off")
  /\ read_flag' = [read_flag EXCEPT ![t] = FALSE]
  /\ Goto(t, "idle")
  /\ UNCHANGED <<keyboardbuffer, bufferindex, enter_flag, current_terminal,
                 typed, first, spill>>

-----------------------------------------------------------------------------
(* Boot: static storage is zero, terminal 1 is in the foreground, and every*)
(* terminal's shell is outside terminal_read.                             *)
Init ==
  /\ keyboardbuffer = [k \in Cells |-> NUL]
  /\ bufferindex = [t \in Terms |-> 0]
  /\ enter_flag = [t \in Terms |-> FALSE]
  /\ read_flag = [t \in Terms |-> FALSE]
  /\ current_terminal = 0
  /\ tr = [t \in Terms |-> [pc |-> "idle", nbytes |-> 0, buf |-> <<>>]]
  /\ typed = [t \in Terms |-> <<>>]
  /\ first = [t \in Terms |-> <<>>]
  /\ spill = FALSE

Next ==
  \/ \E c \in Chars : KeyChar(c)
  \/ Backspace
  \/ EnterKey
  \/ EnterRelease
  \/ \E t \in Terms : TerminalSwitch(t)
  \/ \E t \in Readers :
       \/ \E n \in NBYTES : ReadCall(t, n)
       \/ ReadEnterOff(t)
       \/ ReadFlagOn(t)
       \/ ReadSpin(t)
       \/ ReadCopy(t)
       \/ ReadTest(t)
       \/ ReadClear(t)
       \/ ReadReturn(t)

Spec == Init /\ [][Next]_vars

-----------------------------------------------------------------------------
(* Properties *)

(* terminal_read blocks until ENTER is pressed on its own terminal after   *)
(* the call (spec: readLine blocks until a newline is committed): the spin *)
(* is left only once the user has committed a line there since the read   *)
(* began.  It depends on line 328 clearing a flag left by an earlier ENTER *)
(* and on the handler raising the foreground terminal's flag.              *)
TerminalReadWaitsForEnter ==
  [][\A t \in Terms : (tr[t].pc = "spin" /\ tr'[t].pc = "copy") => first[t] # <<>>]_vars

(* A read returns the line the user committed on its terminal after the   *)
(* call, up to nbytes bytes and ending in its '\n' (spec: readLine returns *)
(* the committed line).  The bytes come from keyboardbuffer, which the     *)
(* handler, other terminals' ENTERs past a full row, BACKSPACE and the     *)
(* reader's own clear all rewrite while interrupts are on.                *)
ReadReturnsCommittedLine ==
  [][\A t \in Terms :
       (tr[t].pc = "read_off" /\ tr'[t].pc = "idle") =>
         tr[t].buf = SubSeq(first[t], 1, IF tr[t].nbytes < Len(first[t])
                                         THEN tr[t].nbytes ELSE Len(first[t]))]_vars
====
