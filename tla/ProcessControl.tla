--------------------------- MODULE ProcessControl ---------------------------
(***************************************************************************)
(* Process lifecycle of the kernel core: execute and halt (syscall.c), the *)
(* PCB store (pcb.c), the terminal switch and the blocking terminal read   *)
(* (keyboard.c), together with the state that carries saved execution     *)
(* contexts between them: the per-slot kernel stacks, tss.esp0 and cr3.    *)
(*                                                                         *)
(* A kernel stack is a sequence of activation frames.  A saved esp/ebp     *)
(* pair is a context [stk, depth]: "the frame at position depth of stack   *)
(* stk".  Moving esp back to a context pops every frame above it, and an   *)
(* entry from user mode starts at the top of the stack tss.esp0 names, so *)
(* whatever that stack held is overwritten.  Jumping to a context whose    *)
(* frame is no longer there is undefined behaviour; it is modelled as a   *)
(* processor fault, after which the exception handler spins (idt.c).      *)
(*                                                                         *)
(* Where interrupts can arrive follows idt.c.  System calls enter through *)
(* an interrupt gate (reserved3 = 0) and run with IF = 0 except where the  *)
(* code calls sti(): the terminal_read and rtc_read spins.  The PIT,       *)
(* keyboard and RTC enter through trap gates (reserved3 = 1): IF stays 1,  *)
(* and only the PIC holds further interrupts back.  While IRQ 1 is in      *)
(* service nothing of lower priority (IRQ 2, the cascade of IRQ 8) and no *)
(* other key is delivered, so a keyboard handler up to its send_eoi is one *)
(* step; pit_handler only acknowledges.  rtc_handler calls sti() and       *)
(* enable_irq before its EOI, so keys reach it between its steps.  The     *)
(* tail of terminal_switch after its send_eoi (line 471) and the first     *)
(* execute it relaunches run with IF = 1 until that execute's cli (line    *)
(* 270): they are split into steps, and an ALT+F can fall between any two. *)
(***************************************************************************)
EXTENDS Integers, Sequences, FiniteSets, SequencesExt

CONSTANTS
  NUMTERMINALS,    \* keyboard.h: number of terminals (3)
  MAX_PROCESSES,   \* syscall.h: process budget and number of PCB slots (6)
  NULL,            \* the null pointer (a model value)
  MAX_NEST         \* bound: keyboard frames a kernel path may have nested on
                   \* its stack (the 8 KB stack itself bounds them in the code)

ASSUME NUMTERMINALS \in Nat \ {0} /\ MAX_PROCESSES \in Nat \ {0} /\ MAX_NEST \in Nat

Terms  == 0 .. NUMTERMINALS - 1         \* TERM_1, TERM_2, TERM_3
Pids   == 0 .. MAX_PROCESSES - 1        \* PCB slot = pid = memory space slot
BOOT_STACK == -1                        \* the stack kernel main runs on
KERNEL_PD  == -1                        \* paging.c page_directory
Stacks   == Pids \cup {BOOT_STACK}      \* kernel stack of slot p is 8MB-(p+1)*8KB
PageDirs == Pids \cup {KERNEL_PD, NULL} \* prog<p+1>_pd for slot p; NULL is a zero cr3

Ctx   == [stk : Stacks, depth : Nat]
NoCtx == [stk |-> BOOT_STACK, depth |-> 0]   \* a zeroed esp/ebp pair

(* Activation frames.  proc and aux are pids, terminals or NULL; pc is     *)
(* where a kernel path that interrupts can cut into resumes.               *)
Frame(kind, proc, aux) == [kind |-> kind, proc |-> proc, aux |-> aux, pc |-> "none"]
ExecFrame(c, caller) == Frame("exec", c, caller) \* execute() parked at halt_ret for child c;
                                                 \* caller: the pid whose syscall it serves,
                                                 \* or NULL for a shell-relaunch loop
KbdFrame(from, pc) == [Frame("kbd", from, NULL) EXCEPT !.pc = pc]
                                                 \* keyboard_handler -> terminal_switch;
                                                 \* from: interrupted user pid, or NULL
                                                 \* when it interrupted kernel code
XqFrame(pid, temp, pc) == [Frame("xq", pid, temp) EXCEPT !.pc = pc]
                                                 \* the relaunched execute, IF = 1:
                                                 \* new_pcb.pid and temp, its locals
ReadFrame(p, t)  == Frame("read", p, t)           \* terminal_read of p spinning on terminal t
HaltFrame(p)     == Frame("halt", p, NULL)        \* halt() of p
RtcFrame(p)      == Frame("rtc", p, NULL)         \* rtc_read of p spinning on int_flag
IrqFrame(from, raised) == Frame("irq", from, raised) \* rtc_handler past its sti();
                                                 \* from: interrupted user pid, or NULL;
                                                 \* raised: int_flag already set

VARIABLES
  current_terminal, \* keyboard.c: the foreground terminal
  prog_count,       \* syscall.c: live processes per terminal
  memoryspace,      \* syscall.c: slot occupancy map
  pcb_loc,          \* syscall.c: each terminal's current PCB (a slot, or NULL)
  pcb,              \* the PCB fields that carry control: parent and saved contexts
  kstack,           \* frames on each kernel stack
  esp0,             \* tss.esp0: the stack a trap from user mode starts on
  cr3,              \* the installed page directory
  enter_flag,       \* keyboard.c: enter pressed, per terminal
  int_flag,         \* rtc.c: an RTC interrupt has arrived (HIGH)
  rtc_isr,          \* i8259: IRQ 8 delivered and not yet acknowledged (send_eoi)
  mode,             \* what the CPU executes: "user", "spin", "isr" (rtc_handler),
                    \* "kern" (a switch tail or relaunched execute, IF = 1),
                    \* "loop" (the relaunch loop, IF = 0) or "fault"
  cur               \* user: the running pid; spin/loop: the stack it runs on

vars == <<current_terminal, prog_count, memoryspace, pcb_loc, pcb, kstack,
          esp0, cr3, enter_flag, int_flag, rtc_isr, mode, cur>>

PcbRec == [lastpcb_ptr : Pids \cup {NULL}, esp : Ctx, pagedir : PageDirs,
           curr_esp : Ctx, curr_pd : PageDirs]
ZeroPcb == [lastpcb_ptr |-> NULL, esp |-> NoCtx, pagedir |-> NULL,
            curr_esp |-> NoCtx, curr_pd |-> NULL]

TypeOK ==
  /\ current_terminal \in Terms
  /\ prog_count \in [Terms -> 0 .. MAX_PROCESSES]
  /\ memoryspace \in [Pids -> {0, 1}]
  /\ pcb_loc \in [Terms -> Pids \cup {NULL}]
  /\ pcb \in [Pids -> PcbRec]
  /\ \A s \in Stacks : \A i \in DOMAIN kstack[s] :
        kstack[s][i].kind \in {"exec", "kbd", "read", "rtc", "halt", "irq", "xq"}
  /\ esp0 \in Stacks
  /\ cr3 \in PageDirs
  /\ enter_flag \in [Terms -> BOOLEAN]
  /\ int_flag \in BOOLEAN
  /\ rtc_isr \in BOOLEAN
  /\ mode \in {"user", "spin", "isr", "kern", "loop", "fault"}
  /\ cur \in Stacks

-----------------------------------------------------------------------------
(* Helpers *)

LiveCount == SumFunction(prog_count)     \* prog_count[TERM_1]+[TERM_2]+[TERM_3]
LiveSlots == {p \in Pids : memoryspace[p] = 1}

(* Mutation: the budget test written with > for >=.                      *)
BudgetExhaustedOffByOne == LiveCount > MAX_PROCESSES

(* execute's budget test: prog_count summed over the terminals.           *)
BudgetExhausted == LiveCount >= MAX_PROCESSES

(* The slot search in execute: the lowest free slot; when none is free    *)
(* the loop finds nothing and new_pcb.pid keeps pcb_init's 0.             *)
FreeSlot == IF LiveSlots = Pids THEN 0 ELSE Min(Pids \ LiveSlots)

(* The parent recorded for a new process c on terminal t (prev_pcb).      *)
ExecParent(t, c) == IF prog_count[t] + 1 = 1 THEN c ELSE pcb_loc[t]

(* Does context ctx name a frame of the given kind on stacks st?          *)
FrameAt(st, ctx, kind) ==
  /\ ctx.depth \in 1 .. Len(st[ctx.stk])
  /\ st[ctx.stk][ctx.depth].kind = kind

Fault ==
  /\ mode' = "fault"
  /\ UNCHANGED <<current_terminal, prog_count, memoryspace, pcb_loc, pcb,
                 kstack, esp0, cr3, enter_flag, int_flag, rtc_isr, cur>>

(* The mode of kernel code whose innermost frame is f.                    *)
KernelMode(f) ==
  CASE f.kind \in {"read", "rtc"} -> "spin"
    [] f.kind = "irq"             -> "isr"
    [] OTHER                      -> "kern"

(* iret from the handler frame on top of stack s of st: back to user       *)
(* process from, or, when from is NULL, to the kernel code below it.      *)
IretTo(st, s, from) ==
  /\ kstack' = [st EXCEPT ![s] = Front(st[s])]
  /\ IF from = NULL THEN mode' = KernelMode(Last(Front(st[s]))) /\ cur' = s
                    ELSE mode' = "user" /\ cur' = from

(* Leave the kernel with stacks st, the stack s cut back to depth d:       *)
(* iret to the calling user process, or fall back into the relaunch loop.  *)
ReturnTo(st, s, d, caller) ==
  /\ kstack' = [st EXCEPT ![s] = SubSeq(st[s], 1, d)]
  /\ IF caller = NULL THEN mode' = "loop" /\ cur' = s
                      ELSE mode' = "user" /\ cur' = caller

-----------------------------------------------------------------------------
(* execute(command) running at depth d of stack s on behalf of caller.     *)
(* valid: the command names a file with the ELF magic.                    *)
Execute(s, d, caller, valid) ==
  \/ /\ BudgetExhausted                             \* "MAX PROCESSES REACHED": return 0
     /\ ReturnTo(kstack, s, d, caller)
     /\ UNCHANGED <<current_terminal, prog_count, memoryspace, pcb_loc, pcb,
                    esp0, cr3, enter_flag, int_flag, rtc_isr>>
  \/ /\ ~BudgetExhausted
     /\ ~valid                                      \* bad name, not found, no magic: return -1
     /\ ReturnTo(kstack, s, d, caller)
     /\ UNCHANGED <<current_terminal, prog_count, memoryspace, pcb_loc, pcb,
                    esp0, cr3, enter_flag, int_flag, rtc_isr>>
  \/ /\ ~BudgetExhausted
     /\ valid
     /\ LET t == current_terminal
            c == FreeSlot
        IN /\ prog_count' = [prog_count EXCEPT ![t] = @ + 1]
           /\ memoryspace' = [memoryspace EXCEPT ![c] = 1]
           /\ pcb_loc' = [pcb_loc EXCEPT ![t] = c]
           /\ pcb' = [pcb EXCEPT ![c] =            \* pcb_init + setup_pcb + saves
                        [lastpcb_ptr |-> ExecParent(t, c),
                         esp         |-> [stk |-> s, depth |-> d + 1],
                         pagedir     |-> cr3,
                         curr_esp    |-> [stk |-> c, depth |-> 0],
                         curr_pd     |-> c]]
           /\ kstack' = [kstack EXCEPT ![s] = Append(SubSeq(@, 1, d), ExecFrame(c, caller))]
           /\ cr3' = c                               \* prog<c+1>_init
           /\ esp0' = c
           /\ mode' = "user"                         \* iret to the entry point
           /\ cur' = c
           /\ UNCHANGED <<current_terminal, enter_flag, int_flag, rtc_isr>>

(* The shell-relaunch loop: kernel main for terminal 0, or terminal_switch *)
(* onto an empty terminal: while(1) execute("shell").                     *)
Relaunch ==
  /\ mode = "loop"
  /\ Execute(cur, Len(kstack[cur]), NULL, TRUE)

(* The execute system call from the running user process.                 *)
SysExecute ==
  /\ mode = "user"
  /\ \E valid \in BOOLEAN : Execute(esp0, 0, cur, valid)

-----------------------------------------------------------------------------
(* The execute that terminal_switch relaunches (line 479) runs with IF = 1 *)
(* until its cli at line 270.  Each group of statements that touches      *)
(* shared state is a step; each re-reads current_terminal and, through it, *)
(* pcb_loc[current_terminal], as the code does.  The locals new_pcb.pid    *)
(* and temp live in the frame.                                            *)
Xq == Last(kstack[cur])
AtXq(pc) == mode = "kern" /\ Xq.kind = "xq" /\ Xq.pc = pc
XqGoto(pc, pid, temp) ==
  kstack' = [kstack EXCEPT ![cur][Len(kstack[cur])] = XqFrame(pid, temp, pc)]
Me == pcb_loc[current_terminal]

(* Lines 107-166: the budget test, then parsing "shell" and the ELF       *)
(* checks.  At the budget execute returns 0 and the loop calls it again,   *)
(* so the step waits for a halt elsewhere.                                *)
ExecBudgetTest ==
  /\ AtXq("test")
  /\ ~BudgetExhausted
  /\ XqGoto("count", 0, NULL)
  /\ UNCHANGED <<current_terminal, prog_count, memoryspace, pcb_loc, pcb,
                 esp0, cr3, enter_flag, int_flag, rtc_isr, mode, cur>>

(* Line 168: prog_count[current_terminal]++; pcb_init sets pid 0.         *)
ExecCount ==
  /\ AtXq("count")
  /\ prog_count' = [prog_count EXCEPT ![current_terminal] = @ + 1]
  /\ XqGoto("slot", 0, NULL)
  /\ UNCHANGED <<current_terminal, memoryspace, pcb_loc, pcb,
                 esp0, cr3, enter_flag, int_flag, rtc_isr, mode, cur>>

(* Lines 171-175: the first free slot becomes new_pcb.pid; with none free  *)
(* the loop ends with pid 0 and claims nothing.                           *)
ExecSlot ==
  /\ AtXq("slot")
  /\ IF LiveSlots = Pids THEN XqGoto("loc", 0, NULL)
                        ELSE XqGoto("claim", FreeSlot, NULL)
  /\ UNCHANGED <<current_terminal, prog_count, memoryspace, pcb_loc, pcb,
                 esp0, cr3, enter_flag, int_flag, rtc_isr, mode, cur>>

(* Line 176: memoryspace[pger] = 1.                                       *)
ExecClaim ==
  /\ AtXq("claim")
  /\ memoryspace' = [memoryspace EXCEPT ![Xq.proc] = 1]
  /\ XqGoto("loc", Xq.proc, NULL)
  /\ UNCHANGED <<current_terminal, prog_count, pcb_loc, pcb,
                 esp0, cr3, enter_flag, int_flag, rtc_isr, mode, cur>>

(* Lines 182-183: temp = pcb_loc[current_terminal], which then becomes     *)
(* the new PCB.                                                           *)
ExecLoc ==
  /\ AtXq("loc")
  /\ pcb_loc' = [pcb_loc EXCEPT ![current_terminal] = Xq.proc]
  /\ XqGoto("setup", Xq.proc, Me)
  /\ UNCHANGED <<current_terminal, prog_count, memoryspace, pcb,
                 esp0, cr3, enter_flag, int_flag, rtc_isr, mode, cur>>

(* Mutation: prev_pcb is always temp, as if the prog_count == 1 case were  *)
(* dropped.                                                               *)
SetupParentTemp(temp) == temp

(* Lines 185-188: prev_pcb is the new PCB itself for a terminal's first    *)
(* process, else temp.                                                    *)
SetupParent(temp) == IF prog_count[current_terminal] = 1 THEN Me ELSE temp

(* Line 190: setup_pcb copies pcb_init's zeroed PCB over *pcb_loc and sets *)
(* its lastpcb_ptr.  Through a NULL pcb_loc the copy faults.              *)
ExecSetup ==
  /\ AtXq("setup")
  /\ IF Me = NULL THEN Fault
     ELSE /\ pcb' = [pcb EXCEPT ![Me] = [ZeroPcb EXCEPT !.lastpcb_ptr = SetupParent(Xq.aux)]]
          /\ XqGoto("saves", Xq.proc, Xq.aux)
          /\ UNCHANGED <<current_terminal, prog_count, memoryspace, pcb_loc,
                         esp0, cr3, enter_flag, int_flag, rtc_isr, mode, cur>>

(* Lines 193-215: this frame's ebp/esp and the installed cr3 are saved in  *)
(* pcb_loc[current_terminal] for halt.                                    *)
ExecSaves ==
  /\ AtXq("saves")
  /\ IF Me = NULL THEN Fault
     ELSE /\ pcb' = [pcb EXCEPT ![Me].esp = [stk |-> cur, depth |-> Len(kstack[cur])],
                                ![Me].pagedir = cr3]
          /\ XqGoto("init", Xq.proc, Xq.aux)
          /\ UNCHANGED <<current_terminal, prog_count, memoryspace, pcb_loc,
                         esp0, cr3, enter_flag, int_flag, rtc_isr, mode, cur>>

(* Lines 232-248: prog<pid+1>_init for pcb_loc[current_terminal]->pid      *)
(* installs that slot's directory in cr3, and the program is copied in.   *)
ExecInit ==
  /\ AtXq("init")
  /\ IF Me = NULL THEN Fault
     ELSE /\ cr3' = Me
          /\ XqGoto("esp0", Xq.proc, Xq.aux)
          /\ UNCHANGED <<current_terminal, prog_count, memoryspace, pcb_loc, pcb,
                         esp0, enter_flag, int_flag, rtc_isr, mode, cur>>

(* Lines 250-254: tss.esp0 = the kernel stack of pcb_loc[...]->pid.       *)
ExecEsp0 ==
  /\ AtXq("esp0")
  /\ IF Me = NULL THEN Fault
     ELSE /\ esp0' = Me
          /\ XqGoto("curr", Xq.proc, Xq.aux)
          /\ UNCHANGED <<current_terminal, prog_count, memoryspace, pcb_loc, pcb,
                         cr3, enter_flag, int_flag, rtc_isr, mode, cur>>

(* Lines 258-268: curr_pd = cr3 and curr_esp/curr_ebp = the top of that    *)
(* stack, for a later switch back.                                        *)
ExecCurr ==
  /\ AtXq("curr")
  /\ IF Me = NULL THEN Fault
     ELSE /\ pcb' = [pcb EXCEPT ![Me].curr_pd = cr3,
                                ![Me].curr_esp = [stk |-> Me, depth |-> 0]]
          /\ XqGoto("iret", Xq.proc, Xq.aux)
          /\ UNCHANGED <<current_terminal, prog_count, memoryspace, pcb_loc,
                         esp0, cr3, enter_flag, int_flag, rtc_isr, mode, cur>>

(* Lines 269-281: cli and iret into the new program; the frame stays       *)
(* parked at halt_ret.                                                    *)
ExecIret ==
  /\ AtXq("iret")
  /\ kstack' = [kstack EXCEPT ![cur][Len(kstack[cur])] = ExecFrame(Xq.proc, NULL)]
  /\ mode' = "user"
  /\ cur' = Xq.proc
  /\ UNCHANGED <<current_terminal, prog_count, memoryspace, pcb_loc, pcb,
                 esp0, cr3, enter_flag, int_flag, rtc_isr>>

RelaunchStep ==
  \/ ExecBudgetTest \/ ExecCount \/ ExecSlot \/ ExecClaim \/ ExecLoc
  \/ ExecSetup \/ ExecSaves \/ ExecInit \/ ExecEsp0 \/ ExecCurr \/ ExecIret

-----------------------------------------------------------------------------
(* Mutation: the execute tail leaves pcb_loc at the halted PCB.          *)
ResumeAfterHaltKeepLoc(st, ctx, t, me, count) ==
  /\ pcb_loc' = pcb_loc
  /\ ReturnTo(st, ctx.stk, ctx.depth - 1, st[ctx.stk][ctx.depth].aux)

(* The tail of execute after halt_ret, entered by halt's jump with stacks  *)
(* st: update pcb_loc and return to execute's caller.                      *)
ResumeAfterHalt(st, ctx, t, me, count) ==
  /\ pcb_loc' = IF count # 0 THEN [pcb_loc EXCEPT ![t] = pcb[me].lastpcb_ptr]
                             ELSE pcb_loc
  /\ ReturnTo(st, ctx.stk, ctx.depth - 1, st[ctx.stk][ctx.depth].aux)

(* halt(status): the status is returned to execute's caller and not kept. *)
SysHalt ==
  /\ mode = "user"
  /\ LET t  == current_terminal
         me == pcb_loc[t]
     IN IF me = NULL \/ pcb[me].lastpcb_ptr = NULL
        THEN Fault                                   \* NULL->file_desc, NULL->pid
        ELSE LET st    == [kstack EXCEPT ![esp0] = <<HaltFrame(cur)>>]
                 count == prog_count[t] - 1
                 ctx   == pcb[me].esp
             IN IF ~FrameAt(st, ctx, "exec")
                THEN Fault                           \* jmp halt_ret into a dead frame
                ELSE /\ prog_count' = [prog_count EXCEPT ![t] = count]
                     /\ memoryspace' = [memoryspace EXCEPT ![me] = 0]
                     /\ esp0' = pcb[me].lastpcb_ptr
                     /\ cr3' = pcb[me].pagedir
                     /\ ResumeAfterHalt(st, ctx, t, me, count)
                     /\ UNCHANGED <<current_terminal, pcb, enter_flag, int_flag, rtc_isr>>

-----------------------------------------------------------------------------
(* Mutant: the spin is bound to TERM_1's flag, not the caller's terminal. *)
SysReadStdinFirstTerminal ==
  /\ mode = "user"
  /\ IF pcb_loc[current_terminal] = NULL
     THEN Fault
     ELSE /\ kstack' = [kstack EXCEPT ![esp0] = <<ReadFrame(cur, 0)>>]
          /\ enter_flag' = [enter_flag EXCEPT ![current_terminal] = FALSE]
          /\ mode' = "spin"
          /\ cur' = esp0
          /\ UNCHANGED <<current_terminal, prog_count, memoryspace, pcb_loc, pcb,
                         esp0, cr3, int_flag, rtc_isr>>

(* read(0, ...): terminal_read clears enter_flag and spins with sti().     *)
SysReadStdin ==
  /\ mode = "user"
  /\ IF pcb_loc[current_terminal] = NULL
     THEN Fault
     ELSE /\ kstack' = [kstack EXCEPT ![esp0] = <<ReadFrame(cur, current_terminal)>>]
          /\ enter_flag' = [enter_flag EXCEPT ![current_terminal] = FALSE]
          /\ mode' = "spin"
          /\ cur' = esp0
          /\ UNCHANGED <<current_terminal, prog_count, memoryspace, pcb_loc, pcb,
                         esp0, cr3, int_flag, rtc_isr>>

(* The spin sees enter_flag of the terminal it was called on, copies the   *)
(* line and returns to the reader.                                        *)
TerminalReadReturn ==
  /\ mode = "spin"
  /\ LET f == Last(kstack[cur]) IN
       /\ f.kind = "read"
       /\ enter_flag[f.aux]
       /\ kstack' = [kstack EXCEPT ![cur] = Front(@)]
       /\ mode' = "user"
       /\ cur' = f.proc
       /\ UNCHANGED <<current_terminal, prog_count, memoryspace, pcb_loc, pcb,
                      esp0, cr3, enter_flag, int_flag, rtc_isr>>

(* Any other system call (read/write/open/close/getargs/vidmap, and a     *)
(* terminal_read rejected for a NULL buffer or negative length) first     *)
(* dereferences pcb_loc[current_terminal]; it does not block.             *)
SysDescriptorCall ==
  /\ mode = "user"
  /\ IF pcb_loc[current_terminal] = NULL
     THEN Fault
     ELSE /\ kstack' = [kstack EXCEPT ![esp0] = <<>>]
          /\ UNCHANGED <<current_terminal, prog_count, memoryspace, pcb_loc, pcb,
                         esp0, cr3, enter_flag, int_flag, rtc_isr, mode, cur>>

(* read on an RTC descriptor: rtc_read enables interrupts and spins until *)
(* int_flag is HIGH.  It does not lower int_flag before it waits.         *)
SysReadRtc ==
  /\ mode = "user"
  /\ IF pcb_loc[current_terminal] = NULL
     THEN Fault
     ELSE /\ kstack' = [kstack EXCEPT ![esp0] = <<RtcFrame(cur)>>]
          /\ mode' = "spin"
          /\ cur' = esp0
          /\ UNCHANGED <<current_terminal, prog_count, memoryspace, pcb_loc, pcb,
                         esp0, cr3, enter_flag, int_flag, rtc_isr>>

(* The spin sees int_flag HIGH, lowers it and returns to the reader.      *)
RtcReadReturn ==
  /\ mode = "spin"
  /\ LET f == Last(kstack[cur]) IN
       /\ f.kind = "rtc"
       /\ int_flag
       /\ int_flag' = FALSE
       /\ kstack' = [kstack EXCEPT ![cur] = Front(@)]
       /\ mode' = "user"
       /\ cur' = f.proc
       /\ UNCHANGED <<current_terminal, prog_count, memoryspace, pcb_loc, pcb,
                      esp0, cr3, enter_flag, rtc_isr>>

-----------------------------------------------------------------------------
(* Interrupts, taken in user mode (on stack tss.esp0) or in kernel code   *)
(* that runs with IF = 1 (on the stack it runs on).                        *)

(* A timer tick or an ordinary key: its frames come and go on the stack;  *)
(* from user mode they overwrite the bottom of stack tss.esp0.           *)
UserInterrupt ==
  /\ mode = "user"
  /\ kstack' = [kstack EXCEPT ![esp0] = <<>>]
  /\ UNCHANGED <<current_terminal, prog_count, memoryspace, pcb_loc, pcb,
                 esp0, cr3, enter_flag, int_flag, rtc_isr, mode, cur>>

(* IRQ 8 is taken with IF = 1 unless the PIC still holds an earlier one in *)
(* service: rtc_handler entered, up to its sti().  From user mode its     *)
(* frame is the bottom of stack tss.esp0.                                 *)
RtcInterrupt ==
  /\ mode \in {"user", "spin", "kern"}
  /\ ~rtc_isr
  /\ rtc_isr' = TRUE
  /\ kstack' = IF mode = "user"
                THEN [kstack EXCEPT ![esp0] = <<IrqFrame(cur, FALSE)>>]
                ELSE [kstack EXCEPT ![cur] = Append(@, IrqFrame(NULL, FALSE))]
  /\ mode' = "isr"
  /\ cur' = IF mode = "user" THEN esp0 ELSE cur
  /\ UNCHANGED <<current_terminal, prog_count, memoryspace, pcb_loc, pcb,
                 esp0, cr3, enter_flag, int_flag>>

(* rtc_handler, with interrupts enabled again: int_flag = HIGH.           *)
RtcSignal ==
  /\ mode = "isr"
  /\ ~Last(kstack[cur]).aux
  /\ int_flag' = TRUE
  /\ kstack' = [kstack EXCEPT ![cur][Len(kstack[cur])].aux = TRUE]
  /\ UNCHANGED <<current_terminal, prog_count, memoryspace, pcb_loc, pcb,
                 esp0, cr3, enter_flag, rtc_isr, mode, cur>>

(* rtc_handler's send_eoi(RTC), then iret into the interrupted context.   *)
RtcHandlerReturn ==
  /\ mode = "isr"
  /\ LET f == Last(kstack[cur]) IN
       /\ f.aux
       /\ rtc_isr' = FALSE
       /\ IretTo(kstack, cur, f.proc)
  /\ UNCHANGED <<current_terminal, prog_count, memoryspace, pcb_loc, pcb,
                 esp0, cr3, enter_flag, int_flag>>

(* ENTER: sets enter_flag of the foreground terminal.                     *)
EnterKey ==
  /\ mode \in {"user", "spin", "isr", "kern"}
  /\ enter_flag' = [enter_flag EXCEPT ![current_terminal] = TRUE]
  /\ kstack' = IF mode = "user" THEN [kstack EXCEPT ![esp0] = <<>>] ELSE kstack
  /\ UNCHANGED <<current_terminal, prog_count, memoryspace, pcb_loc, pcb,
                 esp0, cr3, int_flag, rtc_isr, mode, cur>>

(* ENTER released: clears enter_flag of the foreground terminal.  A key   *)
(* is held for tens of milliseconds and rtc_handler runs for a few        *)
(* microseconds, so the release of a key pressed before or inside the     *)
(* handler is taken after it, in user mode or in the spin.                *)
EnterRelease ==
  /\ mode \in {"user", "spin", "kern"}
  /\ enter_flag' = [enter_flag EXCEPT ![current_terminal] = FALSE]
  /\ kstack' = IF mode = "user" THEN [kstack EXCEPT ![esp0] = <<>>] ELSE kstack
  /\ UNCHANGED <<current_terminal, prog_count, memoryspace, pcb_loc, pcb,
                 esp0, cr3, int_flag, rtc_isr, mode, cur>>

(* ALT+F(t+1): keyboard_handler and terminal_switch(t) up to its          *)
(* send_eoi, with IRQ 1 in service: nothing else is delivered.  The same   *)
(* terminal returns at once.  Otherwise the video copies run under the     *)
(* installed cr3, esp/ebp are saved in pcb_loc[current_terminal] (line     *)
(* 467, a fault when it is NULL), current_terminal becomes t and the EOI  *)
(* is sent; the rest runs with IF = 1.  A switch taken inside kernel code  *)
(* (directly, or inside an rtc_handler that interrupted it) nests above   *)
(* it, up to MAX_NEST keyboard frames deep on the running stack.          *)
TerminalSwitch(t) ==
  /\ mode \in {"user", "spin", "isr", "kern"}
  /\ mode # "user" =>
       Cardinality({i \in DOMAIN kstack[cur] : kstack[cur][i].kind = "kbd"}) < MAX_NEST
  /\ LET here  == IF mode = "user" THEN [stk |-> esp0, depth |-> 1]
                                   ELSE [stk |-> cur, depth |-> Len(kstack[cur]) + 1]
         below == IF mode = "user" THEN <<>> ELSE kstack[cur]
         out   == pcb_loc[current_terminal]
     IN
     \/ /\ t = current_terminal                      \* no-op
        /\ kstack' = [kstack EXCEPT ![here.stk] = below]
        /\ UNCHANGED <<current_terminal, prog_count, memoryspace, pcb_loc, pcb,
                       esp0, cr3, enter_flag, int_flag, rtc_isr, mode, cur>>
     \/ /\ t # current_terminal
        /\ out = NULL                                \* pcb_loc[current]->curr_esp = ...
        /\ Fault
     \/ /\ t # current_terminal
        /\ out # NULL
        /\ current_terminal' = t
        /\ pcb' = [pcb EXCEPT ![out].curr_esp = here]
        /\ kstack' = [kstack EXCEPT ![here.stk] =
                        Append(below, KbdFrame(IF mode = "user" THEN cur ELSE NULL, "test"))]
        /\ mode' = "kern"
        /\ cur' = here.stk
        /\ UNCHANGED <<prog_count, memoryspace, pcb_loc, esp0, cr3,
                       enter_flag, int_flag, rtc_isr>>

(* The tail of terminal_switch, IF = 1: each step re-reads                 *)
(* current_terminal, which a nested switch may have changed.              *)
Kbd == Last(kstack[cur])
AtKbd(pc) == mode = "kern" /\ Kbd.kind = "kbd" /\ Kbd.pc = pc
KbdGoto(pc) == kstack' = [kstack EXCEPT ![cur][Len(kstack[cur])].pc = pc]

(* Lines 473-488: no process on the terminal and budget left: while(1)    *)
(* execute("shell") on this stack; budget used up: keyboard_helper,       *)
(* return 0, and the handler's send_eoi and iret; otherwise go on.        *)
SwitchTest ==
  /\ AtKbd("test")
  /\ CASE prog_count[current_terminal] = 0 /\ LiveCount < MAX_PROCESSES ->
            kstack' = [kstack EXCEPT ![cur] =
                         Append([@ EXCEPT ![Len(@)].pc = "loop"], XqFrame(0, NULL, "test"))]
            /\ UNCHANGED <<mode, cur>>
       [] prog_count[current_terminal] = 0 ->
            IretTo(kstack, cur, Kbd.proc)
       [] OTHER -> KbdGoto("esp0") /\ UNCHANGED <<mode, cur>>
  /\ UNCHANGED <<current_terminal, prog_count, memoryspace, pcb_loc, pcb,
                 esp0, cr3, enter_flag, int_flag, rtc_isr>>

(* Mutation: line 492 dropped, tss.esp0 left as it was.                  *)
SwitchKernelStackStale == esp0

(* Lines 491-492: tss.esp0 from pcb_loc[current_terminal]->pid.           *)
SwitchKernelStack == Me

SwitchEsp0 ==
  /\ AtKbd("esp0")
  /\ IF Me = NULL THEN Fault
     ELSE /\ esp0' = SwitchKernelStack
          /\ KbdGoto("restore")
          /\ UNCHANGED <<current_terminal, prog_count, memoryspace, pcb_loc, pcb,
                         cr3, enter_flag, int_flag, rtc_isr, mode, cur>>

(* Lines 493-503: ebp, esp and cr3 from pcb_loc[current_terminal]; the     *)
(* "return 0" then leaves the terminal_switch whose frame that esp is in,  *)
(* and its keyboard_handler sends its EOI and irets into the context that  *)
(* switch interrupted.  A frame no longer there is a return through        *)
(* garbage, and a zero curr_pd (a PCB set up but not yet saved into) puts  *)
(* the page directory at physical address 0: both are undefined and are   *)
(* modelled as a fault.                                                   *)
SwitchRestore ==
  /\ AtKbd("restore")
  /\ IF \/ Me = NULL
        \/ ~FrameAt(kstack, pcb[Me].curr_esp, "kbd")
        \/ pcb[Me].curr_pd = NULL
     THEN Fault
     ELSE LET ctx == pcb[Me].curr_esp IN
          /\ cr3' = pcb[Me].curr_pd
          /\ IretTo([kstack EXCEPT ![ctx.stk] = SubSeq(@, 1, ctx.depth)], ctx.stk,
                    kstack[ctx.stk][ctx.depth].proc)
          /\ UNCHANGED <<current_terminal, prog_count, memoryspace, pcb_loc, pcb,
                         esp0, enter_flag, int_flag, rtc_isr>>

SwitchTail == SwitchTest \/ SwitchEsp0 \/ SwitchRestore

(* A processor fault: the exception handler prints and spins forever.     *)
FaultSpin ==
  /\ mode = "fault"
  /\ UNCHANGED vars

-----------------------------------------------------------------------------
(* Kernel main launches the first shell on terminal 0 in a relaunch loop. *)
(* kernel.c is not in the repository; the loop is taken to run with       *)
(* IF = 0, as the execute system call does.                               *)
Init ==
  /\ current_terminal = 0
  /\ prog_count = [t \in Terms |-> 0]
  /\ memoryspace = [p \in Pids |-> 0]
  /\ pcb_loc = [t \in Terms |-> IF t = 0 THEN 0 ELSE NULL]   \* PCB0_LOC, NULL, NULL
  /\ pcb = [p \in Pids |-> ZeroPcb]
  /\ kstack = [s \in Stacks |-> <<>>]
  /\ mode = "loop"
  /\ esp0 = BOOT_STACK
  /\ cr3 = KERNEL_PD
  /\ enter_flag = [t \in Terms |-> FALSE]
  /\ int_flag = FALSE
  /\ rtc_isr = FALSE
  /\ cur = BOOT_STACK

Next ==
  \/ Relaunch
  \/ SysExecute
  \/ SysHalt
  \/ SysReadStdin
  \/ TerminalReadReturn
  \/ SysDescriptorCall
  \/ UserInterrupt
  \/ EnterKey
  \/ EnterRelease
  \/ SysReadRtc
  \/ RtcReadReturn
  \/ RtcInterrupt
  \/ RtcSignal
  \/ RtcHandlerReturn
  \/ \E t \in Terms : TerminalSwitch(t)
  \/ SwitchTail
  \/ RelaunchStep
  \/ FaultSpin

Spec == Init /\ [][Next]_vars

(* Fairness for the read spin and its user.  While the spin is the running *)
(* context it re-tests enter_flag in a few instructions, far inside the     *)
(* time a key is held, so a flag that keeps being raised while it runs is  *)
(* seen (strong fairness of the return).  The user is the environment;     *)
(* the only assumption made of them is that they keep pressing ENTER.      *)
(* The RTC is a periodic source: it raises IRQ 8 again and again, so the  *)
(* interrupt is taken whenever the PIC keeps letting it through (strong   *)
(* fairness), and so are rtc_handler's two steps and the rtc_read spin's  *)
(* return, which a nested keyboard interrupt can only postpone.  The tail  *)
(* of terminal_switch and the relaunched execute run with interrupts on;  *)
(* an interrupt only postpones them, and between two interrupts the CPU   *)
(* runs the next instruction of the context it returns to (strong         *)
(* fairness: enabled again and again, they are taken).                    *)
FairSpec == /\ Spec
            /\ SF_vars(SwitchTail) /\ SF_vars(RelaunchStep)
            /\ SF_vars(TerminalReadReturn) /\ WF_vars(EnterKey)
            /\ SF_vars(RtcInterrupt) /\ SF_vars(RtcSignal)
            /\ SF_vars(RtcHandlerReturn) /\ SF_vars(RtcReadReturn)

-----------------------------------------------------------------------------
(* Properties *)

(* The chain of parents from terminal t's current PCB, prog_count[t] long. *)
RECURSIVE ParentChain(_, _)
ParentChain(p, n) ==
  IF n <= 0 \/ p \notin Pids THEN <<>>
  ELSE <<p>> \o ParentChain(pcb[p].lastpcb_ptr, n - 1)

Chain(t) == ParentChain(pcb_loc[t], prog_count[t])

(* Process trees.  Whenever user code runs (between two system calls, no  *)
(* execute or switch half done), each terminal's live                      *)
(* processes are the prog_count[t] PCBs reached from pcb_loc[t] through    *)
(* lastpcb_ptr, ending in a shell that is its own parent; these chains are *)
(* disjoint and together are exactly the occupied slots of memoryspace.   *)
(* It ties execute's and halt's bookkeeping (prog_count, memoryspace,     *)
(* pcb_loc, lastpcb_ptr) to each other across terminal switches.          *)
ProcessTreesPartitionSlots ==
  mode = "user" =>
    /\ \A t \in Terms :
         /\ prog_count[t] >= 0
         /\ Len(Chain(t)) = prog_count[t]
         /\ Cardinality(Range(Chain(t))) = prog_count[t]
         /\ prog_count[t] > 0 =>
              LET root == Chain(t)[prog_count[t]] IN pcb[root].lastpcb_ptr = root
    /\ \A t, u \in Terms : t # u => Range(Chain(t)) \cap Range(Chain(u)) = {}
    /\ UNION {Range(Chain(t)) : t \in Terms} = LiveSlots

(* Whenever user code of process p runs, or p spins in terminal_read, the  *)
(* installed page directory and tss.esp0 are p's own and p's slot is      *)
(* occupied.  execute, halt and terminal_switch each set cr3 and esp0 from *)
(* values saved at different times; a mismatch would run p in another     *)
(* process's memory or put its next trap on another process's stack.      *)
(* A switch nested in the tail of another (MAX_NEST > 1) breaks it; the   *)
(* unnested run asks whether anything else does.                          *)
OwnContextInstalled ==
  /\ mode = "user" =>
       esp0 = cur /\ cr3 = cur /\ memoryspace[cur] = 1
  /\ mode = "spin" =>
       LET f == Last(kstack[cur]) IN
         f.kind \in {"read", "rtc"} /\ f.proc = cur /\ esp0 = cur /\ cr3 = cur

(* The process whose code runs is the one the kernel thinks is current on *)
(* the foreground terminal: every system call acts on                     *)
(* pcb_loc[current_terminal].                                             *)
RunningIsCurrent ==
  mode \in {"user", "spin"} => pcb_loc[current_terminal] = IF mode = "user" THEN cur
                                                            ELSE Last(kstack[cur]).proc

(* Whenever user code runs (no execute half done), every live process can *)
(* return to its parent: the esp/ebp that halt will jump to still hold    *)
(* the execute activation that launched it.                               *)
HaltTargetLive ==
  mode = "user" =>
  \A p \in LiveSlots :
    /\ FrameAt(kstack, pcb[p].esp, "exec")
    /\ kstack[pcb[p].esp.stk][pcb[p].esp.depth].proc = p

(* A halt that returns to user mode frees exactly the halting process's   *)
(* slot, resumes the process that executed it (its lastpcb_ptr), and      *)
(* leaves that process as the terminal's current PCB.  This is the       *)
(* contract between halt's jump to the saved esp/ebp and the tail of      *)
(* execute, after any number of terminal switches in between.            *)
HaltReturnsToParent ==
  [][ (mode = "user" /\ mode' = "user" /\ LiveSlots' \subseteq LiveSlots
       /\ LiveSlots' # LiveSlots)
      => /\ LiveSlots \ LiveSlots' = {cur}
         /\ cur' = pcb[cur].lastpcb_ptr
         /\ pcb_loc'[current_terminal] = cur' ]_vars

(* Process p, one of terminal t's processes, is inside a blocking call of *)
(* the given kind (its frame is on a kernel stack, whether the spin runs  *)
(* or an interrupt handler runs above it), and the machine has not faulted.*)
Calling(p, t, kind) ==
  /\ mode # "fault"
  /\ p \in Range(Chain(t))
  /\ \E s \in Stacks : \E i \in DOMAIN kstack[s] :
       kstack[s][i].kind = kind /\ kstack[s][i].proc = p

Reading(p, t) == Calling(p, t, "read")

(* readLine blocks until a newline is committed: a process reading from   *)
(* the foreground terminal t returns once the user presses ENTER there,   *)
(* unless t stops being the foreground terminal first.  It depends on     *)
(* terminal_read spinning on the flag of the terminal it was called on    *)
(* and on the keyboard handler raising the foreground terminal's flag.    *)
ReadLineReturns ==
  \A p \in Pids, t \in Terms :
    (Reading(p, t) /\ current_terminal = t) ~> (~Reading(p, t) \/ current_terminal # t)

(* rtc_read blocks until the next periodic tick: a process waiting on the *)
(* RTC while its terminal t is in the foreground returns, unless t leaves *)
(* the foreground first.  It depends on rtc_handler acknowledging IRQ 8   *)
(* (send_eoi) before anything else can run: rtc_handler re-enables        *)
(* interrupts with sti() before it raises int_flag and sends the EOI, and *)
(* an ALT+F keystroke taken there switches terminals with IRQ 8 still in  *)
(* service.                                                               *)
RtcReadReturns ==
  \A p \in Pids, t \in Terms :
    (Calling(p, t, "rtc") /\ current_terminal = t)
      ~> (~Calling(p, t, "rtc") \/ current_terminal # t)

-----------------------------------------------------------------------------
(* Refinement: ProcessControl implements ProcessTrees.  A terminal's stack *)
(* is its lastpcb_ptr chain read from the root shell up, the foreground    *)
(* terminal is current_terminal, and the kernel has crashed once the CPU   *)
(* sits in the exception handler's loop.                                   *)
Trees == INSTANCE ProcessTrees WITH
           fg <- current_terminal,
           trees <- [t \in Terms |-> Reverse(Chain(t))],
           crashed <- (mode = "fault")

(* Every step of the kernel is a step of the process trees or leaves them *)
(* as they are: an execute pushes one free slot onto the foreground       *)
(* terminal's stack and touches no other terminal, a halt pops exactly    *)
(* the top of the foreground stack, a switch only changes the foreground, *)
(* and the budget of MAX_PROCESSES is never exceeded.  It ties            *)
(* prog_count, pcb_loc and lastpcb_ptr, each updated at a different point *)
(* of execute, halt_ret and terminal_switch, to one another step by step. *)
ProcessTreesRefined == Trees!Spec

=============================================================================
