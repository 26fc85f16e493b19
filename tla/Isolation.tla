------------------------------ MODULE Isolation ------------------------------
(***************************************************************************)
(* ProcessControl composed with AddressSpaces: the page directory cr3      *)
(* names is the one paging.c built for it (execute's progN_init for slot   *)
(* c, paging_init's for the boot stack), so every state of ProcessControl  *)
(* has a concrete address space.  The properties are about what that       *)
(* address space lets the running code touch.                              *)
(***************************************************************************)
EXTENDS ProcessControl, AddressSpaces

B_BUF == {150994944, 152043520, 153092096}   \* B_BUF_1..3: 144, 145, 146 MB
VID_MEM_SIZE == 4096

\* The directory a cr3 value selects: execute's
\* "if pid == 0 prog1_init() else if ..." and paging_init's at boot;
\* a zero cr3 selects nothing.
Dir(c) ==
    CASE c \in Pids     -> ProgInit(c)
      [] c = KERNEL_PD  -> PagingInit
      [] OTHER          -> [i \in {} |-> Absent]

\* Every page table holds at most two kinds of entry, entry 0 and the rest,
\* so the first two pages of each present 4 MB region show every
\* translation the directory makes.
Probes(dir) == {i * FOUR_MB + k * PAGE_SIZE : i \in DOMAIN dir, k \in {0, 1}}

UserFrames(dir) ==
    {Translate(dir, va).frame : va \in {v \in Probes(dir) : Translate(dir, v).user}}

\* Whether the kernel can write every byte terminal_switch copies: the
\* three background buffers and video memory, VID_MEM_SIZE bytes each.
BuffersMapped(dir) ==
    \A va \in B_BUF \cup {VIDMEM} :
        KernelWritable(dir, va) /\ KernelWritable(dir, va + VID_MEM_SIZE - 1)

\* The directories are fixed tables, so both are computed once per cr3.
CR3s == Pids \cup {KERNEL_PD}
FramesOf == [c \in CR3s |-> UserFrames(Dir(c))]
MappedOf == [c \in CR3s |-> BuffersMapped(Dir(c))]

-----------------------------------------------------------------------------
(* Address-space isolation.  While user code of process p runs, no address *)
(* it can reach lands in the kernel's 4-8 MB page (the kernel stacks and   *)
(* the PCBs) or in the 4 MB page of another live process.  It rests on      *)
(* execute, halt and terminal_switch installing p's directory and on each  *)
(* progN_init mapping its own slot's frame; a second ALT+F taken while the *)
(* tail of terminal_switch or the relaunched execute runs with IF = 1     *)
(* leaves a PCB whose saved context and directory belong to another       *)
(* process, and the restore at keyboard.c:493-500 installs them.          *)
UserIsolation ==
    mode = "user" =>
        \A f \in FramesOf[cr3] :
            /\ ~(FOUR_MB <= f /\ f < EIGHT_MB)
            /\ \A q \in LiveSlots \ {cur} :
                   ~(UserFrame(q) <= f /\ f < UserFrame(q) + FOUR_MB)

(* Whenever a keyboard interrupt can arrive (user code, a read spin,       *)
(* rtc_handler after its sti(), or the tail of terminal_switch and the    *)
(* relaunched execute, which run after the EOI at keyboard.c:471 with     *)
(* IF = 1), the installed directory maps the three                        *)
(* background buffers and video memory for the kernel: terminal_switch    *)
(* copies between them under whatever cr3 the interrupt found.            *)
SwitchBuffersMapped ==
    mode \in {"user", "spin", "isr", "kern"} => MappedOf[cr3]
====
