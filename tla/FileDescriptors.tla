--------------------------- MODULE FileDescriptors ---------------------------
(***************************************************************************)
(* The descriptor table of one PCB slot over the lifetime of the processes *)
(* that use it (syscall.c, pcb.c): execute fills the slot with a fresh PCB *)
(* and the command's argument, the process then calls open, close, read,   *)
(* write, getargs, vidmap and the two signal stubs, and halt closes its    *)
(* descriptors and frees the slot.  read and write dispatch through the    *)
(* descriptor's jump table to fs_*, dir_*, rtc_* or the terminal; the      *)
(* terminal's blocking read is ProcessControl's, so here a terminal call   *)
(* only records that it was made.  The RTC rate register is global state  *)
(* that rtc_open and rtc_write program.                                    *)
(***************************************************************************)
EXTENDS FileSystem, Bitwise, AddressSpaces

CONSTANTS
    FOPS_NUM,       \* descriptors per PCB (pcb.h)
    BUFFASIZE,      \* bytes of the command line execute scans (syscall.h)
    EXECUTABLE,     \* inodes whose first four bytes are the ELF magic
    COMMANDS,       \* command buffers execute may be given
    OPEN_NAMES,     \* file names open may be given
    NBYTES,         \* byte counts read and getargs may be given
    RTC_VALUES,     \* int32 values a user writes to the RTC
    POINTERS        \* user addresses vidmap may be given

VARIABLES
    alive,      \* a process occupies the slot
    fd,         \* pcb->file_desc
    args,       \* pcb->args, up to its first NUL
    rtc_rate,   \* low nibble of RTC register A
    rtc_req,    \* ghost: the rate the latest rtc_open (2) or rtc_write asked for
    fault,      \* "none", or the call whose page fault left the kernel spinning
    delivered,  \* ghost: since open, the bytes fs_read returned on the
                \* descriptor, or the names dir_read returned
    supplied    \* ghost: the command string had an argument after its name

vars == <<alive, fd, args, rtc_rate, rtc_req, fault, delivered, supplied>>

FIRST_FDENTRY == 2
MIN_FDENTRY == 0
MAX_FDENTRY == FOPS_NUM - 1
STDIN_NUM == 0
STDOUT_NUM == 1
Fds == 0..FOPS_NUM - 1
FREQ_MIN == 2
FREQ_MAX == 1024
THEORY_MAX == 32768
TWO_HZ == 15
PROGADDR == 134512640        \* 0x08048000
USER_PAGE == 134217728       \* 128 MB: the user program's 4 MB page
NULLPTR == 0
ARG_SENTINEL == "%"

Ops == {"none", "stdin", "stdout", "fs", "dir", "rtc"}
FdEntry(ops, inode, flags) == [fops |-> ops, inode_ptr |-> inode, file_pos |-> 0, flags |-> flags]
ClosedEntry == FdEntry("none", 0, 0)

\* pcb_init: every entry cleared, then stdin and stdout in use.
InitFds == [i \in Fds |-> CASE i = STDIN_NUM  -> FdEntry("stdin", 0, 1)
                           [] i = STDOUT_NUM -> FdEntry("stdout", 0, 1)
                           [] OTHER          -> ClosedEntry]

\* execute's name scan: the bytes before the first ' ' or NUL, at most BUFFASIZE.
ProgName(cmd) ==
    LET stops == {i \in 1..BUFFASIZE : cmd[i] \in {" ", NUL}}
    IN IF stops = {} THEN SubSeq(cmd, 1, BUFFASIZE) ELSE SubSeq(cmd, 1, Min(stops) - 1)

\* execute's argument copy: from index namelength+1 up to the next NUL,
\* whatever byte ended the name.
ArgsOf(cmd) ==
    LET s    == Len(ProgName(cmd)) + 1
        ends == {j \in s..BUFFASIZE - 1 : cmd[j + 1] = NUL}
    IN SubSeq(cmd, s + 1, IF ends = {} THEN BUFFASIZE ELSE Min(ends))

\* The command string, up to its NUL, has a non-empty tail after a space.
HasArgument(cmd) ==
    LET nul == {i \in 1..BUFFASIZE : cmd[i] = NUL}
        str == IF nul = {} THEN cmd ELSE SubSeq(cmd, 1, Min(nul) - 1)
    IN \E i \in 1..Len(str) - 1 : str[i] = " "

\* (int32_t)buf[0]: the low byte of the user's value as a signed char.
SignedChar(v) == LET b == v % 256 IN IF b >= 128 THEN b - 256 ELSE b

\* rtc_write's loop: halve THEORY_MAX / frequency down to 1, counting.
\* Mutant: the loop runs while temp != 0, one halving too many.
RECURSIVE RateLoopPastOne(_, _)
RateLoopPastOne(temp, rate) ==
    IF temp = 0 THEN rate ELSE RateLoopPastOne(temp \div 2, rate + 1)

RECURSIVE RateLoop(_, _)
RateLoop(temp, rate) == IF temp = 1 THEN rate ELSE RateLoop(temp \div 2, rate + 1)

\* The frequency rtc_write accepts, or -1.
RtcFrequency(v) ==
    LET f == SignedChar(v)
    IN IF f < FREQ_MIN \/ f > FREQ_MAX THEN -1
       ELSE IF (f & (f - 1)) # 0 THEN -1
       ELSE f

\* The periodic-interrupt frequency of a rate value (MC146818).
RateFrequency(rate) == THEORY_MAX \div 2^(rate - 1)

TypeOK ==
    /\ alive \in BOOLEAN
    /\ fault \in {"none", "rtc_write", "getargs", "vidmap"}
    /\ fd \in [Fds -> [fops : Ops, inode_ptr : Inodes,
                       file_pos : 0..NUM_INODES + 1, flags : {0, 1}]]
    /\ rtc_rate \in 0..15
    /\ supplied \in BOOLEAN

Init ==
    /\ alive = FALSE
    /\ fd = InitFds
    /\ args = <<>>
    /\ rtc_rate = 6
    /\ fault = "none"
    /\ rtc_req = 0
    /\ delivered = [i \in Fds |-> <<>>]
    /\ supplied = FALSE

\* A page fault in the kernel: the handler prints and spins (idt.c).
Crash(call) ==
         /\ fault' = call
         /\ UNCHANGED <<alive, fd, args, rtc_rate, rtc_req, delivered, supplied>>

(***************************************************************************)
(* execute, the part that fills the PCB: the empty-command check, the name *)
(* scan and lookup, the ELF magic check, pcb_init and setup_pcb, and the   *)
(* argument copy.  Its budget test, slot search and context switch are     *)
(* ProcessControl's Execute.                                               *)
(***************************************************************************)
ExecFails(cmd) ==
    \/ cmd[1] = NUL
    \/ ReadDentryByName(ProgName(cmd)) = {}
    \/ \E d \in ReadDentryByName(ProgName(cmd)) : d.inode \notin EXECUTABLE

Execute(cmd) ==
    /\ ~alive /\ fault = "none"
    /\ \/ /\ ExecFails(cmd)
          /\ UNCHANGED vars
       \/ /\ ~ExecFails(cmd)
          /\ alive' = TRUE
          /\ fd' = InitFds
          /\ args' = ArgsOf(cmd)
          /\ delivered' = [i \in Fds |-> <<>>]
          /\ supplied' = HasArgument(cmd)
          /\ UNCHANGED <<rtc_rate, rtc_req, fault>>

\* close(fd): out of 2..7 or not in use: -1; otherwise clear the entry.
CloseEntry(i) ==
    /\ fd' = [fd EXCEPT ![i] = ClosedEntry]
    /\ delivered' = [delivered EXCEPT ![i] = <<>>]

Close(i) ==
    /\ alive /\ fault = "none"
    /\ \/ /\ IF i \in FIRST_FDENTRY..MAX_FDENTRY THEN fd[i].flags = 0 ELSE TRUE
          /\ UNCHANGED vars
       \/ /\ i \in FIRST_FDENTRY..MAX_FDENTRY /\ fd[i].flags = 1
          /\ CloseEntry(i)
          /\ UNCHANGED <<alive, args, rtc_rate, rtc_req, fault, supplied>>

\* halt: close(2) .. close(FOPS_NUM-1), then the slot is freed.
Halt ==
    /\ alive /\ fault = "none"
    /\ alive' = FALSE
    /\ fd' = [i \in Fds |-> IF i >= FIRST_FDENTRY THEN ClosedEntry ELSE fd[i]]
    /\ delivered' = [i \in Fds |-> IF i >= FIRST_FDENTRY THEN <<>> ELSE delivered[i]]
    /\ UNCHANGED <<args, rtc_rate, rtc_req, fault, supplied>>

(***************************************************************************)
(* open: the slot scan leaves empty uninitialized when 2..7 are all in     *)
(* use, and the code then tests empty != i with i = FOPS_NUM.  The stale   *)
(* value is either some other number (open fails) or FOPS_NUM, in which    *)
(* case the entry is written one past the table and FOPS_NUM returned.     *)
(* file_desc is the last field of the PCB, which sits at the bottom of     *)
(* the process's 8 KB kernel-stack block, so that write lands in the       *)
(* stack's deep end, which no modelled state holds: only the returned fd   *)
(* (outside 0..7, refused by every later call) is kept.                    *)
(***************************************************************************)
Install(e, ops, inode, name) ==
    /\ fd' = IF e \in Fds THEN [fd EXCEPT ![e] = FdEntry(ops, inode, 1)] ELSE fd
    /\ delivered' = IF e \in Fds THEN [delivered EXCEPT ![e] = <<>>] ELSE delivered

\* rtc_open: rtc_init, then register A's rate set to 2 Hz.
RtcOpen ==
    /\ rtc_rate' = TWO_HZ
    /\ rtc_req' = 2

OpenAt(e, name) ==
    \/ /\ ReadDentryByName(name) = {}
       /\ UNCHANGED vars
    \/ \E d \in ReadDentryByName(name) :
          \/ /\ d.type = 0
             /\ Install(e, "rtc", 0, name)
             /\ RtcOpen
             /\ UNCHANGED <<alive, args, fault, supplied>>
          \/ /\ d.type = 1
             /\ Install(e, "dir", 0, name)
             /\ UNCHANGED <<alive, args, rtc_rate, rtc_req, fault, supplied>>
          \/ /\ d.type = 2
             /\ Install(e, "fs", d.inode, name)
             /\ UNCHANGED <<alive, args, rtc_rate, rtc_req, fault, supplied>>
          \/ /\ d.type \notin {0, 1, 2}
             /\ UNCHANGED vars

FreeFds == {i \in FIRST_FDENTRY..FOPS_NUM - 1 : fd[i].flags = 0}

Open(name) ==
    /\ alive /\ fault = "none"
    /\ \/ /\ name = <<>>
          /\ UNCHANGED vars
       \/ /\ name # <<>> /\ FreeFds # {}
          /\ OpenAt(Min(FreeFds), name)
       \/ /\ name # <<>> /\ FreeFds = {}
          /\ \/ UNCHANGED vars
             \/ OpenAt(FOPS_NUM, name)

(***************************************************************************)
(* read and write: fd out of 0..7, a free entry, or the wrong direction    *)
(* fails; otherwise the call goes through the entry's jump table.          *)
(***************************************************************************)
Usable(i, wrongway) ==
    i \in MIN_FDENTRY..MAX_FDENTRY /\ fd[i].flags = 1 /\ i # wrongway

\* fs_read or dir_read's result r applied to descriptor i.
Delivered(i, r) ==
    /\ fd' = [fd EXCEPT ![i].file_pos = r.pos]
    /\ delivered' = [delivered EXCEPT ![i] =
                        CASE fd[i].fops = "fs" -> @ \o r.bytes
                          [] r.ret > 0 \/ r.pos # fd[i].file_pos -> Append(@, r.bytes)
                          [] OTHER -> @]
    /\ UNCHANGED <<alive, args, rtc_rate, rtc_req, fault, supplied>>

Read(i, nbytes, nullbuf) ==
    /\ alive /\ fault = "none"
    /\ \/ /\ ~Usable(i, STDOUT_NUM)
          /\ UNCHANGED vars
       \/ /\ Usable(i, STDOUT_NUM)
          /\ CASE fd[i].fops = "stdin" -> UNCHANGED vars
               [] fd[i].fops = "rtc"   -> UNCHANGED vars
               [] nullbuf              -> UNCHANGED vars
               [] fd[i].fops = "fs"    -> Delivered(i, FsRead(fd[i], nbytes))
               [] fd[i].fops = "dir"   ->
                     \E d \in ReadDentryByIndex(fd[i].file_pos) :
                        Delivered(i, DirRead(fd[i], nbytes, d))

\* rtc_write: buf[0] is read before any check, so a NULL buffer faults.
RtcWrite(i, v, nullbuf) ==
    \/ /\ nullbuf
       /\ Crash("rtc_write")
    \/ /\ ~nullbuf /\ RtcFrequency(v) = -1
       /\ rtc_req' = v
       /\ UNCHANGED <<alive, fd, args, rtc_rate, fault, delivered, supplied>>
    \/ /\ ~nullbuf /\ RtcFrequency(v) # -1
       /\ rtc_rate' = RateLoop(THEORY_MAX \div RtcFrequency(v), 1)
       /\ rtc_req' = v
       /\ UNCHANGED <<alive, fd, args, fault, delivered, supplied>>

Write(i, v, nullbuf) ==
    /\ alive /\ fault = "none"
    /\ \/ /\ ~Usable(i, STDIN_NUM)
          /\ UNCHANGED vars
       \/ /\ Usable(i, STDIN_NUM) /\ fd[i].fops \in {"stdout", "fs", "dir"}
          /\ UNCHANGED vars
       \/ /\ Usable(i, STDIN_NUM) /\ fd[i].fops = "rtc"
          /\ RtcWrite(i, v, nullbuf)

NoArgument == IF args = <<>> THEN TRUE ELSE args[1] = ARG_SENTINEL

\* getargs: memcpy of nbytes from args to buf, which is not checked; a
\* negative count copies ~4 GB and runs off the mapped memory, and a NULL
\* buf is a store to address 0 under the caller's directory.
Getargs(nbytes, nullbuf) ==
    /\ alive /\ fault = "none"
    /\ \/ /\ nbytes = 0 \/ NoArgument
          /\ UNCHANGED vars
       \/ /\ nbytes # 0 /\ ~NoArgument
          /\ IF nbytes < 0 \/ (nullbuf /\ ~KernelWritable(ProgInit(0), NULLPTR))
             THEN Crash("getargs") ELSE UNCHANGED vars

\* The 4-byte store *screen_start, made by the kernel under the caller's
\* directory, succeeds when every byte is mapped writable.  All six
\* progN_init directories lay out the same virtual addresses, so the
\* first slot's stands for the caller's.
Mapped(p) == \A b \in 0..3 : KernelWritable(ProgInit(0), p + b)

\* vidmap's two checks.
VidmapAccepts(p) == p # NULLPTR /\ p >= PROGADDR /\ p <= PROGADDR + FOUR_MB

Vidmap(p) ==
    /\ alive /\ fault = "none"
    /\ \/ /\ ~VidmapAccepts(p)
          /\ UNCHANGED vars
       \/ /\ VidmapAccepts(p)
          /\ IF Mapped(p) THEN UNCHANGED vars ELSE Crash("vidmap")

\* set_handler and sigreturn return -1.
SignalStub(call) ==
    /\ alive /\ fault = "none"
    /\ UNCHANGED vars

FaultSpin == fault # "none" /\ UNCHANGED vars

FdArgs == -1..FOPS_NUM

Next ==
    \/ \E c \in COMMANDS : Execute(c)
    \/ Halt
    \/ \E n \in OPEN_NAMES : Open(n)
    \/ \E i \in FdArgs : Close(i)
    \/ \E i \in FdArgs, n \in NBYTES, b \in BOOLEAN : Read(i, n, b)
    \/ \E i \in FdArgs, v \in RTC_VALUES, b \in BOOLEAN : Write(i, v, b)
    \/ \E n \in NBYTES, b \in BOOLEAN : Getargs(n, b)
    \/ \E p \in POINTERS : Vidmap(p)
    \/ \E c \in {"set_handler", "sigreturn"} : SignalStub(c)
    \/ FaultSpin

Spec == Init /\ [][Next]_vars
-----------------------------------------------------------------------------
(***************************************************************************)
(* Properties.                                                             *)
(***************************************************************************)

\* fs_read through a descriptor: its file_pos counts exactly the bytes the
\* reads since open returned, and while it has not passed the end of the
\* file those bytes are the file's first file_pos bytes, in order, however
\* the reads were split (read_data's block/offset walk and fs_read's
\* cursor update together).
FileCursorMatchesDelivered ==
    \A i \in Fds : fd[i].flags = 1 /\ fd[i].fops = "fs" =>
        LET e == fd[i] IN
        /\ Len(delivered[i]) = e.file_pos
        /\ e.file_pos <= InodeLength(e.inode_ptr) =>
               delivered[i] = SubSeq(FileContent(e.inode_ptr), 1, e.file_pos)

\* dir_read through a descriptor lists the directory in order: the k-th
\* read that returned a name or moved the cursor returned a prefix of
\* entry k-1, one entry per read, and file_pos counts those reads.
DirListingInOrder ==
    \A i \in Fds : fd[i].flags = 1 /\ fd[i].fops = "dir" =>
        /\ Len(delivered[i]) = fd[i].file_pos
        /\ \A k \in 1..Len(delivered[i]) :
              k - 1 < MAX_FILES /\ IsPrefix(delivered[i][k], DIRECTORY[k - 1].name)

\* After an rtc_open or an rtc_write that succeeded, the RTC interrupts at
\* the frequency that call set: rtc_write's rate loop turns the frequency
\* into the register-A rate that produces it.
RtcRunsAtAcceptedRequest ==
    RtcFrequency(rtc_req) # -1 => RateFrequency(rtc_rate) = RtcFrequency(rtc_req)

\* Every byte fs_read hands back is a byte of the file, read in order
\* (spec 4.4: a regular-file read returns the bytes copied and 0 at EOF).
FileReadStaysInFile ==
    \A i \in Fds : fd[i].flags = 1 /\ fd[i].fops = "fs" =>
        IsPrefix(delivered[i], FileContent(fd[i].inode_ptr))

\* getargs succeeds only for a process whose command line had an argument
\* (spec 5: getargs fails if no argument was supplied); execute's copy
\* fills pcb->args.
GetargsOnlyWithArgument ==
    alive /\ ~NoArgument => supplied
====
