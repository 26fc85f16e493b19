# TLA+ models of the ECE391 teaching kernel

These are TLA+ models of the kernel core in `src/`, checked with TLC. It is a
single-CPU, protected-mode kernel. It loads programs from a read-only file store and
runs each program in its own 4 MB address space. It multiplexes three terminals and
serves ten system calls.

## 1. The system

### Parts and how they interact

| Part | Source | State it owns |
|---|---|---|
| Execution control | `syscall.c` `execute`, `halt` | `prog_count[3]`, `memoryspace[6]`, `pcb_loc[3]`, `prev_pcb[3]` |
| PCB store | `pcb.c` | PCBs at `8MB - (pid+1)*8KB`: parent pointer, saved `esp/ebp/pagedir` (for halt), saved `curr_esp/curr_ebp/curr_pd` (for terminal switches), fd table, args, status |
| Terminal multiplexer | `keyboard.c` | `current_terminal`, per-terminal `functionflags` (CTRL, SHIFT, CAPS, ALT), `enter_flag`, `read_flag`, line buffers, video back-buffers |
| File-descriptor layer | `syscall.c` `open/close/read/write/getargs/vidmap` | fd table in the current PCB |
| RTC driver | `rtc.c` | `int_flag` (global), RTC rate |
| Address spaces | `paging.c` | one page directory per slot (`prog1_pd`..`prog6_pd`), shared kernel 4 MB page, video page |
| File store | `filesys.c` | read-only boot image |
| Scheduler | `sched.c` | run/expired queues. It is dead code: `pit.c:39` has the call to `scheduler()` commented out and nothing calls `add_prog_to_queue`. It is not modelled. |
| Interrupts | `idt.c`, `i8259.c`, `pit.c` | IDT gates, PIC masks and in-service bits |

A process runs in user mode until it traps. A trap is one of:

- a system call (`int 0x80`). Its gate is an interrupt gate (`reserved3 = 0`,
  `idt.c:396`), so the call runs with IF = 0;
- a keyboard, PIT or RTC interrupt. These gates are trap gates (`reserved3 = 1`,
  `idt.c:363,374,385`), so the handler runs with IF = 1. The next interrupt of the same
  line, and of lower-priority lines, is held back only by the 8259's in-service bit,
  until the handler's `send_eoi`;
- a fault.

The processor enters the kernel at the top of the kernel stack that `tss.esp0` names.
The execute/halt pair and the terminal switch hand control between processes by
rewriting esp, ebp and cr3 directly:

- **execute** saves the caller's esp/ebp/cr3 into the *child's* PCB. It sets
  `tss.esp0` and cr3 for the child and `iret`s to it.
- **halt** reloads the saved esp/ebp/cr3 and jumps to `halt_ret` inside the parent's
  `execute`. Execute's tail then moves `pcb_loc` back to the parent and returns.
- **terminal_switch** runs inside the keyboard handler when ALT+F1..F3 is pressed.
  - It saves the current esp/ebp in the outgoing PCB's `curr_esp/curr_ebp`.
  - It then either restores the target terminal's saved context, or, if that terminal
    has no process, runs `while(1) execute("shell")` right there, on the current
    kernel stack.
- **terminal_read** and **rtc_read** call `sti()` and busy-wait. **rtc_handler**
  calls `sti()` on entry, before it raises `int_flag` and sends its EOI.
- **After its EOI** (`keyboard.c:471`), the rest of `terminal_switch` runs with IF = 1,
  and so does the `execute("shell")` it starts, up to execute's `cli`
  (`syscall.c:270`). A second ALT+F can therefore cut into a switch's tail or into a
  relaunched execute.

So interrupts, and terminal switches with them, can cut into user code, the two read
spins, `rtc_handler` past its `sti()`, the tail of `terminal_switch` and the relaunched
execute. A system call entered by `int 0x80` runs with IF = 0 until it `iret`s or
reaches one of those `sti()`s.

### Hard behaviours

- **Interleavings of interrupts with blocking reads.** A switch can cut into a read spin
  and save that spin as the outgoing terminal's context.
- **Kernel stacks shared between contexts.** A shell started by a switch has its
  execute activation on someone else's stack. Any trap from user mode starts at the top
  of the `tss.esp0` stack and overwrites what was there.
- **Budget exhaustion** (6 processes over all terminals) during execute and during a
  switch to an empty terminal.
- **NULL `pcb_loc`** for a terminal that never had a process.
- **A global `int_flag`** shared by all RTC readers, never cleared before a wait.
- **A keyboard interrupt inside a switch.** A second ALT+F inside the tail of
  `terminal_switch`, or inside the execute it relaunched, saves and restores contexts
  through a PCB that is half built.
- **A nested keyboard interrupt inside `rtc_handler`.** IRQ 1 outranks the cascade
  IRQ 2, so ALT+F can run `terminal_switch` while IRQ 8 is still in service; the
  switch resumes another context and the handler's EOI waits until it is resumed.
- **Keyboard state kept per terminal.** A modifier's flag is set and cleared on
  whichever terminal is in the foreground when its make or break code arrives, and
  every handler path must send the keyboard EOI, even the switch that never returns.
- **Processor faults.** They are not recoverable: every handler prints and spins
  forever (`idt.c`).

## 2. Modules

### `ProcessControl.tla` (core)

This module covers execute, halt, the PCB fields that carry control, the terminal
switch, the terminal and RTC read spins, and the interrupts that can reach them.

**Constants.**

- `NUMTERMINALS` and `MAX_PROCESSES` come from `keyboard.h` and `syscall.h`.
- `NULL` is a model value.

**State.** The code's globals keep their names: `current_terminal`, `prog_count`,
`memoryspace`, `pcb_loc`, `enter_flag`, `int_flag`. The remaining variables:

- `pcb[p]` holds `lastpcb_ptr`, `esp` (esp/ebp saved by execute), `pagedir`,
  `curr_esp` (esp/ebp saved by a switch) and `curr_pd`.
- `kstack[s]` is a sequence of activation frames on kernel stack `s`. The stacks are
  one per slot plus the boot stack. A frame is one of:
  - `exec`: an execute parked at `halt_ret`, with the child it launched and its caller;
  - `kbd`: a keyboard handler inside `terminal_switch`, with the statement of its
    tail it is at (`pc`) and the user process it interrupted, if any;
  - `xq`: an `execute("shell")` started by a switch's relaunch loop, with its `pc`,
    the slot it claimed and its `temp` parent;
  - `read`: terminal_read spinning;
  - `rtc`: rtc_read spinning;
  - `irq`: rtc_handler past its `sti()`, with the user process it interrupted (or
    none, for a spin) and whether it has raised `int_flag` yet;
  - `halt`.
- A saved esp/ebp pair is a context `[stk, depth]`. Restoring one pops the frames above
  it.
- A trap from user mode starts with the stack `tss.esp0` names emptied.
- `esp0` and `cr3` are the stack and page directory that are installed. A page
  directory is named by its slot.
- `rtc_isr` is the PIC's in-service bit for IRQ 8: set when the RTC interrupt is
  taken, cleared by `rtc_handler`'s `send_eoi`. While it is set no RTC interrupt is
  delivered.
- `mode` is one of `user`, `spin`, `isr` (rtc_handler after its `sti()`), `kern`
  (the tail of a switch, or a relaunched execute, both with IF = 1), `loop` (kernel
  main's shell-relaunch loop) or `fault`.
- `cur` is the running pid, or the stack the kernel runs on.

**Actions.** A system call runs with IF = 0 and is one action, up to the point where
it returns or reaches an `sti()`. A keyboard interrupt up to its EOI is one action,
because IRQ 1's in-service bit holds back the next key, and IRQ 8 is behind the
cascade. The code that runs with IF = 1 is split into one action per statement that
changes state. Any interrupt may come between two of them:

- `rtc_handler`, at its `sti()` (`RtcInterrupt`, `RtcSignal`, `RtcHandlerReturn`);
- the tail of `terminal_switch` after its EOI (`SwitchTest`, `SwitchEsp0`,
  `SwitchRestore`, together `SwitchTail`);
- the `execute("shell")` it relaunches, statement by statement up to its `cli`
  (`ExecBudgetTest` .. `ExecIret`, together `RelaunchStep`). The code between two
  steps that only reads or writes the new PCB's fields is taken with the step before.

Every step of a tail re-reads `current_terminal`, which a nested switch may have
changed. `MAX_NEST` bounds the keyboard frames on the running stack: a switch is taken
in kernel code only while fewer than `MAX_NEST` are there. With `MAX_NEST = 1`, no
switch is taken inside another switch's tail or its relaunched execute.

| Action | Code |
|---|---|
| `Relaunch` | kernel main's `while(1) execute("shell")` loop (IF = 0, see `Init`) |
| `SysExecute` (`Execute`) | `execute`: budget test, slot search, parent choice, `pcb_init`/`setup_pcb`, saves, `progN_init`, `tss.esp0`, `iret` |
| `SysHalt` (`ResumeAfterHalt`) | `halt` and execute's tail after `halt_ret` |
| `SysReadStdin`, `TerminalReadReturn` | `terminal_read` |
| `SysReadRtc`, `RtcReadReturn` | `rtc_read` |
| `SysDescriptorCall` | the other calls: their `pcb_loc[current_terminal]` dereference |
| `UserInterrupt` | `pit_handler` and plain keys |
| `RtcInterrupt` | IRQ 8 taken, `rtc_handler` entered up to `sti()`/`enable_irq` |
| `RtcSignal` | `int_flag = HIGH` and the register-C read |
| `RtcHandlerReturn` | `send_eoi(RTC)` (`i8259.c`) and the return into the interrupted context |
| `EnterKey`, `EnterRelease` | keyboard ENTER / ENTERRELEASE |
| `TerminalSwitch(t)` | ALT+F*n* → `terminal_switch` up to `send_eoi` (`keyboard.c:411-471`): no-op, the NULL save, or save `curr_esp` and set `current_terminal` |
| `SwitchTest` | lines 473-488: relaunch loop, the budget return, or go on |
| `SwitchEsp0` | lines 490-491: `tss.esp0` from `pcb_loc[current_terminal]` |
| `SwitchRestore` | lines 492-503: esp/ebp/cr3 from that PCB and return into the saved switch's handler |
| `ExecBudgetTest` .. `ExecIret` | `execute` lines 107-290, one step per statement that changes shared state: budget test, `prog_count++`, slot search, `memoryspace` claim, `pcb_loc`, `prev_pcb`/`setup_pcb`, saves, `progN_init`, `tss.esp0`, `curr_*`, `cli` and `iret` |
| `FaultSpin` | the exception handlers' `while(1)` |

**Undefined behaviour.** A NULL dereference, or a jump or `ret` to a context whose
frame is no longer on its stack, becomes `mode = "fault"`. For a dead frame the code's
behaviour is undefined, and the fault is the outcome the model chooses.

The command's validity stands in for parsing, file lookup and the ELF check. It is a
nondeterministic choice.

`Init` is the state kernel main sets up: the globals' initializers and a relaunch
loop on the boot stack. `kernel.c` is not in the repository, so that loop is
modelled from the spec, and it is taken to run with IF = 0 (as a system call does)
and `cr3` the boot directory. With IF = 1 there, a switch at boot would run the
background-buffer copies under the boot directory, which does not map them.

**Frame-depth abstraction.** `SwitchRestore` checks that the saved `curr_esp` still
names a keyboard frame. If the frame was popped or overwritten, the `return 0`
leaves through garbage, and the model takes the fault.

### `FileSystem.tla`

This module holds the read-only boot image and the `filesys.c` routines that read it.

- **The image is constants.** It has `DIRECTORY` (name, type, inode of each of the
  `MAX_FILES` entries), `INODE_LENGTH`, `INODE_BLOCKS` (the used prefix of each inode's
  `blocks[]`), `BLOCK_FILL` (what the unused entries hold), `NUM_INODES` and
  `NUM_DATA_BLOCKS`.
- **A byte is the token `<<block, offset>>`.** So a byte a read returns is identified
  by where it came from, and a byte of another file's block is visible.
- **Names** are sequences of one-character strings. A name of the full `NAME_SIZE` has
  no NUL, and `strlen` runs on into the type field (`DentryStrlen`).
- **32-bit arithmetic.** A `uint32_t` is held as its int32 reading (2^32 - 1 is -1), and
  `ULess` is the unsigned comparison. A negative `nbytes` from `read` therefore reaches
  `read_data` as a huge length, and `offset + length` wraps, as in the code.

The routines map to operators as follows:

| Operator | Code |
|---|---|
| `CopyLoop` (RECURSIVE) | `read_data`'s copy loop with its two breaks, in order |
| `ReadData` | `read_data`: argument checks, the `offset > filelength` EOF test, the clamp |
| `ReadDentryByName`, `StrnEq` | `read_dentry_by_name`: first entry agreeing in `NAME_SIZE - 1` bytes |
| `ReadDentryByIndex` | `read_dentry_by_index`: refuses only `index > num_inodes`; indices from `MAX_FILES` up read the block after the boot block, whose bytes (`OOB_NAMES`) the image does not fix, a nondeterministic choice |
| `FsRead`, `DirRead` | `fs_read`, `dir_read`: result `[ret, bytes, pos]` |

`fs_open/close/write` and `dir_open/close/write` return constants and change nothing.

### `FileDescriptors.tla`

This module models the descriptor table of one PCB slot over the processes that
occupy it in turn. Its variables:

- `alive` says whether a process holds the slot.
- `fd` is `pcb->file_desc`: the jump table as a kind, `inode_ptr`, `file_pos` and
  `flags`.
- `args` is `pcb->args`.
- `rtc_rate` is RTC register A's rate nibble, which is global.
- `fault` is set when a page fault in the kernel leaves it spinning.

The actions are:

- `Execute`: the empty-command check, name scan, lookup and ELF check (`ExecFails`),
  then `pcb_init`/`setup_pcb` and the argument copy (`ArgsOf`).
- `Open`: the slot scan and the type switch. `RtcOpen` is `rtc_open`.
- `Close`.
- `Read` and `Write`, through the jump table to `FsRead`, `DirRead` or `RtcWrite`.
- `Getargs`, `Vidmap`, `SignalStub` and `Halt` (halt's close loop).

The budget test, slot choice and context switch of `execute` and `halt` are
ProcessControl's. Terminal reads and writes change no state here.

**Uninitialized index.** When descriptors 2..7 are in use, `open` reads an
uninitialized `empty` (`syscall.c:391`). The model takes both outcomes the build can
produce: any other number (open fails), or `FOPS_NUM`. In that case the entry is
written one past the table and `FOPS_NUM` is returned. `file_desc` is the PCB's last
field, and the PCB sits at the bottom of the process's 8 KB kernel-stack block, so
that stray write lands in the deep end of the process's own kernel stack. No modelled
state holds that, so `Install` keeps only the returned number, which every later call
refuses.

**`getargs`** copies `nbytes` with no check. A negative count copies about 4 GB and
faults. A NULL `buf` is a store to page 0, which `paging.c:122` leaves not present
(`KernelWritable(ProgInit(0), 0)` is false), so it faults too.

**Ghost variables** record what the properties talk about:

- `delivered`: the bytes or names a descriptor's reads returned;
- `opened`: the name a descriptor was opened under;
- `rtc_req`: the last requested rate;
- `supplied`: whether the command had an argument.

### `AddressSpaces.tla`

The page directories of `paging.c` and the x86 two-level walk, as operators; it has
no variables. An entry keeps the bits the code sets that decide a translation:
present, rw, user, 4 MB size, and the frame or page table.

| Operator | Code |
|---|---|
| `LowPte`, `VidPte`, `TermPte`, `Pte` | `page_table`/`progN_pt` (entry 0 cleared), `vid_table`/`progN_vt`, `progN_term` |
| `PagingInit` | `paging_init`'s `page_directory` (no terminal-buffer table) |
| `ProgInit(s)` | `prog1_init` .. `prog6_init`: one function copied six times, differing only in the user-page base `UserFrame(s) = 8MB + 4MB*s` |
| `Translate`, `KernelWritable`, `UserWritable` | the MMU: a user access needs the user bit at both levels |

FileDescriptors uses it for `vidmap`'s pointer check (`Mapped`).

### `Isolation.tla`

ProcessControl composed with AddressSpaces: the directory named by `cr3` is
`ProgInit(cr3)` for a slot and `PagingInit` for the boot directory. Two invariants
are checked over every state ProcessControl reaches:

- `UserIsolation`: whenever user code runs, every user-accessible frame of the
  installed directory is the running process's own 4 MB page or video memory: never
  the kernel page, never another live process's page.
- `SwitchBuffersMapped`: whenever a keyboard interrupt can run `terminal_switch`
  (user mode, the spins, `rtc_handler`, and a switch tail or relaunched execute,
  which run with IF = 1), the background buffers it copies to and from at 144 MB
  (`B_BUF_1..3`) and video memory are mapped writable under `cr3`.

Each 4 MB region is probed at its first two pages. That covers every translation,
because each page table has only an entry-0 kind and a "rest" kind.

### `TerminalLine.tla`

The line discipline of `keyboard.c`: the keyboard buffers that the keyboard handler
fills and `terminal_read` drains. IRQ 1's in-service bit holds the next key back
until the handler's EOI, so each key is one step. `terminal_read` calls `sti()` and never `cli()`, so it is one step per
statement, and any key may come between two of them. Its process runs only while its
terminal is in the foreground, because a switch saves its context. ProcessControl
models that hand-off; here a reader's step is enabled only when
`current_terminal = t`.

| Variable | Code |
|---|---|
| `keyboardbuffer` | `keyboardbuffer[NUMTERMINALS][BUFFERSIZE]`, kept flat: an index past a row lands in the next terminal's row, and past the last row outside the array (recorded in the ghost `spill`) |
| `bufferindex`, `enter_flag`, `read_flag`, `current_terminal` | the globals of the same names |
| `tr[t]` | terminal t's `terminal_read` activation: statement (`pc`), `nbytes`, and the bytes copied to `buf` |
| `typed`, `first` (ghosts) | the line the user is typing, and the first line they committed with ENTER since the read began |

| Action | Code |
|---|---|
| `KeyChar(c)` | printable key: dropped at a full row, else stored and `bufferindex++` (`keyboard.c:242-276`) |
| `Backspace` | `bufferindex--` unless 0, then the byte there is zeroed (111-151) |
| `EnterKey` | `'\n'` stored at `bufferindex` with no bound check, `bufferindex++`, `enter_flag` ON, and `clear_keyboard_buffer` if `read_flag` is OFF (153-171) |
| `EnterRelease`, `TerminalSwitch(t)` | ENTER release (172-175); ALT+F1..F3 (177-192) |
| `ReadCall` .. `ReadReturn` | `terminal_read` lines 312-326, 328, 329, 331, 340-341, 342, 348, 350 |

`clear_keyboard_buffer` ignores its argument and clears `current_terminal`'s row
(`Cleared`). The copy loop reads the byte twice, once to copy it (line 340) and
once to test for `'\n'` (342). The array is not `volatile`, so `ReadTest` lets the
test see either the copied byte or a fresh load.

Characters are model values. Which key, shift or caps lock produced a character
does not matter to any property. Echo and cursor layout are left out.

### `ProcessTrees.tla` (abstract) and the refinement

This is what execution control promises (spec 4.3 and 4.5), with no stacks, contexts
or page directories.

- Each terminal owns a stack of processes, root shell first.
- `Launch(p)` pushes a free slot p onto the foreground terminal's stack. It is not
  enabled once `MAX_PROCESSES` slots are live.
- `Exit` pops the top of the foreground stack.
- `Switch(t)` changes only the foreground terminal.
- `Crash` stops everything for good.

At the end of `ProcessControl.tla`, `Trees == INSTANCE ProcessTrees WITH ...` maps the
kernel onto it:

| Abstract | Refinement mapping |
|---|---|
| `fg` | `current_terminal` |
| `trees[t]` | `Reverse(Chain(t))`: the `lastpcb_ptr` chain from `pcb_loc[t]`, `prog_count[t]` long, read from the root up |
| `crashed` | `mode = "fault"` (ProcessControl's `Fault` changes nothing else, so the trees stay as they were) |

`ProcessTreesRefined == Trees!Spec` is checked as a PROPERTY. Every kernel step must
be a step of the abstract spec, or leave the abstract state as it is:

- an execute, whether from a shell, from the relaunch loop or from a switch to an
  empty terminal, is a `Launch`;
- a halt is an `Exit`;
- a terminal switch is a `Switch`;
- traps, spins and RTC steps leave the trees unchanged.

`ProcessTreesPartitionSlots` says the chains are well formed in each state. The
refinement also says how they may change from one step to the next.

### `KeyboardHandler.tla`

This models `keyboard_handler`'s dispatch on the scancode: the modifier flags kept
per terminal, and ALT+F1..F3 into `terminal_switch` with every way that leaves the
handler. The keyboard gate is a trap gate (`idt.c:374`), so the handler runs with
IF = 1; IRQ 1's in-service bit holds the next key back until its `send_eoi`. So a key
up to its EOI is one step, and so is `terminal_switch` up to its EOI at
`keyboard.c:471`. What follows the EOI runs with interrupts on. It is ProcessControl's
`SwitchTail` and `RelaunchStep`, where a nested switch is modelled. Its one effect on
this module's variables, the new shell's `prog_count++`, is taken here with the
switch.

| Variable or action | Code |
|---|---|
| `current_terminal`, `functionflags` | the globals of `keyboard.c` (lines 11-31) |
| `shell` | the terminals with `prog_count[t] != 0` |
| `held` (ghost) | the modifier keys the user holds down |
| `acked` (ghost) | the `send_eoi(KEYBOARD)` calls made for the last key |
| `Press(m)`, `Release(m)` | the ALT, SHIFT and CTRL make and break cases (lines 70-98) |
| `CapsLock` | lines 99-109 |
| `FKey(t)` | the default case's ALT test (lines 177-195) |
| `TerminalSwitch(t)` | `terminal_switch`: same terminal; the fault on saving through a NULL `pcb_loc`; EOI at line 471, then relaunch (never returns), budget used up (returns), or the resumed context returning into its own handler |
| `OtherKey` | every other scancode: one EOI, flags unchanged (line editing is TerminalLine's) |

The budget is a choice at each switch to an empty terminal; ProcessControl models
where it comes from. The resume and budget paths send two EOIs for one key (the
resumed frame's handler sends its own). `send_eoi` sends a specific EOI for IRQ 1
(`i8259.c:98`), so the second one, with IRQ 1 no longer in service, changes nothing.
`KeyboardAcknowledged` asks for at least one.

## 3. Runs

The first three runs use `MCIsolation.tla` (ProcessControl with the page directories)
and the next three `MCProcessControl.tla`. The fd runs use `MCFileDescriptors.tla`,
with a small boot image described below. The next two use `MCTerminalLine.tla`, and
the last `MCKeyboardHandler.tla`.

| Run | cfg | Expect | Shows |
|---|---|---|---|
| core | `MCIsolation.cfg` | pass | `TypeOK`; `SwitchBuffersMapped` (see `Isolation.tla` above); `HaltReturnsToParent`: a halt that returns frees exactly the halter's slot, resumes its `lastpcb_ptr`, and leaves it as `pcb_loc`. This holds with one switch nested inside another's tail or relaunched execute (`MAX_NEST = 2`). |
| unnested | `MCIsolation_Unnested.cfg` | pass | With no switch taken inside another's tail (`MAX_NEST = 1`): `ProcessTreesPartitionSlots`: whenever user code runs, each terminal's `lastpcb_ptr` chain has `prog_count[t]` distinct live PCBs ending in a self-parented shell, and the chains partition `memoryspace`; `OwnContextInstalled`: user code and spins of process p run with cr3 = p and tss.esp0 = p; `UserIsolation`; `ReadLineReturns`: under the fairness below, a process in `terminal_read` on the foreground terminal returns unless the terminal is switched away; `ProcessTreesRefined`: ProcessControl implements ProcessTrees under the mapping above |
| nested_switch | `MCIsolation_NestedSwitch.cfg` | violation | `UserIsolation`: a second ALT+F inside a relaunched execute saves a context into a PCB that is not yet set up. A later switch restores it, and a live process runs user code under another process's page directory. |
| running_is_current | `MCProcessControl_RunningIsCurrent.cfg` | violation | switching to an empty terminal at the budget leaves the old process running with `pcb_loc[current_terminal] = NULL` |
| halt_target_live | `MCProcessControl_HaltTargetLive.cfg` | violation | a shell started by a switch loses its `halt_ret` frame when the terminal it was started from is switched back (no nesting) |
| rtc_read_returns | `MCProcessControl_RtcReadReturns.cfg` | violation | `RtcReadReturns`: a switch taken inside `rtc_handler` leaves IRQ 8 unacknowledged, and an `rtc_read` on the new foreground terminal spins for ever (no nesting) |
| fd_core | `MCFileDescriptors.cfg` | pass | `TypeOK`; `FileCursorMatchesDelivered`: an fs descriptor's `file_pos` equals the number of bytes its reads returned, and up to EOF they are the file's bytes in order; `DirListingInOrder`: the k-th directory read returns (a prefix of) entry k-1 and `file_pos` counts the reads; `RtcRunsAtAcceptedRequest`: after an accepted `rtc_write`, or after `rtc_open`, the rate register gives exactly that frequency |
| file_read_stays_in_file | `..._FileReadStaysInFile.cfg` | violation | a read at EOF returns a byte past the file, from block 0 (another file) |
| getargs_only_with_argument | `..._GetargsOnlyWithArgument.cfg` | violation | `"g\0 a"` (a stale tail after the NUL) gives `getargs` the argument `"a"` |
| terminal_line | `MCTerminalLine.cfg` | pass | `TypeOK`; `TerminalReadWaitsForEnter`: `terminal_read` leaves its spin only after ENTER has been pressed on its terminal since the call, with keys, switches and a held ENTER interleaved at every statement |
| read_returns_committed_line | `MCTerminalLine_ReadReturnsCommittedLine.cfg` | violation | `ReadReturnsCommittedLine`: an ENTER between lines 328 and 329 makes `read` return a NUL byte instead of the line |
| keyboard_handler | `MCKeyboardHandler.cfg` | pass | `TypeOK`; `SwitchOnlyWhileAltHeld`: `current_terminal` changes only while the user holds ALT, although the ALT flag is kept per terminal; `KeyboardAcknowledged`: every key that leaves the kernel running has had `send_eoi(KEYBOARD)`, including the shell relaunch that never returns to the handler |

### What the violations show

The step counts are TLC's; a tail or a relaunched execute takes one step per
statement.

- **nested_switch** has 24 states.
  1. Shell 0 executes a child in slot 1, which halts.
  2. ALT+F2 reaches the empty terminal 1. Its relaunched execute claims slot 1 and
     sets `pcb_loc[1] = 1` (`syscall.c:183`), before `setup_pcb` and before any
     `curr_esp`/`curr_pd` is saved.
  3. A second ALT+F1 there saves the interrupted execute into PCB 1 and resumes
     process 0.
  4. Process 0 calls `rtc_read`. Inside the RTC handler, ALT+F2 restores PCB 1. Its
     `curr_pd = 1` is left over from the halted child.
  5. The handler and the read return, and process 0 runs user code with cr3 = 1 and
     tss.esp0 = 1, while slot 1 is live for terminal 1.
- **running_is_current** has 5 states. Shell 0 executes a child, which uses up the
  budget of 2. ALT+F2 reaches the empty terminal 1, and the tail's budget test
  (`keyboard.c:486`) runs `keyboard_helper` and returns to the child. Now
  `current_terminal = 1` and `pcb_loc[1] = NULL`. The next halt, read or switch
  dereferences NULL. The code's own message at `keyboard.c:729` says this "is going
  to page fault".
- **halt_target_live** has 19 states.
  1. ALT+F2 from shell 0 starts shell 1 on stack 0, above the saved keyboard frame.
     The relaunched execute runs to its `iret`.
  2. ALT+F1 from shell 1 restores stack 0 to that keyboard frame, which pops shell 1's
     execute frame.
  3. Shell 0 runs in user mode, while shell 1's saved esp names a frame that is gone.
     When shell 1 exits, `halt` jumps into it.
- **rtc_read_returns** is a lasso of 24 states.
  1. Shell 0 starts; ALT+F2 starts shell 1.
  2. An RTC interrupt enters `rtc_handler` over shell 1, which calls `sti()`.
  3. ALT+F1 inside the handler restores shell 0. IRQ 8 is still in service.
  4. Shell 0 halts, and kernel main's loop starts a new shell 0. It calls `read` on
     the RTC and spins, while ENTER is pressed and released for ever. No RTC interrupt
     is delivered again while terminal 0 stays in the foreground: only switching back
     to terminal 1 resumes the handler and its `send_eoi`. The spec's concurrency
     model says a handler runs masked and acknowledges before it yields the CPU.
- **file_read_stays_in_file** has 5 states.
  1. Execute, then open `"g"` (2 bytes, filling block 2).
  2. `read(fd, buf, -1)`: the count wraps to a huge length, which is clamped to the
     file length. The read returns both bytes, and `file_pos` is 2.
  3. `read(fd, buf, 1)` at `file_pos = 2 = filelength`. The EOF test is
     `offset > filelength`, so it is not taken, and the loop copies position 2.
     `blocks[1]` is the zero fill, so that byte is byte 0 of block 0, which belongs
     to `"fab"`.
- **getargs_only_with_argument** takes 2 steps from execute.
- **read_returns_committed_line** has 11 states:
  1. Terminal 0's shell calls `read(0, buf, 1)`.
  2. It runs line 328 (`enter_flag` OFF).
  3. ENTER arrives. `read_flag` is still OFF, so the handler raises `enter_flag` and
     clears the buffer.
  4. Line 329 sets `read_flag`, the spin ends at once, and the copy takes the NUL at
     index 0.
  5. In TLC's trace a second ENTER then stores `'\n'` at index 0, and the test at
     line 342 loads the byte again (the array is not `volatile`) and breaks. The loop
     would end there anyway, at `i = nbytes`. The buffer is cleared, and `read`
     returns the NUL byte where the committed line was `'\n'`.

  The user's line is lost, and the next ENTER is taken as an empty line for the next
  read. A BACKSPACE after ENTER (which erases the stored `'\n'`) and a second line
  typed before the copy ends (cleared at line 348) break the same property.
- Seven more defects are reachable but have no run of their own. They are listed as
  hazards, because the runs were spent on the questions above.
  - `rtc_read` does not lower `int_flag` before its spin, so an RTC tick from before
    the call (of any process) lets `read` return at once (`rtc.c:80`).
  - SHIFT or CTRL pressed on one terminal and released after ALT+Fn switched away is
    cleared on the new terminal, and stays ON on the old one (`keyboard.c:80`). In
    KeyboardHandler: SHIFT and ALT on terminal 0, F2, release SHIFT, ALT repeat, F1;
    terminal 0 now types shifted characters with SHIFT up.
  - `write(rtc, 512)` is rejected, because the frequency is read from one signed char
    (`rtc.c:97`).
  - With descriptors 2..7 in use, `open` compares an uninitialized `empty` with 8. If
    the stale value is 8 it writes `file_desc[8]`, past the table, and returns 8
    (`syscall.c:391`). With `FOPS_NUM = 4`, that is entry 4 when 2..3 are in use.
  - `vidmap` accepts a pointer in the last 288 KB window past the user page and then
    faults on the store (`syscall.c:490`).
  - `read_dentry_by_name` compares only `NAME_SIZE - 1` bytes, so `open("fax")` opens
    `"fab"` when `NAME_SIZE = 3` (`filesys.c:93`).
  - `read_dentry_by_index` refuses only `index > num_inodes`. On a directory with
    every entry used, `dir_read` lists a name from past the boot block
    (`filesys.c:119`).
- ENTER on a full row (`keyboard.c:154`) writes the next terminal's first byte, and
  on the last terminal the byte after the array. `TerminalLine` reaches both within
  6 steps (the ghost `spill` records the second).

### Bounds

**FileDescriptors** (about 206,000 distinct states, under a minute). The image is
2-byte blocks, 3 data blocks and 5 directory entries, with `num_inodes` one more than
the entry count, as 64 is to 63. It holds:

- a 3-byte file whose end falls inside a block;
- a 2-byte file whose end falls on a block boundary, so both EOF cases happen;
- a name of the full `NAME_SIZE`, so the unterminated-name and short-compare cases
  happen;
- the RTC, `.`, and an empty entry.

The other inputs:

- `FOPS_NUM = 4` keeps the table-full case two opens away.
- Byte counts are {-1, 0, 1}: a wrapping count, the zero count, and single bytes, which
  split a file at every position.
- RTC values are 3 (not a power of two), 4 (accepted) and 512 (a power of two whose
  low byte is 0).
- Pointers are NULL, the two ends of the user page, and the two ends of vidmap's
  window.

**ProcessControl.** Three terminals is the real number, so every terminal pairing
happens, and a switch can meet a terminal that never had a process.

`MAX_PROCESSES = 2` is below the code's 6. With 2, the model still reaches:

- a nested execute on one terminal (a shell and its child);
- a shell on each of two terminals, and a switch to the third that meets the used-up
  budget;
- budget exhaustion both in execute and in a switch;
- a slot freed by a halt and claimed again by a relaunched execute, which is what
  leaves a stale `curr_pd` in the PCB.

Splitting the tails and the relaunched execute into steps that interrupts can cut
into multiplied the state space. With 3 processes, `TypeOK` alone passes 10 million
states, beyond a run's time limit, and a third process adds no control path that two
do not reach.

`MAX_NEST` bounds the keyboard frames on the running stack. `core` and
`nested_switch` use 2: one switch taken inside another switch's tail, its relaunched
execute, or an `rtc_handler` above them. `unnested`, `halt_target_live` and
`rtc_read_returns` use 1. With 1, a switch is still taken from user mode, a spin or
`rtc_handler`, but never inside another switch's tail. That is how those runs ask
whether a property holds apart from the nested-switch defect, which breaks
`UserIsolation`, `OwnContextInstalled` and `ProcessTreesPartitionSlots` with 2.

`core` has about 1.9 million distinct states and takes about 40 s with 2 workers.
`unnested` has about 89,000 and takes about 2 minutes, most of it in the liveness
and refinement checks.

**TerminalLine** (about 2 million distinct states, 20 s). It has 2 terminals with
rows of 2 bytes, so a line `a\n` fills a row and one more key meets the limit. It
has one character, and reads of 1 byte and of 3 bytes: one byte less than a line, and
one more than a row, so a copy can run into the next row. ENTER past a full row is
bounded by `MAX_OVERRUN = 1`. Only terminal 0's process reads (`Readers = {0}`).
Terminal 1 is still typed on and switched to, which is what reaches terminal 0's row
from outside. With readers on both terminals the state space passes 50 million.

**The refinement** is checked in `unnested` (3 terminals, 2 processes, no nested
switch). That instance is enough for:

- a nested execute;
- a shell on each of two terminals;
- a switch to an empty terminal with budget left, and one without;
- the halt of a root shell and its relaunch.

With `MAX_NEST = 2` the refinement fails along with `ProcessTreesPartitionSlots`,
through the nested-switch trace.

**KeyboardHandler** (about 27,000 distinct states, 2 s): the three terminals of the
kernel, so a switch can leave a flag on a terminal and come back to it from a third.
Its inputs are the scancodes themselves, with no bound: the state is finite (flags,
the foreground terminal, which terminals have a shell).

The kernel stacks need no bound of their own. Every trap from user mode first empties
its stack, and kernel code takes interrupts only in the spins, `rtc_handler`
(IRQ 8 is in service there), and the tails, whose keyboard frames `MAX_NEST` bounds.

### Fairness

Safety runs use `Spec`, with no fairness. The liveness runs use `FairSpec`:

- **Strong fairness of `SwitchTail` and `RelaunchStep`.** The tail of
  `terminal_switch` and the relaunched execute run with IF = 1. An interrupt can only
  postpone their next statement: between two interrupts the CPU runs the next
  instruction of the context it returns to. So a step that is enabled again and again
  is taken. Weak fairness is not enough, because an RTC or ENTER interrupt above the
  tail disables its step while it runs.
- **Strong fairness of `TerminalReadReturn` and `RtcReadReturn`.** When a spin is the
  running context it re-tests its flag within a few instructions, so a flag raised
  again and again while the spin runs is seen. Interrupts can only postpone the test.
- **Weak fairness of `EnterKey`.** The keyboard user is the environment; the one
  assumption made of them is that they keep pressing ENTER.
- **Strong fairness of `RtcInterrupt`, `RtcSignal` and `RtcHandlerReturn`.** The RTC
  raises IRQ 8 periodically, so it is taken whenever the PIC lets it through, and the
  handler's steps run whenever the handler is the running context.
- **ENTER is released only outside `rtc_handler`** (`EnterRelease` is not enabled in
  `isr` mode). A key is held for tens of milliseconds and the handler runs for
  microseconds. Without this, a press and release inside every handler would hide
  ENTER from the spin for ever, a behaviour no keyboard can produce.

No fairness is assumed for program actions (execute, halt, reads): a process may
stop making calls.

## 4. Not modelled, and why

- Video memory copies, attribute bytes, scancode translation, echo, CTRL+L and
  `terminal_write` (which also copies `nbytes` into a 128-byte `writebuffer` row with
  no bound and returns `nbytes + 1`, `keyboard.c:383,392`). These are data: no property is about screen contents. Line
  editing is modelled in TerminalLine.
- The scheduler (`sched.c`). It is dead code: `pit.c:39` has the call to
  `scheduler()` commented out, and nothing calls `add_prog_to_queue` or
  `remove_prog_from_queue`.
- `i8259.c` apart from the in-service bits of IRQ 1 and IRQ 8, and `pit_init`/`rtc_init`. These are
  port I/O to mask and rate registers.
- Program loading in ProcessControl: the model makes a valid/invalid choice, and
  FileDescriptors models the lookup, the ELF check and the argument copy. Arguments
  longer than `ARG_SIZE` cannot happen, because `BUFFASIZE = ARG_SIZE`.
- `strlen`, `strncmp` and `memcpy` (`lib.c`) are not in the repository. They are
  modelled with the usual meaning, and `strlen` returns `uint32_t` as in the course's
  `lib.h`.
- The exit status and syscall return values. A variable for them would multiply the
  1.9 million states of `core`, and no other property tells them apart. Two
  disagreements with spec 4.3 are left unchecked for that reason:
  - `execute` returns 0 (success) when the budget is reached (`syscall.c:110`), where
    the spec says it fails;
  - `execute` reads the status through an `int8_t` and turns a positive one into 0
    (`syscall.c:292-297`). So statuses 1-127 report success, and 128-255 come back
    negative. Step 9 says a positive status becomes a failure code.
