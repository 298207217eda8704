# SrirachOS in TLA+

A verification project for the SrirachOS kernel (`src/student-distrib`): TLA+ modules of
the kernel's parts, TLC runs that check them on small instances, and TLAPS proofs of what
holds for every size.  The kernel is a small 32-bit x86 system: one CPU, up to six
processes, three text terminals, a read-only file system image, a keyboard, a timer and a
real-time clock.

## The system

| part | state | operations | sources |
|---|---|---|---|
| processes | `process_num`, `main_process`, a PCB, a kernel stack and a 4MB page per slot, `tss.esp0` | execute, halt | `syscall.c` |
| terminals | `active_terminal`, `terminals[t].curr_task`, cursors, line buffers, backing pages | Alt+Fn (`switch_terminal`) | `syscall.c`, `keyboard.c` |
| scheduler | `pit_ebp`/`pit_esp` of each PCB | the timer interrupt | `scheduler.c`, `pit_wrapper.S` |
| file descriptors | `fdt` of each PCB, the globals `curr_pcb` and `cur_dentry` | open, read, write, close | `syscall.c`, `filesys.c` |
| file system image | read-only | look-up, `read_data`, completion | `filesys.c` |
| line input | the line being typed, `save_buf_1..3` | keys, `terminal_read` | `keyboard.c` |
| console output | video memory, backing pages, cursors, the vidmap page | `terminal_write`, echo, `printf`, vidmap | `lib.c`, `syscall.c`, `paging.c` |
| clock | `rtc_flag`, the rate register | rtc read and write, the rtc interrupt | `rtc.c` |
| interrupts | the 8259s' registers, the IDT, IF, the handlers left on kernel stacks | the timer, keyboard and clock handlers, EOIs, cli and sti | `i8259.c`, `idt.c`, the wrappers |
| boot | how far `entry()` is | set-up of controllers, gates, devices, terminals, first shell | `kernel.c` |
| exceptions | none | every handler prints and halts the process, except that of vector 15, which loops | `idt.c` |
| library | none | number formats, memory copies, strings | `lib.c` |
| user programs | their own buffers | loops around system calls; `grep` | `syscalls/` |

How they interact.  A program enters the kernel through `syscall_wrapper.S`, which enables
interrupts: system calls are preemptible, except where the code says `cli()`.  Interrupt
gates run with interrupts off.  The timer handler chooses the task of the next terminal and
switches `main_process`, the program page, the vidmap page, `tss.esp0` and the stack.  Alt+Fn
runs inside the keyboard handler and, the first time a terminal is shown, executes a shell
there, with interrupts on again.  `execute` runs on its caller's kernel stack and never
returns until the child halts: halt jumps back into the frame execute stored in the child's
PCB.  Everything is shared through globals; there are no locks.

What is hard in it: interrupts between two looks at `active_terminal`, `main_process`,
`curr_pcb` or the program page; saved stack positions that outlive their stack; slots that
are freed and reused by three terminals; programs that spin on a flag or a buffer; loops that
end only at a sentinel; the edges of blocks, names, rows and buffers.  `PROJECT.json` lists
each such place with its line, and the property that covers it.

## Modules

| module | models | composed with |
|---|---|---|
| `ProcSched` | execute, halt, `switch_terminal`, the scheduler | |
| `ProcSchedProofs` | theorems about it, for every interference | extends `ProcSched`, `OrderLemmas` |
| `ProcQuietProofs` | theorems about it, for the interferences it withstands | extends `ProcSchedProofs` |
| `FdTable` | descriptors and the calls on them | |
| `FdTableProofs` | theorems about it | extends `FdTable`, `OrderLemmas` |
| `Tty` | the line buffers and `terminal_read` | |
| `Rtc` | `rtc_read` against the clock interrupt | |
| `Devices` | `Tty` and `Rtc` sharing the CPU; the specification of both | extends `Tty`, instantiates `Rtc` |
| `DevicesProofs` | theorems about the three | extends `Devices`, `OrderLemmas` |
| `ConsoleAbs` | what the console promises: one screen and cursor per terminal | |
| `Console` | output, video memory, backing pages, vidmap | instantiates `ConsoleAbs` |
| `ConsoleProofs` | the refinement, proved | extends `Console` |
| `Lib` | one call of a routine; printf's numbers, memcpy, memset, memmove | |
| `Filesys` | the block walk, look-up, completion, command parsing | extends `Lib` |
| `Grep` | `do_one_file` of the user program grep | extends `Lib` |
| `RtcRate` | `rtc_write` of two processes against the clock interrupt | extends `Lib` |
| `Routines` | the calls of these four; their specification | extends `Filesys`, `Grep`, `RtcRate` |
| `RoutinesProofs` | theorems about all of these calls | extends `Routines`, `OrderLemmas` |
| `Irq` | controllers, gates, interrupt flag, handlers, boot | |
| `IrqProofs` | theorems about it | extends `Irq`, `OrderLemmas` |
| `OrderLemmas` | what `Min` and `Max`, the first hits of loops, return | |
| `MC*` | the values of the constants for TLC | |

Definitions keep the names of the C functions they translate (`find_parent_process`,
`check_tasks`, `set_filesys_pcb`, `my_putc`, `read_dentry_by_name`).  A definition whose
name is another one's with a suffix (`SavePit_Dropped`) is a faulty variant of it; each
property comes with one that violates it, listed in `PROJECT.json` under `mutants`, so that
no property holds for want of behaviour.

### ProcSched

One slot stands for a process: its PCB, its kernel stack and its program page.  `kstack[s]`
is the stack of execute activations on the kernel stack of slot `s`; a saved stack pointer
(`frame` for halt, `pit` for the scheduler) is a stack and a depth, and is live while that
depth still exists.  `cpu` is the stack the CPU really is in, which may differ from
`main_process`; it is `None` once the CPU has returned into memory that holds no frame.

`ExecCall`, `ExecScan`, `ExecClaim`, `ExecMap`, `ExecLoad`, `ExecCommit` are `system_execute`
cut where an interrupt can fall: it runs with interrupts on up to the `cli()` before
`create_pcb`.  `Tick` is `scheduler_handler`, `UserHalt` and `CtrlC` are `system_halt` from a
program, an exception or the keyboard, `SwitchShown` and `SwitchFirst` are `switch_terminal`
with and without a shell to start.  All of these run with interrupts off and are one action.

The constant `Interference` says what the users of the machine do.  With `{}` only what the
code is evidently written for happens: one program at a time is started from the shell of the
shown terminal and ticks come between system calls.  Each member adds one thing that the code
does not rule out.  This makes the boundary explicit: `sched_preempt` shows that the process
structures are right with ticks inside of executes, the `violation` runs `load_tick` and
`nested_terminals` show what breaks where, and `sched_open` and the theorems show what still
holds with all of them.  With `"exec_unfocused"` and `"tick_in_call"` together, a tick between
the test of `process_num` (`ExecScan`) and the store that claims the slot (`ExecClaim`) lets a
program of another terminal take the same slot, and both load into it.  None of the invariants
of `sched_preempt` survives `"exec_unfocused"` alone, so no run is made for this race.

When a base shell halts in the background its replacement takes the shown terminal's slot; the
execute never returns to the old stack, so the model keeps no frame for it.

### FdTable

`fdt[p]` is the descriptor table in the PCB of `p`, with operations, inode, position and
flags, including what is left over in them: `create_pcb` does not reset the operations of
descriptors 2 to 7, the rtc takes over a closed file's inode number, `rtc_close` frees
nothing, `dir_open` keeps the position.  A call is cut at every store to a global and around
the copy of `read_data`.  `held` and `delivered` are ghosts: what the program believes a
descriptor stands for and what it has read.  `Preempt` says whether ticks fall inside calls.
Bytes are counts here; `Filesys` has the bytes.

An open that fails still stores (`OpenOps`) the operations table, at `fdt[-1]`.  The PCB of slot
`p` is at 8MB - (p+1) * `UNIT_8_KB` (which is 0x8000, 32KB), the top of the kernel stack of
slot `p+1` is just below it, and
`fdt[-1].f_ops` is 16 bytes below the PCB: the EFLAGS of the frame that process `p+1` entered
the kernel with (`BelowTable`).  `eflags` has what is there, and `open_failed` shows a process
that returns with the address of a table as its flags.  A process that is not running is inside
of the kernel, at least in the timer's handler, so the frame is there.  A call on a descriptor
whose operations table is null (`CallNull`) faults and ends the process.  That is so until page 0 is present, which
vidmap and every tick that switches tasks (scheduler.c:81) make it; from then on such a call
jumps to what is read there, which the source does not define and the model leaves out.
`dir_open`'s comparison with the first directory entry (filesys.c:578) is left out too: the
look-up has found the name to be that of a directory, and `FdAssumption` allows one of them.

### Tty, Rtc and Devices

A keyboard interrupt is one action; which key of a chord a scancode is, is folded into the
choice of the action.  `terminal_read` is cut where an interrupt may change what it looked
at: the `switch` on `active_terminal`, `check_read_process`, the test of the saved line, each
character that `my_strcpy` copies, and the clearing of the line.  `snap`, `torn` and `fresh`
are ghosts.  `InRead` says which keys may fall inside a read: Enter in `devices`.  Alt+Fn
(`"switch"`) is the boundary: the code does not keep it out, and between the `switch` on
`active_terminal` and `check_read_process` it makes the read take the other terminal's line.
`read_switched` shows that as a violation of `OwnKeyboard`; `CopyStaysInside` and
`WholeLineOnce` fail then as well.  Each terminal has one program that reads.  Ctrl+C ends the read of the *running* program, as the code does.

`Rtc` has the one `rtc_flag` for all readers.  `Devices` composes the
two: they share `running`, a program is in one call at a time, and Ctrl+C ends either.

### Console and ConsoleAbs

`ConsoleAbs` knows nothing of video memory: a screen and a cursor per terminal, output goes
to the terminal of the program whose turn it is, keys to the shown one, and showing a
terminal changes no screen.  `Console` has what the code has: video memory at 0xB8000, a
backing page per terminal, the cursors of `terminals[t]`, the kernel's own
`screen_x`/`screen_y`, and the page that vidmap maps.  `terminal_write` and `printf` run with
interrupts off: while characters are left in `out` or `note`, nothing else happens.  One
message is printed with interrupts on: that of an execute that finds no slot (`execute_full`).
Its characters are in `puts[t]`, and each is printed in two steps: `puts_look` has the address
and the cursor that `my_putc` reads, `puts_store` the stores; between two characters any
interrupt may come.  The stores of one character, the loop of a scroll included, are one step.  The
refinement mapping takes a terminal's screen to be video memory when it is shown and its
backing page otherwise.  A cell is addressed by row and column; `TypeOK` shows that the
cursors stay on the screen, which is what makes that the same as `NUM_COLS * y + x`.  While
the kernel prints a message (`noting`), its characters may land anywhere on the shown screen
(`Message`): the code prints them at its own cursor, not the terminal's.  `Overlaps` plays the
role of `Interference`.  With `"draw_after_switch"` a program draws through vidmap between an
Alt+Fn and the next tick, on the screen that is no longer its own, and `OneScreenEach` fails
as well as the claim of scheduler.c:48 that "The memory used by vidmap is also updated to the
relevant page based on the active terminal"; with `"puts_interrupted"` an interrupt falls between
`puts_look` and `puts_store`, and the character goes to another terminal's screen or over an
echoed key: `OneScreenEach` fails too.  TLC finds both at once when `Overlaps` of `console.cfg`
is changed to them.  `"map_unseen"` and `"clear_unseen"` are a vidmap and a Ctrl+L while the
running program's terminal is not the shown one.  `Wipe` of `ConsoleAbs` leaves the cursor where
it is, because `my_clear` does: it sets `screen_x` and `screen_y` to 0, and `update_cursor` the
hardware cursor from them, but what is echoed and printed next goes to the terminal's
`x_cursor` and `y_cursor`.  So keyboard.c:248, "clear screen and put cursor on top", is not what
the code does; `OneScreenEach` is about the code, not about that comment.

### Lib, Filesys, Grep, RtcRate and Routines

These routines keep nothing between calls, so a behaviour is one call, chosen in `Init`, and
`Routines` puts the calls together.  `read_data`, the memory copies, `do_one_file` and
`rtc_write` are machines with the loop variables and registers of the code; the look-ups,
completion and the split of a command are functions that say where each loop of the code ends,
and the number formats recursive functions that follow it.  The assumptions say what calls are
made: areas inside of the memory, words of `HexDigits` digits, text files.
The properties compare them with what the routines are for.

`read_data` refuses an inode number above `inode_count` and takes `inode_count` itself, which is
one too many for the check that filesys.c:361 announces ("Check for valid (in-range) inode");
what it then reads as an inode is the first data block, so the size and the table of such a call
are any.  It returns the number of bytes, where its header (filesys.c:356) says "0 on success";
its callers use the number, and so does `ReadsSlice`.

`printf`'s numbers are modelled by what `itoa`, `strrev` and the padding of `%#x` write, and
`ReadsBack` reads the digits back, the smallest negative number included.  memcpy and memset
move single bytes up to a word boundary, then words, then the rest; memmove copies downwards or
upwards.  The model sets the direction with every call, as each of these routines does; that memmove
leaves it downwards for code that relies on the compiler's convention (lib.c:629, no `cld` after)
is not modelled, and nothing calls memmove.  `Grep` has the buffer with the byte behind it, which
the code looks at without ever writing it: `call.junk` is what the stack held there.  `GrepsLines` says that the matching
lines of a file are printed, each once and whole, if the byte is not a newline, no line is
longer than the buffer and the file has no NUL: outside of these the code cuts or drops lines.
`RtcRate` has the two port accesses of `rtc_write` apart: a clock interrupt between them
selects another register and the write is lost, which is why `FrequencyKept` makes an
exception for it and says what still holds.  Only the rate bits of register A are there:
rtc.c:143 writes the bare rate, which clears the divider bits that the 0x2F of `rtc_open` has set.

### Irq

`irr`, `isr` and `imr` are the registers of the two controllers (line 2 is the cascade), `gates`
the present entries of the IDT, `int_flag` is IF.  The controllers are external: they are
modelled by how the drivers rely on them, with fixed priorities and specific EOIs.  `stk[p]` is
what is unfinished on the kernel stack of a task: a system call, a keyboard handler that has
enabled interrupts, a timer handler that has switched away.  An activation remembers whether
it still owes an EOI and the IF its `iret` restores.

Gates are interrupt gates, so a handler is one action, with two exceptions.  Ctrl+L calls
`terminal_write`, which ends with `sti()` while the key is in service.  Alt+Fn sends its EOI,
and `switch_terminal` ends with `sti()`; the handler then stores `save_idx` and sends a second
EOI.  `KeyEnd` is the rest of both, on whichever stack it was left, with the statics as later
keys have left them.  `KeyFirst` is Alt+Fn to a terminal without a shell, `CallEnter`,
`CallCli`, `CallSti` and `CallReturn` are the interrupt flag of a system call, `Halt` is a
program's end, which drops what is on its stack.

Boot is in the order of `entry()`, which enables interrupts before it has set up the terminals.
Two things of the C language matter here.  `curr_task` is 0 everywhere until `init_terminals`,
which is the process the kernel then takes for the running one, so a tick finds no other task.
And `terminals` is a static array in a header: `keyboard.c` and `syscall.c` each have a copy,
so `init_terminals` leaves the `save_idx` that the keyboard uses alone, and a line typed during
boot keeps its length (`IdxKept`).  Keys during boot are characters and Enter.  Alt+Fn would
copy the screen to backing pages whose addresses are not stored yet, and Ctrl+C would halt a
process that does not exist: what then happens is not defined by the source.

## Runs

| run | instance | shows |
|---|---|---|
| `sched_preempt` | 3 terminals, 4 slots, ticks inside execute, fairness | `ControlKept`; `RunsMain`; `TaskReady` (each terminal's task is alive, its own, waits for no child and has a context to resume); `ParentIsCaller`; `NoSlotLeaked`; `OthersIntact` (a load writes over no living process but the one that executes); `NoStarvation`; `LoadEnds` |
| `sched_open` | 2 terminals, 3 slots, five interferences | `TypeOK`, `TrapStack` |
| `load_tick` | ticks inside execute | violates `ImageIntact`: the image is written over another process's page |
| `nested_terminals` | 3 terminals, 5 slots, nested execute | violates `ParentIsCaller`: `find_parent_process` guesses from the order of slots |
| `fd_files` | 2 processes, 4 descriptors, 2 files, directory, rtc | `HeldFaithful`, `NoFileTwice`, `ReadsInOrder`: descriptors stand for what was opened; `OwnTableOnly`: each call changes its caller's table |
| `fd_preempted` | 2 processes, ticks inside calls | violates `OwnTableOnly`: `curr_pcb` moved under a call |
| `open_failed` | 2 processes, ticks between calls | violates `FlagsRestored`: a failed open writes over another process's saved flags |
| `devices` | 2 terminals, buffers of 3, two clock users, fairness | `CopyStaysInside`, `WholeLineOnce`, `LineArrives`: lines arrive whole and once; `ReturnsAfterTick`: a clock read ends for a new tick only, whatever the other reader does to the flag; `RtcReturns`: only a reader whose ticks the other one keeps taking waits forever |
| `read_switched` | 2 terminals, Alt+Fn inside of reads | violates `OwnKeyboard`: a program reads the other terminal's line |
| `console` | 2 terminals, 2x2 cells | `Console` implements `ConsoleAbs`; cursors stay on the screen |
| `routines` | all small inputs, see below | `ReadsSlice`, `FindsTheName`, `CompletesToName`, `ParsesBack`, `ReadsBack`, `CopiesBytes`, `GrepsLines`, `FrequencyKept` |
| `irq` | 2 terminals, lines of 1, fairness | `ServiceEnds`: no EOI is lost; `UserInterruptible`; `BootKept`; `IdxKept`: lines keep their length; `Served`: every line is served |

The `violation` runs are disagreements between the code and its own comments; the findings in
`PROJECT.json` quote them.

### Bounds, and why they are enough

- *Terminals and slots.*  Three terminals are the real number.  With four slots for them (the
  code has six) the slot that is not reserved is contended, so a full table and its release
  happen (`sched_preempt`); two terminals and three slots keep that with all interferences on
  (`sched_open`).  The theorems of `ProcQuietProofs` are about every number of slots.
- `MaxNest` bounds the execute activations on one kernel stack: one for what the shell does,
  two so that an execute can fail on top of a waiting one.
- *Descriptors.*  Four: the two standard ones and two to open, so that the table fills and a
  closed descriptor is reused while the other one is held.  Files of 2 and 3 bytes against reads
  of 1 and 2 bytes: reads end before, at and behind the end.  One of the files has the inode
  number of the directory and of the rtc, 0, which `file_open` compares.
- *Lines.*  A buffer of three: the empty line, a full line and one in between, and completion
  that does not fit.  Letters are typed on one terminal only, so a line at the wrong program
  shows.
- *Screen.*  Two rows and columns: both edges, wrapping, scrolling and both branches of
  backspace.  `MaxInk` limits the filled cells of the three grids together to three: a screen
  whose lines both change when it scrolls, and one filled cell in each grid, are within it.  The
  message of execute is one character, so that the other terminal's comes before and behind it.
- *Files.*  Three blocks of two bytes, every offset and length up to one more than fits, every
  table of blocks, one of them missing; an inode, the number behind the last one and one more.
  Names of two characters and directories of five entries: names that fill their field, prefixes
  of each other, unused entries.
- *Routines.*  Words of two hexadecimal digits (the formats do not depend on how many), memory
  of twelve bytes with words of four: every source, destination and length, so every alignment
  and overlap.  Files of up to seven bytes against a buffer of three: a line that spans two
  reads, ends at, before and behind the end of the buffer.  Two writers of the clock with every
  frequency from 1 to 16384 Hz that is a power of two, and with 0 and 3, in four bytes and in
  two.
- *Interrupts.*  Two terminals, so that there is another task to switch to and a first shell
  to start; `MaxLine` of one, the full and the empty line; `MaxDepth` two, so that a system call
  or a key's handler is interrupted on its stack, and again.

Deadlock is checked where the system must not stop.  `sched_open` may stop, because the CPU
can be lost there; `routines` stops because a call is over.

### Fairness

- `ProcSched`: the timer keeps interrupting (`WF` of a tick that can be taken), and an execute
  that is again and again given the CPU goes on (`SF` of its steps): a time slice is far
  longer than one of these steps, and `NoStarvation` gives the slice.
- `Devices`: every terminal's program is given the CPU again and again (`WF` of each tick, as
  `NoStarvation` shows), the clock does not stop (`WF`), and the waiting loops make their next
  turn (`SF`: a turn is a few instructions of a slice).
- `Irq`: `entry()` goes on (`WF`), the timer keeps asking (`WF`), the CPU takes a request that
  it can take again and again (`SF`), the rest of a keyboard handler is run, because time slices
  are far longer (`SF`), and a system call that has said `cli()` comes to its `sti()` (`WF`: it
  runs alone).  System calls and programs need not end.  The clock is served unless another key
  comes: keys have priority, and a key that is repeated for ever could keep it waiting.
- Nothing is assumed of the user: no key is fair.  `LineArrives` therefore says: if the
  terminal stays on the screen.  Two readers that clear the shared flag can starve each
  other, so `RtcReturns` says that a clock read that waits forever is one during which the other
  reader never stops reading.

## Proofs

Every theorem holds for every value of the constants that the named `ASSUME`s of the modules
allow; TLC evaluates these in the runs.  A theorem that needs more says so as a hypothesis, and
the hypothesis is the boundary that a run marks from the other side.

| theorem (module) | states | hypothesis |
|---|---|---|
| `TypeCorrect`, `TrapStackCorrect` (`ProcSchedProofs`) | `TypeOK`, `TrapStack` | none: every interference |
| `NeverLost`, `SchedulerFindsReady`, `HaltFindsCaller`, `SlotsNotLost`, `OthersNotOverwritten`, `MainRuns` (`ProcQuietProofs`) | `ControlKept`, `TaskReady`, `ParentIsCaller`, `NoSlotLeaked`, `OthersIntact`, `RunsMain` | `Quiet`: `Interference` has at most `"tick_in_call"` |
| `TypesKept` (`FdTableProofs`) | `TypeOK` | none |
| `HeldIsFaithful`, `NotOpenTwice`, `DeliveredInOrder` (`FdTableProofs`) | `HeldFaithful`, `NoFileTwice`, `ReadsInOrder` | `Preempt = FALSE`; `fd_preempted` shows the other case |
| `LinesFit`, `AnswersAfterTick` (`DevicesProofs`) | `TypeOK`, `ReturnsAfterTick` | none |
| `LoopStaysInside`, `LineOnce` (`DevicesProofs`) | `CopyStaysInside`, `WholeLineOnce` | no Alt+Fn inside of a read; `read_switched` has the other case |
| `CursorsOnScreen` (`ConsoleProofs`) | `TypeOK` | none |
| `OneScreen` (`ConsoleProofs`) | `OneScreenEach`: `Console` implements `ConsoleAbs` | `Overlaps = {}` |
| `RegistersFit`, `EoiNotLost`, `ProgramsInterruptible`, `BootUndisturbed`, `LineLengthKept` (`IrqProofs`) | `TypeOK`, `ServiceEnds`, `UserInterruptible`, `BootKept`, `IdxKept` | none |
| `LastWriteWins`, `BytesCopied`, `SliceRead`, `CommandSplit`, `NameFound`, `CompletionIsName`, `LinesGrepped`, `NumbersReadBack` (`RoutinesProofs`) | `FrequencyKept`, `CopiesBytes`, `ReadsSlice`, `ParsesBack`, `FindsTheName`, `CompletesToName`, `GrepsLines`, `ReadsBack` | none |

Along which argument:

- *`ProcSched`, every interference.*  `TypeOK` is inductive; there is one lemma per action, and
  underneath are facts about the kernel stacks (`TopType`, `AdvancedType`, `CutType`) and about
  the loops over slots, which the model writes as `Min` and `Max` of the hits.  `TrapStack`:
  every action that sets `main_process` sets `tss_esp0` to the same slot.
- *`ProcSched`, quiet.*  None of the invariants is inductive: that halt finds the right parent
  depends on which slots are in use, which depends on what an execute in progress has already
  claimed.  `QuietInv` says that at most one slot `x` is inside of an execute (`ExecAt(x)`),
  and, with that slot named, what each part of the state is: `MainInv` (the CPU is on the stack
  of `main_process`), `StackInv` (a kernel stack holds one activation, of a process that waits
  for its child or of `x`), `SlotInv` (a slot is free, a base shell with at most one child, that
  child, or the one `x` has claimed), `TaskInv` (the task of a terminal is its leaf, with a
  context that is live) and `ExecInv` (what `x` has read and claimed is still so).  Every action
  is shown to keep it for the same or another `x`.  `CopyInv` adds that an execute past its
  `map_page` sees the page it has mapped or the one of its own process, so that no third process
  is written over, and that user code has its own page or its caller's.
- *`FdTable`.*  The steps of a call go to the table of the global `curr_pcb`, so the base is
  `BusyIsCurrent`, that the call in progress is that of `curr_pcb`; on it rest `CallInv` (what a
  call in progress has looked up is still so),
  `HeldInv`, `UniqueInv` (no other entry in use has the inode that an open has checked) and
  `PosInv`.  The lemma `StepLocal` says of each action what it leaves alone, so that each
  action is considered for the one process that takes it.
- *`Devices`.*  `ClockInv`: a reader that waits and sees the flag has seen its tick.
  `LineReadInv`: from the `switch` on `active_terminal` on, a read has the saved line of its own
  terminal, that line has a newline at or behind the copy, and what is copied is the line that
  was there when the copy began, unless Enter replaced it.
- *`Console`.*  Each action is a step of `ConsoleAbs` or a stutter, under the mapping and the
  invariant `RefInv`: types, `PageInv`, that the page vidmap maps is that of the running
  program's terminal whenever it draws, and `SpotInv`, that the address and the cursor which
  execute's `my_putc` has looked up are still those of the running program.
- *`Irq`.*  `IrqInv` is a conjunction: the shape of the stacks (`StackInv`: which activation may
  lie on which, and the IF each restores), how far boot is against which gates and masks are
  open (`BootInv`), which tasks exist (`TaskInv`), and that the lines 0, 2 and 8 are never in
  service between actions (`ServiceInv`).  `IdxInv` relates `save_idx`, the statics and what
  the second half of an Alt+Fn will store.
- *`Routines`.*  Loop invariants.  `Upward` and `Downward`: what is on the one side of `edi` is
  copied, and a source cell not yet read still has its own contents; over words the number of
  bytes left is a product.  `Walk(p)`: the two loops of `read_data` have passed `p` bytes of the
  file, before the offset nothing is copied, behind it exactly what lies between.  `RateInv`: a
  write that no interrupt fell into finds register A selected, whoever selected it.  The calls
  that one step answers (`AnswerInv`) rest on facts about their functions: where the scans stop
  (`SkipStops`, `WordStops`, `WordStart`), that `matches` holds of equal names only, also of one
  that fills its field (`MatchesEqual`), and what completion appends (`SearchCompletes`).
- *grep.*  `GrepInv` relates the buffer to the file: what lies ahead in it, from the walk on, is
  the file up to the position (`Ahead`); no newline is left in any other cell, so that the walk
  does not take an old one for the end of a line; and the lines printed are those that hold the
  pattern and end at or before some end `b` (`Lists`), where `b` is what the walk has passed,
  or one more right after a line that filled the buffer, whose newline is still to come
  (`Begins`).  A line is known by how many lines with the pattern end at or before it (`Rank`),
  so that no list has to be built.  The lemmas are about a whole line in the buffer
  (`WholeLine`), one that the buffer cuts and that is moved down (`PartLine`) and a read
  (`ReadAhead`).
- *printf's numbers.*  The functions are recursive over numbers and places.  `LeastFirst` gets
  an induction out of the least number that fails, for a set instead of a predicate, and
  `Recursion` that a function defined by steps from smaller numbers exists, so that what the
  definitions choose satisfies them.  From these: the b-th swap of `strrev` has turned the first
  and the last b characters (`StrrevIs`); the places that `itoa` finds, turned around, read as
  the number (`PlacesWrite`) and a number below 16^m has at most m of them (`PlacesFit`), so
  that the padding of `%#x` is not negative; zeros in front change nothing (`ReadsZeros`); and
  the negation of a negative word is again a word that `itoa` can be given (`Negated`).

Only model-checked: the liveness properties (`NoStarvation`, `LoadEnds`, `LineArrives`,
`RtcReturns`, `Served`), because the prover has no rules for fairness; and `OwnTableOnly`, which
holds only where the interleaving that endangers it does not happen and whose other side
`fd_preempted` shows.  Every other invariant and action property
that a passing run checks is stated by a theorem.

## What is not modelled

- The descriptor tables and multiboot parsing of boot, the programming of the PIT and the page
  directory: straight-line set-up whose result is `Init`.
- The decoding of scancodes: an action is a key.  `pressed_flags` is indexed behind its end by
  F12; what the store hits is decided by the linker.
- Colours and the hardware cursor, which `update_cursor` sets from `screen_x` and `screen_y`,
  although `my_putc` moves the terminal's cursor only.
- `arg_buf`, the argument of the last execute, shared by all processes: another execute before
  getargs replaces it.  `ParsesBack` covers the parsing of one command.
- System calls 9 and 10, which pass the test of the wrapper and jump behind the table.
- The caller's buffer of `terminal_read`, whose length is not looked at.
- The user programs other than grep: their calls are the inputs of the models; the programs of
  `fish/` are a game of their own.  The kernel's tests.
- Functions that nothing calls (`disable_irq`, `memset_word`, `memset_dword`, `strncpy`,
  `test_interrupts`).

## Plan

What is left: `arg_buf` in `ProcSched`, with the property that a program gets its own
arguments.  The theorems about `ProcSched` would have to be carried over to the new variable.
