------------------------------ MODULE ProcSched ------------------------------
(***************************************************************************)
(* Processes, terminals and the round-robin scheduler of SrirachOS:        *)
(* student-distrib/syscall.c (execute, halt, switch_terminal), scheduler.c *)
(* and the interrupt entries that reach them (pit.c, keyboard.c).          *)
(*                                                                         *)
(* There is one CPU.  A process slot owns a kernel stack, a 4MB program    *)
(* page and a PCB.  system_execute runs on its caller's kernel stack with  *)
(* interrupts enabled until the cli() before create_pcb, so it is split    *)
(* into the steps an interrupt can separate: test a slot, claim it, remap  *)
(* the program page, load the image, commit.  Everything that runs with    *)
(* interrupts off (the scheduler, halt, the commit) is one action.         *)
(***************************************************************************)
EXTENDS Integers, Sequences, FiniteSetsExt

CONSTANTS NumTerms,      \* MAX_TERMINALS
          NumSlots,      \* MAX_PROCESSES
          MaxNest,       \* bound: execute activations on one kernel stack
          Interference   \* what the users of the machine may do, see below

(***************************************************************************)
(* The interferences the code does not rule out and an instance may allow: *)
(*   tick_in_call   a timer tick while a program's own execute is loading  *)
(*   tick_in_start  a tick while switch_terminal's first shell is loading  *)
(*   key_in_exec    Alt+Fn or Ctrl+C while some execute is loading         *)
(*   exec_unfocused a program of a background terminal calls execute       *)
(*   exit_unfocused a base shell halts while another terminal is shown     *)
(*   nested_exec    a program that is not a base shell calls execute       *)
(***************************************************************************)
AllInterference ==
    {"tick_in_call", "tick_in_start", "key_in_exec",
     "exec_unfocused", "exit_unfocused", "nested_exec"}

ASSUME SizesAssumption ==
    /\ NumTerms \in Nat /\ NumSlots \in Nat
    /\ 1 <= NumTerms /\ NumTerms <= NumSlots

ASSUME EnvAssumption ==
    /\ MaxNest \in Nat \ {0}
    /\ Interference \subseteq AllInterference

Slots == 0 .. NumSlots - 1
Terms == 0 .. NumTerms - 1
None  == -1

\* The slots reserved for the base shells, one for each terminal.
BaseSlots == Terms

VARIABLES
    process_num,      \* process_num[s]: the terminal that owns slot s, or None
    active_terminal,  \* the terminal on the screen
    main_process,     \* the slot the kernel takes for the running process
    curr_task,        \* terminals[t].curr_task
    parent,           \* parent_pcb of each PCB, as a slot
    frame,            \* (ebp, esp) of each PCB: where its halt returns to
    pit,              \* (pit_ebp, pit_esp) of each PCB: where a tick resumes it
    prog_page,        \* the slot whose 4MB page is mapped at 128MB
    tss_esp0,         \* the slot whose kernel stack tss.esp0 names
    image,            \* image[s]: the slot whose program was loaded into page s
    kstack,           \* the execute activations on each kernel stack
    cpu               \* the slot whose kernel stack or user code the CPU is in

vars == << process_num, active_terminal, main_process, curr_task, parent, frame,
           pit, prog_page, tss_esp0, image, kstack, cpu >>

pcbs == << parent, frame >>
mmu  == << prog_page, tss_esp0, image >>

-----------------------------------------------------------------------------
(* Kernel stacks and saved contexts. *)

\* A saved stack position: the stack and how many execute activations lie
\* below it.  NoContext stands for a position whose memory no longer holds a
\* frame to return to.
Contexts  == [stk : Slots \cup {None}, depth : Nat]
NoContext == [stk |-> None, depth |-> 0]
Here      == [stk |-> cpu, depth |-> Len(kstack[cpu])]

Kinds  == {"call", "start"}
Stages == {"scan", "claim", "map", "load", "commit", "waiting"}
Frames == {f \in [kind : Kinds, stage : Stages, idx : 0 .. NumSlots] :
               f.stage # "scan" => f.idx \in Slots}

Activation(kind) == [kind |-> kind, stage |-> "scan", idx |-> 0]

Depth(s) == Len(kstack[s])
Top(s)   == kstack[s][Depth(s)]
Cut(s, d) == SubSeq(kstack[s], 1, d)

\* The position still lies inside its stack.
ContextLive(c) == c.stk # None /\ c.depth <= Depth(c.stk)

\* CPU states: lost in memory that holds no frame, in user mode (or in a
\* system call other than execute), or inside an execute.
Lost   == cpu = None
InUser == ~Lost /\ kstack[cpu] = << >>
At(stage) == ~Lost /\ kstack[cpu] # << >> /\ Top(cpu).stage = stage

InFlight(s) == kstack[s] # << >> /\ Top(s).stage # "waiting"
ExecInFlight == \E s \in Slots : InFlight(s)

\* The activation on top of the running stack goes on with stage and slot.
Advanced(stage, idx) ==
    [kstack EXCEPT ![cpu][Depth(cpu)] = [@ EXCEPT !.stage = stage, !.idx = idx]]

Step(stage, idx) == kstack' = Advanced(stage, idx)

Allowed(what) == what \in Interference

\* The three registers of the running process: which slot is the main process,
\* whose page is at 128MB, whose kernel stack the next trap uses.
set_main_process(s) == main_process' = s

map_page_OfMain(s) == prog_page' = main_process
map_page(s)        == prog_page' = s

SetKernelStack_Dropped(s) == UNCHANGED tss_esp0
SetKernelStack(s)         == tss_esp0' = s

\* (ebp, esp) saved by execute for the halt of the process it starts.
SaveReturn_Dropped(idx) == frame
SaveReturn(idx)         == [frame EXCEPT ![idx] = Here]

\* (pit_ebp, pit_esp) of the main process.
SavePit_Dropped == pit
SavePit         == [pit EXCEPT ![main_process] = Here]

-----------------------------------------------------------------------------
(* Helpers of syscall.c. *)

\* The slots execute may take: the active terminal's reserved slot, and the
\* slots after the reserved ones.
Eligible(s, term) == s \notin BaseSlots \/ s = term

Free(pn, term) == {s \in Slots : pn[s] = None /\ Eligible(s, term)}

find_parent_process_AnyTerminal(pn, idx, term) ==
    Max({i \in Slots : i < idx /\ pn[i] # None})

find_parent_process(pn, idx, term) ==
    LET owned == {i \in Slots : i < idx /\ pn[i] = term}
    IN  IF idx < NumTerms \/ owned = {} THEN None ELSE Max(owned)

ParentOf(pn, idx, term) ==
    IF idx < NumTerms THEN idx ELSE find_parent_process(pn, idx, term)

Visited_FromFirst(i) == (i - 1) % NumTerms

\* The loop of check_tasks also increments num, so it looks at every other
\* terminal; with three terminals that is T+1, T, T+2.
Visited(i) == (process_num[main_process] + 2 * i - 1) % NumTerms

Runnable(i) == curr_task[Visited(i)] \notin {None, main_process}

check_tasks ==
    LET hits == {i \in 1 .. NumTerms : Runnable(i)}
    IN  IF hits = {} THEN None ELSE curr_task[Visited(Min(hits))]

-----------------------------------------------------------------------------
(* The state entry() leaves: the first shell, in slot 0 on terminal 0.     *)

Init ==
    /\ process_num = [s \in Slots |-> IF s = 0 THEN 0 ELSE None]
    /\ active_terminal = 0
    /\ main_process = 0
    /\ curr_task = [t \in Terms |-> IF t = 0 THEN 0 ELSE None]
    /\ parent = [s \in Slots |-> IF s = 0 THEN 0 ELSE None]
    /\ frame = [s \in Slots |-> NoContext]
    /\ pit = [s \in Slots |-> NoContext]
    /\ prog_page = 0
    /\ tss_esp0 = 0
    /\ image = [s \in Slots |-> IF s = 0 THEN 0 ELSE None]
    /\ kstack = [s \in Slots |-> << >>]
    /\ cpu = 0

-----------------------------------------------------------------------------
(* system_execute *)

\* A program calls execute with the name of an executable file.  (A name that
\* is not one returns -1 before anything modelled here changes.)
ExecCall ==
    /\ InUser
    /\ cpu \notin BaseSlots => Allowed("nested_exec")
    /\ process_num[main_process] # active_terminal => Allowed("exec_unfocused")
    /\ kstack' = [kstack EXCEPT ![cpu] = Append(@, Activation("call"))]
    /\ UNCHANGED << process_num, active_terminal, main_process, curr_task, pcbs,
                    pit, mmu, cpu >>

\* The scan's test of one slot: take it, or go to the next one.
ExecScan ==
    /\ At("scan")
    /\ LET idx == Top(cpu).idx
           fits == process_num[idx] = None /\ Eligible(idx, active_terminal)
       IN  /\ idx < NumSlots
           /\ IF fits THEN Step("claim", idx) ELSE Step("scan", idx + 1)
    /\ UNCHANGED << process_num, active_terminal, main_process, curr_task, pcbs,
                    pit, mmu, cpu >>

ExecFull_Claims ==
    /\ At("scan")
    /\ Top(cpu).idx = NumSlots
    /\ Step("claim", NumSlots)
    /\ UNCHANGED << process_num, active_terminal, main_process, curr_task, pcbs,
                    pit, mmu, cpu >>

ExecFull_Retries ==
    /\ At("scan")
    /\ Top(cpu).idx = NumSlots
    /\ Step("scan", 0)
    /\ UNCHANGED << process_num, active_terminal, main_process, curr_task, pcbs,
                    pit, mmu, cpu >>

\* "Max processes.": execute returns 0 to its caller.
ExecFull ==
    /\ At("scan")
    /\ Top(cpu).idx = NumSlots
    /\ kstack' = [kstack EXCEPT ![cpu] = Cut(cpu, Depth(cpu) - 1)]
    /\ UNCHANGED << process_num, active_terminal, main_process, curr_task, pcbs,
                    pit, mmu, cpu >>

\* The store that marks the slot as owned by the terminal active now.
ExecClaim ==
    /\ At("claim")
    /\ process_num' = [process_num EXCEPT ![Top(cpu).idx] = active_terminal]
    /\ Step("map", Top(cpu).idx)
    /\ UNCHANGED << active_terminal, main_process, curr_task, pcbs, pit, mmu, cpu >>

ExecMap ==
    /\ At("map")
    /\ map_page(Top(cpu).idx)
    /\ Step("load", Top(cpu).idx)
    /\ UNCHANGED << process_num, active_terminal, main_process, curr_task, pcbs,
                    pit, tss_esp0, image, cpu >>

\* read_data into 128MB, whatever page is mapped there now.
ExecLoad ==
    /\ At("load")
    /\ image' = [image EXCEPT ![prog_page] = Top(cpu).idx]
    /\ Step("commit", Top(cpu).idx)
    /\ UNCHANGED << process_num, active_terminal, main_process, curr_task, pcbs,
                    pit, prog_page, tss_esp0, cpu >>

\* From cli() to iret: create_pcb, the return context, the new process in user
\* mode.  Its kernel stack is empty and its pit context was never saved.
ExecCommit ==
    /\ At("commit")
    /\ LET idx == Top(cpu).idx
       IN  /\ parent' = [parent EXCEPT
                 ![idx] = ParentOf(process_num, idx, active_terminal)]
           /\ curr_task' = [curr_task EXCEPT ![active_terminal] = idx]
           /\ set_main_process(idx)
           /\ frame' = SaveReturn(idx)
           /\ pit' = [pit EXCEPT ![idx] = NoContext]
           /\ SetKernelStack(idx)
           /\ cpu' = idx
           /\ kstack' = [Advanced("waiting", idx) EXCEPT ![idx] = << >>]
    /\ UNCHANGED << process_num, active_terminal, prog_page, image >>

-----------------------------------------------------------------------------
(* system_halt, called by the program, by an exception or by Ctrl+C *)

\* The activation that started c still waits where c's PCB says it does.
FrameLive(c) ==
    LET f == frame[c]
    IN  /\ f.stk # None
        /\ f.depth \in 1 .. Depth(f.stk)
        /\ kstack[f.stk][f.depth].stage = "waiting"
        /\ kstack[f.stk][f.depth].idx = c

Inherited_Dropped(pid) == curr_task

\* terminals[].curr_task after the loop of halt.
Inherited(pid) ==
    [t \in Terms |-> IF curr_task[t] = pid THEN parent[pid] ELSE curr_task[t]]

Freed_Dropped(pid) == process_num
Freed(pid) == [process_num EXCEPT ![pid] = None]

\* A base shell is executed again, with interrupts off from end to end.  The
\* execute never returns to its halt, whose stack the new shell reuses.
HaltRestart(pid) ==
    LET pn  == Freed(pid)
        idx == Min(Free(pn, active_terminal))
    IN  /\ pid \in BaseSlots
        /\ Free(pn, active_terminal) # {}
        /\ process_num' = [pn EXCEPT ![idx] = active_terminal]
        /\ parent' = [parent EXCEPT
                ![idx] = ParentOf(process_num', idx, active_terminal)]
        /\ curr_task' = [Inherited(pid) EXCEPT ![active_terminal] = idx]
        /\ set_main_process(idx)
        /\ map_page(idx)
        /\ image' = [image EXCEPT ![idx] = idx]
        /\ SetKernelStack(idx)
        /\ frame' = [frame EXCEPT ![idx] = NoContext]
        /\ pit' = [pit EXCEPT ![idx] = NoContext]
        /\ kstack' = [kstack EXCEPT ![cpu] = << >>, ![idx] = << >>]
        /\ cpu' = idx

\* The parent becomes the main process and the CPU returns from the execute
\* that started pid, or runs into memory that holds no frame.
HaltReturn(pid) ==
    /\ pid \in BaseSlots => Free(Freed(pid), active_terminal) = {}
    /\ parent[pid] # None
    /\ process_num' = Freed(pid)
    /\ curr_task' = Inherited(pid)
    /\ set_main_process(parent[pid])
    /\ map_page(parent[pid])
    /\ SetKernelStack(parent[pid])
    /\ IF FrameLive(pid)
         THEN /\ cpu' = frame[pid].stk
              /\ kstack' = [kstack EXCEPT
                    ![cpu] = << >>,
                    ![frame[pid].stk] = Cut(frame[pid].stk, frame[pid].depth - 1)]
         ELSE cpu' = None /\ kstack' = [kstack EXCEPT ![cpu] = << >>]
    /\ UNCHANGED << pcbs, pit, image >>

\* The PCB of a process without a parent names an unmapped address: the store
\* of its status faults, the fault handler halts, and so on without end.
HaltOrphan(pid) ==
    /\ pid \notin BaseSlots
    /\ parent[pid] = None
    /\ cpu' = None
    /\ UNCHANGED << process_num, main_process, curr_task, pcbs, pit, mmu, kstack >>

system_halt ==
    /\ main_process \in BaseSlots /\ process_num[main_process] # active_terminal
          => Allowed("exit_unfocused")
    /\ \/ HaltRestart(main_process)
       \/ HaltReturn(main_process)
       \/ HaltOrphan(main_process)
    /\ UNCHANGED active_terminal

UserHalt == InUser /\ system_halt

\* Ctrl+C halts the main process, whatever it is and wherever it was.
CtrlC ==
    /\ ~Lost
    /\ ExecInFlight => Allowed("key_in_exec")
    /\ system_halt

-----------------------------------------------------------------------------
(* Interrupts *)

TickAllowed ==
    ~InUser => Allowed(IF Top(cpu).kind = "call" THEN "tick_in_call"
                                                 ELSE "tick_in_start")

\* scheduler_handler.  The context of the main process is saved in its PCB and
\* the next process goes on where its PCB says: that position is then used up.
Tick ==
    /\ ~Lost
    /\ TickAllowed
    /\ LET next  == check_tasks
           to    == pit[next]
       IN  /\ next # None
           /\ set_main_process(next)
           /\ map_page(next)
           /\ SetKernelStack(next)
           /\ pit' = [SavePit EXCEPT ![next] = NoContext]
           /\ IF ContextLive(to)
                THEN /\ cpu' = to.stk
                     /\ kstack' = [kstack EXCEPT ![to.stk] = Cut(to.stk, to.depth)]
                ELSE cpu' = None /\ UNCHANGED kstack
    /\ UNCHANGED << process_num, active_terminal, curr_task, pcbs, image >>

\* Alt+Fn: switch_terminal to a terminal that has a task.
SwitchShown(t) ==
    /\ ~Lost
    /\ t # active_terminal
    /\ ExecInFlight => Allowed("key_in_exec")
    /\ curr_task[t] # None
    /\ active_terminal' = t
    /\ UNCHANGED << process_num, main_process, curr_task, pcbs, pit, mmu, kstack, cpu >>

\* ... and to one that has none: the main process is saved to be resumed at
\* the end of switch_terminal, and an execute of the shell starts above it.
SwitchFirst(t) ==
    /\ ~Lost
    /\ t # active_terminal
    /\ ExecInFlight => Allowed("key_in_exec")
    /\ curr_task[t] = None
    /\ Depth(cpu) < MaxNest
    /\ active_terminal' = t
    /\ pit' = SavePit
    /\ kstack' = [kstack EXCEPT ![cpu] = Append(@, Activation("start"))]
    /\ UNCHANGED << process_num, main_process, curr_task, pcbs, mmu, cpu >>

ExecStep ==
    \/ ExecScan \/ ExecFull \/ ExecClaim \/ ExecMap \/ ExecLoad \/ ExecCommit

Next ==
    \/ ExecCall
    \/ ExecStep
    \/ UserHalt
    \/ CtrlC
    \/ Tick
    \/ \E t \in Terms : SwitchShown(t)
    \/ \E t \in Terms : SwitchFirst(t)

Spec == Init /\ [][Next]_vars

\* The timer interrupt stays pending in the PIC while interrupts are off, so it
\* is taken whenever it stays possible; and between two ticks (1/30 s) a process
\* that is loading gets its next step done.
FairSpec == Spec /\ WF_vars(Tick) /\ SF_vars(ExecStep)

-----------------------------------------------------------------------------
(* Properties *)

\* Every variable keeps the type its C declaration and its uses give it.
TypeOK ==
    /\ process_num \in [Slots -> Terms \cup {None}]
    /\ active_terminal \in Terms
    /\ main_process \in Slots
    /\ curr_task \in [Terms -> Slots \cup {None}]
    /\ parent \in [Slots -> Slots \cup {None}]
    /\ frame \in [Slots -> Contexts]
    /\ pit \in [Slots -> Contexts]
    /\ prog_page \in Slots
    /\ tss_esp0 \in Slots
    /\ image \in [Slots -> Slots \cup {None}]
    /\ kstack \in [Slots -> Seq(Frames)]
    /\ cpu \in Slots \cup {None}

\* The slot of a process in use: claimed, and past the claim's execute.
Pending(s) == \E c \in Slots : InFlight(c) /\ Top(c).idx = s
                               /\ Top(c).stage \notin {"scan", "claim"}
Alive == {s \in Slots : process_num[s] # None /\ ~Pending(s)}

\* The CPU never resumes or returns to a stack position that holds no frame:
\* scheduler_handler restores live contexts only, and halt finds its execute.
ControlKept == ~Lost

\* What the CPU runs, what the kernel takes for the running process, the kernel
\* stack the next trap uses and, in user mode, the program page agree:
\* scheduler_handler, execute and halt switch all four together.  The page may be
\* the caller's for a program whose load a tick fell into, and no third one.
RunsMain ==
    /\ cpu = main_process
    /\ tss_esp0 = main_process
    /\ InUser => prog_page \in {main_process, parent[main_process]}

\* A trap from user mode lands on the kernel stack of the main process:
\* whoever sets main_process also sets tss.esp0.
TrapStack == tss_esp0 = main_process

\* No execute writes its program over the memory of another living process
\* (map_page and read_data of system_execute).
ImageIntact == \A s \in Alive : image[s] = s

\* The memory of a living process is written only while it runs itself: a tick
\* between map_page and read_data may turn the copy against the caller of the
\* execute, never against a third process.
OthersIntact ==
    [][\A s \in Alive \ {cpu} : image'[s] = image[s]]_vars

\* keyboard.h: curr_task is the process that is running on that terminal, so
\* it is a living process that belongs to the terminal.
TaskOfTerminal ==
    \A t \in Terms : curr_task[t] # None =>
        /\ curr_task[t] \in Alive
        /\ process_num[curr_task[t]] = t

\* syscall.h: parent_pcb is the process that executed this one (halt returns to
\* its kernel stack), and both belong to the same terminal.
ParentIsCaller ==
    \A c \in Alive \ BaseSlots :
        /\ parent[c] \in Alive
        /\ frame[c].stk = parent[c]
        /\ FrameLive(c)
        /\ process_num[parent[c]] = process_num[c]

\* curr_task is the most childish process of its terminal: it waits for no
\* child, so the scheduler never resumes a process blocked in execute.
TaskIsLeaf ==
    \A t \in Terms : curr_task[t] # None =>
        /\ \A c \in Alive \ BaseSlots : parent[c] # curr_task[t]
        /\ \A d \in 1 .. Depth(curr_task[t]) :
               kstack[curr_task[t]][d].stage = "waiting"
                   => kstack[curr_task[t]][d].kind = "start"

\* Every task the scheduler may choose has a context to be resumed from.
Resumable ==
    \A t \in Terms :
        curr_task[t] \notin {None, main_process} => ContextLive(pit[curr_task[t]])

\* The task that scheduler_handler finds at a terminal is the right one to give
\* the CPU to: alive, of that terminal, waiting for no child, with a context.
TaskReady == TaskOfTerminal /\ TaskIsLeaf /\ Resumable

\* Every terminal with a task is served: the round robin of check_tasks starves
\* nobody, whatever the other terminals start and halt.
NoStarvation ==
    \A t \in Terms : curr_task[t] # None ~> process_num[main_process] = t

\* Every execute ends: it starts the program or returns to its caller.
LoadEnds == \A s \in Slots : InFlight(s) ~> ~InFlight(s)

\* A slot claimed by an execute is not lost: the execute is loading it, or its
\* process is a terminal's task or waits for a child of its own.
NoSlotLeaked ==
    \A s \in Alive \ BaseSlots :
        \/ \E t \in Terms : curr_task[t] = s
        \/ \E c \in Alive : parent[c] = s

=============================================================================
