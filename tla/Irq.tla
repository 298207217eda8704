---------------------------------- MODULE Irq ----------------------------------
(***************************************************************************)
(* Interrupts: the two 8259 controllers as i8259.c programs them, the      *)
(* gates of idt.c, the interrupt flag, and the handlers behind the         *)
(* wrappers: pit.c and scheduler.c, keyboard.c, rtc.c, syscall_wrapper.S.   *)
(* Boot (entry() of kernel.c) sets them up and starts the first shell.     *)
(*                                                                         *)
(* Gates are interrupt gates, so a handler is one action up to the point   *)
(* where its code enables interrupts before it is over.  Two do: Ctrl+L,   *)
(* whose terminal_write ends with sti() while the key is in service, and   *)
(* Alt+Fn, whose switch_terminal ends with sti() after a first EOI.  What  *)
(* is left of such a handler stays on the kernel stack of the process it   *)
(* interrupted, and the scheduler may run others before it goes on.  What  *)
(* processes do to each other is ProcSched's subject: here a terminal has  *)
(* one task, and the execute of a terminal's first shell is one step.      *)
(***************************************************************************)
EXTENDS Integers, Sequences, FiniteSetsExt

CONSTANTS NumTerms,  \* MAX_TERMINALS
          Keys,      \* the keys pressed once the first shell runs
          BootKeys,  \* the keys pressed before
          MaxLine,   \* BUFSIZE - 1, the characters of a line
          MaxDepth   \* bound: activations on one kernel stack

ASSUME IrqAssumption ==
    /\ NumTerms \in Nat \ {0} /\ MaxLine \in Nat \ {0} /\ MaxDepth \in Nat
    /\ Keys \subseteq {"char", "enter", "ctrl_l", "ctrl_c", "alt_fn"}
    /\ BootKeys \subseteq {"char", "enter"}

Terms == 0 .. NumTerms - 1
Boot  == NumTerms          \* the stack that entry() runs on
None  == -1
NoKey == "none"

\* IR0 timer, IR1 keyboard, IR2 the slave, IR8 the clock on the slave's IR0.
Lines == {0, 1, 2, 8}

VARIABLES
    irr, isr, imr,    \* the request, in-service and mask registers
    gates,            \* the lines whose gates in the idt are present
    int_flag,         \* IF of the CPU
    boot,             \* how many steps of entry() are done
    cpu,              \* the task whose stack the CPU is on, or Boot
    stk,              \* stk[p]: the unfinished kernel activations of p
    curr_task,        \* terminals[t].curr_task, as a task
    active_terminal,  \* the terminal on the screen
    port,             \* the key waiting at port 0x60
    reg_c,            \* the clock's interrupt flag: cleared by reading register C
    kbd,              \* the statics active_terminal, keyboard_buf_idx of keyboard.c
    save_idx,         \* terminals[t].save_idx of keyboard.c
    typed             \* ghost: the characters of the line being typed at t

pic     == << irr, isr, imr >>
context == << int_flag, cpu, stk >>
tasks   == << curr_task, active_terminal >>
devices == << port, reg_c >>
lines   == << kbd, save_idx, typed >>
vars    == << pic, gates, boot, context, tasks, devices, lines >>

\* An activation: its entry, whether it ends a service (its EOI was not sent
\* yet), and the IF its iret restores.
Activations == [h : {"call", "kbd", "pit"}, owes : BOOLEAN, iflag : BOOLEAN]

Depth(p)     == Len(stk[p])
Top(p)       == stk[p][Depth(p)]
Pop(p)       == [stk EXCEPT ![p] = SubSeq(@, 1, Depth(p) - 1)]
Push(h, owes) == [stk EXCEPT ![cpu] =
                     Append(@, [h |-> h, owes |-> owes, iflag |-> int_flag])]

Booted == cpu # Boot
InUser == Booted /\ stk[cpu] = << >>
In(h)  == stk[cpu] # << >> /\ Top(cpu).h = h

-----------------------------------------------------------------------------
(* The controllers *)

\* The mask registers are read, changed in one bit and written.
enable_irq(i) == imr' = imr \ {i}

send_eoi_SlaveOnly(s, i) == s \ {i}

\* A specific EOI; for a line of the slave the master's IR2 is ended too.
send_eoi(s, i) == IF i >= 8 THEN s \ {i, 2} ELSE s \ {i}

\* The line of the master a request comes in on; the smallest has priority.
Rank(i) == IF i = 8 THEN 2 ELSE i

Unmasked == {i \in irr \ imr : Rank(i) \notin imr}

\* The CPU takes this request next.
Accepts(i) ==
    /\ int_flag
    /\ i \in Unmasked
    /\ \A j \in Unmasked : Rank(i) <= Rank(j)
    /\ \A j \in isr : Rank(i) < Rank(j)

\* isr when the request is taken.
Serving(i) == isr \cup {i, Rank(i)}

-----------------------------------------------------------------------------
(* The devices.  What they ask for before i8259_init is lost. *)

Raise(i) == boot > 0 /\ irr' = irr \cup {i}
            /\ UNCHANGED << isr, imr, gates, boot, context, tasks, lines >>

RaiseTimer == 0 \notin irr /\ Raise(0) /\ UNCHANGED devices

\* The keyboard controller holds a scancode until it is read.
RaiseKey ==
    /\ port = NoKey
    /\ \E k \in IF Booted THEN Keys ELSE BootKeys : port' = k
    /\ Raise(1)
    /\ UNCHANGED reg_c

RaiseClock ==
    /\ ~reg_c
    /\ reg_c' = TRUE
    /\ Raise(8)
    /\ UNCHANGED port

-----------------------------------------------------------------------------
(* The clock: rtc_handler *)

ClockInterrupt ==
    /\ Accepts(8)
    /\ irr' = irr \ {8}
    /\ reg_c' = FALSE
    /\ isr' = send_eoi(Serving(8), 8)
    /\ UNCHANGED << imr, gates, boot, context, tasks, port, lines >>

-----------------------------------------------------------------------------
(* The timer: scheduler_handler *)

\* main_process and its entry of process_num; while entry() runs both have
\* their initial values.
main_process == IF Booted THEN cpu ELSE 0
Owner        == IF Booted THEN cpu ELSE None

Visited(i) == (Owner + 2 * i - 1) % NumTerms

check_tasks_Main ==
    LET hits == {i \in 1 .. NumTerms : curr_task[Visited(i)] # None}
    IN  IF hits = {} THEN None ELSE curr_task[Visited(Min(hits))]

check_tasks ==
    LET hits == {i \in 1 .. NumTerms : curr_task[Visited(i)] \notin {None, main_process}}
    IN  IF hits = {} THEN None ELSE curr_task[Visited(Min(hits))]

\* The task chosen goes on in scheduler_handler, where the timer stopped it, or
\* behind switch_terminal, which saved its context on the way to a first shell.
InScheduler(p) == stk[p] # << >> /\ Top(p).h = "pit"

\* The EOI is sent first, before the stack is another task's.
TimerInterrupt ==
    LET next == check_tasks
    IN  /\ Accepts(0)
        /\ irr' = irr \ {0}
        /\ isr' = send_eoi(Serving(0), 0)
        /\ IF next = None THEN UNCHANGED context
           ELSE /\ cpu' = next
                /\ LET saved == Push("pit", FALSE)
                   IN  IF InScheduler(next)
                         THEN /\ int_flag' = Top(next).iflag
                              /\ stk' = [saved EXCEPT ![next] = Pop(next)[next]]
                         ELSE int_flag' = FALSE /\ stk' = saved
        /\ UNCHANGED << imr, gates, boot, tasks, devices, lines >>

-----------------------------------------------------------------------------
(* The keyboard: keyboard_handler *)

\* The key is read at the port; the statics are those of the shown terminal.
ReadKey(k) ==
    /\ Accepts(1)
    /\ port = k
    /\ irr' = irr \ {1}
    /\ port' = NoKey
    /\ UNCHANGED << imr, gates, boot, reg_c >>

Statics(i) == [term |-> active_terminal, idx |-> i]
idx == save_idx[active_terminal]

Grown_NoLimit(i) == i + 1
Grown(i)         == IF i = MaxLine THEN i ELSE i + 1

\* A character: the line grows unless it is full.
KeyChar ==
    /\ ReadKey("char")
    /\ kbd' = Statics(Grown(idx))
    /\ save_idx' = [save_idx EXCEPT ![active_terminal] = Grown(idx)]
    /\ typed' = [typed EXCEPT ![active_terminal] = IF @ < MaxLine THEN @ + 1 ELSE @]
    /\ isr' = send_eoi(Serving(1), 1)
    /\ UNCHANGED << context, tasks >>

KeyEnter ==
    /\ ReadKey("enter")
    /\ kbd' = Statics(0)
    /\ save_idx' = [save_idx EXCEPT ![active_terminal] = 0]
    /\ typed' = [typed EXCEPT ![active_terminal] = 0]
    /\ isr' = send_eoi(Serving(1), 1)
    /\ UNCHANGED << context, tasks >>

\* Ctrl+L up to the sti() of terminal_write: the service is not over.
KeyClear ==
    /\ ReadKey("ctrl_l")
    /\ Depth(cpu) < MaxDepth
    /\ kbd' = Statics(idx)
    /\ isr' = Serving(1)
    /\ stk' = Push("kbd", TRUE)
    /\ UNCHANGED << int_flag, cpu, tasks, save_idx, typed >>

KillService_NoEoi == Serving(1)
KillService       == send_eoi(Serving(1), 1)

UserFlags_Copied == FALSE

\* IF of a process that execute starts: pushfl after cli(), with 0x200 or-ed in.
UserFlags == TRUE

\* Ctrl+C: the EOI, then system_halt drops all that is on the stack; a shell is
\* executed again, or the parent returns to its program.
KeyKill ==
    /\ ReadKey("ctrl_c")
    /\ kbd' = Statics(idx)
    /\ isr' = KillService
    /\ stk' = [stk EXCEPT ![cpu] = << >>]
    /\ int_flag' = UserFlags
    /\ UNCHANGED << cpu, tasks, save_idx, typed >>

\* Alt+Fn: the EOI, then switch_terminal up to its sti().
KeySwitch(t) ==
    /\ ReadKey("alt_fn")
    /\ t # active_terminal
    /\ curr_task[t] # None
    /\ Depth(cpu) < MaxDepth
    /\ active_terminal' = t
    /\ kbd' = Statics(idx)
    /\ isr' = send_eoi(Serving(1), 1)
    /\ stk' = Push("kbd", FALSE)
    /\ UNCHANGED << int_flag, cpu, curr_task, save_idx, typed >>

\* ... to a terminal without a task: its first shell is started.
KeyFirst(t) ==
    /\ ReadKey("alt_fn")
    /\ t # active_terminal
    /\ curr_task[t] = None
    /\ Depth(cpu) < MaxDepth
    /\ active_terminal' = t
    /\ curr_task' = [curr_task EXCEPT ![t] = t]
    /\ kbd' = Statics(idx)
    /\ isr' = send_eoi(Serving(1), 1)
    /\ stk' = Push("kbd", FALSE)
    /\ cpu' = t
    /\ int_flag' = UserFlags
    /\ UNCHANGED << save_idx, typed >>

\* ... and to the terminal that is shown: nothing happens.
KeySame ==
    /\ ReadKey("alt_fn")
    /\ kbd' = Statics(idx)
    /\ isr' = send_eoi(send_eoi(Serving(1), 1), 1)
    /\ UNCHANGED << context, tasks, save_idx, typed >>

KeyTail_Shown == save_idx' = [save_idx EXCEPT ![active_terminal] = kbd.idx]
KeyTail       == save_idx' = [save_idx EXCEPT ![kbd.term] = kbd.idx]

\* The rest of the handler: save_idx from the statics, which are those of the
\* last key now, and the EOI, for Alt+Fn the second one.
KeyEnd ==
    /\ In("kbd")
    /\ KeyTail
    /\ isr' = send_eoi(isr, 1)
    /\ int_flag' = Top(cpu).iflag
    /\ stk' = Pop(cpu)
    /\ UNCHANGED << irr, imr, gates, boot, cpu, tasks, devices, kbd, typed >>

-----------------------------------------------------------------------------
(* System calls and exceptions *)

Quiet == << pic, gates, boot, cpu, tasks, devices, lines >>

\* syscall_wrapper enables interrupts before the jump.
CallEnter ==
    /\ InUser
    /\ stk' = Push("call", FALSE)
    /\ int_flag' = TRUE
    /\ UNCHANGED Quiet

\* terminal_write: cli() and sti() around the output.
CallCli == In("call") /\ int_flag' = FALSE /\ UNCHANGED << stk, Quiet >>
CallSti == In("call") /\ ~int_flag /\ int_flag' = TRUE /\ UNCHANGED << stk, Quiet >>

CallReturn ==
    /\ In("call")
    /\ int_flag
    /\ int_flag' = Top(cpu).iflag
    /\ stk' = Pop(cpu)
    /\ UNCHANGED Quiet

\* The halt call and the handlers of exceptions: system_halt.
Halt ==
    /\ InUser \/ (Booted /\ In("call"))
    /\ stk' = [stk EXCEPT ![cpu] = << >>]
    /\ int_flag' = UserFlags
    /\ UNCHANGED Quiet

-----------------------------------------------------------------------------
(* entry() *)

BootOrder ==
    << "i8259_init", "init_idt", "irq_1", "irq_0", "rtc_int", "sti",
       "init_terminals", "shell" >>

\* entry() is at this step.
BootAt(step) ==
    /\ ~Booted
    /\ BootOrder[boot + 1] = step
    /\ boot' = boot + 1

\* The PIC comes back from its initialisation words with nothing requested or
\* in service and is masked but for the slave.
i8259_init ==
    /\ BootAt("i8259_init")
    /\ irr' = {} /\ isr' = {} /\ imr' = Lines \ {2}
    /\ UNCHANGED << gates, context, tasks, devices, lines >>

init_idt ==
    /\ BootAt("init_idt")
    /\ gates' = {0, 1, 8}
    /\ UNCHANGED << pic, context, tasks, devices, lines >>

BootIrq(step, i) ==
    /\ BootAt(step)
    /\ enable_irq(i)
    /\ UNCHANGED << irr, isr, gates, context, tasks, devices, lines >>

BootSti ==
    /\ BootAt("sti")
    /\ int_flag' = TRUE
    /\ UNCHANGED << pic, gates, cpu, stk, tasks, devices, lines >>

\* Until then curr_task is 0 everywhere, as the loader left it.  keyboard.h
\* declares terminals static, so keyboard.c has an array of its own, whose
\* save_idx this call does not reset: what was typed during boot stays.
init_terminals ==
    /\ BootAt("init_terminals")
    /\ curr_task' = [t \in Terms |-> None]
    /\ UNCHANGED << pic, gates, context, active_terminal, devices, lines >>

\* The execute of the first shell, which takes the slot of the shown terminal.
BootShell ==
    /\ BootAt("shell")
    /\ cpu' = active_terminal
    /\ curr_task' = [curr_task EXCEPT ![active_terminal] = active_terminal]
    /\ int_flag' = UserFlags
    /\ UNCHANGED << pic, gates, stk, active_terminal, devices, lines >>

BootStep ==
    \/ i8259_init \/ init_idt \/ BootIrq("irq_1", 1) \/ BootIrq("irq_0", 0)
    \/ BootIrq("rtc_int", 8) \/ BootSti \/ init_terminals \/ BootShell

-----------------------------------------------------------------------------
Init ==
    /\ irr = {} /\ isr = {} /\ imr = Lines
    /\ gates = {}
    /\ int_flag = FALSE
    /\ boot = 0
    /\ cpu = Boot
    /\ stk = [p \in Terms \cup {Boot} |-> << >>]
    /\ curr_task = [t \in Terms |-> 0]
    /\ active_terminal = 0
    /\ port = NoKey
    /\ reg_c = FALSE
    /\ kbd = [term |-> 0, idx |-> 0]
    /\ save_idx = [t \in Terms |-> 0]
    /\ typed = [t \in Terms |-> 0]

KeyInterrupt ==
    \/ KeyChar \/ KeyEnter \/ KeyClear \/ KeyKill \/ KeySame
    \/ \E t \in Terms : KeySwitch(t) \/ KeyFirst(t)

\* The code that runs on until it enables interrupts or returns.
KernelStep == KeyEnd \/ CallSti \/ CallReturn

Next ==
    \/ RaiseTimer \/ RaiseKey \/ RaiseClock
    \/ TimerInterrupt \/ KeyInterrupt \/ ClockInterrupt
    \/ KernelStep \/ CallEnter \/ CallCli \/ Halt
    \/ BootStep

Spec == Init /\ [][Next]_vars

\* The CPU takes a request that it again and again can take, the timer keeps
\* asking, and a time slice is long enough for the rest of a handler.
FairSpec ==
    /\ Spec
    /\ WF_vars(BootStep)
    /\ WF_vars(RaiseTimer)
    /\ SF_vars(TimerInterrupt) /\ SF_vars(KeyInterrupt) /\ SF_vars(ClockInterrupt)
    /\ SF_vars(KeyEnd) /\ WF_vars(CallSti)

-----------------------------------------------------------------------------
(* Properties *)

\* The registers hold lines, stacks hold activations, lines have a length.
TypeOK ==
    /\ irr \subseteq Lines /\ isr \subseteq Lines /\ imr \subseteq Lines
    /\ int_flag \in BOOLEAN
    /\ cpu \in Terms \cup {Boot}
    /\ stk \in [Terms \cup {Boot} -> Seq(Activations)]
    /\ curr_task \in [Terms -> Terms \cup {None}]
    /\ active_terminal \in Terms
    /\ save_idx \in [Terms -> 0 .. MaxLine]

\* keyboard.c: "We need to send a eoi before we halt or the bad things start to
\* happen".  Whatever is in service has a handler on some stack that still
\* sends its EOI: no halt and no switch of stacks loses one.
ServiceEnds ==
    \A i \in isr : i = 1 /\ \E p \in Terms, d \in 1 .. MaxDepth :
                                d <= Depth(p) /\ stk[p][d].owes

\* A program always runs with interrupts on: every way to user mode, first
\* iret, return of a call, resumption by the scheduler, restores IF.
UserInterruptible == InUser => int_flag

\* kernel.c enables interrupts before boot is over.  A request the CPU takes has
\* its gate, and a tick leaves entry() alone: there is no task to switch to in
\* the memory as loaded, nor in what init_terminals stores, before the shell.
BootKept ==
    /\ \A i \in Lines : Accepts(i) => i \in gates
    /\ boot < Len(BootOrder) => cpu = Boot

\* The line of each terminal has the length that was typed there, whichever
\* keys came in between the two halves of Ctrl+L and of Alt+Fn, on whichever
\* stack, and though Alt+Fn's second EOI may end another key's service.
IdxKept == \A t \in Terms : save_idx[t] = typed[t]

\* The timer, the keyboard and, unless another key comes, the clock are served:
\* no handler leaves its line, or a line before it, in service.
Served ==
    /\ 0 \in irr ~> 0 \notin irr
    /\ 1 \in irr ~> 1 \notin irr
    /\ reg_c ~> ~reg_c \/ port # NoKey
=============================================================================
