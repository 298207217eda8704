------------------------------ MODULE IrqProofs ------------------------------
(***************************************************************************)
(* What holds of Irq for any number of terminals, any keys, any length of  *)
(* a line and any depth of the kernel stacks.                              *)
(***************************************************************************)
EXTENDS Irq, OrderLemmas, SequenceTheorems, TLAPS

-----------------------------------------------------------------------------
(* The invariant *)

\* The activations of a stack: interrupts were on when each of them began, only
\* one of the keyboard owes an EOI, and a system call is the first of its stack,
\* since it comes from the program.
GoodStack(s) ==
    \A d \in 1 .. Len(s) :
        /\ s[d].iflag = TRUE
        /\ s[d].h # "kbd" => s[d].owes = FALSE
        /\ s[d].h = "call" => d = 1

Owes(s) == \E d \in 1 .. MaxDepth : d <= Len(s) /\ s[d].owes = TRUE

StackInv ==
    /\ \A p \in Terms : GoodStack(stk[p])
    /\ stk[Boot] = << >>

\* While entry() runs: what each of its steps has set up, and no task.
BootInv ==
    /\ boot \in 0 .. 8
    /\ boot = 8 <=> cpu # Boot
    /\ boot >= 2 => gates = {0, 1, 8}
    /\ boot < 6 => int_flag = FALSE
    /\ boot < 8 => /\ port \in {NoKey, "char", "enter"}
                   /\ \A p \in Terms : stk[p] = << >>
                   /\ \A t \in Terms : curr_task[t] \in {0, None}
    /\ boot = 7 => \A t \in Terms : curr_task[t] = None

\* Afterwards: each terminal has its own task or none, and a task that is not
\* running has an activation to go on with.
TaskInv ==
    boot = 8 => \A t \in Terms :
        /\ curr_task[t] \in {None, t}
        /\ curr_task[t] = None => t # cpu /\ stk[t] = << >>
        /\ curr_task[t] = t /\ t # cpu => stk[t] # << >>

UserInv == cpu # Boot /\ stk[cpu] = << >> => int_flag = TRUE

\* Only a key can be in service, and then a stack owes its EOI.
ServiceInv ==
    /\ irr \subseteq {0, 1, 8}
    /\ isr \subseteq {1}
    /\ 1 \in isr => \E p \in Terms : Owes(stk[p])

\* The statics of keyboard.c are always those of the terminal they name.
IdxInv ==
    /\ kbd \in [term : Terms, idx : 0 .. MaxLine]
    /\ typed \in [Terms -> 0 .. MaxLine]
    /\ save_idx = typed
    /\ kbd.idx = save_idx[kbd.term]

IrqInv ==
    /\ TypeOK /\ StackInv /\ BootInv /\ TaskInv /\ UserInv /\ ServiceInv /\ IdxInv

-----------------------------------------------------------------------------
(* Stacks *)

\* The constants, and that the boot and the terminals are different places.
LEMMA Places ==
    /\ Boot \notin Terms /\ 0 \in Terms /\ None \notin Terms
    /\ NumTerms \in Nat \ {0} /\ MaxLine \in Nat \ {0} /\ MaxDepth \in Nat
BY IrqAssumption DEF Boot, Terms, None

\* One activation more.
LEMMA Pushed ==
    ASSUME NEW s \in Seq(Activations), NEW a \in Activations, GoodStack(s),
           a.iflag = TRUE, a.h # "kbd" => a.owes = FALSE, a.h = "call" => s = << >>
    PROVE  /\ Append(s, a) \in Seq(Activations)
           /\ Append(s, a) # << >>
           /\ GoodStack(Append(s, a))
           /\ Owes(s) => Owes(Append(s, a))
           /\ a.owes = TRUE /\ Len(s) < MaxDepth => Owes(Append(s, a))
<1> DEFINE r == Append(s, a)
<1>1. Len(s) \in Nat
  OBVIOUS
<1>2. /\ r \in Seq(Activations) /\ r # << >> /\ Len(r) = Len(s) + 1
      /\ \A d \in 1 .. Len(s) : r[d] = s[d]
      /\ r[Len(s) + 1] = a
  BY AppendProperties
<1>3. s = << >> => Len(s) = 0
  OBVIOUS
<1> HIDE DEF r
<1>4. GoodStack(r)
  <2>1. ASSUME NEW d \in 1 .. Len(r)
        PROVE  /\ r[d].iflag = TRUE
               /\ r[d].h # "kbd" => r[d].owes = FALSE
               /\ r[d].h = "call" => d = 1
    <3>1. CASE d \in 1 .. Len(s)
      BY <1>2, <3>1 DEF GoodStack
    <3>2. CASE d = Len(s) + 1
      <4>1. r[d] = a
        BY <1>2, <3>2
      <4>2. a.h = "call" => d = 1
        BY <1>3, <3>2
      <4> QED BY <4>1, <4>2
    <3>3. d \in 1 .. Len(s) \/ d = Len(s) + 1
      BY <1>1, <1>2
    <3> QED BY <3>1, <3>2, <3>3, Zenon
  <2> QED BY <2>1 DEF GoodStack
<1>5. Owes(s) => Owes(r)
  <2> SUFFICES ASSUME Owes(s) PROVE Owes(r)
    OBVIOUS
  <2>1. PICK d \in 1 .. MaxDepth : d <= Len(s) /\ s[d].owes = TRUE
    BY DEF Owes
  <2>2. d \in 1 .. Len(s) /\ d <= Len(r)
    BY <1>1, <1>2, <2>1, Places
  <2>3. r[d].owes = TRUE
    BY <1>2, <2>1, <2>2
  <2> QED BY <2>2, <2>3 DEF Owes
<1>6. a.owes = TRUE /\ Len(s) < MaxDepth => Owes(r)
  <2> SUFFICES ASSUME a.owes = TRUE, Len(s) < MaxDepth PROVE Owes(r)
    OBVIOUS
  <2>1. Len(s) + 1 \in 1 .. MaxDepth /\ Len(s) + 1 <= Len(r)
    BY <1>1, <1>2, Places
  <2>2. r[Len(s) + 1].owes = TRUE
    BY <1>2
  <2> QED BY <2>1, <2>2 DEF Owes
<1> QED BY <1>2, <1>4, <1>5, <1>6 DEF r

\* One activation less.
LEMMA Popped ==
    ASSUME NEW s \in Seq(Activations), s # << >>, GoodStack(s)
    PROVE  LET r == SubSeq(s, 1, Len(s) - 1)
           IN  /\ r \in Seq(Activations)
               /\ GoodStack(r)
               /\ Owes(s) /\ s[Len(s)].owes = FALSE => Owes(r)
<1> DEFINE r == SubSeq(s, 1, Len(s) - 1)
<1>1. Len(s) \in Nat \ {0}
  BY EmptySeq
<1>2. /\ r \in Seq(Activations) /\ Len(r) = Len(s) - 1
      /\ \A d \in 1 .. Len(s) - 1 : r[d] = s[d]
  <2>1. 1 \in 1 .. Len(s) + 1 /\ Len(s) - 1 \in 0 .. Len(s)
    BY <1>1
  <2>2. Len(s) - 1 - 1 + 1 = Len(s) - 1 /\ \A d \in 1 .. Len(s) - 1 : 1 + d - 1 = d
    BY <1>1
  <2> QED BY <2>1, <2>2, SubSeqProperties
<1> HIDE DEF r
<1>3. GoodStack(r)
  <2>1. \A d \in 1 .. Len(r) : d \in 1 .. Len(s) /\ r[d] = s[d]
    BY <1>1, <1>2
  <2> QED BY <2>1 DEF GoodStack
<1>4. ASSUME Owes(s), s[Len(s)].owes = FALSE PROVE Owes(r)
  <2>1. PICK d \in 1 .. MaxDepth : d <= Len(s) /\ s[d].owes = TRUE
    BY <1>4 DEF Owes
  <2>2. d # Len(s)
    BY <1>4, <2>1
  <2>3. d \in 1 .. Len(s) - 1 /\ d <= Len(r)
    BY <1>1, <1>2, <2>1, <2>2, Places
  <2>4. r[d].owes = TRUE
    BY <1>2, <2>1, <2>3
  <2> QED BY <2>3, <2>4 DEF Owes
<1> QED BY <1>2, <1>3, <1>4 DEF r

\* The iret of the activation on top enables interrupts.
LEMMA TopIsGood ==
    ASSUME NEW s \in Seq(Activations), s # << >>, GoodStack(s)
    PROVE  s[Len(s)].iflag = TRUE
<1>1. Len(s) \in 1 .. Len(s)
  BY EmptySeq
<1> QED BY <1>1 DEF GoodStack

\* The stack of a task that has just been started.
LEMMA EmptyStack ==
    /\ << >> \in Seq(Activations)
    /\ GoodStack(<< >>)
<1>1. << >> \in Seq(Activations) /\ Len(<< >>) = 0
  OBVIOUS
<1>2. \A d \in 1 .. 0 : FALSE
  OBVIOUS
<1> QED BY <1>1, <1>2 DEF GoodStack

\* A push on the stack of the CPU, and on no other.
LEMMA PushStep ==
    ASSUME TypeOK, StackInv, cpu \in Terms, int_flag = TRUE,
           NEW h \in {"call", "kbd", "pit"}, NEW owes \in BOOLEAN,
           h # "kbd" => owes = FALSE, h = "call" => stk[cpu] = << >>
    PROVE  /\ Push(h, owes) \in [Terms \cup {Boot} -> Seq(Activations)]
           /\ Push(h, owes)[cpu] # << >>
           /\ GoodStack(Push(h, owes)[cpu])
           /\ Owes(stk[cpu]) => Owes(Push(h, owes)[cpu])
           /\ owes = TRUE /\ Depth(cpu) < MaxDepth => Owes(Push(h, owes)[cpu])
           /\ \A p \in (Terms \cup {Boot}) \ {cpu} : Push(h, owes)[p] = stk[p]
<1> DEFINE a == [h |-> h, owes |-> owes, iflag |-> TRUE]
<1>1. a \in Activations /\ a.iflag = TRUE /\ a.h = h /\ a.owes = owes
  BY DEF Activations
<1>2. stk[cpu] \in Seq(Activations) /\ GoodStack(stk[cpu])
  BY DEF TypeOK, StackInv
<1>3. Push(h, owes) = [stk EXCEPT ![cpu] = Append(stk[cpu], a)]
  BY DEF Push
<1> HIDE DEF a
<1> DEFINE r == Append(stk[cpu], a)
<1>4. /\ r \in Seq(Activations) /\ r # << >> /\ GoodStack(r)
      /\ Owes(stk[cpu]) => Owes(r)
      /\ owes = TRUE /\ Len(stk[cpu]) < MaxDepth => Owes(r)
  BY <1>1, <1>2, Pushed
<1> HIDE DEF r
<1>5. Push(h, owes) = [stk EXCEPT ![cpu] = r]
  BY <1>3 DEF r
<1>6. Push(h, owes)[cpu] = r
  BY <1>5 DEF TypeOK
<1>7. \A p \in (Terms \cup {Boot}) \ {cpu} : Push(h, owes)[p] = stk[p]
  BY <1>5 DEF TypeOK
<1>8. Push(h, owes) \in [Terms \cup {Boot} -> Seq(Activations)]
  BY <1>4, <1>5 DEF TypeOK
<1> QED BY <1>4, <1>6, <1>7, <1>8 DEF Depth

-----------------------------------------------------------------------------
(* The controllers and the devices *)

\* What a request leaves in service: keys are taken only when none is, and the
\* timer's service is over before another stack runs.
LEMMA Service ==
    ASSUME ServiceInv
    PROVE  /\ Accepts(1) => /\ isr = {} /\ Serving(1) = {1}
                            /\ send_eoi(Serving(1), 1) = {}
                            /\ send_eoi(send_eoi(Serving(1), 1), 1) = {}
           /\ Accepts(8) => send_eoi(Serving(8), 8) = {}
           /\ Accepts(0) => send_eoi(Serving(0), 0) = isr
           /\ send_eoi(isr, 1) = {}
<1>1. Accepts(1) => isr = {}
  BY DEF ServiceInv, Accepts, Rank
<1>2. Accepts(8) => isr = {}
  BY DEF ServiceInv, Accepts, Rank
<1>3. 0 \notin isr /\ isr \subseteq {1}
  BY DEF ServiceInv
<1>4. Accepts(1) => /\ Serving(1) = {1}
                    /\ send_eoi(Serving(1), 1) = {}
                    /\ send_eoi(send_eoi(Serving(1), 1), 1) = {}
  BY <1>1 DEF Serving, send_eoi, Rank
<1>5. Accepts(8) => send_eoi(Serving(8), 8) = {}
  BY <1>2 DEF Serving, send_eoi, Rank
<1>6. send_eoi(Serving(0), 0) = isr
  BY <1>3 DEF Serving, send_eoi, Rank
<1>7. send_eoi(isr, 1) = {}
  BY <1>3 DEF send_eoi
<1> QED BY <1>1, <1>4, <1>5, <1>6, <1>7

\* The processor takes an interrupt only with the flag set.
LEMMA AcceptedOn ==
    ASSUME TypeOK, NEW i, Accepts(i)
    PROVE  int_flag = TRUE
BY DEF TypeOK, Accepts

\* A key other than a character or Enter was pressed after boot.
LEMMA KeyAfterBoot ==
    ASSUME TypeOK, BootInv, NEW k \in {"ctrl_l", "ctrl_c", "alt_fn"}, port = k
    PROVE  cpu \in Terms /\ boot = 8
<1>1. boot = 8
  BY DEF BootInv, NoKey
<1> QED BY <1>1 DEF BootInv, TypeOK

\* The devices ask, and the clock is served.
LEMMA RaiseStep ==
    ASSUME IrqInv, RaiseTimer \/ RaiseKey \/ RaiseClock \/ ClockInterrupt
    PROVE  IrqInv'
<1> USE DEF IrqInv
<1>1. /\ UNCHANGED << imr, gates, boot, context, tasks, lines >>
      /\ irr' \subseteq {0, 1, 8} /\ isr' \in {isr, {}}
  BY Service DEF RaiseTimer, RaiseKey, RaiseClock, ClockInterrupt, Raise, ServiceInv
<1>2. boot < 8 => port' \in {NoKey, "char", "enter"}
  <2>1. RaiseTimer \/ RaiseClock \/ ClockInterrupt => port' = port
    BY DEF RaiseTimer, RaiseClock, ClockInterrupt, devices
  <2>2. RaiseKey => \E k \in IF Booted THEN Keys ELSE BootKeys : port' = k
    BY DEF RaiseKey
  <2>3. boot < 8 => ~Booted
    BY DEF BootInv, Booted
  <2> QED BY <2>1, <2>2, <2>3, IrqAssumption DEF BootInv
<1> USE DEF context, tasks, lines
<1>3. TypeOK'
  BY <1>1 DEF TypeOK, Lines, ServiceInv
<1>4. StackInv' /\ TaskInv' /\ UserInv' /\ IdxInv'
  BY <1>1 DEF StackInv, TaskInv, UserInv, IdxInv
<1>5. BootInv'
  BY <1>1, <1>2 DEF BootInv
<1>6. ServiceInv'
  BY <1>1 DEF ServiceInv
<1> QED BY <1>3, <1>4, <1>5, <1>6

-----------------------------------------------------------------------------
(* The keyboard *)

\* A key grows the line up to its end and no further.
LEMMA GrownIs ==
    ASSUME NEW i \in 0 .. MaxLine
    PROVE  /\ Grown(i) \in 0 .. MaxLine
           /\ Grown(i) = IF i < MaxLine THEN i + 1 ELSE i
BY Places DEF Grown

\* The statics and save_idx of the shown terminal are stored together.
LEMMA IdxStored ==
    ASSUME IdxInv, active_terminal \in Terms, NEW i \in 0 .. MaxLine,
           kbd' = Statics(i),
           save_idx' = [save_idx EXCEPT ![active_terminal] = i],
           typed' = [typed EXCEPT ![active_terminal] = i]
    PROVE  IdxInv' /\ save_idx' \in [Terms -> 0 .. MaxLine]
<1> DEFINE a == active_terminal
<1>1. typed' \in [Terms -> 0 .. MaxLine] /\ save_idx' = typed' /\ save_idx'[a] = i
  BY DEF IdxInv
<1>2. kbd' = [term |-> a, idx |-> i]
  BY DEF Statics
<1> QED BY <1>1, <1>2 DEF IdxInv

\* ... or the statics alone, from save_idx.
LEMMA IdxLoaded ==
    ASSUME IdxInv, active_terminal \in Terms, kbd' = Statics(idx),
           UNCHANGED << save_idx, typed >>
    PROVE  IdxInv'
<1>1. idx \in 0 .. MaxLine /\ kbd' = [term |-> active_terminal, idx |-> idx]
  BY DEF IdxInv, Statics, idx
<1>2. kbd' \in [term : Terms, idx : 0 .. MaxLine]
  BY <1>1
<1>3. kbd'.idx = save_idx[kbd'.term]
  BY <1>1 DEF idx
<1> QED BY <1>2, <1>3 DEF IdxInv

\* Keys whose handler runs from end to end on the stack it began on.
LEMMA KeyPlainStep ==
    ASSUME IrqInv, KeyChar \/ KeyEnter \/ KeySame
    PROVE  IrqInv'
<1> USE DEF IrqInv
<1>0. Accepts(1) /\ irr' = irr \ {1} /\ port' = NoKey
      /\ UNCHANGED << imr, gates, boot, int_flag, cpu, stk, curr_task, active_terminal >>
      /\ active_terminal \in Terms
  BY DEF KeyChar, KeyEnter, KeySame, ReadKey, context, tasks, TypeOK
<1>1. isr' = {}
  BY <1>0, Service DEF KeyChar, KeyEnter, KeySame
<1>2. IdxInv' /\ save_idx' \in [Terms -> 0 .. MaxLine]
  <2>1. CASE KeyChar
    <3> DEFINE g == Grown(idx)
    <3>1. idx \in 0 .. MaxLine /\ idx = typed[active_terminal]
      BY <1>0 DEF idx, IdxInv
    <3>2. g \in 0 .. MaxLine /\ g = IF idx < MaxLine THEN idx + 1 ELSE idx
      BY <3>1, GrownIs
    <3>3. /\ kbd' = Statics(g) /\ save_idx' = [save_idx EXCEPT ![active_terminal] = g]
          /\ typed' = [typed EXCEPT ![active_terminal] =
                           IF typed[active_terminal] < MaxLine
                           THEN typed[active_terminal] + 1 ELSE typed[active_terminal]]
      BY <2>1 DEF KeyChar
    <3> HIDE DEF g
    <3>4. typed' = [typed EXCEPT ![active_terminal] = g]
      BY <3>1, <3>2, <3>3
    <3> QED BY <1>0, <3>2, <3>3, <3>4, IdxStored
  <2>2. CASE KeyEnter
    <3>1. 0 \in 0 .. MaxLine
      BY Places
    <3> QED BY <1>0, <2>2, <3>1, IdxStored DEF KeyEnter
  <2>3. CASE KeySame
    BY <1>0, <2>3, IdxLoaded DEF KeySame, TypeOK
  <2> QED BY <2>1, <2>2, <2>3
<1>3. TypeOK'
  BY <1>0, <1>1, <1>2 DEF TypeOK
<1>4. StackInv' /\ TaskInv' /\ UserInv'
  BY <1>0 DEF StackInv, TaskInv, UserInv
<1>5. BootInv'
  BY <1>0 DEF BootInv
<1>6. ServiceInv'
  BY <1>0, <1>1 DEF ServiceInv
<1> QED BY <1>2, <1>3, <1>4, <1>5, <1>6

\* A step that changes the stack of the CPU and no other, once boot is over.
LEMMA OwnStackStep ==
    ASSUME TypeOK, StackInv, BootInv, TaskInv, cpu \in Terms,
           NEW r \in Seq(Activations), GoodStack(r),
           stk' = [stk EXCEPT ![cpu] = r],
           UNCHANGED << boot, gates, cpu, curr_task >>
    PROVE  /\ stk' \in [Terms \cup {Boot} -> Seq(Activations)]
           /\ StackInv' /\ BootInv' /\ TaskInv'
           /\ boot = 8
<1>1. /\ stk' \in [Terms \cup {Boot} -> Seq(Activations)]
      /\ stk'[cpu] = r
      /\ \A p \in (Terms \cup {Boot}) \ {cpu} : stk'[p] = stk[p]
  BY DEF TypeOK
<1>2. boot = 8 /\ cpu # Boot
  BY Places DEF BootInv
<1>3. StackInv'
  <2>1. \A p \in Terms : GoodStack(stk'[p])
    BY <1>1 DEF StackInv
  <2>2. stk'[Boot] = << >>
    BY <1>1, <1>2 DEF StackInv
  <2> QED BY <2>1, <2>2 DEF StackInv
<1>4. BootInv'
  BY <1>2 DEF BootInv
<1>5. TaskInv'
  <2>1. ASSUME NEW t \in Terms
        PROVE  /\ curr_task[t] \in {None, t}
               /\ curr_task[t] = None => t # cpu /\ stk'[t] = << >>
               /\ curr_task[t] = t /\ t # cpu => stk'[t] # << >>
    BY <1>1, <1>2 DEF TaskInv
  <2> QED BY <2>1 DEF TaskInv
<1> QED BY <1>1, <1>2, <1>3, <1>4, <1>5

\* Ctrl+L (owes) and Alt+Fn up to their sti(): the rest stays on the stack.
KeyHalf(owes) ==
    /\ Accepts(1) /\ irr' = irr \ {1}
    /\ port \in {"ctrl_l", "alt_fn"} /\ Depth(cpu) < MaxDepth
    /\ stk' = Push("kbd", owes) /\ isr' = IF owes = TRUE THEN {1} ELSE {}
    /\ active_terminal' \in Terms /\ kbd' = Statics(idx)
    /\ UNCHANGED << imr, gates, boot, int_flag, cpu, curr_task, save_idx, typed >>

\* The two keys do that.
LEMMA KeyHalves ==
    ASSUME TypeOK, ServiceInv
    PROVE  /\ KeyClear => KeyHalf(TRUE)
           /\ \A t \in Terms : KeySwitch(t) => KeyHalf(FALSE)
<1>1. ASSUME KeyClear PROVE KeyHalf(TRUE)
  <2>1. isr' = {1}
    BY <1>1, Service DEF KeyClear, ReadKey
  <2> QED BY <1>1, <2>1 DEF KeyClear, ReadKey, KeyHalf, tasks, TypeOK
<1>2. ASSUME NEW t \in Terms, KeySwitch(t) PROVE KeyHalf(FALSE)
  <2>1. isr' = {}
    BY <1>2, Service DEF KeySwitch, ReadKey
  <2> QED BY <1>2, <2>1 DEF KeySwitch, ReadKey, KeyHalf
<1> QED BY <1>1, <1>2

\* What is left of a key's handler keeps its debt on the stack.
LEMMA KeyHalfStep ==
    ASSUME IrqInv, NEW owes \in BOOLEAN, KeyHalf(owes)
    PROVE  IrqInv'
<1> USE DEF IrqInv
<1>1. cpu \in Terms /\ boot = 8 /\ int_flag = TRUE /\ active_terminal \in Terms
  BY KeyAfterBoot, AcceptedOn DEF KeyHalf, TypeOK
<1> DEFINE r == Push("kbd", owes)[cpu]
<1>2. /\ Push("kbd", owes) \in [Terms \cup {Boot} -> Seq(Activations)]
      /\ r # << >> /\ GoodStack(r)
      /\ owes = TRUE => Owes(r)
      /\ \A p \in (Terms \cup {Boot}) \ {cpu} : Push("kbd", owes)[p] = stk[p]
  BY <1>1, PushStep DEF KeyHalf
<1>3. stk' = [stk EXCEPT ![cpu] = r] /\ r \in Seq(Activations) /\ stk'[cpu] = r
  BY <1>1, <1>2 DEF KeyHalf, TypeOK
<1> HIDE DEF r
<1>4. /\ stk' \in [Terms \cup {Boot} -> Seq(Activations)]
      /\ StackInv' /\ BootInv' /\ TaskInv'
  BY <1>1, <1>2, <1>3, OwnStackStep DEF KeyHalf
<1>5. IdxInv'
  BY <1>1, IdxLoaded DEF KeyHalf
<1>6. TypeOK'
  BY <1>4 DEF KeyHalf, TypeOK, Lines
<1>7. UserInv'
  BY <1>2, <1>3 DEF KeyHalf, UserInv
<1>8. ServiceInv'
  <2>1. owes = TRUE => Owes(stk'[cpu])
    BY <1>2, <1>3
  <2> QED BY <1>1, <2>1 DEF KeyHalf, ServiceInv
<1> QED BY <1>4, <1>5, <1>6, <1>7, <1>8

\* Alt+Fn to a terminal without a task: its shell starts on an empty stack.
LEMMA KeyFirstStep ==
    ASSUME IrqInv, NEW t \in Terms, KeyFirst(t)
    PROVE  IrqInv'
<1> USE DEF IrqInv
<1>1. cpu \in Terms /\ boot = 8 /\ int_flag = TRUE /\ active_terminal \in Terms
  BY KeyAfterBoot, AcceptedOn DEF KeyFirst, ReadKey, TypeOK
<1>2. /\ irr' = irr \ {1} /\ active_terminal' = t /\ kbd' = Statics(idx)
      /\ curr_task' = [curr_task EXCEPT ![t] = t] /\ curr_task[t] = None
      /\ stk' = Push("kbd", FALSE) /\ cpu' = t /\ int_flag' = TRUE
      /\ UNCHANGED << imr, gates, boot, save_idx, typed >>
  BY DEF KeyFirst, ReadKey, UserFlags
<1>3. isr' = {}
  BY Service DEF KeyFirst, ReadKey
<1>4. /\ stk' \in [Terms \cup {Boot} -> Seq(Activations)]
      /\ stk'[cpu] # << >> /\ GoodStack(stk'[cpu])
      /\ \A p \in (Terms \cup {Boot}) \ {cpu} : stk'[p] = stk[p]
  BY <1>1, <1>2, PushStep
<1>5. /\ curr_task' \in [Terms -> Terms \cup {None}]
      /\ curr_task'[t] = t /\ \A u \in Terms \ {t} : curr_task'[u] = curr_task[u]
  BY <1>2 DEF TypeOK
<1>6. t # Boot /\ cpu # Boot /\ t # None
  BY <1>1, Places
<1>7. StackInv'
  <2>1. \A p \in Terms : GoodStack(stk'[p])
    BY <1>4 DEF StackInv
  <2> QED BY <1>4, <1>6, <2>1 DEF StackInv
<1>8. BootInv'
  BY <1>1, <1>2, <1>6 DEF BootInv
<1>9. TaskInv'
  <2>1. ASSUME NEW u \in Terms
        PROVE  /\ curr_task'[u] \in {None, u}
               /\ curr_task'[u] = None => u # t /\ stk'[u] = << >>
               /\ curr_task'[u] = u /\ u # t => stk'[u] # << >>
    <3>1. /\ curr_task[u] \in {None, u}
          /\ curr_task[u] = None => u # cpu /\ stk[u] = << >>
          /\ curr_task[u] = u /\ u # cpu => stk[u] # << >>
      BY <1>1 DEF TaskInv
    <3>2. CASE u = t
      BY <1>5, <1>6, <3>2
    <3>3. CASE u # t
      <4>1. curr_task'[u] = curr_task[u]
        BY <1>5, <3>3
      <4>2. u # cpu => stk'[u] = stk[u]
        BY <1>4
      <4> QED BY <1>4, <3>1, <3>3, <4>1, <4>2
    <3> QED BY <3>2, <3>3
  <2> QED BY <1>2, <2>1 DEF TaskInv
<1>10. IdxInv'
  BY <1>1, <1>2, IdxLoaded
<1>11. TypeOK'
  BY <1>2, <1>3, <1>4, <1>5 DEF TypeOK
<1>12. UserInv' /\ ServiceInv'
  BY <1>2, <1>3 DEF UserInv, ServiceInv
<1> QED BY <1>7, <1>8, <1>9, <1>10, <1>11, <1>12

\* Ctrl+C: no stack owes anything, so the one that is dropped does not.
LEMMA KeyKillStep ==
    ASSUME IrqInv, KeyKill
    PROVE  IrqInv'
<1> USE DEF IrqInv
<1>1. cpu \in Terms /\ active_terminal \in Terms
  BY KeyAfterBoot DEF KeyKill, ReadKey, TypeOK
<1>2. /\ irr' = irr \ {1} /\ kbd' = Statics(idx)
      /\ stk' = [stk EXCEPT ![cpu] = << >>] /\ int_flag' = TRUE
      /\ UNCHANGED << imr, gates, boot, cpu, curr_task, active_terminal, save_idx, typed >>
  BY DEF KeyKill, ReadKey, UserFlags, tasks
<1>3. isr' = {}
  BY Service DEF KeyKill, ReadKey, KillService
<1>4. /\ stk' \in [Terms \cup {Boot} -> Seq(Activations)]
      /\ StackInv' /\ BootInv' /\ TaskInv'
  BY <1>1, <1>2, EmptyStack, OwnStackStep
<1>5. IdxInv'
  BY <1>1, <1>2, IdxLoaded
<1>6. TypeOK' /\ UserInv' /\ ServiceInv'
  BY <1>2, <1>3, <1>4 DEF TypeOK, UserInv, ServiceInv
<1> QED BY <1>4, <1>5, <1>6

\* The rest of a key's handler: it stores what the statics say of their own
\* terminal, and leaves nothing in service.
LEMMA KeyEndStep ==
    ASSUME IrqInv, KeyEnd
    PROVE  IrqInv'
<1> USE DEF IrqInv
<1>1. /\ stk[cpu] # << >> /\ save_idx' = [save_idx EXCEPT ![kbd.term] = kbd.idx]
      /\ isr' = send_eoi(isr, 1) /\ int_flag' = Top(cpu).iflag /\ stk' = Pop(cpu)
      /\ UNCHANGED << irr, imr, gates, boot, cpu, curr_task, active_terminal, kbd, typed >>
  BY DEF KeyEnd, In, KeyTail, tasks
<1>2. cpu \in Terms
  BY <1>1 DEF TypeOK, StackInv
<1> DEFINE r == SubSeq(stk[cpu], 1, Len(stk[cpu]) - 1)
<1>3. stk[cpu] \in Seq(Activations) /\ GoodStack(stk[cpu])
  BY <1>2 DEF TypeOK, StackInv
<1>4. r \in Seq(Activations) /\ GoodStack(r)
  BY <1>1, <1>3, Popped
<1>5. stk' = [stk EXCEPT ![cpu] = r]
  BY <1>1 DEF Pop, Depth
<1> HIDE DEF r
<1>6. /\ stk' \in [Terms \cup {Boot} -> Seq(Activations)]
      /\ StackInv' /\ BootInv' /\ TaskInv'
  BY <1>1, <1>2, <1>4, <1>5, OwnStackStep
<1>7. int_flag' = TRUE
  BY <1>1, <1>3, TopIsGood DEF Top, Depth
<1>8. isr' = {}
  BY <1>1, Service
<1>9. save_idx' = save_idx
  <2>1. kbd.term \in Terms /\ kbd.idx = save_idx[kbd.term]
    BY DEF IdxInv
  <2> QED BY <1>1, <2>1 DEF TypeOK
<1>10. TypeOK' /\ UserInv' /\ ServiceInv' /\ IdxInv'
  BY <1>1, <1>6, <1>7, <1>8, <1>9 DEF TypeOK, UserInv, ServiceInv, IdxInv
<1> QED BY <1>6, <1>10

-----------------------------------------------------------------------------
(* System calls *)

\* A system call begins on an empty stack.
LEMMA CallEnterStep ==
    ASSUME IrqInv, CallEnter
    PROVE  IrqInv'
<1> USE DEF IrqInv
<1>1. /\ cpu # Boot /\ stk[cpu] = << >> /\ stk' = Push("call", FALSE) /\ int_flag' = TRUE
      /\ UNCHANGED Quiet
  BY DEF CallEnter, InUser, Booted
<1> USE DEF Quiet, pic, tasks, devices, lines
<1>2. cpu \in Terms /\ int_flag = TRUE
  BY <1>1 DEF TypeOK, UserInv
<1> DEFINE r == Push("call", FALSE)[cpu]
<1>3. /\ stk' \in [Terms \cup {Boot} -> Seq(Activations)]
      /\ r # << >> /\ GoodStack(r)
      /\ Owes(stk[cpu]) => Owes(r)
      /\ \A p \in (Terms \cup {Boot}) \ {cpu} : stk'[p] = stk[p]
  BY <1>1, <1>2, PushStep
<1>4. stk' = [stk EXCEPT ![cpu] = r] /\ r \in Seq(Activations) /\ stk'[cpu] = r
  BY <1>1, <1>2, <1>3 DEF TypeOK
<1> HIDE DEF r
<1>5. StackInv' /\ BootInv' /\ TaskInv'
  BY <1>1, <1>2, <1>3, <1>4, OwnStackStep
<1>6. ServiceInv'
  <2>1. \A p \in Terms : Owes(stk[p]) => Owes(stk'[p])
    BY <1>3, <1>4
  <2> QED BY <1>1, <2>1 DEF ServiceInv
<1>7. TypeOK' /\ UserInv' /\ IdxInv'
  BY <1>1, <1>3 DEF TypeOK, UserInv, IdxInv
<1> QED BY <1>5, <1>6, <1>7

\* cli() and sti() in terminal_write.
LEMMA CallFlagStep ==
    ASSUME IrqInv, CallCli \/ CallSti
    PROVE  IrqInv'
<1> USE DEF IrqInv
<1>1. stk[cpu] # << >> /\ int_flag' \in BOOLEAN /\ UNCHANGED << stk, Quiet >>
  BY DEF CallCli, CallSti, In
<1> USE DEF Quiet, pic, tasks, devices, lines
<1>2. cpu # Boot
  BY <1>1 DEF StackInv
<1>3. TypeOK' /\ UserInv'
  BY <1>1 DEF TypeOK, UserInv
<1>4. StackInv' /\ TaskInv' /\ ServiceInv' /\ IdxInv'
  BY <1>1 DEF StackInv, TaskInv, ServiceInv, IdxInv
<1>5. BootInv'
  BY <1>1, <1>2 DEF BootInv
<1> QED BY <1>3, <1>4, <1>5

\* A call is the first activation of its stack and owes nothing: neither its
\* return nor a halt from within loses an EOI.
LEMMA CallEndStep ==
    ASSUME IrqInv, CallReturn \/ Halt
    PROVE  IrqInv'
<1> USE DEF IrqInv
<1>0. cpu \in Terms /\ stk[cpu] \in Seq(Activations) /\ GoodStack(stk[cpu])
  <2>1. cpu # Boot
    BY DEF CallReturn, Halt, InUser, Booted, In, StackInv
  <2> QED BY <2>1 DEF TypeOK, StackInv
<1>1. ~Owes(stk[cpu])
  <2>1. CASE stk[cpu] = << >>
    BY <2>1, Places DEF Owes
  <2>2. CASE In("call")
    <3>1. stk[cpu] # << >> /\ stk[cpu][Len(stk[cpu])].h = "call"
      BY <2>2 DEF In, Top, Depth
    <3>2. Len(stk[cpu]) \in 1 .. Len(stk[cpu])
      BY <1>0, <3>1, EmptySeq
    <3>3. Len(stk[cpu]) = 1
      BY <1>0, <3>1, <3>2 DEF GoodStack
    <3>4. stk[cpu][1].owes = FALSE
      BY <1>0, <3>1, <3>3 DEF GoodStack
    <3>5. ASSUME NEW d \in 1 .. MaxDepth, d <= Len(stk[cpu]) PROVE d = 1
      BY <3>3, <3>5, Places
    <3> QED BY <3>4, <3>5 DEF Owes
  <2> QED BY <2>1, <2>2 DEF CallReturn, Halt, InUser
<1>2. UNCHANGED Quiet
  BY DEF CallReturn, Halt
<1> USE DEF Quiet, pic, tasks, devices, lines
<1>3. PICK r \in Seq(Activations) :
        GoodStack(r) /\ stk' = [stk EXCEPT ![cpu] = r] /\ int_flag' = TRUE
  <2>1. CASE Halt
    BY <2>1, EmptyStack DEF Halt, UserFlags
  <2>2. CASE CallReturn
    <3> DEFINE r == SubSeq(stk[cpu], 1, Len(stk[cpu]) - 1)
    <3>1. stk[cpu] # << >>
      BY <2>2 DEF CallReturn, In
    <3>2. r \in Seq(Activations) /\ GoodStack(r)
      BY <1>0, <3>1, Popped
    <3>3. stk' = [stk EXCEPT ![cpu] = r]
      BY <2>2 DEF CallReturn, Pop, Depth
    <3>4. int_flag' = TRUE
      BY <1>0, <2>2, <3>1, TopIsGood DEF CallReturn, Top, Depth
    <3> QED BY <3>2, <3>3, <3>4
  <2> QED BY <2>1, <2>2
<1>4. /\ stk' \in [Terms \cup {Boot} -> Seq(Activations)]
      /\ StackInv' /\ BootInv' /\ TaskInv'
  BY <1>0, <1>2, <1>3, OwnStackStep
<1>5. ServiceInv'
  <2>1. \A p \in Terms \ {cpu} : stk'[p] = stk[p]
    BY <1>0, <1>3 DEF TypeOK
  <2> QED BY <1>1, <1>2, <2>1 DEF ServiceInv
<1>6. TypeOK' /\ UserInv' /\ IdxInv'
  BY <1>2, <1>3, <1>4 DEF TypeOK, UserInv, IdxInv
<1> QED BY <1>4, <1>5, <1>6

-----------------------------------------------------------------------------
(* The timer *)

\* During boot there is no task to switch to; afterwards check_tasks finds the
\* task of another terminal, which has an activation to go on with.
LEMMA check_tasksFinds ==
    ASSUME TypeOK, BootInv, TaskInv
    PROVE  \/ check_tasks = None
           \/ /\ check_tasks \in Terms /\ check_tasks # cpu /\ cpu \in Terms
              /\ boot = 8
              /\ curr_task[check_tasks] = check_tasks /\ stk[check_tasks] # << >>
<1> DEFINE hits == {i \in 1 .. NumTerms : curr_task[Visited(i)] \notin {None, main_process}}
<1>1. \A i \in 1 .. NumTerms : Visited(i) \in Terms
  <2>1. Owner \in Int
    BY Places DEF Owner, TypeOK, Booted, Terms, Boot, None
  <2> QED BY <2>1, Places DEF Visited, Terms
<1>2. check_tasks = IF hits = {} THEN None ELSE curr_task[Visited(Min(hits))]
  BY DEF check_tasks
<1>3. CASE hits = {}
  BY <1>2, <1>3
<1>4. CASE hits # {}
  <2>1. Min(hits) \in hits
    BY <1>4, Places, MinIn
  <2>2. PICK v \in Terms : check_tasks = curr_task[v] /\ curr_task[v] \notin {None, main_process}
    BY <1>1, <1>2, <1>4, <2>1
  <2>3. cpu # Boot
    <3>1. cpu = Boot => main_process = 0 /\ boot < 8
      BY DEF main_process, Booted, BootInv
    <3> QED BY <2>2, <3>1 DEF BootInv
  <2>4. cpu \in Terms /\ boot = 8 /\ main_process = cpu
    BY <2>3 DEF TypeOK, BootInv, main_process, Booted
  <2> QED BY <2>2, <2>4 DEF TaskInv
<1> QED BY <1>3, <1>4

\* The scheduler pushes on one stack and pops from another, whose task goes on
\* with the flag it had; the debts of both stay.
LEMMA TimerStep ==
    ASSUME IrqInv, TimerInterrupt
    PROVE  IrqInv'
<1> USE DEF IrqInv
<1> DEFINE next == check_tasks
<1>1. /\ irr' = irr \ {0} /\ isr' = isr
      /\ UNCHANGED << imr, gates, boot, curr_task, active_terminal, port,
                      kbd, save_idx, typed >>
  BY Service DEF TimerInterrupt, tasks, devices, lines
<1>2. CASE next = None
  <2>1. UNCHANGED << int_flag, cpu, stk >>
    BY <1>2 DEF TimerInterrupt, context
  <2>2. TypeOK' /\ IdxInv' /\ ServiceInv'
    BY <1>1, <2>1 DEF TypeOK, IdxInv, ServiceInv
  <2>3. StackInv' /\ TaskInv' /\ UserInv'
    BY <1>1, <2>1 DEF StackInv, TaskInv, UserInv
  <2>4. BootInv'
    BY <1>1, <2>1 DEF BootInv
  <2> QED BY <2>2, <2>3, <2>4
<1>3. CASE next # None
  <2>1. /\ next \in Terms /\ next # cpu /\ cpu \in Terms /\ boot = 8
        /\ curr_task[next] = next /\ stk[next] # << >>
    BY <1>3, check_tasksFinds
  <2>2. int_flag = TRUE /\ Boot # cpu /\ Boot # next
    BY <2>1, AcceptedOn, Places DEF TimerInterrupt
  <2> DEFINE saved == Push("pit", FALSE)
  <2>3. /\ saved \in [Terms \cup {Boot} -> Seq(Activations)]
        /\ saved[cpu] # << >> /\ GoodStack(saved[cpu])
        /\ Owes(stk[cpu]) => Owes(saved[cpu])
        /\ \A p \in (Terms \cup {Boot}) \ {cpu} : saved[p] = stk[p]
    BY <2>1, <2>2, PushStep
  <2>4. /\ cpu' = next
        /\ IF InScheduler(next)
             THEN /\ int_flag' = Top(next).iflag
                  /\ stk' = [saved EXCEPT ![next] = Pop(next)[next]]
             ELSE int_flag' = FALSE /\ stk' = saved
    BY <1>3 DEF TimerInterrupt
  <2> HIDE DEF saved, next
  <2> DEFINE r == SubSeq(stk[next], 1, Len(stk[next]) - 1)
  <2>5. stk[next] \in Seq(Activations) /\ GoodStack(stk[next])
    BY <2>1 DEF TypeOK, StackInv
  <2>6. /\ r \in Seq(Activations) /\ GoodStack(r)
        /\ Owes(stk[next]) /\ stk[next][Len(stk[next])].owes = FALSE => Owes(r)
    BY <2>1, <2>5, Popped
  <2>7. Pop(next)[next] = r
    BY <2>1 DEF Pop, Depth, TypeOK
  <2> HIDE DEF r
  <2>8. /\ stk' \in [Terms \cup {Boot} -> Seq(Activations)]
        /\ GoodStack(stk'[next]) /\ (Owes(stk[next]) => Owes(stk'[next]))
        /\ \A p \in (Terms \cup {Boot}) \ {next} : stk'[p] = saved[p]
        /\ int_flag' \in BOOLEAN /\ (stk'[next] = << >> => int_flag' = TRUE)
    <3>1. CASE InScheduler(next)
      <4>1. int_flag' = TRUE
        BY <2>1, <2>4, <2>5, <3>1, TopIsGood DEF Top, Depth
      <4>2. stk' = [saved EXCEPT ![next] = r]
        BY <2>4, <2>7, <3>1
      <4>3. /\ stk' \in [Terms \cup {Boot} -> Seq(Activations)] /\ stk'[next] = r
            /\ \A p \in (Terms \cup {Boot}) \ {next} : stk'[p] = saved[p]
        BY <2>1, <2>3, <2>6, <4>2
      <4>4. Len(stk[next]) \in 1 .. Len(stk[next])
        BY <2>1, <2>5, EmptySeq
      <4>5. stk[next][Len(stk[next])].owes = FALSE
        BY <2>5, <3>1, <4>4 DEF GoodStack, InScheduler, Top, Depth
      <4> QED BY <2>6, <4>1, <4>3, <4>5
    <3>2. CASE ~InScheduler(next)
      BY <2>1, <2>3, <2>4, <2>5, <3>2
    <3> QED BY <3>1, <3>2
  <2>9. StackInv'
    <3>1. \A p \in Terms : GoodStack(stk'[p])
      BY <2>3, <2>8 DEF StackInv
    <3> QED BY <2>2, <2>3, <2>8, <3>1 DEF StackInv
  <2>10. BootInv'
    BY <1>1, <2>1, <2>2, <2>4 DEF BootInv
  <2>11. TaskInv'
    <3>1. ASSUME NEW t \in Terms
          PROVE  /\ curr_task[t] \in {None, t}
                 /\ curr_task[t] = None => t # next /\ stk'[t] = << >>
                 /\ curr_task[t] = t /\ t # next => stk'[t] # << >>
      <4>1. t = next \/ t = cpu \/ stk'[t] = stk[t]
        BY <2>3, <2>8
      <4>2. stk'[cpu] # << >>
        BY <2>1, <2>3, <2>8
      <4> QED BY <2>1, <4>1, <4>2, Places DEF TaskInv
    <3> QED BY <1>1, <2>4, <3>1 DEF TaskInv
  <2>12. UserInv'
    BY <2>4, <2>8 DEF UserInv
  <2>13. ServiceInv'
    <3>1. \A p \in Terms : Owes(stk[p]) => Owes(stk'[p])
      BY <2>1, <2>3, <2>8
    <3> QED BY <1>1, <3>1 DEF ServiceInv
  <2>14. TypeOK' /\ IdxInv'
    BY <1>1, <2>1, <2>4, <2>8 DEF TypeOK, IdxInv
  <2> QED BY <2>9, <2>10, <2>11, <2>12, <2>13, <2>14
<1> QED BY <1>2, <1>3

-----------------------------------------------------------------------------
(* entry() *)

\* At a step of entry(), boot is the number of the steps before it.
LEMMA BootSteps ==
    ASSUME BootInv, NEW step, BootAt(step)
    PROVE  /\ cpu = Boot /\ boot \in 0 .. 7 /\ boot' = boot + 1
           /\ step = "i8259_init" => boot = 0
           /\ step = "init_idt" => boot = 1
           /\ step \in {"irq_1", "irq_0", "rtc_int"} => boot \in 2 .. 4
           /\ step = "sti" => boot = 5
           /\ step = "init_terminals" => boot = 6
           /\ step = "shell" => boot = 7
<1>1. cpu = Boot /\ boot' = boot + 1 /\ BootOrder[boot + 1] = step
  BY DEF BootAt, Booted
<1>2. boot \in 0 .. 7
  BY <1>1 DEF BootInv
<1>3. /\ BootOrder[1] = "i8259_init" /\ BootOrder[2] = "init_idt"
      /\ BootOrder[3] = "irq_1" /\ BootOrder[4] = "irq_0" /\ BootOrder[5] = "rtc_int"
      /\ BootOrder[6] = "sti" /\ BootOrder[7] = "init_terminals" /\ BootOrder[8] = "shell"
  BY DEF BootOrder
<1>4. boot \in {0, 1, 2, 3, 4, 5, 6, 7}
  BY <1>2
<1> QED BY <1>1, <1>2, <1>3, <1>4

\* The steps before the first shell set up the controllers, the gates, the flag
\* and the terminals, in this order.
LEMMA BootStepStep ==
    ASSUME IrqInv, BootStep
    PROVE  IrqInv'
<1> USE DEF IrqInv
<1>1. CASE i8259_init
  <2>1. cpu = Boot /\ boot = 0 /\ boot' = 1
    BY <1>1, BootSteps DEF i8259_init
  <2>2. /\ irr' = {} /\ isr' = {} /\ imr' \subseteq Lines
        /\ UNCHANGED << gates, int_flag, cpu, stk, curr_task, active_terminal, port,
                        kbd, save_idx, typed >>
    BY <1>1 DEF i8259_init, context, tasks, devices, lines
  <2>3. TypeOK' /\ ServiceInv' /\ IdxInv'
    BY <2>2 DEF TypeOK, ServiceInv, IdxInv
  <2>4. StackInv' /\ UserInv'
    BY <2>2 DEF StackInv, UserInv
  <2>5. BootInv' /\ TaskInv'
    BY <2>1, <2>2 DEF BootInv, TaskInv
  <2> QED BY <2>3, <2>4, <2>5
<1>2. CASE init_idt
  <2>1. cpu = Boot /\ boot = 1 /\ boot' = 2
    BY <1>2, BootSteps DEF init_idt
  <2>2. /\ gates' = {0, 1, 8}
        /\ UNCHANGED << irr, isr, imr, int_flag, cpu, stk, curr_task, active_terminal,
                        port, kbd, save_idx, typed >>
    BY <1>2 DEF init_idt, pic, context, tasks, devices, lines
  <2>3. TypeOK' /\ ServiceInv' /\ IdxInv'
    BY <2>2 DEF TypeOK, ServiceInv, IdxInv
  <2>4. StackInv' /\ UserInv'
    BY <2>2 DEF StackInv, UserInv
  <2>5. BootInv' /\ TaskInv'
    BY <2>1, <2>2 DEF BootInv, TaskInv
  <2> QED BY <2>3, <2>4, <2>5
<1>3. CASE BootIrq("irq_1", 1) \/ BootIrq("irq_0", 0) \/ BootIrq("rtc_int", 8)
  <2>1. cpu = Boot /\ boot \in 2 .. 4 /\ boot' = boot + 1
    BY <1>3, BootSteps DEF BootIrq
  <2>2. /\ imr' \subseteq imr
        /\ UNCHANGED << irr, isr, gates, int_flag, cpu, stk, curr_task, active_terminal,
                        port, kbd, save_idx, typed >>
    BY <1>3 DEF BootIrq, enable_irq, context, tasks, devices, lines
  <2>3. TypeOK' /\ ServiceInv' /\ IdxInv'
    BY <2>2 DEF TypeOK, ServiceInv, IdxInv
  <2>4. StackInv' /\ UserInv'
    BY <2>2 DEF StackInv, UserInv
  <2>5. BootInv' /\ TaskInv'
    BY <2>1, <2>2 DEF BootInv, TaskInv
  <2> QED BY <2>3, <2>4, <2>5
<1>4. CASE BootSti
  <2>1. cpu = Boot /\ boot = 5 /\ boot' = 6
    BY <1>4, BootSteps DEF BootSti
  <2>2. /\ int_flag' = TRUE
        /\ UNCHANGED << irr, isr, imr, gates, cpu, stk, curr_task, active_terminal,
                        port, kbd, save_idx, typed >>
    BY <1>4 DEF BootSti, pic, tasks, devices, lines
  <2>3. TypeOK' /\ ServiceInv' /\ IdxInv'
    BY <2>2 DEF TypeOK, ServiceInv, IdxInv
  <2>4. StackInv' /\ UserInv'
    BY <2>2 DEF StackInv, UserInv
  <2>5. BootInv' /\ TaskInv'
    BY <2>1, <2>2 DEF BootInv, TaskInv
  <2> QED BY <2>3, <2>4, <2>5
<1>5. CASE init_terminals
  <2>1. cpu = Boot /\ boot = 6 /\ boot' = 7
    BY <1>5, BootSteps DEF init_terminals
  <2>2. /\ curr_task' = [t \in Terms |-> None]
        /\ UNCHANGED << irr, isr, imr, gates, int_flag, cpu, stk, active_terminal,
                        port, kbd, save_idx, typed >>
    BY <1>5 DEF init_terminals, pic, context, devices, lines
  <2>3. TypeOK' /\ ServiceInv' /\ IdxInv'
    BY <2>2 DEF TypeOK, ServiceInv, IdxInv
  <2>4. StackInv' /\ UserInv'
    BY <2>2 DEF StackInv, UserInv
  <2>5. BootInv' /\ TaskInv'
    BY <2>1, <2>2 DEF BootInv, TaskInv
  <2> QED BY <2>3, <2>4, <2>5
<1>6. CASE BootShell
  <2> DEFINE a == active_terminal
  <2>1. cpu = Boot /\ boot = 7 /\ boot' = 8
    BY <1>6, BootSteps DEF BootShell
  <2>2. /\ cpu' = a /\ curr_task' = [curr_task EXCEPT ![a] = a] /\ int_flag' = TRUE
        /\ UNCHANGED << irr, isr, imr, gates, stk, active_terminal, port,
                        kbd, save_idx, typed >>
    BY <1>6 DEF BootShell, UserFlags, pic, devices, lines
  <2>3. a \in Terms /\ a # Boot /\ a # None
    BY Places DEF TypeOK
  <2>4. /\ curr_task' \in [Terms -> Terms \cup {None}]
        /\ curr_task'[a] = a /\ \A t \in Terms \ {a} : curr_task'[t] = None
    BY <2>1, <2>2, <2>3 DEF TypeOK, BootInv
  <2> HIDE DEF a
  <2>5. TypeOK' /\ ServiceInv' /\ IdxInv'
    BY <2>2, <2>3, <2>4 DEF TypeOK, ServiceInv, IdxInv
  <2>6. StackInv' /\ UserInv'
    BY <2>2 DEF StackInv, UserInv
  <2>7. BootInv'
    BY <2>1, <2>2, <2>3 DEF BootInv
  <2>8. TaskInv'
    <3>1. ASSUME NEW t \in Terms
          PROVE  /\ curr_task'[t] \in {None, t}
                 /\ curr_task'[t] = None => t # a /\ stk'[t] = << >>
                 /\ curr_task'[t] = t /\ t # a => stk'[t] # << >>
      BY <2>1, <2>2, <2>3, <2>4, Places DEF BootInv
    <3> QED BY <2>2, <3>1 DEF TaskInv
  <2> QED BY <2>5, <2>6, <2>7, <2>8
<1> QED BY <1>1, <1>2, <1>3, <1>4, <1>5, <1>6 DEF BootStep

-----------------------------------------------------------------------------
(* The theorems *)

\* The invariant holds at first.
LEMMA IrqInit == Init => IrqInv
<1> SUFFICES ASSUME Init PROVE IrqInv
  OBVIOUS
<1> USE DEF Init
<1>1. TypeOK
  <2>1. stk \in [Terms \cup {Boot} -> Seq(Activations)]
    BY EmptyStack
  <2>2. curr_task \in [Terms -> Terms \cup {None}] /\ save_idx \in [Terms -> 0 .. MaxLine]
    BY Places
  <2>3. irr \subseteq Lines /\ isr \subseteq Lines /\ imr \subseteq Lines
    BY DEF Lines
  <2> QED BY <2>1, <2>2, <2>3, Places DEF TypeOK
<1>2. StackInv
  BY EmptyStack DEF StackInv
<1>3. BootInv /\ TaskInv /\ UserInv /\ ServiceInv
  BY DEF BootInv, TaskInv, UserInv, ServiceInv, NoKey
<1>4. IdxInv
  BY Places DEF IdxInv
<1> QED BY <1>1, <1>2, <1>3, <1>4 DEF IrqInv

\* Every step keeps it.
LEMMA IrqNext == IrqInv /\ [Next]_vars => IrqInv'
<1> SUFFICES ASSUME IrqInv, [Next]_vars PROVE IrqInv'
  OBVIOUS
<1>1. CASE RaiseTimer \/ RaiseKey \/ RaiseClock \/ ClockInterrupt
  BY <1>1, RaiseStep
<1>2. CASE TimerInterrupt
  BY <1>2, TimerStep
<1>3. CASE KeyInterrupt
  <2>1. TypeOK /\ ServiceInv
    BY DEF IrqInv
  <2>2. TRUE \in BOOLEAN /\ FALSE \in BOOLEAN
    OBVIOUS
  <2>3. KeyClear \/ (\E t \in Terms : KeySwitch(t)) => IrqInv'
    BY <2>1, <2>2, KeyHalves, KeyHalfStep
  <2> QED BY <1>3, <2>3, KeyPlainStep, KeyFirstStep, KeyKillStep DEF KeyInterrupt
<1>4. CASE KernelStep \/ CallEnter \/ CallCli \/ Halt
  BY <1>4, KeyEndStep, CallEnterStep, CallFlagStep, CallEndStep DEF KernelStep
<1>5. CASE BootStep
  BY <1>5, BootStepStep
<1>6. CASE UNCHANGED vars
  <2>1. UNCHANGED << irr, isr, imr, gates, boot, int_flag, cpu, stk, curr_task,
                     active_terminal, port, kbd, save_idx, typed >>
    BY <1>6 DEF vars, pic, context, tasks, devices, lines
  <2> QED BY <2>1 DEF IrqInv, TypeOK, StackInv, BootInv, TaskInv, UserInv, ServiceInv, IdxInv
<1> QED BY <1>1, <1>2, <1>3, <1>4, <1>5, <1>6 DEF Next

\* Registers hold lines, each CPU stack holds activations, and no line grows
\* beyond keyboard_buf, for any number of terminals and depth of stacks.
THEOREM RegistersFit == Spec => []TypeOK
<1>1. IrqInv => TypeOK
  BY DEF IrqInv
<1> QED BY <1>1, IrqInit, IrqNext, PTL DEF Spec

\* No switch of stacks, Ctrl+C, halt or early sti() loses an EOI: what is in
\* service is a key, and an activation on some stack still ends its service.
THEOREM EoiNotLost == Spec => []ServiceEnds
<1>1. IrqInv => ServiceEnds
  <2> SUFFICES ASSUME IrqInv, NEW i \in isr
               PROVE  i = 1 /\ \E p \in Terms, d \in 1 .. MaxDepth :
                                   d <= Depth(p) /\ stk[p][d].owes
    BY DEF ServiceEnds
  <2>1. i = 1 /\ \E p \in Terms : Owes(stk[p])
    BY DEF IrqInv, ServiceInv
  <2> QED BY <2>1 DEF Owes, Depth
<1> QED BY <1>1, IrqInit, IrqNext, PTL DEF Spec

\* Whichever way the CPU came to a program, interrupts are on there.
THEOREM ProgramsInterruptible == Spec => []UserInterruptible
<1>1. IrqInv => UserInterruptible
  BY DEF IrqInv, UserInv, UserInterruptible, InUser, Booted
<1> QED BY <1>1, IrqInit, IrqNext, PTL DEF Spec

\* entry() is not left before the first shell, and no request is taken that has
\* no gate.
THEOREM BootUndisturbed == Spec => []BootKept
<1>1. IrqInv => BootKept
  <2> SUFFICES ASSUME IrqInv PROVE BootKept
    OBVIOUS
  <2>1. ASSUME NEW i \in Lines, Accepts(i) PROVE i \in gates
    <3>1. int_flag = TRUE /\ i \in irr
      BY <2>1, AcceptedOn DEF IrqInv, Accepts, Unmasked
    <3>2. boot \in 0 .. 8 /\ ~(boot < 6)
      BY <3>1 DEF IrqInv, BootInv
    <3>3. gates = {0, 1, 8}
      BY <3>2 DEF IrqInv, BootInv
    <3> QED BY <3>1, <3>3 DEF IrqInv, ServiceInv
  <2>2. boot < 8 => cpu = Boot
    BY DEF IrqInv, BootInv
  <2>3. Len(BootOrder) = 8
    BY DEF BootOrder
  <2> QED BY <2>1, <2>2, <2>3 DEF BootKept
<1> QED BY <1>1, IrqInit, IrqNext, PTL DEF Spec

\* The line of a terminal has the length that was typed there, whichever keys
\* come between the two halves of Ctrl+L or Alt+Fn, on whichever stack.
THEOREM LineLengthKept == Spec => []IdxKept
<1>1. IrqInv => IdxKept
  BY DEF IrqInv, IdxInv, IdxKept
<1> QED BY <1>1, IrqInit, IrqNext, PTL DEF Spec
=============================================================================
