--------------------------- MODULE ProcSchedProofs ---------------------------
(***************************************************************************)
(* What holds of ProcSched for every number of terminals and slots and     *)
(* under every interference.                                               *)
(***************************************************************************)
EXTENDS ProcSched, OrderLemmas, SequenceTheorems, TLAPS

\* Max, which stands for the last hit of the kernel's downward loops, returns a
\* member of a nonempty set of slots: MinIn, counting down from NumSlots.
LEMMA MaxIn ==
    ASSUME NEW S \in SUBSET Slots, S # {}
    PROVE  Max(S) \in S /\ \A y \in S : y <= Max(S)
<1>1. NumSlots \in Nat /\ S \in SUBSET (0 .. NumSlots)
  BY SizesAssumption DEF Slots
<1> QED BY <1>1, MaxBelow

-----------------------------------------------------------------------------
(* Types of the helpers *)

KStacks == [Slots -> Seq(Frames)]

\* A kernel stack that holds an activation has a topmost one (system_execute is
\* on it).
LEMMA TopType ==
    ASSUME kstack \in KStacks, cpu \in Slots, kstack[cpu] # << >>
    PROVE  /\ Depth(cpu) \in Nat \ {0}
           /\ Top(cpu) \in Frames
           /\ Depth(cpu) \in DOMAIN kstack[cpu]
<1>1. kstack[cpu] \in Seq(Frames)
  BY DEF KStacks
<1>2. Len(kstack[cpu]) \in Nat /\ DOMAIN kstack[cpu] = 1 .. Len(kstack[cpu])
  BY <1>1
<1>3. Len(kstack[cpu]) # 0
  BY <1>1, EmptySeq
<1>4. kstack[cpu][Len(kstack[cpu])] \in Frames
  BY <1>1, <1>2, <1>3, ElementOfSeq
<1> QED BY <1>2, <1>3, <1>4 DEF Depth, Top

\* When the topmost execute goes on to its next stage, the kernel stacks stay
\* well formed: only a scan may stand behind the last slot.
LEMMA AdvancedType ==
    ASSUME kstack \in KStacks, cpu \in Slots, kstack[cpu] # << >>,
           NEW stage \in Stages, NEW idx \in 0 .. NumSlots,
           stage # "scan" => idx \in Slots
    PROVE  Advanced(stage, idx) \in KStacks
<1> DEFINE d == Depth(cpu)
           f == [Top(cpu) EXCEPT !.stage = stage, !.idx = idx]
           q == [kstack[cpu] EXCEPT ![d] = f]
<1>1. Top(cpu) \in Frames /\ d \in DOMAIN kstack[cpu] /\ kstack[cpu] \in Seq(Frames)
  BY TopType DEF KStacks
<1>2. f \in Frames
  BY <1>1 DEF Frames
<1>3. q \in Seq(Frames)
  <2> HIDE DEF f, d
  <2> QED BY <1>1, <1>2, ExceptSeq
<1>4. Advanced(stage, idx) = [kstack EXCEPT ![cpu] = q]
  BY DEF Advanced, Top
<1> QED
  <2> HIDE DEF q
  <2> QED BY <1>3, <1>4 DEF KStacks

\* A return or a halt that drops activations leaves a well-formed kernel stack.
LEMMA CutType ==
    ASSUME kstack \in KStacks, NEW s \in Slots, NEW d \in 0 .. Depth(s)
    PROVE  Cut(s, d) \in Seq(Frames)
<1>1. kstack[s] \in Seq(Frames)
  BY DEF KStacks
<1>2. Len(kstack[s]) \in Nat
  BY <1>1
<1> QED BY <1>1, <1>2, SubSeqProperties DEF Cut, Depth

\* The ebp and esp that scheduler_handler and system_execute store are a context.
LEMMA HereType ==
    ASSUME kstack \in KStacks, cpu \in Slots
    PROVE  Here \in Contexts
BY DEF Here, Contexts, KStacks

\* create_pcb stores a slot, or nothing, as the parent, whatever owns the slots.
LEMMA ParentOfType ==
    ASSUME NEW pn, NEW idx \in Slots, NEW term
    PROVE  ParentOf(pn, idx, term) \in Slots \cup {None}
<1> DEFINE owned == {i \in Slots : i < idx /\ pn[i] = term}
<1>1. owned # {} => Max(owned) \in Slots
  BY MaxIn
<1> QED BY <1>1 DEF ParentOf, find_parent_process

\* check_tasks returns a slot, or -1.
LEMMA CheckTasksType ==
    ASSUME TypeOK
    PROVE  check_tasks \in Slots \cup {None}
<1> DEFINE hits == {i \in 1 .. NumTerms : Runnable(i)}
<1>1. hits # {} => Min(hits) \in hits
  <2> hits \in SUBSET Nat
    BY SizesAssumption
  <2> QED BY MinIn
<1>2. ASSUME NEW i \in 1 .. NumTerms PROVE Visited(i) \in Terms
  <2>1. process_num[main_process] \in Int
    BY SizesAssumption DEF TypeOK, Terms, None
  <2> DEFINE a == process_num[main_process] + 2 * i - 1
  <2>2. a \in Int
    BY <2>1, SizesAssumption
  <2>3. a % NumTerms \in 0 .. NumTerms - 1
    <3> HIDE DEF a
    <3> QED BY <2>2, SizesAssumption
  <2> QED BY <2>3 DEF Visited, Terms
<1>3. hits # {} => curr_task[Visited(Min(hits))] \in Slots \cup {None}
  BY <1>1, <1>2 DEF TypeOK
<1> QED BY <1>3 DEF check_tasks

-----------------------------------------------------------------------------
(* Type correctness, one lemma for each group of actions *)

\* What every step of system_execute finds on the stack it runs on.
LEMMA ExecTopType ==
    ASSUME TypeOK, NEW st \in Stages, At(st)
    PROVE  /\ cpu \in Slots
           /\ kstack \in KStacks
           /\ kstack[cpu] # << >>
           /\ Depth(cpu) \in Nat \ {0}
           /\ Top(cpu).idx \in 0 .. NumSlots
           /\ st # "scan" => Top(cpu).idx \in Slots
<1>1. cpu \in Slots /\ kstack \in KStacks /\ kstack[cpu] # << >>
  BY DEF TypeOK, At, Lost, KStacks
<1>2. Depth(cpu) \in Nat \ {0} /\ Top(cpu) \in Frames
  BY <1>1, TopType
<1>3. Top(cpu).stage = st
  BY DEF At
<1> QED BY <1>1, <1>2, <1>3 DEF Frames

\* The steps of system_execute keep the types.
LEMMA ExecType ==
    ASSUME TypeOK, ExecStep
    PROVE  TypeOK'
<1> USE DEF TypeOK, pcbs, mmu
<1>1. CASE ExecScan
  <2> DEFINE idx == Top(cpu).idx
  <2>1. /\ cpu \in Slots /\ kstack \in KStacks /\ kstack[cpu] # << >>
        /\ idx \in 0 .. NumSlots /\ idx < NumSlots
    BY <1>1, ExecTopType DEF ExecScan, Stages
  <2>2. idx \in Slots /\ idx + 1 \in 0 .. NumSlots
    BY <2>1, SizesAssumption DEF Slots
  <2>3. Advanced("claim", idx) \in KStacks /\ Advanced("scan", idx + 1) \in KStacks
    <3> HIDE DEF idx
    <3> QED BY <2>1, <2>2, AdvancedType DEF Stages
  <2>4. kstack' \in KStacks
    BY <1>1, <2>3 DEF ExecScan, Step
  <2> QED BY <1>1, <2>4 DEF ExecScan, KStacks
<1>2. CASE ExecFull
  <2>1. cpu \in Slots /\ kstack \in KStacks /\ Depth(cpu) \in Nat \ {0}
    BY <1>2, ExecTopType DEF ExecFull, Stages
  <2>2. Cut(cpu, Depth(cpu) - 1) \in Seq(Frames)
    BY <2>1, CutType
  <2>3. kstack' \in KStacks
    BY <1>2, <2>1, <2>2 DEF ExecFull, KStacks
  <2> QED BY <1>2, <2>3 DEF ExecFull, KStacks
<1>3. CASE ExecClaim
  <2>1. cpu \in Slots /\ kstack \in KStacks /\ kstack[cpu] # << >> /\ Top(cpu).idx \in Slots
    BY <1>3, ExecTopType DEF ExecClaim, Stages
  <2>2. Advanced("map", Top(cpu).idx) \in KStacks
    BY <2>1, AdvancedType, SizesAssumption DEF Stages, Slots
  <2>3. kstack' \in KStacks
    BY <1>3, <2>2 DEF ExecClaim, Step
  <2>4. process_num' \in [Slots -> Terms \cup {None}]
    BY <1>3 DEF ExecClaim
  <2> QED BY <1>3, <2>3, <2>4 DEF ExecClaim, KStacks
<1>4. CASE ExecMap
  <2>1. cpu \in Slots /\ kstack \in KStacks /\ kstack[cpu] # << >> /\ Top(cpu).idx \in Slots
    BY <1>4, ExecTopType DEF ExecMap, Stages
  <2>2. Advanced("load", Top(cpu).idx) \in KStacks
    BY <2>1, AdvancedType, SizesAssumption DEF Stages, Slots
  <2>3. kstack' \in KStacks
    BY <1>4, <2>2 DEF ExecMap, Step
  <2>4. prog_page' \in Slots
    BY <1>4, <2>1 DEF ExecMap, map_page
  <2> QED BY <1>4, <2>3, <2>4 DEF ExecMap, KStacks
<1>5. CASE ExecLoad
  <2>1. cpu \in Slots /\ kstack \in KStacks /\ kstack[cpu] # << >> /\ Top(cpu).idx \in Slots
    BY <1>5, ExecTopType DEF ExecLoad, Stages
  <2>2. Advanced("commit", Top(cpu).idx) \in KStacks
    BY <2>1, AdvancedType, SizesAssumption DEF Stages, Slots
  <2>3. kstack' \in KStacks
    BY <1>5, <2>2 DEF ExecLoad, Step
  <2>4. image' \in [Slots -> Slots \cup {None}]
    BY <1>5, <2>1 DEF ExecLoad
  <2> QED BY <1>5, <2>3, <2>4 DEF ExecLoad, KStacks
<1>6. CASE ExecCommit
  <2> DEFINE idx == Top(cpu).idx
  <2>1. cpu \in Slots /\ kstack \in KStacks /\ kstack[cpu] # << >> /\ idx \in Slots
    BY <1>6, ExecTopType DEF ExecCommit, Stages
  <2>2. Advanced("waiting", idx) \in KStacks
    BY <2>1, AdvancedType, SizesAssumption DEF Stages, Slots
  <2>3. kstack' \in KStacks
    BY <1>6, <2>1, <2>2, EmptySeq DEF ExecCommit, KStacks
  <2>4. parent' \in [Slots -> Slots \cup {None}]
    <3>1. ParentOf(process_num, idx, active_terminal) \in Slots \cup {None}
      BY <2>1, ParentOfType
    <3> QED BY <1>6, <3>1 DEF ExecCommit
  <2>5. frame' \in [Slots -> Contexts] /\ pit' \in [Slots -> Contexts]
    BY <1>6, <2>1, HereType DEF ExecCommit, SaveReturn, NoContext, Contexts
  <2>6. curr_task' \in [Terms -> Slots \cup {None}]
    BY <1>6, <2>1 DEF ExecCommit
  <2>7. main_process' \in Slots /\ tss_esp0' \in Slots /\ cpu' \in Slots
    BY <1>6, <2>1 DEF ExecCommit, set_main_process, SetKernelStack
  <2> QED BY <1>6, <2>3, <2>4, <2>5, <2>6, <2>7 DEF ExecCommit, KStacks
<1> QED BY <1>1, <1>2, <1>3, <1>4, <1>5, <1>6 DEF ExecStep

\* The stores of system_halt to process_num and curr_task keep their types.
LEMMA FreedType ==
    ASSUME TypeOK, NEW pid \in Slots
    PROVE  /\ Freed(pid) \in [Slots -> Terms \cup {None}]
           /\ parent[pid] # None => Inherited(pid) \in [Terms -> Slots \cup {None}]
BY DEF TypeOK, Freed, Inherited

\* A halt that executes the base shell again keeps the types.
LEMMA RestartType ==
    ASSUME TypeOK, NEW pid \in Slots, cpu \in Slots,
           HaltRestart(pid), UNCHANGED active_terminal
    PROVE  TypeOK'
<1> DEFINE F   == Free(Freed(pid), active_terminal)
           idx == Min(F)
<1>1. idx \in Slots
  <2>1. F \in SUBSET Nat /\ F # {} /\ F \subseteq Slots
    BY SizesAssumption DEF HaltRestart, Free, Slots
  <2> HIDE DEF F
  <2> QED BY <2>1, MinIn
<1>2. process_num' \in [Slots -> Terms \cup {None}]
  BY FreedType DEF HaltRestart, TypeOK
<1>3. parent' \in [Slots -> Slots \cup {None}]
  <2>1. ParentOf(process_num', idx, active_terminal) \in Slots \cup {None}
    <3> HIDE DEF idx
    <3> QED BY <1>1, ParentOfType
  <2> QED BY <2>1 DEF HaltRestart, TypeOK
<1>4. curr_task' \in [Terms -> Slots \cup {None}]
  <2>1. Inherited(pid) \in [Terms -> Slots \cup {None}]
    BY DEF Inherited, TypeOK
  <2>2. curr_task' = [Inherited(pid) EXCEPT ![active_terminal] = idx]
    BY DEF HaltRestart
  <2> HIDE DEF idx
  <2> QED BY <1>1, <2>1, <2>2
<1>5. /\ main_process' \in Slots /\ prog_page' \in Slots /\ tss_esp0' \in Slots
      /\ cpu' \in Slots
  BY <1>1 DEF HaltRestart, set_main_process, map_page, SetKernelStack
<1>6. image' \in [Slots -> Slots \cup {None}]
  <2>1. image' = [image EXCEPT ![idx] = idx]
    BY DEF HaltRestart
  <2> HIDE DEF idx
  <2> QED BY <1>1, <2>1 DEF TypeOK
<1>7. frame' \in [Slots -> Contexts] /\ pit' \in [Slots -> Contexts]
  BY DEF HaltRestart, TypeOK, NoContext, Contexts
<1>8. kstack' \in [Slots -> Seq(Frames)]
  BY EmptySeq DEF HaltRestart, TypeOK
<1> QED BY <1>2, <1>3, <1>4, <1>5, <1>6, <1>7, <1>8 DEF TypeOK

\* A halt that returns into the parent's execute keeps the types.
LEMMA ReturnType ==
    ASSUME TypeOK, NEW pid \in Slots, cpu \in Slots,
           HaltReturn(pid), UNCHANGED active_terminal
    PROVE  TypeOK'
<1>1. process_num' \in [Slots -> Terms \cup {None}]
      /\ curr_task' \in [Terms -> Slots \cup {None}]
  BY FreedType DEF HaltReturn
<1>2. main_process' \in Slots /\ prog_page' \in Slots /\ tss_esp0' \in Slots
  BY DEF HaltReturn, TypeOK, set_main_process, map_page, SetKernelStack
<1>3. kstack' \in [Slots -> Seq(Frames)] /\ cpu' \in Slots \cup {None}
  <2>1. CASE FrameLive(pid)
    <3> DEFINE k == frame[pid].stk
               d == frame[pid].depth
    <3>1. k \in Slots /\ d \in 1 .. Depth(k) /\ d \in Nat
      BY <2>1 DEF FrameLive, TypeOK, Contexts
    <3>2. Depth(k) \in Nat
      BY <3>1 DEF Depth, TypeOK
    <3>3. Cut(k, d - 1) \in Seq(Frames)
      <4>1. d - 1 \in 0 .. Depth(k)
        BY <3>1, <3>2
      <4> HIDE DEF k, d
      <4> QED BY <3>1, <4>1, CutType DEF TypeOK, KStacks
    <3>4. cpu' = k /\ kstack' = [kstack EXCEPT ![cpu] = << >>, ![k] = Cut(k, d - 1)]
      BY <2>1 DEF HaltReturn
    <3> HIDE DEF k, d
    <3> QED BY <3>1, <3>3, <3>4, EmptySeq DEF TypeOK
  <2>2. CASE ~FrameLive(pid)
    <3>1. cpu' = None /\ kstack' = [kstack EXCEPT ![cpu] = << >>]
      BY <2>2 DEF HaltReturn
    <3> QED BY <3>1, EmptySeq DEF TypeOK
  <2> QED BY <2>1, <2>2
<1> QED BY <1>1, <1>2, <1>3 DEF HaltReturn, TypeOK, pcbs

\* system_halt keeps the types, called by a program or by Ctrl+C.
LEMMA HaltType ==
    ASSUME TypeOK, UserHalt \/ CtrlC
    PROVE  TypeOK'
<1>1. cpu \in Slots /\ main_process \in Slots
  BY DEF TypeOK, UserHalt, CtrlC, InUser, Lost
<1>2. system_halt
  BY DEF UserHalt, CtrlC
<1>3. CASE HaltRestart(main_process)
  BY <1>1, <1>2, <1>3, RestartType DEF system_halt
<1>4. CASE HaltReturn(main_process)
  BY <1>1, <1>2, <1>4, ReturnType DEF system_halt
<1>5. CASE HaltOrphan(main_process)
  BY <1>2, <1>5 DEF system_halt, HaltOrphan, TypeOK, pcbs, mmu
<1> QED BY <1>2, <1>3, <1>4, <1>5 DEF system_halt

\* scheduler_handler keeps the types.
LEMMA TickType ==
    ASSUME TypeOK, Tick
    PROVE  TypeOK'
<1> DEFINE next == check_tasks
           to   == pit[next]
<1>1. next \in Slots /\ cpu \in Slots
  BY CheckTasksType DEF Tick, Lost, TypeOK
<1>2. to \in Contexts
  BY <1>1 DEF TypeOK
<1>3. main_process' \in Slots /\ prog_page' \in Slots /\ tss_esp0' \in Slots
  BY <1>1 DEF Tick, set_main_process, map_page, SetKernelStack
<1>4. pit' \in [Slots -> Contexts]
  <2>1. Here \in Contexts
    BY <1>1, HereType DEF TypeOK, KStacks
  <2> QED BY <1>1, <2>1 DEF Tick, SavePit, TypeOK, NoContext, Contexts
<1>5. kstack' \in [Slots -> Seq(Frames)] /\ cpu' \in Slots \cup {None}
  <2>1. CASE ContextLive(to)
    <3>1. to.stk \in Slots /\ to.depth \in Nat /\ to.depth <= Depth(to.stk)
      BY <1>2, <2>1 DEF ContextLive, Contexts
    <3>2. Depth(to.stk) \in Nat
      BY <3>1 DEF Depth, TypeOK
    <3>3. Cut(to.stk, to.depth) \in Seq(Frames)
      <4>1. to.depth \in 0 .. Depth(to.stk)
        BY <3>1, <3>2
      <4> HIDE DEF to
      <4> QED BY <3>1, <4>1, CutType DEF TypeOK, KStacks
    <3>4. cpu' = to.stk /\ kstack' = [kstack EXCEPT ![to.stk] = Cut(to.stk, to.depth)]
      BY <2>1 DEF Tick
    <3> HIDE DEF to
    <3> QED BY <3>1, <3>3, <3>4 DEF TypeOK
  <2>2. CASE ~ContextLive(to)
    BY <2>2 DEF Tick, TypeOK
  <2> QED BY <2>1, <2>2
<1> QED BY <1>3, <1>4, <1>5 DEF Tick, TypeOK, pcbs

\* A new execute on the running kernel stack leaves it well formed.
LEMMA PushType ==
    ASSUME TypeOK, cpu \in Slots, NEW kind \in Kinds,
           kstack' = [kstack EXCEPT ![cpu] = Append(@, Activation(kind))]
    PROVE  kstack' \in [Slots -> Seq(Frames)]
<1>1. Activation(kind) \in Frames
  BY SizesAssumption DEF Activation, Frames, Stages, Slots
<1>2. Append(kstack[cpu], Activation(kind)) \in Seq(Frames)
  BY <1>1, AppendProperties DEF TypeOK
<1> QED BY <1>2 DEF TypeOK

\* Every step of the kernel keeps the types.
LEMMA TypeNext ==
    ASSUME TypeOK, [Next]_vars
    PROVE  TypeOK'
<1>1. CASE ExecCall
  <2>1. kstack' \in [Slots -> Seq(Frames)]
    BY <1>1, PushType DEF ExecCall, InUser, Lost, TypeOK, Kinds
  <2> QED BY <1>1, <2>1 DEF ExecCall, TypeOK, pcbs, mmu
<1>2. CASE ExecStep
  BY <1>2, ExecType
<1>3. CASE UserHalt \/ CtrlC
  BY <1>3, HaltType
<1>4. CASE Tick
  BY <1>4, TickType
<1>5. CASE \E t \in Terms : SwitchShown(t)
  BY <1>5 DEF SwitchShown, TypeOK, pcbs, mmu
<1>6. CASE \E t \in Terms : SwitchFirst(t)
  <2>1. PICK t \in Terms : SwitchFirst(t)
    BY <1>6
  <2>2. cpu \in Slots
    BY <2>1 DEF SwitchFirst, Lost, TypeOK
  <2>3. kstack' \in [Slots -> Seq(Frames)]
    BY <2>1, <2>2, PushType DEF SwitchFirst, Kinds
  <2>4. pit' \in [Slots -> Contexts]
    BY <2>1, <2>2, HereType DEF SwitchFirst, SavePit, TypeOK, KStacks
  <2> QED BY <2>1, <2>3, <2>4 DEF SwitchFirst, TypeOK, pcbs, mmu
<1>7. CASE UNCHANGED vars
  BY <1>7 DEF vars, TypeOK
<1> QED BY <1>1, <1>2, <1>3, <1>4, <1>5, <1>6, <1>7 DEF Next

\* The state that entry() leaves is well typed.
LEMMA TypeInit == Init => TypeOK
<1> SUFFICES ASSUME Init PROVE TypeOK
  OBVIOUS
<1>1. 0 \in Slots /\ 0 \in Terms
  BY SizesAssumption DEF Slots, Terms
<1> QED BY <1>1, EmptySeq DEF Init, TypeOK, NoContext, Contexts

-----------------------------------------------------------------------------
(* Theorems *)

\* Type correctness: whatever interrupts, keys and programs do, slot numbers,
\* terminal numbers and saved contexts stay in range.  In particular the scan of
\* system_execute never claims a slot outside process_num, and check_tasks never
\* names one.
THEOREM TypeCorrect == Spec => []TypeOK
<1>1. Init => TypeOK
  BY TypeInit
<1>2. TypeOK /\ [Next]_vars => TypeOK'
  BY TypeNext
<1> QED BY <1>1, <1>2, PTL DEF Spec

\* tss.esp0 names the kernel stack of the main process, under every
\* interference: no interleaving of execute, halt, ticks and terminal switches
\* makes a trap from user mode land on another process's kernel stack.
THEOREM TrapStackCorrect == Spec => []TrapStack
<1>1. Init => TrapStack
  BY DEF Init, TrapStack
<1>2. TrapStack /\ [Next]_vars => TrapStack'
  <2> SUFFICES ASSUME TrapStack, [Next]_vars PROVE TrapStack'
    OBVIOUS
  <2> USE DEF TrapStack, set_main_process, SetKernelStack, mmu
  <2>1. CASE ExecCall
    BY <2>1 DEF ExecCall
  <2>2. CASE ExecStep
    BY <2>2 DEF ExecStep, ExecScan, ExecFull, ExecClaim, ExecMap, ExecLoad, ExecCommit
  <2>3. CASE UserHalt \/ CtrlC
    BY <2>3 DEF UserHalt, CtrlC, system_halt, HaltRestart, HaltReturn, HaltOrphan
  <2>4. CASE Tick
    BY <2>4 DEF Tick
  <2>5. CASE \E t \in Terms : SwitchShown(t) \/ SwitchFirst(t)
    BY <2>5 DEF SwitchShown, SwitchFirst
  <2>6. CASE UNCHANGED vars
    BY <2>6 DEF vars
  <2> QED BY <2>1, <2>2, <2>3, <2>4, <2>5, <2>6 DEF Next
<1> QED BY <1>1, <1>2, PTL DEF Spec
=============================================================================
