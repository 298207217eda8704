--------------------------- MODULE ProcQuietProofs ---------------------------
(***************************************************************************)
(* What holds of ProcSched, for every number of terminals and slots, when  *)
(* programs are started one at a time from the shell of the shown          *)
(* terminal.  Ticks inside of such a program's execute are allowed         *)
(* ("tick_in_call").                                                       *)
(***************************************************************************)
EXTENDS ProcSchedProofs

-----------------------------------------------------------------------------
(* The invariant.  Only the process of slot x may be inside an execute. *)

Executing(x) == kstack[x] # << >> /\ kstack[x][1].stage # "waiting"

\* The slot that this execute has claimed, and the slots of processes.
Claimed(x, s) ==
    /\ Executing(x)
    /\ kstack[x][1].stage \in {"map", "load", "commit"}
    /\ kstack[x][1].idx = s

Live(x, s) == process_num[s] # None /\ ~Claimed(x, s)

\* The CPU runs the main process, which is the task of its terminal.
MainInv(x) ==
    /\ cpu = main_process
    /\ Live(x, main_process)
    /\ curr_task[process_num[main_process]] = main_process

\* One activation at most on a kernel stack.  It is in progress in x only;
\* elsewhere it waits: for the one child of a base shell, or, behind a first
\* shell that was started for another terminal, for the timer.
StackInv(x) ==
    \A s \in Slots :
        /\ Depth(s) <= 1
        /\ kstack[s] # << >> => kstack[s][1].stage = "waiting" \/ s = x
        /\ kstack[s] # << >> /\ kstack[s][1].stage = "waiting" =>
              /\ s # main_process
              /\ kstack[s][1].kind = "call" => s \in Terms /\ curr_task[s] \notin Terms

\* A base shell is its own parent; another process is the task of its terminal,
\* and the terminal's base shell waits for it.
Base(s) == curr_task[s] # None /\ parent[s] = s

Child(x, s, t) ==
    /\ curr_task[t] = s /\ parent[s] = t /\ Live(x, t)
    /\ frame[s] = [stk |-> t, depth |-> 1]
    /\ kstack[t] # << >>
    /\ kstack[t][1].stage = "waiting" /\ kstack[t][1].idx = s

SlotInv(x) ==
    /\ \A s \in Terms : process_num[s] \in {None, s}
    /\ \A s \in Terms : Live(x, s) => Base(s)
    /\ \A s \in Slots \ Terms, t \in Terms :
           Live(x, s) /\ process_num[s] = t => Child(x, s, t)

\* A terminal's task is a process of it and goes on where a tick stopped it, in
\* its program or inside its execute.
Task(x, t, p) ==
    /\ Live(x, p) /\ process_num[p] = t
    /\ p # main_process =>
          pit[p] = [stk |-> p, depth |-> IF p = x /\ Executing(x) THEN 1 ELSE 0]

TaskInv(x) == \A t \in Terms, p \in Slots : curr_task[t] = p => Task(x, t, p)

\* The execute in progress: called by the shell of the shown terminal, for a slot
\* that is not reserved, or started by Alt+Fn, for the slot reserved for the
\* terminal that is shown now and has no task.
ExecInv(x) ==
    LET f == kstack[x][1]
        a == active_terminal
    IN  Executing(x) =>
            /\ f.kind = "call" => x = a /\ curr_task[x] = x
            /\ f.kind = "start" =>
                  /\ x = main_process
                  /\ curr_task[a] = None
                  /\ pit[x] = [stk |-> x, depth |-> 0]
                  /\ f.idx <= a
                  /\ f.stage = "scan" => process_num[a] = None
                  /\ f.stage # "scan" => f.idx = a
            /\ f.stage # "scan" /\ f.kind = "call" => f.idx \notin Terms
            /\ f.stage = "claim" => process_num[f.idx] = None
            /\ f.stage \in {"map", "load", "commit"} => process_num[f.idx] = a

ExecAt(x) == MainInv(x) /\ StackInv(x) /\ SlotInv(x) /\ TaskInv(x) /\ ExecInv(x)

QuietInv == TypeOK /\ \E x \in Slots : ExecAt(x)

-----------------------------------------------------------------------------
(* Slots and stacks of one activation *)

\* A terminal's number is the number of the slot reserved for its base shell.
LEMMA Numbers ==
    /\ Terms \subseteq Slots /\ 0 \in Terms /\ None \notin Slots
    /\ Slots \subseteq Nat /\ NumTerms \in Nat /\ NumSlots \in Nat
BY SizesAssumption DEF Terms, Slots, None

\* The activation on a kernel stack.
LEMMA OneFrame ==
    ASSUME TypeOK, NEW s \in Slots, Depth(s) <= 1, kstack[s] # << >>
    PROVE  /\ Len(kstack[s]) = 1 /\ Depth(s) = 1
           /\ Top(s) = kstack[s][1] /\ kstack[s][1] \in Frames
<1>1. kstack[s] \in Seq(Frames)
  BY DEF TypeOK
<1>2. Len(kstack[s]) \in Nat /\ Len(kstack[s]) # 0
  BY <1>1, EmptySeq
<1>0. Depth(s) = Len(kstack[s])
  BY DEF Depth
<1>a. \A n \in Nat : n # 0 /\ n <= 1 => n = 1
  OBVIOUS
<1>3. Len(kstack[s]) = 1 /\ Depth(s) = 1
  BY <1>0, <1>2, <1>a, Zenon
<1>4. kstack[s][1] \in Frames
  BY <1>1, <1>3, ElementOfSeq
<1> QED BY <1>3, <1>4 DEF Top

\* A return drops it, and a resumption of the same position keeps it.
LEMMA CutIs ==
    ASSUME TypeOK, NEW s \in Slots
    PROVE  /\ Cut(s, 0) = << >>
           /\ Len(kstack[s]) = 1 => Cut(s, 1) = kstack[s]
<1>1. kstack[s] \in Seq(Frames)
  BY DEF TypeOK
<1>2. Cut(s, 0) = << >>
  <2>1. 1 \in 1 .. Len(kstack[s]) + 1 /\ 0 \in 0 .. Len(kstack[s]) /\ 0 - 1 + 1 = 0
    BY <1>1
  <2>2. Cut(s, 0) \in Seq(Frames) /\ Len(Cut(s, 0)) = 0
    BY <1>1, <2>1, SubSeqProperties DEF Cut
  <2> QED BY <2>2, EmptySeq
<1>3. ASSUME Len(kstack[s]) = 1 PROVE Cut(s, 1) = kstack[s]
  <2> DEFINE r == Cut(s, 1)
  <2>1. 1 \in 1 .. Len(kstack[s]) + 1 /\ 1 \in 0 .. Len(kstack[s]) /\ 1 - 1 + 1 = 1
    BY <1>3
  <2>2. r \in Seq(Frames) /\ Len(r) = 1 /\ r[1] = kstack[s][1]
    BY <1>1, <2>1, SubSeqProperties DEF Cut
  <2> HIDE DEF r
  <2>3. \A i \in 1 .. Len(r) : r[i] = kstack[s][i]
    BY <2>2
  <2>4. Len(r) = Len(kstack[s])
    BY <1>3, <2>2
  <2>5. r = kstack[s]
    BY <1>1, <2>2, <2>3, <2>4, SeqEqual
  <2> QED BY <2>5 DEF r
<1> QED BY <1>2, <1>3

\* The topmost activation goes on, the other stacks stay.
LEMMA AdvancedIs ==
    ASSUME TypeOK, NEW x \in Slots, cpu = x, Len(kstack[x]) = 1, NEW stage, NEW idx,
           Advanced(stage, idx) \in KStacks
    PROVE  LET k == Advanced(stage, idx)
           IN  /\ Len(k[x]) = 1 /\ k[x] # << >>
               /\ k[x][1].stage = stage /\ k[x][1].idx = idx
               /\ k[x][1].kind = kstack[x][1].kind
               /\ \A s \in Slots \ {x} : k[s] = kstack[s]
<1> DEFINE f == [kstack[x][1] EXCEPT !.stage = stage, !.idx = idx]
           q == [kstack[x] EXCEPT ![1] = f]
           k == Advanced(stage, idx)
<1>0. kstack[x] \in Seq(Frames)
  BY DEF TypeOK
<1>1. kstack[x] \in Seq(Frames) /\ kstack[x][1] \in Frames
  BY <1>0, ElementOfSeq
<1>2. f.stage = stage /\ f.idx = idx /\ f.kind = kstack[x][1].kind
  BY <1>1 DEF Frames
<1>3. k = [kstack EXCEPT ![x] = q]
  BY DEF Advanced, Depth
<1> HIDE DEF f
<1>4. q[1] = f
  BY <1>1
<1> HIDE DEF q
<1>5. k[x] = q /\ \A s \in Slots \ {x} : k[s] = kstack[s]
  BY <1>3 DEF TypeOK
<1>6. Len(q) = 1
  <2>1. q \in Seq(Frames)
    BY <1>5 DEF KStacks
  <2>2. DOMAIN q = 1 .. 1
    BY <1>1 DEF q
  <2>3. DOMAIN q = 1 .. Len(q) /\ Len(q) \in Nat
    BY <2>1
  <2> QED BY <2>2, <2>3
<1>7. q # << >>
  BY <1>6
<1> QED BY <1>2, <1>4, <1>5, <1>6, <1>7

\* A step of system_execute is one of the execute in progress.
LEMMA ExecIs ==
    ASSUME TypeOK, NEW x \in Slots, ExecAt(x), NEW st \in Stages \ {"waiting"}, At(st)
    PROVE  /\ cpu = x /\ main_process = x /\ Executing(x)
           /\ Top(cpu) = kstack[x][1] /\ kstack[x][1].stage = st
           /\ Depth(cpu) = 1 /\ Len(kstack[x]) = 1
           /\ kstack[x][1] \in Frames
<1>1. cpu \in Slots /\ kstack[cpu] # << >> /\ Top(cpu).stage = st
  BY DEF At, Lost, TypeOK
<1>2. Depth(cpu) <= 1
  BY <1>1 DEF ExecAt, StackInv
<1>3. /\ Len(kstack[cpu]) = 1 /\ Depth(cpu) = 1
      /\ Top(cpu) = kstack[cpu][1] /\ kstack[cpu][1] \in Frames
  BY <1>1, <1>2, OneFrame
<1>4. cpu = x
  BY <1>1, <1>3 DEF ExecAt, StackInv
<1>5. cpu = main_process
  BY DEF ExecAt, MainInv
<1> QED BY <1>1, <1>3, <1>4, <1>5 DEF Executing

-----------------------------------------------------------------------------
(* system_execute up to its commit *)

\* When the execute in progress goes on, and neither makes nor ends a process,
\* all that is known of the processes stays true.
LEMMA GoesOn ==
    ASSUME TypeOK, NEW x \in Slots, ExecAt(x), main_process = x, Executing(x),
           NEW stage \in Stages \ {"waiting"},
           Len(kstack'[x]) = 1, kstack'[x] # << >>, kstack'[x][1].stage = stage,
           \A s \in Slots \ {x} : kstack'[s] = kstack[s],
           \A s \in Slots : Live(x, s)' <=> Live(x, s),
           \A s \in Slots : Live(x, s) => process_num'[s] = process_num[s],
           \A s \in Terms : process_num'[s] \in {None, s},
           UNCHANGED << active_terminal, main_process, curr_task, parent, frame, pit, cpu >>
    PROVE  MainInv(x)' /\ StackInv(x)' /\ SlotInv(x)' /\ TaskInv(x)' /\ Executing(x)'
<1>1. MainInv(x) /\ StackInv(x) /\ SlotInv(x) /\ TaskInv(x)
  BY DEF ExecAt
<1>2. Executing(x)'
  BY DEF Executing
<1> HIDE DEF Live
<1>3. MainInv(x)'
  BY <1>1 DEF MainInv, TypeOK
<1>4. StackInv(x)'
  <2> SUFFICES ASSUME NEW s \in Slots
               PROVE  /\ Len(kstack'[s]) <= 1
                      /\ kstack'[s] # << >> => kstack'[s][1].stage = "waiting" \/ s = x
                      /\ kstack'[s] # << >> /\ kstack'[s][1].stage = "waiting" =>
                            /\ s # main_process
                            /\ kstack'[s][1].kind = "call"
                                  => s \in Terms /\ curr_task[s] \notin Terms
    BY DEF StackInv, Depth
  <2>1. CASE s = x
    <3>1. kstack'[s][1].stage # "waiting" /\ Len(kstack'[s]) = 1
      BY <2>1
    <3>2. 1 <= 1
      OBVIOUS
    <3>3. Len(kstack'[s]) <= 1
      BY <3>1, <3>2, Zenon
    <3> QED BY <2>1, <3>1, <3>3, Zenon
  <2>2. CASE s # x
    BY <1>1, <2>2 DEF StackInv, Depth
  <2> QED BY <2>1, <2>2
<1>5. SlotInv(x)'
  <2>1. ASSUME NEW s \in Slots \ Terms, NEW t \in Terms,
               Live(x, s)', process_num'[s] = t
        PROVE  Child(x, s, t)'
    <3>1. Child(x, s, t)
      BY <1>1, <2>1 DEF SlotInv
    <3>2. t \in Slots /\ t # x
      BY <3>1, Numbers DEF Child, Executing
    <3> QED BY <3>1, <3>2 DEF Child
  <2>2. ASSUME NEW s \in Terms, Live(x, s)' PROVE Base(s)'
    BY <1>1, <2>2, Numbers DEF SlotInv, Base
  <2> QED BY <2>1, <2>2 DEF SlotInv
<1>6. TaskInv(x)'
  <2> SUFFICES ASSUME NEW t \in Terms, NEW p \in Slots, curr_task[t] = p
               PROVE  Task(x, t, p)'
    BY DEF TaskInv
  <2>1. Task(x, t, p)
    BY <1>1 DEF TaskInv
  <2> QED BY <1>2, <2>1 DEF Task
<1> QED BY <1>2, <1>3, <1>4, <1>5, <1>6

\* Its stack then.
LEMMA StepIs ==
    ASSUME TypeOK, NEW x \in Slots, ExecAt(x), NEW st \in Stages \ {"waiting"}, At(st),
           NEW stage, NEW idx, Step(stage, idx), kstack' \in KStacks
    PROVE  /\ Len(kstack'[x]) = 1 /\ kstack'[x] # << >>
           /\ kstack'[x][1].stage = stage /\ kstack'[x][1].idx = idx
           /\ kstack'[x][1].kind = kstack[x][1].kind
           /\ \A s \in Slots \ {x} : kstack'[s] = kstack[s]
<1>1. cpu = x /\ Len(kstack[x]) = 1
  BY ExecIs
<1>2. kstack' = Advanced(stage, idx)
  BY DEF Step
<1>3. Advanced(stage, idx) \in KStacks
  BY <1>2
<1> QED BY <1>1, <1>2, <1>3, AdvancedIs

\* The scan ends at the reserved slot of a terminal without a task, and behind
\* the reserved slots when a shell has called execute.
LEMMA ScanKeeps ==
    ASSUME TypeOK, TypeOK', NEW x \in Slots, ExecAt(x), ExecScan
    PROVE  ExecAt(x)'
<1> DEFINE f == kstack[x][1]
           idx == f.idx
           a == active_terminal
<1>1. /\ At("scan") /\ idx < NumSlots
      /\ \/ /\ process_num[idx] = None /\ Eligible(idx, a) /\ Step("claim", idx)
         \/ /\ ~(process_num[idx] = None /\ Eligible(idx, a)) /\ Step("scan", idx + 1)
      /\ UNCHANGED << process_num, active_terminal, main_process, curr_task, parent, frame,
                      pit, prog_page, tss_esp0, image, cpu >>
  <2>1. At("scan")
    BY DEF ExecScan
  <2>2. Top(cpu) = f
    BY <2>1, ExecIs DEF Stages
  <2> QED BY <2>1, <2>2 DEF ExecScan, pcbs, mmu
<1>2. /\ cpu = x /\ main_process = x /\ Executing(x) /\ f.stage = "scan"
      /\ f \in Frames
  BY <1>1, ExecIs DEF Stages
<1>3. kstack' \in KStacks /\ a \in Terms /\ "scan" \in Stages \ {"waiting"}
      /\ "claim" \in Stages \ {"waiting"}
  BY DEF TypeOK, KStacks, Stages
<1>4. PICK stage \in {"scan", "claim"}, j \in {idx, idx + 1} :
        /\ Len(kstack'[x]) = 1 /\ kstack'[x] # << >>
        /\ kstack'[x][1].stage = stage /\ kstack'[x][1].idx = j
        /\ kstack'[x][1].kind = f.kind
        /\ \A s \in Slots \ {x} : kstack'[s] = kstack[s]
        /\ stage = "claim" => process_num[idx] = None /\ Eligible(idx, a) /\ j = idx
        /\ stage = "scan" => ~(process_num[idx] = None /\ Eligible(idx, a)) /\ j = idx + 1
  <2>1. CASE Step("claim", idx) /\ process_num[idx] = None /\ Eligible(idx, a)
    <3> HIDE DEF idx
    <3>1. /\ Len(kstack'[x]) = 1 /\ kstack'[x] # << >>
          /\ kstack'[x][1].stage = "claim" /\ kstack'[x][1].idx = idx
          /\ kstack'[x][1].kind = f.kind
          /\ \A s \in Slots \ {x} : kstack'[s] = kstack[s]
      BY <1>1, <1>3, <2>1, StepIs
    <3> QED BY <2>1, <3>1
  <2>2. CASE Step("scan", idx + 1) /\ ~(process_num[idx] = None /\ Eligible(idx, a))
    <3> DEFINE k == idx + 1
    <3> HIDE DEF k
    <3>0. Step("scan", k)
      BY <2>2 DEF k
    <3>1. /\ Len(kstack'[x]) = 1 /\ kstack'[x] # << >>
          /\ kstack'[x][1].stage = "scan" /\ kstack'[x][1].idx = k
          /\ kstack'[x][1].kind = f.kind
          /\ \A s \in Slots \ {x} : kstack'[s] = kstack[s]
      BY <1>1, <1>3, <3>0, StepIs
    <3> QED BY <2>2, <3>1 DEF k
  <2> QED BY <1>1, <2>1, <2>2
<1>5. \A s \in Slots : Live(x, s)' <=> Live(x, s)
  BY <1>1, <1>2, <1>4 DEF Live, Claimed, Executing
<1>6. \A s \in Terms : process_num'[s] \in {None, s}
  BY <1>1 DEF ExecAt, SlotInv
<1>7. MainInv(x)' /\ StackInv(x)' /\ SlotInv(x)' /\ TaskInv(x)' /\ Executing(x)'
  <2>1. stage \in Stages \ {"waiting"}
    BY <1>3, <1>4
  <2> QED BY <1>1, <1>2, <1>4, <1>5, <1>6, <2>1, GoesOn
<1>8. ExecInv(x)'
  <2>0. /\ f.kind = "call" => x = a /\ curr_task[x] = x
        /\ f.kind = "start" =>
              /\ x = main_process /\ curr_task[a] = None
              /\ pit[x] = [stk |-> x, depth |-> 0]
              /\ idx <= a /\ process_num[a] = None
    BY <1>2 DEF ExecAt, ExecInv
  <2>1. idx \in Nat /\ a \in Nat /\ (idx <= a => idx \in Terms)
    BY <1>2, <1>3, SizesAssumption DEF Frames, Terms
  <2>2. f.kind = "call" => process_num[a] # None
    <3> SUFFICES ASSUME f.kind = "call" PROVE process_num[a] # None
      OBVIOUS
    <3>1. a \in Slots /\ curr_task[a] = a
      BY <1>3, <2>0, Numbers
    <3>2. Task(x, a, a)
      BY <1>3, <3>1 DEF ExecAt, TaskInv
    <3> QED BY <3>2 DEF Task, Live
  <2>3. ASSUME f.kind = "start"
        PROVE  j <= a /\ (stage # "scan" => j = a)
    <3>1. stage = "claim" => idx = a
      BY <1>4, <2>0, <2>1, <2>3 DEF Eligible, BaseSlots
    <3>2. stage = "scan" => idx # a
      BY <1>4, <2>0, <2>3 DEF Eligible
    <3> QED BY <1>4, <2>0, <2>1, <2>3, <3>1, <3>2
  <2>4. ASSUME f.kind = "call", stage = "claim"
        PROVE  j \notin Terms
    BY <1>4, <2>2, <2>4 DEF Eligible, BaseSlots
  <2> HIDE DEF idx, f
  <2> QED BY <1>1, <1>4, <2>0, <2>3, <2>4 DEF ExecInv
<1> QED BY <1>7, <1>8 DEF ExecAt

\* When all slots are taken the shell goes on; a first shell always finds one.
LEMMA FullKeeps ==
    ASSUME TypeOK, TypeOK', NEW x \in Slots, ExecAt(x), ExecFull
    PROVE  ExecAt(x)'
<1> DEFINE f == kstack[x][1]
           a == active_terminal
<1>1. /\ cpu = x /\ main_process = x /\ Executing(x) /\ f.stage = "scan"
      /\ f \in Frames /\ Top(cpu) = f /\ Depth(cpu) = 1
  BY ExecIs DEF ExecFull, Stages
<1>2. /\ f.idx = NumSlots /\ kstack' = [kstack EXCEPT ![x] = Cut(x, 0)]
      /\ UNCHANGED << process_num, active_terminal, main_process, curr_task, parent, frame,
                      pit, prog_page, tss_esp0, image, cpu >>
  BY <1>1 DEF ExecFull, pcbs, mmu
<1>3. kstack'[x] = << >> /\ \A s \in Slots \ {x} : kstack'[s] = kstack[s]
  BY <1>2, CutIs DEF TypeOK
<1>4. ~Executing(x)' /\ \A s \in Slots : Live(x, s)' <=> Live(x, s)
  BY <1>1, <1>2, <1>3 DEF Executing, Live, Claimed
<1>5. MainInv(x) /\ StackInv(x) /\ SlotInv(x) /\ TaskInv(x)
  BY DEF ExecAt
<1>6. MainInv(x)'
  BY <1>2, <1>4, <1>5 DEF MainInv, TypeOK
<1>7. StackInv(x)'
  <2>1. Len(kstack'[x]) <= 1
    BY <1>3
  <2> QED BY <1>2, <1>3, <1>5, <2>1 DEF StackInv, Depth
<1>8. SlotInv(x)'
  <2>1. ASSUME NEW s \in Slots \ Terms, NEW t \in Terms, Live(x, s)', process_num'[s] = t
        PROVE  Child(x, s, t)'
    <3>1. Child(x, s, t)
      BY <1>2, <1>4, <1>5, <2>1 DEF SlotInv
    <3>2. t \in Slots /\ t # x
      BY <1>1, <3>1, Numbers DEF Child
    <3> QED BY <1>2, <1>3, <1>4, <3>1, <3>2 DEF Child
  <2>2. \A s \in Terms : Live(x, s)' => Base(s)'
    BY <1>2, <1>4, <1>5, Numbers DEF SlotInv, Base
  <2> QED BY <1>2, <1>5, <2>1, <2>2 DEF SlotInv
<1>9. TaskInv(x)'
  <2> SUFFICES ASSUME NEW t \in Terms, NEW p \in Slots, curr_task[t] = p
               PROVE  Task(x, t, p)'
    BY <1>2 DEF TaskInv
  <2>1. Task(x, t, p)
    BY <1>5 DEF TaskInv
  <2> HIDE DEF Live
  <2> QED BY <1>1, <1>2, <1>4, <2>1 DEF Task
<1>10. ExecInv(x)'
  BY <1>4 DEF ExecInv
<1> QED BY <1>6, <1>7, <1>8, <1>9, <1>10 DEF ExecAt

\* The claim takes a slot that is still free: nobody else is inside an execute.
LEMMA ClaimKeeps ==
    ASSUME TypeOK, TypeOK', NEW x \in Slots, ExecAt(x), ExecClaim
    PROVE  ExecAt(x)'
<1> DEFINE f == kstack[x][1]
           a == active_terminal
<1>1. /\ cpu = x /\ main_process = x /\ Executing(x) /\ f.stage = "claim"
      /\ f \in Frames /\ Top(cpu) = f
  BY ExecIs DEF ExecClaim, Stages
<1>2. PICK idx \in Slots : idx = f.idx
  BY <1>1 DEF Frames
<1>3. /\ process_num' = [process_num EXCEPT ![idx] = a] /\ Step("map", idx)
      /\ UNCHANGED << active_terminal, main_process, curr_task, parent, frame,
                      pit, prog_page, tss_esp0, image, cpu >>
  BY <1>1, <1>2 DEF ExecClaim, pcbs, mmu
<1>4. /\ Len(kstack'[x]) = 1 /\ kstack'[x] # << >>
      /\ kstack'[x][1].stage = "map" /\ kstack'[x][1].idx = idx
      /\ kstack'[x][1].kind = f.kind
      /\ \A s \in Slots \ {x} : kstack'[s] = kstack[s]
  BY <1>3, StepIs DEF ExecClaim, Stages, TypeOK, KStacks
<1>5. /\ f.kind = "call" => x = a /\ curr_task[x] = x /\ idx \notin Terms
      /\ f.kind = "start" =>
            /\ x = main_process /\ curr_task[a] = None
            /\ pit[x] = [stk |-> x, depth |-> 0]
            /\ idx = a
      /\ process_num[idx] = None /\ a \in Terms /\ a <= a
      /\ f.kind \in {"call", "start"}
  BY <1>1, <1>2, Numbers DEF ExecAt, ExecInv, TypeOK, Frames, Kinds
<1>6. process_num'[idx] = a /\ \A s \in Slots \ {idx} : process_num'[s] = process_num[s]
  BY <1>3 DEF TypeOK
<1>7. \A s \in Slots : Live(x, s)' <=> Live(x, s)
  <2>1. \A s \in Slots : Live(x, s) <=> process_num[s] # None
    BY <1>1 DEF Live, Claimed
  <2>2. \A s \in Slots : Live(x, s)' <=> process_num'[s] # None /\ s # idx
    BY <1>4 DEF Live, Claimed, Executing
  <2> QED BY <1>5, <1>6, <2>1, <2>2
<1>8. \A s \in Slots : Live(x, s) => process_num'[s] = process_num[s]
  BY <1>5, <1>6 DEF Live
<1>9. \A s \in Terms : process_num'[s] \in {None, s}
  BY <1>5, <1>6, Numbers DEF ExecAt, SlotInv
<1>10. MainInv(x)' /\ StackInv(x)' /\ SlotInv(x)' /\ TaskInv(x)' /\ Executing(x)'
  <2>1. "map" \in Stages \ {"waiting"}
    BY DEF Stages
  <2> QED BY <1>1, <1>3, <1>4, <1>7, <1>8, <1>9, <2>1, GoesOn
<1> HIDE DEF f
<1>11. ExecInv(x)'
  BY <1>3, <1>4, <1>5, <1>6 DEF ExecInv
<1> QED BY <1>10, <1>11 DEF ExecAt

\* Mapping and loading: the image goes to the page of the claimed slot, unless a
\* tick came in between.
LEMMA LoadKeeps ==
    ASSUME TypeOK, TypeOK', NEW x \in Slots, ExecAt(x), ExecMap \/ ExecLoad
    PROVE  ExecAt(x)'
<1> DEFINE f == kstack[x][1]
           a == active_terminal
<1>1. PICK st \in {"map", "load"} :
        At(st) /\ (st = "map" => ExecMap) /\ (st = "load" => ExecLoad)
  BY DEF ExecMap, ExecLoad
<1>2. st \in Stages \ {"waiting"}
  BY DEF Stages
<1>3. /\ cpu = x /\ main_process = x /\ Executing(x) /\ f.stage = st
      /\ f \in Frames /\ Top(cpu) = f
  BY <1>1, <1>2, ExecIs
<1>4. PICK idx \in Slots : idx = f.idx
  BY <1>3 DEF Frames
<1>5. PICK stage \in {"load", "commit"} :
        /\ stage = IF st = "map" THEN "load" ELSE "commit"
        /\ Step(stage, idx)
        /\ st = "map" => prog_page' = idx /\ image' = image
        /\ st = "load" => prog_page' = prog_page /\ image' = [image EXCEPT ![prog_page] = idx]
        /\ UNCHANGED << process_num, active_terminal, main_process, curr_task, parent,
                        frame, pit, cpu >>
  BY <1>1, <1>3, <1>4 DEF ExecMap, ExecLoad, map_page, pcbs
<1>6. stage \in Stages \ {"waiting"} /\ kstack' \in KStacks
  BY DEF Stages, TypeOK, KStacks
<1>7. /\ Len(kstack'[x]) = 1 /\ kstack'[x] # << >>
      /\ kstack'[x][1].stage = stage /\ kstack'[x][1].idx = idx
      /\ kstack'[x][1].kind = f.kind
      /\ \A s \in Slots \ {x} : kstack'[s] = kstack[s]
  BY <1>1, <1>2, <1>5, <1>6, StepIs
<1>8. /\ f.kind = "call" => x = a /\ curr_task[x] = x /\ idx \notin Terms
      /\ f.kind = "start" =>
            /\ x = main_process /\ curr_task[a] = None
            /\ pit[x] = [stk |-> x, depth |-> 0]
            /\ idx = a
      /\ process_num[idx] = a /\ a \in Terms /\ a <= a
  <2>1. Executing(x) /\ f.stage # "scan" /\ f.stage \in {"map", "load", "commit"}
    BY <1>3
  <2>2. ExecInv(x) /\ a \in Terms
    BY DEF ExecAt, TypeOK
  <2>3. a <= a
    BY <2>2, Numbers
  <2> QED BY <1>3, <1>4, <2>1, <2>2, <2>3 DEF ExecInv
<1>9. \A s \in Slots : Live(x, s)' <=> Live(x, s)
  BY <1>3, <1>4, <1>5, <1>7 DEF Live, Claimed, Executing
<1>10. MainInv(x)' /\ StackInv(x)' /\ SlotInv(x)' /\ TaskInv(x)' /\ Executing(x)'
  <2>1. \A s \in Terms : process_num'[s] \in {None, s}
    BY <1>5 DEF ExecAt, SlotInv
  <2> QED BY <1>3, <1>5, <1>6, <1>7, <1>9, <2>1, GoesOn
<1>11. ~Live(x, idx)
  BY <1>3, <1>4 DEF Live, Claimed
<1> HIDE DEF f
<1>12. ExecInv(x)'
  BY <1>5, <1>7, <1>8 DEF ExecInv
<1> QED BY <1>10, <1>12 DEF ExecAt

-----------------------------------------------------------------------------
(* The commit *)

\* find_parent_process finds the shell that called execute: of the slots below
\* the new one, its terminal owns no other.
LEMMA CallerFound ==
    ASSUME TypeOK, NEW x \in Slots, ExecAt(x), At("commit")
    PROVE  LET f == kstack[x][1]
           IN  ParentOf(process_num, f.idx, active_terminal)
                   = IF f.kind = "call" THEN x ELSE f.idx
<1> DEFINE f == kstack[x][1]
           a == active_terminal
<1>1. /\ cpu = x /\ main_process = x /\ Executing(x) /\ f.stage = "commit"
      /\ f \in Frames
  BY ExecIs DEF Stages
<1>2. PICK idx \in Slots : idx = f.idx
  BY <1>1 DEF Frames
<1>3. /\ f.kind = "call" => x = a /\ curr_task[x] = x /\ idx \notin Terms
      /\ f.kind # "call" => idx = a
      /\ process_num[idx] = a /\ a \in Terms
  BY <1>1, <1>2 DEF ExecAt, ExecInv, TypeOK, Frames, Kinds
<1>4. CASE f.kind # "call"
  BY <1>2, <1>3, <1>4, SizesAssumption DEF ParentOf, Terms
<1>5. CASE f.kind = "call"
  <2> DEFINE owned == {i \in Slots : i < idx /\ process_num[i] = a}
  <2>1. x \in Terms /\ x = a /\ curr_task[x] = x /\ idx \notin Terms
    BY <1>3, <1>5
  <2>2. process_num[x] = x
    BY <2>1, Numbers DEF ExecAt, TaskInv, Task
  <2>3. x < idx /\ ~(idx < NumTerms)
    BY <2>1, SizesAssumption DEF Terms, Slots
  <2>4. x \in owned
    BY <2>1, <2>2, <2>3
  <2>5. ASSUME NEW i \in owned PROVE i = x
    <3>1. CASE i \in Terms
      BY <2>1, <2>5, <3>1, Numbers DEF ExecAt, SlotInv
    <3>2. CASE i \notin Terms
      <4>1. i # idx /\ i \in Slots /\ process_num[i] = x
        BY <2>1, <2>5, Numbers
      <4>2. Live(x, i)
        BY <1>2, <2>1, <4>1, Numbers DEF Live, Claimed
      <4>3. Child(x, i, x)
        BY <2>1, <3>2, <4>1, <4>2 DEF ExecAt, SlotInv
      <4> QED BY <2>1, <4>3 DEF Child
    <3> QED BY <3>1, <3>2
  <2>6. Max(owned) = x
    <3>1. owned \in SUBSET Slots /\ owned # {}
      BY <2>4
    <3>2. Max(owned) \in owned
      <4> HIDE DEF owned
      <4> QED BY <3>1, MaxIn
    <3> QED BY <2>5, <3>2
  <2> QED BY <1>2, <1>5, <2>3, <2>4, <2>6 DEF ParentOf, find_parent_process
<1> QED BY <1>4, <1>5

\* The new process runs; the caller waits for it, or the one that was stopped by
\* Alt+Fn can be resumed.
LEMMA CommitKeeps ==
    ASSUME TypeOK, TypeOK', NEW x \in Slots, ExecAt(x), ExecCommit
    PROVE  ExecAt(x)'
<1> DEFINE f == kstack[x][1]
           a == active_terminal
<1>1. /\ cpu = x /\ main_process = x /\ Executing(x) /\ f.stage = "commit"
      /\ f \in Frames /\ Top(cpu) = f /\ Depth(cpu) = 1 /\ Len(kstack[x]) = 1
      /\ kstack[x] # << >> /\ At("commit")
  BY ExecIs DEF ExecCommit, Stages, Executing
<1>2. PICK idx \in Slots : idx = f.idx
  BY <1>1 DEF Frames
<1>3. /\ parent' = [parent EXCEPT ![idx] = ParentOf(process_num, idx, a)]
      /\ curr_task' = [curr_task EXCEPT ![a] = idx]
      /\ main_process' = idx /\ cpu' = idx
      /\ frame' = [frame EXCEPT ![idx] = [stk |-> x, depth |-> 1]]
      /\ pit' = [pit EXCEPT ![idx] = NoContext]
      /\ kstack' = [Advanced("waiting", idx) EXCEPT ![idx] = << >>]
      /\ UNCHANGED << process_num, active_terminal, prog_page, image >>
  BY <1>1, <1>2 DEF ExecCommit, set_main_process, SaveReturn, Here, Depth
<1>4. /\ f.kind \in {"call", "start"}
      /\ f.kind = "call" => x = a /\ curr_task[x] = x /\ idx \notin Terms
      /\ f.kind = "start" =>
            /\ curr_task[a] = None
            /\ pit[x] = [stk |-> x, depth |-> 0]
            /\ idx = a
      /\ process_num[idx] = a /\ a \in Terms
  BY <1>1, <1>2 DEF ExecAt, ExecInv, TypeOK, Frames, Kinds
<1>5. /\ MainInv(x) /\ StackInv(x) /\ SlotInv(x) /\ TaskInv(x)
      /\ Live(x, x) /\ ~Live(x, idx) /\ x # idx
      /\ \A s \in Slots \ {idx} : Live(x, s) <=> process_num[s] # None
  BY <1>1, <1>2 DEF ExecAt, MainInv, Live, Claimed
<1>6. /\ kstack'[x] # << >> /\ Len(kstack'[x]) = 1
      /\ kstack'[x][1].stage = "waiting" /\ kstack'[x][1].idx = idx
      /\ kstack'[x][1].kind = f.kind
      /\ kstack'[idx] = << >>
      /\ \A s \in Slots \ {x, idx} : kstack'[s] = kstack[s]
  <2> DEFINE k == Advanced("waiting", idx)
  <2>1. kstack \in KStacks /\ idx \in 0 .. NumSlots /\ "waiting" \in Stages
    BY SizesAssumption DEF TypeOK, KStacks, Slots, Stages
  <2>2. k \in KStacks
    BY <1>1, <2>1, AdvancedType
  <2>3. /\ Len(k[x]) = 1 /\ k[x] # << >>
        /\ k[x][1].stage = "waiting" /\ k[x][1].idx = idx
        /\ k[x][1].kind = f.kind
        /\ \A s \in Slots \ {x} : k[s] = kstack[s]
    BY <1>1, <2>2, AdvancedIs
  <2>4. kstack' = [k EXCEPT ![idx] = << >>]
    BY <1>3
  <2> HIDE DEF k, f
  <2>5. kstack'[x] = k[x] /\ kstack'[idx] = << >>
        /\ \A s \in Slots \ {x, idx} : kstack'[s] = k[s]
    BY <1>5, <2>2, <2>4 DEF KStacks
  <2> QED BY <2>3, <2>5
<1>7. ~Executing(x)' /\ \A s \in Slots : Live(x, s)' <=> process_num[s] # None
  BY <1>3, <1>6 DEF Executing, Live, Claimed
<1>8. /\ parent'[idx] = (IF f.kind = "call" THEN x ELSE idx)
      /\ \A s \in Slots \ {idx} : parent'[s] = parent[s]
  BY <1>1, <1>2, <1>3, CallerFound DEF TypeOK
<1>9. /\ curr_task'[a] = idx /\ \A t \in Terms \ {a} : curr_task'[t] = curr_task[t]
      /\ frame'[idx] = [stk |-> x, depth |-> 1]
      /\ \A s \in Slots \ {idx} : frame'[s] = frame[s] /\ pit'[s] = pit[s]
  BY <1>3, <1>4 DEF TypeOK
<1> HIDE DEF f, a
<1>10. a \in Slots /\ idx # None /\ a # None
  BY <1>4, Numbers
<1>11. MainInv(x)'
  BY <1>3, <1>4, <1>7, <1>9, <1>10 DEF MainInv
<1>12. StackInv(x)'
  <2> SUFFICES ASSUME NEW s \in Slots
               PROVE  /\ Len(kstack'[s]) <= 1
                      /\ kstack'[s] # << >> => kstack'[s][1].stage = "waiting" \/ s = x
                      /\ kstack'[s] # << >> /\ kstack'[s][1].stage = "waiting" =>
                            /\ s # idx
                            /\ kstack'[s][1].kind = "call"
                                  => s \in Terms /\ curr_task'[s] \notin Terms
    BY <1>3 DEF StackInv, Depth
  <2>1. CASE s = x
    <3>1. 1 <= 1
      OBVIOUS
    <3>2. f.kind = "call" => s \in Terms /\ curr_task'[s] \notin Terms
      BY <1>4, <1>9, <2>1
    <3> QED BY <1>5, <1>6, <2>1, <3>1, <3>2, Zenon
  <2>2. CASE s = idx
    <3>1. Len(kstack'[s]) <= 1
      BY <1>6, <2>2
    <3> QED BY <1>6, <2>2, <3>1, Zenon
  <2>3. CASE s # x /\ s # idx
    <3>1. kstack'[s] = kstack[s]
      BY <1>6, <2>3
    <3>2. /\ Len(kstack[s]) <= 1
          /\ kstack[s] # << >> => kstack[s][1].stage = "waiting"
          /\ kstack[s] # << >> /\ kstack[s][1].kind = "call"
                => s \in Terms /\ curr_task[s] \notin Terms
      BY <1>5, <2>3 DEF StackInv, Depth
    <3>3. s \in Terms /\ curr_task[s] \notin Terms => curr_task'[s] \notin Terms
      BY <1>4, <1>9, <1>10, <2>3
    <3> QED BY <2>3, <3>1, <3>2, <3>3, Zenon
  <2> QED BY <2>1, <2>2, <2>3
<1>13. SlotInv(x)'
  <2>1. \A s \in Terms : process_num'[s] \in {None, s}
    BY <1>3, <1>5 DEF SlotInv
  <2>2. ASSUME NEW s \in Terms, Live(x, s)' PROVE curr_task'[s] # None /\ parent'[s] = s
    <3>1. CASE s = idx
      BY <1>4, <1>8, <1>9, <1>10, <3>1
    <3>2. CASE s # idx
      <4>1. Live(x, s) /\ s \in Slots
        BY <1>5, <1>7, <2>2, <3>2, Numbers
      <4>2. curr_task[s] # None /\ parent[s] = s
        BY <1>5, <4>1 DEF SlotInv, Base
      <4> QED BY <1>8, <1>9, <1>10, <3>2, <4>1, <4>2
    <3> QED BY <3>1, <3>2
  <2>3. ASSUME NEW s \in Slots \ Terms, NEW t \in Terms, Live(x, s)', process_num[s] = t
        PROVE  Child(x, s, t)'
    <3>0. t \in Slots /\ t # None
      BY Numbers
    <3>1. CASE s = idx
      <4>1. t = a /\ f.kind = "call" /\ x = a
        BY <1>4, <2>3, <3>1
      <4>2. Live(x, t)'
        BY <1>5, <1>7, <4>1, Numbers DEF Live
      <4> QED BY <1>6, <1>8, <1>9, <3>1, <4>1, <4>2 DEF Child
    <3>2. CASE s # idx
      <4>1. Child(x, s, t)
        BY <1>5, <1>7, <2>3, <3>2 DEF SlotInv
      <4>2. t # x /\ t # idx
        BY <1>1, <1>5, <4>1 DEF Child, f, Live
      <4>3. t # a
        BY <1>4, <3>2, <4>1, <4>2, <1>10, <2>3, Numbers DEF Child
      <4>4. Live(x, t)'
        BY <1>7, <3>0, <4>1 DEF Child, Live
      <4> QED BY <1>6, <1>8, <1>9, <3>0, <3>2, <4>1, <4>2, <4>3, <4>4 DEF Child
    <3> QED BY <3>1, <3>2
  <2> QED BY <1>3, <2>1, <2>2, <2>3 DEF SlotInv, Base
<1>14. TaskInv(x)'
  <2> SUFFICES ASSUME NEW t \in Terms, NEW p \in Slots, curr_task'[t] = p
               PROVE  Task(x, t, p)'
    BY DEF TaskInv
  <2>1. CASE t = a
    <3>1. p = idx /\ Live(x, p)'
      BY <1>4, <1>7, <1>9, <1>10, <2>1
    <3> QED BY <1>3, <1>4, <2>1, <3>1 DEF Task
  <2>2. CASE t # a
    <3>1. Task(x, t, p)
      BY <1>5, <1>9, <2>2 DEF TaskInv
    <3>2. Live(x, p) /\ process_num[p] = t /\ p # idx
      BY <1>5, <3>1 DEF Task
    <3>3. Live(x, p)'
      BY <1>7, <3>2 DEF Live
    <3>4. p # x => pit[p] = [stk |-> p, depth |-> 0]
      BY <1>1, <3>1 DEF Task
    <3>5. p = x => pit[p] = [stk |-> p, depth |-> 0]
      <4>1. ASSUME p = x PROVE f.kind = "start"
        BY <1>4, <1>5, <2>2, <3>2, <4>1, Numbers DEF SlotInv
      <4> QED BY <1>4, <4>1
    <3>6. pit'[p] = [stk |-> p, depth |-> 0]
      BY <1>9, <3>2, <3>4, <3>5
    <3> QED BY <1>3, <1>7, <3>2, <3>3, <3>6 DEF Task
  <2> QED BY <2>1, <2>2
<1>15. ExecInv(x)'
  BY <1>7 DEF ExecInv
<1> QED BY <1>11, <1>12, <1>13, <1>14, <1>15 DEF ExecAt

-----------------------------------------------------------------------------
(* Calls of execute and Alt+Fn *)

\* When nobody is inside an execute, anybody may be the next.
LEMMA AnySlot ==
    ASSUME TypeOK, NEW x \in Slots, ExecAt(x), ~Executing(x), NEW y \in Slots
    PROVE  ExecAt(y) /\ ~Executing(y) /\ \A s \in Slots : Live(y, s) <=> process_num[s] # None
<1>1. ~Executing(y)
  BY DEF ExecAt, StackInv, Executing
<1>2. \A s : Live(y, s) <=> Live(x, s)
  BY <1>1 DEF Live, Claimed
<1>3. MainInv(y) /\ StackInv(y)
  BY <1>2 DEF ExecAt, MainInv, StackInv, Executing
<1>4. SlotInv(y)
  BY <1>2 DEF ExecAt, SlotInv, Child
<1>5. TaskInv(y)
  BY <1>1, <1>2 DEF ExecAt, TaskInv, Task
<1>6. ExecInv(y)
  BY <1>1 DEF ExecInv
<1>7. \A s \in Slots : Live(y, s) <=> process_num[s] # None
  BY <1>1 DEF Live, Claimed
<1> QED BY <1>1, <1>3, <1>4, <1>5, <1>6, <1>7 DEF ExecAt

\* InFlight, of the model, is Executing.
LEMMA FlightIs ==
    ASSUME TypeOK, NEW x \in Slots, ExecAt(x)
    PROVE  /\ \A s \in Slots : InFlight(s) <=> s = x /\ Executing(x)
           /\ ExecInFlight <=> Executing(x)
<1>1. ASSUME NEW s \in Slots PROVE InFlight(s) <=> s = x /\ Executing(x)
  <2>1. CASE kstack[s] = << >>
    BY <2>1 DEF InFlight, Executing
  <2>2. CASE kstack[s] # << >>
    <3>1. Top(s) = kstack[s][1]
      BY <2>2, OneFrame DEF ExecAt, StackInv
    <3>2. kstack[s][1].stage = "waiting" \/ s = x
      BY <2>2 DEF ExecAt, StackInv
    <3> QED BY <2>2, <3>1, <3>2 DEF InFlight, Executing
  <2> QED BY <2>1, <2>2
<1>2. ExecInFlight <=> Executing(x)
  BY <1>1 DEF ExecInFlight
<1> QED BY <1>1, <1>2

\* An execute was called by a program or started by Alt+Fn.
LEMMA ExecKind ==
    ASSUME TypeOK, NEW x \in Slots, ExecAt(x), Executing(x)
    PROVE  /\ kstack[x][1] \in Frames /\ kstack[x][1].kind \in {"call", "start"}
           /\ Depth(x) = 1 /\ Len(kstack[x]) = 1 /\ Top(x) = kstack[x][1]
<1>1. /\ kstack[x][1] \in Frames
      /\ Depth(x) = 1 /\ Len(kstack[x]) = 1 /\ Top(x) = kstack[x][1]
  BY OneFrame DEF ExecAt, StackInv, Executing
<1> QED BY <1>1 DEF Frames, Kinds

\* The main process waits for nobody.
LEMMA MainIdle ==
    ASSUME TypeOK, NEW x \in Slots, ExecAt(x), ~Executing(x) \/ x # main_process
    PROVE  kstack[main_process] = << >>
BY DEF ExecAt, StackInv, Executing, TypeOK

\* An execute begins in a process c that was in user mode, when there is no other.
LEMMA Begins ==
    ASSUME TypeOK, NEW c \in Slots, ExecAt(c), ~Executing(c), c = main_process,
           NEW kind \in Kinds,
           kstack' = [kstack EXCEPT ![c] = Append(@, Activation(kind))],
           \A s \in Slots \ {c} : pit'[s] = pit[s],
           UNCHANGED << process_num, main_process, curr_task, parent, frame,
                        prog_page, image, cpu >>
    PROVE  /\ MainInv(c)' /\ StackInv(c)' /\ SlotInv(c)' /\ TaskInv(c)'
           /\ Executing(c)' /\ kstack'[c][1] = Activation(kind)
<1> DEFINE g == Activation(kind)
<1>1. kstack[c] = << >>
  BY MainIdle
<1>2. kstack'[c] = Append(<< >>, g) /\ \A s \in Slots \ {c} : kstack'[s] = kstack[s]
  BY <1>1 DEF TypeOK
<1>3. g.stage = "scan" /\ g.kind = kind /\ g.idx = 0
  BY DEF Activation
<1> HIDE DEF g
<1>4. kstack'[c] # << >> /\ kstack'[c][1] = g /\ Len(kstack'[c]) = 1
  <2>1. << >> \in Seq({g}) /\ g \in {g} /\ Len(<< >>) = 0
    OBVIOUS
  <2>2. /\ Append(<< >>, g) # << >> /\ Len(Append(<< >>, g)) = 1
        /\ Append(<< >>, g)[1] = g
    BY <2>1, AppendProperties
  <2> QED BY <1>2, <2>2
<1>5. MainInv(c) /\ StackInv(c) /\ SlotInv(c) /\ TaskInv(c)
  BY DEF ExecAt
<1>6. Executing(c)' /\ \A s \in Slots : Live(c, s)' <=> Live(c, s)
  BY <1>3, <1>4 DEF Executing, Live, Claimed
<1>7. MainInv(c)'
  BY <1>5, <1>6 DEF MainInv
<1>8. StackInv(c)'
  <2> SUFFICES ASSUME NEW s \in Slots
               PROVE  /\ Len(kstack'[s]) <= 1
                      /\ kstack'[s] # << >> => kstack'[s][1].stage = "waiting" \/ s = c
                      /\ kstack'[s] # << >> /\ kstack'[s][1].stage = "waiting" =>
                            /\ s # main_process
                            /\ kstack'[s][1].kind = "call"
                                  => s \in Terms /\ curr_task[s] \notin Terms
    BY DEF StackInv, Depth
  <2>1. CASE s = c
    <3>1. 1 <= 1
      OBVIOUS
    <3>2. "scan" # "waiting"
      OBVIOUS
    <3> QED BY <1>3, <1>4, <2>1, <3>1, <3>2, Zenon
  <2>2. CASE s # c
    BY <1>2, <1>5, <2>2 DEF StackInv, Depth
  <2> QED BY <2>1, <2>2
<1>9. SlotInv(c)'
  <2>1. ASSUME NEW s \in Slots \ Terms, NEW t \in Terms, Live(c, s)', process_num'[s] = t
        PROVE  Child(c, s, t)'
    <3>1. Child(c, s, t)
      BY <1>5, <1>6, <2>1 DEF SlotInv
    <3>2. t \in Slots /\ t # c
      BY <1>1, <3>1, Numbers DEF Child
    <3> QED BY <1>2, <1>6, <3>1, <3>2 DEF Child
  <2>2. \A s \in Terms : Live(c, s)' => Base(s)'
    BY <1>5, <1>6, Numbers DEF SlotInv, Base
  <2> QED BY <1>5, <2>1, <2>2 DEF SlotInv
<1>10. TaskInv(c)'
  BY <1>5, <1>6 DEF TaskInv, Task
<1> QED BY <1>4, <1>6, <1>7, <1>8, <1>9, <1>10 DEF g

\* What the programs and the timer may do.
Quiet == Interference \subseteq {"tick_in_call"}

\* A base shell in front calls execute.
LEMMA CallKeeps ==
    ASSUME Quiet, TypeOK, TypeOK', NEW x \in Slots, ExecAt(x), ExecCall
    PROVE  \E y \in Slots : ExecAt(y)'
<1>1. /\ cpu \in Slots /\ kstack[cpu] = << >> /\ cpu \in Terms
      /\ process_num[main_process] = active_terminal
      /\ kstack' = [kstack EXCEPT ![cpu] = Append(@, Activation("call"))]
      /\ UNCHANGED << process_num, active_terminal, main_process, curr_task, parent, frame,
                      pit, prog_page, tss_esp0, image, cpu >>
  BY Numbers DEF ExecCall, Quiet, InUser, Lost, Allowed, BaseSlots, TypeOK, pcbs, mmu
<1>2. cpu = main_process
  BY DEF ExecAt, MainInv
<1>3. cpu = active_terminal
  BY <1>1, <1>2, Numbers DEF ExecAt, MainInv, Live, SlotInv
<1>4. ~Executing(x)
  BY <1>1, <1>2, <1>3, ExecKind DEF ExecAt, ExecInv, Executing
<1>5. PICK c \in Slots : c = main_process
  BY <1>1, <1>2
<1>6. ExecAt(c) /\ ~Executing(c)
  BY <1>4, AnySlot
<1>7. /\ MainInv(c)' /\ StackInv(c)' /\ SlotInv(c)' /\ TaskInv(c)'
      /\ Executing(c)' /\ kstack'[c][1] = Activation("call")
  <2>1. "call" \in Kinds
    BY DEF Kinds
  <2> QED BY <1>1, <1>2, <1>5, <1>6, <2>1, Begins
<1>8. curr_task[c] = c
  BY <1>1, <1>2, <1>3, <1>5 DEF ExecAt, MainInv
<1>9. ExecInv(c)'
  <2>1. Activation("call").kind = "call" /\ Activation("call").stage = "scan"
    BY DEF Activation
  <2> QED BY <1>1, <1>2, <1>3, <1>5, <1>7, <1>8, <2>1 DEF ExecInv
<1> QED BY <1>1, <1>5, <1>7, <1>9 DEF ExecAt

\* Alt+Fn to a terminal that has a task.
LEMMA ShownKeeps ==
    ASSUME Quiet, TypeOK, NEW x \in Slots, ExecAt(x), NEW t \in Terms, SwitchShown(t)
    PROVE  ExecAt(x)'
<1>1. ~Executing(x)
  BY FlightIs DEF SwitchShown, Quiet, Allowed
<1>2. UNCHANGED << process_num, main_process, curr_task, parent, frame,
                   pit, prog_page, tss_esp0, image, kstack, cpu >>
  BY DEF SwitchShown, pcbs, mmu
<1>3. MainInv(x)' /\ StackInv(x)' /\ SlotInv(x)' /\ TaskInv(x)'
  BY <1>2 DEF ExecAt, MainInv, StackInv, SlotInv, TaskInv, Task, Base, Child, Live, Claimed,
              Executing, Depth
<1>4. ExecInv(x)'
  BY <1>1, <1>2 DEF ExecInv, Executing
<1> QED BY <1>3, <1>4 DEF ExecAt

\* ... and to one that has none: its reserved slot is free.
LEMMA FirstKeeps ==
    ASSUME Quiet, TypeOK, TypeOK', NEW x \in Slots, ExecAt(x), NEW t \in Terms, SwitchFirst(t)
    PROVE  \E y \in Slots : ExecAt(y)'
<1>1. ~Executing(x)
  BY FlightIs DEF SwitchFirst, Quiet, Allowed
<1>2. PICK c \in Slots : c = main_process /\ c = cpu
  BY DEF ExecAt, MainInv, TypeOK
<1>3. /\ ExecAt(c) /\ ~Executing(c) /\ kstack[c] = << >>
      /\ \A s \in Slots : Live(c, s) <=> process_num[s] # None
  <2>1. /\ ExecAt(c) /\ ~Executing(c)
        /\ \A s \in Slots : Live(c, s) <=> process_num[s] # None
    BY <1>1, AnySlot
  <2>2. kstack[c] = << >>
    BY <1>2, <2>1, MainIdle
  <2> QED BY <2>1, <2>2
<1>4. /\ curr_task[t] = None /\ active_terminal' = t
      /\ pit' = [pit EXCEPT ![c] = [stk |-> c, depth |-> 0]]
      /\ kstack' = [kstack EXCEPT ![c] = Append(@, Activation("start"))]
      /\ UNCHANGED << process_num, main_process, curr_task, parent, frame,
                      prog_page, tss_esp0, image, cpu >>
  <2>1. Here = [stk |-> c, depth |-> 0]
    BY <1>2, <1>3 DEF Here
  <2> QED BY <1>2, <2>1 DEF SwitchFirst, SavePit, pcbs, mmu
<1>5. pit'[c] = [stk |-> c, depth |-> 0] /\ \A s \in Slots \ {c} : pit'[s] = pit[s]
  BY <1>4 DEF TypeOK
<1>6. /\ MainInv(c)' /\ StackInv(c)' /\ SlotInv(c)' /\ TaskInv(c)'
      /\ Executing(c)' /\ kstack'[c][1] = Activation("start")
  <2>1. "start" \in Kinds
    BY DEF Kinds
  <2> QED BY <1>2, <1>3, <1>4, <1>5, <2>1, Begins
<1>7. process_num[t] = None
  BY <1>3, <1>4, Numbers DEF ExecAt, SlotInv, Base
<1>8. ExecInv(c)'
  <2> DEFINE g == Activation("start")
  <2>1. g.kind = "start" /\ g.stage = "scan" /\ g.idx = 0
    BY DEF Activation
  <2>2. 0 <= t
    BY Numbers
  <2> HIDE DEF g
  <2>3. kstack'[c][1] = g
    BY <1>6 DEF g
  <2> QED BY <1>2, <1>4, <1>5, <1>6, <1>7, <2>1, <2>2, <2>3 DEF ExecInv
<1> QED BY <1>6, <1>8 DEF ExecAt

-----------------------------------------------------------------------------
(* The timer *)

\* scheduler_handler finds another terminal's task, whose context is there.
LEMMA TickFinds ==
    ASSUME TypeOK, NEW x \in Slots, ExecAt(x), Tick
    PROVE  \E p \in Slots, t \in Terms :
               /\ p = check_tasks /\ p # main_process
               /\ curr_task[t] = p /\ Task(x, t, p)
<1> DEFINE hits == {i \in 1 .. NumTerms : Runnable(i)}
<1>1. check_tasks # None
  BY DEF Tick
<1>2. hits # {} /\ check_tasks = curr_task[Visited(Min(hits))]
  BY <1>1 DEF check_tasks
<1>3. Min(hits) \in hits
  <2>1. hits \in SUBSET Nat
    BY SizesAssumption
  <2> HIDE DEF hits
  <2> QED BY <1>2, <2>1, MinIn
<1>4. PICK i \in 1 .. NumTerms : i = Min(hits) /\ Runnable(i)
  BY <1>3
<1>5. Visited(i) \in Terms
  <2>1. process_num[main_process] \in Int
    BY SizesAssumption DEF TypeOK, Terms, None
  <2> DEFINE b == process_num[main_process] + 2 * i - 1
  <2>2. b \in Int
    BY <2>1, SizesAssumption
  <2>3. b % NumTerms \in 0 .. NumTerms - 1
    <3> HIDE DEF b
    <3> QED BY <2>2, SizesAssumption
  <2> QED BY <2>3 DEF Visited, Terms
<1>6. PICK t \in Terms : t = Visited(i)
  BY <1>5
<1>7. PICK p \in Slots : p = curr_task[t] /\ p # main_process /\ p = check_tasks
  BY <1>2, <1>4, <1>6 DEF Runnable, TypeOK
<1>8. Task(x, t, p)
  BY <1>7 DEF ExecAt, TaskInv
<1> QED BY <1>7, <1>8

\* A tick switches to it, and leaves a context behind.
LEMMA TickKeeps ==
    ASSUME Quiet, TypeOK, TypeOK', NEW x \in Slots, ExecAt(x), Tick
    PROVE  ExecAt(x)'
<1>1. PICK p \in Slots, v \in Terms :
          /\ p = check_tasks /\ p # main_process
          /\ curr_task[v] = p /\ Task(x, v, p)
  BY TickFinds
<1>2. PICK m \in Slots : m = main_process /\ m = cpu
  BY DEF ExecAt, MainInv, TypeOK
<1> DEFINE d == IF p = x /\ Executing(x) THEN 1 ELSE 0
           e == IF m = x /\ Executing(x) THEN 1 ELSE 0
<1>3. Live(x, p) /\ process_num[p] = v /\ pit[p] = [stk |-> p, depth |-> d]
  BY <1>1 DEF Task
<1>4. ContextLive(pit[p])
  <2>1. pit[p].stk = p /\ pit[p].depth = d /\ p # None
    BY <1>3, Numbers
  <2>2. Depth(p) \in Nat
    BY DEF Depth, TypeOK
  <2>3. d <= Depth(p)
    BY <2>2, ExecKind
  <2> QED BY <2>1, <2>3 DEF ContextLive
<1>5. Here = [stk |-> m, depth |-> e]
  <2>1. Len(kstack[m]) = e
    <3>1. CASE m = x /\ Executing(x)
      BY <3>1, ExecKind
    <3>2. CASE ~(m = x /\ Executing(x))
      <4>1. kstack[m] = << >>
        BY <1>2, <3>2, MainIdle
      <4> QED BY <3>2, <4>1
    <3> QED BY <3>1, <3>2
  <2> QED BY <1>2, <2>1 DEF Here
<1> HIDE DEF d, e
<1>6. /\ main_process' = p /\ prog_page' = p /\ cpu' = p
      /\ pit' = [[pit EXCEPT ![m] = [stk |-> m, depth |-> e]] EXCEPT ![p] = NoContext]
      /\ kstack' = [kstack EXCEPT ![p] = Cut(p, d)]
      /\ UNCHANGED << process_num, active_terminal, curr_task, parent, frame, image >>
  <2>1. pit[p].stk = p /\ pit[p].depth = d
    BY <1>3
  <2> QED BY <1>1, <1>2, <1>4, <1>5, <2>1
          DEF Tick, set_main_process, map_page, SavePit, pcbs
<1>7. /\ pit'[m] = [stk |-> m, depth |-> e]
      /\ \A s \in Slots \ {m, p} : pit'[s] = pit[s]
  BY <1>1, <1>2, <1>6 DEF TypeOK
<1>8. /\ kstack'[p] = (IF p = x /\ Executing(x) THEN kstack[p] ELSE << >>)
      /\ \A s \in Slots \ {p} : kstack'[s] = kstack[s]
  <2>1. kstack'[p] = Cut(p, d) /\ \A s \in Slots \ {p} : kstack'[s] = kstack[s]
    BY <1>6 DEF TypeOK
  <2>2. CASE p = x /\ Executing(x)
    BY <2>1, <2>2, CutIs, ExecKind DEF d
  <2>3. CASE ~(p = x /\ Executing(x))
    BY <2>1, <2>3, CutIs DEF d
  <2> QED BY <2>1, <2>2, <2>3
<1>9. /\ Executing(x)' <=> Executing(x)
      /\ Executing(x) => kstack'[x] = kstack[x]
  BY <1>8 DEF Executing
<1>10. \A s \in Slots : Live(x, s)' <=> Live(x, s)
  BY <1>6, <1>9 DEF Live, Claimed
<1>11. /\ MainInv(x) /\ StackInv(x) /\ SlotInv(x) /\ TaskInv(x) /\ ExecInv(x)
  BY DEF ExecAt
<1>12. MainInv(x)'
  BY <1>1, <1>3, <1>6, <1>10 DEF MainInv
<1>13. StackInv(x)'
  <2> SUFFICES ASSUME NEW s \in Slots
               PROVE  /\ Len(kstack'[s]) <= 1
                      /\ kstack'[s] # << >> => kstack'[s][1].stage = "waiting" \/ s = x
                      /\ kstack'[s] # << >> /\ kstack'[s][1].stage = "waiting" =>
                            /\ s # p
                            /\ kstack'[s][1].kind = "call"
                                  => s \in Terms /\ curr_task[s] \notin Terms
    BY <1>6 DEF StackInv, Depth
  <2>1. CASE kstack'[s] = << >>
    BY <2>1
  <2>2. CASE kstack'[s] # << >>
    <3>1. kstack'[s] = kstack[s]
      BY <1>8, <2>2
    <3>2. kstack[s][1].stage = "waiting" => s # p
      BY <1>8, <2>2 DEF Executing
    <3> QED BY <1>11, <3>1, <3>2 DEF StackInv, Depth
  <2> QED BY <2>1, <2>2
<1>14. SlotInv(x)'
  <2>1. ASSUME NEW s \in Slots \ Terms, NEW t \in Terms, Live(x, s)', process_num'[s] = t
        PROVE  Child(x, s, t)'
    <3>1. Child(x, s, t)
      BY <1>6, <1>10, <1>11, <2>1 DEF SlotInv
    <3>2. t \in Slots /\ t # p
      <4>1. p \in Terms => p = v
        BY <1>3, <1>11, Numbers DEF SlotInv
      <4> QED BY <1>1, <3>1, <4>1, Numbers DEF Child
    <3> QED BY <1>6, <1>8, <1>10, <3>1, <3>2 DEF Child
  <2>2. \A s \in Terms : Live(x, s)' => Base(s)'
    BY <1>6, <1>10, <1>11, Numbers DEF SlotInv, Base
  <2> QED BY <1>6, <1>11, <2>1, <2>2 DEF SlotInv
<1>15. TaskInv(x)'
  <2> SUFFICES ASSUME NEW u \in Terms, NEW q \in Slots, curr_task[u] = q
               PROVE  Task(x, u, q)'
    BY <1>6 DEF TaskInv
  <2>1. Task(x, u, q)
    BY <1>11 DEF TaskInv
  <2>2. q # p => pit'[q] = [stk |-> q, depth |-> IF q = x /\ Executing(x) THEN 1 ELSE 0]
    <3>1. CASE q = m
      BY <1>7, <3>1 DEF e
    <3>2. CASE q # m /\ q # p
      BY <1>2, <1>7, <2>1, <3>2 DEF Task
    <3> QED BY <3>1, <3>2
  <2> QED BY <1>6, <1>9, <1>10, <2>1, <2>2 DEF Task
<1>16. Executing(x) => kstack[x][1].kind = "call"
  <2> SUFFICES ASSUME Executing(x) PROVE kstack[x][1].kind = "call"
    OBVIOUS
  <2>1. Top(x) = kstack[x][1] /\ kstack[x][1].kind \in {"call", "start"} /\ kstack[x] # << >>
    BY ExecKind DEF Executing
  <2>2. CASE x = m
    BY <1>2, <2>1, <2>2 DEF Tick, TickAllowed, InUser, Allowed, Quiet
  <2>3. CASE x # m
    BY <1>2, <1>11, <2>1, <2>3 DEF ExecAt, ExecInv
  <2> QED BY <2>2, <2>3
<1>17. ExecInv(x)'
  BY <1>6, <1>9, <1>11, <1>16 DEF ExecInv
<1> QED BY <1>12, <1>13, <1>14, <1>15, <1>17 DEF ExecAt

-----------------------------------------------------------------------------
(* system_halt *)

\* It is called by a main process that is in its program.
LEMMA HaltsIdle ==
    ASSUME Quiet, TypeOK, NEW x \in Slots, ExecAt(x), UserHalt \/ CtrlC
    PROVE  /\ kstack[main_process] = << >> /\ cpu = main_process
           /\ system_halt
           /\ Executing(x) => x # main_process /\ kstack[x][1].kind = "call"
<1>1. cpu = main_process
  BY DEF ExecAt, MainInv
<1>2. kstack[main_process] = << >>
  <2>1. CASE UserHalt
    BY <1>1, <2>1 DEF UserHalt, InUser
  <2>2. CASE CtrlC
    <3>1. ~Executing(x)
      BY <2>2, FlightIs DEF CtrlC, Quiet, Allowed
    <3> QED BY <3>1, MainIdle
  <2> QED BY <2>1, <2>2
<1>3. Executing(x) => x # main_process
  BY <1>2 DEF Executing
<1>4. Executing(x) => kstack[x][1].kind = "call"
  BY <1>3, ExecKind DEF ExecAt, ExecInv
<1> QED BY <1>1, <1>2, <1>3, <1>4 DEF UserHalt, CtrlC

\* A base shell of the shown terminal is executed again in its own slot, which is
\* the first that the scan finds.
LEMMA RestartKeeps ==
    ASSUME Quiet, TypeOK, TypeOK', NEW x \in Slots, ExecAt(x), UserHalt \/ CtrlC,
           HaltRestart(main_process)
    PROVE  ExecAt(x)'
<1>1. PICK m \in Terms : m = main_process
  BY DEF HaltRestart, BaseSlots
<1>2. /\ kstack[m] = << >> /\ cpu = m /\ system_halt
      /\ Executing(x) => x # m /\ kstack[x][1].kind = "call"
  BY <1>1, HaltsIdle
<1>3. MainInv(x) /\ StackInv(x) /\ SlotInv(x) /\ TaskInv(x) /\ ExecInv(x)
  BY DEF ExecAt
<1>4. /\ Live(x, m) /\ process_num[m] = m /\ active_terminal = m /\ m \in Slots
      /\ parent[m] = m /\ curr_task[m] = m
  <2>1. Live(x, m) /\ m \in Slots
    BY <1>1, <1>3, Numbers DEF MainInv
  <2>2. process_num[m] = m /\ parent[m] = m
    BY <1>3, <2>1 DEF SlotInv, Live, Base
  <2>3. process_num[m] = active_terminal
    BY <1>1, <1>2 DEF system_halt, BaseSlots, Allowed, Quiet
  <2>4. curr_task[m] = m
    BY <1>1, <1>3, <2>2 DEF MainInv
  <2> QED BY <2>1, <2>2, <2>3, <2>4
<1>5. ~Executing(x)
  BY <1>2, <1>3, <1>4 DEF ExecInv
<1>6. Min(Free(Freed(m), m)) = m
  <2> DEFINE F == Free(Freed(m), m)
  <2>1. m \in F
    BY <1>4 DEF Free, Freed, Eligible, TypeOK
  <2>2. F \in SUBSET Nat
    BY Numbers DEF Free
  <2>3. ASSUME NEW y \in F PROVE m <= y
    <3>1. y \in Slots /\ (y \notin Terms \/ y = m)
      BY DEF Free, Eligible, BaseSlots
    <3> QED BY <1>4, <3>1, SizesAssumption DEF Slots, Terms
  <2>4. Min(F) \in F /\ Min(F) <= m
    <3> HIDE DEF F
    <3> QED BY <2>1, <2>2, MinIn
  <2>5. Min(F) \in Nat /\ m \in Nat /\ m <= Min(F)
    BY <1>4, <2>2, <2>3, <2>4, Numbers
  <2> QED BY <2>4, <2>5
<1>7. /\ process_num' = [Freed(m) EXCEPT ![m] = m]
      /\ parent' = [parent EXCEPT ![m] = ParentOf(process_num', m, m)]
      /\ curr_task' = [Inherited(m) EXCEPT ![m] = m]
      /\ main_process' = m /\ prog_page' = m /\ cpu' = m
      /\ image' = [image EXCEPT ![m] = m]
      /\ frame' = [frame EXCEPT ![m] = NoContext]
      /\ pit' = [pit EXCEPT ![m] = NoContext]
      /\ kstack' = [kstack EXCEPT ![m] = << >>]
      /\ active_terminal' = active_terminal
  BY <1>1, <1>2, <1>4, <1>6 DEF HaltRestart, set_main_process, map_page, system_halt
<1>8. /\ process_num' = process_num /\ parent' = parent /\ curr_task' = curr_task
      /\ kstack' = kstack
  <2>1. process_num' = process_num
    BY <1>4, <1>7 DEF Freed, TypeOK
  <2>2. ParentOf(process_num', m, m) = m
    BY <1>1, SizesAssumption DEF ParentOf, Terms
  <2>3. parent' = parent
    BY <1>4, <1>7, <2>2 DEF TypeOK
  <2>4. curr_task' = curr_task
    BY <1>4, <1>7 DEF Inherited, TypeOK
  <2>5. kstack' = kstack
    BY <1>2, <1>4, <1>7 DEF TypeOK
  <2> QED BY <2>1, <2>3, <2>4, <2>5
<1>9. /\ \A s \in Slots \ {m} : frame'[s] = frame[s] /\ pit'[s] = pit[s]
      /\ image'[m] = m /\ \A s \in Slots \ {m} : image'[s] = image[s]
  BY <1>4, <1>7 DEF TypeOK
<1>10. ~Executing(x)' /\ \A s \in Slots : Live(x, s)' <=> Live(x, s)
  BY <1>5, <1>8 DEF Executing, Live, Claimed
<1>11. MainInv(x)' /\ StackInv(x)'
  BY <1>1, <1>3, <1>4, <1>7, <1>8, <1>10 DEF MainInv, StackInv, Depth
<1>12. SlotInv(x)'
  <2>1. ASSUME NEW s \in Slots \ Terms, NEW t \in Terms, Live(x, s)', process_num'[s] = t
        PROVE  Child(x, s, t)'
    <3>1. Child(x, s, t)
      BY <1>3, <1>8, <1>10, <2>1 DEF SlotInv
    <3> QED BY <1>8, <1>9, <1>10, <2>1, <3>1, Numbers DEF Child
  <2>2. \A s \in Terms : Live(x, s)' => Base(s)'
    BY <1>3, <1>8, <1>10, Numbers DEF SlotInv, Base
  <2> QED BY <1>3, <1>8, <2>1, <2>2 DEF SlotInv
<1>13. TaskInv(x)'
  <2> SUFFICES ASSUME NEW u \in Terms, NEW q \in Slots, curr_task[u] = q
               PROVE  Task(x, u, q)'
    BY <1>8 DEF TaskInv
  <2>1. Task(x, u, q)
    BY <1>3 DEF TaskInv
  <2>2. q # m => pit'[q] = [stk |-> q, depth |-> 0]
    BY <1>1, <1>5, <1>9, <2>1 DEF Task
  <2> QED BY <1>7, <1>8, <1>10, <2>1, <2>2 DEF Task
<1>14. ExecInv(x)'
  BY <1>10 DEF ExecInv
<1> QED BY <1>11, <1>12, <1>13, <1>14 DEF ExecAt

\* Any other process returns to the shell that waits for it.
LEMMA ReturnKeeps ==
    ASSUME Quiet, TypeOK, TypeOK', NEW x \in Slots, ExecAt(x), UserHalt \/ CtrlC,
           HaltReturn(main_process)
    PROVE  ExecAt(x)'
<1>1. PICK m \in Slots : m = main_process
  BY DEF TypeOK
<1>2. /\ kstack[m] = << >> /\ cpu = m /\ system_halt
      /\ Executing(x) => x # m /\ kstack[x][1].kind = "call"
  BY <1>1, HaltsIdle
<1>3. MainInv(x) /\ StackInv(x) /\ SlotInv(x) /\ TaskInv(x) /\ ExecInv(x)
  BY DEF ExecAt
<1>4. Live(x, m)
  BY <1>1, <1>3 DEF MainInv
<1>5. m \notin Terms
  <2> SUFFICES ASSUME m \in Terms PROVE FALSE
    OBVIOUS
  <2>1. process_num[m] = active_terminal
    BY <1>1, <1>2 DEF system_halt, BaseSlots, Allowed, Quiet
  <2>2. process_num[m] = m
    BY <1>3, <1>4 DEF SlotInv, Live
  <2>3. m \in Free(Freed(m), active_terminal)
    BY <2>1, <2>2 DEF Free, Freed, Eligible, TypeOK
  <2> QED BY <1>1, <2>3 DEF HaltReturn, BaseSlots
<1>6. PICK t \in Terms : t = process_num[m]
  BY <1>4 DEF Live, TypeOK
<1>7. Child(x, m, t)
  BY <1>3, <1>4, <1>5, <1>6 DEF SlotInv
<1>8. /\ curr_task[t] = m /\ parent[m] = t /\ Live(x, t) /\ t \in Slots /\ t # m
      /\ frame[m].stk = t /\ frame[m].depth = 1
      /\ kstack[t] # << >> /\ kstack[t][1].stage = "waiting" /\ kstack[t][1].idx = m
      /\ process_num[t] = t /\ t # None
  <2>1. process_num[t] # None /\ t \in Slots /\ t # None
    BY <1>7, Numbers DEF Child, Live
  <2> QED BY <1>3, <1>5, <1>7, <2>1 DEF Child, SlotInv
<1>9. FrameLive(m)
  <2>1. Depth(t) = 1
    BY <1>3, <1>8, OneFrame DEF StackInv
  <2> QED BY <1>8, <2>1 DEF FrameLive
<1>10. /\ process_num' = Freed(m) /\ curr_task' = Inherited(m)
       /\ main_process' = t /\ prog_page' = t /\ cpu' = t
       /\ kstack' = [kstack EXCEPT ![m] = << >>, ![t] = Cut(t, 0)]
       /\ UNCHANGED << active_terminal, parent, frame, pit, image >>
  BY <1>1, <1>2, <1>8, <1>9
     DEF HaltReturn, set_main_process, map_page, system_halt, pcbs
<1>11. /\ process_num'[m] = None /\ \A s \in Slots \ {m} : process_num'[s] = process_num[s]
       /\ kstack'[m] = << >> /\ kstack'[t] = << >>
       /\ \A s \in Slots \ {m, t} : kstack'[s] = kstack[s]
  <2>1. Cut(t, 0) = << >>
    BY <1>8, CutIs
  <2>2. kstack'[m] = << >> /\ kstack'[t] = << >>
        /\ \A s \in Slots \ {m, t} : kstack'[s] = kstack[s]
    BY <1>8, <1>10, <2>1 DEF TypeOK
  <2>3. process_num'[m] = None /\ \A s \in Slots \ {m} : process_num'[s] = process_num[s]
    BY <1>10 DEF Freed, TypeOK
  <2> QED BY <2>2, <2>3
<1>12. curr_task'[t] = t /\ \A u \in Terms \ {t} : curr_task'[u] = curr_task[u]
  <2>1. \A u \in Terms : curr_task[u] = m => u = t
    BY <1>3, <1>6 DEF TaskInv, Task
  <2> QED BY <1>8, <1>10, <2>1 DEF Inherited
<1>13. /\ Executing(x)' <=> Executing(x)
       /\ Executing(x) => x # t /\ x # m /\ kstack'[x] = kstack[x]
  BY <1>2, <1>8, <1>11 DEF Executing
<1>14. \A s \in Slots : Live(x, s)' <=> Live(x, s) /\ s # m
  BY <1>11, <1>13 DEF Live, Claimed
<1>15. MainInv(x)'
  BY <1>8, <1>10, <1>11, <1>12, <1>14 DEF MainInv
<1>16. StackInv(x)'
  <2> SUFFICES ASSUME NEW s \in Slots
               PROVE  /\ Len(kstack'[s]) <= 1
                      /\ kstack'[s] # << >> => kstack'[s][1].stage = "waiting" \/ s = x
                      /\ kstack'[s] # << >> /\ kstack'[s][1].stage = "waiting" =>
                            /\ s # t
                            /\ kstack'[s][1].kind = "call"
                                  => s \in Terms /\ curr_task'[s] \notin Terms
    BY <1>10 DEF StackInv, Depth
  <2>1. CASE kstack'[s] = << >>
    BY <2>1
  <2>2. CASE kstack'[s] # << >>
    <3>1. kstack'[s] = kstack[s] /\ s # t
      BY <1>11, <2>2
    <3> QED BY <1>3, <1>12, <2>2, <3>1 DEF StackInv, Depth
  <2> QED BY <2>1, <2>2
<1>17. SlotInv(x)'
  <2>0. \A s \in Terms : process_num'[s] \in {None, s}
    BY <1>3, <1>5, <1>11, Numbers DEF SlotInv
  <2>1. ASSUME NEW s \in Slots \ Terms, NEW u \in Terms, Live(x, s)', process_num'[s] = u
        PROVE  Child(x, s, u)'
    <3>1. s # m /\ Live(x, s) /\ process_num[s] = u
      BY <1>11, <1>14, <2>1
    <3>2. Child(x, s, u)
      BY <1>3, <3>1 DEF SlotInv
    <3>3. u \in Slots /\ u # t /\ u # m
      BY <1>5, <1>8, <3>1, <3>2, Numbers DEF Child
    <3> QED BY <1>10, <1>11, <1>12, <1>14, <3>2, <3>3 DEF Child
  <2>2. ASSUME NEW s \in Terms, Live(x, s)' PROVE Base(s)'
    <3>1. Base(s)
      BY <1>3, <1>14, <2>2, Numbers DEF SlotInv
    <3> QED BY <1>8, <1>10, <1>12, <3>1 DEF Base
  <2> QED BY <2>0, <2>1, <2>2 DEF SlotInv
<1>18. TaskInv(x)'
  <2> SUFFICES ASSUME NEW u \in Terms, NEW q \in Slots, curr_task'[u] = q
               PROVE  Task(x, u, q)'
    BY DEF TaskInv
  <2>1. CASE u = t
    BY <1>8, <1>10, <1>11, <1>12, <1>14, <2>1 DEF Task
  <2>2. CASE u # t
    <3>1. Task(x, u, q)
      BY <1>3, <1>12, <2>2 DEF TaskInv
    <3>2. q # m
      BY <1>6, <2>2, <3>1 DEF Task
    <3> QED BY <1>1, <1>10, <1>11, <1>13, <1>14, <3>1, <3>2 DEF Task
  <2> QED BY <2>1, <2>2
<1>19. ExecInv(x)'
  <2> SUFFICES ASSUME Executing(x) PROVE ExecInv(x)'
    BY <1>13 DEF ExecInv
  <2> DEFINE f == kstack[x][1]
  <2>1. f.kind = "call" /\ f \in Frames /\ kstack'[x][1] = f
    BY <1>2, <1>13, ExecKind
  <2>2. x = active_terminal /\ curr_task[x] = x /\ x \in Terms
    BY <1>3, <2>1 DEF ExecInv, TypeOK
  <2>3. curr_task'[x] = x
    BY <1>12, <1>13, <2>2
  <2>4. f.stage # "scan" => f.idx \in Slots
    BY <2>1 DEF Frames
  <2>5. f.stage \in {"map", "load", "commit"} => f.idx # m
    BY <1>4 DEF Live, Claimed
  <2>6. /\ f.stage # "scan" => f.idx \notin Terms
        /\ f.stage = "claim" => process_num[f.idx] = None
        /\ f.stage \in {"map", "load", "commit"} => process_num[f.idx] = active_terminal
    BY <1>3, <2>1 DEF ExecInv
  <2>7. /\ f.stage = "claim" => process_num'[f.idx] = None
        /\ f.stage \in {"map", "load", "commit"} => process_num'[f.idx] = active_terminal
    BY <1>11, <2>4, <2>5, <2>6
  <2> HIDE DEF f
  <2> QED BY <1>10, <2>1, <2>2, <2>3, <2>6, <2>7 DEF ExecInv
<1> QED BY <1>15, <1>16, <1>17, <1>18, <1>19 DEF ExecAt

\* No process is without a parent.
LEMMA NoOrphan ==
    ASSUME TypeOK, NEW x \in Slots, ExecAt(x)
    PROVE  ~HaltOrphan(main_process)
<1> SUFFICES ASSUME main_process \notin Terms, parent[main_process] = None PROVE FALSE
  BY DEF HaltOrphan, BaseSlots
<1>1. PICK m \in Slots : m = main_process
  BY DEF TypeOK
<1>2. Live(x, m)
  BY <1>1 DEF ExecAt, MainInv
<1>3. PICK t \in Terms : t = process_num[m]
  BY <1>2 DEF Live, TypeOK
<1>4. Child(x, m, t)
  BY <1>1, <1>2, <1>3 DEF ExecAt, SlotInv
<1> QED BY <1>1, <1>4, Numbers DEF Child

-----------------------------------------------------------------------------
(* The invariant holds *)

\* At first only the shell of terminal 0 is there.
LEMMA QuietInit == Init => QuietInv
<1> SUFFICES ASSUME Init PROVE QuietInv
  OBVIOUS
<1>1. TypeOK
  BY TypeInit
<1>2. 0 \in Slots /\ 0 \in Terms /\ 0 # None
  BY Numbers
<1> USE DEF Init
<1>3. ~Executing(0) /\ \A s \in Slots : Live(0, s) <=> s = 0
  BY <1>2 DEF Executing, Live, Claimed
<1>4. MainInv(0)
  BY <1>2, <1>3 DEF MainInv
<1>5. StackInv(0)
  <2>1. \A s \in Slots : kstack[s] = << >> /\ Len(kstack[s]) <= 1
    OBVIOUS
  <2> QED BY <2>1 DEF StackInv, Depth
<1>6. SlotInv(0)
  BY <1>2, <1>3, Numbers DEF SlotInv, Base
<1>7. TaskInv(0)
  BY <1>2, <1>3, Numbers DEF TaskInv, Task
<1>8. ExecInv(0)
  BY <1>3 DEF ExecInv
<1> QED BY <1>1, <1>2, <1>4, <1>5, <1>6, <1>7, <1>8 DEF QuietInv, ExecAt

\* Every step keeps it.
LEMMA QuietNext == Quiet => (QuietInv /\ [Next]_vars => QuietInv')
<1> SUFFICES ASSUME Quiet, QuietInv, [Next]_vars PROVE QuietInv'
  OBVIOUS
<1>1. TypeOK /\ TypeOK'
  BY TypeNext DEF QuietInv
<1>2. PICK x \in Slots : ExecAt(x)
  BY DEF QuietInv
<1>3. \E y \in Slots : ExecAt(y)'
  <2>1. CASE ExecCall
    BY <1>1, <1>2, <2>1, CallKeeps
  <2>2. CASE ExecStep
    BY <1>1, <1>2, <2>2, ScanKeeps, FullKeeps, ClaimKeeps, LoadKeeps, CommitKeeps
       DEF ExecStep
  <2>3. CASE UserHalt \/ CtrlC
    <3>1. HaltRestart(main_process) \/ HaltReturn(main_process)
      BY <1>1, <1>2, <2>3, NoOrphan DEF UserHalt, CtrlC, system_halt
    <3> QED BY <1>1, <1>2, <2>3, <3>1, RestartKeeps, ReturnKeeps
  <2>4. CASE Tick
    BY <1>1, <1>2, <2>4, TickKeeps
  <2>5. CASE \E t \in Terms : SwitchShown(t) \/ SwitchFirst(t)
    BY <1>1, <1>2, <2>5, ShownKeeps, FirstKeeps
  <2>6. CASE UNCHANGED vars
    <3>1. ExecAt(x)'
      BY <1>2, <2>6 DEF vars, ExecAt, MainInv, StackInv, SlotInv, TaskInv, ExecInv,
                        Task, Base, Child, Live, Claimed, Executing, Depth
    <3> QED BY <3>1
  <2> QED BY <2>1, <2>2, <2>3, <2>4, <2>5, <2>6 DEF Next
<1> QED BY <1>1, <1>3 DEF QuietInv

-----------------------------------------------------------------------------
(* What it says in the words of the model *)

\* Alive, of the model, is Live.
LEMMA AliveIs ==
    ASSUME TypeOK, NEW x \in Slots, ExecAt(x), NEW s \in Slots
    PROVE  s \in Alive <=> Live(x, s)
<1>1. Pending(s) <=> Claimed(x, s)
  <2>1. CASE Executing(x)
    <3>1. Top(x) = kstack[x][1] /\ kstack[x][1] \in Frames /\ kstack[x][1].stage # "waiting"
      BY <2>1, ExecKind DEF Executing
    <3>2. kstack[x][1].stage \notin {"scan", "claim"}
            <=> kstack[x][1].stage \in {"map", "load", "commit"}
      BY <3>1 DEF Frames, Stages
    <3> QED BY <2>1, <3>1, <3>2, FlightIs DEF Pending, Claimed
  <2>2. CASE ~Executing(x)
    BY <2>2, FlightIs DEF Pending, Claimed
  <2> QED BY <2>1, <2>2
<1> QED BY <1>1 DEF Alive, Live

\* The CPU is never lost.
LEMMA InvControl == QuietInv => ControlKept
BY Numbers DEF QuietInv, ExecAt, MainInv, TypeOK, ControlKept, Lost

\* The task of a terminal is ready.
LEMMA InvTask == QuietInv => TaskReady
<1> SUFFICES ASSUME QuietInv PROVE TaskReady
  OBVIOUS
<1>1. TypeOK
  BY DEF QuietInv
<1>2. PICK x \in Slots : ExecAt(x)
  BY DEF QuietInv
<1>3. /\ MainInv(x) /\ StackInv(x) /\ SlotInv(x) /\ TaskInv(x)
  BY <1>2 DEF ExecAt
<1>4. ASSUME NEW t \in Terms, curr_task[t] # None
      PROVE  curr_task[t] \in Slots /\ Task(x, t, curr_task[t])
  BY <1>1, <1>3, <1>4 DEF TypeOK, TaskInv
<1>5. TaskOfTerminal
  BY <1>1, <1>2, <1>4, AliveIs DEF TaskOfTerminal, Task
<1>6. ASSUME NEW t \in Terms, NEW p \in Slots, curr_task[t] = p, p # None
      PROVE  /\ \A c \in Alive \ BaseSlots : parent[c] # p
             /\ \A d \in 1 .. Depth(p) :
                    kstack[p][d].stage = "waiting" => kstack[p][d].kind = "start"
  <2>0. process_num[p] = t
    BY <1>4, <1>6 DEF Task
  <2>1. p \in Terms => p = t
    BY <1>3, <2>0, Numbers DEF SlotInv
  <2>2. ASSUME NEW c \in Alive \ BaseSlots, parent[c] = p PROVE FALSE
    <3>1. c \in Slots \ Terms /\ Live(x, c)
      BY <1>1, <1>2, AliveIs DEF Alive, BaseSlots
    <3>2. PICK u \in Terms : u = process_num[c]
      BY <1>1, <3>1 DEF Live, TypeOK
    <3>3. Child(x, c, u)
      BY <1>3, <3>1, <3>2 DEF SlotInv
    <3> QED BY <1>6, <2>1, <2>2, <3>1, <3>3 DEF Child
  <2>3. ASSUME NEW d \in 1 .. Depth(p), kstack[p][d].stage = "waiting"
        PROVE  kstack[p][d].kind = "start"
    <3>1. Depth(p) <= 1 /\ Depth(p) \in Nat
      BY <1>1, <1>3 DEF StackInv, Depth, TypeOK
    <3>2. d = 1 /\ Depth(p) = 1
      BY <3>1
    <3>3. kstack[p] # << >>
      BY <3>2 DEF Depth
    <3>4. kstack[p][1] \in Frames
      BY <1>1, <3>1, <3>3, OneFrame
    <3>5. kstack[p][1].kind # "call"
      BY <1>3, <1>6, <2>1, <2>3, <3>2, <3>3 DEF StackInv
    <3> QED BY <3>2, <3>4, <3>5 DEF Frames, Kinds
  <2> QED BY <2>2, <2>3
<1>7. TaskIsLeaf
  BY <1>4, <1>6 DEF TaskIsLeaf
<1>8. Resumable
  <2> SUFFICES ASSUME NEW t \in Terms, curr_task[t] \notin {None, main_process}
               PROVE  ContextLive(pit[curr_task[t]])
    BY DEF Resumable
  <2>1. PICK p \in Slots : p = curr_task[t]
    BY <1>4
  <2> DEFINE d == IF p = x /\ Executing(x) THEN 1 ELSE 0
  <2>2. pit[p] = [stk |-> p, depth |-> d]
    BY <1>4, <2>1 DEF Task
  <2>3. Depth(p) \in Nat
    BY <1>1 DEF Depth, TypeOK
  <2>4. d <= Depth(p)
    BY <1>1, <1>2, <2>3, ExecKind
  <2> HIDE DEF d
  <2>5. pit[p].stk = p /\ pit[p].depth = d /\ p # None
    BY <2>2, Numbers
  <2> QED BY <2>1, <2>4, <2>5 DEF ContextLive
<1> QED BY <1>5, <1>7, <1>8 DEF TaskReady

\* A process that is not a base shell is a child of the shell that waits for it.
LEMMA InvParent == QuietInv => ParentIsCaller /\ NoSlotLeaked
<1> SUFFICES ASSUME QuietInv PROVE ParentIsCaller /\ NoSlotLeaked
  OBVIOUS
<1>1. TypeOK
  BY DEF QuietInv
<1>2. PICK x \in Slots : ExecAt(x)
  BY DEF QuietInv
<1>3. ASSUME NEW c \in Alive \ BaseSlots
      PROVE  /\ parent[c] \in Alive
             /\ frame[c].stk = parent[c]
             /\ FrameLive(c)
             /\ process_num[parent[c]] = process_num[c]
             /\ \E t \in Terms : curr_task[t] = c
  <2>1. c \in Slots \ Terms /\ Live(x, c)
    BY <1>1, <1>2, AliveIs DEF Alive, BaseSlots
  <2>2. PICK t \in Terms : t = process_num[c]
    BY <1>1, <2>1 DEF Live, TypeOK
  <2>3. Child(x, c, t)
    BY <1>2, <2>1, <2>2 DEF ExecAt, SlotInv
  <2>4. /\ parent[c] = t /\ Live(x, t) /\ frame[c].stk = t /\ frame[c].depth = 1
        /\ kstack[t] # << >> /\ kstack[t][1].stage = "waiting" /\ kstack[t][1].idx = c
        /\ t \in Slots /\ t # None /\ curr_task[t] = c
    BY <2>3, Numbers DEF Child
  <2>5. Depth(t) = 1
    BY <1>1, <1>2, <2>4, OneFrame DEF ExecAt, StackInv
  <2>6. FrameLive(c)
    BY <2>4, <2>5 DEF FrameLive
  <2>7. process_num[t] = t
    BY <1>2, <2>4 DEF ExecAt, SlotInv, Live
  <2>8. t \in Alive
    BY <1>1, <1>2, <2>4, AliveIs
  <2> QED BY <2>2, <2>4, <2>6, <2>7, <2>8
<1> QED BY <1>3 DEF ParentIsCaller, NoSlotLeaked

-----------------------------------------------------------------------------
(* The page at 128MB *)

\* A tick away and one back leave the caller's page at 128MB in place of that of
\* the slot being loaded, and no third one; its program then starts with it.
CopyInv ==
    /\ InUser \/ At("scan") \/ At("claim") \/ At("map")
          => prog_page \in {cpu, parent[cpu]}
    /\ At("load") \/ At("commit")
          => prog_page = Top(cpu).idx \/ (prog_page = cpu /\ Top(cpu).kind = "call")

\* The activation on top of a stack of one.
LEMMA TopIs ==
    ASSUME NEW x \in Slots, cpu' = x, Len(kstack'[x]) = 1
    PROVE  Top(cpu)' = kstack'[x][1]
BY DEF Top, Depth

\* In user mode only the first part says anything.
LEMMA CopyUser ==
    ASSUME kstack'[cpu'] = << >>, prog_page' \in {cpu', parent'[cpu']}
    PROVE  CopyInv'
BY DEF CopyInv, At

\* A step of system_execute.
LEMMA CopyExec ==
    ASSUME TypeOK, TypeOK', NEW x \in Slots, ExecAt(x), CopyInv, ExecStep
    PROVE  CopyInv'
<1>0. /\ kstack' \in KStacks
      /\ {"scan", "claim", "map", "load", "commit"} \subseteq Stages \ {"waiting"}
  BY DEF TypeOK, KStacks, Stages
<1>1. CASE ExecScan \/ ExecClaim
  <2>1. PICK st \in {"scan", "claim"} : At(st)
    BY <1>1 DEF ExecScan, ExecClaim
  <2>2. cpu = x
    BY <1>0, <2>1, ExecIs
  <2>3. PICK stage \in {"scan", "claim", "map"} : \E i : Step(stage, i)
    BY <1>1 DEF ExecScan, ExecClaim
  <2>4. cpu' = x /\ prog_page' = prog_page /\ parent' = parent
    BY <1>1, <2>2 DEF ExecScan, ExecClaim, pcbs, mmu
  <2>a. PICK idx : Step(stage, idx)
    BY <2>3
  <2>5. Len(kstack'[x]) = 1 /\ kstack'[x][1].stage = stage
    BY <1>0, <2>1, <2>a, StepIs
  <2>6. Top(cpu)'.stage = stage
    BY <2>4, <2>5, TopIs
  <2>7. prog_page' \in {cpu', parent'[cpu']}
    BY <2>1, <2>2, <2>4 DEF CopyInv
  <2> QED BY <2>6, <2>7 DEF CopyInv, At
<1>2. CASE ExecMap \/ ExecLoad
  <2>1. PICK st \in {"map", "load"} : At(st) /\ (st = "map" <=> ExecMap)
    BY <1>2 DEF ExecMap, ExecLoad, At
  <2>2. cpu = x /\ Top(cpu) = kstack[x][1]
    BY <1>0, <2>1, ExecIs
  <2>3. PICK idx : idx = Top(cpu).idx
    OBVIOUS
  <2>4. PICK stage \in {"load", "commit"} : Step(stage, idx)
    BY <1>2, <2>3 DEF ExecMap, ExecLoad
  <2>5. cpu' = x /\ prog_page' = (IF st = "map" THEN idx ELSE prog_page)
    BY <1>2, <2>1, <2>2, <2>3 DEF ExecMap, ExecLoad, map_page
  <2>6. /\ Len(kstack'[x]) = 1 /\ kstack'[x][1].stage = stage /\ kstack'[x][1].idx = idx
        /\ kstack'[x][1].kind = kstack[x][1].kind
    BY <1>0, <2>1, <2>4, StepIs
  <2>7. Top(cpu)'.stage = stage /\ Top(cpu)'.idx = idx /\ Top(cpu)'.kind = Top(cpu).kind
    BY <2>2, <2>5, <2>6, TopIs
  <2>8. kstack'[cpu'] # << >>
    BY <2>5, <2>6
  <2>9. prog_page' = idx \/ (prog_page' = x /\ Top(cpu).kind = "call")
    <3>1. CASE st = "map"
      BY <2>5, <3>1
    <3>2. CASE st = "load"
      <4>1. At("load")
        BY <2>1, <3>2
      <4>2. prog_page' = prog_page
        BY <2>5, <3>2
      <4> QED BY <2>2, <2>3, <4>1, <4>2 DEF CopyInv
    <3> QED BY <3>1, <3>2
  <2> QED BY <2>5, <2>7, <2>8, <2>9 DEF CopyInv, At, InUser
<1>3. CASE ExecFull
  <2>1. At("scan")
    BY <1>3 DEF ExecFull
  <2>2. cpu = x /\ Depth(cpu) = 1 /\ Depth(cpu) - 1 = 0
    BY <1>0, <2>1, ExecIs
  <2>3. Cut(x, 0) = << >>
    BY CutIs
  <2>4. cpu' = x /\ kstack'[x] = << >> /\ prog_page' = prog_page /\ parent' = parent
    BY <1>3, <2>2, <2>3 DEF ExecFull, TypeOK, pcbs, mmu
  <2>5. prog_page \in {cpu, parent[cpu]}
    BY <2>1 DEF CopyInv
  <2> QED BY <2>2, <2>4, <2>5, CopyUser
<1>4. CASE ExecCommit
  <2>1. At("commit")
    BY <1>4 DEF ExecCommit
  <2>2. cpu = x /\ Top(cpu) = kstack[x][1] /\ kstack[x][1] \in Frames
    BY <1>0, <2>1, ExecIs
  <2>3. PICK idx \in Slots : idx = Top(cpu).idx
    BY <2>1, <2>2 DEF Frames, At
  <2>4. /\ cpu' = idx /\ prog_page' = prog_page
        /\ kstack' = [Advanced("waiting", idx) EXCEPT ![idx] = << >>]
        /\ parent' = [parent EXCEPT ![idx] = ParentOf(process_num, idx, active_terminal)]
    BY <1>4, <2>3 DEF ExecCommit
  <2>5. DOMAIN Advanced("waiting", idx) = Slots
    BY <2>2 DEF Advanced, TypeOK
  <2>6. kstack'[idx] = << >>
    BY <2>4, <2>5
  <2>7. Top(cpu).kind = "call" => parent'[idx] = x
    BY <2>1, <2>2, <2>3, <2>4, CallerFound DEF TypeOK
  <2>8. prog_page' \in {idx, parent'[idx]}
    BY <2>1, <2>2, <2>3, <2>4, <2>7 DEF CopyInv
  <2> QED BY <2>4, <2>6, <2>8, CopyUser
<1> QED BY <1>1, <1>2, <1>3, <1>4 DEF ExecStep

\* A halt goes on in user mode, with the page of the process it returns to.
LEMMA CopyHalt ==
    ASSUME TypeOK, TypeOK', NEW x \in Slots, ExecAt(x), cpu' = main_process',
           HaltRestart(main_process) \/ HaltReturn(main_process)
    PROVE  CopyInv'
<1>1. prog_page' = cpu' /\ cpu' \in Slots /\ cpu' # None
  BY Numbers DEF HaltRestart, HaltReturn, map_page, set_main_process, TypeOK
<1>2. CASE HaltRestart(main_process)
  <2>1. kstack' = [kstack EXCEPT ![cpu] = << >>, ![cpu'] = << >>]
    BY <1>2 DEF HaltRestart
  <2>2. kstack'[cpu'] = << >>
    BY <1>1, <2>1 DEF TypeOK
  <2> QED BY <1>1, <2>2, CopyUser
<1>3. CASE HaltReturn(main_process)
  <2> DEFINE d == frame[main_process].depth
  <2>1. /\ FrameLive(main_process) /\ cpu' = frame[main_process].stk
        /\ kstack' = [kstack EXCEPT ![cpu] = << >>, ![cpu'] = Cut(cpu', d - 1)]
    BY <1>1, <1>3 DEF HaltReturn
  <2>2. d \in 1 .. Depth(cpu') /\ Depth(cpu') <= 1 /\ Depth(cpu') \in Nat
    <3>1. Depth(cpu') \in Nat
      BY <1>1 DEF Depth, TypeOK
    <3> QED BY <1>1, <2>1, <3>1 DEF FrameLive, ExecAt, StackInv
  <2>3. d - 1 = 0
    BY <2>2
  <2> HIDE DEF d
  <2>4. Cut(cpu', d - 1) = << >>
    BY <1>1, <2>3, CutIs
  <2>5. kstack'[cpu'] = << >>
    BY <1>1, <2>1, <2>4 DEF TypeOK
  <2> QED BY <1>1, <2>5, CopyUser
<1> QED BY <1>2, <1>3

\* A tick goes on in user mode or inside of an execute that was called: one that
\* Alt+Fn started is not left before its end, and has a context in its PCB.
LEMMA CopyTick ==
    ASSUME TypeOK', NEW x \in Slots, ExecAt(x)', Tick
    PROVE  CopyInv'
<1>1. /\ prog_page' = main_process' /\ cpu' = main_process' /\ main_process' \in Slots
      /\ pit' = [SavePit EXCEPT ![main_process'] = NoContext]
  BY DEF Tick, map_page, set_main_process, ExecAt, MainInv, TypeOK
<1>2. ASSUME NEW st \in {"load", "commit"}, At(st)' PROVE Top(cpu)'.kind = "call"
  <2> DEFINE q == kstack'[cpu']
  <2>1. /\ q \in Seq(Frames) /\ q # << >> /\ Len(q) <= 1 /\ Top(cpu)' = q[Len(q)]
        /\ Top(cpu)'.stage = st /\ (q[1].stage = "waiting" \/ cpu' = x)
    BY <1>1, <1>2 DEF TypeOK, At, Top, Depth, ExecAt, StackInv
  <2>a. Len(q) = 1
    <3> HIDE DEF q
    <3>1. Len(q) \in Nat /\ Len(q) # 0
      BY <2>1, EmptySeq
    <3>2. \A n \in Nat : n # 0 /\ n <= 1 => n = 1
      OBVIOUS
    <3> QED BY <2>1, <3>1, <3>2, Zenon
  <2>b. Top(cpu)' = q[1] /\ q[1] \in Frames /\ q[1].stage # "waiting"
    BY <2>1, <2>a, ElementOfSeq
  <2>2. /\ cpu' = x /\ Executing(x)' /\ Top(cpu)' = kstack'[x][1]
        /\ kstack'[x][1] \in Frames
    BY <2>1, <2>b DEF Executing
  <2>3. pit'[x] = NoContext
    BY <1>1, <2>2 DEF TypeOK
  <2>4. NoContext # [stk |-> x, depth |-> 0]
    BY Numbers DEF NoContext
  <2>5. kstack'[x][1].kind # "start"
    BY <2>2, <2>3, <2>4 DEF ExecAt, ExecInv
  <2> QED BY <2>2, <2>5 DEF Frames, Kinds
<1> QED BY <1>1, <1>2 DEF CopyInv

\* The first shell runs on its own page.
LEMMA CopyInit == Init => CopyInv
BY Numbers DEF Init, CopyInv, At

\* Every step.
LEMMA CopyNext == Quiet => (QuietInv /\ CopyInv /\ [Next]_vars => CopyInv')
<1> SUFFICES ASSUME Quiet, QuietInv, CopyInv, [Next]_vars PROVE CopyInv'
  OBVIOUS
<1>1. TypeOK /\ TypeOK' /\ QuietInv'
  BY TypeNext, QuietNext DEF QuietInv
<1>2. PICK x \in Slots : ExecAt(x)
  BY DEF QuietInv
<1>3. cpu' = main_process'
  BY <1>1 DEF QuietInv, ExecAt, MainInv
<1>4. CASE ExecStep
  BY <1>1, <1>2, <1>4, CopyExec
<1>5. CASE UserHalt \/ CtrlC
  <2>1. HaltRestart(main_process) \/ HaltReturn(main_process)
    BY <1>1, <1>2, <1>5, NoOrphan DEF UserHalt, CtrlC, system_halt
  <2> QED BY <1>1, <1>2, <1>3, <2>1, CopyHalt
<1>6. CASE Tick
  BY <1>1, <1>6, CopyTick DEF QuietInv
<1>7. CASE ExecCall \/ \E t \in Terms : SwitchFirst(t)
  <2>1. cpu = main_process /\ cpu \in Slots /\ cpu # None
    BY <1>1, <1>2, Numbers DEF ExecAt, MainInv, TypeOK
  <2>2. kstack[cpu] = << >>
    <3>1. CASE ExecCall
      BY <3>1 DEF ExecCall, InUser
    <3>2. CASE \E t \in Terms : SwitchFirst(t)
      <4>1. ~Executing(x)
        BY <1>1, <1>2, <3>2, FlightIs DEF SwitchFirst, Quiet, Allowed
      <4> QED BY <1>1, <1>2, <2>1, <4>1, MainIdle
    <3> QED BY <1>7, <3>1, <3>2
  <2>3. /\ cpu' = cpu /\ prog_page' = prog_page /\ parent' = parent
        /\ \E k \in Kinds : kstack' = [kstack EXCEPT ![cpu] = Append(@, Activation(k))]
    BY <1>7 DEF ExecCall, SwitchFirst, Kinds, pcbs, mmu
  <2>4. PICK k \in Kinds : kstack' = [kstack EXCEPT ![cpu] = Append(@, Activation(k))]
    BY <2>3
  <2> DEFINE g == Activation(k)
  <2>5. kstack'[cpu] = Append(<< >>, g)
    BY <1>1, <2>1, <2>2, <2>4 DEF TypeOK
  <2>6. g.stage = "scan"
    BY DEF Activation
  <2> HIDE DEF g
  <2>7. Len(kstack'[cpu]) = 1 /\ kstack'[cpu][1] = g
    <3>1. << >> \in Seq({g}) /\ g \in {g} /\ Len(<< >>) = 0
      OBVIOUS
    <3>2. Len(Append(<< >>, g)) = 1 /\ Append(<< >>, g)[1] = g
      BY <3>1, AppendProperties
    <3> QED BY <2>5, <3>2
  <2>8. Top(cpu)'.stage = "scan"
    BY <2>1, <2>3, <2>6, <2>7, TopIs
  <2>9. prog_page \in {cpu, parent[cpu]}
    BY <2>1, <2>2 DEF CopyInv, InUser, Lost
  <2> QED BY <2>3, <2>8, <2>9 DEF CopyInv, At
<1>8. CASE (\E t \in Terms : SwitchShown(t)) \/ UNCHANGED vars
  <2>1. UNCHANGED << kstack, cpu, prog_page, parent >>
    BY <1>8 DEF SwitchShown, vars, mmu, pcbs
  <2> QED BY <2>1 DEF CopyInv, At, InUser, Top, Depth, Lost
<1> QED BY <1>4, <1>5, <1>6, <1>7, <1>8 DEF Next

\* So what runs agrees.
LEMMA InvPage == QuietInv /\ CopyInv /\ TrapStack => RunsMain
<1> SUFFICES ASSUME QuietInv, CopyInv, TrapStack PROVE RunsMain
  OBVIOUS
<1>1. cpu = main_process
  BY DEF QuietInv, ExecAt, MainInv
<1>2. InUser => prog_page \in {main_process, parent[main_process]}
  BY <1>1 DEF CopyInv
<1> QED BY <1>1, <1>2 DEF RunsMain, TrapStack

\* So no copy goes into another living process.
LEMMA InvOthers ==
    ASSUME Quiet, QuietInv, CopyInv, [Next]_vars, NEW s \in Alive \ {cpu}
    PROVE  image'[s] = image[s]
<1>1. TypeOK
  BY DEF QuietInv
<1>2. PICK x \in Slots : ExecAt(x)
  BY DEF QuietInv
<1>3. s \in Slots /\ Live(x, s) /\ s # cpu /\ cpu = main_process
  BY <1>1, <1>2, AliveIs DEF Alive, ExecAt, MainInv
<1>4. CASE ExecLoad
  <2>1. At("load") /\ "load" \in Stages \ {"waiting"}
    BY <1>4 DEF ExecLoad, Stages
  <2>2. /\ cpu = x /\ Executing(x) /\ kstack[x][1].stage = "load" /\ Top(cpu) = kstack[x][1]
    BY <1>1, <1>2, <2>1, ExecIs
  <2>3. s # Top(cpu).idx
    BY <1>3, <2>2 DEF Live, Claimed
  <2>4. s # prog_page
    BY <1>3, <2>1, <2>3 DEF CopyInv
  <2> QED BY <1>1, <1>3, <1>4, <2>4 DEF ExecLoad, TypeOK
<1>5. CASE HaltRestart(main_process)
  <2> DEFINE pn == Freed(main_process)
             idx == Min(Free(pn, active_terminal))
  <2>1. image' = [image EXCEPT ![idx] = idx]
    BY <1>5 DEF HaltRestart
  <2>2. pn[s] = process_num[s]
    BY <1>1, <1>3 DEF Freed, TypeOK
  <2>3. pn[idx] = None
    <3> DEFINE F == Free(pn, active_terminal)
    <3>1. F \in SUBSET Nat /\ F # {}
      BY <1>5, Numbers DEF Free, HaltRestart
    <3>2. Min(F) \in F
      <4> HIDE DEF F
      <4> QED BY <3>1, MinIn
    <3> QED BY <3>2 DEF Free
  <2> HIDE DEF idx, pn
  <2>4. s # idx
    BY <1>3, <2>2, <2>3 DEF Live
  <2> QED BY <1>1, <1>3, <2>1, <2>4 DEF TypeOK
<1>6. CASE UNCHANGED image
  BY <1>6
<1>7. ExecLoad \/ HaltRestart(main_process) \/ UNCHANGED image
  BY DEF Next, ExecCall, ExecStep, ExecScan, ExecFull, ExecClaim, ExecMap, ExecCommit,
         UserHalt, CtrlC, system_halt, HaltReturn, HaltOrphan,
         Tick, SwitchShown, SwitchFirst, vars, mmu
<1> QED BY <1>4, <1>5, <1>6, <1>7

-----------------------------------------------------------------------------
(* The theorems *)

\* Whatever ticks fall into the executes that shells call, scheduler_handler and
\* halt always find a frame: the CPU is never lost.
THEOREM NeverLost ==
    ASSUME Quiet
    PROVE  Spec => []ControlKept
<1>1. QuietInv /\ [Next]_vars => QuietInv'
  BY QuietNext
<1> QED BY <1>1, QuietInit, InvControl, PTL DEF Spec

\* The task that the scheduler finds at a terminal is alive, belongs to it, waits
\* for no child and has a context to be resumed from.
THEOREM SchedulerFindsReady ==
    ASSUME Quiet
    PROVE  Spec => []TaskReady
<1>1. QuietInv /\ [Next]_vars => QuietInv'
  BY QuietNext
<1> QED BY <1>1, QuietInit, InvTask, PTL DEF Spec

\* find_parent_process, which guesses the caller from the order of slots, is
\* right: halt returns to the process that executed the one that ends.
THEOREM HaltFindsCaller ==
    ASSUME Quiet
    PROVE  Spec => []ParentIsCaller
<1>1. QuietInv /\ [Next]_vars => QuietInv'
  BY QuietNext
<1> QED BY <1>1, QuietInit, InvParent, PTL DEF Spec

\* No slot is lost: the process in it is some terminal's task or waits for one.
THEOREM SlotsNotLost ==
    ASSUME Quiet
    PROVE  Spec => []NoSlotLeaked
<1>1. QuietInv /\ [Next]_vars => QuietInv'
  BY QuietNext
<1> QED BY <1>1, QuietInit, InvParent, PTL DEF Spec

\* Whatever ticks fall between map_page and read_data of a shell's execute, the
\* program is written into its own slot or over its caller: the memory of every
\* other living process stays.
THEOREM OthersNotOverwritten ==
    ASSUME Quiet
    PROVE  Spec => OthersIntact
<1>1. QuietInv /\ [Next]_vars => QuietInv'
  BY QuietNext
<1>2. QuietInv /\ CopyInv /\ [Next]_vars => CopyInv'
  BY CopyNext
<1>3. QuietInv /\ CopyInv /\ [Next]_vars
        => [\A s \in Alive \ {cpu} : image'[s] = image[s]]_vars
  BY InvOthers
<1> QED BY <1>1, <1>2, <1>3, QuietInit, CopyInit, PTL DEF Spec, OthersIntact

\* What the CPU runs, main_process, the trap's stack and the program page agree;
\* only a program whose load a tick fell into may find its caller's page.
THEOREM MainRuns ==
    ASSUME Quiet
    PROVE  Spec => []RunsMain
<1>1. QuietInv /\ [Next]_vars => QuietInv'
  BY QuietNext
<1>2. QuietInv /\ CopyInv /\ [Next]_vars => CopyInv'
  BY CopyNext
<1>3. QuietInv /\ CopyInv /\ TrapStack => RunsMain
  BY InvPage
<1> QED BY <1>1, <1>2, <1>3, QuietInit, CopyInit, TrapStackCorrect, PTL DEF Spec
=============================================================================
