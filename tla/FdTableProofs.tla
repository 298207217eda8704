---------------------------- MODULE FdTableProofs ----------------------------
(***************************************************************************)
(* What holds of FdTable for any number of processes and descriptors and   *)
(* any boot block: the types always, the rest when no tick falls inside a  *)
(* system call.                                                            *)
(***************************************************************************)
EXTENDS FdTable, OrderLemmas, TLAPS

-----------------------------------------------------------------------------
(* Types, whether ticks fall inside of calls or not *)

Opening == {"lookup", "check", "take", "ops"}
Working == {"copy", "advance", "entry", "close"}

\* TypeOK needs what a call in progress knows of its locals and of cur_dentry,
\* which nothing takes back, whoever runs in between.
TypeInv ==
    /\ TypeOK
    /\ pc \in [Procs -> {"idle"} \cup Opening \cup Working]
    /\ held \in [Procs -> [Fds -> Names \cup {NoName}]]
    /\ delivered \in [Procs -> [Fds -> Nat]]
    /\ \A p \in Procs :
          /\ pc[p] \in Opening => name[p] \in Names
          /\ pc[p] \in {"check", "take"} => cur_dentry \in Names
          /\ pc[p] \in Working => fd[p] \in Fds

\* A store to one descriptor keeps the tables tables of descriptors.
LEMMA SetType ==
    ASSUME fdt \in [Procs -> [Fds -> Entries]],
           NEW p \in Procs, NEW f \in Fds, NEW e \in Entries, Set(p, f, e)
    PROVE  fdt' \in [Procs -> [Fds -> Entries]]
<1>1. fdt[p] \in [Fds -> Entries]
  OBVIOUS
<1>2. [fdt[p] EXCEPT ![f] = e] \in [Fds -> Entries]
  BY <1>1
<1> QED BY <1>2 DEF Set

\* What the stores of open, read and close leave in a descriptor.
LEMMA RtcEntry ==
    ASSUME NEW e \in Entries
    PROVE  LET r == RtcOpened(e)
           IN  /\ r \in Entries /\ r.flags = 1 /\ r.ops = "rtc"
               /\ r.inode = e.inode /\ r.pos = e.pos
BY DEF Entries, RtcOpened

\* What the open of a file leaves in an entry.
LEMMA OpenedEntry ==
    ASSUME NEW e \in Entries, NEW p, Inode[cur_dentry] \in DOMAIN Size
    PROVE  LET r == Opened(p, e)
           IN  /\ r \in Entries /\ r.flags = 1 /\ r.inode = Inode[cur_dentry]
               /\ r.ops = e.ops
               /\ r.pos = IF Type[name[p]] = "file" THEN 0 ELSE e.pos
<1> DEFINE k == IF Type[name[p]] = "file" THEN 0 ELSE e.pos
           i == Inode[cur_dentry]
<1>1. k \in Nat /\ i \in DOMAIN Size \cup {None}
  BY DEF Entries
<1>2. Opened(p, e) = [e EXCEPT !.flags = 1, !.inode = i, !.pos = k]
  BY DEF Opened
<1> HIDE DEF k, i
<1>3. LET r == [e EXCEPT !.flags = 1, !.inode = i, !.pos = k]
      IN  r \in Entries /\ r.flags = 1 /\ r.inode = i /\ r.pos = k /\ r.ops = e.ops
  BY <1>1 DEF Entries
<1>4. Opened(p, e) \in Entries /\ Opened(p, e).flags = 1 /\ Opened(p, e).inode = i
      /\ Opened(p, e).pos = k /\ Opened(p, e).ops = e.ops
  BY <1>2, <1>3, Zenon
<1> QED BY <1>4, Zenon DEF k, i

\* What the jump table's assignment leaves.
LEMMA OpsEntry ==
    ASSUME NEW e \in Entries, NEW ops \in {"rtc", "dir", "file"}
    PROVE  LET r == WithOps(e, ops)
           IN  /\ r \in Entries /\ r.ops = ops /\ r.flags = e.flags
               /\ r.inode = e.inode /\ r.pos = e.pos
BY DEF Entries, WithOps

\* What a read leaves.
LEMMA MovedEntry ==
    ASSUME NEW e \in Entries, NEW k \in Nat
    PROVE  LET r == Moved(e, k)
           IN  /\ r \in Entries /\ r.pos = e.pos + k /\ r.flags = e.flags
               /\ r.inode = e.inode /\ r.ops = e.ops
BY DEF Entries, Moved

\* What system_close leaves: the position of a file that is closed is reset.
LEMMA ClosedEntry ==
    ASSUME NEW e \in Entries, NEW ops
    PROVE  LET r == Closed(ops, e)
           IN  /\ r \in Entries /\ r.flags = 0 /\ r.ops = e.ops /\ r.inode = e.inode
               /\ r.pos = IF ops = "file" THEN 0 ELSE e.pos
<1> DEFINE k == IF ops = "file" THEN 0 ELSE e.pos
<1>1. k \in Nat
  BY DEF Entries
<1>2. Closed(ops, e) = [e EXCEPT !.flags = 0, !.pos = k]
  BY DEF Closed
<1> HIDE DEF k
<1>3. LET r == [e EXCEPT !.flags = 0, !.pos = k]
      IN  r \in Entries /\ r.flags = 0 /\ r.inode = e.inode /\ r.pos = k /\ r.ops = e.ops
  BY <1>1 DEF Entries
<1>4. Closed(ops, e) \in Entries /\ Closed(ops, e).flags = 0 /\ Closed(ops, e).inode = e.inode
      /\ Closed(ops, e).pos = k /\ Closed(ops, e).ops = e.ops
  BY <1>2, <1>3, Zenon
<1> QED BY <1>4, Zenon DEF k

\* The first free descriptor is one, and it is free.
LEMMA FreeFd ==
    ASSUME NEW p, NEW from \in {0, 2}, FreeFds(p, from) # {}
    PROVE  /\ Min(FreeFds(p, from)) \in from .. NumFds - 1
           /\ Min(FreeFds(p, from)) \in Fds
           /\ fdt[p][Min(FreeFds(p, from))].flags = 0
<1>1. FreeFds(p, from) \in SUBSET Nat
  BY FdAssumption DEF FreeFds
<1>2. Min(FreeFds(p, from)) \in FreeFds(p, from)
  BY <1>1, MinIn
<1> QED BY <1>2, FdAssumption DEF FreeFds, Fds

\* read_data copies a natural number of bytes, and not past the end.
LEMMA CopiedType ==
    ASSUME NEW e \in Entries, e.inode # None, NEW len \in Nat
    PROVE  /\ Copied(e, len) \in Nat
           /\ e.pos <= Size[e.inode] => e.pos + Copied(e, len) <= Size[e.inode]
<1>1. Size[e.inode] \in Nat /\ e.pos \in Nat
  BY FdAssumption DEF Entries
<1> DEFINE size == Size[e.inode]
           left == size - e.pos
<1>2. left \in Int /\ (left < 0 <=> size < e.pos)
  BY <1>1
<1>3. Copied(e, len) = IF left < 0 THEN 0 ELSE Least2(Least2(len, size), left)
  BY DEF Copied
<1> HIDE DEF left
<1>4. CASE left < 0
  BY <1>4, <1>3, <1>2, <1>1
<1>5. CASE ~(left < 0)
  <2>1. Least2(len, size) \in Nat
    BY <1>1 DEF Least2
  <2>2. Least2(Least2(len, size), left) \in 0 .. left
    BY <2>1, <1>2, <1>5 DEF Least2
  <2> QED BY <2>2, <1>5, <1>3, <1>2, <1>1 DEF left
<1> QED BY <1>4, <1>5

\* At boot no call is in progress.
LEMMA TypeInit == Init => TypeInv
<1> SUFFICES ASSUME Init PROVE TypeInv
  OBVIOUS
<1>1. fdt \in [Procs -> [Fds -> Entries]]
  BY FdAssumption DEF Init, create_pcb, Blank, Entries, None, Std
<1> QED BY <1>1 DEF Init, TypeInv, TypeOK, Opening, Working, None, NoName

\* Every step of a call keeps the types.
LEMMA TypeStep ==
    ASSUME TypeInv, NEW p \in Procs, Step(p)
    PROVE  TypeInv'
<1> USE DEF TypeInv, TypeOK, Opening, Working, Turn, Goto, Return, set_filesys_pcb,
            globals, locals, ghosts
<1>1. CASE OpenRtc(p)
  <2>1. PICK nm \in Opens[p] : OpenRtc(p)!(nm)
    BY <1>1 DEF OpenRtc
  <2>2. nm \in Names
    BY FdAssumption
  <2> DEFINE free == FreeFds(p, 2)
             f    == Min(free)
  <2>3. CASE free = {}
    BY <2>1, <2>3
  <2>4. CASE free # {}
    <3>1. f \in Fds
      BY <2>4, FreeFd
    <3>2. RtcOpened(fdt[p][f]) \in Entries
      BY <3>1, RtcEntry
    <3>3. Set(p, f, RtcOpened(fdt[p][f]))
          /\ held' = [held EXCEPT ![p][f] = nm]
      BY <2>1, <2>4
    <3>4. fdt' \in [Procs -> [Fds -> Entries]]
      BY <3>1, <3>2, <3>3, SetType
    <3>5. held' \in [Procs -> [Fds -> Names \cup {NoName}]]
      BY <3>1, <3>3, <2>2
    <3> QED BY <3>4, <3>5, <2>1
  <2> QED BY <2>3, <2>4
<1>2. CASE OpenBegin(p)
  <2>1. PICK nm \in Opens[p] : OpenBegin(p)!(nm)
    BY <1>2 DEF OpenBegin
  <2>2. nm \in Names
    BY FdAssumption
  <2> QED BY <2>1, <2>2
<1>3. CASE OpenLookup(p)
  BY <1>3 DEF OpenLookup
<1>4. CASE OpenCheck(p)
  BY <1>4 DEF OpenCheck
<1>5. CASE OpenTake(p)
  <2> DEFINE free == FreeFds(curr_pcb, 0)
             f    == Min(free)
  <2>1. CASE free = {}
    BY <1>5, <2>1 DEF OpenTake
  <2>2. CASE free # {}
    <3>1. f \in Fds
      BY <2>2, FreeFd
    <3>2. Opened(p, fdt[curr_pcb][f]) \in Entries
      <4>1. Inode[cur_dentry] \in DOMAIN Size
        BY <1>5, FdAssumption DEF OpenTake
      <4> QED BY <3>1, <4>1, OpenedEntry
    <3>3. Set(curr_pcb, f, Opened(p, fdt[curr_pcb][f])) /\ fd' = [fd EXCEPT ![p] = f]
      BY <1>5, <2>2 DEF OpenTake
    <3>4. fdt' \in [Procs -> [Fds -> Entries]]
      BY <3>1, <3>2, <3>3, SetType
    <3> QED BY <3>1, <3>3, <3>4, <1>5 DEF OpenTake
  <2> QED BY <2>1, <2>2
<1>6. CASE OpenOps(p)
  <2>1. CASE fd[p] = None
    BY <1>6, <2>1 DEF OpenOps, BelowTable, NoName, None
  <2>2. CASE fd[p] # None
    <3>1. fd[p] \in Fds /\ name[p] \in Names
      BY <1>6, <2>2 DEF OpenOps
    <3>2. WithOps(fdt[p][fd[p]], Type[name[p]]) \in Entries
      <4>1. fdt[p][fd[p]] \in Entries /\ Type[name[p]] \in {"rtc", "dir", "file"}
        BY <3>1, FdAssumption
      <4> HIDE DEF TypeInv
      <4> QED BY <4>1, OpsEntry
    <3>3. fdt' \in [Procs -> [Fds -> Entries]]
      BY <3>1, <3>2, <1>6, <2>2, SetType DEF OpenOps
    <3>4. held' \in [Procs -> [Fds -> Names \cup {NoName}]]
      <4>1. held' = [held EXCEPT ![p][fd[p]] = name[p]]
        BY <1>6, <2>2 DEF OpenOps
      <4> QED BY <3>1, <4>1
    <3>5. delivered' \in [Procs -> [Fds -> Nat]]
      <4>1. delivered[p] \in [Fds -> Nat]
        OBVIOUS
      <4> DEFINE v == IF Type[name[p]] = "file" THEN 0 ELSE delivered[p][fd[p]]
      <4>2. v \in Nat
        BY <4>1, <3>1
      <4>3. delivered' = [delivered EXCEPT ![p] = [delivered[p] EXCEPT ![fd[p]] = v]]
        BY <1>6, <2>2 DEF OpenOps
      <4> HIDE DEF v
      <4> QED BY <4>1, <4>2, <4>3
    <3> QED BY <3>3, <3>4, <3>5, <1>6, <2>2 DEF OpenOps, NoName, None
  <2> QED BY <2>1, <2>2
<1>7. CASE OtherCall(p)
  BY <1>7 DEF OtherCall
<1>8. CASE ReadBegin(p)
  BY <1>8, FdAssumption DEF ReadBegin, CallBegin
<1>9. CASE FileCopy(p)
  <2> DEFINE e == fdt[curr_pcb][fd[p]]
  <2>1. CASE e.flags = 0 \/ e.inode = None
    <3>1. Return(p) /\ UNCHANGED << fdt, globals, eflags, ghosts >>
      BY <1>9, <2>1 DEF FileCopy
    <3> QED BY <3>1 DEF NoName, None
  <2>2. CASE ~(e.flags = 0 \/ e.inode = None)
    <3>1. e \in Entries
      BY <1>9 DEF FileCopy
    <3>2. Copied(e, n[p]) \in Nat
      BY <3>1, <2>2, CopiedType
    <3>3. /\ n' = [n EXCEPT ![p] = Copied(e, n[p])]
          /\ Goto(p, "advance")
          /\ UNCHANGED << name, fd, fdt, globals, eflags, ghosts >>
          /\ pc[p] = "copy"
      BY <1>9, <2>2 DEF FileCopy
    <3>4. n' \in [Procs -> Nat]
      BY <3>2, <3>3
    <3> QED BY <3>3, <3>4
  <2> QED BY <2>1, <2>2
<1>10. CASE FileAdvance(p)
  <2> DEFINE e == fdt[curr_pcb][fd[p]]
  <2>1. fd[p] \in Fds /\ e \in Entries
    BY <1>10 DEF FileAdvance
  <2>2. Moved(e, n[p]) \in Entries
    BY <2>1, MovedEntry
  <2>3. fdt' \in [Procs -> [Fds -> Entries]]
    BY <2>1, <2>2, <1>10, SetType DEF FileAdvance
  <2>4. delivered' \in [Procs -> [Fds -> Nat]]
    BY <2>1, <1>10 DEF FileAdvance
  <2> QED BY <2>3, <2>4, <1>10 DEF FileAdvance, NoName, None
<1>11. CASE DirEntry(p)
  <2> DEFINE e == fdt[curr_pcb][fd[p]]
  <2>1. fd[p] \in Fds /\ e \in Entries
    BY <1>11 DEF DirEntry
  <2>2. CASE e.flags = 0 \/ e.pos >= DirCount
    BY <2>2, <1>11 DEF DirEntry, NoName, None
  <2>3. CASE ~(e.flags = 0 \/ e.pos >= DirCount)
    <3>1. Moved(e, 1) \in Entries
      BY <2>1, MovedEntry
    <3>2. fdt' \in [Procs -> [Fds -> Entries]]
      BY <2>1, <3>1, <1>11, <2>3, SetType DEF DirEntry
    <3>3. delivered' \in [Procs -> [Fds -> Nat]]
      <4>1. delivered' = [delivered EXCEPT ![p][fd[p]] = @ + 1]
        BY <1>11, <2>3 DEF DirEntry
      <4> QED BY <2>1, <4>1
    <3> QED BY <3>2, <3>3, <1>11 DEF DirEntry, NoName, None
  <2> QED BY <2>2, <2>3
<1>12. CASE CloseBegin(p)
  BY <1>12 DEF CloseBegin, CallBegin
<1>13. CASE CloseEnd(p)
  <2> DEFINE e == fdt[curr_pcb][fd[p]]
  <2>1. fd[p] \in Fds /\ e \in Entries
    BY <1>13 DEF CloseEnd
  <2>2. CASE bitmap_open(fd[p])
    BY <2>2, <1>13 DEF CloseEnd, NoName, None
  <2>3. CASE ~bitmap_open(fd[p])
    <3>1. Closed(fdt[p][fd[p]].ops, e) \in Entries
      <4>1. PICK ops : ops = fdt[p][fd[p]].ops
        OBVIOUS
      <4>2. Closed(ops, e) \in Entries
        BY <2>1, ClosedEntry
      <4> QED BY <4>1, <4>2
    <3>2. fdt' \in [Procs -> [Fds -> Entries]]
      BY <2>1, <3>1, <1>13, <2>3, SetType DEF CloseEnd
    <3>3. held' \in [Procs -> [Fds -> Names \cup {NoName}]]
      <4>1. held' = [held EXCEPT ![p][fd[p]] = NoName]
        BY <1>13, <2>3 DEF CloseEnd
      <4> QED BY <2>1, <4>1
    <3>4. delivered' \in [Procs -> [Fds -> Nat]]
      <4>1. delivered[p] \in [Fds -> Nat]
        OBVIOUS
      <4> DEFINE v == IF fdt[p][fd[p]].ops = "file" THEN 0 ELSE delivered[p][fd[p]]
      <4>2. v \in Nat
        BY <4>1, <2>1
      <4>3. delivered' = [delivered EXCEPT ![p] = [delivered[p] EXCEPT ![fd[p]] = v]]
        BY <1>13, <2>3 DEF CloseEnd
      <4> HIDE DEF v
      <4> QED BY <4>1, <4>2, <4>3
    <3> QED BY <3>2, <3>3, <3>4, <1>13 DEF CloseEnd, NoName, None
  <2> QED BY <2>2, <2>3
<1>14. CASE CloseRtc(p)
  BY <1>14 DEF CloseRtc
<1>15. ASSUME Replaced(p) PROVE TypeInv' \/ curr_pcb' \notin Procs
  <2>1. create_pcb(fdt[p]) \in [Fds -> Entries]
    BY FdAssumption DEF create_pcb, Entries, None, Std
  <2> QED BY <2>1, <1>15 DEF Replaced
<1>16. CASE Replace(p) \/ CallNull(p)
  BY <1>16, <1>15 DEF Replace, CallNull, Replaced
<1> QED BY <1>1, <1>2, <1>3, <1>4, <1>5, <1>6, <1>7, <1>8, <1>9, <1>10, <1>11,
           <1>12, <1>13, <1>14, <1>16 DEF Step

\* The types of the C declarations hold of every table, global and local, ticks
\* inside of system calls included: a call that another one has overtaken still
\* works on a descriptor, a name and an entry of the directory.
THEOREM TypesKept == Spec => []TypeOK
<1>1. TypeInv /\ [Next]_vars => TypeInv'
  <2> SUFFICES ASSUME TypeInv, [Next]_vars PROVE TypeInv'
    OBVIOUS
  <2>1. CASE Next
    BY <2>1, TypeStep DEF Next
  <2>2. CASE UNCHANGED vars
    BY <2>2 DEF vars, globals, locals, ghosts, TypeInv, TypeOK
  <2> QED BY <2>1, <2>2
<1>2. TypeInv => TypeOK
  BY DEF TypeInv
<1> QED BY TypeInit, <1>1, <1>2, PTL DEF Spec

-----------------------------------------------------------------------------
(* The calls, when each one runs undisturbed *)

\* What a call of p in progress, or none, means for the descriptors of p.
\* Between the two stores of an open its descriptor is in use, but has the
\* operations of the last file that had it, and nobody holds it.
Taken(p, f) == pc[p] = "ops" /\ fd[p] = f

CallInv(p) ==
    /\ pc[p] \in {"idle", "lookup", "check", "take"} => fd[p] = None
    /\ pc[p] \in {"check", "take", "ops"} => cur_dentry = name[p]
    /\ pc[p] \in Opening => Type[name[p]] # "rtc"
    /\ pc[p] = "take" /\ Type[name[p]] = "file" =>
          \A f \in Fds : InUse(p, f) => fdt[p][f].inode # Inode[name[p]]
    /\ pc[p] = "ops" /\ fd[p] # None =>
          /\ fd[p] \notin Std
          /\ InUse(p, fd[p])
          /\ fdt[p][fd[p]].inode = Inode[name[p]]
          /\ held[p][fd[p]] = NoName
          /\ Type[name[p]] = "dir" => fdt[p][fd[p]].pos = delivered[p][fd[p]]
          /\ Type[name[p]] = "file" =>
                /\ fdt[p][fd[p]].pos = 0
                /\ \A f \in Fds \ {fd[p]} :
                      InUse(p, f) => fdt[p][f].inode # Inode[name[p]]
    /\ pc[p] \in {"copy", "advance"} => fdt[p][fd[p]].ops = "file"
    /\ pc[p] = "entry" => fdt[p][fd[p]].ops = "dir"
    /\ pc[p] = "close" => fdt[p][fd[p]].ops \in {"file", "dir"}
    /\ pc[p] = "advance" =>
          /\ InUse(p, fd[p])
          /\ fdt[p][fd[p]].pos + n[p] <= Size[fdt[p][fd[p]].inode]

\* HeldFaithful for the descriptors that are not being opened.
HeldInv(p) ==
    \A f \in Fds :
        /\ f \in Std => InUse(p, f) /\ fdt[p][f].ops = "terminal" /\ held[p][f] = NoName
        /\ held[p][f] # NoName =>
              /\ InUse(p, f)
              /\ fdt[p][f].ops = Type[held[p][f]]
              /\ Type[held[p][f]] # "rtc" => fdt[p][f].inode = Inode[held[p][f]]
        /\ f \notin Std /\ InUse(p, f) /\ held[p][f] = NoName /\ ~Taken(p, f)
              => fdt[p][f].ops = "rtc"

UniqueInv(p) ==
    \A f, g \in Fds :
        /\ InUse(p, f) /\ InUse(p, g)
        /\ fdt[p][f].ops = "file" /\ fdt[p][g].ops = "file"
        /\ fdt[p][f].inode = fdt[p][g].inode
        /\ ~Taken(p, f) /\ ~Taken(p, g)
        => f = g

\* The position is what was delivered, also of a descriptor that nobody holds;
\* only that of a file may pass the length of the directory.
PosInv(p) ==
    \A f \in Fds \ Std :
        /\ ~Taken(p, f) => fdt[p][f].pos = delivered[p][f]
        /\ IF held[p][f] # NoName /\ Type[held[p][f]] = "file"
           THEN fdt[p][f].pos <= Size[Inode[held[p][f]]]
           ELSE fdt[p][f].pos <= DirCount

ProcInv(p) == CallInv(p) /\ HeldInv(p) /\ UniqueInv(p) /\ PosInv(p)

\* A call in progress is that of curr_pcb, and there is no other one.
BusyIsCurrent ==
    \A p \in Procs : pc[p] # "idle" =>
        /\ curr_pcb = p
        /\ \A q \in Procs \ {p} : pc[q] = "idle"

IInv ==
    /\ TypeInv
    /\ BusyIsCurrent
    /\ \A p \in Procs : ProcInv(p)

\* A store to one descriptor of p changes no other one.
LEMMA Stored ==
    ASSUME fdt \in [Procs -> [Fds -> Entries]],
           NEW p \in Procs, NEW f \in Fds, NEW e, Set(p, f, e)
    PROVE  /\ fdt'[p][f] = e
           /\ \A g \in Fds \ {f} : fdt'[p][g] = fdt[p][g]
<1>1. fdt' = [fdt EXCEPT ![p] = [fdt[p] EXCEPT ![f] = e]]
  BY DEF Set
<1>2. fdt'[p] = [fdt[p] EXCEPT ![f] = e]
  BY <1>1
<1> QED BY <1>2

\* A step of p leaves the call and the descriptors of every other process alone,
\* and p is the process the globals stand for afterwards or p is idle.
LEMMA StepLocal ==
    ASSUME NEW p \in Procs, Step(p), TypeInv, BusyIsCurrent, Preempt = FALSE
    PROVE  /\ \A q \in Procs \ {p} :
                 /\ pc[q] = "idle"
                 /\ pc'[q] = pc[q] /\ name'[q] = name[q] /\ fd'[q] = fd[q] /\ n'[q] = n[q]
                 /\ fdt'[q] = fdt[q] /\ held'[q] = held[q] /\ delivered'[q] = delivered[q]
           /\ curr_pcb' = p \/ pc'[p] = "idle"
<1> USE DEF TypeInv, TypeOK, BusyIsCurrent, Turn, Goto, Return, Set, set_filesys_pcb,
            globals, locals, ghosts
<1>1. CASE OpenRtc(p)
  BY <1>1 DEF OpenRtc
<1>2. CASE OpenBegin(p)
  BY <1>2 DEF OpenBegin
<1>3. CASE OpenLookup(p)
  BY <1>3 DEF OpenLookup
<1>4. CASE OpenCheck(p)
  BY <1>4 DEF OpenCheck
<1>5. CASE OpenTake(p)
  BY <1>5 DEF OpenTake
<1>6. CASE OpenOps(p)
  BY <1>6 DEF OpenOps
<1>7. CASE OtherCall(p)
  BY <1>7 DEF OtherCall
<1>8. CASE ReadBegin(p)
  BY <1>8 DEF ReadBegin, CallBegin
<1>9. CASE FileCopy(p)
  BY <1>9 DEF FileCopy
<1>10. CASE FileAdvance(p)
  BY <1>10 DEF FileAdvance
<1>11. CASE DirEntry(p)
  BY <1>11 DEF DirEntry
<1>12. CASE CloseBegin(p)
  BY <1>12 DEF CloseBegin, CallBegin
<1>13. CASE CloseEnd(p)
  BY <1>13 DEF CloseEnd
<1>14. CASE CloseRtc(p)
  BY <1>14 DEF CloseRtc
<1>15. CASE Replace(p)
  BY <1>15 DEF Replace, Replaced
<1>16. CASE CallNull(p)
  BY <1>16 DEF CallNull, Replaced
<1> QED BY <1>1, <1>2, <1>3, <1>4, <1>5, <1>6, <1>7, <1>8, <1>9, <1>10, <1>11,
           <1>12, <1>13, <1>14, <1>15, <1>16 DEF Step

\* What a process knows of its descriptors depends on nothing else.
LEMMA Undisturbed ==
    ASSUME NEW q \in Procs, ProcInv(q), pc[q] = "idle",
           pc'[q] = pc[q], fd'[q] = fd[q],
           fdt'[q] = fdt[q], held'[q] = held[q], delivered'[q] = delivered[q]
    PROVE  ProcInv(q)'
BY DEF ProcInv, CallInv, HeldInv, UniqueInv, PosInv, InUse, Taken, Opening

\* A step inside of a call that stores to no descriptor.
LEMMA SameTable ==
    ASSUME NEW p \in Procs, ProcInv(p),
           pc[p] # "ops", pc'[p] # "ops" \/ fd'[p] = None,
           fdt'[p] = fdt[p], held'[p] = held[p], delivered'[p] = delivered[p]
    PROVE  HeldInv(p)' /\ UniqueInv(p)' /\ PosInv(p)'
<1>1. \A f \in Fds : ~Taken(p, f) /\ ~Taken(p, f)'
  BY FdAssumption DEF Taken, Fds, None
<1>2. HeldInv(p)'
  BY <1>1 DEF ProcInv, HeldInv, InUse
<1>3. UniqueInv(p)'
  BY <1>1 DEF ProcInv, UniqueInv, InUse
<1>4. PosInv(p)'
  BY <1>1 DEF ProcInv, PosInv
<1> QED BY <1>2, <1>3, <1>4

\* The process of a call in progress is curr_pcb.
LEMMA Caller ==
    ASSUME BusyIsCurrent, NEW p \in Procs, pc[p] # "idle"
    PROVE  curr_pcb = p
BY DEF BusyIsCurrent

\* open of the rtc: one store, and the caller holds the descriptor.
LEMMA OpenRtcInv ==
    ASSUME IInv, NEW p \in Procs, OpenRtc(p)
    PROVE  ProcInv(p)'
<1> USE DEF IInv, TypeInv, TypeOK
<1>1. PICK nm \in Opens[p] : OpenRtc(p)!(nm)
  BY DEF OpenRtc
<1>2. nm \in Names /\ Type[nm] = "rtc" /\ nm # NoName
  BY <1>1, FdAssumption DEF NoName
<1>3. pc[p] = "idle" /\ pc' = pc /\ fd' = fd /\ name' = name /\ n' = n /\ delivered' = delivered
  BY <1>1 DEF Turn, locals
<1> DEFINE free == FreeFds(p, 2)
           f    == Min(free)
<1>4. CASE free = {}
  <2>1. fdt' = fdt /\ held' = held
    BY <1>1, <1>4
  <2> QED BY <2>1, <1>3, Undisturbed
<1>5. CASE free # {}
  <2>1. f \in Fds /\ f \notin Std /\ fdt[p][f].flags = 0
    BY <1>5, FreeFd, FdAssumption DEF Std
  <2>2. Set(p, f, RtcOpened(fdt[p][f])) /\ held' = [held EXCEPT ![p][f] = nm]
    BY <1>1, <1>5
  <2> HIDE DEF f
  <2>3. /\ held'[p][f] = nm
        /\ \A g \in Fds \ {f} : held'[p][g] = held[p][g]
    BY <2>1, <2>2
  <2>4. /\ fdt'[p][f].flags = 1 /\ fdt'[p][f].ops = "rtc"
        /\ fdt'[p][f].pos = fdt[p][f].pos
        /\ \A g \in Fds \ {f} : fdt'[p][g] = fdt[p][g]
    <3>1. fdt[p][f] \in Entries
      BY <2>1
    <3>2. fdt'[p][f] = RtcOpened(fdt[p][f])
          /\ \A g \in Fds \ {f} : fdt'[p][g] = fdt[p][g]
      BY <2>1, <2>2, Stored
    <3> QED BY <3>1, <3>2, RtcEntry
  <2>5. held[p][f] = NoName
    BY <2>1 DEF ProcInv, HeldInv, InUse
  <2>6. \A g \in Fds : ~Taken(p, g) /\ ~Taken(p, g)'
    BY <1>3 DEF Taken
  <2>7. CallInv(p)'
    BY <1>3 DEF ProcInv, CallInv, Opening
  <2>8. HeldInv(p)'
    <3>1. HeldInv(p)
      BY DEF ProcInv
    <3> HIDE DEF IInv, TypeInv, TypeOK
    <3> QED BY <1>2, <2>1, <2>3, <2>4, <2>6, <3>1 DEF HeldInv, InUse
  <2>9. UniqueInv(p)'
    <3>1. UniqueInv(p)
      BY DEF ProcInv
    <3> HIDE DEF IInv
    <3> QED BY <2>4, <2>6, <3>1 DEF UniqueInv, InUse
  <2>10. PosInv(p)'
    <3>1. PosInv(p)
      BY DEF ProcInv
    <3>2. fdt'[p][f].pos = delivered'[p][f] /\ fdt'[p][f].pos <= DirCount
      BY <1>3, <2>1, <2>4, <2>5, <2>6, <3>1 DEF PosInv
    <3> HIDE DEF IInv
    <3> QED BY <1>2, <1>3, <2>3, <2>4, <2>6, <3>1, <3>2 DEF PosInv
  <2> QED BY <2>7, <2>8, <2>9, <2>10 DEF ProcInv
<1> QED BY <1>4, <1>5

\* The steps of open before its store: the scan finds the file not open.
LEMMA OpenScanInv ==
    ASSUME IInv, NEW p \in Procs, OpenBegin(p) \/ OpenLookup(p) \/ OpenCheck(p)
    PROVE  ProcInv(p)'
<1> USE DEF IInv, TypeInv, TypeOK, Turn, Goto, globals, locals, ghosts
<1>1. CASE OpenBegin(p)
  <2>1. PICK nm \in Opens[p] : OpenBegin(p)!(nm)
    BY <1>1 DEF OpenBegin
  <2>2. HeldInv(p)' /\ UniqueInv(p)' /\ PosInv(p)'
    BY <2>1, SameTable
  <2>3. CallInv(p)'
    BY <2>1 DEF ProcInv, CallInv, Opening
  <2> QED BY <2>2, <2>3 DEF ProcInv
<1>2. CASE OpenLookup(p)
  <2>1. HeldInv(p)' /\ UniqueInv(p)' /\ PosInv(p)'
    BY <1>2, SameTable DEF OpenLookup
  <2>2. CallInv(p)'
    BY <1>2 DEF OpenLookup, ProcInv, CallInv, Opening
  <2> QED BY <2>1, <2>2 DEF ProcInv
<1>3. CASE OpenCheck(p)
  <2>1. pc[p] = "check" /\ curr_pcb = p /\ cur_dentry = name[p] /\ fd[p] = None
    BY <1>3, Caller DEF OpenCheck, ProcInv, CallInv
  <2>2. Accepted(p) /\ Type[name[p]] = "file"
          => \A f \in Fds : InUse(p, f) => fdt[p][f].inode # Inode[name[p]]
    BY <2>1 DEF Accepted, AlreadyOpen, bitmap_open, InUse
  <2>3. pc'[p] \in {"take", "ops"} /\ (pc'[p] = "take" => Accepted(p))
    BY <1>3 DEF OpenCheck
  <2>4. /\ fdt' = fdt /\ name' = name /\ fd' = fd /\ n' = n /\ cur_dentry' = cur_dentry
        /\ held' = held /\ delivered' = delivered
    BY <1>3 DEF OpenCheck
  <2>5. HeldInv(p)' /\ UniqueInv(p)' /\ PosInv(p)'
    BY <2>1, <2>4, SameTable
  <2>6. Type[name[p]] # "rtc"
    BY <2>1 DEF ProcInv, CallInv, Opening
  <2>7. CallInv(p)'
    BY <2>1, <2>2, <2>3, <2>4, <2>6 DEF CallInv, InUse
  <2> QED BY <2>5, <2>7 DEF ProcInv
<1> QED BY <1>1, <1>2, <1>3

\* The store of file_open and dir_open: the descriptor was free, so nobody holds
\* it, and no other one in use has the inode if it is for a file.
LEMMA OpenTakeInv ==
    ASSUME IInv, NEW p \in Procs, OpenTake(p)
    PROVE  ProcInv(p)'
<1> USE DEF IInv, TypeInv, TypeOK
<1>1. pc[p] = "take" /\ pc'[p] = "ops" /\ name' = name /\ n' = n /\ held' = held
      /\ delivered' = delivered /\ cur_dentry' = cur_dentry
  BY DEF OpenTake, Turn, Goto, globals, ghosts
<1>2. curr_pcb = p /\ cur_dentry = name[p] /\ fd[p] = None /\ name[p] \in Names
      /\ Type[name[p]] \in {"dir", "file"}
  BY <1>1, Caller, FdAssumption DEF ProcInv, CallInv, Opening
<1>3. Type[name[p]] = "file"
          => \A f \in Fds : InUse(p, f) => fdt[p][f].inode # Inode[name[p]]
  BY <1>1 DEF ProcInv, CallInv
<1> DEFINE free == FreeFds(p, 0)
           f    == Min(free)
<1>4. CASE free = {}
  <2>1. fdt' = fdt /\ fd' = fd
    BY <1>2, <1>4 DEF OpenTake
  <2>2. HeldInv(p)' /\ UniqueInv(p)' /\ PosInv(p)'
    BY <1>1, <1>2, <2>1, SameTable
  <2>3. CallInv(p)'
    BY <1>1, <1>2, <2>1 DEF CallInv
  <2> QED BY <2>2, <2>3 DEF ProcInv
<1>5. CASE free # {}
  <2>1. f \in Fds /\ fdt[p][f].flags = 0 /\ fdt[p][f] \in Entries
    BY <1>5, FreeFd
  <2>2. Set(p, f, Opened(p, fdt[p][f])) /\ fd' = [fd EXCEPT ![p] = f]
    BY <1>2, <1>5 DEF OpenTake
  <2> HIDE DEF f
  <2>3. f \notin Std /\ held[p][f] = NoName /\ fd'[p] = f
    BY <2>1, <2>2 DEF ProcInv, HeldInv, InUse
  <2>4. /\ fdt'[p][f].flags = 1 /\ fdt'[p][f].inode = Inode[name[p]]
        /\ Type[name[p]] = "file" => fdt'[p][f].pos = 0
        /\ Type[name[p]] = "dir" => fdt'[p][f].pos = fdt[p][f].pos
        /\ \A g \in Fds \ {f} : fdt'[p][g] = fdt[p][g]
    <3>1. fdt'[p][f] = Opened(p, fdt[p][f])
          /\ \A g \in Fds \ {f} : fdt'[p][g] = fdt[p][g]
      BY <2>1, <2>2, Stored
    <3>2. Inode[cur_dentry] \in DOMAIN Size
      BY <1>2, FdAssumption
    <3> QED BY <1>2, <2>1, <3>1, <3>2, OpenedEntry
  <2>5. \A g \in Fds : ~Taken(p, g) /\ (Taken(p, g)' <=> g = f)
    BY <1>1, <2>3 DEF Taken
  <2>6. fdt[p][f].pos = delivered[p][f] /\ fdt[p][f].pos <= DirCount
    BY <2>1, <2>3, <2>5 DEF ProcInv, PosInv
  <2>7. CallInv(p)'
    BY <1>1, <1>2, <1>3, <2>1, <2>3, <2>4, <2>6 DEF CallInv, InUse
  <2>8. HeldInv(p)'
    BY <1>1, <2>3, <2>4, <2>5 DEF ProcInv, HeldInv, InUse
  <2>9. UniqueInv(p)'
    BY <2>4, <2>5 DEF ProcInv, UniqueInv, InUse
  <2>10. PosInv(p)'
    BY <1>1, <1>2, <2>3, <2>4, <2>5, <2>6, FdAssumption DEF ProcInv, PosInv
  <2> QED BY <2>7, <2>8, <2>9, <2>10 DEF ProcInv
<1> QED BY <1>4, <1>5

\* The last store of open: the caller holds the descriptor, with its operations.
LEMMA OpenOpsInv ==
    ASSUME IInv, NEW p \in Procs, OpenOps(p)
    PROVE  ProcInv(p)'
<1> USE DEF IInv, TypeInv, TypeOK
<1>1. pc[p] = "ops" /\ pc'[p] = "idle" /\ fd'[p] = None
  BY DEF OpenOps, Turn, Goto, Return
<1>2. name[p] \in Names /\ name[p] # NoName /\ Type[name[p]] \in {"dir", "file"}
  BY <1>1, FdAssumption DEF ProcInv, CallInv, Opening, NoName
<1>3. CallInv(p)'
  BY <1>1 DEF CallInv, Opening
<1>4. CASE fd[p] = None
  <2>1. fdt' = fdt /\ held' = held /\ delivered' = delivered
    BY <1>4 DEF OpenOps
  <2>2. \A g \in Fds : ~Taken(p, g) /\ ~Taken(p, g)'
    BY <1>1, <1>4, FdAssumption DEF Taken, Fds, None
  <2>3. HeldInv(p)' /\ UniqueInv(p)' /\ PosInv(p)'
    BY <2>1, <2>2 DEF ProcInv, HeldInv, UniqueInv, PosInv, InUse
  <2> QED BY <1>3, <2>3 DEF ProcInv
<1>5. CASE fd[p] # None
  <2> DEFINE f == fd[p]
             v == IF Type[name[p]] = "file" THEN 0 ELSE delivered[p][f]
  <2>1. f \in Fds /\ fdt[p][f] \in Entries
    BY <1>5
  <2>2. /\ Set(p, f, WithOps(fdt[p][f], Type[name[p]]))
        /\ held' = [held EXCEPT ![p][f] = name[p]]
        /\ delivered' = [delivered EXCEPT ![p] = [delivered[p] EXCEPT ![f] = v]]
    BY <1>5 DEF OpenOps
  <2>3. /\ f \notin Std /\ fdt[p][f].flags = 1 /\ fdt[p][f].inode = Inode[name[p]]
        /\ Type[name[p]] = "dir" => fdt[p][f].pos = delivered[p][f]
        /\ Type[name[p]] = "file" =>
              /\ fdt[p][f].pos = 0
              /\ \A g \in Fds \ {f} : InUse(p, g) => fdt[p][g].inode # Inode[name[p]]
    BY <1>1, <1>5 DEF ProcInv, CallInv, InUse
  <2>4. v = fdt[p][f].pos
    BY <1>2, <2>3
  <2>5. held[p][f] = NoName
    BY <1>1, <1>5 DEF ProcInv, CallInv
  <2>6. \A g \in Fds : (Taken(p, g) <=> g = f) /\ ~Taken(p, g)'
    BY <1>1 DEF Taken
  <2> HIDE DEF f, v
  <2>7. /\ held'[p][f] = name[p] /\ delivered'[p][f] = v
        /\ \A g \in Fds \ {f} : held'[p][g] = held[p][g] /\ delivered'[p][g] = delivered[p][g]
    BY <2>1, <2>2
  <2>8. /\ fdt'[p][f].flags = 1 /\ fdt'[p][f].ops = Type[name[p]]
        /\ fdt'[p][f].inode = Inode[name[p]] /\ fdt'[p][f].pos = fdt[p][f].pos
        /\ \A g \in Fds \ {f} : fdt'[p][g] = fdt[p][g]
    <3>1. fdt'[p][f] = WithOps(fdt[p][f], Type[name[p]])
          /\ \A g \in Fds \ {f} : fdt'[p][g] = fdt[p][g]
      BY <2>1, <2>2, Stored
    <3> QED BY <1>2, <2>1, <2>3, <3>1, OpsEntry
  <2>9. HeldInv(p)'
    <3>1. HeldInv(p)
      BY DEF ProcInv
    <3> HIDE DEF IInv
    <3> QED BY <1>2, <2>3, <2>6, <2>7, <2>8, <3>1 DEF HeldInv, InUse
  <2>10. UniqueInv(p)'
    <3>1. UniqueInv(p)
      BY DEF ProcInv
    <3> HIDE DEF IInv
    <3> QED BY <1>2, <2>3, <2>6, <2>8, <3>1 DEF UniqueInv, InUse
  <2>11. PosInv(p)'
    <3>1. Inode[name[p]] \in DOMAIN Size /\ Size[Inode[name[p]]] \in Nat
      BY <1>2, FdAssumption
    <3>2. fdt[p][f].pos <= DirCount
      BY <2>1, <2>3, <2>5 DEF ProcInv, PosInv
    <3> QED BY <1>2, <2>3, <2>4, <2>6, <2>7, <2>8, <3>1, <3>2 DEF ProcInv, PosInv
  <2> QED BY <1>3, <2>9, <2>10, <2>11 DEF ProcInv
<1> QED BY <1>4, <1>5

\* A descriptor in use whose operations are those of a file or of the directory
\* is held, by a name of that type, unless it is being opened.
LEMMA InUseIsHeld ==
    ASSUME IInv, NEW p \in Procs, NEW f \in Fds, InUse(p, f), ~Taken(p, f),
           fdt[p][f].ops \in {"file", "dir"}
    PROVE  /\ f \notin Std /\ held[p][f] \in Names /\ held[p][f] # NoName
           /\ Type[held[p][f]] = fdt[p][f].ops
           /\ fdt[p][f].inode = Inode[held[p][f]]
           /\ fdt[p][f].pos = delivered[p][f]
           /\ fdt[p][f].ops = "file" => fdt[p][f].pos <= Size[fdt[p][f].inode]
           /\ fdt[p][f].ops = "dir" => fdt[p][f].pos <= DirCount
<1>1. HeldInv(p) /\ PosInv(p) /\ held[p][f] \in Names \cup {NoName}
  BY DEF IInv, ProcInv, TypeInv
<1>2. f \notin Std /\ held[p][f] # NoName
  BY <1>1 DEF HeldInv
<1>3. Type[held[p][f]] = fdt[p][f].ops /\ fdt[p][f].inode = Inode[held[p][f]]
  BY <1>1, <1>2 DEF HeldInv
<1> QED BY <1>1, <1>2, <1>3 DEF PosInv

\* The first steps of a call, and a read up to the end of its copy.
LEMMA BeginInv ==
    ASSUME IInv, NEW p \in Procs,
           OtherCall(p) \/ ReadBegin(p) \/ CloseBegin(p) \/ FileCopy(p)
    PROVE  ProcInv(p)'
<1> USE DEF IInv, TypeInv, TypeOK, Turn, Goto, globals, locals, ghosts
<1>1. CASE OtherCall(p)
  BY <1>1, Undisturbed DEF OtherCall
<1>2. CASE ReadBegin(p)
  <2>1. PICK f \in Fds, len \in Lengths : ReadBegin(p)!(f, len)
    BY <1>2 DEF ReadBegin
  <2>2. HeldInv(p)' /\ UniqueInv(p)' /\ PosInv(p)'
    BY <2>1, SameTable DEF CallBegin
  <2>3. CallInv(p)'
    BY <2>1 DEF CallBegin, CallInv, Opening
  <2> QED BY <2>2, <2>3 DEF ProcInv
<1>3. CASE CloseBegin(p)
  <2>1. PICK f \in Fds : CloseBegin(p)!(f)
    BY <1>3 DEF CloseBegin
  <2>2. HeldInv(p)' /\ UniqueInv(p)' /\ PosInv(p)'
    BY <2>1, SameTable DEF CallBegin
  <2>3. CallInv(p)'
    BY <2>1 DEF CallBegin, CallInv, Opening
  <2> QED BY <2>2, <2>3 DEF ProcInv
<1>4. CASE FileCopy(p)
  <2> DEFINE e == fdt[p][fd[p]]
  <2>1. pc[p] = "copy" /\ curr_pcb = p /\ fd[p] \in Fds /\ e \in Entries /\ e.ops = "file"
        /\ UNCHANGED << fdt, held, delivered >>
    BY <1>4, Caller DEF FileCopy, ProcInv, CallInv, Working
  <2>2. CASE e.flags = 0 \/ e.inode = None
    <3>1. pc'[p] = "idle" /\ fd'[p] = None
      BY <1>4, <2>1, <2>2 DEF FileCopy, Return
    <3>2. CallInv(p)'
      BY <3>1 DEF CallInv, Opening
    <3>3. HeldInv(p)' /\ UniqueInv(p)' /\ PosInv(p)'
      BY <2>1, <3>1, SameTable
    <3> QED BY <3>2, <3>3 DEF ProcInv
  <2>3. CASE ~(e.flags = 0 \/ e.inode = None)
    <3>1. pc'[p] = "advance" /\ fd' = fd /\ n' = [n EXCEPT ![p] = Copied(e, n[p])]
      BY <1>4, <2>1, <2>3 DEF FileCopy
    <3>2. n'[p] = Copied(e, n[p])
      BY <3>1
    <3>3. InUse(p, fd[p]) /\ ~Taken(p, fd[p])
      BY <2>1, <2>3 DEF InUse, Taken, Entries
    <3>4. e.pos <= Size[e.inode]
      BY <2>1, <3>3, InUseIsHeld
    <3>5. e.pos + Copied(e, n[p]) <= Size[e.inode]
      BY <2>1, <2>3, <3>4, CopiedType
    <3>6. CallInv(p)'
      BY <2>1, <3>1, <3>2, <3>3, <3>5 DEF CallInv, Opening, InUse
    <3>7. HeldInv(p)' /\ UniqueInv(p)' /\ PosInv(p)'
      BY <2>1, <3>1, SameTable
    <3> QED BY <3>6, <3>7 DEF ProcInv
  <2> QED BY <2>2, <2>3
<1> QED BY <1>1, <1>2, <1>3, <1>4

\* The end of a read: k bytes or entries more, of the position and delivered.
LEMMA AdvancedInv ==
    ASSUME IInv, NEW p \in Procs, NEW f \in Fds, NEW k \in Nat,
           InUse(p, f), ~Taken(p, f), pc[p] # "ops",
           pc'[p] = "idle", fd'[p] = None, held' = held,
           Set(p, f, Moved(fdt[p][f], k)),
           delivered' = [delivered EXCEPT ![p][f] = @ + k],
           \/ fdt[p][f].ops = "file" /\ fdt[p][f].pos + k <= Size[fdt[p][f].inode]
           \/ fdt[p][f].ops = "dir" /\ fdt[p][f].pos + k <= DirCount
    PROVE  ProcInv(p)'
<1> USE DEF IInv, TypeInv, TypeOK
<1>1. HeldInv(p) /\ UniqueInv(p) /\ PosInv(p) /\ fdt[p][f] \in Entries
  BY DEF ProcInv
<1>2. /\ f \notin Std /\ held[p][f] # NoName
      /\ Type[held[p][f]] = fdt[p][f].ops /\ fdt[p][f].inode = Inode[held[p][f]]
      /\ fdt[p][f].pos = delivered[p][f]
  BY InUseIsHeld
<1>3. /\ fdt'[p][f].flags = fdt[p][f].flags /\ fdt'[p][f].ops = fdt[p][f].ops
      /\ fdt'[p][f].inode = fdt[p][f].inode /\ fdt'[p][f].pos = fdt[p][f].pos + k
      /\ \A g \in Fds \ {f} : fdt'[p][g] = fdt[p][g]
  <2>1. fdt'[p][f] = Moved(fdt[p][f], k) /\ \A g \in Fds \ {f} : fdt'[p][g] = fdt[p][g]
    BY Stored
  <2> HIDE DEF IInv, TypeInv
  <2> QED BY <1>1, <2>1, MovedEntry
<1>4. /\ delivered'[p][f] = delivered[p][f] + k
      /\ \A g \in Fds \ {f} : delivered'[p][g] = delivered[p][g]
  OBVIOUS
<1>5. \A g \in Fds : ~Taken(p, g) /\ ~Taken(p, g)'
  BY DEF Taken
<1> HIDE DEF IInv
<1>6. CallInv(p)'
  BY DEF CallInv, Opening
<1>7. HeldInv(p)'
  BY <1>1, <1>3, <1>5 DEF HeldInv, InUse
<1>8. UniqueInv(p)'
  BY <1>1, <1>3, <1>5 DEF UniqueInv, InUse
<1>9. PosInv(p)'
  <2>1. fdt'[p][f].pos = delivered'[p][f]
    BY <1>2, <1>3, <1>4
  <2>2. IF Type[held[p][f]] = "file" THEN fdt'[p][f].pos <= Size[Inode[held[p][f]]]
                                     ELSE fdt'[p][f].pos <= DirCount
    BY <1>2, <1>3
  <2> QED BY <1>1, <1>2, <1>3, <1>4, <1>5, <2>1, <2>2 DEF PosInv
<1> QED BY <1>6, <1>7, <1>8, <1>9 DEF ProcInv

\* The end of a read of a file or of the directory.
LEMMA ReadEndInv ==
    ASSUME IInv, NEW p \in Procs, FileAdvance(p) \/ DirEntry(p)
    PROVE  ProcInv(p)'
<1> USE DEF IInv, TypeInv, TypeOK
<1> DEFINE e == fdt[p][fd[p]]
<1>1. pc[p] \in {"advance", "entry"} /\ pc'[p] = "idle" /\ fd'[p] = None /\ held' = held
  BY DEF FileAdvance, DirEntry, Turn, Return, Goto
<1>2. curr_pcb = p /\ fd[p] \in Fds /\ e \in Entries /\ ~Taken(p, fd[p])
  BY <1>1, Caller DEF Taken, Working
<1>3. CASE FileAdvance(p)
  <2>1. e.ops = "file" /\ InUse(p, fd[p]) /\ e.pos + n[p] <= Size[e.inode]
    BY <1>3 DEF FileAdvance, Turn, ProcInv, CallInv
  <2>2. Set(p, fd[p], Moved(e, n[p])) /\ delivered' = [delivered EXCEPT ![p][fd[p]] = @ + n[p]]
    BY <1>2, <1>3 DEF FileAdvance
  <2> QED BY <1>1, <1>2, <2>1, <2>2, AdvancedInv
<1>4. CASE DirEntry(p)
  <2>1. pc[p] = "entry" /\ e.ops = "dir"
    BY <1>4 DEF DirEntry, Turn, ProcInv, CallInv
  <2>2. CASE e.flags = 0 \/ e.pos >= DirCount
    <3>1. fdt' = fdt /\ delivered' = delivered
      BY <1>2, <1>4, <2>2 DEF DirEntry
    <3>2. HeldInv(p)' /\ UniqueInv(p)' /\ PosInv(p)'
      BY <1>1, <3>1, SameTable
    <3>3. CallInv(p)'
      BY <1>1 DEF CallInv, Opening
    <3> QED BY <3>2, <3>3 DEF ProcInv
  <2>3. CASE ~(e.flags = 0 \/ e.pos >= DirCount)
    <3>1. Set(p, fd[p], Moved(e, 1)) /\ delivered' = [delivered EXCEPT ![p][fd[p]] = @ + 1]
      BY <1>2, <1>4, <2>3 DEF DirEntry
    <3>2. InUse(p, fd[p]) /\ e.pos + 1 <= DirCount
      BY <1>2, <2>3, FdAssumption DEF InUse, Entries
    <3> QED BY <1>1, <1>2, <2>1, <3>1, <3>2, AdvancedInv
  <2> QED BY <2>2, <2>3
<1> QED BY <1>3, <1>4

\* close: the descriptor is free, and its holder holds it no more.
LEMMA CloseInv ==
    ASSUME IInv, NEW p \in Procs, CloseEnd(p)
    PROVE  ProcInv(p)'
<1> USE DEF IInv, TypeInv, TypeOK
<1> DEFINE f == fd[p]
           e == fdt[p][f]
           v == IF e.ops = "file" THEN 0 ELSE delivered[p][f]
<1>1. pc[p] = "close" /\ pc'[p] = "idle" /\ fd'[p] = None
  BY DEF CloseEnd, Turn, Return, Goto
<1>2. curr_pcb = p /\ f \in Fds /\ e \in Entries /\ e.ops \in {"file", "dir"}
  BY <1>1, Caller DEF Working, ProcInv, CallInv
<1>3. CallInv(p)'
  BY <1>1 DEF CallInv, Opening
<1>4. CASE e.flags = 0
  <2>1. fdt' = fdt /\ held' = held /\ delivered' = delivered
    BY <1>2, <1>4 DEF CloseEnd, bitmap_open
  <2>2. HeldInv(p)' /\ UniqueInv(p)' /\ PosInv(p)'
    BY <1>1, <2>1, SameTable
  <2> QED BY <1>3, <2>2 DEF ProcInv
<1>5. CASE e.flags # 0
  <2>1. /\ Set(p, f, Closed(e.ops, e))
        /\ held' = [held EXCEPT ![p][f] = NoName]
        /\ delivered' = [delivered EXCEPT ![p] = [delivered[p] EXCEPT ![f] = v]]
    BY <1>2, <1>5 DEF CloseEnd, bitmap_open
  <2>2. InUse(p, f) /\ ~Taken(p, f)
    BY <1>1, <1>2, <1>5 DEF InUse, Taken, Entries
  <2>3. f \notin Std /\ e.pos = delivered[p][f] /\ (e.ops = "dir" => e.pos <= DirCount)
    BY <1>2, <2>2, InUseIsHeld
  <2>4. v = (IF e.ops = "file" THEN 0 ELSE e.pos) /\ v <= DirCount
    BY <1>2, <2>3, FdAssumption
  <2>5. HeldInv(p) /\ UniqueInv(p) /\ PosInv(p)
    BY DEF ProcInv
  <2>6. \A g \in Fds : ~Taken(p, g) /\ ~Taken(p, g)'
    BY <1>1 DEF Taken
  <2> HIDE DEF f, e, v
  <2>7. /\ held'[p][f] = NoName /\ delivered'[p][f] = v
        /\ \A g \in Fds \ {f} : held'[p][g] = held[p][g] /\ delivered'[p][g] = delivered[p][g]
    BY <1>2, <2>1
  <2>8. /\ fdt'[p][f].flags = 0 /\ fdt'[p][f].ops = e.ops /\ fdt'[p][f].pos = v
        /\ \A g \in Fds \ {f} : fdt'[p][g] = fdt[p][g]
    <3>1. fdt'[p][f] = Closed(e.ops, e) /\ \A g \in Fds \ {f} : fdt'[p][g] = fdt[p][g]
      BY <1>2, <2>1, Stored
    <3> QED BY <1>2, <2>4, <3>1, ClosedEntry
  <2> HIDE DEF IInv
  <2>9. HeldInv(p)'
    BY <2>3, <2>5, <2>6, <2>7, <2>8 DEF HeldInv, InUse
  <2>10. UniqueInv(p)'
    BY <2>5, <2>6, <2>8 DEF UniqueInv, InUse
  <2>11. PosInv(p)'
    BY <2>4, <2>5, <2>6, <2>7, <2>8 DEF PosInv
  <2> QED BY <1>3, <2>9, <2>10, <2>11 DEF ProcInv
<1> QED BY <1>4, <1>5

\* The close of the clock.
LEMMA CloseRtcInv ==
    ASSUME IInv, NEW p \in Procs, CloseRtc(p)
    PROVE  ProcInv(p)'
<1> USE DEF IInv, TypeInv, TypeOK
<1>1. PICK f \in Fds : CloseRtc(p)!(f)
  BY DEF CloseRtc
<1>2. /\ pc[p] = "idle" /\ pc' = pc /\ fd' = fd /\ fdt' = fdt /\ delivered' = delivered
      /\ fdt[p][f].ops = "rtc" /\ held' = [held EXCEPT ![p][f] = NoName]
  BY <1>1 DEF Turn, locals
<1>3. HeldInv(p) /\ UniqueInv(p) /\ PosInv(p)
  BY DEF ProcInv
<1>4. \A g \in Fds : ~Taken(p, g) /\ ~Taken(p, g)'
  BY <1>2 DEF Taken
<1>5. held'[p][f] = NoName /\ \A g \in Fds \ {f} : held'[p][g] = held[p][g]
  BY <1>2
<1>6. CallInv(p)'
  BY <1>2 DEF ProcInv, CallInv, Opening
<1>7. held[p][f] # NoName => Type[held[p][f]] = "rtc"
  BY <1>2, <1>3 DEF HeldInv
<1> HIDE DEF IInv
<1>8. HeldInv(p)'
  BY <1>2, <1>3, <1>4, <1>5 DEF HeldInv, InUse
<1>9. UniqueInv(p)'
  BY <1>2, <1>3, <1>4 DEF UniqueInv, InUse
<1>10. PosInv(p)'
  BY <1>2, <1>3, <1>4, <1>5, <1>7 DEF PosInv
<1> QED BY <1>6, <1>8, <1>9, <1>10 DEF ProcInv

\* A new process: create_pcb leaves only 0 and 1 in use.
LEMMA FreshInv ==
    ASSUME NEW p \in Procs, NEW old, pc'[p] = "idle", fd'[p] = None,
           fdt'[p] = create_pcb(old),
           held'[p] = [f \in Fds |-> NoName], delivered'[p] = [f \in Fds |-> 0]
    PROVE  ProcInv(p)'
<1>1. \A f \in Fds : ~Taken(p, f)' /\ held'[p][f] = NoName /\ delivered'[p][f] = 0
  BY DEF Taken
<1>2. \A f \in Fds : /\ fdt'[p][f].pos = 0
                     /\ f \in Std => fdt'[p][f].flags = 1 /\ fdt'[p][f].ops = "terminal"
                     /\ f \notin Std => fdt'[p][f].flags = 0
  BY DEF create_pcb
<1>3. CallInv(p)'
  BY DEF CallInv, Opening
<1>4. HeldInv(p)'
  BY <1>1, <1>2 DEF HeldInv, InUse
<1>5. UniqueInv(p)'
  BY <1>2 DEF UniqueInv, InUse
<1>6. PosInv(p)'
  BY <1>1, <1>2, FdAssumption DEF PosInv
<1> QED BY <1>3, <1>4, <1>5, <1>6 DEF ProcInv

\* The table of a process that an execute creates anew.
LEMMA ReplacedInv ==
    ASSUME IInv, NEW p \in Procs, Replaced(p)
    PROVE  ProcInv(p)'
<1>1. /\ pc[p] = "idle" /\ pc' = pc /\ fd' = fd
      /\ fdt'[p] = create_pcb(fdt[p])
      /\ held'[p] = [f \in Fds |-> NoName] /\ delivered'[p] = [f \in Fds |-> 0]
  BY DEF IInv, TypeInv, TypeOK, Replaced, Turn, locals
<1>2. fd'[p] = None
  BY <1>1 DEF IInv, ProcInv, CallInv
<1> QED BY <1>1, <1>2, FreshInv

\* Every step of a system call keeps what each process knows of its descriptors.
LEMMA InvNext ==
    ASSUME IInv, [Next]_vars, Preempt = FALSE
    PROVE  IInv'
<1>1. CASE Next
  <2>1. PICK p \in Procs : Step(p)
    BY <1>1 DEF Next
  <2>2. TypeInv'
    BY <2>1, TypeStep DEF IInv
  <2>3. /\ \A q \in Procs \ {p} :
              /\ pc[q] = "idle"
              /\ pc'[q] = pc[q] /\ fd'[q] = fd[q]
              /\ fdt'[q] = fdt[q] /\ held'[q] = held[q] /\ delivered'[q] = delivered[q]
        /\ curr_pcb' = p \/ pc'[p] = "idle"
    BY <2>1, StepLocal DEF IInv
  <2>4. BusyIsCurrent'
    BY <2>3 DEF BusyIsCurrent
  <2>5. ProcInv(p)'
    BY <2>1, OpenRtcInv, OpenScanInv, OpenTakeInv, OpenOpsInv, BeginInv, ReadEndInv,
       CloseInv, CloseRtcInv, ReplacedInv DEF Step, Replace, CallNull
  <2>6. ASSUME NEW q \in Procs \ {p} PROVE ProcInv(q)'
    BY <2>3, Undisturbed DEF IInv
  <2> QED BY <2>2, <2>4, <2>5, <2>6 DEF IInv
<1>2. CASE UNCHANGED vars
  BY <1>2 DEF vars, globals, locals, ghosts, IInv, TypeInv, TypeOK, BusyIsCurrent,
              ProcInv, CallInv, HeldInv, UniqueInv, PosInv, InUse, Taken
<1> QED BY <1>1, <1>2

\* At boot no call is in progress and no descriptor is held.
LEMMA InvInit == Init => IInv
<1> SUFFICES ASSUME Init PROVE IInv
  OBVIOUS
<1>1. BusyIsCurrent
  BY DEF Init, BusyIsCurrent
<1>2. ASSUME NEW p \in Procs PROVE ProcInv(p)
  <2>1. /\ pc[p] = "idle" /\ fd[p] = None
        /\ \A f \in Fds : ~Taken(p, f) /\ held[p][f] = NoName /\ delivered[p][f] = 0
    BY DEF Init, Taken
  <2>2. \A f \in Fds : /\ fdt[p][f].pos = 0
                       /\ f \in Std => fdt[p][f].flags = 1 /\ fdt[p][f].ops = "terminal"
                       /\ f \notin Std => fdt[p][f].flags = 0
    BY DEF Init, create_pcb
  <2>3. CallInv(p)
    BY <2>1 DEF CallInv, Opening
  <2>4. HeldInv(p)
    BY <2>1, <2>2 DEF HeldInv, InUse
  <2>5. UniqueInv(p)
    BY <2>2 DEF UniqueInv, InUse
  <2>6. PosInv(p)
    BY <2>1, <2>2, FdAssumption DEF PosInv
  <2> QED BY <2>3, <2>4, <2>5, <2>6 DEF ProcInv
<1> QED BY <1>1, <1>2, TypeInit DEF IInv

-----------------------------------------------------------------------------
(* The theorems *)

\* When ticks stay outside of system calls, a descriptor that a program holds is
\* in use with the operations and the inode of the name it opened, and one of a
\* file or of the directory that nobody holds is free, after any sequence of
\* opens, closes, failed opens and new processes in the slot.
THEOREM HeldIsFaithful ==
    ASSUME Preempt = FALSE
    PROVE  Spec => []HeldFaithful
<1>1. IInv => HeldFaithful
  <2> SUFFICES ASSUME IInv, NEW p \in Procs, NEW f \in Fds \ Std
               PROVE  HeldFaithful!(p, f)
    BY DEF HeldFaithful
  <2> QED BY DEF IInv, ProcInv, HeldInv, Taken
<1> QED BY InvInit, InvNext, <1>1, PTL DEF Spec

\* When ticks stay outside of system calls, no process has a file open on two
\* descriptors, though an open stores the inode before the operations and though
\* file_open compares inode numbers that names of other types may share.
THEOREM NotOpenTwice ==
    ASSUME Preempt = FALSE
    PROVE  Spec => []NoFileTwice
<1>1. IInv => NoFileTwice
  BY DEF IInv, ProcInv, UniqueInv, NoFileTwice, Taken
<1> QED BY InvInit, InvNext, <1>1, PTL DEF Spec

\* When ticks stay outside of system calls, the position of a held descriptor is
\* the number of bytes or entries its holder was given, and is never past the end.
THEOREM DeliveredInOrder ==
    ASSUME Preempt = FALSE
    PROVE  Spec => []ReadsInOrder
<1>1. IInv => ReadsInOrder
  <2> SUFFICES ASSUME IInv, NEW p \in Procs, NEW f \in Fds \ Std, held[p][f] # NoName,
                      Type[held[p][f]] # "rtc"
               PROVE  /\ fdt[p][f].pos = delivered[p][f]
                      /\ fdt[p][f].pos <= IF Type[held[p][f]] = "file"
                                          THEN Size[Inode[held[p][f]]] ELSE DirCount
    BY DEF ReadsInOrder
  <2>1. PosInv(p) /\ CallInv(p)
    BY DEF IInv, ProcInv
  <2>2. ~Taken(p, f)
    BY <2>1, FdAssumption DEF CallInv, Taken, Fds, None
  <2> QED BY <2>1, <2>2 DEF PosInv
<1> QED BY InvInit, InvNext, <1>1, PTL DEF Spec
=============================================================================
