------------------------------- MODULE FdTable -------------------------------
(***************************************************************************)
(* File descriptors: system_open, system_read, system_write, system_close  *)
(* of student-distrib/syscall.c over the file, directory and rtc           *)
(* operations of filesys.c and rtc.c.                                      *)
(*                                                                         *)
(* filesys.c keeps the process it works for in a global, curr_pcb, and the *)
(* directory entry it last looked up in another, cur_dentry.  System calls *)
(* run with interrupts on, so a call is split where another process's call *)
(* may run: after each store to a global and around read_data's copy loop. *)
(***************************************************************************)
EXTENDS Integers, FiniteSetsExt

CONSTANTS Procs,     \* the slots of the processes whose calls interleave
          NumFds,    \* MAX_FILES
          Names,     \* the names in the boot block
          Opens,     \* Opens[p]: the names the program of p opens
          Type,      \* Type[n]: "rtc", "dir" or "file"; the one directory is
                     \* the first entry, the only name dir_open lets pass
          Inode,     \* Inode[n]
          Size,      \* Size[i]: the length of inode i
          DirCount,  \* boot_block->dir_count
          Lengths,   \* the nbytes that programs ask for
          Preempt    \* whether a timer tick falls inside a system call

ASSUME FdAssumption ==
    /\ NumFds \in Nat /\ 2 < NumFds
    /\ DirCount \in Nat
    /\ Opens \in [Procs -> SUBSET Names]
    /\ Type \in [Names -> {"rtc", "dir", "file"}]
    /\ \A a, b \in Names : Type[a] = "dir" /\ Type[b] = "dir" => a = b
    /\ DOMAIN Size \subseteq Nat /\ Size \in [DOMAIN Size -> Nat]
    /\ Inode \in [Names -> DOMAIN Size]
    /\ Lengths \subseteq Nat
    /\ Preempt \in BOOLEAN
    /\ "none" \notin Names

Fds  == 0 .. NumFds - 1
Std  == {0, 1}
None == -1
NoName == "none"

VARIABLES fdt,         \* fdt[p][fd]: the descriptors in the PCB of p
          curr_pcb,    \* the global of filesys.c
          cur_dentry,  \* the name of the entry it last looked up
          pc,          \* where the system call of p is
          name,        \* open: the name asked for
          fd,          \* the descriptor the call works on; its result for open
          n,           \* read: nbytes, then the bytes copied
          eflags,      \* the flags in the frame p entered the kernel with: its
                       \* "own", or "table", the address of an operations table
          held,        \* held[p][f]: the name p believes f stands for
          delivered    \* delivered[p][f]: bytes or entries read from it

globals == << curr_pcb, cur_dentry >>
locals  == << name, fd, n >>
ghosts  == << held, delivered >>
vars    == << fdt, globals, pc, locals, eflags, ghosts >>

Entries == [ops : {"terminal", "rtc", "dir", "file", "null"},
            inode : DOMAIN Size \cup {None}, pos : Nat, flags : {0, 1}]

create_pcb_NoPos(old) ==
    [f \in Fds |-> [ops   |-> IF f \in Std THEN "terminal" ELSE old[f].ops,
                    inode |-> None,
                    pos   |-> None,
                    flags |-> IF f \in Std THEN 1 ELSE 0]]

\* create_pcb: the tables of descriptors 2 and up are those the last process of
\* the slot left there.
create_pcb(old) ==
    [f \in Fds |-> [ops   |-> IF f \in Std THEN "terminal" ELSE old[f].ops,
                    inode |-> None,
                    pos   |-> 0,
                    flags |-> IF f \in Std THEN 1 ELSE 0]]

Blank == [f \in Fds |-> [ops |-> "null", inode |-> None, pos |-> 0, flags |-> 0]]

Init ==
    /\ fdt = [p \in Procs |-> create_pcb(Blank)]
    /\ curr_pcb \in Procs
    /\ cur_dentry = NoName
    /\ pc = [p \in Procs |-> "idle"]
    /\ name = [p \in Procs |-> NoName]
    /\ fd = [p \in Procs |-> None]
    /\ n = [p \in Procs |-> 0]
    /\ eflags = [p \in Procs |-> "own"]
    /\ held = [p \in Procs |-> [f \in Fds |-> NoName]]
    /\ delivered = [p \in Procs |-> [f \in Fds |-> 0]]

-----------------------------------------------------------------------------
\* The next step of p's call may run now.
Turn(p, where) ==
    /\ pc[p] = where
    /\ Preempt \/ \A q \in Procs \ {p} : pc[q] = "idle"

Goto(p, where) == pc' = [pc EXCEPT ![p] = where]

\* A call ends; its locals are dead.
Return(p) ==
    /\ Goto(p, "idle")
    /\ name' = [name EXCEPT ![p] = NoName]
    /\ fd' = [fd EXCEPT ![p] = None]
    /\ n' = [n EXCEPT ![p] = 0]

set_filesys_pcb_Dropped(p) == UNCHANGED curr_pcb
set_filesys_pcb(p)         == curr_pcb' = p

\* bitmap_open: the descriptor is not in use.
bitmap_open(f) == fdt[curr_pcb][f].flags = 0

FreeFds(p, from) == {f \in from .. NumFds - 1 : fdt[p][f].flags = 0}

\* The entry below descriptor 0 of p: its f_ops is the word 16 bytes below the
\* PCB, and the kernel stack of slot p + 1 begins 4 bytes below the PCB, with SS,
\* ESP and EFLAGS of the program it interrupts.
BelowTable(p) ==
    eflags' = [q \in Procs |-> IF q = p + 1 THEN "table" ELSE eflags[q]]

\* Stores to one descriptor of a process: its operations, its position.
Set(p, f, entry) == fdt' = [fdt EXCEPT ![p][f] = entry]

WithOps(e, ops) == [e EXCEPT !.ops = ops]
Moved(e, k)     == [e EXCEPT !.pos = @ + k]

-----------------------------------------------------------------------------
(* system_open *)

\* fill_open_fd: the inode and the position stay.
RtcOpened(e) == [e EXCEPT !.flags = 1, !.ops = "rtc"]

\* The rtc takes a descriptor in one step.
OpenRtc(p) ==
    \E nm \in Opens[p] :
    /\ Turn(p, "idle")
    /\ Type[nm] = "rtc"
    /\ set_filesys_pcb(p)
    /\ LET free == FreeFds(p, 2)
           f    == Min(free)
       IN  IF free = {} THEN UNCHANGED << fdt, held >>
           ELSE /\ Set(p, f, RtcOpened(fdt[p][f]))
                /\ held' = [held EXCEPT ![p][f] = nm]
    /\ UNCHANGED << cur_dentry, pc, locals, eflags, delivered >>

OpenBegin(p) ==
    \E nm \in Opens[p] :
    /\ Turn(p, "idle")
    /\ Type[nm] # "rtc"
    /\ set_filesys_pcb(p)
    /\ Goto(p, "lookup")
    /\ name' = [name EXCEPT ![p] = nm]
    /\ UNCHANGED << fdt, cur_dentry, fd, n, eflags, ghosts >>

\* read_dentry_by_name fills cur_dentry.
OpenLookup(p) ==
    /\ Turn(p, "lookup")
    /\ cur_dentry' = name[p]
    /\ Goto(p, "check")
    /\ UNCHANGED << fdt, curr_pcb, locals, eflags, ghosts >>

AlreadyOpen_Never == FALSE

\* file_open's scan for a descriptor in use with the inode.
AlreadyOpen ==
    \E f \in Fds : ~bitmap_open(f) /\ fdt[curr_pcb][f].inode = Inode[cur_dentry]

\* The checks of file_open and dir_open on the entry in cur_dentry.
Accepted(p) ==
    IF Type[name[p]] = "dir" THEN Type[cur_dentry] = "dir"
    ELSE Type[cur_dentry] # "dir" /\ ~AlreadyOpen

OpenCheck(p) ==
    /\ Turn(p, "check")
    /\ Goto(p, IF Accepted(p) THEN "take" ELSE "ops")
    /\ UNCHANGED << fdt, globals, locals, eflags, ghosts >>

Opened_KeepsPos(p, e) == [e EXCEPT !.flags = 1, !.inode = Inode[cur_dentry]]

\* file_open zeroes the position, dir_open does not.
Opened(p, e) ==
    [e EXCEPT !.flags = 1, !.inode = Inode[cur_dentry],
              !.pos = IF Type[name[p]] = "file" THEN 0 ELSE @]

\* The first descriptor of curr_pcb that is not in use.
OpenTake(p) ==
    /\ Turn(p, "take")
    /\ LET free == FreeFds(curr_pcb, 0)
           f    == Min(free)
       IN  IF free = {} THEN UNCHANGED << fdt, fd >>
           ELSE /\ Set(curr_pcb, f, Opened(p, fdt[curr_pcb][f]))
                /\ fd' = [fd EXCEPT ![p] = f]
    /\ Goto(p, "ops")
    /\ UNCHANGED << globals, name, n, eflags, ghosts >>

\* system_open stores the operations table at fdt[fd], also when fd is -1.
OpenOps(p) ==
    /\ Turn(p, "ops")
    /\ IF fd[p] = None
         THEN BelowTable(p) /\ UNCHANGED << fdt, held, delivered >>
         ELSE /\ Set(p, fd[p], WithOps(fdt[p][fd[p]], Type[name[p]]))
              /\ held' = [held EXCEPT ![p][fd[p]] = name[p]]
              /\ delivered' = [delivered EXCEPT ![p][fd[p]] =
                                   IF Type[name[p]] = "file" THEN 0 ELSE @]
              /\ UNCHANGED eflags
    /\ Return(p)
    /\ UNCHANGED globals

-----------------------------------------------------------------------------
(* system_read, system_write, system_close: dispatch on the table *)

\* The terminal, the rtc and every write: no descriptor changes.
OtherCall(p) ==
    /\ Turn(p, "idle")
    /\ curr_pcb # p
    /\ set_filesys_pcb(p)
    /\ UNCHANGED << fdt, cur_dentry, pc, locals, eflags, ghosts >>

CallBegin(p, where, f) ==
    /\ Turn(p, "idle")
    /\ set_filesys_pcb(p)
    /\ Goto(p, where)
    /\ fd' = [fd EXCEPT ![p] = f]
    /\ UNCHANGED << fdt, cur_dentry, name, eflags, ghosts >>

ReadBegin(p) ==
    \E f \in Fds, len \in Lengths :
    /\ fdt[p][f].ops \in {"file", "dir"}
    /\ CallBegin(p, IF fdt[p][f].ops = "file" THEN "copy" ELSE "entry", f)
    /\ n' = [n EXCEPT ![p] = len]

Least2(a, b) == IF a < b THEN a ELSE b

\* What read_data copies: nothing past the end of the inode.
Copied(e, len) ==
    LET left == Size[e.inode] - e.pos
    IN  IF left < 0 THEN 0 ELSE Least2(Least2(len, Size[e.inode]), left)

\* file_read up to the end of read_data's loop.
FileCopy(p) ==
    /\ Turn(p, "copy")
    /\ LET e == fdt[curr_pcb][fd[p]]
       IN  IF e.flags = 0 \/ e.inode = None THEN Return(p)
           ELSE /\ n' = [n EXCEPT ![p] = Copied(e, @)]
                /\ Goto(p, "advance")
                /\ UNCHANGED << name, fd >>
    /\ UNCHANGED << fdt, globals, eflags, ghosts >>

\* ... and its update of the position.
FileAdvance(p) ==
    /\ Turn(p, "advance")
    /\ Set(curr_pcb, fd[p], Moved(fdt[curr_pcb][fd[p]], n[p]))
    /\ delivered' = [delivered EXCEPT ![p][fd[p]] = @ + n[p]]
    /\ Return(p)
    /\ UNCHANGED << globals, eflags, held >>

\* dir_read: one entry, and the position moves until it is dir_count.
DirEntry(p) ==
    /\ Turn(p, "entry")
    /\ LET e == fdt[curr_pcb][fd[p]]
       IN  IF e.flags = 0 \/ e.pos >= DirCount THEN UNCHANGED << fdt, delivered >>
           ELSE /\ Set(curr_pcb, fd[p], Moved(e, 1))
                /\ delivered' = [delivered EXCEPT ![p][fd[p]] = @ + 1]
    /\ Return(p)
    /\ UNCHANGED << globals, eflags, held >>

CloseBegin(p) ==
    \E f \in Fds :
    /\ fdt[p][f].ops \in {"file", "dir"}
    /\ CallBegin(p, "close", f)
    /\ UNCHANGED n

Closed_StaysInUse(ops, e) == e

\* What the close of the caller's table leaves of the entry it finds: file_close
\* zeroes the position, dir_close does not.
Closed(ops, e) == [e EXCEPT !.flags = 0, !.pos = IF ops = "file" THEN 0 ELSE @]

CloseEnd(p) ==
    /\ Turn(p, "close")
    /\ IF bitmap_open(fd[p]) THEN UNCHANGED << fdt, held, delivered >>
       ELSE /\ Set(curr_pcb, fd[p], Closed(fdt[p][fd[p]].ops, fdt[curr_pcb][fd[p]]))
            /\ held' = [held EXCEPT ![p][fd[p]] = NoName]
            /\ delivered' = [delivered EXCEPT ![p][fd[p]] =
                                 IF fdt[p][fd[p]].ops = "file" THEN 0 ELSE @]
    /\ Return(p)
    /\ UNCHANGED << globals, eflags >>

\* rtc_close returns 0 and does nothing.
CloseRtc(p) ==
    \E f \in Fds :
    /\ Turn(p, "idle")
    /\ fdt[p][f].ops = "rtc"
    /\ set_filesys_pcb(p)
    /\ held' = [held EXCEPT ![p][f] = NoName]
    /\ UNCHANGED << fdt, cur_dentry, pc, locals, eflags, delivered >>

\* The process halts and another one is executed in its slot, with a new frame.
Replaced(p) ==
    /\ Turn(p, "idle")
    /\ fdt' = [fdt EXCEPT ![p] = create_pcb(@)]
    /\ eflags' = [eflags EXCEPT ![p] = "own"]
    /\ held' = [held EXCEPT ![p] = [f \in Fds |-> NoName]]
    /\ delivered' = [delivered EXCEPT ![p] = [f \in Fds |-> 0]]
    /\ UNCHANGED << cur_dentry, pc, locals >>

Replace(p) == Replaced(p) /\ UNCHANGED curr_pcb

\* A call on a descriptor that the slot never had open goes through a null table:
\* the page fault halts the process.  (That is so until a tick that switches tasks
\* or a vidmap makes page 0 present; from then on the call jumps to what the table
\* read from there holds, which the source does not define and is left out.)
CallNull(p) ==
    /\ \E f \in Fds : fdt[p][f].ops = "null"
    /\ Replaced(p)
    /\ set_filesys_pcb(p)

Step(p) ==
    \/ OpenRtc(p) \/ OpenBegin(p) \/ OpenLookup(p) \/ OpenCheck(p)
    \/ OpenTake(p) \/ OpenOps(p)
    \/ OtherCall(p) \/ ReadBegin(p) \/ FileCopy(p) \/ FileAdvance(p) \/ DirEntry(p)
    \/ CloseBegin(p) \/ CloseEnd(p) \/ CloseRtc(p)
    \/ Replace(p) \/ CallNull(p)

Next == \E p \in Procs : Step(p)

Spec == Init /\ [][Next]_vars

-----------------------------------------------------------------------------
(* Properties *)

InUse(p, f) == fdt[p][f].flags = 1

\* The types of the C declarations.
TypeOK ==
    /\ fdt \in [Procs -> [Fds -> Entries]]
    /\ curr_pcb \in Procs
    /\ cur_dentry \in Names \cup {NoName}
    /\ name \in [Procs -> Names \cup {NoName}]
    /\ fd \in [Procs -> Fds \cup {None}]
    /\ n \in [Procs -> Nat]
    /\ eflags \in [Procs -> {"own", "table"}]

\* A descriptor a program holds stands for what it opened: in use, with the
\* operations and the inode of that name, whatever was opened, closed and
\* replaced in the slot before; and a descriptor of a file or of the directory
\* that nobody holds is free again.
HeldFaithful ==
    \A p \in Procs, f \in Fds \ Std :
        /\ held[p][f] # NoName =>
              /\ InUse(p, f)
              /\ fdt[p][f].ops = Type[held[p][f]]
              /\ Type[held[p][f]] # "rtc" => fdt[p][f].inode = Inode[held[p][f]]
        /\ pc[p] = "idle" /\ InUse(p, f) /\ held[p][f] = NoName
              => fdt[p][f].ops = "rtc"

\* file_open: a process has a file open at most once, though the scan compares
\* inode numbers only, which the directory and the rtc may share with a file.
\* (Until the end of an open the descriptor it takes still has old operations.)
NoFileTwice ==
    \A p \in Procs : \A f, g \in Fds :
        /\ pc[p] # "ops"
        /\ InUse(p, f) /\ InUse(p, g)
        /\ fdt[p][f].ops = "file" /\ fdt[p][g].ops = "file"
        /\ fdt[p][f].inode = fdt[p][g].inode
        => f = g

\* Successive reads of a file deliver it from its beginning, once: the position
\* is what the holder has read since it opened the file.  A directory is not
\* begun again by open: over all the times the process opens it on a descriptor
\* that no file had in between, each entry is delivered once.
ReadsInOrder ==
    \A p \in Procs, f \in Fds \ Std :
        held[p][f] # NoName /\ Type[held[p][f]] # "rtc" =>
            /\ fdt[p][f].pos = delivered[p][f]
            /\ fdt[p][f].pos <= IF Type[held[p][f]] = "file" THEN Size[Inode[held[p][f]]]
                                                             ELSE DirCount

\* A call changes the descriptors of the process that makes it, no others:
\* curr_pcb is the process requesting the system call.
OwnTableOnly ==
    [][\A p \in Procs : fdt'[p] # fdt[p]
           => \A q \in Procs \ {p} : << pc[q], name[q], fd[q], n[q] >>'
                                     = << pc[q], name[q], fd[q], n[q] >>]_vars

\* syscall.h: a process is saved and restored around a switch to another one.  The
\* flags a program goes on with are its own, whatever the other processes call.
FlagsRestored == \A p \in Procs : eflags[p] = "own"

=============================================================================
