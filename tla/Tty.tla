---------------------------------- MODULE Tty ----------------------------------
(***************************************************************************)
(* Line input: the keyboard handler and terminal_read of                   *)
(* student-distrib/keyboard.c, with the helpers of syscall.c they call.    *)
(*                                                                         *)
(* A keyboard interrupt runs from end to end with interrupts off, so it is *)
(* one action.  terminal_read spins with interrupts on: it is split where  *)
(* an interrupt may change what it looked at, down to the single character *)
(* that my_strcpy copies.  Which key of a chord a scancode is (shift, caps *)
(* lock, control, alt) is folded into the choice of the action.            *)
(***************************************************************************)
EXTENDS Integers, Sequences, FiniteSetsExt

CONSTANTS Terms,       \* the terminals, each with one process that may read
          BufSize,     \* BUFSIZE
          Letters,     \* Letters[t]: the characters typed on terminal t
          Completions, \* what fs_search may find to append
          InRead       \* the keys that may fall inside a read, see below

(***************************************************************************)
(*   enter    Enter on a terminal whose saved line is being copied         *)
(*   switch   Alt+Fn between the two looks at active_terminal              *)
(* Nothing in the code holds either of them off.  With "switch" a reader   *)
(* is given another terminal's line (OwnKeyboard), and two readers of one  *)
(* line can run past its end.                                              *)
(***************************************************************************)
NUL == "nul"
NL  == "nl"

ASSUME TtyAssumption ==
    /\ BufSize \in Nat /\ 1 < BufSize
    /\ \A t \in Terms : NUL \notin Letters[t] /\ NL \notin Letters[t]
    /\ Completions \subseteq Nat
    /\ InRead \subseteq {"enter", "switch"}

Index == 0 .. BufSize - 1
AllLetters == UNION {Letters[t] : t \in Terms}
Chars == AllLetters \cup {NUL, NL}
Lines == UNION {[1 .. len -> AllLetters] : len \in Index}

VARIABLES active_terminal,  \* the terminal on the screen
          running,          \* process_num[main_process]
          line,             \* terminals[t].save_buf up to save_idx
          save_buf,         \* save_buf_1, save_buf_2, save_buf_3
          pc,               \* where the terminal_read of t's process is
          sel,              \* the terminal its switch statement chose
          buf,              \* what it has copied so far
          snap,             \* ghost: the saved line when its copy began
          torn,             \* ghost: Enter replaced that line meanwhile
          fresh             \* ghost: Enter on t since a line of t was returned

reader == << pc, sel, buf >>
ghosts == << snap, torn, fresh >>
vars   == << active_terminal, running, line, save_buf, reader, ghosts >>

\* The characters of an array up to its newline, or all of them.
Upto(arr) ==
    LET end == Min({k \in Index : arr[k] = NL} \cup {BufSize})
    IN  [k \in 1 .. end |-> arr[k - 1]]

Init ==
    /\ active_terminal \in Terms
    /\ running \in Terms
    /\ line = [t \in Terms |-> << >>]
    /\ save_buf = [t \in Terms |-> [k \in Index |-> NUL]]
    /\ pc = [t \in Terms |-> "idle"]
    /\ sel = [t \in Terms |-> t]
    /\ buf = [t \in Terms |-> << >>]
    /\ snap = [t \in Terms |-> << >>]
    /\ torn = [t \in Terms |-> FALSE]
    /\ fresh = [t \in Terms |-> FALSE]

-----------------------------------------------------------------------------
(* keyboard_handler, on the line of the terminal on the screen *)

Extended_NoLimit(s, c) == Append(s, c)

\* A character key: a full buffer drops it.
Extended(s, c) == IF Len(s) = BufSize - 1 THEN s ELSE Append(s, c)

KeyChar ==
    \E c \in Letters[active_terminal] :
    /\ line' = [line EXCEPT ![active_terminal] = Extended(@, c)]
    /\ UNCHANGED << active_terminal, running, save_buf, reader, ghosts >>

KeyBackspace ==
    /\ line[active_terminal] # << >>
    /\ line' = [line EXCEPT ![active_terminal] = SubSeq(@, 1, Len(@) - 1)]
    /\ UNCHANGED << active_terminal, running, save_buf, reader, ghosts >>

\* Tab: fs_search appends the rest of a name it finds for the last word, as far
\* as the buffer reaches.
KeyTab ==
    \E len \in Completions, c \in Letters[active_terminal] :
    LET s    == line[active_terminal]
        room == BufSize - 1 - Len(s)
        rest == [k \in 1 .. Min({len, room}) |-> c]
    IN  /\ s # << >>
        /\ line' = [line EXCEPT ![active_terminal] = s \o rest]
        /\ UNCHANGED << active_terminal, running, save_buf, reader, ghosts >>

Saved_NoNewline(arr, s) == [k \in Index |-> IF k < Len(s) THEN s[k + 1] ELSE arr[k]]

\* my_strcpy of the line and its newline over what the array held.
Saved(arr, s) ==
    [k \in Index |-> IF k < Len(s) THEN s[k + 1] ELSE IF k = Len(s) THEN NL ELSE arr[k]]

\* A reader is copying the saved line of t.
Copying(r, t) == pc[r] \in {"copy", "clear"} /\ sel[r] = t

KeyEnter ==
    LET t == active_terminal
    IN  /\ (\E r \in Terms : Copying(r, t)) => "enter" \in InRead
        /\ save_buf' = [save_buf EXCEPT ![t] = Saved(@, line[t])]
        /\ line' = [line EXCEPT ![t] = << >>]
        /\ torn' = [r \in Terms |-> torn[r] \/ Copying(r, t)]
        /\ fresh' = [fresh EXCEPT ![t] = TRUE]
        /\ UNCHANGED << active_terminal, running, reader, snap >>

\* Alt+Fn
KeySwitch ==
    \E t \in Terms :
    /\ t # active_terminal
    /\ (\E r \in Terms : pc[r] = "check") => "switch" \in InRead
    /\ active_terminal' = t
    /\ UNCHANGED << running, line, save_buf, reader, ghosts >>

\* A read is over: its locals are dead.
ReadOver(t) ==
    /\ pc' = [pc EXCEPT ![t] = "idle"]
    /\ sel' = [sel EXCEPT ![t] = t]
    /\ buf' = [buf EXCEPT ![t] = << >>]
    /\ snap' = [snap EXCEPT ![t] = << >>]
    /\ torn' = [torn EXCEPT ![t] = FALSE]

\* Ctrl+C halts the main process, with the read it is in.
KeyCtrlC ==
    /\ pc[running] # "idle"
    /\ ReadOver(running)
    /\ UNCHANGED << active_terminal, running, line, save_buf, fresh >>

\* A timer tick: the process of another terminal runs.
Tick(t) ==
    /\ t # running
    /\ running' = t
    /\ UNCHANGED << active_terminal, line, save_buf, reader, ghosts >>

-----------------------------------------------------------------------------
(* terminal_read, by the process that is running *)

Goto(t, stage) == pc' = [pc EXCEPT ![t] = stage]

ReadCall(t) ==
    /\ running = t
    /\ pc[t] = "idle"
    /\ Goto(t, "select")
    /\ UNCHANGED << active_terminal, running, line, save_buf, sel, buf, ghosts >>

\* switch (return_active_terminal())
ReadSelect(t) ==
    /\ pc[t] = "select"
    /\ sel' = [sel EXCEPT ![t] = active_terminal]
    /\ Goto(t, "check")
    /\ UNCHANGED << active_terminal, running, line, save_buf, buf, ghosts >>

check_read_process_Never(t) == FALSE
check_read_process(t)       == t = active_terminal

ReadCheck(t) ==
    /\ pc[t] = "check"
    /\ Goto(t, IF check_read_process(t) THEN "test" ELSE "select")
    /\ UNCHANGED << active_terminal, running, line, save_buf, sel, buf, ghosts >>

ReadTest(t) ==
    /\ pc[t] = "test"
    /\ LET src == save_buf[sel[t]]
       IN  IF src[0] = NUL THEN Goto(t, "select") /\ UNCHANGED << buf, snap, torn >>
           ELSE /\ Goto(t, "copy")
                /\ buf' = [buf EXCEPT ![t] = << >>]
                /\ snap' = [snap EXCEPT ![t] = Upto(src)]
                /\ torn' = [torn EXCEPT ![t] = FALSE]
    /\ UNCHANGED << active_terminal, running, line, save_buf, sel, fresh >>

\* One turn of my_strcpy's loop.
ReadCopy(t) ==
    /\ pc[t] = "copy"
    /\ LET c == save_buf[sel[t]][Len(buf[t])]
       IN  IF c = NL THEN Goto(t, "clear") /\ UNCHANGED buf
           ELSE buf' = [buf EXCEPT ![t] = Append(@, c)] /\ UNCHANGED pc
    /\ UNCHANGED << active_terminal, running, line, save_buf, sel, ghosts >>

Cleared_Not(arr) == arr
Cleared(arr) == [arr EXCEPT ![0] = NUL]

ReadClear(t) ==
    /\ pc[t] = "clear"
    /\ save_buf' = [save_buf EXCEPT ![sel[t]] = Cleared(@)]
    /\ fresh' = [fresh EXCEPT ![sel[t]] = FALSE]
    /\ ReadOver(t)
    /\ UNCHANGED << active_terminal, running, line >>

ReadStep(t) ==
    /\ running = t
    /\ \/ ReadSelect(t) \/ ReadCheck(t) \/ ReadTest(t) \/ ReadCopy(t) \/ ReadClear(t)

-----------------------------------------------------------------------------
(* Properties *)

\* The types of the C declarations; the line never outgrows its buffer, whatever
\* keys and completions arrive.
TypeOK ==
    /\ active_terminal \in Terms
    /\ running \in Terms
    /\ line \in [Terms -> Lines]
    /\ save_buf \in [Terms -> [Index -> Chars]]
    /\ sel \in [Terms -> Terms]

\* my_strcpy's loop stays inside of the saved line, though keys may replace the
\* line while it runs: it always finds a newline.
CopyStaysInside ==
    \A t \in Terms : pc[t] = "copy" =>
        /\ Len(buf[t]) \in Index
        /\ \E k \in Index : Len(buf[t]) <= k /\ save_buf[sel[t]][k] = NL

\* terminal_read checks that the running process corresponds to the active
\* terminal, so a program is given what was typed on its own terminal only.
OwnKeyboard ==
    \A t \in Terms : \A k \in 1 .. Len(buf[t]) : buf[t][k] \in Letters[t]

\* A read returns the line that was saved when its copy began, whole, unless
\* Enter replaced it meanwhile; and it answers an Enter of its own: no line is
\* given twice.
WholeLineOnce ==
    \A t \in Terms :
        /\ pc[t] = "clear" /\ ~torn[t] => buf[t] = snap[t]
        /\ pc[t] \in {"copy", "clear"} => fresh[sel[t]]

\* A line entered on a terminal reaches the program that reads there, whatever
\* the other terminals' programs do, unless another terminal is shown.
LineArrives ==
    \A t \in Terms :
        fresh[t] /\ pc[t] # "idle" ~> pc[t] = "idle" \/ active_terminal # t
=============================================================================
