-------------------------------- MODULE Console --------------------------------
(***************************************************************************)
(* Screen output of SrirachOS: my_putc, key_putc, putc, _backspace and      *)
(* my_clear of student-distrib/lib.c, the copying of video memory in        *)
(* switch_terminal of syscall.c, and the page of vidmap, which              *)
(* scheduler_handler and get_vidmap_page set.                               *)
(*                                                                         *)
(* A cell of video memory is addressed by its row and column instead of     *)
(* NUM_COLS * y + x, and carries no colour.  Every terminal has one running *)
(* program once its first shell is started; which slot it has is the       *)
(* business of ProcSched.                                                   *)
(***************************************************************************)
EXTENDS Integers, Sequences

CONSTANTS Terms, Rows, Cols,
          Chars,     \* the printing characters
          NL, SP,    \* newline (or carriage return) and space
          Texts,     \* what programs pass to terminal_write
          Notes,     \* what the kernel prints with printf
          Full,      \* what system_execute prints when all slots are in use
          Drawers,   \* the terminals whose program uses vidmap
          Overlaps   \* what may happen, see below

(***************************************************************************)
(*   draw_after_switch  Alt+Fn while a program that draws is running       *)
(*   map_unseen         vidmap called by a program that is not shown       *)
(*   clear_unseen       Ctrl+L while a program that is not shown is running *)
(*   puts_interrupted   an interrupt between the look at the cursor and the *)
(*                      store of a character that execute prints           *)
(***************************************************************************)
ASSUME ConsoleAssumption ==
    /\ Terms \subseteq Nat /\ 0 \in Terms
    /\ Rows \in Nat \ {0} /\ Cols \in Nat \ {0}
    /\ NL \notin Chars /\ SP \in Chars
    /\ Texts \subseteq Seq(Chars \cup {NL}) /\ Notes \subseteq Seq(Chars \cup {NL})
    /\ Full \in Seq(Chars \cup {NL})
    /\ Drawers \subseteq Terms
    /\ Overlaps \subseteq {"draw_after_switch", "map_unseen", "clear_unseen", "puts_interrupted"}

Ys == 0 .. Rows - 1
Xs == 0 .. Cols - 1
Grids == [Ys -> [Xs -> Chars]]
VIDEO == -1
Spots == [addr : Terms \cup {VIDEO}, x : Xs, y : Ys]

VARIABLES active_terminal,     \* the terminal on the screen
          running,             \* process_num[main_process]
          started,             \* the terminals that have a shell
          video,               \* the cells at 0xB8000
          back,                \* back[t]: the cells at terminals[t].video_addr
          x_cursor, y_cursor,  \* the cursor of every terminal
          screen_x, screen_y,  \* the cursor of the kernel, and of the screen
          page,                \* what page_table[0] maps: VIDEO or back[t]
          mapped,              \* the terminals whose program has called vidmap
          out, note,           \* what terminal_write and printf still have to
                               \* print, with interrupts off
          puts,                \* puts[t]: what execute still has to print on t,
                               \* with interrupts on
          spot                 \* spot[t]: where the next character of puts[t]
                               \* goes, once my_putc has looked, else nothing

cells  == << video, back >>
cursor == << x_cursor, y_cursor >>
kernel == << screen_x, screen_y >>
who    == << active_terminal, running, started >>
vidmap == << page, mapped >>
output == << out, note >>
printing == << puts, spot >>
vars   == << cells, cursor, kernel, who, vidmap, output, printing >>

Blank == [y \in Ys |-> [x \in Xs |-> SP]]

\* entry() clears the screen, init_terminals resets the cursors and the first
\* shell starts.  The unused text pages are blank.
Init ==
    /\ active_terminal = 0
    /\ running = 0
    /\ started = {0}
    /\ video = Blank
    /\ back = [t \in Terms |-> Blank]
    /\ x_cursor = [t \in Terms |-> 0]
    /\ y_cursor = [t \in Terms |-> 0]
    /\ screen_x = 0
    /\ screen_y = 0
    /\ page = VIDEO
    /\ mapped = {}
    /\ out = << >>
    /\ note = << >>
    /\ puts = [t \in Terms |-> << >>]
    /\ spot = [t \in Terms |-> {}]

-----------------------------------------------------------------------------
(* One character on a grid, the cursor at px, py *)

Scrolled(g) == [y \in Ys |-> IF y = Rows - 1 THEN Blank[y] ELSE g[y + 1]]

\* The end of a line at row py.
LineEnd(g, py) ==
    IF py = Rows - 1 THEN [g |-> Scrolled(g), x |-> 0, y |-> py]
    ELSE [g |-> g, x |-> 0, y |-> py + 1]

Emit_NoWrap(g, px, py, c) ==
    IF c = NL THEN LineEnd(g, py) ELSE [g |-> [g EXCEPT ![py][px] = c], x |-> px + 1, y |-> py]

Emit(g, px, py, c) ==
    IF c = NL THEN LineEnd(g, py)
    ELSE LET h  == [g EXCEPT ![py][px] = c]
             nx == (px + 1) % Cols
         IN  IF nx = 0 THEN LineEnd(h, py) ELSE [g |-> h, x |-> nx, y |-> py]

-----------------------------------------------------------------------------
(* Output with interrupts off: terminal_write and printf *)

Ready == out = << >> /\ note = << >>

\* The program is in no execute that prints, and can go on.
Free == Ready /\ puts[running] = << >>

\* An interrupt is taken.
Interrupted == Ready /\ (spot[running] = {} \/ "puts_interrupted" \in Overlaps)

terminal_write ==
    \E s \in Texts :
    /\ Free
    /\ out' = s
    /\ UNCHANGED << cells, cursor, kernel, who, vidmap, note, printing >>

\* printf of Ctrl+C, of the exceptions and of a failed command; fs_search.
printf ==
    \E s \in Notes :
    /\ Interrupted
    /\ note' = s
    /\ UNCHANGED << cells, cursor, kernel, who, vidmap, out, printing >>

\* video_return(): where the program that is running prints.
video_return(t) == IF t = active_terminal THEN VIDEO ELSE t

\* The cells at an address, and a store of them.
At(addr) == IF addr = VIDEO THEN video ELSE back[addr]

Store(addr, g) ==
    IF addr = VIDEO THEN video' = g /\ UNCHANGED back
    ELSE back' = [back EXCEPT ![addr] = g] /\ UNCHANGED video

\* What my_putc does to a character once it has its address and cursor.
PutAt(a, px, py, c) ==
    LET e == Emit(At(a), px, py, c)
    IN  /\ Store(a, e.g)
        /\ x_cursor' = [x_cursor EXCEPT ![running] = e.x]
        /\ y_cursor' = [y_cursor EXCEPT ![running] = e.y]

my_putc ==
    /\ out # << >>
    /\ PutAt(video_return(running), x_cursor[running], y_cursor[running], Head(out))
    /\ out' = Tail(out)
    /\ UNCHANGED << kernel, who, vidmap, note, printing >>

putc ==
    LET e == Emit(video, screen_x, screen_y, Head(note))
    IN  /\ note # << >>
        /\ video' = e.g
        /\ screen_x' = e.x
        /\ screen_y' = e.y
        /\ note' = Tail(note)
        /\ UNCHANGED << back, cursor, who, vidmap, out, printing >>

-----------------------------------------------------------------------------
(* Output with interrupts on: my_puts in system_execute *)

\* All slots are in use: the program's execute says so and returns.
execute_full ==
    /\ Free
    /\ puts' = [puts EXCEPT ![running] = Full]
    /\ UNCHANGED << cells, cursor, kernel, who, vidmap, output, spot >>

\* my_putc looks where the character is to go,
puts_look ==
    /\ Ready
    /\ puts[running] # << >> /\ spot[running] = {}
    /\ spot' = [spot EXCEPT ![running] = {[addr |-> video_return(running),
                                          x |-> x_cursor[running], y |-> y_cursor[running]]}]
    /\ UNCHANGED << cells, cursor, kernel, who, vidmap, output, puts >>

\* and puts it there.
puts_store ==
    \E p \in spot[running] :
    /\ Ready
    /\ PutAt(p.addr, p.x, p.y, Head(puts[running]))
    /\ puts' = [puts EXCEPT ![running] = Tail(puts[running])]
    /\ spot' = [spot EXCEPT ![running] = {}]
    /\ UNCHANGED << kernel, who, vidmap, output >>

-----------------------------------------------------------------------------
(* Keys, on the terminal that is shown *)

\* The cursor of the shown terminal and of the kernel move together.
MoveTo(px, py) ==
    /\ x_cursor' = [x_cursor EXCEPT ![active_terminal] = px]
    /\ y_cursor' = [y_cursor EXCEPT ![active_terminal] = py]
    /\ screen_x' = px
    /\ screen_y' = py

key_putc ==
    \E c \in (Chars \ {SP}) \cup {NL} :
    LET e == Emit(video, x_cursor[active_terminal], y_cursor[active_terminal], c)
    IN  /\ Interrupted
        /\ video' = e.g
        /\ MoveTo(e.x, e.y)
        /\ UNCHANGED << back, who, vidmap, output, printing >>

\* Backspace: a space over the character before the cursor, and back again.
_backspace ==
    LET px == x_cursor[active_terminal]
        py == y_cursor[active_terminal]
        bx == IF px = 0 THEN Cols - 1 ELSE px - 1
        by == IF px = 0 THEN py - 1 ELSE py
        e  == Emit(video, bx, by, SP)
    IN  /\ Interrupted
        /\ IF px = 0 /\ py = 0
           THEN /\ screen_x' = 0 /\ screen_y' = 0
                /\ UNCHANGED << cells, cursor >>
           ELSE /\ video' = e.g
                /\ MoveTo(IF px = 0 THEN Cols - 1 ELSE e.x - 1, IF px = 0 THEN e.y - 1 ELSE e.y)
                /\ UNCHANGED back
        /\ UNCHANGED << who, vidmap, output, printing >>

\* Ctrl+L: my_clear, and terminal_write of the line typed so far, which prints
\* where the running program prints.
my_clear ==
    \E s \in Texts \cup {<< >>} :
    /\ Interrupted
    /\ s # << >> /\ running # active_terminal => "clear_unseen" \in Overlaps
    /\ video' = Blank
    /\ screen_x' = 0
    /\ screen_y' = 0
    /\ out' = s
    /\ UNCHANGED << back, cursor, who, vidmap, note, printing >>

\* The old screen goes to the page of the terminal that was shown.
SaveScreen == [back EXCEPT ![active_terminal] = video]

\* Alt+Fn to a terminal that has a shell.
switch_terminal ==
    \E t \in started \ {active_terminal} :
    /\ Interrupted
    /\ running \in mapped => "draw_after_switch" \in Overlaps
    /\ back' = SaveScreen
    /\ video' = back[t]
    /\ active_terminal' = t
    /\ screen_x' = x_cursor[t]
    /\ screen_y' = y_cursor[t]
    /\ UNCHANGED << cursor, running, started, vidmap, output, printing >>

\* Alt+Fn to a terminal that has none: its first shell runs, and the cursor of
\* the screen stays where it was.
switch_first ==
    \E t \in Terms \ started :
    /\ Interrupted
    /\ back' = SaveScreen
    /\ video' = back[t]
    /\ active_terminal' = t
    /\ running' = t
    /\ started' = started \cup {t}
    /\ UNCHANGED << cursor, kernel, vidmap, output, printing >>

-----------------------------------------------------------------------------
(* The page of vidmap *)

get_vid_mem_Video(t) == VIDEO
get_vid_mem(t) == IF t = active_terminal THEN VIDEO ELSE t

\* A tick that switches tasks maps the page for the program that is to run.
scheduler_handler ==
    \E t \in started \ {running} :
    /\ Interrupted
    /\ running' = t
    /\ page' = get_vid_mem(t)
    /\ UNCHANGED << cells, cursor, kernel, active_terminal, started, mapped, output, printing >>

system_vidmap ==
    /\ Free
    /\ running \in Drawers
    /\ running # active_terminal => "map_unseen" \in Overlaps
    /\ page' = VIDEO
    /\ mapped' = mapped \cup {running}
    /\ UNCHANGED << cells, cursor, kernel, who, output, printing >>

\* The program stores a character through its mapping.
Draw ==
    \E y \in Ys, x \in Xs, c \in Chars :
    /\ Free
    /\ running \in mapped
    /\ Store(page, [At(page) EXCEPT ![y][x] = c])
    /\ UNCHANGED << cursor, kernel, who, vidmap, output, printing >>

\* The program of the terminal ends, in its execute when Ctrl+C is pressed, and
\* with it its use of vidmap.
Quit ==
    /\ Interrupted
    /\ running \in mapped \/ puts[running] # << >>
    /\ mapped' = mapped \ {running}
    /\ puts' = [puts EXCEPT ![running] = << >>]
    /\ spot' = [spot EXCEPT ![running] = {}]
    /\ UNCHANGED << cells, cursor, kernel, who, page, output >>

-----------------------------------------------------------------------------
Next ==
    \/ terminal_write \/ printf \/ my_putc \/ putc
    \/ execute_full \/ puts_look \/ puts_store
    \/ key_putc \/ _backspace \/ my_clear \/ switch_terminal \/ switch_first
    \/ scheduler_handler \/ system_vidmap \/ Draw \/ Quit

Spec == Init /\ [][Next]_vars

-----------------------------------------------------------------------------
(* Properties *)

\* The types of the C declarations: no sequence of output, backspace and
\* switching moves a cursor off its screen, so every store stays in its page.
TypeOK ==
    /\ active_terminal \in Terms
    /\ started \in SUBSET Terms /\ running \in started
    /\ video \in Grids
    /\ back \in [Terms -> Grids]
    /\ x_cursor \in [Terms -> Xs] /\ y_cursor \in [Terms -> Ys]
    /\ screen_x \in Xs /\ screen_y \in Ys
    /\ page \in Terms \cup {VIDEO}
    /\ mapped \in SUBSET Terms
    /\ spot \in [Terms -> SUBSET Spots]

\* The screen of a terminal: video memory when it is shown, its page otherwise.
Screen == [t \in Terms |-> IF t = active_terminal THEN video ELSE back[t]]

Abs == INSTANCE ConsoleAbs WITH
    screen <- Screen,
    cur    <- [t \in Terms |-> [row |-> y_cursor[t], col |-> x_cursor[t]]],
    shown  <- active_terminal,
    turn   <- running,
    noting <- (note # << >>)

\* Video memory, backing pages and the vidmap page together act as one screen
\* and one cursor per terminal: nothing that is printed, typed, drawn or shown
\* on a terminal reaches another one or is lost by switching.
OneScreenEach == Abs!AbsSpec
=============================================================================
