------------------------------ MODULE ConsoleAbs -------------------------------
(***************************************************************************)
(* What the console promises: every terminal has a screen and a cursor of  *)
(* its own.  Output of the program whose turn it is goes to the screen of  *)
(* its terminal, shown or not; keys echo on the shown terminal; showing    *)
(* another terminal changes no screen.  There is no video memory, no       *)
(* backing page and no page table here.                                    *)
(***************************************************************************)
EXTENDS Integers

CONSTANTS Terms, Rows, Cols, Chars, NL, SP

VARIABLES screen,  \* screen[t][row][col]
          cur,     \* cur[t]: the row and the column of the next character
          shown,   \* the terminal that the user sees
          turn,    \* the terminal whose program runs
          noting   \* the kernel is printing a message

absVars == << screen, cur, shown, turn, noting >>

LastRow == Rows - 1

Blank == [r \in 0 .. LastRow |-> [c \in 0 .. Cols - 1 |-> SP]]

AbsInit ==
    /\ screen = [t \in Terms |-> Blank]
    /\ cur = [t \in Terms |-> [row |-> 0, col |-> 0]]
    /\ shown \in Terms
    /\ turn = shown
    /\ noting = FALSE

\* All rows move up by one.
Up(g) == [r \in 0 .. LastRow |-> IF r < LastRow THEN g[r + 1] ELSE Blank[r]]

\* A grid on which a line has ended at row r.
Down(g, r) == IF r = LastRow THEN Up(g) ELSE g
Below(r)   == [row |-> IF r = LastRow THEN r ELSE r + 1, col |-> 0]

Put(t, ch) ==
    LET r    == cur[t].row
        c    == cur[t].col
        g    == IF ch = NL THEN screen[t] ELSE [screen[t] EXCEPT ![r][c] = ch]
        ends == ch = NL \/ c = Cols - 1
    IN  /\ screen' = [screen EXCEPT ![t] = IF ends THEN Down(g, r) ELSE g]
        /\ cur' = [cur EXCEPT ![t] = IF ends THEN Below(r) ELSE [row |-> r, col |-> c + 1]]

\* The program whose turn it is prints.
Say(ch) == Put(turn, ch) /\ UNCHANGED << shown, turn, noting >>

\* A key echoes.
Echo(ch) == Put(shown, ch) /\ UNCHANGED << shown, turn, noting >>

\* The character before the cursor is erased, on the row above if need be.
Erase ==
    LET r == cur[shown].row
        c == cur[shown].col
        p == IF c = 0 THEN [row |-> r - 1, col |-> Cols - 1] ELSE [row |-> r, col |-> c - 1]
    IN  /\ << r, c >> # << 0, 0 >>
        /\ screen' = [screen EXCEPT ![shown][p.row][p.col] = SP]
        /\ cur' = [cur EXCEPT ![shown] = p]
        /\ UNCHANGED << shown, turn, noting >>

\* Clearing the screen leaves the terminal's cursor where it is, as my_clear does,
\* which resets screen_x and screen_y only.  keyboard.c:248 says otherwise:
\* "clear screen and put cursor on top".
Wipe ==
    /\ screen' = [screen EXCEPT ![shown] = Blank]
    /\ UNCHANGED << cur, shown, turn, noting >>

Notice == noting' = TRUE /\ UNCHANGED << screen, cur, shown, turn >>

\* A kernel message lands somewhere on the shown screen and may scroll it.  It
\* moves no cursor.
Message ==
    /\ noting
    /\ noting' \in BOOLEAN
    /\ UNCHANGED << cur, shown, turn >>
    /\ \E r \in 0 .. LastRow, c \in 0 .. Cols - 1, ch \in Chars \cup {NL} :
          LET g == IF ch = NL THEN screen[shown] ELSE [screen[shown] EXCEPT ![r][c] = ch]
          IN  screen' \in {[screen EXCEPT ![shown] = h] : h \in {g, Up(g)}}

\* The program whose turn it is draws on the screen it has mapped.
Plot ==
    \E r \in 0 .. LastRow, c \in 0 .. Cols - 1, ch \in Chars :
    /\ screen' = [screen EXCEPT ![turn][r][c] = ch]
    /\ UNCHANGED << cur, shown, turn, noting >>

Show == shown' \in Terms /\ turn' \in {turn, shown'} /\ UNCHANGED << screen, cur, noting >>

Turn == turn' \in Terms /\ UNCHANGED << screen, cur, shown, noting >>

AbsNext ==
    \/ \E ch \in Chars \cup {NL} : Say(ch) \/ Echo(ch)
    \/ Erase \/ Wipe \/ Notice \/ Message \/ Plot \/ Show \/ Turn

AbsSpec == AbsInit /\ [][AbsNext]_absVars
=============================================================================
