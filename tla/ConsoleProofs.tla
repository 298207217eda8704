---------------------------- MODULE ConsoleProofs ----------------------------
(***************************************************************************)
(* What holds of Console for any number of terminals, any size of the      *)
(* screen and any texts: every cursor stays on its screen, and, when none  *)
(* of the Overlaps happens, the console implements ConsoleAbs.             *)
(***************************************************************************)
EXTENDS Console, SequenceTheorems, TLAPS

-----------------------------------------------------------------------------
(* One character *)

\* The grid with the character at px, py.
Inked(g, px, py, c) == IF c = NL THEN g ELSE [g EXCEPT ![py][px] = c]

\* The character ends the line.
Ends(px, c) == c = NL \/ px = Cols - 1

\* The column after px.
LEMMA NextColumn ==
    ASSUME NEW px \in Xs
    PROVE  (px + 1) % Cols = IF px = Cols - 1 THEN 0 ELSE px + 1
<1>1. Cols \in Nat /\ 0 < Cols /\ px \in Int /\ 0 <= px /\ px < Cols
  BY ConsoleAssumption DEF Xs
<1>2. CASE px = Cols - 1
  BY <1>1, <1>2
<1>3. CASE px # Cols - 1
  BY <1>1, <1>3
<1> QED BY <1>2, <1>3

\* A cell that putc writes leaves a screen a screen.
LEMMA InkedType ==
    ASSUME NEW g \in Grids, NEW px \in Xs, NEW py \in Ys, NEW c \in Chars \cup {NL}
    PROVE  Inked(g, px, py, c) \in Grids
BY DEF Inked, Grids

\* The cleared screen is a screen.
LEMMA BlankType == Blank \in Grids
BY ConsoleAssumption DEF Blank, Grids

\* So is one that scroll has moved up by a line.
LEMMA ScrolledType ==
    ASSUME NEW g \in Grids
    PROVE  Scrolled(g) \in Grids
<1>1. ASSUME NEW y \in Ys PROVE (IF y = Rows - 1 THEN Blank[y] ELSE g[y + 1]) \in [Xs -> Chars]
  <2>1. CASE y = Rows - 1
    BY <2>1, BlankType DEF Grids
  <2>2. CASE y # Rows - 1
    <3>1. y + 1 \in Ys
      BY <2>2, ConsoleAssumption DEF Ys
    <3> QED BY <2>2, <3>1 DEF Grids
  <2> QED BY <2>1, <2>2
<1> QED BY <1>1 DEF Scrolled, Grids

\* What a character leaves of the grid and of the cursor.
LEMMA EmitIs ==
    ASSUME NEW g \in Grids, NEW px \in Xs, NEW py \in Ys, NEW c \in Chars \cup {NL}
    PROVE  LET e == Emit(g, px, py, c)
               h == Inked(g, px, py, c)
           IN  /\ e.g = IF Ends(px, c) /\ py = Rows - 1 THEN Scrolled(h) ELSE h
               /\ e.x = IF Ends(px, c) THEN 0 ELSE px + 1
               /\ e.y = IF Ends(px, c) /\ py # Rows - 1 THEN py + 1 ELSE py
<1> DEFINE h == Inked(g, px, py, c)
<1>1. CASE c = NL
  <2>1. h = g /\ Emit(g, px, py, c) = LineEnd(g, py) /\ Ends(px, c)
    BY <1>1 DEF Inked, Emit, Ends
  <2> QED BY <2>1 DEF LineEnd
<1>2. CASE c # NL
  <2>1. h = [g EXCEPT ![py][px] = c]
    BY <1>2 DEF Inked
  <2>2. Emit(g, px, py, c) = IF (px + 1) % Cols = 0 THEN LineEnd(h, py)
                             ELSE [g |-> h, x |-> (px + 1) % Cols, y |-> py]
    BY <1>2, <2>1 DEF Emit
  <2> HIDE DEF h
  <2>3. px + 1 # 0 /\ (Ends(px, c) <=> px = Cols - 1)
    BY <1>2, ConsoleAssumption DEF Xs, Ends
  <2>4. CASE px = Cols - 1
    <3>1. Emit(g, px, py, c) = LineEnd(h, py) /\ Ends(px, c)
      BY <2>2, <2>3, <2>4, NextColumn
    <3> QED BY <3>1 DEF LineEnd, h
  <2>5. CASE px # Cols - 1
    <3>1. Emit(g, px, py, c) = [g |-> h, x |-> px + 1, y |-> py] /\ ~Ends(px, c)
      BY <2>2, <2>3, <2>5, NextColumn
    <3> QED BY <3>1 DEF h
  <2> QED BY <2>4, <2>5
<1> QED BY <1>1, <1>2

\* A character leaves the cursor on the screen, also at the end of the last
\* line.
LEMMA EmitType ==
    ASSUME NEW g \in Grids, NEW px \in Xs, NEW py \in Ys, NEW c \in Chars \cup {NL}
    PROVE  LET e == Emit(g, px, py, c) IN e.g \in Grids /\ e.x \in Xs /\ e.y \in Ys
<1> DEFINE e == Emit(g, px, py, c)
           h == Inked(g, px, py, c)
<1>1. /\ e.g = IF Ends(px, c) /\ py = Rows - 1 THEN Scrolled(h) ELSE h
      /\ e.x = IF Ends(px, c) THEN 0 ELSE px + 1
      /\ e.y = IF Ends(px, c) /\ py # Rows - 1 THEN py + 1 ELSE py
  BY EmitIs
<1>2. h \in Grids
  BY InkedType
<1>3. Scrolled(h) \in Grids
  BY <1>2, ScrolledType
<1> HIDE DEF h, e
<1>4. e.x \in Xs
  BY <1>1, ConsoleAssumption DEF Ends, Xs
<1>5. e.y \in Ys
  BY <1>1, ConsoleAssumption DEF Ys
<1>6. e.g \in Grids
  BY <1>1, <1>2, <1>3
<1> QED BY <1>4, <1>5, <1>6 DEF e

-----------------------------------------------------------------------------
(* Types, whatever overlaps *)

\* TypeOK needs that what is left to print is text.
TypeInv ==
    /\ TypeOK
    /\ out \in Seq(Chars \cup {NL})
    /\ note \in Seq(Chars \cup {NL})
    /\ puts \in [Terms -> Seq(Chars \cup {NL})]
    /\ \A t \in Terms : spot[t] # {} => puts[t] # << >>

\* The head and the rest of what is left to print.
LEMMA TextType ==
    ASSUME NEW s \in Seq(Chars \cup {NL}), s # << >>
    PROVE  Head(s) \in Chars \cup {NL} /\ Tail(s) \in Seq(Chars \cup {NL})
BY HeadTailProperties

\* All that is printed is text.
LEMMA AllText ==
    /\ \A s \in Texts \cup {<< >>} : s \in Seq(Chars \cup {NL})
    /\ Full \in Seq(Chars \cup {NL})
<1>1. Texts \subseteq Seq(Chars \cup {NL}) /\ Full \in Seq(Chars \cup {NL})
  BY ConsoleAssumption, Zenon
<1>2. << >> \in Seq(Chars \cup {NL})
  OBVIOUS
<1> QED BY <1>1, <1>2, Zenon

\* No address of a terminal's page is that of video memory.
LEMMA NotVideo == VIDEO \notin Terms
BY ConsoleAssumption DEF VIDEO

\* Every address that the driver writes through holds a screen.
LEMMA AtType ==
    ASSUME TypeOK, NEW a \in Terms \cup {VIDEO}
    PROVE  At(a) \in Grids
BY DEF TypeOK, At

\* A store through one of them keeps the others.
LEMMA StoreType ==
    ASSUME TypeOK, NEW a \in Terms \cup {VIDEO}, NEW g \in Grids, Store(a, g)
    PROVE  video' \in Grids /\ back' \in [Terms -> Grids]
BY DEF TypeOK, Store

\* A character goes to a screen and leaves the cursors on theirs.
LEMMA PutType ==
    ASSUME TypeOK, NEW a \in Terms \cup {VIDEO}, NEW px \in Xs, NEW py \in Ys,
           NEW c \in Chars \cup {NL}, PutAt(a, px, py, c)
    PROVE  /\ video' \in Grids /\ back' \in [Terms -> Grids]
           /\ x_cursor' \in [Terms -> Xs] /\ y_cursor' \in [Terms -> Ys]
<1> DEFINE e == Emit(At(a), px, py, c)
<1>1. At(a) \in Grids
  BY AtType
<1>2. e.g \in Grids /\ e.x \in Xs /\ e.y \in Ys
  BY <1>1, EmitType
<1>3. /\ Store(a, e.g)
      /\ x_cursor' = [x_cursor EXCEPT ![running] = e.x]
      /\ y_cursor' = [y_cursor EXCEPT ![running] = e.y]
  BY DEF PutAt
<1> HIDE DEF e
<1>4. video' \in Grids /\ back' \in [Terms -> Grids]
  BY <1>2, <1>3, StoreType
<1> QED BY <1>2, <1>3, <1>4 DEF TypeOK

\* What _backspace does to the screen and to the cursor: the character before
\* the cursor becomes a space, without scrolling.
LEMMA BackspaceIs ==
    ASSUME TypeOK, _backspace
    PROVE  LET px == x_cursor[active_terminal]
               py == y_cursor[active_terminal]
               bx == IF px = 0 THEN Cols - 1 ELSE px - 1
               by == IF px = 0 THEN py - 1 ELSE py
           IN  \/ /\ UNCHANGED << cells, cursor >>
                  /\ screen_x' = 0 /\ screen_y' = 0
                  /\ px = 0 /\ py = 0
               \/ /\ bx \in Xs /\ by \in Ys /\ ~(px = 0 /\ py = 0)
                  /\ video' = [video EXCEPT ![by][bx] = SP]
                  /\ MoveTo(bx, by)
                  /\ UNCHANGED back
<1> DEFINE px == x_cursor[active_terminal]
           py == y_cursor[active_terminal]
           bx == IF px = 0 THEN Cols - 1 ELSE px - 1
           by == IF px = 0 THEN py - 1 ELSE py
           e  == Emit(video, bx, by, SP)
<1>1. CASE px = 0 /\ py = 0
  BY <1>1 DEF _backspace
<1>2. CASE ~(px = 0 /\ py = 0)
  <2>1. /\ video' = e.g
        /\ MoveTo(IF px = 0 THEN Cols - 1 ELSE e.x - 1, IF px = 0 THEN e.y - 1 ELSE e.y)
        /\ UNCHANGED back
    BY <1>2 DEF _backspace
  <2>2. px \in Xs /\ py \in Ys
    BY DEF TypeOK
  <2>3. bx \in Xs /\ by \in Ys /\ (px = 0 => by # Rows - 1)
    BY <1>2, <2>2, ConsoleAssumption DEF Xs, Ys
  <2>4. SP \in Chars \cup {NL} /\ SP # NL /\ video \in Grids
    BY ConsoleAssumption DEF TypeOK
  <2>5. Inked(video, bx, by, SP) = [video EXCEPT ![by][bx] = SP]
    BY <2>4 DEF Inked
  <2>6. Ends(bx, SP) <=> px = 0
    BY <2>2, <2>4, ConsoleAssumption DEF Ends, Xs
  <2> HIDE DEF bx, by
  <2>7. /\ e.g = IF Ends(bx, SP) /\ by = Rows - 1
                 THEN Scrolled(Inked(video, bx, by, SP)) ELSE Inked(video, bx, by, SP)
        /\ e.x = IF Ends(bx, SP) THEN 0 ELSE bx + 1
        /\ e.y = IF Ends(bx, SP) /\ by # Rows - 1 THEN by + 1 ELSE by
    BY <2>3, <2>4, EmitIs
  <2> HIDE DEF e
  <2>8. e.g = [video EXCEPT ![by][bx] = SP]
    BY <2>3, <2>5, <2>6, <2>7
  <2>9. /\ bx = IF px = 0 THEN Cols - 1 ELSE e.x - 1
        /\ by = IF px = 0 THEN e.y - 1 ELSE e.y
    BY <2>2, <2>3, <2>6, <2>7, ConsoleAssumption DEF bx, by, Xs, Ys
  <2>10. MoveTo(bx, by)
    BY <2>1, <2>9, Zenon
  <2>11. video' = [video EXCEPT ![by][bx] = SP]
    BY <2>1, <2>8
  <2> QED BY <1>2, <2>1, <2>3, <2>10, <2>11 DEF bx, by
<1> QED BY <1>1, <1>2

\* update_cursor takes positions on the screen only.
LEMMA MoveType ==
    ASSUME TypeOK, NEW px \in Xs, NEW py \in Ys, MoveTo(px, py)
    PROVE  /\ x_cursor' \in [Terms -> Xs] /\ y_cursor' \in [Terms -> Ys]
           /\ screen_x' \in Xs /\ screen_y' \in Ys
BY DEF TypeOK, MoveTo

\* The machine starts with its cursors on the screen.
LEMMA TypeInit == Init => TypeInv
<1> SUFFICES ASSUME Init PROVE TypeInv
  OBVIOUS
<1>1. 0 \in Xs /\ 0 \in Ys /\ 0 \in Terms
  BY ConsoleAssumption DEF Xs, Ys
<1> QED BY <1>1, BlankType DEF Init, TypeInv, TypeOK

\* Every step keeps them there, whoever's page is mapped.
LEMMA TypeStep ==
    ASSUME TypeInv, Next
    PROVE  TypeInv'
<1> USE DEF TypeInv, TypeOK, cells, cursor, kernel, who, vidmap, output, printing
<1>0. 0 \in Xs /\ 0 \in Ys
  BY ConsoleAssumption DEF Xs, Ys
<1>1. CASE terminal_write
  BY <1>1, ConsoleAssumption DEF terminal_write
<1>2. CASE printf
  BY <1>2, ConsoleAssumption DEF printf
<1>3. CASE my_putc
  <2>1. /\ out # << >> /\ video_return(running) \in Terms \cup {VIDEO} /\ running \in Terms
        /\ x_cursor[running] \in Xs /\ y_cursor[running] \in Ys
    BY <1>3 DEF my_putc, video_return
  <2>2. Head(out) \in Chars \cup {NL} /\ Tail(out) \in Seq(Chars \cup {NL})
    BY <2>1, TextType
  <2>3. /\ PutAt(video_return(running), x_cursor[running], y_cursor[running], Head(out))
        /\ out' = Tail(out)
        /\ UNCHANGED << kernel, who, vidmap, note, printing >>
    BY <1>3 DEF my_putc
  <2>4. PICK a \in Terms \cup {VIDEO}, px \in Xs, py \in Ys, c \in Chars \cup {NL} :
           PutAt(a, px, py, c)
    BY <2>1, <2>2, <2>3
  <2>5. /\ video' \in Grids /\ back' \in [Terms -> Grids]
        /\ x_cursor' \in [Terms -> Xs] /\ y_cursor' \in [Terms -> Ys]
    BY <2>4, PutType
  <2> QED BY <2>2, <2>3, <2>5
<1>4. CASE putc
  <2> DEFINE e == Emit(video, screen_x, screen_y, Head(note))
  <2>1. note # << >>
    BY <1>4 DEF putc
  <2>2. Head(note) \in Chars \cup {NL} /\ Tail(note) \in Seq(Chars \cup {NL})
    BY <2>1, TextType
  <2>3. e.g \in Grids /\ e.x \in Xs /\ e.y \in Ys
    BY <2>2, EmitType
  <2>4. /\ video' = e.g /\ screen_x' = e.x /\ screen_y' = e.y /\ note' = Tail(note)
        /\ UNCHANGED << back, cursor, who, vidmap, out, printing >>
    BY <1>4 DEF putc
  <2> HIDE DEF e
  <2> QED BY <2>2, <2>3, <2>4
<1>5. CASE key_putc
  <2>1. PICK c \in (Chars \ {SP}) \cup {NL} : key_putc!(c)
    BY <1>5 DEF key_putc
  <2> DEFINE e == Emit(video, x_cursor[active_terminal], y_cursor[active_terminal], c)
  <2>2. e.g \in Grids /\ e.x \in Xs /\ e.y \in Ys
    BY EmitType
  <2>3. video' = e.g /\ MoveTo(e.x, e.y) /\ UNCHANGED << back, who, vidmap, output, printing >>
    BY <2>1
  <2> HIDE DEF e
  <2>4. /\ x_cursor' \in [Terms -> Xs] /\ y_cursor' \in [Terms -> Ys]
        /\ screen_x' \in Xs /\ screen_y' \in Ys
    BY <2>2, <2>3, MoveType
  <2> QED BY <2>2, <2>3, <2>4
<1>6. CASE _backspace
  <2> DEFINE px == x_cursor[active_terminal]
             py == y_cursor[active_terminal]
             bx == IF px = 0 THEN Cols - 1 ELSE px - 1
             by == IF px = 0 THEN py - 1 ELSE py
  <2>1. UNCHANGED << who, vidmap, output, printing >>
    BY <1>6 DEF _backspace
  <2>2. CASE UNCHANGED << cells, cursor >> /\ screen_x' = 0 /\ screen_y' = 0
    BY <1>0, <2>1, <2>2
  <2>3. CASE /\ bx \in Xs /\ by \in Ys
             /\ video' = [video EXCEPT ![by][bx] = SP]
             /\ MoveTo(bx, by) /\ UNCHANGED back
    <3> HIDE DEF bx, by
    <3>1. video' \in Grids
      BY <2>3, ConsoleAssumption DEF Grids
    <3>2. /\ x_cursor' \in [Terms -> Xs] /\ y_cursor' \in [Terms -> Ys]
          /\ screen_x' \in Xs /\ screen_y' \in Ys
      BY <2>3, MoveType
    <3> QED BY <2>1, <2>3, <3>1, <3>2
  <2> QED BY <1>6, <2>2, <2>3, BackspaceIs
<1>7. CASE my_clear
  <2>1. PICK s \in Texts \cup {<< >>} : my_clear!(s)
    BY <1>7 DEF my_clear
  <2>2. s \in Seq(Chars \cup {NL})
    BY AllText
  <2> QED BY <1>0, <2>1, <2>2, BlankType
<1>8. CASE switch_terminal
  BY <1>8 DEF switch_terminal, SaveScreen
<1>9. CASE switch_first
  BY <1>9 DEF switch_first, SaveScreen
<1>10. CASE scheduler_handler
  BY <1>10 DEF scheduler_handler, get_vid_mem
<1>11. CASE system_vidmap
  BY <1>11 DEF system_vidmap
<1>12. CASE Draw
  <2>1. PICK y \in Ys, x \in Xs, c \in Chars : Draw!(y, x, c)
    BY <1>12 DEF Draw
  <2> DEFINE g == [At(page) EXCEPT ![y][x] = c]
  <2>2. g \in Grids
    BY AtType DEF Grids
  <2>3. Store(page, g) /\ UNCHANGED << cursor, kernel, who, vidmap, output, printing >>
    BY <2>1
  <2> HIDE DEF g
  <2>4. video' \in Grids /\ back' \in [Terms -> Grids]
    BY <2>2, <2>3, StoreType
  <2> QED BY <2>3, <2>4
<1>13. CASE Quit
  <2>1. << >> \in Seq(Chars \cup {NL})
    BY AllText
  <2> QED BY <1>13, <2>1 DEF Quit
<1>14. CASE execute_full
  BY <1>14, AllText DEF execute_full, Free
<1>15. CASE puts_look
  <2>1. running \in Terms /\ video_return(running) \in Terms \cup {VIDEO}
    BY DEF video_return
  <2> QED BY <1>15, <2>1 DEF puts_look, Spots
<1>16. CASE puts_store
  <2>1. PICK p \in spot[running] : puts_store!(p)
    BY <1>16 DEF puts_store
  <2>2. running \in Terms /\ p \in Spots /\ puts[running] # << >>
        /\ puts[running] \in Seq(Chars \cup {NL})
    BY <2>1
  <2>3. /\ p.addr \in Terms \cup {VIDEO} /\ p.x \in Xs /\ p.y \in Ys
        /\ Head(puts[running]) \in Chars \cup {NL}
        /\ Tail(puts[running]) \in Seq(Chars \cup {NL})
    BY <2>2, TextType DEF Spots
  <2>4. PutAt(p.addr, p.x, p.y, Head(puts[running]))
    BY <2>1
  <2>5. /\ puts' = [puts EXCEPT ![running] = Tail(puts[running])]
        /\ spot' = [spot EXCEPT ![running] = {}]
        /\ UNCHANGED << kernel, who, vidmap, output >>
    BY <2>1
  <2>6. PICK a \in Terms \cup {VIDEO}, px \in Xs, py \in Ys, c \in Chars \cup {NL} :
           PutAt(a, px, py, c)
    BY <2>3, <2>4
  <2>7. /\ video' \in Grids /\ back' \in [Terms -> Grids]
        /\ x_cursor' \in [Terms -> Xs] /\ y_cursor' \in [Terms -> Ys]
    BY <2>6, PutType
  <2> QED BY <2>2, <2>3, <2>5, <2>7
<1> QED BY <1>1, <1>2, <1>3, <1>4, <1>5, <1>6, <1>7, <1>8, <1>9, <1>10, <1>11,
           <1>12, <1>13, <1>14, <1>15, <1>16 DEF Next

\* No sequence of output, keys, switches and mappings moves a cursor off its
\* screen or a store out of its page, overlaps included.
THEOREM CursorsOnScreen == Spec => []TypeOK
<1>1. TypeInv /\ [Next]_vars => TypeInv'
  <2>1. ASSUME TypeInv, UNCHANGED vars PROVE TypeInv'
    BY <2>1 DEF vars, cells, cursor, kernel, who, vidmap, output, printing, TypeInv, TypeOK
  <2> QED BY <2>1, TypeStep
<1>2. TypeInv => TypeOK
  BY DEF TypeInv
<1> QED BY TypeInit, <1>1, <1>2, PTL DEF Spec

-----------------------------------------------------------------------------
(* One screen for each terminal, when nothing overlaps *)

\* The page of a program that draws is that of its terminal's screen.
PageInv ==
    /\ active_terminal \in started
    /\ mapped \subseteq started
    /\ running \in mapped => page = get_vid_mem(running)

\* Where execute is about to print is where its program prints, and nothing
\* else is printing.
SpotInv ==
    \A t \in Terms : \A p \in spot[t] :
        /\ t = running /\ Ready
        /\ p = [addr |-> video_return(t), x |-> x_cursor[t], y |-> y_cursor[t]]

RefInv == TypeInv /\ PageInv /\ SpotInv

Cur == [t \in Terms |-> [row |-> y_cursor[t], col |-> x_cursor[t]]]

\* The screen that a terminal sees is the one at the address of its output.
LEMMA ScreenType ==
    ASSUME TypeOK
    PROVE  /\ Screen \in [Terms -> Grids]
           /\ Screen[active_terminal] = video
           /\ \A t \in Terms : Screen[t] = At(video_return(t))
BY NotVideo DEF TypeOK, Screen, At, video_return

\* A store where terminal t prints changes the screen of t only.
LEMMA ScreenStore ==
    ASSUME TypeOK, NEW t \in Terms, NEW g, Store(video_return(t), g),
           active_terminal' = active_terminal
    PROVE  Screen' = [Screen EXCEPT ![t] = g]
BY NotVideo DEF TypeOK, Screen, Store, video_return

\* The grids of the two levels.
LEMMA SameGrids ==
    /\ Abs!Blank = Blank
    /\ \A g \in Grids : Abs!Up(g) = Scrolled(g)
<1>1. Abs!Blank = Blank
  BY DEF Abs!Blank, Abs!LastRow, Blank, Ys, Xs
<1>2. ASSUME NEW g \in Grids PROVE Abs!Up(g) = Scrolled(g)
  <2>1. \A r \in Ys : (r < Rows - 1 <=> r # Rows - 1)
    BY ConsoleAssumption DEF Ys
  <2> QED BY <1>1, <2>1 DEF Abs!Up, Abs!LastRow, Scrolled, Ys
<1> QED BY <1>1, <1>2

\* A character printed at the cursor of t is one character of ConsoleAbs.
LEMMA PutStep ==
    ASSUME TypeOK, NEW t \in Terms, NEW c \in Chars \cup {NL}, NEW e,
           e = Emit(Screen[t], x_cursor[t], y_cursor[t], c),
           Screen' = [Screen EXCEPT ![t] = e.g],
           x_cursor' = [x_cursor EXCEPT ![t] = e.x],
           y_cursor' = [y_cursor EXCEPT ![t] = e.y]
    PROVE  Abs!Put(t, c)
<1> DEFINE px == x_cursor[t]
           py == y_cursor[t]
           h  == Inked(Screen[t], px, py, c)
<1>1. px \in Xs /\ py \in Ys /\ Screen[t] \in Grids
  BY ScreenType DEF TypeOK
<1>2. /\ e.g = IF Ends(px, c) /\ py = Rows - 1 THEN Scrolled(h) ELSE h
      /\ e.x = IF Ends(px, c) THEN 0 ELSE px + 1
      /\ e.y = IF Ends(px, c) /\ py # Rows - 1 THEN py + 1 ELSE py
  BY <1>1, EmitIs
<1>3. Abs!Up(h) = Scrolled(h)
  BY <1>1, InkedType, SameGrids
<1>4. Cur[t] = [row |-> py, col |-> px] /\ Cur[t].row = py /\ Cur[t].col = px
  BY DEF Cur
<1>5. Cur' = [Cur EXCEPT ![t] = [row |-> e.y, col |-> e.x]]
  BY DEF Cur, TypeOK
<1>6. e.g = IF Ends(px, c) THEN Abs!Down(h, py) ELSE h
  BY <1>2, <1>3 DEF Abs!Down, Abs!LastRow
<1>7. [row |-> e.y, col |-> e.x] =
        IF Ends(px, c) THEN Abs!Below(py) ELSE [row |-> py, col |-> px + 1]
  BY <1>2 DEF Abs!Below, Abs!LastRow
<1>8. h = IF c = NL THEN Screen[t] ELSE [Screen[t] EXCEPT ![py][px] = c]
  BY DEF Inked
<1>9. Ends(px, c) <=> c = NL \/ px = Cols - 1
  BY DEF Ends
<1> HIDE DEF h, px, py
<1>10. /\ Screen' = [Screen EXCEPT ![t] = IF Ends(px, c) THEN Abs!Down(h, py) ELSE h]
       /\ Cur' = [Cur EXCEPT ![t] = IF Ends(px, c) THEN Abs!Below(py)
                                    ELSE [row |-> py, col |-> px + 1]]
  BY <1>5, <1>6, <1>7, Zenon
<1> QED BY <1>4, <1>8, <1>9, <1>10, Zenon DEF Abs!Put, Cur

\* What maps the page follows what is shown and what runs.
LEMMA PageStep ==
    ASSUME RefInv, Next, Overlaps = {}
    PROVE  PageInv'
<1> USE DEF RefInv, PageInv, TypeInv, TypeOK, get_vid_mem, cells, cursor, kernel, who,
            vidmap, output, printing
<1>1. CASE terminal_write \/ printf \/ my_putc \/ putc \/ key_putc \/ _backspace
           \/ my_clear \/ Draw \/ execute_full \/ puts_look \/ puts_store
  <2>1. UNCHANGED << active_terminal, running, started, page, mapped >>
    BY <1>1 DEF terminal_write, printf, my_putc, putc, key_putc, _backspace, my_clear, Draw,
                    execute_full, puts_look, puts_store
  <2> QED BY <2>1
<1>2. CASE switch_terminal
  BY <1>2 DEF switch_terminal
<1>3. CASE switch_first
  BY <1>3 DEF switch_first
<1>4. CASE scheduler_handler
  BY <1>4 DEF scheduler_handler
<1>5. CASE system_vidmap
  BY <1>5 DEF system_vidmap
<1>6. CASE Quit
  BY <1>6 DEF Quit
<1> QED BY <1>1, <1>2, <1>3, <1>4, <1>5, <1>6 DEF Next

\* An interrupt finds no address that execute has looked up.
LEMMA NoSpots ==
    ASSUME RefInv, Overlaps = {}, Interrupted \/ Free \/ ~Ready
    PROVE  \A t \in Terms : spot[t] = {}
<1>1. running \in Terms
  BY DEF RefInv, TypeInv, TypeOK
<1>2. CASE Interrupted
  BY <1>2 DEF Interrupted, RefInv, SpotInv
<1>3. CASE Free
  BY <1>1, <1>3 DEF Free, RefInv, SpotInv, TypeInv
<1>4. CASE ~Ready
  BY <1>4 DEF RefInv, SpotInv
<1> QED BY <1>2, <1>3, <1>4

\* So the address is still right when the character is stored.
LEMMA SpotStep ==
    ASSUME RefInv, Next, Overlaps = {}
    PROVE  SpotInv'
<1> USE DEF cells, cursor, kernel, who, vidmap, output, printing
<1>0. running \in Terms /\ spot \in [Terms -> SUBSET Spots]
  BY DEF RefInv, TypeInv, TypeOK
<1>1. CASE execute_full \/ terminal_write \/ system_vidmap \/ Draw
  <2>1. Free /\ spot' = spot
    BY <1>1 DEF execute_full, terminal_write, system_vidmap, Draw
  <2> QED BY <2>1, NoSpots DEF SpotInv
<1>2. CASE printf \/ key_putc \/ _backspace \/ my_clear \/ switch_terminal \/ switch_first
           \/ scheduler_handler
  <2>1. Interrupted /\ spot' = spot
    BY <1>2 DEF printf, key_putc, _backspace, my_clear, switch_terminal, switch_first,
                scheduler_handler
  <2> QED BY <2>1, NoSpots DEF SpotInv
<1>3. CASE my_putc \/ putc
  <2>1. ~Ready /\ spot' = spot
    BY <1>3 DEF my_putc, putc, Ready
  <2> QED BY <2>1, NoSpots DEF SpotInv
<1>4. CASE puts_look
  <2>1. \A t \in Terms : t # running => spot[t] = {}
    BY DEF RefInv, SpotInv
  <2> QED BY <1>0, <1>4, <2>1 DEF puts_look, SpotInv, Ready, video_return
<1>5. CASE puts_store \/ Quit
  <2>1. spot' = [spot EXCEPT ![running] = {}]
    BY <1>5 DEF puts_store, Quit
  <2>2. \A t \in Terms : t # running => spot[t] = {}
    BY DEF RefInv, SpotInv
  <2> QED BY <1>0, <2>1, <2>2 DEF SpotInv
<1> QED BY <1>1, <1>2, <1>3, <1>4, <1>5 DEF Next

\* Copying the screens changes none of them.
LEMMA SwitchScreens ==
    ASSUME TypeOK, NEW t \in Terms, t # active_terminal,
           back' = SaveScreen, video' = back[t], active_terminal' = t
    PROVE  Screen' = Screen
BY DEF TypeOK, SaveScreen, Screen

\* A step that touches neither cells nor cursors nor what is shown or noted.
Still == UNCHANGED << video, back, x_cursor, y_cursor, active_terminal >>

\* Such a step is a stutter of the abstract console.
LEMMA StillScreens ==
    ASSUME Still
    PROVE  Screen' = Screen /\ Cur' = Cur /\ active_terminal' = active_terminal
BY DEF Still, Screen, Cur

\* Every step of the console is one of ConsoleAbs, or none.
LEMMA RefStep ==
    ASSUME RefInv, Next, Overlaps = {}
    PROVE  [Abs!AbsNext]_(Abs!absVars)
<1> USE DEF cells, cursor, kernel, who, vidmap, output, printing
<1>0. TypeOK /\ active_terminal \in Terms /\ running \in Terms
  BY DEF RefInv, TypeInv, TypeOK
<1>1. CASE terminal_write
  <2>1. Still /\ UNCHANGED << running, note >>
    BY <1>1 DEF terminal_write, Still
  <2> QED BY <2>1, StillScreens DEF Abs!absVars, Cur
<1>2. CASE printf
  <2>1. Still /\ UNCHANGED running /\ note = << >>
    BY <1>2 DEF printf, Still, Interrupted, Ready
  <2>2. CASE note' = << >>
    BY <2>1, <2>2, StillScreens DEF Abs!absVars, Cur
  <2>3. CASE note' # << >>
    <3>1. Abs!Notice
      BY <2>1, <2>3, StillScreens DEF Abs!Notice, Cur
    <3> QED BY <3>1 DEF Abs!AbsNext
  <2> QED BY <2>2, <2>3
<1>3. CASE my_putc \/ puts_store
  <2>1. PICK c \in Chars \cup {NL} :
           PutAt(video_return(running), x_cursor[running], y_cursor[running], c)
    <3>1. CASE my_putc
      BY <3>1, TextType DEF my_putc, RefInv, TypeInv
    <3>2. CASE puts_store
      <4>1. PICK p \in spot[running] : puts_store!(p)
        BY <3>2 DEF puts_store
      <4>2. p = [addr |-> video_return(running), x |-> x_cursor[running],
                 y |-> y_cursor[running]]
        BY <1>0, <4>1 DEF RefInv, SpotInv
      <4>3. Head(puts[running]) \in Chars \cup {NL}
        BY <1>0, <4>1, TextType DEF RefInv, TypeInv
      <4>4. PutAt(p.addr, p.x, p.y, Head(puts[running]))
        BY <4>1
      <4> QED BY <4>2, <4>3, <4>4
    <3> QED BY <1>3, <3>1, <3>2
  <2> DEFINE e == Emit(Screen[running], x_cursor[running], y_cursor[running], c)
  <2>2. UNCHANGED << active_terminal, running, note >>
    BY <1>3 DEF my_putc, puts_store
  <2>3. e = Emit(At(video_return(running)), x_cursor[running], y_cursor[running], c)
    BY <1>0, ScreenType
  <2>4. /\ Store(video_return(running), e.g)
        /\ x_cursor' = [x_cursor EXCEPT ![running] = e.x]
        /\ y_cursor' = [y_cursor EXCEPT ![running] = e.y]
    BY <2>1, <2>3 DEF PutAt
  <2>5. e = Emit(Screen[running], x_cursor[running], y_cursor[running], c)
    OBVIOUS
  <2> HIDE DEF e
  <2>6. Screen' = [Screen EXCEPT ![running] = e.g]
    BY <1>0, <2>2, <2>4, ScreenStore
  <2>7. Abs!Put(running, c)
    BY <1>0, <2>4, <2>5, <2>6, PutStep
  <2>8. Abs!Say(c)
    BY <2>2, <2>7 DEF Abs!Say
  <2> QED BY <2>8 DEF Abs!AbsNext
<1>4. CASE putc
  <2> DEFINE c == Head(note)
             e == Emit(video, screen_x, screen_y, c)
             h == Inked(video, screen_x, screen_y, c)
  <2>1. /\ note # << >> /\ video' = e.g
        /\ UNCHANGED << back, x_cursor, y_cursor, active_terminal, running >>
    BY <1>4 DEF putc
  <2>2. c \in Chars \cup {NL}
    BY <2>1, TextType DEF RefInv, TypeInv
  <2>3. screen_x \in Xs /\ screen_y \in Ys /\ video \in Grids
    BY <1>0 DEF TypeOK
  <2>4. h \in Grids
    BY <2>2, <2>3, InkedType
  <2>5. e.g \in {h, Abs!Up(h)}
    BY <2>2, <2>3, <2>4, EmitIs, SameGrids
  <2>6. h = IF c = NL THEN video ELSE [video EXCEPT ![screen_y][screen_x] = c]
    BY DEF Inked
  <2> HIDE DEF e, h
  <2>7. Store(video_return(active_terminal), e.g)
    BY <2>1 DEF Store, video_return
  <2>8. Screen' = [Screen EXCEPT ![active_terminal] = e.g] /\ Screen[active_terminal] = video
    BY <1>0, <2>1, <2>7, ScreenStore, ScreenType
  <2>9. h = IF c = NL THEN Screen[active_terminal]
            ELSE [Screen[active_terminal] EXCEPT ![screen_y][screen_x] = c]
    BY <2>6, <2>8
  <2>10. Screen' \in {[Screen EXCEPT ![active_terminal] = k] : k \in {h, Abs!Up(h)}}
    BY <2>5, <2>8
  <2>11. screen_y \in 0 .. Abs!LastRow /\ screen_x \in 0 .. Cols - 1
    BY <2>3 DEF Xs, Ys, Abs!LastRow
  <2>12. Cur' = Cur /\ UNCHANGED << active_terminal, running >> /\ (note' # << >>) \in BOOLEAN
    BY <2>1 DEF Cur
  <2>13. Abs!Message
    BY <2>1, <2>2, <2>9, <2>10, <2>11, <2>12, Zenon DEF Abs!Message, Cur
  <2> QED BY <2>13 DEF Abs!AbsNext
<1>5. CASE key_putc
  <2>1. PICK c \in (Chars \ {SP}) \cup {NL} : key_putc!(c)
    BY <1>5 DEF key_putc
  <2> DEFINE t == active_terminal
             e == Emit(video, x_cursor[t], y_cursor[t], c)
  <2>2. /\ video' = e.g /\ MoveTo(e.x, e.y)
        /\ UNCHANGED << back, active_terminal, running, note >>
    BY <2>1
  <2>3. e = Emit(Screen[t], x_cursor[t], y_cursor[t], c)
    BY <1>0, ScreenType
  <2> HIDE DEF e
  <2>4. Store(video_return(t), e.g)
    BY <2>2 DEF Store, video_return
  <2>5. Screen' = [Screen EXCEPT ![t] = e.g]
    BY <1>0, <2>2, <2>4, ScreenStore
  <2>6. Abs!Put(t, c)
    BY <1>0, <2>2, <2>3, <2>5, PutStep DEF MoveTo
  <2>7. Abs!Echo(c)
    BY <2>2, <2>6 DEF Abs!Echo
  <2> QED BY <2>7 DEF Abs!AbsNext
<1>6. CASE _backspace
  <2> DEFINE t  == active_terminal
             px == x_cursor[t]
             py == y_cursor[t]
             bx == IF px = 0 THEN Cols - 1 ELSE px - 1
             by == IF px = 0 THEN py - 1 ELSE py
  <2>1. UNCHANGED << active_terminal, running, note >>
    BY <1>6 DEF _backspace
  <2>2. CASE UNCHANGED << cells, cursor >>
    <3>1. Still
      BY <2>1, <2>2 DEF Still
    <3> QED BY <2>1, <3>1, StillScreens DEF Abs!absVars, Cur
  <2>3. CASE /\ bx \in Xs /\ by \in Ys /\ ~(px = 0 /\ py = 0)
             /\ video' = [video EXCEPT ![by][bx] = SP]
             /\ MoveTo(bx, by) /\ UNCHANGED back
    <3>1. Cur[t].row = py /\ Cur[t].col = px
      BY <1>0 DEF Cur
    <3> DEFINE p == IF px = 0 THEN [row |-> py - 1, col |-> Cols - 1]
                              ELSE [row |-> py, col |-> px - 1]
    <3>2. p = [row |-> by, col |-> bx] /\ p.row = by /\ p.col = bx
      OBVIOUS
    <3> DEFINE g == [video EXCEPT ![by][bx] = SP]
    <3>3. Store(video_return(t), g)
      BY <2>3 DEF Store, video_return
    <3>4. Screen' = [Screen EXCEPT ![t] = g] /\ Screen[t] = video /\ Screen \in [Terms -> Grids]
      BY <1>0, <2>1, <3>3, ScreenStore, ScreenType
    <3>5. Cur' = [Cur EXCEPT ![t] = [row |-> by, col |-> bx]]
      <4> HIDE DEF by, bx
      <4> QED BY <1>0, <2>1, <2>3 DEF Cur, MoveTo, TypeOK
    <3> HIDE DEF p, by, bx
    <3>6. Screen' = [Screen EXCEPT ![t][p.row][p.col] = SP]
      BY <3>2, <3>4
    <3>7. << py, px >> # << 0, 0 >>
      BY <2>3
    <3>8. Cur' = [Cur EXCEPT ![t] = p]
      BY <3>2, <3>5, Zenon
    <3>9. Abs!Erase
      BY <2>1, <3>1, <3>6, <3>7, <3>8, Zenon DEF Abs!Erase, Cur, p
    <3> QED BY <3>9 DEF Abs!AbsNext
  <2> QED BY <1>0, <1>6, <2>2, <2>3, BackspaceIs
<1>7. CASE my_clear
  <2>1. /\ video' = Blank
        /\ UNCHANGED << back, x_cursor, y_cursor, active_terminal, running, note >>
    BY <1>7 DEF my_clear
  <2>2. Store(video_return(active_terminal), Blank)
    BY <2>1 DEF Store, video_return
  <2>3. Screen' = [Screen EXCEPT ![active_terminal] = Abs!Blank]
    BY <1>0, <2>1, <2>2, ScreenStore, SameGrids
  <2>4. Abs!Wipe
    BY <2>1, <2>3 DEF Abs!Wipe
  <2> QED BY <2>4 DEF Abs!AbsNext
<1>8. CASE switch_terminal \/ switch_first
  <2>1. PICK t \in Terms \ {active_terminal} :
           /\ back' = SaveScreen /\ video' = back[t] /\ active_terminal' = t
           /\ running' \in {running, t} /\ UNCHANGED << x_cursor, y_cursor, note >>
    <3>1. CASE switch_terminal
      <4>1. PICK t \in started \ {active_terminal} : switch_terminal!(t)
        BY <3>1 DEF switch_terminal
      <4> QED BY <1>0, <4>1 DEF TypeOK
    <3>2. CASE switch_first
      <4>1. PICK t \in Terms \ started : switch_first!(t)
        BY <3>2 DEF switch_first
      <4>2. t # active_terminal
        BY <4>1 DEF RefInv, PageInv
      <4> QED BY <4>1, <4>2
    <3> QED BY <1>8, <3>1, <3>2
  <2>2. Screen' = Screen
    BY <1>0, <2>1, SwitchScreens
  <2>3. Abs!Show
    BY <2>1, <2>2 DEF Abs!Show
  <2> QED BY <2>3 DEF Abs!AbsNext
<1>9. CASE scheduler_handler
  <2>1. Still /\ running' \in Terms /\ UNCHANGED note
    BY <1>0, <1>9 DEF scheduler_handler, Still, TypeOK
  <2>2. Abs!Turn
    BY <2>1, StillScreens DEF Abs!Turn, Cur
  <2> QED BY <2>2 DEF Abs!AbsNext
<1>10. CASE system_vidmap \/ Quit \/ execute_full \/ puts_look
  <2>1. Still /\ UNCHANGED << running, note >>
    BY <1>10 DEF system_vidmap, Quit, execute_full, puts_look, Still
  <2> QED BY <2>1, StillScreens DEF Abs!absVars, Cur
<1>11. CASE Draw
  <2>1. PICK y \in Ys, x \in Xs, c \in Chars : Draw!(y, x, c)
    BY <1>11 DEF Draw
  <2>2. page = video_return(running)
    BY <2>1 DEF RefInv, PageInv, get_vid_mem, video_return
  <2> DEFINE g == [Screen[running] EXCEPT ![y][x] = c]
  <2>3. Store(video_return(running), g)
        /\ UNCHANGED << active_terminal, running, note, x_cursor, y_cursor >>
    BY <1>0, <2>1, <2>2, ScreenType
  <2>4. Screen' = [Screen EXCEPT ![running] = g]
    BY <1>0, <2>3, ScreenStore
  <2>5. Screen' = [Screen EXCEPT ![running][y][x] = c]
    BY <2>4
  <2>6. y \in 0 .. Abs!LastRow /\ x \in 0 .. Cols - 1
    BY DEF Xs, Ys, Abs!LastRow
  <2>7. Abs!Plot
    BY <2>3, <2>5, <2>6 DEF Abs!Plot
  <2> QED BY <2>7 DEF Abs!AbsNext
<1> QED BY <1>1, <1>2, <1>3, <1>4, <1>5, <1>6, <1>7, <1>8, <1>9, <1>10, <1>11 DEF Next

\* At boot one blank screen is shown, and its shell runs.
LEMMA RefInit ==
    ASSUME Init
    PROVE  RefInv /\ Abs!AbsInit
<1>1. RefInv
  BY TypeInit DEF RefInv, PageInv, SpotInv, Init
<1>2. Screen = [t \in Terms |-> Abs!Blank]
  BY SameGrids DEF Init, Screen
<1>3. Cur = [t \in Terms |-> [row |-> 0, col |-> 0]]
  BY DEF Init, Cur
<1>4. active_terminal \in Terms /\ running = active_terminal /\ note = << >>
  BY ConsoleAssumption DEF Init
<1> QED BY <1>1, <1>2, <1>3, <1>4 DEF Abs!AbsInit, Cur

\* When no key and no call falls where Overlaps says, the console implements
\* ConsoleAbs: my_putc, the copying of video memory by switch_terminal and the
\* page that scheduler_handler maps keep one screen and one cursor per terminal.
THEOREM OneScreen ==
    ASSUME Overlaps = {}
    PROVE  Spec => OneScreenEach
<1>1. Init => RefInv /\ Abs!AbsInit
  BY RefInit
<1>2. RefInv /\ [Next]_vars => RefInv'
  <2>1. ASSUME RefInv, Next PROVE RefInv'
    BY <2>1, TypeStep, PageStep, SpotStep DEF RefInv
  <2>2. ASSUME RefInv, UNCHANGED vars PROVE RefInv'
    BY <2>2 DEF vars, cells, cursor, kernel, who, vidmap, output, printing, RefInv, TypeInv,
                TypeOK, PageInv, get_vid_mem, SpotInv, Ready, video_return
  <2> QED BY <2>1, <2>2
<1>3. RefInv /\ [Next]_vars => [Abs!AbsNext]_(Abs!absVars)
  <2>1. ASSUME UNCHANGED vars PROVE UNCHANGED Abs!absVars
    <3>1. Still /\ UNCHANGED << running, note >>
      BY <2>1 DEF vars, cells, cursor, who, output, Still
    <3> QED BY <3>1, StillScreens DEF Abs!absVars, Cur
  <2> QED BY <2>1, RefStep
<1> QED BY <1>1, <1>2, <1>3, PTL DEF Spec, OneScreenEach, Abs!AbsSpec
=============================================================================
