---------------------------- MODULE DevicesProofs ----------------------------
(***************************************************************************)
(* What holds of Devices for any number of terminals, any size of the      *)
(* line buffer and any users of the clock.                                 *)
(***************************************************************************)
EXTENDS Devices, OrderLemmas, SequenceTheorems, TLAPS

-----------------------------------------------------------------------------
(* Lines and saved lines *)

\* The lines that fit into a buffer.
LEMMA LineIs ==
    ASSUME NEW s
    PROVE  s \in Lines <=> s \in Seq(AllLetters) /\ Len(s) < BufSize
<1>1. ASSUME s \in Lines PROVE s \in Seq(AllLetters) /\ Len(s) < BufSize
  <2>1. PICK len \in Index : s \in [1 .. len -> AllLetters]
    BY <1>1 DEF Lines
  <2>2. len \in Nat /\ len < BufSize
    BY TtyAssumption DEF Index
  <2> QED BY <2>1, <2>2
<1>2. ASSUME s \in Seq(AllLetters), Len(s) < BufSize PROVE s \in Lines
  <2>1. Len(s) \in Index /\ s \in [1 .. Len(s) -> AllLetters]
    BY <1>2, TtyAssumption, LenProperties DEF Index
  <2> QED BY <2>1 DEF Lines
<1> QED BY <1>1, <1>2

\* The line buffer may be empty.
LEMMA EmptyLine == << >> \in Lines
<1> DEFINE e == << >>
<1>1. e \in Seq(AllLetters) /\ Len(e) = 0
  OBVIOUS
<1> HIDE DEF e
<1>2. Len(e) < BufSize
  BY <1>1, TtyAssumption
<1>3. e \in Lines
  BY <1>1, <1>2, LineIs
<1> QED BY <1>3 DEF e

\* A character key keeps the line in its buffer.
LEMMA ExtendedIs ==
    ASSUME NEW S, NEW s \in Seq(S), Len(s) < BufSize, NEW c \in S
    PROVE  Extended(s, c) \in Seq(S) /\ Len(Extended(s, c)) < BufSize
<1>1. Len(s) \in Nat
  OBVIOUS
<1>2. CASE Len(s) = BufSize - 1
  BY <1>2 DEF Extended
<1>3. CASE Len(s) # BufSize - 1
  <2>1. Len(s) + 1 < BufSize
    BY <1>1, <1>3, TtyAssumption
  <2> QED BY <1>3, <2>1 DEF Extended
<1> QED BY <1>2, <1>3

\* So does the completion of a name.
LEMMA CompletedIs ==
    ASSUME NEW S, NEW s \in Seq(S), Len(s) < BufSize, NEW c \in S, NEW len \in Nat
    PROVE  LET room == BufSize - 1 - Len(s)
               all  == s \o [k \in 1 .. Min({len, room}) |-> c]
           IN  all \in Seq(S) /\ Len(all) < BufSize
<1> DEFINE room == BufSize - 1 - Len(s)
           m    == Min({len, room})
           rest == [k \in 1 .. m |-> c]
<1>1. Len(s) \in Nat
  OBVIOUS
<1>2. room \in Nat /\ Len(s) + room < BufSize
  BY <1>1, TtyAssumption
<1>3. m \in {len, room} /\ m <= room
  BY <1>2, MinIn
<1>4. m \in Nat /\ Len(s) + m < BufSize
  BY <1>1, <1>2, <1>3, TtyAssumption
<1> HIDE DEF m, room
<1>5. rest \in Seq(S) /\ Len(rest) = m
  BY <1>4
<1> HIDE DEF rest
<1>6. s \o rest \in Seq(S) /\ Len(s \o rest) = Len(s) + m
  BY <1>5
<1> QED BY <1>4, <1>6 DEF rest, m, room

\* The line without its last character.
LEMMA ShortenedIs ==
    ASSUME NEW S, NEW s \in Seq(S), Len(s) < BufSize, s # << >>
    PROVE  SubSeq(s, 1, Len(s) - 1) \in Seq(S) /\ Len(SubSeq(s, 1, Len(s) - 1)) < BufSize
<1>1. Len(s) \in Nat \ {0}
  BY EmptySeq
<1>2. SubSeq(s, 1, Len(s) - 1) \in Seq(S) /\ Len(SubSeq(s, 1, Len(s) - 1)) = Len(s) - 1
  <2>1. 1 \in 1 .. Len(s) + 1 /\ Len(s) - 1 \in 0 .. Len(s)
    BY <1>1
  <2>2. Len(s) - 1 - 1 + 1 = Len(s) - 1
    BY <1>1
  <2> QED BY <2>1, <2>2, SubSeqProperties
<1> QED BY <1>1, <1>2, TtyAssumption

-----------------------------------------------------------------------------
(* Types, whatever keys fall inside a read *)

\* A line and its newline fit into the array.
LEMMA SavedType ==
    ASSUME NEW arr \in [Index -> Chars], NEW s \in Seq(AllLetters), Len(s) < BufSize
    PROVE  Saved(arr, s) \in [Index -> Chars]
<1>1. ASSUME NEW k \in Index, k < Len(s) PROVE s[k + 1] \in Chars
  <2>1. k + 1 \in 1 .. Len(s)
    BY <1>1, TtyAssumption DEF Index
  <2> QED BY <2>1 DEF Chars
<1>2. ASSUME NEW k \in Index
      PROVE  (IF k < Len(s) THEN s[k + 1] ELSE IF k = Len(s) THEN NL ELSE arr[k]) \in Chars
  BY <1>1 DEF Chars
<1> QED BY <1>2 DEF Saved

\* What is typed on a terminal is a letter.
LEMMA LetterOfAll ==
    ASSUME NEW t \in Terms, NEW c \in Letters[t]
    PROVE  c \in AllLetters
BY DEF AllLetters

\* Every step keeps the line inside of its buffer.
LEMMA TypeStep ==
    ASSUME TypeOK, DevNext
    PROVE  TypeOK'
<1> USE DEF TypeOK, reader, ghosts
<1>0. line[active_terminal] \in Seq(AllLetters) /\ Len(line[active_terminal]) < BufSize
  BY LineIs
<1>1. CASE KeyChar
  <2>1. PICK c \in Letters[active_terminal] : KeyChar!(c)
    BY <1>1 DEF KeyChar
  <2>2. Extended(line[active_terminal], c) \in Lines
    BY <1>0, LetterOfAll, ExtendedIs, LineIs
  <2> QED BY <2>1, <2>2
<1>2. CASE KeyBackspace
  <2> DEFINE s == SubSeq(line[active_terminal], 1, Len(line[active_terminal]) - 1)
  <2>1. s \in Lines
    BY <1>0, <1>2, ShortenedIs, LineIs DEF KeyBackspace
  <2>2. /\ line' = [line EXCEPT ![active_terminal] = s]
        /\ UNCHANGED << active_terminal, running, save_buf, sel >>
    BY <1>2 DEF KeyBackspace
  <2> HIDE DEF s
  <2> QED BY <2>1, <2>2
<1>3. CASE KeyTab
  <2>1. PICK len \in Completions, c \in Letters[active_terminal] : KeyTab!(len, c)
    BY <1>3 DEF KeyTab
  <2> DEFINE s   == line[active_terminal]
             all == s \o [k \in 1 .. Min({len, BufSize - 1 - Len(s)}) |-> c]
  <2>2. all \in Seq(AllLetters) /\ Len(all) < BufSize
    <3>1. c \in AllLetters /\ len \in Nat
      BY LetterOfAll, TtyAssumption
    <3> HIDE DEF TypeOK
    <3> QED BY <1>0, <3>1, CompletedIs
  <2>3. /\ line' = [line EXCEPT ![active_terminal] = all]
        /\ UNCHANGED << active_terminal, running, save_buf, sel >>
    BY <2>1
  <2> HIDE DEF all
  <2> QED BY <2>2, <2>3, LineIs
<1>4. CASE KeyEnter
  <2>1. Saved(save_buf[active_terminal], line[active_terminal]) \in [Index -> Chars]
    BY <1>0, SavedType
  <2> QED BY <1>4, <2>1, EmptyLine DEF KeyEnter
<1>5. CASE KeySwitch
  BY <1>5 DEF KeySwitch
<1>6. CASE KeyCtrlC
  BY <1>6 DEF KeyCtrlC, ReadOver
<1>7. ASSUME NEW t \in Terms, Tick(t) PROVE TypeOK'
  BY <1>7 DEF Tick
<1>8. ASSUME NEW t \in Terms, ReadCall(t) PROVE TypeOK'
  BY <1>8 DEF ReadCall
<1>9. ASSUME NEW t \in Terms, ReadStep(t) PROVE TypeOK'
  <2>1. CASE ReadSelect(t) \/ ReadCheck(t) \/ ReadTest(t) \/ ReadCopy(t)
    BY <2>1 DEF ReadSelect, ReadCheck, ReadTest, ReadCopy
  <2>2. CASE ReadClear(t)
    <3>1. Cleared(save_buf[sel[t]]) \in [Index -> Chars]
      BY DEF Cleared, Chars
    <3> QED BY <2>2, <3>1 DEF ReadClear, ReadOver
  <2> QED BY <1>9, <2>1, <2>2 DEF ReadStep
<1>10. CASE UNCHANGED vars
  BY <1>10 DEF vars
<1> QED BY <1>1, <1>2, <1>3, <1>4, <1>5, <1>6, <1>7, <1>8, <1>9, <1>10
        DEF DevNext, DevKey, DevCtrlC, DevTick, DevReadCall, DevReadStep,
            DevClockCall, DevClockPoll, DevClockTick

\* No sequence of keys, completions and reads lets a line outgrow its buffer.
THEOREM LinesFit == DevSpec => []TypeOK
<1>1. DevInit => TypeOK
  BY EmptyLine DEF DevInit, Init, TypeOK, Chars
<1>2. TypeOK /\ [DevNext]_devVars => TypeOK'
  <2>1. ASSUME TypeOK, UNCHANGED devVars PROVE TypeOK'
    BY <2>1 DEF devVars, vars, reader, TypeOK
  <2> QED BY <2>1, TypeStep
<1> QED BY <1>1, <1>2, PTL DEF DevSpec

-----------------------------------------------------------------------------
(* The clock *)

\* A flag that a waiting read could see was raised since that read began.
ClockInv ==
    /\ rtc_pc = [p \in ClockUsers |-> rtc_pc[p]]
    /\ ticked = [p \in ClockUsers |-> ticked[p]]
    /\ \A p \in ClockUsers : rtc_pc[p] = "wait" /\ rtc_flag = 1 => ticked[p] = TRUE

\* Every step keeps what an rtc_read in progress knows of the ticks.
LEMMA ClockStep ==
    ASSUME ClockInv, [DevNext]_devVars
    PROVE  ClockInv'
<1> USE DEF ClockInv
<1>1. CASE UNCHANGED clock
  BY <1>1 DEF clock
<1>2. CASE R!rtc_handler
  <2>1. rtc_pc' = rtc_pc /\ ticked' = [p \in ClockUsers |-> ticked[p] \/ rtc_pc[p] = "wait"]
    BY <1>2 DEF R!rtc_handler
  <2>2. \A p \in ClockUsers : rtc_pc[p] = "wait" => ticked'[p] = TRUE
    BY <2>1, Zenon
  <2>3. ticked' = [p \in ClockUsers |-> ticked'[p]]
    BY <2>1
  <2> QED BY <2>1, <2>2, <2>3, Zenon
<1>3. ASSUME NEW p \in ClockUsers, R!rtc_read(p) PROVE ClockInv'
  <2>1. /\ rtc_flag' = 0
        /\ rtc_pc' = [rtc_pc EXCEPT ![p] = "wait"]
        /\ ticked' = [ticked EXCEPT ![p] = FALSE]
    BY <1>3 DEF R!rtc_read, R!ReadFlag
  <2>2. /\ rtc_pc' = [q \in ClockUsers |-> rtc_pc'[q]]
        /\ ticked' = [q \in ClockUsers |-> ticked'[q]]
    BY <2>1
  <2> QED BY <2>1, <2>2
<1>4. ASSUME NEW p, R!ReadOver(p), rtc_flag' = rtc_flag PROVE ClockInv'
  <2>1. /\ rtc_pc' = [rtc_pc EXCEPT ![p] = "idle"]
        /\ ticked' = [ticked EXCEPT ![p] = FALSE]
    BY <1>4 DEF R!ReadOver
  <2> QED BY <1>4, <2>1
<1>5. (\E p \in ClockUsers : R!rtc_poll(p)) \/ R!rtc_killed(running) => ClockInv'
  BY <1>4 DEF R!rtc_poll, R!Polled, R!rtc_killed
<1> QED BY <1>1, <1>2, <1>3, <1>5
        DEF DevNext, devVars, DevKey, DevCtrlC, DevTick, DevReadCall, DevReadStep,
            DevClockCall, DevClockPoll, DevClockTick

\* What ends an rtc_read is an interrupt that came after it was called, though all
\* readers share rtc_flag and each of them clears it.
THEOREM AnswersAfterTick == DevSpec => []ReturnsAfterTick
<1>1. DevInit => ClockInv
  BY DEF DevInit, R!RtcInit, ClockInv
<1>2. ClockInv => ReturnsAfterTick
  BY DEF ClockInv, ReturnsAfterTick, R!ReturnsAfterTick
<1> QED BY <1>1, ClockStep, <1>2, PTL DEF DevSpec

-----------------------------------------------------------------------------
(* Reads, when no Alt+Fn falls between the two looks at active_terminal *)

Stages == {"idle", "select", "check", "test", "copy", "clear"}

\* The line being typed at t, as a line of t's own letters.
LineInv(t) == line[t] \in Seq(Letters[t]) /\ Len(line[t]) < BufSize

\* The saved line of t.  Behind its newline the array holds rests of older ones,
\* which a copy that Enter has overtaken may run into: NULs come only behind
\* every rest, but for the first character, which a read clears.
ArrayInv(t) ==
    /\ \A k \in Index : save_buf[t][k] \in Letters[t] \cup {NL, NUL}
    /\ \A j, k \in Index : 0 < j /\ j < k /\ save_buf[t][k] # NUL => save_buf[t][j] # NUL
    /\ save_buf[t][0] # NUL => \E k \in Index : save_buf[t][k] = NL
    /\ fresh[t] = (save_buf[t][0] # NUL)

\* The read of t's process: from the test on it works on the line of t, and what
\* it has copied is the beginning of that line unless Enter came.
ReadInv(t) ==
    /\ pc[t] = "check" => sel[t] = active_terminal
    /\ pc[t] \in {"test", "copy", "clear"} => sel[t] = t
    /\ pc[t] \in {"copy", "clear"} => fresh[t] = TRUE
    /\ buf[t] \in Seq(Letters[t])
    /\ pc[t] = "copy" => \E k \in Index : Len(buf[t]) <= k /\ save_buf[t][k] = NL
    /\ pc[t] = "copy" /\ torn[t] = FALSE =>
          /\ snap[t] = Upto(save_buf[t])
          /\ \A k \in 1 .. Len(buf[t]) : buf[t][k] = save_buf[t][k - 1]
    /\ pc[t] = "clear" /\ torn[t] = FALSE => buf[t] = snap[t]

TermInv(t) == LineInv(t) /\ ArrayInv(t) /\ ReadInv(t)

Indexed ==
    /\ line = [t \in Terms |-> line[t]]
    /\ save_buf \in [Terms -> [Index -> Chars]]
    /\ pc \in [Terms -> Stages]
    /\ sel \in [Terms -> Terms]
    /\ buf = [t \in Terms |-> buf[t]]
    /\ snap = [t \in Terms |-> snap[t]]
    /\ torn \in [Terms -> BOOLEAN]
    /\ fresh \in [Terms -> BOOLEAN]
    /\ active_terminal \in Terms
    /\ running \in Terms

LineReadInv == Indexed /\ \A t \in Terms : TermInv(t)

\* What is known of a terminal depends on its own lines and reader only.
LEMMA Untouched ==
    ASSUME NEW t \in Terms, TermInv(t),
           line'[t] = line[t], save_buf'[t] = save_buf[t], fresh'[t] = fresh[t],
           pc'[t] = pc[t], sel'[t] = sel[t], buf'[t] = buf[t], snap'[t] = snap[t],
           torn'[t] = torn[t],
           active_terminal' = active_terminal \/ pc[t] # "check"
    PROVE  TermInv(t)'
BY DEF TermInv, LineInv, ArrayInv, ReadInv, Upto

\* The same when only the line being typed changes.
LEMMA Typed ==
    ASSUME LineReadInv, NEW s, LET a == active_terminal IN
               /\ line' = [line EXCEPT ![a] = s]
               /\ s \in Seq(Letters[a]) /\ Len(s) < BufSize,
           UNCHANGED << active_terminal, running, save_buf, reader, ghosts >>
    PROVE  LineReadInv'
<1> DEFINE a == active_terminal
<1> USE DEF LineReadInv, reader, ghosts
<1>1. Indexed'
  BY DEF Indexed
<1>2. ASSUME NEW t \in Terms \ {a} PROVE TermInv(t)'
  BY Untouched DEF Indexed
<1>3. LineInv(a)'
  BY DEF Indexed, LineInv
<1>4. a' = a /\ a \in Terms /\ ArrayInv(a) /\ ReadInv(a)
  BY DEF Indexed, TermInv
<1>5. ArrayInv(a)'
  BY <1>4 DEF ArrayInv
<1>6. ReadInv(a)'
  BY <1>4 DEF ReadInv, Upto
<1> QED BY <1>1, <1>2, <1>3, <1>4, <1>5, <1>6 DEF TermInv

\* The keys that edit the line of the terminal that is shown.
LEMMA KeyLineStep ==
    ASSUME LineReadInv, KeyChar \/ KeyBackspace \/ KeyTab
    PROVE  LineReadInv'
<1> DEFINE a == active_terminal
           s == line[a]
<1>0. a \in Terms /\ s \in Seq(Letters[a]) /\ Len(s) < BufSize
  BY DEF LineReadInv, Indexed, TermInv, LineInv
<1>1. CASE KeyChar
  <2>1. PICK c \in Letters[a] : KeyChar!(c)
    BY <1>1 DEF KeyChar
  <2>2. Extended(s, c) \in Seq(Letters[a]) /\ Len(Extended(s, c)) < BufSize
    BY <1>0, ExtendedIs
  <2> QED BY <2>1, <2>2, Typed
<1>2. CASE KeyBackspace
  <2> DEFINE r == SubSeq(s, 1, Len(s) - 1)
  <2>1. r \in Seq(Letters[a]) /\ Len(r) < BufSize
    BY <1>0, <1>2, ShortenedIs DEF KeyBackspace
  <2>2. /\ line' = [line EXCEPT ![a] = r]
        /\ UNCHANGED << active_terminal, running, save_buf, reader, ghosts >>
    BY <1>2 DEF KeyBackspace
  <2> HIDE DEF r
  <2> QED BY <2>1, <2>2, Typed
<1>3. CASE KeyTab
  <2>1. PICK len \in Completions, c \in Letters[a] : KeyTab!(len, c)
    BY <1>3 DEF KeyTab
  <2> DEFINE all == s \o [k \in 1 .. Min({len, BufSize - 1 - Len(s)}) |-> c]
  <2>2. all \in Seq(Letters[a]) /\ Len(all) < BufSize
    <3>1. len \in Nat
      BY TtyAssumption
    <3> QED BY <1>0, <3>1, CompletedIs
  <2>3. /\ line' = [line EXCEPT ![a] = all]
        /\ UNCHANGED << active_terminal, running, save_buf, reader, ghosts >>
    BY <2>1
  <2> HIDE DEF all
  <2> QED BY <2>2, <2>3, Typed
<1> QED BY <1>1, <1>2, <1>3

\* Enter: the newline of the new line, or the one the copy was looking for, is
\* still ahead of a copy in progress.
LEMMA EnterStep ==
    ASSUME LineReadInv, KeyEnter
    PROVE  LineReadInv'
<1> DEFINE a   == active_terminal
           s   == line[a]
           old == save_buf[a]
           new == Saved(old, s)
<1> USE DEF LineReadInv
<1>0. /\ a \in Terms /\ s \in Seq(Letters[a]) /\ Len(s) \in Nat /\ Len(s) < BufSize
      /\ old \in [Index -> Chars]
  BY DEF Indexed, TermInv, LineInv
<1>1. /\ save_buf' = [save_buf EXCEPT ![a] = new]
      /\ line' = [line EXCEPT ![a] = << >>]
      /\ torn' = [r \in Terms |-> torn[r] \/ Copying(r, a)]
      /\ fresh' = [fresh EXCEPT ![a] = TRUE]
      /\ UNCHANGED << active_terminal, running, pc, sel, buf, snap >>
  BY DEF KeyEnter, reader
<1>2. /\ \A k \in Index : k < Len(s) => new[k] = s[k + 1] /\ new[k] \in Letters[a]
      /\ \A k \in Index : k = Len(s) => new[k] = NL
      /\ \A k \in Index : k > Len(s) => new[k] = old[k]
  <2>1. \A k \in Index : k < Len(s) => k + 1 \in 1 .. Len(s)
    BY <1>0, TtyAssumption DEF Index
  <2> QED BY <1>0, <2>1, TtyAssumption DEF Saved, Index
<1>3. \A k \in Index : k <= Len(s) => new[k] # NUL
  BY <1>0, <1>2, TtyAssumption DEF NUL, NL, Index
<1>4. 0 \in Index /\ Len(s) \in Index
  BY <1>0, TtyAssumption DEF Index
<1>5. new \in [Index -> Chars]
  <2>1. s \in Seq(AllLetters)
    BY <1>0, LetterOfAll
  <2> QED BY <1>0, <2>1, SavedType
<1> HIDE DEF new
<1>6. Indexed'
  BY <1>0, <1>1, <1>5 DEF Indexed, Stages
<1>7. ASSUME NEW t \in Terms \ {a} PROVE TermInv(t)'
  <2>1. /\ line'[t] = line[t] /\ save_buf'[t] = save_buf[t] /\ fresh'[t] = fresh[t]
        /\ torn'[t] = (torn[t] \/ Copying(t, a))
    BY <1>1 DEF Indexed
  <2>2. ~Copying(t, a)
    BY <1>7 DEF Copying, TermInv, ReadInv
  <2>3. torn'[t] = torn[t]
    BY <2>1, <2>2 DEF Indexed
  <2> QED BY <1>1, <2>1, <2>3, Untouched
<1>8. line'[a] = << >> /\ save_buf'[a] = new /\ fresh'[a] = TRUE
  BY <1>0, <1>1 DEF Indexed
<1>9. LineInv(a)'
  <2>1. << >> \in Seq(Letters[a]) /\ Len(<< >>) < BufSize
    BY TtyAssumption
  <2> QED BY <1>1, <1>8, <2>1 DEF LineInv
<1>10. ArrayInv(a)'
  <2>1. ArrayInv(a)
    BY <1>0 DEF TermInv
  <2>2. \A k \in Index : new[k] \in Letters[a] \cup {NL, NUL}
    <3>1. ASSUME NEW k \in Index PROVE new[k] \in Letters[a] \cup {NL, NUL}
      <4>1. k < Len(s) \/ k = Len(s) \/ k > Len(s)
        BY <1>0, TtyAssumption DEF Index
      <4> QED BY <1>2, <2>1, <4>1 DEF ArrayInv
    <3> QED BY <3>1
  <2>3. \A j, k \in Index : 0 < j /\ j < k /\ new[k] # NUL => new[j] # NUL
    <3>1. ASSUME NEW j \in Index, NEW k \in Index, 0 < j, j < k, new[k] # NUL
          PROVE  new[j] # NUL
      <4>1. CASE j <= Len(s)
        BY <4>1, <1>3
      <4>2. CASE j > Len(s)
        <5>1. k > Len(s)
          BY <1>0, <3>1, <4>2, TtyAssumption DEF Index
        <5>2. new[k] = old[k] /\ new[j] = old[j]
          BY <1>2, <4>2, <5>1
        <5> QED BY <2>1, <3>1, <5>2 DEF ArrayInv
      <4> QED BY <1>0, <4>1, <4>2, TtyAssumption DEF Index
    <3> QED BY <3>1
  <2>4. new[0] # NUL /\ \E k \in Index : new[k] = NL
    BY <1>0, <1>2, <1>3, <1>4
  <2> QED BY <1>1, <1>8, <2>2, <2>3, <2>4 DEF ArrayInv
<1>11. ReadInv(a)'
  <2>1. ReadInv(a)
    BY <1>0 DEF TermInv
  <2>2. torn'[a] = (torn[a] \/ Copying(a, a))
    BY <1>0, <1>1
  <2>3. pc[a] \in {"copy", "clear"} => torn'[a] = TRUE
    BY <2>1, <2>2 DEF ReadInv, Copying, Indexed
  <2>4. pc[a] = "copy" => \E k \in Index : Len(buf[a]) <= k /\ new[k] = NL
    <3> SUFFICES ASSUME pc[a] = "copy"
                 PROVE  \E k \in Index : Len(buf[a]) <= k /\ new[k] = NL
      OBVIOUS
    <3>1. PICK k \in Index : Len(buf[a]) <= k /\ old[k] = NL
      BY <2>1 DEF ReadInv
    <3>2. Len(buf[a]) \in Nat
      BY <2>1 DEF ReadInv
    <3>3. CASE k > Len(s)
      BY <1>2, <3>1, <3>3
    <3>4. CASE k <= Len(s)
      <4>1. Len(buf[a]) <= Len(s)
        BY <1>0, <3>1, <3>2, <3>4, TtyAssumption DEF Index
      <4> QED BY <1>2, <1>4, <4>1
    <3> QED BY <1>0, <3>3, <3>4, TtyAssumption DEF Index
  <2> QED BY <1>1, <1>8, <2>1, <2>3, <2>4 DEF ReadInv
<1> QED BY <1>1, <1>6, <1>7, <1>9, <1>10, <1>11 DEF TermInv

\* A read that is over, or halted by Ctrl+C.
LEMMA OverStep ==
    ASSUME LineReadInv, NEW t \in Terms, ReadOver(t),
           UNCHANGED << active_terminal, running, line >>,
           \/ UNCHANGED << save_buf, fresh >>
           \/ /\ save_buf' = [save_buf EXCEPT ![t] = Cleared(@)]
              /\ fresh' = [fresh EXCEPT ![t] = FALSE]
    PROVE  LineReadInv'
<1> USE DEF LineReadInv, ReadOver
<1>0. Cleared(save_buf[t]) \in [Index -> Chars] /\ 0 \in Index
      /\ Cleared(save_buf[t])[0] = NUL
      /\ \A k \in Index \ {0} : Cleared(save_buf[t])[k] = save_buf[t][k]
  BY TtyAssumption DEF Indexed, Cleared, Chars, Index
<1>1. Indexed'
  <2>1. /\ pc' \in [Terms -> Stages] /\ sel' \in [Terms -> Terms]
        /\ buf' = [r \in Terms |-> buf'[r]] /\ snap' = [r \in Terms |-> snap'[r]]
        /\ torn' \in [Terms -> BOOLEAN]
    BY DEF Indexed, Stages
  <2>2. save_buf' \in [Terms -> [Index -> Chars]] /\ fresh' \in [Terms -> BOOLEAN]
    <3> DEFINE cleared == Cleared(save_buf[t])
    <3>1. save_buf \in [Terms -> [Index -> Chars]] /\ fresh \in [Terms -> BOOLEAN]
      BY DEF Indexed
    <3>2. CASE UNCHANGED << save_buf, fresh >>
      BY <3>1, <3>2
    <3>3. CASE /\ save_buf' = [save_buf EXCEPT ![t] = cleared]
               /\ fresh' = [fresh EXCEPT ![t] = FALSE]
      <4>1. cleared \in [Index -> Chars]
        BY <1>0
      <4> HIDE DEF cleared, LineReadInv, ReadOver
      <4> QED BY <3>1, <3>3, <4>1
    <3> QED BY <3>2, <3>3
  <2> HIDE DEF ReadOver
  <2> QED BY <2>1, <2>2 DEF Indexed
<1>2. ASSUME NEW r \in Terms \ {t} PROVE TermInv(r)'
  BY Untouched DEF Indexed
<1>3. ArrayInv(t)'
  <2>1. ArrayInv(t)
    BY DEF TermInv
  <2>2. CASE UNCHANGED << save_buf, fresh >>
    BY <2>1, <2>2 DEF ArrayInv
  <2>3. CASE save_buf'[t] = Cleared(save_buf[t]) /\ fresh'[t] = FALSE
    <3>1. \A k \in Index : 0 < k => k \in Index \ {0}
      OBVIOUS
    <3>2. \A k \in Index : save_buf'[t][k] \in Letters[t] \cup {NL, NUL}
      BY <1>0, <2>1, <2>3 DEF ArrayInv
    <3>3. \A j, k \in Index : 0 < j /\ j < k /\ save_buf'[t][k] # NUL => save_buf'[t][j] # NUL
      <4>1. ASSUME NEW j \in Index, NEW k \in Index, 0 < j, j < k, save_buf'[t][k] # NUL
            PROVE  save_buf'[t][j] # NUL
        <5>1. j # 0 /\ k # 0
          BY <4>1, TtyAssumption DEF Index
        <5> QED BY <1>0, <2>1, <2>3, <4>1, <5>1 DEF ArrayInv
      <4> QED BY <4>1
    <3> QED BY <1>0, <2>3, <3>2, <3>3 DEF ArrayInv
  <2> QED BY <2>2, <2>3 DEF Indexed
<1>4. LineInv(t)'
  BY DEF TermInv, LineInv
<1>5. ReadInv(t)'
  BY DEF ReadInv, Indexed
<1> QED BY <1>1, <1>2, <1>3, <1>4, <1>5 DEF TermInv

\* The saved line up to its newline is what a copy that reaches it has copied.
LEMMA UptoIs ==
    ASSUME NEW arr \in [Index -> Chars], NEW S, NL \notin S, NEW b \in Seq(S),
           Len(b) \in Index, arr[Len(b)] = NL,
           \A k \in 1 .. Len(b) : b[k] = arr[k - 1]
    PROVE  Upto(arr) = b
<1> DEFINE hits == {k \in Index : arr[k] = NL} \cup {BufSize}
           end  == Min(hits)
<1>1. hits \in SUBSET Nat /\ Len(b) \in hits
  BY TtyAssumption DEF Index
<1>2. end \in hits /\ end <= Len(b)
  BY <1>1, MinIn
<1>3. ~(end < Len(b))
  <2> SUFFICES ASSUME end < Len(b) PROVE FALSE
    OBVIOUS
  <2>1. end + 1 \in 1 .. Len(b) /\ end \in Nat
    <3>1. end \in Nat /\ Len(b) \in Nat
      BY <1>1, <1>2
    <3> HIDE DEF end
    <3> QED BY <3>1
  <2>2. arr[end] = NL
    <3>1. Len(b) < BufSize
      BY TtyAssumption DEF Index
    <3> QED BY <1>1, <1>2, <3>1, TtyAssumption
  <2>3. b[end + 1] = arr[end] /\ b[end + 1] \in S
    BY <2>1
  <2> QED BY <2>2, <2>3
<1>4. end = Len(b)
  BY <1>1, <1>2, <1>3
<1>5. Upto(arr) = [k \in 1 .. end |-> arr[k - 1]]
  BY DEF Upto
<1> HIDE DEF end
<1>6. Upto(arr) = [k \in 1 .. Len(b) |-> b[k]]
  BY <1>4, <1>5
<1>7. b = [k \in 1 .. Len(b) |-> b[k]]
  BY LenProperties
<1> QED BY <1>6, <1>7

\* One step of terminal_read.
LEMMA ReadStepInv ==
    ASSUME LineReadInv, NEW t \in Terms, ReadCall(t) \/ ReadStep(t)
    PROVE  LineReadInv'
<1> USE DEF LineReadInv, Goto, ghosts
<1>0. TermInv(t) /\ LineInv(t) /\ ArrayInv(t) /\ ReadInv(t)
  BY DEF TermInv
<1>1. CASE ReadCall(t)
  <2>1. /\ pc' = [pc EXCEPT ![t] = "select"]
        /\ UNCHANGED << active_terminal, running, line, save_buf, sel, buf, ghosts >>
    BY <1>1 DEF ReadCall
  <2>2. Indexed'
    BY <2>1 DEF Indexed, Stages
  <2>3. ASSUME NEW r \in Terms \ {t} PROVE TermInv(r)'
    BY <2>1, Untouched DEF Indexed
  <2>4. LineInv(t)' /\ ArrayInv(t)'
    BY <1>0, <2>1 DEF LineInv, ArrayInv
  <2>5. ReadInv(t)'
    BY <1>0, <2>1 DEF ReadInv, Indexed
  <2> QED BY <2>2, <2>3, <2>4, <2>5 DEF TermInv
<1>2. CASE ReadSelect(t)
  <2>1. /\ pc' = [pc EXCEPT ![t] = "check"] /\ sel' = [sel EXCEPT ![t] = active_terminal]
        /\ UNCHANGED << active_terminal, running, line, save_buf, buf, ghosts >>
    BY <1>2 DEF ReadSelect
  <2>2. Indexed'
    BY <2>1 DEF Indexed, Stages
  <2>3. ASSUME NEW r \in Terms \ {t} PROVE TermInv(r)'
    BY <2>1, Untouched DEF Indexed
  <2>4. LineInv(t)' /\ ArrayInv(t)'
    BY <1>0, <2>1 DEF LineInv, ArrayInv
  <2>5. ReadInv(t)'
    BY <1>0, <2>1 DEF ReadInv, Indexed
  <2> QED BY <2>2, <2>3, <2>4, <2>5 DEF TermInv
<1>3. CASE ReadCheck(t)
  <2>1. /\ pc[t] = "check" /\ pc'[t] \in {"test", "select"}
        /\ pc'[t] = "test" => sel[t] = t
        /\ \A r \in Terms \ {t} : pc'[r] = pc[r]
        /\ UNCHANGED << active_terminal, running, line, save_buf, sel, buf, ghosts >>
    BY <1>0, <1>3 DEF ReadCheck, check_read_process, ReadInv, Indexed
  <2>2. Indexed'
    BY <1>3, <2>1 DEF Indexed, Stages, ReadCheck
  <2>3. ASSUME NEW r \in Terms \ {t} PROVE TermInv(r)'
    BY <2>1, Untouched
  <2>4. LineInv(t)' /\ ArrayInv(t)'
    BY <1>0, <2>1 DEF LineInv, ArrayInv
  <2>5. ReadInv(t)'
    BY <1>0, <2>1 DEF ReadInv
  <2> QED BY <2>2, <2>3, <2>4, <2>5 DEF TermInv
<1>4. CASE ReadTest(t)
  <2>0. pc[t] = "test" /\ sel[t] = t
    BY <1>0, <1>4 DEF ReadTest, ReadInv
  <2>1. CASE save_buf[t][0] = NUL
    <3>1. /\ pc' = [pc EXCEPT ![t] = "select"]
          /\ UNCHANGED << active_terminal, running, line, save_buf, sel, buf, ghosts >>
      BY <1>4, <2>0, <2>1 DEF ReadTest
    <3>2. Indexed'
      BY <3>1 DEF Indexed, Stages
    <3>3. ASSUME NEW r \in Terms \ {t} PROVE TermInv(r)'
      BY <3>1, Untouched DEF Indexed
    <3>4. LineInv(t)' /\ ArrayInv(t)'
      BY <1>0, <3>1 DEF LineInv, ArrayInv
    <3>5. ReadInv(t)'
      BY <1>0, <3>1 DEF ReadInv, Indexed
    <3> QED BY <3>2, <3>3, <3>4, <3>5 DEF TermInv
  <2>2. CASE save_buf[t][0] # NUL
    <3>1. /\ pc' = [pc EXCEPT ![t] = "copy"] /\ buf' = [buf EXCEPT ![t] = << >>]
          /\ snap' = [snap EXCEPT ![t] = Upto(save_buf[t])]
          /\ torn' = [torn EXCEPT ![t] = FALSE]
          /\ UNCHANGED << active_terminal, running, line, save_buf, sel, fresh >>
      BY <1>4, <2>0, <2>2 DEF ReadTest
    <3>2. Indexed'
      BY <3>1 DEF Indexed, Stages
    <3>3. ASSUME NEW r \in Terms \ {t} PROVE TermInv(r)'
      BY <3>1, Untouched DEF Indexed
    <3>4. LineInv(t)' /\ ArrayInv(t)'
      BY <1>0, <3>1 DEF LineInv, ArrayInv
    <3>5. pc'[t] = "copy" /\ buf'[t] = << >> /\ snap'[t] = Upto(save_buf[t])
      BY <3>1 DEF Indexed
    <3>6. fresh[t] = TRUE /\ \E k \in Index : 0 <= k /\ save_buf[t][k] = NL
      <4>1. fresh[t] = TRUE
        BY <1>0, <2>2, Zenon DEF ArrayInv
      <4>2. \E k \in Index : save_buf[t][k] = NL
        BY <1>0, <2>2, Zenon DEF ArrayInv
      <4> QED BY <4>1, <4>2, TtyAssumption DEF Index
    <3>7. << >> \in Seq(Letters[t]) /\ Len(<< >>) = 0 /\ \A k \in 1 .. 0 : FALSE
      OBVIOUS
    <3>8. Upto(save_buf[t])' = Upto(save_buf[t])
      BY <3>1 DEF Upto
    <3>9. ReadInv(t)'
      <4>1. buf'[t] \in Seq(Letters[t]) /\ Len(buf'[t]) = 0
        BY <3>5, <3>7
      <4>2. \E k \in Index : Len(buf'[t]) <= k /\ save_buf'[t][k] = NL
        BY <3>1, <3>6, <4>1
      <4>3. \A k \in 1 .. Len(buf'[t]) : buf'[t][k] = save_buf'[t][k - 1]
        BY <3>7, <4>1
      <4> QED BY <2>0, <3>1, <3>5, <3>6, <3>8, <4>1, <4>2, <4>3 DEF ReadInv
    <3> QED BY <3>2, <3>3, <3>4, <3>9 DEF TermInv
  <2> QED BY <2>1, <2>2
<1>5. CASE ReadCopy(t)
  <2>0. /\ pc[t] = "copy" /\ sel[t] = t /\ buf[t] \in Seq(Letters[t]) /\ fresh[t] = TRUE
        /\ \E k \in Index : Len(buf[t]) <= k /\ save_buf[t][k] = NL
        /\ torn[t] = FALSE => /\ snap[t] = Upto(save_buf[t])
                              /\ \A k \in 1 .. Len(buf[t]) : buf[t][k] = save_buf[t][k - 1]
    BY <1>0, <1>5 DEF ReadCopy, ReadInv
  <2> DEFINE m == Len(buf[t])
             c == save_buf[t][m]
  <2>1. m \in Nat /\ m \in Index
    BY <2>0, TtyAssumption DEF Index
  <2>2. UNCHANGED << active_terminal, running, line, save_buf, sel, ghosts >>
    BY <1>5 DEF ReadCopy
  <2>3. LineInv(t)' /\ ArrayInv(t)'
    BY <1>0, <2>2 DEF LineInv, ArrayInv
  <2>4. Upto(save_buf[t])' = Upto(save_buf[t])
    BY <2>2 DEF Upto
  <2>5. CASE c = NL
    <3>1. pc' = [pc EXCEPT ![t] = "clear"] /\ UNCHANGED buf
      BY <1>5, <2>0, <2>5 DEF ReadCopy
    <3>2. Indexed'
      BY <2>2, <3>1 DEF Indexed, Stages
    <3>3. ASSUME NEW r \in Terms \ {t} PROVE TermInv(r)'
      BY <2>2, <3>1, Untouched DEF Indexed
    <3>4. torn[t] = FALSE => buf[t] = snap[t]
      <4>1. save_buf[t] \in [Index -> Chars] /\ NL \notin Letters[t]
        BY TtyAssumption DEF Indexed
      <4> QED BY <2>0, <2>1, <2>5, <4>1, UptoIs
    <3>5. ReadInv(t)'
      BY <2>0, <2>2, <3>1, <3>4 DEF ReadInv, Indexed
    <3> QED BY <2>3, <3>2, <3>3, <3>5 DEF TermInv
  <2>6. CASE c # NL
    <3>1. buf' = [buf EXCEPT ![t] = Append(buf[t], c)] /\ UNCHANGED pc
      BY <1>5, <2>0, <2>6 DEF ReadCopy
    <3>2. Indexed'
      BY <2>2, <3>1 DEF Indexed, Stages
    <3>3. ASSUME NEW r \in Terms \ {t} PROVE TermInv(r)'
      BY <2>2, <3>1, Untouched DEF Indexed
    <3>4. PICK k \in Index : m <= k /\ save_buf[t][k] = NL
      BY <2>0
    <3>5. m < k /\ m + 1 <= k
      <4>1. m # k /\ k \in Nat
        BY <2>6, <3>4, TtyAssumption DEF Index
      <4> QED BY <2>1, <3>4, <4>1
    <3>6. c \in Letters[t]
      <4>1. c \in Letters[t] \cup {NL, NUL}
        BY <1>0, <2>1 DEF ArrayInv
      <4>2. c # NUL
        <5>1. CASE m = 0
          BY <1>0, <2>0, <5>1 DEF ArrayInv
        <5>2. CASE m # 0
          <6>1. 0 < m
            BY <2>1, <5>2
          <6>2. save_buf[t][k] # NUL
            BY <3>4 DEF NL, NUL
          <6> QED BY <1>0, <2>1, <3>5, <6>1, <6>2 DEF ArrayInv
        <5> QED BY <5>1, <5>2
      <4> QED BY <2>6, <4>1, <4>2
    <3> HIDE DEF m, c
    <3>7. buf'[t] = Append(buf[t], c)
      BY <3>1 DEF Indexed
    <3>8. /\ Append(buf[t], c) \in Seq(Letters[t]) /\ Len(Append(buf[t], c)) = m + 1
          /\ \A j \in 1 .. m : Append(buf[t], c)[j] = buf[t][j]
          /\ Append(buf[t], c)[m + 1] = c
      <4>1. buf[t] \in Seq(Letters[t]) /\ m = Len(buf[t])
        BY <2>0 DEF m
      <4> HIDE DEF LineReadInv
      <4>2. Append(buf[t], c) \in Seq(Letters[t])
        BY <3>6, <4>1, AppendProperties
      <4>3. Len(Append(buf[t], c)) = m + 1
        BY <3>6, <4>1
      <4>4. \A j \in 1 .. m : Append(buf[t], c)[j] = buf[t][j]
        BY <3>6, <4>1, AppendProperties
      <4>5. Append(buf[t], c)[m + 1] = c
        BY <3>6, <4>1
      <4> QED BY <4>2, <4>3, <4>4, <4>5
    <3>9. torn[t] = FALSE => \A j \in 1 .. m + 1 : buf'[t][j] = save_buf[t][j - 1]
      <4>1. ASSUME torn[t] = FALSE, NEW j \in 1 .. m + 1 PROVE buf'[t][j] = save_buf[t][j - 1]
        <5>1. CASE j \in 1 .. m
          BY <2>0, <3>7, <3>8, <4>1, <5>1 DEF m
        <5>2. CASE j = m + 1
          <6>1. j - 1 = m
            BY <2>1, <5>2
          <6> QED BY <3>7, <3>8, <5>2, <6>1 DEF c
        <5> QED BY <2>1, <5>1, <5>2
      <4> QED BY <4>1
    <3>10. buf'[t] \in Seq(Letters[t]) /\ Len(buf'[t]) = m + 1
      BY <3>7, <3>8
    <3>11. ReadInv(t)'
      BY <2>0, <2>2, <2>4, <3>1, <3>4, <3>5, <3>9, <3>10 DEF ReadInv
    <3> QED BY <2>3, <3>2, <3>3, <3>11 DEF TermInv
  <2> QED BY <2>5, <2>6
<1>6. CASE ReadClear(t)
  <2>1. sel[t] = t
    BY <1>0, <1>6 DEF ReadClear, ReadInv
  <2> QED BY <1>6, <2>1, OverStep DEF ReadClear
<1> QED BY <1>1, <1>2, <1>3, <1>4, <1>5, <1>6 DEF ReadStep

\* Every step, of the keyboard, of the readers and of the clock.
LEMMA LineReadNext ==
    ASSUME LineReadInv, [DevNext]_devVars, "switch" \notin InRead
    PROVE  LineReadInv'
<1>1. CASE UNCHANGED vars
  <2>1. UNCHANGED << active_terminal, running, line, save_buf, pc, sel, buf, snap, torn, fresh >>
    BY <1>1 DEF vars, reader, ghosts
  <2>2. \A r \in Terms : TermInv(r)'
    BY <2>1, Untouched DEF LineReadInv
  <2> QED BY <2>1, <2>2 DEF LineReadInv, Indexed
<1>2. CASE KeySwitch
  <2>1. PICK t \in Terms : KeySwitch!(t)
    BY <1>2 DEF KeySwitch
  <2>2. \A r \in Terms : pc[r] # "check"
    BY <2>1
  <2>3. UNCHANGED << running, line, save_buf, pc, sel, buf, snap, torn, fresh >>
    BY <2>1 DEF reader, ghosts
  <2>4. \A r \in Terms : TermInv(r)'
    BY <2>2, <2>3, Untouched DEF LineReadInv
  <2> QED BY <2>1, <2>3, <2>4 DEF LineReadInv, Indexed
<1>3. CASE KeyCtrlC
  BY <1>3, OverStep DEF KeyCtrlC, LineReadInv, Indexed
<1>4. ASSUME NEW t \in Terms, Tick(t) PROVE LineReadInv'
  <2>1. UNCHANGED << active_terminal, line, save_buf, pc, sel, buf, snap, torn, fresh >>
    BY <1>4 DEF Tick, reader, ghosts
  <2>2. \A r \in Terms : TermInv(r)'
    BY <2>1, Untouched DEF LineReadInv
  <2> QED BY <1>4, <2>1, <2>2 DEF LineReadInv, Indexed, Tick
<1> QED BY <1>1, <1>2, <1>3, <1>4, KeyLineStep, EnterStep, ReadStepInv
        DEF DevNext, devVars, DevKey, DevCtrlC, DevTick, DevReadCall, DevReadStep,
            DevClockCall, DevClockPoll, DevClockTick

\* No terminal_read is in progress at the start.
LEMMA LineReadInit == DevInit => LineReadInv
<1> SUFFICES ASSUME DevInit PROVE LineReadInv
  OBVIOUS
<1>1. Indexed
  BY DEF DevInit, Init, Indexed, Stages, Chars
<1>2. ASSUME NEW t \in Terms PROVE TermInv(t)
  <2>1. line[t] = << >> /\ buf[t] = << >> /\ pc[t] = "idle" /\ fresh[t] = FALSE
        /\ \A k \in Index : save_buf[t][k] = NUL
    BY DEF DevInit, Init
  <2>2. << >> \in Seq(Letters[t]) /\ Len(<< >>) < BufSize /\ 0 \in Index
    BY TtyAssumption DEF Index
  <2> QED BY <2>1, <2>2 DEF TermInv, LineInv, ArrayInv, ReadInv
<1> QED BY <1>1, <1>2 DEF LineReadInv

\* my_strcpy's loop in terminal_read finds a newline before the array ends,
\* whatever lines are entered while it runs.
THEOREM LoopStaysInside ==
    ASSUME "switch" \notin InRead
    PROVE  DevSpec => []CopyStaysInside
<1>1. LineReadInv => CopyStaysInside
  <2> SUFFICES ASSUME LineReadInv, NEW t \in Terms, pc[t] = "copy"
               PROVE  /\ Len(buf[t]) \in Index
                      /\ \E k \in Index : Len(buf[t]) <= k /\ save_buf[sel[t]][k] = NL
    BY DEF CopyStaysInside
  <2>1. ReadInv(t)
    BY DEF LineReadInv, TermInv
  <2>2. sel[t] = t /\ buf[t] \in Seq(Letters[t])
        /\ \E k \in Index : Len(buf[t]) <= k /\ save_buf[t][k] = NL
    BY <2>1 DEF ReadInv
  <2>3. Len(buf[t]) \in Index
    BY <2>2, TtyAssumption DEF Index
  <2> QED BY <2>2, <2>3
<1> QED BY LineReadInit, LineReadNext, <1>1, PTL DEF DevSpec

\* A read returns the line that was there when its copy began, whole unless an
\* Enter came in between, and every read that returns has an Enter of its own.
THEOREM LineOnce ==
    ASSUME "switch" \notin InRead
    PROVE  DevSpec => []WholeLineOnce
<1>1. LineReadInv => WholeLineOnce
  BY DEF LineReadInv, Indexed, TermInv, ReadInv, WholeLineOnce
<1> QED BY LineReadInit, LineReadNext, <1>1, PTL DEF DevSpec
=============================================================================
