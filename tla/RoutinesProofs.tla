--------------------------- MODULE RoutinesProofs ---------------------------
(***************************************************************************)
(* Theorems about the routines: the writes of the clock's frequency, the   *)
(* copying loops, the block walk of read_data, the split of a command, the *)
(* look-up of a name, the completion of a line, the buffer of grep and the *)
(* numbers of printf.  Where a proof goes by induction over numbers it     *)
(* takes the least one that fails (LeastFirst).                            *)
(***************************************************************************)
EXTENDS Routines, OrderLemmas, SequenceTheorems, FiniteSetTheorems, TLAPS

\* The call is chosen at the start and stays.
CallInv == call \in Calls

\* No step changes the call.
LEMMA CallStep == ASSUME [Next]_vars PROVE call' = call
<1>1. CASE LibNext
  BY <1>1 DEF LibNext, Convert, CopyStart, CopyTop, CopyWords, CopyBottom, MoveStart, MoveByte
<1>2. CASE FsNext
  BY <1>2 DEF FsNext, ReadRefused, ReadStart, ReadBlock, ReadByte, Lookup, Complete, Parse
<1>3. CASE GrepNext
  BY <1>3 DEF GrepNext, GrepOpen, GrepRead, GrepLine, GrepClose
<1>4. CASE RateNext
  BY <1>4 DEF RateNext
<1>5. CASE UNCHANGED vars
  BY <1>5 DEF vars
<1> QED BY <1>1, <1>2, <1>3, <1>4, <1>5 DEF Next

-----------------------------------------------------------------------------
(* rtc_write *)

\* What the clock may run at.
Asked == {2} \cup {Min({call.freq[w], 1024}) : w \in Whole}

\* A write that no interrupt fell into finds register A selected when it stores,
\* whoever selected it; the rate is one of the ten that are accepted.
RateInv ==
    /\ stage \in [Writers -> {"call", "refused", "store", "returned"}]
    /\ hit \in [Writers -> BOOLEAN]
    /\ \A w \in Writers :
          stage[w] = "store" =>
              /\ Writing
              /\ RateOf(call.freq[w]) # 0 /\ call.nbytes[w] = FOUR_BYTES
              /\ ~ hit[w] => index = "A"
    /\ asked # 0 => Freq(rate) = Min({asked, 1024})
    /\ Freq(rate) \in Asked

\* A frequency that is passed whole is asked for, up to 1024 Hz.
LEMMA AskedFor == \A w \in Whole : Min({call.freq[w], 1024}) \in Asked
BY DEF Asked

\* The rate of an accepted frequency is that frequency, or 1024 Hz.
LEMMA RateFreq ==
    ASSUME NEW f \in Nat, RateOf(f) # 0
    PROVE  Freq(RateOf(f)) = Min({f, 1024}) /\ f # 0
<1>1. Min({f, 1024}) \in {f, 1024} /\ Min({f, 1024}) <= f /\ Min({f, 1024}) <= 1024
  BY MinIn
<1>2. f \in {1024, 2048, 4096, 8192, 512, 256, 128, 64, 32, 16, 8, 4, 2}
  BY DEF RateOf
<1>3. CASE f \in {1024, 2048, 4096, 8192}
  <2>1. RateOf(f) = 6
    BY <1>3 DEF RateOf
  <2>2. Min({f, 1024}) = 1024
    BY <1>1, <1>3
  <2> QED BY <2>1, <2>2, <1>3 DEF Freq
<1>4. CASE f \in {512, 256, 128, 64, 32, 16, 8, 4, 2}
  <2>1. Min({f, 1024}) = f
    BY <1>1, <1>4
  <2>2. Freq(RateOf(f)) = f
    <3> HIDE <1>1
    <3>1. CASE f = 512 BY <3>1 DEF RateOf, Freq
    <3>2. CASE f = 256 BY <3>2 DEF RateOf, Freq
    <3>3. CASE f = 128 BY <3>3 DEF RateOf, Freq
    <3>4. CASE f = 64 BY <3>4 DEF RateOf, Freq
    <3>5. CASE f = 32 BY <3>5 DEF RateOf, Freq
    <3>6. CASE f = 16 BY <3>6 DEF RateOf, Freq
    <3>7. CASE f = 8 BY <3>7 DEF RateOf, Freq
    <3>8. CASE f = 4 BY <3>8 DEF RateOf, Freq
    <3>9. CASE f = 2 BY <3>9 DEF RateOf, Freq
    <3> QED BY <1>4, <3>1, <3>2, <3>3, <3>4, <3>5, <3>6, <3>7, <3>8, <3>9
  <2> QED BY <2>1, <2>2, <1>4
<1> QED BY <1>2, <1>3, <1>4

\* The clock starts at 2 Hz with register A selected.
LEMMA RateStart == ASSUME Init PROVE RateInv
<1>1. Min({2, 1024}) = 2
  BY MinIn
<1>2. Freq(rate) = 2
  BY DEF Init, RateInit, Freq
<1> QED BY <1>1, <1>2 DEF Init, RateInit, RateInv, Asked

\* Every port access, and the interrupt between two of them, keeps it.
LEMMA RateStep ==
    ASSUME CallInv, RateInv, [Next]_vars
    PROVE  RateInv'
<1>1. call' = call
  BY CallStep
<1> USE DEF RateInv
<1>2. ASSUME UNCHANGED ratevars PROVE RateInv'
  <2>1. /\ index' = index /\ rate' = rate /\ stage' = stage /\ hit' = hit
        /\ asked' = asked
    BY <1>2 DEF ratevars
  <2>2. Asked' = Asked /\ Writing' = Writing
    BY <1>1 DEF Asked, Whole, Writing
  <2> QED BY <1>1, <2>1, <2>2
<1>3. ASSUME NEW w \in Writers, rtc_write(w) PROVE RateInv'
  <2>1. rate' = rate /\ hit' = hit /\ asked' = asked
    BY <1>3 DEF rtc_write
  <2>2. CASE call.nbytes[w] # FOUR_BYTES \/ RateOf(call.freq[w]) = 0
    <3>1. stage' = [stage EXCEPT ![w] = "refused"] /\ index' = index
      BY <1>3, <2>2 DEF rtc_write
    <3>2. \A v \in Writers : stage'[v] = "store" => stage[v] = "store"
      BY <3>1
    <3>3. stage' \in [Writers -> {"call", "refused", "store", "returned"}]
      BY <3>1
    <3> QED BY <1>1, <2>1, <3>1, <3>2, <3>3 DEF Writing, Asked, Whole
  <2>3. CASE call.nbytes[w] = FOUR_BYTES /\ RateOf(call.freq[w]) # 0
    <3>1. stage' = [stage EXCEPT ![w] = "store"] /\ index' = "A" /\ Writing
      BY <1>3, <2>3 DEF rtc_write
    <3>2. \A v \in Writers : stage'[v] = "store" => v = w \/ stage[v] = "store"
      BY <3>1
    <3>3. stage' \in [Writers -> {"call", "refused", "store", "returned"}]
      BY <3>1
    <3>4. Asked' = Asked /\ Writing' = Writing
      BY <1>1, <2>1 DEF Asked, Whole, Writing
    <3> QED BY <1>1, <2>1, <2>3, <3>1, <3>2, <3>3, <3>4
  <2> QED BY <2>2, <2>3
<1>4. ASSUME NEW w \in Writers, rtc_store(w) PROVE RateInv'
  <2>1. stage' = [stage EXCEPT ![w] = "returned"] /\ index' = index /\ hit' = hit
    BY <1>4 DEF rtc_store
  <2>2. /\ Writing /\ RateOf(call.freq[w]) # 0 /\ call.nbytes[w] = FOUR_BYTES
        /\ (~ hit[w] => index = "A")
    BY <1>4 DEF rtc_store
  <2>3. call.freq[w] \in Nat
    BY <2>2, RateAssumption DEF CallInv, Writing
  <2>4. Freq(RateOf(call.freq[w])) = Min({call.freq[w], 1024}) /\ call.freq[w] # 0
    BY <2>2, <2>3, RateFreq
  <2>5. CASE index = "A"
    <3>1. rate' = RateOf(call.freq[w])
      BY <1>4, <2>5 DEF rtc_store
    <3>2. asked' = 0 \/ asked' = call.freq[w]
      BY <1>4 DEF rtc_store
    <3>3. Freq(rate') = Min({call.freq[w], 1024})
      BY <2>4, <3>1
    <3>4. Freq(rate') \in Asked
      <4>1. w \in Whole
        BY <2>2 DEF Whole
      <4> QED BY <3>3, <4>1, AskedFor
    <3>5. stage' \in [Writers -> {"call", "refused", "store", "returned"}]
      BY <2>1
    <3>6. \A v \in Writers : stage'[v] = "store" => stage[v] = "store"
      BY <2>1
    <3>7. Asked' = Asked
      BY <1>1 DEF Asked, Whole
    <3>8. asked' # 0 => Freq(rate') = Min({asked', 1024})
      BY <3>2, <3>3
    <3> QED BY <1>1, <2>1, <3>4, <3>5, <3>6, <3>7, <3>8 DEF Writing
  <2>6. CASE index # "A"
    <3>1. rate' = rate /\ asked' = 0
      BY <1>4, <2>2, <2>6 DEF rtc_store
    <3>2. stage' \in [Writers -> {"call", "refused", "store", "returned"}]
      BY <2>1
    <3>3. \A v \in Writers : stage'[v] = "store" => stage[v] = "store"
      BY <2>1
    <3>4. Asked' = Asked /\ Writing' = Writing
      BY <1>1 DEF Asked, Whole, Writing
    <3> QED BY <1>1, <2>1, <3>1, <3>2, <3>3, <3>4
  <2> QED BY <2>5, <2>6
<1>5. ASSUME ClockInterrupt PROVE RateInv'
  <2>1. stage' = stage /\ rate' = rate /\ asked' = asked
    BY <1>5 DEF ClockInterrupt
  <2>2. hit' = [w \in Writers |-> hit[w] \/ stage[w] = "store"]
    BY <1>5 DEF ClockInterrupt
  <2>3. hit' \in [Writers -> BOOLEAN]
    BY <2>2, Zenon
  <2>4. \A w \in Writers : stage[w] = "store" => hit'[w]
    BY <2>2
  <2> QED BY <1>1, <2>1, <2>3, <2>4 DEF Writing, Asked, Whole
<1>6. CASE RateNext
  BY <1>3, <1>4, <1>5, <1>6 DEF RateNext
<1>7. CASE ~ RateNext
  <2>1. UNCHANGED ratevars
    BY <1>7 DEF Next, vars
  <2> QED BY <2>1, <1>2
<1> QED BY <1>6, <1>7

\* FrequencyKept for any number of writers and any frequencies: the clock runs
\* at the frequency of the last rtc_write that succeeded, whatever the writes of
\* others and the clock's interrupt do between its two port accesses.
THEOREM LastWriteWins == Spec => []FrequencyKept
<1>1. Init => CallInv /\ RateInv
  BY RateStart DEF Init, LibInit, CallInv
<1>2. CallInv /\ RateInv /\ [Next]_vars => (CallInv /\ RateInv)'
  BY CallStep, RateStep DEF CallInv
<1>3. CallInv /\ RateInv => FrequencyKept
  BY DEF RateInv, FrequencyKept, Asked
<1> QED BY <1>1, <1>2, <1>3, PTL DEF Spec

-----------------------------------------------------------------------------
(* memcpy, memset and memmove *)

Copies == call.fn \in {"memcpy", "memset", "memmove"}

\* The memory when the cells from lo on and below hi have been written.
Cell(a) == IF call.fn = "memset" THEN call.c ELSE call.src + (a - call.dest)
Wrote(lo, hi) == [a \in 0 .. MemTop |-> IF a \in lo .. hi - 1 THEN Cell(a) ELSE a]

\* A loop that goes upward has left bytes to copy and has written what is below
\* edi; memmove's loop downward has written what is above edi.
Upward(left) ==
    /\ left \in 0 .. call.n
    /\ reg.step = 1
    /\ reg.edi = call.dest + (call.n - left)
    /\ reg.esi = call.src + (call.n - left)
    /\ mem = Wrote(call.dest, reg.edi)

Downward(left) ==
    /\ left \in 0 .. call.n
    /\ reg.step = -1
    /\ reg.edi = call.dest + left - 1
    /\ reg.esi = call.src + left - 1
    /\ mem = Wrote(call.dest + left, call.dest + call.n)

\* In the loop over the words, ecx words and edx bytes are left.
CopyInv ==
    /\ at \in {"call", "top", "words", "bottom", "move", "done"}
    /\ reg \in [edi : Int, esi : Int, ecx : Nat, edx : Nat, step : {1, -1}]
    /\ at = "call" => reg.step = 1 /\ mem = Wrote(0, 0)
    /\ at = "top" => Copying /\ Upward(reg.ecx)
    /\ at = "words" => Copying /\ Upward(reg.ecx * WordSize + reg.edx)
    /\ at = "bottom" => Copying /\ Upward(reg.edx)
    /\ at = "move" =>
           /\ call.fn = "memmove"
           /\ \/ call.src >= call.dest /\ Upward(reg.ecx)
              \/ call.src < call.dest /\ Downward(reg.ecx)
    /\ at = "done" => mem = Wrote(call.dest, call.dest + call.n)

\* What the assumption says of the call.
LEMMA CopyCall ==
    ASSUME CallInv, Copies
    PROVE  /\ call.dest \in Nat /\ call.src \in Nat /\ call.n \in Nat
           /\ call.dest + call.n - 1 <= MemTop
           /\ call.fn # "memset" => call.src + call.n - 1 <= MemTop
           /\ call.fn = "memcpy" =>
                  call.dest + call.n <= call.src \/ call.src + call.n <= call.dest
           /\ MemTop \in Nat /\ WordSize \in Nat \ {0}
  BY CopyAssumption, LibAssumption DEF CallInv, Copies

\* The next k cells are written as well.
Both(lo, hi, k) ==
    [a \in 0 .. MemTop |->
        IF a \in reg.edi .. reg.edi + k - 1 THEN Cell(a)
        ELSE IF a \in lo .. hi - 1 THEN Cell(a) ELSE a]

\* None of the next k source cells has been written.
Untouched(lo, hi, k) ==
    call.fn # "memset" =>
        \A s \in reg.esi .. reg.esi + k - 1 : s \in 0 .. MemTop /\ s \notin lo .. hi - 1

\* A source cell that is outside of what has been written still holds its
\* address, so a move writes what is due.
LEMMA MovedCells ==
    ASSUME NEW k \in Nat, NEW lo \in Int, NEW hi \in Int,
           reg.edi \in Int, reg.esi = call.src + (reg.edi - call.dest),
           call.src \in Int, call.dest \in Int, MemTop \in Nat,
           mem = Wrote(lo, hi), Untouched(lo, hi, k)
    PROVE  Moved(k) = Both(lo, hi, k)
<1>1. DOMAIN mem = 0 .. MemTop
  BY DEF Wrote
<1>2. ASSUME NEW a \in 0 .. MemTop, a \in reg.edi .. reg.edi + k - 1, call.fn # "memset"
      PROVE  mem[reg.esi + (a - reg.edi)] = Cell(a)
  <2> DEFINE s == reg.esi + (a - reg.edi)
  <2>1. s \in reg.esi .. reg.esi + k - 1 /\ s = call.src + (a - call.dest)
    BY <1>2
  <2>2. s \in 0 .. MemTop /\ s \notin lo .. hi - 1
    BY <2>1, <1>2 DEF Untouched
  <2>3. mem[s] = s
    BY <2>2 DEF Wrote
  <2> QED BY <2>1, <2>3, <1>2 DEF Cell
<1>3. ASSUME NEW a \in 0 .. MemTop
      PROVE  mem[a] = IF a \in lo .. hi - 1 THEN Cell(a) ELSE a
  BY DEF Wrote
<1> QED BY <1>1, <1>2, <1>3 DEF Moved, Cell, Both

\* A move of k cells upward.
LEMMA UpwardMove ==
    ASSUME CallInv, Copies, call' = call, NEW left \in Nat, NEW k \in Nat, k <= left,
           Upward(left),
           call.fn = "memmove" => k = 1 /\ call.src >= call.dest,
           mem' = Moved(k),
           reg'.step = 1, reg'.edi = reg.edi + k, reg'.esi = reg.esi + k
    PROVE  Upward(left - k)'
<1>1. /\ call.dest \in Nat /\ call.src \in Nat /\ call.n \in Nat
      /\ call.dest + call.n - 1 <= MemTop
      /\ call.fn # "memset" => call.src + call.n - 1 <= MemTop
      /\ call.fn = "memcpy" =>
             call.dest + call.n <= call.src \/ call.src + call.n <= call.dest
      /\ MemTop \in Nat
  BY CopyCall
<1>2. /\ left \in 0 .. call.n
      /\ reg.edi = call.dest + (call.n - left)
      /\ reg.esi = call.src + (call.n - left)
      /\ mem = Wrote(call.dest, reg.edi)
  BY DEF Upward
<1>3. reg.edi \in Int /\ reg.esi = call.src + (reg.edi - call.dest)
  BY <1>1, <1>2
<1>4. ASSUME call.fn # "memset", NEW s \in reg.esi .. reg.esi + k - 1
      PROVE  s \in 0 .. MemTop /\ s \notin call.dest .. reg.edi - 1
  <2>1. s >= call.src /\ s < call.src + call.n
    BY <1>1, <1>2
  <2>2. CASE call.fn = "memcpy"
    BY <1>1, <1>2, <1>4, <2>1, <2>2
  <2>3. CASE call.fn = "memmove"
    BY <1>1, <1>2, <1>4, <2>1, <2>3
  <2> QED BY <1>4, <2>2, <2>3 DEF Copies
<1>5. mem' = [a \in 0 .. MemTop |->
                 IF a \in reg.edi .. reg.edi + k - 1 THEN Cell(a)
                 ELSE IF a \in call.dest .. reg.edi - 1 THEN Cell(a) ELSE a]
  <2>1. PICK lo \in Int, hi \in Int : lo = call.dest /\ hi = reg.edi
    BY <1>1, <1>3
  <2>2. Untouched(lo, hi, k)
    BY <1>4, <2>1 DEF Untouched
  <2>3. call.dest \in Int /\ call.src \in Int /\ mem = Wrote(lo, hi)
    BY <1>1, <1>2, <2>1
  <2>4. Moved(k) = Both(lo, hi, k)
    BY <1>1, <1>3, <2>2, <2>3, MovedCells
  <2> QED BY <2>1, <2>4 DEF Both
<1>6. \A a \in 0 .. MemTop :
          a \in call.dest .. (reg.edi + k) - 1 <=>
              a \in reg.edi .. reg.edi + k - 1 \/ a \in call.dest .. reg.edi - 1
  BY <1>1, <1>2
<1>7. mem' = [a \in 0 .. MemTop |->
                 IF a \in call.dest .. (reg.edi + k) - 1 THEN Cell(a) ELSE a]
  BY <1>5, <1>6
<1>8. mem' = Wrote(call.dest, reg.edi)'
  BY <1>7 DEF Wrote, Cell
<1>9. left - k \in 0 .. call.n
  BY <1>1, <1>2
<1>10. /\ reg'.edi = call.dest + (call.n - (left - k))
       /\ reg'.esi = call.src + (call.n - (left - k))
  BY <1>1, <1>2
<1> QED BY <1>8, <1>9, <1>10 DEF Upward

\* A move of one cell downward.
LEMMA DownwardMove ==
    ASSUME CallInv, Copies, call' = call, NEW left \in Nat, left > 0,
           Downward(left),
           call.fn = "memmove", call.src < call.dest,
           mem' = Moved(1),
           reg'.step = -1, reg'.edi = reg.edi - 1, reg'.esi = reg.esi - 1
    PROVE  Downward(left - 1)'
<1>1. /\ call.dest \in Nat /\ call.src \in Nat /\ call.n \in Nat
      /\ call.dest + call.n - 1 <= MemTop
      /\ call.src + call.n - 1 <= MemTop
      /\ MemTop \in Nat
  BY CopyCall
<1>2. /\ left \in 0 .. call.n
      /\ reg.edi = call.dest + left - 1
      /\ reg.esi = call.src + left - 1
      /\ mem = Wrote(call.dest + left, call.dest + call.n)
  BY DEF Downward
<1>3. reg.edi \in Int /\ reg.esi = call.src + (reg.edi - call.dest)
  BY <1>1, <1>2
<1>4. ASSUME NEW s \in reg.esi .. reg.esi + 1 - 1
      PROVE  s \in 0 .. MemTop /\ s \notin call.dest + left .. (call.dest + call.n) - 1
  BY <1>1, <1>2
<1>5. mem' = [a \in 0 .. MemTop |->
                 IF a \in reg.edi .. reg.edi + 1 - 1 THEN Cell(a)
                 ELSE IF a \in call.dest + left .. (call.dest + call.n) - 1
                      THEN Cell(a) ELSE a]
  <2>1. PICK lo \in Int, hi \in Int, k \in Nat :
            lo = call.dest + left /\ hi = call.dest + call.n /\ k = 1
    BY <1>1
  <2>2. Untouched(lo, hi, k)
    BY <1>4, <2>1 DEF Untouched
  <2>3. call.dest \in Int /\ call.src \in Int /\ mem = Wrote(lo, hi)
    BY <1>1, <1>2, <2>1
  <2>4. Moved(k) = Both(lo, hi, k)
    BY <1>1, <1>3, <2>2, <2>3, MovedCells
  <2> QED BY <2>1, <2>4 DEF Both
<1>6. \A a \in 0 .. MemTop :
          a \in call.dest + (left - 1) .. (call.dest + call.n) - 1 <=>
              \/ a \in reg.edi .. reg.edi + 1 - 1
              \/ a \in call.dest + left .. (call.dest + call.n) - 1
  BY <1>1, <1>2
<1>7. mem' = [a \in 0 .. MemTop |->
                 IF a \in call.dest + (left - 1) .. (call.dest + call.n) - 1
                 THEN Cell(a) ELSE a]
  BY <1>5, <1>6
<1>8. mem' = Wrote(call.dest + (left - 1), call.dest + call.n)'
  BY <1>7 DEF Wrote, Cell
<1>9. left - 1 \in 0 .. call.n
  BY <1>1, <1>2
<1>10. /\ reg'.edi = call.dest + (left - 1) - 1
       /\ reg'.esi = call.src + (left - 1) - 1
  BY <1>1, <1>2
<1> QED BY <1>8, <1>9, <1>10 DEF Downward

\* A word that is moved leaves one word less.
LEMMA WordLess ==
    ASSUME NEW e \in Nat, e > 0, NEW w \in Nat, NEW d \in Nat
    PROVE  /\ e * w + d \in Nat /\ w <= e * w + d
           /\ (e * w + d) - w = (e - 1) * w + d
<1>1. PICK f \in Nat : e = f + 1
  <2>1. e - 1 \in Nat
    OBVIOUS
  <2> QED BY <2>1
<1>2. PICK m \in Nat : m = f * w
  OBVIOUS
<1>3. e * w = m + w
  <2>1. (f + 1) * w = f * w + w
    OBVIOUS
  <2> QED BY <1>1, <1>2, <2>1
<1>4. (e - 1) * w = m
  <2>1. e - 1 = f
    BY <1>1
  <2> QED BY <1>2, <2>1
<1> QED BY <1>3, <1>4

\* Whole words and the bytes behind them.
LEMMA WordSplit ==
    ASSUME NEW e \in Nat, NEW w \in Nat \ {0}
    PROVE  \E q, r \in Nat : /\ q = e \div w /\ r = e % w
                             /\ q * w + r = e /\ r < w
<1>1. e \div w \in Nat /\ e % w \in Nat
  OBVIOUS
<1>2. PICK q \in Nat, r \in Nat : q = e \div w /\ r = e % w
  BY <1>1
<1>3. q * w + r = e /\ r < w
  BY <1>2
<1> QED BY <1>2, <1>3

\* What no step of the loop changes.
LEMMA CopyStill ==
    ASSUME call' = call, CopyInv, UNCHANGED << at, mem, reg >>
    PROVE  CopyInv'
  BY DEF CopyInv, Copying, Upward, Downward, Wrote, Cell

\* The registers after k cells.
LEMMA AdvancedBy ==
    ASSUME NEW k \in Nat, reg.step = 1,
           reg \in [edi : Int, esi : Int, ecx : Nat, edx : Nat, step : {1, -1}]
    PROVE  Advanced(k) = [edi |-> reg.edi + k, esi |-> reg.esi + k, ecx |-> reg.ecx,
                          edx |-> reg.edx, step |-> 1]
<1>1. k * reg.step = k
  OBVIOUS
<1>2. Advanced(k) = [reg EXCEPT !.edi = @ + k, !.esi = @ + k]
  BY <1>1 DEF Advanced
<1> QED BY <1>2

\* The bytes up to the first whole word, and the entry of the loop over words.
LEMMA CopyTopStep ==
    ASSUME CallInv, Copies, CopyInv, call' = call, CopyTop
    PROVE  CopyInv'
<1>1. at = "top" /\ Copying /\ Upward(reg.ecx) /\ Copying' /\ WordSize \in Nat \ {0}
  BY CopyCall DEF CopyInv, CopyTop, Copying
<1>2. reg \in [edi : Int, esi : Int, ecx : Nat, edx : Nat, step : {1, -1}]
  BY DEF CopyInv
<1>3. reg.step = 1 /\ call.dest \in Nat /\ call.n \in Nat
  BY <1>1, CopyCall DEF Upward
<1>4. CASE reg.ecx = 0
  <2>1. at' = "done" /\ mem' = mem /\ reg' = reg
    BY <1>4, <1>1, <1>2 DEF CopyTop, Returned, copyvars
  <2>2. mem = Wrote(call.dest, call.dest + call.n)
    BY <1>1, <1>3, <1>4 DEF Upward
  <2>3. mem' = Wrote(call.dest, call.dest + call.n)'
    BY <2>1, <2>2 DEF Wrote, Cell
  <2> QED BY <2>1, <2>3, <1>2 DEF CopyInv
<1>5. CASE reg.ecx > 0 /\ reg.edi % WordSize # 0
  <2>1. at' = at /\ mem' = Moved(1) /\ reg' = [Advanced(1) EXCEPT !.ecx = @ - 1]
    BY <1>5, <1>2 DEF CopyTop
  <2>2. /\ reg' \in [edi : Int, esi : Int, ecx : Nat, edx : Nat, step : {1, -1}]
        /\ reg'.edi = reg.edi + 1 /\ reg'.esi = reg.esi + 1 /\ reg'.step = 1
        /\ reg'.ecx = reg.ecx - 1
    <3>1. Advanced(1) = [edi |-> reg.edi + 1, esi |-> reg.esi + 1, ecx |-> reg.ecx,
                         edx |-> reg.edx, step |-> 1]
      BY <1>2, <1>3, AdvancedBy
    <3>2. reg' = [edi |-> reg.edi + 1, esi |-> reg.esi + 1, ecx |-> reg.ecx - 1,
                  edx |-> reg.edx, step |-> 1]
      BY <2>1, <3>1
    <3> QED BY <1>2, <1>5, <3>2
  <2>3. PICK left \in Nat : left = reg.ecx
    BY <1>2
  <2>4. PICK k \in Nat : k = 1
    OBVIOUS
  <2>5. Upward(left - k)'
    BY <1>1, <1>5, <2>1, <2>2, <2>3, <2>4, UpwardMove DEF Copying
  <2>6. Upward(reg.ecx)'
    BY <2>2, <2>3, <2>4, <2>5 DEF Upward
  <2> QED BY <1>1, <2>1, <2>2, <2>6 DEF CopyInv
<1>6. CASE reg.ecx > 0 /\ reg.edi % WordSize = 0
  <2>1. /\ at' = "words" /\ mem' = mem
        /\ reg' = [reg EXCEPT !.ecx = @ \div WordSize, !.edx = reg.ecx % WordSize]
    BY <1>6, <1>2 DEF CopyTop, tail_bytes
  <2>2. PICK q \in Nat, r \in Nat :
            /\ q = reg.ecx \div WordSize /\ r = reg.ecx % WordSize
            /\ q * WordSize + r = reg.ecx
    <3>1. PICK e \in Nat : e = reg.ecx
      BY <1>2
    <3> QED BY <1>1, <3>1, WordSplit
  <2>3. /\ reg' \in [edi : Int, esi : Int, ecx : Nat, edx : Nat, step : {1, -1}]
        /\ reg'.edi = reg.edi /\ reg'.esi = reg.esi /\ reg'.step = 1
        /\ reg'.ecx = q /\ reg'.edx = r
    BY <2>1, <2>2, <1>2, <1>3
  <2>4. reg'.ecx * WordSize + reg'.edx = reg.ecx
    BY <2>2, <2>3
  <2>5. Upward(reg.ecx * WordSize + reg.edx)'
    BY <1>1, <2>1, <2>3, <2>4 DEF Upward, Wrote, Cell
  <2> QED BY <1>1, <2>1, <2>3, <2>5 DEF CopyInv
<1> QED BY <1>2, <1>4, <1>5, <1>6

\* The words.
LEMMA CopyWordsStep ==
    ASSUME CallInv, Copies, CopyInv, call' = call, CopyWords
    PROVE  CopyInv'
<1>1. /\ at = "words" /\ Copying /\ Upward(reg.ecx * WordSize + reg.edx) /\ Copying'
      /\ WordSize \in Nat \ {0}
  BY CopyCall DEF CopyInv, CopyWords, Copying
<1>2. reg \in [edi : Int, esi : Int, ecx : Nat, edx : Nat, step : {1, -1}]
  BY DEF CopyInv
<1>3. reg.step = 1
  BY <1>1 DEF Upward
<1>4. CASE reg.ecx > 0
  <2>1. at' = at /\ mem' = Moved(WordSize) /\ reg' = [Advanced(WordSize) EXCEPT !.ecx = @ - 1]
    BY <1>4, <1>2 DEF CopyWords
  <2>2. /\ reg' \in [edi : Int, esi : Int, ecx : Nat, edx : Nat, step : {1, -1}]
        /\ reg'.edi = reg.edi + WordSize /\ reg'.esi = reg.esi + WordSize /\ reg'.step = 1
        /\ reg'.ecx = reg.ecx - 1 /\ reg'.edx = reg.edx
    <3>1. Advanced(WordSize) = [edi |-> reg.edi + WordSize, esi |-> reg.esi + WordSize,
                                ecx |-> reg.ecx, edx |-> reg.edx, step |-> 1]
      BY <1>1, <1>2, <1>3, AdvancedBy
    <3>2. reg' = [edi |-> reg.edi + WordSize, esi |-> reg.esi + WordSize,
                  ecx |-> reg.ecx - 1, edx |-> reg.edx, step |-> 1]
      BY <2>1, <3>1
    <3> QED BY <1>1, <1>2, <1>4, <3>2
  <2>3. /\ reg.ecx * WordSize + reg.edx \in Nat
        /\ WordSize <= reg.ecx * WordSize + reg.edx
        /\ (reg.ecx * WordSize + reg.edx) - WordSize = (reg.ecx - 1) * WordSize + reg.edx
    <3>1. reg.ecx \in Nat /\ reg.edx \in Nat /\ WordSize \in Nat
      BY <1>1, <1>2
    <3>2. PICK e \in Nat, d \in Nat : e = reg.ecx /\ d = reg.edx
      BY <3>1
    <3> QED BY <3>1, <3>2, <1>4, WordLess
  <2>4. PICK left \in Nat : left = reg.ecx * WordSize + reg.edx
    BY <2>3
  <2>5. Upward(left - WordSize)'
    BY <1>1, <2>1, <2>2, <2>3, <2>4, UpwardMove DEF Copying
  <2>6. left - WordSize = reg'.ecx * WordSize + reg'.edx
    BY <2>2, <2>3, <2>4
  <2>7. Upward(reg.ecx * WordSize + reg.edx)'
    BY <2>5, <2>6 DEF Upward
  <2> QED BY <1>1, <2>1, <2>2, <2>7 DEF CopyInv
<1>5. CASE reg.ecx = 0
  <2>1. at' = "bottom" /\ mem' = mem /\ reg' = reg
    BY <1>2, <1>5 DEF CopyWords, copyvars
  <2>2. reg.ecx * WordSize + reg.edx = reg.edx
    BY <1>1, <1>2, <1>5
  <2>3. Upward(reg.edx)'
    BY <1>1, <2>1, <2>2 DEF Upward, Wrote, Cell
  <2> QED BY <1>1, <1>2, <2>1, <2>3 DEF CopyInv
<1> QED BY <1>2, <1>4, <1>5

\* The bytes behind the last word.
LEMMA CopyBottomStep ==
    ASSUME CallInv, Copies, CopyInv, call' = call, CopyBottom
    PROVE  CopyInv'
<1>1. at = "bottom" /\ Copying /\ Upward(reg.edx) /\ Copying'
  BY DEF CopyInv, CopyBottom, Copying
<1>2. reg \in [edi : Int, esi : Int, ecx : Nat, edx : Nat, step : {1, -1}]
  BY DEF CopyInv
<1>3. reg.step = 1 /\ call.dest \in Nat /\ call.n \in Nat
  BY <1>1, CopyCall DEF Upward
<1>4. CASE reg.edx > 0
  <2>1. at' = at /\ mem' = Moved(1) /\ reg' = [Advanced(1) EXCEPT !.edx = @ - 1]
    BY <1>4, <1>2 DEF CopyBottom
  <2>2. /\ reg' \in [edi : Int, esi : Int, ecx : Nat, edx : Nat, step : {1, -1}]
        /\ reg'.edi = reg.edi + 1 /\ reg'.esi = reg.esi + 1 /\ reg'.step = 1
        /\ reg'.edx = reg.edx - 1
    <3>1. Advanced(1) = [edi |-> reg.edi + 1, esi |-> reg.esi + 1, ecx |-> reg.ecx,
                         edx |-> reg.edx, step |-> 1]
      BY <1>2, <1>3, AdvancedBy
    <3>2. reg' = [edi |-> reg.edi + 1, esi |-> reg.esi + 1, ecx |-> reg.ecx,
                  edx |-> reg.edx - 1, step |-> 1]
      BY <2>1, <3>1
    <3> QED BY <1>2, <1>4, <3>2
  <2>3. PICK left \in Nat : left = reg.edx
    BY <1>2
  <2>4. PICK k \in Nat : k = 1
    OBVIOUS
  <2>5. Upward(left - k)'
    BY <1>1, <1>4, <2>1, <2>2, <2>3, <2>4, UpwardMove DEF Copying
  <2>6. Upward(reg.edx)'
    BY <2>2, <2>3, <2>4, <2>5 DEF Upward
  <2> QED BY <1>1, <2>1, <2>2, <2>6 DEF CopyInv
<1>5. CASE reg.edx = 0
  <2>1. at' = "done" /\ mem' = mem /\ reg' = reg
    BY <1>5, <1>1, <1>2 DEF CopyBottom, Returned, copyvars
  <2>2. mem = Wrote(call.dest, call.dest + call.n)
    BY <1>1, <1>3, <1>5 DEF Upward
  <2>3. mem' = Wrote(call.dest, call.dest + call.n)'
    BY <2>1, <2>2 DEF Wrote, Cell
  <2> QED BY <2>1, <2>3, <1>2 DEF CopyInv
<1> QED BY <1>2, <1>4, <1>5

\* The bytes of memmove, in either direction.
LEMMA MoveByteStep ==
    ASSUME CallInv, Copies, CopyInv, call' = call, MoveByte
    PROVE  CopyInv'
<1>1. /\ at = "move" /\ call.fn = "memmove"
      /\ \/ call.src >= call.dest /\ Upward(reg.ecx)
         \/ call.src < call.dest /\ Downward(reg.ecx)
  BY DEF CopyInv, MoveByte
<1>2. reg \in [edi : Int, esi : Int, ecx : Nat, edx : Nat, step : {1, -1}]
  BY DEF CopyInv
<1>3. call.dest \in Nat /\ call.n \in Nat
  BY CopyCall
<1>4. CASE reg.ecx > 0
  <2>1. at' = at /\ mem' = Moved(1) /\ reg' = [Advanced(1) EXCEPT !.ecx = @ - 1]
    BY <1>4, <1>2 DEF MoveByte
  <2>2. PICK left \in Nat, k \in Nat : left = reg.ecx /\ k = 1
    BY <1>2
  <2>3. CASE call.src >= call.dest /\ Upward(reg.ecx)
    <3>1. reg.step = 1
      BY <2>3 DEF Upward
    <3>2. Advanced(1) = [edi |-> reg.edi + 1, esi |-> reg.esi + 1, ecx |-> reg.ecx,
                         edx |-> reg.edx, step |-> 1]
      BY <1>2, <3>1, AdvancedBy
    <3>3. reg' = [edi |-> reg.edi + 1, esi |-> reg.esi + 1, ecx |-> reg.ecx - 1,
                  edx |-> reg.edx, step |-> 1]
      BY <2>1, <3>2
    <3>4. /\ reg' \in [edi : Int, esi : Int, ecx : Nat, edx : Nat, step : {1, -1}]
          /\ reg'.edi = reg.edi + 1 /\ reg'.esi = reg.esi + 1 /\ reg'.step = 1
          /\ reg'.ecx = reg.ecx - 1
      BY <1>2, <1>4, <3>3
    <3>5. Upward(left - k)'
      BY <1>1, <1>4, <2>1, <2>2, <2>3, <3>4, UpwardMove
    <3>6. Upward(reg.ecx)'
      BY <2>2, <3>4, <3>5 DEF Upward
    <3> QED BY <1>1, <2>1, <2>3, <3>4, <3>6 DEF CopyInv
  <2>4. CASE call.src < call.dest /\ Downward(reg.ecx)
    <3>1. reg.step = -1
      BY <2>4 DEF Downward
    <3>2. 1 * reg.step = -1
      BY <3>1
    <3>3. Advanced(1) = [reg EXCEPT !.edi = @ - 1, !.esi = @ - 1]
      BY <1>2, <3>2 DEF Advanced
    <3>4. Advanced(1) = [edi |-> reg.edi - 1, esi |-> reg.esi - 1, ecx |-> reg.ecx,
                         edx |-> reg.edx, step |-> -1]
      BY <1>2, <3>1, <3>3
    <3>5. reg' = [edi |-> reg.edi - 1, esi |-> reg.esi - 1, ecx |-> reg.ecx - 1,
                  edx |-> reg.edx, step |-> -1]
      BY <2>1, <3>4
    <3>6. /\ reg' \in [edi : Int, esi : Int, ecx : Nat, edx : Nat, step : {1, -1}]
          /\ reg'.edi = reg.edi - 1 /\ reg'.esi = reg.esi - 1 /\ reg'.step = -1
          /\ reg'.ecx = reg.ecx - 1
      BY <1>2, <1>4, <3>5
    <3>7. Downward(left - 1)'
      BY <1>1, <1>4, <2>1, <2>2, <2>4, <3>6, DownwardMove
    <3>8. Downward(reg.ecx)'
      BY <2>2, <3>6, <3>7 DEF Downward
    <3> QED BY <1>1, <2>1, <2>4, <3>6, <3>8 DEF CopyInv
  <2> QED BY <1>1, <2>3, <2>4
<1>5. CASE reg.ecx = 0
  <2>1. at' = "done" /\ mem' = mem /\ reg' = reg
    BY <1>5, <1>1, <1>2 DEF MoveByte, Returned, copyvars
  <2>2. mem = Wrote(call.dest, call.dest + call.n)
    BY <1>1, <1>3, <1>5 DEF Upward, Downward
  <2>3. mem' = Wrote(call.dest, call.dest + call.n)'
    BY <2>1, <2>2 DEF Wrote, Cell
  <2> QED BY <2>1, <2>3, <1>2 DEF CopyInv
<1> QED BY <1>2, <1>4, <1>5

\* The two starts: nothing is written yet.
LEMMA NothingWrote ==
    ASSUME NEW d \in Int, NEW e \in Int, e <= d
    PROVE  Wrote(d, e) = Wrote(0, 0)
  BY DEF Wrote

\* Each routine sets its registers so that everything is left.
LEMMA CopyStarts ==
    ASSUME CallInv, Copies, CopyInv, call' = call, CopyStart \/ MoveStart
    PROVE  CopyInv'
<1>1. at = "call" /\ mem = Wrote(0, 0) /\ mem' = mem /\ reg.step = 1
  BY DEF CopyInv, CopyStart, MoveStart
<1>2. reg \in [edi : Int, esi : Int, ecx : Nat, edx : Nat, step : {1, -1}]
  BY DEF CopyInv
<1>3. call.dest \in Nat /\ call.src \in Nat /\ call.n \in Nat
  BY CopyCall
<1>4. PICK d \in Int, e \in Int : d = call.dest /\ e = call.dest + call.n
  BY <1>3
<1>5. mem' = Wrote(d, d)' /\ mem' = Wrote(e, e)'
  BY <1>1, <1>4, NothingWrote DEF Wrote, Cell
<1>6. CASE CopyStart
  <2>1. /\ reg' = [reg EXCEPT !.edi = call.dest, !.esi = call.src, !.ecx = call.n]
        /\ at' = "top" /\ Copying'
    BY <1>6 DEF CopyStart, Copying
  <2>2. /\ reg' \in [edi : Int, esi : Int, ecx : Nat, edx : Nat, step : {1, -1}]
        /\ reg'.edi = call.dest /\ reg'.esi = call.src /\ reg'.ecx = call.n /\ reg'.step = 1
    <3>1. reg' = [edi |-> call.dest, esi |-> call.src, ecx |-> call.n, edx |-> reg.edx,
                  step |-> 1]
      BY <1>1, <1>2, <2>1
    <3> QED BY <1>2, <1>3, <3>1
  <2>3. mem' = Wrote(call.dest, reg.edi)'
    BY <1>4, <1>5, <2>2 DEF Wrote, Cell
  <2>4. reg'.ecx \in 0 .. call.n /\ call.n - reg'.ecx = 0
    BY <1>3, <2>2
  <2>5. Upward(reg.ecx)'
    BY <1>3, <2>2, <2>3, <2>4 DEF Upward
  <2> QED BY <2>1, <2>2, <2>5 DEF CopyInv
<1>7. CASE MoveStart /\ call.src >= call.dest
  <2>1. /\ reg' = [reg EXCEPT !.edi = call.dest, !.esi = call.src, !.ecx = call.n]
        /\ at' = "move" /\ call.fn = "memmove"
    BY <1>7 DEF MoveStart
  <2>2. /\ reg' \in [edi : Int, esi : Int, ecx : Nat, edx : Nat, step : {1, -1}]
        /\ reg'.edi = call.dest /\ reg'.esi = call.src /\ reg'.ecx = call.n /\ reg'.step = 1
    <3>1. reg' = [edi |-> call.dest, esi |-> call.src, ecx |-> call.n, edx |-> reg.edx,
                  step |-> 1]
      BY <1>1, <1>2, <2>1
    <3> QED BY <1>2, <1>3, <3>1
  <2>3. mem' = Wrote(call.dest, reg.edi)'
    BY <1>4, <1>5, <2>2 DEF Wrote, Cell
  <2>4. reg'.ecx \in 0 .. call.n /\ call.n - reg'.ecx = 0
    BY <1>3, <2>2
  <2>5. Upward(reg.ecx)'
    BY <1>3, <2>2, <2>3, <2>4 DEF Upward
  <2> QED BY <1>7, <2>1, <2>2, <2>5 DEF CopyInv
<1>8. CASE MoveStart /\ call.src < call.dest
  <2>1. /\ reg' = [reg EXCEPT !.edi = call.dest + call.n - 1, !.esi = call.src + call.n - 1,
                              !.ecx = call.n, !.step = -1]
        /\ at' = "move" /\ call.fn = "memmove"
    BY <1>3, <1>8 DEF MoveStart
  <2>2. /\ reg' \in [edi : Int, esi : Int, ecx : Nat, edx : Nat, step : {1, -1}]
        /\ reg'.edi = call.dest + call.n - 1 /\ reg'.esi = call.src + call.n - 1
        /\ reg'.ecx = call.n /\ reg'.step = -1
    <3>1. reg' = [edi |-> call.dest + call.n - 1, esi |-> call.src + call.n - 1,
                  ecx |-> call.n, edx |-> reg.edx, step |-> -1]
      BY <1>1, <1>2, <2>1
    <3> QED BY <1>2, <1>3, <3>1
  <2>3. Downward(reg.ecx)'
    BY <1>3, <1>4, <1>5, <2>2 DEF Downward
  <2> QED BY <1>8, <2>1, <2>2, <2>3 DEF CopyInv
<1> QED BY <1>3, <1>6, <1>7, <1>8

\* Every step of a copy, and none of another call.
LEMMA CopyStep ==
    ASSUME CallInv, Copies => CopyInv, [Next]_vars
    PROVE  (Copies => CopyInv)'
<1>1. call' = call
  BY CallStep
<1>2. SUFFICES ASSUME Copies, CopyInv PROVE CopyInv'
  BY <1>1 DEF Copies
<1>3. at \in {"call", "top", "words", "bottom", "move", "done"}
  BY <1>2 DEF CopyInv
<1>4. CASE LibNext
  <2>1. ~ Convert
    BY <1>2 DEF Convert, Copies
  <2> QED BY <1>1, <1>2, <1>4, <2>1, CopyStarts, CopyTopStep, CopyWordsStep,
             CopyBottomStep, MoveByteStep DEF LibNext
<1>5. ASSUME FsNext PROVE FALSE
  BY <1>2, <1>3, <1>5
     DEF FsNext, ReadRefused, ReadStart, ReadBlock, ReadByte, Lookup, Complete, Parse, Copies
<1>6. ASSUME GrepNext PROVE FALSE
  BY <1>2, <1>3, <1>6 DEF GrepNext, GrepOpen, GrepRead, GrepLine, GrepClose, Copies
<1>7. CASE RateNext
  BY <1>1, <1>2, <1>7, CopyStill DEF RateNext, copyvars
<1>8. CASE UNCHANGED vars
  BY <1>1, <1>2, <1>8, CopyStill DEF vars, copyvars
<1> QED BY <1>4, <1>5, <1>6, <1>7, <1>8 DEF Next

\* CopiesBytes for any word size, length, alignment and addresses: memcpy and
\* memset of areas apart, and memmove of any two areas, write the bytes they are
\* asked for and no other.
THEOREM BytesCopied == Spec => []CopiesBytes
<1>1. Init => CallInv /\ (Copies => CopyInv)
  <2> SUFFICES ASSUME Init PROVE CallInv /\ CopyInv
    OBVIOUS
  <2>1. /\ at = "call" /\ mem = [a \in 0 .. MemTop |-> a]
        /\ reg = [edi |-> 0, esi |-> 0, ecx |-> 0, edx |-> 0, step |-> 1]
        /\ call \in Calls
    BY DEF Init, LibInit
  <2>2. mem = Wrote(0, 0)
    BY <2>1 DEF Wrote
  <2> QED BY <2>1, <2>2 DEF CallInv, CopyInv
<1>2. CallInv /\ (Copies => CopyInv) /\ [Next]_vars => (CallInv /\ (Copies => CopyInv))'
  BY CallStep, CopyStep DEF CallInv
<1>3. CallInv /\ (Copies => CopyInv) => CopiesBytes
  <2> SUFFICES ASSUME CallInv, Copies, CopyInv, at = "done" PROVE CopiesBytes
    BY DEF CopiesBytes, Copies
  <2>1. mem = Wrote(call.dest, call.dest + call.n)
    BY DEF CopyInv
  <2>2. mem = [a \in 0 .. MemTop |->
                  IF a \notin call.dest .. call.dest + call.n - 1 THEN a ELSE Cell(a)]
    BY <2>1, CopyCall DEF Wrote
  <2> QED BY <2>2 DEF CopiesBytes, Cell
<1> QED BY <1>1, <1>2, <1>3, PTL DEF Spec

-----------------------------------------------------------------------------
(* read_data *)

Reading == call.fn = "read_data"

\* What is to be copied (negative for an offset behind the file), and the first
\* m bytes from the offset on.
Wanted == Cut(call.offset, call.length, call.size)
Slice(m) == [k \in 1 .. m |-> Byte(call.offset + k - 1)]

\* The loops have passed p bytes of the file: everything is copied, or they are
\* before the offset and nothing is, or they are behind it and what lies between
\* is.
Walk(p) ==
    /\ data_left \in Int /\ offset_left \in Int
    /\ \/ data_left <= 0 /\ buf = Slice(Due)
       \/ /\ data_left > 0 /\ offset_left > 0
          /\ data_left = Wanted /\ buf = Slice(0)
          /\ p + offset_left = call.offset
       \/ /\ data_left > 0 /\ offset_left = 0
          /\ data_left <= Wanted
          /\ buf = Slice(Wanted - data_left)
          /\ p = call.offset + (Wanted - data_left)

ReadInv ==
    /\ at \in {"call", "block", "byte", "done"}
    /\ at = "call" => i = 0 /\ buf = << >>
    /\ at \in {"block", "byte"} => InRange
    /\ at = "block" =>
           /\ i \in 0 .. Blocks
           /\ \A k \in 1 .. i : call.blocks[k] <= MaxBlock
           /\ Walk(i * BlockSize)
    /\ at = "byte" =>
           /\ i \in 0 .. Blocks - 1 /\ j \in 0 .. BlockSize
           /\ \A k \in 1 .. i + 1 : call.blocks[k] <= MaxBlock
           /\ Walk(i * BlockSize + j)
    /\ at = "done" =>
           IF Sound THEN res = Due /\ buf = Slice(Due) ELSE res = -1

\* The number of blocks is the least that hold the bytes.
LEMMA BlocksHold ==
    ASSUME NEW bytes \in Nat, NEW size \in Nat \ {0}, BlockSize = size
    PROVE  \E n \in Nat : /\ n = num_blocks(bytes)
                          /\ bytes <= n * size
                          /\ n > 0 => (n - 1) * size < bytes
<1>1. PICK q \in Nat, r \in Nat :
          q = bytes \div size /\ r = bytes % size /\ q * size + r = bytes /\ r < size
  BY WordSplit
<1>2. CASE r = 0
  <2>1. num_blocks(bytes) = q
    BY <1>1, <1>2 DEF num_blocks
  <2>2. bytes = q * size
    BY <1>1, <1>2
  <2>3. q > 0 => (q - 1) * size < q * size
    <3>1. (q - 1) * size = q * size - size
      OBVIOUS
    <3> QED BY <3>1
  <2> QED BY <2>1, <2>2, <2>3
<1>3. CASE r # 0
  <2>1. num_blocks(bytes) = q + 1
    BY <1>1, <1>3 DEF num_blocks
  <2>2. (q + 1) * size = q * size + size
    OBVIOUS
  <2>3. (q + 1) - 1 = q
    OBVIOUS
  <2>4. q * size < bytes
    BY <1>1, <1>3
  <2>5. bytes <= (q + 1) * size
    BY <1>1, <2>2
  <2> QED BY <2>1, <2>3, <2>4, <2>5
<1> QED BY <1>2, <1>3

\* What the assumptions say of the call: the blocks that are walked end at or
\* behind the last byte that is wanted, and the inode has all of them.
LEMMA ReadCall ==
    ASSUME CallInv, Reading
    PROVE  /\ call.offset \in Nat /\ call.length \in Nat /\ call.size \in Nat
           /\ BlockSize \in Nat \ {0} /\ MaxBlock \in Nat
           /\ Wanted \in Int /\ call.offset + Wanted \in Nat
           /\ Due = IF Wanted > 0 THEN Wanted ELSE 0
           /\ Blocks \in Nat
           /\ call.offset + Wanted <= Blocks * BlockSize
           /\ \A k \in 1 .. Blocks : call.blocks[k] \in Nat
<1>1. /\ call.offset \in Nat /\ call.length \in Nat /\ call.size \in Nat
      /\ call.blocks \in Seq(Nat) /\ call.size <= Len(call.blocks) * BlockSize
      /\ BlockSize \in Nat \ {0} /\ MaxBlock \in Nat
  BY FilesysAssumption, FsCallsAssumption DEF CallInv, Reading
<1>2. PICK o \in Nat, l \in Nat, z \in Nat, w \in Nat, n \in Nat \ {0} :
          /\ o = call.offset /\ l = call.length /\ z = call.size
          /\ w = Len(call.blocks) /\ n = BlockSize
  BY <1>1
<1>3. PICK c \in Int : c = Cut(o, l, z)
  BY DEF Cut
<1>4. o + c \in Nat /\ o + c <= z /\ c = c + o - o
  BY <1>3 DEF Cut
<1>5. Wanted = c
  BY <1>2, <1>3 DEF Wanted
<1>6. Due = IF c > 0 THEN c ELSE 0
  <2>1. \A x, y \in Int : Min({x, y}) = IF x <= y THEN x ELSE y
    BY DEF Min
  <2>2. \A x, y \in Int : Max({x, y}) = IF x >= y THEN x ELSE y
    BY DEF Max
  <2>3. c = IF l <= z - o THEN l ELSE z - o
    BY <1>3 DEF Cut
  <2>4. Min({l, z - o}) = c
    BY <2>1, <2>3
  <2>5. Max({0, c}) = IF c > 0 THEN c ELSE 0
    BY <2>2
  <2> QED BY <1>2, <2>4, <2>5 DEF Due
<1>7. PICK m \in Nat : /\ m = num_blocks(c + o)
                       /\ c + o <= m * n
                       /\ m > 0 => (m - 1) * n < c + o
  <2>1. c + o \in Nat
    BY <1>4
  <2> QED BY <1>2, <2>1, BlocksHold
<1>8. Blocks = m
  BY <1>2, <1>3, <1>7 DEF Blocks
<1>9. m <= w
  <2>1. SUFFICES ASSUME m > w PROVE FALSE
    OBVIOUS
  <2>2. w <= m - 1 /\ m - 1 \in Nat
    BY <2>1
  <2>3. w * n <= (m - 1) * n
    BY <2>2
  <2>4. z <= w * n
    BY <1>1, <1>2
  <2> QED BY <1>4, <1>7, <2>1, <2>2, <2>3, <2>4
<1>10. ASSUME NEW k \in 1 .. Blocks PROVE call.blocks[k] \in Nat
  <2>1. k \in 1 .. Len(call.blocks)
    BY <1>2, <1>8, <1>9
  <2> QED BY <1>1, <2>1
<1>11. call.offset + Wanted <= Blocks * BlockSize
  BY <1>2, <1>4, <1>5, <1>7, <1>8
<1> QED BY <1>1, <1>2, <1>4, <1>5, <1>6, <1>8, <1>10, <1>11

\* What depends on the call alone.
LEMMA CallFixed ==
    ASSUME call' = call
    PROVE  /\ Wanted' = Wanted /\ Due' = Due /\ Blocks' = Blocks /\ Sound' = Sound
           /\ Reading' = Reading /\ InRange' = InRange
           /\ \A m : Slice(m)' = Slice(m)
  BY DEF Wanted, Due, Blocks, Sound, InRange, Reading, Slice, Byte

\* Nothing has been read.
LEMMA SliceNone == Slice(0) = << >>
  BY DEF Slice

\* A position's block and its byte in it.
LEMMA BlockOf ==
    ASSUME NEW f \in Nat, NEW n \in Nat, NEW b \in Nat \ {0}, NEW k \in 0 .. b - 1,
           f = n * b + k
    PROVE  f \div b = n /\ f % b = k
  OBVIOUS

\* The byte that is copied is the next one of the slice.
LEMMA SliceNext ==
    ASSUME NEW m \in Nat, NEW n \in Nat, NEW b \in Nat \ {0}, NEW k \in 0 .. b - 1,
           BlockSize = b, call.offset \in Nat, call.offset + m = n * b + k
    PROVE  Append(Slice(m), Disk[call.blocks[n + 1]][k + 1]) = Slice(m + 1)
<1>1. PICK f \in Nat : f = call.offset + m
  OBVIOUS
<1>2. f \div b = n /\ f % b = k
  <2>1. f = n * b + k
    BY <1>1
  <2> QED BY <2>1, BlockOf
<1>3. Byte(f) = Disk[call.blocks[n + 1]][k + 1]
  BY <1>2 DEF Byte
<1>4. f = call.offset + (m + 1) - 1
  BY <1>1
<1>5. Append(Slice(m), Byte(call.offset + (m + 1) - 1)) = Slice(m + 1)
  BY DEF Slice
<1> QED BY <1>3, <1>4, <1>5

\* read_data starts before its offset, or at it when that is 0.
LEMMA ReadStartStep ==
    ASSUME CallInv, Reading, ReadInv, call' = call, ReadStart
    PROVE  ReadInv'
<1>1. /\ at' = "block" /\ i' = 0 /\ buf' = Slice(0)
      /\ data_left' = Wanted /\ offset_left' = call.offset
  BY SliceNone DEF ReadStart, ReadInv, Wanted
<1>2. /\ call.offset \in Nat /\ Wanted \in Int /\ Blocks \in Nat /\ BlockSize \in Nat
      /\ Due = IF Wanted > 0 THEN Wanted ELSE 0
  BY ReadCall
<1>3. Walk(0)'
  <2>1. CASE Wanted <= 0
    BY <1>1, <1>2, <2>1, CallFixed DEF Walk
  <2>2. CASE Wanted > 0 /\ call.offset > 0
    BY <1>1, <1>2, <2>2, CallFixed DEF Walk
  <2>3. CASE Wanted > 0 /\ call.offset = 0
    <3>1. Wanted - Wanted = 0
      BY <1>2
    <3> QED BY <1>1, <1>2, <2>3, <3>1, CallFixed DEF Walk
  <2> QED BY <1>2, <2>1, <2>2, <2>3
<1>4. i' * BlockSize = 0
  BY <1>1, <1>2
<1>5. Walk(i * BlockSize)'
  BY <1>3, <1>4 DEF Walk
<1>6. i' \in 0 .. Blocks' /\ \A k \in 1 .. i' : call'.blocks[k] <= MaxBlock
  BY <1>1, <1>2, CallFixed
<1>7. InRange'
  BY CallFixed DEF ReadStart, InRange
<1> QED BY <1>1, <1>5, <1>6, <1>7 DEF ReadInv

\* An inode number that is too large is refused.
LEMMA ReadRefusedStep ==
    ASSUME CallInv, Reading, ReadInv, call' = call, ReadRefused
    PROVE  ReadInv'
<1>1. at' = "done" /\ res' = -1 /\ call.inode > InodeCount
  BY DEF ReadRefused, Returned
<1>2. call.inode \in Nat /\ InodeCount \in Nat
  BY FilesysAssumption, FsCallsAssumption DEF CallInv, Reading
<1>3. ~ Sound'
  BY <1>1, <1>2 DEF Sound, InRange
<1> QED BY <1>1, <1>3 DEF ReadInv

\* A block is refused, skipped or entered, or the last is passed.
LEMMA ReadBlockStep ==
    ASSUME CallInv, Reading, ReadInv, call' = call, ReadBlock
    PROVE  ReadInv'
<1>1. /\ at = "block" /\ InRange /\ InRange' /\ i \in 0 .. Blocks
      /\ \A k \in 1 .. i : call.blocks[k] <= MaxBlock
      /\ Walk(i * BlockSize)
  BY CallFixed DEF ReadInv, ReadBlock
<1>2. /\ call.offset \in Nat /\ Wanted \in Int /\ Blocks \in Nat /\ BlockSize \in Nat \ {0}
      /\ MaxBlock \in Nat
      /\ Due = IF Wanted > 0 THEN Wanted ELSE 0
      /\ call.offset + Wanted <= Blocks * BlockSize
      /\ \A k \in 1 .. Blocks : call.blocks[k] \in Nat
  BY ReadCall
<1>3. PICK n \in Nat, b \in Nat \ {0}, p \in Nat : n = i /\ b = BlockSize /\ p = n * b
  BY <1>1, <1>2
<1>4. Walk(p)
  BY <1>1, <1>3
<1>5. j' = 0 /\ buf' = buf /\ data_left' = data_left
  BY DEF ReadBlock
<1>6. CASE i = Blocks
  <2>1. at' = "done" /\ res' = Len(buf)
    BY <1>2, <1>6 DEF ReadBlock, Returned
  <2>2. p >= call.offset + Wanted
    BY <1>2, <1>3, <1>6
  <2>3. buf = Slice(Due)
    BY <1>2, <1>4, <2>2 DEF Walk
  <2>4. Len(buf) = Due
    BY <1>2, <2>3 DEF Slice
  <2>5. Sound
    BY <1>1, <1>6 DEF Sound
  <2> QED BY <1>5, <2>1, <2>3, <2>4, <2>5, CallFixed DEF ReadInv
<1>7. CASE i < Blocks /\ call.blocks[i + 1] > MaxBlock
  <2>1. i # Blocks /\ ~ (call.blocks[i + 1] <= MaxBlock)
    <3>1. i + 1 \in 1 .. Blocks
      BY <1>1, <1>2, <1>7
    <3> QED BY <1>2, <1>7, <3>1
  <2>2. i + 1 \in 1 .. Blocks /\ at' = "done" /\ res' = -1
    BY <1>1, <1>2, <1>7, <2>1 DEF ReadBlock, Returned
  <2>3. ~ Sound
    BY <1>2, <1>7, <2>2 DEF Sound
  <2> QED BY <2>2, <2>3, CallFixed DEF ReadInv
<1>8. CASE i < Blocks /\ call.blocks[i + 1] <= MaxBlock
  <2>1. i # Blocks /\ ~ (call.blocks[i + 1] > MaxBlock)
    <3>1. i + 1 \in 1 .. Blocks
      BY <1>1, <1>2, <1>8
    <3> QED BY <1>2, <1>8, <3>1
  <2>2. \A k \in 1 .. i + 1 : call.blocks[k] <= MaxBlock
    BY <1>1, <1>2, <1>8
  <2>3. CASE offset_left > BlockSize
    <3>1. offset_left' = offset_left - BlockSize /\ i' = i + 1 /\ at' = "block"
      BY <1>1, <2>1, <2>3 DEF ReadBlock
    <3>2. (n + 1) * b = p + b
      BY <1>3
    <3>3. Walk(p + b)'
      BY <1>2, <1>3, <1>4, <1>5, <2>3, <3>1, CallFixed DEF Walk
    <3>4. i' * BlockSize = p + b
      BY <1>3, <3>1, <3>2
    <3>5. Walk(i * BlockSize)'
      BY <3>3, <3>4 DEF Walk
    <3>6. i' \in 0 .. Blocks'
      BY <1>1, <1>2, <1>8, <3>1, CallFixed
    <3> QED BY <1>1, <2>2, <3>1, <3>5, <3>6 DEF ReadInv
  <2>4. CASE ~ (offset_left > BlockSize)
    <3>1. offset_left' = offset_left /\ i' = i /\ at' = "byte"
      BY <1>1, <2>1, <2>4 DEF ReadBlock
    <3>2. i' * BlockSize + j' = p
      <4>1. i' = n /\ j' = 0 /\ BlockSize = b
        BY <1>3, <1>5, <3>1
      <4> QED BY <1>3, <4>1
    <3>3. Walk(p)'
      BY <1>4, <1>5, <3>1, CallFixed DEF Walk
    <3>4. Walk(i * BlockSize + j)'
      BY <3>2, <3>3 DEF Walk
    <3>5. i' \in 0 .. Blocks' - 1 /\ j' \in 0 .. BlockSize
      BY <1>1, <1>2, <1>5, <1>8, <3>1, CallFixed
    <3> QED BY <1>1, <2>2, <3>1, <3>4, <3>5 DEF ReadInv
  <2> QED BY <2>3, <2>4
<1>9. i = Blocks \/ i < Blocks
  BY <1>1, <1>2
<1>10. i < Blocks => call.blocks[i + 1] > MaxBlock \/ call.blocks[i + 1] <= MaxBlock
  BY <1>1, <1>2
<1> QED BY <1>6, <1>7, <1>8, <1>9, <1>10

\* A byte is skipped or copied, or the block is left.
LEMMA ReadByteStep ==
    ASSUME CallInv, Reading, ReadInv, call' = call, ReadByte
    PROVE  ReadInv'
<1>1. /\ at = "byte" /\ InRange' /\ i \in 0 .. Blocks - 1 /\ j \in 0 .. BlockSize
      /\ \A k \in 1 .. i + 1 : call.blocks[k] <= MaxBlock
      /\ Walk(i * BlockSize + j)
  BY CallFixed DEF ReadInv, ReadByte
<1>2. /\ call.offset \in Nat /\ Wanted \in Int /\ Blocks \in Nat /\ BlockSize \in Nat \ {0}
      /\ Due = IF Wanted > 0 THEN Wanted ELSE 0
  BY ReadCall
<1>3. PICK n \in Nat, k \in Nat, b \in Nat \ {0}, q \in Nat, p \in Nat :
          n = i /\ k = j /\ b = BlockSize /\ q = n * b /\ p = q + k
  BY <1>1, <1>2
<1>4. Walk(p)
  BY <1>1, <1>3
<1>5. data_left \in Int /\ offset_left \in Int
  BY <1>4 DEF Walk
<1>6. CASE j < BlockSize /\ data_left > 0
  <2>1. at' = at /\ i' = i /\ j' = j + 1
    BY <1>3, <1>5, <1>6 DEF ReadByte
  <2>2. i' \in 0 .. Blocks' - 1 /\ j' \in 0 .. BlockSize
    BY <1>1, <1>2, <1>6, <2>1, CallFixed
  <2>3. i' * BlockSize + j' = p + 1
    <3>1. i' = n /\ j' = k + 1 /\ BlockSize = b
      BY <1>3, <2>1
    <3> QED BY <1>3, <3>1
  <2>4. Walk(p + 1)'
    <3>1. CASE offset_left > 0
      <4>1. offset_left' = offset_left - 1 /\ data_left' = data_left /\ buf' = buf
        BY <1>3, <1>5, <1>6, <3>1 DEF ReadByte
      <4>2. /\ data_left = Wanted /\ buf = Slice(0) /\ p + offset_left = call.offset
        BY <1>4, <1>6, <3>1 DEF Walk
      <4>3. Wanted - Wanted = 0 /\ (p + 1) + (offset_left - 1) = call.offset
        BY <1>2, <1>5, <4>2
      <4>4. CASE offset_left = 1
        BY <1>2, <1>6, <4>1, <4>2, <4>3, <4>4, CallFixed DEF Walk
      <4>5. CASE offset_left > 1
        BY <1>2, <1>5, <1>6, <4>1, <4>2, <4>3, <4>5, CallFixed DEF Walk
      <4> QED BY <1>5, <3>1, <4>4, <4>5
    <3>2. CASE offset_left <= 0
      <4>1. /\ offset_left' = offset_left /\ data_left' = data_left - 1
            /\ buf' = Append(buf, Disk[call.blocks[i + 1]][j + 1])
        BY <1>3, <1>5, <1>6, <3>2 DEF ReadByte
      <4>2. /\ offset_left = 0 /\ data_left <= Wanted
            /\ buf = Slice(Wanted - data_left)
            /\ p = call.offset + (Wanted - data_left)
        BY <1>4, <1>5, <1>6, <3>2 DEF Walk
      <4>3. PICK m \in Nat : m = Wanted - data_left
        BY <1>2, <1>5, <4>2
      <4>4. buf' = Slice(m + 1)
        <5>1. k \in 0 .. b - 1 /\ call.offset + m = n * b + k
          BY <1>3, <1>6, <4>2, <4>3
        <5>2. Append(Slice(m), Disk[call.blocks[n + 1]][k + 1]) = Slice(m + 1)
          <6>1. BlockSize = b /\ call.offset \in Nat
            BY <1>2, <1>3
          <6> QED BY <5>1, <6>1, SliceNext, Zenon
        <5> QED BY <1>3, <4>1, <4>2, <4>3, <5>2
      <4>5. Wanted - data_left' = m + 1 /\ p + 1 = call.offset + (m + 1) /\ data_left' \in Int
        BY <1>2, <1>5, <4>1, <4>2, <4>3
      <4>6. CASE data_left = 1
        <5>1. Due = m + 1 /\ data_left' = 0
          BY <1>2, <4>1, <4>2, <4>3, <4>6
        <5> QED BY <4>1, <4>2, <4>4, <5>1, CallFixed DEF Walk
      <4>7. CASE data_left > 1
        <5>1. data_left' > 0 /\ data_left' <= Wanted
          BY <1>2, <1>5, <4>1, <4>2, <4>7
        <5> QED BY <4>1, <4>2, <4>4, <4>5, <5>1, CallFixed DEF Walk
      <4> QED BY <1>5, <1>6, <4>6, <4>7
    <3> QED BY <1>5, <3>1, <3>2
  <2>5. Walk(i * BlockSize + j)'
    BY <2>3, <2>4 DEF Walk
  <2> QED BY <1>1, <2>1, <2>2, <2>5 DEF ReadInv
<1>7. CASE j = BlockSize \/ data_left <= 0
  <2>1. at' = "block" /\ i' = i + 1 /\ UNCHANGED << offset_left, data_left, buf >>
    BY <1>2, <1>5, <1>7 DEF ReadByte
  <2>2. (n + 1) * b = q + b
    BY <1>3
  <2>3. Walk(q + b)'
    <3>1. CASE data_left <= 0
      BY <1>4, <2>1, <3>1, CallFixed DEF Walk
    <3>2. CASE j = BlockSize
      <4>1. p = q + b
        BY <1>3, <3>2
      <4> QED BY <1>4, <2>1, <4>1, CallFixed DEF Walk
    <3> QED BY <1>7, <3>1, <3>2
  <2>4. i' * BlockSize = q + b
    BY <1>3, <2>1, <2>2
  <2>5. Walk(i * BlockSize)'
    BY <2>3, <2>4 DEF Walk
  <2>6. i' \in 0 .. Blocks'
    BY <1>1, <1>2, <2>1, CallFixed
  <2> QED BY <1>1, <2>1, <2>5, <2>6 DEF ReadInv
<1>8. (j < BlockSize /\ data_left > 0) \/ j = BlockSize \/ data_left <= 0
  BY <1>1, <1>2, <1>5
<1> QED BY <1>6, <1>7, <1>8

\* What no step of the read changes.
LEMMA ReadStill ==
    ASSUME call' = call, ReadInv, UNCHANGED << at, res, loop >>
    PROVE  ReadInv'
<1>1. /\ at' = at /\ res' = res /\ i' = i /\ j' = j
      /\ offset_left' = offset_left /\ data_left' = data_left /\ buf' = buf
  BY DEF loop
<1>2. /\ Wanted' = Wanted /\ Due' = Due /\ Blocks' = Blocks /\ Sound' = Sound
      /\ InRange' = InRange
      /\ \A m : Slice(m)' = Slice(m)
  BY CallFixed
<1>3. \A p : Walk(p)' <=> Walk(p)
  BY <1>1, <1>2 DEF Walk
<1>4. /\ Walk(i * BlockSize)' <=> Walk(i * BlockSize)
      /\ Walk(i * BlockSize + j)' <=> Walk(i * BlockSize + j)
  BY <1>1, <1>2 DEF Walk
<1> QED BY <1>1, <1>2, <1>4 DEF ReadInv

\* Every step of a read, and none of another call.
LEMMA ReadStep ==
    ASSUME CallInv, Reading => ReadInv, [Next]_vars
    PROVE  (Reading => ReadInv)'
<1>1. call' = call
  BY CallStep
<1>2. SUFFICES ASSUME Reading, ReadInv PROVE ReadInv'
  BY <1>1 DEF Reading
<1>3. at \in {"call", "block", "byte", "done"}
  BY <1>2 DEF ReadInv
<1>4. ASSUME LibNext PROVE FALSE
  BY <1>2, <1>3, <1>4 DEF LibNext, Convert, CopyStart, CopyTop, CopyWords, CopyBottom,
     MoveStart, MoveByte, Copying, Reading
<1>5. CASE FsNext
  <2>1. ~ Lookup /\ ~ Complete /\ ~ Parse
    BY <1>2 DEF Lookup, Complete, Parse, Reading
  <2> QED BY <1>1, <1>2, <1>5, <2>1, ReadRefusedStep, ReadStartStep,
         ReadBlockStep, ReadByteStep DEF FsNext
<1>6. ASSUME GrepNext PROVE FALSE
  BY <1>2, <1>3, <1>6 DEF GrepNext, GrepOpen, GrepRead, GrepLine, GrepClose, Reading
<1>7. CASE RateNext /\ UNCHANGED loop
  BY <1>1, <1>2, <1>7, ReadStill DEF RateNext
<1>8. CASE UNCHANGED vars
  BY <1>1, <1>2, <1>8, ReadStill DEF vars
<1> QED BY <1>4, <1>5, <1>6, <1>7, <1>8 DEF Next

\* ReadsSlice for any block size, file, offset and length: read_data delivers
\* the bytes of the file from the offset on and no others, wherever the blocks
\* lie, and fails only for an inode number that its check refuses and for a block
\* that does not exist.
THEOREM SliceRead == Spec => []ReadsSlice
<1>1. Init => CallInv /\ (Reading => ReadInv)
  BY DEF Init, LibInit, FsInit, CallInv, ReadInv
<1>2. CallInv /\ (Reading => ReadInv) /\ [Next]_vars => (CallInv /\ (Reading => ReadInv))'
  BY CallStep, ReadStep DEF CallInv
<1>3. CallInv /\ (Reading => ReadInv) => ReadsSlice
  BY DEF ReadsSlice, ReadInv, Slice, Done, Reading
<1> QED BY <1>1, <1>2, <1>3, PTL DEF Spec

-----------------------------------------------------------------------------
(* Calls that one step answers: the split of a command *)

\* The split of a command, the look-up and the completion are one step each: the
\* call has not been answered, or it has.
AtOnce == call.fn \in {"execute", "open", "fs_search"}

AnswerInv ==
    /\ at \in {"call", "done"}
    /\ at = "done" =>
           /\ call.fn = "execute" => res = parse(call.command)
           /\ call.fn = "open" =>
                  res = << get_filetype(call.name), read_dentry_by_name(call.name) >>
           /\ call.fn = "fs_search" => res = fs_search(call.line)

\* The one step of such a call.
LEMMA AnswerStep ==
    ASSUME CallInv, AtOnce => AnswerInv, [Next]_vars
    PROVE  (AtOnce => AnswerInv)'
<1>1. call' = call
  BY CallStep
<1>2. SUFFICES ASSUME AtOnce, AnswerInv PROVE AnswerInv'
  BY <1>1 DEF AtOnce
<1>3. at \in {"call", "done"}
  BY <1>2 DEF AnswerInv
<1>4. ASSUME UNCHANGED << at, res >> PROVE AnswerInv'
  BY <1>1, <1>2, <1>4 DEF AnswerInv
<1>5. ASSUME LibNext PROVE FALSE
  BY <1>2, <1>3, <1>5 DEF LibNext, Convert, CopyStart, CopyTop, CopyWords, CopyBottom,
     MoveStart, MoveByte, Copying, AtOnce
<1>6. CASE FsNext
  <2>1. Parse \/ Lookup \/ Complete
    BY <1>2, <1>3, <1>6 DEF FsNext, ReadRefused, ReadStart, ReadBlock, ReadByte, AtOnce
  <2>2. CASE Parse
    BY <1>1, <2>2 DEF Parse, Returned, AnswerInv
  <2>3. CASE Lookup
    BY <1>1, <2>3 DEF Lookup, Returned, AnswerInv
  <2>4. CASE Complete
    BY <1>1, <2>4 DEF Complete, Returned, AnswerInv
  <2> QED BY <2>1, <2>2, <2>3, <2>4
<1>7. ASSUME GrepNext PROVE FALSE
  BY <1>2, <1>3, <1>7 DEF GrepNext, GrepOpen, GrepRead, GrepLine, GrepClose, AtOnce
<1>8. CASE RateNext
  BY <1>4, <1>8 DEF RateNext
<1>9. CASE UNCHANGED vars
  BY <1>4, <1>9 DEF vars
<1> QED BY <1>5, <1>6, <1>7, <1>8, <1>9 DEF Next

\* Every answer is what its function returns.
LEMMA Answers == Spec => [](CallInv /\ (AtOnce => AnswerInv))
<1>1. Init => CallInv /\ (AtOnce => AnswerInv)
  BY DEF Init, LibInit, CallInv, AnswerInv
<1>2. CallInv /\ (AtOnce => AnswerInv) /\ [Next]_vars
          => (CallInv /\ (AtOnce => AnswerInv))'
  BY CallStep, AnswerStep DEF CallInv
<1> QED BY <1>1, <1>2, PTL DEF Spec

\* The two scans stop at the first position that is, or is not, a space, or
\* behind the end.
LEMMA SkipStops ==
    ASSUME NEW s \in Seq(STRING), NEW k \in 1 .. Len(s) + 1
    PROVE  /\ skip(s, k) \in k .. Len(s) + 1
           /\ skip(s, k) <= Len(s) => s[skip(s, k)] # Space
           /\ \A n \in k .. skip(s, k) - 1 : s[n] = Space
<1> DEFINE S == {n \in k .. Len(s) + 1 : n > Len(s) \/ s[n] # Space}
<1>1. S \in SUBSET Nat /\ Len(s) + 1 \in S
  OBVIOUS
<1>2. Min(S) \in S /\ \A y \in S : Min(S) <= y
  BY <1>1, MinIn
<1>3. PICK m \in S : m = Min(S)
  BY <1>2
<1>4. skip(s, k) = m
  BY <1>3 DEF skip
<1>5. \A n \in k .. m - 1 : s[n] = Space
  BY <1>2, <1>3
<1> QED BY <1>4, <1>5

\* The end of a word.
LEMMA WordStops ==
    ASSUME NEW s \in Seq(STRING), NEW k \in 1 .. Len(s) + 1
    PROVE  /\ word(s, k) \in k .. Len(s) + 1
           /\ word(s, k) <= Len(s) => s[word(s, k)] = Space
           /\ \A n \in k .. word(s, k) - 1 : s[n] # Space
<1> DEFINE S == {n \in k .. Len(s) + 1 : n > Len(s) \/ s[n] = Space}
<1>1. S \in SUBSET Nat /\ Len(s) + 1 \in S
  OBVIOUS
<1>2. Min(S) \in S /\ \A y \in S : Min(S) <= y
  BY <1>1, MinIn
<1>3. PICK m \in S : m = Min(S)
  BY <1>2
<1>4. word(s, k) = m
  BY <1>3 DEF word
<1>5. \A n \in k .. m - 1 : s[n] # Space
  BY <1>2, <1>3
<1> QED BY <1>4, <1>5

\* What ParsesBack says of the result of the split.
LEMMA ParseSplits ==
    ASSUME NEW s \in Seq(STRING), NEW name, NEW args, parse(s) = << name, args >>
    PROVE  /\ Space \notin {name[k] : k \in 1 .. Len(name)}
           /\ args # << >> => args[1] # Space
           /\ SubSeq(s, (Len(s) - Len(args)) + 1, Len(s)) = args
           /\ \E d \in 0 .. Len(s) - Len(args) :
                 /\ SubSeq(s, d + 1, d + Len(name)) = name
                 /\ \A k \in (1 .. d) \cup (d + Len(name) + 1 .. Len(s) - Len(args)) :
                        s[k] = Space
                 /\ name # << >> /\ args # << >> => d + Len(name) < Len(s) - Len(args)
<1>1. PICK b \in 1 .. Len(s) + 1 :
          /\ b = skip(s, 1)
          /\ \A n \in 1 .. b - 1 : s[n] = Space
  <2>1. 1 \in 1 .. Len(s) + 1
    OBVIOUS
  <2>2. /\ skip(s, 1) \in 1 .. Len(s) + 1
        /\ \A n \in 1 .. skip(s, 1) - 1 : s[n] = Space
    BY <2>1, SkipStops
  <2> QED BY <2>2
<1>2. PICK e \in b .. Len(s) + 1 :
          /\ e = word(s, b)
          /\ e <= Len(s) => s[e] = Space
          /\ \A n \in b .. e - 1 : s[n] # Space
  BY WordStops
<1>3. PICK c \in e .. Len(s) + 1 :
          /\ c = skip(s, e)
          /\ c <= Len(s) => s[c] # Space
          /\ \A n \in e .. c - 1 : s[n] = Space
  <2>1. e \in 1 .. Len(s) + 1
    OBVIOUS
  <2> QED BY <2>1, SkipStops
<1>4. name = SubSeq(s, b, e - 1) /\ args = SubSeq(s, c, Len(s))
  BY <1>1, <1>2, <1>3 DEF parse
<1>5. Len(name) = e - b /\ \A k \in 1 .. e - b : name[k] = s[b + k - 1]
  BY <1>4
<1>6. Len(args) = Len(s) - c + 1 /\ (c <= Len(s) => args[1] = s[c])
  BY <1>4
<1>7. Len(s) - Len(args) = c - 1
  BY <1>6
<1>8. args # << >> => c <= Len(s)
  BY <1>4
<1>9. \A k \in 1 .. Len(name) : name[k] # Space
  BY <1>2, <1>5
<1>10. b - 1 \in 0 .. Len(s) - Len(args)
  BY <1>7
<1>11. (b - 1) + 1 = b /\ (b - 1) + Len(name) = e - 1
  BY <1>5
<1>12. \A k \in (1 .. b - 1) \cup ((e - 1) + 1 .. c - 1) : s[k] = Space
  BY <1>1, <1>3
<1>13. args # << >> => e < c
  BY <1>2, <1>3, <1>8
<1>14. \E d \in 0 .. Len(s) - Len(args) :
          /\ SubSeq(s, d + 1, d + Len(name)) = name
          /\ \A k \in (1 .. d) \cup (d + Len(name) + 1 .. Len(s) - Len(args)) : s[k] = Space
          /\ name # << >> /\ args # << >> => d + Len(name) < Len(s) - Len(args)
  <2> WITNESS b - 1 \in 0 .. Len(s) - Len(args)
  <2>1. SubSeq(s, (b - 1) + 1, (b - 1) + Len(name)) = name
    BY <1>4, <1>11
  <2>2. \A k \in (1 .. b - 1) \cup ((b - 1) + Len(name) + 1 .. Len(s) - Len(args)) :
            s[k] = Space
    BY <1>7, <1>11, <1>12
  <2>3. args # << >> => (b - 1) + Len(name) < Len(s) - Len(args)
    BY <1>7, <1>11, <1>13
  <2> QED BY <2>1, <2>2, <2>3
<1>15. (Len(s) - Len(args)) + 1 = c
  BY <1>7
<1> QED BY <1>3, <1>4, <1>6, <1>8, <1>9, <1>14, <1>15

\* ParsesBack for every command: system_execute splits it into a name and
\* arguments that lose nothing but the spaces before, between and behind.
THEOREM CommandSplit == Spec => []ParsesBack
<1>1. CallInv /\ (AtOnce => AnswerInv) => ParsesBack
  <2> SUFFICES ASSUME CallInv, call.fn = "execute", AnswerInv, at = "done"
               PROVE  ParsesBack
    BY DEF ParsesBack, Done, AtOnce
  <2>1. PICK s \in Seq(STRING) : s = call.command
    BY FsCallsAssumption DEF CallInv
  <2>2. \E name, args : parse(s) = << name, args >>
    BY DEF parse
  <2>3. PICK name, args : parse(s) = << name, args >>
    BY <2>2
  <2>4. res = << name, args >>
    BY <2>1, <2>3 DEF AnswerInv
  <2>5. /\ Space \notin {name[k] : k \in 1 .. Len(name)}
        /\ args # << >> => args[1] # Space
        /\ SubSeq(s, (Len(s) - Len(args)) + 1, Len(s)) = args
        /\ \E d \in 0 .. Len(s) - Len(args) :
              /\ SubSeq(s, d + 1, d + Len(name)) = name
              /\ \A k \in (1 .. d) \cup (d + Len(name) + 1 .. Len(s) - Len(args)) :
                     s[k] = Space
              /\ name # << >> /\ args # << >> => d + Len(name) < Len(s) - Len(args)
    BY <2>3, ParseSplits
  <2>6. res[1] = name /\ res[2] = args
    BY <2>4
  <2> QED BY <2>1, <2>5, <2>6 DEF ParsesBack
<1> QED BY <1>1, Answers, PTL

-----------------------------------------------------------------------------
(* The look-up of a name *)

\* A string ends at its first NUL.
LEMMA ChrEnds ==
    ASSUME NEW f \in Names, NEW k \in Nat
    PROVE  /\ Chr(f, k) = NUL <=> k >= Len(f)
           /\ k < Len(f) => Chr(f, k) = f[k + 1]
<1>1. CASE k < Len(f)
  <2>1. f[k + 1] \in STRING \ {NUL}
    BY <1>1 DEF Names
  <2> QED BY <1>1, <2>1 DEF Chr, Names
<1>2. CASE k >= Len(f)
  BY <1>2 DEF Chr, Names
<1> QED BY <1>1, <1>2 DEF Names

\* The loop finds equal names and no others, also names that fill their field.
LEMMA MatchesEqual ==
    ASSUME NEW f \in Names, NEW g \in Names, Len(f) <= NameLen, Len(g) <= NameLen,
           NameLen \in Nat \ {0}
    PROVE  matches(f, g) <=> f = g
<1>0. Len(f) \in Nat /\ Len(g) \in Nat
  BY DEF Names
<1>1. ASSUME f = g PROVE matches(f, g)
  <2>1. CASE Len(f) < NameLen
    <3>1. Len(f) \in 0 .. NameLen - 1 /\ Chr(f, Len(f)) = NUL
      BY <1>0, <2>1, ChrEnds
    <3> QED BY <1>1, <3>1 DEF matches
  <2>2. CASE Len(f) = NameLen
    <3>1. NameLen - 1 \in 0 .. NameLen - 1 /\ (NameLen - 1) + 1 = NameLen
      OBVIOUS
    <3>2. Chr(f, (NameLen - 1) + 1) = NUL
      BY <2>2, <3>1, ChrEnds
    <3> QED BY <1>1, <3>1, <3>2 DEF matches
  <2> QED BY <1>0, <2>1, <2>2
<1>2. ASSUME matches(f, g) PROVE f = g
  <2>1. PICK m \in 0 .. NameLen - 1 :
            /\ \A k \in 0 .. m : Chr(f, k) = Chr(g, k)
            /\ Chr(f, m) = NUL \/ (m = NameLen - 1 /\ Chr(f, m + 1) = NUL)
    BY <1>2 DEF matches
  <2>2. m \in Nat
    BY <2>1
  <2>3. \A k \in 0 .. m : k >= Len(f) <=> k >= Len(g)
    <3> SUFFICES ASSUME NEW k \in 0 .. m PROVE k >= Len(f) <=> k >= Len(g)
      OBVIOUS
    <3>1. k \in Nat /\ Chr(f, k) = Chr(g, k)
      BY <2>1, <2>2
    <3> QED BY <3>1, ChrEnds
  <2>4. Len(f) = Len(g) /\ Len(f) <= m + 1
    <3>1. CASE Chr(f, m) = NUL
      <4>1. m >= Len(f)
        BY <2>2, <3>1, ChrEnds
      <4> QED BY <1>0, <2>2, <2>3, <4>1
    <3>2. CASE m = NameLen - 1
      BY <1>0, <2>2, <2>3, <3>2
    <3> QED BY <2>1, <3>1, <3>2
  <2>5. ASSUME NEW k \in 1 .. Len(f) PROVE f[k] = g[k]
    <3>1. k - 1 \in 0 .. m /\ k - 1 \in Nat /\ k - 1 < Len(f) /\ (k - 1) + 1 = k
      BY <1>0, <2>2, <2>4
    <3>2. Chr(f, k - 1) = Chr(g, k - 1)
      BY <2>1, <3>1
    <3>3. Chr(f, k - 1) = f[(k - 1) + 1] /\ Chr(g, k - 1) = g[(k - 1) + 1]
      BY <2>4, <3>1, ChrEnds
    <3> QED BY <3>1, <3>2, <3>3
  <2> QED BY <2>4, <2>5 DEF Names
<1> QED BY <1>1, <1>2

\* The entries with a name; the number of the first of them, or -1.
Named(f) == {k \in 1 .. Len(Dir) : Dir[k] = f}
Index(f) == IF Named(f) = {} THEN -1 ELSE Min(Named(f)) - 1

\* What the assumptions say of the entries: an unused one has the empty name.
LEMMA Entries ==
    /\ Len(Dir) \in Nat /\ NumDirs \in Nat /\ Len(Dir) < NumDirs /\ NameLen \in Nat \ {0}
    /\ \A k \in 0 .. NumDirs - 1 : filename(k) \in Names /\ Len(filename(k)) <= NameLen
    /\ \A k \in 0 .. Len(Dir) - 1 : filename(k) = Dir[k + 1] /\ filename(k) # << >>
    /\ \A k \in Len(Dir) .. NumDirs - 1 : filename(k) = << >>
<1>1. /\ Len(Dir) \in Nat /\ NumDirs \in Nat /\ Len(Dir) < NumDirs
      /\ NameLen \in Nat \ {0}
  BY FilesysAssumption
<1>2. ASSUME NEW k \in 0 .. Len(Dir) - 1
      PROVE  /\ filename(k) = Dir[k + 1] /\ filename(k) # << >>
             /\ filename(k) \in Names /\ Len(filename(k)) <= NameLen
  <2>1. k + 1 \in 1 .. Len(Dir) /\ k < Len(Dir)
    BY <1>1, <1>2
  <2>2. Dir[k + 1] \in Names /\ Len(Dir[k + 1]) \in 1 .. NameLen
    BY <2>1, FilesysAssumption
  <2> QED BY <1>1, <2>1, <2>2 DEF filename
<1>3. ASSUME NEW k \in Len(Dir) .. NumDirs - 1 PROVE filename(k) = << >>
  BY <1>1, <1>3 DEF filename
<1>4. ASSUME NEW k \in 0 .. NumDirs - 1
      PROVE  filename(k) \in Names /\ Len(filename(k)) <= NameLen
  <2>1. CASE k < Len(Dir)
    BY <1>1, <1>2, <2>1
  <2>2. CASE k >= Len(Dir)
    <3>1. filename(k) = << >>
      BY <1>1, <1>3, <2>2
    <3> QED BY <1>1, <3>1 DEF Names
  <2> QED BY <1>1, <2>1, <2>2
<1> QED BY <1>1, <1>2, <1>3, <1>4

\* The scan of the entries stops at the first one with the name, and for the
\* empty name at the first unused one.
LEMMA FirstMatch ==
    ASSUME NEW f \in Names, Len(f) <= NameLen
    PROVE  first_match(f) = IF f = << >> THEN Len(Dir) ELSE Index(f)
<1> DEFINE found == {k \in 0 .. NumDirs - 1 : matches(f, filename(k))}
<1>1. \A k \in 0 .. NumDirs - 1 : k \in found <=> f = filename(k)
  BY Entries, MatchesEqual
<1>2. first_match(f) = IF found = {} THEN -1 ELSE Min(found)
  BY DEF first_match
<1>3. found \in SUBSET (0 .. NumDirs - 1) /\ found \in SUBSET Nat
  OBVIOUS
<1> HIDE DEF found
<1>4. found # {} => Min(found) \in found /\ \A y \in found : Min(found) <= y
  BY <1>3, MinIn
<1>5. CASE f = << >>
  <2>1. Len(Dir) \in found
    BY <1>1, <1>5, Entries
  <2>2. \A k \in found : k >= Len(Dir)
    BY <1>1, <1>3, <1>5, Entries
  <2>3. Min(found) \in Nat /\ Min(found) <= Len(Dir) /\ Min(found) >= Len(Dir)
    BY <1>3, <1>4, <2>1, <2>2
  <2>4. Min(found) = Len(Dir)
    BY <2>3, Entries
  <2> QED BY <1>2, <1>5, <2>1, <2>4
<1>6. CASE f # << >>
  <2>1. \A k \in found : k \in 0 .. Len(Dir) - 1 /\ Dir[k + 1] = f
    <3> SUFFICES ASSUME NEW k \in found
                 PROVE  k \in 0 .. Len(Dir) - 1 /\ Dir[k + 1] = f
      OBVIOUS
    <3>1. k \in 0 .. NumDirs - 1 /\ f = filename(k)
      BY <1>1, <1>3
    <3>2. ~ (k >= Len(Dir))
      BY <1>6, <3>1, Entries
    <3>3. k \in 0 .. Len(Dir) - 1
      BY <3>1, <3>2, Entries
    <3> QED BY <3>1, <3>3, Entries
  <2>2. \A k \in found : k + 1 \in Named(f)
    BY <2>1, Entries DEF Named
  <2>3. \A n \in Named(f) : n - 1 \in found
    <3> SUFFICES ASSUME NEW n \in Named(f) PROVE n - 1 \in found
      OBVIOUS
    <3>1. n \in 1 .. Len(Dir) /\ Dir[n] = f
      BY DEF Named
    <3>2. n - 1 \in 0 .. Len(Dir) - 1 /\ n - 1 \in 0 .. NumDirs - 1 /\ (n - 1) + 1 = n
      BY <3>1, Entries
    <3>3. filename(n - 1) = f
      BY <3>1, <3>2, Entries
    <3> QED BY <1>1, <3>2, <3>3
  <2>4. CASE found = {}
    BY <1>2, <1>6, <2>3, <2>4 DEF Index
  <2>5. CASE found # {}
    <3>1. PICK m \in found : m = Min(found)
      BY <1>4, <2>5
    <3>2. Named(f) \in SUBSET Nat /\ m + 1 \in Named(f)
      BY <2>2 DEF Named
    <3>3. PICK n \in Named(f) : n = Min(Named(f)) /\ \A y \in Named(f) : n <= y
      BY <3>2, MinIn
    <3>4. n <= m + 1 /\ m <= n - 1 /\ n \in Nat /\ m \in Nat
      BY <1>3, <1>4, <2>3, <2>5, <3>1, <3>2, <3>3
    <3>5. m = n - 1
      BY <3>4
    <3> QED BY <1>2, <1>6, <2>5, <3>1, <3>2, <3>3, <3>5 DEF Index
  <2> QED BY <2>4, <2>5
<1> QED BY <1>5, <1>6

\* FindsTheName for every directory and every name, also a name that fills its
\* field and a name too long for it.
THEOREM NameFound == Spec => []FindsTheName
<1>1. CallInv /\ (AtOnce => AnswerInv) => FindsTheName
  <2> SUFFICES ASSUME CallInv, call.fn = "open", AnswerInv, at = "done"
               PROVE  FindsTheName
    BY DEF FindsTheName, Done, AtOnce
  <2>1. PICK f \in Names : f = call.name
    BY FsCallsAssumption DEF CallInv
  <2>2. res = << get_filetype(f), read_dentry_by_name(f) >>
    BY <2>1 DEF AnswerInv
  <2>3. PICK x, y : x = get_filetype(f) /\ y = read_dentry_by_name(f)
    OBVIOUS
  <2>4. res[1] = x /\ res[2] = y
    BY <2>2, <2>3
  <2>5. x = Index(f) /\ y = IF f = << >> THEN Len(Dir) ELSE Index(f)
    <3>1. \A k \in 1 .. Len(Dir) : Len(Dir[k]) \in 1 .. NameLen
      BY FilesysAssumption
    <3>2. CASE Len(f) > NameLen
      <4>1. Named(f) = {}
        BY <3>1, <3>2, Entries DEF Named, Names
      <4>2. f # << >>
        BY <3>2, Entries
      <4> QED BY <2>3, <3>2, <4>1, <4>2 DEF Index, get_filetype, read_dentry_by_name
    <3>3. CASE Len(f) <= NameLen /\ f # << >>
      <4>1. Len(f) # 0 /\ ~ (Len(f) > NameLen)
        BY <3>3, Entries DEF Names
      <4>2. first_match(f) = Index(f)
        BY <3>3, FirstMatch
      <4> QED BY <2>3, <3>3, <4>1, <4>2 DEF get_filetype, read_dentry_by_name
    <3>4. CASE f = << >>
      <4>1. Len(f) = 0 /\ ~ (Len(f) > NameLen) /\ Len(f) <= NameLen
        BY <3>4, Entries
      <4>2. first_match(f) = Len(Dir)
        BY <3>4, <4>1, FirstMatch
      <4>3. Named(f) = {}
        BY <3>1, <4>1, Entries DEF Named
      <4> QED BY <2>3, <3>4, <4>1, <4>2, <4>3 DEF Index, get_filetype, read_dentry_by_name
    <3> QED BY <3>2, <3>3, <3>4, Entries DEF Names
  <2> QED BY <2>1, <2>4, <2>5 DEF FindsTheName, Index, Named
<1> QED BY <1>1, Answers, PTL

-----------------------------------------------------------------------------
(* Completion *)

\* The last word begins behind the last space, or with the line.
LEMMA WordStart ==
    ASSUME NEW s \in Names
    PROVE  /\ word_start(s) \in 0 .. Len(s)
           /\ word_start(s) > 0 => s[word_start(s)] = Space
<1> DEFINE S == {0} \cup {k \in 1 .. Len(s) : s[k] = Space}
<1>1. Len(s) \in Nat
  BY DEF Names
<1>2. S \in SUBSET (0 .. Len(s)) /\ S # {}
  BY <1>1
<1>3. \A k \in S : k \in 0 .. Len(s) /\ (k > 0 => s[k] = Space)
  BY <1>1
<1> HIDE DEF S
<1>4. Max(S) \in S
  BY <1>1, <1>2, MaxBelow
<1>5. word_start(s) = Max(S)
  BY DEF word_start, S
<1> QED BY <1>3, <1>4, <1>5

\* What completion appends to a line: the first t characters of the rest of a
\* name that begins with the line's last word.
Completed(s, start, name, t, r) ==
    /\ start \in 0 .. Len(s)
    /\ start > 0 => s[start] = Space
    /\ name \in Names /\ Len(s) - start < Len(name)
    /\ \A k \in 1 .. Len(s) - start : name[k] = s[start + k]
    /\ t \in 0 .. Len(name) - (Len(s) - start) /\ t <= room(s)
    /\ t = Len(name) - (Len(s) - start) \/ t = room(s)
    /\ r = s \o SubSeq(SubSeq(name, Len(s) - start + 1, Len(name)), 1, t)

\* The line is left as it is, or completed to an entry of the directory.
LEMMA SearchCompletes ==
    ASSUME NEW s \in Names, Len(s) < LineSize
    PROVE  \/ fs_search(s) = s
           \/ \E d \in 1 .. Len(Dir), start, t \in Nat :
                  Completed(s, start, Dir[d], t, fs_search(s))
<1>0. PICK start : start = word_start(s)
  OBVIOUS
<1> DEFINE found == {k \in 1 .. Len(Dir) : extends(Dir[k], s, start)}
           rest  == SubSeq(Dir[Min(found)], Len(s) - start + 1, Len(Dir[Min(found)]))
<1>1. CASE s = << >> \/ s[Len(s)] = Space \/ found = {}
  BY <1>0, <1>1 DEF fs_search
<1>2. CASE ~ (s = << >> \/ s[Len(s)] = Space \/ found = {})
  <2>1. fs_search(s) = s \o SubSeq(rest, 1, Min({Len(rest), room(s)}))
    BY <1>0, <1>2 DEF fs_search
  <2>2. found \in SUBSET Nat /\ found # {}
    BY <1>2, Entries
  <2>3. \A k \in found : k \in 1 .. Len(Dir) /\ extends(Dir[k], s, start)
    OBVIOUS
  <2>4. PICK d \in found : d = Min(found)
    <3> HIDE DEF found
    <3> QED BY <2>2, MinIn
  <2>5. d \in 1 .. Len(Dir) /\ extends(Dir[d], s, start)
    BY <2>3, <2>4
  <2>6. PICK name \in Names : name = Dir[d]
    BY <2>5, FilesysAssumption
  <2>7. rest = SubSeq(name, Len(s) - start + 1, Len(name))
    BY <2>4, <2>6
  <2> HIDE DEF found, rest
  <2>8. /\ Len(s) \in Nat /\ Len(name) \in Nat /\ start \in 0 .. Len(s)
        /\ start > 0 => s[start] = Space
    BY <1>0, WordStart DEF Names
  <2>9. PICK m \in 0 .. NameLen - 1 :
            /\ start + m = Len(s) /\ Chr(name, m) # NUL
            /\ \A k \in 0 .. m - 1 : Chr(name, k) = s[start + k + 1]
    BY <2>5, <2>6 DEF extends
  <2>10. m \in Nat /\ m = Len(s) - start
    BY <2>8, <2>9, Entries
  <2>11. m < Len(name)
    BY <2>8, <2>9, <2>10, ChrEnds
  <2>12. ASSUME NEW k \in 1 .. m PROVE name[k] = s[start + k]
    <3>1. k - 1 \in 0 .. m - 1 /\ k - 1 \in Nat /\ k - 1 < Len(name)
          /\ (k - 1) + 1 = k /\ start + (k - 1) + 1 = start + k
      BY <2>8, <2>10, <2>11
    <3>2. Chr(name, k - 1) = name[(k - 1) + 1]
      BY <3>1, ChrEnds
    <3> QED BY <2>9, <3>1, <3>2
  <2>13. Len(rest) = Len(name) - m /\ Len(rest) \in Nat
    BY <2>7, <2>8, <2>10, <2>11 DEF Names
  <2>14. room(s) \in Nat
    BY <2>8, FilesysAssumption DEF room
  <2>15. PICK t \in Nat : t = Min({Len(rest), room(s)})
    <3>1. {Len(rest), room(s)} \in SUBSET Nat /\ {Len(rest), room(s)} # {}
      BY <2>13, <2>14
    <3> QED BY <3>1, MinIn
  <2>16. t <= Len(rest) /\ t <= room(s) /\ t \in {Len(rest), room(s)}
    <3> DEFINE S == {Len(rest), room(s)}
    <3>1. S \in SUBSET Nat /\ S # {} /\ Len(rest) \in S /\ room(s) \in S
      BY <2>13, <2>14
    <3> HIDE DEF S
    <3>2. Min(S) \in S /\ \A y \in S : Min(S) <= y
      BY <3>1, MinIn
    <3>3. t = Min(S)
      BY <2>15 DEF S
    <3> QED BY <3>1, <3>2, <3>3 DEF S
  <2>17. PICK r : r = fs_search(s)
    OBVIOUS
  <2>18. Completed(s, start, name, t, r)
    <3>1. r = s \o SubSeq(SubSeq(name, Len(s) - start + 1, Len(name)), 1, t)
      BY <2>1, <2>7, <2>15, <2>17
    <3>2. \A k \in 1 .. Len(s) - start : name[k] = s[start + k]
      BY <2>10, <2>12
    <3>3. /\ Len(s) - start < Len(name)
          /\ t \in 0 .. Len(name) - (Len(s) - start) /\ t <= room(s)
          /\ t = Len(name) - (Len(s) - start) \/ t = room(s)
      BY <2>8, <2>10, <2>11, <2>13, <2>14, <2>15, <2>16
    <3> QED BY <2>8, <3>1, <3>2, <3>3 DEF Completed
  <2>19. start \in Nat
    BY <2>8
  <2> QED BY <2>5, <2>6, <2>17, <2>18, <2>19
<1> QED BY <1>1, <1>2

\* A completed line keeps the line, fits its buffer, and ends in the name unless
\* the buffer is full.
LEMMA CompletedLine ==
    ASSUME NEW s \in Names, Len(s) < LineSize, NEW start \in Nat, NEW t \in Nat,
           NEW name \in Names, NEW r, Completed(s, start, name, t, r)
    PROVE  /\ SubSeq(r, 1, Len(s)) = s /\ Len(r) < LineSize
           /\ Len(r) < LineSize - 1 => SubSeq(r, start + 1, Len(r)) = name
           /\ start > 0 => r[start] = Space
           /\ start \in 0 .. Len(s)
<1> DEFINE C == STRING \ {NUL}
<1>1. /\ s \in Seq(C) /\ name \in Seq(C) /\ Len(s) \in Nat /\ Len(name) \in Nat
      /\ LineSize \in Nat
  BY FilesysAssumption DEF Names
<1> HIDE DEF C
<1>2. PICK m \in Nat : m = Len(s) - start
  <2>1. start \in 0 .. Len(s)
    BY DEF Completed
  <2>2. Len(s) - start \in Nat
    BY <1>1, <2>1
  <2> QED BY <2>2
<1>3. /\ start \in 0 .. Len(s)
      /\ start > 0 => s[start] = Space
      /\ m < Len(name) /\ \A k \in 1 .. m : name[k] = s[start + k]
      /\ t \in 0 .. Len(name) - m /\ t <= room(s)
      /\ t = Len(name) - m \/ t = room(s)
      /\ r = s \o SubSeq(SubSeq(name, m + 1, Len(name)), 1, t)
  BY <1>2 DEF Completed
<1>4. PICK rest \in Seq(C) : rest = SubSeq(name, m + 1, Len(name))
  <2>1. SubSeq(name, m + 1, Len(name)) \in Seq(C)
    BY <1>1, <1>2, <1>3
  <2> QED BY <2>1
<1>5. /\ Len(rest) = Len(name) - m
      /\ \A k \in 1 .. Len(rest) : rest[k] = name[m + k]
  BY <1>1, <1>2, <1>3, <1>4
<1>6. PICK u \in Seq(C) : u = SubSeq(rest, 1, t)
  <2>1. t <= Len(rest) /\ Len(rest) \in Nat
    BY <1>1, <1>2, <1>3, <1>5
  <2>2. SubSeq(rest, 1, t) \in Seq(C)
    BY <1>4, <2>1
  <2> QED BY <2>2
<1>7. Len(u) = t /\ \A k \in 1 .. t : u[k] = name[m + k]
  BY <1>1, <1>2, <1>3, <1>4, <1>5, <1>6
<1>8. /\ r \in Seq(C) /\ Len(r) = Len(s) + t
      /\ \A k \in 1 .. Len(s) : r[k] = s[k]
      /\ \A k \in 1 .. t : r[Len(s) + k] = name[m + k]
  <2>1. r = s \o u
    BY <1>3, <1>4, <1>6
  <2> QED BY <1>1, <1>6, <1>7, <2>1
<1>9. SubSeq(r, 1, Len(s)) = s
  <2>1. SubSeq(r, 1, Len(s)) \in Seq(C) /\ Len(SubSeq(r, 1, Len(s))) = Len(s)
    BY <1>1, <1>8
  <2>2. \A k \in 1 .. Len(s) : SubSeq(r, 1, Len(s))[k] = s[k]
    BY <1>1, <1>8
  <2> QED BY <1>1, <2>1, <2>2
<1>10. Len(r) < LineSize
  BY <1>1, <1>3, <1>8 DEF room
<1>11. start > 0 => r[start] = Space
  BY <1>1, <1>3, <1>8
<1>12. ASSUME Len(r) < LineSize - 1 PROVE SubSeq(r, start + 1, Len(r)) = name
  <2>1. t = Len(name) - m
    BY <1>1, <1>3, <1>8, <1>12 DEF room
  <2>2. Len(r) = start + Len(name)
    BY <1>1, <1>2, <1>8, <2>1
  <2>3. PICK w \in Seq(C) : w = SubSeq(r, start + 1, Len(r))
    <3>1. SubSeq(r, start + 1, Len(r)) \in Seq(C)
      BY <1>1, <1>2, <1>8
    <3> QED BY <3>1
  <2>4. Len(w) = Len(name) /\ \A k \in 1 .. Len(name) : w[k] = r[start + k]
    <3>1. r \in Seq(C) /\ Len(r) = start + Len(name) /\ Len(name) \in Nat
      BY <1>1, <1>8, <2>2
    <3>2. Len(w) = Len(name)
      BY <2>3, <3>1
    <3>3. ASSUME NEW k \in 1 .. Len(name) PROVE w[k] = r[start + k]
      BY <2>3, <3>1
    <3> QED BY <3>2, <3>3
  <2>5. ASSUME NEW k \in 1 .. Len(name) PROVE r[start + k] = name[k]
    <3>1. CASE k <= m
      BY <1>1, <1>2, <1>3, <1>8, <3>1
    <3>2. CASE k > m
      <4>1. k - m \in 1 .. t /\ Len(s) + (k - m) = start + k /\ m + (k - m) = k
        BY <1>1, <1>2, <2>1, <3>2
      <4> QED BY <1>8, <4>1
    <3> QED BY <1>1, <3>1, <3>2
  <2>6. \A k \in 1 .. Len(name) : w[k] = name[k]
    BY <2>4, <2>5
  <2>7. w = name
    BY <1>1, <2>4, <2>6
  <2> QED BY <2>3, <2>7
<1> QED BY <1>3, <1>9, <1>10, <1>11, <1>12

\* CompletesToName for every directory and every line: a completion keeps what
\* was typed, never leaves the line buffer, and makes the last word the name of a
\* file unless the buffer ended first.
THEOREM CompletionIsName == Spec => []CompletesToName
<1>1. CallInv /\ (AtOnce => AnswerInv) => CompletesToName
  <2> SUFFICES ASSUME CallInv, call.fn = "fs_search", AnswerInv, at = "done"
               PROVE  CompletesToName
    BY DEF CompletesToName, Done, AtOnce
  <2>1. PICK s \in Names : s = call.line /\ Len(s) < LineSize
    BY FsCallsAssumption DEF CallInv
  <2>2. PICK r : r = fs_search(s) /\ r = res
    BY <2>1 DEF AnswerInv
  <2>3. CASE r = s
    <3>1. SubSeq(s, 1, Len(s)) = s
      BY DEF Names
    <3> QED BY <2>1, <2>2, <2>3, <3>1 DEF CompletesToName, Names
  <2>4. CASE \E d \in 1 .. Len(Dir), start, t \in Nat : Completed(s, start, Dir[d], t, r)
    <3>1. PICK d \in 1 .. Len(Dir), start \in Nat, t \in Nat :
              Completed(s, start, Dir[d], t, r)
      BY <2>4
    <3>2. Dir[d] \in Names
      BY FilesysAssumption
    <3>3. /\ SubSeq(r, 1, Len(s)) = s /\ Len(r) < LineSize
          /\ Len(r) < LineSize - 1 => SubSeq(r, start + 1, Len(r)) = Dir[d]
          /\ start > 0 => r[start] = Space
          /\ start \in 0 .. Len(s)
      BY <2>1, <3>1, <3>2, CompletedLine
    <3> QED BY <2>1, <2>2, <3>3 DEF CompletesToName
  <2> QED BY <2>1, <2>2, <2>3, <2>4, SearchCompletes
<1> QED BY <1>1, Answers, PTL

-----------------------------------------------------------------------------
(* grep *)

\* The lines of a call that the theorem is about: they fit the buffer, and no
\* newline lies behind it.
Grepping == call.fn = "grep" /\ Fits(call.file) /\ call.junk # Newline

\* Where the walk over the buffer is, and what it has passed of the file.
First  == IF at = "line" THEN line_start ELSE 0
Passed == pos - last + First

\* What is written are the lines of f that end at or before b and hold s.
Lists(f, s, p, b) ==
    LET due == Matching(f, s)
    IN  /\ p \in Seq(Seq(STRING)) /\ Len(p) = Rank(b, due)
        /\ \A e \in due : e <= b => p[Rank(e, due)] = LineUpTo(f, e)
Written(b) == Lists(call.file, call.pattern, printed, b)

\* What a cell of the buffer may hold.
Bytes == STRING \cup {Null}

\* What lies ahead in the buffer, from its cell x on and below y, is the file up
\* to p, and no newline is left elsewhere.
Ahead(f, d, x, y, p) ==
    /\ d \in [0 .. BufSize -> Bytes]
    /\ y \in 0 .. BufSize /\ p \in 0 .. Len(f) /\ y <= p /\ x \in 0 .. y
    /\ \A k \in x .. y - 1 : d[k] = f[p - y + k + 1]
    /\ \A k \in 0 .. BufSize : k < x \/ k >= y => d[k] # Newline

\* Behind c a line begins, and those up to b = c are written; or, at the first
\* cell of the buffer, the newline or the end of the file is yet to be passed that
\* ends the last line that was written.
Begins(f, c, x, b) ==
    \/ b = c /\ (b = 0 \/ f[b] = Newline)
    \/ b = c + 1 /\ b \in Ends(f) /\ x = 0

GrepInv ==
    /\ at \in {"call", "read", "line", "close", "done"}
    /\ at \in {"call", "read", "line"} =>
           /\ Ahead(call.file, data, First, last, pos)
           /\ \E b \in 0 .. Len(call.file) + 1 :
                  Begins(call.file, Passed, First, b) /\ Written(b)
    /\ at \in {"call", "read"} => last < BufSize
    /\ at = "line" /\ (last < BufSize \/ cnt = 0) => pos = Len(call.file)
    /\ at = "close" => Written(Len(call.file) + 1)
    /\ at = "done" =>
           /\ \E b \in 0 .. Len(call.file) + 1 : Written(b)
           /\ res = 0 => Written(Len(call.file) + 1)

\* The ends of lines, and the last of them.
LEMMA EndsIn ==
    ASSUME NEW f \in Seq(STRING)
    PROVE  /\ Ends(f) \in SUBSET (1 .. Len(f) + 1) /\ Len(f) + 1 \in Ends(f)
           /\ \A k \in 1 .. Len(f) : k \in Ends(f) <=> f[k] = Newline
BY DEF Ends

\* The line that begins behind c and ends at e, when no newline lies between.
LEMMA LineIs ==
    ASSUME NEW f \in Seq(STRING), NEW c \in 0 .. Len(f), NEW e \in Ends(f), c < e,
           c = 0 \/ f[c] = Newline, \A k \in c + 1 .. e - 1 : f[k] # Newline
    PROVE  LineUpTo(f, e) = SubSeq(f, c + 1, e - 1)
<1> DEFINE B == {0} \cup {k \in Ends(f) : k < e}
<1>1. Len(f) \in Nat /\ e \in 1 .. Len(f) + 1
  BY EndsIn
<1>2. B \in SUBSET (0 .. Len(f) + 1) /\ B # {}
  BY EndsIn
<1>3. c \in B
  BY <1>1, EndsIn
<1>4. ASSUME NEW k \in B PROVE k <= c
  <2>1. k = 0 \/ (k \in Ends(f) /\ k < e)
    OBVIOUS
  <2>2. CASE k \in Ends(f) /\ k < e /\ k > c
    <3>1. k \in 1 .. Len(f) /\ k \in c + 1 .. e - 1
      BY <1>1, <2>2
    <3> QED BY <2>2, <3>1, EndsIn
  <2> QED BY <1>1, <1>2, <2>1, <2>2
<1> HIDE DEF B
<1>5. Max(B) \in B /\ \A y \in B : y <= Max(B)
  <2>1. Len(f) + 1 \in Nat
    BY <1>1
  <2> QED BY <1>2, <2>1, MaxBelow
<1>6. Max(B) = c
  <2>1. Max(B) <= c /\ c <= Max(B)
    BY <1>3, <1>4, <1>5
  <2>2. Max(B) \in 0 .. Len(f) + 1
    BY <1>2, <1>5
  <2> QED BY <1>1, <2>1, <2>2
<1> QED BY <1>6 DEF LineUpTo, B

\* A line that fills the buffer ends behind it.
LEMMA FullLine ==
    ASSUME NEW f \in Seq(STRING), Fits(f), NEW c \in Nat, c + BufSize <= Len(f),
           BufSize \in Nat,
           c = 0 \/ f[c] = Newline, \A k \in c + 1 .. c + BufSize : f[k] # Newline
    PROVE  c + BufSize + 1 \in Ends(f)
<1> DEFINE A == {k \in Ends(f) : k > c}
<1>1. Len(f) \in Nat /\ c \in 0 .. Len(f)
  OBVIOUS
<1>2. A \in SUBSET Nat /\ A # {}
  <2>1. Len(f) + 1 \in A
    BY <1>1, EndsIn
  <2> QED BY <2>1, EndsIn
<1>3. \A k \in A : k \in Ends(f) /\ k > c
  OBVIOUS
<1>4. \A k \in Ends(f) : k > c => k \in A
  OBVIOUS
<1> HIDE DEF A
<1>5. PICK e \in A : \A y \in A : e <= y
  BY <1>2, MinIn
<1>6. e \in Ends(f) /\ e > c /\ e \in 1 .. Len(f) + 1
  BY <1>3, <1>5, EndsIn
<1>7. \A k \in c + 1 .. e - 1 : f[k] # Newline
  <2> SUFFICES ASSUME NEW k \in c + 1 .. e - 1, f[k] = Newline PROVE FALSE
    OBVIOUS
  <2>1. k \in 1 .. Len(f) /\ k > c /\ k < e
    BY <1>1, <1>6
  <2>2. k \in A
    BY <1>4, <2>1, EndsIn
  <2> QED BY <1>5, <1>6, <2>1, <2>2
<1>8. LineUpTo(f, e) = SubSeq(f, c + 1, e - 1)
  BY <1>1, <1>6, <1>7, LineIs
<1>9. Len(SubSeq(f, c + 1, e - 1)) = e - 1 - c
  BY <1>1, <1>6
<1>10. e - 1 - c <= BufSize
  BY <1>6, <1>8, <1>9 DEF Fits
<1>11. CASE e <= c + BufSize
  <2>1. e \in c + 1 .. c + BufSize /\ e \in 1 .. Len(f)
    BY <1>1, <1>6, <1>11
  <2> QED BY <1>6, <2>1, EndsIn
<1>12. CASE e > c + BufSize
  <2>1. e = c + BufSize + 1
    BY <1>1, <1>6, <1>10, <1>12
  <2> QED BY <1>6, <2>1
<1> QED BY <1>1, <1>6, <1>11, <1>12

\* The place of an end among those of the lines that hold the pattern.
LEMMA RankBounds ==
    ASSUME NEW S \in SUBSET Nat, IsFiniteSet(S), NEW b \in Nat
    PROVE  /\ IsFiniteSet({h \in S : h <= b})
           /\ Rank(b, S) \in Nat /\ Rank(b, S) <= Cardinality(S)
           /\ (\A h \in S : h <= b) => Rank(b, S) = Cardinality(S)
<1> DEFINE T == {h \in S : h <= b}
<1>1. T \in SUBSET S /\ Rank(b, S) = Cardinality(T)
  BY DEF Rank
<1>2. (\A h \in S : h <= b) => T = S
  OBVIOUS
<1>3. T = {h \in S : h <= b}
  OBVIOUS
<1> HIDE DEF T
<1>4. IsFiniteSet(T) /\ Cardinality(T) <= Cardinality(S)
  BY <1>1, FS_Subset
<1>5. Cardinality(T) \in Nat
  BY <1>4, FS_CardinalityType
<1> QED BY <1>1, <1>2, <1>3, <1>4, <1>5

\* The next end has the next place, if its line holds the pattern.
LEMMA RankNext ==
    ASSUME NEW S \in SUBSET Nat, IsFiniteSet(S), NEW b \in Nat, NEW e \in Nat, b < e,
           \A h \in S : ~ (b < h /\ h < e)
    PROVE  Rank(e, S) = IF e \in S THEN Rank(b, S) + 1 ELSE Rank(b, S)
<1> DEFINE T == {h \in S : h <= b}
           U == {h \in S : h <= e}
<1>1. IsFiniteSet(T) /\ e \notin T
  BY RankBounds
<1>2. \A h \in S : h <= e <=> h <= b \/ h = e
  OBVIOUS
<1>3. U = IF e \in S THEN T \cup {e} ELSE T
  <2>1. CASE e \in S
    BY <1>2, <2>1
  <2>2. CASE e \notin S
    BY <1>2, <2>2
  <2> QED BY <2>1, <2>2
<1>4. Rank(b, S) = Cardinality(T) /\ Rank(e, S) = Cardinality(U)
  BY DEF Rank
<1> HIDE DEF T, U
<1>5. Cardinality(T \cup {e}) = Cardinality(T) + 1
  BY <1>1, FS_AddElement
<1> QED BY <1>3, <1>4, <1>5

\* An end behind b that is in the set has a place behind that of b.
LEMMA RankGrows ==
    ASSUME NEW S \in SUBSET Nat, IsFiniteSet(S), NEW b \in Nat, NEW e \in S, b < e
    PROVE  Rank(b, S) < Rank(e, S)
<1> DEFINE T == {h \in S : h <= b}
           U == {h \in S : h <= e}
<1>1. IsFiniteSet(T) /\ IsFiniteSet(U)
  BY RankBounds
<1>2. T \in SUBSET U /\ T # U
  <2>1. e \in U /\ e \notin T
    OBVIOUS
  <2>2. \A h \in S : h <= b => h <= e
    OBVIOUS
  <2>3. T \in SUBSET U
    BY <2>2
  <2> QED BY <2>1, <2>3
<1>3. Rank(b, S) = Cardinality(T) /\ Rank(e, S) = Cardinality(U)
  BY DEF Rank
<1> HIDE DEF T, U
<1>4. Cardinality(T) <= Cardinality(U) /\ Cardinality(T) # Cardinality(U)
  BY <1>1, <1>2, FS_Subset
<1>5. Cardinality(T) \in Nat /\ Cardinality(U) \in Nat
  BY <1>1, FS_CardinalityType
<1> QED BY <1>3, <1>4, <1>5

\* A line lies in the buffer at a place, with a NUL behind it.
Lies(d, from, line) ==
    /\ from + Len(line) <= BufSize /\ d[from + Len(line)] = Null
    /\ \A k \in 1 .. Len(line) : d[from + k - 1] = line[k]

\* The string at that place ends with the line.
LEMMA StringEnds ==
    ASSUME BufSize \in Nat, NEW d \in [0 .. BufSize -> Bytes], NEW from \in Nat,
           NEW line \in Seq(STRING \ {Null}), Lies(d, from, line)
    PROVE  Min({k \in 0 .. BufSize - from : d[from + k] = Null}) = Len(line)
<1> DEFINE K == {k \in 0 .. BufSize - from : d[from + k] = Null}
<1>1. Len(line) \in K
  BY DEF Lies
<1>2. ASSUME NEW k \in K PROVE k >= Len(line)
  <2>1. k \in Nat /\ d[from + k] = Null
    OBVIOUS
  <2>2. CASE k < Len(line)
    <3>1. k + 1 \in 1 .. Len(line) /\ from + (k + 1) - 1 = from + k
      BY <2>1, <2>2
    <3>2. d[from + k] = line[k + 1] /\ line[k + 1] \in STRING \ {Null}
      BY <3>1 DEF Lies
    <3> QED BY <2>1, <3>2
  <2> QED BY <2>1, <2>2
<1>3. K \in SUBSET Nat /\ K # {}
  BY <1>1
<1> HIDE DEF K
<1>4. Min(K) \in K /\ \A y \in K : Min(K) <= y
  BY <1>3, MinIn
<1>5. Min(K) <= Len(line) /\ Min(K) >= Len(line) /\ Min(K) \in Nat
  BY <1>1, <1>2, <1>3, <1>4
<1>6. Min(K) = Len(line)
  BY <1>5
<1> QED BY <1>6 DEF K

\* So fdputs writes the line.
LEMMA StringIsLine ==
    ASSUME BufSize \in Nat, NEW d \in [0 .. BufSize -> Bytes], NEW from \in Nat,
           NEW line \in Seq(STRING \ {Null}), Lies(d, from, line)
    PROVE  StringAt(d, from) = line
<1>1. StringAt(d, from) = [k \in 1 .. Len(line) |-> d[from + k - 1]]
  BY StringEnds DEF StringAt
<1>2. PICK w : w = [k \in 1 .. Len(line) |-> d[from + k - 1]]
  OBVIOUS
<1>3. \A k \in 1 .. Len(line) : w[k] = line[k] /\ line[k] \in STRING \ {Null}
  BY <1>2 DEF Lies
<1>4. w \in Seq(STRING \ {Null}) /\ Len(w) = Len(line)
  BY <1>2, <1>3
<1> QED BY <1>1, <1>2, <1>3, <1>4, SeqEqual

\* And the search for a pattern looks into the line and not behind it.
LEMMA SearchIsHolds ==
    ASSUME BufSize \in Nat, NEW d \in [0 .. BufSize -> Bytes], NEW from \in Nat,
           NEW line \in Seq(STRING \ {Null}), Lies(d, from, line),
           NEW s \in Seq(STRING \ {Null}), NEW to, to = from + Len(line)
    PROVE  search(d, from, to, s) <=> Holds(line, s)
<1>0. /\ Len(s) \in Nat /\ Len(line) \in Nat
      /\ \A k \in 1 .. Len(s) : s[k] # Null
      /\ from + Len(line) <= BufSize /\ d[from + Len(line)] = Null
      /\ \A k \in 1 .. Len(line) : d[from + k - 1] = line[k]
  BY DEF Lies
<1>1. CASE s = << >>
  BY <1>1 DEF search, Holds
<1>2. CASE s # << >>
  <2>0. Len(s) > 0
    BY <1>2
  <2>1. ASSUME NEW check \in from .. to - 1, same(d, check, s)
        PROVE  Holds(line, s)
    <3>1. \A k \in 1 .. Len(s) : check + k - 1 <= BufSize /\ d[check + k - 1] = s[k]
      BY <2>1 DEF same
    <3>2. PICK b \in Nat : b = check - from /\ b < Len(line)
      BY <1>0
    <3>3. b + Len(s) <= Len(line)
      <4>1. CASE b + Len(s) > Len(line)
        <5>1. PICK k \in 1 .. Len(s) : k = Len(line) - b + 1
          <6>1. Len(line) - b + 1 \in 1 .. Len(s)
            BY <1>0, <3>2, <4>1, SMTT(30)
          <6> QED BY <6>1
        <5>2. check + k - 1 = from + Len(line)
          BY <1>0, <3>2, <5>1
        <5> QED BY <1>0, <3>1, <5>1, <5>2
      <4> QED BY <1>0, <3>2, <4>1
    <3>4. ASSUME NEW k \in 1 .. Len(s) PROVE line[b + k] = s[k]
      <4>1. b + k \in 1 .. Len(line) /\ from + (b + k) - 1 = check + k - 1
        BY <1>0, <3>2, <3>3
      <4> QED BY <1>0, <3>1, <4>1
    <3>5. SubSeq(line, b + 1, b + Len(s)) = s
      <4>1. PICK w \in Seq(STRING \ {Null}) : w = SubSeq(line, b + 1, b + Len(s))
        <5>1. SubSeq(line, b + 1, b + Len(s)) \in Seq(STRING \ {Null})
          BY <1>0, <3>2, <3>3
        <5> QED BY <5>1
      <4>2. Len(w) = Len(s) /\ \A k \in 1 .. Len(s) : w[k] = line[b + k]
        BY <1>0, <3>2, <3>3, <4>1
      <4>3. w = s
        BY <3>4, <4>2, SeqEqual
      <4> QED BY <4>1, <4>3
    <3>6. b \in 0 .. Len(line) - Len(s)
      BY <1>0, <3>2, <3>3
    <3> QED BY <1>2, <3>5, <3>6 DEF Holds
  <2>2. ASSUME NEW b \in 0 .. Len(line) - Len(s), SubSeq(line, b + 1, b + Len(s)) = s
        PROVE  \E check \in from .. to - 1 : same(d, check, s)
    <3>1. ASSUME NEW k \in 1 .. Len(s)
          PROVE  (from + b) + k - 1 <= BufSize /\ d[(from + b) + k - 1] = s[k]
      <4>1. b + k \in 1 .. Len(line) /\ from + (b + k) - 1 = (from + b) + k - 1
        BY <1>0, SMTT(30)
      <4>2. SubSeq(line, b + 1, b + Len(s))[k] = line[b + k]
        BY <1>0, <4>1
      <4> QED BY <1>0, <2>2, <4>1, <4>2, SMTT(30)
    <3>2. from + b \in from .. to - 1
      BY <1>0, <2>0
    <3>3. same(d, from + b, s)
      BY <3>1 DEF same
    <3> QED BY <3>2, <3>3
  <2> QED BY <1>2, <2>1, <2>2 DEF search, Holds
<1> QED BY <1>1, <1>2

\* The lines that hold a pattern are finitely many.
LEMMA MatchingIn ==
    ASSUME NEW f \in Seq(STRING), NEW s
    PROVE  /\ Matching(f, s) \in SUBSET Nat /\ IsFiniteSet(Matching(f, s))
           /\ Matching(f, s) \in SUBSET Ends(f)
           /\ \A h \in Matching(f, s) : h \in 1 .. Len(f) + 1
<1>1. Matching(f, s) \in SUBSET Ends(f)
  BY DEF Matching
<1>2. Matching(f, s) \in SUBSET (1 .. Len(f) + 1)
  BY <1>1, EndsIn
<1>3. IsFiniteSet(1 .. Len(f) + 1)
  BY FS_Interval
<1>4. IsFiniteSet(Matching(f, s))
  BY <1>2, <1>3, FS_Subset
<1>5. Matching(f, s) \in SUBSET Nat
  BY <1>2
<1> QED BY <1>1, <1>2, <1>4, <1>5

\* With the next line what is written goes up to that line's end.
LEMMA ListsNext ==
    ASSUME NEW f \in Seq(STRING), NEW s, NEW p, NEW b \in Nat, NEW e \in Ends(f), b < e,
           \A h \in Ends(f) : ~ (b < h /\ h < e), LineUpTo(f, e) \in Seq(STRING),
           Lists(f, s, p, b)
    PROVE  Lists(f, s, IF Holds(LineUpTo(f, e), s) THEN Append(p, LineUpTo(f, e)) ELSE p, e)
<1> DEFINE due == Matching(f, s)
<1>1. due \in SUBSET Nat /\ IsFiniteSet(due) /\ due \in SUBSET Ends(f)
  BY MatchingIn
<1>2. e \in Nat
  BY EndsIn
<1>3. e \in due <=> Holds(LineUpTo(f, e), s)
  BY DEF Matching
<1>4. /\ p \in Seq(Seq(STRING)) /\ Len(p) = Rank(b, due)
      /\ \A h \in due : h <= b => p[Rank(h, due)] = LineUpTo(f, h)
  BY DEF Lists
<1> HIDE DEF due
<1>5. Rank(e, due) = IF e \in due THEN Rank(b, due) + 1 ELSE Rank(b, due)
  BY <1>1, <1>2, RankNext
<1>6. \A h \in due : h <= e => h <= b \/ h = e
  BY <1>1, <1>2
<1>7. \A h \in due : h <= b => Rank(h, due) \in 1 .. Len(p)
  <2> SUFFICES ASSUME NEW h \in due, h <= b PROVE Rank(h, due) \in 1 .. Len(p)
    OBVIOUS
  <2>1. h \in Nat /\ Rank(h, due) \in Nat /\ Rank(b, due) \in Nat
    BY <1>1, RankBounds
  <2>2. Rank(h, due) <= Rank(b, due)
    <3> DEFINE T == {k \in due : k <= h}
               U == {k \in due : k <= b}
    <3>1. T \in SUBSET U
      <4>1. \A k \in due : k <= h => k <= b
        BY <1>1, <2>1
      <4> QED BY <4>1
    <3>2. IsFiniteSet(U)
      BY <1>1, RankBounds
    <3>3. Rank(h, due) = Cardinality(T) /\ Rank(b, due) = Cardinality(U)
      BY DEF Rank
    <3> HIDE DEF T, U
    <3> QED BY <3>1, <3>2, <3>3, FS_Subset
  <2>3. Rank(h, due) # 0
    <3> DEFINE T == {k \in due : k <= h}
    <3>1. h \in T
      BY <2>1
    <3>2. IsFiniteSet(T)
      BY <1>1, <2>1, RankBounds
    <3>3. Rank(h, due) = Cardinality(T)
      BY DEF Rank
    <3> HIDE DEF T
    <3> QED BY <3>1, <3>2, <3>3, FS_EmptySet
  <2> QED BY <1>4, <2>1, <2>2, <2>3
<1>8. CASE e \in due
  <2>1. PICK q : q = Append(p, LineUpTo(f, e))
    OBVIOUS
  <2>2. /\ q \in Seq(Seq(STRING)) /\ Len(q) = Len(p) + 1
        /\ \A k \in 1 .. Len(p) : q[k] = p[k]
        /\ q[Len(p) + 1] = LineUpTo(f, e)
    BY <1>4, <2>1
  <2>3. Len(q) = Rank(e, due)
    BY <1>4, <1>5, <1>8, <2>2
  <2>4. ASSUME NEW h \in due, h <= e PROVE q[Rank(h, due)] = LineUpTo(f, h)
    <3>1. CASE h <= b
      BY <1>4, <1>7, <2>2, <3>1
    <3>2. CASE h = e
      BY <1>4, <1>5, <1>8, <2>2, <3>2
    <3> QED BY <1>6, <2>4, <3>1, <3>2
  <2>5. Lists(f, s, q, e)
    BY <2>2, <2>3, <2>4 DEF Lists, due
  <2> QED BY <1>3, <1>8, <2>1, <2>5
<1>9. CASE e \notin due
  <2>1. \A h \in due : h <= e => p[Rank(h, due)] = LineUpTo(f, h)
    BY <1>4, <1>6, <1>9
  <2>2. Lists(f, s, p, e)
    BY <1>4, <1>5, <1>9, <2>1 DEF Lists, due
  <2> QED BY <1>3, <1>9, <2>2
<1> QED BY <1>8, <1>9

\* What was written up to any end is what GrepsLines says.
LEMMA ListsRight ==
    ASSUME NEW f \in Seq(STRING), NEW s, NEW p, NEW b \in Nat, Lists(f, s, p, b)
    PROVE  /\ \A e \in Matching(f, s) : Rank(e, Matching(f, s)) <= Len(p) =>
                  p[Rank(e, Matching(f, s))] = LineUpTo(f, e)
           /\ Len(p) <= Cardinality(Matching(f, s))
           /\ b >= Len(f) + 1 => Len(p) = Cardinality(Matching(f, s))
<1>1. PICK due : due = Matching(f, s)
  OBVIOUS
<1>2. /\ due \in SUBSET Nat /\ IsFiniteSet(due)
      /\ \A h \in due : h \in 1 .. Len(f) + 1
  BY <1>1, MatchingIn
<1>3. /\ p \in Seq(Seq(STRING)) /\ Len(p) = Rank(b, due)
      /\ \A h \in due : h <= b => p[Rank(h, due)] = LineUpTo(f, h)
  BY <1>1 DEF Lists
<1>4. /\ Rank(b, due) \in Nat /\ Rank(b, due) <= Cardinality(due)
      /\ (\A h \in due : h <= b) => Rank(b, due) = Cardinality(due)
  BY <1>2, RankBounds
<1>5. b >= Len(f) + 1 => \A h \in due : h <= b
  BY <1>2
<1>6. ASSUME NEW e \in due, Rank(e, due) <= Len(p)
      PROVE  p[Rank(e, due)] = LineUpTo(f, e)
  <2>1. CASE e > b
    <3>1. Rank(b, due) < Rank(e, due)
      BY <1>2, <2>1, RankGrows
    <3>2. Rank(e, due) \in Nat
      BY <1>2, RankBounds
    <3> QED BY <1>3, <1>4, <1>6, <3>1, <3>2
  <2>2. CASE e <= b
    BY <1>3, <2>2
  <2> QED BY <1>2, <2>1, <2>2
<1> QED BY <1>1, <1>3, <1>4, <1>5, <1>6

\* The end of a line in the buffer.
EndOf(d, x, y) == Min({k \in x .. y : k = y \/ d[k] = Newline})

\* Up to it there is no newline.
LEMMA EndOfIs ==
    ASSUME NEW d, NEW x \in Nat, NEW y \in Nat, x <= y
    PROVE  /\ EndOf(d, x, y) \in x .. y
           /\ EndOf(d, x, y) < y => d[EndOf(d, x, y)] = Newline
           /\ \A k \in x .. EndOf(d, x, y) - 1 : d[k] # Newline
<1> DEFINE K == {k \in x .. y : k = y \/ d[k] = Newline}
<1>1. K \in SUBSET Nat /\ y \in K
  OBVIOUS
<1>2. \A k \in K : k \in x .. y /\ (k < y => d[k] = Newline)
  OBVIOUS
<1>3. \A k \in x .. y : d[k] = Newline => k \in K
  OBVIOUS
<1>4. EndOf(d, x, y) = Min(K)
  BY DEF EndOf
<1> HIDE DEF K
<1>5. PICK m \in K : m = Min(K) /\ \A k \in K : m <= k
  BY <1>1, MinIn
<1>6. \A k \in x .. m - 1 : d[k] # Newline
  <2> SUFFICES ASSUME NEW k \in x .. m - 1, d[k] = Newline PROVE FALSE
    OBVIOUS
  <2>1. m \in x .. y
    BY <1>2
  <2>2. k \in x .. y /\ k < m
    BY <2>1
  <2>3. k \in K
    BY <1>3, <2>2
  <2> QED BY <1>5, <2>1, <2>2, <2>3
<1> QED BY <1>2, <1>4, <1>5, <1>6

\* What lies between a cell of the walk and the line's end, in the file.
LEMMA LineLies ==
    ASSUME BufSize \in Nat, NEW f \in Seq(STRING \ {Null}), NEW d, NEW x \in Nat,
           NEW y \in Nat, NEW p \in Nat, Ahead(f, d, x, y, p), NEW n \in x .. y
    PROVE  /\ SubSeq(f, p - y + x + 1, p - y + n) \in Seq(STRING \ {Null})
           /\ Len(SubSeq(f, p - y + x + 1, p - y + n)) = n - x
           /\ Lies([d EXCEPT ![n] = Null], x, SubSeq(f, p - y + x + 1, p - y + n))
<1>1. PICK c \in Nat : c = p - y + x
  <2>1. p - y + x \in Nat
    BY DEF Ahead
  <2> QED BY <2>1
<1>2. /\ Len(f) \in Nat /\ y <= BufSize /\ p <= Len(f) /\ d \in [0 .. BufSize -> Bytes]
      /\ \A k \in x .. y - 1 : d[k] = f[p - y + k + 1]
  BY DEF Ahead
<1>3. PICK m \in Nat : m = n - x
  <2>1. n - x \in Nat
    OBVIOUS
  <2> QED BY <2>1
<1>4. /\ p - y + n = c + m /\ c + m <= Len(f) /\ x + m = n /\ n <= BufSize
      /\ p - y + x + 1 = c + 1
  BY <1>1, <1>2, <1>3
<1>5. PICK w \in Seq(STRING \ {Null}) : w = SubSeq(f, c + 1, c + m)
  <2>1. SubSeq(f, c + 1, c + m) \in Seq(STRING \ {Null})
    BY <1>2, <1>4
  <2> QED BY <2>1
<1>6. Len(w) = m /\ \A k \in 1 .. m : w[k] = f[c + k]
  BY <1>2, <1>4, <1>5
<1>7. PICK D : D = [d EXCEPT ![n] = Null]
  OBVIOUS
<1>8. D[n] = Null /\ \A k \in x .. n - 1 : D[k] = d[k]
  BY <1>2, <1>4, <1>7
<1>9. ASSUME NEW k \in 1 .. m PROVE D[x + k - 1] = w[k]
  <2>1. /\ x + k - 1 \in x .. n - 1 /\ x + k - 1 \in x .. y - 1
        /\ p - y + (x + k - 1) + 1 = c + k
    BY <1>1, <1>3, <1>4
  <2> QED BY <1>2, <1>6, <1>8, <2>1
<1>10. Lies(D, x, w)
  BY <1>4, <1>6, <1>8, <1>9 DEF Lies
<1> QED BY <1>3, <1>4, <1>5, <1>6, <1>7, <1>10

\* A file that ends in a newline has an empty line behind it, which holds nothing.
LEMMA ListsEmpty ==
    ASSUME NEW f \in Seq(STRING), NEW s \in Seq(STRING), NEW w,
           Len(f) = 0 \/ f[Len(f)] = Newline,
           Lists(f, s, w, Len(f))
    PROVE  Lists(f, s, w, Len(f) + 1)
<1>1. Len(f) \in Nat /\ Len(f) + 1 \in Ends(f) /\ Len(f) < Len(f) + 1
  BY EndsIn
<1>2. \A h \in Ends(f) : ~ (Len(f) < h /\ h < Len(f) + 1)
  BY <1>1, EndsIn
<1>3. LineUpTo(f, Len(f) + 1) = SubSeq(f, Len(f) + 1, (Len(f) + 1) - 1)
  <2>1. \A k \in Len(f) + 1 .. (Len(f) + 1) - 1 : f[k] # Newline
    BY <1>1
  <2>2. Len(f) \in 0 .. Len(f)
    BY <1>1
  <2> QED BY <1>1, <2>1, <2>2, LineIs
<1>4. PICK v : v = LineUpTo(f, Len(f) + 1)
  OBVIOUS
<1>5. v \in Seq(STRING) /\ Len(v) = 0
  BY <1>1, <1>3, <1>4
<1>6. ~ Holds(v, s)
  <2>1. SUFFICES ASSUME s # << >>, NEW b \in 0 .. Len(v) - Len(s) PROVE FALSE
    BY DEF Holds
  <2>2. Len(s) \in Nat /\ Len(s) > 0
    BY <2>1
  <2> QED BY <1>5, <2>1, <2>2
<1>7. Lists(f, s, IF Holds(v, s) THEN Append(w, v) ELSE w, Len(f) + 1)
  BY <1>1, <1>2, <1>4, <1>5, ListsNext
<1> QED BY <1>6, <1>7

\* The character that ends a string.
LEMMA NullIs == Null \in Bytes /\ Null # Newline
BY DEF Bytes, Null, Newline

\* A line is ready to be searched: it ends in the buffer, with the file, or with
\* a full buffer.
Ready(f, s, w, d, x, y, p, b) ==
    /\ Fits(f) /\ Ahead(f, d, x, y, p)
    /\ Begins(f, p - y + x, x, b) /\ Lists(f, s, w, b)
    /\ d[EndOf(d, x, y)] = Newline \/ p = Len(f) \/ (x = 0 /\ y = BufSize)

\* It has been searched: it is written if it holds the pattern, and the walk is
\* behind it.
Searched(f, s, w, d, x, y, p) ==
    LET n == EndOf(d, x, y)
        D == [d EXCEPT ![n] = Null]
        e == p - y + n + 1
    IN  /\ e \in Ends(f) /\ e \in 1 .. Len(f) + 1 /\ n \in x .. y
        /\ n < y => f[e] = Newline
        /\ Lists(f, s, IF search(D, x, n, s) THEN Append(w, StringAt(D, x)) ELSE w, e)
        /\ IF n + 1 >= y THEN Ahead(f, D, 0, 0, p) ELSE Ahead(f, D, n + 1, y, p)

\* The search of a line.
LEMMA WholeLine ==
    ASSUME BufSize \in Nat \ {0}, NEW f \in Seq(STRING \ {Null}),
           NEW s \in Seq(STRING \ {Null}), NEW w, NEW d, NEW x \in Nat, NEW y \in Nat,
           NEW p \in Nat, NEW b \in 0 .. Len(f) + 1, Ready(f, s, w, d, x, y, p, b)
    PROVE  Searched(f, s, w, d, x, y, p)
<1>1. PICK n : n = EndOf(d, x, y)
  OBVIOUS
<1>2. PICK D : D = [d EXCEPT ![n] = Null]
  OBVIOUS
<1>3. PICK e : e = p - y + n + 1
  OBVIOUS
<1>4. /\ Len(f) \in Nat /\ y <= BufSize /\ p <= Len(f) /\ x <= y /\ y <= p
      /\ d \in [0 .. BufSize -> Bytes]
      /\ \A k \in x .. y - 1 : d[k] = f[p - y + k + 1]
      /\ \A k \in 0 .. BufSize : k < x \/ k >= y => d[k] # Newline
  BY DEF Ready, Ahead
<1>5. n \in x .. y /\ (n < y => d[n] = Newline) /\ \A k \in x .. n - 1 : d[k] # Newline
  <2>1. x <= y
    BY <1>4
  <2> QED BY <1>1, <2>1, EndOfIs
<1>6. f \in Seq(STRING) /\ s \in Seq(STRING)
  OBVIOUS
<1>7. PICK c \in Nat : c = p - y + x
  <2>1. p - y + x \in Nat
    BY <1>4
  <2> QED BY <2>1
<1>8. /\ e = c + (n - x) + 1 /\ n \in Nat /\ e \in Nat /\ c < e /\ e <= Len(f) + 1
      /\ c <= Len(f) /\ n <= BufSize
  BY <1>3, <1>4, <1>5, <1>7
<1>9. n < y => e <= p /\ f[e] = Newline
  <2> SUFFICES ASSUME n < y PROVE e <= p /\ f[e] = Newline
    OBVIOUS
  <2>1. n \in x .. y - 1 /\ p - y + n + 1 = e
    BY <1>3, <1>4, <1>5, <1>8
  <2> QED BY <1>4, <1>5, <1>8, <2>1, SMTT(30)
<1>10. \A k \in c + 1 .. e - 1 : f[k] # Newline
  <2> SUFFICES ASSUME NEW k \in c + 1 .. e - 1 PROVE f[k] # Newline
    OBVIOUS
  <2>1. PICK m \in x .. n - 1 : m = k - c - 1 + x
    <3>1. k - c - 1 + x \in x .. n - 1
      BY <1>5, <1>7, <1>8
    <3> QED BY <3>1
  <2>2. m \in x .. y - 1 /\ p - y + m + 1 = k
    BY <1>4, <1>5, <1>7, <1>8, <2>1
  <2> QED BY <1>4, <1>5, <2>1, <2>2
<1>11. d[n] = Newline => n < y
  BY <1>4, <1>5, <1>8
<1>12. ASSUME n = y, p = Len(f) PROVE e \in Ends(f)
  <2>1. e = Len(f) + 1
    BY <1>3, <1>4, <1>12
  <2> QED BY <1>6, <2>1, EndsIn
<1>13. ASSUME n < y PROVE e \in Ends(f)
  <2>1. e \in 1 .. Len(f)
    BY <1>4, <1>8, <1>9, <1>13
  <2> QED BY <1>6, <1>9, <1>13, <2>1, EndsIn
<1>14. /\ D \in [0 .. BufSize -> Bytes] /\ D[n] = Null
       /\ \A k \in 0 .. BufSize : k # n => D[k] = d[k]
  <2>1. n \in 0 .. BufSize /\ d \in [0 .. BufSize -> Bytes]
    BY <1>4, <1>8
  <2> QED BY <1>2, <2>1, NullIs
<1> DEFINE R == Lists(f, s, IF search(D, x, n, s) THEN Append(w, StringAt(D, x)) ELSE w, e)
<1>15. ASSUME b = c /\ (b = 0 \/ f[b] = Newline) PROVE e \in Ends(f) /\ R
  <2>1. e \in Ends(f)
    <3>1. CASE n = y /\ x = 0 /\ y = BufSize
      <4>1. e = c + BufSize + 1 /\ c + BufSize <= Len(f)
        BY <1>4, <1>7, <1>8, <3>1
      <4>2. \A k \in c + 1 .. c + BufSize : f[k] # Newline
        BY <1>8, <1>10, <4>1
      <4>3. c + BufSize + 1 \in Ends(f)
        BY <1>6, <1>15, <4>1, <4>2, FullLine DEF Ready
      <4> QED BY <4>1, <4>3
    <3>2. n < y \/ (n = y /\ p = Len(f)) \/ (n = y /\ x = 0 /\ y = BufSize)
      BY <1>1, <1>5, <1>8, <1>11 DEF Ready
    <3> QED BY <1>12, <1>13, <3>1, <3>2
  <2>2. PICK v : v = SubSeq(f, p - y + x + 1, p - y + n)
    OBVIOUS
  <2>3. v \in Seq(STRING \ {Null}) /\ Len(v) = n - x /\ Lies(D, x, v)
    <3>1. Ahead(f, d, x, y, p)
      BY DEF Ready
    <3>2. n \in x .. y /\ BufSize \in Nat
      BY <1>5
    <3>3. /\ SubSeq(f, p - y + x + 1, p - y + n) \in Seq(STRING \ {Null})
          /\ Len(SubSeq(f, p - y + x + 1, p - y + n)) = n - x
          /\ Lies([d EXCEPT ![n] = Null], x, SubSeq(f, p - y + x + 1, p - y + n))
      BY <3>1, <3>2, LineLies
    <3> QED BY <1>2, <2>2, <3>3
  <2>4. LineUpTo(f, e) = v
    <3>1. LineUpTo(f, e) = SubSeq(f, c + 1, e - 1)
      BY <1>4, <1>6, <1>8, <1>10, <1>15, <2>1, LineIs, SMTT(30)
    <3>2. c + 1 = p - y + x + 1 /\ e - 1 = p - y + n
      BY <1>3, <1>4, <1>7, <1>8
    <3> QED BY <2>2, <3>1, <3>2
  <2>5. D \in [0 .. BufSize -> Bytes]
    BY <1>14
  <2>6. StringAt(D, x) = v
    BY <2>3, <2>5, StringIsLine
  <2>7. search(D, x, n, s) <=> Holds(v, s)
    <3>1. n = x + Len(v)
      BY <1>8, <2>3
    <3> QED BY <2>3, <2>5, <3>1, SearchIsHolds
  <2>8. \A h \in Ends(f) : ~ (c < h /\ h < e)
    <3> SUFFICES ASSUME NEW h \in Ends(f), c < h, h < e PROVE FALSE
      OBVIOUS
    <3>1. h \in 1 .. Len(f) + 1
      BY <1>6, EndsIn
    <3>2. h \in 1 .. Len(f) /\ h \in c + 1 .. e - 1
      BY <1>8, <3>1
    <3> QED BY <1>6, <1>10, <3>2, EndsIn
  <2>9. v \in Seq(STRING)
    BY <2>3
  <2>10. Lists(f, s, IF Holds(v, s) THEN Append(w, v) ELSE w, e)
    <3>1. Lists(f, s, w, c)
      BY <1>15 DEF Ready
    <3> QED BY <1>6, <1>8, <2>1, <2>4, <2>8, <2>9, <3>1, ListsNext
  <2> QED BY <2>1, <2>6, <2>7, <2>10
<1>16. ASSUME b = c + 1 /\ b \in Ends(f) /\ x = 0 PROVE e \in Ends(f) /\ R
  <2>1. n = 0 /\ e = b
    <3>1. CASE y = 0
      BY <1>4, <1>5, <1>7, <1>8, <1>16, <3>1
    <3>2. CASE y > 0
      <4>1. b \in 1 .. Len(f) /\ f[b] = Newline
        <5>1. b \in 1 .. Len(f)
          BY <1>4, <1>7, <1>16, <3>2
        <5> QED BY <1>6, <1>16, <5>1, EndsIn
      <4>2. d[0] = Newline
        <5>1. 0 \in x .. y - 1 /\ p - y + 0 + 1 = b
          BY <1>4, <1>7, <1>16, <3>2
        <5> QED BY <1>4, <4>1, <5>1
      <4>3. ~ (n > 0)
        BY <1>5, <1>16, <4>2
      <4> QED BY <1>7, <1>8, <1>16, <4>3
    <3> QED BY <1>4, <3>1, <3>2
  <2>2. ~ search(D, x, n, s)
    BY <1>16, <2>1 DEF search
  <2>3. Lists(f, s, w, e)
    BY <2>1 DEF Ready
  <2> QED BY <1>16, <2>1, <2>2, <2>3
<1>17. e \in Ends(f) /\ R
  BY <1>7, <1>15, <1>16 DEF Ready, Begins
<1>18. \A k \in 0 .. BufSize : k <= n \/ k >= y => D[k] # Newline
  <2> SUFFICES ASSUME NEW k \in 0 .. BufSize, k <= n \/ k >= y PROVE D[k] # Newline
    OBVIOUS
  <2>1. CASE k = n
    BY <1>14, <2>1, NullIs
  <2>2. CASE k < n /\ k >= x
    <3>1. k \in x .. n - 1
      BY <1>8, <2>2
    <3> QED BY <1>5, <1>14, <2>2, <3>1
  <2>3. CASE k # n /\ (k < x \/ k >= y)
    BY <1>4, <1>14, <2>3
  <2> QED BY <1>4, <1>8, <2>1, <2>2, <2>3
<1>19. ASSUME n + 1 >= y PROVE Ahead(f, D, 0, 0, p)
  <2>1. \A k \in 0 .. BufSize : D[k] # Newline
    BY <1>4, <1>8, <1>18, <1>19
  <2> QED BY <1>4, <1>14, <2>1 DEF Ahead
<1>20. ASSUME ~ (n + 1 >= y) PROVE Ahead(f, D, n + 1, y, p)
  <2>1. n + 1 \in 0 .. y
    BY <1>4, <1>8, <1>20
  <2>2. \A k \in n + 1 .. y - 1 : D[k] = f[p - y + k + 1]
    <3> SUFFICES ASSUME NEW k \in n + 1 .. y - 1 PROVE D[k] = f[p - y + k + 1]
      OBVIOUS
    <3>1. k \in x .. y - 1 /\ k # n /\ k \in 0 .. BufSize
      BY <1>4, <1>5, <1>8
    <3> QED BY <1>4, <1>14, <3>1
  <2>3. \A k \in 0 .. BufSize : k < n + 1 \/ k >= y => D[k] # Newline
    BY <1>8, <1>18
  <2>4. y \in 0 .. BufSize /\ p \in 0 .. Len(f)
    BY <1>4
  <2> QED BY <1>4, <1>14, <2>1, <2>2, <2>3, <2>4 DEF Ahead
<1>21. e \in 1 .. Len(f) + 1
  BY <1>8
<1> HIDE DEF R
<1>22. /\ e \in Ends(f) /\ e \in 1 .. Len(f) + 1 /\ n \in x .. y
       /\ n < y => f[e] = Newline
       /\ R
       /\ IF n + 1 >= y THEN Ahead(f, D, 0, 0, p) ELSE Ahead(f, D, n + 1, y, p)
  BY <1>5, <1>9, <1>17, <1>19, <1>20, <1>21
<1> QED BY <1>1, <1>2, <1>3, <1>22 DEF Searched, R

\* A line that the buffer ends in is moved down, and the walk begins with it.
LEMMA PartLine ==
    ASSUME BufSize \in Nat \ {0}, NEW f \in Seq(STRING \ {Null}), NEW d, NEW x \in Nat,
           NEW y \in Nat, NEW p \in Nat, Ahead(f, d, x, y, p),
           d[EndOf(d, x, y)] # Newline
    PROVE  Ahead(f, strcpy_down([d EXCEPT ![EndOf(d, x, y)] = Null], x), 0, y - x, p)
<1>0. PICK n : n = EndOf(d, x, y)
  OBVIOUS
<1>1. /\ Len(f) \in Nat /\ y <= BufSize /\ p <= Len(f) /\ x <= y /\ y <= p
      /\ d \in [0 .. BufSize -> Bytes]
      /\ \A k \in x .. y - 1 : d[k] = f[p - y + k + 1]
      /\ \A k \in 0 .. BufSize : k < x \/ k >= y => d[k] # Newline
  BY DEF Ahead
<1>2. n = y /\ \A k \in x .. y - 1 : d[k] # Newline
  <2>1. n \in x .. y /\ (n < y => d[n] = Newline) /\ \A k \in x .. n - 1 : d[k] # Newline
    <3>1. x <= y
      BY <1>1
    <3>2. /\ EndOf(d, x, y) \in x .. y
          /\ EndOf(d, x, y) < y => d[EndOf(d, x, y)] = Newline
          /\ \A k \in x .. EndOf(d, x, y) - 1 : d[k] # Newline
      BY <3>1, EndOfIs, ZenonT(30)
    <3> QED BY <1>0, <3>2, ZenonT(30)
  <2>2. n = y
    BY <1>0, <2>1
  <2> QED BY <2>1, <2>2
<1>3. PICK D : D = [d EXCEPT ![n] = Null]
  OBVIOUS
<1>4. /\ D \in [0 .. BufSize -> Bytes] /\ D[y] = Null
      /\ \A k \in 0 .. BufSize : k # y => D[k] = d[k]
  <2>1. y \in 0 .. BufSize /\ d \in [0 .. BufSize -> Bytes]
    BY <1>1
  <2> QED BY <1>2, <1>3, <2>1, NullIs
<1>5. \A k \in 0 .. BufSize : D[k] # Newline
  <2> SUFFICES ASSUME NEW k \in 0 .. BufSize PROVE D[k] # Newline \/ k \in x .. y - 1
    BY <1>1, <1>2, <1>4
  <2>1. CASE k = y
    BY <1>4, <2>1, NullIs
  <2> QED BY <1>1, <1>4, <2>1
<1>6. Min({k \in 0 .. BufSize - x : D[x + k] = Null}) = y - x
  <2>1. PICK v : v = SubSeq(f, p - y + x + 1, p - y + y)
    OBVIOUS
  <2>2. y \in x .. y
    BY <1>1
  <2>3. v \in Seq(STRING \ {Null}) /\ Len(v) = y - x /\ Lies(D, x, v)
    <3>1. /\ SubSeq(f, p - y + x + 1, p - y + y) \in Seq(STRING \ {Null})
          /\ Len(SubSeq(f, p - y + x + 1, p - y + y)) = y - x
          /\ Lies([d EXCEPT ![y] = Null], x, SubSeq(f, p - y + x + 1, p - y + y))
      BY <2>2, LineLies
    <3> QED BY <1>2, <1>3, <2>1, <3>1
  <2> QED BY <1>4, <2>3, StringEnds
<1>7. PICK E : E = strcpy_down(D, x)
  OBVIOUS
<1>8. PICK z \in Nat : z = y - x
  <2>1. y - x \in Nat
    BY <1>1
  <2> QED BY <2>1
<1>9. E = [k \in 0 .. BufSize |-> IF k <= z THEN D[x + k] ELSE D[k]]
  BY <1>6, <1>7, <1>8 DEF strcpy_down
<1>10. \A k \in 0 .. BufSize : E[k] \in Bytes /\ E[k] # Newline
  <2> SUFFICES ASSUME NEW k \in 0 .. BufSize PROVE E[k] \in Bytes /\ E[k] # Newline
    OBVIOUS
  <2>1. k <= z => x + k \in 0 .. BufSize
    BY <1>1, <1>8
  <2> QED BY <1>4, <1>5, <1>9, <2>1
<1>11. \A k \in 0 .. z - 1 : E[k] = f[p - z + k + 1]
  <2> SUFFICES ASSUME NEW k \in 0 .. z - 1 PROVE E[k] = f[p - z + k + 1]
    OBVIOUS
  <2>1. /\ x + k \in x .. y - 1 /\ x + k \in 0 .. BufSize /\ x + k # y
        /\ k \in 0 .. BufSize /\ k <= z /\ p - y + (x + k) + 1 = p - z + k + 1
    BY <1>1, <1>8
  <2> QED BY <1>1, <1>4, <1>9, <2>1
<1>12. E \in [0 .. BufSize -> Bytes]
  BY <1>9, <1>10
<1>13. z \in 0 .. BufSize /\ p \in 0 .. Len(f) /\ z <= p
  BY <1>1, <1>8
<1>14. Ahead(f, E, 0, z, p)
  BY <1>10, <1>11, <1>12, <1>13 DEF Ahead
<1> QED BY <1>0, <1>3, <1>7, <1>8, <1>14

\* What the assumptions say of the call.
LEMMA GrepCall ==
    ASSUME CallInv, call.fn = "grep"
    PROVE  /\ BufSize \in Nat \ {0} /\ call.file \in Seq(STRING \ {Null})
           /\ call.file \in Seq(STRING) /\ Len(call.file) \in Nat
           /\ call.pattern \in Seq(STRING \ {Null}) /\ call.pattern \in Seq(STRING)
           /\ call.junk \in STRING
<1>1. /\ BufSize \in Nat \ {0} /\ call.file \in Seq(STRING \ {Null})
      /\ call.pattern \in Seq(STRING \ {Null}) /\ call.junk \in STRING
  BY GrepAssumption, GrepCallsAssumption DEF CallInv
<1>2. \A t \in Seq(STRING \ {Null}) : t \in Seq(STRING) /\ Len(t) \in Nat
  OBVIOUS
<1> QED BY <1>1, <1>2

\* Nothing is read and nothing written.
LEMMA GrepStart ==
    ASSUME Init, Grepping PROVE GrepInv
<1>1. CallInv
  BY DEF Init, LibInit, CallInv
<1>2. PICK f \in Seq(STRING) : f = call.file /\ Len(f) \in Nat
  BY <1>1, GrepCall DEF Grepping
<1>3. /\ at = "call" /\ last = 0 /\ pos = 0 /\ printed = << >>
      /\ data = [k \in 0 .. BufSize |-> call.junk]
  BY DEF Init, LibInit, GrepInit, Grepping
<1>4. First = 0 /\ Passed = 0
  BY <1>3 DEF First, Passed
<1>5. Ahead(f, data, 0, 0, 0)
  <2>1. \A k \in 0 .. BufSize : data[k] = call.junk /\ data[k] # Newline
    BY <1>3 DEF Grepping
  <2>2. data \in [0 .. BufSize -> Bytes]
    BY <1>1, <1>3, GrepCall DEF Bytes, Grepping
  <2>3. BufSize \in Nat
    BY <1>1, GrepCall DEF Grepping
  <2> QED BY <1>2, <2>1, <2>2, <2>3 DEF Ahead
<1>6. Lists(f, call.pattern, << >>, 0)
  <2>1. PICK due : due = Matching(f, call.pattern)
    OBVIOUS
  <2>2. \A h \in due : h \in 1 .. Len(f) + 1
    <3>1. \A s : \A h \in Matching(f, s) : h \in 1 .. Len(f) + 1
      BY MatchingIn
    <3> QED BY <2>1, <3>1
  <2>3. {h \in due : h <= 0} = {}
    BY <1>2, <2>2
  <2>4. Rank(0, due) = 0
    BY <2>3, FS_EmptySet DEF Rank
  <2>5. \A h \in due : ~ (h <= 0)
    BY <1>2, <2>2
  <2> QED BY <2>1, <2>4, <2>5 DEF Lists
<1>7. Begins(f, 0, 0, 0)
  BY DEF Begins
<1>8. 0 < BufSize /\ 0 \in 0 .. Len(f) + 1
  BY <1>1, <1>2, GrepCall DEF Grepping
<1> QED BY <1>2, <1>3, <1>4, <1>5, <1>6, <1>7, <1>8 DEF GrepInv, Written

\* A step that changes none of it.
LEMMA GrepStill ==
    ASSUME GrepInv, UNCHANGED << call, at, res, grepvars >> PROVE GrepInv'
BY DEF GrepInv, Written, First, Passed, grepvars

\* The parts of the invariant before a read or a search.
LEMMA GrepWalk ==
    ASSUME CallInv, Grepping, GrepInv, at \in {"call", "read", "line"}
    PROVE  /\ last \in Nat /\ pos \in Nat /\ First \in Nat /\ First <= last
           /\ last <= BufSize /\ last <= pos /\ pos <= Len(call.file)
           /\ Ahead(call.file, data, First, last, pos)
           /\ \E b \in 0 .. Len(call.file) + 1 :
                  Begins(call.file, Passed, First, b) /\ Written(b)
<1>1. /\ Ahead(call.file, data, First, last, pos)
      /\ \E b \in 0 .. Len(call.file) + 1 :
             Begins(call.file, Passed, First, b) /\ Written(b)
  BY DEF GrepInv
<1>2. BufSize \in Nat /\ Len(call.file) \in Nat
  BY GrepCall DEF Grepping
<1>3. /\ last \in 0 .. BufSize /\ pos \in 0 .. Len(call.file) /\ last <= pos
      /\ First \in 0 .. last
  BY <1>1 DEF Ahead
<1> QED BY <1>1, <1>2, <1>3

\* The file is opened, or not.
LEMMA GrepOpenStep ==
    ASSUME CallInv, Grepping, GrepInv, GrepOpen PROVE GrepInv'
<1>1. /\ at = "call" /\ UNCHANGED << call, data, last, line_start, cnt, pos, printed >>
      /\ (at' = "read" /\ res' = res) \/ (at' = "done" /\ res' = -1)
  BY DEF GrepOpen, Returned, grepvars
<1>2. First' = First /\ Passed' = Passed
  BY <1>1 DEF First, Passed
<1> QED BY <1>1, <1>2 DEF GrepInv, Written

\* The close, after everything has been written.
LEMMA GrepCloseStep ==
    ASSUME CallInv, Grepping, GrepInv, GrepClose PROVE GrepInv'
<1>1. /\ at = "close" /\ at' = "done" /\ UNCHANGED << call, printed >>
  BY DEF GrepClose, Returned, grepvars
<1>2. Written(Len(call.file) + 1)' /\ Len(call.file) + 1 \in 0 .. Len(call.file) + 1
  BY <1>1, GrepCall DEF GrepInv, Written, Grepping
<1> QED BY <1>1, <1>2 DEF GrepInv

\* What a read adds lies ahead in the buffer, behind what was there.
LEMMA ReadAhead ==
    ASSUME BufSize \in Nat \ {0}, NEW f \in Seq(STRING \ {Null}), NEW d, NEW y \in Nat,
           NEW p \in Nat, Ahead(f, d, 0, y, p), NEW n \in Nat,
           y + n <= BufSize, p + n <= Len(f)
    PROVE  Ahead(f, [k \in 0 .. BufSize |->
                        IF k \in y .. y + n - 1 THEN f[p + (k - y) + 1] ELSE d[k]],
                 0, y + n, p + n)
<1>1. /\ Len(f) \in Nat /\ y <= p /\ d \in [0 .. BufSize -> Bytes]
      /\ \A k \in 0 .. y - 1 : d[k] = f[p - y + k + 1]
      /\ \A k \in 0 .. BufSize : k >= y => d[k] # Newline
  BY DEF Ahead
<1>2. PICK E : E = [k \in 0 .. BufSize |->
                       IF k \in y .. y + n - 1 THEN f[p + (k - y) + 1] ELSE d[k]]
  OBVIOUS
<1>3. ASSUME NEW k \in y .. y + n - 1
      PROVE  /\ k \in 0 .. BufSize /\ p + (k - y) + 1 \in 1 .. Len(f)
             /\ E[k] = f[p + (k - y) + 1]
  <2>1. k \in 0 .. BufSize /\ p + (k - y) + 1 \in 1 .. Len(f)
    BY <1>1
  <2> QED BY <1>2, <2>1
<1>4. \A k \in 0 .. BufSize : k \notin y .. y + n - 1 => E[k] = d[k]
  BY <1>2
<1>5. E \in [0 .. BufSize -> Bytes]
  <2>1. \A k \in 1 .. Len(f) : f[k] \in Bytes
    BY DEF Bytes
  <2>2. \A k \in 0 .. BufSize : E[k] \in Bytes
    BY <1>1, <1>3, <1>4, <2>1
  <2> QED BY <1>2, <2>2
<1>6. ASSUME NEW k \in 0 .. (y + n) - 1 PROVE E[k] = f[(p + n) - (y + n) + k + 1]
  <2>1. CASE k < y
    <3>1. /\ k \in 0 .. y - 1 /\ k \notin y .. y + n - 1 /\ k \in 0 .. BufSize
          /\ (p + n) - (y + n) + k + 1 = p - y + k + 1
      BY <2>1
    <3> QED BY <1>1, <1>4, <3>1
  <2>2. CASE k >= y
    <3>1. k \in y .. y + n - 1 /\ (p + n) - (y + n) + k + 1 = p + (k - y) + 1
      BY <2>2
    <3> QED BY <1>3, <3>1
  <2> QED BY <2>1, <2>2
<1>7. ASSUME NEW k \in 0 .. BufSize, k >= y + n PROVE E[k] # Newline
  <2>1. k \notin y .. y + n - 1 /\ k >= y
    BY <1>7
  <2> QED BY <1>1, <1>4, <2>1
<1>8. Ahead(f, E, 0, y + n, p + n)
  <2>1. /\ y + n \in 0 .. BufSize /\ p + n \in 0 .. Len(f) /\ y + n <= p + n
        /\ 0 \in 0 .. y + n
    BY <1>1
  <2>2. \A k \in 0 .. BufSize : k < 0 \/ k >= y + n => E[k] # Newline
    BY <1>7
  <2> QED BY <1>5, <1>6, <2>1, <2>2 DEF Ahead
<1> QED BY <1>2, <1>8

\* A read fills the buffer or reaches the end of the file; or it fails.
LEMMA GrepReadStep ==
    ASSUME CallInv, Grepping, GrepInv, GrepRead PROVE GrepInv'
<1>1. at = "read" /\ call' = call /\ First = 0
  BY DEF GrepRead, First
<1>2. PICK f : f = call.file /\ f = call'.file
  BY <1>1
<1>3. /\ BufSize \in Nat \ {0} /\ f \in Seq(STRING \ {Null}) /\ Len(f) \in Nat
  BY <1>2, GrepCall DEF Grepping
<1>4. PICK x, p, d : x = last /\ p = pos /\ d = data
  OBVIOUS
<1>5. x \in Nat /\ p \in Nat /\ p <= Len(f) /\ Ahead(f, d, 0, x, p)
  BY <1>1, <1>2, <1>4, GrepWalk
<1>6. x < BufSize
  BY <1>1, <1>4 DEF GrepInv
<1>7. PICK b \in 0 .. Len(f) + 1 : Begins(f, Passed, 0, b) /\ Written(b)
  BY <1>1, <1>2, GrepWalk
<1>8. Passed = p - x + 0
  BY <1>1, <1>4 DEF Passed
<1>9. CASE /\ cnt' = Min({BufSize - last, Len(call.file) - pos})
           /\ data' = [k \in 0 .. BufSize |->
                          IF k \in last .. last + cnt' - 1
                          THEN call.file[pos + (k - last) + 1] ELSE data[k]]
           /\ last' = last + cnt' /\ pos' = pos + cnt' /\ line_start' = 0
           /\ at' = "line" /\ UNCHANGED << printed, res >>
  <2>0. PICK n : n = cnt'
    OBVIOUS
  <2>1. /\ n \in Nat /\ n <= BufSize - x /\ n <= Len(f) - p
        /\ n = BufSize - x \/ n = Len(f) - p
    <3> DEFINE S == {BufSize - x, Len(f) - p}
    <3>1. S \in SUBSET Nat /\ BufSize - x \in S /\ Len(f) - p \in S
      BY <1>3, <1>5, <1>6
    <3>2. cnt' = Min(S)
      BY <1>2, <1>4, <1>9
    <3>3. \A m \in S : m = BufSize - x \/ m = Len(f) - p
      OBVIOUS
    <3> HIDE DEF S
    <3>4. Min(S) \in S /\ \A m \in S : Min(S) <= m
      BY <3>1, MinIn
    <3> QED BY <2>0, <3>1, <3>2, <3>3, <3>4
  <2>2. x + n <= BufSize /\ p + n <= Len(f)
    BY <1>3, <1>5, <2>1
  <2>3. data' = [k \in 0 .. BufSize |->
                    IF k \in x .. x + n - 1 THEN f[p + (k - x) + 1] ELSE d[k]]
    BY <1>2, <1>4, <1>9, <2>0
  <2>4. Ahead(f, [k \in 0 .. BufSize |->
                     IF k \in x .. x + n - 1 THEN f[p + (k - x) + 1] ELSE d[k]],
              0, x + n, p + n)
    BY <1>3, <1>5, <2>1, <2>2, ReadAhead
  <2>5. last' = x + n /\ pos' = p + n /\ First' = 0
    BY <1>4, <1>9, <2>0 DEF First
  <2>6. Passed' = Passed
    <3>1. Passed' = (p + n) - (x + n) + 0
      BY <2>5 DEF Passed
    <3> QED BY <1>5, <1>8, <2>1, <3>1
  <2>7. Written(b)'
    BY <1>1, <1>7, <1>9 DEF Written
  <2>8. (last' < BufSize \/ cnt' = 0) => pos' = Len(f)
    <3>1. x + n < BufSize \/ n = 0 => p + n = Len(f)
      BY <1>3, <1>5, <1>6, <2>1
    <3> QED BY <2>0, <2>5, <3>1
  <2>9. Ahead(f, data', First', last', pos') /\ Begins(f, Passed', First', b)
    BY <1>7, <2>3, <2>4, <2>5, <2>6
  <2>10. at' = "line"
    BY <1>9
  <2> QED BY <1>2, <2>7, <2>8, <2>9, <2>10 DEF GrepInv
<1>10. CASE at' = "done" /\ res' = -1 /\ UNCHANGED grepvars
  <2>1. Written(b)'
    BY <1>1, <1>7, <1>10 DEF Written, grepvars
  <2> QED BY <1>2, <1>10, <2>1 DEF GrepInv
<1> QED BY <1>9, <1>10 DEF GrepRead, Returned

\* The search of a line, or the move of one that the buffer ends in.
LEMMA GrepLineStep ==
    ASSUME CallInv, Grepping, GrepInv, GrepLine PROVE GrepInv'
<1>1. /\ at = "line" /\ call' = call /\ res' = res /\ cnt' = cnt /\ pos' = pos
      /\ First = line_start
  BY DEF GrepLine, First
<1>2. PICK f, s : f = call.file /\ f = call'.file /\ s = call.pattern /\ s = call'.pattern
  BY <1>1
<1>3. /\ BufSize \in Nat \ {0} /\ f \in Seq(STRING \ {Null}) /\ Len(f) \in Nat
      /\ f \in Seq(STRING) /\ s \in Seq(STRING \ {Null}) /\ s \in Seq(STRING)
  BY <1>2, GrepCall DEF Grepping
<1>4. PICK d, x, y, p, w : d = data /\ x = line_start /\ y = last /\ p = pos /\ w = printed
  OBVIOUS
<1>5. /\ x \in Nat /\ y \in Nat /\ p \in Nat /\ x <= y /\ y <= BufSize /\ y <= p /\ p <= Len(f)
      /\ Ahead(f, d, x, y, p)
  BY <1>1, <1>2, <1>4, GrepWalk
<1>6. PICK n : n = EndOf(d, x, y)
  OBVIOUS
<1>7. line_end = n /\ Ended = [d EXCEPT ![n] = Null]
  BY <1>4, <1>6 DEF line_end, Ended, EndOf
<1>8. PICK b \in 0 .. Len(f) + 1 : Begins(f, p - y + x, x, b) /\ Lists(f, s, w, b)
  BY <1>1, <1>2, <1>4, GrepWalk DEF Passed, Written
<1>9. y < BufSize \/ cnt = 0 => p = Len(f)
  BY <1>1, <1>2, <1>4 DEF GrepInv
<1>10. CASE /\ partial /\ data' = strcpy_down(Ended, line_start)
            /\ last' = last - line_start /\ at' = "read" /\ UNCHANGED printed
  <2>1. d[n] # Newline /\ x # 0
    BY <1>4, <1>7, <1>10 DEF partial
  <2>2. Ahead(f, strcpy_down([d EXCEPT ![n] = Null], x), 0, y - x, p)
    BY <1>3, <1>5, <1>6, <2>1, PartLine
  <2>3. /\ data' = strcpy_down([d EXCEPT ![n] = Null], x) /\ last' = y - x /\ pos' = p
        /\ printed' = w /\ at' = "read" /\ First' = 0
    BY <1>1, <1>4, <1>7, <1>10 DEF First
  <2>4. Ahead(f, data', First', last', pos')
    BY <2>2, <2>3
  <2>5. Passed' = p - y + x /\ y - x < BufSize
    <3>1. Passed' = p - (y - x) + 0
      BY <2>3 DEF Passed
    <3> QED BY <1>3, <1>5, <2>1, <3>1
  <2>6. Begins(f, p - y + x, 0, b)
    BY <1>8, <2>1 DEF Begins
  <2>7. Written(b)'
    BY <1>2, <1>8, <2>3 DEF Written
  <2> QED BY <1>2, <2>3, <2>4, <2>5, <2>6, <2>7 DEF GrepInv
<1>11. CASE /\ ~ partial /\ data' = Ended
            /\ printed' = IF search(Ended, line_start, line_end, call.pattern)
                          THEN Append(printed, StringAt(Ended, line_start)) ELSE printed
            /\ line_start' = line_end + 1
            /\ IF line_end + 1 >= last
               THEN last' = 0 /\ at' = (IF cnt = 0 THEN "close" ELSE "read")
               ELSE UNCHANGED << last, at >>
  <2>1. d[n] = Newline \/ cnt = 0 \/ x = 0
    BY <1>4, <1>7, <1>11 DEF partial
  <2>2. d[n] = Newline \/ p = Len(f) \/ (x = 0 /\ y = BufSize)
    <3>1. y < BufSize \/ y = BufSize
      BY <1>3, <1>5
    <3> QED BY <1>9, <2>1, <3>1
  <2>3. Ready(f, s, w, d, x, y, p, b)
    <3>1. Fits(f)
      BY <1>2 DEF Grepping
    <3> QED BY <1>5, <1>6, <1>8, <2>2, <3>1 DEF Ready
  <2>4. Searched(f, s, w, d, x, y, p)
    BY <1>3, <1>5, <2>3, WholeLine
  <2>5. PICK D, e : D = [d EXCEPT ![n] = Null] /\ e = p - y + n + 1
    OBVIOUS
  <2>6. /\ e \in Ends(f) /\ e \in 1 .. Len(f) + 1 /\ n \in x .. y
        /\ n < y => f[e] = Newline
        /\ Lists(f, s, IF search(D, x, n, s) THEN Append(w, StringAt(D, x)) ELSE w, e)
        /\ IF n + 1 >= y THEN Ahead(f, D, 0, 0, p) ELSE Ahead(f, D, n + 1, y, p)
    BY <1>6, <2>4, <2>5 DEF Searched
  <2>7. /\ data' = D
        /\ printed' = IF search(D, x, n, s) THEN Append(w, StringAt(D, x)) ELSE w
        /\ line_start' = n + 1
    BY <1>2, <1>4, <1>7, <1>11, <2>5
  <2>8. IF n + 1 >= y THEN last' = 0 /\ at' = (IF cnt = 0 THEN "close" ELSE "read")
        ELSE last' = y /\ at' = "line"
    BY <1>1, <1>4, <1>7, <1>11
  <2>9. Lists(f, s, printed', e)
    BY <2>6, <2>7
  <2>10. Written(e)'
    BY <1>2, <2>9 DEF Written
  <2>11. pos' = p /\ e \in 0 .. Len(f) + 1 /\ n \in Nat
    BY <1>1, <1>3, <1>4, <1>5, <2>6
  <2>12. CASE n + 1 >= y /\ cnt = 0
    <3>1. p = Len(f) /\ at' = "close"
      BY <1>9, <2>8, <2>12
    <3>2. Lists(f, s, printed', Len(f) + 1)
      <4>1. CASE n = y
        <5>1. e = Len(f) + 1
          BY <1>5, <2>5, <3>1, <4>1
        <5> QED BY <2>9, <5>1
      <4>2. CASE n < y
        <5>1. e = Len(f)
          BY <1>5, <2>5, <2>11, <2>12, <3>1, <4>2
        <5>2. PICK v : v = printed'
          OBVIOUS
        <5> QED BY <1>3, <2>6, <2>9, <4>2, <5>1, <5>2, ListsEmpty
      <4> QED BY <1>5, <2>6, <2>11, <4>1, <4>2
    <3>3. Written(Len(f) + 1)'
      BY <1>2, <3>2 DEF Written
    <3> QED BY <1>2, <3>1, <3>3 DEF GrepInv
  <2>13. CASE n + 1 >= y /\ cnt # 0
    <3>1. at' = "read" /\ last' = 0 /\ First' = 0
      BY <2>8, <2>13 DEF First
    <3>2. Passed' = p
      <4>1. Passed' = p - 0 + 0
        BY <2>11, <3>1 DEF Passed
      <4> QED BY <1>5, <4>1
    <3>3. Begins(f, p, 0, e)
      <4>1. CASE n = y
        <5>1. e = p + 1
          BY <1>5, <2>5, <4>1
        <5> QED BY <2>6, <5>1 DEF Begins
      <4>2. CASE n < y
        <5>1. e = p
          BY <1>5, <2>5, <2>11, <2>13, <4>2
        <5> QED BY <2>6, <4>2, <5>1 DEF Begins
      <4> QED BY <1>5, <2>6, <2>11, <4>1, <4>2
    <3>4. Ahead(f, data', First', last', pos')
      BY <2>6, <2>7, <2>11, <2>13, <3>1
    <3>5. Begins(f, Passed', First', e) /\ 0 < BufSize
      BY <1>3, <3>1, <3>2, <3>3
    <3> QED BY <1>2, <2>10, <2>11, <3>1, <3>4, <3>5 DEF GrepInv
  <2>14. CASE ~ (n + 1 >= y)
    <3>1. at' = "line" /\ last' = y /\ First' = n + 1
      BY <2>7, <2>8, <2>14 DEF First
    <3>2. Passed' = e
      <4>1. Passed' = p - y + (n + 1)
        BY <2>11, <3>1 DEF Passed
      <4> QED BY <1>5, <2>5, <2>11, <4>1
    <3>3. Begins(f, e, n + 1, e)
      <4>1. n < y
        BY <1>5, <2>11, <2>14
      <4> QED BY <2>6, <4>1 DEF Begins
    <3>4. Ahead(f, data', First', last', pos')
      BY <2>6, <2>7, <2>11, <2>14, <3>1
    <3>5. Begins(f, Passed', First', e)
      BY <3>1, <3>2, <3>3
    <3>6. last' < BufSize \/ cnt' = 0 => pos' = Len(f)
      BY <1>1, <1>9, <2>11, <3>1
    <3> QED BY <1>2, <2>10, <2>11, <3>1, <3>4, <3>5, <3>6 DEF GrepInv
  <2> QED BY <2>12, <2>13, <2>14
<1> QED BY <1>10, <1>11 DEF GrepLine

\* Every step of a grep, and none of another call.
LEMMA GrepStep ==
    ASSUME CallInv, Grepping => GrepInv, [Next]_vars
    PROVE  (Grepping => GrepInv)'
<1>1. call' = call
  BY CallStep
<1>2. SUFFICES ASSUME Grepping, GrepInv PROVE GrepInv'
  BY <1>1 DEF Grepping
<1>3. at \in {"call", "read", "line", "close", "done"} /\ call.fn = "grep"
  BY <1>2 DEF GrepInv, Grepping
<1>4. ASSUME LibNext PROVE FALSE
  BY <1>3, <1>4 DEF LibNext, Convert, CopyStart, CopyTop, CopyWords, CopyBottom,
     MoveStart, MoveByte, Copying
<1>5. ASSUME FsNext PROVE FALSE
  BY <1>3, <1>5 DEF FsNext, ReadRefused, ReadStart, ReadBlock, ReadByte, Lookup, Complete, Parse
<1>6. CASE GrepNext
  BY <1>2, <1>6, GrepOpenStep, GrepReadStep, GrepLineStep, GrepCloseStep DEF GrepNext
<1>7. CASE RateNext /\ UNCHANGED << loop, grepvars >>
  <2>1. UNCHANGED << at, res >>
    BY <1>7 DEF RateNext
  <2> QED BY <1>1, <1>2, <1>7, <2>1, GrepStill
<1>8. CASE UNCHANGED vars
  <2>1. UNCHANGED << call, at, res, grepvars >>
    BY <1>8 DEF vars
  <2> QED BY <1>2, <2>1, GrepStill
<1> QED BY <1>4, <1>5, <1>6, <1>7, <1>8 DEF Next

\* GrepsLines for any buffer size, any file whose lines fit it and any pattern:
\* do_one_file writes the lines that hold the pattern, once each, whole and in
\* order, wherever its reads cut the file.
THEOREM LinesGrepped == Spec => []GrepsLines
<1>1. Init => CallInv /\ (Grepping => GrepInv)
  BY GrepStart DEF Init, LibInit, CallInv
<1>2. CallInv /\ (Grepping => GrepInv) /\ [Next]_vars
          => (CallInv /\ (Grepping => GrepInv))'
  BY CallStep, GrepStep DEF CallInv
<1>3. CallInv /\ (Grepping => GrepInv) => GrepsLines
  <2> SUFFICES ASSUME CallInv, Grepping, GrepInv, at = "done" PROVE GrepsLines
    BY DEF GrepsLines, Done, Grepping
  <2>1. PICK f, s, w : f = call.file /\ s = call.pattern /\ w = printed
    OBVIOUS
  <2>2. f \in Seq(STRING) /\ Len(f) \in Nat
    BY <2>1, GrepCall DEF Grepping
  <2>3. PICK b \in 0 .. Len(f) + 1 : Lists(f, s, w, b)
    BY <2>1 DEF GrepInv, Written
  <2>4. res = 0 => Lists(f, s, w, Len(f) + 1)
    BY <2>1 DEF GrepInv, Written
  <2>5. /\ \A e \in Matching(f, s) : Rank(e, Matching(f, s)) <= Len(w) =>
               w[Rank(e, Matching(f, s))] = LineUpTo(f, e)
        /\ Len(w) <= Cardinality(Matching(f, s))
    BY <2>2, <2>3, ListsRight
  <2>6. res = 0 => Len(w) = Cardinality(Matching(f, s))
    <3>1. Len(f) + 1 \in Nat /\ Len(f) + 1 >= Len(f) + 1
      BY <2>2
    <3> QED BY <2>2, <2>4, <3>1, ListsRight
  <2> QED BY <2>1, <2>5, <2>6 DEF GrepsLines
<1> QED BY <1>1, <1>2, <1>3, PTL DEF Spec

-----------------------------------------------------------------------------
(* Induction over the numbers, and functions defined by it *)

\* What holds of a number whenever it holds of the smaller ones holds of all.
LEMMA LeastFirst ==
    ASSUME NEW S, \A n \in Nat : (\A m \in 0 .. n - 1 : m \in S) => n \in S
    PROVE  \A n \in Nat : n \in S
<1> DEFINE B == Nat \ S
<1>1. SUFFICES ASSUME B # {} PROVE FALSE
  OBVIOUS
<1>2. B \in SUBSET Nat /\ \A n \in Nat : n \in B <=> n \notin S
  OBVIOUS
<1> HIDE DEF B
<1>3. PICK n \in B : \A y \in B : n <= y
  BY <1>1, <1>2, MinIn
<1>4. \A m \in 0 .. n - 1 : m \in S
  BY <1>2, <1>3
<1> QED BY <1>2, <1>3, <1>4

\* A function whose value at n is a step from its value at a smaller number.
Stepwise(g, c, N, jump, step) ==
    g[0] = c /\ \A n \in 1 .. N : g[n] = step[n][g[jump[n]]]

\* Such a function exists.
LEMMA Recursion ==
    ASSUME NEW N \in Nat, NEW V, NEW c \in V, NEW jump \in [1 .. N -> Nat],
           \A n \in 1 .. N : jump[n] < n, NEW step \in [1 .. N -> [V -> V]]
    PROVE  \E g \in [0 .. N -> V] : Stepwise(g, c, N, jump, step)
<1> DEFINE Has(m) == \E g \in [0 .. m -> V] : Stepwise(g, c, m, jump, step)
           S == {m \in Nat : m <= N => Has(m)}
<1>1. ASSUME NEW m \in Nat, \A k \in 0 .. m - 1 : k \in S PROVE m \in S
  <2> SUFFICES ASSUME m <= N PROVE Has(m)
    OBVIOUS
  <2>1. CASE m = 0
    <3>1. [k \in 0 .. m |-> c] \in [0 .. m -> V]
      OBVIOUS
    <3>2. Stepwise([k \in 0 .. m |-> c], c, m, jump, step)
      BY <2>1 DEF Stepwise
    <3> QED BY <3>1, <3>2
  <2>2. CASE m > 0
    <3>1. m - 1 \in S /\ m - 1 <= N /\ m - 1 \in Nat
      BY <1>1, <2>2
    <3>2. PICK g \in [0 .. m - 1 -> V] : Stepwise(g, c, m - 1, jump, step)
      BY <3>1
    <3>3. PICK h : h = [k \in 0 .. m |-> IF k = m THEN step[m][g[jump[m]]] ELSE g[k]]
      OBVIOUS
    <3>4. m \in 1 .. N /\ jump[m] \in 0 .. m - 1 /\ g[jump[m]] \in V
      BY <2>2
    <3>5. step[m][g[jump[m]]] \in V
      BY <3>4
    <3>6. h \in [0 .. m -> V] /\ \A k \in 0 .. m - 1 : h[k] = g[k]
      BY <3>3, <3>5
    <3>7. h[m] = step[m][g[jump[m]]]
      BY <3>3
    <3>8. ASSUME NEW n \in 1 .. m PROVE h[n] = step[n][h[jump[n]]]
      <4>1. n \in 1 .. N /\ jump[n] \in Nat /\ jump[n] < n
        OBVIOUS
      <4>2. jump[n] \in 0 .. m - 1
        BY <4>1
      <4>3. CASE n = m
        BY <3>6, <3>7, <4>2, <4>3
      <4>4. CASE n < m
        <5>1. n \in 1 .. m - 1 /\ n \in 0 .. m - 1
          BY <4>4
        <5>2. g[n] = step[n][g[jump[n]]]
          BY <3>2, <5>1 DEF Stepwise
        <5> QED BY <3>6, <4>2, <5>1, <5>2
      <4> QED BY <4>3, <4>4
    <3>9. h[0] = c
      BY <2>2, <3>2, <3>6 DEF Stepwise
    <3>10. Stepwise(h, c, m, jump, step)
      BY <3>8, <3>9 DEF Stepwise
    <3> QED BY <3>6, <3>10
  <2> QED BY <2>1, <2>2
<1>2. N \in S => Has(N)
  OBVIOUS
<1> HIDE DEF S
<1>3. N \in S
  BY <1>1, LeastFirst
<1> QED BY <1>2, <1>3

-----------------------------------------------------------------------------
(* printf: the conversions of a word *)

\* Each digit of a word holds 16 times as many numbers.
Spans(g) == g = [n \in 0 .. HexDigits |-> IF n = 0 THEN 1 ELSE 16 * g[n - 1]]

\* The function that WordSpan is defined with.
LEMMA SpanIs ==
    \E g \in [0 .. HexDigits -> Nat] :
        /\ g[0] = 1 /\ \A n \in 1 .. HexDigits : g[n] = 16 * g[n - 1]
        /\ WordSpan = g[HexDigits]
<1>1. HexDigits \in Nat \ {0}
  BY LibAssumption
<1>2. PICK jump : jump = [n \in 1 .. HexDigits |-> n - 1]
  OBVIOUS
<1>3. PICK step : step = [n \in 1 .. HexDigits |-> [v \in Nat |-> 16 * v]]
  OBVIOUS
<1>4. jump \in [1 .. HexDigits -> Nat] /\ \A n \in 1 .. HexDigits : jump[n] < n
  BY <1>1, <1>2
<1>5. step \in [1 .. HexDigits -> [Nat -> Nat]]
  BY <1>1, <1>3
<1>6. 1 \in Nat /\ HexDigits \in Nat
  BY <1>1
<1>7. \E g \in [0 .. HexDigits -> Nat] : Stepwise(g, 1, HexDigits, jump, step)
  BY <1>4, <1>5, <1>6, Recursion
<1>8. PICK f \in [0 .. HexDigits -> Nat] : Stepwise(f, 1, HexDigits, jump, step)
  BY <1>7
<1>9. f[0] = 1 /\ \A n \in 1 .. HexDigits : f[n] = 16 * f[n - 1]
  <2>1. f[0] = 1 /\ \A n \in 1 .. HexDigits : f[n] = step[n][f[jump[n]]]
    BY <1>8, Zenon DEF Stepwise
  <2>2. ASSUME NEW n \in 1 .. HexDigits PROVE f[n] = 16 * f[n - 1]
    <3>1. jump[n] = n - 1 /\ n - 1 \in 0 .. HexDigits
      BY <1>1, <1>2
    <3>2. f[n - 1] \in Nat /\ f[n] = step[n][f[n - 1]]
      BY <2>1, <3>1
    <3> QED BY <1>3, <3>2
  <2> QED BY <2>1, <2>2
<1>10. Spans(f)
  <2>1. f = [n \in 0 .. HexDigits |-> f[n]]
    OBVIOUS
  <2>2. \A n \in 0 .. HexDigits : f[n] = IF n = 0 THEN 1 ELSE 16 * f[n - 1]
    BY <1>1, <1>9
  <2> QED BY <2>1, <2>2 DEF Spans
<1>11. PICK g : g = CHOOSE h : Spans(h)
  OBVIOUS
<1>12. Spans(g)
  BY <1>10, <1>11
<1>13. WordSpan = g[HexDigits]
  BY <1>11 DEF WordSpan, Spans
<1>14. g[0] = 1 /\ \A n \in 1 .. HexDigits : g[n] = 16 * g[n - 1]
  BY <1>1, <1>12 DEF Spans
<1>15. \A n \in 0 .. HexDigits : g[n] \in Nat
  <2> DEFINE S == {n \in Nat : n <= HexDigits => g[n] \in Nat}
  <2>1. ASSUME NEW n \in Nat, \A m \in 0 .. n - 1 : m \in S PROVE n \in S
    <3>1. CASE n = 0
      BY <1>14, <3>1
    <3>2. CASE n > 0 /\ n <= HexDigits
      <4>1. n - 1 \in S /\ n - 1 \in Nat /\ n - 1 <= HexDigits
        BY <1>1, <2>1, <3>2
      <4> QED BY <1>1, <1>14, <3>2, <4>1
    <3> QED BY <1>1, <3>1, <3>2
  <2>2. (\A n \in Nat : n \in S) => \A n \in 0 .. HexDigits : g[n] \in Nat
    BY <1>1
  <2> HIDE DEF S
  <2>3. \A n \in Nat : n \in S
    BY <2>1, LeastFirst
  <2> QED BY <2>2, <2>3
<1>16. g \in [0 .. HexDigits -> Nat]
  <2>1. g = [n \in 0 .. HexDigits |-> g[n]]
    BY <1>12 DEF Spans
  <2> QED BY <1>15, <2>1
<1> QED BY <1>13, <1>14, <1>16

\* A string of digits reads as a number.
Upto(g, s, radix) ==
    g = [k \in 0 .. Len(s) |-> IF k = 0 THEN 0 ELSE radix * g[k - 1] + DigitOf(s[k])]
Reads(s, radix, v) == \E g : Upto(g, s, radix) /\ g[Len(s)] = v

\* That is the number that ReadsBack speaks of.
LEMMA NumberIs ==
    ASSUME NEW C, NEW s \in Seq(C), NEW radix, NEW v, Reads(s, radix, v)
    PROVE  Number(s, radix) = v
<1>1. PICK g : Upto(g, s, radix) /\ g[Len(s)] = v
  BY DEF Reads
<1>2. PICK h : h = CHOOSE f : Upto(f, s, radix)
  OBVIOUS
<1>3. Upto(h, s, radix)
  BY <1>1, <1>2
<1>4. Number(s, radix) = h[Len(s)]
  BY <1>2 DEF Number, Upto
<1>5. \A k \in 0 .. Len(s) : g[k] = IF k = 0 THEN 0 ELSE radix * g[k - 1] + DigitOf(s[k])
  BY <1>1 DEF Upto
<1>6. \A k \in 0 .. Len(s) : h[k] = IF k = 0 THEN 0 ELSE radix * h[k - 1] + DigitOf(s[k])
  BY <1>3 DEF Upto
<1> DEFINE S == {n \in Nat : n <= Len(s) => h[n] = g[n]}
<1>7. ASSUME NEW n \in Nat, \A m \in 0 .. n - 1 : m \in S PROVE n \in S
  <2> SUFFICES ASSUME n <= Len(s) PROVE h[n] = g[n]
    OBVIOUS
  <2>1. /\ h[n] = IF n = 0 THEN 0 ELSE radix * h[n - 1] + DigitOf(s[n])
        /\ g[n] = IF n = 0 THEN 0 ELSE radix * g[n - 1] + DigitOf(s[n])
    BY <1>5, <1>6
  <2>2. n > 0 => n - 1 \in S /\ n - 1 <= Len(s)
    BY <1>7
  <2>3. n > 0 => h[n - 1] = g[n - 1]
    BY <2>2
  <2> QED BY <2>1, <2>3
<1>8. Len(s) \in S => h[Len(s)] = g[Len(s)]
  OBVIOUS
<1> HIDE DEF S
<1>9. Len(s) \in S
  BY <1>7, LeastFirst
<1> QED BY <1>1, <1>4, <1>8, <1>9

\* One more digit.
LEMMA ReadsAppend ==
    ASSUME NEW C, NEW s \in Seq(C), NEW c \in C, NEW radix, NEW v, Reads(s, radix, v)
    PROVE  Reads(Append(s, c), radix, radix * v + DigitOf(c))
<1>1. PICK g : Upto(g, s, radix) /\ g[Len(s)] = v
  BY DEF Reads
<1>2. PICK t : t = Append(s, c)
  OBVIOUS
<1>3. /\ Len(t) = Len(s) + 1 /\ t[Len(t)] = c
      /\ \A k \in 1 .. Len(s) : t[k] = s[k]
  BY <1>2
<1>4. PICK h : h = [k \in 0 .. Len(t) |->
                        IF k = Len(t) THEN radix * v + DigitOf(c) ELSE g[k]]
  OBVIOUS
<1>5. Len(s) \in Nat
  OBVIOUS
<1>6. \A k \in 0 .. Len(s) : g[k] = IF k = 0 THEN 0 ELSE radix * g[k - 1] + DigitOf(s[k])
  BY <1>1 DEF Upto
<1>7. /\ \A k \in 0 .. Len(s) : h[k] = g[k]
      /\ h[Len(t)] = radix * v + DigitOf(c)
  BY <1>3, <1>4, <1>5
<1>8. ASSUME NEW k \in 0 .. Len(t)
      PROVE  h[k] = IF k = 0 THEN 0 ELSE radix * h[k - 1] + DigitOf(t[k])
  <2>1. CASE k = Len(t)
    <3>1. k # 0 /\ k - 1 = Len(s) /\ t[k] = c
      BY <1>3, <1>5, <2>1
    <3>2. h[k - 1] = v
      BY <1>1, <1>5, <1>7, <3>1
    <3> QED BY <1>7, <2>1, <3>1, <3>2
  <2>2. CASE k = 0
    BY <1>5, <1>6, <1>7, <2>2
  <2>3. CASE k > 0 /\ k < Len(t)
    <3>1. k \in 1 .. Len(s) /\ k - 1 \in 0 .. Len(s) /\ k \in 0 .. Len(s)
      BY <1>3, <1>5, <2>3
    <3>2. h[k] = g[k] /\ h[k - 1] = g[k - 1] /\ t[k] = s[k]
      BY <1>3, <1>7, <3>1
    <3> QED BY <1>6, <2>3, <3>1, <3>2
  <2> QED BY <1>3, <1>5, <2>1, <2>2, <2>3
<1>9. Upto(h, t, radix)
  <2>1. h = [k \in 0 .. Len(t) |-> h[k]]
    BY <1>4
  <2> QED BY <1>8, <2>1 DEF Upto
<1> QED BY <1>2, <1>7, <1>9 DEF Reads

\* Zeros in front change nothing.
LEMMA ReadsZeros ==
    ASSUME NEW C, NEW s \in Seq(C), NEW radix \in Nat, NEW v, Reads(s, radix, v),
           NEW z \in Nat, NEW t \in Seq(C), Len(t) = z + Len(s),
           \A k \in 1 .. z : DigitOf(t[k]) = 0,
           \A k \in 1 .. Len(s) : t[z + k] = s[k]
    PROVE  Reads(t, radix, v)
<1>1. PICK g : Upto(g, s, radix) /\ g[Len(s)] = v
  BY DEF Reads
<1>2. PICK h : h = [k \in 0 .. Len(t) |-> IF k <= z THEN 0 ELSE g[k - z]]
  OBVIOUS
<1>3. Len(s) \in Nat
  OBVIOUS
<1>4. \A k \in 0 .. Len(s) : g[k] = IF k = 0 THEN 0 ELSE radix * g[k - 1] + DigitOf(s[k])
  BY <1>1 DEF Upto
<1>5. g[0] = 0
  BY <1>3, <1>4
<1>6. \A k \in 0 .. Len(t) : h[k] = IF k <= z THEN 0 ELSE g[k - z]
  BY <1>2
<1>7. ASSUME NEW k \in 0 .. Len(t)
      PROVE  h[k] = IF k = 0 THEN 0 ELSE radix * h[k - 1] + DigitOf(t[k])
  <2>1. CASE k = 0
    BY <1>6, <2>1
  <2>2. CASE k > 0 /\ k <= z
    <3>1. k - 1 \in 0 .. Len(t) /\ k - 1 <= z /\ k \in 1 .. z
      BY <2>2
    <3>2. h[k] = 0 /\ h[k - 1] = 0 /\ DigitOf(t[k]) = 0
      BY <1>6, <2>2, <3>1
    <3> QED BY <2>2, <3>2
  <2>3. CASE k > z
    <3>1. PICK m \in 1 .. Len(s) : k = z + m
      <4>1. k - z \in 1 .. Len(s) /\ k = z + (k - z)
        BY <1>3, <2>3
      <4> QED BY <4>1
    <3>2. k - z = m /\ m - 1 \in 0 .. Len(s) /\ m \in 0 .. Len(s) /\ m # 0
      BY <1>3, <3>1
    <3>3. h[k] = g[m] /\ t[k] = s[m]
      BY <1>6, <2>3, <3>1, <3>2
    <3>4. h[k - 1] = g[m - 1]
      <4>1. k - 1 \in 0 .. Len(t) /\ k - 1 - z = m - 1
        BY <1>3, <3>1
      <4>2. CASE k - 1 <= z
        <5>1. m - 1 = 0
          BY <3>1, <4>2
        <5> QED BY <1>5, <1>6, <4>1, <4>2, <5>1
      <4>3. CASE ~ (k - 1 <= z)
        BY <1>6, <4>1, <4>3
      <4> QED BY <4>2, <4>3
    <3>5. g[m] = radix * g[m - 1] + DigitOf(s[m])
      BY <1>4, <3>2
    <3> QED BY <2>3, <3>3, <3>4, <3>5
  <2> QED BY <2>1, <2>2, <2>3
<1>8. Upto(h, t, radix)
  <2>1. h = [k \in 0 .. Len(t) |-> h[k]]
    BY <1>2
  <2> QED BY <1>7, <2>1 DEF Upto
<1>9. h[Len(t)] = v
  <2>1. Len(t) \in 0 .. Len(t) /\ (Len(t) <= z => Len(s) = 0)
    BY <1>3
  <2>2. CASE Len(t) <= z
    BY <1>1, <1>5, <1>6, <2>1, <2>2
  <2>3. CASE ~ (Len(t) <= z)
    <3>1. Len(t) - z = Len(s)
      BY <1>3
    <3> QED BY <1>1, <1>6, <2>1, <2>3, <3>1
  <2> QED BY <2>2, <2>3
<1> QED BY <1>8, <1>9 DEF Reads

\* The digits that itoa writes.
Digits == {lookup[k] : k \in 1 .. 16}

\* Each reads as its value, and only that of zero is a "0".
LEMMA DigitIs ==
    ASSUME NEW d \in 0 .. 15
    PROVE  /\ lookup[d + 1] \in Digits /\ DigitOf(lookup[d + 1]) = d
           /\ lookup[d + 1] = "0" => d = 0
<1>1. \A k \in 0 .. 15 : lookup[k + 1] = lookup[d + 1] => k = d
  BY SMTT(60) DEF lookup
<1>2. DigitOf(lookup[d + 1]) = d
  BY <1>1 DEF DigitOf
<1>3. lookup[d + 1] \in Digits
  <2>1. d + 1 \in 1 .. 16
    OBVIOUS
  <2> QED BY <2>1 DEF Digits
<1>4. lookup[d + 1] = "0" => d = 0
  BY SMTT(60) DEF lookup
<1> QED BY <1>2, <1>3, <1>4

\* The zero of the padding, and the sign.
LEMMA ZeroIs == "0" \in Digits /\ DigitOf("0") = 0 /\ "-" \notin Digits
<1>1. lookup[1] = "0" /\ 0 \in 0 .. 15 /\ 0 + 1 = 1
  BY DEF lookup
<1>2. "0" \in Digits /\ DigitOf("0") = 0
  BY <1>1, DigitIs
<1>3. \A k \in 1 .. 16 : lookup[k] # "-"
  BY DEF lookup
<1> QED BY <1>2, <1>3 DEF Digits

\* strrev turns a string around: its b-th step has put the last b characters in
\* front, and the first b behind.
Rev(s) == [k \in 1 .. Len(s) |-> s[Len(s) + 1 - k]]
Turned(s, b) ==
    [k \in 1 .. Len(s) |-> IF k <= b \/ Len(s) + 1 - k <= b THEN s[Len(s) + 1 - k] ELSE s[k]]
SwapStep(t, n, b) ==
    LET e == n - b + 1
    IN  IF b < e THEN [t EXCEPT ![b] = t[e], ![e] = t[b]] ELSE t
Swaps(g, s) ==
    g = [b \in 0 .. Len(s) |-> IF b = 0 THEN s ELSE SwapStep(g[b - 1], Len(s), b)]

\* One swap.
LEMMA SwapTurns ==
    ASSUME NEW C, NEW s \in Seq(C), NEW b \in 1 .. Len(s)
    PROVE  SwapStep(Turned(s, b - 1), Len(s), b) = Turned(s, b)
<1>1. PICK n \in Nat : n = Len(s)
  OBVIOUS
<1>2. PICK t : t = Turned(s, b - 1)
  OBVIOUS
<1>3. PICK e : e = n - b + 1
  OBVIOUS
<1>4. e \in 1 .. n /\ b \in 1 .. n
  BY <1>1, <1>3
<1>5. /\ t = [k \in 1 .. n |-> t[k]]
      /\ \A k \in 1 .. n : t[k] = IF k <= b - 1 \/ n + 1 - k <= b - 1
                                  THEN s[n + 1 - k] ELSE s[k]
  BY <1>1, <1>2 DEF Turned
<1>6. Turned(s, b) = [k \in 1 .. n |-> IF k <= b \/ n + 1 - k <= b
                                       THEN s[n + 1 - k] ELSE s[k]]
  BY <1>1 DEF Turned
<1>7. SwapStep(t, n, b) = IF b < e THEN [t EXCEPT ![b] = t[e], ![e] = t[b]] ELSE t
  BY <1>3 DEF SwapStep
<1>8. CASE b < e
  <2>1. t[b] = s[b] /\ t[e] = s[e] /\ n + 1 - b = e /\ n + 1 - e = b
    <3>1. n + 1 - b = e /\ n + 1 - e = b
      BY <1>3, <1>4
    <3>2. /\ ~ (b <= b - 1 \/ n + 1 - b <= b - 1)
          /\ ~ (e <= b - 1 \/ n + 1 - e <= b - 1)
      BY <1>4, <1>8, <3>1
    <3> QED BY <1>4, <1>5, <3>1, <3>2
  <2>2. PICK w : w = [t EXCEPT ![b] = t[e], ![e] = t[b]]
    OBVIOUS
  <2>3. /\ w = [k \in 1 .. n |-> w[k]]
        /\ \A k \in 1 .. n : w[k] = IF k = b THEN t[e] ELSE IF k = e THEN t[b] ELSE t[k]
    BY <1>4, <1>5, <1>8, <2>2
  <2>4. ASSUME NEW k \in 1 .. n
        PROVE  w[k] = IF k <= b \/ n + 1 - k <= b THEN s[n + 1 - k] ELSE s[k]
    <3>1. CASE k = b
      BY <2>1, <2>3, <3>1
    <3>2. CASE k = e
      BY <1>8, <2>1, <2>3, <3>2
    <3>3. CASE k # b /\ k # e
      <4>1. (k <= b \/ n + 1 - k <= b) <=> (k <= b - 1 \/ n + 1 - k <= b - 1)
        BY <1>3, <3>3
      <4>2. w[k] = t[k]
        BY <2>3, <3>3
      <4> QED BY <1>5, <4>1, <4>2
    <3> QED BY <3>1, <3>2, <3>3
  <2>5. w = Turned(s, b)
    BY <1>6, <2>3, <2>4
  <2> QED BY <1>1, <1>2, <1>7, <1>8, <2>2, <2>5
<1>9. CASE ~ (b < e)
  <2>1. ASSUME NEW k \in 1 .. n
        PROVE  t[k] = IF k <= b \/ n + 1 - k <= b THEN s[n + 1 - k] ELSE s[k]
    <3>1. CASE n + 1 - k = k
      BY <1>5, <3>1
    <3>2. CASE n + 1 - k # k
      <4>1. (k <= b \/ n + 1 - k <= b) <=> (k <= b - 1 \/ n + 1 - k <= b - 1)
        BY <1>3, <1>9, <3>2
      <4> QED BY <1>5, <4>1
    <3> QED BY <3>1, <3>2
  <2>2. t = Turned(s, b)
    BY <1>5, <1>6, <2>1
  <2> QED BY <1>1, <1>2, <1>7, <1>9, <2>2
<1> QED BY <1>8, <1>9

\* So all of them turn it around.
LEMMA StrrevIs ==
    ASSUME NEW C, NEW s \in Seq(C)
    PROVE  strrev(s) = Rev(s)
<1>1. PICK n \in Nat : n = Len(s)
  OBVIOUS
<1>2. PICK g : g = [b \in 0 .. n |-> Turned(s, b)]
  OBVIOUS
<1>3. Turned(s, 0) = s
  <2>1. s = [k \in 1 .. n |-> s[k]]
    BY <1>1
  <2>2. \A k \in 1 .. n : ~ (k <= 0 \/ n + 1 - k <= 0)
    BY <1>1
  <2> QED BY <1>1, <2>1, <2>2 DEF Turned
<1>4. Swaps(g, s)
  <2>1. ASSUME NEW b \in 0 .. n
        PROVE  g[b] = IF b = 0 THEN s ELSE SwapStep(g[b - 1], n, b)
    <3>1. CASE b = 0
      BY <1>2, <1>3, <3>1
    <3>2. CASE b # 0
      <4>1. b \in 1 .. Len(s) /\ b - 1 \in 0 .. n
        BY <1>1, <3>2
      <4>2. SwapStep(Turned(s, b - 1), n, b) = Turned(s, b)
        BY <1>1, <4>1, SwapTurns
      <4>3. g[b] = Turned(s, b) /\ g[b - 1] = Turned(s, b - 1)
        BY <1>2, <4>1
      <4> QED BY <3>2, <4>2, <4>3
    <3> QED BY <3>1, <3>2
  <2>2. g = [b \in 0 .. n |-> g[b]]
    BY <1>2
  <2> QED BY <1>1, <2>1, <2>2 DEF Swaps
<1>5. PICK h : h = CHOOSE f : Swaps(f, s)
  OBVIOUS
<1>6. Swaps(h, s)
  BY <1>4, <1>5
<1>7. strrev(s) = h[n]
  BY <1>1, <1>5 DEF strrev, Swaps, SwapStep
<1>8. \A b \in 0 .. n : h[b] = IF b = 0 THEN s ELSE SwapStep(h[b - 1], n, b)
  BY <1>1, <1>6 DEF Swaps
<1>9. \A b \in 0 .. n : g[b] = IF b = 0 THEN s ELSE SwapStep(g[b - 1], n, b)
  BY <1>1, <1>4 DEF Swaps
<1>10. g[n] = Rev(s)
  <2>1. \A k \in 1 .. n : k <= n
    OBVIOUS
  <2>2. g[n] = Turned(s, n)
    BY <1>2
  <2> QED BY <1>1, <2>1, <2>2 DEF Turned, Rev
<1> DEFINE S == {b \in Nat : b <= n => h[b] = g[b]}
<1>11. ASSUME NEW b \in Nat, \A m \in 0 .. b - 1 : m \in S PROVE b \in S
  <2> SUFFICES ASSUME b <= n PROVE h[b] = g[b]
    OBVIOUS
  <2>1. b > 0 => b - 1 \in S /\ b - 1 <= n
    BY <1>11
  <2>2. b > 0 => h[b - 1] = g[b - 1]
    BY <2>1
  <2> QED BY <1>8, <1>9, <2>2
<1>12. n \in S => h[n] = g[n]
  OBVIOUS
<1> HIDE DEF S
<1>13. n \in S
  BY <1>11, LeastFirst
<1> QED BY <1>7, <1>10, <1>12, <1>13

\* The places of the digits, the lowest first.
Places(g, value, radix) ==
    g = [n \in 0 .. value |-> IF n = 0 THEN << >>
                              ELSE << lookup[(n % radix) + 1] >> \o g[n \div radix]]

\* What division leaves of a number.
LEMMA DivMod ==
    ASSUME NEW n \in Nat, NEW radix \in {10, 16}
    PROVE  \E q \in Nat, d \in 0 .. 15 :
               /\ q = n \div radix /\ d = n % radix
               /\ n = radix * q + d /\ (n > 0 => q < n)
<1>1. CASE radix = 10
  <2>1. PICK q \in Nat : q = n \div 10
    OBVIOUS
  <2>2. PICK d \in 0 .. 9 : d = n % 10
    OBVIOUS
  <2>3. n = 10 * q + d
    BY <2>1, <2>2
  <2>4. n > 0 => q < n
    BY <2>3
  <2>5. q = n \div radix /\ d = n % radix
    BY <1>1, <2>1, <2>2, Zenon
  <2>6. d \in 0 .. 15 /\ n = radix * q + d
    BY <1>1, <2>3
  <2> QED BY <2>4, <2>5, <2>6
<1>2. CASE radix = 16
  <2>1. PICK q \in Nat : q = n \div 16
    OBVIOUS
  <2>2. PICK d \in 0 .. 15 : d = n % 16
    OBVIOUS
  <2>3. n = 16 * q + d
    BY <2>1, <2>2
  <2>4. n > 0 => q < n
    BY <2>3
  <2>5. q = n \div radix /\ d = n % radix
    BY <1>2, <2>1, <2>2, Zenon
  <2>6. d \in 0 .. 15 /\ n = radix * q + d
    BY <1>2, <2>3
  <2> QED BY <2>4, <2>5, <2>6
<1> QED BY <1>1, <1>2

\* The function of the places exists.
LEMMA PlacesExist ==
    ASSUME NEW value \in Nat, NEW radix \in {10, 16}
    PROVE  \E g : Places(g, value, radix)
<1>1. PICK jump : jump = [n \in 1 .. value |-> n \div radix]
  OBVIOUS
<1>2. PICK step : step = [n \in 1 .. value |->
                           [v \in Seq(Digits) |-> << lookup[(n % radix) + 1] >> \o v]]
  OBVIOUS
<1>3. ASSUME NEW n \in 1 .. value
      PROVE  /\ n \div radix \in 0 .. value /\ n \div radix < n
             /\ lookup[(n % radix) + 1] \in Digits
  <2>1. PICK q \in Nat, d \in 0 .. 15 :
            q = n \div radix /\ d = n % radix /\ (n > 0 => q < n)
    BY DivMod
  <2> QED BY <2>1, DigitIs
<1>4. jump \in [1 .. value -> Nat] /\ \A n \in 1 .. value : jump[n] < n
  BY <1>1, <1>3
<1>5. step \in [1 .. value -> [Seq(Digits) -> Seq(Digits)]]
  <2>1. ASSUME NEW n \in 1 .. value, NEW v \in Seq(Digits)
        PROVE  << lookup[(n % radix) + 1] >> \o v \in Seq(Digits)
    <3>1. PICK c \in Digits : c = lookup[(n % radix) + 1]
      BY <1>3
    <3>2. << c >> \in Seq(Digits)
      OBVIOUS
    <3>3. << c >> \o v \in Seq(Digits)
      BY <3>2
    <3> QED BY <3>1, <3>3
  <2> QED BY <1>2, <2>1
<1>6. << >> \in Seq(Digits)
  OBVIOUS
<1>7. \E g \in [0 .. value -> Seq(Digits)] : Stepwise(g, << >>, value, jump, step)
  BY <1>4, <1>5, <1>6, Recursion
<1>8. PICK g \in [0 .. value -> Seq(Digits)] : Stepwise(g, << >>, value, jump, step)
  BY <1>7
<1>9. g[0] = << >> /\ \A n \in 1 .. value : g[n] = step[n][g[jump[n]]]
  BY <1>8, Zenon DEF Stepwise
<1>10. ASSUME NEW n \in 1 .. value
       PROVE  g[n] = << lookup[(n % radix) + 1] >> \o g[n \div radix]
  <2>1. jump[n] = n \div radix /\ g[n \div radix] \in Seq(Digits)
    BY <1>1, <1>3
  <2>2. g[n] = step[n][g[n \div radix]]
    BY <1>9, <2>1
  <2> QED BY <1>2, <2>1, <2>2
<1>11. Places(g, value, radix)
  <2>1. ASSUME NEW n \in 0 .. value
        PROVE  g[n] = IF n = 0 THEN << >>
                      ELSE << lookup[(n % radix) + 1] >> \o g[n \div radix]
    <3>1. n # 0 => n \in 1 .. value
      OBVIOUS
    <3> QED BY <1>9, <1>10, <3>1
  <2>2. g = [n \in 0 .. value |-> g[n]]
    OBVIOUS
  <2> QED BY <2>1, <2>2 DEF Places
<1> QED BY <1>11

\* Turned around, a digit in front is a digit behind.
LEMMA RevPut ==
    ASSUME NEW C, NEW s \in Seq(C), NEW c \in C
    PROVE  Rev(<< c >> \o s) = Append(Rev(s), c) /\ Rev(s) \in Seq(C)
<1>1. PICK n \in Nat : n = Len(s)
  OBVIOUS
<1>2. << c >> \in Seq(C)
  OBVIOUS
<1>3. << c >> \o s \in Seq(C)
  BY <1>2
<1>4. PICK t \in Seq(C) : t = << c >> \o s
  BY <1>3
<1>5. Len(t) = n + 1 /\ t[1] = c /\ \A k \in 1 .. n : t[k + 1] = s[k]
  BY <1>1, <1>4
<1>6. PICK r : r = Rev(s)
  OBVIOUS
<1>7. r = [k \in 1 .. n |-> s[n + 1 - k]]
  BY <1>1, <1>6 DEF Rev
<1>8. \A k \in 1 .. n : s[n + 1 - k] \in C
  <2>1. \A k \in 1 .. n : n + 1 - k \in 1 .. Len(s)
    BY <1>1
  <2> QED BY <2>1
<1>9. r \in Seq(C) /\ Len(r) = n /\ \A k \in 1 .. n : r[k] = s[n + 1 - k]
  BY <1>1, <1>7, <1>8
<1>10. Append(r, c) \in Seq(C)
  BY <1>9
<1>11. PICK a \in Seq(C) : a = Append(r, c)
  BY <1>10
<1>12. Len(a) = n + 1 /\ a[n + 1] = c /\ \A k \in 1 .. n : a[k] = s[n + 1 - k]
  BY <1>9, <1>11
<1>13. PICK b : b = Rev(t)
  OBVIOUS
<1>14. b = [k \in 1 .. n + 1 |-> t[n + 2 - k]]
  BY <1>5, <1>13 DEF Rev
<1>15. \A k \in 1 .. n + 1 : t[n + 2 - k] \in C
  <2>1. \A k \in 1 .. n + 1 : n + 2 - k \in 1 .. Len(t)
    BY <1>5
  <2> QED BY <2>1
<1>16. b \in Seq(C) /\ Len(b) = n + 1 /\ \A k \in 1 .. n + 1 : b[k] = t[n + 2 - k]
  BY <1>14, <1>15
<1>17. ASSUME NEW k \in 1 .. n + 1 PROVE a[k] = b[k]
  <2>1. CASE k = n + 1
    <3>1. n + 2 - k = 1
      BY <2>1
    <3> QED BY <1>5, <1>12, <1>16, <2>1, <3>1
  <2>2. CASE k # n + 1
    <3>1. k \in 1 .. n /\ n + 1 - k \in 1 .. n /\ n + 2 - k = (n + 1 - k) + 1
      BY <2>2
    <3>2. t[n + 2 - k] = s[n + 1 - k]
      BY <1>5, <3>1
    <3> QED BY <1>12, <1>16, <3>1, <3>2
  <2> QED BY <2>1, <2>2
<1>18. a = b
  BY <1>12, <1>16, <1>17, SeqEqual
<1> QED BY <1>4, <1>6, <1>9, <1>11, <1>13, <1>18

\* What itoa leaves for a number: its digits, the highest not a zero.
Writes(t, radix, n) ==
    /\ t \in Seq(Digits) /\ Reads(Rev(t), radix, n)
    /\ IF n = 0 THEN t = << >> ELSE Len(t) > 0 /\ t[Len(t)] # "0"

\* An empty string reads as zero.
LEMMA WritesZero == ASSUME NEW radix PROVE Writes(<< >>, radix, 0)
<1>1. PICK g : g = [k \in 0 .. 0 |-> 0]
  OBVIOUS
<1>2. Rev(<< >>) = << >>
  BY DEF Rev
<1>3. g[0] = 0 /\ Len(<< >>) = 0
  BY <1>1
<1>4. \A k \in 0 .. 0 : k = 0
  OBVIOUS
<1>5. Upto(g, << >>, radix)
  BY <1>1, <1>3, <1>4 DEF Upto
<1>6. Reads(<< >>, radix, 0)
  BY <1>3, <1>5 DEF Reads
<1> QED BY <1>2, <1>6 DEF Writes

\* One digit more, below the others.
LEMMA WritesMore ==
    ASSUME NEW radix \in {10, 16}, NEW n \in Nat, n > 0,
           NEW t, Writes(t, radix, n \div radix)
    PROVE  Writes(<< lookup[(n % radix) + 1] >> \o t, radix, n)
<1>1. PICK q \in Nat, d \in 0 .. 15 :
          q = n \div radix /\ d = n % radix /\ n = radix * q + d
  BY DivMod
<1>3. n = radix * q + d
  BY <1>1
<1>4. PICK c \in Digits : c = lookup[d + 1]
  BY DigitIs
<1>5. DigitOf(c) = d /\ (c = "0" => d = 0)
  BY <1>4, DigitIs
<1>6. /\ t \in Seq(Digits) /\ Reads(Rev(t), radix, q) 
      /\ IF q = 0 THEN t = << >> ELSE Len(t) > 0 /\ t[Len(t)] # "0"
  BY <1>1 DEF Writes
<1>7. Rev(<< c >> \o t) = Append(Rev(t), c) /\ Rev(t) \in Seq(Digits)
  BY <1>6, RevPut
<1>8. Reads(Append(Rev(t), c), radix, radix * q + DigitOf(c))
  BY <1>6, <1>7, ReadsAppend
<1>9. Reads(Rev(<< c >> \o t), radix, n)
  BY <1>3, <1>5, <1>7, <1>8
<1>10. << c >> \in Seq(Digits)
  OBVIOUS
<1>11. << c >> \o t \in Seq(Digits)
  BY <1>6, <1>10
<1>12. PICK w \in Seq(Digits) : w = << c >> \o t
  BY <1>11
<1>13. /\ Len(w) = Len(t) + 1 /\ w[1] = c /\ Len(t) \in Nat
       /\ \A k \in 1 .. Len(t) : w[k + 1] = t[k]
  BY <1>6, <1>12
<1>14. w[Len(w)] # "0"
  <2>1. CASE q > 0
    <3>1. Len(t) \in 1 .. Len(t) /\ t[Len(t)] # "0"
      BY <1>6, <1>13, <2>1
    <3> QED BY <1>13, <3>1
  <2>2. CASE q = 0
    <3>1. d # 0
      BY <1>3, <2>2
    <3>2. c # "0"
      BY <1>5, <3>1
    <3>3. Len(t) = 0
      BY <1>6, <2>2
    <3> QED BY <1>13, <3>2, <3>3
  <2> QED BY <2>1, <2>2
<1>15. n # 0 /\ Len(w) > 0
  BY <1>13
<1>16. Writes(w, radix, n)
  BY <1>9, <1>12, <1>14, <1>15, ZenonT(30) DEF Writes
<1> QED BY <1>1, <1>4, <1>12, <1>16, ZenonT(30)

\* The places of zero and of the other numbers.
LEMMA PlacesAre ==
    ASSUME NEW value \in Nat, NEW radix \in {10, 16}, NEW g, Places(g, value, radix)
    PROVE  /\ g[0] = << >>
           /\ \A n \in 1 .. value : g[n] = << lookup[(n % radix) + 1] >> \o g[n \div radix]
<1>1. 0 \in 0 .. value
  OBVIOUS
<1>2. g[0] = << >>
  BY <1>1, Zenon DEF Places
<1>3. ASSUME NEW n \in 1 .. value
      PROVE  g[n] = << lookup[(n % radix) + 1] >> \o g[n \div radix]
  <2>1. n \in 0 .. value /\ n # 0
    OBVIOUS
  <2> QED BY <2>1, Zenon DEF Places
<1> QED BY <1>2, <1>3

\* The places of every number up to value write it.
LEMMA PlacesWrite ==
    ASSUME NEW value \in Nat, NEW radix \in {10, 16}, NEW g, Places(g, value, radix)
    PROVE  \A n \in 0 .. value : Writes(g[n], radix, n)
<1>1. /\ g[0] = << >>
      /\ \A n \in 1 .. value : g[n] = << lookup[(n % radix) + 1] >> \o g[n \div radix]
  BY PlacesAre, ZenonT(30)
<1> DEFINE S == {n \in Nat : n <= value => Writes(g[n], radix, n)}
<1>2. ASSUME NEW n \in Nat, \A m \in 0 .. n - 1 : m \in S PROVE n \in S
  <2> SUFFICES ASSUME n <= value PROVE Writes(g[n], radix, n)
    OBVIOUS
  <2>1. CASE n = 0
    BY <1>1, <2>1, WritesZero, Zenon
  <2>2. CASE n > 0
    <3>1. PICK q \in Nat : q = n \div radix /\ q < n
      BY <2>2, DivMod
    <3>2. q \in S /\ q <= value
      BY <1>2, <3>1
    <3>3. Writes(g[q], radix, q)
      BY <3>2
    <3>4. Writes(g[q], radix, n \div radix)
      BY <3>1, <3>3, Zenon
    <3>5. Writes(<< lookup[(n % radix) + 1] >> \o g[q], radix, n)
      BY <2>2, <3>4, WritesMore
    <3>6. n \in 1 .. value
      BY <2>2
    <3>7. g[n] = << lookup[(n % radix) + 1] >> \o g[n \div radix]
      BY <1>1, <3>6, Zenon
    <3>8. g[n] = << lookup[(n % radix) + 1] >> \o g[q]
      BY <3>1, <3>7, Zenon
    <3> QED BY <3>5, <3>8
  <2> QED BY <2>1, <2>2
<1>3. (\A n \in Nat : n \in S) => \A n \in 0 .. value : Writes(g[n], radix, n)
  OBVIOUS
<1> HIDE DEF S
<1>4. \A n \in Nat : n \in S
  BY <1>2, LeastFirst
<1> QED BY <1>3, <1>4

\* In hexadecimal a number that fits m digits has no more than m places.
LEMMA PlacesFit ==
    ASSUME NEW value \in Nat, NEW g, Places(g, value, 16),
           NEW f \in [0 .. HexDigits -> Nat], f[0] = 1,
           \A m \in 1 .. HexDigits : f[m] = 16 * f[m - 1]
    PROVE  \A n \in 0 .. value, m \in 0 .. HexDigits : n < f[m] => Len(g[n]) <= m
<1>1. /\ g[0] = << >>
      /\ \A n \in 1 .. value : g[n] = << lookup[(n % 16) + 1] >> \o g[n \div 16]
  BY PlacesAre
<1>2. HexDigits \in Nat
  BY LibAssumption
<1>3. \A n \in 0 .. value : g[n] \in Seq(Digits)
  BY PlacesWrite DEF Writes
<1> DEFINE S == {n \in Nat : n <= value =>
                     \A m \in 0 .. HexDigits : n < f[m] => Len(g[n]) <= m}
<1>4. ASSUME NEW n \in Nat, \A k \in 0 .. n - 1 : k \in S PROVE n \in S
  <2> SUFFICES ASSUME n <= value, NEW m \in 0 .. HexDigits, n < f[m]
               PROVE  Len(g[n]) <= m
    OBVIOUS
  <2>1. CASE n = 0
    <3>1. g[n] = << >>
      BY <1>1, <2>1, Zenon
    <3> QED BY <1>2, <3>1
  <2>2. CASE n > 0
    <3>1. PICK q \in Nat, d \in 0 .. 15 : q = n \div 16 /\ q < n /\ n = 16 * q + d
      BY <2>2, DivMod
    <3>2. m \in 1 .. HexDigits
      BY <1>2, <2>2
    <3>3. m - 1 \in 0 .. HexDigits /\ f[m - 1] \in Nat /\ f[m] = 16 * f[m - 1]
      BY <1>2, <3>2
    <3>4. q < f[m - 1]
      <4>1. PICK x \in Nat : x = f[m - 1]
        BY <3>3
      <4>2. n < 16 * x
        BY <3>3, <4>1
      <4>3. q < x
        BY <3>1, <4>2
      <4> QED BY <4>1, <4>3
    <3>5. q \in S /\ q <= value /\ q \in 0 .. value
      BY <1>4, <3>1
    <3>6. Len(g[q]) <= m - 1
      BY <3>3, <3>4, <3>5
    <3>7. n \in 1 .. value
      BY <2>2
    <3>8. g[n] = << lookup[(n % 16) + 1] >> \o g[n \div 16]
      BY <1>1, <3>7, Zenon
    <3>9. g[n] = << lookup[(n % 16) + 1] >> \o g[q]
      BY <3>1, <3>8, Zenon
    <3>10. g[q] \in Seq(Digits)
      BY <1>3, <3>5
    <3>11. PICK c : c = lookup[(n % 16) + 1]
      OBVIOUS
    <3>12. Len(<< c >> \o g[q]) = 1 + Len(g[q]) /\ Len(g[q]) \in Nat
      BY <3>10
    <3> QED BY <1>2, <3>6, <3>9, <3>11, <3>12
  <2> QED BY <2>1, <2>2
<1>5. (\A n \in Nat : n \in S) =>
          \A n \in 0 .. value, m \in 0 .. HexDigits : n < f[m] => Len(g[n]) <= m
  OBVIOUS
<1> HIDE DEF S
<1>6. \A n \in Nat : n \in S
  BY <1>4, LeastFirst
<1> QED BY <1>5, <1>6

\* The digits of a number, without a leading zero.
Shows(t, radix, n) ==
    /\ t \in Seq(Digits) /\ Len(t) > 0 /\ Reads(t, radix, n)
    /\ t[1] = "0" => Len(t) = 1

\* itoa returns them, and in hexadecimal no more of them than a word has.
LEMMA ItoaShows ==
    ASSUME NEW value \in Nat, NEW radix \in {10, 16}
    PROVE  /\ Shows(itoa(value, radix), radix, value)
           /\ radix = 16 /\ value < WordSpan => Len(itoa(value, radix)) <= HexDigits
<1>1. PICK g : g = CHOOSE f : Places(f, value, radix)
  OBVIOUS
<1>2. Places(g, value, radix)
  BY <1>1, PlacesExist
<1>3. itoa(value, radix) = IF value = 0 THEN << "0" >> ELSE strrev(g[value])
  BY <1>1 DEF itoa, Places
<1>4. CASE value = 0
  <2>1. PICK t : t = << "0" >>
    OBVIOUS
  <2>2. t \in Seq(Digits) /\ Len(t) = 1 /\ t[1] = "0"
    BY <2>1, ZeroIs
  <2>3. PICK e : e = << >>
    OBVIOUS
  <2>4. Reads(e, radix, 0) /\ e \in Seq(Digits) /\ Len(e) = 0
    <3>1. Reads(Rev(<< >>), radix, 0)
      BY WritesZero DEF Writes
    <3>2. Rev(<< >>) = << >>
      BY DEF Rev
    <3> QED BY <2>3, <3>1, <3>2
  <2>5. \A k \in 1 .. 1 : DigitOf(t[k]) = 0
    BY <2>2, ZeroIs
  <2>6. \A k \in 1 .. Len(e) : t[1 + k] = e[k]
    BY <2>4
  <2>7. radix \in Nat /\ 1 \in Nat /\ Len(t) = 1 + Len(e)
    BY <2>2, <2>4
  <2>8. Reads(t, radix, 0)
    BY <2>2, <2>4, <2>5, <2>6, <2>7, ReadsZeros
  <2>9. Shows(t, radix, 0)
    BY <2>2, <2>8 DEF Shows
  <2>10. Len(t) <= HexDigits
    BY <2>2, LibAssumption
  <2> QED BY <1>3, <1>4, <2>1, <2>9, <2>10
<1>5. CASE value # 0
  <2>1. PICK p : p = g[value]
    OBVIOUS
  <2>2. Writes(p, radix, value)
    BY <1>2, <2>1, PlacesWrite
  <2>3. p \in Seq(Digits) /\ Reads(Rev(p), radix, value) /\ Len(p) > 0 /\ p[Len(p)] # "0"
    BY <1>5, <2>2 DEF Writes
  <2>4. PICK t : t = Rev(p)
    OBVIOUS
  <2>5. itoa(value, radix) = t
    BY <1>3, <1>5, <2>1, <2>3, <2>4, StrrevIs
  <2>6. t \in Seq(Digits)
    BY <2>3, <2>4, ZeroIs, RevPut
  <2>7. Len(t) = Len(p) /\ t[1] = p[Len(p)]
    <3>1. Len(p) \in Nat /\ 1 \in 1 .. Len(p) /\ Len(p) + 1 - 1 = Len(p)
      BY <2>3
    <3>2. t = [k \in 1 .. Len(p) |-> p[Len(p) + 1 - k]]
      BY <2>4 DEF Rev
    <3> QED BY <2>6, <3>1, <3>2
  <2>8. Shows(t, radix, value)
    BY <2>3, <2>4, <2>6, <2>7 DEF Shows
  <2>9. ASSUME radix = 16, value < WordSpan PROVE Len(t) <= HexDigits
    <3>1. PICK f \in [0 .. HexDigits -> Nat] :
              /\ f[0] = 1 /\ \A n \in 1 .. HexDigits : f[n] = 16 * f[n - 1]
              /\ WordSpan = f[HexDigits]
      BY SpanIs
    <3>2. Places(g, value, 16)
      BY <1>2, <2>9
    <3>3. \A n \in 0 .. value, m \in 0 .. HexDigits : n < f[m] => Len(g[n]) <= m
      BY <3>1, <3>2, PlacesFit
    <3>4. HexDigits \in 0 .. HexDigits /\ value \in 0 .. value
      BY LibAssumption
    <3>5. Len(p) <= HexDigits
      BY <2>1, <2>9, <3>1, <3>3, <3>4
    <3> QED BY <2>7, <3>5
  <2> QED BY <2>5, <2>8, <2>9
<1> QED BY <1>4, <1>5

\* What ReadsBack says of a conversion, a word and the characters written.
Back(conv, w, r) ==
    LET minus  == r[1] = "-"
        digits == IF minus THEN Tail(r) ELSE r
        value  == IF conv = "d" /\ w >= WordSpan \div 2 THEN w - WordSpan ELSE w
        shown  == Number(digits, IF conv \in {"x", "#x"} THEN 16 ELSE 10)
    IN  /\ value = IF minus THEN -shown ELSE shown
        /\ IF conv = "#x" THEN Len(r) = HexDigits
           ELSE digits[1] = "0" => Len(digits) = 1

\* Digits alone, of a word that is not negative.
LEMMA BackPlain ==
    ASSUME NEW conv \in {"x", "u", "d"}, NEW w \in Nat,
           conv = "d" => ~ (w >= WordSpan \div 2),
           NEW radix, radix = (IF conv = "x" THEN 16 ELSE 10),
           NEW r, Shows(r, radix, w)
    PROVE  Back(conv, w, r)
<1>1. r \in Seq(Digits) /\ Len(r) > 0 /\ Reads(r, radix, w) /\ (r[1] = "0" => Len(r) = 1)
  BY DEF Shows
<1>2. r[1] # "-"
  <2>1. r[1] \in Digits
    BY <1>1
  <2> QED BY <2>1, ZeroIs
<1>3. Number(r, radix) = w
  BY <1>1, NumberIs
<1>4. conv # "#x" /\ radix = IF conv \in {"x", "#x"} THEN 16 ELSE 10
  OBVIOUS
<1> QED BY <1>1, <1>2, <1>3, <1>4 DEF Back

\* The digits of a word behind zeros.
LEMMA BackPadded ==
    ASSUME NEW w \in Nat, NEW s, Shows(s, 16, w), Len(s) <= HexDigits
    PROVE  Back("#x", w, padded(s))
<1>1. s \in Seq(Digits) /\ Reads(s, 16, w) /\ Len(s) \in Nat /\ Len(s) > 0
  BY DEF Shows
<1>2. PICK z \in Nat : z = HexDigits - Len(s)
  <2>1. HexDigits - Len(s) \in Nat
    BY <1>1, LibAssumption
  <2> QED BY <2>1
<1>3. PICK o : o = [k \in 1 .. z |-> "0"]
  OBVIOUS
<1>4. o \in Seq(Digits) /\ Len(o) = z /\ \A k \in 1 .. z : o[k] = "0"
  BY <1>3, ZeroIs
<1>5. o \o s \in Seq(Digits)
  BY <1>1, <1>4
<1>6. PICK t \in Seq(Digits) : t = o \o s
  BY <1>5
<1>7. padded(s) = t
  BY <1>2, <1>3, <1>6 DEF padded
<1>8. /\ Len(t) = z + Len(s)
      /\ \A k \in 1 .. z : t[k] = o[k]
      /\ \A k \in 1 .. Len(s) : t[z + k] = s[k]
  <2>1. PICK m \in Nat : m = Len(s)
    BY <1>1
  <2>2. Len(o \o s) = z + m
    BY <1>1, <1>4, <2>1
  <2>3. ASSUME NEW k \in 1 .. z PROVE (o \o s)[k] = o[k]
    <3>1. k \in 1 .. Len(o) + Len(s) /\ k <= Len(o)
      BY <1>1, <1>4
    <3> QED BY <1>1, <1>4, <3>1
  <2>4. ASSUME NEW k \in 1 .. m PROVE (o \o s)[z + k] = s[k]
    <3>1. z + k \in 1 .. Len(o) + Len(s) /\ z + k > Len(o) /\ z + k - Len(o) = k
      BY <1>1, <1>4, <2>1
    <3> QED BY <1>1, <1>4, <3>1
  <2> QED BY <1>6, <2>1, <2>2, <2>3, <2>4
<1>9. \A k \in 1 .. z : DigitOf(t[k]) = 0
  BY <1>4, <1>8, ZeroIs
<1>10. Reads(t, 16, w)
  <2>1. 16 \in Nat
    OBVIOUS
  <2> QED BY <1>1, <1>8, <1>9, <2>1, ReadsZeros
<1>11. Number(t, 16) = w
  BY <1>10, NumberIs
<1>12. Len(t) = HexDigits
  BY <1>1, <1>2, <1>8, LibAssumption
<1>13. t[1] # "-"
  <2>1. 1 \in 1 .. Len(t)
    BY <1>1, <1>8
  <2>2. t[1] \in Digits
    BY <2>1
  <2> QED BY <2>2, ZeroIs
<1> QED BY <1>7, <1>11, <1>12, <1>13 DEF Back

\* The negation of a negative word is a number of a word, also for the smallest.
LEMMA Negated ==
    ASSUME NEW w \in 0 .. WordSpan - 1, w >= WordSpan \div 2
    PROVE  /\ WordSpan - w \in Nat /\ WordSpan \in Nat /\ w \in Nat
           /\ (WordSpan - w) % WordSpan = WordSpan - w
<1>1. PICK f \in [0 .. HexDigits -> Nat] :
          /\ f[0] = 1 /\ \A n \in 1 .. HexDigits : f[n] = 16 * f[n - 1]
          /\ WordSpan = f[HexDigits]
  BY SpanIs
<1>2. HexDigits \in Nat /\ HexDigits \in 1 .. HexDigits
  BY LibAssumption
<1>3. PICK x \in Nat : x = f[HexDigits - 1]
  BY <1>2
<1>4. WordSpan = 16 * x
  BY <1>1, <1>2, <1>3
<1>5. WordSpan \in Nat /\ x > 0
  BY <1>4
<1>6. WordSpan \div 2 = 8 * x
  BY <1>4
<1>7. w > 0 /\ w < WordSpan
  BY <1>5, <1>6
<1>8. PICK a \in Nat, b \in Nat : a = WordSpan /\ b = WordSpan - w /\ b < a
  BY <1>5, <1>7
<1>9. b % a = b
  BY <1>8
<1> QED BY <1>5, <1>8, <1>9

\* The sign and the digits of a negative word.
LEMMA BackNegative ==
    ASSUME NEW w \in 0 .. WordSpan - 1, w >= WordSpan \div 2,
           NEW s, Shows(s, 10, WordSpan - w)
    PROVE  Back("d", w, << "-" >> \o s)
<1>1. s \in Seq(Digits) /\ Reads(s, 10, WordSpan - w) /\ (s[1] = "0" => Len(s) = 1)
  BY DEF Shows
<1>2. PICK C : C = Digits \cup {"-"}
  OBVIOUS
<1>3. s \in Seq(C) /\ << "-" >> \in Seq(C)
  BY <1>1, <1>2
<1>4. PICK r : r = << "-" >> \o s
  OBVIOUS
<1>5. r[1] = "-" /\ Tail(r) = s
  <2>1. r \in Seq(C) /\ Len(r) = Len(s) + 1 /\ r[1] = "-" /\ Len(s) \in Nat
    BY <1>3, <1>4
  <2>2. \A k \in 1 .. Len(s) : r[k + 1] = s[k]
    BY <1>3, <1>4
  <2>3. /\ Tail(r) \in Seq(C) /\ Len(Tail(r)) = Len(s)
        /\ \A k \in 1 .. Len(s) : Tail(r)[k] = r[k + 1]
    BY <2>1
  <2>4. Tail(r) = s
    BY <1>3, <2>2, <2>3, SeqEqual
  <2> QED BY <2>1, <2>4
<1>6. Number(s, 10) = WordSpan - w
  BY <1>1, NumberIs
<1>7. WordSpan \in Nat /\ w \in Nat
  BY Negated
<1>8. w - WordSpan = -(WordSpan - w)
  BY <1>7
<1>9. "d" # "#x" /\ "d" \notin {"x", "#x"}
  OBVIOUS
<1> QED BY <1>1, <1>4, <1>5, <1>6, <1>8, <1>9 DEF Back

\* What Convert returns.
Converted(conv, w) ==
    CASE conv = "x"  -> itoa(w, 16)
      [] conv = "#x" -> padded(itoa(w, 16))
      [] conv = "u"  -> itoa(w, 10)
      [] conv = "d"  -> signed(w)

\* It reads back.
LEMMA ConvertsBack ==
    ASSUME NEW conv \in {"x", "#x", "u", "d"}, NEW w \in 0 .. WordSpan - 1
    PROVE  Back(conv, w, Converted(conv, w))
<1>1. WordSpan \in Nat
  <2>1. HexDigits \in 0 .. HexDigits
    BY LibAssumption
  <2> QED BY <2>1, SpanIs
<1>2. w \in Nat /\ w < WordSpan
  BY <1>1
<1>3. CASE conv = "x"
  <2>1. Shows(itoa(w, 16), 16, w)
    BY <1>2, ItoaShows
  <2>2. Converted(conv, w) = itoa(w, 16)
    BY <1>3 DEF Converted
  <2> QED BY <1>2, <1>3, <2>1, <2>2, BackPlain
<1>4. CASE conv = "#x"
  <2>1. Shows(itoa(w, 16), 16, w) /\ Len(itoa(w, 16)) <= HexDigits
    BY <1>2, ItoaShows
  <2>2. Converted(conv, w) = padded(itoa(w, 16))
    BY <1>4 DEF Converted
  <2> QED BY <1>2, <1>4, <2>1, <2>2, BackPadded
<1>5. CASE conv = "u"
  <2>1. Shows(itoa(w, 10), 10, w)
    BY <1>2, ItoaShows
  <2>2. Converted(conv, w) = itoa(w, 10)
    BY <1>5 DEF Converted
  <2> QED BY <1>2, <1>5, <2>1, <2>2, BackPlain
<1>6. CASE conv = "d" /\ ~ (w >= WordSpan \div 2)
  <2>1. Shows(itoa(w, 10), 10, w)
    BY <1>2, ItoaShows
  <2>2. Converted(conv, w) = itoa(w, 10)
    BY <1>6, Zenon DEF Converted, signed
  <2> QED BY <1>2, <1>6, <2>1, <2>2, BackPlain
<1>7. CASE conv = "d" /\ w >= WordSpan \div 2
  <2>1. PICK v \in Nat : v = WordSpan - w /\ (WordSpan - w) % WordSpan = v
    BY <1>7, Negated
  <2>2. Shows(itoa(v, 10), 10, v)
    BY ItoaShows
  <2>3. Converted(conv, w) = << "-" >> \o itoa((WordSpan - w) % WordSpan, 10)
    BY <1>7, Zenon DEF Converted, signed
  <2>4. Converted(conv, w) = << "-" >> \o itoa(v, 10)
    BY <2>1, <2>3, Zenon
  <2>5. Shows(itoa(v, 10), 10, WordSpan - w)
    BY <2>1, <2>2, Zenon
  <2> QED BY <1>7, <2>4, <2>5, BackNegative
<1> QED BY <1>3, <1>4, <1>5, <1>6, <1>7

\* A printf has not been answered, or with the conversion of its word.
Printing == call.fn = "printf"
PrintInv ==
    /\ at \in {"call", "done"}
    /\ at = "done" => res = Converted(call.conv, call.word)

\* Its one step.
LEMMA PrintStep ==
    ASSUME CallInv, Printing => PrintInv, [Next]_vars
    PROVE  (Printing => PrintInv)'
<1>1. call' = call
  BY CallStep
<1>2. SUFFICES ASSUME Printing, PrintInv PROVE PrintInv'
  BY <1>1 DEF Printing
<1>3. at \in {"call", "done"}
  BY <1>2 DEF PrintInv
<1>4. ASSUME UNCHANGED << at, res >> PROVE PrintInv'
  BY <1>1, <1>2, <1>4 DEF PrintInv
<1>5. CASE LibNext
  <2>1. Convert
    BY <1>2, <1>3, <1>5 DEF LibNext, CopyStart, CopyTop, CopyWords, CopyBottom,
       MoveStart, MoveByte, Copying, Printing
  <2>2. at' = "done" /\ res' = Converted(call.conv, call.word)
    <3>1. CASE call.conv = "x" /\ Returned(itoa(call.word, 16))
      BY <3>1 DEF Returned, Converted
    <3>2. CASE call.conv = "#x" /\ Returned(padded(itoa(call.word, 16)))
      BY <3>2 DEF Returned, Converted
    <3>3. CASE call.conv = "u" /\ Returned(itoa(call.word, 10))
      BY <3>3 DEF Returned, Converted
    <3>4. CASE call.conv = "d" /\ Returned(signed(call.word))
      BY <3>4 DEF Returned, Converted
    <3> QED BY <2>1, <3>1, <3>2, <3>3, <3>4 DEF Convert
  <2> QED BY <1>1, <2>2 DEF PrintInv
<1>6. ASSUME FsNext PROVE FALSE
  BY <1>2, <1>3, <1>6 DEF FsNext, ReadRefused, ReadStart, ReadBlock, ReadByte, Parse, Lookup, Complete,
     Printing
<1>7. ASSUME GrepNext PROVE FALSE
  BY <1>2, <1>3, <1>7 DEF GrepNext, GrepOpen, GrepRead, GrepLine, GrepClose, Printing
<1>8. CASE RateNext
  BY <1>4, <1>8 DEF RateNext
<1>9. CASE UNCHANGED vars
  BY <1>4, <1>9 DEF vars
<1> QED BY <1>5, <1>6, <1>7, <1>8, <1>9 DEF Next

\* ReadsBack for words of any length: what printf writes for a word with %x, %#x,
\* %u or %d reads back as that word, the smallest signed number included, without
\* a leading zero, or with %#x in exactly the digits of a word.
THEOREM NumbersReadBack == Spec => []ReadsBack
<1>1. Init => CallInv /\ (Printing => PrintInv)
  BY DEF Init, LibInit, CallInv, PrintInv
<1>2. CallInv /\ (Printing => PrintInv) /\ [Next]_vars
          => (CallInv /\ (Printing => PrintInv))'
  BY CallStep, PrintStep DEF CallInv
<1>3. CallInv /\ (Printing => PrintInv) => ReadsBack
  <2> SUFFICES ASSUME CallInv, Printing, PrintInv, at = "done"
               PROVE  Back(call.conv, call.word, res)
    BY DEF ReadsBack, Done, Printing, Back
  <2>1. call.conv \in {"x", "#x", "u", "d"} /\ call.word \in 0 .. WordSpan - 1
    BY PrintfAssumption DEF CallInv, Printing
  <2>2. res = Converted(call.conv, call.word)
    BY DEF PrintInv
  <2>3. PICK conv \in {"x", "#x", "u", "d"}, w \in 0 .. WordSpan - 1 :
            conv = call.conv /\ w = call.word
    BY <2>1
  <2>4. Back(conv, w, Converted(conv, w))
    BY ConvertsBack
  <2> QED BY <2>2, <2>3, <2>4
<1> QED BY <1>1, <1>2, <1>3, PTL DEF Spec
=============================================================================
