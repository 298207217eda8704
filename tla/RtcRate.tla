-------------------------------- MODULE RtcRate --------------------------------
(***************************************************************************)
(* The frequency of the real-time clock, student-distrib/rtc.c.  rtc_write *)
(* selects register A and then stores the rate, with interrupts on: the    *)
(* clock's own interrupt, which selects register C, and the rtc_write of   *)
(* another process may come between.                                       *)
(*                                                                         *)
(* A behaviour is one write by each of the processes in Writers, in any    *)
(* order.  The ports are those of the MC146818: a store to register C,     *)
(* which is read-only, has no effect.                                      *)
(***************************************************************************)
EXTENDS Lib

CONSTANT Writers   \* call.freq[w] is what w writes, call.nbytes[w] its length

ASSUME RateAssumption ==
    \A c \in Calls :
        c.fn = "rtc_write" => c.freq \in [Writers -> Nat] /\ c.nbytes \in [Writers -> Nat]

VARIABLES index,   \* the register that port 0x70 has selected
          rate,    \* the rate bits of register A
          stage,   \* where each write is
          hit,     \* ghost: an interrupt fell into w's write
          asked    \* ghost: the frequency of the last write that succeeded, 0
                   \* when an interrupt fell into it

ratevars == << index, rate, stage, hit, asked >>

\* rtc_open, which entry() calls, has set 2 Hz.
RateInit ==
    /\ index = "A"
    /\ rate = 15
    /\ stage = [w \in Writers |-> "call"]
    /\ hit = [w \in Writers |-> FALSE]
    /\ asked = 2

RateOf_NoLimit(f) ==
    CASE f = 8192 -> 3 [] f = 4096 -> 4 [] f = 2048 -> 5 [] f = 1024 -> 6
      [] f = 512 -> 7 [] f = 256 -> 8 [] f = 128 -> 9 [] f = 64 -> 10
      [] f = 32 -> 11 [] f = 16 -> 12 [] f = 8 -> 13 [] f = 4 -> 14
      [] f = 2 -> 15 [] OTHER -> 0

\* The rate of a frequency, that of 1024 Hz for the higher ones, or 0: it is not
\* accepted.
RateOf(f) ==
    CASE f \in {1024, 2048, 4096, 8192} -> 6
      [] f = 512 -> 7 [] f = 256 -> 8 [] f = 128 -> 9 [] f = 64 -> 10
      [] f = 32 -> 11 [] f = 16 -> 12 [] f = 8 -> 13 [] f = 4 -> 14
      [] f = 2 -> 15 [] OTHER -> 0

FOUR_BYTES == 4

Writing == call.fn = "rtc_write"

rtc_write(w) ==
    /\ Writing
    /\ stage[w] = "call"
    /\ IF call.nbytes[w] # FOUR_BYTES \/ RateOf(call.freq[w]) = 0
       THEN stage' = [stage EXCEPT ![w] = "refused"] /\ UNCHANGED index
       ELSE stage' = [stage EXCEPT ![w] = "store"] /\ index' = "A"
    /\ UNCHANGED << rate, hit, asked >>

rtc_store(w) ==
    /\ stage[w] = "store"
    /\ rate' = IF index = "A" THEN RateOf(call.freq[w]) ELSE rate
    /\ asked' = IF hit[w] THEN 0 ELSE call.freq[w]
    /\ stage' = [stage EXCEPT ![w] = "returned"]
    /\ UNCHANGED << index, hit >>

\* rtc_handler: the interrupt's cause is in register C.
ClockInterrupt ==
    /\ Writing
    /\ index' = "C"
    /\ hit' = [w \in Writers |-> hit[w] \/ stage[w] = "store"]
    /\ UNCHANGED << rate, stage, asked >>

RateNext ==
    /\ \/ \E w \in Writers : rtc_write(w) \/ rtc_store(w)
       \/ ClockInterrupt
    /\ UNCHANGED << call, at, res, copyvars >>

-----------------------------------------------------------------------------
(* Properties *)

Freq(r) == 2 ^ (16 - r)

\* The writers that pass all of a frequency.
Whole == {w \in Writers : call.nbytes[w] = FOUR_BYTES}

\* The clock runs at the frequency of the last write that succeeded, at most
\* 1024 Hz, however the port accesses of two writers mix, unless the clock
\* interrupt fell between the two accesses of that write; even then it runs at
\* a frequency that was set before or is being written, never at one nobody
\* asked for or that was passed in less than four bytes.
FrequencyKept ==
    Writing =>
        /\ asked # 0 => Freq(rate) = Min({asked, 1024})
        /\ Freq(rate) \in {2} \cup {Min({call.freq[w], 1024}) : w \in Whole}
=============================================================================
