---------------------------------- MODULE Rtc ----------------------------------
(***************************************************************************)
(* Reads of the real-time clock, student-distrib/rtc.c: they wait for an   *)
(* interrupt through the one global rtc_flag.  Writes are in RtcRate.      *)
(***************************************************************************)

CONSTANT Procs  \* the processes that may use the clock

VARIABLES running,   \* the process the CPU is in
          rtc_flag,  \* an interrupt came since the last read began
          rtc_pc,    \* where the rtc_read of each process is
          ticked     \* ghost: an interrupt came since the read p is in began

RtcInit ==
    /\ rtc_flag = 0
    /\ rtc_pc = [p \in Procs |-> "idle"]
    /\ ticked = [p \in Procs |-> FALSE]

ReadFlag_Kept == rtc_flag
ReadFlag == 0

rtc_read(p) ==
    /\ running = p
    /\ rtc_pc[p] = "idle"
    /\ rtc_flag' = ReadFlag
    /\ rtc_pc' = [rtc_pc EXCEPT ![p] = "wait"]
    /\ ticked' = [ticked EXCEPT ![p] = FALSE]

Polled_Rearms(p) ==
    /\ rtc_flag' = 0
    /\ UNCHANGED << rtc_pc, ticked >>

\* p's read is over.
ReadOver(p) ==
    /\ rtc_pc' = [rtc_pc EXCEPT ![p] = "idle"]
    /\ ticked' = [ticked EXCEPT ![p] = FALSE]

\* The loop sees the flag: the read returns.
Polled(p) ==
    /\ ReadOver(p)
    /\ UNCHANGED rtc_flag

rtc_poll(p) ==
    /\ running = p
    /\ rtc_pc[p] = "wait"
    /\ rtc_flag = 1
    /\ Polled(p)

rtc_handler ==
    /\ rtc_flag' = 1
    /\ ticked' = [p \in Procs |-> ticked[p] \/ rtc_pc[p] = "wait"]
    /\ UNCHANGED rtc_pc

\* The process is halted, with the read it is in.
rtc_killed(p) ==
    /\ ReadOver(p)
    /\ UNCHANGED rtc_flag

-----------------------------------------------------------------------------
(* Properties *)

\* What ends the loop of rtc_read is an interrupt that came after the call, never
\* one that rtc_flag remembered, whatever other readers did to the flag.
ReturnsAfterTick ==
    \A p \in Procs : rtc_pc[p] = "wait" /\ rtc_flag = 1 => ticked[p]

\* A read of the clock that never returns is one whose ticks others take: each
\* of their reads clears the one rtc_flag, so it waits as long as they go on
\* reading.  In particular the only reader always returns, or is halted.
RtcReturns ==
    \A p \in Procs :
        <>[](rtc_pc[p] = "wait")
            => []<><<\E q \in Procs \ {p} : rtc_read(q)>>_<<rtc_flag, rtc_pc, ticked>>

=============================================================================
