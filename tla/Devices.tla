-------------------------------- MODULE Devices --------------------------------
(***************************************************************************)
(* The two devices a program can wait for, composed: the keyboard lines of *)
(* Tty and the clock of Rtc.  They share the CPU (running), a process is in *)
(* one system call at a time, and Ctrl+C ends either call.                  *)
(***************************************************************************)
EXTENDS Tty

CONSTANT ClockUsers

ASSUME ClockAssumption == ClockUsers \subseteq Terms

VARIABLES rtc_flag, rtc_pc, ticked

R == INSTANCE Rtc WITH Procs <- ClockUsers

clock == << rtc_flag, rtc_pc, ticked >>

devVars == << vars, clock >>

DevInit == Init /\ R!RtcInit

Waiting(t) == t \in ClockUsers /\ rtc_pc[t] = "wait"

\* A key other than Ctrl+C leaves the clock alone.
DevKey == (KeyChar \/ KeyBackspace \/ KeyTab \/ KeyEnter \/ KeySwitch)
          /\ UNCHANGED clock

DevTick(t) == Tick(t) /\ UNCHANGED clock

\* Ctrl+C halts the main process: its read of the keyboard or of the clock.
DevCtrlC ==
    \/ KeyCtrlC /\ UNCHANGED clock
    \/ Waiting(running) /\ R!rtc_killed(running) /\ UNCHANGED vars

DevReadCall(t) == ~Waiting(t) /\ ReadCall(t) /\ UNCHANGED clock
DevReadStep(t) == ReadStep(t) /\ UNCHANGED clock

DevClockCall(t) ==
    /\ pc[t] = "idle"
    /\ R!rtc_read(t)
    /\ UNCHANGED vars

DevClockPoll(t) == R!rtc_poll(t) /\ UNCHANGED vars
DevClockTick    == R!rtc_handler /\ UNCHANGED vars

DevNext ==
    \/ DevKey
    \/ DevCtrlC
    \/ DevClockTick
    \/ \E t \in Terms : DevTick(t) \/ DevReadCall(t) \/ DevReadStep(t)
    \/ \E t \in ClockUsers : DevClockCall(t) \/ DevClockPoll(t)

DevSpec == DevInit /\ [][DevNext]_devVars

\* Interrupts keep coming: the scheduler gives every terminal's process the CPU
\* again and again, a time slice lasts for many turns of a waiting loop, and the
\* clock never stops.
DevFairSpec ==
    /\ DevSpec
    /\ WF_devVars(DevClockTick)
    /\ \A t \in Terms : WF_devVars(DevTick(t)) /\ SF_devVars(DevReadStep(t))
    /\ \A t \in ClockUsers : SF_devVars(DevClockPoll(t))

\* The properties of the clock, in the composition.
ReturnsAfterTick == R!ReturnsAfterTick
RtcReturns       == R!RtcReturns
=============================================================================
