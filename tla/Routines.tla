------------------------------- MODULE Routines --------------------------------
(* The routines without state of their own, of the library, the file system *)
(* and grep, and the writes of the clock's frequency: a behaviour is one     *)
(* call of one of them.                                                      *)
EXTENDS Filesys, Grep, RtcRate

vars == << call, at, res, copyvars, loop, grepvars, ratevars >>

Init == LibInit /\ FsInit /\ GrepInit /\ RateInit

Next ==
    \/ LibNext /\ UNCHANGED << loop, grepvars, ratevars >>
    \/ FsNext /\ UNCHANGED << grepvars, ratevars >>
    \/ GrepNext /\ UNCHANGED << loop, ratevars >>
    \/ RateNext /\ UNCHANGED << loop, grepvars >>

Spec == Init /\ [][Next]_vars
=============================================================================
