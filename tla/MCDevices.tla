------------------------------- MODULE MCDevices -------------------------------
(* Instances of Devices for TLC: two terminals.  Letters are typed on the     *)
(* first one, empty lines on both, so that a line on the wrong terminal shows. *)
EXTENDS Devices

MCLetters == [t \in 0 .. 1 |-> IF t = 0 THEN {"a"} ELSE {}]
=============================================================================
