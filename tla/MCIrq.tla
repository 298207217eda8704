-------------------------------- MODULE MCIrq --------------------------------
(* Instances of Irq for TLC. *)
EXTENDS Irq

MCKeys     == {"char", "enter", "ctrl_l", "ctrl_c", "alt_fn"}
MCBootKeys == {"char", "enter"}
=============================================================================
