---------------------------- MODULE MCDurableRun ----------------------------
(* DurableRun as it is, for TLC: the constants are in the cfg file. *)
EXTENDS DurableRun
=============================================================================
