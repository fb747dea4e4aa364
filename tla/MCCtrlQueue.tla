---------------------------- MODULE MCCtrlQueue ----------------------------
(* A ring of four with two entries reserved and two committed in a cycle:   *)
(* commits outrun the single update, so entries are pending at a flush.     *)
EXTENDS CtrlQueue
=============================================================================
