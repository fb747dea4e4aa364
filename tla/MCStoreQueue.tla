---------------------------- MODULE MCStoreQueue ----------------------------
(* Three entries, two dispatched and two committed in a cycle: the pointers *)
(* wrap within a group and a flush may find a committed store waiting.      *)
EXTENDS StoreQueue
=============================================================================
