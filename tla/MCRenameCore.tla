---------------------------- MODULE MCRenameCore ----------------------------
(* Two lanes of rename and of commit, two logical registers and three slots *)
(* of free list, so that pointers wrap within a bundle, a commit group may  *)
(* write one register twice, and the free list runs out with registers left *)
(* in it; a repair of two cycles, one register a cycle                      *)
EXTENDS RenameCore
=============================================================================
