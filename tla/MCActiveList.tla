---------------------------- MODULE MCActiveList ----------------------------
(* Three slots filled two at a time: the pointers wrap inside a bundle and  *)
(* inside a commit group, a pair may straddle bundles and the end of the    *)
(* list, and a store can have two younger loads that both read too early.   *)
EXTENDS ActiveList
=============================================================================
