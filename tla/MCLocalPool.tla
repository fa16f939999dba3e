---------------------------- MODULE MCLocalPool ----------------------------
(* One parent and one worker to be forked.                                 *)
EXTENDS LocalPool
=============================================================================
