-------------------------- MODULE MCBlockingSubmit --------------------------
(***************************************************************************)
(* The blocking submit for TLC: two threads and three submissions, so that *)
(* one thread submits again while a verdict of its first is late and the   *)
(* other thread waits.  No symmetry, which would be unsound for Returns.   *)
(***************************************************************************)
EXTENDS BlockingSubmitProps
=============================================================================
