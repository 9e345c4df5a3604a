------------------------- MODULE MCConcurrentRunner -------------------------
(***************************************************************************)
(* The four providers of `pagerwesi all' on a pool of two threads.         *)
(***************************************************************************)
EXTENDS ConcurrentRunner
=============================================================================
