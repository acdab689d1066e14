-------------------------- MODULE MCThreadPoolDemo --------------------------
(* The pool of the demo, two workers, with four tasks instead of six: each
   worker runs more than one, and a task waits while both are busy. *)
EXTENDS ThreadPoolDemo, TLC
=============================================================================
