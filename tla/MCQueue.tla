------------------------------ MODULE MCQueue ------------------------------
(***************************************************************************)
(* TLC instances of Queue.                                                 *)
(***************************************************************************)
EXTENDS Queue, TLC

\* What clients put into queues is never looked at: its values are alike.
SomeData == Permutations(Data)
=============================================================================
