---------------------------- MODULE MCInterrupts ----------------------------
(***************************************************************************)
(* Interrupts on three machines.  On two of them, with a timer, a network  *)
(* card and either a keyboard or a serial line, init and idle run; on one  *)
(* with a timer alone a third PCB is used again and again.                 *)
(***************************************************************************)
EXTENDS Interrupts

SomeMachines ==
  {[devices |-> {Timer, Keyboard, EthLine}, pcbs |-> {}],
   [devices |-> {Timer, Serial, EthLine}, pcbs |-> {}],
   [devices |-> {Timer}, pcbs |-> Pcb \ {InitPcb, IdlePcb}]}
=============================================================================
