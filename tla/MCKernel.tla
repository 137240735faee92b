------------------------------ MODULE MCKernel ------------------------------
(***************************************************************************)
(* The TLC instance of Kernel: its constants are given by MCKernel.cfg.    *)
(***************************************************************************)
EXTENDS Kernel

\* Free PCBs are alike: _pcb_alloc clears the one it takes, and Kernel keeps them
\* cleared.  Kernel leaves open which one spawn gets; in the code it is the first of
\* a list.  Here the set of free PCBs decides, so that TLC does not visit the same
\* processes under other names.  A PCB keeps its name as long as it is in use, so
\* the liveness properties, which follow one process, lose nothing.
FirstFree ==
  \A c \in Pcb : state[c] = "Unused" /\ state'[c] # "Unused"
                 => c = CHOOSE f \in Pcb : state[f] = "Unused"
=============================================================================
