------------------------------ MODULE ProcTree ------------------------------
(***************************************************************************)
(* What process management promises, without PCBs, queues or a clock: a    *)
(* tree of processes rooted at init.  A process is created by a living     *)
(* one, ends once, leaves its children to init when it ends, and is gone   *)
(* when its parent has collected it.  Kernel implements this               *)
(* specification (Kernel!TreeSpec).                                        *)
(***************************************************************************)
EXTENDS Naturals

CONSTANT MaxPid   \* BOUND: PIDs given out

VARIABLES
  parent,   \* the PIDs in use, each mapped to its parent's
  zombie,   \* those that have ended and were not collected yet
  last      \* the largest PID used up so far

treeVars == <<parent, zombie, last>>

InitPid == 1
Pids    == DOMAIN parent
Alive   == Pids \ zombie

\* The tree when p's children have gone to init.
HandedOver(p) == [q \in Pids |-> IF parent[q] = p THEN InitPid ELSE parent[q]]
Without(f, p) == [q \in DOMAIN f \ {p} |-> f[q]]

Init ==
  /\ parent = [q \in {InitPid} |-> InitPid]
  /\ zombie = {}
  /\ last = InitPid

Create(p) ==
  /\ p \in Alive
  /\ last < MaxPid
  /\ last' = last + 1
  /\ parent' = [q \in Pids \cup {last'} |-> IF q = last' THEN p ELSE parent[q]]
  /\ UNCHANGED zombie

\* A creation that fails may use up a PID.
Skip ==
  /\ last < MaxPid
  /\ last' = last + 1
  /\ UNCHANGED <<parent, zombie>>

\* p ends while its parent is busy ...
End(p) ==
  /\ p \in Alive \ {InitPid}
  /\ parent' = HandedOver(p)
  /\ zombie' = zombie \cup {p}
  /\ UNCHANGED last

\* ... or while it is waiting, which collects p at once.
EndCollected(p) ==
  /\ p \in Alive \ {InitPid}
  /\ parent[p] \in Alive
  /\ parent' = Without(HandedOver(p), p)
  /\ UNCHANGED <<zombie, last>>

\* A living parent collects z.
Collect(z) ==
  /\ z \in zombie
  /\ parent[z] \in Alive
  /\ parent' = Without(parent, z)
  /\ zombie' = zombie \ {z}
  /\ UNCHANGED last

Next ==
  \/ Skip
  \/ \E p \in Pids : Create(p) \/ End(p) \/ EndCollected(p) \/ Collect(p)

Spec == Init /\ [][Next]_treeVars
=============================================================================
