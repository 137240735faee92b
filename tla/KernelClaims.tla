---------------------------- MODULE KernelClaims ----------------------------
(***************************************************************************)
(* Statements that the documentation, a comment or an assertion makes about*)
(* process management and that the code does not keep.  The README gives   *)
(* the constants and the behaviour that refute each of them.               *)
(***************************************************************************)
EXTENDS Kernel

\* man/wait.txt: if a child "has terminated but hasn't yet been cleaned up,
\* cleans up that process and returns its information; otherwise, blocks": no
\* process is blocked in wait() while it has a child to collect.  init can be:
\* _force_exit hands it children that are zombies already, and does not wake it.
WaitersCollect ==
  \A p \in ptable : state[p] = "Waiting" =>
    \A c \in Children(p) : state[c] # "Zombie"

\* man/kill.txt: "0 on success, else < 0 on an error".  When the victim is
\* blocked in wait(), RET is not written: the caller sees the code of the call.
KillAnswered ==
  [][(\E n \in 0 .. MaxPid : sys_kill(n)) /\ state'[current] = "Running"
       => reply'[current].ret # Unanswered]_vars

\* process.h: exit_status is the "termination status, for parent's use", and
\* _force_exit is passed the "termination status for the process".  It reports
\* that status to a waiting parent, but a victim that becomes a zombie keeps the
\* status it had.
KilledStatusKept ==
  [][\A p \in Pcb : state[p] = "Killed" /\ state'[p] = "Zombie"
       => exit_status'[p] = KilledStatus]_vars

\* man/kill.txt: "Terminates a process with id 'pid'".  A victim blocked in read()
\* is only marked: it ends when a character arrives for it, if one ever does.
KilledEnds ==
  \A p \in Pcb : (state[p] = "Killed" /\ In(reading, p)) ~> state[p] # "Killed"

\* man/sleep.txt: the caller sleeps "for 'msec' milliseconds": a sleeper is woken
\* at its wakeup time.  When the sum of time and interval wraps it is woken at
\* the next tick instead.
WokenOnTime ==
  [][\A p \in Pcb : state[p] = "Sleeping" /\ state'[p] = "Ready"
       => wakeup[p] = system_time]_vars

\* init.c and main6.c take the answer E_NO_CHILDREN of wait() for "no children";
\* _sys_wait answers E_NO_PROCS.
NoChildrenAnswer ==
  [][sys_wait /\ Children(current) = {} => reply'[current].ret = E_NO_CHILDREN]_vars
=============================================================================
