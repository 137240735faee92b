---------------------------- MODULE SysNetClaims ----------------------------
(***************************************************************************)
(* What sysnet.c and its documentation say and the code does not do.       *)
(* The README gives the constants and the behaviour that refute each.      *)
(***************************************************************************)
EXTENDS SysNet, EthClaims

\* man/netsend: "On failure E_FAILURE will be returned": nobody waits for a
\* command that was never issued.
WaitersHaveCommand ==
  \A i \in DOMAIN cmd_q : \E k \in DOMAIN Outstanding :
    commands[Outstanding[k]].id = cmd_q[i]

\* sysnet.c: the assertion under "ensure that the sender we dequeued has the same
\* PID we were passed" holds.
NoPanic == ~panic

\* man/netsend: "On failure E_FAILURE will be returned": a message that is too
\* large for the buffer is a failure.
OversizeFails == \A p \in tooLarge : state[p] = "ready" => ret[p] = "error"

\* sysnet.c: the slots are the "number of processes that can be waiting on a
\* receive at the same time": fewer live ones leave a slot free.
SlotsForLiving ==
  (\A p \in killed : state[p] = "blocked") =>
    (Free = {} => Cardinality({p \in Pids \ killed : state[p] = "blocked"})
                    >= NUM_RECV_PROCESSES)
=============================================================================
