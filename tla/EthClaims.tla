------------------------------ MODULE EthClaims ------------------------------
(***************************************************************************)
(* What eth.c and its documentation say and the driver does not do.        *)
(* The README gives the constants and the behaviour that refute each.      *)
(***************************************************************************)
EXTENDS EthCbl

Block(n) == commands[n].index .. commands[n].index + commands[n].size - 1

\* eth.c: _eth_allocate_CBL is to return space or "NULL on no memory available":
\* blocks of outstanding commands do not overlap.
BlocksDisjoint ==
  \A m, n \in used : m # n => Block(m) \cap Block(n) = {}

\* eth.c: "this guarantees zero free bytes b/w CBL start and end": the ring is
\* empty when no command is outstanding, so the next one finds room.
RoomWhenIdle == InUser /\ used = {} => \A len \in TxLengths : Allocates(len)

\* internals/ethernet.txt: "If there is no memory to execute the command,
\* ETH_NO_MEM will be returned."  Without a node the driver uses a NULL pointer.
NoNullUsed == ~fault

\* eth.c: "ack all interrupts that occured": clearing the status byte also clears
\* a bit that came up after it was read, and that command never ends.
AckLosesNone == CU_BUSY => cu = current_cmd \/ "CNA" \in status \cup seen
=============================================================================
