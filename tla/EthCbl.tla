------------------------------- MODULE EthCbl -------------------------------
(***************************************************************************)
(* The ethernet driver (eth.c): command blocks are allocated from the ring *)
(* CBL, run one after the other by the device's command unit, and freed by *)
(* the interrupt handler, which also hands received frames on.             *)
(*                                                                         *)
(* The device is external: a command unit that runs one block and then     *)
(* sets CNA, a receive unit that fills the one descriptor and then sets    *)
(* FR, and a status byte.  The handler reads that byte and then clears it, *)
(* two accesses the device may come between; then it works through the     *)
(* bits it read.  What it cleared unread is remembered in missed.  A NULL  *)
(* dereference is undefined: it sets fault and the model follows the       *)
(* program no further.                                                     *)
(***************************************************************************)
EXTENDS Integers, Sequences, SequencesExt

CONSTANTS
  CBL_SIZE,      \* bytes in the ring
  MAX_COMMANDS,  \* command nodes
  TxLengths,     \* bytes of a transmit block: descriptor and frame
  AddrLength,    \* bytes of a load address block
  Ids,           \* who may ask for a command; 0 is the kernel
  MaxCommands,   \* BOUND: users issue commands up to this number
  MaxFrames      \* BOUND: frames received in a run

ASSUME RingAssumption  == CBL_SIZE \in Nat \ {0} /\ MAX_COMMANDS \in Nat \ {0}
ASSUME BlockAssumption == TxLengths \cup {AddrLength} \subseteq 1 .. CBL_SIZE

VARIABLES
  CBL_start, CBL_end,
  commands,      \* the nodes: index and size of the block, id, serial number
  used,          \* the nodes that free_commands has marked
  current_cmd,   \* 0 when NULL
  cu_waiting,    \* _cu_waiting
  CU_BUSY,
  status,        \* the device's status byte
  seen,          \* what the handler read of it
  missed,        \* history: bits that were cleared and not read
  cu,            \* the node whose block the command unit runs, 0 if none
  ru,            \* does the receive unit have a descriptor to fill?
  frame,         \* the received frame
  frames,        \* how many frames came
  cpu,           \* "user" or where the handler is
  issued, done,  \* serial numbers: issued so far, completed so far
  fault

ringVars == <<CBL_start, CBL_end>>
cmdVars  == <<ringVars, commands, used, current_cmd, cu_waiting, CU_BUSY, cu, issued, fault>>
rxVars   == <<ru, frame, frames>>
ethVars  == <<cmdVars, status, seen, missed, rxVars, cpu, done>>

Nodes    == 1 .. MAX_COMMANDS
NoNode   == [index |-> 0, size |-> 0, id |-> 0, serial |-> 0]
NoFrame  == [kind |-> "none"]

EthInit ==
  /\ CBL_start = 0 /\ CBL_end = 0
  /\ commands = [n \in Nodes |-> NoNode] /\ used = {}
  /\ current_cmd = 0 /\ cu_waiting = <<>> /\ CU_BUSY = FALSE
  /\ status = {} /\ seen = {} /\ missed = {} /\ cu = 0
  /\ ru = TRUE /\ frame = NoFrame /\ frames = 0
  /\ cpu = "user" /\ issued = 0 /\ done = 0 /\ fault = FALSE

InUser == cpu = "user" /\ ~fault

-----------------------------------------------------------------------------
(***************************************************************************)
(* Issuing a command                                                       *)
(***************************************************************************)

\* Where _eth_allocate_CBL starts to look: behind the last block, or at 0 when
\* the space up to the end of the ring is too small.
Wraps(len)    == CBL_end + len > CBL_SIZE
Position(len) == IF Wraps(len) THEN 0 ELSE CBL_end

\* Does it find room there?
Allocates(len) ==
  LET at == Position(len) IN
    /\ ~(Wraps(len) /\ CBL_start = 0)
    /\ at >= CBL_start \/ at + len < CBL_start

\* No room: ETH_NO_MEM; CBL_end may have moved all the same.
eth_no_memory(len) ==
  /\ ~Allocates(len)
  /\ CBL_end' = Position(len)
  /\ UNCHANGED <<CBL_start, commands, used, current_cmd, cu_waiting, CU_BUSY, cu,
                 issued, fault>>

\* Room, but no node: the error path uses the NULL it was given.
eth_no_node(len) ==
  /\ Allocates(len)
  /\ used = Nodes
  /\ fault' = TRUE
  /\ CBL_end' = Position(len) + len + (len % 2)
  /\ UNCHANGED <<CBL_start, commands, used, current_cmd, cu_waiting, CU_BUSY, cu,
                 issued>>

\* The first free node.
FreeNode == CHOOSE n \in Nodes \ used : \A k \in Nodes \ used : n <= k

\* Defect: a command is started although the unit is running one.
Issue_Start(n) ==
  CU_BUSY' = TRUE /\ current_cmd' = n /\ cu' = n /\ UNCHANGED cu_waiting

\* Defect: the last command comes first.
Issue_Lifo(n) ==
  IF CU_BUSY THEN cu_waiting' = <<n>> \o cu_waiting /\ UNCHANGED <<CU_BUSY, current_cmd, cu>>
  ELSE CU_BUSY' = TRUE /\ current_cmd' = n /\ cu' = n /\ UNCHANGED cu_waiting

\* The command waits for its turn, or is started.
Issue(n) ==
  IF CU_BUSY THEN cu_waiting' = Append(cu_waiting, n) /\ UNCHANGED <<CU_BUSY, current_cmd, cu>>
  ELSE CU_BUSY' = TRUE /\ current_cmd' = n /\ cu' = n /\ UNCHANGED cu_waiting

eth_issue(len, id) ==
  /\ Allocates(len)
  /\ used # Nodes
  /\ issued' = issued + 1
  /\ CBL_end' = Position(len) + len + (len % 2)
  /\ used' = used \cup {FreeNode}
  /\ commands' = [commands EXCEPT ![FreeNode] =
       [index |-> Position(len), size |-> len, id |-> id, serial |-> issued']]
  /\ Issue(FreeNode)
  /\ UNCHANGED <<CBL_start, fault>>

\* _eth_tx and _eth_loadaddr, which differ in the length of the block.
eth_command(len, id) == eth_no_memory(len) \/ eth_no_node(len) \/ eth_issue(len, id)

-----------------------------------------------------------------------------
(***************************************************************************)
(* The device                                                              *)
(***************************************************************************)
CommandEnds ==
  /\ ~fault
  /\ cu # 0
  /\ cu' = 0
  /\ status' = status \cup {"CNA"}
  /\ UNCHANGED <<ringVars, commands, used, current_cmd, cu_waiting, CU_BUSY, issued,
                 fault, seen, missed, rxVars, cpu, done>>

\* A frame comes; without a descriptor it is dropped.
FrameArrives(f) ==
  /\ ~fault
  /\ frames < MaxFrames
  /\ frames' = frames + 1
  /\ IF ru THEN ru' = FALSE /\ frame' = f /\ status' = status \cup {"FR"}
           ELSE UNCHANGED <<ru, frame, status>>
  /\ UNCHANGED <<cmdVars, seen, missed, cpu, done>>

-----------------------------------------------------------------------------
(***************************************************************************)
(* _eth_isr                                                                *)
(***************************************************************************)
eth_isr_read ==
  /\ InUser
  /\ status # {}
  /\ seen' = status
  /\ cpu' = "ack"
  /\ UNCHANGED <<cmdVars, status, missed, rxVars, done>>

eth_isr_ack ==
  /\ cpu = "ack" /\ ~fault
  /\ status' = {} /\ missed' = missed \cup (status \ seen)
  /\ cpu' = "FR"
  /\ UNCHANGED <<cmdVars, seen, rxVars, done>>

eth_isr_no_frame ==
  /\ cpu = "FR" /\ ~fault
  /\ "FR" \notin seen
  /\ cpu' = "CNA"
  /\ UNCHANGED <<cmdVars, status, seen, missed, rxVars, done>>

\* Defect: the receive unit is not started again.
restart_RU_Not == UNCHANGED ru /\ frame' = NoFrame

\* The descriptor is reset and the receive unit started again.
restart_RU == ru' = TRUE /\ frame' = NoFrame

\* A frame: Callback stands for what the receive callback does to the commands.
eth_isr_frame(Callback) ==
  /\ cpu = "FR" /\ ~fault
  /\ "FR" \in seen
  /\ Callback
  /\ restart_RU
  /\ cpu' = "CNA"
  /\ UNCHANGED <<status, seen, missed, frames, done>>

\* The block of the current command is freed: CBL_start moves on by its size.
FreedStart == LET size == commands[current_cmd].size IN
                ((CBL_start + size) % CBL_SIZE) + (size % 2)

\* Defect: the next command is taken off the queue and never started.
StartNext_Idle ==
  IF cu_waiting # <<>>
  THEN current_cmd' = Head(cu_waiting) /\ cu_waiting' = Tail(cu_waiting) /\ UNCHANGED <<CU_BUSY, cu>>
  ELSE current_cmd' = 0 /\ CU_BUSY' = FALSE /\ UNCHANGED <<cu_waiting, cu>>

\* The next command is started, or the unit is idle.
StartNext ==
  IF cu_waiting # <<>>
  THEN /\ current_cmd' = Head(cu_waiting) /\ cu_waiting' = Tail(cu_waiting)
       /\ cu' = Head(cu_waiting) /\ UNCHANGED CU_BUSY
  ELSE current_cmd' = 0 /\ CU_BUSY' = FALSE /\ UNCHANGED <<cu_waiting, cu>>

\* Defect: the node of a finished command stays marked.
FreeCommand_Leak == UNCHANGED used

FreeCommand == used' = used \ {current_cmd}

eth_isr_command ==
  /\ cpu = "CNA" /\ ~fault
  /\ "CNA" \in seen
  /\ CBL_start' = FreedStart
  /\ FreeCommand
  /\ StartNext
  /\ done' = commands[current_cmd].serial
  /\ cpu' = "user" /\ seen' = {}
  /\ UNCHANGED <<CBL_end, commands, issued, fault, status, missed, rxVars>>

eth_isr_no_command ==
  /\ cpu = "CNA" /\ ~fault
  /\ "CNA" \notin seen
  /\ cpu' = "user" /\ seen' = {}
  /\ UNCHANGED <<cmdVars, status, missed, rxVars, done>>

-----------------------------------------------------------------------------
\* The commands that were issued and are not done, in the order they will run.
Outstanding == (IF current_cmd = 0 THEN <<>> ELSE <<current_cmd>>) \o cu_waiting

\* Commands complete in the order they were issued, each once: those that are
\* outstanding carry the serial numbers after the last one done (eth.c:392).
CommandsInOrder ==
  /\ Len(Outstanding) = issued - done
  /\ \A i \in 1 .. Len(Outstanding) : commands[Outstanding[i]].serial = done + i

\* The nodes in use are those of the outstanding commands: none leaks and none
\* is given out twice; and the ring's indices stay in the ring (eth.c:156-187, 385-389).
NodesAccounted ==
  /\ IsInjective(Outstanding) /\ ToSet(Outstanding) = used
  /\ CBL_start \in 0 .. CBL_SIZE /\ CBL_end \in 0 .. CBL_SIZE + 1

\* Nothing waits for an idle command unit; while the driver thinks that it is busy,
\* the unit runs the current command or its completion is on the way; and the
\* receive unit has a descriptor, or the frame in it is on its way up.  The one way
\* to lose either is a bit that is set between the two accesses (eth.c:303-309).
UnitsServed ==
  /\ CU_BUSY <=> current_cmd # 0
  /\ ~CU_BUSY => cu_waiting = <<>> /\ cu = 0
  /\ CU_BUSY => cu = current_cmd \/ "CNA" \in status \cup seen \cup missed
  /\ ru \/ "FR" \in status \cup seen \cup missed
=============================================================================
