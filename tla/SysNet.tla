------------------------------- MODULE SysNet -------------------------------
(***************************************************************************)
(* The network system calls (sysnet.c) on top of the ethernet driver.  A   *)
(* sender blocks on _cmd_process_q until the driver's command callback     *)
(* says that its command is complete; a receiver blocks in a slot of       *)
(* _recv_list until the receive callback finds a datagram for its port.    *)
(* The queue of processes and the driver's queue of commands are separate  *)
(* and must stay in step: an assertion compares the ids.                   *)
(*                                                                         *)
(* Of the scheduler the model keeps which processes can run; a killed      *)
(* process stays where it is blocked until _schedule finds it (Kernel).    *)
(***************************************************************************)
EXTENDS EthCbl, FiniteSets, FiniteSetsExt

CONSTANTS
  Pids,                \* the processes; not 0
  Ports,
  NUM_RECV_PROCESSES,  \* receive slots
  EmptyLength,         \* bytes of a transmit block without a frame
  ArpLength            \* bytes of the block of an ARP reply

ASSUME NetAssumption ==
  /\ Pids \subseteq Ids \ {0}
  /\ NUM_RECV_PROCESSES \in Nat \ {0}
  /\ {EmptyLength, ArpLength} \subseteq 1 .. CBL_SIZE

VARIABLES
  state,      \* pid -> "ready", "blocked" or "gone"
  killed,     \* blocked processes that kill() has marked
  ret,        \* pid -> what its network call answers, "none" when not set yet
  cmd_q,      \* _cmd_process_q
  recv_list,  \* slot -> the process and its port
  tooLarge,   \* history: processes whose message did not fit the buffer
  refused,    \* history: did a command of a process that then blocked fail?
  panic       \* an assertion failed

procVars == <<state, killed, ret, cmd_q, recv_list, tooLarge, refused, panic>>
netVars  == <<ethVars, procVars>>

Slots    == 1 .. NUM_RECV_PROCESSES
FreeSlot == [proc |-> 0, port |-> 0]

NetInit ==
  /\ EthInit
  /\ state = [p \in Pids |-> "ready"] /\ killed = {}
  /\ ret = [p \in Pids |-> "none"]
  /\ cmd_q = <<>> /\ recv_list = [s \in Slots |-> FreeSlot]
  /\ tooLarge = {} /\ refused = FALSE /\ panic = FALSE

CanCall(p) == InUser /\ ~panic /\ state[p] = "ready"

CanCommand(p) == CanCall(p) /\ issued < MaxCommands

-----------------------------------------------------------------------------
(***************************************************************************)
(* System calls                                                            *)
(***************************************************************************)

\* Defect: the caller is put at the head of the queue.
block_on_command_First(p, answer) ==
  /\ ret' = [ret EXCEPT ![p] = answer]
  /\ state' = [state EXCEPT ![p] = "blocked"]
  /\ cmd_q' = <<p>> \o cmd_q

\* The caller blocks on the command queue, whether or not it has a command.
block_on_command(p, answer) ==
  /\ ret' = [ret EXCEPT ![p] = answer]
  /\ state' = [state EXCEPT ![p] = "blocked"]
  /\ cmd_q' = Append(cmd_q, p)

\* _eth_tx or _eth_loadaddr with a block of len bytes, and what follows it.
command_and_block(p, len, answer) ==
  \/ eth_issue(len, p) /\ block_on_command(p, answer) /\ UNCHANGED refused
  \/ eth_no_memory(len) /\ block_on_command(p, "error") /\ refused' = TRUE
  \/ eth_no_node(len) /\ UNCHANGED <<state, ret, cmd_q, refused>>

\* A message that does not fit _tx_buffer is an error, and goes out without a frame.
sysnet_send(p, len, fits) ==
  /\ CanCommand(p)
  /\ IF fits THEN command_and_block(p, len, "none") /\ tooLarge' = tooLarge \ {p}
             ELSE command_and_block(p, EmptyLength, "error") /\ tooLarge' = tooLarge \cup {p}
  /\ UNCHANGED <<status, seen, missed, rxVars, cpu, done, killed, recv_list, panic>>

sysnet_setMAC(p) ==
  /\ CanCommand(p)
  /\ command_and_block(p, AddrLength, "none")
  /\ tooLarge' = tooLarge \ {p}
  /\ UNCHANGED <<status, seen, missed, rxVars, cpu, done, killed, recv_list, panic>>

Free == {s \in Slots : recv_list[s] = FreeSlot}

\* The first free slot is taken; without one the call fails.
sysnet_recv(p, port) ==
  /\ CanCall(p)
  /\ IF Free # {}
     THEN /\ recv_list' = [recv_list EXCEPT ![Min(Free)] = [proc |-> p, port |-> port]]
          /\ state' = [state EXCEPT ![p] = "blocked"]
          /\ ret' = [ret EXCEPT ![p] = "none"]
     ELSE /\ ret' = [ret EXCEPT ![p] = "error"]
          /\ UNCHANGED <<state, recv_list>>
  /\ tooLarge' = tooLarge \ {p}
  /\ UNCHANGED <<ethVars, killed, cmd_q, refused, panic>>

\* kill(): a blocked victim is only marked.
sys_kill(p, victim) ==
  /\ CanCall(p)
  /\ state[victim] # "gone"
  /\ IF state[victim] = "blocked"
     THEN killed' = killed \cup {victim} /\ UNCHANGED state
     ELSE state' = [state EXCEPT ![victim] = "gone"] /\ UNCHANGED killed
  /\ UNCHANGED <<ethVars, ret, cmd_q, recv_list, tooLarge, refused, panic>>

-----------------------------------------------------------------------------
(***************************************************************************)
(* The callbacks                                                           *)
(***************************************************************************)
\* Defect: the marks of the killed are kept.
schedule_MarkStays(procs) ==
  /\ state' = [p \in Pids |-> IF p \notin procs THEN state[p]
                              ELSE IF p \in killed THEN "gone" ELSE "ready"]
  /\ UNCHANGED killed

\* _schedule for each of procs: they are ready again, or end if they were killed.
schedule(procs) ==
  /\ state' = [p \in Pids |-> IF p \notin procs THEN state[p]
                              ELSE IF p \in killed THEN "gone" ELSE "ready"]
  /\ killed' = killed \ procs

\* Defect: only the first receiver is woken.
Wanting_First(port) ==
  LET all == {s \in Slots : recv_list[s] # FreeSlot /\ recv_list[s].port = port}
  IN  IF all = {} THEN {} ELSE {Min(all)}

\* The slots of those who wait for the port: everyone gets the datagram.
Wanting(port) == {s \in Slots : recv_list[s] # FreeSlot /\ recv_list[s].port = port}

release(slots) == recv_list' = [s \in Slots |-> IF s \in slots THEN FreeSlot ELSE recv_list[s]]

\* A frame with an error, one that is not for this system, or no datagram.
recv_cb_ignore == frame.kind = "other" /\ UNCHANGED <<cmdVars, procVars>>

\* An ARP request for this system is answered by a command of the kernel's.
recv_cb_arp == frame.kind = "arp" /\ eth_command(ArpLength, 0) /\ UNCHANGED procVars

recv_cb_udp ==
  /\ frame.kind = "udp"
  /\ LET slots == Wanting(frame.port)
         procs == {recv_list[s].proc : s \in slots}
     IN  /\ release(slots)
         /\ ret' = [p \in Pids |-> IF p \in procs THEN "success" ELSE ret[p]]
         /\ schedule(procs)
  /\ UNCHANGED <<cmdVars, cmd_q, tooLarge, refused, panic>>

sysnet_recv_cb == recv_cb_ignore \/ recv_cb_arp \/ recv_cb_udp

\* Defect: also the kernel's commands wake a process.
OfKernel_Never(id) == FALSE

OfKernel(id) == id = 0

\* Is the process at the head of the queue the one the command is for?
HeadMatches(id) == cmd_q # <<>> /\ Head(cmd_q) = id

cmd_cb_kernel(id) == OfKernel(id) /\ eth_isr_command /\ UNCHANGED procVars

cmd_cb_wake(id) ==
  /\ ~OfKernel(id) /\ HeadMatches(id)
  /\ eth_isr_command
  /\ cmd_q' = Tail(cmd_q)
  /\ \E answer \in {"success", "error"} : ret' = [ret EXCEPT ![Head(cmd_q)] = answer]
  /\ schedule({Head(cmd_q)})
  /\ UNCHANGED <<recv_list, tooLarge, refused, panic>>

\* An assertion fails: the system stops.
cmd_cb_panic(id) ==
  /\ cpu = "CNA" /\ "CNA" \in seen
  /\ ~OfKernel(id) /\ ~HeadMatches(id)
  /\ panic' = TRUE
  /\ UNCHANGED <<ethVars, state, killed, ret, cmd_q, recv_list, tooLarge, refused>>

sysnet_cmd_cb ==
  LET id == commands[current_cmd].id
  IN  current_cmd # 0 /\ (cmd_cb_kernel(id) \/ cmd_cb_wake(id) \/ cmd_cb_panic(id))

-----------------------------------------------------------------------------
Frames == [kind : {"other", "arp"}] \cup [kind : {"udp"}, port : Ports]

NetCall ==
  \E p \in Pids :
    \/ \E len \in TxLengths : sysnet_send(p, len, TRUE)
    \/ sysnet_send(p, EmptyLength, FALSE)
    \/ sysnet_setMAC(p)
    \/ \E port \in Ports : sysnet_recv(p, port)
    \/ \E victim \in Pids : sys_kill(p, victim)

NetDevice == (CommandEnds \/ \E f \in Frames : FrameArrives(f)) /\ ~panic /\ UNCHANGED procVars

NetEnter == eth_isr_read /\ ~panic /\ UNCHANGED procVars

NetIsr ==
  /\ ~panic /\ ~fault
  /\ \/ (eth_isr_ack \/ eth_isr_no_frame \/ eth_isr_no_command) /\ UNCHANGED procVars
     \/ eth_isr_frame(sysnet_recv_cb)
     \/ sysnet_cmd_cb

NetNext == NetCall \/ NetDevice \/ NetEnter \/ NetIsr

NetSpec == NetInit /\ [][NetNext]_netVars

\* Fairness: the command unit finishes what it runs, the interrupt is taken
\* (strong: interrupts are on whenever user code runs; Interrupts), and the
\* handler runs on.
NetFairSpec ==
  /\ NetSpec
  /\ WF_netVars(CommandEnds /\ NetDevice) /\ SF_netVars(NetEnter) /\ WF_netVars(NetIsr)

-----------------------------------------------------------------------------
\* Of the outstanding commands those that a process waits for, and how many of them
\* there are up to the i-th outstanding command.
Asked(i)    == commands[Outstanding[i]].id
Askers      == {i \in DOMAIN Outstanding : Asked(i) # 0}
AskersTo(i) == Cardinality({j \in Askers : j <= i})

\* As long as no command was refused, the processes queued for a command are
\* those the driver will name, in the order it will name them, whatever the
\* kernel sends in between; so no assertion fails (sysnet.c:222-225).
QueuesInStep ==
  ~refused /\ ~fault =>
    /\ ~panic
    /\ Len(cmd_q) = Cardinality(Askers)
    /\ \A i \in Askers : cmd_q[AskersTo(i)] = Asked(i)

\* Every blocked process, a killed one too, waits in exactly one place, whoever
\* waits somewhere is blocked, and nobody keeps a kill mark after that
\* (sysnet.c:61-64, 93-102, 160-166).
BlockedOnce ==
  LET Sleepers == {s \in Slots : recv_list[s] # FreeSlot}
      Waits(p) == Cardinality({s \in Sleepers : recv_list[s].proc = p})
                  + Cardinality({i \in DOMAIN cmd_q : cmd_q[i] = p})
  IN  \A p \in Pids : /\ Waits(p) = (IF state[p] = "blocked" THEN 1 ELSE 0)
                      /\ p \in killed => state[p] = "blocked"

\* Processes and queues agree: each waits in one place, in the driver's order.
CallersInStep == QueuesInStep /\ BlockedOnce

Stopped == refused \/ fault \/ panic

InCommandQueue(p) == \E i \in DOMAIN cmd_q : cmd_q[i] = p

\* A process that waits for its command runs again or ends, unless a completion was
\* missed (sysnet.c:64, 236); and a datagram that the receive unit took, and the
\* handler did not miss, wakes everyone who waits for its port when it comes, the
\* killed to end (sysnet.c:125-168).
CallersWake ==
  /\ \A p \in Pids :
       InCommandQueue(p) ~> (~InCommandQueue(p) \/ Stopped \/ "CNA" \in missed)
  /\ \A s \in Slots, port \in Ports :
       (~ru /\ frame = [kind |-> "udp", port |-> port] /\ recv_list[s].port = port)
         ~> (recv_list[s] = FreeSlot \/ Stopped \/ "FR" \in missed)
=============================================================================
