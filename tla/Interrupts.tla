----------------------------- MODULE Interrupts -----------------------------
(***************************************************************************)
(* What happens around a handler: isr_save and __isr_restore               *)
(* (isr_stubs.S), which put the registers of the interrupted program on    *)
(* its stack and take those of the then current process from its own; the  *)
(* stacks and contexts of new processes (_proc_create); the library's side *)
(* of a system call (ulibs.S); and the end-of-interrupt commands of all    *)
(* handlers, with the controllers of Pic.                                  *)
(*                                                                         *)
(* A stack is the sequence of its words, the last one on top; a context    *)
(* pointer is the height of the stack above which it lies.  What handlers  *)
(* do to processes is reduced to: they answer, block, wake, create, end,   *)
(* and dispatch any ready process; module Kernel says which one.           *)
(***************************************************************************)
EXTENDS Pic, Sequences, SequencesExt, FiniteSets

CONSTANTS
  Pcb,       \* the PCBs; each goes with one stack.  They are strings.
  InitPcb, IdlePcb,
  Machines,  \* BOUND: which devices a machine has, and the PCBs that fit into it
  Entry, Prio, Arg1, Arg2, Status   \* what programs pass to spawn() and exit()

ASSUME PcbAssumption ==
  IsFiniteSet(Pcb) /\ InitPcb \in Pcb /\ IdlePcb \in Pcb \ {InitPcb}
\* No program starts inside a function of the library.
ASSUME EntryAssumption == Entry # "stub"
ASSUME MachineAssumption ==
  Machines \subseteq [devices : SUBSET Lines, pcbs : SUBSET (Pcb \ {InitPcb, IdlePcb})]

VARIABLES
  cpu,       \* "user", "isr" or "restore"
  vector,    \* of the handler
  current,   \* _current
  reg,       \* the registers of the running program
  stack,     \* by PCB; that of the running program is the one ESP points into
  context,   \* by PCB: where the saved registers lie, or a link of free_pcbs
  state,
  free_pcbs,
  passed,    \* history, by PCB: code and arguments of its last call
  expected   \* history, by PCB: registers and stack when it runs again

procVars == <<stack, context, state, free_pcbs, passed, expected>>
vars     == <<picVars, cpu, vector, current, reg, procVars>>

General  == {"eax", "ecx", "edx", "ebx", "ebp", "esi", "edi"}
Segments == {"ds", "es", "fs", "gs"}
VectorOf(line) == 32 + line
SysVector == 128
FreeLink  == 0     \* the context field of a free PCB

-----------------------------------------------------------------------------
(***************************************************************************)
(* Contexts                                                                *)
(***************************************************************************)

\* The members of context_t, in the order of their addresses.
Fields == <<"ss", "gs", "fs", "es", "ds", "edi", "esi", "ebp", "esp", "ebx", "edx",
            "ecx", "eax", "vector", "code", "eip", "cs", "eflags">>

\* Defect: PUSHA is taken to push EBX first.
Pushed_Order(r) ==
  <<r["eflags"], r["cs"], r["eip"], "code", "vector", r["ebx"], r["ecx"], r["edx"], r["eax"],
    "esp", r["ebp"], r["esi"], r["edi"], r["ds"], r["es"], r["fs"], r["gs"], r["ss"]>>

\* What the processor, the stub of the vector and isr_save push, PUSHA included.
Pushed(r) ==
  <<r["eflags"], r["cs"], r["eip"], "code", "vector", r["eax"], r["ecx"], r["edx"], r["ebx"],
    "esp", r["ebp"], r["esi"], r["edi"], r["ds"], r["es"], r["fs"], r["gs"], r["ss"]>>

ContextSize == Len(Fields)
Offset(field) == CHOOSE i \in 1 .. ContextSize : Fields[i] = field

\* Where a field of a saved context lies: REG.  Argument 0 is the return address.
RegAt(p, field) == context[p] + 1 - Offset(field)
ArgAt(p, n)     == context[p] - ContextSize - n
REG(p, field)   == stack[p][RegAt(p, field)]
ARG(p, n)       == stack[p][ArgAt(p, n)]

\* The stacks when the processes in S are answered: RET.
Answered(S, answer) ==
  [p \in Pcb |-> IF p \in S THEN [stack[p] EXCEPT ![RegAt(p, "eax")] = answer]
                 ELSE stack[p]]

Expecting(S, answer) ==
  [p \in Pcb |-> IF p \in S THEN [reg   |-> [expected[p].reg EXCEPT !["eax"] = answer],
                                  stack |-> expected[p].stack]
                 ELSE expected[p]]

-----------------------------------------------------------------------------
(***************************************************************************)
(* Processes                                                               *)
(***************************************************************************)

Unset == "junk"    \* what the stack held before

\* The context of a new process.
NewContext(entry) ==
  <<"IF", "code segment", entry, Unset, Unset, Unset, Unset, Unset, Unset, Unset, Unset, Unset,
    Unset, "data segment", "data segment", "data segment", "data segment", "stack segment">>

\* Defect: no scratch space.
NewStack_Bare(entry, arg1, arg2) == <<arg2, arg1, "exit_helper">> \o NewContext(entry)

\* The stack of a new process: scratch space, a call of the entry point that
\* returns to exit_helper, and the context.
NewStack(entry, arg1, arg2) == <<"scratch", "scratch", arg2, arg1, "exit_helper">> \o NewContext(entry)

\* What a process is promised at its start: the registers that matter and the stack.
Fresh(entry, arg1, arg2) ==
  [reg   |-> [r \in Segments \cup {"ss", "cs", "eip", "eflags"} |->
               CASE r \in Segments -> "data segment"
                 [] r = "ss"       -> "stack segment"
                 [] r = "cs"       -> "code segment"
                 [] r = "eip"      -> entry
                 [] r = "eflags"   -> "IF"],
   stack |-> <<"scratch", "scratch", arg2, arg1, "exit_helper">>]

\* The handler's own use of the registers.
InKernel == [r \in General \cup Segments \cup {"ss", "cs", "eip", "eflags"} |-> "kernel"]

Nobody == [reg |-> <<>>, stack |-> <<>>]
NoCall == <<>>

\* _proc_create for a PCB taken from the list.
proc_create(p, entry, arg1, arg2) ==
  /\ stack' = [Answered({current}, "pid") EXCEPT ![p] = NewStack(entry, arg1, arg2)]
  /\ context' = [context EXCEPT ![p] = Len(NewStack(entry, arg1, arg2))]
  /\ expected' = [Expecting({current}, "pid") EXCEPT
                    ![p] = Fresh(passed[current][2], passed[current][4], passed[current][5])]

\* Processes that wait are made ready, and the current one gets a new state.
Blocked == {p \in Pcb : state[p] = "blocked"}
After(S, own) ==
  [p \in Pcb |-> IF p \in S THEN "ready" ELSE IF p = current THEN own ELSE state[p]]

\* _dispatch: some process of those that are ready then.
dispatch(states) ==
  \E new \in Pcb :
    /\ states[new] = "ready"
    /\ current' = new
    /\ state' = [p \in Pcb |-> IF p = new THEN "running" ELSE states[p]]

\* The first process is dispatched by _init; it has created idle.
Init ==
  /\ PicInit
  /\ cpu = "restore" /\ vector = 0 /\ current = InitPcb
  /\ reg = InKernel
  /\ stack = [p \in Pcb |-> IF p \in {InitPcb, IdlePcb} THEN NewStack(Entry, Arg1, Arg2) ELSE <<>>]
  /\ context = [p \in Pcb |-> IF p \in {InitPcb, IdlePcb} THEN Len(NewStack(Entry, Arg1, Arg2))
                              ELSE FreeLink]
  /\ state = [p \in Pcb |-> IF p = InitPcb THEN "running"
                            ELSE IF p = IdlePcb THEN "ready" ELSE "unused"]
  /\ \E machine \in Machines : devices = machine.devices /\ free_pcbs = SetToSeq(machine.pcbs)
  /\ passed = [p \in Pcb |-> NoCall]
  /\ expected = [p \in Pcb |-> IF p \in {InitPcb, IdlePcb} THEN Fresh(Entry, Arg1, Arg2)
                               ELSE Nobody]

-----------------------------------------------------------------------------
(***************************************************************************)
(* Entry and exit                                                          *)
(***************************************************************************)

InUser == cpu = "user"

\* A program with registers r and stack s is interrupted: the context goes onto
\* its stack, and the PCB points to it.
isr_save(number, r, s) ==
  /\ stack' = [stack EXCEPT ![current] = s \o Pushed(r)]
  /\ context' = [context EXCEPT ![current] = Len(stack'[current])]
  /\ expected' = [expected EXCEPT ![current] = [reg |-> r, stack |-> s]]
  /\ reg' = InKernel
  /\ cpu' = "isr" /\ vector' = number
  /\ UNCHANGED <<current, state, free_pcbs>>

isr_restore ==
  /\ cpu = "restore"
  /\ reg' = [r \in DOMAIN reg |-> REG(current, r)]
  /\ stack' = [stack EXCEPT ![current] = SubSeq(@, 1, context[current] - ContextSize)]
  /\ cpu' = "user"
  /\ expected' = [expected EXCEPT ![current] = Nobody]
  /\ UNCHANGED <<picVars, vector, current, context, state, free_pcbs, passed>>

\* The running program is interrupted between two instructions.
Interrupted(number) ==
  /\ InUser /\ reg["eflags"] = "IF"
  /\ isr_save(number, reg, stack[current])
  /\ UNCHANGED passed

Interrupt(line) == Acknowledge(line) /\ Interrupted(VectorOf(line))
Spurious        == AcknowledgeNone /\ Interrupted(VectorOf(Mystery))

-----------------------------------------------------------------------------
(***************************************************************************)
(* Handlers.  Each ends with its end-of-interrupt commands.                *)
(***************************************************************************)

Handler(number) ==
  /\ cpu = "isr" /\ vector = number
  /\ cpu' = "restore" /\ vector' = 0
  /\ UNCHANGED <<reg, passed>>

EndPrimary   == isr1' = Ended(isr1) /\ UNCHANGED <<devices, isr2, asked>>
EndSecondary == isr2' = Ended(isr2) /\ UNCHANGED <<devices, isr1, asked>>

\* Processes that wait are answered and made ready; the current one runs on.
wake(S) ==
  /\ state' = After(S, "running")
  /\ stack' = Answered(S, "input")
  /\ expected' = Expecting(S, "input")
  /\ UNCHANGED <<current, context, free_pcbs>>

\* Sleepers wake; then the slice may have ended.
clk_isr ==
  /\ Handler(VectorOf(Timer))
  /\ EndPrimary /\ UNCHANGED <<irr, withdrawn>>
  /\ \E S \in SUBSET Blocked :
       \/ state' = After(S, "running") /\ UNCHANGED current
       \/ dispatch(After(S, "ready"))
  /\ UNCHANGED <<stack, context, free_pcbs, expected>>

c_keyboard_isr ==
  /\ Handler(VectorOf(Keyboard))
  /\ EndPrimary /\ UNCHANGED <<irr, withdrawn>>
  /\ UNCHANGED <<current, procVars>>

\* Every character wakes a reader.
sio_isr ==
  /\ Handler(VectorOf(Serial))
  /\ EndPrimary /\ UNCHANGED <<irr, withdrawn>>
  /\ \E S \in SUBSET Blocked : wake(S)

\* Defect: the ethernet handler tells nobody.
eth_isr_NoEoi ==
  /\ Handler(VectorOf(EthLine))
  /\ UNCHANGED picVars
  /\ \E S \in SUBSET Blocked : wake(S)

eth_isr ==
  /\ Handler(VectorOf(EthLine))
  /\ EndSecondary /\ UNCHANGED <<irr, withdrawn>>
  /\ \E S \in SUBSET Blocked : wake(S)

default_mystery_handler ==
  /\ Handler(VectorOf(Mystery))
  /\ EndPrimary /\ UNCHANGED <<irr, withdrawn>>
  /\ UNCHANGED <<current, procVars>>

\* Defect: system calls leave the controllers alone.
EndCall_None == UNCHANGED <<devices, isr1, isr2, asked>>

EndCall == EndPrimary

SysCall(codes) ==
  /\ Handler(SysVector)
  /\ REG(current, "eax") \in codes
  /\ EndCall

\* Calls that return at once, with an answer or without.  One that reads the
\* console polls the keyboard.
sys_quick ==
  /\ SysCall({"other"})
  /\ Withdraw \/ UNCHANGED <<irr, withdrawn>>
  /\ \E S \in SUBSET {current} :
       stack' = Answered(S, "answer") /\ expected' = Expecting(S, "answer")
  /\ UNCHANGED <<current, context, state, free_pcbs>>

\* Calls that block.
sys_block ==
  /\ SysCall({"other"})
  /\ current # IdlePcb
  /\ dispatch(After({}, "blocked"))
  /\ UNCHANGED <<irr, withdrawn, stack, context, free_pcbs, expected>>

\* Calls that give up the processor.
sys_yield ==
  /\ SysCall({"other"})
  /\ dispatch(After({}, "ready"))
  /\ UNCHANGED <<irr, withdrawn, stack, context, free_pcbs, expected>>

\* Entry point and arguments are read from the caller's stack.
sys_spawn ==
  /\ SysCall({"spawn"})
  /\ free_pcbs # <<>>
  /\ proc_create(Head(free_pcbs), ARG(current, 1), ARG(current, 3), ARG(current, 4))
  /\ free_pcbs' = Tail(free_pcbs)
  /\ state' = [state EXCEPT ![Head(free_pcbs)] = "ready"]
  /\ UNCHANGED <<irr, withdrawn, current>>

sys_spawn_fails ==
  /\ SysCall({"spawn"})
  /\ free_pcbs = <<>>
  /\ stack' = Answered({current}, "error") /\ expected' = Expecting({current}, "error")
  /\ UNCHANGED <<irr, withdrawn, current, context, state, free_pcbs>>

\* The PCB and the stack are free for the next process; the link of the free
\* list takes the place of the context.
free_pcb(p) ==
  /\ free_pcbs' = <<p>> \o free_pcbs
  /\ context' = [context EXCEPT ![p] = FreeLink]

\* A process ends, and its parent if that waits is answered.
ends(p, S) ==
  /\ free_pcb(p)
  /\ stack' = [Answered(S, "child") EXCEPT ![p] = <<>>]
  /\ expected' = [Expecting(S, "child") EXCEPT ![p] = Nobody]

sys_exit ==
  /\ SysCall({"exit"})
  /\ \E S \in SUBSET Blocked :
       ends(current, S) /\ dispatch(After(S, "unused"))
  /\ UNCHANGED <<irr, withdrawn>>

\* A process that waits is killed: it ends at once.
sys_kill_waiting ==
  /\ SysCall({"other"})
  /\ \E victim \in Blocked \ {InitPcb} : \E S \in SUBSET (Blocked \ {victim}) :
       ends(victim, S) /\ state' = [After(S, "running") EXCEPT ![victim] = "unused"]
  /\ UNCHANGED <<irr, withdrawn, current>>

-----------------------------------------------------------------------------
(***************************************************************************)
(* Programs                                                                *)
(***************************************************************************)

\* A program computes: the registers hold values of its own.
Compute ==
  /\ InUser /\ reg["eip"] # "stub"
  /\ reg' = [r \in DOMAIN reg |-> IF r \in General THEN r \o current ELSE reg[r]]
  /\ Executed
  /\ UNCHANGED <<cpu, vector, current, procVars>>

\* It calls a function of the library, which runs up to INT: the arguments are
\* pushed, the last one first, then the return address; EAX has the code.
Calls(code, args, s, from) ==
  /\ isr_save(SysVector, [reg EXCEPT !["eax"] = code, !["eip"] = "stub"],
              s \o Reverse(args) \o <<from>>)
  /\ passed' = [passed EXCEPT ![current] = <<code>> \o args]
  /\ Executed

Running == InUser /\ reg["eip"] # "stub"

\* init and idle do not exit, and idle does not spawn.
Call ==
  /\ Running
  /\ \/ Calls("other", <<>>, stack[current], reg["eip"])
     \/ /\ current # IdlePcb
        /\ Calls("spawn", <<Entry, Prio, Arg1, Arg2>>, stack[current], reg["eip"])
     \/ /\ current \notin {InitPcb, IdlePcb}
        /\ Calls("exit", <<Status>>, stack[current], reg["eip"])

\* main() returns, to exit_helper, which calls exit(%eax).
MainReturns ==
  /\ Running
  /\ current \notin {InitPcb, IdlePcb}
  /\ Last(stack[current]) = "exit_helper"
  /\ Calls("exit", <<reg["eax"]>>, Front(stack[current]), "exit_helper")

\* The library function returns, and its caller removes the arguments.
Returns ==
  /\ InUser /\ reg["eip"] = "stub"
  /\ reg' = [reg EXCEPT !["eip"] = Last(stack[current])]
  /\ stack' = [stack EXCEPT ![current] = SubSeq(@, 1, Len(@) - Len(passed[current]))]
  /\ passed' = [passed EXCEPT ![current] = NoCall]
  /\ Executed
  /\ UNCHANGED <<cpu, vector, current, context, state, free_pcbs, expected>>

-----------------------------------------------------------------------------
sys_isr == \/ sys_quick \/ sys_block \/ sys_yield \/ sys_spawn \/ sys_spawn_fails
           \/ sys_exit \/ sys_kill_waiting

Kernel == \/ clk_isr \/ c_keyboard_isr \/ sio_isr \/ eth_isr \/ default_mystery_handler
          \/ sys_isr \/ isr_restore

Program == Compute \/ Call \/ MainReturns \/ Returns

Device == \E line \in Lines : Request(line) /\ UNCHANGED <<cpu, vector, current, reg, procVars>>

Accept == (\E line \in Lines : Interrupt(line)) \/ Spurious

Next == Device \/ Accept \/ Kernel \/ Program

Spec == Init /\ [][Next]_vars

\* The processor runs on, and takes an interrupt that is pending.
FairSpec == Spec /\ WF_vars(Kernel \/ Program) /\ SF_vars(Accept)

-----------------------------------------------------------------------------
(***************************************************************************)
(* Properties                                                              *)
(***************************************************************************)

TypeOK ==
  /\ PicTypeOK
  /\ cpu \in {"user", "isr", "restore"}
  /\ vector \in {0, SysVector} \cup {VectorOf(l) : l \in Lines \cup {Mystery}}
  /\ current \in Pcb /\ state[current] = "running"

\* A program that is interrupted, by a device or by a call of its own, goes on
\* with the registers and the stack it had, but for the answer in EAX, whoever
\* ran, was created or ended in between; a new process starts at the entry point,
\* with the arguments and the segments and flags that its creator and the kernel
\* chose, and returns to exit_helper.
ContextsKept ==
  [][cpu = "restore" /\ cpu' = "user" =>
       /\ \A r \in DOMAIN expected[current].reg : reg'[r] = expected[current].reg[r]
       /\ stack'[current] = expected[current].stack]_vars

\* What the kernel reads as code and arguments of a call is what the program
\* passed, also when main() returns; and a call with fewer arguments does not make
\* it read behind the end of the stack.
ArgumentsRead ==
  vector = SysVector =>
    /\ REG(current, "eax") = passed[current][1]
    /\ \A n \in 1 .. Len(passed[current]) - 1 : ARG(current, n) = passed[current][n + 1]
    /\ ArgAt(current, 4) >= 1

\* When a program runs no interrupt is in service, except that the primary
\* controller may not have been told of the end of one from the secondary.  So the
\* end-of-interrupt of each handler, which names no line, is for its own.
NoneInService == InUser => isr2 = {} /\ isr1 \subseteq {Secondary}

\* Every request is served.  The timer's and the keyboard's are whatever programs
\* do; those of the network card if programs keep making system calls, whose
\* end-of-interrupt is the first to reach the primary controller's line 2; those of
\* the serial line when, moreover, the network card has become quiet.
RequestsServed ==
  /\ \A line \in {Timer, Keyboard} : line \in irr ~> line \notin irr
  /\ []<><<sys_isr>>_vars => (EthLine \in irr ~> EthLine \notin irr)
  /\ []<><<sys_isr>>_vars /\ <>[](EthLine \notin irr) => (Serial \in irr ~> Serial \notin irr)
=============================================================================
