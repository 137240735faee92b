-------------------------- MODULE InterruptsProofs --------------------------
(***************************************************************************)
(* Proofs about Interrupts, for every finite set of PCBs, every collection *)
(* of machines, every line of the network card and all arguments.          *)
(*                                                                         *)
(* The first part: no interrupt is in service when a program runs, but for *)
(* line 2 of the primary controller.  An end-of-interrupt names no line,   *)
(* so the claim depends on what each handler finds in service: that is     *)
(* InService, the inductive invariant.                                     *)
(*                                                                         *)
(* The second part: the kernel reads the arguments that were passed, and   *)
(* programs go on with the registers and the stack they had.  Both follow  *)
(* from where every saved context lies, and the invariant of that,         *)
(* ContextInv, also needs the frame of the call a program is in, and that  *)
(* no PCB is on the free list twice or while its process lives.            *)
(***************************************************************************)
EXTENDS Interrupts, SequenceTheorems, FiniteSetTheorems, TLAPS

\* Nothing is in service but, perhaps, line 2 of the primary controller.
Quiet == isr2 = {} /\ isr1 \subseteq {Secondary}

\* What is in service while a handler runs: its own line and perhaps line 2 below
\* it, which a serial interrupt cannot find there; the network card's line on
\* the secondary controller; nothing of their own for a system call and a spurious
\* interrupt.
InHandler ==
  \/ vector \in {SysVector, VectorOf(Mystery)} /\ Quiet
  \/ \E line \in {Timer, Keyboard} :
       /\ vector = VectorOf(line)
       /\ isr2 = {} /\ line \in isr1 /\ isr1 \subseteq {line, Secondary}
  \/ vector = VectorOf(Serial) /\ isr2 = {} /\ isr1 = {Serial}
  \/ vector = VectorOf(EthLine) /\ isr2 = {EthLine} /\ isr1 = {Secondary}

InService ==
  \/ cpu \in {"user", "restore"} /\ Quiet
  \/ cpu = "isr" /\ InHandler

-----------------------------------------------------------------------------
(***************************************************************************)
(* The controllers                                                         *)
(***************************************************************************)

\* The card's vector is no other handler's, and it is on line 2 of the primary
\* controller.
LEMMA CardsLine ==
  /\ EthLine \in Nat /\ EthLine >= 8 /\ EthLine <= 15
  /\ PrimaryLine(EthLine) = Secondary
  /\ \A line \in {Timer, Keyboard, Serial} : PrimaryLine(line) = line
BY EthLineAssumption DEF PrimaryLine, Timer, Keyboard, Serial, Secondary

\* An end-of-interrupt ends the one interrupt that is in service.
LEMMA EndedOne ==
  ASSUME NEW line \in Nat
  PROVE  Ended({line}) = {}
BY DEF Ended

\* It spares line 2 if a line of higher priority is in service, and it ends line 2
\* if none is.
LEMMA EndedAbove ==
  ASSUME NEW line \in {Timer, Keyboard}, NEW lines, line \in lines, lines \subseteq {line, Secondary}
  PROVE  Ended(lines) \subseteq {Secondary}
<1>1. ~(line < line) /\ ~(Secondary < line)
  BY DEF Timer, Keyboard, Secondary
<1>2. line \notin Ended(lines)
  BY <1>1 DEF Ended
<1> QED BY <1>2 DEF Ended

LEMMA EndedQuiet ==
  ASSUME NEW lines, lines \subseteq {Secondary}
  PROVE  Ended(lines) = {}
<1>1. ~(Secondary < Secondary)
  BY DEF Secondary
<1>2. Secondary \notin Ended(lines)
  BY <1>1 DEF Ended
<1> QED BY <1>2 DEF Ended

-----------------------------------------------------------------------------
(***************************************************************************)
(* The steps                                                               *)
(***************************************************************************)

\* A program is interrupted by a device: its line is now in service.
LEMMA StepInterrupt ==
  ASSUME InService, NEW line \in Lines, Interrupt(line)
  PROVE  InService'
<1> USE DEF Interrupt, Interrupted, InUser, isr_save, Acknowledge, Delivered, Passed
<1>1. Quiet /\ cpu' = "isr" /\ vector' = VectorOf(line)
  BY DEF InService
<1>2. CASE line \in {Timer, Keyboard}
  <2>1. line < 8 /\ PrimaryLine(line) = line
    BY <1>2, CardsLine DEF Timer, Keyboard
  <2>2. isr1' = isr1 \cup {line} /\ isr2' = isr2
    BY <2>1, <1>2, CardsLine DEF Timer, Keyboard
  <2> QED BY <1>1, <1>2, <2>2 DEF InService, InHandler, Quiet
<1>3. CASE line = Serial
  <2>1. isr1' = isr1 \cup {Serial} /\ isr2' = isr2
    BY <1>3, CardsLine DEF Serial
  <2>2. isr1 = {}
    BY <1>1, <1>3, CardsLine DEF Quiet, Serial, Secondary
  <2> QED BY <1>1, <1>3, <2>1, <2>2 DEF InService, InHandler, Quiet
<1>4. CASE line = EthLine
  <2>1. isr1' = isr1 \cup {Secondary} /\ isr2' = isr2 \cup {EthLine}
    BY <1>4, CardsLine
  <2>2. isr1 = {}
    BY <1>1, <1>4, CardsLine DEF Quiet, Secondary
  <2> QED BY <1>1, <1>4, <2>1, <2>2 DEF InService, InHandler, Quiet
<1> QED BY <1>2, <1>3, <1>4 DEF Lines

\* It is interrupted by nothing, or it traps: nothing more is in service.
LEMMA StepEnter ==
  ASSUME InService, UNCHANGED <<isr1, isr2>>, cpu = "user", cpu' = "isr",
         vector' \in {SysVector, VectorOf(Mystery)}
  PROVE  InService'
BY DEF InService, InHandler, Quiet

\* A step that changes neither what is in service nor where the processor is.
LEMMA StepAside ==
  ASSUME InService, UNCHANGED <<isr1, isr2, cpu, vector>>
  PROVE  InService'
BY DEF InService, InHandler, Quiet

\* The vectors differ, so a handler knows what it finds in service.
LEMMA OneHandler ==
  ASSUME InService, cpu = "isr"
  PROVE  /\ vector \in {SysVector, VectorOf(Mystery)} => Quiet
         /\ \A line \in {Timer, Keyboard} :
              vector = VectorOf(line) => isr2 = {} /\ line \in isr1 /\ isr1 \subseteq {line, Secondary}
         /\ vector = VectorOf(Serial) => isr2 = {} /\ isr1 = {Serial}
         /\ vector = VectorOf(EthLine) => isr2 = {EthLine} /\ isr1 = {Secondary}
BY CardsLine DEF InService, InHandler, VectorOf, SysVector, Mystery, Timer, Keyboard, Serial

\* The handlers of the timer and the keyboard end their own interrupt.
LEMMA StepTimerKeyboard ==
  ASSUME InService, clk_isr \/ c_keyboard_isr
  PROVE  InService'
<1>1. PICK line \in {Timer, Keyboard} : Handler(VectorOf(line)) /\ EndPrimary
  BY DEF clk_isr, c_keyboard_isr
<1>2. isr2 = {} /\ line \in isr1 /\ isr1 \subseteq {line, Secondary}
  BY <1>1, OneHandler DEF Handler
<1>3. isr1' \subseteq {Secondary}
  BY <1>1, <1>2, EndedAbove DEF EndPrimary
<1> QED BY <1>1, <1>2, <1>3 DEF Handler, EndPrimary, InService, Quiet

\* So does that of the serial line.
LEMMA StepSerial ==
  ASSUME InService, sio_isr
  PROVE  InService'
<1>1. isr2 = {} /\ isr1 = {Serial}
  BY OneHandler DEF sio_isr, Handler
<1>2. isr1' = {}
  BY <1>1, EndedOne DEF sio_isr, EndPrimary, Serial
<1> QED BY <1>1, <1>2 DEF sio_isr, Handler, EndPrimary, InService, Quiet

\* That of the network card ends it on the secondary controller, and leaves line 2.
LEMMA StepCard ==
  ASSUME InService, eth_isr
  PROVE  InService'
<1>1. isr2 = {EthLine} /\ isr1 = {Secondary}
  BY OneHandler DEF eth_isr, Handler
<1>2. isr2' = {}
  BY <1>1, EndedOne, CardsLine DEF eth_isr, EndSecondary
<1> QED BY <1>1, <1>2 DEF eth_isr, Handler, EndSecondary, InService, Quiet

\* System calls and spurious interrupts have none of their own to end: theirs ends
\* line 2 if that is in service.
LEMMA StepOthers ==
  ASSUME InService, sys_isr \/ default_mystery_handler
  PROVE  InService'
<1>1. PICK number \in {SysVector, VectorOf(Mystery)} : Handler(number) /\ EndPrimary
  BY DEF sys_isr, sys_quick, sys_block, sys_yield, sys_spawn, sys_spawn_fails, sys_exit,
         sys_kill_waiting, SysCall, EndCall, default_mystery_handler
<1>2. Quiet
  BY <1>1, OneHandler DEF Handler
<1>3. isr1' = {}
  BY <1>1, <1>2, EndedQuiet DEF EndPrimary, Quiet
<1> QED BY <1>1, <1>2, <1>3 DEF Handler, EndPrimary, InService, Quiet

LEMMA NextInService ==
  ASSUME InService, [Next]_vars
  PROVE  InService'
<1>1. CASE Device
  BY <1>1, StepAside DEF Device, Request
<1>2. CASE \E line \in Lines : Interrupt(line)
  BY <1>2, StepInterrupt
<1>3. CASE Spurious
  BY <1>3, StepEnter DEF Spurious, AcknowledgeNone, Interrupted, InUser, isr_save
<1>4. CASE Kernel
  <2>1. CASE isr_restore
    BY <2>1 DEF isr_restore, picVars, InService, Quiet
  <2> QED BY <1>4, <2>1, StepTimerKeyboard, StepSerial, StepCard, StepOthers DEF Kernel
<1>5. CASE Compute \/ Returns
  BY <1>5, StepAside DEF Compute, Returns, Executed, procVars
<1>6. CASE Call \/ MainReturns
  <2>1. /\ cpu = "user" /\ cpu' = "isr" /\ vector' = SysVector
        /\ UNCHANGED <<isr1, isr2>>
    BY <1>6 DEF Call, MainReturns, Running, InUser, Calls, isr_save, Executed
  <2> QED BY <2>1, StepEnter, SMTT(40)
<1>7. CASE UNCHANGED vars
  BY <1>7, StepAside DEF vars, picVars
<1> QED BY <1>1, <1>2, <1>3, <1>4, <1>5, <1>6, <1>7 DEF Next, Accept, Program

\* Whenever a program runs, nothing is in service but line 2 of the primary
\* controller, so every end-of-interrupt was for the handler's own line (the calls
\* of __outb in clock.c, cio.c, sio.c, eth.c, syscalls.c and support.c).
THEOREM NothingInService == Spec => []NoneInService
<1>1. Init => InService
  BY DEF Init, PicInit, InService, Quiet
<1>2. InService /\ [Next]_vars => InService'
  BY NextInService
<1>3. InService => NoneInService
  BY DEF InService, NoneInService, InUser, Quiet
<1> QED BY <1>1, <1>2, <1>3, PTL DEF Spec

-----------------------------------------------------------------------------
(***************************************************************************)
(* Contexts: the invariant                                                 *)
(***************************************************************************)

Registers == General \cup Segments \cup {"ss", "cs", "eip", "eflags"}

\* What registers and stacks may hold.
Literals ==
  {"code", "vector", "esp", "kernel", Unset, "scratch", "exit_helper", "IF", "code segment",
   "data segment", "stack segment", "stub", "other", "spawn", "exit",
   "pid", "input", "answer", "error", "child"}
\* What a program computes.
OwnValue(r, p) == r \o p
Computed == {OwnValue(r, p) : r \in General, p \in Pcb}
Words    == Literals \cup {Entry, Prio, Arg1, Arg2, Status} \cup Computed

RegFiles == UNION {[some -> Words] : some \in SUBSET Registers}

ContextTypes ==
  /\ cpu \in {"user", "isr", "restore"}
  /\ current \in Pcb
  /\ reg \in [Registers -> Words]
  /\ stack \in [Pcb -> Seq(Words)]
  /\ context \in [Pcb -> Nat]
  /\ state \in [Pcb -> {"running", "ready", "blocked", "unused"}]
  /\ free_pcbs \in Seq(Pcb)
  /\ passed \in [Pcb -> Seq(Words)]
  /\ expected \in [Pcb -> [reg : RegFiles, stack : Seq(Words)]]

\* PCBs on the free list are unused and on it once; one process runs.
PcbsFree ==
  /\ \A p \in Pcb : state[p] = "running" <=> p = current
  /\ \A i \in 1 .. Len(free_pcbs) : state[free_pcbs[i]] = "unused"
  /\ \A i, j \in 1 .. Len(free_pcbs) : free_pcbs[i] = free_pcbs[j] => i = j

\* The lowest n words of a stack are those of another; above them are those of a
\* context, or a saved context with given registers.
Below(u, n, s)  == \A i \in 1 .. n : u[i] = s[i]
OnTop(u, n, t)  == \A i \in 1 .. Len(t) : u[n + i] = t[i]
InContext(t, regs) == \A r \in DOMAIN regs : t[19 - Offset(r)] = regs[r]
Above(u, n, regs)  == \A r \in DOMAIN regs : u[n + 19 - Offset(r)] = regs[r]

\* A stack s of that size is the one a program expects, and on top of it a context
\* with the registers it expects.
Holds(s, size, e) ==
  /\ size = Len(s)
  /\ size = Len(e.stack) + 18
  /\ Below(s, Len(e.stack), e.stack)
  /\ Above(s, Len(e.stack), e.reg)
  /\ "eip" \in DOMAIN e.reg

Saved(p) == Holds(stack[p], context[p], expected[p])

\* The registers and the stack of the program itself.
Runs(p)      == p = current /\ cpu = "user"
UserStack(p) == IF Runs(p) THEN stack[p] ELSE expected[p].stack
UserEip(p)   == IF Runs(p) THEN reg["eip"] ELSE expected[p].reg["eip"]

\* The top of a stack in a call: arguments and return address, above the
\* words of the process's start, of which main() may have used up one.
CallFrame(s, call) ==
  /\ call # <<>>
  /\ call[1] = "spawn" => Len(call) = 5 /\ call[2] # "stub"
  /\ Len(s) >= Len(call) + 4
  /\ call[1] # "exit" => Len(s) >= Len(call) + 5
  /\ \A n \in 1 .. Len(call) - 1 : s[Len(s) - n] = call[n + 1]
  /\ s[Len(s)] # "stub"

Framed(p) ==
  /\ Len(UserStack(p)) >= 5
  /\ UserEip(p) = "stub" => CallFrame(UserStack(p), passed[p])

\* A call of exit() does not return.
Exiting(p) == UserEip(p) = "stub" /\ passed[p][1] = "exit"

\* In the handler of system calls the code is that of the call.
Trapped ==
  /\ cpu = "isr"
  /\ UserEip(current) = "stub"
  /\ "eax" \in DOMAIN expected[current].reg
  /\ expected[current].reg["eax"] = passed[current][1]

ContextInv ==
  /\ ContextTypes
  /\ PcbsFree
  /\ \A p \in Pcb : state[p] # "unused" =>
       /\ ~Runs(p) => Saved(p)
       /\ Framed(p)
       /\ Exiting(p) => p = current /\ vector = SysVector
  /\ vector = SysVector => Trapped

-----------------------------------------------------------------------------
(***************************************************************************)
(* Contexts: layout                                                        *)
(***************************************************************************)

\* The offsets of the members of context_t.
LEMMA Offsets ==
  /\ ContextSize = 18
  /\ Offset("ss") = 1   /\ Offset("gs") = 2   /\ Offset("fs") = 3   /\ Offset("es") = 4
  /\ Offset("ds") = 5   /\ Offset("edi") = 6  /\ Offset("esi") = 7  /\ Offset("ebp") = 8
  /\ Offset("ebx") = 10 /\ Offset("edx") = 11 /\ Offset("ecx") = 12 /\ Offset("eax") = 13
  /\ Offset("eip") = 16 /\ Offset("cs") = 17  /\ Offset("eflags") = 18
<1>1. ContextSize = 18
  BY DEF ContextSize, Fields
<1>2. \A i, j \in 1 .. 18 : Fields[i] = Fields[j] => i = j
  BY DEF Fields
<1>3. \A i \in 1 .. 18 : Offset(Fields[i]) = i
  BY <1>1, <1>2 DEF Offset
<1> QED BY <1>1, <1>3 DEF Fields

\* So no two registers share a word of the context.
LEMMA OffsetsApart ==
  /\ \A r \in Registers : Offset(r) \in 1 .. 18
  /\ \A r \in Registers : Offset(r) = Offset("eax") => r = "eax"
BY Offsets DEF Registers, General, Segments

LEMMA LiteralWords == \A w \in Literals : w \in Words
BY DEF Words

\* One sequence above another.
LEMMA SeqConcat ==
  ASSUME NEW W, NEW s \in Seq(W), NEW t \in Seq(W)
  PROVE  /\ s \o t \in Seq(W)
         /\ Len(s \o t) = Len(s) + Len(t)
         /\ \A i \in 1 .. Len(s) : (s \o t)[i] = s[i]
         /\ \A i \in 1 .. Len(t) : (s \o t)[Len(s) + i] = t[i]
BY ConcatProperties

LEMMA SeqAbove ==
  ASSUME NEW W, NEW s \in Seq(W), NEW t \in Seq(W)
  PROVE  /\ s \o t \in Seq(W)
         /\ Len(s \o t) = Len(s) + Len(t)
         /\ Below(s \o t, Len(s), s)
         /\ OnTop(s \o t, Len(s), t)
BY SeqConcat DEF Below, OnTop

\* A context on top of n words is where the registers are looked for.
LEMMA ContextAbove ==
  ASSUME NEW u, NEW t, NEW n \in Nat, OnTop(u, n, t), Len(t) = 18,
         NEW regs, DOMAIN regs \subseteq Registers, InContext(t, regs)
  PROVE  Above(u, n, regs)
<1>1. \A r \in DOMAIN regs : Offset(r) \in 1 .. 18
  BY OffsetsApart
<1>2. \A i \in 1 .. 18 : u[n + i] = t[i]
  BY DEF OnTop
<1> QED BY <1>1, <1>2 DEF InContext, Above

\* A stack with one word replaced.
Replaced(s1, s, size, i, w) == \A j \in 1 .. size : s1[j] = IF j = i THEN w ELSE s[j]

LEMMA SeqReplaced ==
  ASSUME NEW W, NEW s \in Seq(W), NEW i \in 1 .. Len(s), NEW w \in W,
         NEW s1, s1 = [s EXCEPT ![i] = w]
  PROVE  /\ s1 \in Seq(W) /\ Len(s1) = Len(s)
         /\ Replaced(s1, s, Len(s), i, w)
<1>1. s1 \in Seq(W) /\ Len(s1) = Len(s)
  BY ExceptSeq
<1>2. \A j \in 1 .. Len(s) : s1[j] = IF j = i THEN w ELSE s[j]
  BY ExceptSeq
<1> QED BY <1>1, <1>2 DEF Replaced

\* The word of EAX is no other register's and not below the context.
LEMMA ReplacedAbove ==
  ASSUME NEW s, NEW s1, NEW n \in Nat, NEW answer, Replaced(s1, s, n + 18, n + 6, answer),
         NEW regs, DOMAIN regs \subseteq Registers, Above(s, n, regs)
  PROVE  Above(s1, n, [regs EXCEPT !["eax"] = answer])
<1>1. \A r \in DOMAIN regs : Offset(r) \in 1 .. 18 /\ (Offset(r) = 13 <=> r = "eax")
  BY OffsetsApart, Offsets
<1> QED BY <1>1 DEF Above, Replaced

LEMMA ReplacedBelow ==
  ASSUME NEW s, NEW s1, NEW n \in Nat, NEW answer, Replaced(s1, s, n + 18, n + 6, answer),
         NEW t, Below(s, n, t)
  PROVE  Below(s1, n, t)
BY DEF Below, Replaced

\* isr_save leaves a stack that holds the program's registers and stack.
LEMMA PushedHolds ==
  ASSUME NEW r \in [Registers -> Words], NEW s \in Seq(Words)
  PROVE  /\ s \o Pushed(r) \in Seq(Words)
         /\ Holds(s \o Pushed(r), Len(s \o Pushed(r)), [reg |-> r, stack |-> s])
<1> DEFINE t == Pushed(r)
<1>1. /\ r["eflags"] \in Words /\ r["cs"] \in Words /\ r["eip"] \in Words /\ r["eax"] \in Words
      /\ r["ecx"] \in Words /\ r["edx"] \in Words /\ r["ebx"] \in Words /\ r["ebp"] \in Words
      /\ r["esi"] \in Words /\ r["edi"] \in Words /\ r["ds"] \in Words /\ r["es"] \in Words
      /\ r["fs"] \in Words /\ r["gs"] \in Words /\ r["ss"] \in Words
  BY DEF Registers, General, Segments
<1>2. "code" \in Words /\ "vector" \in Words /\ "esp" \in Words
  BY LiteralWords DEF Literals
<1>3. t \in Seq(Words) /\ Len(t) = 18
  BY <1>1, <1>2 DEF Pushed
<1>4. InContext(t, r)
  BY Offsets DEF InContext, Pushed, Registers, General, Segments
<1>5. DOMAIN r = Registers /\ "eip" \in Registers
  BY DEF Registers
<1> HIDE DEF t
<1>6. /\ s \o t \in Seq(Words) /\ Len(s \o t) = Len(s) + 18
      /\ Below(s \o t, Len(s), s) /\ OnTop(s \o t, Len(s), t)
  BY <1>3, SeqAbove
<1>7. Len(s) \in Nat
  OBVIOUS
<1>8. Above(s \o t, Len(s), r)
  BY <1>3, <1>4, <1>5, <1>6, <1>7, ContextAbove
<1> QED BY <1>5, <1>6, <1>8 DEF Holds, t

\* _proc_create leaves one that holds what the new process is promised.
LEMMA NewParts ==
  ASSUME NEW entry \in Words, NEW arg1 \in Words, NEW arg2 \in Words
  PROVE  /\ <<"scratch", "scratch", arg2, arg1, "exit_helper">> \in Seq(Words)
         /\ Len(<<"scratch", "scratch", arg2, arg1, "exit_helper">>) = 5
         /\ NewContext(entry) \in Seq(Words)
         /\ Len(NewContext(entry)) = 18
<1>1. \A s, e \in Words : <<s, s, arg2, arg1, e>> \in Seq(Words)
  OBVIOUS
<1>2. "scratch" \in Words /\ "exit_helper" \in Words
  BY LiteralWords DEF Literals
<1>3. <<"scratch", "scratch", arg2, arg1, "exit_helper">> \in Seq(Words)
  BY <1>1, <1>2, Zenon
<1>4. Len(<<"scratch", "scratch", arg2, arg1, "exit_helper">>) = 5
  OBVIOUS
<1>5. \A i, c, u, d, s \in Words :
        <<i, c, entry, u, u, u, u, u, u, u, u, u, u, d, d, d, d, s>> \in Seq(Words)
  OBVIOUS
<1>6. /\ "IF" \in Words /\ "code segment" \in Words /\ "data segment" \in Words
      /\ "stack segment" \in Words /\ Unset \in Words
  BY LiteralWords DEF Literals
<1>7. NewContext(entry) \in Seq(Words)
  BY <1>5, <1>6, Zenon DEF NewContext
<1>8. Len(NewContext(entry)) = 18
  BY DEF NewContext
<1> QED BY <1>3, <1>4, <1>7, <1>8

LEMMA NewWords ==
  ASSUME NEW entry
  PROVE  /\ \A r \in Segments : NewContext(entry)[19 - Offset(r)] = "data segment"
         /\ NewContext(entry)[19 - Offset("ss")] = "stack segment"
         /\ NewContext(entry)[19 - Offset("eip")] = entry
         /\ NewContext(entry)[19 - Offset("cs")] = "code segment"
         /\ NewContext(entry)[19 - Offset("eflags")] = "IF"
<1> DEFINE new == NewContext(entry)
<1>1. /\ new[18] = "stack segment" /\ new[17] = "data segment" /\ new[16] = "data segment"
      /\ new[15] = "data segment" /\ new[14] = "data segment"
      /\ new[3] = entry /\ new[2] = "code segment" /\ new[1] = "IF"
  BY DEF NewContext
<1>2. /\ 19 - Offset("ss") = 18 /\ 19 - Offset("gs") = 17 /\ 19 - Offset("fs") = 16
      /\ 19 - Offset("es") = 15 /\ 19 - Offset("ds") = 14
      /\ 19 - Offset("eip") = 3 /\ 19 - Offset("cs") = 2 /\ 19 - Offset("eflags") = 1
  BY Offsets
<1> HIDE DEF new
<1>3. \A r \in Segments : new[19 - Offset(r)] = "data segment"
  BY <1>1, <1>2, Zenon DEF Segments
<1> QED BY <1>1, <1>2, <1>3, Zenon DEF new

LEMMA NewHolds ==
  ASSUME NEW entry \in Words, NEW arg1 \in Words, NEW arg2 \in Words
  PROVE  /\ NewStack(entry, arg1, arg2) \in Seq(Words)
         /\ Len(NewStack(entry, arg1, arg2)) = 23
         /\ Holds(NewStack(entry, arg1, arg2), 23, Fresh(entry, arg1, arg2))
         /\ Fresh(entry, arg1, arg2) \in [reg : RegFiles, stack : Seq(Words)]
         /\ Len(Fresh(entry, arg1, arg2).stack) = 5
         /\ Fresh(entry, arg1, arg2).reg["eip"] = entry
<1> DEFINE new == NewStack(entry, arg1, arg2)
           fresh == Fresh(entry, arg1, arg2)
           regs == fresh.reg
           base == <<"scratch", "scratch", arg2, arg1, "exit_helper">>
           top == NewContext(entry)
<1>1. /\ base \in Seq(Words) /\ Len(base) = 5
      /\ top \in Seq(Words) /\ Len(top) = 18
  BY NewParts
<1>3. new = base \o top
  BY DEF NewStack
<1>4. fresh.stack = base
  BY DEF Fresh
<1>5. DOMAIN regs = Segments \cup {"ss", "cs", "eip", "eflags"}
  BY DEF Fresh
<1>6. /\ \A r \in Segments : regs[r] = "data segment"
      /\ regs["ss"] = "stack segment" /\ regs["cs"] = "code segment"
      /\ regs["eip"] = entry /\ regs["eflags"] = "IF"
  BY DEF Fresh, Segments
<1>7. fresh = [reg |-> regs, stack |-> fresh.stack]
  BY DEF Fresh
<1>8. regs \in [DOMAIN regs -> Words]
  <2>1. \A r \in DOMAIN regs : regs[r] \in Words
    BY <1>5, <1>6, LiteralWords DEF Literals
  <2> QED BY <1>5, <2>1 DEF Fresh
<1> HIDE DEF regs
<1>10. InContext(top, regs)
  <2>1. \A r \in DOMAIN regs : r \in Segments \/ r \in {"ss", "cs", "eip", "eflags"}
    BY <1>5
  <2>2. \A r \in DOMAIN regs : top[19 - Offset(r)] = regs[r]
    <3> TAKE r \in DOMAIN regs
    <3>1. CASE r \in Segments
      <4>1. regs[r] = "data segment"
        BY <1>6, <3>1, Zenon
      <4>2. top[19 - Offset(r)] = "data segment"
        BY <3>1, NewWords, ZenonT(60)
      <4> QED BY <4>1, <4>2, Zenon
    <3>2. CASE r = "ss"
      BY <1>6, <3>2, NewWords
    <3>3. CASE r = "cs"
      BY <1>6, <3>3, NewWords
    <3>4. CASE r = "eip"
      BY <1>6, <3>4, NewWords
    <3>5. CASE r = "eflags"
      BY <1>6, <3>5, NewWords
    <3> QED BY <2>1, <3>1, <3>2, <3>3, <3>4, <3>5, Zenon
  <2> QED BY <2>2, Zenon DEF InContext
<1> HIDE DEF base, top, fresh, new
<1>9. /\ new \in Seq(Words) /\ Len(new) = 23
      /\ Below(new, 5, base) /\ OnTop(new, 5, top)
  <2>1. /\ new \in Seq(Words) /\ Len(new) = Len(base) + Len(top)
        /\ Below(new, Len(base), base) /\ OnTop(new, Len(base), top)
    BY <1>1, <1>3, SeqAbove
  <2> QED BY <1>1, <2>1
<1>11. DOMAIN regs \in SUBSET Registers /\ "eip" \in DOMAIN regs
  BY <1>5 DEF Registers
<1>12. Above(new, 5, regs)
  BY <1>1, <1>9, <1>10, <1>11, ContextAbove
<1>13. Holds(new, 23, fresh)
  <2>1. Len(fresh.stack) = 5 /\ 23 = 5 + 18
    BY <1>1, <1>4
  <2> QED BY <1>4, <1>9, <1>11, <1>12, <2>1, Zenon DEF Holds, regs
<1>14. fresh \in [reg : RegFiles, stack : Seq(Words)]
  <2>1. regs \in RegFiles
    BY <1>8, <1>11, Zenon DEF RegFiles
  <2> QED BY <1>1, <1>4, <1>7, <2>1
<1> QED BY <1>1, <1>4, <1>6, <1>9, <1>13, <1>14 DEF fresh, new, regs

\* The same, of any new process.
NewReady(entry, arg1, arg2) ==
  /\ NewStack(entry, arg1, arg2) \in Seq(Words)
  /\ Len(NewStack(entry, arg1, arg2)) = 23
  /\ Holds(NewStack(entry, arg1, arg2), 23, Fresh(entry, arg1, arg2))
  /\ Fresh(entry, arg1, arg2) \in [reg : RegFiles, stack : Seq(Words)]
  /\ Len(Fresh(entry, arg1, arg2).stack) = 5
  /\ Fresh(entry, arg1, arg2).reg["eip"] = entry

LEMMA NewAlwaysReady ==
  \A entry, arg1, arg2 : entry \in Words /\ arg1 \in Words /\ arg2 \in Words
                           => NewReady(entry, arg1, arg2)
<1> SUFFICES ASSUME NEW entry \in Words, NEW arg1 \in Words, NEW arg2 \in Words
             PROVE  NewReady(entry, arg1, arg2)
  OBVIOUS
<1> QED BY NewHolds, ZenonT(60) DEF NewReady

\* RET changes EAX and nothing else.
AnswerIn(s, size, answer) == [s EXCEPT ![size + 1 - Offset("eax")] = answer]
AnswerTo(e, answer) == [reg |-> [e.reg EXCEPT !["eax"] = answer], stack |-> e.stack]

LEMMA AnswerHolds ==
  ASSUME NEW s \in Seq(Words), NEW size, NEW e \in [reg : RegFiles, stack : Seq(Words)],
         Holds(s, size, e), NEW answer \in Words
  PROVE  /\ AnswerIn(s, size, answer) \in Seq(Words)
         /\ AnswerTo(e, answer) \in [reg : RegFiles, stack : Seq(Words)]
         /\ Holds(AnswerIn(s, size, answer), size, AnswerTo(e, answer))
         /\ AnswerTo(e, answer).stack = e.stack
         /\ AnswerTo(e, answer).reg["eip"] = e.reg["eip"]
<1> SUFFICES ASSUME NEW s1, s1 = [s EXCEPT ![size + 1 - Offset("eax")] = answer],
                    NEW e1, e1 = [reg |-> [e.reg EXCEPT !["eax"] = answer], stack |-> e.stack]
             PROVE  /\ s1 \in Seq(Words)
                    /\ e1 \in [reg : RegFiles, stack : Seq(Words)]
                    /\ Holds(s1, size, e1)
                    /\ e1.stack = e.stack
                    /\ e1.reg["eip"] = e.reg["eip"]
  BY DEF AnswerIn, AnswerTo
<1>1. PICK some \in SUBSET Registers : e.reg \in [some -> Words]
  BY DEF RegFiles
<1>2. e1.stack = e.stack /\ e1.reg = [e.reg EXCEPT !["eax"] = answer]
  OBVIOUS
<1>3. /\ e1.reg \in [some -> Words]
      /\ DOMAIN e.reg = some /\ DOMAIN e1.reg = some
      /\ "eip" \in some => e1.reg["eip"] = e.reg["eip"]
  BY <1>1, <1>2
<1>4. PICK n \in Nat : n = Len(e.stack)
  OBVIOUS
<1>5. /\ size = n + 18 /\ Len(s) = n + 18 /\ "eip" \in some
      /\ Below(s, n, e.stack) /\ Above(s, n, e.reg)
  BY <1>3, <1>4 DEF Holds
<1>6. n + 6 \in 1 .. n + 18 /\ size + 1 - Offset("eax") = n + 6
  BY <1>5, Offsets
<1>7. s1 = [s EXCEPT ![n + 6] = answer]
  BY <1>6
<1>8. /\ s1 \in Seq(Words) /\ Len(s1) = Len(s)
      /\ Replaced(s1, s, n + 18, n + 6, answer)
  <2>1. PICK i \in 1 .. Len(s) : i = n + 6
    BY <1>5, <1>6
  <2>2. s1 = [s EXCEPT ![i] = answer]
    BY <1>7, <2>1
  <2>3. s1 \in Seq(Words) /\ Len(s1) = Len(s) /\ Replaced(s1, s, Len(s), i, answer)
    BY <2>2, SeqReplaced
  <2> QED BY <1>5, <2>1, <2>3
<1>9. Below(s1, n, e1.stack) /\ Above(s1, n, e1.reg)
  BY <1>2, <1>3, <1>5, <1>8, ReplacedBelow, ReplacedAbove, Zenon
<1>10. Holds(s1, size, e1)
  BY <1>2, <1>3, <1>4, <1>5, <1>8, <1>9, Zenon DEF Holds
<1>11. e1 \in [reg : RegFiles, stack : Seq(Words)]
  BY <1>2, <1>3 DEF RegFiles
<1> QED BY <1>2, <1>3, <1>5, <1>8, <1>10, <1>11

\* What isr_restore and a handler find.
LEMMA HeldRead ==
  ASSUME NEW s \in Seq(Words), NEW size, NEW e \in [reg : RegFiles, stack : Seq(Words)],
         Holds(s, size, e)
  PROVE  /\ SubSeq(s, 1, size - ContextSize) = e.stack
         /\ \A r \in DOMAIN e.reg : s[size + 1 - Offset(r)] = e.reg[r]
         /\ \A r \in Registers : s[size + 1 - Offset(r)] \in Words
         /\ \A n \in 1 .. Len(e.stack) - 1 : s[size - ContextSize - n] = e.stack[Len(e.stack) - n]
         /\ size - ContextSize = Len(e.stack)
<1> DEFINE t == e.stack
<1>1. PICK n \in Nat : n = Len(t)
  OBVIOUS
<1>2. /\ size = n + 18 /\ Len(s) = n + 18 /\ ContextSize = 18
      /\ Below(s, n, t) /\ Above(s, n, e.reg)
  BY <1>1, Offsets DEF Holds
<1>3. \A i \in 1 .. n : s[i] = t[i]
  BY <1>2 DEF Below
<1>4. SubSeq(s, 1, n) = t
  <2>1. t \in Seq(Words)
    OBVIOUS
  <2> HIDE DEF t
  <2>2. /\ SubSeq(s, 1, n) \in Seq(Words) /\ Len(SubSeq(s, 1, n)) = n
        /\ \A i \in 1 .. n : SubSeq(s, 1, n)[i] = s[i]
    BY <1>2, SubSeqProperties
  <2> QED BY <1>1, <1>3, <2>1, <2>2, SeqEqual
<1>5. \A r \in DOMAIN e.reg : r \in Registers
  BY DEF RegFiles
<1>6. \A r \in Registers : /\ n + 18 + 1 - Offset(r) = n + 19 - Offset(r)
                           /\ n + 18 + 1 - Offset(r) \in 1 .. n + 18
  <2> TAKE r \in Registers
  <2>1. PICK o \in 1 .. 18 : o = Offset(r)
    BY OffsetsApart
  <2>2. n + 18 + 1 - o = n + 19 - o /\ n + 18 + 1 - o \in 1 .. n + 18
    OBVIOUS
  <2> QED BY <2>1, <2>2
<1>7. \A r \in DOMAIN e.reg : s[n + 18 + 1 - Offset(r)] = e.reg[r]
  BY <1>2, <1>5, <1>6, Zenon DEF Above
<1>8. \A i \in 1 .. n + 18 : s[i] \in Words
  BY <1>2
<1>9. \A r \in Registers : s[n + 18 + 1 - Offset(r)] \in Words
  BY <1>6, <1>8, Zenon
<1>10. \A k \in 1 .. n - 1 : n - k \in 1 .. n
  OBVIOUS
<1>11. \A k \in 1 .. n - 1 : s[n - k] = t[n - k]
  BY <1>3, <1>10, Zenon
<1>12. n + 18 - 18 = n
  OBVIOUS
<1>13. size = n + 18 /\ size - ContextSize = n /\ ContextSize = 18 /\ Len(t) = n
  BY <1>1, <1>2, <1>12
<1>14. \A k \in 1 .. n - 1 : s[size - ContextSize - k] = t[n - k]
  BY <1>13, <1>11, Zenon
<1>15. \A r \in DOMAIN e.reg : s[size + 1 - Offset(r)] = e.reg[r]
  BY <1>2, <1>7, Zenon
<1>16. \A r \in Registers : s[size + 1 - Offset(r)] \in Words
  BY <1>2, <1>9, Zenon
<1>17. \A k \in 1 .. Len(t) - 1 : s[size - ContextSize - k] = t[Len(t) - k]
  BY <1>13, <1>14, Zenon
<1>18. SubSeq(s, 1, size - ContextSize) = t
  BY <1>4, <1>13, Zenon
<1> QED BY <1>13, <1>15, <1>16, <1>17, <1>18, Zenon

-----------------------------------------------------------------------------
(***************************************************************************)
(* Contexts: what handlers do                                              *)
(***************************************************************************)

\* In a handler no program runs: all that live have a saved context.
LEMMA InHandlerSaved ==
  ASSUME ContextInv, cpu # "user", NEW p \in Pcb, state[p] # "unused"
  PROVE  /\ Saved(p) /\ Len(expected[p].stack) >= 5
         /\ stack[p] \in Seq(Words) /\ expected[p] \in [reg : RegFiles, stack : Seq(Words)]
         /\ expected[p].reg["eip"] = "stub" => CallFrame(expected[p].stack, passed[p])
         /\ expected[p].reg["eip"] = "stub" /\ passed[p][1] = "exit"
              => p = current /\ vector = SysVector
<1>1. ~Runs(p)
  BY DEF Runs
<1>2. UserStack(p) = expected[p].stack /\ UserEip(p) = expected[p].reg["eip"]
  BY <1>1 DEF UserStack, UserEip
<1>3. Saved(p) /\ Framed(p) /\ (Exiting(p) => p = current /\ vector = SysVector)
  BY <1>1 DEF ContextInv
<1>4. stack[p] \in Seq(Words) /\ expected[p] \in [reg : RegFiles, stack : Seq(Words)]
  BY DEF ContextInv, ContextTypes
<1> QED BY <1>2, <1>3, <1>4 DEF Framed, Exiting

\* The code and the arguments that the handler of a system call reads.
LEMMA CallRead ==
  ASSUME ContextInv, vector = SysVector
  PROVE  /\ REG(current, "eax") = passed[current][1]
         /\ expected[current].reg["eip"] = "stub"
         /\ CallFrame(expected[current].stack, passed[current])
         /\ \A n \in 1 .. Len(passed[current]) - 1 : ARG(current, n) = passed[current][n + 1]
         /\ ArgAt(current, 4) >= 1
<1>1. /\ cpu = "isr" /\ "eax" \in DOMAIN expected[current].reg
      /\ UserEip(current) = "stub"
      /\ expected[current].reg["eax"] = passed[current][1]
  BY DEF ContextInv, Trapped
<1>2. current \in Pcb /\ state[current] # "unused"
  BY DEF ContextInv, ContextTypes, PcbsFree
<1>3. expected[current].reg["eip"] = "stub"
  BY <1>1 DEF UserEip, Runs
<1> DEFINE s == stack[current]
           e == expected[current]
<1>4. /\ s \in Seq(Words) /\ e \in [reg : RegFiles, stack : Seq(Words)]
      /\ Holds(s, context[current], e) /\ Len(e.stack) >= 5
      /\ CallFrame(e.stack, passed[current])
  BY <1>1, <1>2, <1>3, InHandlerSaved DEF Saved
<1>5. /\ \A r \in DOMAIN e.reg : s[context[current] + 1 - Offset(r)] = e.reg[r]
      /\ \A n \in 1 .. Len(e.stack) - 1 :
           s[context[current] - ContextSize - n] = e.stack[Len(e.stack) - n]
      /\ context[current] - ContextSize = Len(e.stack)
  BY <1>4, HeldRead
<1>6. passed[current] \in Seq(Words)
  BY <1>2 DEF ContextInv, ContextTypes
<1>7. Len(e.stack) >= Len(passed[current]) + 4
  BY <1>4 DEF CallFrame
<1>8. \A n \in 1 .. Len(passed[current]) - 1 : n \in 1 .. Len(e.stack) - 1
  <2>1. PICK a \in Nat : a = Len(passed[current])
    BY <1>6
  <2>2. PICK b \in Nat : b = Len(e.stack)
    BY <1>4
  <2>3. \A n \in 1 .. a - 1 : n \in 1 .. b - 1
    BY <1>7, <2>1, <2>2
  <2> QED BY <2>1, <2>2, <2>3
<1>9. \A n \in 1 .. Len(passed[current]) - 1 :
        e.stack[Len(e.stack) - n] = passed[current][n + 1]
  BY <1>4 DEF CallFrame
<1>10. \A n \in 1 .. Len(passed[current]) - 1 :
         s[context[current] - ContextSize - n] = passed[current][n + 1]
  BY <1>5, <1>8, <1>9, Zenon
<1>11. context[current] - ContextSize - 4 >= 1
  <2>1. PICK b \in Nat : b = Len(e.stack)
    BY <1>4
  <2>2. b - 4 >= 1
    BY <1>4, <2>1
  <2> QED BY <1>5, <2>1, <2>2, Zenon
<1> QED BY <1>1, <1>3, <1>4, <1>5, <1>10, <1>11, Zenon DEF REG, RegAt, ARG, ArgAt

\* But for the handler of exit(), none finds a program that has called it.
NoneExits ==
  \A p \in Pcb : state[p] # "unused" /\ expected[p].reg["eip"] = "stub" => passed[p][1] # "exit"

LEMMA NotExit ==
  ASSUME ContextInv, cpu = "isr", vector # SysVector \/ REG(current, "eax") # "exit"
  PROVE  NoneExits
<1> SUFFICES ASSUME NEW p \in Pcb, state[p] # "unused", expected[p].reg["eip"] = "stub",
                    passed[p][1] = "exit"
             PROVE  FALSE
  BY DEF NoneExits
<1>1. p = current /\ vector = SysVector
  BY InHandlerSaved
<1>2. REG(current, "eax") = passed[current][1]
  BY <1>1, CallRead
<1> QED BY <1>1, <1>2

\* What a handler leaves: every program that lives has a saved context and, if it
\* has called, a call that returns.
LeftSaved(p) ==
  /\ Saved(p)
  /\ Len(expected[p].stack) >= 5
  /\ expected[p].reg["eip"] = "stub" => CallFrame(expected[p].stack, passed[p])
                                        /\ passed[p][1] # "exit"

LEMMA HandlerLeaves ==
  ASSUME NEW number, Handler(number), ContextTypes', PcbsFree',
         \A p \in Pcb : state'[p] # "unused" => LeftSaved(p)'
  PROVE  ContextInv'
<1>1. cpu' = "restore" /\ vector' # SysVector
  BY DEF Handler, SysVector
<1>2. \A p \in Pcb : ~Runs(p)'
  BY <1>1 DEF Runs
<1>3. \A p \in Pcb : UserStack(p)' = expected'[p].stack /\ UserEip(p)' = expected'[p].reg["eip"]
  BY <1>2 DEF UserStack, UserEip
<1> QED BY <1>1, <1>2, <1>3 DEF ContextInv, LeftSaved, Framed, Exiting

\* Processes are answered: their contexts remain saved.
LEMMA AnswersKeep ==
  ASSUME ContextInv, cpu # "user", NEW S \in SUBSET Pcb, \A p \in S : state[p] # "unused",
         NEW answer \in Words, NEW p \in Pcb
  PROVE  /\ Answered(S, answer)[p] \in Seq(Words)
         /\ Expecting(S, answer)[p] \in [reg : RegFiles, stack : Seq(Words)]
         /\ state[p] # "unused" =>
              /\ Holds(Answered(S, answer)[p], context[p], Expecting(S, answer)[p])
              /\ Expecting(S, answer)[p].stack = expected[p].stack
              /\ Expecting(S, answer)[p].reg["eip"] = expected[p].reg["eip"]
<1>1. stack[p] \in Seq(Words) /\ expected[p] \in [reg : RegFiles, stack : Seq(Words)]
  BY DEF ContextInv, ContextTypes
<1>2. state[p] # "unused" => Holds(stack[p], context[p], expected[p])
  BY InHandlerSaved DEF Saved
<1>3. CASE p \notin S
  <2>1. Answered(S, answer)[p] = stack[p] /\ Expecting(S, answer)[p] = expected[p]
    BY <1>3 DEF Answered, Expecting
  <2> QED BY <1>1, <1>2, <2>1
<1>4. CASE p \in S
  <2>1. Answered(S, answer)[p] = AnswerIn(stack[p], context[p], answer)
    BY <1>4 DEF Answered, RegAt, AnswerIn
  <2>2. Expecting(S, answer)[p] = AnswerTo(expected[p], answer)
    BY <1>4 DEF Expecting, AnswerTo
  <2>3. Holds(stack[p], context[p], expected[p])
    BY <1>2, <1>4
  <2> QED BY <1>1, <2>1, <2>2, <2>3, AnswerHolds
<1> QED BY <1>3, <1>4

\* What handlers do to the states of processes: one runs, and the free list keeps
\* its members.
LEMMA StatesAfter ==
  ASSUME ContextInv, NEW S \in SUBSET Blocked, NEW own \in {"running", "ready", "blocked", "unused"}
  PROVE  /\ After(S, own) \in [Pcb -> {"running", "ready", "blocked", "unused"}]
         /\ \A p \in Pcb : After(S, own)[p] = "running" <=> (p = current /\ own = "running")
         /\ \A p \in Pcb :
              After(S, own)[p] = "unused" <=> (state[p] = "unused" \/ (p = current /\ own = "unused"))
<1>1. /\ current \in Pcb /\ state \in [Pcb -> {"running", "ready", "blocked", "unused"}]
      /\ \A p \in Pcb : state[p] = "running" <=> p = current
  BY DEF ContextInv, ContextTypes, PcbsFree
<1>2. \A p \in S : p \in Pcb /\ state[p] = "blocked" /\ p # current
  BY <1>1 DEF Blocked
<1>3. \A p \in Pcb :
        After(S, own)[p] = IF p \in S THEN "ready" ELSE IF p = current THEN own ELSE state[p]
  BY DEF After
<1>4. After(S, own) \in [Pcb -> {"running", "ready", "blocked", "unused"}]
  BY <1>1 DEF After
<1>5. \A p \in Pcb : After(S, own)[p] = "running" <=> (p = current /\ own = "running")
  BY <1>1, <1>2, <1>3, Zenon
<1>6. \A p \in Pcb :
        After(S, own)[p] = "unused" <=> (state[p] = "unused" \/ (p = current /\ own = "unused"))
  BY <1>1, <1>2, <1>3, Zenon
<1> QED BY <1>4, <1>5, <1>6

LEMMA StatesDispatched ==
  ASSUME NEW states \in [Pcb -> {"running", "ready", "blocked", "unused"}],
         \A p \in Pcb : states[p] # "running", dispatch(states)
  PROVE  /\ state' \in [Pcb -> {"running", "ready", "blocked", "unused"}]
         /\ current' \in Pcb
         /\ \A p \in Pcb : state'[p] = "running" <=> p = current'
         /\ \A p \in Pcb : state'[p] = "unused" <=> states[p] = "unused"
BY DEF dispatch

\* The current process runs on, or another is dispatched; nobody ends.
Scheduled ==
  /\ state' \in [Pcb -> {"running", "ready", "blocked", "unused"}]
  /\ current' \in Pcb
  /\ \A p \in Pcb : state'[p] = "running" <=> p = current'
  /\ \A p \in Pcb : state'[p] = "unused" <=> state[p] = "unused"

LEMMA RunsOn ==
  ASSUME ContextInv, NEW S \in SUBSET Blocked, state' = After(S, "running"), UNCHANGED current
  PROVE  Scheduled
<1>1. current \in Pcb
  BY DEF ContextInv, ContextTypes
<1>2. /\ After(S, "running") \in [Pcb -> {"running", "ready", "blocked", "unused"}]
      /\ \A p \in Pcb : After(S, "running")[p] = "running" <=> p = current
      /\ \A p \in Pcb : After(S, "running")[p] = "unused" <=> state[p] = "unused"
  <2>1. "running" \in {"running", "ready", "blocked", "unused"} /\ "running" # "unused"
    OBVIOUS
  <2>2. /\ After(S, "running") \in [Pcb -> {"running", "ready", "blocked", "unused"}]
        /\ \A p \in Pcb : After(S, "running")[p] = "running" <=> (p = current /\ "running" = "running")
        /\ \A p \in Pcb : After(S, "running")[p] = "unused"
                             <=> (state[p] = "unused" \/ (p = current /\ "running" = "unused"))
    BY <2>1, StatesAfter
  <2> QED BY <2>1, <2>2, Zenon
<1> QED BY <1>1, <1>2, Zenon DEF Scheduled

LEMMA GivesUp ==
  ASSUME ContextInv, NEW S \in SUBSET Blocked, NEW own \in {"ready", "blocked"},
         dispatch(After(S, own))
  PROVE  Scheduled
<1>1. /\ After(S, own) \in [Pcb -> {"running", "ready", "blocked", "unused"}]
      /\ \A p \in Pcb : After(S, own)[p] # "running"
      /\ \A p \in Pcb : After(S, own)[p] = "unused" <=> state[p] = "unused"
  <2>1. own \in {"running", "ready", "blocked", "unused"} /\ own # "running" /\ own # "unused"
    OBVIOUS
  <2>2. /\ After(S, own) \in [Pcb -> {"running", "ready", "blocked", "unused"}]
        /\ \A p \in Pcb : After(S, own)[p] = "running" <=> (p = current /\ own = "running")
        /\ \A p \in Pcb :
             After(S, own)[p] = "unused" <=> (state[p] = "unused" \/ (p = current /\ own = "unused"))
    BY <2>1, StatesAfter
  <2> QED BY <2>1, <2>2, Zenon
<1> QED BY <1>1, StatesDispatched DEF Scheduled

\* A handler that answers and wakes, and changes no other context.
LEMMA StepAnswers ==
  ASSUME ContextInv, NEW number, Handler(number),
         number # SysVector \/ REG(current, "eax") # "exit",
         NEW S \in SUBSET Pcb, \A p \in S : state[p] # "unused", NEW answer \in Words,
         stack' = Answered(S, answer), expected' = Expecting(S, answer),
         UNCHANGED <<context, free_pcbs>>, Scheduled
  PROVE  ContextInv'
<1>1. cpu = "isr" /\ vector = number /\ cpu' = "restore" /\ UNCHANGED <<reg, passed>>
  BY DEF Handler
<1>2. NoneExits
  BY <1>1, NotExit
<1>3. cpu # "user"
  BY <1>1
<1>4. \A p \in Pcb :
        /\ stack'[p] \in Seq(Words) /\ expected'[p] \in [reg : RegFiles, stack : Seq(Words)]
        /\ state[p] # "unused" =>
             /\ Holds(stack'[p], context[p], expected'[p])
             /\ expected'[p].stack = expected[p].stack
             /\ expected'[p].reg["eip"] = expected[p].reg["eip"]
  BY <1>3, AnswersKeep
<1>5. ContextTypes'
  <2>1. stack' \in [Pcb -> Seq(Words)]
    <3>1. stack' = [p \in Pcb |-> stack'[p]]
      BY DEF Answered
    <3> QED BY <1>4, <3>1
  <2>2. expected' \in [Pcb -> [reg : RegFiles, stack : Seq(Words)]]
    <3>1. expected' = [p \in Pcb |-> expected'[p]]
      BY DEF Expecting
    <3> QED BY <1>4, <3>1
  <2> QED BY <1>1, <2>1, <2>2, Zenon DEF ContextInv, ContextTypes, Scheduled
<1>6. PcbsFree'
  <2>1. \A i \in 1 .. Len(free_pcbs) : free_pcbs[i] \in Pcb
    BY DEF ContextInv, ContextTypes
  <2> QED BY <2>1, ZenonT(60) DEF ContextInv, PcbsFree, Scheduled
<1>7. ASSUME NEW p \in Pcb, state'[p] # "unused"
      PROVE  LeftSaved(p)'
  <2>1. state[p] # "unused"
    BY <1>7 DEF Scheduled
  <2>2. /\ Len(expected[p].stack) >= 5
        /\ expected[p].reg["eip"] = "stub" => CallFrame(expected[p].stack, passed[p])
    BY <1>3, <2>1, InHandlerSaved
  <2>3. expected[p].reg["eip"] = "stub" => passed[p][1] # "exit"
    BY <1>2, <2>1 DEF NoneExits
  <2> QED BY <1>1, <1>4, <2>1, <2>2, <2>3, Zenon DEF LeftSaved, Saved
<1> QED BY <1>5, <1>6, <1>7, HandlerLeaves

\* A handler that answers nobody.
LEMMA StepSchedules ==
  ASSUME ContextInv, NEW number, Handler(number),
         number # SysVector \/ REG(current, "eax") # "exit",
         UNCHANGED <<stack, expected, context, free_pcbs>>, Scheduled
  PROVE  ContextInv'
<1>1. stack \in [Pcb -> Seq(Words)] /\ expected \in [Pcb -> [reg : RegFiles, stack : Seq(Words)]]
  BY DEF ContextInv, ContextTypes
<1>2. stack' = Answered({}, "answer") /\ expected' = Expecting({}, "answer")
  BY <1>1 DEF Answered, Expecting
<1>3. "answer" \in Words
  BY LiteralWords DEF Literals
<1> QED BY <1>2, <1>3, StepAnswers

\* No interrupt of a device has the vector of system calls.
LEMMA VectorsApart == \A line \in Lines \cup {Mystery} : VectorOf(line) # SysVector
BY CardsLine DEF Lines, Timer, Keyboard, Serial, Mystery, VectorOf, SysVector

LEMMA CtxWakes ==
  ASSUME ContextInv, sio_isr \/ eth_isr
  PROVE  ContextInv'
<1>1. PICK number \in {VectorOf(Serial), VectorOf(EthLine)} :
        Handler(number) /\ \E S \in SUBSET Blocked : wake(S)
  BY DEF sio_isr, eth_isr
<1>2. number # SysVector
  BY VectorsApart DEF Lines
<1>3. PICK S \in SUBSET Blocked : wake(S)
  BY <1>1
<1>4. S \in SUBSET Pcb /\ \A p \in S : state[p] # "unused"
  BY DEF Blocked
<1>5. "input" \in Words
  BY LiteralWords DEF Literals
<1>6. Scheduled
  BY <1>3, RunsOn DEF wake
<1> QED BY <1>1, <1>2, <1>3, <1>4, <1>5, <1>6, StepAnswers DEF wake

LEMMA CtxClock ==
  ASSUME ContextInv, clk_isr
  PROVE  ContextInv'
<1>1. VectorOf(Timer) # SysVector
  BY VectorsApart DEF Lines
<1>2. PICK S \in SUBSET Blocked :
        \/ state' = After(S, "running") /\ UNCHANGED current
        \/ dispatch(After(S, "ready"))
  BY DEF clk_isr
<1>3. Scheduled
  BY <1>2, RunsOn, GivesUp
<1> QED BY <1>1, <1>3, StepSchedules DEF clk_isr

LEMMA CtxAside ==
  ASSUME ContextInv, c_keyboard_isr \/ default_mystery_handler
  PROVE  ContextInv'
<1>1. PICK number \in {VectorOf(Keyboard), VectorOf(Mystery)} : Handler(number)
  BY DEF c_keyboard_isr, default_mystery_handler
<1>2. number # SysVector
  BY VectorsApart DEF Lines
<1>3. UNCHANGED <<current, procVars>>
  BY DEF c_keyboard_isr, default_mystery_handler
<1>4. Scheduled
  BY <1>3 DEF Scheduled, ContextInv, ContextTypes, PcbsFree, procVars
<1> QED BY <1>1, <1>2, <1>3, <1>4, StepSchedules DEF procVars

\* System calls that neither create nor end a process.
LEMMA CtxQuick ==
  ASSUME ContextInv, sys_quick
  PROVE  ContextInv'
<1>1. Handler(SysVector) /\ REG(current, "eax") # "exit"
  BY DEF sys_quick, SysCall
<1>2. PICK S \in SUBSET {current} :
        stack' = Answered(S, "answer") /\ expected' = Expecting(S, "answer")
  BY DEF sys_quick
<1>3. /\ current \in Pcb /\ state[current] # "unused"
      /\ UNCHANGED <<current, context, state, free_pcbs>>
  BY DEF ContextInv, ContextTypes, PcbsFree, sys_quick
<1>4. Scheduled
  BY <1>3 DEF Scheduled, ContextInv, ContextTypes, PcbsFree
<1>5. "answer" \in Words
  BY LiteralWords DEF Literals
<1> QED BY <1>1, <1>2, <1>3, <1>4, <1>5, StepAnswers

LEMMA CtxFails ==
  ASSUME ContextInv, sys_spawn_fails
  PROVE  ContextInv'
<1>1. Handler(SysVector) /\ REG(current, "eax") # "exit"
  BY DEF sys_spawn_fails, SysCall
<1>2. /\ current \in Pcb /\ state[current] # "unused"
      /\ UNCHANGED <<current, context, state, free_pcbs>>
  BY DEF ContextInv, ContextTypes, PcbsFree, sys_spawn_fails
<1>3. Scheduled
  BY <1>2 DEF Scheduled, ContextInv, ContextTypes, PcbsFree
<1>4. "error" \in Words
  BY LiteralWords DEF Literals
<1> QED BY <1>1, <1>2, <1>3, <1>4, StepAnswers DEF sys_spawn_fails

LEMMA CtxGivesUp ==
  ASSUME ContextInv, sys_block \/ sys_yield
  PROVE  ContextInv'
<1>1. /\ Handler(SysVector) /\ REG(current, "eax") # "exit"
      /\ UNCHANGED <<stack, context, free_pcbs, expected>>
  BY DEF sys_block, sys_yield, SysCall
<1>2. PICK own \in {"ready", "blocked"} : dispatch(After({}, own))
  BY DEF sys_block, sys_yield
<1>3. Scheduled
  BY <1>2, GivesUp
<1> QED BY <1>1, <1>3, StepSchedules

\* The free list when a PCB that lives is freed, and when its first is taken.
FreeUnused(f, states) ==
  /\ \A i \in 1 .. Len(f) : states[f[i]] = "unused"
  /\ \A i, j \in 1 .. Len(f) : f[i] = f[j] => i = j

LEMMA FreeMore ==
  ASSUME NEW f \in Seq(Pcb), NEW v \in Pcb, NEW states, NEW states1, FreeUnused(f, states),
         states[v] # "unused", states1[v] = "unused",
         \A p \in Pcb : states[p] = "unused" => states1[p] = "unused"
  PROVE  <<v>> \o f \in Seq(Pcb) /\ FreeUnused(<<v>> \o f, states1)
<1> DEFINE g == <<v>> \o f
<1>1. PICK n \in Nat : n = Len(f)
  OBVIOUS
<1>2. g \in Seq(Pcb) /\ Len(g) = n + 1 /\ g[1] = v
  BY <1>1
<1>3. \A i \in 1 .. n + 1 : i # 1 => i - 1 \in 1 .. n /\ g[i] = f[i - 1]
  BY <1>1
<1>4. \A i \in 1 .. n : f[i] \in Pcb /\ states[f[i]] = "unused" /\ f[i] # v
  BY <1>1 DEF FreeUnused
<1> HIDE DEF g
<1>5. \A i \in 1 .. n + 1 : states1[g[i]] = "unused"
  BY <1>2, <1>3, <1>4, Zenon
<1>6. ASSUME NEW i \in 1 .. n + 1, NEW j \in 1 .. n + 1, g[i] = g[j] PROVE i = j
  <2>1. CASE i = 1 /\ j # 1
    BY <1>2, <1>3, <1>4, <1>6, <2>1
  <2>2. CASE i # 1 /\ j = 1
    BY <1>2, <1>3, <1>4, <1>6, <2>2
  <2>3. CASE i # 1 /\ j # 1
    <3>1. i - 1 \in 1 .. n /\ j - 1 \in 1 .. n /\ f[i - 1] = f[j - 1]
      BY <1>3, <1>6, <2>3
    <3>2. i - 1 = j - 1
      BY <1>1, <3>1 DEF FreeUnused
    <3> QED BY <3>2
  <2> QED BY <2>1, <2>2, <2>3
<1> QED BY <1>2, <1>5, <1>6 DEF FreeUnused, g

LEMMA FreeFewer ==
  ASSUME NEW f \in Seq(Pcb), NEW states, NEW states1, FreeUnused(f, states), f # <<>>,
         \A p \in Pcb : states[p] = "unused" /\ p # Head(f) => states1[p] = "unused"
  PROVE  Head(f) \in Pcb /\ states[Head(f)] = "unused"
         /\ Tail(f) \in Seq(Pcb) /\ FreeUnused(Tail(f), states1)
<1> DEFINE g == Tail(f)
<1>1. PICK n \in Nat : n = Len(f) /\ n >= 1
  OBVIOUS
<1>2. g \in Seq(Pcb) /\ Len(g) = n - 1 /\ Head(f) = f[1] /\ 1 \in 1 .. n
  BY <1>1
<1>3. \A i \in 1 .. n - 1 : i + 1 \in 1 .. n /\ i + 1 # 1 /\ g[i] = f[i + 1]
  BY <1>1
<1>4. \A i \in 1 .. n : f[i] \in Pcb /\ states[f[i]] = "unused"
  BY <1>1 DEF FreeUnused
<1>5. \A i, j \in 1 .. n : f[i] = f[j] => i = j
  BY <1>1 DEF FreeUnused
<1> HIDE DEF g
<1>6. \A i \in 1 .. n - 1 : states1[g[i]] = "unused"
  <2> TAKE i \in 1 .. n - 1
  <2>1. PICK k \in 1 .. n : k = i + 1 /\ k # 1 /\ g[i] = f[k]
    BY <1>3
  <2>2. f[k] # f[1]
    BY <1>2, <1>5, <2>1, Zenon
  <2> QED BY <1>2, <1>4, <2>1, <2>2, Zenon
<1>7. \A i, j \in 1 .. n - 1 : g[i] = g[j] => i + 1 = j + 1
  BY <1>3, <1>5, ZenonT(60)
<1>8. \A i, j \in 1 .. n - 1 : g[i] = g[j] => i = j
  BY <1>7
<1> QED BY <1>2, <1>4, <1>6, <1>8 DEF FreeUnused, g

\* A process ends: its PCB is on the free list and the others are as they were.
LEMMA CtxEnds ==
  ASSUME ContextInv, Handler(SysVector), NEW v \in Pcb, state[v] # "unused",
         v = current \/ REG(current, "eax") # "exit",
         NEW S \in SUBSET Blocked, ends(v, S),
         state' \in [Pcb -> {"running", "ready", "blocked", "unused"}], current' \in Pcb,
         \A p \in Pcb : state'[p] = "running" <=> p = current',
         \A p \in Pcb : state'[p] = "unused" <=> (state[p] = "unused" \/ p = v)
  PROVE  ContextInv'
<1>1. /\ cpu = "isr" /\ vector = SysVector /\ cpu' = "restore" /\ UNCHANGED <<reg, passed>>
      /\ cpu # "user"
  BY DEF Handler
<1>2. "child" \in Words
  BY LiteralWords DEF Literals
<1>3. S \in SUBSET Pcb /\ \A p \in S : state[p] # "unused"
  BY DEF Blocked
<1> DEFINE s(p) == Answered(S, "child")[p]
           e(p) == Expecting(S, "child")[p]
<1>4. \A p \in Pcb :
        /\ s(p) \in Seq(Words) /\ e(p) \in [reg : RegFiles, stack : Seq(Words)]
        /\ state[p] # "unused" =>
             /\ Holds(s(p), context[p], e(p))
             /\ e(p).stack = expected[p].stack
             /\ e(p).reg["eip"] = expected[p].reg["eip"]
  BY <1>1, <1>2, <1>3, AnswersKeep
<1>5. /\ stack' = [p \in Pcb |-> IF p = v THEN <<>> ELSE s(p)]
      /\ expected' = [p \in Pcb |-> IF p = v THEN Nobody ELSE e(p)]
  BY DEF ends, Answered, Expecting
<1>6. /\ context \in [Pcb -> Nat] /\ context' = [context EXCEPT ![v] = FreeLink]
      /\ free_pcbs' = <<v>> \o free_pcbs
  BY DEF ends, free_pcb, ContextInv, ContextTypes
<1> HIDE DEF s, e
<1>7. Nobody \in [reg : RegFiles, stack : Seq(Words)] /\ <<>> \in Seq(Words)
  <2>1. <<>> \in [{} -> Words]
    OBVIOUS
  <2>2. <<>> \in RegFiles
    BY <2>1 DEF RegFiles
  <2> QED BY <2>2 DEF Nobody
<1>8. free_pcbs' \in Seq(Pcb) /\ FreeUnused(free_pcbs', state')
  <2>1. free_pcbs \in Seq(Pcb) /\ FreeUnused(free_pcbs, state)
    BY DEF ContextInv, ContextTypes, PcbsFree, FreeUnused
  <2> QED BY <1>6, <2>1, FreeMore
<1>9. ContextTypes'
  <2>1. stack' \in [Pcb -> Seq(Words)]
    BY <1>4, <1>5, <1>7
  <2>2. expected' \in [Pcb -> [reg : RegFiles, stack : Seq(Words)]]
    BY <1>4, <1>5, <1>7
  <2>3. context' \in [Pcb -> Nat]
    BY <1>6 DEF FreeLink
  <2> QED BY <1>1, <1>8, <2>1, <2>2, <2>3, Zenon DEF ContextInv, ContextTypes
<1>10. PcbsFree'
  BY <1>8 DEF PcbsFree, FreeUnused
<1>11. ASSUME NEW p \in Pcb, state'[p] # "unused"
       PROVE  LeftSaved(p)'
  <2>1. state[p] # "unused" /\ p # v
    BY <1>11
  <2>2. stack'[p] = s(p) /\ expected'[p] = e(p) /\ context'[p] = context[p]
    BY <1>5, <1>6, <2>1
  <2>3. /\ Len(expected[p].stack) >= 5
        /\ expected[p].reg["eip"] = "stub" => CallFrame(expected[p].stack, passed[p])
        /\ expected[p].reg["eip"] = "stub" /\ passed[p][1] = "exit" => p = current
    BY <1>1, <2>1, InHandlerSaved
  <2>4. expected[p].reg["eip"] = "stub" => passed[p][1] # "exit"
    BY <1>1, <2>1, <2>3, NotExit DEF NoneExits
  <2> QED BY <1>1, <1>4, <2>1, <2>2, <2>3, <2>4, ZenonT(60) DEF LeftSaved, Saved
<1> QED BY <1>9, <1>10, <1>11, HandlerLeaves

LEMMA CtxExit ==
  ASSUME ContextInv, sys_exit
  PROVE  ContextInv'
<1>1. PICK S \in SUBSET Blocked : ends(current, S) /\ dispatch(After(S, "unused"))
  BY DEF sys_exit
<1>2. Handler(SysVector)
  BY DEF sys_exit, SysCall
<1>3. current \in Pcb /\ state[current] # "unused"
  BY DEF ContextInv, ContextTypes, PcbsFree
<1>4. /\ After(S, "unused") \in [Pcb -> {"running", "ready", "blocked", "unused"}]
      /\ \A p \in Pcb : After(S, "unused")[p] # "running"
      /\ \A p \in Pcb : After(S, "unused")[p] = "unused" <=> (state[p] = "unused" \/ p = current)
  <2>1. "unused" \in {"running", "ready", "blocked", "unused"} /\ "unused" # "running"
    OBVIOUS
  <2>2. /\ After(S, "unused") \in [Pcb -> {"running", "ready", "blocked", "unused"}]
        /\ \A p \in Pcb : After(S, "unused")[p] = "running" <=> (p = current /\ "unused" = "running")
        /\ \A p \in Pcb : After(S, "unused")[p] = "unused"
                             <=> (state[p] = "unused" \/ (p = current /\ "unused" = "unused"))
    BY <2>1, StatesAfter
  <2> QED BY <2>1, <2>2, Zenon
<1>5. /\ state' \in [Pcb -> {"running", "ready", "blocked", "unused"}] /\ current' \in Pcb
      /\ \A p \in Pcb : state'[p] = "running" <=> p = current'
      /\ \A p \in Pcb : state'[p] = "unused" <=> (state[p] = "unused" \/ p = current)
  BY <1>1, <1>4, StatesDispatched
<1> QED BY <1>1, <1>2, <1>3, <1>5, CtxEnds

LEMMA CtxKill ==
  ASSUME ContextInv, sys_kill_waiting
  PROVE  ContextInv'
<1>1. PICK v \in Blocked \ {InitPcb} : \E S \in SUBSET (Blocked \ {v}) :
        ends(v, S) /\ state' = [After(S, "running") EXCEPT ![v] = "unused"]
  BY DEF sys_kill_waiting
<1>2. PICK S \in SUBSET (Blocked \ {v}) :
        ends(v, S) /\ state' = [After(S, "running") EXCEPT ![v] = "unused"]
  BY <1>1
<1>3. Handler(SysVector) /\ REG(current, "eax") # "exit" /\ current' = current
  BY DEF sys_kill_waiting, SysCall
<1>4. /\ current \in Pcb /\ v \in Pcb /\ state[v] # "unused" /\ v # current
      /\ S \in SUBSET Blocked
  BY DEF ContextInv, ContextTypes, PcbsFree, Blocked
<1>5. /\ After(S, "running") \in [Pcb -> {"running", "ready", "blocked", "unused"}]
      /\ \A p \in Pcb : After(S, "running")[p] = "running" <=> p = current
      /\ \A p \in Pcb : After(S, "running")[p] = "unused" <=> state[p] = "unused"
  <2>1. "running" \in {"running", "ready", "blocked", "unused"} /\ "running" # "unused"
    OBVIOUS
  <2>2. /\ After(S, "running") \in [Pcb -> {"running", "ready", "blocked", "unused"}]
        /\ \A p \in Pcb : After(S, "running")[p] = "running" <=> (p = current /\ "running" = "running")
        /\ \A p \in Pcb : After(S, "running")[p] = "unused"
                             <=> (state[p] = "unused" \/ (p = current /\ "running" = "unused"))
    BY <1>4, <2>1, StatesAfter
  <2> QED BY <2>1, <2>2, Zenon
<1>6. /\ state' \in [Pcb -> {"running", "ready", "blocked", "unused"}] /\ current' \in Pcb
      /\ \A p \in Pcb : state'[p] = "running" <=> p = current'
      /\ \A p \in Pcb : state'[p] = "unused" <=> (state[p] = "unused" \/ p = v)
  BY <1>2, <1>3, <1>4, <1>5
<1> QED BY <1>2, <1>3, <1>4, <1>6, CtxEnds

\* A process is created: the arguments the handler reads are those that were passed.
LEMMA CtxSpawn ==
  ASSUME ContextInv, sys_spawn
  PROVE  ContextInv'
<1> DEFINE new == Head(free_pcbs)
           c == passed[current]
           made == NewStack(ARG(current, 1), ARG(current, 3), ARG(current, 4))
           fresh == Fresh(c[2], c[4], c[5])
           s(p) == Answered({current}, "pid")[p]
           e(p) == Expecting({current}, "pid")[p]
<1>1. /\ Handler(SysVector) /\ REG(current, "eax") = "spawn" /\ free_pcbs # <<>>
      /\ current' = current /\ free_pcbs' = Tail(free_pcbs)
      /\ state' = [state EXCEPT ![new] = "ready"]
  BY DEF sys_spawn, SysCall
<1>2. /\ cpu = "isr" /\ vector = SysVector /\ cpu' = "restore" /\ UNCHANGED <<reg, passed>>
      /\ cpu # "user"
  BY <1>1 DEF Handler
<1>3. current \in Pcb /\ state[current] # "unused" /\ c \in Seq(Words)
  BY DEF ContextInv, ContextTypes, PcbsFree
<1>4. /\ c[1] = "spawn" /\ CallFrame(expected[current].stack, c)
      /\ \A n \in 1 .. Len(c) - 1 : ARG(current, n) = c[n + 1]
  BY <1>1, <1>2, CallRead
<1>5. Len(c) = 5 /\ c[2] # "stub"
  BY <1>4 DEF CallFrame
<1>6. /\ ARG(current, 1) = c[2] /\ ARG(current, 3) = c[4] /\ ARG(current, 4) = c[5]
      /\ c[2] \in Words /\ c[4] \in Words /\ c[5] \in Words
  <2>1. \A n \in 1 .. 4 : ARG(current, n) = c[n + 1]
    BY <1>4, <1>5
  <2>2. c[2] \in Words /\ c[4] \in Words /\ c[5] \in Words
    BY <1>3, <1>5
  <2> HIDE DEF c
  <2>3. ARG(current, 1) = c[2] /\ ARG(current, 3) = c[4] /\ ARG(current, 4) = c[5]
    BY <2>1
  <2> QED BY <2>2, <2>3
<1>7. made = NewStack(c[2], c[4], c[5])
  BY <1>6, Zenon
<1>8. /\ stack' = [p \in Pcb |-> IF p = new THEN made ELSE s(p)]
      /\ expected' = [p \in Pcb |-> IF p = new THEN fresh ELSE e(p)]
      /\ context' = [context EXCEPT ![new] = Len(made)]
  BY DEF sys_spawn, proc_create, Answered, Expecting
<1>9. "pid" \in Words
  BY LiteralWords DEF Literals
<1>10. \A p \in Pcb :
        /\ s(p) \in Seq(Words) /\ e(p) \in [reg : RegFiles, stack : Seq(Words)]
        /\ state[p] # "unused" =>
             /\ Holds(s(p), context[p], e(p))
             /\ e(p).stack = expected[p].stack
             /\ e(p).reg["eip"] = expected[p].reg["eip"]
  BY <1>2, <1>3, <1>9, AnswersKeep
<1> HIDE DEF s, e, c, made, fresh, new
<1>11. /\ made \in Seq(Words) /\ Len(made) = 23 /\ Holds(made, 23, fresh)
       /\ fresh \in [reg : RegFiles, stack : Seq(Words)]
       /\ Len(fresh.stack) = 5 /\ fresh.reg["eip"] # "stub"
  <2>1. /\ NewStack(c[2], c[4], c[5]) \in Seq(Words) /\ Len(NewStack(c[2], c[4], c[5])) = 23
        /\ Holds(NewStack(c[2], c[4], c[5]), 23, Fresh(c[2], c[4], c[5]))
        /\ Fresh(c[2], c[4], c[5]) \in [reg : RegFiles, stack : Seq(Words)]
        /\ Len(Fresh(c[2], c[4], c[5]).stack) = 5
        /\ Fresh(c[2], c[4], c[5]).reg["eip"] = c[2]
    <3>1. NewReady(c[2], c[4], c[5])
      BY <1>6, NewAlwaysReady, Zenon
    <3> QED BY <3>1, Zenon DEF NewReady
  <2> QED BY <1>5, <1>7, <2>1, Zenon DEF fresh
<1>12. /\ new \in Pcb /\ state[new] = "unused"
       /\ Tail(free_pcbs) \in Seq(Pcb) /\ FreeUnused(Tail(free_pcbs), state')
  <2>1. free_pcbs \in Seq(Pcb) /\ FreeUnused(free_pcbs, state)
    BY DEF ContextInv, ContextTypes, PcbsFree, FreeUnused
  <2>2. \A p \in Pcb : state[p] = "unused" /\ p # Head(free_pcbs) => state'[p] = "unused"
    BY <1>1 DEF new, ContextInv, ContextTypes
  <2> QED BY <1>1, <2>1, <2>2, FreeFewer DEF new
<1>13. /\ state' \in [Pcb -> {"running", "ready", "blocked", "unused"}]
       /\ \A p \in Pcb : p # new => state'[p] = state[p]
       /\ state'[new] = "ready" /\ new # current
  BY <1>1, <1>3, <1>12 DEF ContextInv, ContextTypes
<1>14. ContextTypes'
  <2>1. stack' \in [Pcb -> Seq(Words)]
    BY <1>8, <1>10, <1>11
  <2>2. expected' \in [Pcb -> [reg : RegFiles, stack : Seq(Words)]]
    BY <1>8, <1>10, <1>11
  <2>3. context' \in [Pcb -> Nat]
    <3>1. context \in [Pcb -> Nat] /\ context' = [context EXCEPT ![new] = 23]
      BY <1>8, <1>11, Zenon DEF ContextInv, ContextTypes
    <3> QED BY <3>1
  <2> QED BY <1>1, <1>2, <1>12, <1>13, <2>1, <2>2, <2>3, Zenon DEF ContextInv, ContextTypes
<1>15. PcbsFree'
  <2>1. \A p \in Pcb : state[p] = "running" <=> p = current
    BY DEF ContextInv, PcbsFree
  <2>2. \A p \in Pcb : state'[p] = "running" <=> p = current'
    BY <1>1, <1>12, <1>13, <2>1, Zenon
  <2> QED BY <1>1, <1>12, <2>2 DEF PcbsFree, FreeUnused
<1>16. ASSUME NEW p \in Pcb, state'[p] # "unused"
       PROVE  LeftSaved(p)'
  <2>1. CASE p = new
    <3>1. stack'[p] = made /\ expected'[p] = fresh /\ context'[p] = 23
      BY <1>8, <1>11, <1>12, <2>1 DEF ContextInv, ContextTypes
    <3>2. Len(expected'[p].stack) >= 5
      <4>1. Len(expected'[p].stack) = 5
        BY <1>11, <3>1, Zenon
      <4> QED BY <4>1
    <3>3. Holds(stack'[p], context'[p], expected'[p]) /\ expected'[p].reg["eip"] # "stub"
      BY <1>11, <3>1, Zenon
    <3> QED BY <3>2, <3>3, Zenon DEF LeftSaved, Saved
  <2>2. CASE p # new
    <3>1. stack'[p] = s(p) /\ expected'[p] = e(p) /\ context'[p] = context[p]
      BY <1>8, <2>2 DEF ContextInv, ContextTypes
    <3>2. state[p] # "unused"
      BY <1>13, <1>16, <2>2
    <3>3. /\ Len(expected[p].stack) >= 5
          /\ expected[p].reg["eip"] = "stub" => CallFrame(expected[p].stack, passed[p])
      BY <1>2, <3>2, InHandlerSaved
    <3>4. expected[p].reg["eip"] = "stub" => passed[p][1] # "exit"
      BY <1>1, <1>2, <3>2, NotExit DEF NoneExits
    <3> QED BY <1>2, <1>10, <3>1, <3>2, <3>3, <3>4, Zenon DEF LeftSaved, Saved
  <2> QED BY <2>1, <2>2
<1> QED BY <1>1, <1>14, <1>15, <1>16, HandlerLeaves

-----------------------------------------------------------------------------
(***************************************************************************)
(* Contexts: entry, exit and programs                                      *)
(***************************************************************************)

\* isr_restore: the current process has the registers and the stack it expects.
LEMMA Restores ==
  ASSUME ContextInv, isr_restore
  PROVE  /\ \A r \in DOMAIN expected[current].reg : reg'[r] = expected[current].reg[r]
         /\ stack'[current] = expected[current].stack
         /\ reg' \in [Registers -> Words]
         /\ reg'["eip"] = expected[current].reg["eip"]
<1>1. cpu # "user" /\ current \in Pcb /\ state[current] # "unused"
  BY DEF isr_restore, ContextInv, ContextTypes, PcbsFree
<1> DEFINE s == stack[current]
           e == expected[current]
<1>2. /\ s \in Seq(Words) /\ e \in [reg : RegFiles, stack : Seq(Words)]
      /\ Holds(s, context[current], e)
  BY <1>1, InHandlerSaved DEF Saved
<1>3. /\ SubSeq(s, 1, context[current] - ContextSize) = e.stack
      /\ \A r \in DOMAIN e.reg : s[context[current] + 1 - Offset(r)] = e.reg[r]
      /\ \A r \in Registers : s[context[current] + 1 - Offset(r)] \in Words
  BY <1>2, HeldRead
<1>4. DOMAIN reg = Registers
  BY DEF ContextInv, ContextTypes
<1>5. reg' = [r \in Registers |-> s[context[current] + 1 - Offset(r)]]
  BY <1>4 DEF isr_restore, REG, RegAt
<1>6. DOMAIN e.reg \subseteq Registers /\ "eip" \in DOMAIN e.reg
  BY <1>2 DEF RegFiles, Holds
<1>7. stack'[current] = SubSeq(s, 1, context[current] - ContextSize)
  BY <1>1 DEF isr_restore, ContextInv, ContextTypes
<1> HIDE DEF s, e
<1>8. \A r \in DOMAIN e.reg : reg'[r] = e.reg[r]
  BY <1>3, <1>5, <1>6
<1> QED BY <1>3, <1>5, <1>6, <1>7, <1>8 DEF s, e

LEMMA CtxRestore ==
  ASSUME ContextInv, isr_restore
  PROVE  ContextInv'
<1>1. /\ stack'[current] = expected[current].stack
      /\ reg' \in [Registers -> Words]
      /\ reg'["eip"] = expected[current].reg["eip"]
  BY Restores
<1>2. /\ cpu = "restore" /\ cpu # "user" /\ cpu' = "user"
      /\ UNCHANGED <<vector, current, context, state, free_pcbs, passed>>
      /\ stack' = [stack EXCEPT ![current] = SubSeq(@, 1, context[current] - ContextSize)]
      /\ expected' = [expected EXCEPT ![current] = Nobody]
  BY DEF isr_restore
<1>3. vector # SysVector
  BY <1>2 DEF ContextInv, Trapped
<1>4. current \in Pcb /\ state[current] # "unused"
  BY DEF ContextInv, ContextTypes, PcbsFree
<1>5. /\ expected[current].stack \in Seq(Words)
      /\ stack \in [Pcb -> Seq(Words)] /\ expected \in [Pcb -> [reg : RegFiles, stack : Seq(Words)]]
  BY <1>4 DEF ContextInv, ContextTypes
<1>6. Nobody \in [reg : RegFiles, stack : Seq(Words)]
  <2>1. <<>> \in [{} -> Words]
    OBVIOUS
  <2>2. <<>> \in RegFiles
    BY <2>1 DEF RegFiles
  <2> QED BY <2>2 DEF Nobody
<1>7. \A p \in Pcb : p # current => stack'[p] = stack[p] /\ expected'[p] = expected[p]
  BY <1>2, <1>5
<1>8. ContextTypes'
  <2>1. stack' \in [Pcb -> Seq(Words)]
    <3>1. stack' = [p \in Pcb |-> IF p = current THEN expected[current].stack ELSE stack[p]]
      BY <1>1, <1>2, <1>5, <1>7
    <3> QED BY <1>5, <3>1
  <2>2. expected' \in [Pcb -> [reg : RegFiles, stack : Seq(Words)]]
    BY <1>2, <1>5, <1>6
  <2> QED BY <1>1, <1>2, <2>1, <2>2 DEF ContextInv, ContextTypes
<1>9. PcbsFree'
  BY <1>2 DEF ContextInv, PcbsFree
<1>10. ASSUME NEW p \in Pcb, state'[p] # "unused"
       PROVE  (~Runs(p) => Saved(p))' /\ Framed(p)' /\ ~Exiting(p)'
  <2>1. state[p] # "unused"
    BY <1>2, <1>10
  <2>2. /\ Saved(p) /\ Len(expected[p].stack) >= 5
        /\ expected[p].reg["eip"] = "stub" => CallFrame(expected[p].stack, passed[p])
        /\ expected[p].reg["eip"] = "stub" => passed[p][1] # "exit"
    BY <1>2, <1>3, <2>1, InHandlerSaved
  <2>3. CASE p = current
    <3>1. Runs(p)'
      BY <1>2, <2>3 DEF Runs
    <3>2. UserStack(p)' = expected[p].stack /\ UserEip(p)' = expected[p].reg["eip"]
      BY <1>1, <2>3, <3>1 DEF UserStack, UserEip
    <3> QED BY <1>2, <2>2, <3>1, <3>2 DEF Framed, Exiting
  <2>4. CASE p # current
    <3>1. ~Runs(p)' /\ Saved(p)'
      BY <1>2, <1>7, <2>2, <2>4 DEF Runs, Saved
    <3>2. UserStack(p)' = expected[p].stack /\ UserEip(p)' = expected[p].reg["eip"]
      BY <1>7, <2>4, <3>1 DEF UserStack, UserEip
    <3> QED BY <1>2, <2>2, <3>1, <3>2 DEF Framed, Exiting
  <2> QED BY <2>3, <2>4
<1> QED BY <1>2, <1>3, <1>8, <1>9, <1>10 DEF ContextInv

\* isr_save: the interrupted program's registers and stack are what it expects.
LEMMA CtxSaves ==
  ASSUME ContextInv, cpu = "user", NEW number, NEW r \in [Registers -> Words],
         NEW s \in Seq(Words), isr_save(number, r, s), Len(s) >= 5,
         passed' \in [Pcb -> Seq(Words)],
         \A p \in Pcb : p # current => passed'[p] = passed[p],
         r["eip"] = "stub" => CallFrame(s, passed'[current]),
         r["eip"] = "stub" /\ passed'[current][1] = "exit" => number = SysVector,
         number = SysVector => r["eip"] = "stub" /\ r["eax"] = passed'[current][1]
  PROVE  ContextInv'
<1>1. /\ cpu' = "isr" /\ vector' = number /\ reg' = InKernel
      /\ UNCHANGED <<current, state, free_pcbs>>
      /\ stack' = [stack EXCEPT ![current] = s \o Pushed(r)]
      /\ context' = [context EXCEPT ![current] = Len(stack'[current])]
      /\ expected' = [expected EXCEPT ![current] = [reg |-> r, stack |-> s]]
  BY DEF isr_save
<1>2. /\ current \in Pcb /\ state[current] # "unused" /\ vector # SysVector
      /\ stack \in [Pcb -> Seq(Words)] /\ context \in [Pcb -> Nat]
      /\ expected \in [Pcb -> [reg : RegFiles, stack : Seq(Words)]]
  BY DEF ContextInv, ContextTypes, PcbsFree, Trapped
<1> DEFINE u == s \o Pushed(r)
           e == [reg |-> r, stack |-> s]
<1>3. u \in Seq(Words) /\ Holds(u, Len(u), e)
  BY PushedHolds
<1>4. e.reg = r /\ e.stack = s /\ DOMAIN r = Registers /\ {"eip", "eax"} \subseteq Registers
  BY DEF Registers, General
<1>5. e \in [reg : RegFiles, stack : Seq(Words)]
  BY DEF RegFiles
<1>6. stack' = [stack EXCEPT ![current] = u] /\ expected' = [expected EXCEPT ![current] = e]
  BY <1>1
<1> HIDE DEF u, e
<1>7. Len(u) \in Nat
  BY <1>3
<1>8. /\ stack'[current] = u /\ context'[current] = Len(u) /\ expected'[current] = e
      /\ \A p \in Pcb : p # current => /\ stack'[p] = stack[p] /\ context'[p] = context[p]
                                       /\ expected'[p] = expected[p]
  BY <1>1, <1>2, <1>6
<1>9. ContextTypes'
  <2>1. stack' \in [Pcb -> Seq(Words)]
    BY <1>2, <1>3, <1>6
  <2>2. expected' \in [Pcb -> [reg : RegFiles, stack : Seq(Words)]]
    BY <1>2, <1>5, <1>6
  <2>3. context' \in [Pcb -> Nat]
    <3>1. context' = [context EXCEPT ![current] = Len(u)]
      BY <1>1, <1>8
    <3> QED BY <1>2, <1>7, <3>1
  <2>4. reg' \in [Registers -> Words]
    <3>1. "kernel" \in Words
      BY LiteralWords DEF Literals
    <3> QED BY <1>1, <3>1 DEF InKernel, Registers
  <2> QED BY <1>1, <2>1, <2>2, <2>3, <2>4, Zenon DEF ContextInv, ContextTypes
<1>10. PcbsFree'
  BY <1>1 DEF ContextInv, PcbsFree
<1>11. \A p \in Pcb : ~Runs(p)' /\ UserStack(p)' = expected'[p].stack
                       /\ UserEip(p)' = expected'[p].reg["eip"]
  BY <1>1 DEF Runs, UserStack, UserEip
<1>12. ASSUME NEW p \in Pcb, state'[p] # "unused"
       PROVE  /\ Saved(p)' /\ Framed(p)'
              /\ Exiting(p)' => p = current' /\ vector' = SysVector
  <2>1. CASE p = current
    <3>1. Saved(p)'
      BY <1>3, <1>8, <2>1 DEF Saved
    <3>2. UserStack(p)' = s /\ UserEip(p)' = r["eip"]
      BY <1>4, <1>8, <1>11, <2>1
    <3> QED BY <1>1, <2>1, <3>1, <3>2 DEF Framed, Exiting
  <2>2. CASE p # current
    <3>1. ~Runs(p) /\ state[p] # "unused"
      BY <1>1, <1>12, <2>2 DEF Runs
    <3>2. Saved(p) /\ Framed(p) /\ ~Exiting(p)
      BY <1>2, <3>1 DEF ContextInv
    <3>3. /\ UserStack(p)' = UserStack(p) /\ UserEip(p)' = UserEip(p)
          /\ passed'[p] = passed[p]
      BY <1>8, <1>11, <2>2, <3>1 DEF UserStack, UserEip
    <3>4. Saved(p)'
      BY <1>8, <2>2, <3>2 DEF Saved
    <3> QED BY <3>2, <3>3, <3>4 DEF Framed, Exiting
  <2> QED BY <2>1, <2>2
<1>13. vector' = SysVector => Trapped'
  <2>1. UserEip(current)' = r["eip"] /\ expected'[current].reg = r
    BY <1>1, <1>2, <1>4, <1>8, <1>11
  <2> QED BY <1>1, <1>4, <2>1 DEF Trapped
<1> QED BY <1>9, <1>10, <1>12, <1>13 DEF ContextInv

\* A program is interrupted by a device, or by nothing.
LEMMA CtxInterrupted ==
  ASSUME ContextInv, NEW number, number # SysVector, Interrupted(number)
  PROVE  ContextInv'
<1>1. /\ cpu = "user" /\ isr_save(number, reg, stack[current]) /\ passed' = passed
  BY DEF Interrupted, InUser
<1>2. /\ current \in Pcb /\ state[current] # "unused" /\ reg \in [Registers -> Words]
      /\ stack[current] \in Seq(Words) /\ passed \in [Pcb -> Seq(Words)] /\ vector # SysVector
  BY <1>1 DEF ContextInv, ContextTypes, PcbsFree, Trapped
<1>3. UserStack(current) = stack[current] /\ UserEip(current) = reg["eip"]
  BY <1>1 DEF UserStack, UserEip, Runs
<1>4. Framed(current) /\ ~Exiting(current)
  BY <1>2 DEF ContextInv
<1>5. /\ Len(stack[current]) >= 5
      /\ reg["eip"] = "stub" => CallFrame(stack[current], passed[current])
      /\ ~(reg["eip"] = "stub" /\ passed[current][1] = "exit")
  BY <1>3, <1>4 DEF Framed, Exiting
<1> QED BY <1>1, <1>2, <1>5, CtxSaves

\* A function of the library is called: the stack has a frame for the call.
LEMMA Frame ==
  ASSUME NEW s \in Seq(Words), NEW args \in Seq(Words), NEW from \in Words, NEW code \in Words,
         from # "stub", Len(s) >= 4, code # "exit" => Len(s) >= 5,
         code = "spawn" => Len(args) = 4 /\ args[1] # "stub",
         NEW u, u = s \o Reverse(args) \o <<from>>
  PROVE  /\ u \in Seq(Words) /\ Len(u) >= 5
         /\ <<code>> \o args \in Seq(Words) /\ (<<code>> \o args)[1] = code
         /\ CallFrame(u, <<code>> \o args)
<1>0. ASSUME NEW x \in Seq(Words), NEW y \in Seq(Words)
      PROVE  /\ x \o y \in Seq(Words) /\ Len(x \o y) = Len(x) + Len(y)
             /\ \A k \in 1 .. Len(x) : (x \o y)[k] = x[k]
             /\ \A k \in 1 .. Len(y) : (x \o y)[Len(x) + k] = y[k]
  BY SeqConcat
<1>1. PICK n \in Nat : n = Len(s)
  OBVIOUS
<1>2. PICK a \in Nat : a = Len(args)
  OBVIOUS
<1> DEFINE call == <<code>> \o args
           rev == Reverse(args)
           last == <<from>>
           t == s \o rev
<1>3. /\ call \in Seq(Words) /\ Len(call) = a + 1 /\ call[1] = code
      /\ \A k \in 1 .. a : call[k + 1] = args[k]
  BY <1>2
<1>4. /\ rev \in Seq(Words) /\ Len(rev) = a
      /\ \A k \in 1 .. a : rev[k] = args[a - k + 1]
  BY <1>2 DEF Reverse
<1>5. last \in Seq(Words) /\ Len(last) = 1 /\ last[1] = from
  OBVIOUS
<1>6. u = t \o last
  OBVIOUS
<1> HIDE DEF call, rev, last
<1>7. /\ t \in Seq(Words) /\ Len(t) = n + a
      /\ \A k \in 1 .. a : t[n + k] = rev[k]
  <2>1. /\ t \in Seq(Words) /\ Len(t) = Len(s) + Len(rev)
        /\ \A k \in 1 .. Len(rev) : t[Len(s) + k] = rev[k]
    BY <1>4, <1>0, Zenon
  <2> QED BY <1>1, <1>4, <2>1
<1> HIDE DEF t
<1>8. /\ u \in Seq(Words) /\ Len(u) = n + a + 1
      /\ \A k \in 1 .. n + a : u[k] = t[k]
      /\ u[n + a + 1] = from
  <2>1. /\ u \in Seq(Words) /\ Len(u) = Len(t) + Len(last)
        /\ \A k \in 1 .. Len(t) : u[k] = t[k]
        /\ \A k \in 1 .. Len(last) : u[Len(t) + k] = last[k]
    <3>1. /\ t \o last \in Seq(Words) /\ Len(t \o last) = Len(t) + Len(last)
          /\ \A k \in 1 .. Len(t) : (t \o last)[k] = t[k]
          /\ \A k \in 1 .. Len(last) : (t \o last)[Len(t) + k] = last[k]
      BY <1>5, <1>7, <1>0, Zenon
    <3> QED BY <1>6, <3>1, Zenon
  <2> QED BY <1>5, <1>7, <2>1
<1>9. n >= 4 /\ (code # "exit" => n >= 5)
  BY <1>1
<1>10. \A k \in 1 .. a : u[n + a + 1 - k] = call[k + 1]
  <2> TAKE k \in 1 .. a
  <2>1. a + 1 - k \in 1 .. a /\ n + (a + 1 - k) \in 1 .. n + a /\ a - (a + 1 - k) + 1 = k
        /\ n + (a + 1 - k) = n + a + 1 - k
    BY <1>1, <1>2
  <2>2. u[n + (a + 1 - k)] = rev[a + 1 - k]
    BY <1>7, <1>8, <2>1, Zenon
  <2>3. rev[a + 1 - k] = args[k]
    BY <1>4, <2>1
  <2>4. u[n + (a + 1 - k)] = call[k + 1]
    BY <1>3, <2>2, <2>3
  <2> QED BY <2>1, <2>4
<1>11. CallFrame(u, call)
  <2>1. call # <<>>
    BY <1>3
  <2>2. call[1] = "spawn" => Len(call) = 5 /\ call[2] # "stub"
    <3>1. code = "spawn" => a = 4 /\ args[1] # "stub"
      BY <1>2
    <3>2. a = 4 => call[2] = args[1]
      BY <1>3
    <3> QED BY <1>3, <3>1, <3>2
  <2>3. Len(u) >= Len(call) + 4
    BY <1>3, <1>8, <1>9
  <2>4. call[1] # "exit" => Len(u) >= Len(call) + 5
    <3>1. CASE code = "exit"
      BY <1>3, <3>1
    <3>2. CASE code # "exit"
      <4>1. n >= 5
        BY <1>9, <3>2
      <4> QED BY <1>3, <1>8, <4>1
    <3> QED BY <3>1, <3>2
  <2>5. \A k \in 1 .. Len(call) - 1 : u[Len(u) - k] = call[k + 1]
    <3>1. (1 .. Len(call) - 1) = (1 .. a) /\ Len(u) = n + a + 1
      BY <1>3, <1>8
    <3> TAKE k \in 1 .. Len(call) - 1
    <3>2. k \in 1 .. a
      BY <3>1, Zenon
    <3>3. u[n + a + 1 - k] = call[k + 1]
      BY <1>10, <3>2, Zenon
    <3>4. Len(u) - k = n + a + 1 - k
      BY <3>1
    <3> QED BY <3>3, <3>4
  <2>6. u[Len(u)] # "stub"
    BY <1>8
  <2> QED BY <2>1, <2>2, <2>3, <2>4, <2>5, <2>6 DEF CallFrame
<1>12. Len(u) >= 5
  BY <1>8, <1>9
<1> QED BY <1>3, <1>8, <1>11, <1>12 DEF call

\* The same, of any call.
CallMade(s, args, from, code) ==
  /\ s \in Seq(Words) /\ args \in Seq(Words) /\ from \in Words /\ code \in Words
  /\ from # "stub" /\ Len(s) >= 4 /\ (code # "exit" => Len(s) >= 5)
  /\ (code = "spawn" => Len(args) = 4 /\ args[1] # "stub")

CallStands(frame, words, code) ==
  /\ frame \in Seq(Words) /\ Len(frame) >= 5 /\ words \in Seq(Words) /\ words[1] = code
  /\ CallFrame(frame, words)

LEMMA CallsStand ==
  \A s, args, from, code :
     CallMade(s, args, from, code)
       => CallStands(s \o Reverse(args) \o <<from>>, <<code>> \o args, code)
<1> SUFFICES ASSUME NEW s, NEW args, NEW from, NEW code, CallMade(s, args, from, code)
             PROVE  CallStands(s \o Reverse(args) \o <<from>>, <<code>> \o args, code)
  OBVIOUS
<1>1. /\ s \in Seq(Words) /\ args \in Seq(Words) /\ from \in Words /\ code \in Words
      /\ from # "stub" /\ Len(s) >= 4 /\ (code # "exit" => Len(s) >= 5)
      /\ (code = "spawn" => Len(args) = 4 /\ args[1] # "stub")
  BY DEF CallMade
<1> DEFINE u == s \o Reverse(args) \o <<from>>
<1>2. /\ u \in Seq(Words) /\ Len(u) >= 5
      /\ <<code>> \o args \in Seq(Words) /\ (<<code>> \o args)[1] = code
      /\ CallFrame(u, <<code>> \o args)
  BY <1>1, Frame
<1> QED BY <1>2 DEF CallStands

LEMMA CtxCalls ==
  ASSUME ContextInv, cpu = "user", NEW code \in Words, NEW args \in Seq(Words),
         NEW s \in Seq(Words), NEW from \in Words, Calls(code, args, s, from),
         from # "stub", Len(s) >= 4, code # "exit" => Len(s) >= 5,
         code = "spawn" => Len(args) = 4 /\ args[1] # "stub"
  PROVE  ContextInv'
<1> DEFINE r == [reg EXCEPT !["eax"] = code, !["eip"] = "stub"]
           u == s \o Reverse(args) \o <<from>>
           call == <<code>> \o args
<1>1. /\ isr_save(SysVector, r, u) /\ passed' = [passed EXCEPT ![current] = call]
  BY DEF Calls
<1>2. /\ u \in Seq(Words) /\ Len(u) >= 5 /\ call \in Seq(Words) /\ call[1] = code
      /\ CallFrame(u, call)
  <2>1. CallMade(s, args, from, code)
    BY DEF CallMade
  <2>2. CallStands(u, call, code)
    BY <2>1, CallsStand, Zenon
  <2> QED BY <2>2, Zenon DEF CallStands
<1>3. current \in Pcb /\ reg \in [Registers -> Words] /\ passed \in [Pcb -> Seq(Words)]
  BY DEF ContextInv, ContextTypes
<1>4. r \in [Registers -> Words] /\ r["eip"] = "stub" /\ r["eax"] = code
  <2>1. "stub" \in Words
    BY LiteralWords DEF Literals
  <2>2. "eax" \in Registers /\ "eip" \in Registers
    BY DEF Registers, General
  <2> QED BY <1>3, <2>1, <2>2
<1> HIDE DEF r, u, call
<1>5. passed'[current] = call /\ passed' \in [Pcb -> Seq(Words)]
      /\ \A p \in Pcb : p # current => passed'[p] = passed[p]
  BY <1>1, <1>2, <1>3
<1> QED BY <1>1, <1>2, <1>4, <1>5, CtxSaves

\* The program that runs, between two instructions of its own.
LEMMA RunningProgram ==
  ASSUME ContextInv, cpu = "user"
  PROVE  /\ current \in Pcb /\ state[current] # "unused" /\ vector # SysVector
         /\ reg \in [Registers -> Words] /\ stack[current] \in Seq(Words)
         /\ Len(stack[current]) >= 5
         /\ reg["eip"] = "stub" => /\ CallFrame(stack[current], passed[current])
                                   /\ passed[current][1] # "exit"
<1>1. /\ current \in Pcb /\ state[current] # "unused" /\ vector # SysVector
      /\ reg \in [Registers -> Words] /\ stack[current] \in Seq(Words)
  BY DEF ContextInv, ContextTypes, PcbsFree, Trapped
<1>2. Framed(current) /\ ~Exiting(current)
  BY <1>1 DEF ContextInv
<1>3. UserStack(current) = stack[current] /\ UserEip(current) = reg["eip"]
  BY DEF UserStack, UserEip, Runs
<1> QED BY <1>1, <1>2, <1>3 DEF Framed, Exiting

LEMMA CtxCall ==
  ASSUME ContextInv, Call
  PROVE  ContextInv'
<1>1. cpu = "user" /\ reg["eip"] # "stub"
  BY DEF Call, Running, InUser
<1> DEFINE s == stack[current]
           from == reg["eip"]
<1>2. s \in Seq(Words) /\ Len(s) >= 5 /\ reg \in [Registers -> Words]
  BY <1>1, RunningProgram
<1>3. from \in Words /\ from # "stub"
  BY <1>1, <1>2 DEF Registers
<1>4. "other" \in Words /\ "spawn" \in Words /\ "exit" \in Words
  BY LiteralWords DEF Literals
<1>5. /\ Entry \in Words /\ Prio \in Words /\ Arg1 \in Words /\ Arg2 \in Words
      /\ Status \in Words
  BY DEF Words
<1>6. \A code \in {"other", "spawn", "exit"} : code \in Words
  BY <1>4
<1>7. Len(s) >= 4
  BY <1>2
<1>8. /\ <<>> \in Seq(Words) /\ <<Status>> \in Seq(Words)
      /\ <<Entry, Prio, Arg1, Arg2>> \in Seq(Words)
  BY <1>5
<1>9. Len(<<Entry, Prio, Arg1, Arg2>>) = 4 /\ <<Entry, Prio, Arg1, Arg2>>[1] # "stub"
  BY EntryAssumption
<1> HIDE DEF s, from
<1>10. CASE Calls("other", <<>>, s, from)
  BY <1>1, <1>2, <1>3, <1>4, <1>7, <1>8, <1>10, CtxCalls
<1>11. CASE Calls("spawn", <<Entry, Prio, Arg1, Arg2>>, s, from)
  BY <1>1, <1>2, <1>3, <1>4, <1>7, <1>8, <1>9, <1>11, CtxCalls
<1>12. CASE Calls("exit", <<Status>>, s, from)
  BY <1>1, <1>2, <1>3, <1>4, <1>7, <1>8, <1>12, CtxCalls
<1> QED BY <1>10, <1>11, <1>12 DEF Call, s, from

LEMMA CtxMainReturns ==
  ASSUME ContextInv, MainReturns
  PROVE  ContextInv'
<1>1. cpu = "user" /\ Calls("exit", <<reg["eax"]>>, Front(stack[current]), "exit_helper")
  BY DEF MainReturns, Running, InUser
<1>2. /\ stack[current] \in Seq(Words) /\ Len(stack[current]) >= 5
      /\ reg \in [Registers -> Words]
  BY <1>1, RunningProgram
<1>3. reg["eax"] \in Words
  BY <1>2 DEF Registers, General
<1>4. Front(stack[current]) \in Seq(Words) /\ Len(Front(stack[current])) >= 4
  <2>1. PICK t \in Seq(Words) : t = stack[current]
    BY <1>2
  <2>2. Front(t) \in Seq(Words) /\ Len(Front(t)) = Len(t) - 1
    BY <1>2, <2>1 DEF Front
  <2> QED BY <1>2, <2>1, <2>2
<1>5. "exit" \in Words /\ "exit_helper" \in Words
  BY LiteralWords DEF Literals
<1>6. <<reg["eax"]>> \in Seq(Words)
  BY <1>3
<1>7. "exit_helper" # "stub" /\ "exit" # "spawn"
  OBVIOUS
<1> QED BY <1>1, <1>4, <1>5, <1>6, <1>7, CtxCalls

\* The program that runs changes registers and stack, in no system call.
LEMMA CtxRunsOn ==
  ASSUME ContextInv, cpu = "user",
         UNCHANGED <<cpu, vector, current, context, state, free_pcbs, expected>>,
         reg' \in [Registers -> Words],
         NEW s \in Seq(Words), stack' = [stack EXCEPT ![current] = s], Len(s) >= 5,
         passed' \in [Pcb -> Seq(Words)],
         \A p \in Pcb : p # current => passed'[p] = passed[p],
         reg'["eip"] = "stub" => CallFrame(s, passed'[current]) /\ passed'[current][1] # "exit"
  PROVE  ContextInv'
<1>1. current \in Pcb /\ vector # SysVector /\ stack \in [Pcb -> Seq(Words)]
  BY RunningProgram DEF ContextInv, ContextTypes
<1>2. stack' \in [Pcb -> Seq(Words)] /\ stack'[current] = s
      /\ \A p \in Pcb : p # current => stack'[p] = stack[p]
  BY <1>1
<1>3. ContextTypes'
  BY <1>2 DEF ContextInv, ContextTypes
<1>4. PcbsFree'
  BY DEF ContextInv, PcbsFree
<1>5. ASSUME NEW p \in Pcb, state'[p] # "unused"
      PROVE  (~Runs(p) => Saved(p))' /\ Framed(p)' /\ ~Exiting(p)'
  <2>1. CASE p = current
    <3>1. Runs(p)' /\ UserStack(p)' = s /\ UserEip(p)' = reg'["eip"]
      BY <1>2, <2>1 DEF Runs, UserStack, UserEip
    <3> QED BY <2>1, <3>1 DEF Framed, Exiting
  <2>2. CASE p # current
    <3>1. ~Runs(p) /\ Saved(p) /\ Framed(p) /\ ~Exiting(p)
      BY <1>1, <1>5, <2>2 DEF ContextInv, Runs
    <3>2. /\ UserStack(p)' = UserStack(p) /\ UserEip(p)' = UserEip(p)
          /\ passed'[p] = passed[p] /\ stack'[p] = stack[p]
      BY <1>2, <2>2 DEF Runs, UserStack, UserEip
    <3> QED BY <3>1, <3>2 DEF Framed, Exiting, Saved
  <2> QED BY <2>1, <2>2
<1> QED BY <1>1, <1>3, <1>4, <1>5 DEF ContextInv

LEMMA CtxCompute ==
  ASSUME ContextInv, Compute
  PROVE  ContextInv'
<1>1. /\ cpu = "user" /\ reg["eip"] # "stub"
      /\ reg' = [r \in DOMAIN reg |-> IF r \in General THEN r \o current ELSE reg[r]]
      /\ UNCHANGED <<cpu, vector, current, procVars>>
  BY DEF Compute, InUser
<1>2. /\ current \in Pcb /\ reg \in [Registers -> Words]
      /\ stack[current] \in Seq(Words) /\ Len(stack[current]) >= 5
  BY <1>1, RunningProgram
<1>3. \A r \in General : r \o current \in Words
  <2>1. \A r \in General : OwnValue(r, current) \in Words
    BY <1>2 DEF Words, Computed
  <2> QED BY <2>1, Zenon DEF OwnValue
<1>4. reg' \in [Registers -> Words]
  BY <1>1, <1>2, <1>3
<1>5. reg'["eip"] = reg["eip"]
  <2>1. "eip" \in Registers /\ "eip" \notin General
    BY DEF Registers, General
  <2> QED BY <1>1, <1>2, <2>1
<1>6. stack' = [stack EXCEPT ![current] = stack[current]] /\ passed' \in [Pcb -> Seq(Words)]
  <2>1. stack \in [Pcb -> Seq(Words)] /\ passed \in [Pcb -> Seq(Words)]
    BY DEF ContextInv, ContextTypes
  <2> QED BY <1>1, <2>1 DEF procVars
<1>7. UNCHANGED <<cpu, vector, current, context, state, free_pcbs, expected>> /\ passed' = passed
  BY <1>1 DEF procVars
<1> QED BY <1>1, <1>2, <1>4, <1>5, <1>6, <1>7, CtxRunsOn

LEMMA CtxReturns ==
  ASSUME ContextInv, Returns
  PROVE  ContextInv'
<1> DEFINE s == stack[current]
           call == passed[current]
           t == SubSeq(s, 1, Len(s) - Len(call))
<1>1. /\ cpu = "user" /\ reg["eip"] = "stub"
      /\ reg' = [reg EXCEPT !["eip"] = Last(s)]
      /\ stack' = [stack EXCEPT ![current] = t]
      /\ passed' = [passed EXCEPT ![current] = NoCall]
      /\ UNCHANGED <<cpu, vector, current, context, state, free_pcbs, expected>>
  BY DEF Returns, InUser
<1>2. /\ current \in Pcb /\ reg \in [Registers -> Words] /\ s \in Seq(Words)
      /\ CallFrame(s, call) /\ call[1] # "exit"
  BY <1>1, RunningProgram
<1>3. passed \in [Pcb -> Seq(Words)] /\ call \in Seq(Words)
  BY <1>2 DEF ContextInv, ContextTypes
<1> HIDE DEF s, call
<1>4. PICK n \in Nat : n = Len(s)
  BY <1>2
<1>5. PICK c \in Nat : c = Len(call)
  BY <1>3
<1>6. n >= c + 5 /\ s[n] # "stub"
  BY <1>2, <1>4, <1>5 DEF CallFrame
<1>7. t \in Seq(Words) /\ Len(t) >= 5
  <2>1. n - c \in Nat /\ n - c <= n /\ n - c >= 5
    BY <1>4, <1>5, <1>6
  <2>2. \A m \in Nat : m <= n => SubSeq(s, 1, m) \in Seq(Words) /\ Len(SubSeq(s, 1, m)) = m
    BY <1>2, <1>4
  <2> QED BY <1>4, <1>5, <2>1, <2>2
<1>8. Last(s) \in Words /\ Last(s) # "stub"
  BY <1>2, <1>4, <1>5, <1>6 DEF Last
<1>9. reg' \in [Registers -> Words] /\ reg'["eip"] # "stub"
  <2>1. "eip" \in Registers
    BY DEF Registers
  <2> QED BY <1>1, <1>2, <1>8, <2>1
<1>10. passed' \in [Pcb -> Seq(Words)] /\ \A p \in Pcb : p # current => passed'[p] = passed[p]
  <2>1. NoCall \in Seq(Words)
    BY DEF NoCall
  <2> QED BY <1>1, <1>3, <2>1
<1> HIDE DEF t
<1> QED BY <1>1, <1>7, <1>9, <1>10, CtxRunsOn

\* Every step preserves the invariant.
LEMMA NextContext == ContextInv /\ [Next]_vars => ContextInv'
<1> SUFFICES ASSUME ContextInv, [Next]_vars
             PROVE  ContextInv'
  OBVIOUS
<1>1. ASSUME UNCHANGED <<cpu, vector, current, reg, procVars>>
      PROVE  ContextInv'
  BY <1>1 DEF ContextInv, ContextTypes, PcbsFree, Saved, Framed, Exiting, Trapped, UserStack,
    UserEip, Runs, procVars
<1>2. CASE Device
  BY <1>1, <1>2 DEF Device
<1>3. CASE UNCHANGED vars
  BY <1>1, <1>3 DEF vars
<1>4. CASE Accept
  <2>1. PICK number \in {VectorOf(l) : l \in Lines \cup {Mystery}} : Interrupted(number)
    BY <1>4 DEF Accept, Interrupt, Spurious
  <2> QED BY <2>1, VectorsApart, CtxInterrupted
<1>5. CASE Program
  BY <1>5, CtxCompute, CtxCall, CtxMainReturns, CtxReturns DEF Program
<1>6. CASE clk_isr \/ c_keyboard_isr \/ sio_isr \/ eth_isr \/ default_mystery_handler
  BY <1>6, CtxClock, CtxAside, CtxWakes
<1>7. CASE sys_isr
  BY <1>7, CtxQuick, CtxGivesUp, CtxSpawn, CtxFails, CtxExit, CtxKill DEF sys_isr
<1>8. CASE isr_restore
  BY <1>8, CtxRestore
<1> QED BY <1>2, <1>3, <1>4, <1>5, <1>6, <1>7, <1>8 DEF Next, Kernel

-----------------------------------------------------------------------------
(***************************************************************************)
(* Contexts: the start and the theorems                                    *)
(***************************************************************************)

\* The PCBs of a machine as a list.
LEMMA PcbList ==
  ASSUME NEW pcbs \in SUBSET Pcb
  PROVE  /\ SetToSeq(pcbs) \in Seq(Pcb)
         /\ \A i \in 1 .. Len(SetToSeq(pcbs)) : SetToSeq(pcbs)[i] \in pcbs
         /\ \A i, j \in 1 .. Len(SetToSeq(pcbs)) : SetToSeq(pcbs)[i] = SetToSeq(pcbs)[j] => i = j
<1>1. IsFiniteSet(pcbs)
  BY PcbAssumption, FS_Subset
<1>2. PICK n \in Nat : n = Cardinality(pcbs)
  BY <1>1, FS_CardinalityType
<1>3. PICK f : f \in Bijection(1 .. n, pcbs)
  BY <1>1, <1>2, FS_CardinalityType DEF ExistsBijection
<1>4. f \in [1 .. n -> pcbs] /\ \A i, j \in 1 .. n : f[i] = f[j] => i = j
  BY <1>3 DEF Bijection, Injection, IsInjective
<1> DEFINE l == SetToSeq(pcbs)
<1>5. l \in [1 .. n -> pcbs] /\ \A i, j \in 1 .. n : l[i] = l[j] => i = j
  <2>1. \E g \in [1 .. n -> pcbs] : IsInjective(g)
    BY <1>4 DEF IsInjective
  <2>2. l \in [1 .. n -> pcbs] /\ IsInjective(l)
    BY <1>2, <2>1 DEF SetToSeq
  <2> QED BY <2>2 DEF IsInjective
<1> HIDE DEF l
<1>6. l \in Seq(Pcb) /\ Len(l) = n
  BY <1>5
<1> QED BY <1>5, <1>6 DEF l

LEMMA InitContext == Init => ContextInv
<1> SUFFICES ASSUME Init PROVE ContextInv
  OBVIOUS
<1> DEFINE new == NewStack(Entry, Arg1, Arg2)
           fresh == Fresh(Entry, Arg1, Arg2)
<1>1. /\ Entry \in Words /\ Arg1 \in Words /\ Arg2 \in Words /\ "kernel" \in Words
  BY LiteralWords DEF Words, Literals
<1>2. /\ new \in Seq(Words) /\ Len(new) = 23
      /\ Holds(new, 23, fresh)
      /\ fresh \in [reg : RegFiles, stack : Seq(Words)]
      /\ Len(fresh.stack) = 5 /\ fresh.reg["eip"] = Entry
  BY <1>1, NewHolds
<1>3. PICK machine \in Machines : free_pcbs = SetToSeq(machine.pcbs)
  BY DEF Init
<1>4. machine.pcbs \in SUBSET Pcb /\ InitPcb \notin machine.pcbs /\ IdlePcb \notin machine.pcbs
  BY MachineAssumption
<1>5. /\ free_pcbs \in Seq(Pcb)
      /\ \A i \in 1 .. Len(free_pcbs) : free_pcbs[i] \in machine.pcbs
      /\ \A i, j \in 1 .. Len(free_pcbs) : free_pcbs[i] = free_pcbs[j] => i = j
  BY <1>3, <1>4, PcbList
<1>6. /\ cpu = "restore" /\ vector = 0 /\ current = InitPcb /\ reg = InKernel
      /\ stack = [p \in Pcb |-> IF p \in {InitPcb, IdlePcb} THEN new ELSE <<>>]
      /\ context = [p \in Pcb |-> IF p \in {InitPcb, IdlePcb} THEN Len(new) ELSE FreeLink]
      /\ state = [p \in Pcb |-> IF p = InitPcb THEN "running"
                                ELSE IF p = IdlePcb THEN "ready" ELSE "unused"]
      /\ passed = [p \in Pcb |-> NoCall]
      /\ expected = [p \in Pcb |-> IF p \in {InitPcb, IdlePcb} THEN fresh ELSE Nobody]
  BY DEF Init
<1> HIDE DEF new, fresh
<1>7. ContextTypes
  <2>1. Nobody \in [reg : RegFiles, stack : Seq(Words)] /\ NoCall \in Seq(Words)
    <3>1. <<>> \in [{} -> Words]
      OBVIOUS
    <3>2. <<>> \in RegFiles
      BY <3>1 DEF RegFiles
    <3> QED BY <3>2 DEF Nobody, NoCall
  <2>2. reg \in [Registers -> Words]
    BY <1>1, <1>6 DEF InKernel, Registers
  <2>3. /\ cpu \in {"user", "isr", "restore"} /\ current \in Pcb
        /\ state \in [Pcb -> {"running", "ready", "blocked", "unused"}]
    BY <1>6, PcbAssumption
  <2>4. stack \in [Pcb -> Seq(Words)]
    BY <1>2, <1>6
  <2>5. context \in [Pcb -> Nat]
    BY <1>2, <1>6 DEF FreeLink
  <2>6. passed \in [Pcb -> Seq(Words)]
    BY <1>6, <2>1
  <2>7. expected \in [Pcb -> [reg : RegFiles, stack : Seq(Words)]]
    BY <1>2, <1>6, <2>1
  <2> QED BY <1>5, <2>2, <2>3, <2>4, <2>5, <2>6, <2>7 DEF ContextTypes
<1>8. PcbsFree
  <2>1. \A p \in Pcb : state[p] = "running" <=> p = current
    BY <1>6
  <2>2. \A i \in 1 .. Len(free_pcbs) : state[free_pcbs[i]] = "unused"
    <3>1. \A p \in machine.pcbs : state[p] = "unused"
      BY <1>4, <1>6
    <3> QED BY <1>5, <3>1, Zenon
  <2> QED BY <1>5, <2>1, <2>2 DEF PcbsFree
<1>9. ASSUME NEW p \in Pcb, state[p] # "unused"
      PROVE  Saved(p) /\ Framed(p) /\ ~Exiting(p)
  <2>1. stack[p] = new /\ context[p] = 23 /\ expected[p] = fresh
    BY <1>2, <1>6, <1>9
  <2>2. UserStack(p) = fresh.stack /\ UserEip(p) = Entry
    BY <1>2, <1>6, <2>1 DEF UserStack, UserEip, Runs
  <2>3. Saved(p)
    BY <1>2, <2>1 DEF Saved
  <2>4. Len(fresh.stack) >= 5
    BY <1>2
  <2> QED BY <2>2, <2>3, <2>4, EntryAssumption DEF Framed, Exiting
<1> QED BY <1>6, <1>7, <1>8, <1>9 DEF ContextInv, SysVector

LEMMA ContextInvariance == Spec => []ContextInv
BY InitContext, NextContext, PTL DEF Spec

\* What the kernel reads as code and arguments of a system call (REG and ARG of
\* sys_isr and sys_spawn) is what the program passed to the function of the
\* library, for whatever programs pass, and also when main() returned to
\* exit_helper; and no call makes it read behind the end of a stack.
THEOREM ArgumentsAreRead == Spec => []ArgumentsRead
<1>1. ContextInv => ArgumentsRead
  BY CallRead DEF ArgumentsRead
<1> QED BY <1>1, ContextInvariance, PTL

\* Whenever the kernel gives the processor to a program, __isr_restore gives the
\* program the registers and the stack that it had when it was interrupted, but for
\* the answer of its call, or those that _proc_create promised a new process: for
\* any number of processes, whatever ran, was created or ended in between.
THEOREM ContextsAreKept == Spec => ContextsKept
<1>1. ASSUME ContextInv, [Next]_vars, cpu = "restore", cpu' = "user"
      PROVE  isr_restore
  <2>1. \A number : ~isr_save(number, reg, stack[current])
    BY <1>1 DEF isr_save
  <2>2. ~Device /\ ~Accept /\ ~Program
    BY <1>1 DEF Device, Accept, Interrupt, Spurious, Interrupted, Program, Compute, Call,
      MainReturns, Returns, Running, InUser
  <2>3. \A number : ~Handler(number)
    BY <1>1 DEF Handler
  <2>4. ~sys_isr
    BY <2>3 DEF sys_isr, sys_quick, sys_block, sys_yield, sys_spawn, sys_spawn_fails, sys_exit,
      sys_kill_waiting, SysCall
  <2>5. ~(clk_isr \/ c_keyboard_isr \/ sio_isr \/ eth_isr \/ default_mystery_handler)
    BY <2>3 DEF clk_isr, c_keyboard_isr, sio_isr, eth_isr, default_mystery_handler
  <2> QED BY <1>1, <2>2, <2>4, <2>5 DEF Next, Kernel, vars
<1>2. ContextInv /\ [Next]_vars
        => [cpu = "restore" /\ cpu' = "user" =>
              /\ \A r \in DOMAIN expected[current].reg : reg'[r] = expected[current].reg[r]
              /\ stack'[current] = expected[current].stack]_vars
  BY <1>1, Restores
<1> QED BY <1>2, ContextInvariance, PTL DEF Spec, ContextsKept
=============================================================================
