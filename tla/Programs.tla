------------------------------ MODULE Programs ------------------------------
(***************************************************************************)
(* The programs of the baseline system (userland/) on top of Kernel: which *)
(* process system calls each makes, in which order, and what it makes of   *)
(* the answers.  Between calls a program computes and writes, and can be   *)
(* interrupted anywhere; writes change nothing that Kernel knows.          *)
(*                                                                         *)
(* A script is the sequence of the calls a program still has to make.  A   *)
(* loop is an entry of its own, looked at when the call before it has been *)
(* answered.                                                               *)
(***************************************************************************)
EXTENDS Kernel

CONSTANTS
  Boots,       \* BOUND: what init is configured to spawn (users.h)
  Kids, KidsI, KidsJ, \* BOUNDS: children that a program spawns, and that userI and userJ do
  Reps         \* BOUND: rounds of the other loops

E_BAD_SYSCALL == -3
User1 == 1
User2 == 2

Names == {"idle", "main1", "main2", "main3", "main4", "userH", "userI", "userJ", "userM",
          "userN", "userP", "userQ", "userR", "userS", "userT", "userU", "userV", "userW",
          "userX", "userY", "userZ"}

\* Programs exit with 0, with their PID, with a number of children, or for a call
\* that there is not.
ASSUME LevelAssumption    == User2 <= PRIO_LOWEST
ASSUME ExitsAssumption    == {E_BAD_SYSCALL} \cup 0 .. MaxPid \cup 0 .. Kids \subseteq ExitStatuses
ASSUME CountsAssumption   == {Kids, KidsI, KidsJ, Reps} \subseteq Nat
ASSUME BootsAssumption    == \A boot \in Boots : boot \in Seq(Names)

VARIABLES
  program,     \* by PCB: the program it runs
  script,      \* by PCB: the calls still to come
  kids         \* by PCB: the PIDs that userI keeps of its children

programVars == <<program, script, kids>>
allVars     == <<vars, programVars>>

-----------------------------------------------------------------------------
(***************************************************************************)
(* Scripts                                                                 *)
(***************************************************************************)

Op(name)          == [op |-> name]
Sleep             == Op("sleep")
Wait              == Op("wait")
Spawn(name, r)    == [op |-> "spawn", program |-> name, level |-> r]
Kill(n)           == [op |-> "kill", pid |-> n]
KillKid(i)        == [op |-> "kill kid", kid |-> i]
Exit(st)          == [op |-> "exit", status |-> st]
Loop(body, until) == [op |-> "loop", body |-> body, until |-> until]

\* The body of a loop, n times over.
Times(n, body) == [i \in 1 .. n * Len(body) |-> body[((i - 1) % Len(body)) + 1]]
SpawnStd(name) == Spawn(name, User1)

main1 == <<Exit(0)>>
main2 == <<Exit(0)>>
main3 == Times(Reps, <<Sleep>>) \o <<Exit(0)>>
main4 == Times(Kids, <<SpawnStd("userX"), Sleep>>) \o <<Exit(0)>>
main5(body) == Times(Kids, body) \o <<Exit(0)>>
userM == main5(<<SpawnStd("userW")>>)
userN == main5(<<SpawnStd("userW"), SpawnStd("userZ")>>)

\* T waits until there is an error; U kills what it counts from 0 on, and that
\* is first itself.
main6(rest) == Times(Kids, <<SpawnStd("userW")>>) \o <<Sleep>> \o rest \o <<Exit(0)>>
userT == main6(<<Wait, Loop(<<Wait>>, "error")>>)
userU == main6(<<Kill(0)>>)

userH == Times(Kids, <<SpawnStd("userZ")>>) \o <<Op("yield"), Exit(0)>>
userI == Times(KidsI, <<SpawnStd("userW")>>) \o <<Sleep, KillKid(2), KillKid(4)>> \o
         <<Wait, Loop(<<Sleep, Wait>>, "no children"), Exit(0)>>
userJ == Times(KidsJ, <<SpawnStd("userY")>>) \o <<Exit(0)>>
userP == Times(Reps, <<Sleep>>) \o <<Exit(0)>>
userQ == <<Op("bogus")>>
userR == <<Sleep, Loop(<<Op("read")>>, "never")>>
userS == <<Sleep, Loop(<<Sleep>>, "never")>>
userV == Times(Reps, <<Sleep, Op("toggle")>>) \o <<Exit(0)>>
userW == Times(Reps, <<Sleep>>) \o <<Exit(0)>>
userX == <<[op |-> "exit with pid"]>>
userY == Times(Reps, <<Sleep>>) \o <<Exit(0)>>
userZ == Times(Reps, <<Op("yield")>>) \o <<Exit(0)>>

\* init spawns idle, then what it is configured to, and waits for ever.
init(boot) ==
  <<Spawn("idle", PRIO_LOWEST)>> \o
  [i \in 1 .. Len(boot) |-> Spawn(boot[i], IF boot[i] = "userV" THEN 0 ELSE User1)] \o
  <<Wait, Loop(<<Wait>>, "never")>>

\* idle makes no call that matters here.
idle == <<>>

Script(name) ==
  CASE name = "idle" -> idle   [] name = "main1" -> main1 [] name = "main2" -> main2
    [] name = "main3" -> main3 [] name = "main4" -> main4 [] name = "userM" -> userM
    [] name = "userN" -> userN [] name = "userT" -> userT [] name = "userU" -> userU
    [] name = "userH" -> userH [] name = "userI" -> userI [] name = "userJ" -> userJ
    [] name = "userP" -> userP [] name = "userQ" -> userQ [] name = "userR" -> userR
    [] name = "userS" -> userS [] name = "userV" -> userV [] name = "userW" -> userW
    [] name = "userX" -> userX [] name = "userY" -> userY [] name = "userZ" -> userZ

\* Defect: the error that is looked for is the one wait() does not give.
Done_Children(until, ret) ==
  \/ until = "error" /\ ret < 0
  \/ until = "no children" /\ ret = E_NO_CHILDREN

\* Does an answer end a loop?
Done(until, ret) ==
  \/ until = "error" /\ ret < 0
  \/ until = "no children" /\ ret = E_NO_PROCS

\* What p has to do now that its last call is answered.
Todo(p) ==
  IF script[p] # <<>> /\ Head(script[p]).op = "loop"
    THEN IF Done(Head(script[p]).until, reply[p].ret)
           THEN Tail(script[p]) ELSE Head(script[p]).body \o script[p]
    ELSE script[p]

-----------------------------------------------------------------------------
(***************************************************************************)
(* The calls                                                               *)
(***************************************************************************)

\* Programs of processes that are no more are forgotten.
Follow(s, k, names) ==
  LET gone == {q \in Pcb : state'[q] \in {"Unused", "Zombie"}} IN
    /\ script'  = [q \in Pcb |-> IF q \in gone THEN <<>> ELSE s[q]]
    /\ kids'    = [q \in Pcb |-> IF q \in gone THEN <<>> ELSE k[q]]
    /\ program' = [q \in Pcb |-> IF state'[q] = "Unused" THEN "none" ELSE names[q]]

\* The running program is about to make the call op.
Calling(name) ==
  /\ SystemCall
  /\ Todo(current) # <<>> /\ Head(Todo(current)).op = name

Operand == Head(Todo(current))
Called  == [script EXCEPT ![current] = Tail(Todo(current))]
Goes_on == Follow(Called, kids, program)

\* Any PCB that is free will do.
FreePcb == CHOOSE c \in Pcb : state[c] = "Unused"

\* userH counts the spawns that fail: it will exit with their number.
CountFailed(s) == [s EXCEPT ![Len(s)] = Exit(s[Len(s)].status + 1)]
Refused ==
  IF program[current] = "userH" THEN [Called EXCEPT ![current] = CountFailed(Called[current])]
  ELSE Called

spawn ==
  /\ Calling("spawn")
  /\ \/ sys_spawn_full /\ Follow(Refused, kids, program)
     \/ /\ active_procs < N_PROCS /\ FreePcb \in Pcb
        /\ sys_spawn(Operand.level, FreePcb)
        /\ Follow([Called EXCEPT ![FreePcb] = Script(Operand.program)],
                  [kids EXCEPT ![current] = IF program[current] = "userI"
                                            THEN Append(@, next_pid) ELSE @],
                  [program EXCEPT ![FreePcb] = Operand.program])

sleep     == Calling("sleep") /\ (\E t \in SleepTicks : sys_sleep(t)) /\ Goes_on
yield     == Calling("yield") /\ sys_sleep_yield /\ Goes_on
wait      == Calling("wait") /\ sys_wait /\ Goes_on
exit      == Calling("exit") /\ sys_exit(Operand.status) /\ Goes_on
exit_pid  == Calling("exit with pid") /\ sys_exit(pid[current]) /\ Goes_on
bogus     == Calling("bogus") /\ sys_exit(E_BAD_SYSCALL) /\ Goes_on
kill      == Calling("kill") /\ sys_kill(Operand.pid) /\ Goes_on

\* The entry of a child that could not be spawned was never set: any number.
kill_kid ==
  /\ Calling("kill kid")
  /\ \E n \in IF Operand.kid <= Len(kids[current]) THEN {kids[current][Operand.kid]}
               ELSE 0 .. MaxPid : sys_kill(n)
  /\ Goes_on

read == Calling("read") /\ (sys_read \/ quick_call) /\ Goes_on

toggle ==
  /\ Calling("toggle")
  /\ sys_setprio(IF prio[current] = User1 THEN User2 ELSE User1)
  /\ Goes_on

Call == \/ spawn \/ sleep \/ yield \/ wait \/ exit \/ exit_pid \/ bogus \/ kill \/ kill_kid
        \/ read \/ toggle

\* The timer, the serial line and the kernel's loops.
Tick == clk_isr_tick /\ Follow(script, kids, program)
Loops == (Clock \/ Dispatch) /\ Follow(script, kids, program)
Input == sio_isr_rx /\ Follow(script, kids, program)

ProgramsInit ==
  /\ Init
  /\ program = [p \in Pcb |-> IF p = InitPcb THEN "init" ELSE "none"]
  /\ \E boot \in Boots : script = [p \in Pcb |-> IF p = InitPcb THEN init(boot) ELSE <<>>]
  /\ kids = [p \in Pcb |-> <<>>]

ProgramsNext == Call \/ Tick \/ Loops \/ Input

ProgramsSpec == ProgramsInit /\ [][ProgramsNext]_allVars

(***************************************************************************)
(* Fairness.  The timer and the kernel as in Kernel.  A program comes to   *)
(* its next call after a finite time of its own, however that is cut up by *)
(* interrupts: its delay loops and writes are finite.                      *)
(***************************************************************************)
ProgramsFairSpec ==
  /\ ProgramsSpec
  /\ SF_allVars(Tick) /\ WF_allVars(Loops)
  /\ \A p \in Pcb : SF_allVars(Call /\ current = p)

-----------------------------------------------------------------------------
(***************************************************************************)
(* Properties                                                              *)
(***************************************************************************)

Endless == {"init", "idle", "userR", "userS"}

\* The programs that end do end, are collected, and leave nothing behind: from some
\* time on only init, idle and the programs that loop for ever are in the table,
\* whoever is parent of whom, is killed while it sleeps, or ends before its children.
Quiesces == <>[](\A p \in Pcb : program[p] \in Endless \cup {"none"})

\* userI and userT wait for their children until there are none: when they exit of
\* their own accord all of them are collected ("let init() clean up after us!",
\* userI.c:82, is about themselves).
ChildrenCollected ==
  [][\A p \in Pcb :
       program[p] \in {"userI", "userT"} /\ state[p] = "Running" /\ exit => Children(p) = {}]_allVars
=============================================================================
