------------------------------- MODULE Kernel -------------------------------
(***************************************************************************)
(* Process management: the process table, the scheduler, the clock and the *)
(* system calls that create, block, end and collect processes              *)
(* (process.c, scheduler.c, clock.c, syscalls.c, and the part of sio.c     *)
(* that wakes a blocked reader).                                           *)
(*                                                                         *)
(* Every interrupt, the system call trap included, goes through an         *)
(* interrupt gate (support.c), so the kernel runs with interrupts off and  *)
(* is never re-entered: a handler is one action, enabled only while a user *)
(* process executes.  The two loops, over the sleep queue in _clk_isr and  *)
(* over the ready queues in _dispatch, take one action per iteration; the  *)
(* variable cpu names the loop the processor is in, and nothing else can   *)
(* happen until the loop ends.  Every call of _dispatch is the last thing  *)
(* its handler does to this state, so a handler that dispatches ends by    *)
(* setting cpu to "_dispatch".                                             *)
(***************************************************************************)
EXTENDS Integers, Sequences, FiniteSets

CONSTANTS
  Pcb,          \* the PCBs the slices hold
  InitPcb,      \* the one _init takes for the initial process
  N_PROCS,      \* size of the process table
  PRIO_LOWEST,  \* the "Deferred" level; the levels are 0 .. PRIO_LOWEST
  Q_STD,        \* ticks in a time slice
  ExitStatuses, \* values programs pass to exit()
  SleepTicks,   \* intervals programs pass to sleep(), in ticks, 0 excluded
  TimeMod,      \* the clock counts modulo this (2^32 in the code)
  MaxPid,       \* BOUND: PIDs given out in a run (pid_t wraps far later)
  Protected     \* PIDs the user programs never pass to kill()

PID_INIT == 1
PID_IDLE == 2
Prio     == 0 .. PRIO_LOWEST

E_SUCCESS     == 0
E_NO_MEMORY   == -7
E_NO_PROCS    == -8
E_NOT_FOUND   == -9
E_NO_CHILDREN == -10

\* RET(pcb) is the saved EAX, which holds the call's code until the kernel
\* answers: Unanswered stands for that code.
Unanswered == -100

\* The status _force_exit is given for a killed process: the value of Killed.
KilledStatus == 7

ASSUME InitPcbAssumption == InitPcb \in Pcb
ASSUME PcbAssumption     == IsFiniteSet(Pcb)
ASSUME NProcsAssumption  == N_PROCS \in Nat /\ N_PROCS >= 1
ASSUME PrioAssumption    == PRIO_LOWEST \in Nat
ASSUME QuantumAssumption == Q_STD \in Nat /\ Q_STD >= 1
ASSUME TimeAssumption    == TimeMod \in Nat /\ TimeMod >= 1
ASSUME SleepAssumption   == SleepTicks \subseteq Nat \ {0}
ASSUME StatusAssumption  == ExitStatuses \subseteq Int
ASSUME MaxPidAssumption  == MaxPid \in Nat /\ MaxPid >= PID_IDLE

VARIABLES
  state, pid, ppid, prio,  \* fields of each PCB
  wakeup, exit_status,     \* event.wakeup (while asleep) and exit_status
  reply,         \* what the latest call of a process left for it: RET and *status
  ptable,        \* the PCBs in _ptable (slot order is left out)
  active_procs,  \* _active_procs
  next_pid,      \* _next_pid
  ready,         \* _ready: one FIFO queue per level
  sleeping,      \* _sleeping: ordered by wakeup time
  reading,       \* _reading: FIFO
  current,       \* _current
  ticks,         \* _current->ticks
  system_time,   \* _system_time
  cpu            \* "user", "_clk_isr" or "_dispatch"

tableVars == <<pid, prio, ptable, active_procs, next_pid>>
timeVars  == <<wakeup, sleeping, system_time>>
vars == <<state, pid, ppid, prio, wakeup, exit_status, reply, ptable,
          active_procs, next_pid, ready, sleeping, reading, current, ticks,
          system_time, cpu>>

-----------------------------------------------------------------------------
(***************************************************************************)
(* Helpers                                                                 *)
(***************************************************************************)

\* What a call leaves for its caller: RET, and 0 for a status word it did not
\* write.  Callers of wait() always pass a place for the status.  The answer of a
\* process that will not run again is never read: it goes back to Answer(0).
Answer(v) == [ret |-> v, status |-> 0]

\* Defects: the two results of wait() are exchanged; the status is dropped.
WaitAnswer_Swapped(p, s)  == [ret |-> s, status |-> p]
WaitAnswer_NoStatus(p, s) == [ret |-> p, status |-> 0]

WaitAnswer(p, s) == [ret |-> p, status |-> s]

\* p occurs in queue q
In(q, p) == \E i \in 1 .. Len(q) : q[i] = p

\* The PCBs _pcb_find_pid could return: at most one while PIDs are unique.
WithPid(n) == {p \in ptable : pid[p] = n}
pcb_find_pid(n) == CHOOSE p \in ptable : pid[p] = n

Children(p) == {c \in ptable : ppid[c] = pid[p]}

\* Defect: the comparison with the last state is strict.
ReallyActive_NoZombie == {"Ready", "Running", "Sleeping", "Waiting", "Blocked", "Killed"}

\* States at or above Ready in enum state_e: what _force_exit calls
\* "really active".
ReallyActive == {"Ready", "Running", "Sleeping", "Waiting", "Blocked",
                 "Killed", "Zombie"}

\* Queue q with p inserted after the first k elements.
InsertAt(q, k, p) ==
  [i \in 1 .. Len(q) + 1 |->
     IF i <= k THEN q[i] ELSE IF i = k + 1 THEN p ELSE q[i - 1]]

\* k entries precede the place _que_enque finds in the ordered sleep queue for
\* key w: after every entry whose key is not greater.
SleepPlace(k, w) ==
  /\ \A i \in 1 .. k : wakeup[sleeping[i]] <= w
  /\ k < Len(sleeping) => wakeup[sleeping[k + 1]] > w

\* Defect: the active process count is not decremented.
pcb_cleanup_NoCount(v) ==
  /\ ptable' = ptable \ {v}
  /\ UNCHANGED active_procs
  /\ pid'  = [pid  EXCEPT ![v] = 0]
  /\ prio' = [prio EXCEPT ![v] = 0]

(***************************************************************************)
(* _pcb_cleanup on PCB v, with the table, the state and the fields as      *)
(* given.  What a free PCB holds is never read (_pcb_alloc clears it), so  *)
(* its fields go back to their cleared values here.                        *)
(***************************************************************************)
pcb_cleanup(v) ==
  /\ ptable' = ptable \ {v}
  /\ active_procs' = active_procs - 1
  /\ pid'  = [pid  EXCEPT ![v] = 0]
  /\ prio' = [prio EXCEPT ![v] = 0]

\* The PPIDs after _force_exit hands the children of v to init.
Reparented(v) ==
  [p \in Pcb |-> IF p \in ptable /\ state[p] \in ReallyActive /\ ppid[p] = pid[v]
                 THEN PID_INIT ELSE ppid[p]]

(***************************************************************************)
(* _force_exit: end process v with status st, the ready queues being rdy   *)
(* and the pending answers rep.                                            *)
(***************************************************************************)
force_exit(v, st, rdy, rep) ==
  LET parent == pcb_find_pid(ppid[v]) IN
  \/ /\ state[parent] # "Waiting"
     /\ ppid'  = Reparented(v)
     /\ state' = [state EXCEPT ![v] = "Zombie"]
     /\ ready' = rdy
     /\ reply' = [rep EXCEPT ![v] = Answer(0)]
     /\ UNCHANGED <<pid, prio, ptable, active_procs>>
  \/ /\ state[parent] = "Waiting"
     /\ ppid'  = [Reparented(v) EXCEPT ![v] = 0]
     /\ state' = [state EXCEPT ![parent] = "Ready", ![v] = "Unused"]
     /\ ready' = [rdy EXCEPT ![prio[parent]] = Append(@, parent)]
     /\ reply' = [rep EXCEPT ![parent] = WaitAnswer(pid[v], st), ![v] = Answer(0)]
     /\ pcb_cleanup(v)

\* Defect: a delayed kill is forgotten.
schedule_NoKill(p, rep) ==
  /\ state' = [state EXCEPT ![p] = "Ready"]
  /\ ready' = [ready EXCEPT ![prio[p]] = Append(@, p)]
  /\ reply' = rep
  /\ UNCHANGED <<ppid, pid, prio, ptable, active_procs>>

\* Defect: the ready queue is used as a stack.
schedule_Lifo(p, rep) ==
  \/ /\ state[p] = "Killed"
     /\ force_exit(p, KilledStatus, ready, rep)
  \/ /\ state[p] # "Killed"
     /\ state' = [state EXCEPT ![p] = "Ready"]
     /\ ready' = [ready EXCEPT ![prio[p]] = <<p>> \o @]
     /\ reply' = rep
     /\ UNCHANGED <<ppid, pid, prio, ptable, active_procs>>

(***************************************************************************)
(* _schedule: make p ready, unless it was marked for a delayed kill.       *)
(***************************************************************************)
schedule(p, rep) ==
  \/ /\ state[p] = "Killed"
     /\ force_exit(p, KilledStatus, ready, rep)
  \/ /\ state[p] # "Killed"
     /\ state' = [state EXCEPT ![p] = "Ready"]
     /\ ready' = [ready EXCEPT ![prio[p]] = Append(@, p)]
     /\ reply' = rep
     /\ UNCHANGED <<ppid, pid, prio, ptable, active_procs>>

-----------------------------------------------------------------------------
(***************************************************************************)
(* Initial state: _init has created init, its own parent, and dispatched   *)
(* it.                                                                     *)
(***************************************************************************)
Init ==
  /\ state = [p \in Pcb |-> IF p = InitPcb THEN "Running" ELSE "Unused"]
  /\ pid   = [p \in Pcb |-> IF p = InitPcb THEN PID_INIT ELSE 0]
  /\ ppid  = [p \in Pcb |-> IF p = InitPcb THEN PID_INIT ELSE 0]
  /\ prio  = [p \in Pcb |-> 0]
  /\ wakeup = [p \in Pcb |-> 0]
  /\ exit_status = [p \in Pcb |-> 0]
  /\ reply = [p \in Pcb |-> Answer(0)]
  /\ ptable = {InitPcb}
  /\ active_procs = 1
  /\ next_pid = 2
  /\ ready = [r \in Prio |-> <<>>]
  /\ sleeping = <<>>
  /\ reading = <<>>
  /\ current = InitPcb
  /\ ticks = Q_STD
  /\ system_time = 0
  /\ cpu = "user"

-----------------------------------------------------------------------------
(***************************************************************************)
(* System calls.  What each program calls follows the userland sources:    *)
(* init spawns idle first, then spawns and waits for ever; idle only makes *)
(* calls that return at once; the others may call anything.                *)
(***************************************************************************)
IsInit    == pid[current] = PID_INIT
IsIdle    == pid[current] = PID_IDLE
Ordinary  == ~IsInit /\ ~IsIdle
Booted    == next_pid > PID_IDLE      \* init has spawned idle
SystemCall == cpu = "user"

\* The calls that answer at once and change nothing else here: the getters,
\* write, a read that finds data or fails, any call refused for its arguments.
quick_call ==
  /\ SystemCall
  /\ reply' = [reply EXCEPT ![current] = Answer(E_SUCCESS)]
  /\ UNCHANGED <<state, ppid, wakeup, exit_status, ready, sleeping, reading,
                 current, ticks, system_time, cpu>>
  /\ UNCHANGED tableVars

\* Defect: the status is not recorded before the process is ended.
sys_exit_Unrecorded(st) ==
  /\ SystemCall /\ Ordinary
  /\ force_exit(current, st, ready, reply)
  /\ cpu' = "_dispatch"
  /\ UNCHANGED <<wakeup, exit_status, sleeping, reading, current, ticks, system_time,
                 next_pid>>

sys_exit(st) ==
  /\ SystemCall /\ Ordinary
  /\ force_exit(current, st, ready, reply)
  /\ exit_status' = [exit_status EXCEPT ![current] =
                       IF state'[current] = "Zombie" THEN st ELSE 0]
  /\ cpu' = "_dispatch"
  /\ UNCHANGED <<wakeup, sleeping, reading, current, ticks, system_time, next_pid>>

\* A read that found nothing.
sys_read ==
  /\ SystemCall /\ Ordinary
  /\ state' = [state EXCEPT ![current] = "Blocked"]
  /\ reading' = Append(reading, current)
  /\ reply' = [reply EXCEPT ![current] = Answer(Unanswered)]
  /\ cpu' = "_dispatch"
  /\ UNCHANGED <<ppid, exit_status, ready, current, ticks>>
  /\ UNCHANGED tableVars /\ UNCHANGED timeVars

sys_setprio(r) ==
  /\ SystemCall /\ Ordinary
  /\ prio' = [prio EXCEPT ![current] = r]
  /\ reply' = [reply EXCEPT ![current] = Answer(E_SUCCESS)]
  /\ UNCHANGED <<state, pid, ppid, wakeup, exit_status, ptable, active_procs,
                 next_pid, ready, sleeping, reading, current, ticks,
                 system_time, cpu>>

\* sleep(0) is a yield.
sys_sleep_yield ==
  /\ SystemCall /\ Ordinary
  /\ schedule(current, [reply EXCEPT ![current] = Answer(Unanswered)])
  /\ cpu' = "_dispatch"
  /\ UNCHANGED <<wakeup, exit_status, next_pid, sleeping, reading, current,
                 ticks, system_time>>

WakeupTime(t) == (system_time + t) % TimeMod

sys_sleep(t) ==
  /\ SystemCall /\ Ordinary
  /\ wakeup' = [wakeup EXCEPT ![current] = WakeupTime(t)]
  /\ \E k \in 0 .. Len(sleeping) :
       /\ SleepPlace(k, WakeupTime(t))
       /\ sleeping' = InsertAt(sleeping, k, current)
  /\ state' = [state EXCEPT ![current] = "Sleeping"]
  /\ reply' = [reply EXCEPT ![current] = Answer(Unanswered)]
  /\ cpu' = "_dispatch"
  /\ UNCHANGED <<ppid, exit_status, ready, reading, current, ticks, system_time>>
  /\ UNCHANGED tableVars

-----------------------------------------------------------------------------
(***************************************************************************)
(* spawn                                                                   *)
(***************************************************************************)

\* What a program asks for: init's first call is the one for idle, at the
\* lowest level (init.c); idle itself spawns nothing.
MaySpawn(r) == ~IsIdle /\ (Booted \/ r = PRIO_LOWEST)

sys_spawn_full ==
  /\ SystemCall /\ ~IsIdle
  /\ active_procs >= N_PROCS
  /\ reply' = [reply EXCEPT ![current] = Answer(E_NO_PROCS)]
  /\ UNCHANGED <<state, ppid, wakeup, exit_status, ready, sleeping, reading,
                 current, ticks, system_time, cpu>>
  /\ UNCHANGED tableVars

\* No memory for the PCB or the stack: the PID is used up all the same.  The
\* spawn of idle, at boot, is taken not to fail.
sys_spawn_no_memory ==
  /\ SystemCall /\ ~IsIdle /\ Booted
  /\ active_procs < N_PROCS
  /\ next_pid <= MaxPid
  /\ next_pid' = next_pid + 1
  /\ reply' = [reply EXCEPT ![current] = Answer(E_NO_MEMORY)]
  /\ UNCHANGED <<state, pid, ppid, prio, wakeup, exit_status, ptable,
                 active_procs, ready, sleeping, reading, current, ticks,
                 system_time, cpu>>

sys_spawn(r, c) ==
  /\ SystemCall /\ MaySpawn(r)
  /\ active_procs < N_PROCS
  /\ next_pid <= MaxPid
  /\ state[c] = "Unused"
  /\ pid'   = [pid   EXCEPT ![c] = next_pid]
  /\ ppid'  = [ppid  EXCEPT ![c] = pid[current]]
  /\ prio'  = [prio  EXCEPT ![c] = r]
  /\ state' = [state EXCEPT ![c] = "Ready"]
  /\ ready' = [ready EXCEPT ![r] = Append(@, c)]
  /\ ptable' = ptable \cup {c}
  /\ active_procs' = active_procs + 1
  /\ next_pid' = next_pid + 1
  /\ reply' = [reply EXCEPT ![current] = Answer(next_pid)]
  /\ UNCHANGED <<wakeup, exit_status, sleeping, reading, current, ticks,
                 system_time, cpu>>

-----------------------------------------------------------------------------
(***************************************************************************)
(* wait                                                                    *)
(***************************************************************************)
Zombies(p) == {c \in Children(p) : state[c] = "Zombie"}

\* Defect: only children that have ended count as children.
sys_wait_no_children_Alive ==
  /\ SystemCall /\ ~IsIdle
  /\ Zombies(current) = {}
  /\ reply' = [reply EXCEPT ![current] = Answer(E_NO_PROCS)]
  /\ UNCHANGED <<state, ppid, wakeup, exit_status, ready, sleeping, reading,
                 current, ticks, system_time, cpu>>
  /\ UNCHANGED tableVars

sys_wait_no_children ==
  /\ SystemCall /\ ~IsIdle
  /\ Children(current) = {}
  /\ reply' = [reply EXCEPT ![current] = Answer(E_NO_PROCS)]
  /\ UNCHANGED <<state, ppid, wakeup, exit_status, ready, sleeping, reading,
                 current, ticks, system_time, cpu>>
  /\ UNCHANGED tableVars

\* Defect: a child that has ended already is overlooked.
sys_wait_block_Missed ==
  /\ SystemCall /\ ~IsIdle /\ Booted
  /\ Children(current) # {}
  /\ state' = [state EXCEPT ![current] = "Waiting"]
  /\ reply' = [reply EXCEPT ![current] = Answer(Unanswered)]
  /\ cpu' = "_dispatch"
  /\ UNCHANGED <<ppid, exit_status, ready, reading, current, ticks>>
  /\ UNCHANGED tableVars /\ UNCHANGED timeVars

sys_wait_block ==
  /\ SystemCall /\ ~IsIdle /\ Booted
  /\ Children(current) # {}
  /\ Zombies(current) = {}
  /\ state' = [state EXCEPT ![current] = "Waiting"]
  /\ reply' = [reply EXCEPT ![current] = Answer(Unanswered)]
  /\ cpu' = "_dispatch"
  /\ UNCHANGED <<ppid, exit_status, ready, reading, current, ticks>>
  /\ UNCHANGED tableVars /\ UNCHANGED timeVars

sys_wait_collect(z) ==
  /\ SystemCall /\ ~IsIdle
  /\ z \in Zombies(current)
  /\ reply' = [reply EXCEPT ![current] = WaitAnswer(pid[z], exit_status[z]),
                            ![z] = Answer(0)]
  /\ state' = [state EXCEPT ![z] = "Unused"]
  /\ ppid'  = [ppid  EXCEPT ![z] = 0]
  /\ exit_status' = [exit_status EXCEPT ![z] = 0]
  /\ pcb_cleanup(z)
  /\ UNCHANGED <<wakeup, next_pid, ready, sleeping, reading, current, ticks,
                 system_time, cpu>>

sys_wait ==
  \/ sys_wait_no_children
  \/ sys_wait_block
  \/ \E z \in ptable : sys_wait_collect(z)

-----------------------------------------------------------------------------
(***************************************************************************)
(* kill                                                                    *)
(***************************************************************************)

\* kill(0) means the caller.
Target(n) == IF n = 0 THEN pid[current] ELSE n

\* Defect: a process blocked in wait() is marked as if it were on a queue.
Queued_Waiting == {"Ready", "Blocked", "Sleeping", "Waiting"}

\* States whose process is on a queue: kill() only marks it.
Queued == {"Ready", "Blocked", "Sleeping"}

sys_kill_not_found(n) ==
  /\ \A v \in WithPid(Target(n)) : state[v] = "Zombie"
  /\ reply' = [reply EXCEPT ![current] = Answer(E_NOT_FOUND)]
  /\ UNCHANGED <<state, ppid, ready, cpu>>
  /\ UNCHANGED tableVars

sys_kill_mark(n) ==
  \E v \in WithPid(Target(n)) :
    /\ state[v] \in Queued \cup {"Killed"}
    /\ state' = [state EXCEPT ![v] = "Killed"]
    /\ reply' = [reply EXCEPT ![current] = Answer(E_SUCCESS), ![v] = Answer(0)]
    /\ UNCHANGED <<ppid, ready, cpu>>
    /\ UNCHANGED tableVars

sys_kill_self(n) ==
  \E v \in WithPid(Target(n)) :
    /\ state[v] = "Running"
    /\ force_exit(current, KilledStatus, ready,
                  [reply EXCEPT ![current] = Answer(Unanswered)])
    /\ cpu' = "_dispatch"
    /\ UNCHANGED next_pid

\* The caller's RET is left as it was: it still holds the code of kill().
sys_kill_waiting(n) ==
  \E v \in WithPid(Target(n)) :
    /\ state[v] = "Waiting"
    /\ force_exit(v, KilledStatus, ready,
                  [reply EXCEPT ![current] = Answer(Unanswered)])
    /\ UNCHANGED <<cpu, next_pid>>

sys_kill(n) ==
  /\ SystemCall /\ Ordinary
  /\ n \notin Protected
  /\ \/ sys_kill_not_found(n)
     \/ sys_kill_mark(n)
     \/ sys_kill_self(n)
     \/ sys_kill_waiting(n)
  /\ UNCHANGED <<wakeup, exit_status, sleeping, reading, current, ticks,
                 system_time>>

-----------------------------------------------------------------------------
(***************************************************************************)
(* Interrupts                                                              *)
(***************************************************************************)

\* Defect: a process is woken only when its time has passed.
HeadDue_Late == sleeping # <<>> /\ wakeup[Head(sleeping)] < system_time

\* Is the process at the head of the sleep queue due?
HeadDue == sleeping # <<>> /\ wakeup[Head(sleeping)] <= system_time

\* The timer interrupts a user process: time advances and the wakeup loop starts.
clk_isr_tick ==
  /\ cpu = "user"
  /\ system_time' = (system_time + 1) % TimeMod
  /\ cpu' = "_clk_isr"
  /\ UNCHANGED <<state, ppid, wakeup, exit_status, reply, ready, sleeping,
                 reading, current, ticks>>
  /\ UNCHANGED tableVars

\* One iteration of the wakeup loop.
clk_isr_wake ==
  /\ cpu = "_clk_isr"
  /\ HeadDue
  /\ LET p == Head(sleeping) IN
       /\ sleeping' = Tail(sleeping)
       /\ wakeup' = [wakeup EXCEPT ![p] = 0]   \* dead once awake
       /\ schedule(p, reply)
  /\ UNCHANGED <<exit_status, next_pid, reading, current, ticks, system_time, cpu>>

\* Defect: the slice lasts one tick too long.
clk_isr_resume_Late ==
  /\ cpu = "_clk_isr"
  /\ ~HeadDue
  /\ ticks >= 1
  /\ ticks' = ticks - 1
  /\ cpu' = "user"
  /\ UNCHANGED <<state, ppid, exit_status, reply, ready, reading, current>>
  /\ UNCHANGED tableVars /\ UNCHANGED timeVars

\* The slice of the current process goes on ...
clk_isr_resume ==
  /\ cpu = "_clk_isr"
  /\ ~HeadDue
  /\ ticks > 1
  /\ ticks' = ticks - 1
  /\ cpu' = "user"
  /\ UNCHANGED <<state, ppid, exit_status, reply, ready, reading, current>>
  /\ UNCHANGED tableVars /\ UNCHANGED timeVars

\* Defect: the current process is not put back on its ready queue.
clk_isr_expire_Lost ==
  /\ cpu = "_clk_isr"
  /\ ~HeadDue
  /\ ticks <= 1
  /\ ticks' = ticks - 1
  /\ cpu' = "_dispatch"
  /\ UNCHANGED <<state, ppid, exit_status, reply, ready, reading, current>>
  /\ UNCHANGED tableVars /\ UNCHANGED timeVars

\* ... or is over, and another process is picked.
clk_isr_expire ==
  /\ cpu = "_clk_isr"
  /\ ~HeadDue
  /\ ticks <= 1
  /\ ticks' = ticks - 1
  /\ schedule(current, reply)
  /\ cpu' = "_dispatch"
  /\ UNCHANGED <<wakeup, exit_status, next_pid, sleeping, reading, current,
                 system_time>>

\* A character arrives on the serial line while a reader is blocked: _sio_isr
\* gives it to the first one, with a count of 1, and schedules that process.
sio_isr_rx ==
  /\ cpu = "user"
  /\ reading # <<>>
  /\ LET p == Head(reading) IN
       /\ reading' = Tail(reading)
       /\ schedule(p, [reply EXCEPT ![p] = Answer(1)])
  /\ UNCHANGED <<wakeup, exit_status, next_pid, sleeping, current, ticks,
                 system_time, cpu>>

-----------------------------------------------------------------------------
(***************************************************************************)
(* _dispatch, one iteration of its loop                                    *)
(***************************************************************************)

\* r is the first non-empty queue.
FirstLevel(r) == ready[r] # <<>> /\ \A s \in Prio : s < r => ready[s] = <<>>

dispatch_run ==
  /\ cpu = "_dispatch"
  /\ \E r \in Prio :
       /\ FirstLevel(r)
       /\ state[Head(ready[r])] = "Ready"
       /\ current' = Head(ready[r])
       /\ state' = [state EXCEPT ![Head(ready[r])] = "Running"]
       /\ ready' = [ready EXCEPT ![r] = Tail(@)]
  /\ ticks' = Q_STD
  /\ cpu' = "user"
  /\ UNCHANGED <<ppid, exit_status, reply, reading>>
  /\ UNCHANGED tableVars /\ UNCHANGED timeVars

\* A process killed while it was ready is ended here, and the loop goes on.
dispatch_killed ==
  /\ cpu = "_dispatch"
  /\ \E r \in Prio :
       /\ FirstLevel(r)
       /\ state[Head(ready[r])] = "Killed"
       /\ force_exit(Head(ready[r]), KilledStatus,
                     [ready EXCEPT ![r] = Tail(@)], reply)
  /\ UNCHANGED <<wakeup, exit_status, next_pid, sleeping, reading, current,
                 ticks, system_time, cpu>>

-----------------------------------------------------------------------------
Clock    == clk_isr_wake \/ clk_isr_resume \/ clk_isr_expire
Dispatch == dispatch_run \/ dispatch_killed

Next ==
  \/ quick_call
  \/ \E st \in ExitStatuses : sys_exit(st)
  \/ sys_read
  \/ \E r \in Prio : sys_setprio(r)
  \/ sys_sleep_yield
  \/ \E t \in SleepTicks : sys_sleep(t)
  \/ sys_spawn_full
  \/ sys_spawn_no_memory
  \/ \E r \in Prio, c \in Pcb : sys_spawn(r, c)
  \/ sys_wait
  \/ \E n \in 0 .. MaxPid : sys_kill(n)
  \/ clk_isr_tick
  \/ Clock
  \/ sio_isr_rx
  \/ Dispatch

Spec == Init /\ [][Next]_vars

(***************************************************************************)
(* Fairness.  The timer keeps interrupting user code (strong: a program    *)
(* that keeps calling the kernel only delays the tick, since interrupts    *)
(* are on again whenever user code runs), and the kernel's loops run on.   *)
(* Programs owe nothing.                                                   *)
(***************************************************************************)
Fairness == SF_vars(clk_isr_tick) /\ WF_vars(Clock) /\ WF_vars(Dispatch)

FairSpec == Spec /\ Fairness

-----------------------------------------------------------------------------
(***************************************************************************)
(* Types                                                                   *)
(***************************************************************************)
States  == {"Unused"} \cup ReallyActive
Replies == [ret : Int, status : Int]

\* Every variable has its type (the one type invariant of this module).
TypeOK ==
  /\ state \in [Pcb -> States]
  /\ pid \in [Pcb -> Nat]
  /\ ppid \in [Pcb -> Nat]
  /\ prio \in [Pcb -> Prio]
  /\ wakeup \in [Pcb -> 0 .. TimeMod - 1]
  /\ exit_status \in [Pcb -> Int]
  /\ reply \in [Pcb -> Replies]
  /\ ptable \in SUBSET Pcb
  /\ active_procs \in Int
  /\ next_pid \in 2 .. MaxPid + 1
  /\ ready \in [Prio -> Seq(Pcb)]
  /\ sleeping \in Seq(Pcb)
  /\ reading \in Seq(Pcb)
  /\ current \in Pcb
  /\ ticks \in 0 .. Q_STD
  /\ system_time \in 0 .. TimeMod - 1
  /\ cpu \in {"user", "_clk_isr", "_dispatch"}

(***************************************************************************)
(* Safety                                                                  *)
(***************************************************************************)
NoDup(q) == \A i, j \in 1 .. Len(q) : q[i] = q[j] => i = j

\* No PCB is twice on a queue, nor on queues of two kinds.
QueuesDisjoint ==
  /\ \A r \in Prio : NoDup(ready[r])
  /\ NoDup(sleeping)
  /\ NoDup(reading)
  /\ \A p \in Pcb :
       /\ \A r \in Prio : In(ready[r], p) => ~In(sleeping, p) /\ ~In(reading, p)
       /\ ~(In(sleeping, p) /\ In(reading, p))

\* The state and the priority of a PCB say which queue it is on, and the queue
\* what its state may be: a marked process stays where kill() found it.
StateMatchesQueue ==
  \A p \in Pcb :
    /\ \A r \in Prio : In(ready[r], p) => state[p] \in {"Ready", "Killed"} /\ prio[p] = r
    /\ In(sleeping, p) => state[p] \in {"Sleeping", "Killed"}
    /\ In(reading, p)  => state[p] \in {"Blocked", "Killed"}
    /\ state[p] = "Ready"    => In(ready[prio[p]], p)
    /\ state[p] = "Sleeping" => In(sleeping, p)
    /\ state[p] = "Blocked"  => In(reading, p)
    /\ state[p] = "Killed" =>
         (\E r \in Prio : In(ready[r], p)) \/ In(sleeping, p) \/ In(reading, p)

\* A process runs exactly when it is _current and no dispatch is under way.
OneRunning ==
  \A p \in Pcb : state[p] = "Running" <=> p = current /\ cpu # "_dispatch"

\* Each PCB is in the one place its state says: no queue holds a PCB that was
\* freed, collected or is waiting, and no live process is lost by all of them
\* (scheduler.c:140 "processes on the ready queue are usually in the Ready state").
Placement == QueuesDisjoint /\ StateMatchesQueue /\ OneRunning

\* Once spawned, idle can always be picked; before that init can: whenever
\* _dispatch looks, some ready queue has a process (scheduler.c:122 "this
\* should never happen - if nothing else, the idle process should be on the
\* Deferred queue").
DispatchFinds ==
  /\ cpu = "_dispatch" => \E r \in Prio : ready[r] # <<>>
  /\ Booted => \E p \in ptable : pid[p] = PID_IDLE /\ state[p] \in {"Ready", "Running"}

\* The process table, the count and the PCBs agree: the table holds exactly the
\* PCBs in use, under distinct PIDs, active_procs is their number, and so the
\* search for a free slot in spawn succeeds (syscalls.c:434 "if we didn't find
\* one, we have a serious problem").
TableConsistent ==
  /\ ptable = {p \in Pcb : state[p] # "Unused"}
  /\ \A p, q \in ptable : pid[p] = pid[q] => p = q
  /\ \A p \in ptable : pid[p] >= 1 /\ pid[p] < next_pid
  /\ active_procs = Cardinality(ptable) /\ active_procs <= N_PROCS

\* Every process has a parent that has not exited: whoever ended has handed
\* its children to init, however they were queued, marked or dead at the time
\* (syscalls.c:641 "every process has a parent, even if it's 'init'").
ParentAlive ==
  \A p \in ptable : \E q \in ptable : pid[q] = ppid[p] /\ state[q] # "Zombie"

\* A process blocked in wait() still has a child to wait for, and, init apart,
\* none that has ended already and that it missed.
WaiterHasWork ==
  \A p \in ptable : state[p] = "Waiting" =>
    /\ Children(p) # {}
    /\ pid[p] # PID_INIT => \A c \in Children(p) : state[c] # "Zombie"

\* The sleep queue is in order of wakeup time.
SleepOrdered ==
  \A i, j \in 1 .. Len(sleeping) :
    i < j => wakeup[sleeping[i]] <= wakeup[sleeping[j]]

(***************************************************************************)
(* The inductive invariant of KernelProofs: the invariants above with three*)
(* facts they need to be inductive: who init is and that only its own      *)
(* steps change what it does, that parents are older than their children,  *)
(* and that the slice of a process that runs is not used up.               *)
(***************************************************************************)

\* init keeps its PCB and is never asleep, blocked, marked or dead; parents are
\* older than their children; before idle is spawned init does not wait.
Rooted ==
  /\ InitPcb \in ptable
  /\ pid[InitPcb] = PID_INIT
  /\ ppid[InitPcb] = PID_INIT
  /\ state[InitPcb] \in {"Ready", "Running", "Waiting"}
  /\ state[InitPcb] = "Waiting" => Booted
  /\ \A p \in ptable \ {InitPcb} : ppid[p] < pid[p]

IdleAlive ==
  Booted => \E p \in ptable : pid[p] = PID_IDLE /\ state[p] \in {"Ready", "Running"}

SliceLeft == cpu # "_dispatch" => ticks >= 1

TreeInv == TableConsistent /\ ParentAlive /\ Rooted /\ IdleAlive /\ WaiterHasWork

\* Everything the safety proofs carry from state to state: it is init's fixed
\* role and the age order of parents that keep the tree alive when _force_exit
\* hands children over, and what is left of the slice that lets ticks count down.
IInv == TypeOK /\ TreeInv /\ Placement /\ SleepOrdered /\ SliceLeft

(***************************************************************************)
(* Action properties                                                       *)
(***************************************************************************)

\* A process leaves the system only by being reported, once, to the parent it
\* has at that moment, as the result of that parent's wait().
ReportedWhenGone ==
  [][\A c \in ptable \ ptable' :
       \E p \in ptable \cap ptable' :
         /\ pid[p] = ppid[c]
         /\ state[p] \in {"Waiting", "Running"}
         /\ reply'[p].ret = pid[c]]_vars

\* What the end of c with status st leaves behind: a zombie that holds the
\* status, or the answer to the wait() of its parent.
Reported(c, st) ==
  IF state'[c] = "Zombie"
  THEN exit_status'[c] = st
  ELSE \E p \in ptable' : /\ pid[p] = ppid[c]
                          /\ reply'[p].ret = pid[c] /\ reply'[p].status = st

\* The status wait() returns is the one its child passed to exit(), whichever
\* comes first: exit() leaves it with the zombie or with the parent that waits,
\* a zombie keeps it until its parent has it, and nothing overwrites the answer
\* before the parent runs.  A parent that waits for a child that is killed gets
\* the status of killed processes; what a killed zombie reports is not said here.
StatusDelivered ==
  [][/\ \A st \in ExitStatuses : sys_exit(st) => Reported(current, st)
     /\ \A c \in ptable : state[c] = "Zombie" => Reported(c, exit_status[c])
     /\ \A c \in ptable \ ptable' :
          \/ state[c] = "Zombie"
          \/ \E st \in ExitStatuses : sys_exit(st)
          \/ Reported(c, KilledStatus)
     /\ \A p \in Pcb :
          state[p] = "Ready" /\ state'[p] \in {"Ready", "Running"} => reply'[p] = reply[p]]_vars

\* A process that was marked Killed never runs again, and is not un-marked by
\* a wakeup, a dispatch or a second kill().
KilledNeverRuns ==
  [][\A p \in Pcb : state[p] = "Killed" => state'[p] \in {"Killed", "Zombie", "Unused"}]_vars

\* When the clock handler is done with the sleep queue nobody on it is due.
AllDueWoken ==
  [][cpu = "_clk_isr" /\ cpu' # "_clk_isr" =>
       \A i \in 1 .. Len(sleeping') : wakeup'[sleeping'[i]] > system_time']_vars

(***************************************************************************)
(* Liveness                                                                *)
(***************************************************************************)

\* A sleeper wakes up, or ends if it was killed in its sleep.
SleepersWake == \A p \in Pcb : In(sleeping, p) ~> ~In(sleeping, p)

\* A process ready at the highest level gets the processor, or is killed.
SystemServed ==
  \A p \in Pcb : (state[p] = "Ready" /\ prio[p] = 0) ~> state[p] # "Ready"

-----------------------------------------------------------------------------
(***************************************************************************)
(* The process tree kept by _ptable, ppid and the Zombie state.            *)
(***************************************************************************)
TreePids   == {pid[p] : p \in ptable}
TreeParent == [n \in TreePids |-> ppid[pcb_find_pid(n)]]
TreeZombie == {pid[p] : p \in {q \in ptable : state[q] = "Zombie"}}

Tree == INSTANCE ProcTree WITH parent <- TreeParent,
                               zombie <- TreeZombie,
                               last   <- next_pid - 1

\* Process management implements the process tree: each process is created once,
\* ends once and is collected once, by the parent the tree gives it.
TreeSpec == Tree!Spec
=============================================================================
