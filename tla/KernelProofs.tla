---------------------------- MODULE KernelProofs ----------------------------
(***************************************************************************)
(* Proofs about Kernel, for every number of PCBs, table size, number of    *)
(* levels, time slice, clock width and PID bound.                          *)
(*                                                                         *)
(* First the facts about the queues that do not depend on the steps: what  *)
(* taking a PCB off a queue and putting it on one does to Placement.  A    *)
(* handler takes PCBs off their queues, changes them while they are off,   *)
(* and places them again.  Then the invariant, Kernel!IInv, which run      *)
(* "kernel" checks too; the properties that follow from it; that the       *)
(* kernel implements ProcTree; and last the baseline programs on top of it *)
(* (Programs).                                                             *)
(***************************************************************************)
EXTENDS Programs, FiniteSetTheorems, SequenceTheorems, TLAPS

-----------------------------------------------------------------------------
(***************************************************************************)
(* Single queues                                                           *)
(***************************************************************************)

\* _que_enque at the end of a FIFO queue (queues.c): the queue gains p and nothing else.
LEMMA AppendQueue ==
  ASSUME NEW q \in Seq(Pcb), NEW p \in Pcb
  PROVE  /\ Append(q, p) \in Seq(Pcb)
         /\ Append(q, p) # <<>>
         /\ \A x : In(Append(q, p), x) <=> In(q, x) \/ x = p
         /\ NoDup(q) /\ ~In(q, p) => NoDup(Append(q, p))
<1> DEFINE a == Append(q, p)
<1>1. /\ a \in Seq(Pcb)
      /\ a # <<>>
      /\ Len(a) = Len(q) + 1
      /\ \A i \in 1 .. Len(q) : a[i] = q[i]
      /\ a[Len(q) + 1] = p
      /\ Len(q) \in Nat
  BY AppendProperties, LenProperties
<1> HIDE DEF a
<1>2. \A x : In(a, x) <=> In(q, x) \/ x = p
  BY <1>1 DEF In
<1>3. NoDup(q) /\ ~In(q, p) => NoDup(a)
  BY <1>1 DEF In, NoDup
<1> QED
  BY <1>1, <1>2, <1>3 DEF a

\* _que_deque (queues.c): the queue loses its head and nothing else.
LEMMA TailQueue ==
  ASSUME NEW q \in Seq(Pcb), q # <<>>, NoDup(q)
  PROVE  /\ Head(q) \in Pcb
         /\ Tail(q) \in Seq(Pcb)
         /\ In(q, Head(q))
         /\ \A x : In(Tail(q), x) <=> In(q, x) /\ x # Head(q)
         /\ NoDup(Tail(q))
<1> DEFINE t == Tail(q)
<1>1. /\ Head(q) \in Pcb
      /\ t \in Seq(Pcb)
      /\ Len(t) = Len(q) - 1
      /\ \A i \in 1 .. Len(t) : t[i] = q[i + 1]
      /\ Len(q) \in Nat \ {0}
      /\ Head(q) = q[1]
  BY HeadTailProperties, EmptySeq
<1> HIDE DEF t
<1>2. In(q, Head(q))
  BY <1>1 DEF In
<1>3. \A x : In(t, x) <=> In(q, x) /\ x # Head(q)
  <2> TAKE x
  <2>1. In(t, x) => In(q, x) /\ x # Head(q)
    BY <1>1 DEF In, NoDup
  <2>2. ASSUME In(q, x), x # Head(q)
        PROVE  In(t, x)
    <3>1. PICK i \in 1 .. Len(q) : q[i] = x
      BY <2>2 DEF In
    <3>2. i # 1
      BY <3>1, <2>2, <1>1
    <3>3. i - 1 \in 1 .. Len(t) /\ t[i - 1] = x
      BY <3>1, <3>2, <1>1
    <3> QED
      BY <3>3 DEF In
  <2> QED
    BY <2>1, <2>2
<1>4. NoDup(t)
  BY <1>1 DEF NoDup
<1> QED
  BY <1>1, <1>2, <1>3, <1>4 DEF t

\* _que_enque on the ordered sleep queue (queues.c): the queue gains p and nothing else.
LEMMA InsertQueue ==
  ASSUME NEW q \in Seq(Pcb), NEW k \in 0 .. Len(q), NEW p \in Pcb
  PROVE  /\ InsertAt(q, k, p) \in Seq(Pcb)
         /\ Len(InsertAt(q, k, p)) = Len(q) + 1
         /\ \A i \in 1 .. Len(q) + 1 :
              InsertAt(q, k, p)[i] =
                IF i <= k THEN q[i] ELSE IF i = k + 1 THEN p ELSE q[i - 1]
         /\ \A x : In(InsertAt(q, k, p), x) <=> In(q, x) \/ x = p
         /\ NoDup(q) /\ ~In(q, p) => NoDup(InsertAt(q, k, p))
<1> DEFINE a == InsertAt(q, k, p)
<1>1. Len(q) \in Nat /\ \A i \in 1 .. Len(q) : q[i] \in Pcb
  BY LenProperties, ElementOfSeq
<1>2. a \in [1 .. Len(q) + 1 -> Pcb]
  BY <1>1 DEF InsertAt
<1>3. a \in Seq(Pcb) /\ Len(a) = Len(q) + 1
  BY <1>1, <1>2
<1>4. \A i \in 1 .. Len(q) + 1 :
        a[i] = IF i <= k THEN q[i] ELSE IF i = k + 1 THEN p ELSE q[i - 1]
  BY DEF InsertAt
<1> HIDE DEF a
<1>5. \A x : In(a, x) <=> In(q, x) \/ x = p
  <2> TAKE x
  <2>1. ASSUME NEW i \in 1 .. Len(a), a[i] # p
        PROVE  \E j \in 1 .. Len(q) : q[j] = a[i]
    <3>1. i \in 1 .. Len(q) + 1
      BY <1>3
    <3>2. CASE i <= k
      BY <3>1, <3>2, <1>1, <1>4
    <3>3. CASE i > k + 1
      <4>1. i - 1 \in 1 .. Len(q) /\ a[i] = q[i - 1]
        BY <3>1, <3>3, <1>1, <1>4
      <4> QED
        BY <4>1
    <3> QED
      BY <3>1, <3>2, <3>3, <2>1, <1>1, <1>4
  <2>2. a[k + 1] = p /\ k + 1 \in 1 .. Len(a)
    BY <1>1, <1>3, <1>4
  <2>3. ASSUME NEW i \in 1 .. Len(q)
        PROVE  \E j \in 1 .. Len(a) : a[j] = q[i]
    <3>1. CASE i <= k
      BY <3>1, <1>1, <1>3, <1>4
    <3>2. CASE i > k
      <4>1. i + 1 \in 1 .. Len(a) /\ a[i + 1] = q[i]
        BY <3>2, <1>1, <1>3, <1>4
      <4> QED
        BY <4>1
    <3> QED
      BY <3>1, <3>2, <1>1
  <2> QED
    BY <2>1, <2>2, <2>3 DEF In
<1>6. NoDup(q) /\ ~In(q, p) => NoDup(a)
  <2> SUFFICES ASSUME NoDup(q), ~In(q, p),
                      NEW i \in 1 .. Len(a), NEW j \in 1 .. Len(a), a[i] = a[j]
               PROVE  i = j
    BY DEF NoDup
  <2>1. \A x \in 1 .. Len(q), y \in 1 .. Len(q) : q[x] = q[y] => x = y
    BY DEF NoDup
  <2>2. \A x \in 1 .. Len(q) : q[x] # p
    BY DEF In
  <2>3. ASSUME NEW x \in 1 .. Len(a), x # k + 1
        PROVE  LET y == IF x <= k THEN x ELSE x - 1
               IN  y \in 1 .. Len(q) /\ a[x] = q[y]
    BY <2>3, <1>1, <1>3, <1>4
  <2>4. a[k + 1] = p
    BY <1>1, <1>3, <1>4
  <2>5. CASE i = k + 1 \/ j = k + 1
    BY <2>2, <2>3, <2>4, <2>5
  <2>6. CASE i # k + 1 /\ j # k + 1
    <3> DEFINE y(x) == IF x <= k THEN x ELSE x - 1
    <3>1. y(i) \in 1 .. Len(q) /\ y(j) \in 1 .. Len(q) /\ q[y(i)] = q[y(j)]
      BY <2>3, <2>6
    <3>2. y(i) = y(j)
      BY <3>1, <2>1
    <3> QED
      BY <3>2, <2>6, <1>1, <1>3
  <2> QED
    BY <2>5, <2>6
<1> QED
  BY <1>3, <1>4, <1>5, <1>6 DEF a

-----------------------------------------------------------------------------
(***************************************************************************)
(* All queues together.  Placed and Apart are the two halves of Placement  *)
(* as operators of the states and the queues, for all PCBs but those of E, *)
(* which are on no queue: the ones a handler has in hand.                  *)
(***************************************************************************)
Off(rdy, slp, rdg, p) ==
  /\ \A r \in Prio : ~In(rdy[r], p)
  /\ ~In(slp, p)
  /\ ~In(rdg, p)

Placed(st, pr, rdy, slp, rdg, p) ==
  /\ \A r \in Prio : In(rdy[r], p) => st[p] \in {"Ready", "Killed"} /\ pr[p] = r
  /\ In(slp, p) => st[p] \in {"Sleeping", "Killed"}
  /\ In(rdg, p) => st[p] \in {"Blocked", "Killed"}
  /\ st[p] = "Ready"    => In(rdy[pr[p]], p)
  /\ st[p] = "Sleeping" => In(slp, p)
  /\ st[p] = "Blocked"  => In(rdg, p)
  /\ st[p] = "Killed"   => (\E r \in Prio : In(rdy[r], p)) \/ In(slp, p) \/ In(rdg, p)

Apart(rdy, slp, rdg) ==
  /\ \A r \in Prio : NoDup(rdy[r])
  /\ NoDup(slp)
  /\ NoDup(rdg)
  /\ \A p \in Pcb :
       /\ \A r \in Prio : In(rdy[r], p) => ~In(slp, p) /\ ~In(rdg, p)
       /\ ~(In(slp, p) /\ In(rdg, p))

QueueTypes(pr, rdy, slp, rdg) ==
  /\ pr  \in [Pcb -> Prio]
  /\ rdy \in [Prio -> Seq(Pcb)]
  /\ slp \in Seq(Pcb)
  /\ rdg \in Seq(Pcb)

PlacedBut(st, pr, rdy, slp, rdg, E) ==
  /\ QueueTypes(pr, rdy, slp, rdg)
  /\ Apart(rdy, slp, rdg)
  /\ \A p \in E : Off(rdy, slp, rdg, p)
  /\ \A p \in Pcb \ E : Placed(st, pr, rdy, slp, rdg, p)

\* States in which a PCB is on no queue.
OffQueue == {"Running", "Waiting", "Zombie", "Unused"}

\* With nothing in hand, PlacedBut is the invariant's part about queues.
LEMMA PlacedButNone ==
  ASSUME QueueTypes(prio, ready, sleeping, reading)
  PROVE  PlacedBut(state, prio, ready, sleeping, reading, {})
           <=> QueuesDisjoint /\ StateMatchesQueue
BY DEF PlacedBut, QueuesDisjoint, StateMatchesQueue, Apart, Placed

\* A PCB whose state keeps it off the queues can be taken in hand ...
LEMMA TakeOffQueue ==
  ASSUME NEW st, NEW pr, NEW rdy, NEW slp, NEW rdg, NEW E,
         PlacedBut(st, pr, rdy, slp, rdg, E),
         NEW p \in Pcb, st[p] \in OffQueue
  PROVE  PlacedBut(st, pr, rdy, slp, rdg, E \cup {p})
<1>1. CASE p \in E
  <2> E \cup {p} = E
    BY <1>1
  <2> QED
    OBVIOUS
<1>2. CASE p \notin E
  <2>1. Off(rdy, slp, rdg, p)
    BY <1>2 DEF PlacedBut, Placed, Off, OffQueue
  <2> QED
    BY <2>1 DEF PlacedBut
<1> QED
  BY <1>1, <1>2

\* ... and be let go of again, without being put on a queue.
LEMMA LetGo ==
  ASSUME NEW st, NEW pr, NEW rdy, NEW slp, NEW rdg, NEW E,
         PlacedBut(st, pr, rdy, slp, rdg, E),
         NEW p \in E, st[p] \in OffQueue
  PROVE  PlacedBut(st, pr, rdy, slp, rdg, E \ {p})
<1>1. p \in Pcb => Placed(st, pr, rdy, slp, rdg, p)
  BY DEF PlacedBut, Placed, Off, OffQueue, QueueTypes
<1> QED
  BY <1>1 DEF PlacedBut

\* What is in hand can be changed at will.
LEMMA ChangeInHand ==
  ASSUME NEW st, NEW pr, NEW rdy, NEW slp, NEW rdg, NEW E,
         PlacedBut(st, pr, rdy, slp, rdg, E),
         NEW st2, NEW pr2 \in [Pcb -> Prio],
         \A p \in Pcb \ E : st2[p] = st[p] /\ pr2[p] = pr[p]
  PROVE  PlacedBut(st2, pr2, rdy, slp, rdg, E)
<1>1. ASSUME NEW p \in Pcb \ E
      PROVE  Placed(st2, pr2, rdy, slp, rdg, p)
  <2>1. Placed(st, pr, rdy, slp, rdg, p) /\ st2[p] = st[p] /\ pr2[p] = pr[p]
    BY DEF PlacedBut
  <2> QED
    BY <2>1 DEF Placed
<1> QED
  BY <1>1 DEF PlacedBut, QueueTypes

\* kill() marks a process where it is.
LEMMA MarkKilled ==
  ASSUME NEW st, NEW pr, NEW rdy, NEW slp, NEW rdg, NEW E,
         PlacedBut(st, pr, rdy, slp, rdg, E),
         NEW p \in Pcb \ E, st \in [Pcb -> States],
         st[p] \in {"Ready", "Sleeping", "Blocked", "Killed"}
  PROVE  PlacedBut([st EXCEPT ![p] = "Killed"], pr, rdy, slp, rdg, E)
<1> DEFINE st2 == [st EXCEPT ![p] = "Killed"]
<1>1. st2[p] = "Killed" /\ \A q \in Pcb \ {p} : st2[q] = st[q]
  OBVIOUS
<1> HIDE DEF st2
<1>2. Placed(st, pr, rdy, slp, rdg, p) /\ pr[p] \in Prio
  BY DEF PlacedBut, QueueTypes
<1>3. Placed(st2, pr, rdy, slp, rdg, p)
  BY <1>1, <1>2 DEF Placed
<1>4. ASSUME NEW q \in Pcb \ E, q # p
      PROVE  Placed(st2, pr, rdy, slp, rdg, q)
  <2>1. Placed(st, pr, rdy, slp, rdg, q) /\ st2[q] = st[q]
    BY <1>1, <1>4 DEF PlacedBut
  <2> QED
    BY <2>1 DEF Placed
<1> QED
  BY <1>3, <1>4 DEF PlacedBut, st2

\* A process in hand whose state is Ready joins the ready queue of its priority.
LEMMA PutReady ==
  ASSUME NEW st, NEW pr, NEW rdy, NEW slp, NEW rdg, NEW E,
         PlacedBut(st, pr, rdy, slp, rdg, E),
         NEW p \in E, p \in Pcb, st[p] = "Ready"
  PROVE  PlacedBut(st, pr, [rdy EXCEPT ![pr[p]] = Append(@, p)], slp, rdg, E \ {p})
<1> DEFINE rdy2 == [rdy EXCEPT ![pr[p]] = Append(@, p)]
<1>1. /\ pr[p] \in Prio
      /\ rdy[pr[p]] \in Seq(Pcb)
      /\ ~In(rdy[pr[p]], p)
      /\ NoDup(rdy[pr[p]])
  BY DEF PlacedBut, QueueTypes, Off, Apart
<1>2. /\ rdy2 \in [Prio -> Seq(Pcb)]
      /\ NoDup(rdy2[pr[p]])
      /\ \A x : In(rdy2[pr[p]], x) <=> In(rdy[pr[p]], x) \/ x = p
      /\ \A r \in Prio \ {pr[p]} : rdy2[r] = rdy[r]
  BY <1>1, AppendQueue DEF PlacedBut, QueueTypes
<1> HIDE DEF rdy2
<1>3. Apart(rdy2, slp, rdg)
  BY <1>1, <1>2 DEF PlacedBut, Apart, Off
<1>4. ASSUME NEW q \in E \ {p}
      PROVE  Off(rdy2, slp, rdg, q)
  BY <1>1, <1>2 DEF PlacedBut, Off
<1>5. Placed(st, pr, rdy2, slp, rdg, p)
  BY <1>1, <1>2 DEF PlacedBut, Placed, Off
<1>6. ASSUME NEW q \in Pcb \ E
      PROVE  Placed(st, pr, rdy2, slp, rdg, q)
  <2>1. Placed(st, pr, rdy, slp, rdg, q) /\ pr[q] \in Prio /\ q # p
    BY DEF PlacedBut, QueueTypes
  <2>2. \A r \in Prio : In(rdy2[r], q) <=> In(rdy[r], q)
    BY <1>2, <2>1
  <2> QED
    BY <2>1, <2>2 DEF Placed
<1> QED
  BY <1>2, <1>3, <1>4, <1>5, <1>6 DEF PlacedBut, QueueTypes, rdy2

\* sleep() puts a process in hand on the sleep queue.
LEMMA PutSleeping ==
  ASSUME NEW st, NEW pr, NEW rdy, NEW slp, NEW rdg, NEW E,
         PlacedBut(st, pr, rdy, slp, rdg, E),
         NEW p \in E, p \in Pcb, st[p] = "Sleeping", NEW k \in 0 .. Len(slp)
  PROVE  PlacedBut(st, pr, rdy, InsertAt(slp, k, p), rdg, E \ {p})
<1> DEFINE slp2 == InsertAt(slp, k, p)
<1>1. slp \in Seq(Pcb) /\ NoDup(slp) /\ ~In(slp, p) /\ pr[p] \in Prio
  BY DEF PlacedBut, QueueTypes, Off, Apart
<1>2. /\ slp2 \in Seq(Pcb)
      /\ NoDup(slp2)
      /\ \A x : In(slp2, x) <=> In(slp, x) \/ x = p
  BY <1>1, InsertQueue
<1> HIDE DEF slp2
<1>3. Apart(rdy, slp2, rdg)
  BY <1>2 DEF PlacedBut, Apart, Off
<1>4. ASSUME NEW q \in E \ {p}
      PROVE  Off(rdy, slp2, rdg, q)
  BY <1>2 DEF PlacedBut, Off
<1>5. Placed(st, pr, rdy, slp2, rdg, p)
  BY <1>2 DEF PlacedBut, Placed, Off
<1>6. ASSUME NEW q \in Pcb \ E
      PROVE  Placed(st, pr, rdy, slp2, rdg, q)
  <2>1. Placed(st, pr, rdy, slp, rdg, q) /\ (In(slp2, q) <=> In(slp, q))
    BY <1>2 DEF PlacedBut
  <2> QED
    BY <2>1 DEF Placed
<1> QED
  BY <1>2, <1>3, <1>4, <1>5, <1>6 DEF PlacedBut, QueueTypes, slp2

\* read() puts a process in hand on the queue of readers.
LEMMA PutReading ==
  ASSUME NEW st, NEW pr, NEW rdy, NEW slp, NEW rdg, NEW E,
         PlacedBut(st, pr, rdy, slp, rdg, E),
         NEW p \in E, p \in Pcb, st[p] = "Blocked"
  PROVE  PlacedBut(st, pr, rdy, slp, Append(rdg, p), E \ {p})
<1> DEFINE rdg2 == Append(rdg, p)
<1>1. rdg \in Seq(Pcb) /\ NoDup(rdg) /\ ~In(rdg, p) /\ pr[p] \in Prio
  BY DEF PlacedBut, QueueTypes, Off, Apart
<1>2. /\ rdg2 \in Seq(Pcb)
      /\ NoDup(rdg2)
      /\ \A x : In(rdg2, x) <=> In(rdg, x) \/ x = p
  BY <1>1, AppendQueue
<1> HIDE DEF rdg2
<1>3. Apart(rdy, slp, rdg2)
  BY <1>2 DEF PlacedBut, Apart, Off
<1>4. ASSUME NEW q \in E \ {p}
      PROVE  Off(rdy, slp, rdg2, q)
  BY <1>2 DEF PlacedBut, Off
<1>5. Placed(st, pr, rdy, slp, rdg2, p)
  BY <1>2 DEF PlacedBut, Placed, Off
<1>6. ASSUME NEW q \in Pcb \ E
      PROVE  Placed(st, pr, rdy, slp, rdg2, q)
  <2>1. Placed(st, pr, rdy, slp, rdg, q) /\ (In(rdg2, q) <=> In(rdg, q))
    BY <1>2 DEF PlacedBut
  <2> QED
    BY <2>1 DEF Placed
<1> QED
  BY <1>2, <1>3, <1>4, <1>5, <1>6 DEF PlacedBut, QueueTypes, rdg2

\* _dispatch takes the head of a ready queue in hand.
LEMMA TakeReady ==
  ASSUME NEW st, NEW pr, NEW rdy, NEW slp, NEW rdg,
         PlacedBut(st, pr, rdy, slp, rdg, {}),
         NEW r \in Prio, rdy[r] # <<>>
  PROVE  /\ Head(rdy[r]) \in Pcb
         /\ In(rdy[r], Head(rdy[r]))
         /\ PlacedBut(st, pr, [rdy EXCEPT ![r] = Tail(@)], slp, rdg, {Head(rdy[r])})
<1> DEFINE rdy2 == [rdy EXCEPT ![r] = Tail(@)]
           h == Head(rdy[r])
<1>1. rdy[r] \in Seq(Pcb) /\ NoDup(rdy[r])
  BY DEF PlacedBut, QueueTypes, Apart
<1>2. /\ h \in Pcb
      /\ In(rdy[r], h)
      /\ rdy2 \in [Prio -> Seq(Pcb)]
      /\ NoDup(rdy2[r])
      /\ \A x : In(rdy2[r], x) <=> In(rdy[r], x) /\ x # h
      /\ \A s \in Prio \ {r} : rdy2[s] = rdy[s]
  BY <1>1, TailQueue DEF PlacedBut, QueueTypes
<1> HIDE DEF rdy2, h
<1>3. Apart(rdy2, slp, rdg)
  BY <1>2 DEF PlacedBut, Apart
<1>4. Off(rdy2, slp, rdg, h)
  <2>1. \A s \in Prio : In(rdy[s], h) => s = r
    BY <1>2 DEF PlacedBut, Placed
  <2> QED
    BY <1>2, <2>1 DEF PlacedBut, Apart, Off
<1>5. ASSUME NEW q \in Pcb \ {h}
      PROVE  Placed(st, pr, rdy2, slp, rdg, q)
  <2>1. Placed(st, pr, rdy, slp, rdg, q) /\ pr[q] \in Prio
    BY DEF PlacedBut, QueueTypes
  <2>2. \A s \in Prio : In(rdy2[s], q) <=> In(rdy[s], q)
    BY <1>2
  <2> QED
    BY <2>1, <2>2 DEF Placed
<1> QED
  BY <1>2, <1>3, <1>4, <1>5 DEF PlacedBut, QueueTypes, rdy2, h

\* The clock handler takes the head of the sleep queue in hand.
LEMMA TakeSleeping ==
  ASSUME NEW st, NEW pr, NEW rdy, NEW slp, NEW rdg,
         PlacedBut(st, pr, rdy, slp, rdg, {}), slp # <<>>
  PROVE  /\ Head(slp) \in Pcb
         /\ In(slp, Head(slp))
         /\ PlacedBut(st, pr, rdy, Tail(slp), rdg, {Head(slp)})
<1> DEFINE slp2 == Tail(slp)
           h == Head(slp)
<1>1. /\ h \in Pcb
      /\ In(slp, h)
      /\ slp2 \in Seq(Pcb)
      /\ NoDup(slp2)
      /\ \A x : In(slp2, x) <=> In(slp, x) /\ x # h
  BY TailQueue DEF PlacedBut, QueueTypes, Apart
<1> HIDE DEF slp2, h
<1>2. Apart(rdy, slp2, rdg)
  BY <1>1 DEF PlacedBut, Apart
<1>3. Off(rdy, slp2, rdg, h)
  BY <1>1 DEF PlacedBut, Apart, Off
<1>4. ASSUME NEW q \in Pcb \ {h}
      PROVE  Placed(st, pr, rdy, slp2, rdg, q)
  <2>1. Placed(st, pr, rdy, slp, rdg, q) /\ (In(slp2, q) <=> In(slp, q))
    BY <1>1 DEF PlacedBut
  <2> QED
    BY <2>1 DEF Placed
<1> QED
  BY <1>1, <1>2, <1>3, <1>4 DEF PlacedBut, QueueTypes, slp2, h

\* The serial interrupt takes the first reader in hand.
LEMMA TakeReading ==
  ASSUME NEW st, NEW pr, NEW rdy, NEW slp, NEW rdg,
         PlacedBut(st, pr, rdy, slp, rdg, {}), rdg # <<>>
  PROVE  /\ Head(rdg) \in Pcb
         /\ In(rdg, Head(rdg))
         /\ PlacedBut(st, pr, rdy, slp, Tail(rdg), {Head(rdg)})
<1> DEFINE rdg2 == Tail(rdg)
           h == Head(rdg)
<1>1. /\ h \in Pcb
      /\ In(rdg, h)
      /\ rdg2 \in Seq(Pcb)
      /\ NoDup(rdg2)
      /\ \A x : In(rdg2, x) <=> In(rdg, x) /\ x # h
  BY TailQueue DEF PlacedBut, QueueTypes, Apart
<1> HIDE DEF rdg2, h
<1>2. Apart(rdy, slp, rdg2)
  BY <1>1 DEF PlacedBut, Apart
<1>3. Off(rdy, slp, rdg2, h)
  BY <1>1 DEF PlacedBut, Apart, Off
<1>4. ASSUME NEW q \in Pcb \ {h}
      PROVE  Placed(st, pr, rdy, slp, rdg2, q)
  <2>1. Placed(st, pr, rdy, slp, rdg, q) /\ (In(rdg2, q) <=> In(rdg, q))
    BY <1>1 DEF PlacedBut
  <2> QED
    BY <2>1 DEF Placed
<1> QED
  BY <1>1, <1>2, <1>3, <1>4 DEF PlacedBut, QueueTypes, rdg2, h

-----------------------------------------------------------------------------
\* No program passes the PIDs of init and idle to kill(): what the theorems
\* assume of programs.
KillSpares == {PID_INIT, PID_IDLE} \subseteq Protected

-----------------------------------------------------------------------------
(***************************************************************************)
(* Consequences of IInv                                                    *)
(***************************************************************************)

\* Placement in terms of PlacedBut, of this state ...
LEMMA PlacementQueues ==
  ASSUME IInv
  PROVE  PlacedBut(state, prio, ready, sleeping, reading, {})
BY PlacedButNone DEF IInv, TypeOK, QueueTypes, Placement

\* ... and of the next state.
LEMMA QueuesPlacement ==
  ASSUME PlacedBut(state', prio', ready', sleeping', reading', {}), OneRunning'
  PROVE  Placement'
<1>1. QueuesDisjoint'
  BY DEF PlacedBut, Apart, QueuesDisjoint
<1>2. StateMatchesQueue'
  BY DEF PlacedBut, Placed, StateMatchesQueue
<1> QED
  BY <1>1, <1>2 DEF Placement

\* The table, without its count.
LEMMA TableFacts ==
  ASSUME IInv
  PROVE  /\ \A p \in Pcb : p \in ptable <=> state[p] # "Unused"
         /\ \A p, q \in ptable : pid[p] = pid[q] => p = q
         /\ \A p \in ptable : p \in Pcb /\ pid[p] \in Nat /\ ppid[p] \in Nat /\ pid[p] >= 1 /\ pid[p] < next_pid
         /\ next_pid \in Nat
BY SMTT(40) DEF IInv, TypeOK, TreeInv, TableConsistent

\* While a process runs, _current is in the table and is Running.
LEMMA CurrentFacts ==
  ASSUME IInv, cpu # "_dispatch"
  PROVE  current \in ptable /\ state[current] = "Running" /\ current \in Pcb
BY TableFacts DEF IInv, TypeOK, Placement, OneRunning

\* _pcb_find_pid(ppid) in _force_exit (process.c) finds the parent, which is not the
\* process itself and has not exited.
LEMMA ParentFound ==
  ASSUME IInv, NEW v \in ptable, v # InitPcb
  PROVE  LET par == pcb_find_pid(ppid[v]) IN
         /\ par \in ptable
         /\ pid[par] = ppid[v]
         /\ state[par] # "Zombie"
         /\ par # v
         /\ \A q \in ptable : pid[q] = ppid[v] => q = par
<1>1. PICK q \in ptable : pid[q] = ppid[v] /\ state[q] # "Zombie"
  BY DEF IInv, TreeInv, ParentAlive
<1> DEFINE par == pcb_find_pid(ppid[v])
<1>2. par \in ptable /\ pid[par] = ppid[v]
  BY <1>1 DEF pcb_find_pid
<1> HIDE DEF par
<1>3. par = q
  BY <1>1, <1>2, TableFacts
<1>4. ppid[v] < pid[v]
  BY DEF IInv, TreeInv, Rooted
<1> QED
  BY <1>1, <1>2, <1>3, <1>4, TableFacts DEF par

\* Idle and init are told from the others by what they do.
LEMMA OrdinaryByState ==
  ASSUME IInv, NEW v \in ptable, state[v] \notin {"Ready", "Running"}
  PROVE  /\ pid[v] # PID_IDLE
         /\ state[v] # "Waiting" => v # InitPcb
<1>1. pid[v] = PID_IDLE => Booted
  BY TableFacts DEF Booted
<1> QED
  BY <1>1, TableFacts DEF IInv, TreeInv, IdleAlive, Rooted

\* The table is finite, so its count can be followed.
LEMMA TableCount ==
  ASSUME IInv
  PROVE  /\ IsFiniteSet(ptable)
         /\ Cardinality(ptable) \in Nat
         /\ \A v \in ptable : Cardinality(ptable \ {v}) = Cardinality(ptable) - 1
         /\ \A c : c \notin ptable => Cardinality(ptable \cup {c}) = Cardinality(ptable) + 1
<1>1. IsFiniteSet(ptable)
  BY PcbAssumption, FS_Subset DEF IInv, TypeOK
<1> QED
  BY <1>1, FS_CardinalityType, FS_RemoveElement, FS_AddElement

-----------------------------------------------------------------------------
(***************************************************************************)
(* What the helpers do to the process tree                                 *)
(***************************************************************************)

\* A change of state that neither frees nor ends a process, nor touches one
\* that waits, leaves the tree as it is.
LEMMA TreeStateChange ==
  ASSUME IInv, NEW v \in ptable, NEW s \in {"Ready", "Running", "Sleeping", "Blocked", "Killed"},
         state[v] \notin {"Waiting", "Zombie"},
         s \in {"Ready", "Running"} \/ (v # InitPcb /\ pid[v] # PID_IDLE),
         state' = [state EXCEPT ![v] = s],
         UNCHANGED <<pid, ppid, ptable, active_procs, next_pid>>
  PROVE  /\ state' \in [Pcb -> States]
         /\ TreeInv'
         /\ \A p \in Pcb \ {v} : state'[p] = state[p]
<1>1. /\ v \in Pcb
      /\ state[v] # "Unused"
      /\ state \in [Pcb -> States]
      /\ s \in States
  BY TableFacts DEF IInv, TypeOK, States, ReallyActive
<1>2. state'[v] = s /\ \A p \in Pcb \ {v} : state'[p] = state[p]
  BY <1>1
<1>3. TableConsistent'
  <2>1. ptable' = {p \in Pcb : state'[p] # "Unused"}
    BY <1>1, <1>2 DEF IInv, TreeInv, TableConsistent
  <2> QED
    BY <2>1 DEF IInv, TreeInv, TableConsistent
<1>4. ParentAlive'
  <2> SUFFICES ASSUME NEW p \in ptable
               PROVE  \E q \in ptable : pid[q] = ppid[p] /\ state'[q] # "Zombie"
    BY DEF ParentAlive
  <2>1. PICK q \in ptable : pid[q] = ppid[p] /\ state[q] # "Zombie"
    BY DEF IInv, TreeInv, ParentAlive
  <2> QED
    BY <2>1, <1>2, TableFacts
<1>5. Rooted'
  BY <1>1, <1>2, InitPcbAssumption DEF IInv, TreeInv, Rooted, Booted
<1>6. IdleAlive'
  BY <1>1, <1>2, TableFacts DEF IInv, TreeInv, IdleAlive, Booted
<1>7. WaiterHasWork'
  <2>1. \A c \in ptable : state'[c] = "Zombie" <=> state[c] = "Zombie"
    BY <1>2, TableFacts
  <2>2. \A c \in ptable : state'[c] = "Waiting" <=> state[c] = "Waiting"
    BY <1>2, TableFacts
  <2> QED
    BY <2>1, <2>2 DEF IInv, TreeInv, WaiterHasWork, Children
<1> QED
  BY <1>1, <1>2, <1>3, <1>4, <1>5, <1>6, <1>7 DEF TreeInv

\* Only the answers, and PIDs that nobody uses, change.
LEMMA TreeUnmoved ==
  ASSUME IInv, UNCHANGED <<state, pid, ppid, ptable, active_procs>>,
         next_pid' \in Nat, next_pid' >= next_pid, Booted' => Booted
  PROVE  TreeInv'
<1>1. TableConsistent'
  BY TableFacts DEF IInv, TreeInv, TableConsistent
<1>2. Booted => Booted'
  BY TableFacts DEF Booted, PID_IDLE
<1> QED
  BY <1>1, <1>2 DEF IInv, TreeInv, ParentAlive, Rooted, IdleAlive, WaiterHasWork, Children

\* _force_exit (process.c) keeps the tree: the children of v find a living parent in
\* init, and v leaves the table only into the hands of a waiting parent.
LEMMA TreeForceExit ==
  ASSUME IInv, NEW v \in ptable, v # InitPcb, pid[v] # PID_IDLE, state[v] # "Zombie",
         NEW st \in Int, NEW rdy \in [Prio -> Seq(Pcb)], NEW rep \in [Pcb -> Replies],
         force_exit(v, st, rdy, rep), next_pid' = next_pid
  PROVE  /\ state' \in [Pcb -> States]
         /\ pid' \in [Pcb -> Nat]
         /\ ppid' \in [Pcb -> Nat]
         /\ prio' \in [Pcb -> Prio]
         /\ reply' \in [Pcb -> Replies]
         /\ ptable' \in SUBSET Pcb
         /\ active_procs' \in Int
         /\ ready' \in [Prio -> Seq(Pcb)]
         /\ TreeInv'
         /\ \A p \in Pcb : state'[p] = "Running" <=> state[p] = "Running" /\ p # v
<1> DEFINE par == pcb_find_pid(ppid[v])
<1>1. /\ par \in ptable
      /\ pid[par] = ppid[v]
      /\ state[par] # "Zombie"
      /\ par # v
      /\ \A q \in ptable : pid[q] = ppid[v] => q = par
      /\ par \in Pcb
  BY ParentFound, TableFacts
<1> HIDE DEF par
<1>2. /\ v \in Pcb
      /\ state \in [Pcb -> States]
      /\ pid \in [Pcb -> Nat]
      /\ ppid \in [Pcb -> Nat]
      /\ prio \in [Pcb -> Prio]
      /\ ptable \in SUBSET Pcb
      /\ active_procs \in Int
      /\ 0 \in Prio
      /\ \A p \in ptable : state[p] \in ReallyActive
      /\ InitPcb \in Pcb
  <2>1. 0 \in Prio
    BY PrioAssumption DEF Prio
  <2>2. \A p \in ptable : state[p] \in ReallyActive
    BY TableFacts DEF IInv, TypeOK, States
  <2> QED
    BY <2>1, <2>2, TableFacts, InitPcbAssumption DEF IInv, TypeOK
<1>3. /\ Reparented(v) \in [Pcb -> Nat]
      /\ \A p \in ptable : Reparented(v)[p] = IF ppid[p] = pid[v] THEN PID_INIT ELSE ppid[p]
  BY <1>2 DEF Reparented, PID_INIT
<1>4. /\ InitPcb \in ptable
      /\ pid[InitPcb] = PID_INIT
      /\ ppid[InitPcb] = PID_INIT
      /\ state[InitPcb] \in {"Ready", "Running", "Waiting"}
      /\ \A p \in ptable : pid[p] = PID_INIT => p = InitPcb
      /\ \A p \in ptable : pid[p] = pid[v] => p = v
      /\ pid[v] # PID_INIT
      /\ Reparented(v)[InitPcb] = PID_INIT
  BY <1>3, TableFacts DEF IInv, TreeInv, Rooted
<1>5. CASE state[par] # "Waiting"
  <2>1. /\ ppid' = Reparented(v)
        /\ state' = [state EXCEPT ![v] = "Zombie"]
        /\ ready' = rdy /\ reply' = [rep EXCEPT ![v] = Answer(0)]
        /\ UNCHANGED <<pid, prio, ptable, active_procs>>
    BY <1>5 DEF force_exit, par
  <2>2. /\ state'[v] = "Zombie"
        /\ \A p \in Pcb \ {v} : state'[p] = state[p]
        /\ state' \in [Pcb -> States]
    BY <1>2, <2>1 DEF States, ReallyActive
  <2>3. TableConsistent'
    <3>1. ptable' = {p \in Pcb : state'[p] # "Unused"}
      BY <1>2, <2>1, <2>2, TableFacts
    <3> QED
      BY <3>1, <2>1 DEF IInv, TreeInv, TableConsistent
  <2>4. ParentAlive'
    <3> SUFFICES ASSUME NEW p \in ptable
                 PROVE  \E q \in ptable : pid[q] = ppid'[p] /\ state'[q] # "Zombie"
      BY <2>1 DEF ParentAlive
    <3>1. CASE ppid[p] = pid[v]
      BY <3>1, <1>2, <1>3, <1>4, <2>1, <2>2
    <3>2. CASE ppid[p] # pid[v]
      <4>1. PICK q \in ptable : pid[q] = ppid[p] /\ state[q] # "Zombie"
        BY DEF IInv, TreeInv, ParentAlive
      <4> QED
        BY <3>2, <4>1, <1>2, <1>3, <2>1, <2>2
    <3> QED
      BY <3>1, <3>2
  <2>5. Rooted'
    <3>1. \A p \in ptable \ {InitPcb} : ppid'[p] < pid'[p]
      <4> TAKE p \in ptable \ {InitPcb}
      <4>1. ppid[p] < pid[p] /\ pid[p] >= 1 /\ pid[p] # PID_INIT /\ pid[p] \in Nat
        BY <1>4, TableFacts DEF IInv, TreeInv, Rooted
      <4> QED
        BY <4>1, <1>3, <2>1 DEF PID_INIT
    <3>2. state'[InitPcb] = state[InitPcb]
      BY <1>2, <2>2
    <3> QED
      BY <3>1, <3>2, <1>4, <2>1 DEF IInv, TreeInv, Rooted, Booted
  <2>6. IdleAlive'
    BY <1>2, <2>1, <2>2 DEF IInv, TreeInv, IdleAlive, Booted
  <2>7. WaiterHasWork'
    <3> SUFFICES ASSUME NEW p \in ptable, state'[p] = "Waiting"
                 PROVE  /\ Children(p)' # {}
                        /\ pid[p] # PID_INIT => \A c \in Children(p)' : state'[c] # "Zombie"
      BY <2>1 DEF WaiterHasWork
    <3>1. p # v /\ p # par /\ state[p] = "Waiting"
      BY <1>2, <1>5, <2>2
    <3>2. pid[p] # pid[v] /\ ppid[v] # pid[p]
      BY <3>1, <1>1, <1>4
    <3>3. \A c \in ptable : ppid[c] = pid[p] => ppid'[c] = pid[p]
      BY <3>2, <1>3, <2>1
    <3>4. pid[p] # PID_INIT => \A c \in ptable : ppid'[c] = pid[p] => ppid[c] = pid[p] /\ c # v
      BY <3>2, <1>3, <2>1
    <3>5. /\ Children(p) # {}
          /\ pid[p] # PID_INIT => \A c \in Children(p) : state[c] # "Zombie"
      BY <3>1 DEF IInv, TreeInv, WaiterHasWork
    <3>6. Children(p)' # {}
      BY <3>3, <3>5, <2>1 DEF Children
    <3>7. pid[p] # PID_INIT => \A c \in Children(p)' : state'[c] # "Zombie"
      BY <3>4, <3>5, <1>2, <2>1, <2>2 DEF Children
    <3> QED
      BY <3>6, <3>7
  <2>8. \A p \in Pcb : state'[p] = "Running" <=> state[p] = "Running" /\ p # v
    BY <2>2
  <2>9. reply' \in [Pcb -> Replies]
    <3>1. Answer(0) \in Replies
      BY DEF Answer, Replies
    <3> QED
      BY <2>1, <3>1
  <2> QED
    BY <1>2, <1>3, <2>1, <2>2, <2>3, <2>4, <2>5, <2>6, <2>7, <2>8, <2>9 DEF TreeInv
<1>6. CASE state[par] = "Waiting"
  <2>1. /\ ppid' = [Reparented(v) EXCEPT ![v] = 0]
        /\ state' = [state EXCEPT ![par] = "Ready", ![v] = "Unused"]
        /\ ready' = [rdy EXCEPT ![prio[par]] = Append(@, par)]
        /\ reply' = [rep EXCEPT ![par] = WaitAnswer(pid[v], st), ![v] = Answer(0)]
        /\ ptable' = ptable \ {v}
        /\ active_procs' = active_procs - 1
        /\ pid'  = [pid  EXCEPT ![v] = 0]
        /\ prio' = [prio EXCEPT ![v] = 0]
    BY <1>6 DEF force_exit, pcb_cleanup, par
  <2>2. /\ state'[v] = "Unused"
        /\ state'[par] = "Ready"
        /\ \A p \in Pcb \ {v, par} : state'[p] = state[p]
        /\ state' \in [Pcb -> States]
    BY <1>1, <1>2, <2>1 DEF States, ReallyActive
  <2>3. /\ \A p \in ptable' : pid'[p] = pid[p] /\ ppid'[p] = Reparented(v)[p]
        /\ \A p \in ptable' : p \in ptable /\ p # v
        /\ par \in ptable' /\ InitPcb \in ptable'
    BY <1>1, <1>2, <1>3, <1>4, <2>1
  <2>4. TableConsistent'
    <3>1. ptable' = {p \in Pcb : state'[p] # "Unused"}
      BY <1>1, <1>2, <2>1, <2>2, TableFacts, SMTT(40)
    <3>2. active_procs' = Cardinality(ptable') /\ active_procs' <= N_PROCS
      <4>1. Cardinality(ptable') = Cardinality(ptable) - 1 /\ Cardinality(ptable) \in Nat
        BY <2>1, TableCount
      <4>2. active_procs = Cardinality(ptable) /\ active_procs <= N_PROCS
        BY DEF IInv, TreeInv, TableConsistent
      <4> QED
        BY <2>1, <4>1, <4>2, NProcsAssumption
    <3> QED
      BY <3>1, <3>2, <2>1, <2>3, TableFacts, ZenonT(60) DEF TableConsistent
  <2>5. ParentAlive'
    <3> SUFFICES ASSUME NEW p \in ptable'
                 PROVE  \E q \in ptable' : pid'[q] = ppid'[p] /\ state'[q] # "Zombie"
      BY DEF ParentAlive
    <3>1. CASE ppid[p] = pid[v]
      BY <3>1, <1>2, <1>3, <1>4, <2>2, <2>3
    <3>2. CASE ppid[p] # pid[v]
      <4>1. PICK q \in ptable : pid[q] = ppid[p] /\ state[q] # "Zombie"
        BY <2>3 DEF IInv, TreeInv, ParentAlive
      <4>2. q \in ptable'
        BY <4>1, <3>2, <2>1
      <4>3. ppid'[p] = ppid[p] /\ pid'[q] = pid[q]
        BY <3>2, <4>2, <1>3, <2>3
      <4> QED
        BY <4>1, <4>2, <4>3, <1>2, <2>2
    <3> QED
      BY <3>1, <3>2
  <2>6. Rooted'
    <3>1. \A p \in ptable' \ {InitPcb} : ppid'[p] < pid'[p]
      <4> TAKE p \in ptable' \ {InitPcb}
      <4>1. ppid[p] < pid[p] /\ pid[p] >= 1 /\ pid[p] # PID_INIT /\ pid[p] \in Nat
        BY <1>4, <2>3, TableFacts DEF IInv, TreeInv, Rooted
      <4> QED
        BY <4>1, <1>3, <2>3 DEF PID_INIT
    <3>2. state'[InitPcb] = state[InitPcb] \/ state'[InitPcb] = "Ready"
      BY <1>2, <2>2
    <3> QED
      BY <3>1, <3>2, <1>3, <1>4, <2>3 DEF IInv, TreeInv, Rooted, Booted
  <2>7. IdleAlive'
    <3> SUFFICES ASSUME Booted'
                 PROVE  \E p \in ptable' : pid'[p] = PID_IDLE /\ state'[p] \in {"Ready", "Running"}
      BY DEF IdleAlive
    <3>1. PICK p \in ptable : pid[p] = PID_IDLE /\ state[p] \in {"Ready", "Running"}
      BY DEF IInv, TreeInv, IdleAlive, Booted
    <3>2. p \in ptable' /\ p # par
      BY <3>1, <1>6, <2>1
    <3> QED
      BY <3>1, <3>2, <1>2, <2>2, <2>3
  <2>8. WaiterHasWork'
    <3> SUFFICES ASSUME NEW p \in ptable', state'[p] = "Waiting"
                 PROVE  /\ Children(p)' # {}
                        /\ pid'[p] # PID_INIT => \A c \in Children(p)' : state'[c] # "Zombie"
      BY DEF WaiterHasWork
    <3>1. p \in ptable /\ p # v /\ p # par /\ state[p] = "Waiting"
      BY <1>2, <2>2, <2>3
    <3>2. pid[p] # pid[v] /\ ppid[v] # pid[p] /\ pid'[p] = pid[p]
      BY <3>1, <1>1, <1>4, <2>3
    <3>3. \A c \in ptable : ppid[c] = pid[p] => c \in ptable' /\ ppid'[c] = pid[p]
      BY <3>2, <1>3, <2>1, <2>3
    <3>4. pid[p] # PID_INIT => \A c \in ptable' : ppid'[c] = pid[p] => ppid[c] = pid[p]
      BY <3>2, <1>3, <2>3
    <3>5. /\ Children(p) # {}
          /\ pid[p] # PID_INIT => \A c \in Children(p) : state[c] # "Zombie"
      BY <3>1 DEF IInv, TreeInv, WaiterHasWork
    <3>6. Children(p)' # {}
      BY <3>2, <3>3, <3>5 DEF Children
    <3>7. pid[p] # PID_INIT => \A c \in Children(p)' : state'[c] # "Zombie"
      BY <3>2, <3>4, <3>5, <1>2, <2>2, <2>3 DEF Children
    <3> QED
      BY <3>2, <3>6, <3>7
  <2>9. \A p \in Pcb : state'[p] = "Running" <=> state[p] = "Running" /\ p # v
    BY <1>6, <2>2
  <2>10. /\ pid' \in [Pcb -> Nat]
         /\ ppid' \in [Pcb -> Nat]
         /\ prio' \in [Pcb -> Prio]
         /\ active_procs' \in Int
         /\ ptable' \in SUBSET Pcb
    BY <1>2, <1>3, <2>1, SMTT(40)
  <2>11. reply' \in [Pcb -> Replies]
    <3>1. WaitAnswer(pid[v], st) \in Replies /\ Answer(0) \in Replies
      BY <1>2 DEF WaitAnswer, Answer, Replies
    <3> QED
      BY <3>1, <1>1, <1>2, <2>1
  <2>12. ready' \in [Prio -> Seq(Pcb)]
    BY <1>1, <1>2, <2>1, AppendQueue
  <2> QED
    BY <2>2, <2>4, <2>5, <2>6, <2>7, <2>8, <2>9, <2>10, <2>11, <2>12 DEF TreeInv
<1> QED
  BY <1>5, <1>6

\* _schedule (scheduler.c) keeps the tree, whether it makes p ready or ends it.
LEMMA TreeSchedule ==
  ASSUME IInv, NEW p \in ptable, state[p] \notin {"Waiting", "Zombie"},
         NEW rep \in [Pcb -> Replies],
         schedule(p, rep), next_pid' = next_pid
  PROVE  /\ state' \in [Pcb -> States]
         /\ pid' \in [Pcb -> Nat]
         /\ ppid' \in [Pcb -> Nat]
         /\ prio' \in [Pcb -> Prio]
         /\ reply' \in [Pcb -> Replies]
         /\ ptable' \in SUBSET Pcb
         /\ active_procs' \in Int
         /\ ready' \in [Prio -> Seq(Pcb)]
         /\ TreeInv'
         /\ \A q \in Pcb : state'[q] = "Running" <=> state[q] = "Running" /\ q # p
<1>1. p \in Pcb /\ ready \in [Prio -> Seq(Pcb)]
  BY TableFacts DEF IInv, TypeOK
<1>2. CASE state[p] = "Killed"
  <2>1. p # InitPcb /\ pid[p] # PID_IDLE
    BY <1>2, OrdinaryByState
  <2>2. force_exit(p, KilledStatus, ready, rep)
    BY <1>2 DEF schedule
  <2>3. KilledStatus \in Int /\ state[p] # "Zombie"
    BY DEF KilledStatus
  <2> QED
    BY <1>1, <2>1, <2>2, <2>3, TreeForceExit
<1>3. CASE state[p] # "Killed"
  <2>1. /\ state' = [state EXCEPT ![p] = "Ready"]
        /\ ready' = [ready EXCEPT ![prio[p]] = Append(@, p)]
        /\ reply' = rep
        /\ UNCHANGED <<ppid, pid, prio, ptable, active_procs>>
    BY <1>3 DEF schedule
  <2>2. /\ state' \in [Pcb -> States]
        /\ TreeInv'
        /\ \A q \in Pcb \ {p} : state'[q] = state[q]
    BY <2>1, TreeStateChange
  <2>3. state'[p] = "Ready"
    BY <1>1, <2>1 DEF IInv, TypeOK
  <2>4. ready' \in [Prio -> Seq(Pcb)]
    BY <1>1, <2>1, AppendQueue DEF IInv, TypeOK
  <2> QED
    BY <2>1, <2>2, <2>3, <2>4 DEF IInv, TypeOK
<1> QED
  BY <1>2, <1>3

-----------------------------------------------------------------------------
(***************************************************************************)
(* What the helpers do to the queues                                       *)
(***************************************************************************)

\* _force_exit (process.c) on a process in hand: the waiting parent, if there is one,
\* is the only process it puts on a queue.
LEMMA QueuesForceExit ==
  ASSUME IInv, NEW v \in ptable, v # InitPcb,
         NEW st, NEW rdy, NEW slp, NEW rdg, NEW rep,
         PlacedBut(state, prio, rdy, slp, rdg, {v}),
         force_exit(v, st, rdy, rep)
  PROVE  PlacedBut(state', prio', ready', slp, rdg, {})
<1> DEFINE par == pcb_find_pid(ppid[v])
<1>1. par \in Pcb /\ par # v /\ v \in Pcb
  BY ParentFound, TableFacts
<1> HIDE DEF par
<1>2. /\ state \in [Pcb -> States]
      /\ prio \in [Pcb -> Prio]
      /\ 0 \in Prio
  <2>1. state \in [Pcb -> States] /\ prio \in [Pcb -> Prio]
    BY Zenon DEF IInv, TypeOK
  <2>2. 0 \in Prio
    BY PrioAssumption DEF Prio
  <2> QED BY <2>1, <2>2
<1>3. CASE state[par] # "Waiting"
  <2>1. /\ state' = [state EXCEPT ![v] = "Zombie"]
        /\ ready' = rdy
        /\ prio' = prio
    BY <1>3 DEF force_exit, par
  <2>2. PlacedBut(state', prio', rdy, slp, rdg, {v})
    BY <2>1, <1>2, ChangeInHand
  <2>3. state'[v] \in OffQueue
    BY <2>1, <1>1, <1>2 DEF OffQueue
  <2>4. PlacedBut(state', prio', rdy, slp, rdg, {v} \ {v})
    BY <2>2, <2>3, LetGo
  <2>5. {v} \ {v} = {}
    OBVIOUS
  <2> QED
    BY <2>1, <2>4, <2>5
<1>4. CASE state[par] = "Waiting"
  <2>1. /\ state' = [state EXCEPT ![par] = "Ready", ![v] = "Unused"]
        /\ ready' = [rdy EXCEPT ![prio[par]] = Append(@, par)]
        /\ prio' = [prio EXCEPT ![v] = 0]
    BY <1>4 DEF force_exit, pcb_cleanup, par
  <2>2. /\ state'[v] = "Unused"
        /\ state'[par] = "Ready"
        /\ prio' \in [Pcb -> Prio]
        /\ prio'[par] = prio[par]
        /\ \A p \in Pcb \ {v, par} : state'[p] = state[p] /\ prio'[p] = prio[p]
    BY <2>1, <1>1, <1>2
  <2>3. PlacedBut(state, prio, rdy, slp, rdg, {v} \cup {par})
    BY <1>1, <1>4, TakeOffQueue DEF OffQueue
  <2>4. PlacedBut(state', prio', rdy, slp, rdg, {v} \cup {par})
    BY <2>2, <2>3, ChangeInHand
  <2>5. PlacedBut(state', prio', rdy, slp, rdg, ({v} \cup {par}) \ {v})
    BY <2>2, <2>4, LetGo DEF OffQueue
  <2>6. ({v} \cup {par}) \ {v} = {par}
    BY <1>1
  <2>7. PlacedBut(state', prio', [rdy EXCEPT ![prio'[par]] = Append(@, par)], slp, rdg, {par} \ {par})
    BY <2>2, <2>5, <2>6, <1>1, PutReady
  <2>8. {par} \ {par} = {}
    OBVIOUS
  <2> QED
    BY <2>1, <2>2, <2>7, <2>8
<1> QED
  BY <1>3, <1>4

\* _schedule (scheduler.c) on a process in hand puts it on its ready queue, or its
\* waiting parent on the parent's.
LEMMA QueuesSchedule ==
  ASSUME IInv, NEW p \in ptable, state[p] \notin {"Waiting", "Zombie"},
         NEW slp, NEW rdg, NEW rep,
         PlacedBut(state, prio, ready, slp, rdg, {p}),
         schedule(p, rep)
  PROVE  PlacedBut(state', prio', ready', slp, rdg, {})
<1>1. CASE state[p] = "Killed"
  <2>1. p # InitPcb
    BY <1>1, OrdinaryByState
  <2>2. force_exit(p, KilledStatus, ready, rep)
    BY <1>1 DEF schedule
  <2> QED
    BY <2>1, <2>2, QueuesForceExit
<1>2. CASE state[p] # "Killed"
  <2>1. /\ state' = [state EXCEPT ![p] = "Ready"]
        /\ ready' = [ready EXCEPT ![prio[p]] = Append(@, p)]
        /\ prio' = prio
    BY <1>2 DEF schedule
  <2>2. /\ p \in Pcb
        /\ prio \in [Pcb -> Prio]
        /\ state'[p] = "Ready"
        /\ \A q \in Pcb \ {p} : state'[q] = state[q]
    BY <2>1, TableFacts DEF IInv, TypeOK
  <2>3. PlacedBut(state', prio', ready, slp, rdg, {p})
    BY <2>1, <2>2, ChangeInHand
  <2>4. PlacedBut(state', prio', [ready EXCEPT ![prio'[p]] = Append(@, p)], slp, rdg, {p} \ {p})
    BY <2>2, <2>3, PutReady
  <2>5. {p} \ {p} = {}
    OBVIOUS
  <2> QED
    BY <2>1, <2>4, <2>5
<1> QED
  BY <1>1, <1>2

-----------------------------------------------------------------------------
(***************************************************************************)
(* The initial state                                                       *)
(***************************************************************************)

\* _init (kernel.c) leaves the system in order.
LEMMA InitIInv == Init => IInv
<1> SUFFICES ASSUME Init
             PROVE  IInv
  OBVIOUS
<1>1. /\ 0 \in Prio
      /\ 0 \in 0 .. TimeMod - 1
      /\ Q_STD \in 0 .. Q_STD
      /\ 2 \in 2 .. MaxPid + 1
  BY PrioAssumption, TimeAssumption, QuantumAssumption, MaxPidAssumption DEF Prio, PID_IDLE
<1>2. /\ state \in [Pcb -> States]
      /\ state[InitPcb] = "Running"
      /\ \A p \in Pcb \ {InitPcb} : state[p] = "Unused"
      /\ pid[InitPcb] = 1 /\ ppid[InitPcb] = 1
  BY InitPcbAssumption DEF Init, States, ReallyActive, PID_INIT
<1>3. TypeOK
  <2>1. /\ pid \in [Pcb -> Nat]
        /\ ppid \in [Pcb -> Nat]
        /\ reply \in [Pcb -> Replies]
        /\ active_procs \in Int
        /\ exit_status \in [Pcb -> Int]
    BY DEF Init, Answer, Replies, PID_INIT
  <2>2. <<>> \in Seq(Pcb)
    BY EmptySeq
  <2> QED
    BY <1>1, <1>2, <2>1, <2>2, InitPcbAssumption DEF Init, TypeOK
<1>4. TableConsistent
  <2>1. ptable = {InitPcb} /\ active_procs = 1 /\ next_pid = 2
    BY DEF Init
  <2>2. Cardinality(ptable) = 1
    BY <2>1, FS_Singleton
  <2>3. ptable = {p \in Pcb : state[p] # "Unused"}
    BY <1>2, <2>1, InitPcbAssumption
  <2> QED
    BY <1>2, <2>1, <2>2, <2>3, NProcsAssumption DEF TableConsistent
<1>5. ParentAlive /\ Rooted /\ IdleAlive /\ WaiterHasWork /\ SliceLeft
  BY <1>2, QuantumAssumption
     DEF Init, ParentAlive, Rooted, IdleAlive, WaiterHasWork, SliceLeft, Booted, PID_INIT, PID_IDLE
<1>6. Placement /\ SleepOrdered
  <2>1. \A x : ~In(<<>>, x)
    BY DEF In
  <2>2. NoDup(<<>>)
    BY DEF NoDup
  <2>3. /\ \A r \in Prio : ready[r] = <<>>
        /\ sleeping = <<>> /\ reading = <<>>
        /\ current = InitPcb /\ cpu = "user"
    BY DEF Init
  <2>4. QueuesDisjoint
    BY <2>1, <2>2, <2>3 DEF QueuesDisjoint
  <2>5. StateMatchesQueue
    BY <1>2, <2>1, <2>3 DEF StateMatchesQueue
  <2>6. OneRunning
    BY <1>2, <2>3, InitPcbAssumption DEF OneRunning
  <2>7. SleepOrdered
    BY <2>3 DEF SleepOrdered
  <2> QED
    BY <2>4, <2>5, <2>6, <2>7 DEF Placement
<1> QED
  BY <1>3, <1>4, <1>5, <1>6 DEF IInv, TreeInv

-----------------------------------------------------------------------------
(***************************************************************************)
(* The steps, one lemma per operation                                      *)
(***************************************************************************)

\* A step that only answers, uses up a PID or moves the clock on.
LEMMA StepQuiet ==
  ASSUME IInv,
         UNCHANGED <<state, pid, ppid, prio, wakeup, exit_status, ptable, active_procs,
                     ready, sleeping, reading, current>>,
         reply' \in [Pcb -> Replies],
         next_pid' \in 2 .. MaxPid + 1, next_pid' >= next_pid, Booted' => Booted,
         ticks' \in 0 .. Q_STD, system_time' \in 0 .. TimeMod - 1,
         cpu \in {"user", "_clk_isr"}, cpu' \in {"user", "_clk_isr"}, ticks' >= 1
  PROVE  IInv'
<1>1. TypeOK'
  BY DEF IInv, TypeOK
<1>2. TreeInv'
  <2>1. next_pid' \in Nat
    BY MaxPidAssumption
  <2> QED
    BY <2>1, TreeUnmoved
<1>3. PlacedBut(state', prio', ready', sleeping', reading', {})
  BY PlacementQueues
<1>4. OneRunning'
  BY DEF IInv, Placement, OneRunning
<1>5. Placement'
  BY <1>3, <1>4, QueuesPlacement
<1>6. SleepOrdered' /\ SliceLeft'
  BY DEF IInv, SleepOrdered, SliceLeft
<1> QED
  BY <1>1, <1>2, <1>5, <1>6 DEF IInv

\* The calls that only answer.
LEMMA StepAnswer ==
  ASSUME IInv, SystemCall, NEW n \in Int,
         reply' = [reply EXCEPT ![current] = Answer(n)],
         UNCHANGED <<state, ppid, wakeup, exit_status, ready, sleeping, reading, current,
                     ticks, system_time, cpu, tableVars>>
  PROVE  IInv'
<1>1. /\ cpu = "user" /\ ticks >= 1 /\ ticks \in 0 .. Q_STD
      /\ next_pid \in 2 .. MaxPid + 1 /\ next_pid \in Nat
      /\ system_time \in 0 .. TimeMod - 1
  BY TableFacts DEF SystemCall, IInv, TypeOK, SliceLeft
<1>2. reply' \in [Pcb -> Replies]
  BY DEF IInv, TypeOK, Answer, Replies
<1> QED
  BY <1>1, <1>2, StepQuiet DEF tableVars, Booted

\* A spawn without memory.
LEMMA StepNoMemory ==
  ASSUME IInv, sys_spawn_no_memory
  PROVE  IInv'
<1>1. /\ cpu = "user" /\ ticks >= 1 /\ ticks \in 0 .. Q_STD
      /\ system_time \in 0 .. TimeMod - 1
  BY DEF sys_spawn_no_memory, SystemCall, IInv, TypeOK, SliceLeft
<1>2. reply' \in [Pcb -> Replies]
  BY DEF sys_spawn_no_memory, IInv, TypeOK, Answer, Replies, E_NO_MEMORY
<1>3. next_pid' \in 2 .. MaxPid + 1 /\ next_pid' >= next_pid
  BY MaxPidAssumption DEF sys_spawn_no_memory, IInv, TypeOK
<1> QED
  BY <1>1, <1>2, <1>3, StepQuiet DEF sys_spawn_no_memory

\* A timer tick, before the sleep queue is looked at.
LEMMA StepTick ==
  ASSUME IInv, clk_isr_tick
  PROVE  IInv'
<1>1. /\ cpu = "user" /\ ticks >= 1 /\ ticks \in 0 .. Q_STD
      /\ next_pid \in 2 .. MaxPid + 1 /\ next_pid \in Nat
      /\ reply \in [Pcb -> Replies]
  BY TableFacts DEF clk_isr_tick, IInv, TypeOK, SliceLeft
<1>2. system_time' \in 0 .. TimeMod - 1
  BY TimeAssumption DEF clk_isr_tick, IInv, TypeOK
<1> QED
  BY <1>1, <1>2, StepQuiet DEF clk_isr_tick, tableVars, Booted

\* The slice goes on.
LEMMA StepResume ==
  ASSUME IInv, clk_isr_resume
  PROVE  IInv'
<1>1. /\ ticks' \in 0 .. Q_STD /\ ticks' >= 1
      /\ next_pid \in 2 .. MaxPid + 1 /\ next_pid \in Nat
      /\ reply \in [Pcb -> Replies]
      /\ system_time \in 0 .. TimeMod - 1
  BY TableFacts, QuantumAssumption DEF clk_isr_resume, IInv, TypeOK
<1> QED
  BY <1>1, StepQuiet DEF clk_isr_resume, tableVars, timeVars, Booted

\* The variables that neither _force_exit nor _schedule touches, after a step.
OthersOK ==
  /\ wakeup' \in [Pcb -> 0 .. TimeMod - 1]
  /\ exit_status' \in [Pcb -> Int]
  /\ UNCHANGED <<next_pid, current>>
  /\ ticks' \in 0 .. Q_STD
  /\ system_time' \in 0 .. TimeMod - 1
  /\ cpu' \in {"user", "_clk_isr", "_dispatch"}
  /\ SleepOrdered'
  /\ SliceLeft'

\* A handler that ends v, a process in hand, and leaves the rest in order.
LEMMA StepForceExit ==
  ASSUME IInv, NEW v \in ptable, v # InitPcb, pid[v] # PID_IDLE, state[v] # "Zombie",
         NEW st \in Int, NEW rdy \in [Prio -> Seq(Pcb)], NEW rep \in [Pcb -> Replies],
         force_exit(v, st, rdy, rep), OthersOK,
         PlacedBut(state, prio, rdy, sleeping', reading', {v}),
         cpu' # "_dispatch" <=> cpu # "_dispatch" /\ v # current
  PROVE  IInv'
<1>1. /\ state' \in [Pcb -> States]
      /\ pid' \in [Pcb -> Nat]
      /\ ppid' \in [Pcb -> Nat]
      /\ prio' \in [Pcb -> Prio]
      /\ reply' \in [Pcb -> Replies]
      /\ ptable' \in SUBSET Pcb
      /\ active_procs' \in Int
      /\ ready' \in [Prio -> Seq(Pcb)]
      /\ TreeInv'
      /\ \A p \in Pcb : state'[p] = "Running" <=> state[p] = "Running" /\ p # v
  BY TreeForceExit DEF OthersOK
<1>2. PlacedBut(state', prio', ready', sleeping', reading', {})
  BY QueuesForceExit
<1>3. OneRunning'
  BY <1>1 DEF OthersOK, IInv, Placement, OneRunning
<1>4. Placement'
  BY <1>2, <1>3, QueuesPlacement
<1>5. TypeOK'
  <2>1. next_pid' \in 2 .. MaxPid + 1 /\ current' \in Pcb
    BY DEF IInv, TypeOK, OthersOK
  <2>2. sleeping' \in Seq(Pcb) /\ reading' \in Seq(Pcb)
    BY <1>2 DEF PlacedBut, QueueTypes
  <2> QED
    BY <1>1, <2>1, <2>2 DEF TypeOK, OthersOK
<1> QED
  BY <1>1, <1>4, <1>5 DEF IInv, OthersOK

\* A handler that schedules p, a process in hand, and leaves the rest in order.
LEMMA StepSchedule ==
  ASSUME IInv, NEW v \in ptable, state[v] \notin {"Waiting", "Zombie"},
         NEW rep \in [Pcb -> Replies],
         schedule(v, rep), OthersOK,
         PlacedBut(state, prio, ready, sleeping', reading', {v}),
         cpu' # "_dispatch" <=> cpu # "_dispatch" /\ v # current
  PROVE  IInv'
<1>1. /\ state' \in [Pcb -> States]
      /\ pid' \in [Pcb -> Nat]
      /\ ppid' \in [Pcb -> Nat]
      /\ prio' \in [Pcb -> Prio]
      /\ reply' \in [Pcb -> Replies]
      /\ ptable' \in SUBSET Pcb
      /\ active_procs' \in Int
      /\ ready' \in [Prio -> Seq(Pcb)]
      /\ TreeInv'
      /\ \A p \in Pcb : state'[p] = "Running" <=> state[p] = "Running" /\ p # v
  BY TreeSchedule DEF OthersOK
<1>2. PlacedBut(state', prio', ready', sleeping', reading', {})
  BY QueuesSchedule
<1>3. OneRunning'
  BY <1>1 DEF OthersOK, IInv, Placement, OneRunning
<1>4. Placement'
  BY <1>2, <1>3, QueuesPlacement
<1>5. TypeOK'
  <2>1. next_pid' \in 2 .. MaxPid + 1 /\ current' \in Pcb
    BY DEF IInv, TypeOK, OthersOK
  <2>2. sleeping' \in Seq(Pcb) /\ reading' \in Seq(Pcb)
    BY <1>2 DEF PlacedBut, QueueTypes
  <2> QED
    BY <1>1, <2>1, <2>2 DEF TypeOK, OthersOK
<1> QED
  BY <1>1, <1>4, <1>5 DEF IInv, OthersOK

\* What the variables of OthersOK keep when a step leaves the sleep queue alone.
LEMMA OthersKept ==
  ASSUME IInv, UNCHANGED <<wakeup, sleeping, next_pid, current, system_time>>,
         exit_status' \in [Pcb -> Int],
         cpu' \in {"user", "_clk_isr", "_dispatch"},
         ticks' \in 0 .. Q_STD, cpu' # "_dispatch" => ticks' >= 1
  PROVE  OthersOK
BY DEF IInv, TypeOK, OthersOK, SleepOrdered, SliceLeft

\* The current process, taken in hand; an ordinary one is neither init nor idle.
LEMMA CurrentInHand ==
  ASSUME IInv, SystemCall
  PROVE  /\ current \in ptable /\ current \in Pcb /\ state[current] = "Running"
         /\ PlacedBut(state, prio, ready, sleeping, reading, {current})
         /\ Ordinary => current # InitPcb /\ pid[current] # PID_IDLE
<1>1. current \in ptable /\ state[current] = "Running" /\ current \in Pcb
  BY CurrentFacts DEF SystemCall
<1>2. PlacedBut(state, prio, ready, sleeping, reading, {} \cup {current})
  BY <1>1, PlacementQueues, TakeOffQueue DEF OffQueue
<1>3. {} \cup {current} = {current}
  OBVIOUS
<1>4. Ordinary => current # InitPcb /\ pid[current] # PID_IDLE
  BY DEF Ordinary, IsInit, IsIdle, IInv, TreeInv, Rooted
<1> QED
  BY <1>1, <1>2, <1>3, <1>4

\* exit() by an ordinary process.
LEMMA StepExit ==
  ASSUME IInv, NEW st \in ExitStatuses, sys_exit(st)
  PROVE  IInv'
<1>1. /\ SystemCall /\ Ordinary
      /\ force_exit(current, st, ready, reply)
      /\ exit_status' = [exit_status EXCEPT ![current] =
                           IF state'[current] = "Zombie" THEN st ELSE 0]
      /\ cpu' = "_dispatch"
      /\ UNCHANGED <<wakeup, sleeping, reading, current, ticks, system_time, next_pid>>
  BY DEF sys_exit
<1>2. st \in Int
  BY StatusAssumption
<1>3. OthersOK
  <2>1. exit_status' \in [Pcb -> Int]
    BY <1>1, <1>2 DEF IInv, TypeOK
  <2> QED
    BY <1>1, <2>1, OthersKept DEF IInv, TypeOK
<1>4. ready \in [Prio -> Seq(Pcb)] /\ reply \in [Pcb -> Replies]
  BY DEF IInv, TypeOK
<1> QED
  BY <1>1, <1>2, <1>3, <1>4, CurrentInHand, StepForceExit

\* sleep(0).
LEMMA StepYield ==
  ASSUME IInv, sys_sleep_yield
  PROVE  IInv'
<1> DEFINE rep == [reply EXCEPT ![current] = Answer(Unanswered)]
<1>1. /\ SystemCall /\ Ordinary
      /\ schedule(current, rep)
      /\ cpu' = "_dispatch"
      /\ UNCHANGED <<wakeup, exit_status, next_pid, sleeping, reading, current, ticks, system_time>>
  BY DEF sys_sleep_yield
<1>2. OthersOK
  BY <1>1, OthersKept DEF IInv, TypeOK
<1>3. rep \in [Pcb -> Replies]
  BY DEF IInv, TypeOK, Replies, Answer, Unanswered
<1> HIDE DEF rep
<1> QED
  BY <1>1, <1>2, <1>3, CurrentInHand, StepSchedule

\* The end of a slice.
LEMMA StepExpire ==
  ASSUME IInv, clk_isr_expire
  PROVE  IInv'
<1>1. /\ cpu = "_clk_isr" /\ cpu' = "_dispatch"
      /\ schedule(current, reply)
      /\ UNCHANGED <<wakeup, exit_status, next_pid, sleeping, reading, current, system_time>>
  BY DEF clk_isr_expire
<1>2. ticks' \in 0 .. Q_STD
  <2>1. ticks \in 0 .. Q_STD /\ ticks >= 1 /\ ticks' = ticks - 1
    BY <1>1 DEF clk_isr_expire, IInv, TypeOK, SliceLeft
  <2> QED
    BY <2>1, QuantumAssumption
<1>3. OthersOK
  BY <1>1, <1>2, OthersKept DEF IInv, TypeOK
<1>4. current \in ptable /\ state[current] = "Running" /\ current \in Pcb
  BY <1>1, CurrentFacts
<1>5. PlacedBut(state, prio, ready, sleeping, reading, {} \cup {current})
  BY <1>4, PlacementQueues, TakeOffQueue DEF OffQueue
<1>6. {} \cup {current} = {current} /\ reply \in [Pcb -> Replies]
  BY DEF IInv, TypeOK
<1> QED
  BY <1>1, <1>3, <1>4, <1>5, <1>6, StepSchedule

\* One wakeup of the clock handler.
LEMMA StepWake ==
  ASSUME IInv, clk_isr_wake
  PROVE  IInv'
<1> DEFINE h == Head(sleeping)
<1>1. /\ cpu = "_clk_isr" /\ cpu' = cpu
      /\ sleeping # <<>>
      /\ sleeping' = Tail(sleeping)
      /\ wakeup' = [wakeup EXCEPT ![h] = 0]
      /\ schedule(h, reply)
      /\ UNCHANGED <<exit_status, next_pid, reading, current, ticks, system_time>>
  BY DEF clk_isr_wake, HeadDue
<1>2. /\ h \in Pcb
      /\ In(sleeping, h)
      /\ PlacedBut(state, prio, ready, Tail(sleeping), reading, {h})
  BY <1>1, PlacementQueues, TakeSleeping
<1>3. state[h] \in {"Sleeping", "Killed"} /\ h \in ptable /\ h # current
  <2>1. state[h] \in {"Sleeping", "Killed"}
    BY <1>2 DEF IInv, Placement, StateMatchesQueue
  <2>2. state[current] = "Running"
    BY <1>1, CurrentFacts
  <2> QED
    BY <1>2, <2>1, <2>2, TableFacts
<1>4. SleepOrdered'
  <2>1. /\ sleeping \in Seq(Pcb) /\ NoDup(sleeping)
        /\ wakeup \in [Pcb -> 0 .. TimeMod - 1]
    BY DEF IInv, TypeOK, Placement, QueuesDisjoint
  <2>2. /\ Len(Tail(sleeping)) = Len(sleeping) - 1
        /\ \A i \in 1 .. Len(Tail(sleeping)) : Tail(sleeping)[i] = sleeping[i + 1]
        /\ Len(sleeping) \in Nat
    BY <1>1, <2>1, HeadTailProperties, LenProperties
  <2>3. ASSUME NEW i \in 1 .. Len(sleeping'), NEW j \in 1 .. Len(sleeping'), i < j
        PROVE  wakeup'[sleeping'[i]] <= wakeup'[sleeping'[j]]
    <3>1. /\ i + 1 \in 1 .. Len(sleeping) /\ j + 1 \in 1 .. Len(sleeping) /\ i + 1 < j + 1
          /\ sleeping'[i] = sleeping[i + 1] /\ sleeping'[j] = sleeping[j + 1]
      BY <1>1, <2>2, <2>3
    <3>2. \A x : In(Tail(sleeping), x) => x # h
      BY <1>1, <2>1, TailQueue
    <3>3. sleeping'[i] # h /\ sleeping'[j] # h
      BY <1>1, <3>2 DEF In
    <3>4. sleeping[i + 1] \in Pcb /\ sleeping[j + 1] \in Pcb
      BY <2>1, <3>1, ElementOfSeq
    <3>5. wakeup[sleeping[i + 1]] <= wakeup[sleeping[j + 1]]
      BY <3>1 DEF IInv, SleepOrdered
    <3> QED
      BY <1>1, <2>1, <3>1, <3>3, <3>4, <3>5
  <2> QED
    BY <2>3 DEF SleepOrdered
<1>5. OthersOK
  <2>1. 0 \in 0 .. TimeMod - 1
    BY TimeAssumption
  <2>2. wakeup' \in [Pcb -> 0 .. TimeMod - 1]
    BY <1>1, <2>1 DEF IInv, TypeOK
  <2> QED
    BY <1>1, <1>4, <2>2 DEF IInv, TypeOK, OthersOK, SliceLeft
<1>6. reply \in [Pcb -> Replies]
  BY DEF IInv, TypeOK
<1> HIDE DEF h
<1> QED
  BY <1>1, <1>2, <1>3, <1>5, <1>6, StepSchedule

\* A character for a blocked reader.
LEMMA StepRx ==
  ASSUME IInv, sio_isr_rx
  PROVE  IInv'
<1> DEFINE h == Head(reading)
           rep == [reply EXCEPT ![h] = Answer(1)]
<1>1. /\ cpu = "user" /\ cpu' = cpu
      /\ reading # <<>>
      /\ reading' = Tail(reading)
      /\ schedule(h, rep)
      /\ UNCHANGED <<wakeup, exit_status, next_pid, sleeping, current, ticks, system_time>>
  BY DEF sio_isr_rx
<1>2. /\ h \in Pcb
      /\ In(reading, h)
      /\ PlacedBut(state, prio, ready, sleeping, Tail(reading), {h})
  BY <1>1, PlacementQueues, TakeReading
<1>3. state[h] \in {"Blocked", "Killed"} /\ h \in ptable /\ h # current
  <2>1. state[h] \in {"Blocked", "Killed"}
    BY <1>2 DEF IInv, Placement, StateMatchesQueue
  <2>2. state[current] = "Running"
    BY <1>1, CurrentFacts
  <2> QED
    BY <1>2, <2>1, <2>2, TableFacts
<1>4. OthersOK
  BY <1>1, OthersKept DEF IInv, TypeOK, SliceLeft
<1>5. rep \in [Pcb -> Replies]
  BY <1>2 DEF IInv, TypeOK, Answer, Replies
<1> HIDE DEF h, rep
<1> QED
  BY <1>1, <1>2, <1>3, <1>4, <1>5, StepSchedule

\* _dispatch meets a process that was killed while it was ready.
LEMMA StepDispatchKilled ==
  ASSUME IInv, dispatch_killed
  PROVE  IInv'
<1>1. PICK r \in Prio :
        /\ ready[r] # <<>>
        /\ state[Head(ready[r])] = "Killed"
        /\ force_exit(Head(ready[r]), KilledStatus, [ready EXCEPT ![r] = Tail(@)], reply)
  BY DEF dispatch_killed, FirstLevel
<1> DEFINE h == Head(ready[r])
           rdy == [ready EXCEPT ![r] = Tail(@)]
<1>2. /\ cpu = "_dispatch" /\ cpu' = cpu
      /\ UNCHANGED <<wakeup, exit_status, next_pid, sleeping, reading, current, ticks, system_time>>
  BY DEF dispatch_killed
<1>3. h \in Pcb /\ PlacedBut(state, prio, rdy, sleeping, reading, {h})
  BY <1>1, PlacementQueues, TakeReady
<1>4. h \in ptable /\ h # InitPcb /\ pid[h] # PID_IDLE
  BY <1>1, <1>3, TableFacts, OrdinaryByState
<1>5. OthersOK
  BY <1>2, OthersKept DEF IInv, TypeOK
<1>6. state[h] = "Killed" /\ force_exit(h, KilledStatus, rdy, reply)
  BY <1>1
<1> HIDE DEF h, rdy
<1>7. /\ rdy \in [Prio -> Seq(Pcb)]
      /\ reply \in [Pcb -> Replies]
      /\ KilledStatus \in Int
  <2>1. rdy \in [Prio -> Seq(Pcb)]
    BY <1>3 DEF PlacedBut, QueueTypes
  <2> QED
    BY <2>1 DEF IInv, TypeOK, KilledStatus
<1> QED
  BY <1>2, <1>3, <1>4, <1>5, <1>6, <1>7, StepForceExit

\* The record Answer leaves for a caller is a reply.
LEMMA AnswerType ==
  ASSUME IInv
  PROVE  \A n \in Int : [reply EXCEPT ![current] = Answer(n)] \in [Pcb -> Replies]
BY DEF IInv, TypeOK, Answer, Replies

\* The target of a kill() that the programs make is neither init nor idle.
LEMMA KillTarget ==
  ASSUME IInv, KillSpares, NEW n \in 0 .. MaxPid, SystemCall, Ordinary, n \notin Protected,
         NEW v \in WithPid(Target(n))
  PROVE  v \in ptable /\ v # InitPcb /\ pid[v] # PID_IDLE
<1>1. v \in ptable /\ pid[v] = Target(n)
  BY DEF WithPid
<1>2. Target(n) # PID_INIT /\ Target(n) # PID_IDLE
  BY DEF Target, KillSpares, Ordinary, IsInit, IsIdle
<1> QED
  BY <1>1, <1>2 DEF IInv, TreeInv, Rooted

\* kill() of a process on a queue marks it there (_sys_kill).
LEMMA StepKillMark ==
  ASSUME IInv, KillSpares, NEW n \in 0 .. MaxPid, sys_kill(n), sys_kill_mark(n)
  PROVE  IInv'
<1>1. /\ SystemCall /\ Ordinary /\ n \notin Protected
      /\ UNCHANGED <<wakeup, exit_status, sleeping, reading, current, ticks, system_time>>
  BY DEF sys_kill
<1>2. PICK v \in WithPid(Target(n)) :
        /\ state[v] \in {"Ready", "Blocked", "Sleeping", "Killed"}
        /\ state' = [state EXCEPT ![v] = "Killed"]
        /\ reply' = [reply EXCEPT ![current] = Answer(E_SUCCESS), ![v] = Answer(0)]
        /\ UNCHANGED <<ppid, ready, cpu>>
        /\ UNCHANGED <<pid, prio, ptable, active_procs, next_pid>>
  BY DEF sys_kill_mark, Queued, tableVars
<1>3. v \in ptable /\ v # InitPcb /\ pid[v] # PID_IDLE /\ v \in Pcb
  BY <1>1, KillTarget, TableFacts
<1>4. /\ state' \in [Pcb -> States]
      /\ TreeInv'
      /\ \A p \in Pcb \ {v} : state'[p] = state[p]
  BY <1>2, <1>3, TreeStateChange
<1>5. PlacedBut(state', prio', ready', sleeping', reading', {})
  <2>1. PlacedBut([state EXCEPT ![v] = "Killed"], prio, ready, sleeping, reading, {})
    BY <1>2, <1>3, PlacementQueues, MarkKilled DEF IInv, TypeOK
  <2> QED
    BY <1>1, <1>2, <2>1
<1>6. OneRunning'
  <2>1. state[v] # "Running" /\ state'[v] # "Running"
    BY <1>2, <1>3 DEF IInv, TypeOK
  <2> QED
    BY <1>1, <1>2, <1>4, <2>1 DEF IInv, Placement, OneRunning
<1>7. Placement'
  BY <1>5, <1>6, QueuesPlacement
<1>8. TypeOK'
  <2>1. reply' \in [Pcb -> Replies]
    <3>1. Answer(0) \in Replies /\ [reply EXCEPT ![current] = Answer(E_SUCCESS)] \in [Pcb -> Replies]
      BY AnswerType DEF E_SUCCESS, Answer, Replies
    <3> QED
      BY <1>2, <3>1
  <2> QED
    BY <1>1, <1>2, <1>4, <2>1 DEF IInv, TypeOK
<1>9. SleepOrdered' /\ SliceLeft'
  BY <1>1, <1>2 DEF IInv, SleepOrdered, SliceLeft
<1> QED
  BY <1>4, <1>7, <1>8, <1>9 DEF IInv

\* kill() of the caller ends it (_sys_kill).
LEMMA StepKillSelf ==
  ASSUME IInv, NEW n \in 0 .. MaxPid, sys_kill(n), sys_kill_self(n)
  PROVE  IInv'
<1> DEFINE rep == [reply EXCEPT ![current] = Answer(Unanswered)]
<1>1. /\ SystemCall /\ Ordinary
      /\ UNCHANGED <<wakeup, exit_status, sleeping, reading, current, ticks, system_time>>
      /\ force_exit(current, KilledStatus, ready, rep)
      /\ cpu' = "_dispatch"
      /\ UNCHANGED next_pid
  BY DEF sys_kill, sys_kill_self
<1>2. OthersOK
  BY <1>1, OthersKept DEF IInv, TypeOK
<1>3. rep \in [Pcb -> Replies] /\ ready \in [Prio -> Seq(Pcb)] /\ KilledStatus \in Int
  BY DEF IInv, TypeOK, Replies, Answer, Unanswered, KilledStatus
<1> HIDE DEF rep
<1> QED
  BY <1>1, <1>2, <1>3, CurrentInHand, StepForceExit

\* kill() of a process blocked in wait() ends it at once (_sys_kill).
LEMMA StepKillWaiting ==
  ASSUME IInv, KillSpares, NEW n \in 0 .. MaxPid, sys_kill(n), sys_kill_waiting(n)
  PROVE  IInv'
<1> DEFINE rep == [reply EXCEPT ![current] = Answer(Unanswered)]
<1>1. /\ SystemCall /\ Ordinary /\ n \notin Protected
      /\ UNCHANGED <<wakeup, exit_status, sleeping, reading, current, ticks, system_time, cpu>>
      /\ UNCHANGED next_pid
  BY DEF sys_kill, sys_kill_waiting
<1>2. PICK v \in WithPid(Target(n)) :
        state[v] = "Waiting" /\ force_exit(v, KilledStatus, ready, rep)
  BY DEF sys_kill_waiting
<1>3. v \in ptable /\ v # InitPcb /\ pid[v] # PID_IDLE /\ v \in Pcb
  BY <1>1, KillTarget, TableFacts
<1>4. OthersOK
  BY <1>1, OthersKept DEF SystemCall, IInv, TypeOK, SliceLeft
<1>5. rep \in [Pcb -> Replies] /\ ready \in [Prio -> Seq(Pcb)] /\ KilledStatus \in Int
  BY DEF IInv, TypeOK, Replies, Answer, Unanswered, KilledStatus
<1> HIDE DEF rep
<1>6. PlacedBut(state, prio, ready, sleeping, reading, {} \cup {v})
  BY <1>2, <1>3, PlacementQueues, TakeOffQueue DEF OffQueue
<1>7. {} \cup {v} = {v}
  OBVIOUS
<1>8. v # current
  BY <1>1, <1>2, CurrentInHand
<1> QED
  BY <1>1, <1>2, <1>3, <1>4, <1>5, <1>6, <1>7, <1>8, StepForceExit

\* What the blocking calls have in common: the current process leaves the processor.
LEMMA StepBlock ==
  ASSUME IInv, SystemCall,
         NEW s \in States \ {"Running"}, state' = [state EXCEPT ![current] = s],
         TreeInv',
         PlacedBut(state', prio', ready', sleeping', reading', {}),
         SleepOrdered',
         wakeup' \in [Pcb -> 0 .. TimeMod - 1],
         reply' = [reply EXCEPT ![current] = Answer(Unanswered)],
         cpu' = "_dispatch",
         UNCHANGED <<ppid, exit_status, ready, current, ticks, system_time, tableVars>>
  PROVE  IInv'
<1>1. current \in Pcb /\ state[current] = "Running"
  BY CurrentInHand
<1>2. state' \in [Pcb -> States] /\ \A p \in Pcb : state'[p] # "Running"
  BY <1>1 DEF IInv, TypeOK, Placement, OneRunning
<1>3. Placement'
  <2>1. OneRunning'
    BY <1>2 DEF OneRunning
  <2> QED
    BY <2>1, QueuesPlacement
<1>4. TypeOK'
  <2>1. reply' \in [Pcb -> Replies]
    BY AnswerType DEF Unanswered
  <2>2. sleeping' \in Seq(Pcb) /\ reading' \in Seq(Pcb)
    BY DEF PlacedBut, QueueTypes
  <2> QED
    BY <1>2, <2>1, <2>2 DEF IInv, TypeOK, tableVars
<1>5. SliceLeft'
  BY DEF SliceLeft
<1> QED
  BY <1>3, <1>4, <1>5 DEF IInv

\* A read that blocks.
LEMMA StepRead ==
  ASSUME IInv, sys_read
  PROVE  IInv'
<1>1. /\ SystemCall /\ Ordinary
      /\ state' = [state EXCEPT ![current] = "Blocked"]
      /\ reading' = Append(reading, current)
      /\ reply' = [reply EXCEPT ![current] = Answer(Unanswered)]
      /\ cpu' = "_dispatch"
      /\ UNCHANGED <<ppid, exit_status, ready, current, ticks, system_time, tableVars>>
      /\ UNCHANGED <<pid, prio, ptable, active_procs, next_pid, wakeup, sleeping>>
  BY DEF sys_read, tableVars, timeVars
<1>2. /\ current \in ptable /\ current \in Pcb /\ state[current] = "Running"
      /\ PlacedBut(state, prio, ready, sleeping, reading, {current})
      /\ current # InitPcb /\ pid[current] # PID_IDLE
  BY <1>1, CurrentInHand
<1>3. TreeInv' /\ \A p \in Pcb \ {current} : state'[p] = state[p]
  BY <1>1, <1>2, TreeStateChange
<1>4. state'[current] = "Blocked" /\ prio \in [Pcb -> Prio]
  BY <1>1, <1>2 DEF IInv, TypeOK
<1>5. PlacedBut(state', prio', ready', sleeping', reading, {current})
  BY <1>1, <1>2, <1>3, <1>4, ChangeInHand
<1>6. PlacedBut(state', prio', ready', sleeping', Append(reading, current), {current} \ {current})
  BY <1>2, <1>4, <1>5, PutReading
<1>7. {current} \ {current} = {}
  OBVIOUS
<1>8. SleepOrdered' /\ wakeup' \in [Pcb -> 0 .. TimeMod - 1]
  BY <1>1 DEF IInv, TypeOK, SleepOrdered
<1>9. "Blocked" \in States \ {"Running"}
  BY DEF States, ReallyActive
<1> QED
  BY <1>1, <1>3, <1>6, <1>7, <1>8, <1>9, StepBlock

\* A sleep: the place found in the sleep queue keeps it in order.
LEMMA StepSleep ==
  ASSUME IInv, NEW t \in SleepTicks, sys_sleep(t)
  PROVE  IInv'
<1> DEFINE w == WakeupTime(t)
<1>1. PICK k \in 0 .. Len(sleeping) :
        SleepPlace(k, w) /\ sleeping' = InsertAt(sleeping, k, current)
  BY DEF sys_sleep
<1>2. /\ SystemCall /\ Ordinary
      /\ state' = [state EXCEPT ![current] = "Sleeping"]
      /\ wakeup' = [wakeup EXCEPT ![current] = w]
      /\ reply' = [reply EXCEPT ![current] = Answer(Unanswered)]
      /\ cpu' = "_dispatch"
      /\ UNCHANGED <<ppid, exit_status, ready, reading, current, ticks, system_time, tableVars>>
      /\ UNCHANGED <<pid, prio, ptable, active_procs, next_pid>>
  BY DEF sys_sleep, tableVars
<1>3. /\ current \in ptable /\ current \in Pcb /\ state[current] = "Running"
      /\ PlacedBut(state, prio, ready, sleeping, reading, {current})
      /\ current # InitPcb /\ pid[current] # PID_IDLE
  BY <1>2, CurrentInHand
<1>4. TreeInv' /\ \A p \in Pcb \ {current} : state'[p] = state[p]
  BY <1>2, <1>3, TreeStateChange
<1>5. state'[current] = "Sleeping" /\ prio \in [Pcb -> Prio]
  BY <1>2, <1>3 DEF IInv, TypeOK
<1>6. PlacedBut(state', prio', ready', sleeping, reading', {current})
  BY <1>2, <1>3, <1>4, <1>5, ChangeInHand
<1>7. PlacedBut(state', prio', ready', InsertAt(sleeping, k, current), reading', {current} \ {current})
  BY <1>3, <1>5, <1>6, PutSleeping
<1>8. {current} \ {current} = {}
  OBVIOUS
<1>9. w \in 0 .. TimeMod - 1
  BY TimeAssumption, SleepAssumption DEF IInv, TypeOK, WakeupTime
<1> HIDE DEF w
<1>10. wakeup' \in [Pcb -> 0 .. TimeMod - 1]
  BY <1>2, <1>9 DEF IInv, TypeOK
<1>11. SleepOrdered'
  <2>1. /\ sleeping \in Seq(Pcb)
        /\ wakeup \in [Pcb -> 0 .. TimeMod - 1]
        /\ ~In(sleeping, current)
        /\ Len(sleeping) \in Nat
    BY <1>3, LenProperties DEF IInv, TypeOK, PlacedBut, Off
  <2> DEFINE n == Len(sleeping)
             key(i) == wakeup[sleeping[i]]
  <2>2. /\ Len(sleeping') = n + 1
        /\ \A i \in 1 .. n + 1 :
             sleeping'[i] = IF i <= k THEN sleeping[i]
                            ELSE IF i = k + 1 THEN current ELSE sleeping[i - 1]
    <3>1. /\ Len(InsertAt(sleeping, k, current)) = Len(sleeping) + 1
          /\ \A i \in 1 .. Len(sleeping) + 1 :
               InsertAt(sleeping, k, current)[i] =
                 IF i <= k THEN sleeping[i]
                 ELSE IF i = k + 1 THEN current ELSE sleeping[i - 1]
      <4>1. current \in Pcb /\ sleeping \in Seq(Pcb)
        BY <1>3, <2>1
      <4> HIDE DEF n, key
      <4> QED
        BY <4>1, InsertQueue
    <3> QED
      BY <1>1, <3>1, Zenon
  <2>3. /\ \A i \in 1 .. n : key(i) \in Nat /\ wakeup'[sleeping[i]] = key(i)
        /\ \A i, j \in 1 .. n : i <= j => key(i) <= key(j)
    <3>1. \A i \in 1 .. n : sleeping[i] \in Pcb /\ sleeping[i] # current
      BY <2>1, ElementOfSeq DEF In
    <3>2. \A i, j \in 1 .. n : i < j => key(i) <= key(j)
      BY DEF IInv, SleepOrdered
    <3>3. \A i \in 1 .. n : key(i) \in Nat /\ wakeup'[sleeping[i]] = key(i)
      BY <1>2, <2>1, <3>1
    <3> QED
      BY <2>1, <3>2, <3>3
  <2>4. /\ \A i \in 1 .. k : key(i) <= w
        /\ k < n => key(k + 1) > w
        /\ k \in 0 .. n
    BY <1>1 DEF SleepPlace
  <2>5. wakeup'[current] = w
    BY <1>2, <1>3, <2>1
  <2> HIDE DEF key, n
  <2>6. n \in Nat
    BY <2>1 DEF n
  <2>7. ASSUME NEW i \in 1 .. n + 1
        PROVE  wakeup'[sleeping'[i]] =
                 IF i <= k THEN key(i) ELSE IF i = k + 1 THEN w ELSE key(i - 1)
    <3>1. i <= k => i \in 1 .. n
      BY <2>4, <2>6
    <3>2. i > k + 1 => i - 1 \in 1 .. n
      BY <2>4, <2>6
    <3>3. CASE i <= k
      BY <2>2, <2>3, <3>1, <3>3
    <3>4. CASE i = k + 1
      <4>1. ~(i <= k)
        BY <2>4, <2>6, <3>4
      <4> QED
        BY <2>2, <2>5, <3>4, <4>1
    <3>5. CASE i > k + 1
      <4>1. ~(i <= k) /\ i # k + 1 /\ i - 1 \in 1 .. n
        BY <2>4, <2>6, <3>2, <3>5
      <4> QED
        BY <2>2, <2>3, <4>1
    <3> QED
      BY <2>4, <2>6, <3>3, <3>4, <3>5
  <2>8. \A i \in 1 .. n : i > k => key(i) > w
    <3> TAKE i \in 1 .. n
    <3> HAVE i > k
    <3>1. k + 1 \in 1 .. n /\ k + 1 <= i /\ k < n
      BY <2>4, <2>6
    <3> QED
      BY <1>9, <2>3, <2>4, <3>1, TimeAssumption
  <2>9. ASSUME NEW i \in 1 .. n + 1, NEW j \in 1 .. n + 1, i < j
        PROVE  wakeup'[sleeping'[i]] <= wakeup'[sleeping'[j]]
    <3>1. CASE j <= k
      <4>1. i \in 1 .. n /\ j \in 1 .. n /\ i <= k
        BY <2>4, <2>6, <2>9, <3>1
      <4> QED
        BY <2>3, <2>7, <2>9, <3>1, <4>1
    <3>2. CASE j = k + 1
      <4>1. i \in 1 .. k /\ ~(j <= k)
        BY <2>4, <2>6, <2>9, <3>2
      <4> QED
        BY <2>4, <2>7, <3>2, <4>1
    <3>3. CASE j > k + 1
      <4>1. j - 1 \in 1 .. n /\ wakeup'[sleeping'[j]] = key(j - 1) /\ j - 1 > k
        BY <2>4, <2>6, <2>7, <3>3
      <4>2. CASE i <= k
        <5>1. i \in 1 .. n /\ i <= j - 1
          BY <2>4, <2>6, <2>9, <4>2
        <5> QED
          BY <2>3, <2>7, <4>1, <4>2, <5>1
      <4>3. CASE i = k + 1
        <5>1. wakeup'[sleeping'[i]] = w
          BY <2>4, <2>7, <4>3
        <5>2. key(j - 1) > w /\ key(j - 1) \in Nat /\ w \in Nat
          BY <1>9, <2>3, <2>8, <4>1, TimeAssumption
        <5> QED
          BY <4>1, <5>1, <5>2
      <4>4. CASE i > k + 1
        <5>1. i - 1 \in 1 .. n /\ wakeup'[sleeping'[i]] = key(i - 1) /\ i - 1 <= j - 1
          BY <2>4, <2>6, <2>7, <2>9, <4>4
        <5> QED
          BY <2>3, <4>1, <5>1
      <4> QED
        BY <2>4, <4>2, <4>3, <4>4
    <3> QED
      BY <2>4, <3>1, <3>2, <3>3
  <2> QED
    BY <2>2, <2>9 DEF SleepOrdered, n
<1>12. "Sleeping" \in States \ {"Running"}
  BY DEF States, ReallyActive
<1> QED
  BY <1>1, <1>2, <1>4, <1>7, <1>8, <1>10, <1>11, <1>12, StepBlock

\* A wait that blocks: the caller has children, and none of them has ended.
LEMMA StepWaitBlock ==
  ASSUME IInv, sys_wait_block
  PROVE  IInv'
<1>1. /\ SystemCall /\ ~IsIdle /\ Booted
      /\ Children(current) # {}
      /\ Zombies(current) = {}
      /\ state' = [state EXCEPT ![current] = "Waiting"]
      /\ reply' = [reply EXCEPT ![current] = Answer(Unanswered)]
      /\ cpu' = "_dispatch"
      /\ UNCHANGED <<ppid, exit_status, ready, reading, current, ticks, system_time, tableVars>>
      /\ UNCHANGED <<pid, prio, ptable, active_procs, next_pid, wakeup, sleeping, reading>>
  BY DEF sys_wait_block, tableVars, timeVars
<1>2. /\ current \in ptable /\ current \in Pcb /\ state[current] = "Running"
      /\ PlacedBut(state, prio, ready, sleeping, reading, {current})
  BY <1>1, CurrentInHand
<1>3. /\ state'[current] = "Waiting" /\ prio \in [Pcb -> Prio]
      /\ \A p \in Pcb \ {current} : state'[p] = state[p]
  BY <1>1, <1>2 DEF IInv, TypeOK
<1>4. TreeInv'
  <2>1. TableConsistent'
    <3>1. ptable' = {p \in Pcb : state'[p] # "Unused"}
      BY <1>1, <1>2, <1>3, TableFacts DEF IInv, TreeInv, TableConsistent
    <3> QED
      BY <1>1, <3>1 DEF IInv, TreeInv, TableConsistent
  <2>2. ParentAlive'
    <3> SUFFICES ASSUME NEW p \in ptable
                 PROVE  \E q \in ptable : pid[q] = ppid[p] /\ state'[q] # "Zombie"
      BY <1>1 DEF ParentAlive
    <3>1. PICK q \in ptable : pid[q] = ppid[p] /\ state[q] # "Zombie"
      BY DEF IInv, TreeInv, ParentAlive
    <3> QED
      BY <3>1, <1>3, TableFacts
  <2>3. Rooted'
    BY <1>1, <1>3, InitPcbAssumption DEF IInv, TreeInv, Rooted, Booted
  <2>4. IdleAlive'
    <3>1. pid[current] # PID_IDLE
      BY <1>1 DEF IsIdle
    <3> QED
      BY <1>1, <1>3, <3>1, TableFacts DEF IInv, TreeInv, IdleAlive
  <2>5. WaiterHasWork'
    <3>1. \A c \in ptable : state'[c] = "Zombie" <=> state[c] = "Zombie"
      BY <1>2, <1>3, TableFacts
    <3>2. \A p \in ptable : state'[p] = "Waiting" => p = current \/ state[p] = "Waiting"
      BY <1>3, TableFacts
    <3> QED
      BY <1>1, <3>1, <3>2 DEF IInv, TreeInv, WaiterHasWork, Children, Zombies
  <2> QED
    BY <2>1, <2>2, <2>3, <2>4, <2>5 DEF TreeInv
<1>5. PlacedBut(state', prio', ready', sleeping', reading', {current})
  BY <1>1, <1>2, <1>3, ChangeInHand, ZenonT(60)
<1>6. PlacedBut(state', prio', ready', sleeping', reading', {current} \ {current})
  BY <1>3, <1>5, LetGo DEF OffQueue
<1>7. {current} \ {current} = {}
  OBVIOUS
<1>8. SleepOrdered' /\ wakeup' \in [Pcb -> 0 .. TimeMod - 1]
  BY <1>1 DEF IInv, TypeOK, SleepOrdered
<1>9. "Waiting" \in States \ {"Running"}
  BY DEF States, ReallyActive
<1> QED
  BY <1>1, <1>4, <1>6, <1>7, <1>8, <1>9, StepBlock

\* A wait that collects a zombie: a zombie has no children, so nobody loses a parent.
LEMMA StepWaitCollect ==
  ASSUME IInv, NEW z \in ptable, sys_wait_collect(z)
  PROVE  IInv'
<1>1. /\ SystemCall
      /\ z \in ptable /\ ppid[z] = pid[current] /\ state[z] = "Zombie"
      /\ reply' = [reply EXCEPT ![current] = WaitAnswer(pid[z], exit_status[z]), ![z] = Answer(0)]
      /\ state' = [state EXCEPT ![z] = "Unused"]
      /\ ppid'  = [ppid  EXCEPT ![z] = 0]
      /\ exit_status' = [exit_status EXCEPT ![z] = 0]
      /\ ptable' = ptable \ {z}
      /\ active_procs' = active_procs - 1
      /\ pid'  = [pid  EXCEPT ![z] = 0]
      /\ prio' = [prio EXCEPT ![z] = 0]
      /\ UNCHANGED <<wakeup, next_pid, ready, sleeping, reading, current, ticks, system_time, cpu>>
  BY DEF sys_wait_collect, Zombies, Children, pcb_cleanup
<1>2. /\ z \in Pcb
      /\ state \in [Pcb -> States]
      /\ pid \in [Pcb -> Nat]
      /\ ppid \in [Pcb -> Nat]
      /\ prio \in [Pcb -> Prio]
      /\ reply \in [Pcb -> Replies]
      /\ exit_status \in [Pcb -> Int]
      /\ active_procs \in Int
      /\ 0 \in Prio
  <2>1. 0 \in Prio
    BY PrioAssumption DEF Prio
  <2> QED
    BY <2>1, TableFacts DEF IInv, TypeOK
<1>3. /\ state'[z] = "Unused"
      /\ \A p \in Pcb \ {z} : /\ state'[p] = state[p] /\ pid'[p] = pid[p]
                              /\ ppid'[p] = ppid[p] /\ prio'[p] = prio[p]
      /\ \A p \in ptable' : p \in ptable /\ p # z /\ p \in Pcb
      /\ state' \in [Pcb -> States]
      /\ current \in Pcb /\ state[current] = "Running" /\ current \in ptable
      /\ InitPcb \in ptable' /\ z # InitPcb /\ InitPcb \in Pcb
  <2>1. z # InitPcb
    BY <1>1 DEF IInv, TreeInv, Rooted
  <2>2. state' \in [Pcb -> States]
    BY <1>1, <1>2 DEF States
  <2> QED
    BY <1>1, <1>2, <2>1, <2>2, CurrentInHand, TableFacts, InitPcbAssumption DEF IInv, TreeInv, Rooted
<1>4. TableConsistent'
  <2>1. ptable' = {p \in Pcb : state'[p] # "Unused"}
    BY <1>1, <1>2, <1>3, TableFacts
  <2>2. active_procs' = Cardinality(ptable') /\ active_procs' <= N_PROCS
    <3>1. Cardinality(ptable') = Cardinality(ptable) - 1 /\ Cardinality(ptable) \in Nat
      BY <1>1, TableCount
    <3>2. active_procs = Cardinality(ptable) /\ active_procs <= N_PROCS
      BY DEF IInv, TreeInv, TableConsistent
    <3> QED
      BY <1>1, <3>1, <3>2, NProcsAssumption
  <2> QED
    BY <1>1, <1>3, <2>1, <2>2, TableFacts DEF TableConsistent
<1>5. ParentAlive'
  <2> SUFFICES ASSUME NEW p \in ptable'
               PROVE  \E q \in ptable' : pid'[q] = ppid'[p] /\ state'[q] # "Zombie"
    BY DEF ParentAlive
  <2>1. PICK q \in ptable : pid[q] = ppid[p] /\ state[q] # "Zombie"
    BY <1>3 DEF IInv, TreeInv, ParentAlive
  <2>2. q \in ptable'
    BY <1>1, <2>1
  <2> QED
    BY <2>1, <2>2, <1>3
<1>6. Rooted'
  BY <1>1, <1>3 DEF IInv, TreeInv, Rooted, Booted
<1>7. IdleAlive'
  <2> SUFFICES ASSUME Booted'
               PROVE  \E p \in ptable' : pid'[p] = PID_IDLE /\ state'[p] \in {"Ready", "Running"}
    BY DEF IdleAlive
  <2>1. PICK p \in ptable : pid[p] = PID_IDLE /\ state[p] \in {"Ready", "Running"}
    BY <1>1 DEF IInv, TreeInv, IdleAlive, Booted
  <2>2. p \in ptable'
    BY <1>1, <2>1
  <2> QED
    BY <2>1, <2>2, <1>3
<1>8. WaiterHasWork'
  <2> SUFFICES ASSUME NEW p \in ptable', state'[p] = "Waiting"
               PROVE  /\ Children(p)' # {}
                      /\ pid'[p] # PID_INIT => \A c \in Children(p)' : state'[c] # "Zombie"
    BY DEF WaiterHasWork
  <2>1. p \in ptable /\ state[p] = "Waiting" /\ pid'[p] = pid[p]
    BY <1>3
  <2>2. pid[p] # ppid[z]
    BY <1>1, <1>3, <2>1, TableFacts
  <2>3. PICK c \in ptable : ppid[c] = pid[p]
    BY <2>1 DEF IInv, TreeInv, WaiterHasWork, Children
  <2>4. c \in ptable' /\ ppid'[c] = pid'[p]
    BY <1>1, <1>3, <2>1, <2>2, <2>3
  <2>5. \A d \in ptable' : ppid'[d] = pid'[p] => ppid[d] = pid[p] /\ state'[d] = state[d] /\ d \in ptable
    BY <1>3, <2>1
  <2>6. pid[p] # PID_INIT => \A d \in Children(p) : state[d] # "Zombie"
    BY <2>1 DEF IInv, TreeInv, WaiterHasWork
  <2> QED
    BY <2>1, <2>4, <2>5, <2>6 DEF Children
<1>9. Placement'
  <2>1. PlacedBut(state, prio, ready, sleeping, reading, {} \cup {z})
    BY <1>1, <1>2, PlacementQueues, TakeOffQueue DEF OffQueue
  <2>2. {} \cup {z} = {z} /\ {z} \ {z} = {} /\ prio' \in [Pcb -> Prio]
    BY <1>1, <1>2
  <2>3. PlacedBut(state', prio', ready', sleeping', reading', {z})
    <3>1. PlacedBut(state, prio, ready, sleeping, reading, {z})
      BY <2>1, <2>2
    <3>2. PlacedBut(state', prio', ready, sleeping, reading, {z})
      BY <1>3, <2>2, <3>1, ChangeInHand
    <3> QED
      BY <1>1, <3>2
  <2>4. PlacedBut(state', prio', ready', sleeping', reading', {z} \ {z})
    BY <1>3, <2>3, LetGo DEF OffQueue
  <2>5. OneRunning'
    BY <1>1, <1>2, <1>3 DEF IInv, Placement, OneRunning
  <2> QED
    BY <2>2, <2>4, <2>5, QueuesPlacement
<1>10. TypeOK'
  <2>1. WaitAnswer(pid[z], exit_status[z]) \in Replies /\ Answer(0) \in Replies
    BY <1>2 DEF WaitAnswer, Answer, Replies
  <2>2. reply' \in [Pcb -> Replies]
    BY <1>1, <1>2, <1>3, <2>1
  <2>3. /\ pid' \in [Pcb -> Nat] /\ ppid' \in [Pcb -> Nat] /\ prio' \in [Pcb -> Prio]
        /\ exit_status' \in [Pcb -> Int] /\ active_procs' \in Int /\ ptable' \in SUBSET Pcb
    BY <1>1, <1>2, <1>3
  <2> QED
    BY <1>1, <1>3, <2>2, <2>3 DEF IInv, TypeOK
<1>11. SleepOrdered' /\ SliceLeft'
  BY <1>1 DEF IInv, SleepOrdered, SliceLeft
<1> QED
  BY <1>4, <1>5, <1>6, <1>7, <1>8, <1>9, <1>10, <1>11 DEF IInv, TreeInv

\* A spawn: the new process is ready, under a PID nobody has.
LEMMA StepSpawn ==
  ASSUME IInv, NEW r \in Prio, NEW c \in Pcb, sys_spawn(r, c)
  PROVE  IInv'
<1>1. /\ SystemCall /\ MaySpawn(r)
      /\ active_procs < N_PROCS
      /\ next_pid <= MaxPid
      /\ state[c] = "Unused"
      /\ pid'   = [pid   EXCEPT ![c] = next_pid]
      /\ ppid'  = [ppid  EXCEPT ![c] = pid[current]]
      /\ prio'  = [prio  EXCEPT ![c] = r]
      /\ state' = [state EXCEPT ![c] = "Ready"]
      /\ ready' = [ready EXCEPT ![r] = Append(@, c)]
      /\ ptable' = ptable \cup {c}
      /\ active_procs' = active_procs + 1
      /\ next_pid' = next_pid + 1
      /\ reply' = [reply EXCEPT ![current] = Answer(next_pid)]
      /\ UNCHANGED <<wakeup, exit_status, sleeping, reading, current, ticks, system_time, cpu>>
  BY DEF sys_spawn
<1>2. /\ state \in [Pcb -> States]
      /\ pid \in [Pcb -> Nat]
      /\ ppid \in [Pcb -> Nat]
      /\ prio \in [Pcb -> Prio]
      /\ active_procs \in Int
      /\ ptable \in SUBSET Pcb
      /\ next_pid \in 2 .. MaxPid + 1 /\ next_pid \in Nat
      /\ c \notin ptable
      /\ current \in ptable /\ current \in Pcb /\ state[current] = "Running"
      /\ pid[current] \in Nat /\ pid[current] < next_pid
      /\ "Ready" \in States
  BY <1>1, TableFacts, CurrentInHand DEF IInv, TypeOK, States, ReallyActive
<1>3. /\ state'[c] = "Ready" /\ pid'[c] = next_pid /\ ppid'[c] = pid[current] /\ prio'[c] = r
      /\ \A p \in Pcb \ {c} : /\ state'[p] = state[p] /\ pid'[p] = pid[p]
                              /\ ppid'[p] = ppid[p] /\ prio'[p] = prio[p]
      /\ \A p \in ptable : p \in Pcb \ {c} /\ p \in ptable'
      /\ c \in ptable'
      /\ state' \in [Pcb -> States] /\ prio' \in [Pcb -> Prio]
      /\ InitPcb \in ptable
  BY <1>1, <1>2 DEF IInv, TreeInv, Rooted
<1>4. TableConsistent'
  <2>1. ptable' = {p \in Pcb : state'[p] # "Unused"}
    BY <1>1, <1>2, <1>3, TableFacts
  <2>2. active_procs' = Cardinality(ptable') /\ active_procs' <= N_PROCS
    <3>1. Cardinality(ptable') = Cardinality(ptable) + 1 /\ Cardinality(ptable) \in Nat
      BY <1>1, <1>2, TableCount
    <3>2. active_procs = Cardinality(ptable)
      BY DEF IInv, TreeInv, TableConsistent
    <3> QED
      BY <1>1, <3>1, <3>2, NProcsAssumption
  <2>3. \A p \in ptable' : p = c \/ p \in ptable
    BY <1>1
  <2>4. \A p \in ptable' : pid'[p] >= 1 /\ pid'[p] < next_pid'
    <3> TAKE p \in ptable'
    <3>1. CASE p = c
      BY <3>1, <1>1, <1>2, <1>3
    <3>2. CASE p \in ptable
      <4>1. pid[p] \in Nat /\ pid[p] >= 1 /\ pid[p] < next_pid /\ pid'[p] = pid[p]
        BY <3>2, <1>3, TableFacts
      <4> QED
        BY <4>1, <1>1, <1>2
    <3> QED
      BY <3>1, <3>2, <2>3
  <2>5. \A p \in ptable : pid'[p] # pid'[c]
    BY <1>2, <1>3, TableFacts
  <2>6. \A p, q \in ptable' : pid'[p] = pid'[q] => p = q
    BY <1>3, <2>3, <2>5, TableFacts
  <2> QED
    BY <2>1, <2>2, <2>4, <2>6 DEF TableConsistent
<1>5. ParentAlive'
  <2> SUFFICES ASSUME NEW p \in ptable'
               PROVE  \E q \in ptable' : pid'[q] = ppid'[p] /\ state'[q] # "Zombie"
    BY DEF ParentAlive
  <2>1. CASE p = c
    BY <2>1, <1>2, <1>3
  <2>2. CASE p \in ptable
    <3>1. PICK q \in ptable : pid[q] = ppid[p] /\ state[q] # "Zombie"
      BY <2>2 DEF IInv, TreeInv, ParentAlive
    <3> QED
      BY <3>1, <2>2, <1>3
  <2> QED
    BY <2>1, <2>2, <1>1
<1>6. Rooted'
  <2>1. \A p \in ptable' \ {InitPcb} : ppid'[p] < pid'[p]
    BY <1>1, <1>2, <1>3 DEF IInv, TreeInv, Rooted
  <2>2. Booted => Booted'
    BY <1>1, <1>2 DEF Booted, PID_IDLE
  <2> QED
    BY <2>1, <2>2, <1>3 DEF IInv, TreeInv, Rooted
<1>7. IdleAlive'
  <2>1. CASE Booted
    <3>1. PICK p \in ptable : pid[p] = PID_IDLE /\ state[p] \in {"Ready", "Running"}
      BY <2>1 DEF IInv, TreeInv, IdleAlive
    <3> QED
      BY <3>1, <1>3 DEF IdleAlive
  <2>2. CASE ~Booted
    <3>1. next_pid = PID_IDLE
      BY <2>2, <1>2 DEF Booted, PID_IDLE
    <3> QED
      BY <3>1, <1>3 DEF IdleAlive
  <2> QED
    BY <2>1, <2>2
<1>8. WaiterHasWork'
  <2> SUFFICES ASSUME NEW p \in ptable', state'[p] = "Waiting"
               PROVE  /\ Children(p)' # {}
                      /\ pid'[p] # PID_INIT => \A d \in Children(p)' : state'[d] # "Zombie"
    BY DEF WaiterHasWork
  <2>1. p \in ptable /\ state[p] = "Waiting" /\ pid'[p] = pid[p]
    BY <1>1, <1>3
  <2>2. PICK d \in ptable : ppid[d] = pid[p]
    BY <2>1 DEF IInv, TreeInv, WaiterHasWork, Children
  <2>3. d \in ptable' /\ ppid'[d] = pid'[p]
    BY <1>3, <2>1, <2>2
  <2>4. \A x \in ptable' : x = c \/ (x \in ptable /\ ppid'[x] = ppid[x] /\ state'[x] = state[x])
    BY <1>1, <1>3
  <2>5. pid[p] # PID_INIT => \A x \in Children(p) : state[x] # "Zombie"
    BY <2>1 DEF IInv, TreeInv, WaiterHasWork
  <2> QED
    BY <2>1, <2>3, <2>4, <2>5, <1>3 DEF Children
<1>9. Placement'
  <2>1. PlacedBut(state, prio, ready, sleeping, reading, {} \cup {c})
    BY <1>1, PlacementQueues, TakeOffQueue DEF OffQueue
  <2>2. {} \cup {c} = {c} /\ {c} \ {c} = {}
    OBVIOUS
  <2>3. PlacedBut(state', prio', ready, sleeping, reading, {c})
    <3>1. PlacedBut(state, prio, ready, sleeping, reading, {c})
      BY <2>1, <2>2
    <3> QED
      BY <1>3, <3>1, ChangeInHand
  <2>4. PlacedBut(state', prio', [ready EXCEPT ![prio'[c]] = Append(@, c)], sleeping, reading, {c} \ {c})
    BY <1>3, <2>3, PutReady
  <2>5. PlacedBut(state', prio', ready', sleeping', reading', {})
    BY <1>1, <1>3, <2>2, <2>4
  <2>6. OneRunning'
    BY <1>1, <1>2, <1>3 DEF IInv, Placement, OneRunning
  <2> QED
    BY <2>5, <2>6, QueuesPlacement
<1>10. TypeOK'
  <2>1. reply' \in [Pcb -> Replies]
    BY <1>1, <1>2, AnswerType
  <2>2. ready' \in [Prio -> Seq(Pcb)]
    BY <1>1, AppendQueue DEF IInv, TypeOK
  <2>3. /\ pid' \in [Pcb -> Nat] /\ ppid' \in [Pcb -> Nat]
        /\ active_procs' \in Int /\ ptable' \in SUBSET Pcb
        /\ next_pid' \in 2 .. MaxPid + 1
    BY <1>1, <1>2, MaxPidAssumption
  <2> QED
    BY <1>1, <1>3, <2>1, <2>2, <2>3 DEF IInv, TypeOK
<1>11. SleepOrdered' /\ SliceLeft'
  BY <1>1 DEF IInv, SleepOrdered, SliceLeft
<1> QED
  BY <1>4, <1>5, <1>6, <1>7, <1>8, <1>9, <1>10, <1>11 DEF IInv, TreeInv

\* A running process changes its own priority, while it is on no queue.
LEMMA StepSetprio ==
  ASSUME IInv, NEW r \in Prio, sys_setprio(r)
  PROVE  IInv'
<1>1. /\ SystemCall
      /\ prio' = [prio EXCEPT ![current] = r]
      /\ reply' = [reply EXCEPT ![current] = Answer(E_SUCCESS)]
      /\ UNCHANGED <<state, pid, ppid, wakeup, exit_status, ptable, active_procs,
                     next_pid, ready, sleeping, reading, current, ticks, system_time, cpu>>
  BY DEF sys_setprio
<1>2. /\ current \in Pcb /\ state[current] = "Running"
      /\ PlacedBut(state, prio, ready, sleeping, reading, {current})
  BY <1>1, CurrentInHand
<1>3. prio' \in [Pcb -> Prio] /\ \A p \in Pcb \ {current} : prio'[p] = prio[p]
  BY <1>1 DEF IInv, TypeOK
<1>4. TreeInv'
  <2>1. next_pid' \in Nat /\ next_pid' >= next_pid
    BY <1>1, TableFacts
  <2> QED
    BY <1>1, <2>1, TreeUnmoved DEF Booted
<1>5. Placement'
  <2>1. PlacedBut(state', prio', ready', sleeping', reading', {current})
    BY <1>1, <1>2, <1>3, ChangeInHand
  <2>2. PlacedBut(state', prio', ready', sleeping', reading', {current} \ {current})
    BY <1>1, <1>2, <2>1, LetGo DEF OffQueue
  <2>3. {current} \ {current} = {}
    OBVIOUS
  <2>4. OneRunning'
    BY <1>1 DEF IInv, Placement, OneRunning
  <2> QED
    BY <2>2, <2>3, <2>4, QueuesPlacement
<1>6. TypeOK'
  <2>1. reply' \in [Pcb -> Replies]
    BY <1>1, AnswerType DEF E_SUCCESS
  <2> QED
    BY <1>1, <1>3, <2>1 DEF IInv, TypeOK
<1>7. SleepOrdered' /\ SliceLeft'
  BY <1>1 DEF IInv, SleepOrdered, SliceLeft
<1> QED
  BY <1>4, <1>5, <1>6, <1>7 DEF IInv

\* _dispatch finds a process to run.
LEMMA StepDispatchRun ==
  ASSUME IInv, dispatch_run
  PROVE  IInv'
<1>1. PICK r \in Prio :
        /\ ready[r] # <<>>
        /\ state[Head(ready[r])] = "Ready"
        /\ current' = Head(ready[r])
        /\ state' = [state EXCEPT ![Head(ready[r])] = "Running"]
        /\ ready' = [ready EXCEPT ![r] = Tail(@)]
  BY DEF dispatch_run, FirstLevel
<1> DEFINE h == Head(ready[r])
<1>2. /\ cpu = "_dispatch" /\ cpu' = "user" /\ ticks' = Q_STD
      /\ UNCHANGED <<ppid, exit_status, reply, reading, pid, prio, ptable, active_procs,
                     next_pid, wakeup, sleeping, system_time>>
  BY DEF dispatch_run, tableVars, timeVars
<1>3. /\ h \in Pcb
      /\ PlacedBut(state, prio, ready', sleeping, reading, {h})
  BY <1>1, PlacementQueues, TakeReady
<1>4. state[h] = "Ready" /\ current' = h /\ state' = [state EXCEPT ![h] = "Running"]
  BY <1>1
<1> HIDE DEF h
<1>5. h \in ptable /\ prio \in [Pcb -> Prio] /\ state \in [Pcb -> States]
  BY <1>3, <1>4, TableFacts DEF IInv, TypeOK
<1>6. /\ state' \in [Pcb -> States]
      /\ TreeInv'
      /\ \A p \in Pcb \ {h} : state'[p] = state[p]
  BY <1>2, <1>4, <1>5, TreeStateChange
<1>7. state'[h] = "Running"
  BY <1>3, <1>4, <1>5
<1>8. Placement'
  <2>1. PlacedBut(state', prio', ready', sleeping, reading, {h})
    BY <1>2, <1>3, <1>5, <1>6, ChangeInHand
  <2>2. PlacedBut(state', prio', ready', sleeping', reading', {h} \ {h})
    BY <1>2, <1>7, <2>1, LetGo DEF OffQueue
  <2>3. {h} \ {h} = {}
    OBVIOUS
  <2>4. OneRunning'
    BY <1>2, <1>3, <1>4, <1>6, <1>7 DEF IInv, Placement, OneRunning
  <2> QED
    BY <2>2, <2>3, <2>4, QueuesPlacement
<1>9. TypeOK' /\ SliceLeft'
  <2>1. ready' \in [Prio -> Seq(Pcb)]
    BY <1>3 DEF PlacedBut, QueueTypes
  <2>2. Q_STD \in 0 .. Q_STD /\ Q_STD >= 1
    BY QuantumAssumption
  <2> QED
    BY <1>2, <1>3, <1>4, <1>6, <2>1, <2>2 DEF IInv, TypeOK, SliceLeft
<1>10. SleepOrdered'
  BY <1>2 DEF IInv, SleepOrdered
<1> QED
  BY <1>6, <1>8, <1>9, <1>10 DEF IInv

-----------------------------------------------------------------------------
(***************************************************************************)
(* The theorems                                                            *)
(***************************************************************************)

\* Every handler, and every iteration of a kernel loop, keeps IInv.
LEMMA NextIInv ==
  ASSUME KillSpares, IInv, [Next]_vars
  PROVE  IInv'
<1>1. CASE UNCHANGED vars
  <2>1. TypeOK' /\ SleepOrdered' /\ SliceLeft'
    BY <1>1 DEF vars, IInv, TypeOK, SleepOrdered, SliceLeft
  <2>2. TableConsistent' /\ ParentAlive' /\ Rooted' /\ IdleAlive' /\ WaiterHasWork'
    BY <1>1 DEF vars, IInv, TreeInv, TableConsistent, ParentAlive, Rooted, Booted, IdleAlive,
                WaiterHasWork, Children
  <2>3. QueuesDisjoint' /\ StateMatchesQueue' /\ OneRunning'
    BY <1>1 DEF vars, IInv, Placement, QueuesDisjoint, StateMatchesQueue, OneRunning
  <2> QED
    BY <2>1, <2>2, <2>3 DEF IInv, TreeInv, Placement
<1>0. E_SUCCESS \in Int /\ E_NO_PROCS \in Int /\ E_NOT_FOUND \in Int
  BY DEF E_SUCCESS, E_NO_PROCS, E_NOT_FOUND
<1>2. CASE quick_call
  BY <1>0, <1>2, StepAnswer DEF quick_call
<1>3. ASSUME NEW st \in ExitStatuses, sys_exit(st) PROVE IInv'
  BY <1>3, StepExit
<1>4. CASE sys_read
  BY <1>4, StepRead
<1>5. ASSUME NEW r \in Prio, sys_setprio(r) PROVE IInv'
  BY <1>5, StepSetprio
<1>6. CASE sys_sleep_yield
  BY <1>6, StepYield
<1>7. ASSUME NEW t \in SleepTicks, sys_sleep(t) PROVE IInv'
  BY <1>7, StepSleep
<1>8. CASE sys_spawn_full
  BY <1>0, <1>8, StepAnswer DEF sys_spawn_full
<1>9. CASE sys_spawn_no_memory
  BY <1>9, StepNoMemory
<1>10. ASSUME NEW r \in Prio, NEW c \in Pcb, sys_spawn(r, c) PROVE IInv'
  BY <1>10, StepSpawn
<1>11. CASE sys_wait
  <2>1. CASE sys_wait_no_children
    BY <1>0, <2>1, StepAnswer DEF sys_wait_no_children
  <2> QED
    BY <1>11, <2>1, StepWaitBlock, StepWaitCollect DEF sys_wait
<1>12. ASSUME NEW n \in 0 .. MaxPid, sys_kill(n) PROVE IInv'
  <2>1. CASE sys_kill_not_found(n)
    BY <1>0, <1>12, <2>1, StepAnswer DEF sys_kill, sys_kill_not_found
  <2>2. \/ sys_kill_not_found(n) \/ sys_kill_mark(n)
        \/ sys_kill_self(n) \/ sys_kill_waiting(n)
    BY <1>12 DEF sys_kill
  <2> QED
    BY <1>12, <2>1, <2>2, StepKillMark, StepKillSelf, StepKillWaiting
<1>13. CASE clk_isr_tick
  BY <1>13, StepTick
<1>14. CASE Clock
  BY <1>14, StepWake, StepResume, StepExpire DEF Clock
<1>15. CASE sio_isr_rx
  BY <1>15, StepRx
<1>16. CASE Dispatch
  BY <1>16, StepDispatchRun, StepDispatchKilled DEF Dispatch
<1> QED
  BY <1>1, <1>2, <1>3, <1>4, <1>5, <1>6, <1>7, <1>8, <1>9, <1>10, <1>11, <1>12,
     <1>13, <1>14, <1>15, <1>16 DEF Next

\* Process management (process.c, scheduler.c, clock.c, syscalls.c) keeps IInv.
THEOREM Invariance ==
  ASSUME KillSpares
  PROVE  Spec => []IInv
BY InitIInv, NextIInv, PTL DEF Spec

\* Every variable of process management keeps its type.
THEOREM TypeCorrect ==
  ASSUME KillSpares
  PROVE  Spec => []TypeOK
<1>1. IInv => TypeOK
  BY DEF IInv
<1> QED
  BY <1>1, Invariance, PTL

\* Each PCB is always in the one place its state says (queues of scheduler.c,
\* clock.c and sio.c).
THEOREM PlacementHolds ==
  ASSUME KillSpares
  PROVE  Spec => []Placement
<1>1. IInv => Placement
  BY DEF IInv
<1> QED
  BY <1>1, Invariance, PTL

\* _dispatch (scheduler.c:122) always finds a process.
THEOREM DispatchAlwaysFinds ==
  ASSUME KillSpares
  PROVE  Spec => []DispatchFinds
<1>1. IInv => DispatchFinds
  <2> SUFFICES ASSUME IInv
               PROVE  DispatchFinds
    OBVIOUS
  <2>1. Booted => \E p \in ptable : pid[p] = PID_IDLE /\ state[p] \in {"Ready", "Running"}
    BY DEF IInv, TreeInv, IdleAlive
  <2>2. ASSUME cpu = "_dispatch"
        PROVE  \E p \in Pcb : state[p] = "Ready"
    <3>1. \A p \in Pcb : state[p] # "Running"
      BY <2>2 DEF IInv, Placement, OneRunning
    <3>2. CASE Booted
      BY <2>1, <3>1, <3>2, TableFacts
    <3>3. CASE ~Booted
      BY <3>1, <3>3, TableFacts DEF IInv, TreeInv, Rooted
    <3> QED
      BY <3>2, <3>3
  <2>3. ASSUME NEW p \in Pcb, state[p] = "Ready"
        PROVE  \E r \in Prio : ready[r] # <<>>
    <3>1. prio[p] \in Prio /\ In(ready[prio[p]], p)
      BY <2>3 DEF IInv, TypeOK, Placement, StateMatchesQueue
    <3>2. ready[prio[p]] # <<>>
      BY <3>1 DEF In
    <3> QED
      BY <3>1, <3>2
  <2> QED
    BY <2>1, <2>2, <2>3 DEF DispatchFinds
<1> QED
  BY <1>1, Invariance, PTL

\* The process table, its count and the PCBs agree (_sys_spawn, _pcb_cleanup).
THEOREM TableHolds ==
  ASSUME KillSpares
  PROVE  Spec => []TableConsistent
<1>1. IInv => TableConsistent
  BY DEF IInv, TreeInv
<1> QED
  BY <1>1, Invariance, PTL

\* Nobody is left with a dead parent (_force_exit).
THEOREM ParentAlwaysAlive ==
  ASSUME KillSpares
  PROVE  Spec => []ParentAlive
<1>1. IInv => ParentAlive
  BY DEF IInv, TreeInv
<1> QED
  BY <1>1, Invariance, PTL

\* Whoever waits has something to wait for (_sys_wait, _force_exit).
THEOREM WaitersHaveWork ==
  ASSUME KillSpares
  PROVE  Spec => []WaiterHasWork
<1>1. IInv => WaiterHasWork
  BY DEF IInv, TreeInv
<1> QED
  BY <1>1, Invariance, PTL

\* The sleep queue stays in order (_sys_sleep, _clk_isr).
THEOREM SleepQueueOrdered ==
  ASSUME KillSpares
  PROVE  Spec => []SleepOrdered
<1>1. IInv => SleepOrdered
  BY DEF IInv
<1> QED
  BY <1>1, Invariance, PTL

-----------------------------------------------------------------------------
(***************************************************************************)
(* Action properties.  A PCB leaves the table in two ways only.            *)
(***************************************************************************)

\* _force_exit: v goes, if its parent is waiting for it, or becomes a zombie.
LEMMA ForceExitReports ==
  ASSUME IInv, NEW v \in ptable, v # InitPcb,
         NEW st, NEW rdy, NEW rep \in [Pcb -> Replies],
         force_exit(v, st, rdy, rep)
  PROVE  /\ \A c \in ptable \ ptable' :
              /\ c = v
              /\ \E p \in ptable \cap ptable' :
                   /\ pid[p] = ppid[c]
                   /\ state[p] = "Waiting"
                   /\ reply'[p] = WaitAnswer(pid[v], st)
         /\ \A p \in Pcb : state[p] = "Killed" => state'[p] \in {"Killed", "Zombie", "Unused"}
         /\ \A p \in Pcb : p # v /\ state[p] # "Waiting" => reply'[p] = rep[p]
         /\ \A p \in Pcb : p # v => state'[p] = state[p] \/ state[p] = "Waiting"
         /\ state'[v] \in {"Zombie", "Unused"}
         /\ state'[v] = "Zombie" <=> v \in ptable'
<1> DEFINE par == pcb_find_pid(ppid[v])
<1>1. /\ par \in ptable /\ par \in Pcb
      /\ pid[par] = ppid[v]
      /\ par # v
      /\ v \in Pcb
      /\ state \in [Pcb -> States]
  BY ParentFound, TableFacts DEF IInv, TypeOK
<1> HIDE DEF par
<1>2. CASE state[par] # "Waiting"
  <2>1. /\ ptable' = ptable /\ state' = [state EXCEPT ![v] = "Zombie"]
        /\ reply' = [rep EXCEPT ![v] = Answer(0)]
    BY <1>2 DEF force_exit, par
  <2> QED
    BY <1>1, <2>1
<1>3. CASE state[par] = "Waiting"
  <2>1. /\ ptable' = ptable \ {v}
        /\ reply' = [rep EXCEPT ![par] = WaitAnswer(pid[v], st), ![v] = Answer(0)]
        /\ state' = [state EXCEPT ![par] = "Ready", ![v] = "Unused"]
    BY <1>3 DEF force_exit, pcb_cleanup, par
  <2>2. /\ par \in ptable \cap ptable'
        /\ reply'[par] = WaitAnswer(pid[v], st)
    BY <1>1, <2>1
  <2>3. \A p \in Pcb : state[p] = "Killed" => state'[p] \in {"Killed", "Zombie", "Unused"}
    BY <1>1, <1>3, <2>1
  <2> QED
    BY <1>1, <1>3, <2>1, <2>2, <2>3
<1> QED
  BY <1>2, <1>3

\* What one step may do to the PCBs that are in the table, marked or dead, and to
\* the answers of those that are ready.
StepReports ==
  /\ \A c \in ptable \ ptable' :
       \E p \in ptable \cap ptable' :
         /\ pid[p] = ppid[c]
         /\ state[p] \in {"Waiting", "Running"}
         /\ reply'[p].ret = pid[c]
  /\ \A p \in Pcb : state[p] = "Killed" => state'[p] \in {"Killed", "Zombie", "Unused"}
  /\ \A c \in ptable : state[c] = "Zombie" => Reported(c, exit_status[c])
  /\ \A c \in ptable \ ptable' :
       \/ state[c] = "Zombie"
       \/ \E st \in ExitStatuses : sys_exit(st)
       \/ Reported(c, KilledStatus)
  /\ \A p \in Pcb :
       state[p] = "Ready" /\ state'[p] \in {"Ready", "Running"} => reply'[p] = reply[p]

\* A zombie that stays one, with its status, is as reported as it was.
ZombiesKept == \A c \in ptable : state[c] = "Zombie" => exit_status'[c] = exit_status[c]

\* Nobody who is ready has rep change its answer.
ReadySpared(rep) == \A p \in Pcb : state[p] = "Ready" => rep[p] = reply[p]

\* A handler that ends v reports as the action properties ask.
LEMMA ForceExitStepReports ==
  ASSUME IInv, NEW v \in ptable, v # InitPcb,
         NEW st, NEW rdy, NEW rep \in [Pcb -> Replies],
         force_exit(v, st, rdy, rep), ZombiesKept, ReadySpared(rep),
         state[v] \in {"Running", "Killed", "Waiting"},
         st = KilledStatus \/ \E s \in ExitStatuses : sys_exit(s)
  PROVE  StepReports /\ (state'[v] # "Zombie" => Reported(v, st))
<1>1. \A p \in Pcb : state[p] = "Killed" => state'[p] \in {"Killed", "Zombie", "Unused"}
  BY ForceExitReports
<1>2. ASSUME NEW c \in ptable \ ptable'
      PROVE  /\ c = v
             /\ \E p \in ptable \cap ptable' :
                  /\ pid[p] = ppid[c]
                  /\ state[p] \in {"Waiting", "Running"}
                  /\ reply'[p].ret = pid[c] /\ reply'[p].status = st
  <2>1. PICK p \in ptable \cap ptable' :
          /\ c = v
          /\ pid[p] = ppid[c]
          /\ state[p] = "Waiting"
          /\ reply'[p] = WaitAnswer(pid[v], st)
    BY <1>2, ForceExitReports
  <2>2. reply'[p].ret = pid[c] /\ reply'[p].status = st
    BY <2>1 DEF WaitAnswer
  <2> QED
    BY <2>1, <2>2
<1>3. /\ state'[v] \in {"Zombie", "Unused"}
      /\ state'[v] = "Zombie" <=> v \in ptable'
      /\ \A p \in Pcb : p # v /\ state[p] # "Waiting" => reply'[p] = rep[p]
      /\ \A p \in Pcb : p # v => state'[p] = state[p] \/ state[p] = "Waiting"
  BY ForceExitReports
<1>4. ptable \subseteq Pcb
  BY DEF IInv, TypeOK
<1>5. state'[v] # "Zombie" => Reported(v, st)
  BY <1>2, <1>3 DEF Reported
<1>6. \A c \in ptable : state[c] = "Zombie" => Reported(c, exit_status[c])
  <2>1. ASSUME NEW c \in ptable, state[c] = "Zombie" PROVE Reported(c, exit_status[c])
    <3>1. c # v /\ state'[c] = "Zombie"
      BY <1>3, <1>4, <2>1
    <3> QED
      BY <2>1, <3>1 DEF Reported, ZombiesKept
  <2> QED
    BY <2>1
<1>7. ASSUME NEW c \in ptable \ ptable'
      PROVE  \/ state[c] = "Zombie"
             \/ \E s \in ExitStatuses : sys_exit(s)
             \/ Reported(c, KilledStatus)
  <2>1. CASE st = KilledStatus
    <3>1. c = v
      BY <1>2
    <3>2. state'[v] # "Zombie"
      BY <1>3, <3>1
    <3> QED
      BY <1>5, <2>1, <3>1, <3>2
  <2>2. CASE \E s \in ExitStatuses : sys_exit(s)
    BY <2>2
  <2> QED
    BY <2>1, <2>2
<1>8. ASSUME NEW p \in Pcb, state[p] = "Ready" PROVE reply'[p] = reply[p]
  BY <1>3, <1>8 DEF ReadySpared
<1>9. \A c \in ptable \ ptable' :
        \E p \in ptable \cap ptable' :
          /\ pid[p] = ppid[c]
          /\ state[p] \in {"Waiting", "Running"}
          /\ reply'[p].ret = pid[c]
  BY <1>2
<1> QED
  BY <1>1, <1>5, <1>6, <1>7, <1>8, <1>9 DEF StepReports

\* A handler that schedules v, or ends it if it was marked, does too.
LEMMA ScheduleStepReports ==
  ASSUME IInv, NEW v \in ptable, NEW rep \in [Pcb -> Replies], schedule(v, rep),
         ZombiesKept, ReadySpared(rep), state[v] # "Zombie"
  PROVE  StepReports
<1>1. CASE state[v] = "Killed"
  BY <1>1, OrdinaryByState, ForceExitStepReports DEF schedule
<1>2. CASE state[v] # "Killed"
  <2>1. /\ state' = [state EXCEPT ![v] = "Ready"]
        /\ ptable' = ptable
        /\ reply' = rep
    BY <1>2 DEF schedule
  <2>2. state \in [Pcb -> States] /\ ptable \subseteq Pcb
    BY DEF IInv, TypeOK
  <2>3. \A c \in Pcb : c # v => state'[c] = state[c]
    BY <2>1, <2>2
  <2>4. \A c \in ptable : state[c] = "Zombie" => Reported(c, exit_status[c])
    BY <2>2, <2>3 DEF Reported, ZombiesKept
  <2>5. \A p \in Pcb : state[p] = "Killed" => state'[p] \in {"Killed", "Zombie", "Unused"}
    BY <1>2, <2>3
  <2> QED
    BY <2>1, <2>4, <2>5 DEF StepReports, ReadySpared
<1> QED
  BY <1>1, <1>2

\* A step that frees nobody and at most changes the state of v.
LEMMA ChangeStepReports ==
  ASSUME IInv, ptable \subseteq ptable', NEW v, NEW s, state' = [state EXCEPT ![v] = s],
         state[v] = "Killed" => s \in {"Killed", "Zombie", "Unused"},
         state[v] # "Zombie", ZombiesKept,
         \A p \in Pcb :
           state[p] = "Ready" /\ state'[p] \in {"Ready", "Running"} => reply'[p] = reply[p]
  PROVE  StepReports
<1>1. \A p \in Pcb : state'[p] = state[p] \/ (p = v /\ state'[p] = s)
  BY DEF IInv, TypeOK
<1>2. \A c \in ptable : state[c] = "Zombie" => Reported(c, exit_status[c])
  BY <1>1 DEF Reported, ZombiesKept, IInv, TypeOK
<1> QED
  BY <1>1, <1>2 DEF StepReports

\* A call that changes the answer of the current process, which runs, spares the rest.
LEMMA CallerAlone ==
  ASSUME IInv, SystemCall, NEW a, reply' = [reply EXCEPT ![current] = a]
  PROVE  /\ ReadySpared(reply')
         /\ \A p \in Pcb : state[p] = "Ready" => reply'[p] = reply[p]
BY CurrentInHand DEF ReadySpared, IInv, TypeOK

\* exit() leaves its argument with the zombie or the parent.
LEMMA ExitReports ==
  ASSUME IInv, NEW st \in ExitStatuses, sys_exit(st)
  PROVE  StepReports /\ Reported(current, st)
<1>1. reply \in [Pcb -> Replies] /\ exit_status \in [Pcb -> Int] /\ ptable \subseteq Pcb
  BY DEF IInv, TypeOK
<1>2. /\ SystemCall /\ Ordinary
      /\ force_exit(current, st, ready, reply)
      /\ exit_status' = [exit_status EXCEPT ![current] =
                           IF state'[current] = "Zombie" THEN st ELSE 0]
  BY DEF sys_exit
<1>3. current \in ptable /\ current # InitPcb /\ state[current] = "Running"
  BY <1>2, CurrentInHand
<1>4. ZombiesKept /\ ReadySpared(reply)
  BY <1>1, <1>2, <1>3 DEF ZombiesKept, ReadySpared
<1>5. StepReports /\ (state'[current] # "Zombie" => Reported(current, st))
  BY <1>1, <1>2, <1>3, <1>4, ForceExitStepReports
<1>6. state'[current] = "Zombie" => Reported(current, st)
  BY <1>1, <1>2, <1>3 DEF Reported
<1> QED
  BY <1>5, <1>6

\* Every step reports as the action properties ask.
LEMMA NextReports ==
  ASSUME KillSpares, IInv, Next
  PROVE  StepReports \/ UNCHANGED vars
<1>0. reply \in [Pcb -> Replies]
  BY DEF IInv, TypeOK
<1>1. ASSUME UNCHANGED <<state, ptable>>, UNCHANGED exit_status,
             \A p \in Pcb : state[p] = "Ready" => reply'[p] = reply[p]
      PROVE  StepReports
  <2>1. \A c \in ptable : state[c] = "Zombie" => Reported(c, exit_status[c])
    BY <1>1 DEF Reported
  <2> QED
    BY <1>1, <2>1 DEF StepReports, IInv, TypeOK
<1>2. CASE quick_call
  BY <1>1, <1>2, CallerAlone DEF quick_call, tableVars
<1>3. ASSUME NEW st \in ExitStatuses, sys_exit(st) PROVE StepReports
  BY <1>3, ExitReports
<1>4. CASE sys_read
  <2>1. ZombiesKept
    BY <1>4 DEF ZombiesKept, sys_read
  <2> QED
    BY <1>4, <2>1, CurrentInHand, CallerAlone, ChangeStepReports DEF sys_read, tableVars
<1>5. ASSUME NEW r \in Prio, sys_setprio(r) PROVE StepReports
  BY <1>1, <1>5, CallerAlone DEF sys_setprio
<1>6. CASE sys_sleep_yield
  <2> DEFINE rep == [reply EXCEPT ![current] = Answer(Unanswered)]
  <2>1. rep \in [Pcb -> Replies] /\ SystemCall /\ schedule(current, rep)
    BY <1>6, AnswerType DEF sys_sleep_yield, Unanswered
  <2>2. ZombiesKept
    BY <1>6 DEF ZombiesKept, sys_sleep_yield
  <2>3. ReadySpared(rep)
    BY <1>0, <2>1, CurrentInHand DEF ReadySpared
  <2> QED
    BY <2>1, <2>2, <2>3, CurrentInHand, ScheduleStepReports
<1>7. ASSUME NEW t \in SleepTicks, sys_sleep(t) PROVE StepReports
  <2>1. ZombiesKept
    BY <1>7 DEF ZombiesKept, sys_sleep
  <2> QED
    BY <1>7, <2>1, CurrentInHand, CallerAlone, ChangeStepReports DEF sys_sleep, tableVars
<1>8. CASE sys_spawn_full
  BY <1>1, <1>8, CallerAlone DEF sys_spawn_full, tableVars
<1>9. CASE sys_spawn_no_memory
  BY <1>1, <1>9, CallerAlone DEF sys_spawn_no_memory
<1>10. ASSUME NEW r \in Prio, NEW c \in Pcb, sys_spawn(r, c) PROVE StepReports
  <2>1. ZombiesKept
    BY <1>10 DEF ZombiesKept, sys_spawn
  <2> QED
    BY <1>10, <2>1, CallerAlone, ChangeStepReports DEF sys_spawn
<1>11. CASE sys_wait
  <2>1. CASE sys_wait_no_children
    BY <1>1, <2>1, CallerAlone DEF sys_wait_no_children, tableVars
  <2>2. CASE sys_wait_block
    <3>1. ZombiesKept
      BY <2>2 DEF ZombiesKept, sys_wait_block
    <3> QED
      BY <2>2, <3>1, CurrentInHand, CallerAlone, ChangeStepReports DEF sys_wait_block, tableVars
  <2>3. ASSUME NEW z \in ptable, sys_wait_collect(z) PROVE StepReports
    <3>1. /\ SystemCall
          /\ ppid[z] = pid[current] /\ state[z] = "Zombie"
          /\ reply' = [reply EXCEPT ![current] = WaitAnswer(pid[z], exit_status[z]), ![z] = Answer(0)]
          /\ state' = [state EXCEPT ![z] = "Unused"]
          /\ ptable' = ptable \ {z}
      BY <2>3 DEF sys_wait_collect, Zombies, Children, pcb_cleanup
    <3>2. current \in ptable /\ current \in Pcb /\ state[current] = "Running" /\ z \in Pcb
      BY <3>1, CurrentInHand, TableFacts
    <3>3. reply'[current] = WaitAnswer(pid[z], exit_status[z]) /\ current # z
      BY <1>0, <3>1, <3>2
    <3>4. /\ exit_status' = [exit_status EXCEPT ![z] = 0]
          /\ state \in [Pcb -> States] /\ exit_status \in [Pcb -> Int] /\ ptable \subseteq Pcb
      BY <2>3 DEF sys_wait_collect, IInv, TypeOK
    <3>5. current \in ptable \cap ptable' /\ state'[z] = "Unused"
      BY <3>1, <3>2, <3>3, <3>4
    <3>6. /\ reply'[current].ret = pid[z]
          /\ reply'[current].status = exit_status[z]
      BY <3>3 DEF WaitAnswer
    <3>7. \A c \in ptable : state[c] = "Zombie" => Reported(c, exit_status[c])
      <4>1. Reported(z, exit_status[z])
        BY <3>1, <3>5, <3>6 DEF Reported
      <4>2. ASSUME NEW c \in ptable, c # z, state[c] = "Zombie"
            PROVE  Reported(c, exit_status[c])
        <5>1. state'[c] = "Zombie" /\ exit_status'[c] = exit_status[c]
          BY <3>1, <3>4, <4>2
        <5> QED
          BY <5>1 DEF Reported
      <4> QED
        BY <4>1, <4>2
    <3>8. \A p \in Pcb : state[p] = "Ready" => reply'[p] = reply[p]
      BY <1>0, <3>1, <3>2
    <3>9. \A p \in Pcb : state[p] = "Killed" => state'[p] = "Killed"
      BY <3>1, <3>4
    <3>10. \A c \in ptable \ ptable' : c = z
      BY <3>1
    <3> QED
      BY <3>1, <3>2, <3>5, <3>6, <3>7, <3>8, <3>9, <3>10 DEF StepReports
  <2> QED
    BY <1>11, <2>1, <2>2, <2>3 DEF sys_wait
<1>12. ASSUME NEW n \in 0 .. MaxPid, sys_kill(n) PROVE StepReports
  <2>0. /\ SystemCall /\ UNCHANGED exit_status
        /\ ZombiesKept
    BY <1>12 DEF sys_kill, ZombiesKept
  <2>1. CASE sys_kill_not_found(n)
    BY <1>1, <2>0, <2>1, CallerAlone DEF sys_kill_not_found, tableVars
  <2>2. CASE sys_kill_mark(n)
    <3>1. PICK v \in WithPid(Target(n)) :
            /\ state[v] \in Queued \cup {"Killed"}
            /\ state' = [state EXCEPT ![v] = "Killed"]
            /\ reply' = [reply EXCEPT ![current] = Answer(E_SUCCESS), ![v] = Answer(0)]
            /\ ptable' = ptable
      BY <2>2 DEF sys_kill_mark, tableVars
    <3>2. \A p \in Pcb :
            state[p] = "Ready" /\ state'[p] \in {"Ready", "Running"} => reply'[p] = reply[p]
      BY <1>0, <2>0, <3>1, CurrentInHand DEF IInv, TypeOK
    <3> QED
      BY <2>0, <3>1, <3>2, ChangeStepReports DEF Queued
  <2>3. CASE sys_kill_self(n)
    <3>1. /\ SystemCall /\ Ordinary
          /\ force_exit(current, KilledStatus, ready, [reply EXCEPT ![current] = Answer(Unanswered)])
      BY <1>12, <2>3 DEF sys_kill, sys_kill_self
    <3>2. [reply EXCEPT ![current] = Answer(Unanswered)] \in [Pcb -> Replies]
      BY AnswerType DEF Unanswered
    <3>3. ReadySpared([reply EXCEPT ![current] = Answer(Unanswered)])
      BY <1>0, <2>0, CurrentInHand DEF ReadySpared
    <3> QED
      BY <2>0, <3>1, <3>2, <3>3, CurrentInHand, ForceExitStepReports
  <2>4. CASE sys_kill_waiting(n)
    <3>1. PICK v \in WithPid(Target(n)) :
            /\ state[v] = "Waiting"
            /\ force_exit(v, KilledStatus, ready, [reply EXCEPT ![current] = Answer(Unanswered)])
      BY <2>4 DEF sys_kill_waiting
    <3>2. v \in ptable /\ v # InitPcb
      BY <1>12, KillTarget DEF sys_kill
    <3>3. [reply EXCEPT ![current] = Answer(Unanswered)] \in [Pcb -> Replies]
      BY AnswerType DEF Unanswered
    <3>4. ReadySpared([reply EXCEPT ![current] = Answer(Unanswered)])
      BY <1>0, <2>0, CurrentInHand DEF ReadySpared
    <3> QED
      BY <2>0, <3>1, <3>2, <3>3, <3>4, ForceExitStepReports
  <2> QED
    BY <1>12, <2>1, <2>2, <2>3, <2>4 DEF sys_kill
<1>13. CASE clk_isr_tick
  BY <1>1, <1>13 DEF clk_isr_tick, tableVars
<1>14. CASE clk_isr_resume
  BY <1>1, <1>14 DEF clk_isr_resume, tableVars
<1>15. CASE clk_isr_expire
  <2>1. ZombiesKept /\ ReadySpared(reply)
    BY <1>15 DEF ZombiesKept, ReadySpared, clk_isr_expire
  <2> QED
    BY <1>0, <1>15, <2>1, CurrentFacts, ScheduleStepReports DEF clk_isr_expire
<1>16. CASE clk_isr_wake
  <2>1. sleeping # <<>> /\ schedule(Head(sleeping), reply)
    BY <1>16 DEF clk_isr_wake, HeadDue
  <2>2. Head(sleeping) \in Pcb /\ In(sleeping, Head(sleeping))
    BY <2>1, PlacementQueues, TakeSleeping
  <2>3. Head(sleeping) \in ptable
    BY <2>2, TableFacts DEF IInv, Placement, StateMatchesQueue
  <2>4. state[Head(sleeping)] # "Zombie"
    BY <2>2 DEF IInv, Placement, StateMatchesQueue
  <2>5. ZombiesKept /\ ReadySpared(reply)
    BY <1>16 DEF ZombiesKept, ReadySpared, clk_isr_wake
  <2> QED
    BY <1>0, <2>1, <2>3, <2>4, <2>5, ScheduleStepReports
<1>17. CASE sio_isr_rx
  <2> DEFINE h == Head(reading)
             rep == [reply EXCEPT ![h] = Answer(1)]
  <2>1. reading # <<>> /\ schedule(h, rep)
    BY <1>17 DEF sio_isr_rx
  <2>2. h \in Pcb /\ In(reading, h)
    BY <2>1, PlacementQueues, TakeReading
  <2>3. h \in ptable
    BY <2>2, TableFacts DEF IInv, Placement, StateMatchesQueue
  <2>5. state[h] \notin {"Zombie", "Ready"}
    BY <2>2 DEF IInv, Placement, StateMatchesQueue
  <2>6. ZombiesKept /\ ReadySpared(rep)
    BY <1>0, <1>17, <2>5 DEF ZombiesKept, ReadySpared, sio_isr_rx
  <2>4. rep \in [Pcb -> Replies]
    <3>1. Answer(1) \in Replies
      BY DEF Answer, Replies
    <3> QED
      BY <1>0, <3>1
  <2> HIDE DEF h, rep
  <2> QED
    BY <2>1, <2>3, <2>4, <2>5, <2>6, ScheduleStepReports
<1>18. CASE dispatch_run
  <2>1. ZombiesKept
    BY <1>18 DEF ZombiesKept, dispatch_run
  <2> QED
    BY <1>18, <2>1, ChangeStepReports DEF dispatch_run, tableVars
<1>19. CASE dispatch_killed
  <2>1. PICK r \in Prio :
          /\ ready[r] # <<>>
          /\ state[Head(ready[r])] = "Killed"
          /\ force_exit(Head(ready[r]), KilledStatus, [ready EXCEPT ![r] = Tail(@)], reply)
    BY <1>19 DEF dispatch_killed, FirstLevel
  <2>2. Head(ready[r]) \in Pcb
    BY <2>1, PlacementQueues, TakeReady
  <2>3. Head(ready[r]) \in ptable /\ Head(ready[r]) # InitPcb
    BY <2>1, <2>2, TableFacts, OrdinaryByState
  <2>4. ZombiesKept /\ ReadySpared(reply)
    BY <1>19 DEF ZombiesKept, ReadySpared, dispatch_killed
  <2> QED
    BY <1>0, <2>1, <2>3, <2>4, ForceExitStepReports
<1> QED
  BY <1>2, <1>3, <1>4, <1>5, <1>6, <1>7, <1>8, <1>9, <1>10, <1>11, <1>12, <1>13,
     <1>14, <1>15, <1>16, <1>17, <1>18, <1>19 DEF Next, Clock, Dispatch

\* A process leaves the table only by being reported to its parent of that moment.
THEOREM GoneIsReported ==
  ASSUME KillSpares
  PROVE  Spec => ReportedWhenGone
<1>1. IInv /\ [Next]_vars =>
        [\A c \in ptable \ ptable' :
           \E p \in ptable \cap ptable' :
             /\ pid[p] = ppid[c]
             /\ state[p] \in {"Waiting", "Running"}
             /\ reply'[p].ret = pid[c]]_vars
  BY NextReports DEF StepReports
<1> QED
  BY <1>1, Invariance, PTL DEF Spec, ReportedWhenGone

\* The status wait() returns is the one given to exit(), through a zombie or not.
THEOREM StatusIsDelivered ==
  ASSUME KillSpares
  PROVE  Spec => StatusDelivered
<1>1. IInv /\ [Next]_vars =>
        [/\ \A st \in ExitStatuses : sys_exit(st) => Reported(current, st)
         /\ \A c \in ptable : state[c] = "Zombie" => Reported(c, exit_status[c])
         /\ \A c \in ptable \ ptable' :
              \/ state[c] = "Zombie"
              \/ \E st \in ExitStatuses : sys_exit(st)
              \/ Reported(c, KilledStatus)
         /\ \A p \in Pcb :
              state[p] = "Ready" /\ state'[p] \in {"Ready", "Running"} => reply'[p] = reply[p]]_vars
  BY NextReports, ExitReports DEF StepReports
<1> QED
  BY <1>1, Invariance, PTL DEF Spec, StatusDelivered

\* A process marked by kill() never runs again (_schedule, _dispatch, _sys_kill).
THEOREM KilledStaysKilled ==
  ASSUME KillSpares
  PROVE  Spec => KilledNeverRuns
<1>1. IInv /\ [Next]_vars =>
        [\A p \in Pcb : state[p] = "Killed" => state'[p] \in {"Killed", "Zombie", "Unused"}]_vars
  BY NextReports DEF StepReports
<1> QED
  BY <1>1, Invariance, PTL DEF Spec, KilledNeverRuns

\* When the clock handler is done with the sleep queue, nobody on it is due: the
\* head is not, and the queue is in order.
THEOREM AllDueAreWoken ==
  ASSUME KillSpares
  PROVE  Spec => AllDueWoken
<1>1. IInv /\ [Next]_vars =>
        [cpu = "_clk_isr" /\ cpu' # "_clk_isr" =>
           \A i \in 1 .. Len(sleeping') : wakeup'[sleeping'[i]] > system_time']_vars
  <2> SUFFICES ASSUME IInv, Next, cpu = "_clk_isr", cpu' # "_clk_isr"
               PROVE  \A i \in 1 .. Len(sleeping') : wakeup'[sleeping'[i]] > system_time'
    OBVIOUS
  <2>1. clk_isr_resume \/ clk_isr_expire
    BY DEF Next, quick_call, sys_exit, sys_read, sys_setprio, sys_sleep_yield, sys_sleep,
           sys_spawn_full, sys_spawn_no_memory, sys_spawn, sys_wait, sys_wait_no_children,
           sys_wait_block, sys_wait_collect, sys_kill, SystemCall, clk_isr_tick, Clock,
           clk_isr_wake, sio_isr_rx, Dispatch, dispatch_run, dispatch_killed
  <2>2. ~HeadDue /\ UNCHANGED <<sleeping, wakeup, system_time>>
    BY <2>1 DEF clk_isr_resume, clk_isr_expire, timeVars
  <2>3. /\ sleeping \in Seq(Pcb)
        /\ wakeup \in [Pcb -> 0 .. TimeMod - 1]
        /\ system_time \in 0 .. TimeMod - 1
        /\ TimeMod \in Nat
    BY TimeAssumption DEF IInv, TypeOK
  <2> SUFFICES ASSUME NEW i \in 1 .. Len(sleeping)
               PROVE  wakeup[sleeping[i]] > system_time
    BY <2>2
  <2>4. /\ sleeping # <<>> /\ Len(sleeping) \in Nat
        /\ 1 \in 1 .. Len(sleeping)
        /\ Head(sleeping) = sleeping[1]
        /\ sleeping[1] \in Pcb /\ sleeping[i] \in Pcb
    BY <2>3, EmptySeq, ElementOfSeq
  <2>5. wakeup[sleeping[1]] > system_time
    BY <2>2, <2>3, <2>4 DEF HeadDue
  <2>6. wakeup[sleeping[1]] <= wakeup[sleeping[i]]
    BY <2>3, <2>4 DEF IInv, SleepOrdered
  <2> QED
    BY <2>3, <2>4, <2>5, <2>6
<1> QED
  BY <1>1, Invariance, PTL DEF Spec, AllDueWoken

-----------------------------------------------------------------------------
(***************************************************************************)
(* The mapping                                                             *)
(***************************************************************************)

\* PIDs are unique, so the tree can be read off the PCBs.
TreeRead ==
  /\ Tree!Pids = TreePids
  /\ TreeParent = [n \in TreePids |-> TreeParent[n]]
  /\ \A n : n \in TreePids <=> \E p \in ptable : n = pid[p]
  /\ \A p \in ptable : TreeParent[pid[p]] = ppid[p]
  /\ TreeZombie \subseteq TreePids
  /\ \A p \in ptable : pid[p] \in TreeZombie <=> state[p] = "Zombie"
  /\ \A p, q \in ptable : pid[p] = pid[q] => p = q

LEMMA Reading == IInv => TreeRead
<1> SUFFICES ASSUME IInv
             PROVE  TreeRead
  OBVIOUS
<1>1. \A p, q \in ptable : pid[p] = pid[q] => p = q
  BY TableFacts
<1>2. \A n : n \in TreePids <=> \E p \in ptable : n = pid[p]
  BY DEF TreePids
<1>3. \A p \in ptable : TreeParent[pid[p]] = ppid[p]
  <2> TAKE p \in ptable
  <2>1. pcb_find_pid(pid[p]) = p
    BY <1>1 DEF pcb_find_pid
  <2> QED BY <1>2, <2>1 DEF TreeParent
<1>4. \A n : n \in TreeZombie <=> \E p \in ptable : state[p] = "Zombie" /\ n = pid[p]
  BY DEF TreeZombie
<1>5. Tree!Pids = TreePids /\ TreeParent = [n \in TreePids |-> TreeParent[n]]
  BY DEF Tree!Pids, TreeParent
<1> QED BY <1>1, <1>2, <1>3, <1>4, <1>5 DEF TreeRead

LEMMA ReadingNext == IInv' => TreeRead'
BY Reading, PTL

\* A step that changes neither who is there, nor who has which parent, nor who has
\* ended.
LEMMA TreeStays ==
  ASSUME TreeRead, TreeRead', ptable' = ptable,
         \A p \in ptable : /\ pid'[p] = pid[p] /\ ppid'[p] = ppid[p]
                           /\ state'[p] = "Zombie" <=> state[p] = "Zombie"
  PROVE  TreeParent' = TreeParent /\ TreeZombie' = TreeZombie
<1>1. TreePids' = TreePids
  BY DEF TreePids
<1>2. \A n \in TreePids : TreeParent'[n] = TreeParent[n]
  BY DEF TreeRead
<1>3. TreeParent' = TreeParent
  BY <1>1, <1>2 DEF TreeRead
<1>4. \A n \in TreePids : n \in TreeZombie' <=> n \in TreeZombie
  BY DEF TreeRead
<1>5. TreeZombie' = TreeZombie
  BY <1>1, <1>4 DEF TreeRead
<1> QED BY <1>3, <1>5

TreeStep == [Tree!Next]_(Tree!treeVars)

LEMMA StepStutters ==
  ASSUME TreeParent' = TreeParent, TreeZombie' = TreeZombie, next_pid' = next_pid
  PROVE  TreeStep
BY DEF TreeStep, Tree!treeVars

-----------------------------------------------------------------------------
(***************************************************************************)
(* The steps of the tree                                                   *)
(***************************************************************************)

\* _force_exit (process.c) is End, or EndCollected if the parent waits.
LEMMA ForceExitEnds ==
  ASSUME IInv, IInv', NEW v \in ptable, v # InitPcb, state[v] # "Zombie",
         NEW st, NEW rdy, NEW rep, force_exit(v, st, rdy, rep), next_pid' = next_pid
  PROVE  TreeStep
<1> DEFINE par == pcb_find_pid(ppid[v])
           n   == pid[v]
<1>0. TreeRead /\ TreeRead'
  BY Reading, ReadingNext
<1>1. /\ par \in ptable /\ par # v /\ par \in Pcb /\ v \in Pcb
      /\ state[par] # "Zombie"
      /\ state \in [Pcb -> States] /\ pid \in [Pcb -> Nat] /\ ppid \in [Pcb -> Nat]
      /\ \A p \in ptable : p \in Pcb /\ state[p] \in ReallyActive
  BY ParentFound, TableFacts DEF IInv, TypeOK, States
<1>2. n \in Tree!Alive \ {Tree!InitPid}
  BY <1>0, TableFacts DEF Tree!Alive, Tree!InitPid, TreeRead, IInv, TreeInv, Rooted, PID_INIT
<1>3. \A p \in ptable : Reparented(v)[p] = IF ppid[p] = n THEN 1 ELSE ppid[p]
  BY <1>1 DEF Reparented, PID_INIT
<1>4. \A p \in ptable : Tree!HandedOver(n)[pid[p]] = Reparented(v)[p]
  BY <1>0, <1>3 DEF Tree!HandedOver, Tree!InitPid, TreeRead
<1>5. DOMAIN Tree!HandedOver(n) = TreePids /\ n \in Tree!Pids
  BY <1>0 DEF Tree!HandedOver, TreeRead
<1> HIDE DEF par
<1>6. CASE state[par] # "Waiting"
  <2>1. /\ ppid' = Reparented(v) /\ state' = [state EXCEPT ![v] = "Zombie"]
        /\ UNCHANGED <<pid, ptable>>
    BY <1>6 DEF force_exit, par
  <2>2. TreePids' = TreePids
    BY <2>1 DEF TreePids
  <2>3. TreeParent' = Tree!HandedOver(n)
    <3>1. \A m \in TreePids : TreeParent'[m] = Tree!HandedOver(n)[m]
      BY <1>0, <1>4, <2>1 DEF TreeRead
    <3> QED BY <1>0, <1>5, <2>2, <3>1 DEF TreeRead, Tree!HandedOver
  <2>4. TreeZombie' = TreeZombie \cup {n}
    <3>1. \A m \in TreePids : m \in TreeZombie' <=> m \in TreeZombie \cup {n}
      BY <1>0, <1>1, <2>1 DEF TreeRead
    <3> QED BY <1>0, <1>5, <2>2, <3>1 DEF TreeRead
  <2>5. Tree!End(n)
    BY <1>2, <2>3, <2>4 DEF Tree!End
  <2> QED BY <1>5, <2>5 DEF TreeStep, Tree!Next
<1>7. CASE state[par] = "Waiting"
  <2>1. /\ ppid' = [Reparented(v) EXCEPT ![v] = 0]
        /\ state' = [state EXCEPT ![par] = "Ready", ![v] = "Unused"]
        /\ pid' = [pid EXCEPT ![v] = 0]
        /\ ptable' = ptable \ {v}
    BY <1>7 DEF force_exit, pcb_cleanup, par
  <2>2. \A p \in ptable' : /\ p \in ptable /\ pid'[p] = pid[p] /\ ppid'[p] = Reparented(v)[p]
                           /\ state'[p] = "Zombie" <=> state[p] = "Zombie"
    BY <1>1, <1>7, <2>1 DEF Reparented
  <2>3. TreePids' = TreePids \ {n}
    BY <1>0, <2>1, <2>2 DEF TreePids, TreeRead
  <2>4. TreeParent' = Tree!Without(Tree!HandedOver(n), n)
    <3>1. \A m \in TreePids' : TreeParent'[m] = Tree!HandedOver(n)[m]
      BY <1>0, <1>4, <2>2 DEF TreeRead
    <3> QED BY <1>0, <1>5, <2>3, <3>1 DEF TreeRead, Tree!Without
  <2>5. TreeZombie' = TreeZombie
    <3>1. n \notin TreeZombie
      BY <1>0 DEF TreeRead
    <3>2. \A m \in TreePids' : m \in TreeZombie' <=> m \in TreeZombie
      BY <1>0, <2>2 DEF TreeRead
    <3> QED BY <1>0, <2>3, <3>1, <3>2, SMTT(40) DEF TreeRead
  <2>6. Tree!EndCollected(n)
    <3>1. TreeParent[n] = pid[par] /\ pid[par] \in Tree!Alive
      BY <1>0, <1>1, ParentFound DEF Tree!Alive, TreeRead, par
    <3> QED BY <1>2, <2>4, <2>5, <3>1 DEF Tree!EndCollected
  <2> QED BY <1>5, <2>6 DEF TreeStep, Tree!Next
<1> QED BY <1>6, <1>7

\* _schedule (scheduler.c) leaves the tree alone, or ends a marked process.
LEMMA ScheduleEnds ==
  ASSUME IInv, IInv', NEW p \in ptable, state[p] # "Zombie", NEW rep, schedule(p, rep),
         next_pid' = next_pid
  PROVE  TreeStep
<1>1. CASE state[p] = "Killed"
  BY <1>1, OrdinaryByState, ForceExitEnds DEF schedule
<1>2. CASE state[p] # "Killed"
  <2>1. state' = [state EXCEPT ![p] = "Ready"] /\ UNCHANGED <<pid, ppid, ptable>>
    BY <1>2 DEF schedule
  <2>2. \A q \in ptable : state'[q] = "Zombie" <=> state[q] = "Zombie"
    BY <2>1 DEF IInv, TypeOK
  <2> QED BY <2>1, <2>2, Reading, ReadingNext, TreeStays, StepStutters
<1> QED BY <1>1, <1>2

\* Neither does a handler that changes the state of one process that has not ended.
LEMMA ChangeStays ==
  ASSUME IInv, IInv', NEW p \in ptable, state[p] # "Zombie", NEW s \in States \ {"Zombie"},
         state' = [state EXCEPT ![p] = s], UNCHANGED <<pid, ppid, ptable, next_pid>>
  PROVE  TreeStep
<1>1. \A q \in ptable : state'[q] = "Zombie" <=> state[q] = "Zombie"
  BY DEF IInv, TypeOK
<1> QED BY <1>1, Reading, ReadingNext, TreeStays, StepStutters

LEMMA TableStays ==
  ASSUME IInv, IInv', UNCHANGED <<state, pid, ppid, ptable, next_pid>>
  PROVE  TreeStep
BY Reading, ReadingNext, TreeStays, StepStutters

\* spawn creates a child of the caller.
LEMMA SpawnCreates ==
  ASSUME IInv, IInv', NEW r, NEW c \in Pcb, sys_spawn(r, c)
  PROVE  TreeStep
<1> DEFINE n == pid[current]
<1>0. TreeRead /\ TreeRead'
  BY Reading, ReadingNext
<1>1. /\ pid' = [pid EXCEPT ![c] = next_pid]
      /\ ppid' = [ppid EXCEPT ![c] = n]
      /\ state' = [state EXCEPT ![c] = "Ready"]
      /\ ptable' = ptable \cup {c}
      /\ next_pid' = next_pid + 1 /\ next_pid <= MaxPid
      /\ state[c] = "Unused"
  BY DEF sys_spawn
<1>2. /\ pid \in [Pcb -> Nat] /\ ppid \in [Pcb -> Nat] /\ state \in [Pcb -> States]
      /\ next_pid \in Nat /\ MaxPid \in Nat
      /\ c \notin ptable /\ current \in ptable /\ state[current] = "Running"
      /\ \A p \in ptable : p \in Pcb /\ p # c /\ pid[p] < next_pid
  BY <1>1, TableFacts, CurrentFacts, MaxPidAssumption DEF sys_spawn, SystemCall, IInv, TypeOK
<1>3. n \in Tree!Alive
  BY <1>0, <1>2 DEF Tree!Alive, TreeRead
<1>4. /\ pid'[c] = next_pid /\ ppid'[c] = n /\ state'[c] # "Zombie" /\ c \in ptable'
      /\ \A p \in ptable : pid'[p] = pid[p] /\ ppid'[p] = ppid[p] /\ state'[p] = state[p]
  BY <1>1, <1>2
<1>5. TreePids' = TreePids \cup {next_pid} /\ next_pid \notin TreePids
  BY <1>0, <1>1, <1>2, <1>4 DEF TreePids, TreeRead
<1>6. TreeParent' = [q \in TreePids \cup {next_pid} |-> IF q = next_pid THEN n ELSE TreeParent[q]]
  <2>1. \A q \in TreePids : TreeParent'[q] = TreeParent[q] /\ q # next_pid
    BY <1>0, <1>1, <1>4, <1>5, SMTT(40) DEF TreeRead
  <2>2. TreeParent'[next_pid] = n
    BY <1>0, <1>4 DEF TreeRead
  <2> QED BY <1>0, <1>5, <2>1, <2>2 DEF TreeRead
<1>7. TreeZombie' = TreeZombie
  <2>1. next_pid \notin TreeZombie' /\ next_pid \notin TreeZombie
    BY <1>0, <1>4, <1>5 DEF TreeRead
  <2>2. \A m \in TreePids : m \in TreeZombie' <=> m \in TreeZombie
    BY <1>0, <1>1, <1>4 DEF TreeRead
  <2> QED BY <1>0, <1>5, <2>1, <2>2, SMTT(40) DEF TreeRead
<1>8. Tree!Create(n)
  <2>1. next_pid - 1 < MaxPid /\ next_pid' - 1 = next_pid - 1 + 1 /\ next_pid' - 1 = next_pid
    BY <1>1, <1>2
  <2> QED BY <1>0, <1>3, <1>6, <1>7, <2>1 DEF Tree!Create, TreeRead
<1>9. n \in Tree!Pids
  BY <1>3 DEF Tree!Alive
<1> QED BY <1>8, <1>9 DEF TreeStep, Tree!Next

\* A spawn that fails for lack of memory uses up a PID.
LEMMA NoMemorySkips ==
  ASSUME IInv, IInv', sys_spawn_no_memory
  PROVE  TreeStep
<1>1. TreeParent' = TreeParent /\ TreeZombie' = TreeZombie
  BY Reading, ReadingNext, TreeStays DEF sys_spawn_no_memory
<1>2. next_pid' - 1 = next_pid - 1 + 1 /\ next_pid - 1 < MaxPid
  BY TableFacts, MaxPidAssumption DEF sys_spawn_no_memory
<1> QED BY <1>1, <1>2 DEF TreeStep, Tree!Next, Tree!Skip

\* wait() collects a child that has ended.
LEMMA WaitCollects ==
  ASSUME IInv, IInv', NEW z, sys_wait_collect(z)
  PROVE  TreeStep
<1> DEFINE n == pid[z]
<1>0. TreeRead /\ TreeRead'
  BY Reading, ReadingNext
<1>1. /\ z \in ptable /\ state[z] = "Zombie"
      /\ state' = [state EXCEPT ![z] = "Unused"]
      /\ ppid' = [ppid EXCEPT ![z] = 0]
      /\ pid' = [pid EXCEPT ![z] = 0]
      /\ ptable' = ptable \ {z}
      /\ next_pid' = next_pid
  BY DEF sys_wait_collect, Zombies, Children, pcb_cleanup
<1>2. \A p \in ptable' : /\ p \in ptable /\ pid'[p] = pid[p] /\ ppid'[p] = ppid[p]
                         /\ state'[p] = state[p]
  BY <1>1 DEF IInv, TypeOK
<1>3. n \in TreeZombie /\ n \in TreePids /\ Tree!Pids = TreePids
  BY <1>0, <1>1 DEF TreeRead
<1>4. TreePids' = TreePids \ {n}
  BY <1>0, <1>1, <1>2 DEF TreePids, TreeRead
<1>5. TreeParent' = Tree!Without(TreeParent, n)
  <2>1. \A m \in TreePids' : TreeParent'[m] = TreeParent[m]
    BY <1>0, <1>2 DEF TreeRead
  <2> QED BY <1>0, <1>4, <2>1 DEF TreeRead, Tree!Without
<1>6. TreeZombie' = TreeZombie \ {n}
  <2>1. \A m \in TreePids' : m \in TreeZombie' <=> m \in TreeZombie
    BY <1>0, <1>2 DEF TreeRead
  <2> QED BY <1>0, <1>4, <2>1 DEF TreeRead
<1>7. Tree!Collect(n)
  <2>1. TreeParent[n] = pid[current] /\ pid[current] \in Tree!Alive
    <3>1. /\ current \in ptable /\ state[current] = "Running"
          /\ ppid[z] = pid[current]
      BY CurrentInHand DEF sys_wait_collect, Zombies, Children
    <3> QED BY <1>0, <1>1, <3>1 DEF Tree!Alive, TreeRead
  <2> QED BY <1>1, <1>3, <1>5, <1>6, <2>1 DEF Tree!Collect
<1> QED BY <1>3, <1>7 DEF TreeStep, Tree!Next

-----------------------------------------------------------------------------
(***************************************************************************)
(* The refinement                                                          *)
(***************************************************************************)

\* The process at the head of a queue is in the table and has not ended.
LEMMA HeadsLive ==
  ASSUME IInv
  PROVE  /\ sleeping # <<>> => Head(sleeping) \in ptable /\ state[Head(sleeping)] # "Zombie"
         /\ reading # <<>> => Head(reading) \in ptable /\ state[Head(reading)] # "Zombie"
         /\ \A r \in Prio : ready[r] # <<>> =>
              Head(ready[r]) \in ptable /\ state[Head(ready[r])] # "Zombie"
<1>1. sleeping # <<>> => Head(sleeping) \in Pcb /\ In(sleeping, Head(sleeping))
  BY PlacementQueues, TakeSleeping
<1>2. reading # <<>> => Head(reading) \in Pcb /\ In(reading, Head(reading))
  BY PlacementQueues, TakeReading
<1>3. \A r \in Prio : ready[r] # <<>> => Head(ready[r]) \in Pcb /\ In(ready[r], Head(ready[r]))
  BY PlacementQueues, TakeReady
<1> QED BY <1>1, <1>2, <1>3, TableFacts DEF IInv, Placement, StateMatchesQueue

LEMMA KillSteps ==
  ASSUME KillSpares, IInv, IInv', NEW n \in 0 .. MaxPid, sys_kill(n)
  PROVE  TreeStep
<1>1. CASE sys_kill_not_found(n)
  BY <1>1, TableStays DEF sys_kill_not_found, tableVars
<1>2. CASE sys_kill_mark(n)
  <2>1. PICK v \in WithPid(Target(n)) :
          /\ state[v] \in Queued \cup {"Killed"}
          /\ state' = [state EXCEPT ![v] = "Killed"]
          /\ UNCHANGED ppid /\ UNCHANGED tableVars
    BY <1>2 DEF sys_kill_mark
  <2> QED BY <2>1, ChangeStays DEF WithPid, Queued, tableVars, States, ReallyActive
<1>3. CASE sys_kill_self(n)
  BY <1>3, CurrentInHand, ForceExitEnds DEF sys_kill, sys_kill_self
<1>4. CASE sys_kill_waiting(n)
  BY <1>4, KillTarget, ForceExitEnds DEF sys_kill, sys_kill_waiting
<1> QED BY <1>1, <1>2, <1>3, <1>4 DEF sys_kill

LEMMA NextTree ==
  ASSUME KillSpares, IInv, IInv', [Next]_vars
  PROVE  TreeStep
<1>1. CASE UNCHANGED vars
  BY <1>1, TableStays DEF vars
<1>2. CASE quick_call \/ sys_spawn_full \/ sys_wait_no_children \/ clk_isr_tick \/ clk_isr_resume
           \/ \E r \in Prio : sys_setprio(r)
  BY <1>2, TableStays DEF quick_call, sys_spawn_full, sys_wait_no_children, clk_isr_tick,
     clk_isr_resume, sys_setprio, tableVars
<1>3. CASE sys_read \/ sys_wait_block \/ \E t \in SleepTicks : sys_sleep(t)
  <2>1. /\ current \in ptable /\ state[current] # "Zombie"
        /\ UNCHANGED <<ppid, tableVars>>
        /\ \E s \in {"Blocked", "Waiting", "Sleeping"} : state' = [state EXCEPT ![current] = s]
    BY <1>3, CurrentInHand DEF sys_read, sys_wait_block, sys_sleep
  <2> QED BY <2>1, ChangeStays DEF tableVars, States, ReallyActive
<1>4. ASSUME NEW st \in ExitStatuses, sys_exit(st) PROVE TreeStep
  BY <1>4, CurrentInHand, ForceExitEnds DEF sys_exit
<1>5. CASE sys_sleep_yield \/ clk_isr_expire
  BY <1>5, CurrentInHand, CurrentFacts, ScheduleEnds DEF sys_sleep_yield, clk_isr_expire
<1>6. ASSUME NEW r \in Prio, NEW c \in Pcb, sys_spawn(r, c) PROVE TreeStep
  BY <1>6, SpawnCreates
<1>7. CASE sys_spawn_no_memory
  BY <1>7, NoMemorySkips
<1>8. ASSUME NEW z \in ptable, sys_wait_collect(z) PROVE TreeStep
  BY <1>8, WaitCollects
<1>9. ASSUME NEW n \in 0 .. MaxPid, sys_kill(n) PROVE TreeStep
  BY <1>9, KillSteps
<1>10. CASE clk_isr_wake
  BY <1>10, HeadsLive, ScheduleEnds DEF clk_isr_wake, HeadDue
<1>11. CASE sio_isr_rx
  BY <1>11, HeadsLive, ScheduleEnds DEF sio_isr_rx
<1>12. CASE dispatch_run
  <2>1. PICK r \in Prio : /\ ready[r] # <<>>
                          /\ state' = [state EXCEPT ![Head(ready[r])] = "Running"]
    BY <1>12 DEF dispatch_run, FirstLevel
  <2> QED BY <1>12, <2>1, HeadsLive, ChangeStays DEF dispatch_run, tableVars, States, ReallyActive
<1>13. CASE dispatch_killed
  <2>1. PICK r \in Prio :
          /\ ready[r] # <<>> /\ state[Head(ready[r])] = "Killed"
          /\ force_exit(Head(ready[r]), KilledStatus, [ready EXCEPT ![r] = Tail(@)], reply)
    BY <1>13 DEF dispatch_killed, FirstLevel
  <2> QED BY <1>13, <2>1, HeadsLive, OrdinaryByState, ForceExitEnds DEF dispatch_killed
<1> QED
  BY <1>1, <1>2, <1>3, <1>4, <1>5, <1>6, <1>7, <1>8, <1>9, <1>10, <1>11, <1>12, <1>13
  DEF Next, sys_wait, Clock, Dispatch

LEMMA InitTree == Init => Tree!Init
<1> SUFFICES ASSUME Init
             PROVE  Tree!Init
  OBVIOUS
<1>1. ptable = {InitPcb} /\ pid[InitPcb] = 1 /\ ppid[InitPcb] = 1 /\ state[InitPcb] # "Zombie"
  BY InitPcbAssumption DEF Init, PID_INIT
<1>2. TreePids = {1} /\ TreeZombie = {}
  BY <1>1 DEF TreePids, TreeZombie
<1>3. TreeParent[1] = 1
  <2>1. pcb_find_pid(1) = InitPcb
    BY <1>1 DEF pcb_find_pid
  <2> QED BY <1>1, <1>2, <2>1 DEF TreeParent
<1>4. TreeParent = [q \in {1} |-> 1]
  BY <1>2, <1>3 DEF TreeParent
<1> QED BY <1>2, <1>4 DEF Tree!Init, Tree!InitPid, Init

\* Process management (process.c, scheduler.c, clock.c, syscalls.c) keeps a tree of
\* processes: each is created once by a living one, ends once, leaves its
\* children to init and is collected once, whatever is interrupted, marked or
\* blocked in between.
THEOREM ImplementsTree ==
  ASSUME KillSpares
  PROVE  Spec => TreeSpec
<1>1. IInv /\ IInv' /\ [Next]_vars => [Tree!Next]_(Tree!treeVars)
  BY NextTree DEF TreeStep
<1> QED BY <1>1, InitTree, Invariance, PTL DEF Spec, TreeSpec, Tree!Spec

-----------------------------------------------------------------------------
(***************************************************************************)
(* The baseline programs (userland/): they make calls that the kernel      *)
(* allows to any program, so what is proved about Kernel holds of them;    *)
(* and userI and userT have no child left when they exit.                  *)
(*                                                                         *)
(* First what the steps of others do to a process: they leave it its PID   *)
(* and its children, or fewer of them, and answer it with an error only if *)
(* that is the answer it has already.                                      *)
(***************************************************************************)

Aside(p) ==
  /\ pid'[p] = pid[p]
  /\ reply'[p].ret < 0 =>
       reply'[p] = reply[p] /\ (state[p] = "Waiting" => state'[p] = "Waiting")
  /\ Children(p)' \subseteq Children(p)

\* init is the only process with its PID.
LEMMA NotInit ==
  ASSUME IInv, NEW p \in ptable, p # InitPcb
  PROVE  pid[p] # PID_INIT /\ pid[p] # 0
BY TableFacts DEF IInv, TreeInv, Rooted

\* A step that hands children to init only.
LEMMA AsideIf ==
  ASSUME IInv, NEW p \in ptable, p # InitPcb, pid'[p] = pid[p],
         ptable' \subseteq ptable,
         \A c \in ptable' : ppid'[c] = ppid[c] \/ ppid'[c] = PID_INIT,
         reply'[p].ret < 0 =>
           reply'[p] = reply[p] /\ (state[p] = "Waiting" => state'[p] = "Waiting")
  PROVE  Aside(p)
<1>1. \A c \in ptable' : ppid'[c] = pid[p] => c \in ptable /\ ppid[c] = pid[p]
  BY NotInit
<1>2. Children(p)' \subseteq Children(p)
  BY <1>1 DEF Children
<1> QED BY <1>2 DEF Aside

\* Nothing of it changes but, perhaps, the state of p.
LEMMA AsideQuiet ==
  ASSUME IInv, NEW p \in ptable, p # InitPcb,
         UNCHANGED <<pid, ppid, ptable>>, reply'[p] = reply[p],
         state[p] = "Waiting" => state'[p] = "Waiting"
  PROVE  Aside(p)
BY AsideIf

\* The pending answers rep hold no new error for p.
Leaves(rep, p) == rep[p] = reply[p] \/ (rep[p].ret >= 0 /\ state[p] # "Waiting")

LEMMA LeavesAll == ASSUME NEW p PROVE Leaves(reply, p)
BY Zenon DEF Leaves

\* _force_exit of another process, perhaps one for which p waits.
LEMMA AsideForceExit ==
  ASSUME IInv, NEW p \in ptable, p # InitPcb, NEW v \in ptable, v # InitPcb, v # p,
         NEW st \in Int, NEW rdy, NEW rep \in [Pcb -> Replies], force_exit(v, st, rdy, rep),
         Leaves(rep, p)
  PROVE  Aside(p)
<1> DEFINE par == pcb_find_pid(ppid[v])
<1>1. /\ par \in Pcb /\ par # v /\ v \in Pcb /\ p \in Pcb
      /\ state \in [Pcb -> States] /\ pid \in [Pcb -> Nat] /\ ppid \in [Pcb -> Nat]
      /\ pid[v] \in Nat /\ pid[v] >= 1 /\ ptable \subseteq Pcb
      /\ reply[p] \in Replies /\ reply[p].ret \in Int /\ rep[p].ret \in Int
  <2>1. reply[p] \in Replies /\ rep[p] \in Replies
    BY TableFacts DEF IInv, TypeOK
  <2> QED BY <2>1, ParentFound, TableFacts DEF IInv, TypeOK, Replies
<1> HIDE DEF par
<1>2. \A c \in ptable : Reparented(v)[c] = ppid[c] \/ Reparented(v)[c] = PID_INIT
  BY <1>1 DEF Reparented
<1>3. Reparented(v) \in [Pcb -> Nat]
  BY <1>1 DEF Reparented, PID_INIT
<1>4. CASE state[par] # "Waiting"
  <2>1. /\ ppid' = Reparented(v) /\ state' = [state EXCEPT ![v] = "Zombie"]
        /\ reply' = [rep EXCEPT ![v] = Answer(0)]
        /\ pid' = pid /\ ptable' = ptable
    BY <1>4 DEF force_exit, par
  <2>2. state'[p] = state[p] /\ reply'[p] = rep[p]
    BY <1>1, <2>1
  <2> QED BY <1>1, <1>2, <2>1, <2>2, AsideIf DEF Leaves
<1>5. CASE state[par] = "Waiting"
  <2>1. /\ ppid' = [Reparented(v) EXCEPT ![v] = 0]
        /\ state' = [state EXCEPT ![par] = "Ready", ![v] = "Unused"]
        /\ reply' = [rep EXCEPT ![par] = WaitAnswer(pid[v], st), ![v] = Answer(0)]
        /\ ptable' = ptable \ {v} /\ pid' = [pid EXCEPT ![v] = 0]
    BY <1>5 DEF force_exit, par, pcb_cleanup
  <2>2. pid'[p] = pid[p] /\ \A c \in ptable' : ppid'[c] = Reparented(v)[c]
    BY <1>1, <1>3, <2>1
  <2>3. p # par => reply'[p] = rep[p] /\ state'[p] = state[p]
    BY <1>1, <2>1
  <2>4. p = par => reply'[p].ret = pid[v]
    BY <1>1, <2>1 DEF WaitAnswer
  <2>5. reply'[p].ret < 0 =>
          reply'[p] = reply[p] /\ (state[p] = "Waiting" => state'[p] = "Waiting")
    BY <1>1, <2>3, <2>4 DEF Leaves
  <2> QED BY <1>2, <2>1, <2>2, <2>5, AsideIf
<1> QED BY <1>4, <1>5

\* _schedule of a process that does not wait, unless it ends p.
LEMMA AsideSchedule ==
  ASSUME IInv, NEW p \in ptable, p # InitPcb, NEW q \in ptable, state[q] # "Waiting",
         state'[p] \notin {"Unused", "Zombie"},
         NEW rep \in [Pcb -> Replies], schedule(q, rep),
         Leaves(rep, p)
  PROVE  Aside(p)
<1>0. /\ state \in [Pcb -> States] /\ q \in Pcb /\ p \in Pcb /\ rep[p].ret \in Int
      /\ pcb_find_pid(ppid[q]) # q \/ q = InitPcb
  <2>1. rep[p] \in Replies
    BY TableFacts
  <2> QED BY <2>1, ParentFound, TableFacts DEF IInv, TypeOK, Replies
<1>1. CASE state[q] = "Killed"
  <2>1. q # InitPcb
    BY <1>1 DEF IInv, TreeInv, Rooted
  <2>2. force_exit(q, KilledStatus, ready, rep)
    BY <1>1 DEF schedule
  <2>3. p # q
    BY <1>0, <2>1, <2>2 DEF force_exit
  <2> QED BY <2>1, <2>2, <2>3, AsideForceExit DEF KilledStatus
<1>2. CASE state[q] # "Killed"
  <2>1. /\ state' = [state EXCEPT ![q] = "Ready"] /\ reply' = rep
        /\ UNCHANGED <<ppid, pid, ptable>>
    BY <1>2 DEF schedule
  <2>2. state[p] = "Waiting" => state'[p] = "Waiting"
    BY <1>0, <2>1
  <2>3. reply'[p].ret < 0 =>
          reply'[p] = reply[p] /\ (state[p] = "Waiting" => state'[p] = "Waiting")
    BY <1>0, <2>1, <2>2 DEF Leaves
  <2> QED BY <2>1, <2>3, AsideIf
<1> QED BY <1>1, <1>2

\* The head of the sleep queue, or of the readers, does not wait for a child.
LEMMA HeadsDoNotWait ==
  ASSUME IInv
  PROVE  /\ sleeping # <<>> => Head(sleeping) \in ptable /\ state[Head(sleeping)] # "Waiting"
         /\ reading # <<>> => Head(reading) \in ptable /\ state[Head(reading)] # "Waiting"
<1>1. sleeping # <<>> => Head(sleeping) \in Pcb /\ In(sleeping, Head(sleeping))
  BY PlacementQueues, TakeSleeping
<1>2. reading # <<>> => Head(reading) \in Pcb /\ In(reading, Head(reading))
  BY PlacementQueues, TakeReading
<1> QED BY <1>1, <1>2, TableFacts DEF IInv, Placement, StateMatchesQueue

\* What the clock, the serial line and the dispatcher do.
LEMMA KernelAside ==
  ASSUME IInv, NEW p \in ptable, p # InitPcb, state'[p] \notin {"Unused", "Zombie"},
         clk_isr_tick \/ Clock \/ sio_isr_rx \/ Dispatch
  PROVE  Aside(p)
<1>0. /\ reply \in [Pcb -> Replies] /\ state \in [Pcb -> States] /\ p \in Pcb
      /\ ready \in [Prio -> Seq(Pcb)]
  BY TableFacts DEF IInv, TypeOK
<1>1. CASE clk_isr_tick
  BY <1>1, AsideQuiet DEF clk_isr_tick, tableVars
<1>2. CASE clk_isr_wake
  <2>1. sleeping # <<>> /\ schedule(Head(sleeping), reply)
    BY <1>2 DEF clk_isr_wake, HeadDue
  <2>2. Head(sleeping) \in ptable /\ state[Head(sleeping)] # "Waiting"
    BY <2>1, HeadsDoNotWait
  <2> QED BY <1>0, <2>1, <2>2, LeavesAll, AsideSchedule
<1>3. CASE clk_isr_resume
  BY <1>3, AsideQuiet DEF clk_isr_resume, tableVars
<1>4. CASE clk_isr_expire
  <2>1. current \in ptable /\ state[current] # "Waiting" /\ schedule(current, reply)
    BY <1>4, CurrentFacts DEF clk_isr_expire
  <2> QED BY <1>0, <2>1, LeavesAll, AsideSchedule
<1>5. CASE sio_isr_rx
  <2>1. reading # <<>> /\ schedule(Head(reading), [reply EXCEPT ![Head(reading)] = Answer(1)])
    BY <1>5 DEF sio_isr_rx
  <2>2. Head(reading) \in ptable /\ Head(reading) \in Pcb /\ state[Head(reading)] # "Waiting"
    BY <2>1, HeadsDoNotWait, TableFacts
  <2> DEFINE rep == [reply EXCEPT ![Head(reading)] = Answer(1)]
  <2>3. rep \in [Pcb -> Replies]
    BY <1>0, <2>2 DEF Answer, Replies
  <2>4. Leaves(rep, p)
    BY <1>0, <2>2 DEF Answer, Leaves
  <2> HIDE DEF rep
  <2>5. schedule(Head(reading), rep)
    BY <2>1 DEF rep
  <2> QED BY <2>2, <2>3, <2>4, <2>5, AsideSchedule
<1>6. CASE dispatch_run
  <2>1. PICK r \in Prio : /\ FirstLevel(r) /\ state[Head(ready[r])] = "Ready"
                          /\ state' = [state EXCEPT ![Head(ready[r])] = "Running"]
    BY <1>6 DEF dispatch_run
  <2>2. state[p] = "Waiting" => state'[p] = "Waiting"
    BY <1>0, <2>1
  <2> QED BY <1>6, <2>2, AsideQuiet DEF dispatch_run, tableVars
<1>7. CASE dispatch_killed
  <2>1. PICK r \in Prio : /\ FirstLevel(r) /\ state[Head(ready[r])] = "Killed"
                          /\ force_exit(Head(ready[r]), KilledStatus,
                                        [ready EXCEPT ![r] = Tail(@)], reply)
    BY <1>7 DEF dispatch_killed
  <2> DEFINE v == Head(ready[r])
  <2>2. v \in Pcb
    BY <1>0, <2>1 DEF FirstLevel
  <2> HIDE DEF v
  <2>3. v \in ptable /\ state[v] = "Killed" /\ v # InitPcb
    BY <2>1, <2>2, TableFacts DEF v, IInv, TreeInv, Rooted
  <2>4. pcb_find_pid(ppid[v]) # v
    BY <2>3, ParentFound
  <2>5. v # p
    BY <1>0, <2>1, <2>2, <2>4 DEF v, force_exit
  <2> QED BY <1>0, <2>1, <2>3, <2>5, LeavesAll, AsideForceExit DEF v, KilledStatus
<1> QED BY <1>1, <1>2, <1>3, <1>4, <1>5, <1>6, <1>7 DEF Clock, Dispatch

\* _force_exit ends the process, whatever its parent does.
LEMMA EndedBy ==
  ASSUME IInv, NEW v \in ptable, v # InitPcb, NEW st, NEW rdy, NEW rep, force_exit(v, st, rdy, rep)
  PROVE  state'[v] \in {"Unused", "Zombie"}
<1>1. v \in Pcb /\ state \in [Pcb -> States] /\ pcb_find_pid(ppid[v]) # v
  BY ParentFound, TableFacts DEF IInv, TypeOK
<1> QED BY <1>1 DEF force_exit

\* The calls that a program makes.
ACall ==
  \/ quick_call \/ sys_read \/ sys_sleep_yield \/ sys_spawn_full \/ sys_wait
  \/ \E st \in ExitStatuses : sys_exit(st)
  \/ \E r \in Prio : sys_setprio(r)
  \/ \E t \in SleepTicks : sys_sleep(t)
  \/ \E r \in Prio, c \in Pcb : sys_spawn(r, c)
  \/ \E n \in 0 .. MaxPid : sys_kill(n)

\* A call of another process.
LEMMA CallAside ==
  ASSUME KillSpares, IInv, NEW p \in ptable, p # InitPcb, p # current,
         state'[p] \notin {"Unused", "Zombie"}, ACall
  PROVE  Aside(p)
<1>0. /\ reply \in [Pcb -> Replies] /\ state \in [Pcb -> States] /\ p \in Pcb
      /\ pid \in [Pcb -> Nat] /\ ppid \in [Pcb -> Nat]
      /\ current \in ptable /\ current \in Pcb /\ state[current] = "Running" /\ SystemCall
  <2>1. SystemCall
    BY DEF ACall, quick_call, sys_read, sys_sleep_yield, sys_spawn_full, sys_wait,
           sys_wait_no_children, sys_wait_block, sys_wait_collect, sys_exit, sys_setprio, sys_sleep,
           sys_spawn, sys_kill
  <2> QED BY <2>1, CurrentFacts, TableFacts DEF IInv, TypeOK, SystemCall
<1>1. ASSUME UNCHANGED <<pid, ppid, ptable>>, state[p] = "Waiting" => state'[p] = "Waiting",
             NEW r, reply' = [reply EXCEPT ![current] = r]
      PROVE  Aside(p)
  <2>1. reply'[p] = reply[p]
    BY <1>0, <1>1
  <2> QED BY <1>1, <2>1, AsideQuiet
<1>2. ASSUME NEW s, state' = [state EXCEPT ![current] = s]
      PROVE  state'[p] = state[p]
  BY <1>0, <1>2
<1> DEFINE rep == [reply EXCEPT ![current] = Answer(Unanswered)]
<1>3. rep \in [Pcb -> Replies] /\ Leaves(rep, p)
  <2>1. Answer(Unanswered) \in Replies
    BY DEF Answer, Replies, Unanswered
  <2>2. rep[p] = reply[p]
    BY <1>0
  <2> QED BY <1>0, <2>1, <2>2 DEF Leaves
<1>4. CASE quick_call
  BY <1>1, <1>4 DEF quick_call, tableVars
<1>5. CASE sys_read
  BY <1>1, <1>2, <1>5 DEF sys_read, tableVars
<1>6. CASE sys_sleep_yield
  <2>1. schedule(current, rep) /\ state[current] # "Waiting"
    BY <1>0, <1>6 DEF sys_sleep_yield
  <2> HIDE DEF rep
  <2> QED BY <1>0, <1>3, <2>1, AsideSchedule
<1>7. CASE sys_spawn_full
  BY <1>1, <1>7 DEF sys_spawn_full, tableVars
<1>8. CASE sys_wait
  <2>1. CASE sys_wait_no_children
    BY <1>1, <2>1 DEF sys_wait_no_children, tableVars
  <2>2. CASE sys_wait_block
    BY <1>1, <1>2, <2>2 DEF sys_wait_block, tableVars
  <2>3. ASSUME NEW z \in ptable, sys_wait_collect(z)
        PROVE  Aside(p)
    <3>1. /\ state' = [state EXCEPT ![z] = "Unused"] /\ ppid' = [ppid EXCEPT ![z] = 0]
          /\ pid' = [pid EXCEPT ![z] = 0] /\ ptable' = ptable \ {z}
          /\ reply' = [reply EXCEPT ![current] = WaitAnswer(pid[z], exit_status[z]), ![z] = Answer(0)]
      BY <2>3 DEF sys_wait_collect, pcb_cleanup
    <3>2. z # p
      BY <1>0, <3>1
    <3>3. /\ pid'[p] = pid[p] /\ state'[p] = state[p] /\ reply'[p] = reply[p]
          /\ \A c \in ptable' : ppid'[c] = ppid[c]
      BY <1>0, <3>1, <3>2, TableFacts
    <3> QED BY <3>1, <3>3, AsideIf
  <2> QED BY <1>8, <2>1, <2>2, <2>3 DEF sys_wait
<1>9. ASSUME NEW st \in ExitStatuses, sys_exit(st)
      PROVE  Aside(p)
  <2>1. force_exit(current, st, ready, reply) /\ current # InitPcb
    BY <1>0, <1>9, CurrentInHand DEF sys_exit
  <2> QED BY <1>0, <2>1, LeavesAll, AsideForceExit, StatusAssumption
<1>10. ASSUME NEW r \in Prio, sys_setprio(r)
       PROVE  Aside(p)
  BY <1>1, <1>10 DEF sys_setprio
<1>11. ASSUME NEW t \in SleepTicks, sys_sleep(t)
       PROVE  Aside(p)
  BY <1>1, <1>2, <1>11 DEF sys_sleep, tableVars
<1>12. ASSUME NEW r \in Prio, NEW c \in Pcb, sys_spawn(r, c)
       PROVE  Aside(p)
  <2>1. /\ state[c] = "Unused"
        /\ pid' = [pid EXCEPT ![c] = next_pid] /\ ppid' = [ppid EXCEPT ![c] = pid[current]]
        /\ state' = [state EXCEPT ![c] = "Ready"] /\ ptable' = ptable \cup {c}
        /\ reply' = [reply EXCEPT ![current] = Answer(next_pid)]
    BY <1>12 DEF sys_spawn
  <2>2. c # p /\ c \notin ptable
    BY <2>1, TableFacts
  <2>3. pid[current] # pid[p]
    BY <1>0, TableFacts
  <2>4. pid'[p] = pid[p] /\ state'[p] = state[p] /\ reply'[p] = reply[p]
    BY <1>0, <2>1, <2>2
  <2>5. \A d \in ptable' : ppid'[d] = pid[p] => d \in ptable /\ ppid[d] = pid[p]
    BY <1>0, <2>1, <2>2, <2>3, TableFacts
  <2> QED BY <2>4, <2>5 DEF Aside, Children
<1>13. ASSUME NEW n \in 0 .. MaxPid, sys_kill(n)
       PROVE  Aside(p)
  <2>1. CASE sys_kill_not_found(n)
    BY <1>1, <1>13, <2>1 DEF sys_kill_not_found, tableVars
  <2>2. CASE sys_kill_mark(n)
    <3>1. PICK v \in WithPid(Target(n)) :
             /\ state[v] # "Waiting" /\ state' = [state EXCEPT ![v] = "Killed"]
             /\ reply' = [reply EXCEPT ![current] = Answer(E_SUCCESS), ![v] = Answer(0)]
             /\ UNCHANGED <<pid, ppid, ptable>>
      BY <2>2 DEF sys_kill_mark, Queued, tableVars
    <3>2. state[p] = "Waiting" => state'[p] = "Waiting"
      BY <1>0, <3>1
    <3>3. reply'[p] = reply[p] \/ reply'[p].ret >= 0
      <4>1. reply'[p] = reply[p] \/ reply'[p] = Answer(0)
        BY <1>0, <3>1 DEF E_SUCCESS
      <4> QED
        BY <4>1 DEF Answer
    <3> QED BY <1>0, <3>1, <3>2, <3>3, AsideIf DEF Answer
  <2>3. CASE sys_kill_self(n)
    <3>1. force_exit(current, KilledStatus, ready, rep) /\ current # InitPcb
      BY <1>0, <1>13, <2>3, CurrentInHand DEF sys_kill_self, sys_kill
    <3> HIDE DEF rep
    <3> QED BY <1>0, <1>3, <3>1, AsideForceExit DEF KilledStatus
  <2>4. CASE sys_kill_waiting(n)
    <3>1. PICK v \in WithPid(Target(n)) :
            state[v] = "Waiting" /\ force_exit(v, KilledStatus, ready, rep)
      BY <2>4 DEF sys_kill_waiting
    <3> HIDE DEF rep
    <3>2. v \in ptable /\ v # InitPcb
      BY <1>0, <1>13, <3>1, KillTarget DEF sys_kill, WithPid
    <3>3. v # p
      BY <3>1, <3>2, EndedBy
    <3> QED BY <1>3, <3>1, <3>2, <3>3, AsideForceExit DEF KilledStatus
  <2> QED BY <1>13, <2>1, <2>2, <2>3, <2>4 DEF sys_kill
<1> QED BY <1>4, <1>5, <1>6, <1>7, <1>8, <1>9, <1>10, <1>11, <1>12, <1>13 DEF ACall

-----------------------------------------------------------------------------
(***************************************************************************)
(* Scripts: the entries that there are.                                    *)
(***************************************************************************)
Acts ==
  [op : {"sleep", "wait", "yield", "read", "toggle", "bogus", "exit with pid"}] \cup
  [op : {"spawn"}, program : Names, level : Prio] \cup
  [op : {"kill"}, pid : 0 .. MaxPid] \cup
  [op : {"kill kid"}, kid : Nat \ {0}]

Ops ==
  Acts \cup [op : {"exit"}, status : 0 .. Kids] \cup
  [op : {"loop"}, body : Seq(Acts), until : {"error", "no children", "never"}]

LEMMA OpsAre ==
  ASSUME NEW e \in Ops
  PROVE  /\ e.op = "spawn" => e.level \in Prio /\ e.program \in Names
         /\ e.op = "kill" => e.pid \in 0 .. MaxPid
         /\ e.op = "exit" => e.status \in 0 .. Kids
         /\ e.op = "loop" => e.body \in Seq(Acts)
         /\ e \in Acts <=> e.op \notin {"exit", "loop"}
BY DEF Ops, Acts

LEMMA LevelsAre == 0 \in Prio /\ User1 \in Prio /\ User2 \in Prio /\ PRIO_LOWEST \in Prio
BY PrioAssumption, LevelAssumption DEF Prio, User1, User2

LEMMA ActsAre ==
  /\ Sleep \in Acts /\ Wait \in Acts /\ Op("yield") \in Acts /\ Op("read") \in Acts
  /\ Op("toggle") \in Acts /\ Op("bogus") \in Acts /\ [op |-> "exit with pid"] \in Acts
  /\ \A name \in Names, r \in Prio : Spawn(name, r) \in Acts
  /\ \A name \in Names : SpawnStd(name) \in Acts
  /\ Kill(0) \in Acts /\ \A i \in Nat \ {0} : KillKid(i) \in Acts
<1>1. MaxPid \in Nat
  BY MaxPidAssumption
<1>2. \A name \in Names, r \in Prio : Spawn(name, r) \in Acts
  BY DEF Spawn, Acts
<1>3. \A name \in Names : SpawnStd(name) \in Acts
  BY <1>2, LevelsAre DEF SpawnStd
<1>4. Kill(0) \in Acts
  <2>1. \A S : 0 \in S => [op |-> "kill", pid |-> 0] \in [op : {"kill"}, pid : S]
    OBVIOUS
  <2>2. 0 \in 0 .. MaxPid
    BY <1>1
  <2>3. [op |-> "kill", pid |-> 0] \in [op : {"kill"}, pid : 0 .. MaxPid]
    BY <2>1, <2>2
  <2> QED BY <2>3 DEF Kill, Acts
<1>5. \A i \in Nat \ {0} : KillKid(i) \in Acts
  BY DEF KillKid, Acts
<1> QED BY <1>2, <1>3, <1>4, <1>5 DEF Sleep, Wait, Op, Acts

\* Short scripts.
LEMMA ShortIn ==
  ASSUME NEW S
  PROVE  /\ \A a \in S : <<a>> \in Seq(S) /\ <<a>> # <<>>
         /\ \A a, b \in S : <<a, b>> \in Seq(S) /\ <<a, b>> # <<>>
         /\ \A a, b, c \in S : <<a, b, c>> \in Seq(S)
OBVIOUS

LEMMA CountsAre == Kids \in Nat /\ KidsI \in Nat /\ KidsJ \in Nat /\ Reps \in Nat
BY CountsAssumption

LEMMA LoopsAre ==
  /\ Acts \subseteq Ops /\ Exit(0) \in Ops /\ \A n \in 0 .. Kids : Exit(n) \in Ops
  /\ \A a \in Acts, u \in {"error", "no children", "never"} : Loop(<<a>>, u) \in Ops
  /\ Loop(<<Sleep, Wait>>, "no children") \in Ops
<1>1. \A a \in Acts : <<a>> \in Seq(Acts)
  BY ShortIn
<1>2. <<Sleep, Wait>> \in Seq(Acts)
  BY ActsAre, ShortIn
<1>3. \A n \in 0 .. Kids : Exit(n) \in Ops
  BY DEF Exit, Ops
<1>4. 0 \in 0 .. Kids
  BY CountsAre
<1> QED BY <1>1, <1>2, <1>3, <1>4 DEF Loop, Ops

\* The body of a loop, repeated.
LEMMA TimesIn ==
  ASSUME NEW S, NEW n \in Nat, NEW body \in Seq(S), body # <<>>
  PROVE  Times(n, body) \in Seq(S)
<1>1. PICK k \in Nat : k = Len(body) /\ k > 0
  OBVIOUS
<1>2. PICK m \in Nat : m = n * k
  OBVIOUS
<1>3. \A i \in 1 .. m : ((i - 1) % k) + 1 \in 1 .. k
  BY <1>1
<1>4. \A i \in 1 .. m : body[((i - 1) % k) + 1] \in S
  BY <1>1, <1>3
<1>5. Times(n, body) = [i \in 1 .. m |-> body[((i - 1) % k) + 1]]
  BY <1>1, <1>2 DEF Times
<1> QED BY <1>4, <1>5

LEMMA WiderIn == ASSUME NEW S, NEW T, S \subseteq T, NEW s \in Seq(S) PROVE s \in Seq(T)
OBVIOUS

LEMMA EntryIn ==
  ASSUME NEW S, NEW s \in Seq(S), NEW i \in Nat \ {0}, i <= Len(s)
  PROVE  s[i] \in S
OBVIOUS

LEMMA JoinIn ==
  ASSUME NEW S, NEW s \in Seq(S), NEW t \in Seq(S)
  PROVE  s \o t \in Seq(S)
OBVIOUS

\* The spawns that a program begins with.
LEMMA SpawnsIn ==
  ASSUME NEW n \in Nat
  PROVE  /\ \A name \in Names : Times(n, <<SpawnStd(name)>>) \in Seq(Acts)
         /\ \A name \in Names : Times(n, <<SpawnStd(name), Sleep>>) \in Seq(Acts)
         /\ \A x, y \in Names : Times(n, <<SpawnStd(x), SpawnStd(y)>>) \in Seq(Acts)
<1>1. \A a \in Acts : <<a>> \in Seq(Acts) /\ <<a>> # <<>>
  BY ShortIn
<1>2. \A a, b \in Acts : <<a, b>> \in Seq(Acts) /\ <<a, b>> # <<>>
  BY ShortIn
<1> QED BY <1>1, <1>2, ActsAre, TimesIn

Names2 == {"userW", "userX", "userY", "userZ"}
LEMMA ChildNames == Names2 \subseteq Names
BY DEF Names, Names2

\* What userI and userT do to the end, when their children are spawned and killed.
Ending(name) ==
  IF name = "userT" THEN <<Wait, Loop(<<Wait>>, "error"), Exit(0)>>
  ELSE <<Wait, Loop(<<Sleep, Wait>>, "no children"), Exit(0)>>

Collectors == {"userI", "userT"}

LEMMA EndingIn == \A name : Ending(name) \in Seq(Ops)
<1>1. Wait \in Ops /\ Exit(0) \in Ops /\ Loop(<<Wait>>, "error") \in Ops
      /\ Loop(<<Sleep, Wait>>, "no children") \in Ops
  BY LoopsAre, ActsAre
<1> QED BY <1>1, ShortIn DEF Ending

LEMMA JoinThree ==
  ASSUME NEW S, NEW f \in Seq(S), NEW a \in S, NEW b \in S, NEW c \in S
  PROVE  (f \o <<a, b>>) \o <<c>> = f \o <<a, b, c>>
OBVIOUS

LEMMA CollectorsBegin ==
  /\ \E front \in Seq(Acts) : userT = front \o Ending("userT")
  /\ \E front \in Seq(Acts) : userI = front \o Ending("userI")
<1>1. Times(Kids, <<SpawnStd("userW")>>) \in Seq(Acts) /\ Times(KidsI, <<SpawnStd("userW")>>) \in Seq(Acts)
  BY SpawnsIn, CountsAre, ChildNames DEF Names2
<1>2. <<Sleep>> \in Seq(Acts) /\ <<Sleep, KillKid(2), KillKid(4)>> \in Seq(Acts)
  <2>0. 2 \in Nat \ {0} /\ 4 \in Nat \ {0}
    OBVIOUS
  <2>1. KillKid(2) \in Acts /\ KillKid(4) \in Acts /\ Sleep \in Acts
    BY <2>0, ActsAre
  <2> QED BY <2>1, ShortIn
<1>3. userI = (Times(KidsI, <<SpawnStd("userW")>>) \o <<Sleep, KillKid(2), KillKid(4)>>) \o Ending("userI")
  BY DEF userI, Ending
<1> DEFINE f == Times(Kids, <<SpawnStd("userW")>>) \o <<Sleep>>
<1>4. userT = (f \o <<Wait, Loop(<<Wait>>, "error")>>) \o <<Exit(0)>>
  BY DEF userT, main6
<1>5. f \in Seq(Acts) /\ (Times(KidsI, <<SpawnStd("userW")>>) \o <<Sleep, KillKid(2), KillKid(4)>>) \in Seq(Acts)
  BY <1>1, <1>2, JoinIn
<1> HIDE DEF f
<1>6. f \in Seq(Ops)
  BY <1>5, LoopsAre, WiderIn
<1>7. userT = f \o Ending("userT")
  <2>1. Wait \in Ops /\ Exit(0) \in Ops /\ Loop(<<Wait>>, "error") \in Ops
    BY LoopsAre, ActsAre
  <2> QED BY <1>4, <1>6, <2>1, JoinThree DEF Ending
<1> QED BY <1>3, <1>5, <1>7

LEMMA SystemsIn == \A boot \in Boots : init(boot) \in Seq(Ops)
<1> SUFFICES ASSUME NEW boot \in Boots PROVE init(boot) \in Seq(Ops)
  OBVIOUS
<1>1. boot \in Seq(Names)
  BY BootsAssumption
<1> DEFINE n == Len(boot)
<1> DEFINE spawns == [i \in 1 .. n |-> Spawn(boot[i], IF boot[i] = "userV" THEN 0 ELSE User1)]
<1>2. n \in Nat /\ \A i \in 1 .. n : boot[i] \in Names
  BY <1>1
<1> HIDE DEF n
<1>3. \A i \in 1 .. n : Spawn(boot[i], IF boot[i] = "userV" THEN 0 ELSE User1) \in Ops
  BY <1>2, LevelsAre, ActsAre, LoopsAre
<1>4. spawns \in Seq(Ops)
  BY <1>2, <1>3
<1> HIDE DEF spawns
<1>5. <<Spawn("idle", PRIO_LOWEST)>> \in Seq(Ops)
  <2>1. Spawn("idle", PRIO_LOWEST) \in Ops
    BY LevelsAre, ActsAre, LoopsAre DEF Names
  <2> QED BY <2>1, ShortIn
<1>6. <<Wait, Loop(<<Wait>>, "never")>> \in Seq(Ops)
  <2>1. Wait \in Ops /\ Loop(<<Wait>>, "never") \in Ops
    BY ActsAre, LoopsAre
  <2> QED BY <2>1, ShortIn
<1> QED BY <1>4, <1>5, <1>6, JoinIn DEF init, spawns, n

\* A script that counts and exits.
LEMMA CountedIn ==
  ASSUME NEW n \in Nat
  PROVE  /\ \A a \in Acts : Times(n, <<a>>) \o <<Exit(0)>> \in Seq(Ops)
         /\ \A a, b \in Acts : Times(n, <<a, b>>) \o <<Exit(0)>> \in Seq(Ops)
<1>1. \A a \in Acts : Times(n, <<a>>) \in Seq(Ops)
  BY ShortIn, LoopsAre, TimesIn, WiderIn
<1>2. \A a, b \in Acts : Times(n, <<a, b>>) \in Seq(Ops)
  BY ShortIn, LoopsAre, TimesIn, WiderIn
<1>3. <<Exit(0)>> \in Seq(Ops)
  BY ShortIn, LoopsAre
<1> QED BY <1>1, <1>2, <1>3, JoinIn

LEMMA ScriptsIn == \A name \in Names : Script(name) \in Seq(Ops)
<1>0. /\ Acts \subseteq Ops /\ Exit(0) \in Ops /\ <<Exit(0)>> \in Seq(Ops) /\ <<>> \in Seq(Ops)
      /\ Sleep \in Acts /\ Op("toggle") \in Acts /\ Op("yield") \in Acts /\ Op("bogus") \in Acts
      /\ [op |-> "exit with pid"] \in Acts
      /\ \A name \in Names2 : SpawnStd(name) \in Acts
  <2>1. \A name \in Names2 : SpawnStd(name) \in Acts
    BY ActsAre, ChildNames
  <2>2. Acts \subseteq Ops /\ Exit(0) \in Ops /\ <<Exit(0)>> \in Seq(Ops)
    BY ShortIn, LoopsAre
  <2>3. <<>> \in Seq(Ops)
    OBVIOUS
  <2> QED BY <2>1, <2>2, <2>3, ActsAre
<1>1. main1 \in Seq(Ops) /\ main2 \in Seq(Ops) /\ idle \in Seq(Ops)
  BY <1>0 DEF main1, main2, idle
<1>2. main3 \in Seq(Ops) /\ userP \in Seq(Ops) /\ userW \in Seq(Ops) /\ userY \in Seq(Ops)
  BY <1>0, CountedIn, CountsAre DEF main3, userP, userW, userY
<1>3. main4 \in Seq(Ops)
  BY <1>0, CountedIn, CountsAre DEF main4, Names2
<1>4. userM \in Seq(Ops) /\ userN \in Seq(Ops)
  BY <1>0, CountedIn, CountsAre DEF userM, userN, main5, Names2
<1>5. userI \in Seq(Ops) /\ userT \in Seq(Ops)
  BY CollectorsBegin, EndingIn, LoopsAre, WiderIn, JoinIn
<1>6. userU \in Seq(Ops)
  <2>1. Times(Kids, <<SpawnStd("userW")>>) \in Seq(Ops) /\ <<Sleep>> \in Seq(Ops) /\ <<Kill(0)>> \in Seq(Ops)
    BY <1>0, SpawnsIn, CountsAre, ChildNames, ActsAre, ShortIn, WiderIn DEF Names2
  <2> QED BY <1>0, <2>1, JoinIn DEF userU, main6
<1>7. userH \in Seq(Ops)
  <2>1. Times(Kids, <<SpawnStd("userZ")>>) \in Seq(Ops) /\ <<Op("yield"), Exit(0)>> \in Seq(Ops)
    BY <1>0, SpawnsIn, CountsAre, ChildNames, ShortIn, WiderIn DEF Names2
  <2> QED BY <2>1, JoinIn DEF userH
<1>8. userJ \in Seq(Ops)
  BY <1>0, CountedIn, CountsAre DEF userJ, Names2
<1>9. userQ \in Seq(Ops) /\ userX \in Seq(Ops)
  BY <1>0, ShortIn DEF userQ, userX
<1>10. userR \in Seq(Ops) /\ userS \in Seq(Ops)
  <2>1. Loop(<<Op("read")>>, "never") \in Ops /\ Loop(<<Sleep>>, "never") \in Ops
    BY ActsAre, LoopsAre
  <2> QED BY <1>0, <2>1, ShortIn DEF userR, userS
<1>11. userV \in Seq(Ops) /\ userZ \in Seq(Ops)
  BY <1>0, CountedIn, CountsAre DEF userV, userZ
<1> QED BY <1>1, <1>2, <1>3, <1>4, <1>5, <1>6, <1>7, <1>8, <1>9, <1>10, <1>11 DEF Script, Names

-----------------------------------------------------------------------------
(***************************************************************************)
(* The invariant.  A process of userI or userT either has not waited since *)
(* its script says so, or waits, or has got an answer; and if that was an  *)
(* error it has no children.                                               *)
(***************************************************************************)
\* What userH still has to do from its i-th call on, when n of its spawns failed.
HelperLeft(i, n) ==
  [j \in 1 .. Kids + 3 - i |->
     IF i + j <= Kids + 1 THEN SpawnStd("userZ")
     ELSE IF i + j = Kids + 2 THEN Op("yield") ELSE Exit(n)]

HelperScript(s) ==
  s = <<>> \/ \E i \in 1 .. Kids + 2, n \in 0 .. Kids : n < i /\ s = HelperLeft(i, n)

ScriptsOK ==
  /\ script \in [Pcb -> Seq(Ops)] /\ kids \in [Pcb -> Seq(0 .. MaxPid)]
  /\ program \in [Pcb -> Names \cup {"none", "init"}] /\ program[InitPcb] = "init"
  /\ \A p \in Pcb : program[p] = "userH" => HelperScript(script[p])

LEMMA OneLeft == ASSUME NEW S, NEW s \in Seq(S), Len(s) = 1 PROVE Tail(s) = <<>> /\ s # <<>>
<1>1. s # <<>>
  BY EmptySeq
<1>2. Tail(s) \in Seq(S) /\ Len(Tail(s)) = 0
  BY <1>1, HeadTailProperties
<1> QED BY <1>1, <1>2, EmptySeq

LEMMA TwoBehind ==
  ASSUME NEW S, NEW s \in Seq(S), NEW t \in Seq(S), Len(t) = 2
  PROVE  /\ s \o t \in Seq(S) /\ Len(s \o t) = Len(s) + 2
         /\ \A i \in 1 .. Len(s) : (s \o t)[i] = s[i]
         /\ (s \o t)[Len(s) + 1] = t[1] /\ (s \o t)[Len(s) + 2] = t[2]
<1>1. PICK k \in Nat : k = Len(s)
  BY LenProperties
<1>2. /\ s \o t \in Seq(S) /\ Len(s \o t) = k + 2
      /\ \A i \in 1 .. k + 2 : (s \o t)[i] = IF i <= k THEN s[i] ELSE t[i - k]
  <2>1. /\ s \o t \in Seq(S) /\ Len(s \o t) = Len(s) + Len(t)
        /\ \A i \in 1 .. Len(s) + Len(t) : (s \o t)[i] = IF i <= Len(s) THEN s[i] ELSE t[i - Len(s)]
    BY ConcatProperties
  <2> QED BY <1>1, <2>1
<1>3. (s \o t)[k + 1] = t[1] /\ (s \o t)[k + 2] = t[2]
  <2>1. k + 1 \in 1 .. k + 2 /\ k + 2 \in 1 .. k + 2 /\ (k + 1) - k = 1 /\ (k + 2) - k = 2
    BY <1>1
  <2> QED BY <1>2, <2>1
<1> QED BY <1>1, <1>2, <1>3

LEMMA HelperIs ==
  ASSUME NEW i \in 1 .. Kids + 2, NEW n \in 0 .. Kids
  PROVE  /\ HelperLeft(i, n) \in Seq(Ops) /\ HelperLeft(i, n) # <<>>
         /\ Head(HelperLeft(i, n)).op # "loop"
         /\ Head(HelperLeft(i, n)).op = "spawn" <=> i <= Kids
         /\ Tail(HelperLeft(i, n)) = IF i = Kids + 2 THEN <<>> ELSE HelperLeft(i + 1, n)
<1> DEFINE s == HelperLeft(i, n)
<1>0. Kids \in Nat
  BY CountsAre
<1>1. SpawnStd("userZ") \in Ops /\ Op("yield") \in Ops /\ Exit(n) \in Ops
  BY ActsAre, LoopsAre, ChildNames DEF Names2
<1>2. s \in Seq(Ops) /\ Len(s) = Kids + 3 - i
  BY <1>0, <1>1 DEF HelperLeft
<1>3. Head(s) = IF i <= Kids THEN SpawnStd("userZ") ELSE IF i = Kids + 1 THEN Op("yield") ELSE Exit(n)
  BY <1>0 DEF HelperLeft
<1>4. Head(s).op = IF i <= Kids THEN "spawn" ELSE IF i = Kids + 1 THEN "yield" ELSE "exit"
  BY <1>3 DEF SpawnStd, Spawn, Op, Exit
<1>5. CASE i = Kids + 2
  <2> HIDE DEF s
  <2>1. Len(s) = 1
    BY <1>0, <1>2, <1>5
  <2>2. Tail(s) = <<>> /\ s # <<>>
    BY <1>2, <2>1, OneLeft
  <2> QED BY <1>0, <1>2, <1>4, <1>5, <2>2 DEF s
<1>6. CASE i # Kids + 2
  <2> DEFINE t == HelperLeft(i + 1, n)
  <2>1. t \in Seq(Ops) /\ Len(t) = Kids + 2 - i
    BY <1>0, <1>1, <1>6 DEF HelperLeft
  <2>2. Tail(s) \in Seq(Ops) /\ Len(Tail(s)) = Kids + 2 - i
    BY <1>0, <1>2, <1>6
  <2>3. \A j \in 1 .. Kids + 2 - i : Tail(s)[j] = s[j + 1]
    BY <1>0, <1>2, <1>6
  <2>4. \A j \in 1 .. Kids + 2 - i : s[j + 1] = t[j]
    BY <1>0, <1>6 DEF HelperLeft
  <2> HIDE DEF s, t
  <2>5. Tail(s) = t
    BY <1>0, <2>1, <2>2, <2>3, <2>4
  <2> QED BY <1>0, <1>2, <1>4, <1>6, <2>5 DEF s, t
<1> QED BY <1>5, <1>6

LEMMA HelperCounts ==
  ASSUME NEW i \in 1 .. Kids + 2, NEW n \in 0 .. Kids
  PROVE  CountFailed(HelperLeft(i, n)) = HelperLeft(i, n + 1)
<1> DEFINE m == Kids + 3 - i
           s == HelperLeft(i, n)
<1>0. Kids \in Nat /\ m \in Nat /\ m >= 1
  BY CountsAre
<1>1. s = [j \in 1 .. m |-> IF i + j <= Kids + 1 THEN SpawnStd("userZ")
                            ELSE IF i + j = Kids + 2 THEN Op("yield") ELSE Exit(n)]
  BY DEF HelperLeft
<1>2. Len(s) = m
  BY <1>0, <1>1
<1>3. s[m] = Exit(n)
  BY <1>0, <1>1
<1>4. s[m].status + 1 = n + 1
  BY <1>3 DEF Exit
<1>5. CountFailed(s) = [s EXCEPT ![m] = Exit(n + 1)]
  BY <1>2, <1>4 DEF CountFailed
<1>6. \A j \in 1 .. m : j = m <=> i + j > Kids + 2
  BY <1>0
<1>7. HelperLeft(i, n + 1) =
        [j \in 1 .. m |-> IF i + j <= Kids + 1 THEN SpawnStd("userZ")
                          ELSE IF i + j = Kids + 2 THEN Op("yield") ELSE Exit(n + 1)]
  BY DEF HelperLeft
<1> HIDE DEF s
<1>8. \A j \in 1 .. m : [s EXCEPT ![m] = Exit(n + 1)][j] = HelperLeft(i, n + 1)[j]
  <2> SUFFICES ASSUME NEW j \in 1 .. m
               PROVE  [s EXCEPT ![m] = Exit(n + 1)][j] = HelperLeft(i, n + 1)[j]
    OBVIOUS
  <2>1. CASE j = m
    BY <1>0, <1>1, <1>7, <2>1
  <2>2. CASE j # m
    <3>1. i + j <= Kids + 2
      BY <1>0, <1>6, <2>2
    <3> QED BY <1>0, <1>1, <1>7, <2>2, <3>1
  <2> QED BY <2>1, <2>2
<1> QED BY <1>1, <1>5, <1>7, <1>8 DEF s

\* userH begins with the spawns of all its children, none of them failed yet.
LEMMA HelperBegins == HelperScript(userH)
<1>0. Kids \in Nat
  BY CountsAre
<1> DEFINE a == SpawnStd("userZ")
           t == Times(Kids, <<a>>)
<1>1. \A i \in 1 .. Kids : ((i - 1) % 1) + 1 = 1
  BY <1>0
<1> HIDE DEF a
<1>2. Len(<<a>>) = 1 /\ <<a>>[1] = a /\ Kids * 1 = Kids
  BY <1>0
<1>3. t = [i \in 1 .. Kids |-> a]
  <2>1. t = [i \in 1 .. Kids |-> <<a>>[((i - 1) % 1) + 1]]
    BY <1>2 DEF Times
  <2> QED BY <1>1, <1>2, <2>1
<1>4. userH = t \o <<Op("yield"), Exit(0)>>
  BY DEF userH, a
<1> DEFINE e == <<Op("yield"), Exit(0)>>
<1>5. PICK S : S = {a, Op("yield"), Exit(0)}
  OBVIOUS
<1>6. t \in Seq(S) /\ Len(t) = Kids /\ e \in Seq(S) /\ Len(e) = 2 /\ e[1] = Op("yield") /\ e[2] = Exit(0)
  BY <1>0, <1>3, <1>5
<1>7. \A i \in 1 .. Kids : t[i] = a
  BY <1>3
<1> HIDE DEF t, e
<1>8. /\ t \o e \in Seq(S) /\ Len(t \o e) = Kids + 2
      /\ \A i \in 1 .. Kids : (t \o e)[i] = a
      /\ (t \o e)[Kids + 1] = Op("yield") /\ (t \o e)[Kids + 2] = Exit(0)
  BY <1>6, <1>7, TwoBehind
<1> DEFINE h == HelperLeft(1, 0)
<1>9. h = [j \in 1 .. Kids + 2 |-> IF 1 + j <= Kids + 1 THEN a
                                   ELSE IF 1 + j = Kids + 2 THEN Op("yield") ELSE Exit(0)]
  <2>1. Kids + 3 - 1 = Kids + 2
    BY <1>0
  <2> QED BY <2>1 DEF HelperLeft, a
<1> DEFINE u == t \o e
<1> HIDE DEF h, u
<1>10. h \in Seq(S) /\ Len(h) = Kids + 2
  BY <1>0, <1>5, <1>9
<1>11. u \in Seq(S) /\ Len(u) = Kids + 2
  BY <1>8 DEF u
<1>12. \A j \in 1 .. Kids + 2 : u[j] = h[j]
  <2> SUFFICES ASSUME NEW j \in 1 .. Kids + 2 PROVE u[j] = h[j]
    OBVIOUS
  <2>1. CASE j <= Kids
    BY <1>0, <1>8, <1>9, <2>1 DEF u
  <2>2. CASE j = Kids + 1
    BY <1>0, <1>8, <1>9, <2>2 DEF u
  <2>3. CASE j = Kids + 2
    BY <1>0, <1>8, <1>9, <2>3 DEF u
  <2> QED BY <1>0, <2>1, <2>2, <2>3
<1>13. u = h
  BY <1>0, <1>10, <1>11, <1>12
<1>14. 1 \in 1 .. Kids + 2 /\ 0 \in 0 .. Kids /\ 0 < 1
  BY <1>0
<1> QED BY <1>4, <1>13, <1>14 DEF HelperScript, u, e, h

\* Its script stays one of these, call by call, counted spawns included.
LEMMA HelperGoes ==
  ASSUME ScriptsOK, NEW name, Calling(name), current \in Pcb, program[current] = "userH"
  PROVE  /\ HelperScript(Tail(Todo(current)))
         /\ name = "spawn" => /\ HelperScript(CountFailed(Tail(Todo(current))))
                             /\ CountFailed(Tail(Todo(current))) \in Seq(Ops)
<1>0. Kids \in Nat
  BY CountsAre
<1>1. script[current] # <<>>
  BY DEF Calling, Todo
<1>2. PICK i \in 1 .. Kids + 2, n \in 0 .. Kids : n < i /\ script[current] = HelperLeft(i, n)
  BY <1>1 DEF ScriptsOK, HelperScript
<1>3. Todo(current) = HelperLeft(i, n)
  BY <1>2, HelperIs DEF Todo
<1>4. Tail(Todo(current)) = IF i = Kids + 2 THEN <<>> ELSE HelperLeft(i + 1, n)
  BY <1>3, HelperIs
<1>5. HelperScript(Tail(Todo(current)))
  <2>1. CASE i = Kids + 2
    BY <1>4, <2>1 DEF HelperScript
  <2>2. CASE i # Kids + 2
    <3>1. i + 1 \in 1 .. Kids + 2 /\ n < i + 1
      BY <1>0, <1>2, <2>2
    <3> QED BY <1>4, <2>2, <3>1 DEF HelperScript
  <2> QED BY <2>1, <2>2
<1>6. ASSUME name = "spawn"
      PROVE  /\ HelperScript(CountFailed(Tail(Todo(current))))
             /\ CountFailed(Tail(Todo(current))) \in Seq(Ops)
  <2>1. i <= Kids
    BY <1>3, <1>6, HelperIs DEF Calling
  <2>2. i + 1 \in 1 .. Kids + 2 /\ i # Kids + 2 /\ n + 1 \in 0 .. Kids /\ n + 1 < i + 1
    BY <1>0, <1>2, <2>1
  <2>3. CountFailed(Tail(Todo(current))) = HelperLeft(i + 1, n + 1)
    BY <1>4, <2>2, HelperCounts
  <2> QED BY <2>2, <2>3, HelperIs DEF HelperScript
<1> QED BY <1>5, <1>6

Answered(p) == state[p] # "Waiting" /\ reply[p].ret < 0 => Children(p) = {}

Collects(p) ==
  \/ script[p] = <<>>
  \/ \E front \in Seq(Acts) : script[p] = front \o Ending(program[p])
  \/ script[p] = Tail(Ending(program[p])) /\ Answered(p)

CollectInv ==
  \A p \in Pcb : /\ program[p] \in Collectors => Collects(p)
                 /\ state[p] = "Unused" => script[p] = <<>>

LEMMA TodoIn ==
  ASSUME ScriptsOK, NEW p \in Pcb
  PROVE  /\ Todo(p) \in Seq(Ops)
         /\ Todo(p) # <<>> => Head(Todo(p)) \in Ops /\ Tail(Todo(p)) \in Seq(Ops)
<1>1. script[p] \in Seq(Ops)
  BY DEF ScriptsOK
<1>2. CASE script[p] # <<>> /\ Head(script[p]).op = "loop"
  <2>1. Head(script[p]) \in Ops /\ Tail(script[p]) \in Seq(Ops)
    BY <1>1, <1>2
  <2>2. Head(script[p]).body \in Seq(Ops)
    BY <1>2, <2>1, OpsAre, LoopsAre, WiderIn
  <2>3. Todo(p) \in Seq(Ops)
    BY <1>1, <1>2, <2>1, <2>2, JoinIn DEF Todo
  <2> QED BY <2>3
<1>3. CASE ~(script[p] # <<>> /\ Head(script[p]).op = "loop")
  BY <1>1, <1>3 DEF Todo
<1> QED BY <1>2, <1>3

\* The call that is made is the head of what is to do.
LEMMA CalledIn ==
  ASSUME IInv, ScriptsOK, NEW name, Calling(name)
  PROVE  /\ Operand \in Ops /\ Operand.op = name
         /\ Called \in [Pcb -> Seq(Ops)] /\ Called = [script EXCEPT ![current] = Tail(Todo(current))]
         /\ current \in ptable /\ current \in Pcb /\ state[current] = "Running"
<1>1. current \in ptable /\ current \in Pcb /\ state[current] = "Running"
  BY CurrentFacts DEF Calling, SystemCall
<1>2. Todo(current) # <<>> /\ Operand \in Ops /\ Tail(Todo(current)) \in Seq(Ops)
  BY <1>1, TodoIn DEF Calling, Operand
<1> QED BY <1>1, <1>2 DEF Calling, Operand, Called, ScriptsOK

\* Each call of a program is one that Kernel allows.
LEMMA CallsAllowed ==
  ASSUME IInv, ScriptsOK, Call
  PROVE  ACall
<1>1. CASE spawn
  <2>1. sys_spawn_full \/ (sys_spawn(Operand.level, FreePcb) /\ FreePcb \in Pcb)
    BY <1>1 DEF spawn
  <2>2. Operand.level \in Prio
    BY <1>1, CalledIn, OpsAre DEF spawn
  <2> QED BY <2>1, <2>2 DEF ACall
<1>2. CASE sleep
  BY <1>2 DEF sleep, ACall
<1>3. CASE yield
  BY <1>3 DEF yield, ACall
<1>4. CASE wait
  BY <1>4 DEF wait, ACall
<1>5. CASE exit
  <2>1. sys_exit(Operand.status) /\ Operand.status \in 0 .. Kids
    BY <1>5, CalledIn, OpsAre DEF exit
  <2> QED BY <2>1, ExitsAssumption DEF ACall
<1>6. CASE exit_pid
  <2>1. sys_exit(pid[current]) /\ current \in ptable
    BY <1>6, CalledIn DEF exit_pid
  <2>2. pid[current] \in 1 .. MaxPid
    BY <2>1, TableFacts, MaxPidAssumption DEF IInv, TypeOK
  <2> QED BY <2>1, <2>2, ExitsAssumption DEF ACall
<1>7. CASE bogus
  BY <1>7, ExitsAssumption DEF bogus, ACall
<1>8. CASE kill
  <2>1. sys_kill(Operand.pid) /\ Operand.pid \in 0 .. MaxPid
    BY <1>8, CalledIn, OpsAre DEF kill
  <2> QED BY <2>1 DEF ACall
<1>9. CASE kill_kid
  <2>1. PICK n : /\ sys_kill(n)
                 /\ n \in IF Operand.kid <= Len(kids[current]) THEN {kids[current][Operand.kid]}
                          ELSE 0 .. MaxPid
    BY <1>9 DEF kill_kid
  <2>2. kids[current] \in Seq(0 .. MaxPid)
    BY <1>9, CalledIn DEF kill_kid, ScriptsOK
  <2>3. Operand \in Ops /\ Operand.op = "kill kid"
    BY <1>9, CalledIn DEF kill_kid
  <2>4. Operand.kid \in Nat \ {0}
    BY <2>3 DEF Ops, Acts
  <2>5. Operand.kid <= Len(kids[current]) => kids[current][Operand.kid] \in 0 .. MaxPid
    BY <2>2, <2>4, EntryIn
  <2>6. n \in 0 .. MaxPid
    BY <2>1, <2>5
  <2> QED BY <2>1, <2>6 DEF ACall
<1>10. CASE read
  BY <1>10 DEF read, ACall
<1>11. CASE toggle
  BY <1>11, LevelsAre DEF toggle, ACall
<1> QED BY <1>1, <1>2, <1>3, <1>4, <1>5, <1>6, <1>7, <1>8, <1>9, <1>10, <1>11 DEF Call

LEMMA ProgramsAllowed ==
  ASSUME IInv, ScriptsOK, [ProgramsNext]_allVars
  PROVE  [Next]_vars
<1>1. CASE Call
  BY <1>1, CallsAllowed DEF ACall, Next
<1>2. CASE Tick \/ Loops \/ Input
  BY <1>2 DEF Tick, Loops, Input, Next
<1>3. CASE UNCHANGED allVars
  BY <1>3 DEF allVars
<1> QED BY <1>1, <1>2, <1>3 DEF ProgramsNext

LEMMA ScriptsStart == ProgramsInit => ScriptsOK /\ CollectInv
<1> SUFFICES ASSUME ProgramsInit PROVE ScriptsOK /\ CollectInv
  OBVIOUS
<1>1. PICK boot \in Boots : script = [p \in Pcb |-> IF p = InitPcb THEN init(boot) ELSE <<>>]
  BY DEF ProgramsInit
<1>2. /\ program = [p \in Pcb |-> IF p = InitPcb THEN "init" ELSE "none"]
      /\ kids = [p \in Pcb |-> <<>>]
  BY DEF ProgramsInit
<1>3. init(boot) \in Seq(Ops) /\ <<>> \in Seq(Ops) /\ <<>> \in Seq(0 .. MaxPid)
  BY SystemsIn
<1>4. ScriptsOK
  <2>1. \A p \in Pcb : program[p] # "userH"
    BY <1>2
  <2> QED BY <1>1, <1>2, <1>3, <2>1, InitPcbAssumption DEF ScriptsOK
<1>5. state[InitPcb] = "Running"
  BY InitPcbAssumption DEF ProgramsInit, Init
<1> QED BY <1>1, <1>2, <1>4, <1>5 DEF CollectInv, Collectors

LEMMA FollowKeeps ==
  ASSUME IInv', NEW s \in [Pcb -> Seq(Ops)], NEW k \in [Pcb -> Seq(0 .. MaxPid)],
         NEW names \in [Pcb -> Names \cup {"none", "init"}], names[InitPcb] = "init",
         \A p \in Pcb : names[p] = "userH" => HelperScript(s[p]),
         Follow(s, k, names)
  PROVE  ScriptsOK'
<1>1. state'[InitPcb] # "Unused" /\ InitPcb \in Pcb
  BY InitPcbAssumption DEF IInv, TreeInv, Rooted
<1>2. <<>> \in Seq(Ops) /\ <<>> \in Seq(0 .. MaxPid)
  OBVIOUS
<1>3. script' \in [Pcb -> Seq(Ops)] /\ kids' \in [Pcb -> Seq(0 .. MaxPid)]
  BY <1>2 DEF Follow
<1>4. program' \in [Pcb -> Names \cup {"none", "init"}] /\ program'[InitPcb] = "init"
  BY <1>1 DEF Follow
<1>5. \A p \in Pcb : program'[p] = "userH" => HelperScript(script'[p])
  <2> SUFFICES ASSUME NEW p \in Pcb, program'[p] = "userH" PROVE HelperScript(script'[p])
    OBVIOUS
  <2>1. state'[p] # "Unused" /\ names[p] = "userH"
    BY DEF Follow
  <2>2. script'[p] = <<>> \/ script'[p] = s[p]
    BY DEF Follow
  <2> QED BY <2>1, <2>2 DEF HelperScript
<1>6. \A p \in Pcb : HelperScript(script[p])' = HelperScript(script'[p])
  BY DEF HelperScript, HelperLeft
<1> QED BY <1>3, <1>4, <1>5, <1>6 DEF ScriptsOK

\* What a call other than spawn does to the scripts; and spawn, refused or not.
Going == Follow(Called, kids, program)

Refusing == Follow(Refused, kids, program)

Spawning ==
  /\ FreePcb \in Pcb /\ state[FreePcb] = "Unused" /\ next_pid <= MaxPid
  /\ Follow([Called EXCEPT ![FreePcb] = Script(Operand.program)],
            [kids EXCEPT ![current] = IF program[current] = "userI"
                                      THEN Append(@, next_pid) ELSE @],
            [program EXCEPT ![FreePcb] = Operand.program])

LEMMA CallFollows ==
  Call => \E name : Calling(name) /\ (Going \/ (name = "spawn" /\ (Refusing \/ Spawning)))
BY DEF Call, spawn, sleep, yield, wait, exit, exit_pid, bogus, kill, kill_kid, read, toggle,
       Goes_on, Going, Refusing, Spawning, sys_spawn

LEMMA ScriptsStep ==
  ASSUME IInv, IInv', ScriptsOK, [ProgramsNext]_allVars
  PROVE  ScriptsOK'
<1>1. CASE Call
  <2>1. PICK name : Calling(name) /\ (Going \/ (name = "spawn" /\ (Refusing \/ Spawning)))
    BY <1>1, CallFollows
  <2>2. /\ Called \in [Pcb -> Seq(Ops)] /\ current \in Pcb
        /\ Operand \in Ops /\ Operand.op = name
    BY <2>1, CalledIn
  <2>0. Called = [script EXCEPT ![current] = Tail(Todo(current))]
    BY <2>1, CalledIn
  <2>5. \A p \in Pcb : program[p] = "userH" => HelperScript(Called[p])
    BY <2>0, <2>1, <2>2, HelperGoes DEF ScriptsOK
  <2>3. CASE Going
    BY <2>2, <2>3, <2>5, FollowKeeps DEF Going, ScriptsOK
  <2>6. CASE name = "spawn" /\ Refusing
    <3>1. CASE program[current] = "userH"
      <4>1. /\ HelperScript(CountFailed(Called[current]))
            /\ CountFailed(Called[current]) \in Seq(Ops)
        BY <2>0, <2>1, <2>2, <2>6, <3>1, HelperGoes DEF ScriptsOK
      <4>2. Refused = [Called EXCEPT ![current] = CountFailed(Called[current])]
        BY <3>1 DEF Refused
      <4>3. /\ Refused \in [Pcb -> Seq(Ops)]
            /\ \A p \in Pcb : program[p] = "userH" => HelperScript(Refused[p])
        <5> HIDE DEF Called, Refused, CountFailed, HelperScript
        <5> QED BY <2>2, <2>5, <4>1, <4>2
      <4> QED BY <2>6, <4>3, FollowKeeps DEF Refusing, ScriptsOK
    <3>2. CASE program[current] # "userH"
      BY <2>2, <2>5, <2>6, <3>2, FollowKeeps DEF Refusing, Refused, ScriptsOK
    <3> QED BY <3>1, <3>2
  <2>4. CASE name = "spawn" /\ Spawning
    <3>1. Operand.program \in Names /\ Script(Operand.program) \in Seq(Ops)
      BY <2>2, <2>4, OpsAre, ScriptsIn
    <3>2. FreePcb \in Pcb /\ FreePcb # InitPcb
      BY <2>4 DEF Spawning, IInv, TreeInv, Rooted
    <3>3. next_pid \in 0 .. MaxPid
      BY <2>4 DEF Spawning, IInv, TypeOK
    <3> DEFINE s == [Called EXCEPT ![FreePcb] = Script(Operand.program)]
               k == [kids EXCEPT ![current] = IF program[current] = "userI"
                                              THEN Append(@, next_pid) ELSE @]
               names == [program EXCEPT ![FreePcb] = Operand.program]
    <3>4. s \in [Pcb -> Seq(Ops)]
      BY <2>2, <3>1
    <3>5. kids[current] \in Seq(0 .. MaxPid) /\ Append(kids[current], next_pid) \in Seq(0 .. MaxPid)
      BY <2>2, <3>3 DEF ScriptsOK
    <3>6. k \in [Pcb -> Seq(0 .. MaxPid)]
      BY <2>2, <3>5 DEF ScriptsOK
    <3>7. names \in [Pcb -> Names \cup {"none", "init"}] /\ names[InitPcb] = "init"
      BY <3>1, <3>2 DEF ScriptsOK
    <3>8. Follow(s, k, names)
      BY <2>4 DEF Spawning
    <3>9. \A p \in Pcb : names[p] = "userH" => HelperScript(s[p])
      <4> SUFFICES ASSUME NEW p \in Pcb, names[p] = "userH" PROVE HelperScript(s[p])
        OBVIOUS
      <4>1. CASE p = FreePcb
        <5>1. Operand.program = "userH"
          BY <4>1 DEF ScriptsOK
        <5>2. s[p] = Script("userH")
          BY <2>2, <4>1, <5>1
        <5>3. Script("userH") = userH
          BY DEF Script
        <5> QED BY <5>2, <5>3, HelperBegins
      <4>2. CASE p # FreePcb
        BY <2>2, <2>5, <4>2 DEF ScriptsOK
      <4> QED BY <4>1, <4>2
    <3> HIDE DEF s, k, names
    <3> QED BY <3>4, <3>6, <3>7, <3>8, <3>9, FollowKeeps
  <2> QED BY <2>1, <2>3, <2>4, <2>6
<1>2. CASE Tick \/ Loops \/ Input
  BY <1>2, FollowKeeps DEF Tick, Loops, Input, ScriptsOK
<1>3. CASE UNCHANGED allVars
  BY <1>3 DEF allVars, programVars, ScriptsOK, HelperScript, HelperLeft
<1> QED BY <1>1, <1>2, <1>3 DEF ProgramsNext

\* Scripts of one to three entries, taken apart.
LEMMA OneEntry == ASSUME NEW a PROVE <<a>> # <<>> /\ Head(<<a>>) = a /\ Tail(<<a>>) = <<>>
OBVIOUS

LEMMA TwoEntries ==
  ASSUME NEW a, NEW b
  PROVE  <<a, b>> # <<>> /\ Head(<<a, b>>) = a /\ Tail(<<a, b>>) = <<b>>
OBVIOUS

LEMMA ThreeEntries ==
  ASSUME NEW a, NEW b, NEW c
  PROVE  /\ <<a, b, c>> # <<>> /\ Head(<<a, b, c>>) = a /\ Tail(<<a, b, c>>) = <<b, c>>
         /\ <<a>> \o <<b, c>> = <<a, b, c>>
<1>1. <<a, b, c>> # <<>> /\ Head(<<a, b, c>>) = a /\ Tail(<<a, b, c>>) = <<b, c>>
  OBVIOUS
<1>2. PICK S : S = {a, b, c}
  OBVIOUS
<1>3. <<a>> \in Seq(S) /\ <<b, c>> \in Seq(S) /\ <<a, b, c>> \in Seq(S)
  BY <1>2, ShortIn
<1> DEFINE s == <<a>> \o <<b, c>>
<1>4. /\ s \in Seq(S) /\ Len(s) = 3
      /\ \A i \in 1 .. 3 : s[i] = <<a, b, c>>[i]
  BY <1>3
<1> HIDE DEF s
<1>5. s = <<a, b, c>>
  BY <1>3, <1>4
<1> QED BY <1>1, <1>5 DEF s

LEMMA FourEntries ==
  ASSUME NEW a, NEW b, NEW c, NEW d
  PROVE  <<a, b>> \o <<c, d>> = <<a>> \o <<b, c, d>>
OBVIOUS

LEMMA FrontsAre ==
  ASSUME NEW S, NEW T, S \subseteq T, NEW f \in Seq(S), f # <<>>, NEW e \in Seq(T)
  PROVE  /\ f \o e # <<>> /\ Head(f \o e) = Head(f) /\ Head(f) \in S
         /\ Tail(f) \in Seq(S) /\ Tail(f \o e) = Tail(f) \o e
OBVIOUS

\* What is to do for a process of userI or userT.
LEMMA TodoIs ==
  ASSUME ScriptsOK, NEW p \in Pcb, program[p] \in Collectors, Collects(p), state[p] # "Waiting"
  PROVE  \/ Todo(p) = <<>>
         \/ \E front \in Seq(Acts) : front # <<>> /\ Todo(p) = front \o Ending(program[p])
         \/ Todo(p) = Ending(program[p])
         \/ Todo(p) = <<Exit(0)>> /\ Children(p) = {}
<1> DEFINE e == Ending(program[p])
<1>1. e \in Seq(Ops) /\ Wait \in Acts /\ Sleep \in Acts /\ Acts \subseteq Ops
  BY EndingIn, ActsAre, LoopsAre
<1>2. CASE script[p] = <<>>
  BY <1>2 DEF Todo
<1>3. ASSUME NEW front \in Seq(Acts), front # <<>>, script[p] = front \o e
      PROVE  Todo(p) = front \o e
  <2>1. Head(script[p]) \in Acts
    BY <1>1, <1>3, FrontsAre
  <2>2. Head(script[p]).op # "loop"
    BY <1>1, <2>1, OpsAre
  <2> QED BY <1>3, <2>2 DEF Todo
<1>4. ASSUME script[p] = e PROVE Todo(p) = e
  <2>1. e # <<>> /\ Head(e) = Wait
    BY ThreeEntries DEF Ending
  <2>2. Head(e).op # "loop"
    BY <2>1 DEF Wait, Op
  <2> QED BY <1>4, <2>2 DEF Todo
<1>5. CASE script[p] = Tail(e) /\ Answered(p)
  <2>1. CASE program[p] = "userT"
    <3> DEFINE l == Loop(<<Wait>>, "error")
    <3>0. l.op = "loop" /\ l.until = "error" /\ l.body = <<Wait>> /\ e = <<Wait, l, Exit(0)>>
      BY <2>1 DEF Loop, Ending
    <3> HIDE DEF l, e
    <3>1. Tail(e) = <<l, Exit(0)>> /\ e = <<Wait>> \o Tail(e)
      BY <3>0, ThreeEntries
    <3>2. script[p] # <<>> /\ Head(script[p]) = l /\ Tail(script[p]) = <<Exit(0)>>
      BY <1>5, <3>1, TwoEntries
    <3>3. /\ Head(script[p]).op = "loop" /\ Head(script[p]).until = "error"
          /\ Head(script[p]).body = <<Wait>>
      BY <3>0, <3>2
    <3>4. Done("error", reply[p].ret) => reply[p].ret < 0
      BY DEF Done
    <3>5. Done("error", reply[p].ret) => Children(p) = {}
      BY <1>5, <3>4 DEF Answered
    <3>6. Todo(p) = IF Done("error", reply[p].ret) THEN <<Exit(0)>> ELSE e
      BY <1>5, <3>1, <3>2, <3>3 DEF Todo
    <3> QED BY <3>5, <3>6 DEF e
  <2>2. CASE program[p] = "userI"
    <3> DEFINE l == Loop(<<Sleep, Wait>>, "no children")
    <3>0. /\ l.op = "loop" /\ l.until = "no children" /\ l.body = <<Sleep, Wait>>
          /\ e = <<Wait, l, Exit(0)>>
      BY <2>2 DEF Loop, Ending
    <3> HIDE DEF l, e
    <3>1. Tail(e) = <<l, Exit(0)>> /\ <<Sleep>> \o e = <<Sleep, Wait>> \o Tail(e)
      <4>1. Tail(e) = <<l, Exit(0)>>
        BY <3>0, ThreeEntries
      <4>2. <<Sleep, Wait>> \o <<l, Exit(0)>> = <<Sleep>> \o <<Wait, l, Exit(0)>>
        BY FourEntries
      <4> QED BY <3>0, <4>1, <4>2
    <3>2. script[p] # <<>> /\ Head(script[p]) = l /\ Tail(script[p]) = <<Exit(0)>>
      BY <1>5, <3>1, TwoEntries
    <3>3. /\ Head(script[p]).op = "loop" /\ Head(script[p]).until = "no children"
          /\ Head(script[p]).body = <<Sleep, Wait>>
      BY <3>0, <3>2
    <3>4. Done("no children", reply[p].ret) => reply[p].ret < 0
      BY DEF Done, E_NO_PROCS
    <3>5. Done("no children", reply[p].ret) => Children(p) = {}
      BY <1>5, <3>4 DEF Answered
    <3>6. Todo(p) = IF Done("no children", reply[p].ret) THEN <<Exit(0)>> ELSE <<Sleep>> \o e
      BY <1>5, <3>1, <3>2, <3>3 DEF Todo
    <3>7. <<Sleep>> \in Seq(Acts) /\ <<Sleep>> # <<>>
      BY <1>1, ShortIn
    <3> QED BY <3>5, <3>6, <3>7 DEF e
  <2> QED BY <2>1, <2>2 DEF Collectors
<1>6. ASSUME NEW front \in Seq(Acts), front = <<>> PROVE front \o e = e
  BY <1>1, <1>6
<1> HIDE DEF e
<1>7. CASE \E front \in Seq(Acts) : script[p] = front \o e
  <2>1. PICK front \in Seq(Acts) : script[p] = front \o e
    BY <1>7
  <2> QED BY <1>3, <1>4, <1>6, <2>1 DEF e
<1> QED BY <1>2, <1>5, <1>7 DEF Collects, e

\* A process that does not act keeps its place in its script, and its answer.
LEMMA OthersCollect ==
  ASSUME NEW p \in Pcb, Collects(p), Aside(p), script'[p] = script[p], program'[p] = program[p]
  PROVE  Collects(p)'
<1>1. Answered(p) => Answered(p)'
  BY DEF Answered, Aside
<1>2. Ending(program[p])' = Ending(program[p])
  BY DEF Ending
<1> QED BY <1>1, <1>2 DEF Collects

\* One that acts goes on in it.
LEMMA OwnCollect ==
  ASSUME IInv, ScriptsOK, NEW p \in Pcb, program[p] \in Collectors, Collects(p),
         p = current, state[p] = "Running", NEW name, Calling(name), Call,
         state'[p] \notin {"Unused", "Zombie"},
         script'[p] = Tail(Todo(p)), program'[p] = program[p]
  PROVE  Collects(p)'
<1> DEFINE e == Ending(program[p])
<1>0. e \in Seq(Ops) /\ Ending(program[p])' = e /\ Acts \subseteq Ops
  BY EndingIn, LoopsAre DEF Ending
<1>1. Todo(p) # <<>> /\ Head(Todo(p)).op = name
  BY DEF Calling
<1>2. ASSUME NEW front \in Seq(Acts), front # <<>>, Todo(p) = front \o e
      PROVE  Collects(p)'
  <2>1. Tail(front) \in Seq(Acts) /\ script'[p] = Tail(front) \o e
    BY <1>0, <1>2, FrontsAre
  <2> QED BY <1>0, <2>1 DEF Collects
<1>3. CASE Todo(p) = e
  <2>1. Head(e) = Wait /\ script'[p] = Tail(e)
    BY <1>3, ThreeEntries DEF Ending
  <2>2. name = "wait"
    BY <1>1, <1>3, <2>1 DEF Wait, Op
  <2>3. sys_wait
    BY <2>2 DEF Call, Calling, spawn, sleep, yield, wait, exit, exit_pid, bogus, kill, kill_kid,
                read, toggle
  <2>4. /\ reply \in [Pcb -> Replies] /\ pid \in [Pcb -> Nat]
        /\ \A z \in ptable : z \in Pcb /\ pid[z] >= 1
        /\ state \in [Pcb -> States]
    BY TableFacts DEF IInv, TypeOK
  <2>5. Answered(p)'
    <3>1. CASE sys_wait_no_children
      BY <3>1 DEF sys_wait_no_children, Answered, Children, tableVars
    <3>2. CASE sys_wait_block
      BY <2>4, <3>2 DEF sys_wait_block, Answered
    <3>3. ASSUME NEW z \in ptable, sys_wait_collect(z)
          PROVE  Answered(p)'
      <4>1. state[z] = "Zombie" /\ z # p /\ z \in Pcb /\ pid[z] >= 1 /\ pid[z] \in Nat
        BY <2>4, <3>3 DEF sys_wait_collect, Zombies
      <4>2. reply' = [reply EXCEPT ![current] = WaitAnswer(pid[z], exit_status[z]), ![z] = Answer(0)]
        BY <3>3 DEF sys_wait_collect
      <4>3. reply'[p].ret = pid[z]
        BY <2>4, <4>1, <4>2 DEF WaitAnswer
      <4> QED BY <4>1, <4>3 DEF Answered
    <3> QED BY <2>3, <3>1, <3>2, <3>3 DEF sys_wait
  <2> QED BY <1>0, <2>1, <2>5 DEF Collects
<1>4. CASE Todo(p) = <<Exit(0)>>
  <2>1. script'[p] = <<>>
    BY <1>4, OneEntry
  <2> QED BY <2>1 DEF Collects
<1> QED BY <1>1, <1>2, <1>3, <1>4, TodoIs

LEMMA CollectStep ==
  ASSUME KillSpares, IInv, IInv', ScriptsOK, ScriptsOK', CollectInv, ProgramsNext
  PROVE  CollectInv'
<1>0. /\ script \in [Pcb -> Seq(Ops)] /\ program \in [Pcb -> Names \cup {"none", "init"}]
      /\ \A p \in Pcb : p \in ptable <=> state[p] # "Unused"
      /\ \A p \in Pcb : program'[p] \in Collectors => p # InitPcb
  BY TableFacts DEF ScriptsOK, Collectors
<1>1. \A s, k, names : Follow(s, k, names) =>
        \A p \in Pcb : /\ state'[p] \in {"Unused", "Zombie"} => script'[p] = <<>>
                       /\ state'[p] \notin {"Unused", "Zombie"} => script'[p] = s[p]
                       /\ program'[p] \in Collectors => program'[p] = names[p]
  BY DEF Follow, Collectors
<1> SUFFICES ASSUME NEW p \in Pcb, program'[p] \in Collectors, state'[p] \notin {"Unused", "Zombie"}
             PROVE  Collects(p)'
  <2>1. \E s, k, names : Follow(s, k, names)
    BY CallFollows DEF ProgramsNext, Tick, Loops, Input, Going, Refusing, Spawning
  <2>2. \A p \in Pcb : state'[p] \in {"Unused", "Zombie"} => script'[p] = <<>>
    BY <1>1, <2>1
  <2> QED BY <2>2 DEF CollectInv, Collects
<1>2. ASSUME program'[p] = program[p], script'[p] = script[p], p \in ptable => Aside(p)
      PROVE  Collects(p)'
  <2>1. CASE p \in ptable
    BY <1>2, <2>1, OthersCollect DEF CollectInv
  <2>2. CASE p \notin ptable
    BY <1>0, <1>2, <2>2 DEF CollectInv, Collects
  <2> QED BY <2>1, <2>2
<1>3. CASE Tick \/ Loops \/ Input
  <2>1. Follow(script, kids, program)
    BY <1>3 DEF Tick, Loops, Input
  <2>2. clk_isr_tick \/ Clock \/ sio_isr_rx \/ Dispatch
    BY <1>3 DEF Tick, Loops, Input
  <2>3. p \in ptable => Aside(p)
    BY <1>0, <2>2, KernelAside
  <2> QED BY <1>1, <1>2, <2>1, <2>3
<1>4. CASE Call
  <2>1. PICK name : Calling(name) /\ (Going \/ (name = "spawn" /\ (Refusing \/ Spawning)))
    BY <1>4, CallFollows
  <2>2. /\ Called = [script EXCEPT ![current] = Tail(Todo(current))] /\ current \in Pcb
        /\ current \in ptable /\ state[current] = "Running" /\ Operand \in Ops /\ Operand.op = name
    BY <2>1, CalledIn
  <2>3. ASSUME script'[p] = Called[p], program'[p] = program[p]
        PROVE  Collects(p)'
    <3>1. CASE p = current
      <4>1. script'[p] = Tail(Todo(p))
        BY <1>0, <2>2, <2>3, <3>1
      <4> QED BY <1>4, <2>1, <2>2, <2>3, <3>1, <4>1, OwnCollect DEF CollectInv
    <3>2. CASE p # current
      <4>1. script'[p] = script[p]
        BY <1>0, <2>2, <2>3, <3>2
      <4>2. p \in ptable => Aside(p)
        BY <1>0, <1>4, <3>2, CallsAllowed, CallAside
      <4> QED BY <1>2, <2>3, <4>1, <4>2
    <3> QED BY <3>1, <3>2
  <2>4. CASE Going
    BY <1>1, <2>3, <2>4 DEF Going
  <2>6. CASE Refusing
    <3>1. program'[p] = program[p] /\ script'[p] = Refused[p]
      BY <1>1, <2>6 DEF Refusing
    <3>2. program[p] # "userH" /\ Called \in [Pcb -> Seq(Ops)]
      BY <2>1, <3>1, CalledIn DEF Collectors
    <3>3. Refused[p] = Called[p]
      <4>1. CASE p = current
        BY <3>2, <4>1 DEF Refused
      <4>2. CASE p # current
        BY <2>2, <3>2, <4>2 DEF Refused
      <4> QED BY <4>1, <4>2
    <3> QED BY <2>3, <3>1, <3>3
  <2>5. CASE name = "spawn" /\ Spawning
    <3> DEFINE s == [Called EXCEPT ![FreePcb] = Script(Operand.program)]
               k == [kids EXCEPT ![current] = IF program[current] = "userI"
                                              THEN Append(@, next_pid) ELSE @]
               names == [program EXCEPT ![FreePcb] = Operand.program]
    <3>0. Follow(s, k, names)
      BY <2>5 DEF Spawning
    <3>1. script'[p] = s[p] /\ program'[p] = names[p]
      <4> HIDE DEF s, k, names
      <4> QED BY <1>1, <3>0
    <3>2. CASE p = FreePcb
      <4>1. program'[p] = Operand.program /\ script'[p] = Script(program'[p])
        BY <1>0, <2>2, <3>1, <3>2
      <4>2. \E front \in Seq(Acts) : script'[p] = front \o Ending(program'[p])
        BY <4>1, CollectorsBegin DEF Collectors, Script
      <4> QED BY <4>2 DEF Collects
    <3>3. CASE p # FreePcb
      BY <1>0, <2>2, <2>3, <3>1, <3>3
    <3> QED BY <3>2, <3>3
  <2> QED BY <2>1, <2>4, <2>5, <2>6
<1> QED BY <1>3, <1>4 DEF ProgramsNext

ProgramsInv == IInv /\ ScriptsOK /\ CollectInv

LEMMA ProgramsStep ==
  ASSUME KillSpares, ProgramsInv, [ProgramsNext]_allVars
  PROVE  ProgramsInv' /\ [Next]_vars
<1>1. [Next]_vars
  BY ProgramsAllowed DEF ProgramsInv
<1>2. IInv'
  BY <1>1, NextIInv DEF ProgramsInv
<1>3. ScriptsOK'
  BY <1>2, ScriptsStep DEF ProgramsInv
<1>4. CASE UNCHANGED allVars
  <2>1. CollectInv' = CollectInv
    BY <1>4 DEF allVars, vars, programVars, CollectInv, Collects, Answered, Ending, Children
  <2> QED BY <1>1, <1>2, <1>3, <2>1 DEF ProgramsInv
<1>5. CASE ProgramsNext
  BY <1>1, <1>2, <1>3, <1>5, CollectStep DEF ProgramsInv
<1> QED BY <1>4, <1>5

LEMMA ProgramsStart == ProgramsInit => ProgramsInv /\ Init
BY ScriptsStart, InitIInv DEF ProgramsInit, ProgramsInv

\* The programs of userland/ do what Kernel allows to any program, so whatever is
\* proved about Kernel holds when it runs them: they exit, spawn and kill with values
\* that it knows, and only the current process calls.
THEOREM ProgramsKeepToKernel ==
  ASSUME KillSpares
  PROVE  ProgramsSpec => Spec /\ []ProgramsInv
BY ProgramsStart, ProgramsStep, PTL DEF ProgramsSpec, Spec

\* userI and userT exit when they have no children (userI.c, main6.c), with any
\* number of children, of which some were refused, killed or collected before.
THEOREM ChildrenAreCollected ==
  ASSUME KillSpares
  PROVE  ProgramsSpec => ChildrenCollected
<1>1. ASSUME ProgramsInv, exit, NEW p \in Pcb, program[p] \in Collectors, state[p] = "Running"
      PROVE  Children(p) = {}
  <2>1. p = current
    BY <1>1 DEF ProgramsInv, IInv, Placement, OneRunning
  <2>2. Todo(p) # <<>> /\ Head(Todo(p)).op = "exit"
    BY <1>1, <2>1 DEF exit, Calling
  <2>3. ASSUME NEW front \in Seq(Acts), front # <<>>, Todo(p) = front \o Ending(program[p])
        PROVE  FALSE
    <3>0. Ending(program[p]) \in Seq(Ops) /\ Acts \subseteq Ops
      BY EndingIn, LoopsAre
    <3>1. Head(Todo(p)) \in Acts /\ Acts \subseteq Ops
      BY <2>3, <3>0, FrontsAre
    <3> QED BY <2>2, <3>1, OpsAre
  <2>4. ASSUME Todo(p) = Ending(program[p]) PROVE FALSE
    <3>1. Head(Todo(p)) = Wait
      BY <2>4, ThreeEntries DEF Ending
    <3> QED BY <2>2, <3>1 DEF Wait, Op
  <2> QED BY <1>1, <2>2, <2>3, <2>4, TodoIs DEF ProgramsInv, CollectInv
<1>2. ProgramsInv /\ [ProgramsNext]_allVars =>
        [\A p \in Pcb : program[p] \in {"userI", "userT"} /\ state[p] = "Running" /\ exit
                          => Children(p) = {}]_allVars
  BY <1>1 DEF Collectors
<1> QED BY <1>2, ProgramsKeepToKernel, PTL DEF ProgramsSpec, ChildrenCollected
=============================================================================
