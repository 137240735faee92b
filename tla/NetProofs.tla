----------------------------- MODULE NetProofs -----------------------------
(***************************************************************************)
(* Proofs about the ethernet driver and the network system calls, for any  *)
(* number of processes, commands, slots and frames and any size of the     *)
(* ring.                                                                   *)
(*                                                                         *)
(* The driver's queue, the nodes, the queue of processes and the slots are *)
(* one invariant, CallersInv: each step that touches one of them relies on *)
(* the others.  A command that is issued takes the first free node, which  *)
(* is free only because the nodes in use are those of the outstanding      *)
(* commands; the process that goes behind the queue of processes is not in *)
(* it only because every blocked process is in one place.  ServedInv, what *)
(* the bits of the status byte say of the device, rests on it and on a     *)
(* device that is quiet between the handler's two accesses.                *)
(***************************************************************************)
EXTENDS SysNet, ListFacts

-----------------------------------------------------------------------------
(***************************************************************************)
(* Sequences and numbers                                                   *)
(***************************************************************************)

LEMMA Remainder ==
  ASSUME NEW b \in Nat, b >= 1, NEW a \in Nat, a <= 2 * b
  PROVE  a % b \in 0 .. b - 1
OBVIOUS

-----------------------------------------------------------------------------
(***************************************************************************)
(* The commands                                                            *)
(***************************************************************************)

Blocks == TxLengths \cup {AddrLength, EmptyLength, ArpLength}

LEMMA BlocksFit == Blocks \subseteq 1 .. CBL_SIZE /\ CBL_SIZE \in Nat /\ CBL_SIZE >= 1
BY RingAssumption, BlockAssumption, NetAssumption DEF Blocks

Node == [index : Nat, size : 0 .. CBL_SIZE, id : Ids \cup {0}, serial : Nat]

RingInv ==
  /\ CBL_start \in 0 .. CBL_SIZE /\ CBL_end \in 0 .. CBL_SIZE + 1
  /\ commands \in [Nodes -> Node]

\* The driver's queue: a command waits only behind the one that is run.
LineInv ==
  /\ current_cmd \in Nodes \cup {0} /\ cu_waiting \in Seq(Nodes) /\ CU_BUSY \in BOOLEAN
  /\ CU_BUSY <=> current_cmd # 0
  /\ current_cmd = 0 => cu_waiting = <<>>

\* The numbers of the outstanding commands, and whose the nodes in use are.
NumbersInv == issued \in Nat /\ done \in Nat /\ CommandsInOrder
NodesInv   == IsInjective(Outstanding) /\ ToSet(Outstanding) = used

OrderInv == RingInv /\ LineInv /\ NumbersInv /\ NodesInv

commandVars == <<ringVars, commands, used, current_cmd, cu_waiting, CU_BUSY, issued, done>>

LEMMA OutstandingSeq == LineInv => Outstanding \in Seq(Nodes)
<1> SUFFICES ASSUME LineInv PROVE Outstanding \in Seq(Nodes)
  OBVIOUS
<1>1. current_cmd \in Nodes \cup {0} /\ cu_waiting \in Seq(Nodes)
  BY DEF LineInv
<1>2. CASE current_cmd = 0
  <2>1. Outstanding = <<>> \o cu_waiting
    BY <1>2 DEF Outstanding
  <2> QED BY <2>1, <1>1
<1>3. CASE current_cmd # 0
  <2>1. Outstanding = <<current_cmd>> \o cu_waiting
    BY <1>3 DEF Outstanding
  <2> QED BY <2>1, <1>1, <1>3
<1> QED BY <1>2, <1>3

\* A command joins the queue behind the others.
LEMMA QueueGrows ==
  ASSUME LineInv, NEW n \in Nodes, Issue(n)
  PROVE  LineInv' /\ Outstanding' = Append(Outstanding, n)
<1>0. n # 0 /\ 0 \notin Nodes
  BY RingAssumption DEF Nodes
<1>1. current_cmd \in Nodes \cup {0} /\ cu_waiting \in Seq(Nodes) /\ CU_BUSY \in BOOLEAN
  BY DEF LineInv
<1>2. CASE CU_BUSY
  <2>1. cu_waiting' = Append(cu_waiting, n) /\ UNCHANGED <<CU_BUSY, current_cmd>> /\ current_cmd # 0
    BY <1>2 DEF Issue, LineInv
  <2>2. Outstanding = <<current_cmd>> \o cu_waiting /\ Outstanding' = <<current_cmd>> \o Append(cu_waiting, n)
    BY <2>1, Zenon DEF Outstanding
  <2>3. <<current_cmd>> \o Append(cu_waiting, n) = Append(<<current_cmd>> \o cu_waiting, n)
    BY <1>1, <2>1
  <2>4. cu_waiting' \in Seq(Nodes)
    BY <1>1, <2>1
  <2>5. LineInv'
    BY <2>1, <2>4, <1>2, Zenon DEF LineInv
  <2> QED BY <2>2, <2>3, <2>5
<1>3. CASE ~CU_BUSY
  <2>1. CU_BUSY' = TRUE /\ current_cmd' = n /\ cu_waiting' = cu_waiting
    BY <1>3 DEF Issue
  <2>2. current_cmd = 0 /\ cu_waiting = <<>>
    BY <1>3 DEF LineInv
  <2>3. Outstanding = <<>> \o <<>> /\ Outstanding' = <<n>> \o <<>>
    BY <2>1, <2>2, <1>0, Zenon DEF Outstanding
  <2>4. <<>> \o <<>> = <<>> /\ <<n>> \o <<>> = <<n>> /\ Append(<<>>, n) = <<n>>
    OBVIOUS
  <2>5. LineInv'
    BY <2>1, <2>2, <1>0 DEF LineInv
  <2> QED BY <2>3, <2>4, <2>5
<1> QED BY <1>1, <1>2, <1>3

\* The command that was run leaves it.
LEMMA QueueShrinks ==
  ASSUME LineInv, current_cmd # 0, StartNext
  PROVE  /\ LineInv' /\ Outstanding # <<>>
         /\ Head(Outstanding) = current_cmd /\ Outstanding' = Tail(Outstanding)
<1>0. 0 \notin Nodes
  BY RingAssumption DEF Nodes
<1>1. current_cmd \in Nodes /\ cu_waiting \in Seq(Nodes) /\ CU_BUSY = TRUE
  BY DEF LineInv
<1>2. Outstanding = <<current_cmd>> \o cu_waiting
  BY Zenon DEF Outstanding
<1>3. /\ <<current_cmd>> \o cu_waiting # <<>>
      /\ Head(<<current_cmd>> \o cu_waiting) = current_cmd
      /\ Tail(<<current_cmd>> \o cu_waiting) = cu_waiting
  BY <1>1
<1>4. LineInv' /\ Outstanding' = cu_waiting
  <2>1. CASE cu_waiting # <<>>
    <3>1. /\ current_cmd' = Head(cu_waiting) /\ cu_waiting' = Tail(cu_waiting)
          /\ CU_BUSY' = CU_BUSY
      BY <2>1 DEF StartNext
    <3>2. /\ Head(cu_waiting) \in Nodes /\ Tail(cu_waiting) \in Seq(Nodes)
          /\ <<Head(cu_waiting)>> \o Tail(cu_waiting) = cu_waiting
      BY <1>1, <2>1
    <3>3. Outstanding' = <<Head(cu_waiting)>> \o Tail(cu_waiting)
      BY <1>0, <3>1, <3>2, Zenon DEF Outstanding
    <3>4. LineInv'
      BY <1>0, <1>1, <3>1, <3>2, Zenon DEF LineInv
    <3> QED BY <3>2, <3>3, <3>4
  <2>2. CASE cu_waiting = <<>>
    <3>1. current_cmd' = 0 /\ CU_BUSY' = FALSE /\ cu_waiting' = <<>>
      BY <2>2 DEF StartNext
    <3>2. Outstanding' = <<>> \o <<>>
      BY <3>1, Zenon DEF Outstanding
    <3>3. <<>> \o <<>> = <<>>
      OBVIOUS
    <3>4. LineInv'
      BY <3>1, <1>1, <2>2, Zenon DEF LineInv
    <3> QED BY <3>2, <3>3, <3>4, <2>2
  <2> QED BY <2>1, <2>2
<1> QED BY <1>2, <1>3, <1>4

LEMMA FreeNodeIs == used # Nodes /\ used \subseteq Nodes => FreeNode \in Nodes \ used
<1> HAVE used # Nodes /\ used \subseteq Nodes
<1>0. Nodes \subseteq Nat
  BY DEF Nodes
<1>1. Nodes \ used \in SUBSET Nat /\ Nodes \ used # {}
  BY <1>0
<1>2. \E n \in Nodes \ used : \A k \in Nodes \ used : n <= k
  BY <1>1, Least
<1> QED BY <1>2, Zenon DEF FreeNode

\* The commands of s carry the numbers after d up to i; one more, and one less.
Numbered(s, c, i, d) == Len(s) = i - d /\ \A k \in 1 .. Len(s) : c[s[k]].serial = d + k

LEMMA NumbersMore ==
  \A s \in Seq(Nodes), n \in Nodes, i \in Nat, d \in Nat : \A c, c1 :
    /\ n \notin ToSet(s) /\ Numbered(s, c, i, d)
    /\ \A k \in Nodes \ {n} : c1[k] = c[k]
    /\ c1[n].serial = i + 1
    => Numbered(Append(s, n), c1, i + 1, d)
<1> TAKE s \in Seq(Nodes), n \in Nodes, i \in Nat, d \in Nat
<1> TAKE c, c1
<1> HAVE /\ n \notin ToSet(s) /\ Numbered(s, c, i, d)
         /\ \A k \in Nodes \ {n} : c1[k] = c[k]
         /\ c1[n].serial = i + 1
<1> DEFINE t == Append(s, n)
<1>1. PICK m \in Nat : m = Len(s)
  OBVIOUS
<1>0. m = i - d /\ \A k \in 1 .. m : c[s[k]].serial = d + k
  BY <1>1 DEF Numbered
<1>2. /\ Len(t) = m + 1 /\ t[m + 1] = n
      /\ \A k \in 1 .. m : t[k] = s[k] /\ s[k] \in Nodes \ {n}
  BY <1>1 DEF ToSet
<1> HIDE DEF t
<1>3. \A k \in 1 .. m : c1[t[k]].serial = d + k
  <2> TAKE k \in 1 .. m
  <2>1. t[k] = s[k] /\ c1[s[k]] = c[s[k]]
    BY <1>2, Zenon
  <2>2. c[s[k]].serial = d + k
    BY <1>0, Zenon
  <2> QED BY <2>1, <2>2, Zenon
<1>4. c1[t[m + 1]].serial = d + (m + 1)
  <2>1. c1[t[m + 1]].serial = i + 1
    BY <1>2, Zenon
  <2> QED BY <2>1, <1>0
<1>5. \A k \in 1 .. m + 1 : k \in 1 .. m \/ k = m + 1
  OBVIOUS
<1>6. \A k \in 1 .. m + 1 : c1[t[k]].serial = d + k
  BY <1>3, <1>4, <1>5, Zenon
<1>7. m + 1 = (i + 1) - d
  BY <1>0
<1> QED BY <1>2, <1>6, <1>7, Zenon DEF t, Numbered

LEMMA NumbersLess ==
  \A s \in Seq(Nodes), i \in Nat, d \in Nat : \A c :
    s # <<>> /\ Numbered(s, c, i, d)
    => c[Head(s)].serial = d + 1 /\ Numbered(Tail(s), c, i, d + 1)
<1> TAKE s \in Seq(Nodes), i \in Nat, d \in Nat
<1> TAKE c
<1> HAVE s # <<>> /\ Numbered(s, c, i, d)
<1>1. PICK m \in Nat : m = Len(s) /\ m # 0
  OBVIOUS
<1>0. m = i - d /\ \A k \in 1 .. m : c[s[k]].serial = d + k
  BY <1>1 DEF Numbered
<1>2. /\ Head(s) = s[1] /\ Len(Tail(s)) = m - 1
      /\ \A k \in 1 .. m - 1 : Tail(s)[k] = s[k + 1]
  BY <1>1
<1>3. 1 \in 1 .. m /\ m - 1 = i - (d + 1)
      /\ \A k \in 1 .. m - 1 : k + 1 \in 1 .. m /\ d + (k + 1) = (d + 1) + k
  BY <1>0, <1>1
<1> QED BY <1>0, <1>2, <1>3, ZenonT(60) DEF Numbered

LEMMA NumberedIs == CommandsInOrder <=> Numbered(Outstanding, commands, issued, done)
BY DEF CommandsInOrder, Numbered

LEMMA OrderAside == OrderInv /\ UNCHANGED commandVars => OrderInv'
BY DEF OrderInv, commandVars, ringVars, RingInv, LineInv, NumbersInv, CommandsInOrder, NodesInv, Outstanding

\* The queue with one more command, for id, and with its first one less.
Joins(n, id) ==
  /\ n \in Nodes /\ n \notin ToSet(Outstanding) /\ Outstanding' = Append(Outstanding, n)
  /\ \A k \in Nodes \ {n} : commands'[k] = commands[k]
  /\ commands'[n].id = id

Leaves ==
  /\ Outstanding # <<>> /\ Head(Outstanding) = current_cmd
  /\ Outstanding' = Tail(Outstanding) /\ commands' = commands

LEMMA PositionIs ==
  ASSUME RingInv, NEW len \in Blocks
  PROVE  /\ Position(len) \in 0 .. CBL_SIZE + 1
         /\ Position(len) + len + (len % 2) \in 0 .. CBL_SIZE + 1
<1>1. len \in 1 .. CBL_SIZE /\ len % 2 \in 0 .. 1 /\ CBL_SIZE \in Nat
  BY BlocksFit
<1>2. PICK r \in 0 .. 1 : r = len % 2
  BY <1>1
<1> QED BY <1>1, <1>2 DEF Position, Wraps, RingInv

LEMMA CommandIssued ==
  ASSUME OrderInv, NEW len \in Blocks, NEW id \in Ids \cup {0}, eth_issue(len, id), done' = done
  PROVE  OrderInv' /\ Joins(FreeNode, id)
<1> USE DEF OrderInv
<1>1. Outstanding \in Seq(Nodes)
  BY OutstandingSeq
<1>2. FreeNode \in Nodes \ used
  <2>1. used \subseteq Nodes
    BY <1>1 DEF NodesInv, ToSet
  <2> QED BY <2>1, FreeNodeIs DEF eth_issue
<1>3. PICK n \in Nodes : n = FreeNode /\ n \notin ToSet(Outstanding)
  BY <1>2 DEF NodesInv
<1>4. LineInv' /\ Outstanding' = Append(Outstanding, n)
  BY <1>3, QueueGrows, Zenon DEF eth_issue
<1>5. PICK x \in Node :
        /\ x.id = id /\ x.serial = issued + 1
        /\ commands' = [commands EXCEPT ![n] = x]
  <2> DEFINE x == [index |-> Position(len), size |-> len, id |-> id, serial |-> issued']
  <2>1. x \in Node
    <3>1. Position(len) \in Nat
      BY PositionIs
    <3>2. issued' \in Nat
      BY DEF eth_issue, NumbersInv
    <3>3. len \in 0 .. CBL_SIZE
      BY BlocksFit
    <3> QED BY <3>1, <3>2, <3>3 DEF Node
  <2>2. commands' = [commands EXCEPT ![n] = x] /\ x.serial = issued + 1
    BY <1>3 DEF eth_issue
  <2> QED BY <2>1, <2>2
<1>6. /\ commands' \in [Nodes -> Node] /\ commands'[n] = x
      /\ \A k \in Nodes \ {n} : commands'[k] = commands[k]
  BY <1>5 DEF RingInv
<1>7. RingInv'
  <2>1. CBL_start' = CBL_start /\ CBL_end' = Position(len) + len + (len % 2)
    BY DEF eth_issue
  <2> QED BY <1>6, <2>1, PositionIs DEF RingInv
<1>8. NumbersInv'
  <2>1. issued \in Nat /\ done \in Nat /\ issued' = issued + 1
    BY DEF NumbersInv, eth_issue
  <2>2. Numbered(Outstanding, commands, issued, done)
    BY NumberedIs DEF NumbersInv
  <2>3. commands'[n].serial = issued + 1
    BY <1>5, <1>6
  <2>4. \A k \in Nodes \ {n} : commands'[k] = commands[k]
    BY <1>6
  <2>5. Numbered(Append(Outstanding, n), commands', issued + 1, done)
    BY <1>1, <1>3, <2>1, <2>2, <2>3, <2>4, NumbersMore, Zenon
  <2>6. CommandsInOrder'
    BY <1>4, <2>1, <2>5, Zenon DEF CommandsInOrder, Numbered
  <2> QED BY <2>1, <2>6 DEF NumbersInv
<1>9. NodesInv'
  <2>1. used' = used \cup {n}
    BY <1>3, Zenon DEF eth_issue
  <2>2. /\ IsInjective(Append(Outstanding, n))
        /\ \A y : y \in ToSet(Append(Outstanding, n)) <=> y = n \/ y \in ToSet(Outstanding)
    BY <1>1, <1>3, QueueJoin, Zenon DEF NodesInv
  <2>3. ToSet(Append(Outstanding, n)) = used'
    BY <2>1, <2>2 DEF NodesInv
  <2> QED BY <1>4, <2>2, <2>3, Zenon DEF NodesInv
<1>10. Joins(n, id)
  BY <1>3, <1>4, <1>5, <1>6, Zenon DEF Joins
<1> QED BY <1>3, <1>4, <1>7, <1>8, <1>9, <1>10

\* A command that is refused, and one whose node is NULL, only move CBL_end.
LEMMA CommandFails ==
  ASSUME OrderInv, NEW len \in Blocks, eth_no_memory(len) \/ eth_no_node(len), done' = done
  PROVE  OrderInv' /\ Outstanding' = Outstanding /\ commands' = commands
<1>1. UNCHANGED <<CBL_start, commands, used, current_cmd, cu_waiting, CU_BUSY, issued, done>>
  BY DEF eth_no_memory, eth_no_node
<1>2. CBL_end' \in 0 .. CBL_SIZE + 1
  BY PositionIs DEF eth_no_memory, eth_no_node, OrderInv
<1>3. RingInv'
  BY <1>1, <1>2 DEF OrderInv, RingInv
<1>4. LineInv' /\ Outstanding' = Outstanding
  BY <1>1 DEF OrderInv, LineInv, Outstanding
<1>5. NumbersInv' /\ NodesInv'
  BY <1>1, <1>4 DEF OrderInv, NumbersInv, CommandsInOrder, NodesInv
<1> QED BY <1>1, <1>3, <1>4, <1>5 DEF OrderInv

LEMMA CommandDone ==
  ASSUME OrderInv, current_cmd # 0, eth_isr_command
  PROVE  OrderInv' /\ Leaves
<1> USE DEF OrderInv
<1>1. Outstanding \in Seq(Nodes) /\ current_cmd \in Nodes
  BY OutstandingSeq DEF LineInv
<1>2. LineInv' /\ Outstanding # <<>> /\ Head(Outstanding) = current_cmd /\ Outstanding' = Tail(Outstanding)
  BY QueueShrinks DEF eth_isr_command
<1>3. commands' = commands
  BY DEF eth_isr_command
<1>4. RingInv'
  <2>1. PICK size \in 0 .. CBL_SIZE : size = commands[current_cmd].size
    BY <1>1 DEF RingInv, Node
  <2>2. CBL_SIZE \in Nat /\ CBL_SIZE >= 1 /\ CBL_start \in 0 .. CBL_SIZE
    BY BlocksFit DEF RingInv
  <2>3. PICK sum \in Nat : sum = CBL_start + size /\ sum <= 2 * CBL_SIZE
    BY <2>1, <2>2
  <2>4. PICK rest \in 0 .. CBL_SIZE - 1 : rest = sum % CBL_SIZE
    BY <2>2, <2>3, Remainder
  <2>5. PICK odd \in 0 .. 1 : odd = size % 2
    BY <2>1
  <2>6. CBL_start' = rest + odd
    BY <2>1, <2>3, <2>4, <2>5, Zenon DEF eth_isr_command, FreedStart
  <2>7. CBL_start' \in 0 .. CBL_SIZE /\ CBL_end' = CBL_end
    BY <2>2, <2>4, <2>5, <2>6 DEF eth_isr_command
  <2> QED BY <1>3, <2>7 DEF RingInv
<1>5. NumbersInv'
  <2>1. /\ issued \in Nat /\ done \in Nat /\ issued' = issued
        /\ done' = commands[current_cmd].serial
    BY DEF NumbersInv, eth_isr_command
  <2>2. Numbered(Outstanding, commands, issued, done)
    BY NumberedIs DEF NumbersInv
  <2>3. /\ commands[Head(Outstanding)].serial = done + 1
        /\ Numbered(Tail(Outstanding), commands, issued, done + 1)
    BY <1>1, <1>2, <2>1, <2>2, NumbersLess, Zenon
  <2>4. done' = done + 1
    BY <1>2, <2>1, <2>3, Zenon
  <2>5. CommandsInOrder'
    BY <1>2, <1>3, <2>1, <2>3, <2>4, Zenon DEF CommandsInOrder, Numbered
  <2> QED BY <2>1, <2>4, <2>5 DEF NumbersInv
<1>6. NodesInv'
  <2>1. used' = used \ {current_cmd}
    BY DEF eth_isr_command, FreeCommand
  <2>2. /\ IsInjective(Tail(Outstanding))
        /\ \A y : y \in ToSet(Tail(Outstanding)) <=> y # Head(Outstanding) /\ y \in ToSet(Outstanding)
    BY <1>1, <1>2, QueueLeave, Zenon DEF NodesInv
  <2>3. ToSet(Tail(Outstanding)) = used'
    BY <1>2, <2>1, <2>2 DEF NodesInv
  <2> QED BY <1>2, <2>2, <2>3, Zenon DEF NodesInv
<1> QED BY <1>2, <1>3, <1>4, <1>5, <1>6 DEF Leaves

\* One element more at the end, and without the first one.
LEMMA AppendIs ==
  \A W : \A s \in Seq(W), e \in W, n \in Nat :
    n = Len(s) => /\ Len(Append(s, e)) = n + 1 /\ Append(s, e)[n + 1] = e
                  /\ \A i \in 1 .. n : Append(s, e)[i] = s[i]
OBVIOUS

LEMMA TailIs ==
  \A W : \A s \in Seq(W), n \in Nat :
    n + 1 = Len(s) => /\ s # <<>> /\ Len(Tail(s)) = n /\ Head(s) = s[1]
                      /\ \A i \in 1 .. n : Tail(s)[i] = s[i + 1]
OBVIOUS

-----------------------------------------------------------------------------
(***************************************************************************)
(* The queue of processes                                                  *)
(***************************************************************************)

\* The elements of A up to i.
Rank(A, i) == Cardinality({j \in A : j <= i})

LEMMA Counts ==
  ASSUME NEW n \in Nat, NEW A \in SUBSET (1 .. n)
  PROVE  /\ IsFiniteSet(A) /\ Cardinality(A) \in Nat
         /\ \A i \in A : Rank(A, i) \in 1 .. Cardinality(A)
<1>1. IsFiniteSet(1 .. n)
  BY FS_Interval
<1>2. IsFiniteSet(A) /\ Cardinality(A) \in Nat
  BY <1>1, FS_Subset, FS_CardinalityType
<1>3. ASSUME NEW i \in A PROVE Rank(A, i) \in 1 .. Cardinality(A)
  <2> DEFINE B == {j \in A : j <= i}
  <2>1. B \in SUBSET A /\ i \in B
    OBVIOUS
  <2> HIDE DEF B
  <2>2. IsFiniteSet(B) /\ Cardinality(B) <= Cardinality(A) /\ Cardinality(B) \in Nat
    BY <1>2, <2>1, FS_Subset, FS_CardinalityType
  <2>3. Cardinality(B) # 0
    BY <2>1, <2>2, FS_EmptySet
  <2>4. Cardinality(B) \in 1 .. Cardinality(A)
    BY <1>2, <2>2, <2>3
  <2> QED BY <2>4 DEF Rank, B
<1> QED BY <1>2, <1>3

\* One more element, greater than the others.
LEMMA CountsMore ==
  ASSUME NEW n \in Nat, NEW A \in SUBSET (1 .. n)
  PROVE  /\ Cardinality(A \cup {n + 1}) = Cardinality(A) + 1
         /\ \A i \in A : Rank(A \cup {n + 1}, i) = Rank(A, i)
         /\ Rank(A \cup {n + 1}, n + 1) = Cardinality(A) + 1
<1> DEFINE B == A \cup {n + 1}
<1>1. Cardinality(B) = Cardinality(A) + 1
  <2>1. IsFiniteSet(A) /\ n + 1 \notin A
    BY Counts
  <2> QED BY <2>1, FS_AddElement
<1>2. ASSUME NEW i \in A PROVE Rank(B, i) = Rank(A, i)
  <2>1. {j \in B : j <= i} = {j \in A : j <= i}
    OBVIOUS
  <2> QED BY <2>1, Zenon DEF Rank
<1>3. Rank(B, n + 1) = Cardinality(B)
  <2>1. \A j \in B : j <= n + 1
    OBVIOUS
  <2>2. {j \in B : j <= n + 1} = B
    BY <2>1
  <2> QED BY <2>2, Zenon DEF Rank
<1> QED BY <1>1, <1>2, <1>3

\* All but the first of n + 1, each moved up by one.
MovedUp(A, n) == {i \in 1 .. n : i + 1 \in A}

LEMMA CountsMoved ==
  ASSUME NEW n \in Nat, NEW A \in SUBSET (1 .. n + 1)
  PROVE  IF 1 \in A THEN Cardinality(MovedUp(A, n)) = Cardinality(A) - 1
                    ELSE Cardinality(MovedUp(A, n)) = Cardinality(A)
<1> DEFINE B == MovedUp(A, n)
           C == A \ {1}
           f == [i \in B |-> i + 1]
<1>1. IsFiniteSet(A) /\ Cardinality(A) \in Nat /\ B \in SUBSET (1 .. n)
  <2>1. n + 1 \in Nat /\ B \in SUBSET (1 .. n)
    BY DEF MovedUp
  <2> QED BY <2>1, Counts
<1>2. IsFiniteSet(B)
  BY <1>1, Counts
<1>3. f \in Bijection(B, C)
  <2>1. f \in [B -> C]
    BY DEF MovedUp
  <2>2. \A i, j \in B : f[i] = f[j] => i = j
    BY <1>1
  <2>3. \A c \in C : c - 1 \in B /\ f[c - 1] = c
    BY DEF MovedUp
  <2> HIDE DEF B, C, f
  <2>4. \A c \in C : \E i \in B : f[i] = c
    BY <2>3, Zenon
  <2> QED BY <2>1, <2>2, <2>4 DEF Bijection, Injection, Surjection, IsInjective
<1>4. Cardinality(C) = Cardinality(B)
  BY <1>2, <1>3, FS_Bijection DEF ExistsBijection
<1>5. Cardinality(C) = IF 1 \in A THEN Cardinality(A) - 1 ELSE Cardinality(A)
  BY <1>1, FS_RemoveElement
<1> QED BY <1>4, <1>5

LEMMA RankMoved ==
  ASSUME NEW n \in Nat, NEW A \in SUBSET (1 .. n + 1), NEW i \in MovedUp(A, n)
  PROVE  IF 1 \in A THEN Rank(MovedUp(A, n), i) = Rank(A, i + 1) - 1
                    ELSE Rank(MovedUp(A, n), i) = Rank(A, i + 1)
<1> DEFINE A1 == {j \in A : j <= i + 1}
<1>1. i \in 1 .. n /\ (1 \in A1 <=> 1 \in A) /\ A1 \in SUBSET (1 .. n + 1)
  <2>1. i \in 1 .. n
    BY DEF MovedUp
  <2>2. 1 <= i + 1
    BY <2>1
  <2> QED BY <2>1, <2>2
<1>2. MovedUp(A1, n) = {j \in MovedUp(A, n) : j <= i}
  BY <1>1 DEF MovedUp
<1>3. Rank(MovedUp(A, n), i) = Cardinality(MovedUp(A1, n)) /\ Rank(A, i + 1) = Cardinality(A1)
  BY <1>2, Zenon DEF Rank
<1> HIDE DEF A1
<1>4. IF 1 \in A1 THEN Cardinality(MovedUp(A1, n)) = Cardinality(A1) - 1
                  ELSE Cardinality(MovedUp(A1, n)) = Cardinality(A1)
  BY <1>1, CountsMoved, Zenon
<1> QED BY <1>1, <1>3, <1>4

\* The queue q of processes fits the commands s, whose nodes are in c.
Askings(s, c) == {i \in DOMAIN s : c[s[i]].id # 0}

Paired(q, s, c) ==
  /\ Len(q) = Cardinality(Askings(s, c))
  /\ \A i \in Askings(s, c) : q[Rank(Askings(s, c), i)] = c[s[i]].id

LEMMA StepIs == QueuesInStep <=> (~refused /\ ~fault => ~panic /\ Paired(cmd_q, Outstanding, commands))
<1>1. Askers = Askings(Outstanding, commands)
  BY Zenon DEF Askers, Asked, Askings
<1>2. \A i : AskersTo(i) = Rank(Askings(Outstanding, commands), i)
  BY <1>1, Zenon DEF AskersTo, Rank
<1> QED BY <1>1, <1>2, Zenon DEF QueuesInStep, Paired, Asked

LEMMA PairedMore ==
  \A s \in Seq(Nodes), n \in Nodes, q \in Seq(Pids) : \A c, c1, id :
    /\ Paired(q, s, c) /\ n \notin ToSet(s)
    /\ \A k \in Nodes \ {n} : c1[k] = c[k]
    /\ c1[n].id = id /\ id \in Pids \cup {0} /\ 0 \notin Pids
    => IF id = 0 THEN Paired(q, Append(s, n), c1)
                 ELSE Paired(Append(q, id), Append(s, n), c1)
<1> TAKE s \in Seq(Nodes), n \in Nodes, q \in Seq(Pids)
<1> TAKE c, c1, id
<1> HAVE /\ Paired(q, s, c) /\ n \notin ToSet(s)
         /\ \A k \in Nodes \ {n} : c1[k] = c[k]
         /\ c1[n].id = id /\ id \in Pids \cup {0} /\ 0 \notin Pids
<1> DEFINE t == Append(s, n)
           A == Askings(s, c)
<1>1. PICK m \in Nat : m = Len(s)
  OBVIOUS
<1>2. /\ DOMAIN s = 1 .. m /\ DOMAIN t = 1 .. m + 1 /\ t[m + 1] = n
      /\ \A k \in 1 .. m : t[k] = s[k] /\ s[k] \in Nodes \ {n}
  BY <1>1 DEF ToSet
<1> HIDE DEF t
<1>3. \A k \in 1 .. m : c1[t[k]] = c[s[k]]
  <2>1. \A k \in 1 .. m : c1[s[k]] = c[s[k]]
    BY <1>2, Zenon
  <2> QED BY <1>2, <2>1
<1>4. A \in SUBSET (1 .. m) /\ \A k \in 1 .. m : k \in A <=> c[s[k]].id # 0
  BY <1>2 DEF Askings
<1>5. Askings(t, c1) = IF id = 0 THEN A ELSE A \cup {m + 1}
  <2>1. c1[t[m + 1]].id = id /\ \A k \in 1 .. m : k \in Askings(t, c1) <=> k \in A
    BY <1>2, <1>3, <1>4 DEF Askings
  <2>2. m + 1 \in Askings(t, c1) <=> id # 0
    BY <1>2 DEF Askings
  <2>3. Askings(t, c1) \subseteq 1 .. m + 1 /\ m + 1 \notin 1 .. m
        /\ \A k \in 1 .. m + 1 : k \in 1 .. m \/ k = m + 1
    BY <1>2 DEF Askings
  <2> HIDE DEF A
  <2>4. CASE id = 0
    <3>1. \A k : k \in Askings(t, c1) <=> k \in A
      BY <1>4, <2>1, <2>2, <2>3, <2>4
    <3> QED BY <3>1, <2>4
  <2>5. CASE id # 0
    <3>1. \A k : k \in Askings(t, c1) <=> k \in A \cup {m + 1}
      BY <1>4, <2>1, <2>2, <2>3, <2>5
    <3> QED BY <3>1, <2>5
  <2> QED BY <2>4, <2>5
<1>6. \A i \in A : q[Rank(A, i)] = c1[t[i]].id
  BY <1>3, <1>4 DEF Paired
<1>7. PICK l \in Nat : l = Len(q) /\ l = Cardinality(A)
  BY DEF Paired
<1> HIDE DEF A
<1>8. CASE id = 0
  <2>1. Paired(q, t, c1)
    BY <1>5, <1>6, <1>7, <1>8 DEF Paired
  <2> QED BY <2>1, <1>8 DEF t
<1>9. CASE id # 0
  <2> DEFINE p == Append(q, id)
             B == A \cup {m + 1}
  <2>1. id \in Pids
    BY <1>9
  <2>2. Len(p) = l + 1 /\ p[l + 1] = id /\ \A r \in 1 .. l : p[r] = q[r]
    <3>1. q \in Seq(Pids) /\ id \in Pids /\ l \in Nat /\ l = Len(q)
      BY <1>7, <2>1
    <3>2. /\ Len(Append(q, id)) = l + 1 /\ Append(q, id)[l + 1] = id
          /\ \A r \in 1 .. l : Append(q, id)[r] = q[r]
      BY <3>1, AppendIs
    <3> QED BY <3>2
  <2>3. /\ Cardinality(B) = l + 1 /\ Rank(B, m + 1) = l + 1
        /\ \A i \in A : Rank(B, i) = Rank(A, i)
    BY <1>4, <1>7, CountsMore, ZenonT(60)
  <2>4. \A i \in A : Rank(A, i) \in 1 .. l
    BY <1>4, <1>7, Counts
  <2>5. c1[t[m + 1]].id = id
    BY <1>2
  <2> HIDE DEF p
  <2>6. \A i \in A : p[Rank(B, i)] = c1[t[i]].id
    BY <1>6, <2>2, <2>3, <2>4
  <2>7. p[Rank(B, m + 1)] = c1[t[m + 1]].id
    BY <2>2, <2>3, <2>5
  <2>8. Askings(t, c1) = B
    BY <1>5, <1>9
  <2>9. Len(p) = Cardinality(B) /\ \A i \in B : p[Rank(B, i)] = c1[t[i]].id
    BY <2>2, <2>3, <2>6, <2>7
  <2>10. Paired(p, t, c1)
    BY <2>8, <2>9, Zenon DEF Paired
  <2> QED BY <2>10, <1>9 DEF t, p
<1> QED BY <1>8, <1>9

LEMMA PairedLess ==
  \A s \in Seq(Nodes), q \in Seq(Pids) : \A c, id :
    /\ Paired(q, s, c) /\ s # <<>> /\ id = c[Head(s)].id
    => IF id = 0 THEN Paired(q, Tail(s), c)
                 ELSE q # <<>> /\ Head(q) = id /\ Paired(Tail(q), Tail(s), c)
<1> TAKE s \in Seq(Nodes), q \in Seq(Pids)
<1> TAKE c, id
<1> HAVE Paired(q, s, c) /\ s # <<>> /\ id = c[Head(s)].id
<1> DEFINE t == Tail(s)
           A == Askings(s, c)
<1>1. PICK m \in Nat : m + 1 = Len(s)
  <2>1. PICK l \in Nat : l = Len(s) /\ l # 0
    OBVIOUS
  <2>2. l - 1 \in Nat /\ (l - 1) + 1 = l
    BY <2>1
  <2> QED BY <2>1, <2>2
<1>2. /\ DOMAIN s = 1 .. m + 1 /\ DOMAIN t = 1 .. m /\ Head(s) = s[1]
      /\ \A k \in 1 .. m : t[k] = s[k + 1]
  BY <1>1
<1> HIDE DEF t
<1>3. A \in SUBSET (1 .. m + 1) /\ \A k \in 1 .. m + 1 : k \in A <=> c[s[k]].id # 0
  BY <1>2 DEF Askings
<1> DEFINE B == MovedUp(A, m)
<1>4. Askings(t, c) = B
  <2>1. \A k \in 1 .. m : k + 1 \in 1 .. m + 1
    OBVIOUS
  <2>2. \A k \in 1 .. m : c[t[k]].id # 0 <=> k + 1 \in A
    BY <1>2, <1>3, <2>1
  <2> HIDE DEF A
  <2> QED BY <1>2, <2>2 DEF Askings, MovedUp
<1>5. \A i \in A : q[Rank(A, i)] = c[s[i]].id
  BY DEF Paired
<1>6. PICK l \in Nat : l = Len(q) /\ l = Cardinality(A)
  BY DEF Paired
<1>7. 1 \in A <=> id # 0
  <2>1. 1 \in 1 .. m + 1
    OBVIOUS
  <2> QED BY <1>2, <1>3, <2>1
<1> HIDE DEF A
<1>8. B \in SUBSET (1 .. m) /\ \A i \in B : i \in 1 .. m /\ i + 1 \in A /\ c[t[i]].id = c[s[i + 1]].id
  BY <1>2 DEF MovedUp
<1>9. \A i \in B : q[Rank(A, i + 1)] = c[t[i]].id
  BY <1>5, <1>8
<1>10. CASE id = 0
  <2>1. Cardinality(B) = l /\ \A i \in B : Rank(B, i) = Rank(A, i + 1)
    BY <1>3, <1>6, <1>7, <1>10, CountsMoved, RankMoved
  <2>2. Paired(q, t, c)
    BY <1>4, <1>6, <1>9, <2>1, Zenon DEF Paired
  <2> QED BY <2>2, <1>10 DEF t
<1>11. CASE id # 0
  <2> DEFINE p == Tail(q)
  <2>1. Cardinality(B) = l - 1 /\ \A i \in B : Rank(B, i) = Rank(A, i + 1) - 1
    BY <1>3, <1>6, <1>7, <1>11, CountsMoved, RankMoved
  <2>2. l # 0 /\ \A i \in B : Rank(B, i) \in 1 .. l - 1 /\ Rank(A, i + 1) \in 1 .. l
    <3>1. \A i \in A : Rank(A, i) \in 1 .. l
      <4>1. m + 1 \in Nat
        OBVIOUS
      <4> QED BY <1>3, <1>6, <4>1, Counts, Zenon
    <3>2. \A i \in B : Rank(B, i) \in 1 .. Cardinality(B)
      BY <1>8, Counts
    <3> QED BY <3>1, <3>2, <1>7, <1>8, <1>11, <2>1
  <2>3. /\ q # <<>> /\ Len(p) = l - 1 /\ Head(q) = q[1]
        /\ \A r \in 1 .. l - 1 : p[r] = q[r + 1]
    <3>1. PICK k \in Nat : l = k + 1 /\ l - 1 = k
      <4>1. l - 1 \in Nat /\ l = (l - 1) + 1
        BY <2>2
      <4> QED BY <4>1
    <3> QED BY <1>6, <3>1, TailIs, Zenon
  <2> HIDE DEF p
  <2>4. \A i \in B : p[Rank(B, i)] = c[t[i]].id
    <3> TAKE i \in B
    <3>1. PICK r \in 1 .. l - 1 : r = Rank(B, i) /\ r + 1 = Rank(A, i + 1)
      BY <2>1, <2>2
    <3>2. p[r] = q[r + 1] /\ q[Rank(A, i + 1)] = c[t[i]].id
      BY <1>9, <2>3
    <3> QED BY <3>1, <3>2, Zenon
  <2>5. Paired(p, t, c)
    BY <1>4, <2>1, <2>3, <2>4, Zenon DEF Paired
  <2>6. Head(q) = id
    <3>1. {j \in A : j <= 1} = {1}
      <4>1. \A j \in A : j \in 1 .. m + 1
        BY <1>3
      <4>2. 1 \in A /\ \A j \in A : j <= 1 => j = 1
        BY <1>7, <1>11, <4>1
      <4> QED BY <4>2
    <3>2. Rank(A, 1) = 1
      BY <3>1, FS_Singleton DEF Rank
    <3> QED BY <1>2, <1>5, <1>7, <1>11, <2>3, <3>2
  <2> QED BY <2>3, <2>5, <2>6, <1>11 DEF t, p
<1> QED BY <1>10, <1>11

-----------------------------------------------------------------------------
(***************************************************************************)
(* Where the processes wait                                                *)
(***************************************************************************)

\* A blocked process is in the queue or in a slot, in one place of one of them.
InSlot(p) == \E s \in Slots : recv_list[s].proc = p

PlacesInv ==
  /\ cmd_q \in Seq(Pids) /\ IsInjective(cmd_q)
  /\ recv_list \in [Slots -> [proc : Pids \cup {0}, port : Ports \cup {0}]]
  /\ \A s \in Slots : recv_list[s] = FreeSlot \/ recv_list[s].proc \in Pids
  /\ \A s, t \in Slots : recv_list[s].proc \in Pids /\ recv_list[t].proc = recv_list[s].proc => s = t
  /\ \A p \in Pids : ~(p \in ToSet(cmd_q) /\ InSlot(p))

BlockedInv ==
  /\ state \in [Pids -> {"ready", "blocked", "gone"}]
  /\ \A p \in Pids : state[p] = "blocked" <=> p \in ToSet(cmd_q) \/ InSlot(p)
  /\ killed \subseteq Pids /\ \A p \in killed : state[p] = "blocked"

LEMMA PidsNotZero == 0 \notin Pids /\ Pids \cup {0} \subseteq Ids \cup {0}
BY NetAssumption

LEMMA SlotsAre == Slots \subseteq Nat
BY DEF Slots

\* Of one place there is one, of two none.
LEMMA CountsOne ==
  ASSUME NEW S, \A x, y \in S : x = y
  PROVE  Cardinality(S) = IF S = {} THEN 0 ELSE 1
<1>1. CASE S = {}
  BY <1>1, FS_EmptySet
<1>2. CASE S # {}
  <2>1. PICK x \in S : S = {x}
    BY <1>2
  <2> QED BY <2>1, FS_Singleton
<1> QED BY <1>1, <1>2

LEMMA PlacesCounted == PlacesInv /\ BlockedInv => BlockedOnce
<1> HAVE PlacesInv /\ BlockedInv
<1> DEFINE Sleepers == {s \in Slots : recv_list[s] # FreeSlot}
           A(p) == {s \in Sleepers : recv_list[s].proc = p}
           B(p) == {i \in DOMAIN cmd_q : cmd_q[i] = p}
<1>1. ASSUME NEW p \in Pids
      PROVE  /\ Cardinality(A(p)) + Cardinality(B(p)) = (IF state[p] = "blocked" THEN 1 ELSE 0)
             /\ p \in killed => state[p] = "blocked"
  <2>1. Cardinality(A(p)) = IF A(p) = {} THEN 0 ELSE 1
    <3>1. \A s, t \in A(p) : s = t
      BY DEF PlacesInv
    <3> QED BY <3>1, CountsOne, Zenon
  <2>2. Cardinality(B(p)) = IF B(p) = {} THEN 0 ELSE 1
    <3>1. \A i, j \in B(p) : i = j
      BY DEF PlacesInv, IsInjective
    <3> QED BY <3>1, CountsOne, Zenon
  <2>3. A(p) # {} <=> InSlot(p)
    <3>1. \A s \in Slots : recv_list[s].proc = p => recv_list[s] # FreeSlot
      BY PidsNotZero DEF FreeSlot
    <3> QED BY <3>1 DEF InSlot
  <2>4. B(p) # {} <=> p \in ToSet(cmd_q)
    <3>1. DOMAIN cmd_q = 1 .. Len(cmd_q)
      BY DEF PlacesInv
    <3> QED BY <3>1 DEF ToSet
  <2>5. state[p] = "blocked" <=> A(p) # {} \/ B(p) # {}
    BY <2>3, <2>4 DEF BlockedInv
  <2>6. ~(A(p) # {} /\ B(p) # {})
    BY <2>3, <2>4 DEF PlacesInv
  <2>7. p \in killed => state[p] = "blocked"
    BY DEF BlockedInv
  <2> HIDE DEF A, B
  <2> QED BY <2>1, <2>2, <2>5, <2>6, <2>7
<1> QED BY <1>1, Zenon DEF BlockedOnce

\* A process that was ready waits for its command, or for a datagram.
LEMMA WaitsForCommand ==
  ASSUME PlacesInv, BlockedInv, NEW p \in Pids, NEW answer, state[p] = "ready",
         block_on_command(p, answer), UNCHANGED <<killed, recv_list>>
  PROVE  PlacesInv' /\ BlockedInv'
<1>1. p \notin ToSet(cmd_q) /\ ~InSlot(p)
  BY DEF BlockedInv
<1>2. cmd_q \in Seq(Pids) /\ IsInjective(cmd_q)
  BY DEF PlacesInv
<1>3. cmd_q' = Append(cmd_q, p) /\ state' = [state EXCEPT ![p] = "blocked"]
  BY DEF block_on_command
<1>4. /\ cmd_q' \in Seq(Pids) /\ IsInjective(cmd_q')
      /\ \A x : x \in ToSet(cmd_q') <=> x = p \/ x \in ToSet(cmd_q)
  BY <1>1, <1>2, <1>3, QueueJoin
<1>5. \A x : (InSlot(x) <=> InSlot(x)')
  BY DEF InSlot
<1>6. PlacesInv'
  <2>1. \A x \in Pids : ~(x \in ToSet(cmd_q') /\ InSlot(x)')
    BY <1>1, <1>4, <1>5 DEF PlacesInv
  <2> QED BY <1>4, <2>1 DEF PlacesInv
<1>7. BlockedInv'
  <2>1. state' \in [Pids -> {"ready", "blocked", "gone"}] /\ state'[p] = "blocked"
        /\ \A x \in Pids \ {p} : state'[x] = state[x]
    BY <1>3 DEF BlockedInv
  <2>2. \A x \in Pids : state'[x] = "blocked" <=> x \in ToSet(cmd_q') \/ InSlot(x)'
    BY <1>4, <1>5, <2>1 DEF BlockedInv
  <2>3. \A x \in killed' : state'[x] = "blocked"
    BY <2>1 DEF BlockedInv
  <2>4. killed' \subseteq Pids
    BY DEF BlockedInv
  <2> QED BY <2>1, <2>2, <2>3, <2>4 DEF BlockedInv
<1> QED BY <1>6, <1>7

LEMMA WaitsForFrame ==
  ASSUME PlacesInv, BlockedInv, NEW p \in Pids, NEW port \in Ports, state[p] = "ready",
         sysnet_recv(p, port)
  PROVE  PlacesInv' /\ BlockedInv'
<1>1. p \notin ToSet(cmd_q) /\ ~InSlot(p)
  BY DEF BlockedInv
<1>2. cmd_q' = cmd_q /\ killed' = killed
  BY DEF sysnet_recv
<1>3. CASE Free = {}
  <2>1. recv_list' = recv_list /\ state' = state
    BY <1>3 DEF sysnet_recv
  <2> QED BY <1>2, <2>1 DEF PlacesInv, BlockedInv, InSlot
<1>4. CASE Free # {}
  <2> DEFINE s == Min(Free)
             slot == [proc |-> p, port |-> port]
  <2>1. /\ recv_list' = [recv_list EXCEPT ![s] = slot]
        /\ state' = [state EXCEPT ![p] = "blocked"]
    BY <1>4 DEF sysnet_recv
  <2>2. s \in Free
    <3>1. Free \in SUBSET Nat
      BY SlotsAre DEF Free
    <3>2. \E m \in Free : \A k \in Free : m <= k
      BY <1>4, <3>1, Least
    <3> QED BY <3>2, Zenon DEF Min
  <2>3. s \in Slots /\ recv_list[s].proc = 0
    BY <2>2 DEF Free, FreeSlot
  <2>4. slot \in [proc : Pids \cup {0}, port : Ports \cup {0}] /\ slot.proc = p
    OBVIOUS
  <2> HIDE DEF s, slot
  <2>5. /\ recv_list' \in [Slots -> [proc : Pids \cup {0}, port : Ports \cup {0}]]
        /\ recv_list'[s].proc = p /\ \A t \in Slots \ {s} : recv_list'[t] = recv_list[t]
    BY <2>1, <2>3, <2>4 DEF PlacesInv
  <2>6. \A t \in Slots \ {s} : recv_list[t].proc # p
    BY <1>1 DEF InSlot
  <2>7. \A x \in Pids : InSlot(x)' <=> x = p \/ InSlot(x)
    BY <2>3, <2>5, PidsNotZero DEF InSlot
  <2>8. /\ \A t \in Slots : recv_list'[t] = FreeSlot \/ recv_list'[t].proc \in Pids
        /\ \A t, u \in Slots : recv_list'[t].proc \in Pids /\ recv_list'[u].proc = recv_list'[t].proc => t = u
    BY <2>3, <2>5, <2>6 DEF PlacesInv
  <2>9. PlacesInv'
    <3>1. \A x \in Pids : ~(x \in ToSet(cmd_q') /\ InSlot(x)')
      BY <1>1, <1>2, <2>7 DEF PlacesInv
    <3> QED BY <1>2, <2>5, <2>8, <3>1 DEF PlacesInv
  <2>10. state' \in [Pids -> {"ready", "blocked", "gone"}] /\ state'[p] = "blocked"
         /\ \A x \in Pids \ {p} : state'[x] = state[x]
    BY <2>1 DEF BlockedInv
  <2>11. \A x \in Pids : state'[x] = "blocked" <=> x \in ToSet(cmd_q') \/ InSlot(x)'
    BY <1>2, <2>7, <2>10 DEF BlockedInv
  <2>12. killed' \subseteq Pids /\ \A x \in killed' : state'[x] = "blocked"
    BY <1>2, <2>10 DEF BlockedInv
  <2> QED BY <2>9, <2>10, <2>11, <2>12 DEF BlockedInv
<1> QED BY <1>3, <1>4

LEMMA Killed ==
  ASSUME PlacesInv, BlockedInv, NEW p \in Pids, NEW victim \in Pids, sys_kill(p, victim)
  PROVE  PlacesInv' /\ BlockedInv'
<1>1. cmd_q' = cmd_q /\ recv_list' = recv_list
  BY DEF sys_kill
<1>2. PlacesInv' /\ \A x : (InSlot(x)' <=> InSlot(x))
  BY <1>1 DEF PlacesInv, InSlot
<1>3. CASE state[victim] = "blocked"
  <2>1. killed' = killed \cup {victim} /\ state' = state
    BY <1>3 DEF sys_kill
  <2> QED BY <1>1, <1>2, <1>3, <2>1 DEF BlockedInv
<1>4. CASE state[victim] # "blocked"
  <2>1. state' = [state EXCEPT ![victim] = "gone"] /\ killed' = killed
    BY <1>4 DEF sys_kill
  <2>2. state' \in [Pids -> {"ready", "blocked", "gone"}] /\ state'[victim] = "gone"
        /\ \A x \in Pids \ {victim} : state'[x] = state[x]
    BY <2>1 DEF BlockedInv
  <2>3. \A x \in Pids : state'[x] = "blocked" <=> state[x] = "blocked"
    BY <1>4, <2>2
  <2> QED BY <1>1, <1>2, <2>1, <2>2, <2>3 DEF BlockedInv
<1> QED BY <1>3, <1>4

\* The processes procs leave their places.
LEMMA WaitersLeave ==
  ASSUME BlockedInv, NEW procs, schedule(procs),
         \A p \in Pids : p \in ToSet(cmd_q') \/ InSlot(p)'
                         <=> p \notin procs /\ (p \in ToSet(cmd_q) \/ InSlot(p))
  PROVE  BlockedInv'
<1>1. /\ state' = [p \in Pids |-> IF p \notin procs THEN state[p]
                                  ELSE IF p \in killed THEN "gone" ELSE "ready"]
      /\ killed' = killed \ procs
  BY DEF schedule
<1>2. /\ state' \in [Pids -> {"ready", "blocked", "gone"}]
      /\ \A p \in Pids : p \notin procs => state'[p] = state[p]
      /\ \A p \in Pids : p \in procs => state'[p] # "blocked"
  BY <1>1 DEF BlockedInv
<1>3. \A p \in Pids : state'[p] = "blocked" <=> p \in ToSet(cmd_q') \/ InSlot(p)'
  BY <1>2 DEF BlockedInv
<1>4. killed' \subseteq Pids /\ \A p \in killed' : state'[p] = "blocked"
  BY <1>1, <1>2 DEF BlockedInv
<1> QED BY <1>2, <1>3, <1>4 DEF BlockedInv

LEMMA CallerWakes ==
  ASSUME PlacesInv, BlockedInv, cmd_q # <<>>, cmd_q' = Tail(cmd_q),
         schedule({Head(cmd_q)}), UNCHANGED recv_list
  PROVE  PlacesInv' /\ BlockedInv'
<1>1. cmd_q \in Seq(Pids) /\ IsInjective(cmd_q)
  BY DEF PlacesInv
<1>2. PICK h \in Pids : h = Head(cmd_q)
  BY <1>1
<1>3. /\ cmd_q' \in Seq(Pids) /\ IsInjective(cmd_q')
      /\ \A x : x \in ToSet(cmd_q') <=> x # h /\ x \in ToSet(cmd_q)
  BY <1>1, <1>2, QueueLeave
<1>4. h \in ToSet(cmd_q)
  <2>1. cmd_q[1] = h /\ 1 \in 1 .. Len(cmd_q)
    BY <1>1, <1>2
  <2> QED BY <2>1 DEF ToSet
<1>5. \A x : (InSlot(x)' <=> InSlot(x))
  BY DEF InSlot
<1>6. ~InSlot(h)
  BY <1>4 DEF PlacesInv
<1>7. PlacesInv'
  <2>1. \A x \in Pids : ~(x \in ToSet(cmd_q') /\ InSlot(x)')
    BY <1>3, <1>5 DEF PlacesInv
  <2> QED BY <1>3, <2>1 DEF PlacesInv
<1>8. BlockedInv'
  <2>1. schedule({h})
    BY <1>2
  <2>2. \A x \in Pids : x \in ToSet(cmd_q') \/ InSlot(x)'
                        <=> x \notin {h} /\ (x \in ToSet(cmd_q) \/ InSlot(x))
    BY <1>3, <1>5, <1>6
  <2> QED BY <2>1, <2>2, WaitersLeave
<1> QED BY <1>7, <1>8

LEMMA ReceiversWake ==
  ASSUME PlacesInv, BlockedInv, NEW slots \in SUBSET Slots, \A s \in slots : recv_list[s] # FreeSlot,
         release(slots), schedule({recv_list[s].proc : s \in slots}), UNCHANGED cmd_q
  PROVE  PlacesInv' /\ BlockedInv'
<1> DEFINE procs == {recv_list[s].proc : s \in slots}
<1>1. /\ recv_list' \in [Slots -> [proc : Pids \cup {0}, port : Ports \cup {0}]]
      /\ \A s \in Slots : recv_list'[s] = IF s \in slots THEN FreeSlot ELSE recv_list[s]
  BY DEF release, PlacesInv, FreeSlot
<1>2. FreeSlot.proc = 0
  BY DEF FreeSlot
<1>3. \A x \in Pids : InSlot(x)' <=> x \notin procs /\ InSlot(x)
  <2>1. ASSUME NEW x \in Pids, InSlot(x)' PROVE x \notin procs /\ InSlot(x)
    <3>1. PICK s \in Slots : recv_list'[s].proc = x
      BY <2>1 DEF InSlot
    <3>2. s \notin slots /\ recv_list[s].proc = x
      BY <1>1, <1>2, <3>1, PidsNotZero
    <3>3. \A t \in slots : recv_list[t].proc # x
      BY <3>2 DEF PlacesInv
    <3> QED BY <3>2, <3>3 DEF InSlot
  <2>2. ASSUME NEW x \in Pids, x \notin procs, InSlot(x) PROVE InSlot(x)'
    <3>1. PICK s \in Slots : recv_list[s].proc = x
      BY <2>2 DEF InSlot
    <3>2. s \notin slots
      BY <2>2, <3>1
    <3> QED BY <1>1, <3>1, <3>2 DEF InSlot
  <2> QED BY <2>1, <2>2
<1>4. /\ \A s \in Slots : recv_list'[s] = FreeSlot \/ recv_list'[s].proc \in Pids
      /\ \A s, t \in Slots : recv_list'[s].proc \in Pids /\ recv_list'[t].proc = recv_list'[s].proc => s = t
  BY <1>1, <1>2, PidsNotZero DEF PlacesInv
<1>5. PlacesInv'
  <2>1. \A x \in Pids : ~(x \in ToSet(cmd_q') /\ InSlot(x)')
    BY <1>3 DEF PlacesInv
  <2> QED BY <1>1, <1>4, <2>1 DEF PlacesInv
<1>6. \A x \in procs : x \in Pids /\ x \notin ToSet(cmd_q)
  <2> TAKE x \in procs
  <2>1. PICK s \in slots : recv_list[s].proc = x
    OBVIOUS
  <2>2. x \in Pids
    BY <2>1 DEF PlacesInv
  <2> QED BY <2>1, <2>2 DEF PlacesInv, InSlot
<1>7. BlockedInv'
  <2>1. \A x \in Pids : x \in ToSet(cmd_q') \/ InSlot(x)'
                        <=> x \notin procs /\ (x \in ToSet(cmd_q) \/ InSlot(x))
    BY <1>3, <1>6
  <2> HIDE DEF procs
  <2>2. schedule(procs)
    BY DEF procs
  <2> QED BY <2>1, <2>2, WaitersLeave
<1> QED BY <1>5, <1>7

-----------------------------------------------------------------------------
(***************************************************************************)
(* The steps                                                               *)
(***************************************************************************)

CallersInv == OrderInv /\ PlacesInv /\ BlockedInv /\ QueuesInStep

placeVars == <<state, killed, cmd_q, recv_list>>
stepVars  == <<cmd_q, refused, panic, fault>>

LEMMA StepIsNext ==
  QueuesInStep' <=> (~refused' /\ ~fault' => ~panic' /\ Paired(cmd_q', Outstanding', commands'))
<1>1. Askers' = Askings(Outstanding', commands')
  BY Zenon DEF Askers, Asked, Askings
<1>2. \A i : AskersTo(i)' = Rank(Askings(Outstanding', commands'), i)
  BY <1>1, Zenon DEF AskersTo, Rank
<1> QED BY <1>1, <1>2, Zenon DEF QueuesInStep, Paired, Asked

LEMMA StepAside ==
  QueuesInStep /\ UNCHANGED stepVars /\ Outstanding' = Outstanding /\ commands' = commands
  => QueuesInStep'
<1> SUFFICES ASSUME QueuesInStep, UNCHANGED stepVars, Outstanding' = Outstanding,
                    commands' = commands, ~refused, ~fault
             PROVE  ~panic' /\ Paired(cmd_q', Outstanding', commands')
  BY StepIsNext DEF stepVars
<1>1. ~panic /\ Paired(cmd_q, Outstanding, commands)
  BY StepIs
<1>2. panic' = panic /\ cmd_q' = cmd_q
  BY DEF stepVars
<1> QED BY <1>1, <1>2, Zenon

LEMMA PlacesAside == PlacesInv /\ BlockedInv /\ UNCHANGED placeVars => PlacesInv' /\ BlockedInv'
BY DEF placeVars, PlacesInv, BlockedInv, InSlot

LEMMA StepMore ==
  ASSUME OrderInv, cmd_q \in Seq(Pids), QueuesInStep, NEW n, NEW id \in Pids \cup {0}, Joins(n, id),
         IF id = 0 THEN cmd_q' = cmd_q ELSE cmd_q' = Append(cmd_q, id),
         UNCHANGED <<refused, panic, fault>>
  PROVE  QueuesInStep'
<1> SUFFICES ASSUME ~refused, ~fault PROVE ~panic' /\ Paired(cmd_q', Outstanding', commands')
  BY StepIsNext
<1>1. ~panic' /\ Paired(cmd_q, Outstanding, commands)
  BY StepIs
<1>2. Outstanding \in Seq(Nodes)
  BY OutstandingSeq DEF OrderInv
<1>3. /\ n \in Nodes /\ n \notin ToSet(Outstanding) /\ Outstanding' = Append(Outstanding, n)
      /\ \A k \in Nodes \ {n} : commands'[k] = commands[k]
      /\ commands'[n].id = id
  BY Zenon DEF Joins
<1>4. IF id = 0 THEN Paired(cmd_q, Append(Outstanding, n), commands')
                ELSE Paired(Append(cmd_q, id), Append(Outstanding, n), commands')
  BY <1>1, <1>2, <1>3, PairedMore, PidsNotZero, Zenon
<1> QED BY <1>1, <1>3, <1>4, Zenon

LEMMA StepLess ==
  ASSUME OrderInv, cmd_q \in Seq(Pids), QueuesInStep, Leaves,
         NEW id, id = commands[current_cmd].id,
         IF id = 0 THEN cmd_q' = cmd_q ELSE cmd_q' = Tail(cmd_q),
         UNCHANGED <<refused, panic, fault>>
  PROVE  QueuesInStep'
<1> SUFFICES ASSUME ~refused, ~fault PROVE ~panic' /\ Paired(cmd_q', Outstanding', commands')
  BY StepIsNext
<1>1. ~panic' /\ Paired(cmd_q, Outstanding, commands)
  BY StepIs
<1>2. Outstanding \in Seq(Nodes)
  BY OutstandingSeq DEF OrderInv
<1>3. /\ Outstanding # <<>> /\ id = commands[Head(Outstanding)].id
      /\ Outstanding' = Tail(Outstanding) /\ commands' = commands
  BY Zenon DEF Leaves
<1>4. IF id = 0 THEN Paired(cmd_q, Tail(Outstanding), commands)
                ELSE Paired(Tail(cmd_q), Tail(Outstanding), commands)
  BY <1>1, <1>2, <1>3, PairedLess, Zenon
<1> QED BY <1>1, <1>3, <1>4, Zenon

\* The process at the head of the queue is the one that a command is for.
LEMMA HeadIsAsked ==
  ASSUME OrderInv, PlacesInv, QueuesInStep, ~refused, ~fault, current_cmd # 0,
         commands[current_cmd].id # 0
  PROVE  HeadMatches(commands[current_cmd].id)
<1>1. Outstanding \in Seq(Nodes) /\ cmd_q \in Seq(Pids)
  BY OutstandingSeq DEF OrderInv, PlacesInv
<1>2. Paired(cmd_q, Outstanding, commands)
  BY StepIs
<1>3. Outstanding # <<>> /\ Head(Outstanding) = current_cmd
  <2>1. current_cmd \in Nodes /\ cu_waiting \in Seq(Nodes)
    BY DEF OrderInv, LineInv
  <2>2. Outstanding = <<current_cmd>> \o cu_waiting
    BY Zenon DEF Outstanding
  <2> QED BY <2>1, <2>2
<1>4. cmd_q # <<>> /\ Head(cmd_q) = commands[current_cmd].id
  BY <1>1, <1>2, <1>3, PairedLess, Zenon
<1> QED BY <1>4 DEF HeadMatches

\* _eth_tx or _eth_loadaddr for a process, which blocks.
LEMMA Commands ==
  ASSUME CallersInv, NEW p \in Pids, state[p] = "ready", NEW len \in Blocks, NEW answer,
         command_and_block(p, len, answer), UNCHANGED <<done, killed, recv_list, panic>>
  PROVE  CallersInv'
<1> USE DEF CallersInv
<1>0. p \in Ids \cup {0} /\ p \in Pids \cup {0} /\ p # 0
  BY PidsNotZero
<1>1. CASE eth_issue(len, p) /\ block_on_command(p, answer) /\ UNCHANGED refused
  <2>1. OrderInv' /\ Joins(FreeNode, p)
    BY <1>0, <1>1, CommandIssued
  <2>2. PlacesInv' /\ BlockedInv'
    BY <1>1, WaitsForCommand
  <2>3. cmd_q' = Append(cmd_q, p) /\ UNCHANGED <<refused, panic, fault>>
    BY <1>1 DEF block_on_command, eth_issue
  <2>4. QueuesInStep'
    BY <1>0, <2>1, <2>3, StepMore DEF PlacesInv
  <2> QED BY <2>1, <2>2, <2>4
<1>2. CASE eth_no_memory(len) /\ block_on_command(p, "error") /\ refused' = TRUE
  <2>1. OrderInv'
    BY <1>2, CommandFails
  <2>2. PlacesInv' /\ BlockedInv'
    BY <1>2, WaitsForCommand
  <2>3. QueuesInStep'
    BY <1>2, StepIsNext
  <2> QED BY <2>1, <2>2, <2>3
<1>3. CASE eth_no_node(len) /\ UNCHANGED <<state, ret, cmd_q, refused>>
  <2>1. OrderInv'
    BY <1>3, CommandFails
  <2>2. PlacesInv' /\ BlockedInv'
    BY <1>3, PlacesAside DEF placeVars
  <2>3. QueuesInStep'
    BY <1>3, StepIsNext DEF eth_no_node
  <2> QED BY <2>1, <2>2, <2>3
<1> QED BY <1>1, <1>2, <1>3 DEF command_and_block

\* The answer to an ARP request, a command of the kernel's.
LEMMA Answers ==
  ASSUME CallersInv, eth_command(ArpLength, 0), done' = done, UNCHANGED procVars
  PROVE  CallersInv'
<1> USE DEF CallersInv
<1>0. ArpLength \in Blocks /\ 0 \in Ids \cup {0} /\ 0 \in Pids \cup {0}
  BY DEF Blocks
<1>1. UNCHANGED <<state, killed, cmd_q, recv_list, refused, panic>>
  BY DEF procVars
<1>2. PlacesInv' /\ BlockedInv'
  BY <1>1, PlacesAside DEF placeVars
<1>3. CASE eth_no_memory(ArpLength)
  <2>1. OrderInv' /\ Outstanding' = Outstanding /\ commands' = commands
    BY <1>0, <1>3, CommandFails
  <2>2. fault' = fault
    BY <1>3 DEF eth_no_memory
  <2>3. QueuesInStep'
    BY <1>1, <2>1, <2>2, StepAside DEF stepVars
  <2> QED BY <1>2, <2>1, <2>3
<1>4. CASE eth_no_node(ArpLength)
  <2>1. OrderInv'
    BY <1>0, <1>4, CommandFails
  <2>2. QueuesInStep'
    BY <1>4, StepIsNext DEF eth_no_node
  <2> QED BY <1>2, <2>1, <2>2
<1>5. CASE eth_issue(ArpLength, 0)
  <2>1. OrderInv' /\ Joins(FreeNode, 0)
    BY <1>0, <1>5, CommandIssued
  <2>2. UNCHANGED <<refused, panic, fault>>
    BY <1>1, <1>5 DEF eth_issue
  <2>3. QueuesInStep'
    BY <1>0, <1>1, <2>1, <2>2, StepMore DEF PlacesInv
  <2> QED BY <1>2, <2>1, <2>3
<1> QED BY <1>3, <1>4, <1>5 DEF eth_command

\* What leaves the commands alone, and what leaves the processes alone too.
LEMMA CommandsAside ==
  ASSUME CallersInv, UNCHANGED <<cmdVars, done>>, UNCHANGED <<cmd_q, refused, panic>>,
         PlacesInv', BlockedInv'
  PROVE  CallersInv'
<1>1. UNCHANGED commandVars /\ UNCHANGED fault
  BY DEF cmdVars, commandVars
<1>2. OrderInv' /\ Outstanding' = Outstanding /\ commands' = commands
  BY <1>1, OrderAside DEF CallersInv, commandVars, Outstanding
<1>3. QueuesInStep'
  BY <1>1, <1>2, StepAside DEF CallersInv, stepVars
<1> QED BY <1>2, <1>3 DEF CallersInv

LEMMA AllAside ==
  ASSUME CallersInv, UNCHANGED commandVars, UNCHANGED fault, UNCHANGED procVars
  PROVE  CallersInv'
<1>1. UNCHANGED <<state, killed, cmd_q, recv_list, refused, panic>>
  BY DEF procVars
<1>2. OrderInv' /\ Outstanding' = Outstanding /\ commands' = commands
  BY OrderAside DEF CallersInv, commandVars, Outstanding
<1>3. QueuesInStep'
  BY <1>1, <1>2, StepAside DEF CallersInv, stepVars
<1>4. PlacesInv' /\ BlockedInv'
  BY <1>1, PlacesAside DEF placeVars, CallersInv
<1> QED BY <1>2, <1>3, <1>4 DEF CallersInv

LEMMA Calls ==
  ASSUME CallersInv, NetCall PROVE CallersInv'
<1>1. ASSUME NEW p \in Pids, NEW len \in TxLengths, sysnet_send(p, len, TRUE) PROVE CallersInv'
  <2>1. len \in Blocks /\ state[p] = "ready"
    BY <1>1 DEF Blocks, sysnet_send, CanCommand, CanCall
  <2>2. command_and_block(p, len, "none") /\ UNCHANGED <<done, killed, recv_list, panic>>
    BY <1>1 DEF sysnet_send
  <2> QED BY <2>1, <2>2, Commands
<1>2. ASSUME NEW p \in Pids, sysnet_send(p, EmptyLength, FALSE) PROVE CallersInv'
  <2>1. EmptyLength \in Blocks /\ state[p] = "ready"
    BY <1>2 DEF Blocks, sysnet_send, CanCommand, CanCall
  <2>2. command_and_block(p, EmptyLength, "error") /\ UNCHANGED <<done, killed, recv_list, panic>>
    BY <1>2 DEF sysnet_send
  <2> QED BY <2>1, <2>2, Commands
<1>3. ASSUME NEW p \in Pids, sysnet_setMAC(p) PROVE CallersInv'
  <2>1. AddrLength \in Blocks /\ state[p] = "ready"
    BY <1>3 DEF Blocks, sysnet_setMAC, CanCommand, CanCall
  <2>2. command_and_block(p, AddrLength, "none") /\ UNCHANGED <<done, killed, recv_list, panic>>
    BY <1>3 DEF sysnet_setMAC
  <2> QED BY <2>1, <2>2, Commands
<1>4. ASSUME NEW p \in Pids, NEW port \in Ports, sysnet_recv(p, port) PROVE CallersInv'
  <2>1. PlacesInv' /\ BlockedInv'
    BY <1>4, WaitsForFrame DEF CallersInv, sysnet_recv, CanCall
  <2>2. UNCHANGED <<cmdVars, done>> /\ UNCHANGED <<cmd_q, refused, panic>>
    BY <1>4 DEF sysnet_recv, ethVars
  <2> QED BY <2>1, <2>2, CommandsAside
<1>5. ASSUME NEW p \in Pids, NEW victim \in Pids, sys_kill(p, victim) PROVE CallersInv'
  <2>1. PlacesInv' /\ BlockedInv'
    BY <1>5, Killed DEF CallersInv
  <2>2. UNCHANGED <<cmdVars, done>> /\ UNCHANGED <<cmd_q, refused, panic>>
    BY <1>5 DEF sys_kill, ethVars
  <2> QED BY <2>1, <2>2, CommandsAside
<1> QED BY <1>1, <1>2, <1>3, <1>4, <1>5 DEF NetCall

LEMMA Device ==
  ASSUME CallersInv, NetDevice \/ NetEnter PROVE CallersInv'
<1>1. UNCHANGED commandVars /\ UNCHANGED fault /\ UNCHANGED procVars
  BY DEF NetDevice, NetEnter, CommandEnds, FrameArrives, eth_isr_read, commandVars, cmdVars, ringVars
<1> QED BY <1>1, AllAside

LEMMA Frame ==
  ASSUME CallersInv, eth_isr_frame(sysnet_recv_cb) PROVE CallersInv'
<1>0. done' = done /\ sysnet_recv_cb
  BY DEF eth_isr_frame
<1>1. CASE recv_cb_ignore
  <2>1. UNCHANGED commandVars /\ UNCHANGED fault /\ UNCHANGED procVars
    BY <1>0, <1>1 DEF recv_cb_ignore, commandVars, cmdVars
  <2> QED BY <2>1, AllAside
<1>2. CASE recv_cb_arp
  BY <1>0, <1>2, Answers DEF recv_cb_arp
<1>3. CASE recv_cb_udp
  <2> DEFINE slots == Wanting(frame.port)
  <2>1. slots \in SUBSET Slots /\ \A s \in slots : recv_list[s] # FreeSlot
    BY DEF Wanting
  <2>2. release(slots) /\ schedule({recv_list[s].proc : s \in slots})
    BY <1>3 DEF recv_cb_udp
  <2>3. UNCHANGED <<cmdVars, cmd_q, refused, panic>>
    BY <1>3 DEF recv_cb_udp
  <2> HIDE DEF slots
  <2>4. PlacesInv' /\ BlockedInv'
    BY <2>1, <2>2, <2>3, ReceiversWake DEF CallersInv
  <2> QED BY <1>0, <2>3, <2>4, CommandsAside
<1> QED BY <1>0, <1>1, <1>2, <1>3 DEF sysnet_recv_cb

LEMMA Completion ==
  ASSUME CallersInv, sysnet_cmd_cb, ~panic, ~fault PROVE CallersInv'
<1> DEFINE id == commands[current_cmd].id
<1> USE DEF CallersInv
<1>0. current_cmd # 0 /\ (cmd_cb_kernel(id) \/ cmd_cb_wake(id) \/ cmd_cb_panic(id))
  BY DEF sysnet_cmd_cb
<1>1. CASE cmd_cb_kernel(id)
  <2>1. OrderInv' /\ Leaves
    BY <1>0, <1>1, CommandDone DEF cmd_cb_kernel
  <2>2. UNCHANGED placeVars /\ UNCHANGED <<cmd_q, refused, panic, fault>> /\ id = 0
    BY <1>1 DEF cmd_cb_kernel, OfKernel, procVars, placeVars, eth_isr_command
  <2>3. QueuesInStep'
    BY <2>1, <2>2, StepLess DEF PlacesInv
  <2> QED BY <2>1, <2>2, <2>3, PlacesAside
<1>2. CASE cmd_cb_wake(id)
  <2>1. OrderInv' /\ Leaves
    BY <1>0, <1>2, CommandDone DEF cmd_cb_wake
  <2>2. /\ UNCHANGED <<recv_list, refused, panic, fault>> /\ id # 0 /\ cmd_q # <<>>
        /\ cmd_q' = Tail(cmd_q) /\ schedule({Head(cmd_q)})
    BY <1>2 DEF cmd_cb_wake, OfKernel, HeadMatches, eth_isr_command
  <2>3. PlacesInv' /\ BlockedInv'
    BY <2>2, CallerWakes
  <2>4. QueuesInStep'
    BY <2>1, <2>2, StepLess DEF PlacesInv
  <2> QED BY <2>1, <2>3, <2>4
<1>3. CASE cmd_cb_panic(id)
  <2>1. UNCHANGED commandVars /\ UNCHANGED placeVars /\ UNCHANGED <<refused, fault>>
        /\ id # 0 /\ ~HeadMatches(id)
    BY <1>3 DEF cmd_cb_panic, OfKernel, ethVars, cmdVars, commandVars, placeVars, ringVars
  <2>2. refused \/ fault
    BY <1>0, <2>1, HeadIsAsked
  <2>3. QueuesInStep'
    BY <2>1, <2>2, StepIsNext
  <2> QED BY <2>1, <2>3, OrderAside, PlacesAside
<1> QED BY <1>0, <1>1, <1>2, <1>3

LEMMA NextCallers == CallersInv /\ [NetNext]_netVars => CallersInv'
<1> SUFFICES ASSUME CallersInv, [NetNext]_netVars PROVE CallersInv'
  OBVIOUS
<1>1. CASE NetCall
  BY <1>1, Calls
<1>2. CASE NetDevice \/ NetEnter
  BY <1>2, Device
<1>3. CASE NetIsr
  <2>1. CASE (eth_isr_ack \/ eth_isr_no_frame \/ eth_isr_no_command) /\ UNCHANGED procVars
    <3>1. UNCHANGED commandVars /\ UNCHANGED fault
      BY <2>1 DEF eth_isr_ack, eth_isr_no_frame, eth_isr_no_command, cmdVars, commandVars
    <3> QED BY <2>1, <3>1, AllAside
  <2>2. CASE eth_isr_frame(sysnet_recv_cb)
    BY <2>2, Frame
  <2>3. CASE sysnet_cmd_cb
    BY <1>3, <2>3, Completion DEF NetIsr
  <2> QED BY <1>3, <2>1, <2>2, <2>3 DEF NetIsr
<1>4. CASE UNCHANGED netVars
  <2>1. UNCHANGED commandVars /\ UNCHANGED fault /\ UNCHANGED procVars
    BY <1>4 DEF netVars, ethVars, cmdVars, commandVars
  <2> QED BY <2>1, AllAside
<1> QED BY <1>1, <1>2, <1>3, <1>4 DEF NetNext

LEMMA InitCallers == NetInit => CallersInv
<1> SUFFICES ASSUME NetInit PROVE CallersInv
  OBVIOUS
<1> USE DEF NetInit, EthInit
<1>1. RingInv
  BY BlocksFit DEF RingInv, Node, NoNode
<1>2. LineInv /\ Outstanding = <<>>
  <2>1. current_cmd = 0 /\ cu_waiting = <<>> /\ CU_BUSY = FALSE
    OBVIOUS
  <2>2. Outstanding = <<>> \o <<>>
    BY <2>1, Zenon DEF Outstanding
  <2>3. <<>> \o <<>> = <<>> /\ <<>> \in Seq(Nodes)
    OBVIOUS
  <2> QED BY <2>1, <2>2, <2>3, Zenon DEF LineInv
<1>3. NumbersInv
  BY <1>2 DEF NumbersInv, CommandsInOrder
<1>4. NodesInv
  BY <1>2 DEF NodesInv, IsInjective, ToSet
<1>5. \A p \in Pids : ~InSlot(p)
  BY PidsNotZero DEF InSlot, FreeSlot
<1>6. PlacesInv
  <2>1. recv_list \in [Slots -> [proc : Pids \cup {0}, port : Ports \cup {0}]]
    BY DEF FreeSlot
  <2>2. \A s \in Slots : recv_list[s] = FreeSlot /\ recv_list[s].proc = 0
    BY DEF FreeSlot
  <2>3. cmd_q \in Seq(Pids) /\ IsInjective(cmd_q)
    BY DEF IsInjective
  <2> QED BY <1>5, <2>1, <2>2, <2>3, PidsNotZero DEF PlacesInv
<1>7. BlockedInv
  BY <1>5 DEF BlockedInv, ToSet
<1>8. QueuesInStep
  <2>1. Askings(Outstanding, commands) = {}
    BY <1>2 DEF Askings
  <2>2. Paired(cmd_q, Outstanding, commands)
    BY <2>1, FS_EmptySet DEF Paired
  <2> QED BY <2>2, StepIs
<1> QED BY <1>1, <1>2, <1>3, <1>4, <1>6, <1>7, <1>8 DEF CallersInv, OrderInv

LEMMA CallersInvariance == NetSpec => []CallersInv
BY InitCallers, NextCallers, PTL DEF NetSpec

-----------------------------------------------------------------------------
(***************************************************************************)
(* The units of the device                                                 *)
(***************************************************************************)

\* What the handler has read and not worked through it has cleared, and a bit comes
\* up again only when the unit runs again.  So a unit stands still for a bit that is
\* still to be worked through, in the status byte or in what was read of it, or was
\* missed, and then it stands still for ever.
BitsInv ==
  /\ cpu \in {"user", "ack", "FR", "CNA"}
  /\ cpu = "user" => seen = {}
  /\ cpu = "ack" => seen \subseteq status
  /\ cpu \in {"user", "CNA"} => ru \/ "FR" \in status \cup missed
  /\ ru \/ "FR" \in status \cup seen \cup missed

UnitInv ==
  /\ current_cmd = 0 => cu = 0 /\ "CNA" \notin status \cup seen \cup missed
  /\ current_cmd # 0 => cu = (IF "CNA" \in status \cup seen \cup missed THEN 0 ELSE current_cmd)
  /\ "CNA" \in seen => "CNA" \notin status \/ cpu = "ack"
  /\ "CNA" \in missed => "CNA" \notin status \cup seen

ServedInv == BitsInv /\ UnitInv

LEMMA ServedAside ==
  ServedInv /\ UNCHANGED <<current_cmd, cu, status, seen, missed, ru, cpu>> => ServedInv'
BY DEF ServedInv, BitsInv, UnitInv

\* A command that is issued to an idle unit runs; the others leave the unit alone.
LEMMA IssueServes ==
  ASSUME OrderInv, UnitInv, NEW len, NEW id, eth_command(len, id), UNCHANGED <<status, seen, missed>>,
         cpu' = cpu \/ (cpu # "ack" /\ cpu' # "ack")
  PROVE  UnitInv'
<1>1. CASE eth_no_memory(len) \/ eth_no_node(len)
  <2>1. current_cmd' = current_cmd /\ cu' = cu
    BY <1>1 DEF eth_no_memory, eth_no_node
  <2> QED BY <2>1 DEF UnitInv
<1>2. CASE eth_issue(len, id)
  <2>1. Issue(FreeNode)
    BY <1>2 DEF eth_issue
  <2>2. CASE CU_BUSY
    <3>1. current_cmd' = current_cmd /\ cu' = cu
      BY <2>1, <2>2 DEF Issue
    <3> QED BY <3>1 DEF UnitInv
  <2>3. CASE ~CU_BUSY
    <3>1. current_cmd' = FreeNode /\ cu' = FreeNode /\ current_cmd = 0
      BY <2>1, <2>3 DEF Issue, OrderInv, LineInv
    <3>2. FreeNode # 0
      <4>1. Outstanding \in Seq(Nodes)
        BY OutstandingSeq DEF OrderInv
      <4>2. used \subseteq Nodes
        BY <4>1 DEF OrderInv, NodesInv, ToSet
      <4>3. FreeNode \in Nodes
        BY <1>2, <4>2, FreeNodeIs DEF eth_issue
      <4> QED BY <4>3 DEF Nodes
    <3> QED BY <3>1, <3>2 DEF UnitInv
  <2> QED BY <2>2, <2>3
<1> QED BY <1>1, <1>2 DEF eth_command

LEMMA CallServes ==
  ASSUME OrderInv, ServedInv, NetCall PROVE ServedInv'
<1>1. ASSUME NEW p \in Pids, NEW len, NEW answer, command_and_block(p, len, answer),
             UNCHANGED <<status, seen, missed, ru, cpu>>
      PROVE  ServedInv'
  <2>1. eth_command(len, p)
    BY <1>1 DEF command_and_block, eth_command
  <2>2. UnitInv'
    BY <1>1, <2>1, IssueServes DEF ServedInv
  <2>3. BitsInv'
    BY <1>1 DEF ServedInv, BitsInv
  <2> QED BY <2>2, <2>3 DEF ServedInv
<1>2. ASSUME NEW p \in Pids, NEW len \in TxLengths, sysnet_send(p, len, TRUE) PROVE ServedInv'
  BY <1>1, <1>2 DEF sysnet_send, rxVars
<1>3. ASSUME NEW p \in Pids, sysnet_send(p, EmptyLength, FALSE) PROVE ServedInv'
  BY <1>1, <1>3 DEF sysnet_send, rxVars
<1>4. ASSUME NEW p \in Pids, sysnet_setMAC(p) PROVE ServedInv'
  BY <1>1, <1>4 DEF sysnet_setMAC, rxVars
<1>5. ASSUME NEW p \in Pids, NEW port \in Ports, sysnet_recv(p, port) PROVE ServedInv'
  BY <1>5, ServedAside DEF sysnet_recv, ethVars, cmdVars, rxVars
<1>6. ASSUME NEW p \in Pids, NEW victim \in Pids, sys_kill(p, victim) PROVE ServedInv'
  BY <1>6, ServedAside DEF sys_kill, ethVars, cmdVars, rxVars
<1> QED BY <1>2, <1>3, <1>4, <1>5, <1>6 DEF NetCall

\* The device sets a bit at any time, between the two accesses too.
LEMMA DeviceServes ==
  ASSUME LineInv, ServedInv, NetDevice PROVE ServedInv'
<1>0. 0 \notin Nodes
  BY DEF Nodes
<1>1. CASE CommandEnds
  <2>1. /\ cu # 0 /\ cu' = 0 /\ status' = status \cup {"CNA"}
        /\ UNCHANGED <<current_cmd, seen, missed, ru, cpu>>
    BY <1>1 DEF CommandEnds, rxVars
  <2>2. BitsInv'
    BY <2>1 DEF ServedInv, BitsInv
  <2>3. UnitInv'
    BY <2>1 DEF ServedInv, UnitInv
  <2> QED BY <2>2, <2>3 DEF ServedInv
<1>2. ASSUME NEW f \in Frames, FrameArrives(f) PROVE ServedInv'
  <2>1. UNCHANGED <<current_cmd, cu, seen, missed, cpu>>
    BY <1>2 DEF FrameArrives, cmdVars
  <2>2. CASE ru
    <3>1. ru' = FALSE /\ status' = status \cup {"FR"}
      BY <1>2, <2>2 DEF FrameArrives
    <3>2. "FR" # "CNA"
      OBVIOUS
    <3> QED BY <2>1, <3>1, <3>2 DEF ServedInv, BitsInv, UnitInv
  <2>3. CASE ~ru
    BY <1>2, <2>1, <2>3, ServedAside DEF FrameArrives
  <2> QED BY <2>2, <2>3
<1> QED BY <1>1, <1>2 DEF NetDevice

LEMMA IsrServes ==
  ASSUME OrderInv, ServedInv, NetIsr PROVE ServedInv'
<1>1. CASE eth_isr_ack
  <2>1. /\ cpu = "ack" /\ status' = {} /\ cpu' = "FR" /\ UNCHANGED <<current_cmd, cu, seen, ru>>
        /\ missed' = missed \cup (status \ seen)
    BY <1>1 DEF eth_isr_ack, cmdVars, rxVars
  <2> QED BY <2>1 DEF ServedInv, BitsInv, UnitInv
<1>2. CASE eth_isr_no_frame
  <2>1. cpu = "FR" /\ "FR" \notin seen /\ cpu' = "CNA" /\ UNCHANGED <<current_cmd, cu, status, seen, missed, ru>>
    BY <1>2 DEF eth_isr_no_frame, cmdVars, rxVars
  <2> QED BY <2>1 DEF ServedInv, BitsInv, UnitInv
<1>3. CASE eth_isr_no_command
  <2>1. cpu = "CNA" /\ "CNA" \notin seen /\ cpu' = "user" /\ seen' = {}
        /\ UNCHANGED <<current_cmd, cu, status, missed, ru>>
    BY <1>3 DEF eth_isr_no_command, cmdVars, rxVars
  <2> QED BY <2>1 DEF ServedInv, BitsInv, UnitInv
<1>4. CASE eth_isr_frame(sysnet_recv_cb)
  <2>1. cpu = "FR" /\ cpu' = "CNA" /\ ru' = TRUE /\ UNCHANGED <<status, seen, missed>> /\ sysnet_recv_cb
    BY <1>4 DEF eth_isr_frame, restart_RU
  <2>2. BitsInv'
    BY <2>1 DEF ServedInv, BitsInv
  <2>3. UnitInv'
    <3>1. CASE recv_cb_arp
      <4>1. eth_command(ArpLength, 0)
        BY <3>1 DEF recv_cb_arp
      <4> QED BY <2>1, <4>1, IssueServes DEF ServedInv
    <3>2. CASE recv_cb_ignore \/ recv_cb_udp
      <4>1. UNCHANGED <<current_cmd, cu>>
        BY <3>2 DEF recv_cb_ignore, recv_cb_udp, cmdVars
      <4> QED BY <2>1, <4>1 DEF ServedInv, UnitInv
    <3> QED BY <2>1, <3>1, <3>2 DEF sysnet_recv_cb
  <2> QED BY <2>2, <2>3 DEF ServedInv
<1>5. CASE sysnet_cmd_cb
  <2>1. CASE eth_isr_command
    <3>1. /\ cpu = "CNA" /\ "CNA" \in seen /\ cpu' = "user" /\ seen' = {} /\ current_cmd # 0
          /\ UNCHANGED <<status, missed, ru>> /\ StartNext
      BY <1>5, <2>1 DEF eth_isr_command, sysnet_cmd_cb, rxVars
    <3>2. BitsInv'
      BY <3>1 DEF ServedInv, BitsInv
    <3>3. cu = 0 /\ "CNA" \notin status \cup missed
      BY <3>1 DEF ServedInv, UnitInv
    <3>4. CASE cu_waiting # <<>>
      <4>1. current_cmd' = Head(cu_waiting) /\ cu' = Head(cu_waiting)
        BY <3>1, <3>4 DEF StartNext
      <4>2. Head(cu_waiting) \in Nodes /\ 0 \notin Nodes
        <5>1. cu_waiting \in Seq(Nodes) /\ 0 \notin Nodes
          BY DEF OrderInv, LineInv, Nodes
        <5> QED BY <3>4, <5>1
      <4>3. UnitInv'
        BY <3>1, <3>3, <4>1, <4>2 DEF UnitInv
      <4> QED BY <3>2, <4>3 DEF ServedInv
    <3>5. CASE cu_waiting = <<>>
      <4>1. current_cmd' = 0 /\ cu' = cu
        BY <3>1, <3>5 DEF StartNext
      <4>2. UnitInv'
        BY <3>1, <3>3, <4>1 DEF UnitInv
      <4> QED BY <3>2, <4>2 DEF ServedInv
    <3> QED BY <3>4, <3>5
  <2>2. CASE UNCHANGED ethVars
    BY <2>2, ServedAside DEF ethVars, cmdVars, rxVars
  <2> QED BY <1>5, <2>1, <2>2 DEF sysnet_cmd_cb, cmd_cb_kernel, cmd_cb_wake, cmd_cb_panic
<1> QED BY <1>1, <1>2, <1>3, <1>4, <1>5 DEF NetIsr

LEMMA NextServed ==
  CallersInv /\ ServedInv /\ [NetNext]_netVars => ServedInv'
<1> SUFFICES ASSUME OrderInv, ServedInv, [NetNext]_netVars PROVE ServedInv'
  BY DEF CallersInv
<1>1. CASE NetCall
  BY <1>1, CallServes
<1>2. CASE NetDevice
  BY <1>2, DeviceServes DEF OrderInv
<1>3. CASE NetEnter
  <2>1. cpu = "user" /\ seen' = status /\ cpu' = "ack" /\ UNCHANGED <<current_cmd, cu, status, missed, ru>>
    BY <1>3 DEF NetEnter, eth_isr_read, InUser, cmdVars, rxVars
  <2> QED BY <2>1 DEF ServedInv, BitsInv, UnitInv
<1>4. CASE NetIsr
  BY <1>4, IsrServes
<1>5. CASE UNCHANGED netVars
  BY <1>5, ServedAside DEF netVars, ethVars, cmdVars, rxVars
<1> QED BY <1>1, <1>2, <1>3, <1>4, <1>5 DEF NetNext

LEMMA InitServed == NetInit => ServedInv
BY DEF NetInit, EthInit, ServedInv, BitsInv, UnitInv

LEMMA ServedIs == CallersInv /\ ServedInv => UnitsServed
<1> HAVE CallersInv /\ ServedInv
<1>1. (CU_BUSY <=> current_cmd # 0) /\ (current_cmd = 0 => cu_waiting = <<>>)
  BY DEF CallersInv, OrderInv, LineInv
<1> QED BY <1>1 DEF ServedInv, BitsInv, UnitInv, UnitsServed

-----------------------------------------------------------------------------
(***************************************************************************)
(* The results                                                             *)
(***************************************************************************)

\* Commands complete in the order they were issued, each once, whatever the
\* processes and the network do (eth.c:392).
THEOREM CommandsCompleteInOrder == NetSpec => []CommandsInOrder
<1>1. CallersInv => CommandsInOrder
  BY DEF CallersInv, OrderInv, NumbersInv
<1> QED BY <1>1, CallersInvariance, PTL

\* No command node leaks and none is given out twice; CBL_start and CBL_end stay in
\* the ring, though they are rounded up past its end (eth.c:156-187, 385-389).
THEOREM NodesAreAccounted == NetSpec => []NodesAccounted
<1>1. CallersInv => NodesAccounted
  BY DEF CallersInv, OrderInv, RingInv, NodesInv, NodesAccounted
<1> QED BY <1>1, CallersInvariance, PTL

\* Until the driver refuses a command, the processes that wait for one are those
\* it will name, in its order, so no assertion fails; and every blocked process
\* waits in one place (sysnet.c:61-64, 93-102, 160-166, 222-225).
THEOREM CallersAreInStep == NetSpec => []CallersInStep
<1>1. CallersInv => CallersInStep
  BY PlacesCounted DEF CallersInv, CallersInStep
<1> QED BY <1>1, CallersInvariance, PTL

\* A busy command unit runs the current command or its completion is on the way, and
\* so is the frame of a receive unit without a descriptor; unless just that bit was set
\* between the two accesses of the handler, which may happen here (eth.c:303-309).
THEOREM UnitsAreServed == NetSpec => []UnitsServed
<1>1. NetInit => CallersInv /\ ServedInv
  BY InitCallers, InitServed
<1>2. CallersInv /\ ServedInv /\ [NetNext]_netVars => (CallersInv /\ ServedInv)'
  BY NextCallers, NextServed
<1>3. CallersInv /\ ServedInv => UnitsServed
  BY ServedIs
<1> QED BY <1>1, <1>2, <1>3, PTL DEF NetSpec

=============================================================================
