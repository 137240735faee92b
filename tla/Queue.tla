------------------------------- MODULE Queue -------------------------------
(***************************************************************************)
(* The queue module (queues.c): doubly linked lists of nodes, self-ordering*)
(* if the queue has an order, with free lists of nodes and of queues that  *)
(* are refilled a slice at a time.  Pointers are numbers, NULL is 0; the   *)
(* free queues are linked by their head fields, as in the code.            *)
(*                                                                         *)
(* _km_slice_alloc never returns NULL (Kmem), so the answers for a missing *)
(* node or queue are unreachable and left out.                             *)
(***************************************************************************)
EXTENDS Integers, FiniteSets, Sequences

CONSTANTS
  NodesPerSlice,
  QueuesPerSlice,
  NodeSlices,     \* BOUND: slices that become nodes
  QueueSlices,    \* BOUND: slices that become queues
  Data,           \* what clients put into queues
  Keys            \* of ordered queues; clients use 0 for the others

NULL      == 0
E_SUCCESS == 0
Nodes     == 1 .. NodesPerSlice * NodeSlices
Queues    == 1 .. QueuesPerSlice * QueueSlices

ASSUME SizeAssumption ==
  /\ {NodesPerSlice, QueuesPerSlice, NodeSlices, QueueSlices} \subseteq Nat \ {0}
  /\ Keys \subseteq Nat /\ 0 \in Keys /\ NULL \notin Data

VARIABLES
  prev, next, key, data,           \* fields of each node
  head, tail, length, order,       \* fields of each queue; order is "none" in a free one
  free_qnodes, free_queues,        \* _free_qnodes, _free_queues
  node_slices, queue_slices,       \* how many slices were carved
  answer                           \* of the last call

nodeVars   == <<prev, next, key, data, free_qnodes, node_slices>>
queueVars  == <<head, tail, length, order>>
queuesVars == <<nodeVars, queueVars, free_queues, queue_slices, answer>>

\* What is in the n-th slice of size records, and the links its records get when
\* they are freed one after the other, in front of an empty list.
Slice(n, size) == (n - 1) * size + 1 .. n * size
Carved(links, n, size) ==
  [i \in DOMAIN links |-> IF i \notin Slice(n, size) THEN links[i]
                          ELSE IF i - 1 \in Slice(n, size) THEN i - 1 ELSE NULL]

QueInit ==
  /\ prev = [n \in Nodes |-> NULL] /\ key = [n \in Nodes |-> 0]
  /\ data = [n \in Nodes |-> NULL]
  /\ next = Carved([n \in Nodes |-> NULL], 1, NodesPerSlice)
  /\ free_qnodes = NodesPerSlice /\ node_slices = 1
  /\ head = Carved([q \in Queues |-> NULL], 1, QueuesPerSlice)
  /\ tail = [q \in Queues |-> NULL] /\ length = [q \in Queues |-> 0]
  /\ order = [q \in Queues |-> "none"]
  /\ free_queues = QueuesPerSlice /\ queue_slices = 1
  /\ answer = NULL

-----------------------------------------------------------------------------
\* Defect: the free queues behind the one handed out are lost.
que_alloc_Drops(o) ==
  /\ free_queues = NULL => queue_slices < QueueSlices
  /\ LET fresh == free_queues = NULL
         new   == IF fresh THEN (queue_slices + 1) * QueuesPerSlice ELSE free_queues
     IN  /\ queue_slices' = IF fresh THEN queue_slices + 1 ELSE queue_slices
         /\ free_queues' = NULL
         /\ head' = [head EXCEPT ![new] = NULL]
         /\ tail' = [tail EXCEPT ![new] = NULL]
         /\ length' = [length EXCEPT ![new] = 0]
         /\ order' = [order EXCEPT ![new] = o]
         /\ answer' = new
  /\ UNCHANGED nodeVars

\* _que_alloc: the first free queue, of a new slice if there is none.
que_alloc(o) ==
  /\ free_queues = NULL => queue_slices < QueueSlices
  /\ LET fresh == free_queues = NULL
         links == IF fresh THEN Carved(head, queue_slices + 1, QueuesPerSlice) ELSE head
         new   == IF fresh THEN (queue_slices + 1) * QueuesPerSlice ELSE free_queues
     IN  /\ queue_slices' = IF fresh THEN queue_slices + 1 ELSE queue_slices
         /\ free_queues' = links[new]
         /\ head' = [links EXCEPT ![new] = NULL]
         /\ tail' = [tail EXCEPT ![new] = NULL]
         /\ length' = [length EXCEPT ![new] = 0]
         /\ order' = [order EXCEPT ![new] = o]
         /\ answer' = new
  /\ UNCHANGED nodeVars

\* _qn_alloc: the first free node, of a new slice if there is none, and the
\* links between the nodes after that.
FreshSlice == free_qnodes = NULL
NewNode    == IF FreshSlice THEN (node_slices + 1) * NodesPerSlice ELSE free_qnodes
NewLinks   == IF FreshSlice THEN Carved(next, node_slices + 1, NodesPerSlice) ELSE next

qn_alloc ==
  /\ FreshSlice => node_slices < NodeSlices
  /\ node_slices' = IF FreshSlice THEN node_slices + 1 ELSE node_slices
  /\ free_qnodes' = NewLinks[NewNode]

-----------------------------------------------------------------------------
(***************************************************************************)
(* Insertion of node n, whose fields qn_alloc has cleared                  *)
(***************************************************************************)
link_empty(q, n) ==
  /\ head' = [head EXCEPT ![q] = n] /\ tail' = [tail EXCEPT ![q] = n]
  /\ length' = [length EXCEPT ![q] = 1]
  /\ next' = [NewLinks EXCEPT ![n] = NULL] /\ prev' = [prev EXCEPT ![n] = NULL]

link_last(q, n) ==
  /\ prev' = [prev EXCEPT ![n] = tail[q]]
  /\ next' = [NewLinks EXCEPT ![n] = NULL, ![tail[q]] = n]
  /\ tail' = [tail EXCEPT ![q] = n]
  /\ length' = [length EXCEPT ![q] = @ + 1]
  /\ UNCHANGED head

\* Defect: the successor keeps its link to the node that was before it.
link_before_OneWay(q, n, curr) ==
  /\ next' = [i \in Nodes |-> IF i = n THEN curr
                              ELSE IF i = prev[curr] THEN n ELSE NewLinks[i]]
  /\ prev' = [prev EXCEPT ![n] = prev[curr]]
  /\ head' = IF prev[curr] = NULL THEN [head EXCEPT ![q] = n] ELSE head
  /\ length' = [length EXCEPT ![q] = @ + 1]
  /\ UNCHANGED tail

link_before(q, n, curr) ==
  /\ next' = [i \in Nodes |-> IF i = n THEN curr
                              ELSE IF i = prev[curr] THEN n ELSE NewLinks[i]]
  /\ prev' = [prev EXCEPT ![n] = prev[curr], ![curr] = n]
  /\ head' = IF prev[curr] = NULL THEN [head EXCEPT ![q] = n] ELSE head
  /\ length' = [length EXCEPT ![q] = @ + 1]
  /\ UNCHANGED tail

\* Defect: an entry is put in front of those with the same key.
Behind_Equal(n, k) == key[n] >= k

\* Does node n come behind a new entry with key k?
Behind(n, k) == key[n] > k

\* The node the traversal from the head stops at: NULL behind the last one.
Successor(q, k) ==
  LET walk[i \in 0 .. Cardinality(Nodes)] ==
        IF i = 0 THEN head[q]
        ELSE LET n == walk[i - 1]
             IN  IF n = NULL THEN NULL ELSE IF Behind(n, k) THEN n ELSE next[n]
  IN  walk[Cardinality(Nodes)]

que_enque(q, d, k) ==
  /\ qn_alloc
  /\ \/ length[q] = 0 /\ link_empty(q, NewNode)
     \/ length[q] # 0 /\ order[q] = "fifo" /\ link_last(q, NewNode)
     \/ /\ length[q] # 0 /\ order[q] = "ordered"
        /\ \/ Successor(q, k) = NULL /\ link_last(q, NewNode)
           \/ Successor(q, k) # NULL /\ link_before(q, NewNode, Successor(q, k))
  /\ key' = [key EXCEPT ![NewNode] = k]
  /\ data' = [data EXCEPT ![NewNode] = d]
  /\ answer' = E_SUCCESS
  /\ UNCHANGED <<order, free_queues, queue_slices>>

-----------------------------------------------------------------------------
\* _que_deque of an empty queue
que_deque_none(q) ==
  /\ length[q] = 0
  /\ answer' = NULL
  /\ UNCHANGED <<nodeVars, queueVars, free_queues, queue_slices>>

\* _que_deque; the node becomes the first free one (_qn_free).
que_deque_first(q) ==
  LET qn == head[q] IN
  /\ length[q] # 0
  /\ head' = [head EXCEPT ![q] = next[qn]]
  /\ length' = [length EXCEPT ![q] = @ - 1]
  /\ IF next[qn] # NULL
     THEN prev' = [prev EXCEPT ![next[qn]] = NULL] /\ UNCHANGED tail
     ELSE tail' = [tail EXCEPT ![q] = NULL] /\ UNCHANGED prev
  /\ next' = [next EXCEPT ![qn] = free_qnodes]
  /\ free_qnodes' = qn
  /\ answer' = data[qn]
  /\ UNCHANGED <<key, data, order, node_slices, free_queues, queue_slices>>

que_peek(q) ==
  /\ answer' = IF length[q] = 0 THEN NULL ELSE data[head[q]]
  /\ UNCHANGED <<nodeVars, queueVars, free_queues, queue_slices>>

que_length(q) ==
  /\ answer' = length[q]
  /\ UNCHANGED <<nodeVars, queueVars, free_queues, queue_slices>>

-----------------------------------------------------------------------------
InUse == {q \in Queues : order[q] # "none"}

QueNext ==
  \/ \E o \in {"fifo", "ordered"} : que_alloc(o)
  \/ \E q \in InUse :
       \/ \E d \in Data, k \in Keys : (order[q] = "fifo" => k = 0) /\ que_enque(q, d, k)
       \/ que_deque_none(q) \/ que_deque_first(q)
       \/ que_peek(q) \/ que_length(q)

QueSpec == QueInit /\ [][QueNext]_queuesVars

-----------------------------------------------------------------------------
\* The first n of the list along links that starts at first.
Following(links, first, n) ==
  LET node[i \in 1 .. n] == IF i = 1 THEN first ELSE links[node[i - 1]] IN node

Chain(q) == Following(next, head[q], length[q])

\* How many nodes are neither in a queue nor uncarved: as long as the free list
\* has to be.
FreeCount ==
  LET used[i \in 0 .. Cardinality(Queues)] ==
        IF i = 0 THEN 0 ELSE used[i - 1] + (IF order[i] = "none" THEN 0 ELSE length[i])
  IN  node_slices * NodesPerSlice - used[Cardinality(Queues)]

\* The queues that were carved and are in nobody's hands.
Spare == {q \in 1 .. queue_slices * QueuesPerSlice : order[q] = "none"}

Nodes_of(s) == {s[i] : i \in DOMAIN s}

\* The list along links from first has n members, all different, and ends there.
EndsAfter(links, first, n) ==
  LET free == Following(links, first, n)
  IN  /\ Nodes_of(free) \subseteq DOMAIN links
      /\ Cardinality(Nodes_of(free)) = n
      /\ (IF n = 0 THEN first ELSE links[free[n]]) = NULL

\* The links of a queue agree in both directions and with head, tail and length;
\* every node that was carved is in one list, once: a queue's, or the free list,
\* which ends after the rest of them; and the list of free queues, along their
\* head fields, has every carved queue that is not in use, and ends after them
\* (queues.c:48-53, 70-76, 92-162).
LinksAgree ==
  /\ FreeCount >= 0
  /\ EndsAfter(next, free_qnodes, FreeCount)
  /\ \A q \in InUse :
       LET c == Chain(q) IN
         /\ Nodes_of(c) \subseteq Nodes \ Nodes_of(Following(next, free_qnodes, FreeCount))
         /\ length[q] = 0 => head[q] = NULL /\ tail[q] = NULL
         /\ length[q] > 0 => tail[q] = c[length[q]] /\ next[tail[q]] = NULL
         /\ \A i \in 1 .. length[q] : prev[c[i]] = (IF i = 1 THEN NULL ELSE c[i - 1])
         /\ \A r \in InUse \ {q} : Nodes_of(c) \cap Nodes_of(Chain(r)) = {}
  /\ EndsAfter(head, free_queues, Cardinality(Spare))
  /\ Nodes_of(Following(head, free_queues, Cardinality(Spare))) = Spare
  /\ InUse \subseteq 1 .. queue_slices * QueuesPerSlice

Seqs == INSTANCE SeqQueues WITH
  content <- [q \in Queues |->
                IF order[q] = "none" THEN <<>>
                ELSE [i \in 1 .. length[q] |->
                        [key |-> key[Chain(q)[i]], data |-> data[Chain(q)[i]]]]]

\* The lists are sequences: in the order of arrival, or of keys and then of
\* arrival, as the models of the other components take them to be (queues.c:26-40).
QueueSpec == Seqs!Spec
=============================================================================
