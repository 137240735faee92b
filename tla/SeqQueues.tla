----------------------------- MODULE SeqQueues -----------------------------
(***************************************************************************)
(* What the queue module promises: each queue is a sequence of entries, in *)
(* the order of arrival, or, of an ordered queue, in the order of the keys *)
(* and of arrival among equal keys.  No nodes, links or memory.            *)
(***************************************************************************)
EXTENDS Integers, SequencesExt

CONSTANTS
  Queues,   \* all the queues there may be
  Data,     \* what may be put into one
  Keys,
  NULL,     \* the answer of an empty queue
  E_SUCCESS \* the answer to a request that is done

VARIABLES
  content,  \* queue -> its entries
  order,    \* queue -> "fifo" or "ordered", "none" while nobody has it
  answer    \* of the last call

InUse == {q \in Queues : order[q] # "none"}

\* Entry e goes in front of the first entry with a greater key.
Place(s, e) ==
  CHOOSE i \in 1 .. Len(s) + 1 : /\ \A j \in 1 .. i - 1 : s[j].key <= e.key
                                 /\ i <= Len(s) => s[i].key > e.key
Ordered(s, e) == InsertAt(s, Place(s, e), e)

Alloc ==
  \E q \in Queues \ InUse, o \in {"fifo", "ordered"} :
    /\ order' = [order EXCEPT ![q] = o]
    /\ content' = [content EXCEPT ![q] = <<>>]
    /\ answer' = q

Enque(q, e) ==
  /\ content' = [content EXCEPT ![q] = IF order[q] = "fifo" THEN Append(@, e) ELSE Ordered(@, e)]
  /\ answer' = E_SUCCESS
  /\ UNCHANGED order

First(q) == IF content[q] = <<>> THEN NULL ELSE content[q][1].data

Deque(q) ==
  /\ answer' = First(q)
  /\ content' = [content EXCEPT ![q] = IF @ = <<>> THEN @ ELSE Tail(@)]
  /\ UNCHANGED order

Look(q) == answer' \in {First(q), Len(content[q])} /\ UNCHANGED <<content, order>>

Next ==
  \/ Alloc
  \/ \E q \in InUse : \/ \E e \in [key : Keys, data : Data] : Enque(q, e)
                      \/ Deque(q)
                      \/ Look(q)

Init == content = [q \in Queues |-> <<>>] /\ order = [q \in Queues |-> "none"]

Spec == Init /\ [][Next]_<<content, order, answer>>
=============================================================================
