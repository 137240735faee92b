------------------------------ MODULE PagePool ------------------------------
(***************************************************************************)
(* What the page allocator promises: a pool of pages from which runs of    *)
(* contiguous pages are taken and to which single pages are given back.  A *)
(* request fails only if there is no such run.  How the free pages are     *)
(* grouped into blocks is nobody's business.                               *)
(***************************************************************************)
EXTENDS Integers

CONSTANTS
  Page,      \* distance of neighbouring pages
  NULL,      \* the answer of a request that fails
  Counts     \* how many pages are asked for at once

VARIABLES
  free,      \* the free pages
  answer     \* the last call, if a request: how many pages, and from where

\* The count pages from base on.
Run(base, count) == {base + Page * i : i \in 0 .. count - 1}

Runs(count) == {base \in free : Run(base, count) \subseteq free}

Take(count) ==
  \E base \in Runs(count) :
    /\ free' = free \ Run(base, count)
    /\ answer' = [count |-> count, base |-> base]

Refuse(count) ==
  /\ count = 0 \/ Runs(count) = {}
  /\ answer' = [count |-> count, base |-> NULL]
  /\ UNCHANGED free

Give(page) ==
  /\ page \notin free
  /\ free' = free \cup {page}
  /\ answer' = [count |-> 0, base |-> NULL]

Next ==
  \/ \E count \in Counts : Take(count) \/ Refuse(count)
  \/ \E page \in free' : Give(page)

Spec == [][Next]_<<free, answer>>
=============================================================================
