-------------------------------- MODULE Kmem --------------------------------
(***************************************************************************)
(* Memory: the page allocator with its list of free blocks, the slices     *)
(* that pages are carved into (kmem.c), and the stacks that are allocated  *)
(* as pages and never returned as such (stacks.c).                         *)
(*                                                                         *)
(* Addresses and lengths count slices (1K); four make a page.  The list of *)
(* free blocks is the sequence of the blocks in the order of their links.  *)
(***************************************************************************)
EXTENDS Integers, Sequences, FiniteSets, FiniteSetsExt, SequencesExt

CONSTANTS
  MemoryMaps,   \* the region lists a BIOS may report
  Cutoff,       \* end of the system's image, rounded up to a page
  Top,          \* first address that 32 bits do not reach
  PageCounts,   \* how many pages clients ask for at once
  STACK_PAGES,
  MaxSlices,    \* BOUND: slices that clients hold at once
  MaxStacks     \* BOUND: stacks that clients hold at once

PAGE_SIZE == 4
NULL      == 0
NoRequest == [count |-> 0, base |-> NULL]

ASSUME MemoryAssumption ==
  /\ Cutoff \in Nat /\ Top \in Nat /\ 0 < Cutoff /\ Cutoff < Top /\ Cutoff % PAGE_SIZE = 0
  /\ PageCounts \subseteq Nat /\ STACK_PAGES \in Nat \ {0}

VARIABLES
  free_pages,   \* the free blocks: base and pages
  free_slices, free_stacks,
  pages, slices, stacks,  \* what clients hold
  answer,       \* of the last call on pages: what was asked for, and RET
  panic

lists  == <<free_pages, free_slices, free_stacks>>
held   == <<pages, slices, stacks>>
kmVars == <<lists, held, answer, panic>>

-----------------------------------------------------------------------------
(***************************************************************************)
(* The list of free blocks                                                 *)
(***************************************************************************)
End(block) == block.base + block.pages * PAGE_SIZE

adjacent(first, second) == End(first) = second.base

\* How many blocks the search for an address passes.
Passed(list, base) == Cardinality({i \in DOMAIN list : \A j \in 1 .. i : list[j].base < base})

\* The part of a region that is between the limits.
Clipped(region) ==
  LET base == Max({region.base, Cutoff})
      end  == Min({region.base + region.length, Top})
  IN  [base |-> base, length |-> end - base]

\* _add_block: whole pages only, in the order of addresses.
add_block(list, region) ==
  LET block == [base |-> region.base, pages |-> region.length \div PAGE_SIZE]
  IN  IF region.length < PAGE_SIZE THEN list
      ELSE InsertAt(list, Passed(list, block.base) + 1, block)

\* One entry of the BIOS's list.
add_region(list, region) ==
  IF ~region.usable \/ region.base >= Top \/ region.base + region.length < Cutoff THEN list
  ELSE add_block(list, Clipped(region))

\* Defect: the fragment keeps the size of the whole block.
Carved_Whole(list, i, count) ==
  IF list[i].pages = count THEN RemoveAt(list, i)
  ELSE [list EXCEPT ![i] = [base |-> @.base + count * PAGE_SIZE, pages |-> @.pages]]

\* A request is taken off the beginning of block i.
Carved(list, i, count) ==
  IF list[i].pages = count THEN RemoveAt(list, i)
  ELSE [list EXCEPT ![i] = [base |-> @.base + count * PAGE_SIZE, pages |-> @.pages - count]]

\* The blocks that are large enough.
Fitting(count) == IF count < 1 THEN {} ELSE {i \in DOMAIN free_pages : free_pages[i].pages >= count}

\* Defect: the block after it is not joined.
JoinNext_Not(list, i) == list

\* Block i and the block after it become one if they are adjacent.
JoinNext(list, i) ==
  IF i < Len(list) /\ adjacent(list[i], list[i + 1])
  THEN RemoveAt([list EXCEPT ![i].pages = @ + list[i + 1].pages], i + 1)
  ELSE list

\* The page joins the block before it or becomes a block, then the block after it.
Returned(list, page) ==
  LET i    == Passed(list, page)
      used == [base |-> page, pages |-> 1]
  IN  IF i > 0 /\ adjacent(list[i], used)
      THEN JoinNext([list EXCEPT ![i].pages = @ + 1], i)
      ELSE JoinNext(InsertAt(list, i + 1, used), i + 1)

-----------------------------------------------------------------------------
KmInit ==
  /\ \E map \in MemoryMaps : free_pages = FoldLeft(add_region, <<>>, map)
  /\ free_slices = <<>> /\ free_stacks = <<>>
  /\ pages = {} /\ slices = {} /\ stacks = {}
  /\ answer = NoRequest /\ panic = FALSE

\* The pages of a block.
PagesFrom(base, count) == {base + i * PAGE_SIZE : i \in 0 .. count - 1}

\* _km_page_alloc takes the first block that is large enough.
page_alloc_some(count) ==
  /\ Fitting(count) # {}
  /\ LET i == Min(Fitting(count)) IN
       /\ answer' = [count |-> count, base |-> free_pages[i].base]
       /\ free_pages' = Carved(free_pages, i, count)

page_alloc_none(count) ==
  /\ Fitting(count) = {}
  /\ answer' = [count |-> count, base |-> NULL]
  /\ UNCHANGED free_pages

km_page_alloc(count) ==
  /\ \/ page_alloc_some(count) /\ pages' = pages \cup PagesFrom(answer'.base, count)
     \/ page_alloc_none(count) /\ UNCHANGED pages
  /\ UNCHANGED <<free_slices, free_stacks, slices, stacks, panic>>

\* A client returns the pages it holds one at a time.
km_page_free(page) ==
  /\ free_pages' = Returned(free_pages, page)
  /\ pages' = pages \ {page}
  /\ answer' = NoRequest
  /\ UNCHANGED <<free_slices, free_stacks, slices, stacks, panic>>

\* _carve_slices: each of the four goes to the front of the list.
Slices(page) == [i \in 1 .. PAGE_SIZE |-> page + PAGE_SIZE - i]

slice_alloc_listed ==
  /\ free_slices # <<>>
  /\ slices' = slices \cup {Head(free_slices)}
  /\ free_slices' = Tail(free_slices)
  /\ UNCHANGED <<free_pages, answer, panic>>

slice_alloc_carve ==
  /\ free_slices = <<>>
  /\ page_alloc_some(1)
  /\ slices' = slices \cup {Head(Slices(answer'.base))}
  /\ free_slices' = Tail(Slices(answer'.base))
  /\ UNCHANGED panic

\* No page is left: an assertion stops the system.
slice_alloc_panic ==
  /\ free_slices = <<>>
  /\ page_alloc_none(1)
  /\ panic' = TRUE
  /\ UNCHANGED <<free_slices, slices>>

km_slice_alloc ==
  /\ Cardinality(slices) < MaxSlices
  /\ slice_alloc_listed \/ slice_alloc_carve \/ slice_alloc_panic
  /\ UNCHANGED <<free_stacks, pages, stacks>>

\* Defect: the slice is put on the list and stays with the client's others.
release_Kept(slice) == UNCHANGED slices /\ free_slices' = <<slice>> \o free_slices

release(slice) == slices' = slices \ {slice} /\ free_slices' = <<slice>> \o free_slices

km_slice_free(slice) ==
  /\ release(slice)
  /\ UNCHANGED <<free_pages, free_stacks, pages, stacks, answer, panic>>

\* A stack that was freed is used again, else pages become one; or NULL.
stk_alloc ==
  /\ Cardinality(stacks) < MaxStacks
  /\ \/ /\ free_stacks # <<>>
        /\ stacks' = stacks \cup {Head(free_stacks)}
        /\ free_stacks' = Tail(free_stacks)
        /\ UNCHANGED <<free_pages, answer>>
     \/ /\ free_stacks = <<>>
        /\ page_alloc_some(STACK_PAGES)
        /\ stacks' = stacks \cup {answer'.base}
        /\ UNCHANGED free_stacks
     \/ /\ free_stacks = <<>>
        /\ page_alloc_none(STACK_PAGES)
        /\ UNCHANGED <<stacks, free_stacks>>
  /\ UNCHANGED <<free_slices, pages, slices, panic>>

stk_free(stack) ==
  /\ stacks' = stacks \ {stack}
  /\ free_stacks' = <<stack>> \o free_stacks
  /\ UNCHANGED <<free_pages, free_slices, pages, slices, answer, panic>>

KmNext ==
  /\ ~panic
  /\ \/ \E count \in PageCounts : km_page_alloc(count)
     \/ \E page \in pages : km_page_free(page)
     \/ km_slice_alloc
     \/ \E slice \in slices : km_slice_free(slice)
     \/ stk_alloc
     \/ \E stack \in stacks : stk_free(stack)

KmSpec == KmInit /\ [][KmNext]_kmVars

-----------------------------------------------------------------------------
\* The free blocks are not empty, lie between the limits and in the order of their
\* addresses, do not overlap, and no two of them touch, so none hides a run of
\* pages that is large enough (kmem.c:26-28, 366-378, 454-483, 594-610).
FreeListCoalesced ==
  /\ \A i \in DOMAIN free_pages :
       /\ free_pages[i].pages >= 1
       /\ free_pages[i].base >= Cutoff /\ End(free_pages[i]) <= Top
  /\ \A i \in 1 .. Len(free_pages) - 1 : End(free_pages[i]) < free_pages[i + 1].base

\* Blocks of whole pages between the limits, and lists of them with a gap between any two.
Blocks == {b \in [base : Nat, pages : Nat] :
             b.pages >= 1 /\ b.base % PAGE_SIZE = 0 /\ Cutoff <= b.base /\ End(b) <= Top}

Ordered(list) == \A i, j \in 1 .. Len(list) : i < j => End(list[i]) < list[j].base
ListInv(list) == list \in Seq(Blocks) /\ Ordered(list)

\* What the BIOS has to report for that: whole pages, in regions that do not touch.
RegularMaps == \A map \in MemoryMaps : ListInv(FoldLeft(add_region, <<>>, map))

FreePages == UNION {PagesFrom(free_pages[i].base, free_pages[i].pages) : i \in DOMAIN free_pages}

PageOf(slice) == CHOOSE p \in {slice - i : i \in 0 .. PAGE_SIZE - 1} : p % PAGE_SIZE = 0

\* A carved page keeps its four slices: none is lost.
SlicesKept ==
  \A s \in slices \cup ToSet(free_slices) :
    PageOf(s) .. PageOf(s) + PAGE_SIZE - 1 \subseteq slices \cup ToSet(free_slices)

\* Nothing is in two places: a page is free, held, part of one stack, or carved
\* into slices, all four of them; and a slice is free or held, once
\* (kmem.c:30-44, stacks.c:83-141).
NothingShared ==
  LET stackPages(s) == PagesFrom(s, STACK_PAGES)
      everyStack    == stacks \cup ToSet(free_stacks)
      everySlice    == slices \cup ToSet(free_slices)
      carved        == {PageOf(s) : s \in everySlice}
  IN  /\ SlicesKept
      /\ IsInjective(free_slices) /\ slices \cap ToSet(free_slices) = {}
      /\ IsInjective(free_stacks) /\ stacks \cap ToSet(free_stacks) = {}
      /\ \A s, t \in everyStack : s # t => stackPages(s) \cap stackPages(t) = {}
      /\ LET used == UNION {stackPages(s) : s \in everyStack}
         IN  /\ FreePages \cap (pages \cup used \cup carved) = {}
             /\ pages \cap (used \cup carved) = {} /\ used \cap carved = {}

\* Every page is in one place, and the free ones in as few blocks as can be.
PagesAccounted == FreeListCoalesced /\ NothingShared

Pool == INSTANCE PagePool WITH Page <- PAGE_SIZE, free <- FreePages,
                               Counts <- PageCounts \cup {1, STACK_PAGES}

\* The blocks, however they are split and joined, are a pool of pages: a request
\* fails only when no run of free pages is long enough (kmem.c:21-28).
PoolSpec == Pool!Spec
=============================================================================
