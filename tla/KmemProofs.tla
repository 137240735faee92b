----------------------------- MODULE KmemProofs -----------------------------
(***************************************************************************)
(* Proofs about the memory of Kmem, for any limits, number of slices and   *)
(* stacks, and any memory map from which regular blocks come.              *)
(*                                                                         *)
(* A list of blocks is reasoned about as the set of its pages, PagesOf: a  *)
(* request takes a run of pages off it, a page that comes back is added,   *)
(* and both keep a gap between any two blocks.  The gap makes a refusal    *)
(* honest: the page after a block is never free.  The rest is bookkeeping  *)
(* between sets that stay apart.                                           *)
(***************************************************************************)
EXTENDS Kmem, ListFacts

-----------------------------------------------------------------------------
(***************************************************************************)
(* Blocks                                                                  *)
(***************************************************************************)

\* The pages between the limits, those from lo to hi, and those of a list.
AllPages     == {x \in Nat : x % PAGE_SIZE = 0 /\ Cutoff <= x /\ x + PAGE_SIZE <= Top}
Span(lo, hi) == {x \in AllPages : lo <= x /\ x < hi}

PagesOf(list) == {x \in AllPages : \E i \in 1 .. Len(list) : list[i].base <= x /\ x < End(list[i])}

\* A run of pages that ends earlier is within the longer one.
LEMMA SpanWithin ==
  \A lo, mid, hi : mid \in Nat /\ hi \in Nat /\ mid <= hi => Span(lo, mid) \subseteq Span(lo, hi)
<1> SUFFICES ASSUME NEW lo, NEW mid \in Nat, NEW hi \in Nat, mid <= hi, NEW x \in AllPages,
                    lo <= x, x < mid
             PROVE  x < hi
  BY DEF Span
<1>1. x \in Nat
  BY DEF AllPages
<1> QED BY <1>1

LEMMA Limits == Cutoff \in Nat /\ Top \in Nat
BY MemoryAssumption

LEMMA Aligned ==
  \A x, y \in Nat : x % 4 = 0 /\ y % 4 = 0 => /\ x < y => x + 4 <= y
                                              /\ \A k \in Nat : (x + k * 4) % 4 = 0
OBVIOUS

LEMMA BlockIs ==
  ASSUME NEW b \in Blocks
  PROVE  /\ b.base \in Nat /\ b.pages \in Nat /\ b.pages >= 1 /\ End(b) = b.base + b.pages * 4
         /\ b.base % 4 = 0 /\ End(b) \in Nat /\ End(b) % 4 = 0 /\ b.base + 4 <= End(b)
         /\ Cutoff <= b.base /\ End(b) <= Top
<1>1. /\ b.base \in Nat /\ b.pages \in Nat /\ b.pages >= 1 /\ End(b) = b.base + b.pages * 4
      /\ b.base % 4 = 0 /\ Cutoff <= b.base /\ End(b) <= Top
  BY DEF Blocks, End, PAGE_SIZE
<1>2. End(b) \in Nat /\ b.base + 4 <= End(b)
  BY <1>1
<1>3. End(b) % 4 = 0
  BY <1>1, Aligned
<1> QED BY <1>1, <1>2, <1>3

LEMMA IsBlock ==
  ASSUME NEW b, b \in [base : Nat, pages : Nat], b.pages >= 1, b.base % 4 = 0, Cutoff <= b.base,
         b.base + b.pages * 4 <= Top
  PROVE  b \in Blocks
BY DEF Blocks, End, PAGE_SIZE

LEMMA PagesFromIs ==
  ASSUME NEW base \in Nat, base % 4 = 0, Cutoff <= base, NEW count \in Nat, base + count * 4 <= Top
  PROVE  PagesFrom(base, count) = Span(base, base + count * 4)
<1>1. ASSUME NEW x \in PagesFrom(base, count) PROVE x \in Span(base, base + count * 4)
  <2>1. PICK i \in 0 .. count - 1 : x = base + i * 4
    BY DEF PagesFrom, PAGE_SIZE
  <2>2. x \in Nat /\ x % 4 = 0
    BY <2>1, Aligned
  <2>3. base <= x /\ x + 4 <= base + count * 4 /\ Cutoff <= x /\ x + 4 <= Top
    BY <2>1, MemoryAssumption
  <2> QED BY <2>2, <2>3 DEF Span, AllPages, PAGE_SIZE
<1>2. ASSUME NEW x \in Span(base, base + count * 4) PROVE x \in PagesFrom(base, count)
  <2>1. x \in Nat /\ x % 4 = 0 /\ base <= x /\ x < base + count * 4
    BY <1>2 DEF Span, AllPages, PAGE_SIZE
  <2>2. PICK i \in Nat : x = base + i * 4
    <3>1. (x - base) % 4 = 0 /\ x - base \in Nat
      BY <2>1
    <3>2. (x - base) \div 4 \in Nat /\ x - base = ((x - base) \div 4) * 4
      BY <3>1
    <3>3. x = base + ((x - base) \div 4) * 4
      BY <2>1, <3>2
    <3> QED BY <3>2, <3>3
  <2>3. i \in 0 .. count - 1
    BY <2>1, <2>2
  <2> QED BY <2>2, <2>3 DEF PagesFrom, PAGE_SIZE
<1> QED BY <1>1, <1>2

\* The pages of the model are those of the list.
FreeOf(list) == UNION {PagesFrom(list[i].base, list[i].pages) : i \in DOMAIN list}

LEMMA FreePagesAre == ASSUME NEW list \in Seq(Blocks) PROVE FreeOf(list) = PagesOf(list)
<1>1. DOMAIN list = 1 .. Len(list) /\ \A i \in 1 .. Len(list) : list[i] \in Blocks
  OBVIOUS
<1>2. \A i \in 1 .. Len(list) :
        PagesFrom(list[i].base, list[i].pages) = Span(list[i].base, End(list[i]))
  <2> TAKE i \in 1 .. Len(list)
  <2>1. /\ list[i].base \in Nat /\ list[i].pages \in Nat /\ End(list[i]) = list[i].base + list[i].pages * 4
        /\ list[i].base % 4 = 0 /\ Cutoff <= list[i].base /\ End(list[i]) <= Top
    BY <1>1, BlockIs
  <2> QED BY <2>1, PagesFromIs
<1>3. \A x : x \in FreeOf(list) <=> \E i \in 1 .. Len(list) : x \in Span(list[i].base, End(list[i]))
  BY <1>1, <1>2 DEF FreeOf
<1> QED BY <1>3 DEF PagesOf, Span

\* What a list of blocks says of the i-th.
LEMMA ListIs ==
  ASSUME NEW list, ListInv(list), NEW i \in 1 .. Len(list)
  PROVE  /\ list[i] \in Blocks
         /\ list[i].base \in Nat /\ End(list[i]) \in Nat /\ list[i].base + 4 <= End(list[i])
         /\ list[i].base % 4 = 0 /\ End(list[i]) % 4 = 0
         /\ Cutoff <= list[i].base /\ End(list[i]) <= Top
         /\ \A j \in 1 .. Len(list) : i < j => End(list[i]) < list[j].base
         /\ Span(list[i].base, End(list[i])) \subseteq PagesOf(list)
<1>1. list[i] \in Blocks
  BY DEF ListInv
<1>2. \A j \in 1 .. Len(list) : i < j => End(list[i]) < list[j].base
  BY DEF ListInv, Ordered
<1>3. Span(list[i].base, End(list[i])) \subseteq PagesOf(list)
  BY DEF PagesOf, Span
<1> QED BY <1>1, <1>2, <1>3, BlockIs

\* A block leaves the list.
LEMMA BlockLeaves ==
  ASSUME NEW list, ListInv(list), NEW i \in 1 .. Len(list)
  PROVE  /\ ListInv(RemoveAt(list, i))
         /\ PagesOf(RemoveAt(list, i)) = PagesOf(list) \ Span(list[i].base, End(list[i]))
<1> DEFINE t == RemoveAt(list, i)
<1>0. list \in Seq(Blocks)
  BY DEF ListInv
<1>1. PICK n \in Nat : n + 1 = Len(list)
  <2>1. PICK l \in Nat : l = Len(list) /\ l # 0
    BY <1>0
  <2>2. l - 1 \in Nat /\ (l - 1) + 1 = l
    BY <2>1
  <2> QED BY <2>1, <2>2
<1>2. /\ t \in Seq(Blocks) /\ Len(t) = n
      /\ \A j \in 1 .. n : t[j] = IF j < i THEN list[j] ELSE list[j + 1]
  <2>1. Len(list) = n + 1 /\ i \in 1 .. n + 1
    BY <1>1
  <2>2. /\ RemoveAt(list, i) \in Seq(Blocks) /\ Len(RemoveAt(list, i)) = n
        /\ \A j \in 1 .. n : RemoveAt(list, i)[j] = IF j < i THEN list[j] ELSE list[j + 1]
    BY <1>0, <2>1, RemoveIs
  <2> QED BY <2>2
<1> HIDE DEF t
<1>3. \A j \in 1 .. n + 1 : /\ list[j].base \in Nat /\ End(list[j]) \in Nat
                            /\ list[j].base < End(list[j])
  <2> TAKE j \in 1 .. n + 1
  <2>1. j \in 1 .. Len(list)
    BY <1>1
  <2>2. list[j].base \in Nat /\ End(list[j]) \in Nat /\ list[j].base + 4 <= End(list[j])
    BY <2>1, ListIs
  <2> QED BY <2>2
<1>4. \A j, k \in 1 .. n + 1 : j < k => End(list[j]) < list[k].base
  BY <1>1 DEF ListInv, Ordered
<1>5. \A j \in 1 .. n : /\ j < i => t[j] = list[j] /\ j \in 1 .. n + 1
                        /\ ~(j < i) => t[j] = list[j + 1] /\ j + 1 \in 1 .. n + 1
  BY <1>2
<1>6. \A j, k \in 1 .. n : j < k => End(t[j]) < t[k].base
  <2> TAKE j, k \in 1 .. n
  <2> HAVE j < k
  <2>1. CASE k < i
    BY <1>4, <1>5, <2>1
  <2>2. CASE ~(k < i) /\ j < i
    <3>1. j < k + 1
      OBVIOUS
    <3> QED BY <1>4, <1>5, <2>2, <3>1
  <2>3. CASE ~(k < i) /\ ~(j < i)
    <3>1. j + 1 < k + 1
      OBVIOUS
    <3> QED BY <1>4, <1>5, <2>3, <3>1
  <2> QED BY <2>1, <2>2, <2>3
<1>7. ListInv(t)
  BY <1>2, <1>6 DEF ListInv, Ordered
<1> DEFINE In(b, x) == b.base <= x /\ x < End(b)
<1>8. \A x \in AllPages : (\E j \in 1 .. n : In(t[j], x))
                          <=> (\E j \in 1 .. n + 1 : In(list[j], x)) /\ ~In(list[i], x)
  <2> TAKE x \in AllPages
  <2>0. x \in Nat /\ i \in 1 .. n + 1
    BY <1>1 DEF AllPages
  <2>1. \A j \in 1 .. n + 1 : j # i /\ In(list[j], x) => ~In(list[i], x)
    <3> TAKE j \in 1 .. n + 1
    <3>1. j < i \/ i < j \/ i = j
      BY <2>0
    <3> QED BY <1>3, <1>4, <2>0, <3>1, SMTT(40)
  <2>2. ASSUME NEW j \in 1 .. n, In(t[j], x)
        PROVE  (\E k \in 1 .. n + 1 : In(list[k], x)) /\ ~In(list[i], x)
    <3>1. PICK k \in 1 .. n + 1 : t[j] = list[k] /\ k # i
      <4>1. CASE j < i
        BY <1>5, <4>1
      <4>2. CASE ~(j < i)
        <5>1. j + 1 # i
          BY <2>0, <4>2
        <5> QED BY <1>5, <4>2, <5>1
      <4> QED BY <4>1, <4>2
    <3>2. In(list[k], x)
      BY <2>2, <3>1
    <3> QED BY <2>1, <3>1, <3>2
  <2>3. ASSUME NEW k \in 1 .. n + 1, In(list[k], x), ~In(list[i], x)
        PROVE  \E j \in 1 .. n : In(t[j], x)
    <3>1. k # i
      BY <2>3
    <3>2. PICK j \in 1 .. n : t[j] = list[k]
      <4>1. CASE k < i
        <5>1. k \in 1 .. n
          BY <2>0, <4>1
        <5> QED BY <1>5, <4>1, <5>1
      <4>2. CASE i < k
        <5>1. k - 1 \in 1 .. n /\ ~(k - 1 < i) /\ (k - 1) + 1 = k
          BY <2>0, <4>2
        <5> QED BY <1>5, <5>1
      <4> QED BY <2>0, <3>1, <4>1, <4>2
    <3> QED BY <2>3, <3>2
  <2> QED BY <2>2, <2>3
<1>9. PagesOf(t) = PagesOf(list) \ Span(list[i].base, End(list[i]))
  BY <1>1, <1>2, <1>8 DEF PagesOf, Span
<1> QED BY <1>7, <1>9 DEF t

\* A block begins or ends elsewhere, but reaches no other: what lo and hi say of
\* the pages of block i.
LEMMA BlockChanges ==
  ASSUME NEW list \in Seq(Blocks), NEW i \in 1 .. Len(list), NEW b \in Blocks,
         \A j \in 1 .. Len(list) : j < i => End(list[j]) < b.base,
         \A j \in 1 .. Len(list) : i < j => End(b) < list[j].base,
         \A j, k \in 1 .. Len(list) : j < k /\ j # i /\ k # i => End(list[j]) < list[k].base
  PROVE  /\ ListInv([list EXCEPT ![i] = b])
         /\ \A x : x \in PagesOf([list EXCEPT ![i] = b])
                   <=> \/ x \in Span(b.base, End(b))
                       \/ \E j \in 1 .. Len(list) : j # i /\ x \in Span(list[j].base, End(list[j]))
<1> DEFINE t == [list EXCEPT ![i] = b]
<1>1. PICK n \in Nat : n = Len(list)
  OBVIOUS
<1>2. /\ t \in Seq(Blocks) /\ Len(t) = n /\ i \in 1 .. n /\ t[i] = b
      /\ \A j \in 1 .. n : j # i => t[j] = list[j]
  BY <1>1
<1> HIDE DEF t
<1>3. \A j, k \in 1 .. n : j < k => End(t[j]) < t[k].base
  <2> TAKE j, k \in 1 .. n
  <2> HAVE j < k
  <2>1. CASE j = i
    BY <1>1, <1>2, <2>1
  <2>2. CASE k = i
    BY <1>1, <1>2, <2>2
  <2>3. CASE j # i /\ k # i
    BY <1>1, <1>2, <2>3
  <2> QED BY <2>1, <2>2, <2>3
<1>4. ListInv(t)
  BY <1>2, <1>3 DEF ListInv, Ordered
<1>5. \A x : x \in PagesOf(t) <=> \E j \in 1 .. n : x \in Span(t[j].base, End(t[j]))
  BY <1>2 DEF PagesOf, Span
<1>6. \A x : x \in PagesOf(t)
             <=> \/ x \in Span(b.base, End(b))
                 \/ \E j \in 1 .. n : j # i /\ x \in Span(list[j].base, End(list[j]))
  BY <1>2, <1>5, Zenon
<1> QED BY <1>1, <1>4, <1>6 DEF t

LEMMA PagesIn ==
  ASSUME NEW list \in Seq(Blocks)
  PROVE  \A x : x \in PagesOf(list) <=> \E j \in 1 .. Len(list) : x \in Span(list[j].base, End(list[j]))
BY DEF PagesOf, Span

\* count pages are taken off the beginning of block i.
LEMMA Carves ==
  ASSUME NEW list, ListInv(list), NEW i \in 1 .. Len(list), NEW count \in Nat, count >= 1,
         count <= list[i].pages
  PROVE  /\ ListInv(Carved(list, i, count))
         /\ PagesOf(Carved(list, i, count)) = PagesOf(list) \ PagesFrom(list[i].base, count)
         /\ PagesFrom(list[i].base, count) \subseteq PagesOf(list)
         /\ list[i].base \in PagesFrom(list[i].base, count)
<1>0. list \in Seq(Blocks)
  BY DEF ListInv
<1>1. /\ list[i] \in Blocks /\ list[i].base \in Nat /\ list[i].pages \in Nat
      /\ End(list[i]) = list[i].base + list[i].pages * 4
      /\ list[i].base % 4 = 0 /\ Cutoff <= list[i].base /\ End(list[i]) <= Top
  <2>1. list[i] \in Blocks
    BY <1>0
  <2> QED BY <2>1, BlockIs
<1>2. PICK base \in Nat, pages1 \in Nat, end \in Nat :
        /\ base = list[i].base /\ pages1 = list[i].pages /\ end = End(list[i])
        /\ end = base + pages1 * 4 /\ count <= pages1 /\ base + count * 4 <= end
  <2>1. End(list[i]) \in Nat
    BY <1>1
  <2> QED BY <1>1, <2>1
<1>8. end <= Top /\ Cutoff <= base /\ base % 4 = 0
  BY <1>1, <1>2, Zenon
<1>9. base + count * 4 <= end /\ base + 4 <= base + count * 4
  <2>1. count * 4 \in Nat /\ count * 4 >= 4
    OBVIOUS
  <2> QED BY <1>2, <2>1
<1>10. PICK cut \in Nat : cut = base + count * 4
  BY <1>2
<1>11. cut <= end /\ cut <= Top /\ base + 4 <= cut /\ base + 4 <= Top
  BY <1>8, <1>9, <1>10, Limits
<1>3. PagesFrom(base, count) = Span(base, base + count * 4)
  BY <1>8, <1>10, <1>11, PagesFromIs
<1>4. base \in Span(base, base + count * 4)
  <2>1. base + 4 <= Top /\ base < base + count * 4
    BY <1>10, <1>11
  <2> QED BY <1>8, <2>1 DEF Span, AllPages, PAGE_SIZE
<1>5. Span(base, base + count * 4) \subseteq PagesOf(list)
  <2>1. Span(base, base + count * 4) \subseteq Span(base, end)
    BY <1>9, <1>10, <1>11, <1>2, SpanWithin, Zenon
  <2> QED BY <2>1, <1>2, ListIs
<1>6. CASE list[i].pages = count
  <2>1. Carved(list, i, count) = RemoveAt(list, i)
    BY <1>6 DEF Carved
  <2>2. base + count * 4 = end
    BY <1>2, <1>6
  <2> QED BY <1>2, <1>3, <1>4, <1>5, <2>1, <2>2, BlockLeaves
<1>7. CASE list[i].pages # count
  <2> DEFINE b == [base |-> base + count * 4, pages |-> pages1 - count]
  <2>1. Carved(list, i, count) = [list EXCEPT ![i] = b]
    BY <1>0, <1>2, <1>7 DEF Carved, PAGE_SIZE
  <2>2. b.base = base + count * 4 /\ b.pages = pages1 - count
    OBVIOUS
  <2>3. b \in Blocks
    <3>1. b \in [base : Nat, pages : Nat] /\ b.pages >= 1
      <4>1. PICK cut1 \in Nat, rest \in Nat : cut1 = base + count * 4 /\ rest = pages1 - count /\ rest >= 1
        <5>1. pages1 # count /\ count <= pages1
          BY <1>2, <1>7
        <5> QED BY <5>1
      <4>2. b = [base |-> cut1, pages |-> rest]
        BY <4>1, Zenon DEF b
      <4> QED BY <4>1, <4>2
    <3>2. b.base % 4 = 0
      BY <1>1, <1>2, Aligned
    <3>3. Cutoff <= b.base /\ b.base + b.pages * 4 <= Top
      <4>1. (base + count * 4) + (pages1 - count) * 4 = end
        BY <1>2, SMTT(40)
      <4>2. b.base + b.pages * 4 = end /\ end <= Top
        BY <1>8, <2>2, <4>1
      <4>3. Cutoff <= base /\ base <= base + count * 4
        BY <1>8
      <4> QED BY <1>2, <2>2, <4>2, <4>3, Limits
    <3> QED BY <3>1, <3>2, <3>3, IsBlock
  <2> HIDE DEF b
  <2>4. End(b) = end
    BY <1>2, <2>2 DEF End, PAGE_SIZE
  <2>5. /\ \A j \in 1 .. Len(list) : j < i => End(list[j]) < b.base
        /\ \A j \in 1 .. Len(list) : i < j => End(b) < list[j].base
        /\ \A j, k \in 1 .. Len(list) : j < k /\ j # i /\ k # i => End(list[j]) < list[k].base
    <3>1. \A j \in 1 .. Len(list) : j < i => End(list[j]) \in Nat /\ End(list[j]) < list[i].base
      BY ListIs
    <3>2. \A j \in 1 .. Len(list) : j < i => End(list[j]) < b.base
      BY <1>2, <2>2, <3>1, SMTT(40)
    <3> QED BY <1>2, <2>4, <3>2 DEF ListInv, Ordered
  <2>6. /\ ListInv([list EXCEPT ![i] = b])
        /\ \A x : x \in PagesOf([list EXCEPT ![i] = b])
                  <=> \/ x \in Span(b.base, End(b))
                      \/ \E j \in 1 .. Len(list) : j # i /\ x \in Span(list[j].base, End(list[j]))
    BY <1>0, <2>3, <2>5, BlockChanges
  <2>7. \A x \in AllPages : \A j \in 1 .. Len(list) :
          j # i /\ x \in Span(list[j].base, End(list[j])) => x \notin Span(base, end)
    <3> TAKE x \in AllPages
    <3> TAKE j \in 1 .. Len(list)
    <3> HAVE j # i /\ x \in Span(list[j].base, End(list[j]))
    <3>1. x \in Nat /\ list[j].base <= x /\ x < End(list[j])
      BY DEF Span, AllPages
    <3>2. (j < i => End(list[j]) < base) /\ (i < j => end < list[j].base)
      BY <1>2, ListIs
    <3>3. j < i \/ i < j
      BY <1>0
    <3>4. list[j].base \in Nat /\ End(list[j]) \in Nat
      BY ListIs
    <3> QED BY <1>2, <3>1, <3>2, <3>3, <3>4, SMTT(40) DEF Span
  <2>8. \A x : x \in Span(b.base, end) <=> x \in Span(base, end) /\ x \notin Span(base, base + count * 4)
    BY <1>2, <2>2, SMTT(40) DEF Span, AllPages
  <2>9. \A x : x \in PagesOf(list)
               <=> \/ x \in Span(base, end)
                   \/ \E j \in 1 .. Len(list) : j # i /\ x \in Span(list[j].base, End(list[j]))
    BY <1>0, <1>2, PagesIn
  <2>10. Span(base, base + count * 4) \subseteq Span(base, end)
    <3>1. base + count * 4 \in Nat
      BY <1>2
    <3> QED BY <3>1, <1>2, SpanWithin, Zenon
  <2>11. \A x : x \in Span(base, end) => x \in AllPages
    BY DEF Span
  <2>12. PagesOf([list EXCEPT ![i] = b]) = PagesOf(list) \ Span(base, base + count * 4)
    BY <2>4, <2>6, <2>7, <2>8, <2>9, <2>10, <2>11, Zenon
  <2> QED BY <1>2, <1>3, <1>4, <1>5, <2>1, <2>6, <2>12
<1> QED BY <1>6, <1>7

\* The search for an address passes the blocks that begin before it.
LEMMA PassedIs ==
  ASSUME NEW list, ListInv(list), NEW page \in Nat
  PROVE  /\ Passed(list, page) \in 0 .. Len(list)
         /\ \A j \in 1 .. Len(list) : j <= Passed(list, page) <=> list[j].base < page
<1> DEFINE S == {i \in DOMAIN list : \A j \in 1 .. i : list[j].base < page}
           T == {i \in 1 .. Len(list) : ~(list[i].base < page)}
<1>1. PICK n \in Nat : n = Len(list) /\ DOMAIN list = 1 .. n
  BY DEF ListInv
<1>2. \A j \in 1 .. n : list[j].base \in Nat
  BY <1>1, ListIs
<1>3. \A j, k \in 1 .. n : j < k => list[j].base < list[k].base
  <2> TAKE j, k \in 1 .. n
  <2> HAVE j < k
  <2>1. End(list[j]) < list[k].base /\ list[j].base + 4 <= End(list[j]) /\ End(list[j]) \in Nat
    BY <1>1, ListIs
  <2> QED BY <1>2, <2>1
<1>4. PICK k \in 0 .. n : \A j \in 1 .. n : j <= k <=> list[j].base < page
  <2>1. CASE T = {}
    <3>1. \A j \in 1 .. n : list[j].base < page
      BY <1>1, <2>1
    <3>2. n \in 0 .. n /\ \A j \in 1 .. n : j <= n <=> list[j].base < page
      BY <3>1
    <3> QED BY <3>2
  <2>2. CASE T # {}
    <3>1. T \in SUBSET Nat
      OBVIOUS
    <3>2. PICK m \in T : \A j \in T : m <= j
      BY <2>2, <3>1, Least
    <3>3. m \in 1 .. n /\ ~(list[m].base < page)
      BY <1>1, <3>2
    <3>4. \A j \in 1 .. n : j < m => list[j].base < page
      BY <1>1, <3>2, <3>3
    <3>5. \A j \in 1 .. n : m < j => ~(list[j].base < page)
      BY <1>2, <1>3, <3>3
    <3>6. m - 1 \in 0 .. n /\ \A j \in 1 .. n : j <= m - 1 <=> list[j].base < page
      BY <3>3, <3>4, <3>5
    <3> QED BY <3>6
  <2> QED BY <2>1, <2>2
<1>5. S = 1 .. k
  <2>1. \A i \in 1 .. n : (\A j \in 1 .. i : list[j].base < page) <=> i <= k
    <3> TAKE i \in 1 .. n
    <3>1. \A j \in 1 .. i : j \in 1 .. n
      OBVIOUS
    <3>2. i \in 1 .. i
      OBVIOUS
    <3>3. i <= k => \A j \in 1 .. i : j <= k
      OBVIOUS
    <3> QED BY <1>4, <3>1, <3>2, <3>3
  <2>2. \A i : i \in 1 .. k <=> i \in 1 .. n /\ i <= k
    OBVIOUS
  <2> QED BY <1>1, <2>1, <2>2
<1>6. Cardinality(1 .. k) = k
  BY FS_Interval
<1>7. Passed(list, page) = k
  BY <1>5, <1>6, Zenon DEF Passed
<1> QED BY <1>1, <1>4, <1>7

\* Only block i may touch the next one.
Touching(list, i) ==
  /\ list \in Seq(Blocks) /\ i \in 1 .. Len(list)
  /\ \A j, k \in 1 .. Len(list) : j < k =>
       End(list[j]) < list[k].base \/ (j = i /\ k = i + 1 /\ End(list[j]) = list[k].base)

LEMMA BlocksJoin ==
  ASSUME NEW list, NEW i, Touching(list, i)
  PROVE  ListInv(JoinNext(list, i)) /\ PagesOf(JoinNext(list, i)) = PagesOf(list)
<1>0. list \in Seq(Blocks) /\ i \in 1 .. Len(list)
  BY DEF Touching
<1>1. CASE ~(i < Len(list) /\ adjacent(list[i], list[i + 1]))
  <2>1. JoinNext(list, i) = list
    BY <1>1, Zenon DEF JoinNext
  <2>2. Ordered(list)
    <3> SUFFICES ASSUME NEW j \in 1 .. Len(list), NEW k \in 1 .. Len(list), j < k
                 PROVE  End(list[j]) < list[k].base
      BY DEF Ordered
    <3>1. CASE j = i /\ k = i + 1
      <4>1. i < Len(list)
        BY <1>0, <3>1
      <4>2. End(list[j]) # list[k].base
        BY <1>1, <3>1, <4>1 DEF adjacent
      <4> QED BY <4>2 DEF Touching
    <3>2. CASE ~(j = i /\ k = i + 1)
      BY <3>2 DEF Touching
    <3> QED BY <3>1, <3>2
  <2> QED BY <1>0, <2>1, <2>2 DEF ListInv
<1>2. CASE i < Len(list) /\ adjacent(list[i], list[i + 1])
  <2> DEFINE b == [list[i] EXCEPT !.pages = @ + list[i + 1].pages]
             s == [list EXCEPT ![i] = b]
             t == RemoveAt(s, i + 1)
  <2>1. JoinNext(list, i) = t
    BY <1>0, <1>2, Zenon DEF JoinNext
  <2>2. PICK n \in Nat : n + 1 = Len(list) /\ i \in 1 .. n /\ i + 1 \in 1 .. n + 1
    <3>1. PICK l \in Nat : l = Len(list) /\ i < l /\ i \in 1 .. l
      BY <1>0, <1>2
    <3>2. l - 1 \in Nat /\ (l - 1) + 1 = l /\ i \in 1 .. l - 1 /\ i + 1 \in 1 .. l
      BY <3>1
    <3> QED BY <3>1, <3>2
  <2>3. \A j \in 1 .. n + 1 : /\ list[j] \in Blocks /\ list[j].base \in Nat /\ End(list[j]) \in Nat
                              /\ list[j].base < End(list[j])
    <3> TAKE j \in 1 .. n + 1
    <3>1. list[j] \in Blocks
      BY <1>0, <2>2
    <3>2. list[j].base \in Nat /\ End(list[j]) \in Nat /\ list[j].base + 4 <= End(list[j])
      BY <3>1, BlockIs
    <3> QED BY <3>1, <3>2
  <2>4. End(list[i]) = list[i + 1].base
    BY <1>2 DEF adjacent
  <2>5. b \in Blocks /\ b.base = list[i].base /\ End(b) = End(list[i + 1])
    <3>1. list[i] \in Blocks /\ list[i + 1] \in Blocks
      BY <2>2, <2>3
    <3>2. /\ list[i] \in [base : Nat, pages : Nat] /\ list[i].pages >= 1
          /\ list[i].base % 4 = 0 /\ Cutoff <= list[i].base
          /\ End(list[i]) = list[i].base + list[i].pages * 4
      BY <3>1, BlockIs DEF Blocks
    <3>3. /\ list[i + 1].pages \in Nat /\ End(list[i + 1]) <= Top
          /\ End(list[i + 1]) = list[i + 1].base + list[i + 1].pages * 4
      BY <3>1, BlockIs
    <3>4. /\ b \in [base : Nat, pages : Nat] /\ b.base = list[i].base
          /\ b.pages = list[i].pages + list[i + 1].pages
      BY <3>2, <3>3
    <3> HIDE DEF b
    <3>5. b.base + b.pages * 4 = End(list[i + 1])
      <4>1. PICK p \in Nat, q \in Nat, base \in Nat :
              p = list[i].pages /\ q = list[i + 1].pages /\ base = list[i].base
        BY <3>2, <3>3
      <4>2. (base + p * 4) + q * 4 = base + (p + q) * 4
        OBVIOUS
      <4>3. End(list[i + 1]) = (base + p * 4) + q * 4
        BY <2>4, <3>2, <3>3, <4>1
      <4> QED BY <3>4, <4>1, <4>2, <4>3
    <3>6. b.pages >= 1
      BY <3>2, <3>3, <3>4
    <3>7. b \in Blocks
      BY <3>2, <3>3, <3>4, <3>5, <3>6, IsBlock
    <3>8. End(b) = End(list[i + 1])
      BY <3>5, <3>7, BlockIs
    <3> QED BY <3>4, <3>7, <3>8
  <2> HIDE DEF b
  <2>6. s \in Seq(Blocks) /\ Len(s) = n + 1 /\ s[i] = b /\ \A j \in 1 .. n + 1 : j # i => s[j] = list[j]
    BY <1>0, <2>2, <2>5
  <2> HIDE DEF s
  <2>7. /\ t \in Seq(Blocks) /\ Len(t) = n
        /\ \A j \in 1 .. n : t[j] = IF j < i + 1 THEN s[j] ELSE s[j + 1]
    BY <2>2, <2>6, RemoveIs
  <2> HIDE DEF t
  <2>8. /\ t[i] = b
        /\ \A j \in 1 .. n : j < i => t[j] = list[j] /\ j \in 1 .. n + 1
        /\ \A j \in 1 .. n : i < j => t[j] = list[j + 1] /\ j + 1 \in 1 .. n + 1
    <3>1. t[i] = s[i]
      BY <2>2, <2>7
    <3>2. ASSUME NEW j \in 1 .. n, j < i PROVE t[j] = list[j] /\ j \in 1 .. n + 1
      <4>1. j < i + 1 /\ j # i /\ j \in 1 .. n + 1
        BY <2>2, <3>2
      <4> QED BY <2>6, <2>7, <4>1
    <3>3. ASSUME NEW j \in 1 .. n, i < j PROVE t[j] = list[j + 1] /\ j + 1 \in 1 .. n + 1
      <4>1. ~(j < i + 1) /\ j + 1 # i /\ j + 1 \in 1 .. n + 1
        BY <2>2, <3>3
      <4> QED BY <2>6, <2>7, <4>1
    <3> QED BY <2>6, <3>1, <3>2, <3>3
  <2>9. \A j, k \in 1 .. n + 1 : j < k /\ ~(j = i /\ k = i + 1) => End(list[j]) < list[k].base
    BY <2>2 DEF Touching
  <2>10. \A j, k \in 1 .. n : j < k => End(t[j]) < t[k].base
    <3> TAKE j, k \in 1 .. n
    <3> HAVE j < k
    <3>1. CASE k < i
      BY <2>2, <2>8, <2>9, <3>1
    <3>2. CASE k = i
      BY <2>2, <2>5, <2>8, <2>9, <3>2
    <3>3. CASE i < k /\ j < i
      <4>1. t[j] = list[j] /\ t[k] = list[k + 1] /\ j \in 1 .. n + 1 /\ k + 1 \in 1 .. n + 1
        BY <2>8, <3>3
      <4>2. j < k + 1 /\ j # i
        BY <2>2, <3>3
      <4> QED BY <2>9, <4>1, <4>2
    <3>4. CASE i < k /\ j = i
      <4>1. t[j] = b /\ t[k] = list[k + 1] /\ k + 1 \in 1 .. n + 1
        BY <2>8, <3>4
      <4>2. i + 1 < k + 1 /\ i + 1 # i
        BY <2>2, <3>4
      <4>3. End(list[i + 1]) < list[k + 1].base
        BY <2>2, <2>9, <4>1, <4>2
      <4> QED BY <2>5, <4>1, <4>3
    <3>5. CASE i < k /\ i < j
      <4>1. t[j] = list[j + 1] /\ t[k] = list[k + 1] /\ j + 1 \in 1 .. n + 1 /\ k + 1 \in 1 .. n + 1
        BY <2>8, <3>5
      <4>2. j + 1 < k + 1 /\ j + 1 # i
        BY <2>2, <3>5
      <4> QED BY <2>9, <4>1, <4>2
    <3> QED BY <2>2, <3>1, <3>2, <3>3, <3>4, <3>5
  <2>11. ListInv(t)
    BY <2>7, <2>10 DEF ListInv, Ordered
  <2> DEFINE In(c, x) == c.base <= x /\ x < End(c)
  <2>12. \A x \in Nat : In(b, x) <=> In(list[i], x) \/ In(list[i + 1], x)
    <3> TAKE x \in Nat
    <3>1. /\ list[i].base \in Nat /\ list[i + 1].base \in Nat /\ End(list[i + 1]) \in Nat
          /\ list[i].base < list[i + 1].base /\ list[i + 1].base < End(list[i + 1])
      BY <2>2, <2>3, <2>4
    <3> QED BY <2>4, <2>5, <3>1
  <2>13. \A x \in Nat : (\E j \in 1 .. n : In(t[j], x)) <=> (\E j \in 1 .. n + 1 : In(list[j], x))
    <3> TAKE x \in Nat
    <3>1. ASSUME NEW j \in 1 .. n, In(t[j], x) PROVE \E k \in 1 .. n + 1 : In(list[k], x)
      <4>1. CASE j = i
        <5>1. i \in 1 .. n + 1
          BY <2>2
        <5> QED BY <2>2, <2>8, <2>12, <3>1, <4>1, <5>1
      <4>2. CASE j < i
        BY <2>8, <3>1, <4>2
      <4>3. CASE i < j
        BY <2>8, <3>1, <4>3
      <4> QED BY <2>2, <4>1, <4>2, <4>3
    <3>2. ASSUME NEW k \in 1 .. n + 1, In(list[k], x) PROVE \E j \in 1 .. n : In(t[j], x)
      <4>1. CASE k = i \/ k = i + 1
        BY <2>2, <2>8, <2>12, <3>2, <4>1
      <4>2. CASE k < i
        <5>1. k \in 1 .. n
          BY <2>2, <4>2
        <5> QED BY <2>8, <3>2, <4>2, <5>1
      <4>3. CASE i + 1 < k
        <5>1. k - 1 \in 1 .. n /\ i < k - 1 /\ (k - 1) + 1 = k
          BY <2>2, <4>3
        <5> QED BY <2>8, <3>2, <5>1
      <4>4. k = i \/ k = i + 1 \/ k < i \/ i + 1 < k
        BY <2>2
      <4> QED BY <4>1, <4>2, <4>3, <4>4
    <3> QED BY <3>1, <3>2
  <2>14. PagesOf(t) = PagesOf(list)
    BY <2>2, <2>7, <2>13 DEF PagesOf, AllPages
  <2> QED BY <2>1, <2>11, <2>14
<1> QED BY <1>1, <1>2

\* A page that is given back joins the blocks that it touches.
LEMMA PageReturns ==
  ASSUME NEW list, ListInv(list), NEW page \in AllPages, page \notin PagesOf(list)
  PROVE  /\ ListInv(Returned(list, page))
         /\ PagesOf(Returned(list, page)) = PagesOf(list) \cup {page}
<1> DEFINE i == Passed(list, page)
           used == [base |-> page, pages |-> 1]
<1>0. list \in Seq(Blocks) /\ Ordered(list)
  BY DEF ListInv
<1>1. page \in Nat /\ page % 4 = 0 /\ Cutoff <= page /\ page + 4 <= Top
  BY DEF AllPages, PAGE_SIZE
<1>2. PICK n \in Nat : n = Len(list)
  BY <1>0
<1>3. i \in 0 .. n /\ \A j \in 1 .. n : j <= i <=> list[j].base < page
  BY <1>1, <1>2, PassedIs
<1> HIDE DEF i
<1>4. \A j \in 1 .. n : /\ list[j] \in Blocks /\ list[j].base \in Nat /\ End(list[j]) \in Nat
                        /\ list[j].base < End(list[j])
                        /\ list[j].base % 4 = 0 /\ End(list[j]) % 4 = 0
  <2> TAKE j \in 1 .. n
  <2>1. /\ list[j] \in Blocks /\ list[j].base \in Nat /\ End(list[j]) \in Nat
        /\ list[j].base + 4 <= End(list[j])
        /\ list[j].base % 4 = 0 /\ End(list[j]) % 4 = 0
    BY <1>2, ListIs
  <2> QED BY <2>1
<1>5. \A j, k \in 1 .. n : j < k => End(list[j]) < list[k].base
  BY <1>0, <1>2 DEF Ordered
<1>6. \A j \in 1 .. n : ~(list[j].base <= page /\ page < End(list[j]))
  BY <1>2 DEF PagesOf
<1>7. \A j \in 1 .. n : j <= i => End(list[j]) <= page
  BY <1>1, <1>3, <1>4, <1>6
<1>8. \A j \in 1 .. n : i < j => page + 4 <= list[j].base
  <2> TAKE j \in 1 .. n
  <2> HAVE i < j
  <2>1. ~(list[j].base < page)
    BY <1>3
  <2>2. page < list[j].base
    BY <1>1, <1>4, <1>6, <2>1
  <2> QED BY <1>1, <1>4, <2>2, Aligned
<1>9. used \in Blocks /\ used.base = page /\ End(used) = page + 4
  <2>1. used \in [base : Nat, pages : Nat] /\ used.base = page /\ used.pages = 1
    BY <1>1
  <2> HIDE DEF used
  <2>2. used \in Blocks
    BY <1>1, <2>1, IsBlock
  <2> QED BY <1>1, <2>1, <2>2, BlockIs
<1>10. Span(page, page + 4) = {page}
  <2>1. \A x \in Nat : x % 4 = 0 /\ page <= x /\ x < page + 4 => x = page
    BY <1>1, Aligned
  <2> QED BY <1>1, <2>1 DEF Span, AllPages, PAGE_SIZE
<1>11. Returned(list, page) = IF i > 0 /\ adjacent(list[i], used)
                              THEN JoinNext([list EXCEPT ![i].pages = @ + 1], i)
                              ELSE JoinNext(InsertAt(list, i + 1, used), i + 1)
  BY Zenon DEF Returned, i
<1> HIDE DEF used
<1>12. CASE i > 0 /\ adjacent(list[i], used)
  <2> DEFINE b == [list[i] EXCEPT !.pages = @ + 1]
             s == [list EXCEPT ![i] = b]
  <2>1. i \in 1 .. n /\ End(list[i]) = page
    BY <1>3, <1>9, <1>12 DEF adjacent
  <2>2. Returned(list, page) = JoinNext(s, i)
    BY <1>0, <1>2, <1>11, <1>12, <2>1
  <2>3. b \in Blocks /\ b.base = list[i].base /\ End(b) = page + 4
    <3>1. /\ list[i] \in [base : Nat, pages : Nat] /\ list[i].base % 4 = 0 /\ Cutoff <= list[i].base
          /\ page = list[i].base + list[i].pages * 4
      <4>1. list[i] \in Blocks
        BY <1>4, <2>1
      <4> QED BY <2>1, <4>1, BlockIs DEF Blocks
    <3>2. b \in [base : Nat, pages : Nat] /\ b.base = list[i].base /\ b.pages = list[i].pages + 1
      BY <3>1
    <3> HIDE DEF b
    <3>3. b.base + b.pages * 4 = page + 4 /\ b.pages >= 1
      BY <3>1, <3>2
    <3>4. b \in Blocks
      BY <1>1, <3>1, <3>2, <3>3, IsBlock
    <3> QED BY <3>2, <3>3, <3>4, BlockIs
  <2> HIDE DEF b
  <2>4. s \in Seq(Blocks) /\ Len(s) = n /\ s[i] = b /\ \A j \in 1 .. n : j # i => s[j] = list[j]
    BY <1>0, <1>2, <2>1, <2>3
  <2> HIDE DEF s
  <2>5. ASSUME NEW j \in 1 .. n, NEW k \in 1 .. n, j < k
        PROVE  End(s[j]) < s[k].base \/ (j = i /\ k = i + 1 /\ End(s[j]) = s[k].base)
    <3>1. CASE j # i /\ k # i
      BY <1>5, <2>4, <2>5, <3>1
    <3>2. CASE k = i
      BY <1>5, <2>1, <2>3, <2>4, <2>5, <3>2
    <3>3. CASE j = i
      <4>1. s[j] = b /\ s[k] = list[k] /\ page + 4 <= list[k].base /\ list[k].base \in Nat
        BY <1>4, <1>8, <2>4, <2>5, <3>3
      <4>2. CASE k = i + 1
        BY <1>1, <2>3, <3>3, <4>1, <4>2
      <4>3. CASE k # i + 1
        <5>1. i + 1 \in 1 .. n /\ i < i + 1 /\ i + 1 < k
          BY <2>1, <2>5, <3>3, <4>3
        <5>2. /\ page + 4 <= list[i + 1].base /\ list[i + 1].base < End(list[i + 1])
              /\ End(list[i + 1]) < list[k].base
              /\ list[i + 1].base \in Nat /\ End(list[i + 1]) \in Nat
          BY <1>4, <1>5, <1>8, <5>1
        <5> QED BY <1>1, <2>3, <4>1, <5>2
      <4> QED BY <4>2, <4>3
    <3> QED BY <3>1, <3>2, <3>3
  <2>6. Touching(s, i)
    BY <2>1, <2>4, <2>5, Zenon DEF Touching
  <2>7. PagesOf(s) = PagesOf(list) \cup {page}
    <3>1. \A x \in Nat : (b.base <= x /\ x < End(b))
                         <=> (list[i].base <= x /\ x < End(list[i])) \/ (page <= x /\ x < page + 4)
      <4>1. list[i].base \in Nat /\ list[i].base < page
        BY <1>4, <2>1
      <4> QED BY <1>1, <2>1, <2>3, <4>1
    <3>2. \A x : x \in Span(b.base, End(b)) <=> x \in Span(list[i].base, End(list[i])) \/ x = page
      <4>1. \A x : x \in Span(b.base, End(b))
                   <=> x \in Span(list[i].base, End(list[i])) \/ x \in Span(page, page + 4)
        BY <3>1 DEF Span, AllPages
      <4> QED BY <1>10, <4>1
    <3>3. \A x : x \in PagesOf(s) <=> \E j \in 1 .. n : x \in Span(s[j].base, End(s[j]))
      BY <2>4, PagesIn
    <3>4. \A x : x \in PagesOf(list) <=> \E j \in 1 .. n : x \in Span(list[j].base, End(list[j]))
      BY <1>0, <1>2, PagesIn
    <3>5. \A x : x \in PagesOf(s) <=> x \in PagesOf(list) \/ x = page
      <4> TAKE x
      <4>1. x \in PagesOf(s) => x \in PagesOf(list) \/ x = page
        BY <2>1, <2>4, <3>2, <3>3, <3>4, Zenon
      <4>2. x \in PagesOf(list) => x \in PagesOf(s)
        BY <2>1, <2>4, <3>2, <3>3, <3>4, Zenon
      <4>3. x = page => x \in PagesOf(s)
        BY <2>1, <2>4, <3>2, <3>3, Zenon
      <4> QED BY <4>1, <4>2, <4>3
    <3> QED BY <3>5
  <2> QED BY <2>2, <2>6, <2>7, BlocksJoin
<1>13. CASE ~(i > 0 /\ adjacent(list[i], used))
  <2> DEFINE s == InsertAt(list, i + 1, used)
  <2>1. Returned(list, page) = JoinNext(s, i + 1)
    BY <1>11, <1>13, Zenon
  <2>2. PICK m \in 1 .. n + 1 : m = i + 1 /\ m \in Nat /\ i \in Nat
    BY <1>3
  <2>3. /\ s \in Seq(Blocks) /\ Len(s) = n + 1 /\ s[m] = used
        /\ \A j \in 1 .. n + 1 : j # m => s[j] = IF j < m THEN list[j] ELSE list[j - 1]
    <3> DEFINE t == InsertAt(list, m, used)
    <3>1. list \in Seq(Blocks) /\ Len(list) = n /\ used \in Blocks
      BY <1>0, <1>2, <1>9, Zenon
    <3>2. Inserted(Blocks, t, list, n, m, used)
      BY <3>1, InsertIs, Zenon
    <3>3. t = s
      BY <2>2, Zenon
    <3> QED BY <3>2, <3>3, Zenon DEF Inserted
  <2> HIDE DEF s
  <2>4. /\ \A j \in 1 .. n + 1 : j < m => s[j] = list[j] /\ j \in 1 .. n /\ j <= i
        /\ \A j \in 1 .. n + 1 : m < j => s[j] = list[j - 1] /\ j - 1 \in 1 .. n /\ i < j - 1
    <3>1. \A j \in 1 .. n + 1 : j < m => j # m /\ j \in 1 .. n /\ j <= i
      BY <2>2
    <3>2. \A j \in 1 .. n + 1 : m < j => j # m /\ ~(j < m) /\ j - 1 \in 1 .. n /\ i < j - 1
      BY <2>2
    <3> QED BY <2>3, <3>1, <3>2
  <2>5. \A j \in 1 .. n : j <= i => End(list[j]) < page
    <3> TAKE j \in 1 .. n
    <3> HAVE j <= i
    <3>1. CASE j = i
      <4>1. End(list[i]) # page
        BY <1>9, <1>13, <3>1 DEF adjacent
      <4> QED BY <1>1, <1>4, <1>7, <3>1, <4>1
    <3>2. CASE j < i
      <4>1. i \in 1 .. n /\ End(list[j]) < list[i].base /\ list[i].base < page
        BY <1>3, <1>5, <3>2
      <4> QED BY <1>1, <1>4, <4>1
    <3> QED BY <1>3, <3>1, <3>2
  <2>6. ASSUME NEW j \in 1 .. n + 1, NEW k \in 1 .. n + 1, j < k
        PROVE  End(s[j]) < s[k].base \/ (j = m /\ k = m + 1 /\ End(s[j]) = s[k].base)
    <3>1. CASE k < m
      BY <1>5, <2>4, <2>6, <3>1
    <3>2. CASE k = m
      BY <1>9, <2>3, <2>4, <2>5, <2>6, <3>2
    <3>3. CASE m < k /\ j < m
      <4>1. /\ s[j] = list[j] /\ j \in 1 .. n /\ s[k] = list[k - 1] /\ k - 1 \in 1 .. n
            /\ j <= i /\ i < k - 1
        BY <2>4, <3>3
      <4>2. j < k - 1
        BY <1>3, <4>1
      <4> QED BY <1>5, <4>1, <4>2
    <3>4. CASE m < k /\ m < j
      <4>1. s[j] = list[j - 1] /\ j - 1 \in 1 .. n /\ s[k] = list[k - 1] /\ k - 1 \in 1 .. n
        BY <2>4, <3>4
      <4>2. j - 1 < k - 1
        BY <2>6
      <4> QED BY <1>5, <4>1, <4>2
    <3>5. CASE m < k /\ j = m
      <4>1. s[k] = list[k - 1] /\ k - 1 \in 1 .. n /\ page + 4 <= list[k - 1].base /\ list[k - 1].base \in Nat
        BY <1>4, <1>8, <2>4, <3>5
      <4>2. CASE k = m + 1
        BY <1>1, <1>9, <2>3, <3>5, <4>1, <4>2
      <4>3. CASE k # m + 1
        <5>1. m \in 1 .. n /\ i < m /\ m < k - 1
          BY <2>2, <3>5, <4>3
        <5>2. /\ page + 4 <= list[m].base /\ list[m].base < End(list[m])
              /\ End(list[m]) < list[k - 1].base
              /\ list[m].base \in Nat /\ End(list[m]) \in Nat
          BY <1>4, <1>5, <1>8, <4>1, <5>1
        <5> QED BY <1>1, <1>9, <2>3, <3>5, <4>1, <5>2, SMTT(40)
      <4> QED BY <4>2, <4>3
    <3> QED BY <2>2, <3>1, <3>2, <3>3, <3>4, <3>5
  <2>7. Touching(s, m)
    BY <2>2, <2>3, <2>6, Zenon DEF Touching
  <2>8. PagesOf(s) = PagesOf(list) \cup {page}
    <3>1. \A x : x \in PagesOf(s) <=> \E j \in 1 .. n + 1 : x \in Span(s[j].base, End(s[j]))
      BY <2>3, PagesIn
    <3>2. \A x : x \in PagesOf(list) <=> \E j \in 1 .. n : x \in Span(list[j].base, End(list[j]))
      BY <1>0, <1>2, PagesIn
    <3>3. \A x : x \in Span(s[m].base, End(s[m])) <=> x = page
      BY <1>9, <1>10, <2>3
    <3>4. ASSUME NEW x, x \in PagesOf(s) PROVE x \in PagesOf(list) \/ x = page
      <4>1. PICK j \in 1 .. n + 1 : x \in Span(s[j].base, End(s[j]))
        BY <3>1, <3>4
      <4>2. j < m \/ j = m \/ m < j
        BY <2>2
      <4> QED BY <2>4, <3>2, <3>3, <4>1, <4>2, Zenon
    <3>5. ASSUME NEW x, x \in PagesOf(list) PROVE x \in PagesOf(s)
      <4>1. PICK j \in 1 .. n : x \in Span(list[j].base, End(list[j]))
        BY <3>2, <3>5
      <4>2. CASE j < m
        <5>1. j \in 1 .. n + 1
          OBVIOUS
        <5> QED BY <2>4, <3>1, <4>1, <4>2, <5>1, Zenon
      <4>3. CASE ~(j < m)
        <5>1. j + 1 \in 1 .. n + 1 /\ m < j + 1 /\ (j + 1) - 1 = j
          BY <2>2, <4>3
        <5>2. s[j + 1] = list[j]
          BY <2>4, <5>1
        <5> QED BY <3>1, <4>1, <5>1, <5>2, Zenon
      <4> QED BY <4>2, <4>3
    <3>6. page \in PagesOf(s)
      BY <2>2, <3>1, <3>3, Zenon
    <3> QED BY <3>4, <3>5, <3>6
  <2> QED BY <2>1, <2>2, <2>7, <2>8, BlocksJoin
<1> QED BY <1>12, <1>13

-----------------------------------------------------------------------------
(***************************************************************************)
(* Requests                                                                *)
(***************************************************************************)
LEMMA CountsAre == PageCounts \subseteq Nat /\ STACK_PAGES \in Nat /\ 1 \in Nat
BY MemoryAssumption

\* The free pages are those of the list, and so they are after a step.
LEMMA FreeIs == ListInv(free_pages) => FreePages = PagesOf(free_pages)
<1> HAVE ListInv(free_pages)
<1>1. free_pages \in Seq(Blocks)
  BY DEF ListInv
<1>2. FreeOf(free_pages) = PagesOf(free_pages)
  BY <1>1, FreePagesAre
<1> QED BY <1>2, Zenon DEF FreePages, FreeOf

LEMMA FreeIsNext == ListInv(free_pages') => FreePages' = PagesOf(free_pages')
<1> HAVE ListInv(free_pages')
<1>1. free_pages' \in Seq(Blocks)
  BY DEF ListInv
<1>2. FreeOf(free_pages') = PagesOf(free_pages')
  BY <1>1, FreePagesAre
<1> QED BY <1>2, Zenon DEF FreePages, FreeOf

\* count pages from base on leave the list, and are what the answer says.
Leaves(count, base) ==
  /\ ListInv(free_pages') /\ base \in AllPages /\ base \in PagesFrom(base, count)
  /\ PagesFrom(base, count) \subseteq PagesOf(free_pages)
  /\ PagesOf(free_pages') = PagesOf(free_pages) \ PagesFrom(base, count)
  /\ answer' = [count |-> count, base |-> base]

LEMMA PagesLeave ==
  ASSUME NEW count \in Nat, ListInv(free_pages), page_alloc_some(count)
  PROVE  count >= 1 /\ Leaves(count, answer'.base)
<1> DEFINE S == Fitting(count)
           i == Min(S)
<1>1. S # {} /\ answer' = [count |-> count, base |-> free_pages[i].base]
      /\ free_pages' = Carved(free_pages, i, count)
  BY Zenon DEF page_alloc_some
<1>2. count >= 1 /\ S = {j \in DOMAIN free_pages : free_pages[j].pages >= count}
  BY <1>1 DEF Fitting
<1>3. free_pages \in Seq(Blocks)
  BY DEF ListInv
<1>4. S \in SUBSET Nat
  BY <1>2, <1>3
<1>5. i \in S
  <2>1. \E m \in S : \A k \in S : m <= k
    BY <1>1, <1>4, Least
  <2> QED BY <2>1, Zenon DEF Min
<1>6. i \in 1 .. Len(free_pages) /\ count <= free_pages[i].pages
  <2>1. i \in DOMAIN free_pages /\ free_pages[i].pages >= count
    BY <1>2, <1>5
  <2>2. i \in 1 .. Len(free_pages)
    BY <1>3, <2>1
  <2>3. free_pages[i] \in Blocks
    BY <1>3, <2>2
  <2>4. free_pages[i].pages \in Nat
    BY <2>3, BlockIs
  <2> QED BY <2>1, <2>2, <2>4
<1> HIDE DEF S, i
<1>7. /\ ListInv(Carved(free_pages, i, count))
      /\ PagesOf(Carved(free_pages, i, count)) = PagesOf(free_pages) \ PagesFrom(free_pages[i].base, count)
      /\ PagesFrom(free_pages[i].base, count) \subseteq PagesOf(free_pages)
      /\ free_pages[i].base \in PagesFrom(free_pages[i].base, count)
  BY <1>2, <1>6, Carves
<1>8. free_pages[i].base \in AllPages
  BY <1>7, Zenon DEF PagesOf
<1>9. answer'.base = free_pages[i].base
  BY <1>1
<1> QED BY <1>1, <1>2, <1>7, <1>8, <1>9, Zenon DEF Leaves

LEMMA Multiple ==
  ASSUME NEW x \in Nat, NEW y \in Nat, x % 4 = 0, y % 4 = 0, x <= y
  PROVE  \E k \in Nat : y = x + k * 4
<1>1. (y - x) % 4 = 0 /\ y - x \in Nat
  OBVIOUS
<1>2. (y - x) \div 4 \in Nat /\ y - x = ((y - x) \div 4) * 4
  BY <1>1
<1>3. y = x + ((y - x) \div 4) * 4
  BY <1>2
<1> QED BY <1>2, <1>3

\* If no block is large enough, no run of free pages is: the page after a block is
\* not free.
LEMMA NoRun ==
  ASSUME NEW count \in Nat, count >= 1, NEW list, ListInv(list),
         \A i \in 1 .. Len(list) : list[i].pages < count,
         NEW base \in PagesOf(list)
  PROVE  ~(PagesFrom(base, count) \subseteq PagesOf(list))
<1>1. PICK i \in 1 .. Len(list) : list[i].base <= base /\ base < End(list[i])
  BY DEF PagesOf
<1>2. PICK first \in Nat, num \in Nat, end \in Nat :
        /\ first = list[i].base /\ num = list[i].pages /\ end = End(list[i])
        /\ end = first + num * 4 /\ end % 4 = 0 /\ num < count
  <2>1. list[i] \in Blocks
    BY DEF ListInv
  <2>2. /\ list[i].base \in Nat /\ list[i].pages \in Nat /\ End(list[i]) \in Nat
        /\ End(list[i]) = list[i].base + list[i].pages * 4 /\ End(list[i]) % 4 = 0
    BY <2>1, BlockIs
  <2> QED BY <2>2
<1>3. base \in Nat /\ base % 4 = 0 /\ first <= base /\ base < end
  BY <1>1, <1>2 DEF PagesOf, AllPages, PAGE_SIZE
<1>4. end < base + count * 4
  <2>1. PICK m \in Nat, c \in Nat : m = num * 4 /\ c = count * 4 /\ m < c
    <3>1. num \in Nat /\ num < count
      BY <1>2, Zenon
    <3>2. num * 4 \in Nat /\ count * 4 \in Nat /\ num * 4 < count * 4
      BY <3>1
    <3> QED BY <3>2, Zenon
  <2>2. end = first + m /\ end < base + c
    <3>1. end = first + m /\ first \in Nat /\ first <= base
      BY <1>2, <1>3, <2>1, Zenon
    <3> QED BY <3>1, <2>1, <1>3
  <2> QED BY <2>1, <2>2, Zenon
<1>5. end \in PagesFrom(base, count)
  <2>3. PICK k \in Nat : end = base + k * 4
    <3>1. base <= end
      BY <1>3
    <3> QED BY <1>2, <1>3, <3>1, Multiple
  <2>4. k \in 0 .. count - 1
    BY <1>3, <1>4, <2>3
  <2> QED BY <2>3, <2>4 DEF PagesFrom, PAGE_SIZE
<1>6. end \notin PagesOf(list)
  <2>1. ASSUME NEW j \in 1 .. Len(list), list[j].base <= end, end < End(list[j]) PROVE FALSE
    <3>1. PICK lo \in Nat, hi \in Nat : lo = list[j].base /\ hi = End(list[j]) /\ lo <= end /\ end < hi
      BY <2>1, ListIs
    <3>2. CASE i < j
      <4>1. end < lo
        BY <1>2, <3>1, <3>2, ListIs, Zenon
      <4> QED BY <3>1, <4>1
    <3>3. CASE j < i
      <4>1. hi < first
        BY <1>2, <3>1, <3>3, ListIs, Zenon
      <4> QED BY <1>3, <3>1, <4>1
    <3>4. CASE i = j
      <4>1. hi = end
        BY <1>2, <3>1, <3>4, Zenon
      <4> QED BY <3>1, <4>1
    <3>5. i < j \/ j < i \/ i = j
      <4>1. list \in Seq(Blocks)
        BY DEF ListInv
      <4> QED BY <4>1
    <3> QED BY <3>2, <3>3, <3>4, <3>5
  <2> QED BY <2>1 DEF PagesOf
<1> QED BY <1>5, <1>6

LEMMA RunIs == \A base \in AllPages : \A count : Pool!Run(base, count) = PagesFrom(base, count)
BY DEF Pool!Run, PagesFrom, AllPages, PAGE_SIZE

LEMMA TakeStep ==
  ASSUME NEW count \in Nat, ListInv(free_pages), Leaves(count, answer'.base)
  PROVE  Pool!Take(count)
<1> DEFINE base == answer'.base
<1>1. /\ ListInv(free_pages') /\ base \in AllPages /\ base \in PagesFrom(base, count)
      /\ PagesFrom(base, count) \subseteq PagesOf(free_pages)
      /\ PagesOf(free_pages') = PagesOf(free_pages) \ PagesFrom(base, count)
      /\ answer' = [count |-> count, base |-> base]
  BY Zenon DEF Leaves
<1> HIDE DEF base
<1>2. FreePages = PagesOf(free_pages) /\ FreePages' = PagesOf(free_pages')
  BY <1>1, FreeIs, FreeIsNext
<1>3. Pool!Run(base, count) = PagesFrom(base, count)
  BY <1>1, RunIs
<1>4. base \in Pool!Runs(count)
  BY <1>1, <1>2, <1>3 DEF Pool!Runs
<1>5. FreePages' = FreePages \ Pool!Run(base, count)
  BY <1>1, <1>2, <1>3, Zenon
<1> QED BY <1>1, <1>4, <1>5, Zenon DEF Pool!Take

LEMMA RefuseStep ==
  ASSUME NEW count \in Nat, ListInv(free_pages), page_alloc_none(count)
  PROVE  Pool!Refuse(count)
<1>1. Fitting(count) = {} /\ answer' = [count |-> count, base |-> NULL] /\ free_pages' = free_pages
  BY DEF page_alloc_none
<1>2. FreePages' = FreePages
  BY <1>1, Zenon DEF FreePages
<1>3. count = 0 \/ Pool!Runs(count) = {}
  <2> SUFFICES ASSUME count # 0 PROVE Pool!Runs(count) = {}
    OBVIOUS
  <2>1. count >= 1 /\ free_pages \in Seq(Blocks)
    BY DEF ListInv
  <2>2. \A i \in 1 .. Len(free_pages) : free_pages[i].pages < count
    <3> TAKE i \in 1 .. Len(free_pages)
    <3>1. i \in DOMAIN free_pages /\ free_pages[i] \in Blocks
      BY <2>1
    <3>2. free_pages[i].pages \in Nat
      BY <3>1, BlockIs
    <3>3. ~(free_pages[i].pages >= count)
      BY <1>1, <2>1, <3>1 DEF Fitting
    <3> QED BY <3>2, <3>3
  <2>3. FreePages = PagesOf(free_pages)
    BY FreeIs
  <2>4. ASSUME NEW base \in FreePages, Pool!Run(base, count) \subseteq FreePages PROVE FALSE
    <3>1. base \in PagesOf(free_pages)
      BY <2>3, <2>4
    <3>2. base \in AllPages
      BY <3>1 DEF PagesOf
    <3>3. Pool!Run(base, count) = PagesFrom(base, count)
      BY <3>2, RunIs
    <3>4. ~(PagesFrom(base, count) \subseteq PagesOf(free_pages))
      BY <2>1, <2>2, <3>1, NoRun
    <3> QED BY <2>3, <2>4, <3>3, <3>4, Zenon
  <2> QED BY <2>4, Zenon DEF Pool!Runs
<1> QED BY <1>1, <1>2, <1>3, Zenon DEF Pool!Refuse

\* A page that no client holds and that is not free is not given back.
Comes(page) ==
  /\ ListInv(free_pages') /\ page \in AllPages /\ page \notin PagesOf(free_pages)
  /\ PagesOf(free_pages') = PagesOf(free_pages) \cup {page}

LEMMA PageComes ==
  ASSUME NEW page \in AllPages, ListInv(free_pages), page \notin PagesOf(free_pages), km_page_free(page)
  PROVE  Comes(page)
<1>1. free_pages' = Returned(free_pages, page)
  BY DEF km_page_free
<1>2. /\ ListInv(Returned(free_pages, page))
      /\ PagesOf(Returned(free_pages, page)) = PagesOf(free_pages) \cup {page}
  BY PageReturns
<1> QED BY <1>1, <1>2, Zenon DEF Comes

LEMMA GiveStep ==
  ASSUME NEW page, ListInv(free_pages), Comes(page), km_page_free(page)
  PROVE  page \in FreePages' /\ Pool!Give(page)
<1>1. FreePages = PagesOf(free_pages) /\ FreePages' = PagesOf(free_pages')
  BY FreeIs, FreeIsNext DEF Comes
<1>2. answer' = [count |-> 0, base |-> NULL]
  BY DEF km_page_free, NoRequest
<1>3. page \notin FreePages /\ FreePages' = FreePages \cup {page}
  BY <1>1, Zenon DEF Comes
<1> QED BY <1>2, <1>3, Zenon DEF Pool!Give

-----------------------------------------------------------------------------
(***************************************************************************)
(* Lists of what was returned                                              *)
(***************************************************************************)
\* What clients hold is not on the list, which names nothing twice.
Sound(free, in_use) ==
  free \in Seq(Nat) /\ in_use \subseteq Nat /\ IsInjective(free) /\ in_use \cap ToSet(free) = {}

Every(free, in_use) == in_use \cup ToSet(free)

LEMMA Empty == <<>> \in Seq(Nat) /\ IsInjective(<<>>) /\ ToSet(<<>>) = {}
BY DEF IsInjective, ToSet

\* The first of the list is handed out.
LEMMA Allocated ==
  \A free, in_use :
    Sound(free, in_use) /\ free # <<>> =>
      /\ Sound(Tail(free), in_use \cup {Head(free)})
      /\ Every(Tail(free), in_use \cup {Head(free)}) = Every(free, in_use)
<1> TAKE free, in_use
<1> HAVE Sound(free, in_use) /\ free # <<>>
<1>1. free \in Seq(Nat) /\ IsInjective(free) /\ in_use \subseteq Nat /\ in_use \cap ToSet(free) = {}
  BY Zenon DEF Sound
<1>2. /\ Tail(free) \in Seq(Nat) /\ IsInjective(Tail(free)) /\ Head(free) \in Nat
      /\ \A x : x \in ToSet(Tail(free)) <=> x # Head(free) /\ x \in ToSet(free)
  BY <1>1, QueueLeave
<1>3. Head(free) \in ToSet(free)
  <2>1. 1 \in DOMAIN free /\ Head(free) = free[1]
    BY <1>1
  <2> QED BY <2>1, Zenon DEF ToSet
<1> QED BY <1>1, <1>2, <1>3, Zenon DEF Sound, Every

\* What is given back goes to the front.
LEMMA Released ==
  \A free, in_use : \A x \in in_use :
    Sound(free, in_use) =>
      /\ Sound(<<x>> \o free, in_use \ {x})
      /\ Every(<<x>> \o free, in_use \ {x}) = Every(free, in_use)
<1> TAKE free, in_use
<1> TAKE x \in in_use
<1> HAVE Sound(free, in_use)
<1>1. free \in Seq(Nat) /\ IsInjective(free) /\ in_use \subseteq Nat /\ in_use \cap ToSet(free) = {}
  BY Zenon DEF Sound
<1>2. x \in Nat /\ x \notin ToSet(free)
  BY <1>1
<1>3. /\ <<x>> \o free \in Seq(Nat) /\ IsInjective(<<x>> \o free)
      /\ \A y : y \in ToSet(<<x>> \o free) <=> y = x \/ y \in ToSet(free)
  BY <1>1, <1>2, FrontIs
<1> QED BY <1>1, <1>2, <1>3, Zenon DEF Sound, Every

\* Something new is handed out.
LEMMA Fresh ==
  \A in_use : \A x \in Nat :
    Sound(<<>>, in_use) /\ x \notin in_use =>
      Sound(<<>>, in_use \cup {x}) /\ Every(<<>>, in_use \cup {x}) = Every(<<>>, in_use) \cup {x}
BY Empty, Zenon DEF Sound, Every

-----------------------------------------------------------------------------
(***************************************************************************)
(* Slices                                                                  *)
(***************************************************************************)
\* The slices of a page are the four from its address on.
LEMMA PageOfIs ==
  ASSUME NEW page \in Nat, page % 4 = 0, NEW s \in page .. page + 3
  PROVE  PageOf(s) = page
<1> DEFINE P == {s - i : i \in 0 .. PAGE_SIZE - 1}
<1>1. page \in P
  <2>1. s - page \in 0 .. 3 /\ page = s - (s - page)
    OBVIOUS
  <2> QED BY <2>1 DEF PAGE_SIZE
<1>2. \A p \in P : p % 4 = 0 => p = page
  <2> TAKE p \in P
  <2> HAVE p % 4 = 0
  <2>1. p \in Int /\ p + 4 > page /\ p < page + 4
    BY DEF PAGE_SIZE
  <2> QED BY <2>1
<1> QED BY <1>1, <1>2 DEF PageOf, PAGE_SIZE

\* What carving makes of a page: one slice for the client, three for the list.
LEMMA CarvedIs ==
  \A in_use : \A page \in Nat :
    Sound(<<>>, in_use) /\ (\A s \in page .. page + 3 : s \notin in_use) =>
      /\ Sound(Tail(Slices(page)), in_use \cup {Head(Slices(page))})
      /\ Every(Tail(Slices(page)), in_use \cup {Head(Slices(page))})
           = Every(<<>>, in_use) \cup page .. page + 3
<1> TAKE in_use
<1> TAKE page \in Nat
<1> HAVE Sound(<<>>, in_use) /\ (\A s \in page .. page + 3 : s \notin in_use)
<1> DEFINE l == Slices(page)
<1>1. /\ l \in Seq(Nat) /\ l # <<>> /\ DOMAIN l = 1 .. 4
      /\ \A i \in 1 .. 4 : l[i] = page + 4 - i
  BY DEF Slices, PAGE_SIZE
<1> HIDE DEF l
<1>2. IsInjective(l)
  BY <1>1 DEF IsInjective
<1>3. ToSet(l) = page .. page + 3
  <2>1. \A i \in 1 .. 4 : l[i] \in page .. page + 3
    BY <1>1
  <2>2. \A s \in page .. page + 3 : \E i \in 1 .. 4 : l[i] = s
    <3> TAKE s \in page .. page + 3
    <3>1. page + 4 - s \in 1 .. 4 /\ page + 4 - (page + 4 - s) = s
      OBVIOUS
    <3> QED BY <1>1, <3>1
  <2> QED BY <1>1, <2>1, <2>2 DEF ToSet
<1>4. Sound(l, in_use) /\ Every(l, in_use) = Every(<<>>, in_use) \cup page .. page + 3
  BY <1>1, <1>2, <1>3, Empty, Zenon DEF Sound, Every
<1> QED BY <1>1, <1>4, Allocated, Zenon DEF l

-----------------------------------------------------------------------------
(***************************************************************************)
(* The invariant                                                           *)
(***************************************************************************)
EveryStack == Every(free_stacks, stacks)
EverySlice == Every(free_slices, slices)

\* The pages of a set of stacks and of a set of slices.
StackPages(S) == UNION {PagesFrom(s, STACK_PAGES) : s \in S}
SlicePages(S) == {PageOf(s) : s \in S}

\* No page of F, P, U or C is in another of them.
Apart(F, P, U, C) == F \cap (P \cup U \cup C) = {} /\ P \cap (U \cup C) = {} /\ U \cap C = {}

\* No two stacks share a page; of a carved page every slice is there.
Separate(S) == \A s, t \in S : s # t => PagesFrom(s, STACK_PAGES) \cap PagesFrom(t, STACK_PAGES) = {}
Whole(S)    == \A s \in S : PageOf(s) .. PageOf(s) + PAGE_SIZE - 1 \subseteq S

PagesInv ==
  /\ ListInv(free_pages) /\ pages \subseteq AllPages
  /\ Apart(PagesOf(free_pages), pages, StackPages(EveryStack), SlicePages(EverySlice))

SlicesInv == Sound(free_slices, slices) /\ Whole(EverySlice)
StacksInv == Sound(free_stacks, stacks) /\ Separate(EveryStack)

KmInv == PagesInv /\ SlicesInv /\ StacksInv

LEMMA InvIsEnough == KmInv => PagesAccounted
<1> HAVE KmInv
<1>1. FreeListCoalesced
  <2>1. free_pages \in Seq(Blocks) /\ Ordered(free_pages)
    BY DEF KmInv, PagesInv, ListInv
  <2>2. \A i \in DOMAIN free_pages :
          free_pages[i].pages >= 1 /\ free_pages[i].base >= Cutoff /\ End(free_pages[i]) <= Top
    <3> TAKE i \in DOMAIN free_pages
    <3>1. free_pages[i] \in Blocks
      BY <2>1
    <3>2. /\ free_pages[i].pages >= 1 /\ free_pages[i].base \in Nat
          /\ Cutoff <= free_pages[i].base /\ End(free_pages[i]) <= Top
      BY <3>1, BlockIs
    <3> QED BY <3>2, Limits
  <2>3. \A i \in 1 .. Len(free_pages) - 1 : End(free_pages[i]) < free_pages[i + 1].base
    <3> TAKE i \in 1 .. Len(free_pages) - 1
    <3>1. i \in 1 .. Len(free_pages) /\ i + 1 \in 1 .. Len(free_pages) /\ i < i + 1
      BY <2>1
    <3> QED BY <2>1, <3>1 DEF Ordered
  <2> QED BY <2>2, <2>3 DEF FreeListCoalesced
<1>2. NothingShared
  <2>1. FreePages = PagesOf(free_pages)
    BY FreeIs DEF KmInv, PagesInv
  <2>2. SlicesKept
    BY Zenon DEF KmInv, SlicesInv, Whole, EverySlice, Every, SlicesKept
  <2>3. /\ IsInjective(free_slices) /\ slices \cap ToSet(free_slices) = {}
        /\ IsInjective(free_stacks) /\ stacks \cap ToSet(free_stacks) = {}
    BY Zenon DEF KmInv, SlicesInv, StacksInv, Sound
  <2>4. \A s, t \in EveryStack : s # t => PagesFrom(s, STACK_PAGES) \cap PagesFrom(t, STACK_PAGES) = {}
    BY Zenon DEF KmInv, StacksInv, Separate
  <2>5. Apart(FreePages, pages, StackPages(EveryStack), SlicePages(EverySlice))
    BY <2>1, Zenon DEF KmInv, PagesInv
  <2> QED BY <2>2, <2>3, <2>4, <2>5, Zenon DEF NothingShared, Apart, StackPages, SlicePages,
                                              EveryStack, EverySlice, Every
<1> QED BY <1>1, <1>2 DEF PagesAccounted

\* The lists are regular when the system starts.
LEMMA InvStarts == RegularMaps /\ KmInit => KmInv
<1> HAVE RegularMaps /\ KmInit
<1>1. ListInv(free_pages)
  BY Zenon DEF KmInit, RegularMaps
<1>2. /\ free_slices = <<>> /\ free_stacks = <<>>
      /\ pages = {} /\ slices = {} /\ stacks = {}
  BY DEF KmInit
<1>3. EveryStack = {} /\ EverySlice = {}
  BY <1>2, Empty, Zenon DEF EveryStack, EverySlice, Every
<1>4. Sound(<<>>, {})
  BY Empty DEF Sound
<1>5. Whole({}) /\ Separate({}) /\ StackPages({}) = {} /\ SlicePages({}) = {}
  BY DEF Whole, Separate, StackPages, SlicePages
<1>6. Apart(PagesOf(free_pages), {}, {}, {})
  BY DEF Apart
<1> QED BY <1>1, <1>2, <1>3, <1>4, <1>5, <1>6, Zenon DEF KmInv, PagesInv, SlicesInv, StacksInv

LEMMA ApartReturns ==
  ASSUME NEW F, NEW P, NEW U, NEW C, Apart(F, P, U, C), NEW p \in P
  PROVE  Apart(F \cup {p}, P \ {p}, U, C) /\ p \notin F
BY Zenon DEF Apart

LEMMA PageAlloc ==
  ASSUME KmInv, NEW count \in PageCounts, km_page_alloc(count)
  PROVE  KmInv' /\ (Pool!Take(count) \/ Pool!Refuse(count))
<1>0. count \in Nat /\ ListInv(free_pages)
  BY CountsAre DEF KmInv, PagesInv
<1>1. UNCHANGED <<free_slices, free_stacks, slices, stacks>>
  BY DEF km_page_alloc
<1>2. EveryStack' = EveryStack /\ EverySlice' = EverySlice /\ SlicesInv' /\ StacksInv'
  BY <1>1, Zenon DEF KmInv, EveryStack, EverySlice, Every, SlicesInv, StacksInv
<1>3. CASE page_alloc_some(count) /\ pages' = pages \cup PagesFrom(answer'.base, count)
  <2> DEFINE R == PagesFrom(answer'.base, count)
  <2>1. Leaves(count, answer'.base)
    BY <1>0, <1>3, PagesLeave
  <2>2. ListInv(free_pages') /\ R \subseteq PagesOf(free_pages)
        /\ PagesOf(free_pages') = PagesOf(free_pages) \ R
    BY <2>1, Zenon DEF Leaves
  <2>3. pages' = pages \cup R
    BY <1>3, Zenon
  <2> HIDE DEF R
  <2>4. Apart(PagesOf(free_pages) \ R, pages \cup R, StackPages(EveryStack), SlicePages(EverySlice))
    <3>1. Apart(PagesOf(free_pages), pages, StackPages(EveryStack), SlicePages(EverySlice))
      BY Zenon DEF KmInv, PagesInv
    <3> QED BY <2>2, <3>1, Zenon DEF Apart
  <2>5. R \subseteq AllPages
    BY <2>2 DEF PagesOf
  <2>6. PagesInv'
    BY <1>2, <2>2, <2>3, <2>4, <2>5, Zenon DEF KmInv, PagesInv
  <2>7. Pool!Take(count)
    BY <1>0, <2>1, TakeStep
  <2> QED BY <1>2, <2>6, <2>7, Zenon DEF KmInv
<1>4. CASE page_alloc_none(count) /\ UNCHANGED pages
  <2>1. UNCHANGED <<free_pages, pages>>
    BY <1>4 DEF page_alloc_none
  <2>2. PagesInv'
    BY <1>2, <2>1, Zenon DEF KmInv, PagesInv
  <2>3. Pool!Refuse(count)
    BY <1>0, <1>4, RefuseStep
  <2> QED BY <1>2, <2>2, <2>3, Zenon DEF KmInv
<1> QED BY <1>3, <1>4, Zenon DEF km_page_alloc

LEMMA PageFree ==
  ASSUME KmInv, NEW page \in pages, km_page_free(page)
  PROVE  KmInv' /\ page \in FreePages' /\ Pool!Give(page)
<1>0. ListInv(free_pages) /\ page \in AllPages
  BY DEF KmInv, PagesInv
<1>1. UNCHANGED <<free_slices, free_stacks, slices, stacks>> /\ pages' = pages \ {page}
  BY DEF km_page_free
<1>2. EveryStack' = EveryStack /\ EverySlice' = EverySlice /\ SlicesInv' /\ StacksInv'
  BY <1>1, Zenon DEF KmInv, EveryStack, EverySlice, Every, SlicesInv, StacksInv
<1>3. /\ Apart(PagesOf(free_pages) \cup {page}, pages \ {page}, StackPages(EveryStack), SlicePages(EverySlice))
      /\ page \notin PagesOf(free_pages)
  BY ApartReturns DEF KmInv, PagesInv
<1>4. Comes(page)
  BY <1>0, <1>3, PageComes
<1>5. ListInv(free_pages') /\ PagesOf(free_pages') = PagesOf(free_pages) \cup {page}
  BY <1>4, Zenon DEF Comes
<1>6. PagesInv'
  BY <1>1, <1>2, <1>3, <1>5, Zenon DEF KmInv, PagesInv
<1>7. page \in FreePages' /\ Pool!Give(page)
  BY <1>0, <1>4, GiveStep
<1> QED BY <1>2, <1>6, <1>7, Zenon DEF KmInv

\* A list of returned slices or stacks serves or grows; no page moves.
LEMMA NoPageMoves ==
  ASSUME KmInv, UNCHANGED <<free_pages, pages>>, EveryStack' = EveryStack, EverySlice' = EverySlice,
         Sound(free_slices', slices'), Sound(free_stacks', stacks')
  PROVE  KmInv'
BY Zenon DEF KmInv, PagesInv, SlicesInv, StacksInv

LEMMA SliceAlloc ==
  ASSUME KmInv, km_slice_alloc
  PROVE  /\ KmInv'
         /\ \/ Pool!Take(1) \/ Pool!Refuse(1)
            \/ UNCHANGED <<FreePages, answer>>
<1>0. /\ ListInv(free_pages) /\ 1 \in Nat
      /\ Sound(free_slices, slices) /\ Sound(free_stacks, stacks)
      /\ Whole(EverySlice) /\ Separate(EveryStack) /\ pages \subseteq AllPages
  BY CountsAre, Zenon DEF KmInv, PagesInv, SlicesInv, StacksInv
<1>1. /\ slice_alloc_listed \/ slice_alloc_carve \/ slice_alloc_panic
      /\ UNCHANGED <<free_stacks, pages, stacks>>
  BY Zenon DEF km_slice_alloc
<1>2. EveryStack' = EveryStack /\ Sound(free_stacks', stacks')
  BY <1>0, <1>1, Zenon DEF EveryStack, Every
<1>3. CASE slice_alloc_listed
  <2>1. /\ free_slices # <<>> /\ slices' = slices \cup {Head(free_slices)}
        /\ free_slices' = Tail(free_slices) /\ UNCHANGED <<free_pages, answer>>
    BY <1>3, Zenon DEF slice_alloc_listed
  <2>2. Sound(free_slices', slices') /\ EverySlice' = EverySlice
    BY <1>0, <2>1, Allocated, Zenon DEF EverySlice
  <2>3. UNCHANGED <<free_pages, pages>>
    BY <1>1, <2>1
  <2>4. KmInv'
    BY <1>2, <2>2, <2>3, NoPageMoves
  <2>5. UNCHANGED <<FreePages, answer>>
    BY <2>1, Zenon DEF FreePages
  <2> QED BY <2>4, <2>5
<1>4. CASE slice_alloc_carve
  <2> DEFINE p == answer'.base
  <2>1. /\ free_slices = <<>> /\ page_alloc_some(1)
        /\ slices' = slices \cup {Head(Slices(p))} /\ free_slices' = Tail(Slices(p))
    BY <1>4, Zenon DEF slice_alloc_carve
  <2>2. Leaves(1, p)
    BY <1>0, <2>1, PagesLeave
  <2> HIDE DEF p
  <2>3. /\ ListInv(free_pages') /\ p \in AllPages /\ p \in PagesFrom(p, 1)
        /\ PagesFrom(p, 1) \subseteq PagesOf(free_pages)
        /\ PagesOf(free_pages') = PagesOf(free_pages) \ PagesFrom(p, 1)
    BY <2>2, Zenon DEF Leaves
  <2>4. p \in Nat /\ p % 4 = 0
    BY <2>3 DEF AllPages, PAGE_SIZE
  <2>5. Apart(PagesOf(free_pages), pages, StackPages(EveryStack), SlicePages(EverySlice))
    BY Zenon DEF KmInv, PagesInv
  <2>6. Apart(PagesOf(free_pages'), pages, StackPages(EveryStack), SlicePages(EverySlice) \cup {p})
    <3>1. Apart(PagesOf(free_pages) \ PagesFrom(p, 1), pages, StackPages(EveryStack), SlicePages(EverySlice) \cup {p})
      BY <2>3, <2>5, Zenon DEF Apart
    <3> QED BY <2>3, <3>1, Zenon
  <2>7. \A s \in p .. p + 3 : PageOf(s) = p
    BY <2>4, PageOfIs
  <2>8. p \notin SlicePages(EverySlice)
    BY <2>3, <2>5, Zenon DEF Apart
  <2>9. \A s \in p .. p + 3 : s \notin slices
    BY <2>7, <2>8, Zenon DEF SlicePages, EverySlice, Every
  <2>10. Sound(free_slices', slices') /\ EverySlice' = EverySlice \cup p .. p + 3
    BY <1>0, <2>1, <2>4, <2>9, CarvedIs, Zenon DEF EverySlice
  <2>11. SlicePages(EverySlice') = SlicePages(EverySlice) \cup {p}
    <3>1. p \in p .. p + 3
      BY <2>4
    <3> QED BY <2>7, <2>10, <3>1, Zenon DEF SlicePages
  <2>12. Whole(EverySlice')
    <3>1. \A s \in p .. p + 3 : PageOf(s) .. PageOf(s) + PAGE_SIZE - 1 = p .. p + 3
      BY <2>4, <2>7 DEF PAGE_SIZE
    <3> QED BY <1>0, <2>10, <3>1, Zenon DEF Whole
  <2>13. PagesInv'
    BY <1>0, <1>1, <1>2, <2>3, <2>6, <2>11, Zenon DEF PagesInv
  <2>14. KmInv'
    BY <1>0, <1>2, <2>10, <2>12, <2>13, Zenon DEF KmInv, SlicesInv, StacksInv
  <2>15. Pool!Take(1)
    BY <1>0, <2>2, TakeStep DEF p
  <2> QED BY <2>14, <2>15
<1>5. CASE slice_alloc_panic
  <2>1. page_alloc_none(1) /\ UNCHANGED <<free_slices, slices>>
    BY <1>5, Zenon DEF slice_alloc_panic
  <2>2. UNCHANGED free_pages
    BY <2>1, Zenon DEF page_alloc_none
  <2>3. UNCHANGED <<free_pages, pages>> /\ EverySlice' = EverySlice /\ Sound(free_slices', slices')
    BY <1>0, <1>1, <2>1, <2>2, Zenon DEF EverySlice, Every
  <2>4. KmInv'
    BY <1>2, <2>3, NoPageMoves
  <2>5. Pool!Refuse(1)
    BY <1>0, <2>1, RefuseStep
  <2> QED BY <2>4, <2>5
<1> QED BY <1>1, <1>3, <1>4, <1>5, Zenon

LEMMA SliceFree ==
  ASSUME KmInv, NEW slice \in slices, km_slice_free(slice)
  PROVE  KmInv' /\ UNCHANGED <<FreePages, answer>>
<1>1. /\ slices' = slices \ {slice} /\ free_slices' = <<slice>> \o free_slices
      /\ UNCHANGED <<free_pages, free_stacks, pages, stacks, answer>>
  BY Zenon DEF km_slice_free, release
<1>2. Sound(free_slices, slices) /\ Sound(free_stacks, stacks)
  BY Zenon DEF KmInv, SlicesInv, StacksInv
<1>3. Sound(free_slices', slices') /\ EverySlice' = EverySlice
  BY <1>1, <1>2, Released, Zenon DEF EverySlice
<1>4. Sound(free_stacks', stacks') /\ EveryStack' = EveryStack
  BY <1>1, <1>2, Zenon DEF EveryStack, Every
<1>5. UNCHANGED <<free_pages, pages>>
  BY <1>1
<1>6. KmInv'
  BY <1>3, <1>4, <1>5, NoPageMoves
<1> QED BY <1>1, <1>6, Zenon DEF FreePages

LEMMA StackFree ==
  ASSUME KmInv, NEW stack \in stacks, stk_free(stack)
  PROVE  KmInv' /\ UNCHANGED <<FreePages, answer>>
<1>1. /\ stacks' = stacks \ {stack} /\ free_stacks' = <<stack>> \o free_stacks
      /\ UNCHANGED <<free_pages, free_slices, pages, slices, answer>>
  BY Zenon DEF stk_free
<1>2. Sound(free_slices, slices) /\ Sound(free_stacks, stacks)
  BY Zenon DEF KmInv, SlicesInv, StacksInv
<1>3. Sound(free_stacks', stacks') /\ EveryStack' = EveryStack
  BY <1>1, <1>2, Released, Zenon DEF EveryStack
<1>4. Sound(free_slices', slices') /\ EverySlice' = EverySlice
  BY <1>1, <1>2, Zenon DEF EverySlice, Every
<1>5. UNCHANGED <<free_pages, pages>>
  BY <1>1
<1>6. KmInv'
  BY <1>3, <1>4, <1>5, NoPageMoves
<1> QED BY <1>1, <1>6, Zenon DEF FreePages

LEMMA StackAlloc ==
  ASSUME KmInv, stk_alloc
  PROVE  /\ KmInv'
         /\ \/ Pool!Take(STACK_PAGES) \/ Pool!Refuse(STACK_PAGES)
            \/ UNCHANGED <<FreePages, answer>>
<1>0. /\ ListInv(free_pages) /\ STACK_PAGES \in Nat
      /\ Sound(free_slices, slices) /\ Sound(free_stacks, stacks)
      /\ Whole(EverySlice) /\ Separate(EveryStack) /\ pages \subseteq AllPages
  BY CountsAre, Zenon DEF KmInv, PagesInv, SlicesInv, StacksInv
<1>1. UNCHANGED <<free_slices, pages, slices>>
  BY Zenon DEF stk_alloc
<1>2. EverySlice' = EverySlice /\ Sound(free_slices', slices')
  BY <1>0, <1>1, Zenon DEF EverySlice, Every
<1>3. CASE /\ free_stacks # <<>> /\ stacks' = stacks \cup {Head(free_stacks)}
           /\ free_stacks' = Tail(free_stacks) /\ UNCHANGED <<free_pages, answer>>
  <2>1. Sound(free_stacks', stacks') /\ EveryStack' = EveryStack
    BY <1>0, <1>3, Allocated, Zenon DEF EveryStack
  <2>2. UNCHANGED <<free_pages, pages>>
    BY <1>1, <1>3
  <2>3. KmInv'
    BY <1>2, <2>1, <2>2, NoPageMoves
  <2>4. UNCHANGED <<FreePages, answer>>
    BY <1>3, Zenon DEF FreePages
  <2> QED BY <2>3, <2>4
<1>4. CASE /\ free_stacks = <<>> /\ page_alloc_some(STACK_PAGES)
           /\ stacks' = stacks \cup {answer'.base} /\ UNCHANGED free_stacks
  <2> DEFINE p == answer'.base
             R == PagesFrom(p, STACK_PAGES)
  <2>1. Leaves(STACK_PAGES, p)
    BY <1>0, <1>4, PagesLeave
  <2>2. /\ free_stacks = <<>> /\ free_stacks' = <<>> /\ stacks' = stacks \cup {p}
    BY <1>4, Zenon
  <2>14. Pool!Take(STACK_PAGES)
    BY <1>0, <2>1, TakeStep
  <2> HIDE DEF p
  <2>3. /\ ListInv(free_pages') /\ p \in AllPages /\ p \in R
        /\ R \subseteq PagesOf(free_pages)
        /\ PagesOf(free_pages') = PagesOf(free_pages) \ R
    BY <2>1, Zenon DEF Leaves
  <2>4. p \in Nat
    BY <2>3 DEF AllPages
  <2>5. Apart(PagesOf(free_pages), pages, StackPages(EveryStack), SlicePages(EverySlice))
    BY Zenon DEF KmInv, PagesInv
  <2>6. Apart(PagesOf(free_pages) \ R, pages, StackPages(EveryStack) \cup R, SlicePages(EverySlice))
        /\ R \cap StackPages(EveryStack) = {}
    <3> HIDE DEF R
    <3> QED BY <2>3, <2>5, Zenon DEF Apart
  <2>7. \A s \in EveryStack : R \cap PagesFrom(s, STACK_PAGES) = {}
    BY <2>6, Zenon DEF StackPages
  <2>8. p \notin stacks
    BY <2>3, <2>7, Zenon DEF EveryStack, Every
  <2>9. Sound(free_stacks', stacks') /\ EveryStack' = EveryStack \cup {p}
    BY <1>0, <2>2, <2>4, <2>8, Fresh, Zenon DEF EveryStack
  <2>10. StackPages(EveryStack') = StackPages(EveryStack) \cup R
    BY <2>9, Zenon DEF StackPages
  <2>11. Separate(EveryStack')
    BY <1>0, <2>7, <2>9, Zenon DEF Separate
  <2>12. PagesInv'
    BY <1>0, <1>1, <1>2, <2>3, <2>6, <2>10, Zenon DEF PagesInv
  <2>13. KmInv'
    BY <1>0, <1>2, <2>9, <2>11, <2>12, Zenon DEF KmInv, SlicesInv, StacksInv
  <2> QED BY <2>13, <2>14
<1>5. CASE page_alloc_none(STACK_PAGES) /\ UNCHANGED <<stacks, free_stacks>>
  <2>1. UNCHANGED free_pages
    BY <1>5, Zenon DEF page_alloc_none
  <2>2. UNCHANGED <<free_pages, pages>> /\ EveryStack' = EveryStack /\ Sound(free_stacks', stacks')
    BY <1>0, <1>1, <1>5, <2>1, Zenon DEF EveryStack, Every
  <2>3. KmInv'
    BY <1>2, <2>2, NoPageMoves
  <2>4. Pool!Refuse(STACK_PAGES)
    BY <1>0, <1>5, RefuseStep
  <2> QED BY <2>3, <2>4
<1> QED BY <1>3, <1>4, <1>5, Zenon DEF stk_alloc

\* A step keeps the invariant and is a step of the pool, or changes nothing that
\* the pool knows of.
LEMMA StepKeeps == KmInv /\ [KmNext]_kmVars => KmInv' /\ [Pool!Next]_<<FreePages, answer>>
<1> SUFFICES ASSUME KmInv, [KmNext]_kmVars PROVE KmInv' /\ [Pool!Next]_<<FreePages, answer>>
  OBVIOUS
<1> DEFINE Kinds == PageCounts \cup {1, STACK_PAGES}
<1>1. ASSUME NEW count \in Kinds, Pool!Take(count) \/ Pool!Refuse(count) PROVE Pool!Next
  BY <1>1, Zenon DEF Pool!Next
<1>2. \A count \in PageCounts : count \in Kinds
  OBVIOUS
<1>3. 1 \in Kinds /\ STACK_PAGES \in Kinds
  OBVIOUS
<1> HIDE DEF Kinds
<1>4. CASE \E count \in PageCounts : km_page_alloc(count)
  BY <1>1, <1>2, <1>4, PageAlloc
<1>5. CASE \E page \in pages : km_page_free(page)
  <2>1. PICK page \in pages : km_page_free(page)
    BY <1>5
  <2>2. KmInv' /\ page \in FreePages' /\ Pool!Give(page)
    BY <2>1, PageFree
  <2> QED BY <2>2, Zenon DEF Pool!Next
<1>6. CASE km_slice_alloc
  BY <1>1, <1>3, <1>6, SliceAlloc
<1>7. CASE \E slice \in slices : km_slice_free(slice)
  BY <1>7, SliceFree
<1>8. CASE stk_alloc
  BY <1>1, <1>3, <1>8, StackAlloc
<1>9. CASE \E stack \in stacks : stk_free(stack)
  BY <1>9, StackFree
<1>10. CASE UNCHANGED kmVars
  <2>1. /\ UNCHANGED <<free_pages, free_slices, free_stacks, pages, slices, stacks, answer>>
    BY <1>10 DEF kmVars, lists, held
  <2>2. EveryStack' = EveryStack /\ EverySlice' = EverySlice
    BY <2>1, Zenon DEF EveryStack, EverySlice, Every
  <2>3. KmInv'
    BY <2>1, <2>2, Zenon DEF KmInv, PagesInv, SlicesInv, StacksInv
  <2>4. UNCHANGED <<FreePages, answer>>
    BY <2>1, Zenon DEF FreePages
  <2> QED BY <2>3, <2>4
<1> QED BY <1>4, <1>5, <1>6, <1>7, <1>8, <1>9, <1>10, Zenon DEF KmNext

-----------------------------------------------------------------------------
\* On every machine whose memory map is regular, every page is at all times in one
\* place, and the free ones in as few blocks as can be (kmem.c:26-44, 454-483,
\* 594-610; stacks.c:83-141).
THEOREM PagesAreAccounted == ASSUME RegularMaps PROVE KmSpec => []PagesAccounted
<1>1. KmInit => KmInv
  BY InvStarts
<1>2. KmInv /\ [KmNext]_kmVars => KmInv'
  BY StepKeeps
<1>3. KmInv => PagesAccounted
  BY InvIsEnough
<1> QED BY <1>1, <1>2, <1>3, PTL DEF KmSpec

\* And the allocator is a pool: a request fails only when no run of free pages is
\* long enough, and what it yields was free (kmem.c:20-30, 423-616).
THEOREM AllocatorIsPool == ASSUME RegularMaps PROVE KmSpec => PoolSpec
<1>1. KmInit => KmInv
  BY InvStarts
<1>2. KmInv /\ [KmNext]_kmVars => KmInv' /\ [Pool!Next]_<<FreePages, answer>>
  BY StepKeeps
<1> QED BY <1>1, <1>2, PTL DEF KmSpec, PoolSpec, Pool!Spec
=============================================================================
