---------------------------- MODULE QueueProofs ----------------------------
(***************************************************************************)
(* Proofs about Queue, for slices of every size, every number of them and  *)
(* all data and keys: the links agree, and the lists are the sequences     *)
(* that SeqQueues promises.                                                *)
(*                                                                         *)
(* A list of nodes is a function on the numbers from 1, of which only the  *)
(* first n places count: so the nodes of the queues, of the free list and  *)
(* the queues of their free list are witnesses L, F and G of the invariant *)
(* QInv, which says how the links run along them.  What the recursive      *)
(* functions of Queue walk (Following, Successor, FreeCount) is then told  *)
(* by the fact that their equation has one solution.                       *)
(***************************************************************************)
EXTENDS Queue, ListFacts

-----------------------------------------------------------------------------
(***************************************************************************)
(* Lists along links                                                       *)
(***************************************************************************)

\* The links run along the first n places of f, from first to NULL ...
Strand(f, n, links, first) ==
  /\ first = IF n = 0 THEN NULL ELSE f[1]
  /\ \A i \in 1 .. n : links[f[i]] = IF i = n THEN NULL ELSE f[i + 1]

\* Who follows the links from the first node meets the list.
LEMMA FollowingIs ==
  ASSUME NEW n \in Nat, NEW f, NEW links, NEW first, Strand(f, n, links, first)
  PROVE  Following(links, first, n) = [i \in 1 .. n |-> f[i]]
<1> DEFINE g == [i \in 1 .. n |-> f[i]]
           Eq(h) == h = [i \in 1 .. n |-> IF i = 1 THEN first ELSE links[h[i - 1]]]
<1>1. Eq(g)
  <2>1. \A i \in 1 .. n : f[i] = IF i = 1 THEN first ELSE links[g[i - 1]]
    <3> TAKE i \in 1 .. n
    <3>1. CASE i = 1
      BY <3>1 DEF Strand
    <3>2. CASE i # 1
      <4>1. i - 1 \in 1 .. n /\ i - 1 # n /\ (i - 1) + 1 = i
        BY <3>2
      <4>2. links[f[i - 1]] = f[i]
        BY <4>1 DEF Strand
      <4>3. g[i - 1] = f[i - 1]
        BY <4>1
      <4> QED BY <3>2, <4>2, <4>3
    <3> QED BY <3>1, <3>2
  <2> QED BY <2>1
<1>2. ASSUME NEW h, Eq(h) PROVE h = g
  <2>1. /\ DOMAIN h = 1 .. n
        /\ \A i \in 1 .. n : h[i] = IF i = 1 THEN first ELSE links[h[i - 1]]
        /\ h = [i \in 1 .. n |-> h[i]]
    BY <1>2
  <2> DEFINE S == {m \in Nat : m \in 1 .. n => h[m] = f[m]}
  <2>2. \A m \in S : m + 1 \in S
    <3> SUFFICES ASSUME NEW m \in S, m + 1 \in 1 .. n PROVE h[m + 1] = f[m + 1]
      OBVIOUS
    <3>1. CASE m = 0
      <4>1. h[1] = first /\ f[1] = first
        BY <2>1, <3>1 DEF Strand
      <4> QED BY <3>1, <4>1
    <3>2. CASE m # 0
      <4>1. m \in 1 .. n /\ m # n /\ m + 1 # 1 /\ (m + 1) - 1 = m
        BY <3>2
      <4>2. h[m + 1] = links[h[m]]
        BY <2>1, <4>1
      <4>3. h[m] = f[m]
        BY <4>1
      <4>4. links[f[m]] = f[m + 1]
        BY <4>1 DEF Strand
      <4> QED BY <4>2, <4>3, <4>4
    <3> QED BY <3>1, <3>2
  <2>3. S \in SUBSET Nat /\ 0 \in S
    OBVIOUS
  <2>4. S = Nat
    <3> HIDE DEF S
    <3> QED BY <2>2, <2>3, Climb
  <2>5. \A i \in 1 .. n : h[i] = f[i]
    <3> TAKE i \in 1 .. n
    <3>1. i \in S
      BY <2>4
    <3> QED BY <3>1
  <2> QED BY <2>1, <2>5
<1>3. Following(links, first, n) = CHOOSE h : Eq(h)
  BY DEF Following
<1> QED BY <1>1, <1>2, <1>3

\* ... and backwards from last.
Back(f, n, links, last) ==
  /\ last = IF n = 0 THEN NULL ELSE f[n]
  /\ \A i \in 1 .. n : links[f[i]] = IF i = 1 THEN NULL ELSE f[i - 1]

Lists == [Nat -> Nodes]

\* f with x in place p; without its first
With(f, p, x) == [i \in Nat |-> IF i < p THEN f[i] ELSE IF i = p THEN x ELSE f[i - 1]]
Less(f)       == [i \in Nat |-> f[i + 1]]

\* g has x at place p, and the n elements of f at the other places.
HasIn(g, f, n, p, x) ==
  /\ g[p] = x
  /\ \A i \in 1 .. n + 1 : i < p => g[i] = f[i] /\ i \in 1 .. n
  /\ \A i \in 1 .. n + 1 : i > p => g[i] = f[i - 1] /\ i - 1 \in 1 .. n

LEMMA WithHas ==
  \A T, f, n, p, x : f \in [Nat -> T] /\ n \in Nat /\ p \in 1 .. n + 1 /\ x \in T
                     => HasIn(With(f, p, x), f, n, p, x) /\ With(f, p, x) \in [Nat -> T]
<1> SUFFICES ASSUME NEW T, NEW f \in [Nat -> T], NEW n \in Nat, NEW p \in 1 .. n + 1, NEW x \in T
             PROVE  HasIn(With(f, p, x), f, n, p, x) /\ With(f, p, x) \in [Nat -> T]
  OBVIOUS
<1>1. With(f, p, x) \in [Nat -> T]
  <2>1. \A i \in Nat : ~(i < p) /\ i # p => i - 1 \in Nat
    OBVIOUS
  <2>2. \A i \in Nat : (IF i < p THEN f[i] ELSE IF i = p THEN x ELSE f[i - 1]) \in T
    BY <2>1
  <2> QED BY <2>2 DEF With
<1>2. \A i \in Nat : With(f, p, x)[i] = IF i < p THEN f[i] ELSE IF i = p THEN x ELSE f[i - 1]
  BY DEF With
<1> HIDE DEF With
<1>3. \A i \in 1 .. n + 1 : i \in Nat /\ (i < p => i \in 1 .. n)
                            /\ (i > p => i - 1 \in 1 .. n /\ ~(i < p) /\ i # p)
  OBVIOUS
<1>4. p \in Nat /\ ~(p < p)
  OBVIOUS
<1> QED BY <1>1, <1>2, <1>3, <1>4 DEF HasIn

LEMMA LessIs ==
  ASSUME NEW T, NEW f \in [Nat -> T]
  PROVE  Less(f) \in [Nat -> T] /\ \A i \in Nat : Less(f)[i] = f[i + 1]
BY DEF Less

\* A new element makes no two places equal.
LEMMA WithDiffers ==
  ASSUME NEW T, NEW f \in [Nat -> T], NEW n \in Nat, NEW p \in 1 .. n + 1, NEW x \in T,
         Differ(f, n), \A i \in 1 .. n : f[i] # x
  PROVE  Differ(With(f, p, x), n + 1)
<1> DEFINE g == With(f, p, x)
<1>1. /\ g[p] = x
      /\ \A i \in 1 .. n + 1 : i < p => g[i] = f[i] /\ i \in 1 .. n
      /\ \A i \in 1 .. n + 1 : i > p => g[i] = f[i - 1] /\ i - 1 \in 1 .. n
  <2>1. HasIn(g, f, n, p, x)
    BY WithHas, Zenon
  <2> QED BY <2>1 DEF HasIn
<1> HIDE DEF g
<1>2. ASSUME NEW i \in 1 .. n + 1, NEW j \in 1 .. n + 1, g[i] = g[j], i < j PROVE FALSE
  <2>1. i < p \/ i = p \/ i > p
    OBVIOUS
  <2>2. j < p \/ j = p \/ j > p
    OBVIOUS
  <2>3. CASE j < p
    <3>1. i < p
      BY <1>2, <2>3
    <3>2. f[i] = f[j] /\ i \in 1 .. n /\ j \in 1 .. n
      BY <1>1, <1>2, <2>3, <3>1, Zenon
    <3> QED BY <3>2, <1>2 DEF Differ
  <2>4. CASE j = p
    <3>1. i < p
      BY <1>2, <2>4
    <3>2. f[i] = x /\ i \in 1 .. n
      BY <1>1, <1>2, <2>4, <3>1, Zenon
    <3> QED BY <3>2
  <2>5. CASE j > p /\ i < p
    <3>1. f[i] = f[j - 1] /\ i \in 1 .. n /\ j - 1 \in 1 .. n
      BY <1>1, <1>2, <2>5, Zenon
    <3>2. i = j - 1
      BY <3>1 DEF Differ
    <3> QED BY <3>2, <2>5
  <2>6. CASE j > p /\ i = p
    <3>1. f[j - 1] = x /\ j - 1 \in 1 .. n
      BY <1>1, <1>2, <2>6, Zenon
    <3> QED BY <3>1
  <2>7. CASE j > p /\ i > p
    <3>1. f[i - 1] = f[j - 1] /\ i - 1 \in 1 .. n /\ j - 1 \in 1 .. n
      BY <1>1, <1>2, <2>7, Zenon
    <3>2. i - 1 = j - 1
      BY <3>1 DEF Differ
    <3> QED BY <3>2, <1>2
  <2> QED BY <2>1, <2>2, <2>3, <2>4, <2>5, <2>6, <2>7
<1>3. \A i, j \in 1 .. n + 1 : i < j \/ j < i \/ i = j
  OBVIOUS
<1>4. \A i, j \in 1 .. n + 1 : g[i] = g[j] => i = j
  BY <1>2, <1>3
<1> QED BY <1>4 DEF Differ, g

\* A node that is not in the list is linked in at place p.
LinkedIn(f, n, p, x, links, links1) ==
  /\ links1[x] = IF p = n + 1 THEN NULL ELSE f[p]
  /\ p > 1 => links1[f[p - 1]] = x
  /\ \A i \in 1 .. n : i # p - 1 => links1[f[i]] = links[f[i]]

\* Then the links run along the list with the node in it.
LEMMA StrandWith ==
  ASSUME NEW T, NEW f \in [Nat -> T], NEW n \in Nat, NEW p \in 1 .. n + 1, NEW x \in T,
         NEW links, NEW links1, NEW first, NEW first1,
         Strand(f, n, links, first), LinkedIn(f, n, p, x, links, links1),
         first1 = IF p = 1 THEN x ELSE first
  PROVE  Strand(With(f, p, x), n + 1, links1, first1)
<1> DEFINE g == With(f, p, x)
<1>1. /\ g[p] = x
      /\ \A i \in 1 .. n + 1 : i < p => g[i] = f[i] /\ i \in 1 .. n
      /\ \A i \in 1 .. n + 1 : i > p => g[i] = f[i - 1] /\ i - 1 \in 1 .. n
  <2>1. HasIn(g, f, n, p, x)
    BY WithHas, Zenon
  <2> QED BY <2>1 DEF HasIn
<1> HIDE DEF g
<1>2. first1 = g[1]
  <2>1. CASE p = 1
    BY <1>1, <2>1
  <2>2. CASE p # 1
    <3>1. 1 < p /\ n # 0 /\ 1 \in 1 .. n + 1
      BY <2>2
    <3>2. first1 = f[1]
      BY <2>2, <3>1 DEF Strand
    <3> QED BY <1>1, <3>1, <3>2
  <2> QED BY <2>1, <2>2
<1>3. ASSUME NEW i \in 1 .. n + 1
      PROVE  links1[g[i]] = IF i = n + 1 THEN NULL ELSE g[i + 1]
  <2>1. CASE i < p /\ i + 1 # p
    <3>1. i \in 1 .. n /\ i + 1 \in 1 .. n /\ i + 1 \in 1 .. n + 1 /\ i + 1 < p /\ i # p - 1 /\ i # n /\ i # n + 1
      BY <2>1
    <3>2. g[i] = f[i] /\ g[i + 1] = f[i + 1]
      BY <1>1, <2>1, <3>1, Zenon
    <3>3. links1[f[i]] = links[f[i]]
      BY <3>1, Zenon DEF LinkedIn
    <3>4. links[f[i]] = f[i + 1]
      BY <3>1, Zenon DEF Strand
    <3> QED BY <3>1, <3>2, <3>3, <3>4, Zenon
  <2>2. CASE i + 1 = p
    <3>1. i < p /\ i = p - 1 /\ p > 1 /\ i # n + 1
      BY <2>2
    <3>2. g[i] = f[i] /\ g[i + 1] = x
      BY <1>1, <2>2, <3>1, Zenon
    <3>3. links1[f[i]] = x
      BY <3>1, Zenon DEF LinkedIn
    <3> QED BY <3>1, <3>2, <3>3, Zenon
  <2>3. CASE i = p
    <3>1. CASE p = n + 1
      BY <1>1, <2>3, <3>1, Zenon DEF LinkedIn
    <3>2. CASE p # n + 1
      <4>1. i + 1 \in 1 .. n + 1 /\ i + 1 > p /\ (i + 1) - 1 = p
        BY <2>3, <3>2
      <4>2. g[i + 1] = f[p]
        BY <1>1, <4>1, Zenon
      <4>3. links1[x] = f[p]
        BY <3>2, Zenon DEF LinkedIn
      <4> QED BY <1>1, <2>3, <3>2, <4>2, <4>3, Zenon
    <3> QED BY <3>1, <3>2
  <2>4. CASE i > p
    <3>1. i - 1 \in 1 .. n /\ i - 1 # p - 1 /\ (i - 1 = n <=> i = n + 1) /\ (i - 1) + 1 = i
      BY <2>4
    <3>2. g[i] = f[i - 1]
      BY <1>1, <2>4, Zenon
    <3>3. links1[f[i - 1]] = links[f[i - 1]]
      BY <3>1, Zenon DEF LinkedIn
    <3>4. links[f[i - 1]] = IF i - 1 = n THEN NULL ELSE f[(i - 1) + 1]
      BY <3>1, Zenon DEF Strand
    <3>5. CASE i = n + 1
      BY <3>1, <3>2, <3>3, <3>4, <3>5, Zenon
    <3>6. CASE i # n + 1
      <4>1. i + 1 \in 1 .. n + 1 /\ i + 1 > p /\ (i + 1) - 1 = i
        BY <2>4, <3>6
      <4>2. g[i + 1] = f[i]
        BY <1>1, <4>1, Zenon
      <4>3. links[f[i - 1]] = f[i]
        BY <3>1, <3>4, <3>6, Zenon
      <4> QED BY <3>2, <3>3, <3>6, <4>2, <4>3, Zenon
    <3> QED BY <3>5, <3>6
  <2>5. (i < p /\ i + 1 # p) \/ i + 1 = p \/ i = p \/ i > p
    OBVIOUS
  <2> QED BY <2>1, <2>2, <2>3, <2>4, <2>5
<1>4. n + 1 # 0
  OBVIOUS
<1> QED BY <1>2, <1>3, <1>4, Zenon DEF Strand, g

\* The same from the other end.
LinkedBack(f, n, p, x, links, links1) ==
  /\ links1[x] = IF p = 1 THEN NULL ELSE f[p - 1]
  /\ p <= n => links1[f[p]] = x
  /\ \A i \in 1 .. n : i # p => links1[f[i]] = links[f[i]]

LEMMA BackWith ==
  ASSUME NEW T, NEW f \in [Nat -> T], NEW n \in Nat, NEW p \in 1 .. n + 1, NEW x \in T,
         NEW links, NEW links1, NEW last, NEW last1,
         Back(f, n, links, last), LinkedBack(f, n, p, x, links, links1),
         last1 = IF p = n + 1 THEN x ELSE last
  PROVE  Back(With(f, p, x), n + 1, links1, last1)
<1> DEFINE g == With(f, p, x)
<1>1. /\ g[p] = x
      /\ \A i \in 1 .. n + 1 : i < p => g[i] = f[i] /\ i \in 1 .. n
      /\ \A i \in 1 .. n + 1 : i > p => g[i] = f[i - 1] /\ i - 1 \in 1 .. n
  <2>1. HasIn(g, f, n, p, x)
    BY WithHas, Zenon
  <2> QED BY <2>1 DEF HasIn
<1> HIDE DEF g
<1>2. last1 = g[n + 1]
  <2>1. CASE p = n + 1
    BY <1>1, <2>1
  <2>2. CASE p # n + 1
    <3>1. n + 1 > p /\ n # 0 /\ n + 1 \in 1 .. n + 1 /\ (n + 1) - 1 = n
      BY <2>2
    <3>2. last1 = f[n]
      BY <2>2, <3>1 DEF Back
    <3> QED BY <1>1, <3>1, <3>2
  <2> QED BY <2>1, <2>2
<1>3. ASSUME NEW i \in 1 .. n + 1
      PROVE  links1[g[i]] = IF i = 1 THEN NULL ELSE g[i - 1]
  <2>1. CASE i < p
    <3>1. i \in 1 .. n /\ i # p
      BY <2>1
    <3>2. g[i] = f[i] /\ links1[f[i]] = links[f[i]]
      BY <1>1, <2>1, <3>1, Zenon DEF LinkedBack
    <3>3. links[f[i]] = IF i = 1 THEN NULL ELSE f[i - 1]
      BY <3>1, Zenon DEF Back
    <3>4. CASE i = 1
      BY <3>2, <3>3, <3>4, Zenon
    <3>5. CASE i # 1
      <4>1. i - 1 \in 1 .. n + 1 /\ i - 1 < p
        BY <2>1, <3>5
      <4>2. g[i - 1] = f[i - 1]
        BY <1>1, <4>1, Zenon
      <4> QED BY <3>2, <3>3, <3>5, <4>2, Zenon
    <3> QED BY <3>4, <3>5
  <2>2. CASE i = p
    <3>1. CASE i = 1
      BY <1>1, <2>2, <3>1, Zenon DEF LinkedBack
    <3>2. CASE i # 1
      <4>1. i - 1 \in 1 .. n + 1 /\ i - 1 < p
        BY <2>2, <3>2
      <4>2. g[i - 1] = f[i - 1]
        BY <1>1, <4>1, Zenon
      <4> QED BY <1>1, <2>2, <3>2, <4>2, Zenon DEF LinkedBack
    <3> QED BY <3>1, <3>2
  <2>3. CASE i = p + 1
    <3>1. i > p /\ i - 1 = p /\ p <= n /\ i # 1
      BY <2>3
    <3>2. g[i] = f[p] /\ g[i - 1] = x
      BY <1>1, <3>1, Zenon
    <3> QED BY <3>1, <3>2, Zenon DEF LinkedBack
  <2>4. CASE i > p /\ i # p + 1
    <3>1. i - 1 \in 1 .. n /\ i - 1 \in 1 .. n + 1 /\ i - 1 > p /\ i - 1 # p /\ i - 1 # 1 /\ i # 1
      BY <2>4
    <3>2. g[i] = f[i - 1] /\ g[i - 1] = f[(i - 1) - 1]
      BY <1>1, <2>4, <3>1, Zenon
    <3>3. links1[f[i - 1]] = links[f[i - 1]]
      BY <3>1, Zenon DEF LinkedBack
    <3>4. links[f[i - 1]] = f[(i - 1) - 1]
      BY <3>1, Zenon DEF Back
    <3> QED BY <3>1, <3>2, <3>3, <3>4, Zenon
  <2>5. i < p \/ i = p \/ i = p + 1 \/ (i > p /\ i # p + 1)
    OBVIOUS
  <2> QED BY <2>1, <2>2, <2>3, <2>4, <2>5
<1>4. n + 1 # 0
  OBVIOUS
<1> QED BY <1>2, <1>3, <1>4, Zenon DEF Back, g
HasAlso(g, f, n, x) == Values(g, n + 1) = Values(f, n) \cup {x}

LEMMA WithValues ==
  \A g, f, n, p, x : n \in Nat /\ p \in 1 .. n + 1 /\ HasIn(g, f, n, p, x)
                     => HasAlso(g, f, n, x)
<1> SUFFICES ASSUME NEW g, NEW f, NEW n \in Nat, NEW p \in 1 .. n + 1, NEW x,
                    HasIn(g, f, n, p, x)
             PROVE  HasAlso(g, f, n, x)
  OBVIOUS
<1>1. HasIn(g, f, n, p, x)
  OBVIOUS
<1>2. \A i \in 1 .. n + 1 : i < p \/ i = p \/ i > p
  OBVIOUS
<1>3. \A i \in 1 .. n + 1 : g[i] \in Values(f, n) \cup {x}
  BY <1>1, <1>2, Zenon DEF HasIn, Values
<1>4. \A i \in 1 .. n : \/ i < p /\ i \in 1 .. n + 1
                        \/ i + 1 > p /\ i + 1 \in 1 .. n + 1 /\ (i + 1) - 1 = i
  OBVIOUS
<1>5. \A i \in 1 .. n : f[i] \in Values(g, n + 1)
  <2> TAKE i \in 1 .. n
  <2>1. CASE i < p /\ i \in 1 .. n + 1
    <3>1. g[i] = f[i]
      BY <1>1, <2>1, Zenon DEF HasIn
    <3> QED BY <2>1, <3>1 DEF Values
  <2>2. CASE i + 1 > p /\ i + 1 \in 1 .. n + 1 /\ (i + 1) - 1 = i
    <3>1. g[i + 1] = f[(i + 1) - 1]
      BY <1>1, <2>2, Zenon DEF HasIn
    <3>2. g[i + 1] = f[i]
      BY <2>2, <3>1, Zenon
    <3> QED BY <2>2, <3>2 DEF Values
  <2> QED BY <1>4, <2>1, <2>2
<1>6. x \in Values(g, n + 1)
  BY <1>1, Zenon DEF HasIn, Values
<1>7. Values(g, n + 1) \subseteq Values(f, n) \cup {x}
  BY <1>3 DEF Values
<1>8. Values(f, n) \cup {x} \subseteq Values(g, n + 1)
  BY <1>5, <1>6 DEF Values
<1> QED BY <1>7, <1>8 DEF HasAlso

-----------------------------------------------------------------------------
\* A list with links in both directions, and one that joins it.
Listed(f, n, nx, pv, hd, tl) == Strand(f, n, nx, hd) /\ Back(f, n, pv, tl) /\ Differ(f, n)

Joins(f, n, p, x, nx, pv, hd, tl, nx1, pv1, hd1, tl1) ==
  /\ f \in Lists /\ n \in Nat /\ p \in 1 .. n + 1 /\ x \in Nodes
  /\ Listed(f, n, nx, pv, hd, tl) /\ x \notin Values(f, n)
  /\ LinkedIn(f, n, p, x, nx, nx1) /\ LinkedBack(f, n, p, x, pv, pv1)
  /\ hd1 = (IF p = 1 THEN x ELSE hd) /\ tl1 = (IF p = n + 1 THEN x ELSE tl)

LEMMA JoinIs ==
  \A f, n, p, x, nx, pv, hd, tl, nx1, pv1, hd1, tl1 :
    Joins(f, n, p, x, nx, pv, hd, tl, nx1, pv1, hd1, tl1)
    => /\ Listed(With(f, p, x), n + 1, nx1, pv1, hd1, tl1)
       /\ With(f, p, x) \in Lists
       /\ Values(With(f, p, x), n + 1) = Values(f, n) \cup {x}
<1> SUFFICES ASSUME NEW f, NEW n, NEW p, NEW x, NEW nx, NEW pv, NEW hd, NEW tl,
                    NEW nx1, NEW pv1, NEW hd1, NEW tl1,
                    Joins(f, n, p, x, nx, pv, hd, tl, nx1, pv1, hd1, tl1)
             PROVE  /\ Listed(With(f, p, x), n + 1, nx1, pv1, hd1, tl1)
                    /\ With(f, p, x) \in Lists
                    /\ Values(With(f, p, x), n + 1) = Values(f, n) \cup {x}
  OBVIOUS
<1>1. f \in [Nat -> Nodes] /\ n \in Nat /\ p \in 1 .. n + 1 /\ x \in Nodes
  BY Zenon DEF Joins, Lists
<1>2. /\ Strand(f, n, nx, hd) /\ Back(f, n, pv, tl) /\ Differ(f, n)
      /\ LinkedIn(f, n, p, x, nx, nx1) /\ LinkedBack(f, n, p, x, pv, pv1)
      /\ hd1 = (IF p = 1 THEN x ELSE hd) /\ tl1 = (IF p = n + 1 THEN x ELSE tl)
  BY Zenon DEF Joins, Listed
<1>3. \A i \in 1 .. n : f[i] # x
  BY Zenon DEF Joins, Values
<1>4. Strand(With(f, p, x), n + 1, nx1, hd1)
  BY <1>1, <1>2, StrandWith, Zenon
<1>5. Back(With(f, p, x), n + 1, pv1, tl1)
  BY <1>1, <1>2, BackWith, Zenon
<1>6. Differ(With(f, p, x), n + 1)
  BY <1>1, <1>2, <1>3, WithDiffers, Zenon
<1>7. With(f, p, x) \in Lists
  BY <1>1, WithHas, Zenon DEF Lists
<1>8. Values(With(f, p, x), n + 1) = Values(f, n) \cup {x}
  <2>1. HasIn(With(f, p, x), f, n, p, x)
    BY <1>1, WithHas, Zenon
  <2>2. HasAlso(With(f, p, x), f, n, x)
    BY <1>1, <2>1, WithValues, Zenon
  <2> QED BY <2>2 DEF HasAlso
<1> QED BY <1>4, <1>5, <1>6, <1>7, <1>8, Zenon DEF Listed

\* The first one leaves.
LEMMA StrandLess ==
  ASSUME NEW f \in Lists, NEW n \in Nat, NEW links, NEW links1, NEW first,
         Strand(f, n + 1, links, first),
         \A i \in 1 .. n : links1[f[i + 1]] = links[f[i + 1]]
  PROVE  Strand(Less(f), n, links1, links[first])
<1>1. \A i \in Nat : Less(f)[i] = f[i + 1]
  BY LessIs DEF Lists
<1>2. first = f[1] /\ links[first] = IF n = 0 THEN NULL ELSE f[2]
  <2>1. n + 1 # 0 /\ 1 \in 1 .. n + 1 /\ 1 + 1 = 2 /\ (1 = n + 1 <=> n = 0)
    OBVIOUS
  <2> QED BY <2>1 DEF Strand
<1>3. ASSUME NEW i \in 1 .. n
      PROVE  links1[Less(f)[i]] = IF i = n THEN NULL ELSE Less(f)[i + 1]
  <2>1. i \in Nat /\ i + 1 \in Nat /\ i + 1 \in 1 .. n + 1 /\ (i + 1 = n + 1 <=> i = n)
    OBVIOUS
  <2>2. links[f[i + 1]] = IF i + 1 = n + 1 THEN NULL ELSE f[(i + 1) + 1]
    BY <2>1, Zenon DEF Strand
  <2>3. Less(f)[i] = f[i + 1] /\ Less(f)[i + 1] = f[(i + 1) + 1]
    BY <1>1, <2>1, Zenon
  <2> QED BY <2>1, <2>2, <2>3, Zenon
<1>4. links[first] = IF n = 0 THEN NULL ELSE Less(f)[1]
  <2>1. Less(f)[1] = f[2]
    BY <1>1
  <2> QED BY <1>2, <2>1
<1> QED BY <1>3, <1>4, Zenon DEF Strand

LEMMA BackLess ==
  ASSUME NEW f \in Lists, NEW n \in Nat, NEW links, NEW links1, NEW last, NEW last1,
         Back(f, n + 1, links, last),
         n > 0 => links1[f[2]] = NULL,
         \A i \in 2 .. n : links1[f[i + 1]] = links[f[i + 1]],
         last1 = IF n = 0 THEN NULL ELSE last
  PROVE  Back(Less(f), n, links1, last1)
<1>1. \A i \in Nat : Less(f)[i] = f[i + 1]
  BY LessIs DEF Lists
<1>2. ASSUME NEW i \in 1 .. n
      PROVE  links1[Less(f)[i]] = IF i = 1 THEN NULL ELSE Less(f)[i - 1]
  <2>1. CASE i = 1
    <3>1. n > 0 /\ Less(f)[i] = f[2]
      BY <1>1, <2>1
    <3> QED BY <2>1, <3>1
  <2>2. CASE i # 1
    <3>1. i \in Nat /\ i \in 2 .. n /\ i - 1 \in Nat /\ i + 1 \in 1 .. n + 1 /\ i + 1 # 1
          /\ (i + 1) - 1 = i /\ (i - 1) + 1 = i
      BY <2>2
    <3>2. links[f[i + 1]] = f[(i + 1) - 1]
      BY <3>1, Zenon DEF Back
    <3>3. Less(f)[i] = f[i + 1] /\ Less(f)[i - 1] = f[(i - 1) + 1]
      BY <1>1, <3>1, Zenon
    <3> QED BY <2>2, <3>1, <3>2, <3>3, Zenon
  <2> QED BY <2>1, <2>2
<1>3. last1 = IF n = 0 THEN NULL ELSE Less(f)[n]
  <2>1. n + 1 # 0 /\ Less(f)[n] = f[n + 1]
    BY <1>1
  <2> QED BY <2>1 DEF Back
<1> QED BY <1>2, <1>3, Zenon DEF Back

LEMMA LessValues ==
  ASSUME NEW T, NEW f \in [Nat -> T], NEW n \in Nat, Differ(f, n + 1)
  PROVE  /\ Differ(Less(f), n) /\ Less(f) \in [Nat -> T]
         /\ f[1] \in T /\ f[1] \in Values(f, n + 1)
         /\ Values(Less(f), n) = Values(f, n + 1) \ {f[1]}
<1>1. Less(f) \in [Nat -> T] /\ \A i \in 1 .. n : Less(f)[i] = f[i + 1]
  BY LessIs
<1>2. Differ(Less(f), n) /\ \A x : x \in Values(Less(f), n) <=> x # f[1] /\ x \in Values(f, n + 1)
  <2> HIDE DEF Less
  <2> QED BY <1>1, DifferLess, Zenon
<1>3. f[1] \in T /\ f[1] \in Values(f, n + 1)
  BY DEF Values
<1> QED BY <1>1, <1>2, <1>3

\* The links of a list of n + 1 nodes, whose first one leaves.
Leaves(f, n, nx, pv, hd, tl, nx1, pv1, hd1, tl1) ==
  /\ f \in Lists /\ n \in Nat /\ Listed(f, n + 1, nx, pv, hd, tl)
  /\ hd1 = nx[hd] /\ tl1 = (IF n = 0 THEN NULL ELSE tl)
  /\ \A i \in 1 .. n : nx1[f[i + 1]] = nx[f[i + 1]]
  /\ n > 0 => pv1[f[2]] = NULL
  /\ \A i \in 2 .. n : pv1[f[i + 1]] = pv[f[i + 1]]

LEMMA LeaveIs ==
  \A f, n, nx, pv, hd, tl, nx1, pv1, hd1, tl1 :
    Leaves(f, n, nx, pv, hd, tl, nx1, pv1, hd1, tl1)
    => /\ Listed(Less(f), n, nx1, pv1, hd1, tl1) /\ Less(f) \in Lists
       /\ hd = f[1] /\ hd \in Nodes /\ hd \in Values(f, n + 1)
       /\ Values(Less(f), n) = Values(f, n + 1) \ {hd}
<1> SUFFICES ASSUME NEW f, NEW n, NEW nx, NEW pv, NEW hd, NEW tl,
                    NEW nx1, NEW pv1, NEW hd1, NEW tl1,
                    Leaves(f, n, nx, pv, hd, tl, nx1, pv1, hd1, tl1)
             PROVE  /\ Listed(Less(f), n, nx1, pv1, hd1, tl1) /\ Less(f) \in Lists
                    /\ hd = f[1] /\ hd \in Nodes /\ hd \in Values(f, n + 1)
                    /\ Values(Less(f), n) = Values(f, n + 1) \ {hd}
  OBVIOUS
<1>1. /\ f \in Lists /\ n \in Nat
      /\ Strand(f, n + 1, nx, hd) /\ Back(f, n + 1, pv, tl) /\ Differ(f, n + 1)
      /\ hd1 = nx[hd] /\ tl1 = (IF n = 0 THEN NULL ELSE tl)
      /\ \A i \in 1 .. n : nx1[f[i + 1]] = nx[f[i + 1]]
      /\ n > 0 => pv1[f[2]] = NULL
      /\ \A i \in 2 .. n : pv1[f[i + 1]] = pv[f[i + 1]]
  BY Zenon DEF Leaves, Listed
<1>2. Strand(Less(f), n, nx1, hd1)
  BY <1>1, StrandLess, Zenon
<1>3. Back(Less(f), n, pv1, tl1)
  BY <1>1, BackLess, Zenon
<1>4. /\ Differ(Less(f), n) /\ Less(f) \in Lists
      /\ f[1] \in Nodes /\ f[1] \in Values(f, n + 1)
      /\ Values(Less(f), n) = Values(f, n + 1) \ {f[1]}
  BY <1>1, LessValues, Zenon DEF Lists
<1>5. hd = f[1]
  <2>1. n + 1 # 0
    BY <1>1
  <2> QED BY <1>1, <2>1 DEF Strand
<1> QED BY <1>2, <1>3, <1>4, <1>5, Zenon DEF Listed

\* A list whose links are not touched.
LEMMA StandsStill ==
  \A f, n, nx, pv, hd, tl, nx1, pv1 :
    /\ Listed(f, n, nx, pv, hd, tl)
    /\ \A x \in Values(f, n) : nx1[x] = nx[x] /\ pv1[x] = pv[x]
    => Listed(f, n, nx1, pv1, hd, tl)
<1> SUFFICES ASSUME NEW f, NEW n, NEW nx, NEW pv, NEW hd, NEW tl, NEW nx1, NEW pv1,
                    Listed(f, n, nx, pv, hd, tl),
                    \A x \in Values(f, n) : nx1[x] = nx[x] /\ pv1[x] = pv[x]
             PROVE  Listed(f, n, nx1, pv1, hd, tl)
  OBVIOUS
<1>1. \A i \in 1 .. n : nx1[f[i]] = nx[f[i]] /\ pv1[f[i]] = pv[f[i]]
  BY DEF Values
<1>2. Strand(f, n, nx1, hd)
  BY <1>1 DEF Listed, Strand
<1>3. Back(f, n, pv1, tl)
  BY <1>1 DEF Listed, Back
<1> QED BY <1>2, <1>3 DEF Listed
-----------------------------------------------------------------------------
(***************************************************************************)
(* Free lists                                                              *)
(***************************************************************************)

\* A list of what is free, out of the first so many members of T.
FreeList(T, f, n, links, first, limit) ==
  /\ f \in [Nat -> T] /\ n \in Nat
  /\ Strand(f, n, links, first) /\ Differ(f, n) /\ Values(f, n) \subseteq 1 .. limit

\* The first of n + 1 free records is taken, and the rest is left.
Taken(T, f, n, links, first, limit) ==
  /\ FreeList(T, Less(f), n, links, links[first], limit)
  /\ first \in T /\ first \in Values(f, n + 1) /\ first = f[1]
  /\ Values(Less(f), n) = Values(f, n + 1) \ {first}

LEMMA TakeIs ==
  \A T, f, n, links, first, limit :
    n \in Nat /\ FreeList(T, f, n + 1, links, first, limit) => Taken(T, f, n, links, first, limit)
<1> SUFFICES ASSUME NEW T, NEW f, NEW n \in Nat, NEW links, NEW first, NEW limit,
                    FreeList(T, f, n + 1, links, first, limit)
             PROVE  Taken(T, f, n, links, first, limit)
  OBVIOUS
<1>1. /\ f \in [Nat -> T] /\ Strand(f, n + 1, links, first) /\ Differ(f, n + 1)
      /\ Values(f, n + 1) \subseteq 1 .. limit
  BY Zenon DEF FreeList
<1>2. /\ Differ(Less(f), n) /\ Less(f) \in [Nat -> T]
      /\ f[1] \in T /\ f[1] \in Values(f, n + 1)
      /\ Values(Less(f), n) = Values(f, n + 1) \ {f[1]}
  BY <1>1, LessValues, Zenon
<1>3. first = f[1]
  <2>1. n + 1 # 0
    OBVIOUS
  <2> QED BY <1>1, <2>1 DEF Strand
<1>4. Strand(Less(f), n, links, links[first])
  <2>1. /\ \A i \in Nat : Less(f)[i] = f[i + 1]
    BY <1>1, LessIs
  <2>2. ASSUME NEW i \in 1 .. n
        PROVE  links[Less(f)[i]] = IF i = n THEN NULL ELSE Less(f)[i + 1]
    <3>1. i \in Nat /\ i + 1 \in Nat /\ i + 1 \in 1 .. n + 1 /\ (i + 1 = n + 1 <=> i = n)
      OBVIOUS
    <3>2. links[f[i + 1]] = IF i + 1 = n + 1 THEN NULL ELSE f[(i + 1) + 1]
      BY <1>1, <3>1, Zenon DEF Strand
    <3>3. Less(f)[i] = f[i + 1] /\ Less(f)[i + 1] = f[(i + 1) + 1]
      BY <2>1, <3>1, Zenon
    <3> QED BY <3>1, <3>2, <3>3, Zenon
  <2>3. links[first] = IF n = 0 THEN NULL ELSE Less(f)[1]
    <3>1. 1 \in 1 .. n + 1 /\ 1 + 1 = 2 /\ (1 = n + 1 <=> n = 0) /\ Less(f)[1] = f[2]
      BY <2>1
    <3> QED BY <1>1, <1>3, <3>1 DEF Strand
  <2> QED BY <2>2, <2>3, Zenon DEF Strand
<1>5. Values(Less(f), n) \subseteq 1 .. limit
  BY <1>1, <1>2, Zenon
<1> QED BY <1>1, <1>2, <1>3, <1>4, <1>5, Zenon DEF FreeList, Taken

\* The numbers of a slice.
LEMMA SliceIs ==
  ASSUME NEW n \in Nat, n > 0, NEW size \in Nat, size > 0
  PROVE  \E lo \in Nat : /\ n * size = lo + size /\ Slice(n, size) = lo + 1 .. lo + size
                         /\ (n - 1) * size = lo
<1>1. (n - 1) * size \in Nat /\ n * size = (n - 1) * size + size
  <2>1. n - 1 \in Nat
    OBVIOUS
  <2>2. \A a \in Nat : a * size \in Nat /\ (a + 1) * size = a * size + size
    OBVIOUS
  <2>3. (n - 1) + 1 = n
    OBVIOUS
  <2> QED BY <2>1, <2>2, <2>3
<1> QED BY <1>1 DEF Slice

\* A slice is freed record by record, each in front of the one before.
Descending(lo, size) == [i \in Nat |-> IF i \in 1 .. size THEN lo + size - i + 1 ELSE lo + 1]

LEMMA CarvedIs ==
  ASSUME NEW N \in Nat, NEW n \in Nat, n > 0, NEW size \in Nat, size > 0, n * size <= N,
         NEW links, DOMAIN links = 1 .. N
  PROVE  \E f : /\ FreeList(1 .. N, f, size, Carved(links, n, size), n * size, n * size)
                /\ \A x \in Values(f, size) : x > (n - 1) * size
                /\ \A x \in 1 .. n * size : x > (n - 1) * size => x \in Values(f, size)
                /\ \A x \in 1 .. N : x <= (n - 1) * size => Carved(links, n, size)[x] = links[x]
<1>1. PICK lo \in Nat : /\ n * size = lo + size /\ Slice(n, size) = lo + 1 .. lo + size
                        /\ (n - 1) * size = lo
  BY SliceIs
<1>2. PICK hi \in Nat : hi = lo + size /\ hi <= N
  BY <1>1
<1> DEFINE f == Descending(lo, size)
           carved == Carved(links, n, size)
<1>3. \A x \in 1 .. N : carved[x] = IF x \notin lo + 1 .. hi THEN links[x]
                                    ELSE IF x - 1 \in lo + 1 .. hi THEN x - 1 ELSE NULL
  BY <1>1, <1>2 DEF Carved
<1>4. f \in [Nat -> 1 .. N] /\ \A i \in 1 .. size : f[i] = lo + size - i + 1
  <2>1. \A i \in Nat : (IF i \in 1 .. size THEN lo + size - i + 1 ELSE lo + 1) \in 1 .. N
    BY <1>2
  <2> QED BY <2>1 DEF Descending
<1> HIDE DEF f, carved
<1>5. Strand(f, size, carved, hi)
  <2>1. hi = f[1] /\ size # 0
    BY <1>2, <1>4
  <2>2. ASSUME NEW i \in 1 .. size PROVE carved[f[i]] = IF i = size THEN NULL ELSE f[i + 1]
    <3>1. PICK x \in Nat : x = lo + size - i + 1 /\ f[i] = x /\ x \in lo + 1 .. hi /\ x \in 1 .. N
      BY <1>2, <1>4
    <3>2. CASE i = size
      <4>1. x - 1 \notin lo + 1 .. hi
        BY <3>1, <3>2
      <4> QED BY <3>1, <3>2, <4>1, <1>3, Zenon
    <3>3. CASE i # size
      <4>1. x - 1 \in lo + 1 .. hi /\ f[i + 1] = x - 1
        BY <3>1, <3>3, <1>4, <1>2
      <4> QED BY <3>1, <3>3, <4>1, <1>3, Zenon
    <3> QED BY <3>2, <3>3
  <2> QED BY <2>1, <2>2, Zenon DEF Strand
<1>6. Differ(f, size)
  BY <1>4 DEF Differ
<1>7. \A x \in Values(f, size) : x \in 1 .. hi /\ x > lo
  BY <1>2, <1>4 DEF Values
<1>8. FreeList(1 .. N, f, size, carved, hi, hi)
  BY <1>4, <1>5, <1>6, <1>7 DEF FreeList
<1>9. \A x \in 1 .. N : x <= lo => carved[x] = links[x]
  BY <1>3
<1>10. n * size = hi
  BY <1>1, <1>2
<1>11. \A x \in 1 .. hi : x > lo => x \in Values(f, size)
  <2> SUFFICES ASSUME NEW x \in 1 .. hi, x > lo PROVE x \in Values(f, size)
    OBVIOUS
  <2>1. PICK i \in 1 .. size : i = lo + size - x + 1
    <3>1. lo + size - x + 1 \in 1 .. size
      BY <1>2
    <3> QED BY <3>1
  <2>2. f[i] = x
    BY <1>2, <1>4, <2>1
  <2> QED BY <2>2 DEF Values
<1> QED BY <1>1, <1>7, <1>8, <1>9, <1>10, <1>11, Zenon DEF carved
-----------------------------------------------------------------------------
(***************************************************************************)
(* The invariant                                                           *)
(***************************************************************************)

QueueTypes ==
  /\ prev \in [Nodes -> Nodes \cup {NULL}] /\ next \in [Nodes -> Nodes \cup {NULL}]
  /\ key \in [Nodes -> Keys] /\ data \in [Nodes -> Data \cup {NULL}]
  /\ head \in [Queues -> Nat] /\ tail \in [Queues -> Nat] /\ length \in [Queues -> Nat]
  /\ order \in [Queues -> {"none", "fifo", "ordered"}]
  /\ node_slices \in 1 .. NodeSlices /\ queue_slices \in 1 .. QueueSlices

CarvedNodes  == node_slices * NodesPerSlice
CarvedQueues == queue_slices * QueuesPerSlice

\* The nodes of queue q, if its list is L[q].
In(L, q) == Values(L[q], length[q])

\* The links of each queue in use run along its list, of carved nodes ...
QueuesListed(L) ==
  /\ L \in [Queues -> Lists]
  /\ \A q \in InUse : /\ Listed(L[q], length[q], next, prev, head[q], tail[q])
                      /\ In(L, q) \subseteq 1 .. CarvedNodes

\* ... no node is in two lists ...
QueuesApart(L) == \A q, r \in InUse : q # r => In(L, q) \cap In(L, r) = {}

\* ... or in one and free; c nodes are free ...
NodesFree(L, F, c) ==
  /\ FreeList(Nodes, F, c, next, free_qnodes, CarvedNodes)
  /\ \A q \in InUse : In(L, q) \cap Values(F, c) = {}

Used(q) == IF order[q] = "none" THEN 0 ELSE length[q]

\* sum adds up the lengths of the first queues.
AddsUp(sum) ==
  /\ sum \in [0 .. Cardinality(Queues) -> Int]
  /\ sum[0] = 0
  /\ \A i \in 1 .. Cardinality(Queues) : sum[i] = sum[i - 1] + Used(i)

\* ... which are all that are carved and in no queue.
Counted(c) == \E sum : AddsUp(sum) /\ CarvedNodes = sum[Cardinality(Queues)] + c

\* The g free queues are those that were carved and are not in use; one that was
\* not carved is in nobody's hands.
QueuesFree(G, g) ==
  /\ FreeList(Queues, G, g, head, free_queues, CarvedQueues)
  /\ \A q \in Values(G, g) : order[q] = "none"
  /\ \A q \in 1 .. CarvedQueues : order[q] = "none" => q \in Values(G, g)
  /\ \A q \in Queues : q > CarvedQueues => order[q] = "none"

Structure(L, F, c, G, g) ==
  /\ QueuesListed(L) /\ QueuesApart(L) /\ NodesFree(L, F, c) /\ Counted(c) /\ QueuesFree(G, g)

QInv == QueueTypes /\ \E L, F, c, G, g : Structure(L, F, c, G, g)

-----------------------------------------------------------------------------
\* What SizeAssumption says.
LEMMA Sizes ==
  /\ NodesPerSlice \in Nat /\ NodesPerSlice > 0 /\ QueuesPerSlice \in Nat /\ QueuesPerSlice > 0
  /\ NodeSlices \in Nat /\ NodeSlices > 0 /\ QueueSlices \in Nat /\ QueueSlices > 0
  /\ Keys \subseteq Nat /\ 0 \in Keys
  /\ NodesPerSlice * NodeSlices \in Nat /\ QueuesPerSlice * QueueSlices \in Nat
<1>1. /\ NodesPerSlice \in Nat /\ NodesPerSlice > 0 /\ QueuesPerSlice \in Nat /\ QueuesPerSlice > 0
      /\ NodeSlices \in Nat /\ NodeSlices > 0 /\ QueueSlices \in Nat /\ QueueSlices > 0
      /\ Keys \subseteq Nat /\ 0 \in Keys
  BY SizeAssumption
<1>2. \A a, b \in Nat : a * b \in Nat
  OBVIOUS
<1> QED BY <1>1, <1>2

LEMMA Times ==
  \A n, m, size : n \in Nat /\ m \in Nat /\ size \in Nat /\ n <= m => n * size <= size * m
                                                     /\ n * size \in Nat
<1> SUFFICES ASSUME NEW n \in Nat, NEW m \in Nat, NEW size \in Nat, n <= m
             PROVE  n * size <= size * m /\ n * size \in Nat
  BY Zenon
<1>1. PICK d \in Nat : m = n + d
  <2>1. m - n \in Nat /\ m = n + (m - n)
    OBVIOUS
  <2> QED BY <2>1
<1>2. size * (n + d) = n * size + size * d
  OBVIOUS
<1>3. \A a, b \in Nat : a * b \in Nat
  OBVIOUS
<1>4. n * size \in Nat /\ size * d \in Nat
  BY <1>3
<1> QED BY <1>1, <1>2, <1>4

LEMMA QueuesAre == /\ Queues = 1 .. Cardinality(Queues) /\ Cardinality(Queues) \in Nat
                   /\ IsFiniteSet(Queues) /\ Cardinality(Queues) = QueuesPerSlice * QueueSlices
<1>1. PICK m \in Nat : m = QueuesPerSlice * QueueSlices
  BY Sizes
<1>2. Queues = 1 .. m
  BY <1>1 DEF Queues
<1>3. IsFiniteSet(1 .. m) /\ Cardinality(1 .. m) = IF 1 > m THEN 0 ELSE m - 1 + 1
  BY FS_Interval
<1>4. Cardinality(Queues) = m
  BY <1>2, <1>3
<1> QED BY <1>1, <1>2, <1>3, <1>4

-----------------------------------------------------------------------------
\* The invariant holds when the first slice of each kind was carved.
LEMMA QueuesStart ==
  ASSUME QueInit
  PROVE  QInv
<1>1. QueueTypes
  <2>1. \A n \in Nodes : Carved([m \in Nodes |-> NULL], 1, NodesPerSlice)[n] \in Nodes \cup {NULL}
    BY Sizes DEF Carved, Slice, Nodes, NULL
  <2>2. next \in [Nodes -> Nodes \cup {NULL}]
    BY <2>1 DEF QueInit, Carved
  <2>3. \A q \in Queues : Carved([r \in Queues |-> NULL], 1, QueuesPerSlice)[q] \in Nat
    BY Sizes DEF Carved, Slice, Queues, NULL
  <2>4. head \in [Queues -> Nat]
    BY <2>3 DEF QueInit, Carved
  <2>5. 1 \in 1 .. NodeSlices /\ 1 \in 1 .. QueueSlices
    BY Sizes
  <2> QED BY <2>2, <2>4, <2>5, Sizes DEF QueInit, QueueTypes, NULL
<1>2. PICK F : FreeList(Nodes, F, NodesPerSlice, next, free_qnodes, CarvedNodes)
  <2> DEFINE links == [n \in Nodes |-> NULL]
             N == NodesPerSlice * NodeSlices
  <2>1. 1 * NodesPerSlice = NodesPerSlice /\ 1 * NodesPerSlice <= N /\ N \in Nat
    <3>1. 1 <= NodeSlices
      BY Sizes
    <3>2. 1 * NodesPerSlice <= N
      BY <3>1, Sizes, Times
    <3> QED BY <3>2, Sizes
  <2>2. DOMAIN links = 1 .. N /\ Nodes = 1 .. N
    BY DEF Nodes
  <2> HIDE DEF links, N
  <2>3. \E f : FreeList(1 .. N, f, NodesPerSlice, Carved(links, 1, NodesPerSlice),
                        1 * NodesPerSlice, 1 * NodesPerSlice)
    BY <2>1, <2>2, Sizes, CarvedIs
  <2> QED BY <2>1, <2>2, <2>3 DEF QueInit, CarvedNodes, links
<1>3. PICK G : /\ FreeList(Queues, G, QueuesPerSlice, head, free_queues, CarvedQueues)
               /\ \A x \in 1 .. CarvedQueues : x \in Values(G, QueuesPerSlice)
  <2> DEFINE links == [q \in Queues |-> NULL]
             N == QueuesPerSlice * QueueSlices
  <2>1. 1 * QueuesPerSlice = QueuesPerSlice /\ 1 * QueuesPerSlice <= N /\ N \in Nat
    <3>1. 1 <= QueueSlices
      BY Sizes
    <3>2. 1 * QueuesPerSlice <= N
      BY <3>1, Sizes, Times
    <3> QED BY <3>2, Sizes
  <2>2. DOMAIN links = 1 .. N /\ Queues = 1 .. N
    BY DEF Queues
  <2> HIDE DEF links, N
  <2>3. \E f : /\ FreeList(1 .. N, f, QueuesPerSlice, Carved(links, 1, QueuesPerSlice),
                            1 * QueuesPerSlice, 1 * QueuesPerSlice)
               /\ \A x \in 1 .. 1 * QueuesPerSlice : x \in Values(f, QueuesPerSlice)
    <3>1. \E f : /\ FreeList(1 .. N, f, QueuesPerSlice, Carved(links, 1, QueuesPerSlice),
                              1 * QueuesPerSlice, 1 * QueuesPerSlice)
                 /\ \A x \in 1 .. 1 * QueuesPerSlice :
                      x > (1 - 1) * QueuesPerSlice => x \in Values(f, QueuesPerSlice)
      BY <2>1, <2>2, Sizes, CarvedIs
    <3>2. \A x \in 1 .. 1 * QueuesPerSlice : x > (1 - 1) * QueuesPerSlice
      BY Sizes
    <3> QED BY <3>1, <3>2, Zenon
  <2> QED BY <2>1, <2>2, <2>3 DEF QueInit, CarvedQueues, links
<1>4. \A q \in Queues : order[q] = "none" /\ Used(q) = 0
  BY DEF QueInit, Used
<1>5. InUse = {}
  BY <1>4 DEF InUse
<1>6. Counted(NodesPerSlice)
  <2> DEFINE zeros == [i \in 0 .. Cardinality(Queues) |-> 0]
  <2>1. AddsUp(zeros)
    BY <1>4, QueuesAre DEF AddsUp
  <2>2. CarvedNodes = zeros[Cardinality(Queues)] + NodesPerSlice
    BY QueuesAre, Sizes DEF CarvedNodes, QueInit
  <2> QED BY <2>1, <2>2 DEF Counted
<1>7. \E L : L \in [Queues -> Lists]
  <2>1. F \in Lists
    BY <1>2 DEF FreeList, Lists
  <2>2. [q \in Queues |-> F] \in [Queues -> Lists]
    BY <2>1
  <2> QED BY <2>2
<1>8. PICK L : L \in [Queues -> Lists]
  BY <1>7
<1>9. Structure(L, F, NodesPerSlice, G, QueuesPerSlice)
  <2>1. \A q \in Values(G, QueuesPerSlice) : order[q] = "none"
    <3>1. G \in [Nat -> Queues]
      BY <1>3 DEF FreeList
    <3> QED BY <1>4, <3>1 DEF Values
  <2> QED BY <1>2, <1>3, <1>4, <1>5, <1>6, <1>8, <2>1
          DEF Structure, QueuesListed, QueuesApart, NodesFree, QueuesFree
<1> QED BY <1>1, <1>9 DEF QInv

\* Taking the first record of a free list, of a new slice if there is none: what
\* _qn_alloc and _que_alloc have in common.
Allocates(N, n, size, links, first, F, c, links1, new, n1) ==
  /\ N \in Nat /\ n \in Nat /\ n > 0 /\ size \in Nat /\ size > 0 /\ DOMAIN links = 1 .. N
  /\ n * size <= N /\ (first = NULL => (n + 1) * size <= N)
  /\ FreeList(1 .. N, F, c, links, first, n * size)
  /\ n1 = (IF first = NULL THEN n + 1 ELSE n)
  /\ links1 = (IF first = NULL THEN Carved(links, n + 1, size) ELSE links)
  /\ new = (IF first = NULL THEN (n + 1) * size ELSE first)

Allocated(N, old, now, links, F, c, links1, new, F1, c1) ==
  /\ FreeList(1 .. N, F1, c1, links1, links1[new], now)
  /\ new \in 1 .. N /\ new \in 1 .. now /\ new \notin Values(F1, c1)
  /\ now + c = old + c1 + 1 /\ old <= now
  /\ new \in Values(F, c) \/ new > old
  /\ \A x \in Values(F1, c1) : x \in Values(F, c) \/ x > old
  /\ \A x \in 1 .. now : x = new \/ x \in Values(F1, c1) \/ (x \in 1 .. old /\ x \notin Values(F, c))
  /\ \A x \in 1 .. old : x \notin Values(F, c)
                         => x # new /\ x \notin Values(F1, c1) /\ links1[x] = links[x]

LEMMA AllocateIs ==
  \A N, n, size, links, first, F, c, links1, new, n1 :
    Allocates(N, n, size, links, first, F, c, links1, new, n1)
    => \E F1, c1 : Allocated(N, n * size, n1 * size, links, F, c, links1, new, F1, c1)
<1> SUFFICES ASSUME NEW N, NEW n, NEW size, NEW links, NEW first, NEW F, NEW c,
                    NEW links1, NEW new, NEW n1,
                    Allocates(N, n, size, links, first, F, c, links1, new, n1)
             PROVE  \E F1, c1 : Allocated(N, n * size, n1 * size, links, F, c, links1, new, F1, c1)
  OBVIOUS
<1>1. /\ N \in Nat /\ n \in Nat /\ n > 0 /\ size \in Nat /\ size > 0 /\ DOMAIN links = 1 .. N
      /\ n * size <= N /\ (first = NULL => (n + 1) * size <= N)
      /\ FreeList(1 .. N, F, c, links, first, n * size)
      /\ n1 = (IF first = NULL THEN n + 1 ELSE n)
      /\ links1 = (IF first = NULL THEN Carved(links, n + 1, size) ELSE links)
      /\ new = (IF first = NULL THEN (n + 1) * size ELSE first)
  BY Zenon DEF Allocates
<1>2. PICK old \in Nat : old = n * size
  <2>1. \A a, b \in Nat : a * b \in Nat
    OBVIOUS
  <2> QED BY <1>1, <2>1
<1>3. /\ F \in [Nat -> 1 .. N] /\ c \in Nat /\ Values(F, c) \subseteq 1 .. old
      /\ first = IF c = 0 THEN NULL ELSE F[1]
  BY <1>1, <1>2 DEF FreeList, Strand
<1>4. first = NULL <=> c = 0
  <2>1. c # 0 => F[1] \in 1 .. N
    BY <1>3
  <2> QED BY <1>3, <2>1 DEF NULL
<1>5. CASE first # NULL
  <2>1. PICK m \in Nat : c = m + 1
    <3>1. c - 1 \in Nat /\ c = (c - 1) + 1
      BY <1>3, <1>4, <1>5
    <3> QED BY <3>1
  <2>2. new = first /\ links1 = links /\ n1 * size = old /\ FreeList(1 .. N, F, m + 1, links, first, old)
    BY <1>1, <1>2, <1>5, <2>1, Zenon
  <2>3. /\ FreeList(1 .. N, Less(F), m, links, links[first], old)
        /\ first \in 1 .. N /\ first \in Values(F, m + 1)
        /\ Values(Less(F), m) = Values(F, m + 1) \ {first}
    <3>1. Taken(1 .. N, F, m, links, first, old)
      BY <2>2, TakeIs, Zenon
    <3> QED BY <3>1, Zenon DEF Taken
  <2>4. old + c = old + m + 1
    BY <2>1
  <2>5. first \in 1 .. old /\ old <= old
    <3>1. first \in 1 .. old
      BY <1>3, <2>1, <2>3, Zenon
    <3> QED BY <3>1
  <2>6. Allocated(N, old, old, links, F, c, links1, new, Less(F), m)
    BY <2>1, <2>2, <2>3, <2>4, <2>5, Zenon DEF Allocated
  <2> QED BY <1>2, <2>2, <2>6, Zenon
<1>6. CASE first = NULL
  <2>1. PICK now \in Nat : now = (n + 1) * size /\ now = old + size /\ now <= N /\ now = n1 * size
    <3>1. \A a, b \in Nat : (a + 1) * b = a * b + b
      OBVIOUS
    <3>2. (n + 1) * size = old + size
      BY <1>1, <1>2, <3>1
    <3> QED BY <1>1, <1>2, <1>6, <3>2
  <2>2. new = now /\ links1 = Carved(links, n + 1, size) /\ n1 * size = now /\ c = 0
    BY <1>1, <1>4, <1>6, <2>1, Zenon
  <2>3. PICK f : /\ FreeList(1 .. N, f, size, links1, now, now)
                 /\ \A x \in Values(f, size) : x > old
                 /\ \A x \in 1 .. now : x > old => x \in Values(f, size)
                 /\ \A x \in 1 .. N : x <= old => links1[x] = links[x]
    <3>1. PICK k \in Nat : k = n + 1 /\ k > 0 /\ k - 1 = n
      BY <1>1
    <3>2. k * size <= N
      BY <1>1, <1>6, <3>1
    <3>3. \E f : /\ FreeList(1 .. N, f, size, Carved(links, k, size), k * size, k * size)
                 /\ \A x \in Values(f, size) : x > (k - 1) * size
                 /\ \A x \in 1 .. k * size : x > (k - 1) * size => x \in Values(f, size)
                 /\ \A x \in 1 .. N : x <= (k - 1) * size => Carved(links, k, size)[x] = links[x]
      BY <1>1, <3>1, <3>2, CarvedIs, SMTT(40)
    <3>4. k * size = now /\ (k - 1) * size = old /\ Carved(links, k, size) = links1
      BY <1>2, <2>1, <2>2, <3>1, Zenon
    <3> QED BY <3>3, <3>4, Zenon
  <2>4. PICK m \in Nat : size = m + 1
    <3>1. size - 1 \in Nat /\ size = (size - 1) + 1
      BY <1>1
    <3> QED BY <3>1
  <2>5. FreeList(1 .. N, f, m + 1, links1, now, now)
    BY <2>3, <2>4, Zenon
  <2>6. /\ FreeList(1 .. N, Less(f), m, links1, links1[now], now)
        /\ now \in 1 .. N /\ now \in Values(f, m + 1)
        /\ Values(Less(f), m) = Values(f, m + 1) \ {now}
    <3>1. Taken(1 .. N, f, m, links1, now, now)
      BY <2>5, TakeIs, Zenon
    <3> QED BY <3>1, Zenon DEF Taken
  <2>7. now + c = old + m + 1 /\ old <= now /\ now \in 1 .. now /\ now > old
    BY <2>1, <2>2, <2>4, <2>6, <1>1
  <2>8. \A x \in Values(Less(f), m) : x > old
    BY <2>3, <2>4, <2>6, Zenon
  <2>9. \A x \in 1 .. old : x # now /\ ~(x > old) /\ x \in 1 .. N /\ x <= old
    BY <1>1, <1>2, <2>7
  <2>10. \A x \in 1 .. now : \/ x = now \/ x \in Values(Less(f), m)
                             \/ x \in 1 .. old /\ x \notin Values(F, c)
    <3>1. Values(F, c) = {}
      BY <2>2 DEF Values
    <3>2. \A x \in 1 .. now : x > old \/ x \in 1 .. old
      OBVIOUS
    <3> QED BY <2>3, <2>4, <2>6, <3>1, <3>2, Zenon
  <2>11. Allocated(N, old, now, links, F, c, links1, new, Less(f), m)
    BY <2>2, <2>3, <2>6, <2>7, <2>8, <2>9, <2>10, Zenon DEF Allocated
  <2> QED BY <1>2, <2>2, <2>11, Zenon
<1> QED BY <1>5, <1>6

\* A free list whose links are not touched.
LEMMA FreeStill ==
  \A T, f, n, links, first, limit, links1, limit1 :
    /\ FreeList(T, f, n, links, first, limit)
    /\ \A x \in Values(f, n) : links1[x] = links[x]
    /\ \A x \in 1 .. limit : x \in 1 .. limit1
    => FreeList(T, f, n, links1, first, limit1)
<1> SUFFICES ASSUME NEW T, NEW f, NEW n, NEW links, NEW first, NEW limit, NEW links1, NEW limit1,
                    FreeList(T, f, n, links, first, limit),
                    \A x \in Values(f, n) : links1[x] = links[x],
                    \A x \in 1 .. limit : x \in 1 .. limit1
             PROVE  FreeList(T, f, n, links1, first, limit1)
  OBVIOUS
<1>1. \A i \in 1 .. n : links1[f[i]] = links[f[i]]
  BY DEF Values
<1>2. Strand(f, n, links1, first)
  BY <1>1 DEF FreeList, Strand
<1>3. Values(f, n) \subseteq 1 .. limit1
  BY Zenon DEF FreeList
<1> QED BY <1>2, <1>3, Zenon DEF FreeList
\* One queue gets d nodes more.
LEMMA CountMoves ==
  ASSUME QueueTypes, NEW sum, AddsUp(sum), NEW q \in Queues, NEW d \in Int,
         \A r \in Queues : Used(r)' = Used(r) + (IF r = q THEN d ELSE 0)
  PROVE  \E sum1 : AddsUp(sum1)' /\ sum1[Cardinality(Queues)] = sum[Cardinality(Queues)] + d
<1>1. PICK C \in Nat : C = Cardinality(Queues) /\ Queues = 1 .. C
  BY QueuesAre
<1> DEFINE sum1 == [i \in 0 .. C |-> sum[i] + (IF i >= q THEN d ELSE 0)]
<1>2. sum \in [0 .. C -> Int] /\ sum[0] = 0 /\ \A i \in 1 .. C : sum[i] = sum[i - 1] + Used(i)
  BY <1>1 DEF AddsUp
<1>3. sum1 \in [0 .. C -> Int] /\ sum1[0] = 0 /\ sum1[C] = sum[C] + d
  <2>1. \A i \in 0 .. C : sum[i] + (IF i >= q THEN d ELSE 0) \in Int
    BY <1>1, <1>2, SMTT(40)
  <2>2. sum1 \in [0 .. C -> Int]
    BY <2>1
  <2>3. 0 \in 0 .. C /\ C \in 0 .. C /\ C >= q /\ ~(0 >= q) /\ sum[0] + 0 = 0
    <3>1. q \in 1 .. C
      BY <1>1
    <3>2. 0 \in 0 .. C /\ C \in 0 .. C /\ C >= q /\ ~(0 >= q)
      BY <3>1
    <3> QED BY <1>2, <3>2
  <2> QED BY <1>2, <2>2, <2>3
<1>4. \A i \in 1 .. C : sum1[i] = sum1[i - 1] + Used(i)'
  <2> TAKE i \in 1 .. C
  <2>1. sum1[i] = sum[i] + (IF i >= q THEN d ELSE 0)
    OBVIOUS
  <2>2. sum1[i - 1] = sum[i - 1] + (IF i - 1 >= q THEN d ELSE 0) /\ sum[i - 1] \in Int
    BY <1>2
  <2>3. sum[i] = sum[i - 1] + Used(i) /\ sum[i] \in Int
    BY <1>2
  <2>4. Used(i)' = Used(i) + (IF i = q THEN d ELSE 0)
    BY <1>1
  <2>5. PICK u : u = Used(i)
    OBVIOUS
  <2>6. PICK v : v = Used(i)'
    OBVIOUS
  <2>7. (i >= q <=> i - 1 >= q \/ i = q) /\ ~(i - 1 >= q /\ i = q)
    BY <1>1
  <2>8. u \in Int
    BY <2>5, <1>1 DEF Used, QueueTypes
  <2> QED BY <2>1, <2>2, <2>3, <2>4, <2>5, <2>6, <2>7, <2>8
<1> HIDE DEF sum1
<1>5. AddsUp(sum1)'
  BY <1>1, <1>3, <1>4 DEF AddsUp
<1> QED BY <1>1, <1>3, <1>5

\* As many elements as places.
LEMMA Fits ==
  \A T, f, n : IsFiniteSet(T) /\ f \in [Nat -> T] /\ n \in Nat /\ Differ(f, n)
               => n <= Cardinality(T) /\ Cardinality(Values(f, n)) = n
<1> SUFFICES ASSUME NEW T, NEW f \in [Nat -> T], NEW n \in Nat, IsFiniteSet(T), Differ(f, n)
             PROVE  n <= Cardinality(T) /\ Cardinality(Values(f, n)) = n
  OBVIOUS
<1> DEFINE g == [i \in 1 .. n |-> f[i]]
<1>1. g \in Injection(1 .. n, T)
  BY DEF Differ, Injection, IsInjective
<1>2. g \in Bijection(1 .. n, Values(f, n))
  <2>1. g \in Injection(1 .. n, Values(f, n))
    BY DEF Differ, Injection, IsInjective, Values
  <2>2. g \in Surjection(1 .. n, Values(f, n))
    BY DEF Surjection, Values
  <2> QED BY <2>1, <2>2 DEF Bijection
<1> HIDE DEF g
<1>3. IsFiniteSet(1 .. n) /\ Cardinality(1 .. n) = n
  <2>1. n \in Int /\ 1 \in Int /\ (IF 1 > n THEN 0 ELSE n - 1 + 1) = n
    OBVIOUS
  <2> QED BY <2>1, FS_Interval
<1>4. Cardinality(1 .. n) <= Cardinality(T)
  BY <1>1, FS_Injection
<1>5. Cardinality(Values(f, n)) = n
  <2>1. ExistsBijection(1 .. n, Values(f, n))
    BY <1>2 DEF ExistsBijection
  <2> QED BY <2>1, FS_CountingElements
<1> QED BY <1>3, <1>4, <1>5

-----------------------------------------------------------------------------
(***************************************************************************)
(* _que_enque                                                              *)
(***************************************************************************)

\* The place of a new entry with key k in the list f: behind those with no
\* greater key, in front of the first with a greater one.
PlacedAt(f, n, p, k) ==
  /\ p \in 1 .. n + 1
  /\ \A j \in 1 .. n : j < p => ~Behind(f[j], k)
  /\ p <= n => Behind(f[p], k)

\* There is such a place ...
LEMMA PlaceIs ==
  ASSUME NEW f, NEW n \in Nat, NEW k
  PROVE  \E p : PlacedAt(f, n, p, k)
<1> DEFINE S == {j \in 1 .. n + 1 : j <= n => Behind(f[j], k)}
<1>1. S \in SUBSET Nat /\ n + 1 \in S
  OBVIOUS
<1>2. PICK p \in S : \A j \in S : p <= j
  <2> HIDE DEF S
  <2> QED BY <1>1, Least
<1>3. ASSUME NEW j \in 1 .. n, j < p PROVE ~Behind(f[j], k)
  <2>1. j \in 1 .. n + 1 /\ ~(p <= j)
    BY <1>3
  <2>2. j \notin S
    BY <1>2, <2>1
  <2> QED BY <2>1, <2>2
<1> QED BY <1>2, <1>3 DEF PlacedAt

\* What is at place p, NULL behind the end.
At(f, n, p) == IF p = n + 1 THEN NULL ELSE f[p]

\* ... and the traversal stops there: it ends within the list, which has no more
\* nodes than there are, so that walking as many steps as nodes is enough.
LEMMA SuccessorIs ==
  ASSUME NEW q, NEW k, NEW f \in Lists, NEW n \in Nat, NEW p, PlacedAt(f, n, p, k),
         Strand(f, n, next, head[q]), n <= Cardinality(Nodes), Cardinality(Nodes) \in Nat
  PROVE  Successor(q, k) = At(f, n, p)
<1>1. PICK C \in Nat : C = Cardinality(Nodes)
  OBVIOUS
<1> DEFINE to(i) == IF i + 1 < p THEN i + 1 ELSE p
           g == [i \in 0 .. C |-> At(f, n, to(i))]
           Step(m) == IF m = NULL THEN NULL ELSE IF Behind(m, k) THEN m ELSE next[m]
           Eq(h) == h = [i \in 0 .. C |-> IF i = 0 THEN head[q] ELSE Step(h[i - 1])]
<1>2. p \in 1 .. n + 1
  BY DEF PlacedAt
<1>3. head[q] = At(f, n, to(0))
  <2>1. to(0) = 1 /\ (1 = n + 1 <=> n = 0)
    BY <1>2
  <2>2. head[q] = IF n = 0 THEN NULL ELSE f[1]
    BY Zenon DEF Strand
  <2> HIDE DEF to
  <2> QED BY <2>1, <2>2, Zenon DEF At
<1>4. ASSUME NEW i \in 1 .. C PROVE Step(At(f, n, to(i - 1))) = At(f, n, to(i))
  <2>1. CASE i < p
    <3>1. i \in 1 .. n /\ to(i - 1) = i /\ i # n + 1 /\ to(i) = i + 1 /\ (i + 1 = n + 1 <=> i = n)
      BY <1>2, <2>1
    <3>2. At(f, n, i) = f[i] /\ f[i] # NULL
      <4>1. f[i] \in Nodes
        BY <3>1 DEF Lists
      <4> QED BY <3>1, <4>1 DEF At, Nodes, NULL
    <3>3. ~Behind(f[i], k)
      BY <2>1, <3>1, Zenon DEF PlacedAt
    <3>4. next[f[i]] = At(f, n, i + 1)
      BY <3>1 DEF Strand, At
    <3>5. Step(f[i]) = next[f[i]]
      BY <3>2, <3>3, Zenon
    <3> HIDE DEF to, Step
    <3> QED BY <3>1, <3>2, <3>4, <3>5, Zenon
  <2>2. CASE ~(i < p)
    <3>1. to(i - 1) = p /\ to(i) = p
      BY <1>2, <2>2
    <3>2. CASE p = n + 1
      <4>1. At(f, n, p) = NULL
        BY <3>2 DEF At
      <4> HIDE DEF to
      <4> QED BY <3>1, <4>1, Zenon
    <3>3. CASE p # n + 1
      <4>1. p <= n
        BY <1>2, <3>3
      <4>2. At(f, n, p) = f[p] /\ Behind(f[p], k)
        BY <3>3, <4>1, Zenon DEF At, PlacedAt
      <4>3. Step(f[p]) = f[p]
        BY <4>2, Zenon
      <4> HIDE DEF to, Step
      <4> QED BY <3>1, <4>2, <4>3, Zenon
    <3> QED BY <3>2, <3>3
  <2> QED BY <2>1, <2>2
<1> HIDE DEF to, Step
<1>5. Eq(g)
  <2>1. ASSUME NEW i \in 0 .. C
        PROVE  At(f, n, to(i)) = IF i = 0 THEN head[q] ELSE Step(g[i - 1])
    <3>1. CASE i = 0
      BY <1>3, <3>1
    <3>2. CASE i # 0
      <4>1. i \in 1 .. C /\ i - 1 \in 0 .. C
        BY <3>2
      <4>2. g[i - 1] = At(f, n, to(i - 1))
        BY <4>1
      <4>3. Step(At(f, n, to(i - 1))) = At(f, n, to(i))
        BY <4>1, <1>4
      <4> HIDE DEF g
      <4> QED BY <3>2, <4>2, <4>3, Zenon
    <3> QED BY <3>1, <3>2
  <2> QED BY <2>1
<1>6. ASSUME NEW h, Eq(h) PROVE h[C] = g[C]
  <2>1. \A i \in 0 .. C : h[i] = IF i = 0 THEN head[q] ELSE Step(h[i - 1])
    BY <1>6
  <2>2. \A i \in 0 .. C : g[i] = IF i = 0 THEN head[q] ELSE Step(g[i - 1])
    BY <1>5
  <2> HIDE DEF g
  <2> DEFINE S == {m \in Nat : m \in 0 .. C => h[m] = g[m]}
  <2>3. \A m \in S : m + 1 \in S
    <3> SUFFICES ASSUME NEW m \in S, m + 1 \in 0 .. C PROVE h[m + 1] = g[m + 1]
      OBVIOUS
    <3>1. m \in 0 .. C /\ m + 1 # 0 /\ (m + 1) - 1 = m
      OBVIOUS
    <3>2. h[m] = g[m]
      BY <3>1
    <3> HIDE DEF S
    <3>3. h[m + 1] = Step(h[(m + 1) - 1]) /\ g[m + 1] = Step(g[(m + 1) - 1])
      BY <2>1, <2>2, <3>1, Zenon
    <3> QED BY <3>1, <3>2, <3>3, Zenon
  <2>4. S \in SUBSET Nat /\ 0 \in S
    <3>1. 0 \in 0 .. C /\ 0 \in Nat
      OBVIOUS
    <3>2. h[0] = g[0]
      BY <2>1, <2>2, <3>1, Zenon
    <3> QED BY <3>1, <3>2
  <2>5. S = Nat
    <3> HIDE DEF S
    <3> QED BY <2>3, <2>4, Climb
  <2>6. C \in S /\ C \in 0 .. C
    BY <2>5
  <2> QED BY <2>6
<1>7. Successor(q, k) = (CHOOSE h : Eq(h))[C]
  BY <1>1 DEF Successor, Step
<1>8. g[C] = At(f, n, p)
  <2>1. to(C) = p
    BY <1>1, <1>2 DEF to
  <2> QED BY <2>1
<1> HIDE DEF g
<1>9. Eq(CHOOSE h : Eq(h))
  <2> HIDE DEF Eq
  <2> QED BY <1>5, Zenon
<1>10. (CHOOSE h : Eq(h))[C] = g[C]
  <2> DEFINE h0 == CHOOSE h : Eq(h)
  <2> HIDE DEF Eq, h0
  <2>1. Eq(h0)
    BY <1>9 DEF h0
  <2>2. h0[C] = g[C]
    BY <1>6, <2>1, Zenon
  <2> QED BY <2>2 DEF h0
<1> QED BY <1>7, <1>8, <1>10

LinkTypes ==
  /\ prev \in [Nodes -> Nodes \cup {NULL}] /\ next \in [Nodes -> Nodes \cup {NULL}]
  /\ head \in [Queues -> Nat] /\ tail \in [Queues -> Nat] /\ length \in [Queues -> Nat]

\* Before a node is linked in: queue q has list f of n nodes, and x is at hand.
AtHand(q, f, n, x) ==
  /\ LinkTypes /\ q \in Queues /\ f \in Lists /\ n \in Nat /\ n = length[q]
  /\ x \in Nodes /\ x \notin Values(f, n)
  /\ NewLinks \in [Nodes -> Nodes \cup {NULL}]
  /\ Listed(f, n, NewLinks, prev, head[q], tail[q])

\* After: it is at place p, and the other lists are as they were.
Linked(q, f, n, p, x) ==
  /\ Joins(f, n, p, x, NewLinks, prev, head[q], tail[q], next', prev', head'[q], tail'[q])
  /\ LinkTypes' /\ length' = [length EXCEPT ![q] = n + 1]
  /\ \A y \in Nodes : y # x /\ y \notin Values(f, n)
                      => next'[y] = NewLinks[y] /\ prev'[y] = prev[y]
  /\ \A r \in Queues : r # q => head'[r] = head[r] /\ tail'[r] = tail[r]

\* Each of the three ways to link a node in puts it where it belongs.
LEMMA EmptyLinked ==
  \A q, f, n, x : AtHand(q, f, n, x) /\ n = 0 /\ link_empty(q, x) => Linked(q, f, n, 1, x)
<1> SUFFICES ASSUME NEW q, NEW f, NEW n, NEW x, AtHand(q, f, n, x), n = 0, link_empty(q, x)
             PROVE  Linked(q, f, n, 1, x)
  OBVIOUS
<1>1. /\ q \in Queues /\ f \in Lists /\ n \in Nat /\ n = length[q]
      /\ x \in Nodes /\ x \notin Values(f, n)
      /\ NewLinks \in [Nodes -> Nodes \cup {NULL}]
      /\ Listed(f, n, NewLinks, prev, head[q], tail[q])
      /\ prev \in [Nodes -> Nodes \cup {NULL}]
      /\ head \in [Queues -> Nat] /\ tail \in [Queues -> Nat] /\ length \in [Queues -> Nat]
  BY Zenon DEF AtHand, LinkTypes
<1>2. /\ head' = [head EXCEPT ![q] = x] /\ tail' = [tail EXCEPT ![q] = x]
      /\ length' = [length EXCEPT ![q] = 1]
      /\ next' = [NewLinks EXCEPT ![x] = NULL] /\ prev' = [prev EXCEPT ![x] = NULL]
  BY Zenon DEF link_empty
<1>3. x \in Nat
  BY <1>1 DEF Nodes
<1>4. LinkTypes'
  BY <1>1, <1>2, <1>3 DEF LinkTypes
<1>5. /\ \A y \in Nodes : y # x => next'[y] = NewLinks[y] /\ prev'[y] = prev[y]
      /\ \A r \in Queues : r # q => head'[r] = head[r] /\ tail'[r] = tail[r]
      /\ next'[x] = NULL /\ prev'[x] = NULL /\ head'[q] = x /\ tail'[q] = x
      /\ length' = [length EXCEPT ![q] = n + 1]
  BY <1>1, <1>2
<1>6. 1 \in 1 .. n + 1 /\ 1 = n + 1 /\ ~(1 > 1) /\ ~(1 <= n) /\ 1 .. n = {}
  OBVIOUS
<1>7. LinkedIn(f, n, 1, x, NewLinks, next') /\ LinkedBack(f, n, 1, x, prev, prev')
  BY <1>5, <1>6 DEF LinkedIn, LinkedBack
<1>8. Joins(f, n, 1, x, NewLinks, prev, head[q], tail[q], next', prev', head'[q], tail'[q])
  BY <1>1, <1>5, <1>6, <1>7 DEF Joins
<1> QED BY <1>4, <1>5, <1>8, Zenon DEF Linked

LEMMA LastLinked ==
  \A q, f, n, x : AtHand(q, f, n, x) /\ n # 0 /\ link_last(q, x) => Linked(q, f, n, n + 1, x)
<1> SUFFICES ASSUME NEW q, NEW f, NEW n, NEW x, AtHand(q, f, n, x), n # 0, link_last(q, x)
             PROVE  Linked(q, f, n, n + 1, x)
  OBVIOUS
<1>1. /\ q \in Queues /\ f \in Lists /\ n \in Nat /\ n = length[q]
      /\ x \in Nodes /\ x \notin Values(f, n)
      /\ NewLinks \in [Nodes -> Nodes \cup {NULL}]
      /\ Listed(f, n, NewLinks, prev, head[q], tail[q])
      /\ prev \in [Nodes -> Nodes \cup {NULL}]
      /\ head \in [Queues -> Nat] /\ tail \in [Queues -> Nat] /\ length \in [Queues -> Nat]
  BY Zenon DEF AtHand, LinkTypes
<1>2. /\ prev' = [prev EXCEPT ![x] = tail[q]]
      /\ next' = [NewLinks EXCEPT ![x] = NULL, ![tail[q]] = x]
      /\ tail' = [tail EXCEPT ![q] = x]
      /\ length' = [length EXCEPT ![q] = @ + 1]
      /\ head' = head
  BY Zenon DEF link_last
<1>3. PICK t : t = tail[q]
  OBVIOUS
<1>4. t = f[n] /\ t \in Nodes /\ t # x /\ t \in Values(f, n)
  <2>1. t = f[n]
    BY <1>1, <1>3 DEF Listed, Back
  <2>2. n \in 1 .. n
    BY <1>1
  <2>3. t \in Values(f, n)
    BY <2>1, <2>2 DEF Values
  <2> QED BY <1>1, <2>1, <2>3 DEF Lists
<1>5. x \in Nat
  BY <1>1 DEF Nodes
<1>6. /\ next' = [NewLinks EXCEPT ![x] = NULL, ![t] = x] /\ prev' = [prev EXCEPT ![x] = t]
  BY <1>2, <1>3
<1>7. LinkTypes'
  <2>1. next' \in [Nodes -> Nodes \cup {NULL}]
    BY <1>1, <1>4, <1>6
  <2>2. prev' \in [Nodes -> Nodes \cup {NULL}]
    BY <1>1, <1>4, <1>6
  <2> QED BY <1>1, <1>2, <1>5, <2>1, <2>2 DEF LinkTypes
<1>8. /\ \A y \in Nodes : y # x => prev'[y] = prev[y]
      /\ \A y \in Nodes : y # x /\ y # t => next'[y] = NewLinks[y]
      /\ next'[x] = NULL /\ prev'[x] = t /\ next'[t] = x
  BY <1>1, <1>4, <1>6
<1>9. /\ \A r \in Queues : r # q => head'[r] = head[r] /\ tail'[r] = tail[r]
      /\ head'[q] = head[q] /\ tail'[q] = x
      /\ length' = [length EXCEPT ![q] = n + 1]
  BY <1>1, <1>2
<1>10. /\ n + 1 \in 1 .. n + 1 /\ n + 1 > 1 /\ (n + 1) - 1 = n /\ ~(n + 1 <= n) /\ n + 1 # 1
       /\ n \in 1 .. n
  BY <1>1
<1>11. \A i \in 1 .. n : f[i] \in Nodes /\ f[i] # x /\ (f[i] = t => i = n) /\ f[i] \in Values(f, n)
  <2>1. \A i \in 1 .. n : f[i] \in Nodes /\ f[i] \in Values(f, n)
    BY <1>1 DEF Lists, Values
  <2>2. \A i \in 1 .. n : f[i] = t => i = n
    BY <1>1, <1>4, <1>10, Zenon DEF Listed, Differ
  <2> QED BY <1>1, <2>1, <2>2
<1>12. LinkedIn(f, n, n + 1, x, NewLinks, next')
  <2>1. \A i \in 1 .. n : i # (n + 1) - 1 => next'[f[i]] = NewLinks[f[i]]
    BY <1>8, <1>10, <1>11, Zenon
  <2> QED BY <1>4, <1>8, <1>10, <2>1 DEF LinkedIn
<1>13. LinkedBack(f, n, n + 1, x, prev, prev')
  <2>1. \A i \in 1 .. n : prev'[f[i]] = prev[f[i]]
    BY <1>8, <1>11, Zenon
  <2> QED BY <1>4, <1>8, <1>10, <2>1 DEF LinkedBack
<1>14. Joins(f, n, n + 1, x, NewLinks, prev, head[q], tail[q], next', prev', head'[q], tail'[q])
  BY <1>1, <1>9, <1>10, <1>12, <1>13 DEF Joins
<1> QED BY <1>4, <1>7, <1>8, <1>9, <1>14, Zenon DEF Linked

LEMMA BeforeLinked ==
  \A q, f, n, x, p : AtHand(q, f, n, x) /\ p \in 1 .. n /\ link_before(q, x, f[p])
                     => Linked(q, f, n, p, x)
<1> SUFFICES ASSUME NEW q, NEW f, NEW n, NEW x, NEW p,
                    AtHand(q, f, n, x), p \in 1 .. n, link_before(q, x, f[p])
             PROVE  Linked(q, f, n, p, x)
  OBVIOUS
<1>1. /\ q \in Queues /\ f \in Lists /\ n \in Nat /\ n = length[q]
      /\ x \in Nodes /\ x \notin Values(f, n)
      /\ NewLinks \in [Nodes -> Nodes \cup {NULL}]
      /\ Listed(f, n, NewLinks, prev, head[q], tail[q])
      /\ prev \in [Nodes -> Nodes \cup {NULL}]
      /\ head \in [Queues -> Nat] /\ tail \in [Queues -> Nat] /\ length \in [Queues -> Nat]
  BY Zenon DEF AtHand, LinkTypes
<1>2. PICK y : y = f[p]
  OBVIOUS
<1>3. PICK z : z = prev[y]
  OBVIOUS
<1>4. /\ next' = [i \in Nodes |-> IF i = x THEN y ELSE IF i = z THEN x ELSE NewLinks[i]]
      /\ prev' = [prev EXCEPT ![x] = z, ![y] = x]
      /\ head' = (IF z = NULL THEN [head EXCEPT ![q] = x] ELSE head)
      /\ length' = [length EXCEPT ![q] = @ + 1]
      /\ tail' = tail
  BY <1>2, <1>3 DEF link_before
<1>5. \A i \in 1 .. n : f[i] \in Nodes /\ f[i] # x /\ f[i] \in Values(f, n) /\ f[i] # NULL
  <2>1. \A i \in 1 .. n : f[i] \in Nodes /\ f[i] \in Values(f, n)
    BY <1>1 DEF Lists, Values
  <2>2. \A i \in Nodes : i # NULL
    BY DEF Nodes, NULL
  <2> QED BY <1>1, <2>1, <2>2
<1>6. \A i, j \in 1 .. n : f[i] = f[j] => i = j
  BY <1>1, Zenon DEF Listed, Differ
<1>7. z = IF p = 1 THEN NULL ELSE f[p - 1]
  BY <1>1, <1>2, <1>3, Zenon DEF Listed, Back
<1>8. y \in Nodes /\ y # x /\ z \in Nodes \cup {NULL} /\ x \in Nat
  BY <1>1, <1>2, <1>3, <1>5 DEF Nodes
<1>9. LinkTypes'
  <2>1. next' \in [Nodes -> Nodes \cup {NULL}]
    BY <1>1, <1>4, <1>8
  <2>2. prev' \in [Nodes -> Nodes \cup {NULL}]
    BY <1>1, <1>4, <1>8
  <2>3. head' \in [Queues -> Nat]
    BY <1>1, <1>4, <1>8
  <2> QED BY <1>1, <1>4, <2>1, <2>2, <2>3 DEF LinkTypes
<1>10. /\ prev'[x] = z /\ prev'[y] = x
       /\ \A i \in Nodes : i # x /\ i # y => prev'[i] = prev[i]
       /\ next'[x] = y
       /\ \A i \in Nodes : i # x /\ i = z => next'[i] = x
       /\ \A i \in Nodes : i # x /\ i # z => next'[i] = NewLinks[i]
  BY <1>1, <1>4, <1>8
<1>11. p # 1 => p - 1 \in 1 .. n /\ p > 1
  BY <1>1
<1>12. p \in 1 .. n + 1 /\ p # n + 1 /\ (p > 1 => p # 1) /\ p <= n
  BY <1>1
<1>13. \A i \in 1 .. n : i # p - 1 => f[i] # z
  <2> TAKE i \in 1 .. n
  <2> HAVE i # p - 1
  <2>1. CASE p = 1
    BY <1>5, <1>7, <2>1
  <2>2. CASE p # 1
    BY <1>6, <1>7, <1>11, <2>2, Zenon
  <2> QED BY <2>1, <2>2
<1>14. LinkedIn(f, n, p, x, NewLinks, next')
  <2>1. \A i \in 1 .. n : i # p - 1 => next'[f[i]] = NewLinks[f[i]]
    BY <1>5, <1>10, <1>13, Zenon
  <2>2. p > 1 => next'[f[p - 1]] = x
    BY <1>5, <1>7, <1>10, <1>11, <1>12, Zenon
  <2> QED BY <1>2, <1>10, <1>12, <2>1, <2>2, Zenon DEF LinkedIn
<1>15. LinkedBack(f, n, p, x, prev, prev')
  <2>1. \A i \in 1 .. n : i # p => prev'[f[i]] = prev[f[i]]
    BY <1>2, <1>5, <1>6, <1>10, Zenon
  <2> QED BY <1>2, <1>7, <1>10, <2>1, Zenon DEF LinkedBack
<1>16. /\ head'[q] = (IF p = 1 THEN x ELSE head[q]) /\ tail'[q] = tail[q]
       /\ \A r \in Queues : r # q => head'[r] = head[r] /\ tail'[r] = tail[r]
       /\ length' = [length EXCEPT ![q] = n + 1]
  <2>1. z = NULL <=> p = 1
    BY <1>5, <1>7, <1>11, Zenon
  <2> QED BY <1>1, <1>4, <2>1
<1>17. Joins(f, n, p, x, NewLinks, prev, head[q], tail[q], next', prev', head'[q], tail'[q])
  BY <1>1, <1>12, <1>14, <1>15, <1>16, Zenon DEF Joins
<1>18. \A i \in Nodes : i \notin Values(f, n) => i # z /\ i # y
  <2>1. \A i \in Nodes : i \notin Values(f, n) => i # y
    BY <1>1, <1>2, <1>5, Zenon
  <2>2. \A i \in Nodes : i = z => i \in Values(f, n)
    <3>1. \A i \in Nodes : i # NULL
      BY DEF Nodes, NULL
    <3> QED BY <1>5, <1>7, <1>11, <3>1, Zenon
  <2> QED BY <2>1, <2>2, Zenon
<1> QED BY <1>9, <1>10, <1>16, <1>17, <1>18, Zenon DEF Linked

LEMMA NodesAre == /\ Nodes = 1 .. NodesPerSlice * NodeSlices
                  /\ IsFiniteSet(Nodes) /\ Cardinality(Nodes) \in Nat
<1>1. IsFiniteSet(Nodes)
  BY Sizes, FS_Interval DEF Nodes
<1> QED BY <1>1, FS_CardinalityType DEF Nodes

LEMMA NewLinksAre ==
  ASSUME QueueTypes
  PROVE  NewLinks \in [Nodes -> Nodes \cup {NULL}]
<1>1. next \in [Nodes -> Nodes \cup {NULL}]
  BY DEF QueueTypes
<1>2. CASE ~FreshSlice
  BY <1>1, <1>2 DEF NewLinks
<1>3. CASE FreshSlice
  <2>1. PICK s : s = Slice(node_slices + 1, NodesPerSlice)
    OBVIOUS
  <2>2. NewLinks = [i \in Nodes |-> IF i \notin s THEN next[i] ELSE IF i - 1 \in s THEN i - 1 ELSE NULL]
    BY <1>1, <1>3, <2>1 DEF NewLinks, Carved
  <2>3. s \subseteq Nat \ {0}
    <3>1. node_slices + 1 \in Nat /\ node_slices + 1 > 0
      BY DEF QueueTypes
    <3>2. PICK m \in Nat : m = node_slices + 1 /\ m > 0
      BY <3>1
    <3>3. \E lo \in Nat : s = lo + 1 .. lo + NodesPerSlice
      BY <2>1, <3>2, Sizes, SliceIs
    <3> QED BY <3>3, Sizes
  <2>4. ASSUME NEW i \in Nodes, i - 1 \in s PROVE i - 1 \in Nodes
    <3>1. PICK m \in Nat : m = NodesPerSlice * NodeSlices
      BY Sizes
    <3>2. Nodes = 1 .. m
      BY <3>1 DEF Nodes
    <3> QED BY <2>3, <2>4, <3>2
  <2>5. \A i \in Nodes : (IF i \notin s THEN next[i] ELSE IF i - 1 \in s THEN i - 1 ELSE NULL)
                         \in Nodes \cup {NULL}
    BY <1>1, <2>4
  <2> QED BY <2>2, <2>5
<1> QED BY <1>2, <1>3

\* _qn_alloc leaves c1 of the c free nodes.
TakesNode(F, c, F1, c1) ==
  Allocated(NodesPerSlice * NodeSlices, CarvedNodes, CarvedNodes', next, F, c, NewLinks, NewNode, F1, c1)

LEMMA NodeTaken ==
  ASSUME QueueTypes, NEW F, NEW c, FreeList(Nodes, F, c, next, free_qnodes, CarvedNodes), qn_alloc
  PROVE  /\ \E F1, c1 : TakesNode(F, c, F1, c1)
         /\ node_slices' \in 1 .. NodeSlices /\ free_qnodes' = NewLinks[NewNode]
         /\ CarvedNodes' \in Nat /\ CarvedNodes \in Nat
<1> DEFINE N == NodesPerSlice * NodeSlices
<1>1. /\ free_qnodes = NULL => node_slices < NodeSlices
      /\ node_slices' = (IF free_qnodes = NULL THEN node_slices + 1 ELSE node_slices)
      /\ free_qnodes' = NewLinks[NewNode]
  BY DEF qn_alloc, FreshSlice
<1>2. node_slices \in Nat /\ node_slices > 0 /\ node_slices <= NodeSlices
  BY Sizes DEF QueueTypes
<1>3. node_slices * NodesPerSlice <= N /\ (free_qnodes = NULL => (node_slices + 1) * NodesPerSlice <= N)
  <2>1. node_slices * NodesPerSlice <= N
    BY <1>2, Sizes, Times
  <2>2. CASE free_qnodes = NULL
    <3>1. PICK m \in Nat : m = node_slices + 1 /\ m <= NodeSlices
      BY <1>1, <1>2, <2>2, Sizes
    <3>2. m * NodesPerSlice <= N
      BY <3>1, Sizes, Times
    <3> QED BY <2>1, <3>1, <3>2
  <2> QED BY <2>1, <2>2
<1>4. Nodes = 1 .. N /\ N \in Nat /\ DOMAIN next = 1 .. N
  BY Sizes DEF Nodes, QueueTypes
<1>5. FreeList(1 .. N, F, c, next, free_qnodes, node_slices * NodesPerSlice)
  BY <1>4 DEF CarvedNodes
<1> HIDE DEF N
<1>6. Allocates(N, node_slices, NodesPerSlice, next, free_qnodes, F, c, NewLinks, NewNode, node_slices')
  BY <1>1, <1>2, <1>3, <1>4, <1>5, Sizes DEF Allocates, NewLinks, NewNode, FreshSlice
<1>7. \E F1, c1 : Allocated(N, node_slices * NodesPerSlice, node_slices' * NodesPerSlice,
                            next, F, c, NewLinks, NewNode, F1, c1)
  BY <1>6, AllocateIs, Zenon
<1>8. node_slices' \in 1 .. NodeSlices /\ node_slices' \in Nat
  BY <1>1, <1>2, Sizes
<1>9. \A a, b \in Nat : a * b \in Nat
  OBVIOUS
<1> QED BY <1>1, <1>2, <1>7, <1>8, <1>9, Sizes DEF CarvedNodes, TakesNode, N

\* Where a new entry with key k goes in queue q.
Enters(f, q, p, k) ==
  /\ order[q] = "fifo" => p = length[q] + 1
  /\ order[q] = "ordered" => PlacedAt(f, length[q], p, k)

LEMMA EnqueLinks ==
  ASSUME QueueTypes, NEW q \in InUse, NEW d, NEW k, NEW f, que_enque(q, d, k),
         AtHand(q, f, length[q], NewNode), Strand(f, length[q], next, head[q])
  PROVE  \E p : Linked(q, f, length[q], p, NewNode) /\ Enters(f, q, p, k)
<1>1. /\ q \in Queues /\ f \in Lists /\ length[q] \in Nat
      /\ Strand(f, length[q], next, head[q]) /\ Differ(f, length[q])
  BY Zenon DEF AtHand, Listed
<1>2. PICK n \in Nat : n = length[q]
  BY <1>1
<1>3. order[q] \in {"fifo", "ordered"}
  BY DEF InUse, QueueTypes
<1>4. CASE n = 0 /\ link_empty(q, NewNode)
  <2>1. Linked(q, f, n, 1, NewNode)
    BY <1>2, <1>4, EmptyLinked, Zenon
  <2>2. Enters(f, q, 1, k)
    BY <1>2, <1>4 DEF Enters, PlacedAt
  <2> QED BY <1>2, <2>1, <2>2, Zenon
<1>5. CASE n # 0 /\ order[q] = "fifo" /\ link_last(q, NewNode)
  <2>1. Linked(q, f, n, n + 1, NewNode)
    BY <1>2, <1>5, LastLinked, Zenon
  <2>2. Enters(f, q, n + 1, k)
    BY <1>2, <1>5 DEF Enters
  <2> QED BY <1>2, <2>1, <2>2, Zenon
<1>6. CASE /\ n # 0 /\ order[q] = "ordered"
           /\ \/ Successor(q, k) = NULL /\ link_last(q, NewNode)
              \/ Successor(q, k) # NULL /\ link_before(q, NewNode, Successor(q, k))
  <2>1. PICK p : PlacedAt(f, n, p, k)
    BY PlaceIs
  <2>2. Enters(f, q, p, k)
    BY <1>2, <1>6, <2>1, Zenon DEF Enters
  <2>3. n <= Cardinality(Nodes) /\ Cardinality(Nodes) \in Nat
    BY <1>1, <1>2, NodesAre, Fits DEF Lists
  <2>4. PICK s : s = Successor(q, k)
    OBVIOUS
  <2>5. s = At(f, n, p)
    BY <1>1, <1>2, <2>1, <2>3, <2>4, SuccessorIs
  <2>6. CASE p = n + 1
    <3>1. s = NULL
      BY <2>5, <2>6 DEF At
    <3>2. link_last(q, NewNode)
      BY <1>6, <2>4, <3>1, Zenon
    <3>3. Linked(q, f, n, n + 1, NewNode)
      BY <1>2, <1>6, <3>2, LastLinked, Zenon
    <3> QED BY <1>2, <2>2, <2>6, <3>3, Zenon
  <2>7. CASE p # n + 1
    <3>1. p \in 1 .. n /\ s = f[p]
      BY <2>1, <2>5, <2>7 DEF At, PlacedAt
    <3>2. s # NULL
      BY <1>1, <3>1 DEF Lists, Nodes, NULL
    <3>3. link_before(q, NewNode, f[p])
      BY <1>6, <2>4, <3>1, <3>2, Zenon
    <3>4. Linked(q, f, n, p, NewNode)
      BY <1>2, <3>1, <3>3, BeforeLinked, Zenon
    <3> QED BY <1>2, <2>2, <3>4, Zenon
  <2> QED BY <2>6, <2>7
<1> QED BY <1>2, <1>4, <1>5, <1>6, Zenon DEF que_enque

\* Queue q gets node x at place p.
Grown(L, L1, q, p, x) == L1 = [L EXCEPT ![q] = With(L[q], p, x)]

Enqueued(L, L1, q, p, k) ==
  /\ Grown(L, L1, q, p, NewNode) /\ Enters(L[q], q, p, k) /\ p \in 1 .. length[q] + 1
  /\ \A r \in InUse : NewNode \notin In(L, r)
  /\ NewNode \in Nodes /\ length' = [length EXCEPT ![q] = length[q] + 1]

\* _que_enque keeps the invariant, with the list that has the new node in it.
LEMMA EnqueKeeps ==
  ASSUME QueueTypes, NEW L, NEW F, NEW c, NEW G, NEW g, Structure(L, F, c, G, g),
         NEW q \in InUse, NEW d \in Data, NEW k \in Keys, que_enque(q, d, k)
  PROVE  /\ QueueTypes'
         /\ \E L1, F1, c1, p : Structure(L1, F1, c1, G, g)' /\ Enqueued(L, L1, q, p, k)
<1>1. /\ qn_alloc /\ UNCHANGED <<order, free_queues, queue_slices>>
      /\ key' = [key EXCEPT ![NewNode] = k] /\ data' = [data EXCEPT ![NewNode] = d]
  BY Zenon DEF que_enque
<1>2. /\ QueuesListed(L) /\ QueuesApart(L) /\ NodesFree(L, F, c) /\ Counted(c) /\ QueuesFree(G, g)
  BY Zenon DEF Structure
<1>3. FreeList(Nodes, F, c, next, free_qnodes, CarvedNodes)
  BY <1>2, Zenon DEF NodesFree
<1>4. PICK F1, c1 : TakesNode(F, c, F1, c1)
  BY <1>1, <1>3, NodeTaken
<1>5. /\ node_slices' \in 1 .. NodeSlices /\ free_qnodes' = NewLinks[NewNode]
      /\ CarvedNodes' \in Nat /\ CarvedNodes \in Nat
  BY <1>1, <1>3, NodeTaken
<1>6. PICK x : x = NewNode
  OBVIOUS
<1>7. PICK old \in Nat, now \in Nat : old = CarvedNodes /\ now = CarvedNodes'
  BY <1>5
<1>8. /\ FreeList(Nodes, F1, c1, NewLinks, free_qnodes', now)
      /\ x \in Nodes /\ x \in 1 .. now /\ x \notin Values(F1, c1)
      /\ now + c = old + c1 + 1 /\ old <= now
      /\ \A y \in 1 .. old : y \notin Values(F, c)
                             => y # x /\ y \notin Values(F1, c1) /\ NewLinks[y] = next[y]
  BY <1>4, <1>5, <1>6, <1>7, NodesAre, Zenon DEF TakesNode, Allocated
<1>9. InUse \subseteq Queues /\ InUse' = InUse /\ q \in Queues
  BY <1>1 DEF InUse
<1>10. /\ L \in [Queues -> Lists]
       /\ \A r \in InUse : /\ Listed(L[r], length[r], next, prev, head[r], tail[r])
                           /\ \A y \in In(L, r) : y \in 1 .. old /\ y \notin Values(F, c)
  <2>1. \A r \in InUse : \A y \in In(L, r) : y \in 1 .. old /\ y \notin Values(F, c)
    BY <1>2, <1>7 DEF QueuesListed, NodesFree
  <2> QED BY <1>2, <2>1, Zenon DEF QueuesListed
<1>11. \A r \in InUse : \A y \in In(L, r) : /\ y # x /\ y \notin Values(F1, c1)
                                            /\ NewLinks[y] = next[y] /\ y \in 1 .. now /\ y \in Nodes
  <2>1. \A y \in 1 .. old : y \in 1 .. now
    BY <1>8
  <2>2. \A r \in InUse : \A y \in In(L, r) : y \in Nodes
    BY <1>9, <1>10 DEF In, Values, Lists
  <2> QED BY <1>8, <1>10, <2>1, <2>2, Zenon
<1>12. /\ prev \in [Nodes -> Nodes \cup {NULL}] /\ LinkTypes
       /\ length \in [Queues -> Nat] /\ length[q] \in Nat
  BY <1>9 DEF QueueTypes, LinkTypes
<1>13. AtHand(q, L[q], length[q], x)
  <2>1. Listed(L[q], length[q], NewLinks, prev, head[q], tail[q])
    <3>1. \A y \in Values(L[q], length[q]) : NewLinks[y] = next[y] /\ prev[y] = prev[y]
      BY <1>11 DEF In
    <3>2. Listed(L[q], length[q], next, prev, head[q], tail[q])
      BY <1>10, Zenon
    <3> QED BY <3>1, <3>2, StandsStill, Zenon
  <2>2. x \notin Values(L[q], length[q])
    BY <1>11, Zenon DEF In
  <2>3. L[q] \in Lists
    BY <1>9, <1>10
  <2>4. NewLinks \in [Nodes -> Nodes \cup {NULL}]
    BY NewLinksAre
  <2> QED BY <1>8, <1>9, <1>12, <2>1, <2>2, <2>3, <2>4, Zenon DEF AtHand
<1>14. PICK p : Linked(q, L[q], length[q], p, x) /\ Enters(L[q], q, p, k)
  <2>1. Strand(L[q], length[q], next, head[q])
    BY <1>10, Zenon DEF Listed
  <2>2. AtHand(q, L[q], length[q], NewNode)
    BY <1>6, <1>13, Zenon
  <2>3. \E p : Linked(q, L[q], length[q], p, NewNode) /\ Enters(L[q], q, p, k)
    BY <2>1, <2>2, EnqueLinks
  <2> QED BY <1>6, <2>3, Zenon
<1>15. /\ Joins(L[q], length[q], p, x, NewLinks, prev, head[q], tail[q], next', prev', head'[q], tail'[q])
       /\ LinkTypes' /\ length' = [length EXCEPT ![q] = length[q] + 1]
       /\ \A y \in Nodes : y # x /\ y \notin In(L, q)
                           => next'[y] = NewLinks[y] /\ prev'[y] = prev[y]
       /\ \A r \in Queues : r # q => head'[r] = head[r] /\ tail'[r] = tail[r]
  BY <1>14, Zenon DEF Linked, In
<1>16. PICK f : f = With(L[q], p, x)
  OBVIOUS
<1>17. /\ Listed(f, length[q] + 1, next', prev', head'[q], tail'[q])
       /\ f \in Lists /\ Values(f, length[q] + 1) = In(L, q) \cup {x}
       /\ p \in 1 .. length[q] + 1
  <2>1. /\ Listed(f, length[q] + 1, next', prev', head'[q], tail'[q])
        /\ f \in Lists /\ Values(f, length[q] + 1) = Values(L[q], length[q]) \cup {x}
    BY <1>15, <1>16, JoinIs
  <2> QED BY <1>15, <2>1, Zenon DEF In, Joins
<1>18. PICK L1 : L1 = [L EXCEPT ![q] = f]
  OBVIOUS
<1>19. /\ L1 \in [Queues -> Lists] /\ L1[q] = f /\ \A r \in Queues : r # q => L1[r] = L[r]
  BY <1>9, <1>10, <1>17, <1>18
<1>20. length'[q] = length[q] + 1 /\ \A r \in Queues : r # q => length'[r] = length[r]
  BY <1>9, <1>12, <1>15
<1>21. In(L1, q)' = In(L, q) \cup {x} /\ \A r \in Queues : r # q => In(L1, r)' = In(L, r)
  BY <1>17, <1>19, <1>20 DEF In
<1>32. \A r \in InUse : \A y \in In(L1, r)' : (r = q /\ y = x) \/ y \in In(L, r)
  <2> TAKE r \in InUse
  <2>1. CASE r = q
    BY <1>21, <2>1
  <2>2. CASE r # q
    BY <1>9, <1>21, <2>2
  <2> QED BY <2>1, <2>2
<1>22. \A r, s \in InUse : r # s => \A y \in In(L, r) : y \notin In(L, s)
  BY <1>2 DEF QueuesApart
<1>23. \A r \in InUse : Listed(L1[r], length'[r], next', prev', head'[r], tail'[r])
  <2> TAKE r \in InUse
  <2>1. CASE r = q
    BY <1>17, <1>19, <1>20, <2>1, Zenon
  <2>2. CASE r # q
    <3>1. \A y \in Values(L[r], length[r]) : next'[y] = next[y] /\ prev'[y] = prev[y]
      BY <1>11, <1>15, <1>22, <2>2, Zenon DEF In
    <3>2. Listed(L[r], length[r], next', prev', head[r], tail[r])
      BY <1>10, <3>1, StandsStill, Zenon
    <3> QED BY <1>9, <1>15, <1>19, <1>20, <2>2, <3>2
  <2> QED BY <2>1, <2>2
<1>24. QueuesListed(L1)'
  <2>1. \A r \in InUse : \A y \in In(L1, r)' : y \in 1 .. now
    BY <1>8, <1>11, <1>32, Zenon
  <2>2. (CarvedNodes)' = now
    BY <1>7
  <2> QED BY <1>9, <1>19, <1>23, <2>1, <2>2 DEF QueuesListed
<1>25. QueuesApart(L1)'
  <2>1. \A r, s \in InUse : r # s => \A y \in In(L1, r)' : y \notin In(L1, s)'
    BY <1>11, <1>22, <1>32, Zenon
  <2> QED BY <1>9, <2>1 DEF QueuesApart
<1>26. NodesFree(L1, F1, c1)'
  <2>1. \A y \in Values(F1, c1) : next'[y] = NewLinks[y]
    <3>1. \A y \in Values(F1, c1) : y \in Nodes
      BY <1>8 DEF FreeList, Values
    <3> QED BY <1>8, <1>11, <1>15, <3>1, Zenon
  <2>2. FreeList(Nodes, F1, c1, next', free_qnodes', now)
    BY <1>8, <2>1, FreeStill, Zenon
  <2>3. \A r \in InUse : \A y \in In(L1, r)' : y \notin Values(F1, c1)
    BY <1>8, <1>11, <1>32, Zenon
  <2> QED BY <1>7, <1>9, <2>2, <2>3 DEF NodesFree
<1>27. Counted(c1)'
  <2>1. PICK sum : AddsUp(sum) /\ old = sum[Cardinality(Queues)] + c
    BY <1>2, <1>7 DEF Counted
  <2>2. \A r \in Queues : Used(r)' = Used(r) + (IF r = q THEN 1 ELSE 0)
    <3>1. order'[q] = order[q] /\ order[q] # "none"
      BY <1>1 DEF InUse
    <3> QED BY <1>1, <1>12, <1>20, <3>1 DEF Used
  <2>3. PICK sum1 : AddsUp(sum1)' /\ sum1[Cardinality(Queues)] = sum[Cardinality(Queues)] + 1
    BY <1>9, <2>1, <2>2, CountMoves
  <2>4. now = sum1[Cardinality(Queues)] + c1
    <3>1. c \in Nat /\ c1 \in Nat
      BY <1>3, <1>8, Zenon DEF FreeList
    <3>2. sum[Cardinality(Queues)] \in Int
      BY <2>1, QueuesAre DEF AddsUp
    <3> QED BY <1>8, <2>1, <2>3, <3>1, <3>2
  <2> QED BY <1>7, <2>3, <2>4 DEF Counted
<1>28. QueuesFree(G, g)'
  <2>1. \A r \in Values(G, g) : order[r] = "none" /\ r \in Queues
    BY <1>2 DEF QueuesFree, FreeList, Values
  <2>2. \A r \in Values(G, g) : head'[r] = head[r]
    BY <1>15, <2>1 DEF InUse
  <2>3. CarvedQueues' = CarvedQueues
    BY <1>1 DEF CarvedQueues
  <2>4. FreeList(Queues, G, g, head', free_queues, CarvedQueues)
    BY <1>2, <2>2, FreeStill, Zenon DEF QueuesFree
  <2> QED BY <1>1, <1>2, <2>3, <2>4 DEF QueuesFree
<1>29. QueueTypes'
  <2>1. key' \in [Nodes -> Keys] /\ data' \in [Nodes -> Data \cup {NULL}]
    BY <1>1 DEF QueueTypes
  <2>2. UNCHANGED <<order, queue_slices>>
    BY <1>1
  <2> QED BY <1>5, <1>15, <2>1, <2>2 DEF QueueTypes, LinkTypes
<1>30. Structure(L1, F1, c1, G, g)'
  BY <1>24, <1>25, <1>26, <1>27, <1>28 DEF Structure
<1>31. Enqueued(L, L1, q, p, k)
  <2>1. \A r \in InUse : NewNode \notin In(L, r)
    BY <1>6, <1>11, Zenon
  <2>2. Grown(L, L1, q, p, NewNode)
    BY <1>6, <1>16, <1>18 DEF Grown
  <2>3. NewNode \in Nodes
    BY <1>6, <1>8, Zenon
  <2> QED BY <1>14, <1>15, <1>17, <2>1, <2>2, <2>3, Zenon DEF Enqueued
<1> QED BY <1>29, <1>30, <1>31

-----------------------------------------------------------------------------
(***************************************************************************)
(* _que_deque and _que_alloc                                               *)
(***************************************************************************)

\* Queue q loses its first node.
Shrunk(L, L1, q) == L1 = [L EXCEPT ![q] = Less(L[q])]

\* Node x is put in front of a free list.
Frees(F, c, links, links1, first, x, limit) ==
  /\ FreeList(Nodes, F, c, links, first, limit) /\ x \in Nodes /\ x \in 1 .. limit
  /\ x \notin Values(F, c) /\ links1[x] = first
  /\ \A y \in Values(F, c) : links1[y] = links[y]

LEMMA FreedIs ==
  \A F, c, links, links1, first, x, limit :
    Frees(F, c, links, links1, first, x, limit)
    => /\ FreeList(Nodes, With(F, 1, x), c + 1, links1, x, limit)
       /\ HasAlso(With(F, 1, x), F, c, x)
<1> SUFFICES ASSUME NEW F, NEW c, NEW links, NEW links1, NEW first, NEW x, NEW limit,
                    Frees(F, c, links, links1, first, x, limit)
             PROVE  /\ FreeList(Nodes, With(F, 1, x), c + 1, links1, x, limit)
                    /\ HasAlso(With(F, 1, x), F, c, x)
  OBVIOUS
<1> USE DEF Frees
<1>1. /\ F \in [Nat -> Nodes] /\ c \in Nat /\ Strand(F, c, links, first) /\ Differ(F, c)
      /\ Values(F, c) \subseteq 1 .. limit
  BY Zenon DEF FreeList
<1>2. 1 \in 1 .. c + 1 /\ ~(1 > 1) /\ (1 = c + 1 <=> c = 0) /\ c + 1 \in Nat
  BY <1>1
<1>3. HasIn(With(F, 1, x), F, c, 1, x) /\ With(F, 1, x) \in [Nat -> Nodes]
  BY <1>1, <1>2, WithHas, Zenon
<1>4. HasAlso(With(F, 1, x), F, c, x)
  BY <1>1, <1>2, <1>3, WithValues, Zenon
<1>5. LinkedIn(F, c, 1, x, links, links1)
  <2>1. \A i \in 1 .. c : links1[F[i]] = links[F[i]]
    BY DEF Values
  <2>2. first = IF c = 0 THEN NULL ELSE F[1]
    BY <1>1, Zenon DEF Strand
  <2> QED BY <1>2, <2>1, <2>2, Zenon DEF LinkedIn
<1>6. Strand(With(F, 1, x), c + 1, links1, x)
  <2>1. x = IF 1 = 1 THEN x ELSE first
    OBVIOUS
  <2> QED BY <1>1, <1>2, <1>5, <2>1, StrandWith, Zenon
<1>7. Differ(With(F, 1, x), c + 1)
  <2>1. \A i \in 1 .. c : F[i] # x
    BY DEF Values
  <2> QED BY <1>1, <1>2, <2>1, WithDiffers, Zenon
<1>8. Values(With(F, 1, x), c + 1) \subseteq 1 .. limit
  BY <1>1, <1>4, Zenon DEF HasAlso
<1> QED BY <1>2, <1>3, <1>4, <1>6, <1>7, <1>8, Zenon DEF FreeList

\* _que_deque keeps the invariant: the node that leaves is in front of the free ones.
LEMMA DequeKeeps ==
  ASSUME QueueTypes, NEW L, NEW F, NEW c, NEW G, NEW g, Structure(L, F, c, G, g),
         NEW q \in InUse, que_deque_first(q)
  PROVE  /\ QueueTypes' /\ head[q] = L[q][1]
         /\ \E L1, F1, c1 : Structure(L1, F1, c1, G, g)' /\ Shrunk(L, L1, q)
<1>1. /\ QueuesListed(L) /\ QueuesApart(L) /\ NodesFree(L, F, c) /\ Counted(c) /\ QueuesFree(G, g)
  BY Zenon DEF Structure
<1>2. InUse \subseteq Queues /\ q \in Queues
  BY DEF InUse
<1>3. PICK n \in Nat : length[q] = n + 1
  <2>1. length[q] \in Nat /\ length[q] # 0
    BY <1>2 DEF que_deque_first, QueueTypes
  <2>2. length[q] - 1 \in Nat /\ length[q] = (length[q] - 1) + 1
    BY <2>1
  <2> QED BY <2>2
<1>4. PICK x : x = head[q]
  OBVIOUS
<1>5. PICK y : y = next[x]
  OBVIOUS
<1>6. PICK f : f = L[q]
  OBVIOUS
<1>7. /\ head' = [head EXCEPT ![q] = y]
      /\ length' = [length EXCEPT ![q] = @ - 1]
      /\ IF y # NULL THEN prev' = [prev EXCEPT ![y] = NULL] /\ UNCHANGED tail
                     ELSE tail' = [tail EXCEPT ![q] = NULL] /\ UNCHANGED prev
      /\ next' = [next EXCEPT ![x] = free_qnodes]
      /\ free_qnodes' = x
      /\ UNCHANGED <<key, data, order, node_slices, free_queues, queue_slices>>
  BY <1>4, <1>5 DEF que_deque_first
<1>8. /\ prev \in [Nodes -> Nodes \cup {NULL}] /\ next \in [Nodes -> Nodes \cup {NULL}]
      /\ head \in [Queues -> Nat] /\ tail \in [Queues -> Nat] /\ length \in [Queues -> Nat]
  BY DEF QueueTypes
<1>9. f \in Lists /\ Listed(f, n + 1, next, prev, x, tail[q]) /\ Values(f, n + 1) = In(L, q)
  BY <1>1, <1>2, <1>3, <1>4, <1>6 DEF QueuesListed, In
<1>10. /\ \A i \in 1 .. n + 1 : f[i] \in Nodes /\ f[i] # NULL /\ f[i] \in In(L, q)
       /\ \A i, j \in 1 .. n + 1 : f[i] = f[j] => i = j
  <2>1. \A i \in 1 .. n + 1 : f[i] \in Nodes /\ f[i] \in In(L, q)
    BY <1>9 DEF Lists, Values
  <2>2. \A i \in Nodes : i # NULL
    BY DEF Nodes, NULL
  <2>3. \A i, j \in 1 .. n + 1 : f[i] = f[j] => i = j
    BY <1>9, Zenon DEF Listed, Differ
  <2> QED BY <2>1, <2>2, <2>3, Zenon
<1>11. x = f[1] /\ y = (IF n = 0 THEN NULL ELSE f[2]) /\ 1 \in 1 .. n + 1
  <2>1. n + 1 # 0 /\ 1 \in 1 .. n + 1 /\ (1 = n + 1 <=> n = 0) /\ 1 + 1 = 2
    OBVIOUS
  <2>2. x = f[1]
    BY <1>9, <2>1, Zenon DEF Listed, Strand
  <2>3. next[f[1]] = IF 1 = n + 1 THEN NULL ELSE f[1 + 1]
    BY <1>9, <2>1, Zenon DEF Listed, Strand
  <2> QED BY <1>5, <2>1, <2>2, <2>3
<1>12. x \in Nodes /\ x \in In(L, q) /\ y \in Nodes \cup {NULL} /\ (y # NULL => n > 0 /\ y \in In(L, q))
  <2>1. n # 0 => 2 \in 1 .. n + 1 /\ n > 0
    OBVIOUS
  <2> QED BY <1>10, <1>11, <2>1, Zenon
<1>13. /\ \A i \in Nodes : i # x => next'[i] = next[i]
       /\ next'[x] = free_qnodes
       /\ \A i \in Nodes : i # y => prev'[i] = prev[i]
       /\ y # NULL => prev'[y] = NULL
  BY <1>7, <1>8, <1>12
<1>14. Leaves(f, n, next, prev, x, tail[q], next', prev', head'[q], tail'[q])
  <2>1. head'[q] = next[x] /\ tail'[q] = (IF n = 0 THEN NULL ELSE tail[q])
    <3>1. y = NULL <=> n = 0
      <4>1. n # 0 => 2 \in 1 .. n + 1
        OBVIOUS
      <4> QED BY <1>10, <1>11, <4>1, Zenon
    <3> QED BY <1>2, <1>5, <1>7, <1>8, <3>1
  <2>2. \A i \in 1 .. n : next'[f[i + 1]] = next[f[i + 1]]
    <3>1. \A i \in 1 .. n : i + 1 \in 1 .. n + 1 /\ i + 1 # 1
      OBVIOUS
    <3> QED BY <1>10, <1>11, <1>13, <3>1, Zenon
  <2>3. n > 0 => prev'[f[2]] = NULL
    <3>1. n > 0 => 2 \in 1 .. n + 1 /\ n # 0
      OBVIOUS
    <3> QED BY <1>10, <1>11, <1>13, <3>1, Zenon
  <2>4. \A i \in 2 .. n : prev'[f[i + 1]] = prev[f[i + 1]]
    <3>1. \A i \in 2 .. n : i + 1 \in 1 .. n + 1 /\ i + 1 # 2 /\ n # 0 /\ 2 \in 1 .. n + 1
      OBVIOUS
    <3> QED BY <1>10, <1>11, <1>13, <3>1, Zenon
  <2> QED BY <1>9, <2>1, <2>2, <2>3, <2>4, Zenon DEF Leaves
<1>15. PICK f1 : f1 = Less(f)
  OBVIOUS
<1>16. /\ Listed(f1, n, next', prev', head'[q], tail'[q]) /\ f1 \in Lists
       /\ Values(f1, n) = In(L, q) \ {x}
  BY <1>9, <1>14, <1>15, LeaveIs
<1>17. PICK L1 : L1 = [L EXCEPT ![q] = f1]
  OBVIOUS
<1>18. /\ L1 \in [Queues -> Lists] /\ L1[q] = f1 /\ \A r \in Queues : r # q => L1[r] = L[r]
  BY <1>1, <1>2, <1>16, <1>17 DEF QueuesListed
<1>19. length'[q] = n /\ \A r \in Queues : r # q => length'[r] = length[r]
  BY <1>2, <1>3, <1>7, <1>8
<1>20. InUse' = InUse /\ CarvedNodes' = CarvedNodes /\ CarvedQueues' = CarvedQueues
  BY <1>7 DEF InUse, CarvedNodes, CarvedQueues
<1>21. In(L1, q)' = In(L, q) \ {x} /\ \A r \in Queues : r # q => In(L1, r)' = In(L, r)
  BY <1>16, <1>18, <1>19 DEF In
<1>22. \A r, s \in InUse : r # s => \A z \in In(L, r) : z \notin In(L, s)
  BY <1>1 DEF QueuesApart
<1>23. \A r \in InUse : \A z \in In(L1, r)' : z \in In(L, r) /\ (r = q => z # x)
  <2> TAKE r \in InUse
  <2>1. CASE r = q
    BY <1>21, <2>1
  <2>2. CASE r # q
    BY <1>2, <1>21, <2>2
  <2> QED BY <2>1, <2>2
<1>24. /\ FreeList(Nodes, F, c, next, free_qnodes, CarvedNodes)
       /\ \A r \in InUse : \A z \in In(L, r) : z \notin Values(F, c) /\ z \in 1 .. CarvedNodes
       /\ \A r \in InUse : Listed(L[r], length[r], next, prev, head[r], tail[r])
       /\ L \in [Queues -> Lists]
  BY <1>1 DEF NodesFree, QueuesListed
<1>25. \A r \in InUse : Listed(L1[r], length'[r], next', prev', head'[r], tail'[r])
  <2> TAKE r \in InUse
  <2>1. CASE r = q
    BY <1>16, <1>18, <1>19, <2>1, Zenon
  <2>2. CASE r # q
    <3>1. \A z \in In(L, r) : z \in Nodes /\ z # x /\ z # y
      <4>1. \A z \in In(L, r) : z \in Nodes
        BY <1>2, <1>24 DEF In, Values, Lists
      <4>2. \A z \in Nodes : z # NULL
        BY DEF Nodes, NULL
      <4> QED BY <1>12, <1>22, <2>2, <4>1, <4>2, Zenon
    <3>2. \A z \in Values(L[r], length[r]) : next'[z] = next[z] /\ prev'[z] = prev[z]
      BY <1>13, <3>1, Zenon DEF In
    <3>3. Listed(L[r], length[r], next', prev', head[r], tail[r])
      BY <1>24, <3>2, StandsStill, Zenon
    <3>4. head'[r] = head[r] /\ tail'[r] = tail[r]
      BY <1>2, <1>7, <1>8, <2>2
    <3> QED BY <1>2, <1>18, <1>19, <2>2, <3>3, <3>4, Zenon
  <2> QED BY <2>1, <2>2
<1>26. QueuesListed(L1)'
  <2>1. \A r \in InUse : \A z \in In(L1, r)' : z \in 1 .. CarvedNodes
    BY <1>23, <1>24, Zenon
  <2> QED BY <1>18, <1>20, <1>25, <2>1 DEF QueuesListed
<1>27. QueuesApart(L1)'
  <2>1. \A r, s \in InUse : r # s => \A z \in In(L1, r)' : z \notin In(L1, s)'
    BY <1>22, <1>23, Zenon
  <2> QED BY <1>20, <2>1 DEF QueuesApart
<1>28. PICK F1 : F1 = With(F, 1, x)
  OBVIOUS
<1>29. NodesFree(L1, F1, c + 1)'
  <2>1. \A z \in Values(F, c) : z \in Nodes /\ z # x
    <3>1. \A z \in Values(F, c) : z \in Nodes
      BY <1>24 DEF FreeList, Values
    <3> QED BY <1>12, <1>24, <3>1, Zenon
  <2>2. /\ FreeList(Nodes, F1, c + 1, next', x, CarvedNodes) /\ HasAlso(F1, F, c, x)
    <3>1. Frees(F, c, next, next', free_qnodes, x, CarvedNodes)
      BY <1>12, <1>13, <1>24, <2>1, Zenon DEF Frees
    <3> QED BY <1>28, <3>1, FreedIs, Zenon
  <2>3. \A z \in Values(F1, c + 1) : z \in Values(F, c) \/ z = x
    BY <2>2 DEF HasAlso
  <2>4. \A r \in InUse : \A z \in In(L1, r)' : z \notin Values(F1, c + 1)
    <3>1. \A r \in InUse : \A z \in In(L1, r)' : z # x
      BY <1>12, <1>22, <1>23, Zenon
    <3> QED BY <1>23, <1>24, <2>3, <3>1, Zenon
  <2> QED BY <1>7, <1>20, <2>2, <2>4 DEF NodesFree
<1>30. Counted(c + 1)'
  <2>1. PICK sum : AddsUp(sum) /\ CarvedNodes = sum[Cardinality(Queues)] + c
    BY <1>1 DEF Counted
  <2>2. \A r \in Queues : Used(r)' = Used(r) + (IF r = q THEN -1 ELSE 0)
    <3>1. order' = order /\ order[q] # "none"
      BY <1>7 DEF InUse
    <3> QED BY <1>3, <1>8, <1>19, <3>1 DEF Used
  <2>3. PICK sum1 : AddsUp(sum1)' /\ sum1[Cardinality(Queues)] = sum[Cardinality(Queues)] + (-1)
    BY <1>2, <2>1, <2>2, CountMoves
  <2>4. CarvedNodes' = sum1[Cardinality(Queues)] + (c + 1)
    <3>1. c \in Nat
      BY <1>24, Zenon DEF FreeList
    <3>2. sum[Cardinality(Queues)] \in Int
      BY <2>1, QueuesAre DEF AddsUp
    <3> QED BY <1>20, <2>1, <2>3, <3>1, <3>2
  <2> QED BY <2>3, <2>4 DEF Counted
<1>31. QueuesFree(G, g)'
  <2>1. \A r \in Values(G, g) : order[r] = "none" /\ r \in Queues
    BY <1>1 DEF QueuesFree, FreeList, Values
  <2>2. \A r \in Values(G, g) : head'[r] = head[r]
    BY <1>7, <1>8, <2>1 DEF InUse
  <2>3. FreeList(Queues, G, g, head', free_queues, CarvedQueues)
    BY <1>1, <2>2, FreeStill, Zenon DEF QueuesFree
  <2>4. UNCHANGED <<order, free_queues>>
    BY <1>7
  <2> QED BY <1>1, <1>20, <2>3, <2>4 DEF QueuesFree
<1>32. QueueTypes'
  <2>1. next' \in [Nodes -> Nodes \cup {NULL}]
    <3>1. free_qnodes \in Nodes \cup {NULL}
      <4>1. F \in [Nat -> Nodes] /\ free_qnodes = IF c = 0 THEN NULL ELSE F[1]
        BY <1>24, Zenon DEF FreeList, Strand
      <4> QED BY <4>1
    <3> QED BY <1>7, <1>8, <3>1
  <2>2. prev' \in [Nodes -> Nodes \cup {NULL}]
    BY <1>7, <1>8
  <2>3. head' \in [Queues -> Nat] /\ tail' \in [Queues -> Nat]
    <3>1. y \in Nat
      BY <1>12 DEF Nodes, NULL
    <3> QED BY <1>7, <1>8, <3>1 DEF NULL
  <2>4. length' \in [Queues -> Nat]
    BY <1>2, <1>3, <1>7, <1>8
  <2>5. UNCHANGED <<key, data, order, node_slices, queue_slices>>
    BY <1>7
  <2> QED BY <2>1, <2>2, <2>3, <2>4, <2>5 DEF QueueTypes
<1>33. Structure(L1, F1, c + 1, G, g)'
  BY <1>26, <1>27, <1>29, <1>30, <1>31 DEF Structure
<1>34. head[q] = L[q][1] /\ Shrunk(L, L1, q)
  BY <1>4, <1>6, <1>11, <1>15, <1>17 DEF Shrunk
<1> QED BY <1>32, <1>33, <1>34

\* Queue q is now in use, with order o.
Opened(q, o) ==
  /\ q \in Queues /\ order[q] = "none" /\ answer' = q
  /\ order' = [order EXCEPT ![q] = o] /\ length' = [length EXCEPT ![q] = 0]
  /\ UNCHANGED nodeVars

\* _que_alloc keeps the invariant: the lists of the others are as they were.
LEMMA AllocKeeps ==
  ASSUME QueueTypes, NEW L, NEW F, NEW c, NEW G, NEW g, Structure(L, F, c, G, g),
         NEW o \in {"fifo", "ordered"}, que_alloc(o)
  PROVE  /\ QueueTypes'
         /\ \E G1, g1 : Structure(L, F, c, G1, g1)'
         /\ \E q : Opened(q, o)
<1> DEFINE N == QueuesPerSlice * QueueSlices
           fresh == free_queues = NULL
<1>1. /\ QueuesListed(L) /\ QueuesApart(L) /\ NodesFree(L, F, c) /\ Counted(c) /\ QueuesFree(G, g)
  BY Zenon DEF Structure
<1>2. PICK links1, new :
        /\ links1 = (IF fresh THEN Carved(head, queue_slices + 1, QueuesPerSlice) ELSE head)
        /\ new = (IF fresh THEN (queue_slices + 1) * QueuesPerSlice ELSE free_queues)
        /\ fresh => queue_slices < QueueSlices
        /\ queue_slices' = (IF fresh THEN queue_slices + 1 ELSE queue_slices)
        /\ free_queues' = links1[new]
        /\ head' = [links1 EXCEPT ![new] = NULL]
        /\ tail' = [tail EXCEPT ![new] = NULL]
        /\ length' = [length EXCEPT ![new] = 0]
        /\ order' = [order EXCEPT ![new] = o]
        /\ answer' = new
        /\ UNCHANGED nodeVars
  BY DEF que_alloc
<1>3. queue_slices \in Nat /\ queue_slices > 0 /\ queue_slices <= QueueSlices
  BY Sizes DEF QueueTypes
<1>4. queue_slices * QueuesPerSlice <= N /\ (fresh => (queue_slices + 1) * QueuesPerSlice <= N)
  <2>1. queue_slices * QueuesPerSlice <= N
    BY <1>3, Sizes, Times
  <2>2. CASE fresh
    <3>1. PICK m \in Nat : m = queue_slices + 1 /\ m <= QueueSlices
      BY <1>2, <1>3, <2>2, Sizes
    <3>2. m * QueuesPerSlice <= N
      BY <3>1, Sizes, Times
    <3> QED BY <2>1, <3>1, <3>2
  <2> QED BY <2>1, <2>2
<1>5. Queues = 1 .. N /\ N \in Nat /\ DOMAIN head = 1 .. N
  BY Sizes DEF Queues, QueueTypes
<1>6. FreeList(1 .. N, G, g, head, free_queues, queue_slices * QueuesPerSlice)
  BY <1>1, <1>5, Zenon DEF CarvedQueues, QueuesFree
<1> HIDE DEF N
<1>7. Allocates(N, queue_slices, QueuesPerSlice, head, free_queues, G, g, links1, new, queue_slices')
  BY <1>2, <1>3, <1>4, <1>5, <1>6, Sizes DEF Allocates
<1>8. PICK old \in Nat, now \in Nat : old = CarvedQueues /\ now = CarvedQueues'
  <2>1. queue_slices' \in Nat
    BY <1>2, <1>3
  <2>2. \A a, b \in Nat : a * b \in Nat
    OBVIOUS
  <2> QED BY <1>3, <2>1, <2>2, Sizes DEF CarvedQueues
<1>9. PICK G1, g1 : Allocated(N, old, now, head, G, g, links1, new, G1, g1)
  <2>1. \E G1, g1 : Allocated(N, queue_slices * QueuesPerSlice, queue_slices' * QueuesPerSlice,
                              head, G, g, links1, new, G1, g1)
    BY <1>7, AllocateIs, Zenon
  <2> QED BY <1>8, <2>1, Zenon DEF CarvedQueues
<1>10. /\ FreeList(Queues, G1, g1, links1, free_queues', now)
       /\ new \in Queues /\ new \in 1 .. now /\ new \notin Values(G1, g1) /\ old <= now
       /\ new \in Values(G, g) \/ new > old
       /\ \A x \in Values(G1, g1) : x \in Values(G, g) \/ x > old
       /\ \A x \in 1 .. now : x = new \/ x \in Values(G1, g1) \/ (x \in 1 .. old /\ x \notin Values(G, g))
       /\ \A x \in 1 .. old : x \notin Values(G, g)
                              => x # new /\ x \notin Values(G1, g1) /\ links1[x] = head[x]
  BY <1>2, <1>5, <1>9, Zenon DEF Allocated
<1>11. /\ \A r \in Values(G, g) : order[r] = "none"
       /\ \A r \in 1 .. old : order[r] = "none" => r \in Values(G, g)
       /\ \A r \in Queues : r > old => order[r] = "none"
  BY <1>1, <1>8, Zenon DEF QueuesFree
<1>12. order[new] = "none"
  BY <1>10, <1>11, Zenon
<1>13. /\ order \in [Queues -> {"none", "fifo", "ordered"}] /\ tail \in [Queues -> Nat]
       /\ length \in [Queues -> Nat] /\ head \in [Queues -> Nat]
  BY DEF QueueTypes
<1>14. links1 \in [Queues -> Nat]
  <2>1. CASE ~fresh
    BY <1>2, <1>13, <2>1
  <2>2. CASE fresh
    <3>1. PICK s : s = Slice(queue_slices + 1, QueuesPerSlice)
      OBVIOUS
    <3>2. links1 = [i \in Queues |-> IF i \notin s THEN head[i] ELSE IF i - 1 \in s THEN i - 1 ELSE NULL]
      BY <1>2, <1>13, <2>2, <3>1 DEF Carved
    <3>3. s \subseteq Nat
      <4>1. PICK m \in Nat : m = queue_slices + 1 /\ m > 0
        BY <1>3
      <4>2. \E lo \in Nat : s = lo + 1 .. lo + QueuesPerSlice
        BY <3>1, <4>1, Sizes, SliceIs
      <4> QED BY <4>2, Sizes
    <3>4. \A i \in Queues : (IF i \notin s THEN head[i] ELSE IF i - 1 \in s THEN i - 1 ELSE NULL) \in Nat
      BY <1>13, <3>3 DEF NULL
    <3> QED BY <3>2, <3>4
  <2> QED BY <2>1, <2>2
<1>15. /\ order'[new] = o /\ \A r \in Queues : r # new => order'[r] = order[r]
       /\ head'[new] = NULL /\ \A r \in Queues : r # new => head'[r] = links1[r]
       /\ tail'[new] = NULL /\ \A r \in Queues : r # new => tail'[r] = tail[r]
       /\ length'[new] = 0 /\ \A r \in Queues : r # new => length'[r] = length[r]
  BY <1>2, <1>10, <1>13, <1>14
<1>16. /\ \A r \in InUse' : r \in Queues /\ (r = new \/ (r # new /\ r \in InUse))
  BY <1>15 DEF InUse
<1>17. \A r \in InUse : links1[r] = head[r] /\ r # new /\ r \in Queues
  <2>1. \A r \in InUse : r \in Queues /\ order[r] # "none"
    BY DEF InUse
  <2>2. \A r \in Queues : r > old \/ r \in 1 .. old
    BY <1>5
  <2> QED BY <1>10, <1>11, <1>12, <2>1, <2>2, Zenon
<1>18. UNCHANGED <<prev, next, key, data, free_qnodes, node_slices>>
  BY <1>2 DEF nodeVars
<1>19. \A f : Values(f, 0) = {}
  <2>1. 1 .. 0 = {}
    OBVIOUS
  <2> QED BY <2>1 DEF Values
<1>20. In(L, new)' = {} /\ \A r \in InUse : In(L, r)' = In(L, r)
  BY <1>15, <1>17, <1>19 DEF In
<1>21. \A r \in InUse' : \A z \in In(L, r)' : r \in InUse /\ z \in In(L, r)
  BY <1>16, <1>20
<1>22. QueuesListed(L)'
  <2>1. L \in [Queues -> Lists]
    BY <1>1 DEF QueuesListed
  <2>2. ASSUME NEW r \in InUse'
        PROVE  Listed(L[r], length'[r], next', prev', head'[r], tail'[r])
    <3>1. CASE r = new
      <4>1. Listed(L[r], 0, next', prev', NULL, NULL)
        BY DEF Listed, Strand, Back, Differ
      <4> QED BY <1>15, <3>1, <4>1, Zenon
    <3>2. CASE r # new
      <4>1. r \in InUse /\ r \in Queues
        BY <1>16, <3>2
      <4>2. Listed(L[r], length[r], next, prev, head[r], tail[r])
        BY <1>1, <4>1, Zenon DEF QueuesListed
      <4>3. length'[r] = length[r] /\ head'[r] = head[r] /\ tail'[r] = tail[r]
        BY <1>15, <1>17, <3>2, <4>1, Zenon
      <4>4. next' = next /\ prev' = prev
        BY <1>18
      <4> QED BY <4>2, <4>3, <4>4, Zenon
    <3> QED BY <3>1, <3>2
  <2>3. \A r \in InUse' : \A z \in In(L, r)' : z \in 1 .. CarvedNodes
    BY <1>1, <1>21 DEF QueuesListed
  <2>4. CarvedNodes' = CarvedNodes
    BY <1>18 DEF CarvedNodes
  <2> QED BY <2>1, <2>2, <2>3, <2>4 DEF QueuesListed
<1>23. QueuesApart(L)'
  <2>1. \A r, s \in InUse : r # s => \A z \in In(L, r) : z \notin In(L, s)
    BY <1>1 DEF QueuesApart
  <2>2. \A r, s \in InUse' : r # s => \A z \in In(L, r)' : z \notin In(L, s)'
    BY <1>21, <2>1
  <2> QED BY <2>2 DEF QueuesApart
<1>24. NodesFree(L, F, c)'
  <2>1. \A r \in InUse' : \A z \in In(L, r)' : z \notin Values(F, c)
    BY <1>1, <1>21 DEF NodesFree
  <2>2. FreeList(Nodes, F, c, next', free_qnodes', CarvedNodes')
    BY <1>1, <1>18 DEF NodesFree, CarvedNodes
  <2> QED BY <2>1, <2>2 DEF NodesFree
<1>25. Counted(c)'
  <2>1. PICK sum : AddsUp(sum) /\ CarvedNodes = sum[Cardinality(Queues)] + c
    BY <1>1 DEF Counted
  <2>2. \A r \in Queues : Used(r)' = Used(r)
    <3> TAKE r \in Queues
    <3>1. CASE r = new
      BY <1>12, <1>15, <3>1 DEF Used
    <3>2. CASE r # new
      BY <1>15, <3>2 DEF Used
    <3> QED BY <3>1, <3>2
  <2>3. AddsUp(sum)'
    <3>1. \A i \in 1 .. Cardinality(Queues) : Used(i)' = Used(i)
      BY <2>2, QueuesAre
    <3>2. /\ sum \in [0 .. Cardinality(Queues) -> Int] /\ sum[0] = 0
          /\ \A i \in 1 .. Cardinality(Queues) : sum[i] = sum[i - 1] + Used(i)
      BY <2>1, Zenon DEF AddsUp
    <3>3. \A i \in 1 .. Cardinality(Queues) : sum[i] = sum[i - 1] + Used(i)'
      BY <3>1, <3>2
    <3> QED BY <3>2, <3>3 DEF AddsUp
  <2>4. CarvedNodes' = CarvedNodes
    BY <1>18 DEF CarvedNodes
  <2> QED BY <2>1, <2>3, <2>4 DEF Counted
<1>26. QueuesFree(G1, g1)'
  <2>1. \A r \in Values(G1, g1) : order'[r] = "none" /\ head'[r] = links1[r]
    <3>1. \A r \in Values(G1, g1) : r \in Queues /\ r # new
      BY <1>10 DEF FreeList, Values
    <3> QED BY <1>10, <1>11, <1>15, <3>1, Zenon
  <2>2. FreeList(Queues, G1, g1, head', free_queues', now)
    BY <1>10, <2>1, FreeStill, Zenon
  <2>3. \A r \in Queues : r > now => order'[r] = "none"
    <3>1. \A r \in Queues : r > now => r > old /\ r # new
      BY <1>5, <1>10
    <3> QED BY <1>11, <1>15, <3>1, Zenon
  <2>4. \A r \in 1 .. now : order'[r] = "none" => r \in Values(G1, g1)
    <3>1. \A r \in 1 .. now : r \in Queues
      <4>1. now <= N
        <5>1. now = queue_slices' * QueuesPerSlice
          BY <1>8 DEF CarvedQueues
        <5> QED BY <1>2, <1>4, <5>1, Zenon
      <4> QED BY <1>5, <4>1
    <3>2. o # "none"
      OBVIOUS
    <3> QED BY <1>10, <1>11, <1>15, <3>1, <3>2, Zenon
  <2> QED BY <1>8, <2>1, <2>2, <2>3, <2>4 DEF QueuesFree
<1>27. QueueTypes'
  <2>1. queue_slices' \in 1 .. QueueSlices
    BY <1>2, <1>3, Sizes
  <2>2. order' \in [Queues -> {"none", "fifo", "ordered"}] /\ tail' \in [Queues -> Nat]
        /\ length' \in [Queues -> Nat] /\ head' \in [Queues -> Nat]
    BY <1>2, <1>13, <1>14 DEF NULL
  <2> QED BY <1>18, <2>1, <2>2 DEF QueueTypes
<1>28. Opened(new, o)
  BY <1>2, <1>10, <1>12 DEF Opened
<1> QED BY <1>22, <1>23, <1>24, <1>25, <1>26, <1>27, <1>28 DEF Structure

\* A call that changes no link.
LEMMA StillKeeps ==
  ASSUME QueueTypes, NEW L, NEW F, NEW c, NEW G, NEW g, Structure(L, F, c, G, g),
         UNCHANGED <<nodeVars, queueVars, free_queues, queue_slices>>
  PROVE  QueueTypes' /\ Structure(L, F, c, G, g)'
<1>1. UNCHANGED <<prev, next, key, data, free_qnodes, node_slices, head, tail, length, order,
                  free_queues, queue_slices>>
  BY DEF nodeVars, queueVars
<1>2. QueueTypes'
  BY <1>1 DEF QueueTypes
<1>3. /\ InUse' = InUse /\ CarvedNodes' = CarvedNodes /\ CarvedQueues' = CarvedQueues
      /\ \A r : In(L, r)' = In(L, r) /\ Used(r)' = Used(r)
  BY <1>1 DEF InUse, CarvedNodes, CarvedQueues, In, Used
<1>4. QueuesListed(L)' /\ QueuesApart(L)' /\ NodesFree(L, F, c)' /\ QueuesFree(G, g)'
  BY <1>1, <1>3 DEF Structure, QueuesListed, QueuesApart, NodesFree, QueuesFree
<1>5. Counted(c)'
  <2>1. PICK sum : AddsUp(sum) /\ CarvedNodes = sum[Cardinality(Queues)] + c
    BY DEF Structure, Counted
  <2>2. AddsUp(sum)'
    BY <1>3, <2>1 DEF AddsUp
  <2> QED BY <1>3, <2>1, <2>2 DEF Counted
<1> QED BY <1>2, <1>4, <1>5 DEF Structure

\* Every step keeps the invariant.
LEMMA QueueKeeps ==
  ASSUME QInv, [QueNext]_queuesVars
  PROVE  QInv'
<1>1. QueueTypes
  BY DEF QInv
<1>2. PICK L, F, c, G, g : Structure(L, F, c, G, g)
  BY DEF QInv
<1>3. CASE UNCHANGED <<nodeVars, queueVars, free_queues, queue_slices>>
  <2>1. QueueTypes' /\ Structure(L, F, c, G, g)'
    BY <1>1, <1>2, <1>3, StillKeeps
  <2> QED BY <2>1 DEF QInv
<1>4. CASE UNCHANGED queuesVars
  BY <1>3, <1>4 DEF queuesVars
<1>5. ASSUME NEW o \in {"fifo", "ordered"}, que_alloc(o) PROVE QInv'
  BY <1>1, <1>2, <1>5, AllocKeeps DEF QInv
<1>6. ASSUME NEW q \in InUse, NEW d \in Data, NEW k \in Keys, que_enque(q, d, k) PROVE QInv'
  BY <1>1, <1>2, <1>6, EnqueKeeps DEF QInv
<1>7. ASSUME NEW q \in InUse, que_deque_first(q) PROVE QInv'
  BY <1>1, <1>2, <1>7, DequeKeeps DEF QInv
<1>8. ASSUME NEW q \in InUse, que_deque_none(q) \/ que_peek(q) \/ que_length(q) PROVE QInv'
  BY <1>3, <1>8 DEF que_deque_none, que_peek, que_length
<1> QED BY <1>4, <1>5, <1>6, <1>7, <1>8 DEF QueNext

-----------------------------------------------------------------------------
(***************************************************************************)
(* The links agree                                                         *)
(***************************************************************************)

\* FreeCount is the number of free nodes ...
LEMMA FreeCountIs ==
  ASSUME QueueTypes, NEW c \in Nat, Counted(c)
  PROVE  FreeCount = c
<1>1. PICK C \in Nat : C = Cardinality(Queues) /\ Queues = 1 .. C
  BY QueuesAre
<1>2. PICK sum : AddsUp(sum) /\ CarvedNodes = sum[C] + c
  BY <1>1 DEF Counted
<1>3. sum \in [0 .. C -> Int] /\ sum[0] = 0 /\ \A i \in 1 .. C : sum[i] = sum[i - 1] + Used(i)
  BY <1>1, <1>2 DEF AddsUp
<1> DEFINE Eq(h) == h = [i \in 0 .. C |-> IF i = 0 THEN 0 ELSE h[i - 1] + Used(i)]
<1>4. Eq(sum)
  <2>1. \A i \in 0 .. C : sum[i] = IF i = 0 THEN 0 ELSE sum[i - 1] + Used(i)
    BY <1>3
  <2>2. sum = [i \in 0 .. C |-> sum[i]]
    BY <1>3
  <2> QED BY <2>1, <2>2
<1>5. ASSUME NEW h, Eq(h) PROVE h[C] = sum[C]
  <2>1. \A i \in 0 .. C : h[i] = IF i = 0 THEN 0 ELSE h[i - 1] + Used(i)
    BY <1>5
  <2>2. \A i \in 0 .. C : sum[i] = IF i = 0 THEN 0 ELSE sum[i - 1] + Used(i)
    BY <1>3
  <2> DEFINE S == {m \in Nat : m \in 0 .. C => h[m] = sum[m]}
  <2>3. \A m \in S : m + 1 \in S
    <3> SUFFICES ASSUME NEW m \in S, m + 1 \in 0 .. C PROVE h[m + 1] = sum[m + 1]
      OBVIOUS
    <3>1. m \in 0 .. C /\ m + 1 # 0 /\ (m + 1) - 1 = m
      OBVIOUS
    <3>2. h[m] = sum[m]
      BY <3>1
    <3> HIDE DEF S
    <3>3. /\ h[m + 1] = h[(m + 1) - 1] + Used(m + 1)
          /\ sum[m + 1] = sum[(m + 1) - 1] + Used(m + 1)
      BY <2>1, <2>2, <3>1, Zenon
    <3> QED BY <3>1, <3>2, <3>3, Zenon
  <2>4. S \in SUBSET Nat /\ 0 \in S
    <3>1. 0 \in 0 .. C /\ 0 \in Nat
      OBVIOUS
    <3>2. h[0] = sum[0]
      BY <2>1, <2>2, <3>1, Zenon
    <3> QED BY <3>1, <3>2
  <2>5. S = Nat
    <3> HIDE DEF S
    <3> QED BY <2>3, <2>4, Climb
  <2>6. C \in S /\ C \in 0 .. C
    BY <2>5
  <2> QED BY <2>6
<1>6. FreeCount = node_slices * NodesPerSlice - (CHOOSE h : Eq(h))[C]
  BY <1>1 DEF FreeCount, Used
<1>7. (CHOOSE h : Eq(h))[C] = sum[C]
  <2> DEFINE h0 == CHOOSE h : Eq(h)
  <2> HIDE DEF Eq, h0
  <2>1. Eq(h0)
    BY <1>4, Zenon DEF h0
  <2>2. h0[C] = sum[C]
    BY <1>5, <2>1, Zenon
  <2> QED BY <2>2 DEF h0
<1> HIDE DEF Eq
<1>8. PICK s : s = sum[C]
  OBVIOUS
<1>9. s \in Int /\ CarvedNodes = s + c
  BY <1>2, <1>3, <1>8
<1>10. FreeCount = CarvedNodes - s
  BY <1>6, <1>7, <1>8 DEF CarvedNodes
<1> QED BY <1>9, <1>10

\* ... and Chain the list.
LEMMA ChainIs ==
  ASSUME QueueTypes, NEW L, QueuesListed(L), NEW q \in InUse
  PROVE  /\ Chain(q) = [i \in 1 .. length[q] |-> L[q][i]]
         /\ length[q] \in Nat /\ Nodes_of(Chain(q)) = In(L, q)
<1>1. PICK n : n = length[q] /\ n \in Nat
  BY DEF InUse, QueueTypes
<1>2. Strand(L[q], n, next, head[q])
  BY <1>1, Zenon DEF QueuesListed, Listed
<1>3. Chain(q) = [i \in 1 .. n |-> L[q][i]]
  BY <1>1, <1>2, FollowingIs DEF Chain
<1>4. Nodes_of(Chain(q)) = In(L, q)
  BY <1>1, <1>3 DEF Nodes_of, In, Values
<1> QED BY <1>1, <1>3, <1>4

\* A free list has all its members on the way to NULL.
LEMMA FreeListEnds ==
  ASSUME NEW m \in Nat, NEW f, NEW n, NEW links, NEW first, NEW limit,
         FreeList(1 .. m, f, n, links, first, limit), DOMAIN links = 1 .. m
  PROVE  /\ EndsAfter(links, first, n)
         /\ Nodes_of(Following(links, first, n)) = Values(f, n)
<1>1. /\ f \in [Nat -> 1 .. m] /\ n \in Nat /\ Strand(f, n, links, first) /\ Differ(f, n)
  BY Zenon DEF FreeList
<1>2. PICK free : free = Following(links, first, n)
  OBVIOUS
<1>3. free = [i \in 1 .. n |-> f[i]]
  BY <1>1, <1>2, FollowingIs
<1>4. Nodes_of(free) = Values(f, n)
  BY <1>3 DEF Nodes_of, Values
<1>5. (IF n = 0 THEN first ELSE links[free[n]]) = NULL
  <2>1. CASE n = 0
    BY <1>1, <2>1 DEF Strand
  <2>2. CASE n # 0
    <3>1. n \in 1 .. n
      BY <1>1, <2>2
    <3>2. links[f[n]] = NULL
      BY <1>1, <3>1, Zenon DEF Strand
    <3> QED BY <1>3, <2>2, <3>1, <3>2
  <2> QED BY <2>1, <2>2
<1>6. Cardinality(Nodes_of(free)) = n /\ Nodes_of(free) \subseteq DOMAIN links
  <2>1. IsFiniteSet(1 .. m)
    BY FS_Interval
  <2>2. Cardinality(Values(f, n)) = n
    BY <1>1, <2>1, Fits, Zenon
  <2>3. Values(f, n) \subseteq 1 .. m
    BY <1>1 DEF Values
  <2> QED BY <1>4, <2>2, <2>3
<1> QED BY <1>2, <1>4, <1>5, <1>6, Zenon DEF EndsAfter

LEMMA InvAgree ==
  ASSUME QInv
  PROVE  LinksAgree
<1>1. QueueTypes
  BY DEF QInv
<1>2. PICK L, F, c, G, g : Structure(L, F, c, G, g)
  BY DEF QInv
<1>3. /\ QueuesListed(L) /\ QueuesApart(L) /\ NodesFree(L, F, c) /\ Counted(c) /\ QueuesFree(G, g)
  BY <1>2, Zenon DEF Structure
<1>4. /\ FreeList(Nodes, F, c, next, free_qnodes, CarvedNodes) /\ c \in Nat
      /\ \A q \in InUse : In(L, q) \cap Values(F, c) = {}
  BY <1>3, Zenon DEF NodesFree, FreeList
<1>5. FreeCount = c
  BY <1>1, <1>3, <1>4, FreeCountIs
<1>6. PICK free : free = Following(next, free_qnodes, c)
  OBVIOUS
<1>7. EndsAfter(next, free_qnodes, c) /\ Nodes_of(free) = Values(F, c)
  <2>1. PICK m \in Nat : Nodes = 1 .. m
    BY Sizes DEF Nodes
  <2>2. DOMAIN next = 1 .. m /\ FreeList(1 .. m, F, c, next, free_qnodes, CarvedNodes)
    BY <1>1, <1>4, <2>1 DEF QueueTypes
  <2> QED BY <1>6, <2>2, FreeListEnds
<1>8. PICK spare : spare = Following(head, free_queues, g)
  OBVIOUS
<1>9. EndsAfter(head, free_queues, g) /\ Nodes_of(spare) = Values(G, g)
  <2>1. PICK m \in Nat : Queues = 1 .. m
    BY QueuesAre
  <2>2. DOMAIN head = 1 .. m /\ FreeList(1 .. m, G, g, head, free_queues, CarvedQueues)
    BY <1>1, <1>3, <2>1 DEF QueueTypes, QueuesFree
  <2> QED BY <1>8, <2>2, FreeListEnds
<1>10. /\ Values(G, g) = Spare /\ g = Cardinality(Spare)
       /\ InUse \subseteq 1 .. queue_slices * QueuesPerSlice
  <2>1. PICK carved \in Nat : carved = queue_slices * QueuesPerSlice
    <3>1. queue_slices \in Nat
      BY <1>1 DEF QueueTypes
    <3> QED BY <3>1, Sizes
  <2>2. /\ Values(G, g) \subseteq 1 .. carved
        /\ \A q \in Values(G, g) : order[q] = "none"
        /\ \A q \in 1 .. carved : order[q] = "none" => q \in Values(G, g)
        /\ \A q \in Queues : q > carved => order[q] = "none"
    BY <1>3, <2>1, Zenon DEF QueuesFree, FreeList, CarvedQueues
  <2>3. Values(G, g) = Spare
    BY <2>1, <2>2 DEF Spare
  <2>4. \A q \in InUse : q \in 1 .. carved
    BY <2>2, QueuesAre DEF InUse
  <2>5. Cardinality(Values(G, g)) = g
    BY <1>8, <1>9 DEF EndsAfter
  <2> QED BY <2>1, <2>3, <2>4, <2>5
<1>11. ASSUME NEW q \in InUse, NEW ch, ch = Chain(q)
       PROVE  /\ Nodes_of(ch) \subseteq Nodes \ Nodes_of(free)
              /\ length[q] = 0 => head[q] = NULL /\ tail[q] = NULL
              /\ length[q] > 0 => tail[q] = ch[length[q]] /\ next[tail[q]] = NULL
              /\ \A i \in 1 .. length[q] : prev[ch[i]] = (IF i = 1 THEN NULL ELSE ch[i - 1])
              /\ \A r \in InUse \ {q} : Nodes_of(ch) \cap Nodes_of(Chain(r)) = {}
  <2>1. PICK n \in Nat : n = length[q]
    BY <1>1, <1>3, ChainIs
  <2>2. PICK f : f = L[q]
    OBVIOUS
  <2>3. ch = [i \in 1 .. n |-> f[i]] /\ Nodes_of(ch) = In(L, q)
    BY <1>1, <1>3, <1>11, <2>1, <2>2, ChainIs
  <2>4. f \in Lists /\ Strand(f, n, next, head[q]) /\ Back(f, n, prev, tail[q])
    <3>1. q \in Queues
      BY DEF InUse
    <3>2. Listed(f, n, next, prev, head[q], tail[q])
      BY <1>3, <2>1, <2>2, Zenon DEF QueuesListed
    <3>3. f \in Lists
      BY <1>3, <2>2, <3>1 DEF QueuesListed
    <3> QED BY <3>2, <3>3, Zenon DEF Listed
  <2>5. Nodes_of(ch) \subseteq Nodes \ Nodes_of(free)
    <3>1. In(L, q) \subseteq Nodes
      BY <2>1, <2>2, <2>4 DEF In, Values, Lists
    <3> QED BY <1>4, <1>7, <2>3, <3>1
  <2>6. n = 0 => head[q] = NULL /\ tail[q] = NULL
    BY <2>4 DEF Strand, Back
  <2>7. n > 0 => tail[q] = ch[n] /\ next[tail[q]] = NULL
    <3> HAVE n > 0
    <3>1. n \in 1 .. n /\ n # 0
      OBVIOUS
    <3>2. tail[q] = f[n] /\ next[f[n]] = NULL
      BY <2>4, <3>1, Zenon DEF Strand, Back
    <3> QED BY <2>3, <3>1, <3>2
  <2>8. \A i \in 1 .. n : prev[ch[i]] = (IF i = 1 THEN NULL ELSE ch[i - 1])
    <3> TAKE i \in 1 .. n
    <3>1. prev[f[i]] = IF i = 1 THEN NULL ELSE f[i - 1]
      BY <2>4, Zenon DEF Back
    <3>2. ch[i] = f[i] /\ (i # 1 => ch[i - 1] = f[i - 1])
      BY <2>3
    <3> QED BY <3>1, <3>2
  <2>9. \A r \in InUse \ {q} : Nodes_of(ch) \cap Nodes_of(Chain(r)) = {}
    <3> TAKE r \in InUse \ {q}
    <3>1. Nodes_of(Chain(r)) = In(L, r)
      BY <1>1, <1>3, ChainIs
    <3>2. In(L, q) \cap In(L, r) = {}
      BY <1>3 DEF QueuesApart
    <3> QED BY <2>3, <3>1, <3>2
  <2> QED BY <2>1, <2>5, <2>6, <2>7, <2>8, <2>9
<1>12. c >= 0
  BY <1>4
<1>13. \A q \in InUse : LET ch == Chain(q) IN
              /\ Nodes_of(ch) \subseteq Nodes \ Nodes_of(free)
              /\ length[q] = 0 => head[q] = NULL /\ tail[q] = NULL
              /\ length[q] > 0 => tail[q] = ch[length[q]] /\ next[tail[q]] = NULL
              /\ \A i \in 1 .. length[q] : prev[ch[i]] = (IF i = 1 THEN NULL ELSE ch[i - 1])
              /\ \A r \in InUse \ {q} : Nodes_of(ch) \cap Nodes_of(Chain(r)) = {}
  BY <1>11
<1> QED BY <1>5, <1>6, <1>7, <1>8, <1>9, <1>10, <1>12, <1>13, Zenon DEF LinksAgree

\* After any calls, in any order, there are lists along which the links of queues.c run.
THEOREM QueueInvariant == QueSpec => []QInv
<1> QED BY QueuesStart, QueueKeeps, PTL DEF QueSpec

\* The links of each queue agree in both directions and with head, tail and length,
\* each carved node is in one list, once, and the list of free queues has just the
\* carved queues that nobody uses: no call loses or shares a node or a queue
\* (queues.c, _que_alloc, _que_enque, _que_deque, _qn_alloc, _qn_free).
THEOREM LinksAlwaysAgree == QueSpec => []LinksAgree
<1> QED BY QueueInvariant, InvAgree, PTL

-----------------------------------------------------------------------------
(***************************************************************************)
(* The lists are sequences                                                 *)
(***************************************************************************)

Entries == [key : Keys, data : Data \cup {NULL}]
\* The entry in node x, if ky and dt are the fields of the nodes; those of a list.
Entry(x, ky, dt) == [key |-> ky[x], data |-> dt[x]]
Listing(f, n, ky, dt) == [i \in 1 .. n |-> Entry(f[i], ky, dt)]

\* The mapping to SeqQueues (Queue!Seqs), by name.
Content == [q \in Queues |->
                IF order[q] = "none" THEN <<>>
                ELSE [i \in 1 .. length[q] |->
                        [key |-> key[Chain(q)[i]], data |-> data[Chain(q)[i]]]]]

LEMMA SameSequence ==
  \A W : \A s, t \in Seq(W), n \in Nat :
    Len(s) = n /\ Len(t) = n /\ (\A i \in 1 .. n : s[i] = t[i]) => s = t
OBVIOUS

LEMMA ListingIs ==
  \A f \in Lists, n \in Nat : \A ky, dt :
    ky \in [Nodes -> Keys] /\ dt \in [Nodes -> Data \cup {NULL}]
    => /\ Listing(f, n, ky, dt) \in Seq(Entries) /\ Len(Listing(f, n, ky, dt)) = n
       /\ \A i \in 1 .. n : Listing(f, n, ky, dt)[i] = Entry(f[i], ky, dt)
<1> SUFFICES ASSUME NEW f \in Lists, NEW n \in Nat, NEW ky \in [Nodes -> Keys],
                    NEW dt \in [Nodes -> Data \cup {NULL}]
             PROVE  /\ Listing(f, n, ky, dt) \in Seq(Entries) /\ Len(Listing(f, n, ky, dt)) = n
                    /\ \A i \in 1 .. n : Listing(f, n, ky, dt)[i] = Entry(f[i], ky, dt)
  OBVIOUS
<1>1. \A i \in 1 .. n : Entry(f[i], ky, dt) \in Entries
  BY DEF Entry, Entries, Lists
<1> QED BY <1>1 DEF Listing

LEMMA NoListing == \A f, ky, dt : Listing(f, 0, ky, dt) = <<>>
<1> TAKE f, ky, dt
<1>1. 1 .. 0 = {}
  OBVIOUS
<1> QED BY <1>1 DEF Listing

\* The entries of a queue are those of its list.
ContentShows(L) ==
  /\ Content \in [Queues -> Seq(Entries)]
  /\ \A q \in InUse : /\ Content[q] = Listing(L[q], length[q], key, data)
                      /\ L[q] \in Lists /\ length[q] \in Nat
  /\ \A q \in Queues : q \notin InUse => Content[q] = <<>>

LEMMA ContentIs == \A L : QueueTypes /\ QueuesListed(L) => ContentShows(L)
<1> SUFFICES ASSUME QueueTypes, NEW L, QueuesListed(L) PROVE ContentShows(L)
  OBVIOUS
<1>1. \A q \in Queues : q \notin InUse => Content[q] = <<>>
  BY DEF Content, InUse
<1>2. ASSUME NEW q \in InUse
      PROVE  Content[q] = Listing(L[q], length[q], key, data) /\ L[q] \in Lists /\ length[q] \in Nat
  <2>1. PICK n \in Nat : n = length[q]
    BY ChainIs
  <2>2. Chain(q) = [i \in 1 .. n |-> L[q][i]]
    BY <2>1, ChainIs
  <2>3. q \in Queues /\ order[q] # "none"
    BY DEF InUse
  <2>4. L[q] \in Lists
    BY <2>3 DEF QueuesListed
  <2>5. PICK ch : ch = Chain(q)
    OBVIOUS
  <2>6. Content[q] = [i \in 1 .. n |-> [key |-> key[ch[i]], data |-> data[ch[i]]]]
    BY <2>1, <2>3, <2>5 DEF Content
  <2>7. Content[q] = Listing(L[q], n, key, data)
    BY <2>2, <2>5, <2>6 DEF Listing, Entry
  <2> QED BY <2>1, <2>4, <2>7
<1>3. \A q \in Queues : Content[q] \in Seq(Entries)
  <2> TAKE q \in Queues
  <2>1. CASE q \in InUse
    <3>1. PICK f \in Lists, n \in Nat : Content[q] = Listing(f, n, key, data)
      BY <1>2, <2>1
    <3>2. Listing(f, n, key, data) \in Seq(Entries)
      BY ListingIs DEF QueueTypes
    <3> QED BY <3>1, <3>2
  <2>2. CASE q \notin InUse
    <3>1. <<>> \in Seq(Entries)
      OBVIOUS
    <3> QED BY <1>1, <2>2, <3>1, Zenon
  <2> QED BY <2>1, <2>2
<1>4. Content = [q \in Queues |-> Content[q]]
  BY DEF Content
<1> QED BY <1>1, <1>2, <1>3, <1>4 DEF ContentShows

LEMMA ContentIsNext == (\A L : QueueTypes /\ QueuesListed(L) => ContentShows(L))'
BY ContentIs, PTL

\* One queue's entries change, and the others' do not.
LEMMA ContentMoves ==
  \A C, C1, q : /\ C \in [Queues -> Seq(Entries)] /\ C1 \in [Queues -> Seq(Entries)] /\ q \in Queues
                /\ \A r \in Queues : r # q => C1[r] = C[r]
                => C1 = [C EXCEPT ![q] = C1[q]]
<1> SUFFICES ASSUME NEW C \in [Queues -> Seq(Entries)], NEW C1 \in [Queues -> Seq(Entries)],
                    NEW q \in Queues, \A r \in Queues : r # q => C1[r] = C[r]
             PROVE  C1 = [C EXCEPT ![q] = C1[q]]
  OBVIOUS
<1>1. C1 = [r \in Queues |-> C1[r]]
  OBVIOUS
<1>2. [C EXCEPT ![q] = C1[q]] = [r \in Queues |-> IF r = q THEN C1[q] ELSE C[r]]
  OBVIOUS
<1> QED BY <1>1, <1>2

\* There is one place for an entry.
LEMMA PlaceUnique ==
  ASSUME NEW s \in Seq(Entries), NEW e \in Entries, NEW n \in Nat, Len(s) = n, NEW p \in 1 .. n + 1,
         \A j \in 1 .. n : j < p => s[j].key <= e.key,
         p <= n => s[p].key > e.key
  PROVE  Seqs!Place(s, e) = p
<1> DEFINE P(i) == /\ \A j \in 1 .. i - 1 : s[j].key <= e.key
                   /\ i <= n => s[i].key > e.key
<1>1. P(p)
  BY Sizes
<1>2. ASSUME NEW i \in 1 .. n + 1, P(i) PROVE i = p
  <2>1. \A j \in 1 .. n : s[j].key \in Nat /\ e.key \in Nat
    <3>1. \A x \in Entries : x.key \in Nat
      BY Sizes DEF Entries
    <3>2. \A j \in 1 .. n : s[j] \in Entries
      OBVIOUS
    <3> QED BY <3>1, <3>2
  <2>2. CASE i < p
    <3>1. i \in 1 .. n /\ i <= n
      BY <2>2
    <3>2. s[i].key <= e.key /\ s[i].key > e.key
      BY <1>2, <2>2, <3>1
    <3> QED BY <2>1, <3>1, <3>2
  <2>3. CASE p < i
    <3>1. p \in 1 .. n /\ p <= n /\ p \in 1 .. i - 1
      BY <2>3
    <3>2. s[p].key <= e.key /\ s[p].key > e.key
      BY <1>2, <3>1
    <3> QED BY <2>1, <3>1, <3>2
  <2> QED BY <2>2, <2>3
<1>3. Seqs!Place(s, e) = CHOOSE i \in 1 .. n + 1 : P(i)
  BY DEF Seqs!Place
<1> HIDE DEF P
<1> QED BY <1>1, <1>2, <1>3

\* What the steps of the lists are to the sequences.
LEMMA AllocSteps ==
  ASSUME QueueTypes, NEW L, NEW F, NEW c, NEW G, NEW g, Structure(L, F, c, G, g),
         NEW o \in {"fifo", "ordered"}, que_alloc(o)
  PROVE  Seqs!Alloc
<1>1. /\ QueueTypes'
      /\ \E G1, g1 : Structure(L, F, c, G1, g1)'
      /\ \E q : Opened(q, o)
  BY AllocKeeps
<1>2. QueuesListed(L) /\ QueuesListed(L)'
  BY <1>1 DEF Structure
<1>3. PICK q : Opened(q, o)
  BY <1>1
<1>4. /\ q \in Queues /\ order[q] = "none" /\ answer' = q
      /\ order' = [order EXCEPT ![q] = o] /\ length' = [length EXCEPT ![q] = 0]
      /\ UNCHANGED <<key, data>>
  BY <1>3 DEF Opened, nodeVars
<1>5. /\ order \in [Queues -> {"none", "fifo", "ordered"}] /\ length \in [Queues -> Nat]
  BY DEF QueueTypes
<1>6. ContentShows(L) /\ ContentShows(L)'
  BY <1>1, <1>2, ContentIs, ContentIsNext
<1>7. /\ Content \in [Queues -> Seq(Entries)]
      /\ \A r \in InUse : Content[r] = Listing(L[r], length[r], key, data)
      /\ \A r \in Queues : r \notin InUse => Content[r] = <<>>
  BY <1>6 DEF ContentShows
<1>8. /\ Content' \in [Queues -> Seq(Entries)]
      /\ \A r \in InUse' : Content'[r] = Listing(L[r], length'[r], key', data')
      /\ \A r \in Queues : r \notin InUse' => Content'[r] = <<>>
  BY <1>6 DEF ContentShows
<1>9. q \in InUse' /\ \A r \in Queues : r # q => (r \in InUse' <=> r \in InUse) /\ length'[r] = length[r]
  BY <1>4, <1>5 DEF InUse
<1>10. key' = key /\ data' = data
  BY <1>4
<1>11. Content'[q] = <<>>
  <2>1. length'[q] = 0
    BY <1>4, <1>5
  <2>2. Content'[q] = Listing(L[q], length'[q], key', data')
    BY <1>8, <1>9
  <2> QED BY <1>10, <2>1, <2>2, NoListing
<1>12. \A r \in Queues : r # q => Content'[r] = Content[r]
  BY <1>7, <1>8, <1>9, <1>10
<1>13. Content' = [Content EXCEPT ![q] = <<>>]
  BY <1>4, <1>7, <1>8, <1>11, <1>12, ContentMoves
<1>14. q \in Queues \ Seqs!InUse
  BY <1>4 DEF Seqs!InUse
<1> QED BY <1>4, <1>13, <1>14 DEF Seqs!Alloc, Content

LEMMA SameListing ==
  ASSUME NEW f, NEW n \in Nat, NEW ky, NEW dt, NEW ky1, NEW dt1,
         \A i \in 1 .. n : ky1[f[i]] = ky[f[i]] /\ dt1[f[i]] = dt[f[i]]
  PROVE  Listing(f, n, ky1, dt1) = Listing(f, n, ky, dt)
<1>1. \A i \in 1 .. n : Entry(f[i], ky1, dt1) = Entry(f[i], ky, dt)
  BY DEF Entry
<1> QED BY <1>1 DEF Listing

\* A new entry at place p of s makes t: what Append and Ordered do.
LEMMA AppendedIs ==
  ASSUME NEW s \in Seq(Entries), NEW t, NEW e \in Entries, NEW n \in Nat, Len(s) = n,
         Inserted(Entries, t, s, n, n + 1, e)
  PROVE  t = Append(s, e)
<1>1. t \in Seq(Entries) /\ Len(t) = n + 1 /\ t[n + 1] = e
  BY Zenon DEF Inserted
<1>2. \A j \in 1 .. n : t[j] = s[j]
  <2>1. \A j \in 1 .. n : j \in 1 .. n + 1 /\ j # n + 1 /\ j < n + 1
    OBVIOUS
  <2> QED BY <2>1, Zenon DEF Inserted
<1>3. Append(s, e) \in Seq(Entries) /\ Len(Append(s, e)) = n + 1 /\ Append(s, e)[n + 1] = e
      /\ \A j \in 1 .. n : Append(s, e)[j] = s[j]
  OBVIOUS
<1>4. \A j \in 1 .. n + 1 : j \in 1 .. n \/ j = n + 1
  OBVIOUS
<1>5. \A j \in 1 .. n + 1 : t[j] = Append(s, e)[j]
  BY <1>1, <1>2, <1>3, <1>4, Zenon
<1>6. n + 1 \in Nat
  OBVIOUS
<1> QED BY <1>1, <1>3, <1>5, <1>6, SameSequence

LEMMA InsertedIs ==
  ASSUME NEW s \in Seq(Entries), NEW t, NEW e \in Entries, NEW n \in Nat, Len(s) = n,
         NEW p \in 1 .. n + 1, Inserted(Entries, t, s, n, p, e)
  PROVE  t = InsertAt(s, p, e)
<1>1. PICK u : u = InsertAt(s, p, e)
  OBVIOUS
<1>2. Inserted(Entries, u, s, n, p, e)
  BY <1>1, InsertIs, Zenon
<1>3. /\ t \in Seq(Entries) /\ Len(t) = n + 1 /\ u \in Seq(Entries) /\ Len(u) = n + 1
      /\ n + 1 \in Nat
  BY <1>2 DEF Inserted
<1>4. \A j \in 1 .. n + 1 : t[j] = u[j]
  BY <1>2, Zenon DEF Inserted
<1> QED BY <1>1, <1>3, <1>4, SameSequence

\* The sequence gains its entry at the end, or at its place.
LEMMA EnqueSteps ==
  ASSUME QueueTypes, NEW L, NEW F, NEW c, NEW G, NEW g, Structure(L, F, c, G, g),
         NEW q \in InUse, NEW d \in Data, NEW k \in Keys, que_enque(q, d, k)
  PROVE  \E e \in [key : Keys, data : Data] : Seqs!Enque(q, e)
<1>1. QueueTypes' /\ \E L1, F1, c1, p : Structure(L1, F1, c1, G, g)' /\ Enqueued(L, L1, q, p, k)
  BY EnqueKeeps
<1>2. PICK L1, F1, c1, p : Structure(L1, F1, c1, G, g)' /\ Enqueued(L, L1, q, p, k)
  BY <1>1
<1>3. ContentShows(L) /\ ContentShows(L1)'
  BY <1>1, <1>2, ContentIs, ContentIsNext DEF Structure
<1>4. PICK x : x = NewNode
  OBVIOUS
<1>5. /\ Grown(L, L1, q, p, x) /\ Enters(L[q], q, p, k) /\ p \in 1 .. length[q] + 1
      /\ \A r \in InUse : x \notin In(L, r)
      /\ x \in Nodes /\ length' = [length EXCEPT ![q] = length[q] + 1]
  BY <1>2, <1>4 DEF Enqueued
<1>6. /\ key' = [key EXCEPT ![x] = k] /\ data' = [data EXCEPT ![x] = d]
      /\ answer' = E_SUCCESS /\ UNCHANGED order
  BY <1>4 DEF que_enque
<1>7. /\ key \in [Nodes -> Keys] /\ data \in [Nodes -> Data \cup {NULL}]
      /\ key' \in [Nodes -> Keys] /\ data' \in [Nodes -> Data \cup {NULL}]
      /\ length \in [Queues -> Nat] /\ order[q] \in {"fifo", "ordered"}
      /\ InUse \subseteq Queues /\ q \in Queues /\ InUse' = InUse
  BY <1>1, <1>6 DEF QueueTypes, InUse
<1>8. /\ Content \in [Queues -> Seq(Entries)] /\ Content' \in [Queues -> Seq(Entries)]
      /\ \A r \in InUse : /\ Content[r] = Listing(L[r], length[r], key, data)
                          /\ Content'[r] = Listing(L1[r], length'[r], key', data')
                          /\ L[r] \in Lists /\ L1[r] \in Lists /\ length[r] \in Nat
      /\ \A r \in Queues : r \notin InUse => Content[r] = <<>> /\ Content'[r] = <<>>
  BY <1>3, <1>7 DEF ContentShows
<1>9. PICK n \in Nat : n = length[q]
  BY <1>7
<1>10. PICK e : e = [key |-> k, data |-> d]
  OBVIOUS
<1>11. e \in [key : Keys, data : Data] /\ e \in Entries /\ e.key = k /\ k \in Nat
  BY <1>10, Sizes DEF Entries
<1>12. /\ Entry(x, key', data') = e
       /\ \A y \in Nodes : y # x => key'[y] = key[y] /\ data'[y] = data[y]
  BY <1>5, <1>6, <1>7, <1>10 DEF Entry
<1>13. \A r \in InUse : \A i \in 1 .. length[r] : L[r][i] # x /\ L[r][i] \in Nodes
  <2>1. \A r \in InUse : \A i \in 1 .. length[r] : L[r][i] \in In(L, r) /\ L[r][i] \in Nodes
    BY <1>8 DEF In, Values, Lists
  <2> QED BY <1>5, <2>1, Zenon
<1>14. ASSUME NEW r \in Queues, r # q PROVE Content'[r] = Content[r]
  <2>1. CASE r \notin InUse
    BY <1>8, <2>1
  <2>2. CASE r \in InUse
    <3>1. L \in [Queues -> Lists] /\ L1[r] = L[r] /\ length'[r] = length[r]
      <4>1. L \in [Queues -> Lists]
        BY DEF Structure, QueuesListed
      <4> QED BY <1>5, <1>7, <1>14, <4>1 DEF Grown
    <3>2. \A i \in 1 .. length[r] : key'[L[r][i]] = key[L[r][i]] /\ data'[L[r][i]] = data[L[r][i]]
      BY <1>12, <1>13, <2>2, Zenon
    <3>3. PICK m \in Nat : m = length[r]
      BY <1>7
    <3>4. Listing(L[r], m, key', data') = Listing(L[r], m, key, data)
      BY <3>2, <3>3, SameListing
    <3> QED BY <1>8, <2>2, <3>1, <3>3, <3>4
  <2> QED BY <2>1, <2>2
<1>15. PICK f, f1, s, t : f = L[q] /\ f1 = L1[q] /\ s = Content[q] /\ t = Content'[q]
  OBVIOUS
<1>16. /\ f \in Lists /\ f1 \in Lists /\ f1 = With(f, p, x) /\ HasIn(f1, f, n, p, x)
       /\ length'[q] = n + 1 /\ p \in 1 .. n + 1
  <2>1. L \in [Queues -> Lists]
    BY DEF Structure, QueuesListed
  <2>2. f \in Lists /\ f1 \in Lists /\ f1 = With(f, p, x)
    BY <1>5, <1>7, <1>8, <1>15, <2>1 DEF Grown
  <2>3. HasIn(f1, f, n, p, x)
    BY <1>5, <1>9, <2>2, WithHas, Zenon DEF Lists
  <2> QED BY <1>5, <1>7, <1>9, <2>2, <2>3
<1>17. /\ s \in Seq(Entries) /\ Len(s) = n /\ \A i \in 1 .. n : s[i] = Entry(f[i], key, data)
       /\ t \in Seq(Entries) /\ Len(t) = n + 1
       /\ \A i \in 1 .. n + 1 : t[i] = Entry(f1[i], key', data')
  <2>1. s = Listing(f, n, key, data) /\ t = Listing(f1, n + 1, key', data') /\ n + 1 \in Nat
    <3>1. s = Listing(L[q], length[q], key, data) /\ t = Listing(L1[q], length'[q], key', data')
      BY <1>8, <1>15, Zenon
    <3> QED BY <1>9, <1>15, <1>16, <3>1
  <2> QED BY <1>7, <1>16, <2>1, ListingIs
<1>18. \A i \in 1 .. n : Entry(f[i], key', data') = s[i]
  <2>1. \A i \in 1 .. n : f[i] # x /\ f[i] \in Nodes
    BY <1>9, <1>13, <1>15
  <2> QED BY <1>12, <1>17, <2>1 DEF Entry
<1>19. Inserted(Entries, t, s, n, p, e)
  <2>1. t[p] = e
    <3>1. f1[p] = x
      BY <1>16 DEF HasIn
    <3> QED BY <1>12, <1>16, <1>17, <3>1
  <2>2. \A j \in 1 .. n + 1 : j # p => t[j] = IF j < p THEN s[j] ELSE s[j - 1]
    <3> TAKE j \in 1 .. n + 1
    <3> HAVE j # p
    <3>1. CASE j < p
      <4>1. f1[j] = f[j] /\ j \in 1 .. n
        BY <1>16, <3>1, Zenon DEF HasIn
      <4> QED BY <1>17, <1>18, <3>1, <4>1
    <3>2. CASE j > p
      <4>1. f1[j] = f[j - 1] /\ j - 1 \in 1 .. n
        BY <1>16, <3>2, Zenon DEF HasIn
      <4>2. ~(j < p)
        BY <3>2, <1>16
      <4> QED BY <1>17, <1>18, <4>1, <4>2
    <3>3. j < p \/ j > p
      BY <1>16
    <3> QED BY <3>1, <3>2, <3>3
  <2> QED BY <1>17, <2>1, <2>2, Zenon DEF Inserted
<1>20. CASE order[q] = "fifo"
  <2>1. p = n + 1
    BY <1>5, <1>9, <1>20 DEF Enters
  <2>2. t = Append(s, e)
    BY <1>11, <1>17, <1>19, <2>1, AppendedIs
  <2>3. Content' = [Content EXCEPT ![q] = t]
    BY <1>7, <1>8, <1>14, <1>15, ContentMoves
  <2>4. Content' = [Content EXCEPT ![q] = IF order[q] = "fifo" THEN Append(@, e) ELSE Seqs!Ordered(@, e)]
    BY <1>7, <1>8, <1>15, <1>20, <2>2, <2>3
  <2>5. Seqs!Enque(q, e)
    BY <1>6, <2>4 DEF Seqs!Enque, Content
  <2> QED BY <1>11, <2>5
<1>21. CASE order[q] = "ordered"
  <2>1. PlacedAt(f, n, p, k)
    BY <1>5, <1>9, <1>15, <1>21 DEF Enters
  <2>2. \A i \in 1 .. n : s[i].key = key[f[i]] /\ s[i].key \in Nat /\ f[i] \in Nodes
    <3>1. \A i \in 1 .. n : f[i] \in Nodes
      BY <1>16 DEF Lists
    <3>2. \A y \in Nodes : key[y] \in Nat
      BY <1>7, Sizes
    <3> QED BY <1>17, <3>1, <3>2 DEF Entry
  <2>3. /\ \A j \in 1 .. n : j < p => s[j].key <= e.key
        /\ p <= n => s[p].key > e.key
    <3>1. \A j \in 1 .. n : j < p => ~(key[f[j]] > k)
      BY <2>1, Zenon DEF PlacedAt, Behind
    <3>2. p <= n => key[f[p]] > k /\ p \in 1 .. n
      BY <1>16, <2>1 DEF PlacedAt, Behind
    <3> QED BY <1>11, <2>2, <3>1, <3>2
  <2>4. Seqs!Place(s, e) = p
    BY <1>11, <1>16, <1>17, <2>3, PlaceUnique
  <2>5. t = InsertAt(s, p, e)
    BY <1>11, <1>16, <1>17, <1>19, InsertedIs
  <2>6. Seqs!Ordered(s, e) = t
    <3>1. Seqs!Ordered(s, e) = Seqs!InsertAt(s, p, e)
      BY <2>4, Zenon DEF Seqs!Ordered
    <3> QED BY <2>5, <3>1 DEF Seqs!InsertAt, InsertAt
  <2>7. Content' = [Content EXCEPT ![q] = t]
    BY <1>7, <1>8, <1>14, <1>15, ContentMoves
  <2>8. Content' = [Content EXCEPT ![q] = IF order[q] = "fifo" THEN Append(@, e) ELSE Seqs!Ordered(@, e)]
    BY <1>7, <1>8, <1>15, <1>21, <2>6, <2>7
  <2>9. Seqs!Enque(q, e)
    BY <1>6, <2>8 DEF Seqs!Enque, Content
  <2> QED BY <1>11, <2>9
<1> QED BY <1>7, <1>20, <1>21

\* The rest of a list is the tail of its entries.
LEMMA RestIs ==
  ASSUME NEW f \in Lists, NEW n \in Nat, NEW ky \in [Nodes -> Keys],
         NEW dt \in [Nodes -> Data \cup {NULL}]
  PROVE  /\ Listing(Less(f), n, ky, dt) = Tail(Listing(f, n + 1, ky, dt))
         /\ Listing(f, n + 1, ky, dt) # <<>>
         /\ Listing(f, n + 1, ky, dt)[1].data = dt[f[1]]
<1>1. PICK s, t : s = Listing(f, n + 1, ky, dt) /\ t = Listing(Less(f), n, ky, dt)
  OBVIOUS
<1>2. Less(f) \in Lists /\ \A i \in Nat : Less(f)[i] = f[i + 1]
  BY LessIs DEF Lists
<1>3. /\ s \in Seq(Entries) /\ Len(s) = n + 1 /\ \A i \in 1 .. n + 1 : s[i] = Entry(f[i], ky, dt)
      /\ t \in Seq(Entries) /\ Len(t) = n /\ \A i \in 1 .. n : t[i] = Entry(Less(f)[i], ky, dt)
  <2>1. n + 1 \in Nat
    OBVIOUS
  <2>2. /\ s \in Seq(Entries) /\ Len(s) = n + 1 /\ \A i \in 1 .. n + 1 : s[i] = Entry(f[i], ky, dt)
    BY <1>1, <2>1, ListingIs
  <2>3. PICK h : h = Less(f)
    OBVIOUS
  <2>4. /\ t \in Seq(Entries) /\ Len(t) = n /\ \A i \in 1 .. n : t[i] = Entry(h[i], ky, dt)
    <3>1. t = Listing(h, n, ky, dt) /\ h \in Lists
      BY <1>1, <1>2, <2>3
    <3> QED BY <3>1, ListingIs
  <2> QED BY <2>2, <2>3, <2>4
<1>4. \A i \in 1 .. n : t[i] = s[i + 1]
  <2>1. \A i \in 1 .. n : i \in Nat /\ i + 1 \in 1 .. n + 1
    OBVIOUS
  <2> QED BY <1>2, <1>3, <2>1
<1>5. s # <<>> /\ 1 \in 1 .. n + 1
  BY <1>3
<1>6. /\ Tail(s) \in Seq(Entries) /\ Len(Tail(s)) = n /\ \A i \in 1 .. n : Tail(s)[i] = s[i + 1]
  BY <1>3, <1>5
<1>7. t = Tail(s)
  BY <1>3, <1>4, <1>6, SameSequence
<1>8. s[1].data = dt[f[1]]
  BY <1>3, <1>5 DEF Entry
<1> QED BY <1>1, <1>5, <1>7, <1>8

\* The sequence loses its head, which is the answer.
LEMMA DequeSteps ==
  ASSUME QueueTypes, NEW L, NEW F, NEW c, NEW G, NEW g, Structure(L, F, c, G, g),
         NEW q \in InUse, que_deque_first(q)
  PROVE  Seqs!Deque(q)
<1>1. /\ QueueTypes' /\ head[q] = L[q][1]
      /\ \E L1, F1, c1 : Structure(L1, F1, c1, G, g)' /\ Shrunk(L, L1, q)
  BY DequeKeeps
<1>2. PICK L1, F1, c1 : Structure(L1, F1, c1, G, g)' /\ Shrunk(L, L1, q)
  BY <1>1
<1>3. ContentShows(L) /\ ContentShows(L1)'
  BY <1>1, <1>2, ContentIs, ContentIsNext DEF Structure
<1>4. /\ length[q] # 0 /\ length' = [length EXCEPT ![q] = @ - 1]
      /\ answer' = data[head[q]] /\ UNCHANGED <<key, data, order>>
  BY DEF que_deque_first
<1>5. /\ key \in [Nodes -> Keys] /\ data \in [Nodes -> Data \cup {NULL}]
      /\ length \in [Queues -> Nat] /\ InUse \subseteq Queues /\ q \in Queues /\ InUse' = InUse
  BY <1>4 DEF QueueTypes, InUse
<1>6. /\ Content \in [Queues -> Seq(Entries)] /\ Content' \in [Queues -> Seq(Entries)]
      /\ \A r \in InUse : /\ Content[r] = Listing(L[r], length[r], key, data)
                          /\ Content'[r] = Listing(L1[r], length'[r], key', data')
                          /\ L[r] \in Lists
      /\ \A r \in Queues : r \notin InUse => Content[r] = <<>> /\ Content'[r] = <<>>
  BY <1>3, <1>5 DEF ContentShows
<1>7. PICK n \in Nat : length[q] = n + 1 /\ length'[q] = n
  <2>1. length[q] - 1 \in Nat /\ length[q] = (length[q] - 1) + 1 /\ length'[q] = length[q] - 1
    BY <1>4, <1>5
  <2> QED BY <2>1
<1>8. L \in [Queues -> Lists] /\ L1[q] = Less(L[q]) /\ \A r \in Queues : r # q => L1[r] = L[r]
  <2>1. L \in [Queues -> Lists]
    BY DEF Structure, QueuesListed
  <2> QED BY <1>2, <1>5, <2>1 DEF Shrunk
<1>9. key' = key /\ data' = data /\ \A r \in Queues : r # q => length'[r] = length[r]
  BY <1>4, <1>5
<1>10. \A r \in Queues : r # q => Content'[r] = Content[r]
  <2>1. SUFFICES ASSUME NEW r \in Queues, r # q PROVE Content'[r] = Content[r]
    OBVIOUS
  <2>2. CASE r \notin InUse
    BY <1>6, <2>1, <2>2, Zenon
  <2>3. CASE r \in InUse
    <3>1. L1[r] = L[r] /\ length'[r] = length[r] /\ key' = key /\ data' = data
      BY <1>8, <1>9, <2>1, Zenon
    <3>2. /\ Content[r] = Listing(L[r], length[r], key, data)
          /\ Content'[r] = Listing(L1[r], length'[r], key', data')
      BY <1>6, <2>3, Zenon
    <3> QED BY <3>1, <3>2, Zenon
  <2> QED BY <2>2, <2>3
<1>11. Content[q] = Listing(L[q], n + 1, key, data) /\ Content'[q] = Listing(Less(L[q]), n, key, data)
  <2>1. /\ Content[q] = Listing(L[q], length[q], key, data)
        /\ Content'[q] = Listing(L1[q], length'[q], key', data')
    BY <1>6, Zenon
  <2> QED BY <1>7, <1>8, <1>9, <2>1
<1>12. /\ Content'[q] = Tail(Content[q]) /\ Content[q] # <<>>
       /\ Content[q][1].data = data[head[q]]
  <2>1. PICK f \in Lists : f = L[q]
    BY <1>6
  <2>2. /\ Listing(Less(f), n, key, data) = Tail(Listing(f, n + 1, key, data))
        /\ Listing(f, n + 1, key, data) # <<>>
        /\ Listing(f, n + 1, key, data)[1].data = data[f[1]]
    BY <1>5, RestIs
  <2> QED BY <1>1, <1>11, <2>1, <2>2, Zenon
<1>13. Content' = [Content EXCEPT ![q] = Content'[q]]
  BY <1>5, <1>6, <1>10, ContentMoves
<1>14. Content' = [Content EXCEPT ![q] = IF @ = <<>> THEN @ ELSE Tail(@)]
  BY <1>5, <1>6, <1>12, <1>13
<1>15. answer' = IF Content[q] = <<>> THEN NULL ELSE Content[q][1].data
  BY <1>4, <1>12
<1> QED BY <1>4, <1>14, <1>15 DEF Seqs!Deque, Seqs!First, Content

\* The calls that change no list.
LEMMA StillSteps ==
  ASSUME QueueTypes, NEW L, NEW F, NEW c, NEW G, NEW g, Structure(L, F, c, G, g),
         UNCHANGED <<nodeVars, queueVars, free_queues, queue_slices>>
  PROVE  Content' = Content /\ UNCHANGED order
<1>1. QueueTypes' /\ Structure(L, F, c, G, g)'
  BY StillKeeps
<1>2. ContentShows(L) /\ ContentShows(L)'
  BY <1>1, ContentIs, ContentIsNext DEF Structure
<1>3. UNCHANGED <<key, data, length, order>> /\ InUse' = InUse
  BY DEF nodeVars, queueVars, InUse
<1>4. \A q \in Queues : Content'[q] = Content[q]
  BY <1>2, <1>3 DEF ContentShows
<1>5. Content = [q \in Queues |-> Content[q]] /\ Content' = [q \in Queues |-> Content'[q]]
  BY <1>2 DEF ContentShows
<1> QED BY <1>3, <1>4, <1>5

\* Calls that only answer.
LEMMA LookSteps ==
  ASSUME QueueTypes, NEW L, NEW F, NEW c, NEW G, NEW g, Structure(L, F, c, G, g),
         NEW q \in InUse, que_deque_none(q) \/ que_peek(q) \/ que_length(q)
  PROVE  Seqs!Deque(q) \/ Seqs!Look(q)
<1>1. Content' = Content /\ UNCHANGED order
  BY StillSteps DEF que_deque_none, que_peek, que_length
<1>2. ContentShows(L)
  BY ContentIs DEF Structure
<1>3. PICK f, n : f = L[q] /\ n = length[q] /\ n \in Nat
  BY <1>2 DEF ContentShows
<1>4. PICK s : s = Content[q]
  OBVIOUS
<1>5. /\ key \in [Nodes -> Keys] /\ data \in [Nodes -> Data \cup {NULL}] /\ q \in Queues
  BY DEF QueueTypes, InUse
<1>6. f \in Lists /\ s = Listing(f, n, key, data) /\ Len(s) = n
  <2>1. f \in Lists /\ s = Listing(f, n, key, data)
    BY <1>2, <1>3, <1>4 DEF ContentShows
  <2> QED BY <1>3, <1>5, <2>1, ListingIs
<1>7. CASE que_length(q)
  BY <1>1, <1>3, <1>4, <1>6, <1>7 DEF que_length, Seqs!Look, Content
<1>8. n = 0 => s = <<>>
  BY <1>6, NoListing
<1>9. n # 0 => s # <<>> /\ s[1].data = data[head[q]]
  <2> HAVE n # 0
  <2>1. PICK m \in Nat : n = m + 1
    <3>1. n - 1 \in Nat /\ n = (n - 1) + 1
      BY <1>3
    <3> QED BY <3>1
  <2>2. head[q] = f[1]
    BY <1>3 DEF Structure, QueuesListed, Listed, Strand
  <2> QED BY <1>5, <1>6, <2>1, <2>2, RestIs
<1>10. CASE que_peek(q)
  <2>1. answer' = IF s = <<>> THEN NULL ELSE s[1].data
    BY <1>3, <1>8, <1>9, <1>10 DEF que_peek
  <2>2. answer' = Seqs!First(q)
    BY <1>4, <2>1 DEF Seqs!First, Content
  <2>3. UNCHANGED <<Content, order>>
    BY <1>1
  <2> QED BY <2>2, <2>3 DEF Seqs!Look, Content
<1>11. CASE que_deque_none(q)
  <2>1. s = <<>> /\ answer' = NULL
    BY <1>3, <1>8, <1>11 DEF que_deque_none
  <2>2. Content' = [Content EXCEPT ![q] = IF @ = <<>> THEN @ ELSE Tail(@)]
    <3>1. Content \in [Queues -> Seq(Entries)]
      BY <1>2 DEF ContentShows
    <3> QED BY <1>1, <1>4, <1>5, <2>1, <3>1
  <2> QED BY <1>1, <1>4, <2>1, <2>2 DEF Seqs!Deque, Seqs!First, Content
<1> QED BY <1>7, <1>10, <1>11

LEMMA QueueSteps ==
  ASSUME QInv, [QueNext]_queuesVars
  PROVE  [Seqs!Next]_<<Content, order, answer>>
<1>1. QueueTypes
  BY DEF QInv
<1>2. PICK L, F, c, G, g : Structure(L, F, c, G, g)
  BY DEF QInv
<1>3. InUse = Seqs!InUse
  BY DEF InUse, Seqs!InUse
<1>4. CASE UNCHANGED queuesVars
  <2>1. UNCHANGED <<nodeVars, queueVars, free_queues, queue_slices>> /\ UNCHANGED answer
    BY <1>4 DEF queuesVars
  <2> QED BY <1>1, <1>2, <2>1, StillSteps
<1>5. ASSUME NEW o \in {"fifo", "ordered"}, que_alloc(o) PROVE Seqs!Next
  BY <1>1, <1>2, <1>5, AllocSteps DEF Seqs!Next
<1>6. ASSUME NEW q \in InUse, NEW d \in Data, NEW k \in Keys, que_enque(q, d, k) PROVE Seqs!Next
  <2>1. \E e \in [key : Keys, data : Data] : Seqs!Enque(q, e)
    BY <1>1, <1>2, <1>6, EnqueSteps
  <2> QED BY <1>3, <2>1 DEF Seqs!Next
<1>7. ASSUME NEW q \in InUse, que_deque_first(q) PROVE Seqs!Next
  <2>1. Seqs!Deque(q)
    BY <1>1, <1>2, <1>7, DequeSteps
  <2> QED BY <1>3, <2>1 DEF Seqs!Next
<1>8. ASSUME NEW q \in InUse, que_deque_none(q) \/ que_peek(q) \/ que_length(q) PROVE Seqs!Next
  <2>1. Seqs!Deque(q) \/ Seqs!Look(q)
    BY <1>1, <1>2, <1>8, LookSteps
  <2> QED BY <1>3, <2>1 DEF Seqs!Next
<1> QED BY <1>4, <1>5, <1>6, <1>7, <1>8 DEF QueNext

LEMMA QueueStartsEmpty ==
  ASSUME QueInit
  PROVE  Seqs!Init
<1>1. \A q \in Queues : order[q] = "none"
  BY DEF QueInit
<1>2. Content = [q \in Queues |-> <<>>]
  BY <1>1 DEF Content
<1> QED BY <1>2 DEF QueInit, Seqs!Init, Content

\* The queue module implements SeqQueues: every client sees sequences, in the order
\* of arrival or of the keys and then of arrival, whatever the other clients do
\* and however often nodes and queues are freed and carved (queues.c).
THEOREM QueuesAreSequences == QueSpec => QueueSpec
<1>1. QueInit => Seqs!Init
  BY QueueStartsEmpty
<1>2. QInv /\ [QueNext]_queuesVars
      => [Seqs!Next]_<<[q \in Queues |->
                IF order[q] = "none" THEN <<>>
                ELSE [i \in 1 .. length[q] |->
                        [key |-> key[Chain(q)[i]], data |-> data[Chain(q)[i]]]]], order, answer>>
  BY QueueSteps DEF Content
<1> QED BY <1>1, <1>2, QueueInvariant, PTL DEF QueSpec, QueueSpec, Seqs!Spec
=============================================================================
