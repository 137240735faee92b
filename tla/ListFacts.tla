----------------------------- MODULE ListFacts -----------------------------
(***************************************************************************)
(* Facts about sequences and sets of numbers that the proofs of several    *)
(* components rely on.  A queue is a sequence without duplicates; what a   *)
(* proof needs to know of a step on it is which elements it has then.      *)
(***************************************************************************)
EXTENDS Naturals, Functions, SequencesExt, SequenceTheorems, FiniteSetTheorems,
        WellFoundedInduction, TLAPS

-----------------------------------------------------------------------------
(***************************************************************************)
(* Queues                                                                  *)
(***************************************************************************)

\* The values of the first n elements, and of one element more.
Values(f, n) == {f[i] : i \in 1 .. n}

LEMMA ValuesMore ==
  ASSUME NEW n \in Nat, NEW f, NEW g, \A i \in 1 .. n : g[i] = f[i]
  PROVE  Values(g, n + 1) = Values(f, n) \cup {g[n + 1]}
<1>1. \A i \in 1 .. n + 1 : i \in 1 .. n \/ i = n + 1
  OBVIOUS
<1>2. n + 1 \in 1 .. n + 1 /\ \A i \in 1 .. n : i \in 1 .. n + 1
  OBVIOUS
<1> QED BY <1>1, <1>2 DEF Values

LEMMA ToSetValues == ASSUME NEW W, NEW s \in Seq(W) PROVE ToSet(s) = Values(s, Len(s))
BY DEF ToSet, Values

\* Different elements, one more and one less.
Differ(f, n) == \A i, j \in 1 .. n : f[i] = f[j] => i = j

LEMMA DifferMore ==
  ASSUME NEW n \in Nat, NEW f, NEW g, Differ(f, n), \A i \in 1 .. n : g[i] = f[i],
         g[n + 1] \notin Values(f, n)
  PROVE  Differ(g, n + 1)
<1>1. \A i \in 1 .. n : g[i] # g[n + 1]
  BY DEF Values
<1>2. \A i \in 1 .. n + 1 : i \in 1 .. n \/ i = n + 1
  OBVIOUS
<1> QED BY <1>1, <1>2, Zenon DEF Differ

LEMMA DifferLess ==
  ASSUME NEW n \in Nat, NEW f, NEW g, Differ(f, n + 1), \A i \in 1 .. n : g[i] = f[i + 1]
  PROVE  Differ(g, n) /\ \A x : x \in Values(g, n) <=> x # f[1] /\ x \in Values(f, n + 1)
<1>1. \A i \in 1 .. n : i + 1 \in 1 .. n + 1 /\ i + 1 # 1 /\ 1 \in 1 .. n + 1
  OBVIOUS
<1>2. Differ(g, n)
  <2> SUFFICES ASSUME NEW i \in 1 .. n, NEW j \in 1 .. n, g[i] = g[j] PROVE i = j
    BY DEF Differ
  <2>1. i + 1 = j + 1
    BY <1>1, ZenonT(60) DEF Differ
  <2> QED BY <2>1
<1>3. \A i \in 1 .. n : g[i] # f[1]
  BY <1>1 DEF Differ
<1>4. \A i \in 1 .. n + 1 : i # 1 => i - 1 \in 1 .. n /\ (i - 1) + 1 = i
  OBVIOUS
<1>5. \A i \in 1 .. n + 1 : i # 1 => f[i] = g[i - 1]
  <2> TAKE i \in 1 .. n + 1
  <2> HAVE i # 1
  <2>1. g[i - 1] = f[(i - 1) + 1]
    BY <1>4, Zenon
  <2> QED BY <1>4, <2>1
<1>6. \A x : x \in Values(g, n) => x # f[1] /\ x \in Values(f, n + 1)
  BY <1>1, <1>3 DEF Values
<1>7. \A x : x # f[1] /\ x \in Values(f, n + 1) => x \in Values(g, n)
  <2> TAKE x
  <2> HAVE x # f[1] /\ x \in Values(f, n + 1)
  <2>1. PICK i \in 1 .. n + 1 : x = f[i]
    BY DEF Values
  <2>2. i # 1
    BY <2>1
  <2>3. x = g[i - 1] /\ i - 1 \in 1 .. n
    BY <1>4, <1>5, <2>1, <2>2
  <2> QED BY <2>3 DEF Values
<1> QED BY <1>2, <1>6, <1>7

\* A queue of different elements that a new one joins, and that its first leaves.
LEMMA QueueJoin ==
  ASSUME NEW W, NEW s \in Seq(W), NEW e \in W, IsInjective(s), e \notin ToSet(s)
  PROVE  /\ Append(s, e) \in Seq(W) /\ IsInjective(Append(s, e))
         /\ \A x : x \in ToSet(Append(s, e)) <=> x = e \/ x \in ToSet(s)
<1> DEFINE t == Append(s, e)
<1>1. PICK n \in Nat : n = Len(s)
  OBVIOUS
<1>2. /\ t \in Seq(W) /\ Len(t) = n + 1 /\ t[n + 1] = e
      /\ \A i \in 1 .. n : t[i] = s[i]
  BY <1>1
<1>3. DOMAIN t = 1 .. n + 1 /\ DOMAIN s = 1 .. n
  BY <1>1, <1>2
<1> HIDE DEF t
<1>4. ToSet(s) = Values(s, n) /\ ToSet(t) = Values(t, n + 1)
  BY <1>1, <1>2, ToSetValues
<1>5. Differ(t, n + 1)
  <2>1. Differ(s, n)
    BY <1>3, Zenon DEF IsInjective, Differ
  <2> QED BY <1>2, <1>4, <2>1, DifferMore
<1>6. Values(t, n + 1) = Values(s, n) \cup {t[n + 1]}
  BY <1>2, ValuesMore
<1>7. IsInjective(t)
  BY <1>3, <1>5, Zenon DEF IsInjective, Differ
<1>8. \A x : x \in ToSet(t) <=> x = e \/ x \in ToSet(s)
  BY <1>2, <1>4, <1>6
<1> QED BY <1>2, <1>7, <1>8 DEF t

LEMMA QueueLeave ==
  ASSUME NEW W, NEW s \in Seq(W), s # <<>>, IsInjective(s)
  PROVE  /\ Tail(s) \in Seq(W) /\ IsInjective(Tail(s)) /\ Head(s) \in W
         /\ \A x : x \in ToSet(Tail(s)) <=> x # Head(s) /\ x \in ToSet(s)
<1> DEFINE t == Tail(s)
           h == Head(s)
<1>1. PICK n \in Nat : n + 1 = Len(s)
  <2>1. PICK l \in Nat : l = Len(s) /\ l # 0
    OBVIOUS
  <2>2. l - 1 \in Nat /\ (l - 1) + 1 = l
    BY <2>1
  <2> QED BY <2>1, <2>2
<1>2. /\ t \in Seq(W) /\ Len(t) = n /\ h = s[1] /\ h \in W
      /\ \A i \in 1 .. n : t[i] = s[i + 1]
  BY <1>1
<1>3. DOMAIN s = 1 .. n + 1 /\ DOMAIN t = 1 .. n
  BY <1>1, <1>2
<1> HIDE DEF t, h
<1>4. ToSet(s) = Values(s, n + 1) /\ ToSet(t) = Values(t, n)
  BY <1>1, <1>2, ToSetValues
<1>5. Differ(s, n + 1)
  BY <1>3, Zenon DEF IsInjective, Differ
<1>6. Differ(t, n) /\ \A x : x \in Values(t, n) <=> x # s[1] /\ x \in Values(s, n + 1)
  BY <1>2, <1>5, DifferLess
<1>7. IsInjective(t)
  BY <1>3, <1>6, Zenon DEF IsInjective, Differ
<1>8. \A x : x \in ToSet(t) <=> x # h /\ x \in ToSet(s)
  BY <1>2, <1>4, <1>6, Zenon
<1> QED BY <1>2, <1>7, <1>8 DEF t, h

-----------------------------------------------------------------------------
(***************************************************************************)
(* Elements that come and go anywhere                                      *)
(***************************************************************************)

\* s consists of a, m elements, and b, n elements.
Joined(W, s, a, m, b, n) ==
  /\ s \in Seq(W) /\ Len(s) = m + n
  /\ \A j \in 1 .. m : s[j] = a[j]
  /\ \A j \in 1 .. n : s[m + j] = b[j]

LEMMA Concatenates ==
  \A W : \A a \in Seq(W), b \in Seq(W), m \in Nat, n \in Nat :
    m = Len(a) /\ n = Len(b) => Joined(W, a \o b, a, m, b, n)
BY ConcatProperties DEF Joined

\* x is put to the front.
LEMMA FrontIs ==
  ASSUME NEW W, NEW s \in Seq(W), NEW e \in W, IsInjective(s), e \notin ToSet(s)
  PROVE  /\ <<e>> \o s \in Seq(W) /\ IsInjective(<<e>> \o s)
         /\ \A x : x \in ToSet(<<e>> \o s) <=> x = e \/ x \in ToSet(s)
<1> DEFINE t == <<e>> \o s
<1>1. PICK n \in Nat : n = Len(s)
  OBVIOUS
<1>2. /\ t \in Seq(W) /\ Len(t) = n + 1 /\ t[1] = e
      /\ \A i \in 1 .. n : t[i + 1] = s[i]
  <2>1. <<e>> \in Seq(W) /\ Len(<<e>>) = 1 /\ <<e>>[1] = e
    OBVIOUS
  <2>2. Joined(W, t, <<e>>, 1, s, n)
    <3>1. 1 \in Nat
      OBVIOUS
    <3> QED BY <1>1, <2>1, <3>1, Concatenates, Zenon
  <2>3. /\ t \in Seq(W) /\ Len(t) = 1 + n
        /\ \A j \in 1 .. 1 : t[j] = <<e>>[j]
        /\ \A j \in 1 .. n : t[1 + j] = s[j]
    BY <2>2, Zenon DEF Joined
  <2> HIDE DEF t
  <2>4. t[1] = e
    BY <2>1, <2>3
  <2>5. \A j \in 1 .. n : t[j + 1] = s[j]
    <3> TAKE j \in 1 .. n
    <3>1. j + 1 = 1 + j
      OBVIOUS
    <3> QED BY <2>3, <3>1, Zenon
  <2>6. Len(t) = n + 1
    BY <2>3
  <2> QED BY <2>3, <2>4, <2>5, <2>6, Zenon
<1> HIDE DEF t
<1>3. DOMAIN s = 1 .. n /\ DOMAIN t = 1 .. n + 1
  BY <1>1, <1>2
<1>4. \A x : x \in ToSet(s) <=> \E i \in 1 .. n : s[i] = x
  BY <1>3, Zenon DEF ToSet
<1>5. \A x : x \in ToSet(t) <=> \E i \in 1 .. n + 1 : t[i] = x
  BY <1>3, Zenon DEF ToSet
<1>6. \A i \in 1 .. n + 1 : i = 1 \/ \E j \in 1 .. n : i = j + 1
  <2> TAKE i \in 1 .. n + 1
  <2>1. CASE i # 1
    <3>1. i - 1 \in 1 .. n /\ i = (i - 1) + 1
      BY <2>1
    <3> QED BY <3>1
  <2> QED BY <2>1
<1>7. 1 \in 1 .. n + 1 /\ \A j \in 1 .. n : j + 1 \in 1 .. n + 1
  OBVIOUS
<1>8. \A x : x \in ToSet(t) <=> x = e \/ x \in ToSet(s)
  <2>1. ASSUME NEW x, x \in ToSet(t) PROVE x = e \/ x \in ToSet(s)
    <3>1. PICK i \in 1 .. n + 1 : t[i] = x
      BY <1>5, <2>1, Zenon
    <3>2. CASE i = 1
      BY <1>2, <3>1, <3>2, Zenon
    <3>3. CASE i # 1
      <4>1. PICK j \in 1 .. n : i = j + 1
        BY <1>6, <3>3, Zenon
      <4>2. s[j] = x
        BY <1>2, <3>1, <4>1, Zenon
      <4> QED BY <1>4, <4>2, Zenon
    <3> QED BY <3>2, <3>3
  <2>2. ASSUME NEW x, x \in ToSet(s) PROVE x \in ToSet(t)
    <3>1. PICK j \in 1 .. n : s[j] = x
      BY <1>4, <2>2, Zenon
    <3>2. t[j + 1] = x /\ j + 1 \in 1 .. n + 1
      BY <1>2, <1>7, <3>1, Zenon
    <3> QED BY <1>5, <3>2, Zenon
  <2>3. e \in ToSet(t)
    BY <1>2, <1>5, <1>7, Zenon
  <2> QED BY <2>1, <2>2, <2>3, Zenon
<1>9. IsInjective(t)
  <2>1. \A i, j \in 1 .. n : s[i] = s[j] => i = j
    BY <1>3, Zenon DEF IsInjective
  <2>2. \A i \in 1 .. n : t[i + 1] # e
    BY <1>2, <1>4
  <2>3. \A i, j \in 1 .. n + 1 : t[i] = t[j] => i = j
    <3> TAKE i, j \in 1 .. n + 1
    <3> HAVE t[i] = t[j]
    <3>1. CASE i = 1 /\ j = 1
      BY <3>1
    <3>2. CASE i = 1 /\ j # 1
      <4>1. PICK l \in 1 .. n : j = l + 1
        BY <1>6, <3>2, Zenon
      <4> QED BY <1>2, <2>2, <3>2, <4>1, Zenon
    <3>3. CASE i # 1 /\ j = 1
      <4>1. PICK k \in 1 .. n : i = k + 1
        BY <1>6, <3>3, Zenon
      <4> QED BY <1>2, <2>2, <3>3, <4>1, Zenon
    <3>4. CASE i # 1 /\ j # 1
      <4>1. PICK k \in 1 .. n : i = k + 1
        BY <1>6, <3>4, Zenon
      <4>2. PICK l \in 1 .. n : j = l + 1
        BY <1>6, <3>4, Zenon
      <4>3. s[k] = s[l]
        BY <1>2, <4>1, <4>2, Zenon
      <4> QED BY <2>1, <4>1, <4>2, <4>3, Zenon
    <3> QED BY <3>1, <3>2, <3>3, <3>4
  <2> QED BY <1>3, <2>3, Zenon DEF IsInjective
<1> QED BY <1>2, <1>8, <1>9, Zenon DEF t

\* One element less, and one more, anywhere.
LEMMA RemoveIs ==
  ASSUME NEW W, NEW s \in Seq(W), NEW n \in Nat, Len(s) = n + 1, NEW i \in 1 .. n + 1
  PROVE  /\ RemoveAt(s, i) \in Seq(W) /\ Len(RemoveAt(s, i)) = n
         /\ \A j \in 1 .. n : RemoveAt(s, i)[j] = IF j < i THEN s[j] ELSE s[j + 1]
<1> DEFINE a == SubSeq(s, 1, i - 1)
           b == SubSeq(s, i + 1, n + 1)
<1>1. a \in Seq(W) /\ Len(a) = i - 1 /\ \A j \in 1 .. i - 1 : a[j] = s[j]
  OBVIOUS
<1>2. b \in Seq(W) /\ Len(b) = n + 1 - i /\ \A j \in 1 .. n + 1 - i : b[j] = s[i + j]
  OBVIOUS
<1>3. RemoveAt(s, i) = a \o b
  BY Zenon DEF RemoveAt
<1> HIDE DEF a, b
<1>4. /\ a \o b \in Seq(W) /\ Len(a \o b) = n
      /\ \A j \in 1 .. i - 1 : (a \o b)[j] = a[j]
      /\ \A j \in 1 .. n + 1 - i : (a \o b)[i - 1 + j] = b[j]
  <2>1. PICK m \in Nat, l \in Nat : m = i - 1 /\ l = n + 1 - i /\ m + l = n
    OBVIOUS
  <2>2. m = Len(a) /\ l = Len(b)
    BY <1>1, <1>2, <2>1
  <2>3. /\ a \o b \in Seq(W) /\ Len(a \o b) = m + l
        /\ \A j \in 1 .. m : (a \o b)[j] = a[j]
        /\ \A j \in 1 .. l : (a \o b)[m + j] = b[j]
    <3>1. a \in Seq(W) /\ b \in Seq(W)
      BY <1>1, <1>2
    <3>2. Joined(W, a \o b, a, m, b, l)
      BY <2>2, <3>1, Concatenates, Zenon
    <3> QED BY <3>2, Zenon DEF Joined
  <2> QED BY <2>1, <2>3, Zenon
<1>5. \A j \in 1 .. n : (a \o b)[j] = IF j < i THEN s[j] ELSE s[j + 1]
  <2> TAKE j \in 1 .. n
  <2>1. CASE j < i
    BY <1>1, <1>4, <2>1
  <2>2. CASE ~(j < i)
    <3>1. /\ j - (i - 1) \in 1 .. n + 1 - i /\ i + (j - (i - 1)) = j + 1
          /\ i - 1 + (j - (i - 1)) = j
      BY <2>2
    <3> QED BY <1>2, <1>4, <2>2, <3>1, SMTT(40)
  <2> QED BY <2>1, <2>2
<1> QED BY <1>3, <1>4, <1>5

\* t is s, of n elements, with e at place i.
Inserted(W, t, s, n, i, e) ==
  /\ t \in Seq(W) /\ Len(t) = n + 1 /\ t[i] = e
  /\ \A j \in 1 .. n + 1 : j # i => t[j] = IF j < i THEN s[j] ELSE s[j - 1]

LEMMA InsertIs ==
  \A W : \A s \in Seq(W), n \in Nat : \A i \in 1 .. n + 1, e \in W :
    Len(s) = n => Inserted(W, InsertAt(s, i, e), s, n, i, e)
<1> TAKE W
<1> TAKE s \in Seq(W), n \in Nat
<1> TAKE i \in 1 .. n + 1, e \in W
<1> HAVE Len(s) = n
<1> DEFINE a == SubSeq(s, 1, i - 1)
           b == SubSeq(s, i, n)
           c == Append(a, e)
<1>1. a \in Seq(W) /\ Len(a) = i - 1 /\ \A j \in 1 .. i - 1 : a[j] = s[j]
  OBVIOUS
<1>2. b \in Seq(W) /\ Len(b) = n + 1 - i /\ \A j \in 1 .. n + 1 - i : b[j] = s[i - 1 + j]
  OBVIOUS
<1> HIDE DEF a, b
<1>3. c \in Seq(W) /\ Len(c) = i /\ c[i] = e /\ \A j \in 1 .. i - 1 : c[j] = a[j]
  BY <1>1
<1>4. InsertAt(s, i, e) = c \o b
  <2>1. InsertAt(s, i, e) = (a \o <<e>>) \o b
    BY Zenon DEF InsertAt, a, b
  <2>2. a \o <<e>> = c
    BY <1>1
  <2> QED BY <2>1, <2>2, Zenon
<1> HIDE DEF c
<1>5. /\ c \o b \in Seq(W) /\ Len(c \o b) = n + 1
      /\ \A j \in 1 .. i : (c \o b)[j] = c[j]
      /\ \A j \in 1 .. n + 1 - i : (c \o b)[i + j] = b[j]
  <2>1. PICK k \in Nat, l \in Nat : k = i /\ l = n + 1 - i /\ k + l = n + 1
    OBVIOUS
  <2>2. k = Len(c) /\ l = Len(b)
    BY <1>2, <1>3, <2>1
  <2>3. /\ c \o b \in Seq(W) /\ Len(c \o b) = k + l
        /\ \A j \in 1 .. k : (c \o b)[j] = c[j]
        /\ \A j \in 1 .. l : (c \o b)[k + j] = b[j]
    <3>1. c \in Seq(W) /\ b \in Seq(W)
      BY <1>2, <1>3
    <3>2. Joined(W, c \o b, c, k, b, l)
      BY <2>2, <3>1, Concatenates, Zenon
    <3> QED BY <3>2, Zenon DEF Joined
  <2> QED BY <2>1, <2>3, Zenon
<1>6. (c \o b)[i] = e
  BY <1>3, <1>5
<1>7. \A j \in 1 .. n + 1 : j # i => (c \o b)[j] = IF j < i THEN s[j] ELSE s[j - 1]
  <2> TAKE j \in 1 .. n + 1
  <2> HAVE j # i
  <2>1. CASE j < i
    <3>1. j \in 1 .. i - 1 /\ j \in 1 .. i
      BY <2>1
    <3>2. (c \o b)[j] = s[j]
      BY <1>1, <1>3, <1>5, <3>1
    <3> QED BY <2>1, <3>2
  <2>2. CASE j > i
    <3>1. j - i \in 1 .. n + 1 - i /\ i - 1 + (j - i) = j - 1 /\ i + (j - i) = j
      BY <2>2
    <3>2. (c \o b)[i + (j - i)] = s[i - 1 + (j - i)]
      BY <1>2, <1>5, <3>1, Zenon
    <3>3. (c \o b)[j] = s[j - 1]
      BY <3>1, <3>2
    <3> QED BY <2>2, <3>3
  <2>3. j < i \/ j > i
    OBVIOUS
  <2> QED BY <2>1, <2>2, <2>3, Zenon
<1>8. c \o b \in Seq(W) /\ Len(c \o b) = n + 1
  BY <1>5
<1> QED BY <1>4, <1>6, <1>7, <1>8, Zenon DEF Inserted

-----------------------------------------------------------------------------
(***************************************************************************)
(* Numbers                                                                 *)
(***************************************************************************)

\* A set of numbers that is not empty has a least one: of the intervals that end
\* in it one holds no other, for inclusion of finite sets is well-founded.
LEMMA Least ==
  ASSUME NEW S \in SUBSET Nat, S # {}
  PROVE  \E m \in S : \A k \in S : m <= k
<1> DEFINE R == StrictSubsetOrdering(Nat)
           T == {1 .. n : n \in S}
<1>1. IsWellFoundedOn(R, FiniteSubsetsOf(Nat))
  BY FS_StrictSubsetOrderingWellFounded
<1>2. \A n \in S : 1 .. n \in SUBSET Nat /\ 1 .. n \in FiniteSubsetsOf(Nat)
  <2> TAKE n \in S
  <2>1. IsFiniteSet(1 .. n)
    BY FS_Interval
  <2> QED BY <2>1 DEF FiniteSubsetsOf
<1>3. T \subseteq FiniteSubsetsOf(Nat) /\ T # {}
  BY <1>2
<1>4. PICK x \in T : \A y \in T : <<y, x>> \notin R
  <2> HIDE DEF R, T
  <2> QED BY <1>1, <1>3, WFMin
<1>5. PICK m \in S : x = 1 .. m
  BY <1>4
<1>6. ASSUME NEW k \in S, k < m PROVE FALSE
  <2>1. 1 .. k \subseteq 1 .. m /\ 1 .. k # 1 .. m
    BY <1>6
  <2>2. <<1 .. k, 1 .. m>> \in R
    BY <2>1, <1>2 DEF StrictSubsetOrdering
  <2> QED BY <2>2, <1>4, <1>5
<1> QED BY <1>6

\* Induction over a set.
LEMMA Climb ==
  \A S \in SUBSET Nat : 0 \in S /\ (\A n \in S : n + 1 \in S) => S = Nat
<1> SUFFICES ASSUME NEW S \in SUBSET Nat, 0 \in S, \A n \in S : n + 1 \in S, Nat \ S # {}
             PROVE  FALSE
  OBVIOUS
<1>1. PICK m \in Nat \ S : \A k \in Nat \ S : m <= k
  <2>1. Nat \ S \in SUBSET Nat
    OBVIOUS
  <2> QED BY <2>1, Least
<1>2. m - 1 \in Nat /\ (m - 1) + 1 = m
  BY <1>1
<1>3. m - 1 \in S
  BY <1>1, <1>2
<1> QED BY <1>1, <1>2, <1>3
=============================================================================
