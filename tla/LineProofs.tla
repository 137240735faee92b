----------------------------- MODULE LineProofs -----------------------------
(***************************************************************************)
(* Proofs about Sio and Console, for any number of processes, any size of  *)
(* the buffers and any traffic.                                            *)
(*                                                                         *)
(* Each property is inductive once the pointers are known to say the same  *)
(* as the counts: in ReadInv the input buffer is a stretch of cells that   *)
(* starts where _innext points and ends where _inlast does, in SendInv     *)
(* the output buffer is a circle from _outnext to _outlast, and in KeysInv *)
(* the one of keys goes from c_next_char to c_next_space, with a cell kept *)
(* free.  The rest are lemmas about sequences: what a buffer holds is one, *)
(* and a character that moves from one end of a sequence to the next       *)
(* leaves their concatenation as it was.                                   *)
(***************************************************************************)
EXTENDS Console, ListFacts

-----------------------------------------------------------------------------
(***************************************************************************)
(* Sequences                                                               *)
(***************************************************************************)

\* Each of the first n elements is less than those that follow.
Ups(f, n) == \A i, j \in 1 .. n : i < j => f[i] < f[j]

\* The same for one more element at the end, and for one less, anywhere.
LEMMA UpsMore ==
  ASSUME NEW n \in Nat, NEW a \in Nat, NEW f, NEW g, Ups(f, n),
         \A i \in 1 .. n : f[i] \in Int /\ f[i] <= a /\ g[i] = f[i],
         g[n + 1] = a + 1
  PROVE  Ups(g, n + 1)
BY DEF Ups

Fewer(f, g, n, m) ==
  /\ Ups(g, n + m)
  /\ f[n + 1] \in Values(f, n + 1 + m)
  /\ Values(g, n + m) = Values(f, n + 1 + m) \ {f[n + 1]}

LEMMA UpsLess ==
  ASSUME NEW n \in Nat, NEW m \in Nat, NEW f, NEW g, Ups(f, n + 1 + m),
         \A i \in 1 .. n + 1 + m : f[i] \in Int,
         \A i \in 1 .. n : g[i] = f[i],
         \A i \in 1 .. m : g[n + i] = f[n + 1 + i]
  PROVE  Fewer(f, g, n, m)
<1>1. ASSUME NEW i \in n + 1 .. n + m PROVE g[i] = f[i + 1]
  <2>1. i - n \in 1 .. m /\ n + (i - n) = i /\ n + 1 + (i - n) = i + 1
    OBVIOUS
  <2>2. g[n + (i - n)] = f[n + 1 + (i - n)]
    BY <2>1
  <2> QED BY <2>1, <2>2
<1>2. Ups(g, n + m)
  BY <1>1 DEF Ups
<1>3. n + 1 \in 1 .. n + 1 + m
  OBVIOUS
<1>4. \A i \in 1 .. n + 1 + m : i # n + 1 => f[i] # f[n + 1]
  BY <1>3 DEF Ups
<1>5. \A i \in 1 .. n + m : \E j \in 1 .. n + 1 + m : j # n + 1 /\ g[i] = f[j]
  <2> TAKE i \in 1 .. n + m
  <2>1. CASE i \in 1 .. n
    <3>1. i \in 1 .. n + 1 + m /\ i # n + 1
      BY <2>1
    <3> QED BY <2>1, <3>1
  <2>2. CASE i \in n + 1 .. n + m
    <3>1. i + 1 \in 1 .. n + 1 + m /\ i + 1 # n + 1
      BY <2>2
    <3> QED BY <1>1, <2>2, <3>1
  <2> QED BY <2>1, <2>2
<1>6. \A j \in 1 .. n + 1 + m : j # n + 1 => \E i \in 1 .. n + m : g[i] = f[j]
  <2> TAKE j \in 1 .. n + 1 + m
  <2>1. CASE j \in 1 .. n
    <3>1. j \in 1 .. n + m
      BY <2>1
    <3> QED BY <2>1, <3>1
  <2>2. CASE j > n + 1
    <3>1. j - 1 \in 1 .. n + m /\ j - 1 \in n + 1 .. n + m /\ (j - 1) + 1 = j
      BY <2>2
    <3> QED BY <1>1, <3>1
  <2> QED BY <2>1, <2>2
<1> QED BY <1>2, <1>3, <1>4, <1>5, <1>6, SMTT(40) DEF Values, Fewer

Ascending(s) == Ups(s, Len(s))

LEMMA Concat ==
  ASSUME NEW W, NEW s \in Seq(W), NEW t \in Seq(W)
  PROVE  /\ s \o t \in Seq(W)
         /\ Len(s \o t) = Len(s) + Len(t)
         /\ \A i \in 1 .. Len(s) : (s \o t)[i] = s[i]
         /\ \A i \in 1 .. Len(t) : (s \o t)[Len(s) + i] = t[i]
BY ConcatProperties

LEMMA ConcatIs ==
  ASSUME NEW W, NEW s \in Seq(W), NEW x \in Seq(W), NEW y \in Seq(W),
         Len(s) = Len(x) + Len(y),
         \A i \in 1 .. Len(x) : s[i] = x[i],
         \A i \in 1 .. Len(y) : s[Len(x) + i] = y[i]
  PROVE  s = x \o y
<1>1. PICK n \in Nat, m \in Nat : n = Len(x) /\ m = Len(y)
  OBVIOUS
<1>2. x \o y \in Seq(W) /\ Len(x \o y) = Len(s)
  OBVIOUS
<1>3. \A i \in 1 .. Len(s) : s[i] = (x \o y)[i]
  <2>1. /\ \A i \in 1 .. n : (x \o y)[i] = x[i] /\ s[i] = x[i]
        /\ \A i \in 1 .. m : (x \o y)[n + i] = y[i] /\ s[n + i] = y[i]
    BY <1>1, Concat
  <2>2. \A i \in 1 .. n + m : i \in 1 .. n \/ (i - n \in 1 .. m /\ n + (i - n) = i)
    BY <1>1
  <2>3. \A i \in 1 .. n + m : s[i] = (x \o y)[i]
    BY <2>1, <2>2, ZenonT(60)
  <2> QED BY <1>1, <2>3
<1> QED BY <1>2, <1>3, SeqEqual

LEMMA Associative ==
  ASSUME NEW W, NEW s \in Seq(W), NEW t \in Seq(W), NEW u \in Seq(W)
  PROVE  (s \o t) \o u = s \o (t \o u)
BY ConcatAssociative

LEMMA Ends ==
  ASSUME NEW W, NEW s \in Seq(W)
  PROVE  /\ s \o <<>> = s /\ <<>> \o s = s
         /\ \A e \in W : Append(s, e) = s \o <<e>> /\ <<e>> \in Seq(W)
         /\ s # <<>> => /\ Head(s) \in W /\ Tail(s) \in Seq(W)
                        /\ s = <<Head(s)>> \o Tail(s)
<1>1. s \o <<>> = s /\ <<>> \o s = s
  OBVIOUS
<1>2. \A e \in W : Append(s, e) = s \o <<e>> /\ <<e>> \in Seq(W)
  OBVIOUS
<1>3. s # <<>> => Head(s) \in W /\ Tail(s) \in Seq(W)
  OBVIOUS
<1>4. s # <<>> => s = <<Head(s)>> \o Tail(s)
  OBVIOUS
<1> QED BY <1>1, <1>2, <1>3, <1>4

\* A greater element at the end.
LEMMA AscendingAppend ==
  ASSUME NEW s \in Seq(Nat), NEW a \in Nat, Ascending(s), ToSet(s) \subseteq 1 .. a
  PROVE  /\ Append(s, a + 1) \in Seq(Nat) /\ Ascending(Append(s, a + 1))
         /\ ToSet(Append(s, a + 1)) = ToSet(s) \cup {a + 1}
<1> DEFINE t == Append(s, a + 1)
<1>1. PICK n \in Nat : n = Len(s)
  OBVIOUS
<1>2. /\ t \in Seq(Nat) /\ Len(t) = n + 1 /\ t[n + 1] = a + 1
      /\ \A i \in 1 .. n : t[i] = s[i] /\ s[i] \in Int
  BY <1>1
<1> HIDE DEF t
<1>3. ToSet(s) = Values(s, n) /\ ToSet(t) = Values(t, n + 1)
  BY <1>1, <1>2, ToSetValues
<1>4. \A i \in 1 .. n : s[i] <= a
  BY <1>3 DEF Values
<1>5. Ups(s, n)
  BY <1>1 DEF Ascending
<1>6. Ups(t, n + 1)
  <2>1. /\ \A i \in 1 .. n : s[i] \in Int /\ s[i] <= a /\ t[i] = s[i]
        /\ t[n + 1] = a + 1
    BY <1>2, <1>4, Zenon
  <2> QED BY <1>5, <2>1, UpsMore, Zenon
<1>7. Values(t, n + 1) = Values(s, n) \cup {t[n + 1]}
  BY <1>2, ValuesMore
<1> QED BY <1>2, <1>3, <1>6, <1>7 DEF Ascending, t

\* One element less, anywhere.
LEMMA AscendingWithout ==
  ASSUME NEW x \in Seq(Nat), NEW y \in Seq(Nat), NEW h \in Nat,
         Ascending((x \o <<h>>) \o y)
  PROVE  /\ x \o y \in Seq(Nat) /\ Ascending(x \o y)
         /\ h \in ToSet((x \o <<h>>) \o y)
         /\ ToSet(x \o y) = ToSet((x \o <<h>>) \o y) \ {h}
<1> DEFINE s == (x \o <<h>>) \o y
           t == x \o y
<1>1. PICK n \in Nat : n = Len(x)
  OBVIOUS
<1>2. PICK m \in Nat : m = Len(y)
  OBVIOUS
<1>3. /\ t \in Seq(Nat) /\ Len(t) = n + m
      /\ \A i \in 1 .. n : t[i] = x[i]
      /\ \A i \in 1 .. m : t[n + i] = y[i]
  BY <1>1, <1>2
<1>4. /\ s \in Seq(Nat) /\ Len(s) = n + 1 + m
      /\ \A i \in 1 .. n : s[i] = x[i]
      /\ s[n + 1] = h
      /\ \A i \in 1 .. m : s[n + 1 + i] = y[i]
  BY <1>1, <1>2
<1> HIDE DEF s, t
<1>5. \A i \in 1 .. n + 1 + m : s[i] \in Int
  <2>1. \A i \in 1 .. Len(s) : s[i] \in Nat
    BY <1>4, ElementOfSeq
  <2>2. Len(s) = n + 1 + m
    BY <1>4, Zenon
  <2> QED BY <2>1, <2>2
<1>6. ToSet(s) = Values(s, n + 1 + m) /\ ToSet(t) = Values(t, n + m)
  BY <1>3, <1>4, ToSetValues
<1>7. Ups(s, n + 1 + m)
  BY <1>4 DEF Ascending, s
<1>8. Fewer(s, t, n, m)
  <2>1. /\ \A i \in 1 .. n : t[i] = s[i]
        /\ \A i \in 1 .. m : t[n + i] = s[n + 1 + i]
    BY <1>3, <1>4, Zenon
  <2> QED BY <1>5, <1>7, <2>1, UpsLess, Zenon
<1>9. /\ Ups(t, n + m) /\ s[n + 1] \in Values(s, n + 1 + m)
      /\ Values(t, n + m) = Values(s, n + 1 + m) \ {s[n + 1]}
  BY <1>8, Zenon DEF Fewer
<1> QED BY <1>3, <1>4, <1>6, <1>9 DEF Ascending, s, t

-----------------------------------------------------------------------------
(***************************************************************************)
(* Input                                                                   *)
(***************************************************************************)

\* count characters of a buffer.
Stored(buf, next, count) == [i \in 1 .. count |-> buf[next + i - 1]]

LEMMA StoredSeq ==
  ASSUME NEW buf \in [BufCells -> Nat], NEW next \in Nat, NEW count \in Nat, next + count <= BUF_SIZE
  PROVE  /\ Stored(buf, next, count) \in Seq(Nat)
         /\ Len(Stored(buf, next, count)) = count
<1>1. \A i \in 1 .. count : next + i - 1 \in BufCells
  BY BufferAssumption DEF BufCells
<1>2. \A i \in 1 .. count : buf[next + i - 1] \in Nat
  BY <1>1
<1> QED BY <1>2 DEF Stored

\* The first n are taken, and the rest lies at next1.
Taken(buf, next, count, n, next1) ==
  /\ SubSeq(Stored(buf, next, count), 1, n) \in Seq(Nat)
  /\ Stored(buf, next1, count - n) \in Seq(Nat)
  /\ Stored(buf, next, count)
       = SubSeq(Stored(buf, next, count), 1, n) \o Stored(buf, next1, count - n)

LEMMA StoredTaken ==
  ASSUME NEW buf \in [BufCells -> Nat], NEW next \in Nat, NEW count \in Nat, next + count <= BUF_SIZE,
         NEW n \in 0 .. count, NEW next1 \in Nat, n # count => next1 = next + n
  PROVE  Taken(buf, next, count, n, next1)
<1> DEFINE s == Stored(buf, next, count)
           x == SubSeq(s, 1, n)
           y == Stored(buf, next1, count - n)
<1>1. s \in Seq(Nat) /\ Len(s) = count /\ \A i \in 1 .. count : s[i] = buf[next + i - 1]
  BY StoredSeq DEF Stored
<1>2. PICK m \in Nat : m = count - n
  OBVIOUS
<1>3. \A i \in 1 .. m : y[i] = s[n + i]
  <2>1. \A i \in 1 .. m : y[i] = buf[next1 + i - 1]
    BY <1>2 DEF Stored
  <2>2. \A i \in 1 .. m : next1 + i - 1 = next + (n + i) - 1 /\ n + i \in 1 .. count
    BY <1>2
  <2> QED BY <1>1, <2>1, <2>2
<1>4. y = [i \in 1 .. m |-> buf[next1 + i - 1]]
  BY <1>2 DEF Stored
<1> HIDE DEF s, y
<1>5. y \in Seq(Nat) /\ Len(y) = m
  <2>1. \A i \in 1 .. m : n + i \in 1 .. count
    BY <1>2
  <2>2. \A i \in 1 .. count : s[i] \in Nat
    BY <1>1
  <2>3. \A i \in 1 .. m : y[i] \in Nat
    BY <1>3, <2>1, <2>2, Zenon
  <2> QED BY <1>4, <2>3
<1>6. x \in Seq(Nat) /\ Len(x) = n /\ \A i \in 1 .. n : x[i] = s[i]
  BY <1>1
<1> HIDE DEF x
<1>7. s = x \o y
  <2>1. Len(s) = Len(x) + Len(y)
    BY <1>1, <1>2, <1>5, <1>6
  <2>2. \A i \in 1 .. Len(y) : s[Len(x) + i] = y[i]
    BY <1>3, <1>5, <1>6, Zenon
  <2>3. \A i \in 1 .. Len(x) : s[i] = x[i]
    BY <1>6, Zenon
  <2> QED BY <1>1, <1>5, <1>6, <2>1, <2>2, <2>3, ConcatIs, ZenonT(60)
<1>8. x \in Seq(Nat) /\ y \in Seq(Nat) /\ s = x \o y
  BY <1>5, <1>6, <1>7
<1> QED BY <1>8, Zenon DEF s, x, y, Taken

LEMMA StoredMore ==
  ASSUME NEW buf \in [BufCells -> Nat], NEW next \in Nat, NEW count \in Nat, next + count < BUF_SIZE,
         NEW c \in Nat
  PROVE  Stored([buf EXCEPT ![next + count] = c], next, count + 1)
           = Stored(buf, next, count) \o <<c>>
<1> DEFINE s == Stored(buf, next, count)
           buf1 == [buf EXCEPT ![next + count] = c]
           t == Stored(buf1, next, count + 1)
           last == <<c>>
<1>1. next + count \in BufCells /\ next + count <= BUF_SIZE /\ next + (count + 1) <= BUF_SIZE
      /\ count + 1 \in Nat
  BY BufferAssumption DEF BufCells
<1>2. buf1 \in [BufCells -> Nat] /\ buf1[next + count] = c
      /\ \A i \in BufCells : i # next + count => buf1[i] = buf[i]
  BY <1>1
<1>3. \A i \in 1 .. count : next + i - 1 \in BufCells /\ next + i - 1 # next + count
                            /\ i \in 1 .. count + 1
  BY BufferAssumption DEF BufCells
<1>4. count + 1 \in 1 .. count + 1 /\ next + (count + 1) - 1 = next + count
  OBVIOUS
<1> HIDE DEF buf1
<1>5. /\ \A i \in 1 .. count : s[i] = buf[next + i - 1]
      /\ \A i \in 1 .. count + 1 : t[i] = buf1[next + i - 1]
  BY DEF Stored
<1>6. s \in Seq(Nat) /\ Len(s) = count
  BY <1>1, StoredSeq
<1>7. t \in Seq(Nat) /\ Len(t) = count + 1
  BY <1>1, <1>2, StoredSeq
<1>8. last \in Seq(Nat) /\ Len(last) = 1 /\ last[1] = c
  OBVIOUS
<1> HIDE DEF s, t, last
<1>9. \A i \in 1 .. count : t[i] = s[i]
  BY <1>2, <1>3, <1>5, Zenon
<1>10. t[count + 1] = last[1]
  BY <1>2, <1>4, <1>5, <1>8, Zenon
<1>11. \A i \in 1 .. Len(last) : t[Len(s) + i] = last[i]
  <2>1. \A i \in 1 .. 1 : i = 1
    OBVIOUS
  <2> QED BY <1>6, <1>8, <1>10, <2>1
<1>12. Len(t) = Len(s) + Len(last) /\ \A i \in 1 .. Len(s) : t[i] = s[i]
  BY <1>6, <1>7, <1>8, <1>9
<1>13. t = s \o last
  BY <1>6, <1>7, <1>8, <1>11, <1>12, ConcatIs, Zenon
<1> QED BY <1>13, Zenon DEF s, t, last, buf1

\* The characters that are still to be read or were, in order; those that are lost;
\* and how many have arrived.
Ordered(all, gone, number) ==
  /\ all \in Seq(Nat) /\ Ascending(all)
  /\ gone \cap ToSet(all) = {}
  /\ gone \cup ToSet(all) = 1 .. number

\* A character arrives; the first of the FIFO is lost.
LEMMA OrderedArrive ==
  ASSUME NEW x \in Seq(Nat), NEW f \in Seq(Nat), NEW l, NEW a \in Nat, Ordered(x \o f, l, a)
  PROVE  Ordered(x \o Append(f, a + 1), l, a + 1) /\ Ordered(x \o f, l \cup {a + 1}, a + 1)
<1> DEFINE s == x \o f
           t == Append(s, a + 1)
<1>1. x \o Append(f, a + 1) = t
  <2>1. a + 1 \in Nat
    OBVIOUS
  <2>2. \A e \in Nat : x \o Append(f, e) = Append(x \o f, e)
    OBVIOUS
  <2> QED BY <2>1, <2>2
<1>2. s \in Seq(Nat) /\ Ascending(s) /\ ToSet(s) \subseteq 1 .. a
      /\ l \cap ToSet(s) = {} /\ l \cup ToSet(s) = 1 .. a
  BY Zenon DEF Ordered
<1>3. t \in Seq(Nat) /\ Ascending(t) /\ ToSet(t) = ToSet(s) \cup {a + 1}
  BY <1>2, AscendingAppend, Zenon
<1>4. (1 .. a + 1) = (1 .. a) \cup {a + 1} /\ a + 1 \notin 1 .. a
  OBVIOUS
<1> HIDE DEF s, t
<1>5. Ordered(t, l, a + 1) /\ Ordered(s, l \cup {a + 1}, a + 1)
  BY <1>2, <1>3, <1>4 DEF Ordered
<1> QED BY <1>1, <1>5 DEF s, t

LEMMA OrderedLose ==
  ASSUME NEW x \in Seq(Nat), NEW f \in Seq(Nat), NEW l, NEW a \in Nat, Ordered(x \o f, l, a),
         f # <<>>
  PROVE  Ordered(x \o Tail(f), l \cup {Head(f)}, a)
<1>1. PICK h \in Nat, y \in Seq(Nat) : h = Head(f) /\ y = Tail(f) /\ f = <<h>> \o y
                                        /\ <<h>> \in Seq(Nat)
  BY Ends
<1>2. x \o f = (x \o <<h>>) \o y
  <2>1. (x \o <<h>>) \o y = x \o (<<h>> \o y)
    BY <1>1, Associative, SMTT(40)
  <2> QED BY <1>1, <2>1
<1> DEFINE s == (x \o <<h>>) \o y
           t == x \o y
<1>3. s \in Seq(Nat) /\ Ascending(s) /\ l \cap ToSet(s) = {} /\ l \cup ToSet(s) = 1 .. a
  BY <1>2, Zenon DEF Ordered
<1>4. t \in Seq(Nat) /\ Ascending(t) /\ h \in ToSet(s) /\ ToSet(t) = ToSet(s) \ {h}
  BY <1>3, AscendingWithout, Zenon
<1> HIDE DEF s, t
<1>5. Ordered(t, l \cup {h}, a)
  BY <1>3, <1>4 DEF Ordered
<1> QED BY <1>1, <1>5 DEF t

\* The two for numbers, and what a step passes on: got characters g, buffer b, and
\* FIFO f.
LEMMA NumbersAssociate ==
  \A s, t, u \in Seq(Nat) : (s \o t) \o u = s \o (t \o u)
BY Associative, SMTT(40)

LEMMA MovedUp ==
  ASSUME NEW g \in Seq(Nat), NEW b \in Seq(Nat), NEW f \in Seq(Nat), f # <<>>
  PROVE  /\ (g \o (b \o <<Head(f)>>)) \o Tail(f) = (g \o b) \o f
         /\ b = <<>> => (Append(g, Head(f)) \o b) \o Tail(f) = (g \o b) \o f
<1>1. PICK h \in Nat, y \in Seq(Nat) : h = Head(f) /\ y = Tail(f) /\ f = <<h>> \o y
                                      /\ <<h>> \in Seq(Nat)
  BY Ends
<1>2. (g \o (b \o <<h>>)) \o y = (g \o b) \o f
  <2>1. g \o (b \o <<h>>) = (g \o b) \o <<h>> /\ g \o b \in Seq(Nat)
    BY <1>1, Associative, Concat, SMTT(40)
  <2>2. ((g \o b) \o <<h>>) \o y = (g \o b) \o (<<h>> \o y)
    <3>1. PICK u \in Seq(Nat) : u = g \o b
      BY <2>1
    <3>2. PICK e \in Seq(Nat) : e = <<h>>
      BY <1>1
    <3>3. (u \o e) \o y = u \o (e \o y)
      BY NumbersAssociate, ZenonT(60)
    <3> QED BY <3>1, <3>2, <3>3, Zenon
  <2> QED BY <1>1, <2>1, <2>2, Zenon
<1>3. ASSUME b = <<>> PROVE (Append(g, h) \o b) \o y = (g \o b) \o f
  <2>1. Append(g, h) = g \o <<h>> /\ g \o b = g
    BY <1>3, Ends
  <2>2. g \o <<h>> \in Seq(Nat) /\ (g \o <<h>>) \o b = g \o <<h>>
    BY <1>1, <1>3, Concat, Ends
  <2>3. (g \o <<h>>) \o y = g \o f
    <3>1. (g \o <<h>>) \o y = g \o (<<h>> \o y)
      BY <1>1, Associative, SMTT(40)
    <3> QED BY <1>1, <3>1
  <2> QED BY <2>1, <2>2, <2>3
<1> QED BY <1>1, <1>2, <1>3

\* While the program has not written outside of a buffer.
InputInv ==
  ~overrun =>
    /\ inbuffer \in [BufCells -> Nat] /\ innext \in Nat /\ incount \in Nat
    /\ inlast = innext + incount /\ inlast <= BUF_SIZE
    /\ rx_fifo \in Seq(Nat) /\ got \in Seq(Nat) /\ arrived \in Nat
    /\ Ordered((got \o Stored(inbuffer, innext, incount)) \o rx_fifo, lost, arrived)

ReadInv == InputInv /\ NoWaitWithData

LEMMA ReadAside ==
  ASSUME ReadInv, UNCHANGED <<inVars, reading, rx_fifo, inLog>>, overrun' \/ ~overrun
  PROVE  ReadInv'
BY DEF ReadInv, InputInv, NoWaitWithData, Stored, Ordered, Ascending, inVars, inLog

LEMMA ReadsData ==
  ASSUME ReadInv, ~overrun, NEW p, NEW length \in Nat, sys_read_data(p, length),
         UNCHANGED <<overrun, rx_fifo, arrived, lost>>
  PROVE  ReadInv'
<1> DEFINE b == Stored(inbuffer, innext, incount)
           n == IF length < incount THEN length ELSE incount
           x == SubSeq(b, 1, n)
           y == Stored(inbuffer, innext', incount - n)
<1>1. /\ inbuffer \in [BufCells -> Nat] /\ innext \in Nat /\ incount \in Nat
      /\ inlast = innext + incount /\ inlast <= BUF_SIZE
      /\ rx_fifo \in Seq(Nat) /\ got \in Seq(Nat) /\ arrived \in Nat
      /\ Ordered((got \o b) \o rx_fifo, lost, arrived)
  BY DEF ReadInv, InputInv
<1>2. b = Buffered
  BY DEF Stored, Buffered
<1>3. /\ incount > 0 /\ length > 0
      /\ got' = got \o x /\ incount' = incount - n /\ UNCHANGED <<inbuffer, proc, reading>>
      /\ IF incount' = 0 THEN innext' = 0 /\ inlast' = 0
                         ELSE innext' = innext + n /\ inlast' = inlast
  BY <1>2 DEF sys_read_data, sio_reads, procVars
<1>4. n \in 0 .. incount /\ innext' \in Nat /\ (n # incount => innext' = innext + n)
  BY <1>1, <1>3
<1>5. /\ incount' \in Nat /\ inlast' = innext' + incount' /\ inlast' <= BUF_SIZE
  BY <1>1, <1>3, <1>4, BufferAssumption
<1>6. innext + incount <= BUF_SIZE
  BY <1>1
<1>7. x \in Seq(Nat) /\ y \in Seq(Nat) /\ b = x \o y /\ b \in Seq(Nat)
  <2>1. x \in Seq(Nat) /\ y \in Seq(Nat) /\ b = x \o y
    <3> HIDE DEF n
    <3>1. PICK next1 \in Nat : next1 = innext'
      BY <1>4
    <3>2. n # incount => next1 = innext + n
      BY <1>4, <3>1, Zenon
    <3>3. Taken(inbuffer, innext, incount, n, next1)
      BY <1>1, <1>4, <1>6, <3>2, StoredTaken
    <3> QED BY <3>1, <3>3, Zenon DEF Taken
  <2> QED BY <1>1, <1>6, <2>1, StoredSeq
<1>8. y = Stored(inbuffer', innext', incount')
  BY <1>3
<1> HIDE DEF b, n, x, y
<1>9. ((got \o x) \o y) \o rx_fifo = (got \o b) \o rx_fifo
  <2>1. ((got \o x) \o y) \o rx_fifo = (got \o (x \o y)) \o rx_fifo
    <3>1. PICK g \in Seq(Nat), f \in Seq(Nat) : g = got /\ f = rx_fifo
      BY <1>1
    <3>2. x \in Seq(Nat) /\ y \in Seq(Nat)
      BY <1>7
    <3>3. ((g \o x) \o y) \o f = (g \o (x \o y)) \o f
      <4>1. (g \o x) \o y = g \o (x \o y)
        BY <3>2, Associative, SMTT(40)
      <4> QED BY <4>1, Zenon
    <3> QED BY <3>1, <3>3, Zenon
  <2> QED BY <1>7, <2>1, Zenon
<1>10. Ordered((got' \o y) \o rx_fifo', lost', arrived')
  BY <1>1, <1>3, <1>9, Zenon
<1>11. got' \in Seq(Nat)
  BY <1>1, <1>3, <1>7, Concat
<1>12. NoWaitWithData'
  BY <1>3 DEF ReadInv, NoWaitWithData
<1> QED BY <1>1, <1>3, <1>4, <1>5, <1>8, <1>10, <1>11, <1>12, Zenon DEF ReadInv, InputInv

LEMMA ReadArrives ==
  ASSUME ReadInv, Arrive
  PROVE  ReadInv'
<1> DEFINE x == got \o Stored(inbuffer, innext, incount)
<1>1. /\ ~overrun /\ arrived' = arrived + 1 /\ UNCHANGED <<inVars, procVars, got, overrun>>
      /\ \/ rx_fifo' = Append(rx_fifo, arrived + 1) /\ lost' = lost
         \/ lost' = lost \cup {arrived + 1} /\ rx_fifo' = rx_fifo
  BY DEF Arrive
<1>2. /\ inbuffer \in [BufCells -> Nat] /\ innext \in Nat /\ incount \in Nat
      /\ inlast = innext + incount /\ inlast <= BUF_SIZE
      /\ rx_fifo \in Seq(Nat) /\ got \in Seq(Nat) /\ arrived \in Nat
      /\ Ordered(x \o rx_fifo, lost, arrived)
  BY <1>1 DEF ReadInv, InputInv
<1>3. x \in Seq(Nat)
  <2>1. innext + incount <= BUF_SIZE
    BY <1>2
  <2> QED BY <1>2, <2>1, StoredSeq, Concat
<1>4. UNCHANGED <<inbuffer, innext, incount, inlast, got, reading, overrun>> /\ x' = x
  BY <1>1 DEF inVars, procVars, Stored
<1> HIDE DEF x
<1>5. rx_fifo' \in Seq(Nat) /\ arrived' \in Nat
  <2>1. arrived + 1 \in Nat /\ Append(rx_fifo, arrived + 1) \in Seq(Nat)
    BY <1>2
  <2> QED BY <1>1, <1>2, <2>1, Zenon
<1>6. Ordered(x \o rx_fifo', lost', arrived')
  BY <1>1, <1>2, <1>3, OrderedArrive, Zenon
<1>7. NoWaitWithData'
  BY <1>4 DEF ReadInv, NoWaitWithData
<1>8. Ordered((got' \o Stored(inbuffer', innext', incount')) \o rx_fifo', lost', arrived')
  BY <1>4, <1>6 DEF x
<1>9. inbuffer' \in [BufCells -> Nat] /\ innext' \in Nat /\ incount' \in Nat
      /\ inlast' = innext' + incount' /\ inlast' <= BUF_SIZE /\ got' \in Seq(Nat)
  BY <1>2, <1>4
<1> QED BY <1>5, <1>7, <1>8, <1>9, Zenon DEF ReadInv, InputInv

\* A character is read from the UART and dropped.
LEMMA ReadLoses ==
  ASSUME ReadInv, ~overrun, rx_fifo # <<>>, rx_fifo' = Tail(rx_fifo),
         lost' = lost \cup {Head(rx_fifo)}, UNCHANGED <<inVars, reading, got, arrived, overrun>>
  PROVE  ReadInv'
<1> DEFINE b == Stored(inbuffer, innext, incount)
           h == Head(rx_fifo)
<1>1. /\ inbuffer \in [BufCells -> Nat] /\ innext \in Nat /\ incount \in Nat
      /\ inlast = innext + incount /\ inlast <= BUF_SIZE
      /\ rx_fifo \in Seq(Nat) /\ got \in Seq(Nat) /\ arrived \in Nat
      /\ Ordered((got \o b) \o rx_fifo, lost, arrived)
  BY DEF ReadInv, InputInv
<1>2. rx_fifo' \in Seq(Nat)
  BY <1>1, Ends
<1>3. innext + incount <= BUF_SIZE
  BY <1>1
<1>4. got \o b \in Seq(Nat)
  BY <1>1, <1>3, StoredSeq, Concat
<1>5. Ordered((got \o b) \o Tail(rx_fifo), lost \cup {h}, arrived)
  BY <1>1, <1>4, OrderedLose
<1>6. UNCHANGED <<inbuffer, innext, incount, inlast>> /\ b = Stored(inbuffer', innext', incount')
  BY DEF inVars
<1>7. NoWaitWithData'
  BY <1>6 DEF ReadInv, NoWaitWithData
<1> HIDE DEF b, h
<1>8. Ordered((got' \o b) \o rx_fifo', lost', arrived')
  BY <1>5, Zenon DEF h
<1> QED BY <1>1, <1>2, <1>6, <1>7, <1>8 DEF ReadInv, InputInv

\* A character is given to the process that waits, stored, or lost.
LEMMA ReadReceives ==
  ASSUME ReadInv, sio_isr_rx
  PROVE  ReadInv'
<1> DEFINE b == Stored(inbuffer, innext, incount)
           h == Head(rx_fifo)
<1>1. /\ ~overrun /\ rx_fifo # <<>> /\ rx_fifo' = Tail(rx_fifo) /\ arrived' = arrived
      /\ isr_rx_wake \/ isr_rx_store \/ isr_rx_ignore
  BY DEF sio_isr_rx, InIsr, RxPending
<1>2. /\ inbuffer \in [BufCells -> Nat] /\ innext \in Nat /\ incount \in Nat
      /\ inlast = innext + incount /\ inlast <= BUF_SIZE
      /\ rx_fifo \in Seq(Nat) /\ got \in Seq(Nat) /\ arrived \in Nat
      /\ Ordered((got \o b) \o rx_fifo, lost, arrived)
  BY <1>1 DEF ReadInv, InputInv
<1>3. h \in Nat /\ rx_fifo' \in Seq(Nat) /\ Tail(rx_fifo) \in Seq(Nat)
  BY <1>1, <1>2, Ends
<1>4. innext + incount <= BUF_SIZE
  BY <1>2
<1>5. b \in Seq(Nat)
  BY <1>2, <1>4, StoredSeq
<1>6. got \o b \in Seq(Nat)
  BY <1>2, <1>5, Concat
<1>7. Ordered((got \o b) \o Tail(rx_fifo), lost \cup {h}, arrived)
  BY <1>1, <1>2, <1>6, OrderedLose
<1>8. CASE isr_rx_wake
  <2>1. /\ reading # <<>> /\ UNCHANGED <<inVars, overrun>>
        /\ \/ lost' = lost \cup {h} /\ got' = got
           \/ got' = Append(got, h) /\ lost' = lost
    BY <1>8 DEF isr_rx_wake
  <2>2. incount = 0
    BY <2>1 DEF ReadInv, NoWaitWithData
  <2>3. b = <<>>
    BY <2>2 DEF Stored
  <2> HIDE DEF b, h
  <2>4. got' \in Seq(Nat) /\ Ordered((got' \o b) \o rx_fifo', lost', arrived')
    <3>1. CASE lost' = lost \cup {h} /\ got' = got
      BY <1>1, <1>2, <1>7, <3>1, Zenon
    <3>2. CASE got' = Append(got, h) /\ lost' = lost
      <4>1. (Append(got, h) \o b) \o Tail(rx_fifo) = (got \o b) \o rx_fifo
        BY <1>1, <1>2, <1>5, <2>3, MovedUp DEF h
      <4>2. Append(got, h) \in Seq(Nat)
        BY <1>2, <1>3
      <4> QED BY <1>1, <1>2, <3>2, <4>1, <4>2, Zenon
    <3> QED BY <2>1, <3>1, <3>2
  <2>5. UNCHANGED <<inbuffer, innext, incount, inlast>> /\ b = Stored(inbuffer', innext', incount')
    BY <2>1 DEF inVars, b
  <2>6. NoWaitWithData'
    BY <2>2, <2>5 DEF NoWaitWithData
  <2> QED BY <1>1, <1>2, <1>3, <2>4, <2>5, <2>6 DEF ReadInv, InputInv
<1>9. CASE isr_rx_store
  <2>1. /\ reading = <<>> /\ incount < BUF_SIZE /\ inlast' = inlast + 1 /\ incount' = incount + 1
        /\ UNCHANGED <<innext, reading, got, lost>>
        /\ \/ overrun'
           \/ /\ inlast < BUF_SIZE /\ inbuffer' = [inbuffer EXCEPT ![inlast] = h] /\ ~overrun'
    BY <1>1, <1>9 DEF isr_rx_store, procVars
  <2>2. NoWaitWithData'
    BY <2>1 DEF NoWaitWithData
  <2>3. CASE overrun'
    BY <2>2, <2>3 DEF ReadInv, InputInv
  <2>4. CASE ~overrun'
    <3>1. inlast < BUF_SIZE /\ inbuffer' = [inbuffer EXCEPT ![inlast] = h]
      BY <2>1, <2>4
    <3>2. innext + incount < BUF_SIZE /\ inbuffer' = [inbuffer EXCEPT ![innext + incount] = h]
      BY <1>2, <3>1
    <3>3. Stored(inbuffer', innext', incount') = b \o <<h>>
      <4> HIDE DEF h
      <4>1. Stored([inbuffer EXCEPT ![innext + incount] = h], innext, incount + 1) = b \o <<h>>
        BY <1>2, <1>3, <3>2, StoredMore, ZenonT(60)
      <4> QED BY <2>1, <3>2, <4>1, Zenon
    <3>4. (got \o (b \o <<h>>)) \o Tail(rx_fifo) = (got \o b) \o rx_fifo
      <4> HIDE DEF b
      <4>1. (got \o (b \o <<Head(rx_fifo)>>)) \o Tail(rx_fifo) = (got \o b) \o rx_fifo
        BY <1>1, <1>2, <1>5, MovedUp, Zenon
      <4> QED BY <4>1
    <3> HIDE DEF b, h
    <3>5. Ordered((got' \o Stored(inbuffer', innext', incount')) \o rx_fifo', lost', arrived')
      BY <1>1, <1>2, <2>1, <3>3, <3>4, Zenon
    <3>6. /\ innext' \in Nat /\ incount' \in Nat /\ inlast' = innext' + incount'
          /\ inlast' <= BUF_SIZE
      BY <1>2, <2>1, <3>1, BufferAssumption
    <3>8. inbuffer' \in [BufCells -> Nat]
      BY <1>2, <1>3, <3>1
    <3>7. got' \in Seq(Nat) /\ arrived' \in Nat
      BY <1>1, <1>2, <2>1
    <3> QED BY <1>3, <2>2, <3>5, <3>6, <3>7, <3>8, Zenon DEF ReadInv, InputInv
  <2> QED BY <2>3, <2>4
<1>10. CASE isr_rx_ignore
  BY <1>1, <1>10, ReadLoses DEF isr_rx_ignore, procVars
<1> QED BY <1>1, <1>8, <1>9, <1>10

LEMMA NextRead ==
  ASSUME 0 \notin ReadLengths, ReadInv, [Next]_vars
  PROVE  ReadInv'
<1>1. ASSUME NEW p, NEW n \in ReadLengths, sys_read(p, n) PROVE ReadInv'
  <2>1. ~overrun /\ UNCHANGED <<overrun, rx_fifo, arrived, lost>> /\ n \in Nat /\ n # 0
    BY <1>1, LengthsAssumption DEF sys_read, InUser
  <2>2. CASE sys_read_data(p, n)
    BY <2>1, <2>2, ReadsData
  <2>3. CASE sys_read_block(p, n)
    <3>1. incount = 0 /\ UNCHANGED <<inVars, got>>
      BY <2>1, <2>3 DEF sys_read_block
    <3>2. NoWaitWithData'
      BY <3>1 DEF NoWaitWithData, inVars
    <3>3. InputInv'
      BY <2>1, <3>1 DEF ReadInv, InputInv, Stored, Ordered, Ascending, inVars
    <3> QED BY <3>2, <3>3 DEF ReadInv
  <2> QED BY <1>1, <2>2, <2>3 DEF sys_read
<1>2. ASSUME NEW p, sys_kill(p) PROVE ReadInv'
  BY <1>2, ReadAside DEF sys_kill, InUser
<1>3. ASSUME NEW p, NEW w, sys_write(p, w) PROVE ReadInv'
  BY <1>3, ReadAside DEF sys_write, InUser, procVars
<1>4. CASE Transmit \/ sio_isr_enter \/ sio_isr_tx \/ sio_isr_exit
  BY <1>4, ReadAside DEF Transmit, sio_isr_enter, sio_isr_tx, sio_isr_exit, InIsr, InUser, procVars
<1>5. CASE UNCHANGED vars
  BY <1>5, ReadAside DEF vars, procVars
<1>6. CASE sio_isr_timeout
  BY <1>6, ReadLoses DEF sio_isr_timeout, InIsr, RxPending, procVars
<1> QED BY <1>1, <1>2, <1>3, <1>4, <1>5, <1>6, ReadArrives, ReadReceives DEF Next, Isr

LEMMA InitRead == Init => ReadInv
<1> SUFFICES ASSUME Init PROVE ReadInv
  OBVIOUS
<1>1. /\ inbuffer = [i \in BufCells |-> 0] /\ inlast = 0 /\ innext = 0 /\ incount = 0
      /\ rx_fifo = <<>> /\ got = <<>> /\ arrived = 0 /\ lost = {} /\ reading = <<>>
  BY DEF Init
<1>2. (got \o Stored(inbuffer, innext, incount)) \o rx_fifo = <<>>
  BY <1>1 DEF Stored
<1>3. Ordered(<<>>, {}, 0)
  BY DEF Ordered, Ascending, Ups, ToSet
<1> QED BY <1>1, <1>2, <1>3, BufferAssumption DEF ReadInv, InputInv, NoWaitWithData

\* Characters reach processes in the order in which they arrived, each once, and no
\* process waits while there are some (sio.c, "Input"), if no program asks read()
\* for 0 characters: for any sizes of the buffer and the FIFO, any number of
\* characters and processes, some of which are killed as they wait.
THEOREM InputIsServed ==
  ASSUME 0 \notin ReadLengths
  PROVE  Spec => []InputServed
<1>1. ReadInv => InputServed
  <2> SUFFICES ASSUME ReadInv, ~overrun PROVE InputInOrder
    BY DEF ReadInv, InputServed, InputInOrder
  <2> DEFINE all == (got \o Stored(inbuffer, innext, incount)) \o rx_fifo
  <2>1. Ordered(all, lost, arrived)
    BY DEF ReadInv, InputInv
  <2>2. all = got \o Buffered \o rx_fifo
    BY DEF Stored, Buffered
  <2> HIDE DEF all
  <2>3. Increasing(all)
    <3>1. all \in Seq(Nat) /\ Ups(all, Len(all))
      BY <2>1 DEF Ordered, Ascending
    <3> QED BY <3>1 DEF Increasing, Ups
  <2> QED BY <2>1, <2>2, <2>3 DEF Ordered, InputInOrder
<1> QED BY <1>1, InitRead, NextRead, PTL DEF Spec

-----------------------------------------------------------------------------
(***************************************************************************)
(* Output                                                                  *)
(***************************************************************************)

LEMMA InitArmed == Init => TransmitterArmed
<1> SUFFICES ASSUME Init PROVE TransmitterArmed
  OBVIOUS
<1>1. ~(0 > 0)
  OBVIOUS
<1>2. outcount = 0 /\ thr = <<>> /\ sending = FALSE /\ tx_enabled = FALSE
  BY Zenon DEF Init
<1> QED BY <1>1, <1>2, Zenon DEF TransmitterArmed

LEMMA NextArmed == TransmitterArmed /\ [Next]_vars => TransmitterArmed'
<1> SUFFICES ASSUME TransmitterArmed, [Next]_vars PROVE TransmitterArmed'
  OBVIOUS
<1>1. ASSUME UNCHANGED <<outVars, thr>> PROVE TransmitterArmed'
  BY <1>1 DEF TransmitterArmed, outVars
<1>2. ASSUME NEW p, NEW w, sys_write(p, w) PROVE TransmitterArmed'
  BY <1>2 DEF TransmitterArmed, sys_write, sio_write_queue, sio_write_first, sio_write_newline
<1>3. CASE Transmit
  BY <1>3 DEF TransmitterArmed, Transmit, outVars
<1>4. CASE sio_isr_tx
  <2>1. sending /\ tx_enabled /\ thr = <<>>
    BY <1>4, Zenon DEF TransmitterArmed, sio_isr_tx, TxPending
  <2>2. CASE isr_tx_send
    <3>1. sending' = sending /\ tx_enabled' = tx_enabled
      BY <2>2, Zenon DEF isr_tx_send
    <3> QED BY <2>1, <3>1, Zenon DEF TransmitterArmed
  <2>3. CASE isr_tx_end
    <3>1. ~(0 > 0)
      OBVIOUS
    <3>2. outcount' = 0 /\ thr' = thr /\ sending' = FALSE /\ tx_enabled' = FALSE
      BY <2>3, Zenon DEF isr_tx_end
    <3> QED BY <2>1, <3>1, <3>2, Zenon DEF TransmitterArmed
  <2> QED BY <1>4, <2>2, <2>3 DEF sio_isr_tx
<1>5. ASSUME NEW p, NEW n, sys_read(p, n) PROVE TransmitterArmed'
  BY <1>1, <1>5 DEF sys_read
<1>6. ASSUME NEW p, sys_kill(p) PROVE TransmitterArmed'
  BY <1>1, <1>6 DEF sys_kill
<1>7. CASE Arrive \/ sio_isr_enter \/ sio_isr_rx \/ sio_isr_timeout \/ sio_isr_exit \/ UNCHANGED vars
  BY <1>1, <1>7 DEF Arrive, sio_isr_enter, sio_isr_rx, sio_isr_timeout, sio_isr_exit, vars
<1> QED BY <1>2, <1>3, <1>4, <1>5, <1>6, <1>7 DEF Next, Isr

\* A transmit sequence cannot get stuck: characters are buffered only while one
\* is under way, and then the interrupt that continues it is enabled (_sio_isr,
\* _sio_write, _sio_writec, sio_enable and sio_disable).
THEOREM TransmitterIsArmed == Spec => []TransmitterArmed
BY InitArmed, NextArmed, PTL DEF Spec

\* The remainder, for what is less than twice the divisor.
LEMMA Wrap ==
  ASSUME NEW b \in Nat, b >= 1, NEW a \in Nat, a < 2 * b
  PROVE  a % b = (IF a < b THEN a ELSE a - b) /\ a % b \in 0 .. b - 1
<1>1. \A c \in 0 .. b - 1 : c % b = c
  BY SMT
<1>2. \A c \in b .. 2 * b - 1 : c % b = c - b
  BY SMT
<1> QED BY <1>1, <1>2

\* count elements of a circular buffer of some size, from the next on.
Circle(size, buf, next, count) == [i \in 1 .. count |-> buf[(next + i - 1) % size]]

LEMMA CircleSeq ==
  ASSUME NEW size \in Nat, size >= 1, NEW W, NEW buf \in [0 .. size - 1 -> W],
         NEW next \in 0 .. size - 1, NEW count \in 0 .. size
  PROVE  /\ Circle(size, buf, next, count) \in Seq(W)
         /\ Len(Circle(size, buf, next, count)) = count
         /\ (next + count) % size \in 0 .. size - 1
<1>1. \A i \in 1 .. count : (next + i - 1) % size \in 0 .. size - 1
  <2> TAKE i \in 1 .. count
  <2>1. PICK a \in Nat : a = next + i - 1 /\ a < 2 * size
    OBVIOUS
  <2>2. a % size \in 0 .. size - 1
    BY <2>1, Wrap
  <2> QED BY <2>1, <2>2, Zenon
<1>2. \A i \in 1 .. count : buf[(next + i - 1) % size] \in W
  BY <1>1, Zenon
<1>3. (next + count) % size \in 0 .. size - 1
  <2>1. PICK a \in Nat : a = next + count /\ a < 2 * size
    OBVIOUS
  <2>2. a % size \in 0 .. size - 1
    BY <2>1, Wrap
  <2> QED BY <2>1, <2>2, Zenon
<1> QED BY <1>2, <1>3 DEF Circle

LEMMA CircleSeqs ==
  \A m \in Nat : m >= 1 => \A V : \A b \in [0 .. m - 1 -> V], n \in 0 .. m - 1, k \in 0 .. m :
    Circle(m, b, n, k) \in Seq(V) /\ Len(Circle(m, b, n, k)) = k
BY CircleSeq, SMTT(40)

\* The first element, and the rest.
LEMMA CircleLess ==
  ASSUME NEW size \in Nat, size >= 1, NEW W, NEW buf \in [0 .. size - 1 -> W],
         NEW next \in 0 .. size - 1, NEW count \in 1 .. size,
         NEW next1, next1 = IF next + 1 >= size THEN 0 ELSE next + 1
  PROVE  /\ next1 \in 0 .. size - 1
         /\ Circle(size, buf, next, count) = <<buf[next]>> \o Circle(size, buf, next1, count - 1)
         /\ (next1 + (count - 1)) % size = (next + count) % size
<1>1. size \in Nat /\ size >= 1 /\ next \in 0 .. size - 1
  OBVIOUS
<1>2. next1 \in 0 .. size - 1
  BY <1>1
<1>3. \A j \in 0 .. size - 1 : (next1 + j) % size = (next + (j + 1)) % size
  <2> TAKE j \in 0 .. size - 1
  <2>1. PICK a \in Nat : a = next1 + j /\ a < 2 * size
    BY <1>1, <1>2
  <2>2. PICK b \in Nat : b = next + (j + 1) /\ b < 2 * size
    BY <1>1
  <2>3. /\ a % size = IF a < size THEN a ELSE a - size
        /\ b % size = IF b < size THEN b ELSE b - size
    BY <1>1, <2>1, <2>2, Wrap
  <2>4. (IF a < size THEN a ELSE a - size) = IF b < size THEN b ELSE b - size
    BY <1>1, <2>1, <2>2
  <2> QED BY <2>1, <2>2, <2>3, <2>4, Zenon
<1> DEFINE s == Circle(size, buf, next, count)
           x == <<buf[next]>>
           y == Circle(size, buf, next1, count - 1)
<1>4. s \in Seq(W) /\ Len(s) = count
  <2>1. count \in 0 .. size
    BY <1>1
  <2> QED BY <2>1, CircleSeq
<1>5. y \in Seq(W) /\ Len(y) = count - 1
  <2>1. PICK c \in 0 .. size : c = count - 1
    BY <1>1
  <2>2. \A b \in [0 .. size - 1 -> W], n \in 0 .. size - 1, k \in 0 .. size :
          Circle(size, b, n, k) \in Seq(W) /\ Len(Circle(size, b, n, k)) = k
    BY CircleSeqs, Zenon
  <2>3. Circle(size, buf, next1, c) \in Seq(W) /\ Len(Circle(size, buf, next1, c)) = c
    BY <1>2, <2>2, Zenon
  <2> QED BY <2>1, <2>3
<1>6. x \in Seq(W) /\ Len(x) = 1 /\ x[1] = buf[next]
  OBVIOUS
<1>7. /\ \A i \in 1 .. count : s[i] = buf[(next + i - 1) % size]
      /\ \A i \in 1 .. count - 1 : y[i] = buf[(next1 + i - 1) % size]
  BY DEF Circle
<1> HIDE DEF s, x, y
<1>8. s[1] = x[1]
  <2>1. next % size = next
    <3>1. next \in Nat /\ next < size /\ next < 2 * size
      BY <1>1
    <3>2. next % size = IF next < size THEN next ELSE next - size
      BY <1>1, <3>1, Wrap, Zenon
    <3> QED BY <3>1, <3>2, Zenon
  <2>2. 1 \in 1 .. count /\ next + 1 - 1 = next
    BY <1>1
  <2> QED BY <1>6, <1>7, <2>1, <2>2, Zenon
<1>9. \A i \in 1 .. count - 1 : s[1 + i] = y[i]
  <2> TAKE i \in 1 .. count - 1
  <2>1. PICK j \in 0 .. size - 1 : j = i - 1
    BY <1>1
  <2>2. /\ 1 + i \in 1 .. count /\ next + (1 + i) - 1 = next + (j + 1)
        /\ next1 + i - 1 = next1 + j
    BY <1>1, <1>2, <2>1
  <2>3. (next1 + j) % size = (next + (j + 1)) % size
    BY <1>3
  <2>4. s[1 + i] = buf[(next + (1 + i) - 1) % size] /\ y[i] = buf[(next1 + i - 1) % size]
    BY <1>7, <2>2, Zenon
  <2> QED BY <2>2, <2>3, <2>4, Zenon
<1>10. s = x \o y
  <2>1. Len(s) = Len(x) + Len(y)
    BY <1>1, <1>4, <1>5, <1>6
  <2>2. \A i \in 1 .. Len(x) : s[i] = x[i]
    BY <1>6, <1>8
  <2>3. \A i \in 1 .. Len(y) : s[Len(x) + i] = y[i]
    BY <1>5, <1>6, <1>9, Zenon
  <2> QED BY <1>4, <1>5, <1>6, <2>1, <2>2, <2>3, ConcatIs, Zenon
<1>11. (next1 + (count - 1)) % size = (next + count) % size
  <2>1. PICK j \in 0 .. size - 1 : j = count - 1
    BY <1>1
  <2>2. next + (j + 1) = next + count
    BY <1>1, <2>1
  <2>3. (next1 + j) % size = (next + (j + 1)) % size
    BY <1>3
  <2> QED BY <2>1, <2>2, <2>3, Zenon
<1> QED BY <1>2, <1>10, <1>11, Zenon DEF s, x, y

\* The characters of the output buffer.
Chars == STRING \cup {""}

\* The two for the output buffer.
LEMMA OutputSeq ==
  ASSUME NEW buf \in [BufCells -> Chars], NEW next \in BufCells, NEW count \in 0 .. BUF_SIZE
  PROVE  /\ Circle(BUF_SIZE, buf, next, count) \in Seq(Chars)
         /\ Len(Circle(BUF_SIZE, buf, next, count)) = count
         /\ (next + count) % BUF_SIZE \in BufCells
<1>1. BUF_SIZE \in Nat /\ BUF_SIZE >= 1 /\ BufCells = 0 .. BUF_SIZE - 1
  BY BufferAssumption DEF BufCells
<1>2. \A size \in Nat : size >= 1 =>
        \A b \in [0 .. size - 1 -> Chars], n \in 0 .. size - 1, c \in 0 .. size :
          /\ Circle(size, b, n, c) \in Seq(Chars)
          /\ Len(Circle(size, b, n, c)) = c
          /\ (n + c) % size \in 0 .. size - 1
  BY CircleSeq
<1> QED BY <1>1, <1>2, Zenon

LEMMA OutputLess ==
  ASSUME NEW buf \in [BufCells -> Chars], NEW next \in BufCells, NEW count \in 1 .. BUF_SIZE,
         NEW next1, next1 = IF next + 1 >= BUF_SIZE THEN 0 ELSE next + 1
  PROVE  /\ next1 \in BufCells
         /\ Circle(BUF_SIZE, buf, next, count)
              = <<buf[next]>> \o Circle(BUF_SIZE, buf, next1, count - 1)
         /\ (next1 + (count - 1)) % BUF_SIZE = (next + count) % BUF_SIZE
<1>1. BUF_SIZE \in Nat /\ BUF_SIZE >= 1 /\ BufCells = 0 .. BUF_SIZE - 1
  BY BufferAssumption DEF BufCells
<1>2. \A size \in Nat : size >= 1 =>
        \A b \in [0 .. size - 1 -> Chars], n \in 0 .. size - 1, c \in 1 .. size :
          \A n1 : n1 = (IF n + 1 >= size THEN 0 ELSE n + 1) =>
            /\ n1 \in 0 .. size - 1
            /\ Circle(size, b, n, c) = <<b[n]>> \o Circle(size, b, n1, c - 1)
            /\ (n1 + (c - 1)) % size = (n + c) % size
  BY CircleLess, Zenon
<1> QED BY <1>1, <1>2, Zenon

\* Where cell number j of the buffer lies from cell number count.
LEMMA Distance ==
  ASSUME NEW next \in BufCells, NEW count \in 0 .. BUF_SIZE, NEW j \in 0 .. BUF_SIZE - 1
  PROVE  ((((next + j) % BUF_SIZE) - ((next + count) % BUF_SIZE)) + BUF_SIZE) % BUF_SIZE
           = IF j < count THEN j - count + BUF_SIZE ELSE j - count
<1> DEFINE c == (next + j) % BUF_SIZE
           l == (next + count) % BUF_SIZE
           d == (c - l) + BUF_SIZE
<1>1. BUF_SIZE \in Nat /\ BUF_SIZE >= 1 /\ next \in 0 .. BUF_SIZE - 1
  BY BufferAssumption DEF BufCells
<1>2. c = (IF next + j < BUF_SIZE THEN next + j ELSE next + j - BUF_SIZE)
  <2>1. PICK a \in Nat : a = next + j /\ a < 2 * BUF_SIZE
    BY <1>1
  <2>2. a % BUF_SIZE = IF a < BUF_SIZE THEN a ELSE a - BUF_SIZE
    BY <1>1, <2>1, Wrap
  <2>3. c = IF a < BUF_SIZE THEN a ELSE a - BUF_SIZE
    BY <2>1, <2>2, Zenon DEF c
  <2> HIDE DEF c
  <2> QED BY <1>1, <2>1, <2>3
<1>3. l = (IF next + count < BUF_SIZE THEN next + count ELSE next + count - BUF_SIZE)
  <2>1. PICK a \in Nat : a = next + count /\ a < 2 * BUF_SIZE
    BY <1>1
  <2>2. a % BUF_SIZE = IF a < BUF_SIZE THEN a ELSE a - BUF_SIZE
    BY <1>1, <2>1, Wrap
  <2>3. l = IF a < BUF_SIZE THEN a ELSE a - BUF_SIZE
    BY <2>1, <2>2, Zenon DEF l
  <2> HIDE DEF l
  <2> QED BY <1>1, <2>1, <2>3
<1> HIDE DEF c, l
<1>4. d \in Nat /\ d < 2 * BUF_SIZE
  BY <1>1, <1>2, <1>3
<1>5. d % BUF_SIZE = (IF d < BUF_SIZE THEN d ELSE d - BUF_SIZE)
  BY <1>1, <1>4, Wrap, Zenon
<1>6. (IF d < BUF_SIZE THEN d ELSE d - BUF_SIZE)
        = IF j < count THEN j - count + BUF_SIZE ELSE j - count
  BY <1>1, <1>2, <1>3
<1> QED BY <1>5, <1>6 DEF c, l

\* n characters of w are added, and the first is taken.
LEMMA CircleMore ==
  ASSUME NEW buf, buf = outbuffer, outbuffer \in [BufCells -> Chars], NEW next \in BufCells,
         NEW count \in 0 .. BUF_SIZE,
         outlast = (next + count) % BUF_SIZE,
         NEW n \in 0 .. BUF_SIZE - count, NEW w, w.buf \in Seq(STRING),
         NEW first \in Nat \ {0}, first + n <= Len(w.buf) + 1
  PROVE  /\ Filled(w, first, n) \in [BufCells -> Chars]
         /\ Circle(BUF_SIZE, Filled(w, first, n), next, count + n)
              = Circle(BUF_SIZE, buf, next, count) \o SubSeq(w.buf, first, first + n - 1)
         /\ (outlast + n) % BUF_SIZE = (next + (count + n)) % BUF_SIZE
<1> DEFINE filled == Filled(w, first, n)
           k(i) == (i - outlast + BUF_SIZE) % BUF_SIZE
<1>1. BUF_SIZE \in Nat /\ BUF_SIZE >= 1 /\ next \in 0 .. BUF_SIZE - 1 /\ outlast \in BufCells
  BY OutputSeq, BufferAssumption DEF BufCells
<1>2. PICK chars : chars = w.buf /\ chars \in Seq(STRING)
  OBVIOUS
<1>3. \A i \in 1 .. n : first + i - 1 \in 1 .. Len(chars) /\ chars[first + i - 1] \in Chars
  <2>1. \A i \in 1 .. n : first + i - 1 \in 1 .. Len(chars)
    BY <1>1, <1>2
  <2>2. \A i \in 1 .. Len(chars) : chars[i] \in STRING
    BY <1>2
  <2> QED BY <2>1, <2>2 DEF Chars
<1>4. \A i \in BufCells : k(i) \in 0 .. BUF_SIZE - 1
  <2> TAKE i \in BufCells
  <2>1. i - outlast + BUF_SIZE \in Nat /\ i - outlast + BUF_SIZE < 2 * BUF_SIZE
    BY <1>1 DEF BufCells
  <2> QED BY <1>1, <2>1, Wrap
<1>5. filled = [i \in BufCells |-> IF k(i) < n THEN chars[first + k(i)] ELSE buf[i]]
  BY <1>2 DEF Filled
<1> HIDE DEF filled, k
<1>6. filled \in [BufCells -> Chars]
  <2>1. ASSUME NEW i \in BufCells, k(i) < n PROVE chars[first + k(i)] \in Chars
    <3>1. PICK d \in 0 .. BUF_SIZE - 1 : d = k(i)
      BY <1>4
    <3>2. d + 1 \in 1 .. n /\ first + (d + 1) - 1 = first + d
      BY <1>1, <2>1, <3>1
    <3> QED BY <1>3, <3>1, <3>2
  <2> QED BY <1>5, <2>1
<1>7. ASSUME NEW j \in 0 .. count + n - 1
      PROVE  /\ (next + j) % BUF_SIZE \in BufCells
             /\ filled[(next + j) % BUF_SIZE]
                  = IF j < count THEN buf[(next + j) % BUF_SIZE] ELSE chars[first + (j - count)]
  <2>1. j \in 0 .. BUF_SIZE - 1
    BY <1>1
  <2>2. PICK i : i = (next + j) % BUF_SIZE
    OBVIOUS
  <2>3. i \in BufCells
    <3>1. PICK a \in Nat : a = next + j /\ a < 2 * BUF_SIZE
      BY <1>1, <2>1
    <3>2. a % BUF_SIZE \in 0 .. BUF_SIZE - 1
      BY <1>1, <3>1, Wrap
    <3> QED BY <2>2, <3>1, <3>2, Zenon DEF BufCells
  <2>4. k(i) = IF j < count THEN j - count + BUF_SIZE ELSE j - count
    <3>1. ((((next + j) % BUF_SIZE) - ((next + count) % BUF_SIZE)) + BUF_SIZE) % BUF_SIZE
            = IF j < count THEN j - count + BUF_SIZE ELSE j - count
      BY <2>1, Distance
    <3> QED BY <2>2, <3>1, Zenon DEF k
  <2>5. filled[i] = IF k(i) < n THEN chars[first + k(i)] ELSE buf[i]
    BY <1>5, <2>3
  <2>6. j < count => ~(j - count + BUF_SIZE < n)
    BY <1>1
  <2>7. ~(j < count) => j - count < n
    BY <1>1
  <2> QED BY <2>2, <2>3, <2>4, <2>5, <2>6, <2>7, Zenon
<1>8. (outlast + n) % BUF_SIZE = (next + (count + n)) % BUF_SIZE
  <2>1. PICK a \in Nat : a = next + count /\ a < 2 * BUF_SIZE
    BY <1>1
  <2>2. outlast = IF a < BUF_SIZE THEN a ELSE a - BUF_SIZE
    <3>1. a % BUF_SIZE = IF a < BUF_SIZE THEN a ELSE a - BUF_SIZE
      BY <1>1, <2>1, Wrap
    <3> QED BY <2>1, <3>1, Zenon
  <2>3. PICK b \in Nat : b = next + (count + n) /\ b < 2 * BUF_SIZE
    BY <1>1
  <2>4. PICK c \in Nat : c = outlast + n /\ c < 2 * BUF_SIZE
    <3>1. PICK o \in 0 .. BUF_SIZE - 1 : o = outlast
      BY <1>1, Zenon DEF BufCells
    <3>2. o + n \in Nat /\ o + n < 2 * BUF_SIZE
      BY <1>1
    <3> QED BY <3>1, <3>2, Zenon
  <2>5. /\ b % BUF_SIZE = IF b < BUF_SIZE THEN b ELSE b - BUF_SIZE
        /\ c % BUF_SIZE = IF c < BUF_SIZE THEN c ELSE c - BUF_SIZE
    BY <1>1, <2>3, <2>4, Wrap
  <2>6. (IF b < BUF_SIZE THEN b ELSE b - BUF_SIZE) = IF c < BUF_SIZE THEN c ELSE c - BUF_SIZE
    BY <1>1, <2>1, <2>2, <2>3, <2>4
  <2> QED BY <2>3, <2>4, <2>5, <2>6, Zenon
<1> DEFINE x == Circle(BUF_SIZE, buf, next, count)
           y == SubSeq(chars, first, first + n - 1)
           s == Circle(BUF_SIZE, filled, next, count + n)
<1>9. x \in Seq(Chars) /\ Len(x) = count
  BY OutputSeq
<1>10. s \in Seq(Chars) /\ Len(s) = count + n
  <2>1. count + n \in 0 .. BUF_SIZE
    BY <1>1
  <2> QED BY <1>6, <2>1, OutputSeq
<1>11. y \in Seq(Chars) /\ Len(y) = n /\ \A i \in 1 .. n : y[i] = chars[first + i - 1]
  <2>1. chars \in Seq(Chars)
    BY <1>2, SeqMonotonic DEF Chars
  <2> QED BY <1>2, <1>3, <2>1
<1>12. /\ \A i \in 1 .. count : x[i] = buf[(next + i - 1) % BUF_SIZE]
       /\ \A i \in 1 .. count + n : s[i] = filled[(next + i - 1) % BUF_SIZE]
  BY DEF Circle
<1> HIDE DEF x, y, s
<1>13. \A i \in 1 .. count + n :
         filled[(next + i - 1) % BUF_SIZE]
           = IF i <= count THEN buf[(next + i - 1) % BUF_SIZE] ELSE chars[first + (i - 1 - count)]
  <2> TAKE i \in 1 .. count + n
  <2>1. PICK j \in 0 .. count + n - 1 : j = i - 1
    BY <1>1
  <2>2. next + j = next + i - 1 /\ (j < count <=> i <= count)
    BY <1>1, <2>1
  <2>3. filled[(next + j) % BUF_SIZE]
          = IF j < count THEN buf[(next + j) % BUF_SIZE] ELSE chars[first + (j - count)]
    BY <1>7
  <2> QED BY <2>1, <2>2, <2>3, Zenon
<1>14. s = x \o y
  <2>1. \A i \in 1 .. count : i \in 1 .. count + n /\ i <= count
    BY <1>1
  <2>2. \A i \in 1 .. count : s[i] = x[i]
    BY <1>12, <1>13, <2>1, Zenon
  <2>3. \A i \in 1 .. n : s[count + i] = y[i]
    <3> TAKE i \in 1 .. n
    <3>1. /\ count + i \in 1 .. count + n /\ ~(count + i <= count)
          /\ first + (count + i - 1 - count) = first + i - 1
      BY <1>1
    <3>2. s[count + i] = chars[first + (count + i - 1 - count)]
      <4>1. PICK j \in 1 .. count + n : j = count + i
        BY <3>1
      <4>2. s[j] = filled[(next + j - 1) % BUF_SIZE]
        BY <1>12
      <4>3. filled[(next + j - 1) % BUF_SIZE] = chars[first + (j - 1 - count)]
        BY <1>13, <3>1, <4>1, Zenon
      <4>4. s[j] = chars[first + (j - 1 - count)]
        BY <4>2, <4>3, Zenon
      <4> QED BY <4>1, <4>4
    <3> QED BY <1>11, <3>1, <3>2, Zenon
  <2>4. Len(s) = Len(x) + Len(y)
    BY <1>9, <1>10, <1>11
  <2> QED BY <1>9, <1>10, <1>11, <2>2, <2>3, <2>4, ConcatIs, ZenonT(60)
<1> QED BY <1>2, <1>6, <1>8, <1>14, Zenon DEF s, x, y, filled

\* While no character is lost at a buffer's end.
OutputInv ==
  ~overrun =>
    /\ outbuffer \in [BufCells -> Chars] /\ outnext \in BufCells /\ outcount \in 0 .. BUF_SIZE
    /\ outlast = (outnext + outcount) % BUF_SIZE
    /\ thr \in Seq(Chars) /\ wire \in Seq(Chars) /\ written \in Seq(Chars)
    /\ (wire \o thr) \o Circle(BUF_SIZE, outbuffer, outnext, outcount) = written

SendInv == TransmitterArmed /\ OutputInv

LEMMA SendAside ==
  ASSUME OutputInv, overrun' \/ ~overrun, UNCHANGED <<outVars, thr, wire, written>>
  PROVE  OutputInv'
BY DEF OutputInv, Circle, outVars

\* How many characters fit.
LEMMA FittingBounds ==
  ASSUME outcount \in 0 .. BUF_SIZE, NEW w \in Writes, NEW first \in 1 .. 2
  PROVE  /\ Fitting(w, first) \in 0 .. BUF_SIZE - outcount
         /\ first + Fitting(w, first) <= Len(w.buf) + 1
         /\ w.buf \in Seq(STRING) /\ w.buf[1] \in Chars
<1>1. w.buf \in Seq(STRING) /\ w.buf # <<>> /\ w.length \in 0 .. Len(w.buf)
  BY WritesAssumption
<1>2. PICK l \in Nat : l = Len(w.buf) /\ l >= 1 /\ w.length \in 0 .. l
  BY <1>1
<1>3. w.buf[1] \in Chars
  <2>1. PICK chars \in Seq(Chars) : chars = w.buf
    BY <1>1, SeqMonotonic DEF Chars
  <2>2. chars[1] \in Chars
    BY <1>2, <2>1
  <2> QED BY <2>1, <2>2
<1>4. Fitting(w, first) \in 0 .. BUF_SIZE - outcount /\ first + Fitting(w, first) <= l + 1
  BY <1>2, BufferAssumption DEF Fitting
<1> QED BY <1>1, <1>2, <1>3, <1>4

LEMMA WriteQueues ==
  ASSUME SendInv, ~overrun, NEW w \in Writes, sio_write_queue(w), wire' = wire
  PROVE  OutputInv'
<1> SUFFICES ASSUME ~overrun' PROVE OutputInv'
  BY DEF OutputInv
<1> DEFINE n == Fitting(w, 1)
           x == Circle(BUF_SIZE, outbuffer, outnext, outcount)
           y == SubSeq(w.buf, 1, 1 + n - 1)
<1>1. /\ outbuffer \in [BufCells -> Chars] /\ outnext \in BufCells /\ outcount \in 0 .. BUF_SIZE
      /\ outlast = (outnext + outcount) % BUF_SIZE
      /\ thr \in Seq(Chars) /\ wire \in Seq(Chars) /\ written \in Seq(Chars)
      /\ (wire \o thr) \o x = written
  BY DEF SendInv, OutputInv
<1>2. /\ n \in 0 .. BUF_SIZE - outcount /\ 1 + n <= Len(w.buf) + 1
      /\ w.buf \in Seq(STRING)
  BY <1>1, FittingBounds
<1>3. /\ outbuffer' = Filled(w, 1, n)
      /\ outlast' = (IF n = 0 THEN outlast ELSE (outlast + n) % BUF_SIZE)
      /\ outcount' = outcount + n
      /\ written' = written \o SubSeq(w.buf, 1, n)
      /\ UNCHANGED <<outnext, sending, tx_enabled, thr>>
  BY DEF sio_write_queue
<1> HIDE DEF n
<1>4. /\ Filled(w, 1, n) \in [BufCells -> Chars]
      /\ Circle(BUF_SIZE, Filled(w, 1, n), outnext, outcount + n) = x \o y
      /\ (outlast + n) % BUF_SIZE = (outnext + (outcount + n)) % BUF_SIZE
  <2>1. PICK first \in Nat \ {0} : first = 1
    OBVIOUS
  <2>2. first + n <= Len(w.buf) + 1
    BY <1>2, <2>1
  <2>3. /\ Filled(w, first, n) \in [BufCells -> Chars]
        /\ Circle(BUF_SIZE, Filled(w, first, n), outnext, outcount + n)
             = Circle(BUF_SIZE, outbuffer, outnext, outcount) \o SubSeq(w.buf, first, first + n - 1)
        /\ (outlast + n) % BUF_SIZE = (outnext + (outcount + n)) % BUF_SIZE
    BY <1>1, <1>2, <2>2, CircleMore
  <2> QED BY <2>1, <2>3, Zenon
<1>5. 1 + n - 1 = n /\ outcount + n \in 0 .. BUF_SIZE /\ (n = 0 => outcount + n = outcount)
  BY <1>1, <1>2, BufferAssumption
<1>6. y \in Seq(Chars)
  <2>1. PICK chars \in Seq(Chars) : chars = w.buf
    BY <1>2, SeqMonotonic DEF Chars
  <2>2. n <= Len(chars) /\ n \in Nat
    BY <1>1, <1>2, <2>1, BufferAssumption
  <2>3. SubSeq(chars, 1, n) \in Seq(Chars)
    BY <2>2
  <2> QED BY <1>5, <2>1, <2>3, Zenon
<1>7. x \in Seq(Chars)
  BY <1>1, OutputSeq
<1>8. written' = written \o y
  BY <1>3, <1>5, Zenon
<1> HIDE DEF x, y
<1>9. written' \in Seq(Chars)
  BY <1>1, <1>6, <1>8, Concat
<1>10. (wire \o thr) \o (x \o y) = written \o y
  <2>1. wire \o thr \in Seq(Chars)
    BY <1>1, Concat
  <2>2. ((wire \o thr) \o x) \o y = (wire \o thr) \o (x \o y)
    BY <1>6, <1>7, <2>1, Associative, SMTT(40)
  <2> QED BY <1>1, <2>2, Zenon
<1>11. outlast' = (outnext + (outcount + n)) % BUF_SIZE
  <2>1. CASE n = 0
    BY <1>1, <1>3, <1>5, <2>1, Zenon
  <2>2. CASE n # 0
    BY <1>3, <1>4, <2>2, Zenon
  <2> QED BY <2>1, <2>2
<1> QED BY <1>1, <1>3, <1>4, <1>5, <1>8, <1>9, <1>10, <1>11, Zenon DEF OutputInv

LEMMA WriteStarts ==
  ASSUME SendInv, ~overrun, NEW w \in Writes, sio_write_first(w), wire' = wire
  PROVE  OutputInv'
<1> DEFINE n == Fitting(w, 2)
           c == w.buf[1]
           y == SubSeq(w.buf, 2, 2 + n - 1)
<1>1. /\ outbuffer \in [BufCells -> Chars] /\ outnext \in BufCells /\ outcount \in 0 .. BUF_SIZE
      /\ outlast = (outnext + outcount) % BUF_SIZE
      /\ thr \in Seq(Chars) /\ wire \in Seq(Chars) /\ written \in Seq(Chars)
      /\ (wire \o thr) \o Circle(BUF_SIZE, outbuffer, outnext, outcount) = written
  BY DEF SendInv, OutputInv
<1>2. /\ n \in 0 .. BUF_SIZE - outcount /\ 2 + n <= Len(w.buf) + 1
      /\ w.buf \in Seq(STRING) /\ c \in Chars
  BY <1>1, FittingBounds
<1>3. /\ ~sending
      /\ outbuffer' = Filled(w, 2, n)
      /\ outlast' = (outlast + n) % BUF_SIZE
      /\ outcount' = outcount + n
      /\ thr' = <<c>>
      /\ written' = written \o SubSeq(w.buf, 1, n + 1)
      /\ UNCHANGED <<outnext, overrun>>
  BY DEF sio_write_first
<1>4. outcount = 0 /\ thr = <<>>
  <2>1. ~(outcount > 0 \/ thr # <<>>)
    BY <1>3, Zenon DEF SendInv, TransmitterArmed
  <2> QED BY <1>1, <2>1
<1>5. Circle(BUF_SIZE, outbuffer, outnext, outcount) = <<>>
  BY <1>4 DEF Circle
<1>6. wire = written
  BY <1>1, <1>4, <1>5
<1> HIDE DEF n, c
<1>7. /\ Filled(w, 2, n) \in [BufCells -> Chars]
      /\ Circle(BUF_SIZE, Filled(w, 2, n), outnext, outcount + n)
           = Circle(BUF_SIZE, outbuffer, outnext, outcount) \o y
      /\ (outlast + n) % BUF_SIZE = (outnext + (outcount + n)) % BUF_SIZE
  BY <1>1, <1>2, CircleMore, SMTT(40)
<1>8. outcount + n \in 0 .. BUF_SIZE
  BY <1>1, <1>2, BufferAssumption
<1>9. y \in Seq(Chars) /\ SubSeq(w.buf, 1, n + 1) = <<c>> \o y
  <2>1. PICK chars \in Seq(Chars) : chars = w.buf
    BY <1>2, SeqMonotonic DEF Chars
  <2>2. 1 \in 1 .. Len(chars) /\ n + 1 \in 1 .. Len(chars)
    BY <1>1, <1>2, <2>1, BufferAssumption
  <2>3. SubSeq(chars, 1, n + 1) = <<chars[1]>> \o SubSeq(chars, 1 + 1, n + 1)
    BY <2>2, SubSeqRecursiveFirst
  <2>4. 1 + 1 = 2 /\ 2 + n - 1 = n + 1
    BY <1>2
  <2>5. SubSeq(chars, 2, n + 1) \in Seq(Chars)
    BY <2>2
  <2> QED BY <2>1, <2>3, <2>4, <2>5, Zenon DEF c
<1> HIDE DEF y
<1>10. <<c>> \in Seq(Chars)
  BY <1>2
<1>11. Circle(BUF_SIZE, outbuffer', outnext', outcount') = y
  BY <1>3, <1>5, <1>7, <1>9, Ends, Zenon
<1>12. (wire \o <<c>>) \o y = written'
  <2>1. (wire \o <<c>>) \o y = wire \o (<<c>> \o y)
    BY <1>1, <1>9, <1>10, Associative, SMTT(40)
  <2> QED BY <1>3, <1>6, <1>9, <2>1, Zenon
<1>13. written' \in Seq(Chars)
  <2>1. PICK z \in Seq(Chars) : z = <<c>> \o y
    BY <1>9, <1>10, Concat
  <2>2. written \o z \in Seq(Chars)
    BY <1>1, Concat
  <2> QED BY <1>3, <1>9, <2>1, <2>2, Zenon
<1> QED BY <1>1, <1>3, <1>7, <1>8, <1>10, <1>11, <1>12, <1>13, Zenon DEF OutputInv

LEMMA Transmits ==
  ASSUME SendInv, Transmit
  PROVE  OutputInv'
<1>1. /\ ~overrun /\ UNCHANGED <<outVars, written, overrun>>
      /\ wire' = wire \o thr /\ thr' = <<>>
  BY DEF Transmit, outLog
<1>2. /\ outbuffer \in [BufCells -> Chars] /\ outnext \in BufCells /\ outcount \in 0 .. BUF_SIZE
      /\ outlast = (outnext + outcount) % BUF_SIZE
      /\ thr \in Seq(Chars) /\ wire \in Seq(Chars) /\ written \in Seq(Chars)
      /\ (wire \o thr) \o Circle(BUF_SIZE, outbuffer, outnext, outcount) = written
  BY <1>1 DEF SendInv, OutputInv
<1>3. wire' \in Seq(Chars) /\ thr' \in Seq(Chars) /\ wire' \o thr' = wire \o thr
  <2>1. PICK u \in Seq(Chars) : u = wire \o thr
    BY <1>2, Concat
  <2>2. u \o <<>> = u
    BY Ends
  <2> QED BY <1>1, <2>1, <2>2
<1>4. UNCHANGED <<outbuffer, outnext, outcount, outlast>>
  BY <1>1 DEF outVars
<1>5. (wire' \o thr') \o Circle(BUF_SIZE, outbuffer', outnext', outcount') = written'
  BY <1>1, <1>2, <1>3, <1>4, Zenon
<1> QED BY <1>1, <1>2, <1>3, <1>4, <1>5, Zenon DEF OutputInv

LEMMA SendsOn ==
  ASSUME SendInv, sio_isr_tx
  PROVE  OutputInv'
<1>1. /\ ~overrun /\ UNCHANGED <<wire, written, overrun>> /\ thr = <<>> /\ tx_enabled
      /\ isr_tx_send \/ isr_tx_end
  BY DEF sio_isr_tx, InIsr, TxPending, outLog
<1>2. /\ outbuffer \in [BufCells -> Chars] /\ outnext \in BufCells /\ outcount \in 0 .. BUF_SIZE
      /\ outlast = (outnext + outcount) % BUF_SIZE
      /\ wire \in Seq(Chars) /\ written \in Seq(Chars)
      /\ (wire \o thr) \o Circle(BUF_SIZE, outbuffer, outnext, outcount) = written
  BY <1>1 DEF SendInv, OutputInv
<1>3. wire \o thr = wire
  BY <1>1, <1>2, Ends
<1>4. CASE isr_tx_send
  <2> DEFINE c == outbuffer[outnext]
             y == Circle(BUF_SIZE, outbuffer, outnext', outcount')
  <2>1. /\ outcount > 0 /\ thr' = <<c>> /\ outcount' = outcount - 1
        /\ outnext' = (IF outnext + 1 >= BUF_SIZE THEN 0 ELSE outnext + 1)
        /\ UNCHANGED <<outbuffer, outlast>>
    BY <1>4 DEF isr_tx_send
  <2>2. outcount \in 1 .. BUF_SIZE /\ outcount - 1 \in 0 .. BUF_SIZE
    BY <1>2, <2>1, BufferAssumption
  <2>3. PICK next1 : next1 = outnext' /\ next1 = IF outnext + 1 >= BUF_SIZE THEN 0 ELSE outnext + 1
    BY <2>1
  <2>4. /\ next1 \in BufCells
        /\ Circle(BUF_SIZE, outbuffer, outnext, outcount) = <<c>> \o Circle(BUF_SIZE, outbuffer, next1, outcount - 1)
        /\ (next1 + (outcount - 1)) % BUF_SIZE = (outnext + outcount) % BUF_SIZE
    BY <1>2, <2>2, <2>3, OutputLess
  <2>5. c \in Chars
    BY <1>2
  <2> HIDE DEF c
  <2>6. <<c>> \in Seq(Chars)
    BY <2>5
  <2>7. y = Circle(BUF_SIZE, outbuffer, next1, outcount - 1) /\ y \in Seq(Chars)
    <3>1. Circle(BUF_SIZE, outbuffer, next1, outcount - 1) \in Seq(Chars)
      BY <1>2, <2>2, <2>4, OutputSeq
    <3> QED BY <2>1, <2>3, <3>1, Zenon
  <2> HIDE DEF y
  <2>8. (wire \o <<c>>) \o y = written
    <3>1. (wire \o <<c>>) \o y = wire \o (<<c>> \o y)
      BY <1>2, <2>6, <2>7, Associative, SMTT(40)
    <3> QED BY <1>2, <1>3, <2>4, <2>7, <3>1, Zenon
  <2>9. y = Circle(BUF_SIZE, outbuffer', outnext', outcount')
    BY <2>1, Zenon DEF y
  <2> QED BY <1>1, <1>2, <2>1, <2>2, <2>3, <2>4, <2>6, <2>8, <2>9, Zenon DEF OutputInv
<1>5. CASE isr_tx_end
  <2>1. /\ outcount' = 0 /\ outlast' = 0 /\ outnext' = 0 /\ UNCHANGED <<outbuffer, thr>>
        /\ ~(sending /\ outcount > 0)
    BY <1>5 DEF isr_tx_end
  <2>2. outcount = 0
    <3>1. ~(outcount > 0)
      BY <1>1, <2>1, Zenon DEF SendInv, TransmitterArmed
    <3> QED BY <1>2, <3>1
  <2>3. Circle(BUF_SIZE, outbuffer, outnext, 0) = <<>> /\ Circle(BUF_SIZE, outbuffer', outnext', 0) = <<>>
    BY DEF Circle
  <2>4. 0 \in BufCells /\ 0 % BUF_SIZE = 0 /\ 0 \in 0 .. BUF_SIZE
    <3>1. 0 \in BufCells /\ 0 \in 0 .. BUF_SIZE
      BY BufferAssumption DEF BufCells
    <3>2. 0 < BUF_SIZE /\ 0 < 2 * BUF_SIZE
      BY BufferAssumption
    <3>3. 0 % BUF_SIZE = 0
      BY BufferAssumption, <3>2, Wrap
    <3> QED BY <3>1, <3>3
  <2>5. 0 + 0 = 0 /\ <<>> \in Seq(Chars)
    OBVIOUS
  <2>6. (wire' \o thr') \o Circle(BUF_SIZE, outbuffer', outnext', outcount') = written'
    BY <1>1, <1>2, <2>1, <2>2, <2>3, Zenon
  <2>7. outlast' = (outnext' + outcount') % BUF_SIZE
    BY <2>1, <2>4, <2>5, Zenon
  <2> QED BY <1>1, <1>2, <2>1, <2>4, <2>5, <2>6, <2>7, Zenon DEF OutputInv
<1> QED BY <1>1, <1>4, <1>5

LEMMA NextSend ==
  ASSUME \A w \in Writes : w.buf[1] # NL, SendInv, [Next]_vars
  PROVE  SendInv'
<1>1. TransmitterArmed'
  BY NextArmed DEF SendInv
<1>2. OutputInv'
  <2>1. ASSUME NEW p, NEW w \in Writes, sys_write(p, w) PROVE OutputInv'
    <3>1. ~overrun /\ wire' = wire /\ (sio_write_queue(w) \/ sio_write_first(w))
      BY <2>1 DEF sys_write, InUser, sio_write_newline
    <3> QED BY <3>1, WriteQueues, WriteStarts
  <2>2. ASSUME NEW p, NEW n, sys_read(p, n) PROVE OutputInv'
    BY <2>2, SendAside DEF sys_read, InUser, SendInv, outLog
  <2>3. ASSUME NEW p, sys_kill(p) PROVE OutputInv'
    BY <2>3, SendAside DEF sys_kill, InUser, SendInv, outLog
  <2>4. CASE Arrive \/ sio_isr_enter \/ sio_isr_rx \/ sio_isr_timeout \/ sio_isr_exit
    BY <2>4, SendAside DEF Arrive, sio_isr_enter, sio_isr_rx, sio_isr_timeout, sio_isr_exit, InUser,
      InIsr, SendInv, outLog
  <2>5. CASE UNCHANGED vars
    BY <2>5, SendAside DEF vars, SendInv, outLog
  <2> QED BY <2>1, <2>2, <2>3, <2>4, <2>5, Transmits, SendsOn DEF Next, Isr
<1> QED BY <1>1, <1>2 DEF SendInv

LEMMA InitSend == Init => SendInv
<1> SUFFICES ASSUME Init PROVE OutputInv
  BY InitArmed DEF SendInv
<1>1. /\ outbuffer = [i \in BufCells |-> ""] /\ outlast = 0 /\ outnext = 0 /\ outcount = 0
      /\ thr = <<>> /\ wire = <<>> /\ written = <<>>
  BY Zenon DEF Init
<1>2. "" \in Chars
  BY DEF Chars
<1>3. outbuffer \in [BufCells -> Chars]
  BY <1>1, <1>2
<1>4. 0 \in BufCells /\ 0 % BUF_SIZE = 0 /\ 0 \in 0 .. BUF_SIZE
  <2>1. 0 \in BufCells /\ 0 \in 0 .. BUF_SIZE
    BY BufferAssumption DEF BufCells
  <2>2. 0 < BUF_SIZE /\ 0 < 2 * BUF_SIZE
    BY BufferAssumption
  <2>3. 0 % BUF_SIZE = 0
    BY BufferAssumption, <2>2, Wrap
  <2> QED BY <2>1, <2>3
<1>5. /\ 0 + 0 = 0 /\ <<>> \in Seq(Chars) /\ (<<>> \o <<>>) \o <<>> = <<>>
      /\ Circle(BUF_SIZE, outbuffer, 0, 0) = <<>>
  BY DEF Circle
<1> QED BY <1>1, <1>3, <1>4, <1>5, Zenon DEF OutputInv

\* What write() took goes out in order, each character once (sio.c, "Output"), if
\* no line that programs write begins with a line feed, the case in which the code
\* has it otherwise: for any size of the buffer and any lines.
THEOREM OutputKeepsOrder ==
  ASSUME \A w \in Writes : w.buf[1] # NL
  PROVE  Spec => []OutputInOrder
<1>1. SendInv => OutputInOrder
  <2>1. Pending = Circle(BUF_SIZE, outbuffer, outnext, outcount)
    BY DEF Pending, Circle
  <2> QED BY <2>1, Zenon DEF SendInv, OutputInv, OutputInOrder
<1> QED BY <1>1, InitSend, NextSend, PTL DEF Spec

-----------------------------------------------------------------------------
(***************************************************************************)
(* Console                                                                 *)
(***************************************************************************)

\* What the keyboard buffer holds; "" is the key of an unused cell.
KeyChars == [key : Keys \cup Undefined \cup {""}, shift : BOOLEAN, ctrl : BOOLEAN]

LEMMA KeySpaces == C_BUFSIZE \in Nat /\ C_BUFSIZE >= 1 /\ Spaces = 0 .. C_BUFSIZE - 1
BY ConsBufferAssumption DEF Spaces

\* How many elements lie between two indices of a circular buffer.
Queued(next, space) == (space - next + C_BUFSIZE) % C_BUFSIZE

LEMMA QueuedIs ==
  ASSUME NEW next \in Spaces, NEW space \in Spaces
  PROVE  /\ Queued(next, space) = IF next <= space THEN space - next ELSE space - next + C_BUFSIZE
         /\ Queued(next, space) \in Spaces
<1> C_BUFSIZE \in Nat /\ C_BUFSIZE >= 1 /\ Spaces = 0 .. C_BUFSIZE - 1
  BY KeySpaces
<1>1. PICK d \in Nat : d = space - next + C_BUFSIZE /\ d < 2 * C_BUFSIZE
  OBVIOUS
<1>2. d % C_BUFSIZE = IF d < C_BUFSIZE THEN d ELSE d - C_BUFSIZE
  BY <1>1, Wrap
<1>3. (IF d < C_BUFSIZE THEN d ELSE d - C_BUFSIZE) = IF next <= space THEN space - next ELSE space - next + C_BUFSIZE
  BY <1>1
<1>4. (IF next <= space THEN space - next ELSE space - next + C_BUFSIZE) \in 0 .. C_BUFSIZE - 1
  OBVIOUS
<1> QED BY <1>1, <1>2, <1>3, <1>4, Zenon DEF Queued

LEMMA KeySeq ==
  ASSUME NEW buf \in [Spaces -> KeyChars], NEW next \in Spaces, NEW space \in Spaces
  PROVE  Circle(C_BUFSIZE, buf, next, Queued(next, space)) \in Seq(KeyChars)
<1> C_BUFSIZE \in Nat /\ C_BUFSIZE >= 1 /\ Spaces = 0 .. C_BUFSIZE - 1
  BY KeySpaces
<1>1. Queued(next, space) \in 0 .. C_BUFSIZE
  <2>1. Queued(next, space) \in Spaces
    BY QueuedIs
  <2> QED BY <2>1
<1>2. \A b \in [Spaces -> KeyChars], n \in Spaces, k \in 0 .. C_BUFSIZE :
        Circle(C_BUFSIZE, b, n, k) \in Seq(KeyChars) /\ Len(Circle(C_BUFSIZE, b, n, k)) = k
  BY CircleSeqs, Zenon
<1> QED BY <1>1, <1>2, Zenon

LEMMA Following ==
  ASSUME NEW i \in Spaces
  PROVE  (i + 1) % C_BUFSIZE = IF i + 1 >= C_BUFSIZE THEN 0 ELSE i + 1
<1> C_BUFSIZE \in Nat /\ C_BUFSIZE >= 1 /\ Spaces = 0 .. C_BUFSIZE - 1
  BY KeySpaces
<1>1. PICK d \in Nat : d = i + 1 /\ d < 2 * C_BUFSIZE
  OBVIOUS
<1>2. d % C_BUFSIZE = IF d < C_BUFSIZE THEN d ELSE d - C_BUFSIZE
  BY <1>1, Wrap
<1>3. (IF d < C_BUFSIZE THEN d ELSE d - C_BUFSIZE) = IF i + 1 >= C_BUFSIZE THEN 0 ELSE i + 1
  BY <1>1
<1> QED BY <1>1, <1>2, <1>3, Zenon

\* The occupied cells are not the next free one.
LEMMA Occupied ==
  ASSUME NEW size \in Nat, NEW next \in 0 .. size - 1, NEW space \in 0 .. size - 1, NEW count,
         count = IF next <= space THEN space - next ELSE space - next + size,
         NEW i \in 1 .. count
  PROVE  /\ (IF next + i - 1 < size THEN next + i - 1 ELSE next + i - 1 - size) # space
         /\ (IF next + i - 1 < size THEN next + i - 1 ELSE next + i - 1 - size) \in 0 .. size - 1
OBVIOUS

\* One element more, at an index that does not become the other one.
OneMore(buf, next, space, c) ==
  /\ c_increment(space) \in Spaces
  /\ [buf EXCEPT ![space] = c] \in [Spaces -> KeyChars]
  /\ Circle(C_BUFSIZE, [buf EXCEPT ![space] = c], next, Queued(next, c_increment(space)))
       = Circle(C_BUFSIZE, buf, next, Queued(next, space)) \o <<c>>

LEMMA KeyStore ==
  ASSUME NEW buf \in [Spaces -> KeyChars], NEW next \in Spaces, NEW space \in Spaces,
         NEW c \in KeyChars, c_increment(space) # next
  PROVE  OneMore(buf, next, space, c)
<1> DEFINE space1 == c_increment(space)
           buf1 == [buf EXCEPT ![space] = c]
<1> C_BUFSIZE \in Nat /\ C_BUFSIZE >= 1 /\ Spaces = 0 .. C_BUFSIZE - 1
  BY KeySpaces
<1>a. space1 = (space + 1) % C_BUFSIZE /\ space1 # next /\ buf1 = [buf EXCEPT ![space] = c]
  BY DEF c_increment
<1> HIDE DEF space1, buf1
<1>1. space1 = IF space + 1 >= C_BUFSIZE THEN 0 ELSE space + 1
  BY <1>a, Following
<1>2. space1 \in Spaces
  BY <1>1
<1>3. PICK count \in 0 .. C_BUFSIZE - 1 :
        /\ count = Queued(next, space)
        /\ count = IF next <= space THEN space - next ELSE space - next + C_BUFSIZE
  <2>1. (IF next <= space THEN space - next ELSE space - next + C_BUFSIZE) \in 0 .. C_BUFSIZE - 1
    OBVIOUS
  <2> QED BY <2>1, QueuedIs, Zenon
<1>4. count + 1 = Queued(next, space1) /\ count + 1 \in 0 .. C_BUFSIZE
  <2>1. count + 1 = IF next <= space1 THEN space1 - next ELSE space1 - next + C_BUFSIZE
    BY <1>a, <1>1, <1>3
  <2>2. \A s \in Spaces : Queued(next, s) = IF next <= s THEN s - next ELSE s - next + C_BUFSIZE
    BY QueuedIs
  <2>3. count + 1 \in 0 .. C_BUFSIZE
    BY <1>3
  <2>4. Queued(next, space1) = count + 1
    BY <1>2, <2>1, <2>2, Zenon
  <2> QED BY <2>3, <2>4
<1>5. \A i \in 1 .. count + 1 :
        (next + i - 1) % C_BUFSIZE = IF next + i - 1 < C_BUFSIZE THEN next + i - 1 ELSE next + i - 1 - C_BUFSIZE
  <2> TAKE i \in 1 .. count + 1
  <2>1. PICK d \in Nat : d = next + i - 1 /\ d < 2 * C_BUFSIZE
    BY <1>3
  <2>2. d % C_BUFSIZE = IF d < C_BUFSIZE THEN d ELSE d - C_BUFSIZE
    BY <2>1, Wrap
  <2>3. (IF d < C_BUFSIZE THEN d ELSE d - C_BUFSIZE)
          = IF next + i - 1 < C_BUFSIZE THEN next + i - 1 ELSE next + i - 1 - C_BUFSIZE
    BY <2>1
  <2> QED BY <2>1, <2>2, <2>3, Zenon
<1>6. (next + (count + 1) - 1) % C_BUFSIZE = space
  <2>1. (IF next + (count + 1) - 1 < C_BUFSIZE THEN next + (count + 1) - 1
                                          ELSE next + (count + 1) - 1 - C_BUFSIZE) = space
    BY <1>3
  <2>2. count + 1 \in 1 .. count + 1
    BY <1>3
  <2> QED BY <1>5, <2>1, <2>2, Zenon
<1>7. \A i \in 1 .. count :
        /\ i \in 1 .. count + 1
        /\ (IF next + i - 1 < C_BUFSIZE THEN next + i - 1 ELSE next + i - 1 - C_BUFSIZE)
             \in Spaces \ {space}
  <2>1. next \in 0 .. C_BUFSIZE - 1 /\ space \in 0 .. C_BUFSIZE - 1
    OBVIOUS
  <2>2. \A i \in 1 .. count :
          /\ (IF next + i - 1 < C_BUFSIZE THEN next + i - 1 ELSE next + i - 1 - C_BUFSIZE) # space
          /\ (IF next + i - 1 < C_BUFSIZE THEN next + i - 1 ELSE next + i - 1 - C_BUFSIZE)
               \in 0 .. C_BUFSIZE - 1
    BY <1>3, <2>1, Occupied
  <2>3. \A i \in 1 .. count : i \in 1 .. count + 1
    BY <1>3
  <2> QED BY <2>2, <2>3, Zenon
<1>8. \A i \in 1 .. count : (next + i - 1) % C_BUFSIZE \in Spaces /\ (next + i - 1) % C_BUFSIZE # space
  BY <1>5, <1>7, Zenon
<1>9. /\ buf1 \in [Spaces -> KeyChars] /\ buf1[space] = c
      /\ \A i \in Spaces : i # space => buf1[i] = buf[i]
  BY <1>a
<1>10. \A b \in [Spaces -> KeyChars], n \in Spaces, k \in 0 .. C_BUFSIZE :
         Circle(C_BUFSIZE, b, n, k) \in Seq(KeyChars) /\ Len(Circle(C_BUFSIZE, b, n, k)) = k
  BY CircleSeqs, Zenon
<1> DEFINE s == Circle(C_BUFSIZE, buf1, next, count + 1)
           x == Circle(C_BUFSIZE, buf, next, count)
           y == <<c>>
<1>11. s \in Seq(KeyChars) /\ Len(s) = count + 1
  <2>1. buf1 \in [Spaces -> KeyChars]
    BY <1>9
  <2>2. count + 1 \in 0 .. C_BUFSIZE
    BY <1>4
  <2> QED BY <1>10, <2>1, <2>2, Zenon
<1>12. x \in Seq(KeyChars) /\ Len(x) = count
  <2>1. count \in 0 .. C_BUFSIZE
    BY <1>3
  <2> QED BY <1>10, <2>1, Zenon
<1>13. y \in Seq(KeyChars) /\ Len(y) = 1 /\ y[1] = c
  OBVIOUS
<1>14. /\ \A i \in 1 .. count : x[i] = buf[(next + i - 1) % C_BUFSIZE]
       /\ \A i \in 1 .. count + 1 : s[i] = buf1[(next + i - 1) % C_BUFSIZE]
  BY DEF Circle
<1> HIDE DEF s, x, y
<1>15. \A i \in 1 .. count : s[i] = x[i]
  BY <1>7, <1>8, <1>9, <1>14, Zenon
<1>16. \A i \in 1 .. 1 : s[count + i] = y[i]
  <2>1. count + 1 \in 1 .. count + 1 /\ \A i \in 1 .. 1 : i = 1
    BY <1>3
  <2>2. s[count + 1] = y[1]
    BY <1>6, <1>9, <1>13, <1>14, <2>1, Zenon
  <2> QED BY <2>1, <2>2, Zenon
<1>17. s = x \o y
  <2>1. Len(s) = Len(x) + Len(y)
    BY <1>11, <1>12, <1>13
  <2>2. /\ \A i \in 1 .. Len(x) : s[i] = x[i]
        /\ \A i \in 1 .. Len(y) : s[Len(x) + i] = y[i]
    BY <1>12, <1>13, <1>15, <1>16, Zenon
  <2> QED BY <1>11, <1>12, <1>13, <2>1, <2>2, ConcatIs
<1> QED BY <1>2, <1>3, <1>4, <1>9, <1>17, Zenon DEF s, x, y, space1, buf1, OneMore

\* One element less, at the beginning.
LEMMA KeyTake ==
  ASSUME NEW buf \in [Spaces -> KeyChars],
         NEW next \in Spaces, NEW space \in Spaces,
         Queued(next, space) >= 1, NEW next1, next1 = (next + 1) % C_BUFSIZE
  PROVE  /\ next1 \in Spaces /\ buf[next] \in KeyChars
         /\ Queued(next1, space) \in Spaces
         /\ Circle(C_BUFSIZE, buf, next, Queued(next, space))
              = <<buf[next]>> \o Circle(C_BUFSIZE, buf, next1, Queued(next1, space))
<1> C_BUFSIZE \in Nat /\ C_BUFSIZE >= 1 /\ Spaces = 0 .. C_BUFSIZE - 1
  BY KeySpaces
<1>1. next1 = IF next + 1 >= C_BUFSIZE THEN 0 ELSE next + 1
  BY Following
<1>2. next1 \in Spaces
  BY <1>1
<1>3. PICK count \in 1 .. C_BUFSIZE :
        /\ count = Queued(next, space)
        /\ count = IF next <= space THEN space - next ELSE space - next + C_BUFSIZE
  <2>1. Queued(next, space) = IF next <= space THEN space - next ELSE space - next + C_BUFSIZE
    BY QueuedIs
  <2>2. Queued(next, space) \in 1 .. C_BUFSIZE
    BY <2>1
  <2> QED BY <2>1, <2>2, Zenon
<1>4. count - 1 = Queued(next1, space) /\ count - 1 \in 0 .. C_BUFSIZE
  <2>1. count - 1 = IF next1 <= space THEN space - next1 ELSE space - next1 + C_BUFSIZE
    BY <1>1, <1>3
  <2>2. Queued(next1, space) = IF next1 <= space THEN space - next1 ELSE space - next1 + C_BUFSIZE
    BY <1>2, QueuedIs
  <2> QED BY <1>3, <2>1, <2>2
<1>5. \A m \in Nat : m >= 1 => \A V : \A b \in [0 .. m - 1 -> V], n \in 0 .. m - 1, k \in 1 .. m :
        \A n1 : n1 = (IF n + 1 >= m THEN 0 ELSE n + 1) =>
          Circle(m, b, n, k) = <<b[n]>> \o Circle(m, b, n1, k - 1)
  BY CircleLess, ZenonT(60)
<1>6. Circle(C_BUFSIZE, buf, next, count) = <<buf[next]>> \o Circle(C_BUFSIZE, buf, next1, count - 1)
  BY <1>1, <1>5, Zenon
<1>7. Queued(next1, space) \in 0 .. C_BUFSIZE - 1
  BY <1>2, QueuedIs
<1> QED BY <1>2, <1>3, <1>4, <1>6, <1>7, Zenon

KeyBuffer == Circle(C_BUFSIZE, c_input_buffer, c_next_char, cio_input_queue)

KeysInv ==
  /\ c_input_buffer \in [Spaces -> KeyChars]
  /\ c_next_char \in Spaces /\ c_next_space \in Spaces
  /\ shift \in BOOLEAN /\ ctrl \in BOOLEAN
  /\ typed \in Seq(KeyChars) /\ taken \in Seq(KeyChars)
  /\ taken \o KeyBuffer = typed

LEMMA KeyBufferIs ==
  KeyBuffer = Circle(C_BUFSIZE, c_input_buffer, c_next_char,
                     Queued(c_next_char, c_next_space))
BY Zenon DEF KeyBuffer, cio_input_queue, Queued

LEMMA KeyStored ==
  ASSUME KeysInv, NEW c \in KeyChars, c_store(c), UNCHANGED <<c_next_char, taken, shift, ctrl>>
  PROVE  KeysInv'
<1>1. CASE c_increment(c_next_space) = c_next_char
  <2>1. UNCHANGED <<c_input_buffer, c_next_space, typed>>
    BY <1>1 DEF c_store
  <2> QED BY <2>1 DEF KeysInv, KeyBuffer, cio_input_queue
<1>2. CASE c_increment(c_next_space) # c_next_char
  <2>1. /\ c_input_buffer' = [c_input_buffer EXCEPT ![c_next_space] = c]
        /\ c_next_space' = c_increment(c_next_space)
        /\ typed' = Append(typed, c)
    BY <1>2 DEF c_store
  <2>2. /\ c_input_buffer \in [Spaces -> KeyChars]
        /\ c_next_char \in Spaces /\ c_next_space \in Spaces
        /\ typed \in Seq(KeyChars) /\ taken \in Seq(KeyChars) /\ taken \o KeyBuffer = typed
    BY DEF KeysInv
  <2>3. OneMore(c_input_buffer, c_next_char, c_next_space, c)
    BY <1>2, <2>2, KeyStore
  <2>4. KeyBuffer' = KeyBuffer \o <<c>>
    <3>1. KeyBuffer' = Circle(C_BUFSIZE, c_input_buffer', c_next_char',
                              Queued(c_next_char', c_next_space'))
      BY Zenon DEF KeyBuffer, cio_input_queue, Queued
    <3> QED BY <2>1, <2>3, <3>1, KeyBufferIs, Zenon DEF OneMore
  <2>5. PICK b \in Seq(KeyChars) : b = KeyBuffer
    BY <2>2, KeySeq, KeyBufferIs, Zenon
  <2>6. <<c>> \in Seq(KeyChars) /\ typed' = typed \o <<c>>
    BY <2>1, <2>2, Ends
  <2>7. (taken \o b) \o <<c>> = taken \o (b \o <<c>>)
    BY <2>2, <2>6, Associative, SMTT(40)
  <2>8. typed' \in Seq(KeyChars) /\ taken \o KeyBuffer' = typed'
    <3>1. typed \o <<c>> \in Seq(KeyChars)
      BY <2>2, <2>6, Concat
    <3> QED BY <2>2, <2>4, <2>5, <2>6, <2>7, <3>1, Zenon
  <2>9. c_next_space' \in Spaces /\ c_input_buffer' \in [Spaces -> KeyChars]
    BY <2>1, <2>3, Zenon DEF OneMore
  <2> QED BY <2>2, <2>8, <2>9 DEF KeysInv
<1> QED BY <1>1, <1>2

LEMMA KeyScanned ==
  ASSUME KeysInv, c_input_scan_code, taken' = taken
  PROVE  KeysInv'
<1>1. CASE c_modifier
  BY <1>1 DEF c_modifier, c_input_scan_code, KeysInv, KeyBuffer, cio_input_queue
<1>2. CASE c_press
  <2>1. PICK k \in Keys \cup Undefined : c_store([key |-> k, shift |-> shift, ctrl |-> ctrl])
    BY <1>2 DEF c_press
  <2>2. [key |-> k, shift |-> shift, ctrl |-> ctrl] \in KeyChars
    BY DEF KeysInv, KeyChars
  <2>3. UNCHANGED <<c_next_char, taken, shift, ctrl>>
    BY <1>2 DEF c_press, c_input_scan_code
  <2> QED BY <2>1, <2>2, <2>3, KeyStored
<1> QED BY <1>1, <1>2 DEF c_input_scan_code

LEMMA KeyTaken ==
  ASSUME KeysInv, cio_getchar
  PROVE  KeysInv'
<1>1. /\ cio_input_queue >= 1
      /\ c_next_char' = (c_next_char + 1) % C_BUFSIZE
      /\ taken' = Append(taken, c_input_buffer[c_next_char])
      /\ UNCHANGED <<c_input_buffer, c_next_space, shift, ctrl, typed>>
  BY DEF cio_getchar, c_increment, Typed
<1>2. /\ c_input_buffer \in [Spaces -> KeyChars]
      /\ c_next_char \in Spaces /\ c_next_space \in Spaces
  BY DEF KeysInv
<1>3. Queued(c_next_char, c_next_space) >= 1
  BY <1>1, Zenon DEF Queued, cio_input_queue
<1>4. /\ c_next_char' \in Spaces /\ c_input_buffer[c_next_char] \in KeyChars
      /\ Circle(C_BUFSIZE, c_input_buffer, c_next_char, Queued(c_next_char, c_next_space))
           = <<c_input_buffer[c_next_char]>>
               \o Circle(C_BUFSIZE, c_input_buffer, c_next_char',
                         Queued(c_next_char', c_next_space))
  BY <1>1, <1>2, <1>3, KeyTake
<1>5. PICK b \in Seq(KeyChars) :
        b = Circle(C_BUFSIZE, c_input_buffer, c_next_char', Queued(c_next_char', c_next_space))
  BY <1>2, <1>4, KeySeq, Zenon
<1>8. KeyBuffer' = b
  <2>1. KeyBuffer' = Circle(C_BUFSIZE, c_input_buffer', c_next_char',
                            Queued(c_next_char', c_next_space'))
    BY Zenon DEF KeyBuffer, cio_input_queue, Queued
  <2> QED BY <1>1, <1>5, <2>1, Zenon
<1>9. PICK c \in KeyChars : c = c_input_buffer[c_next_char]
  BY <1>4
<1>10. KeyBuffer = <<c>> \o b
  BY <1>4, <1>5, <1>9, KeyBufferIs, Zenon
<1>11. typed \in Seq(KeyChars) /\ taken \in Seq(KeyChars) /\ taken \o KeyBuffer = typed
  BY DEF KeysInv
<1>12. <<c>> \in Seq(KeyChars) /\ Append(taken, c) = taken \o <<c>>
  BY <1>11, Ends
<1>13. (taken \o <<c>>) \o b = taken \o (<<c>> \o b)
  BY <1>11, <1>12, Associative
<1>14. taken' \in Seq(KeyChars) /\ taken' \o KeyBuffer' = typed'
  <2>1. taken \o <<c>> \in Seq(KeyChars)
    BY <1>11, <1>12, Concat
  <2> QED BY <1>1, <1>8, <1>9, <1>10, <1>11, <1>12, <1>13, <2>1, Zenon
<1> QED BY <1>1, <1>2, <1>4, <1>11, <1>14 DEF KeysInv

\* The processes, and the call of __cio_gets.
ReadersInv ==
  /\ proc \in [Procs -> {"user", "blocked", "killed", "gone"}] /\ reading \in Seq(Procs)
  /\ DOMAIN gets = {"by", "size", "count"} /\ gets.by \subseteq Procs
  /\ SharedReaders

\* A process that was running joins, or the first leaves; a killed one is another matter.
LEMMA ReaderBlocks ==
  ASSUME ReadersInv, NEW p \in Procs, proc[p] = "user",
         proc' = [proc EXCEPT ![p] = "blocked"], reading' = Append(reading, p),
         ~InGets', DOMAIN gets' = {"by", "size", "count"}, gets'.by \subseteq Procs
  PROVE  ReadersInv'
<1>1. /\ proc \in [Procs -> {"user", "blocked", "killed", "gone"}] /\ reading \in Seq(Procs)
      /\ \A q \in Procs : proc[q] \in {"blocked", "killed"} <=> q \in ToSet(reading)
      /\ IsInjective(reading)
  BY DEF ReadersInv, SharedReaders
<1>2. p \notin ToSet(reading)
  BY <1>1
<1>3. /\ reading' \in Seq(Procs) /\ IsInjective(reading')
      /\ \A q : q \in ToSet(reading') <=> q = p \/ q \in ToSet(reading)
  BY <1>1, <1>2, QueueJoin
<1>4. /\ proc' \in [Procs -> {"user", "blocked", "killed", "gone"}]
      /\ proc'[p] = "blocked" /\ \A q \in Procs : q # p => proc'[q] = proc[q]
  BY <1>1
<1>5. \A q \in Procs : proc'[q] \in {"blocked", "killed"} <=> q \in ToSet(reading')
  BY <1>1, <1>3, <1>4, Zenon
<1> QED BY <1>3, <1>4, <1>5 DEF ReadersInv, SharedReaders

LEMMA ReaderWakes ==
  ASSUME ReadersInv, isr_rx_wake, ~InGets', gets' = gets
  PROVE  ReadersInv'
<1>1. /\ proc \in [Procs -> {"user", "blocked", "killed", "gone"}] /\ reading \in Seq(Procs)
      /\ \A q \in Procs : proc[q] \in {"blocked", "killed"} <=> q \in ToSet(reading)
      /\ IsInjective(reading)
      /\ DOMAIN gets = {"by", "size", "count"} /\ gets.by \subseteq Procs
  BY DEF ReadersInv, SharedReaders
<1>2. /\ reading # <<>> /\ reading' = Tail(reading)
      /\ \/ proc' = [proc EXCEPT ![Head(reading)] = "gone"]
         \/ proc' = [proc EXCEPT ![Head(reading)] = "user"]
  BY DEF isr_rx_wake
<1>3. /\ reading' \in Seq(Procs) /\ IsInjective(reading') /\ Head(reading) \in Procs
      /\ \A q : q \in ToSet(reading') <=> q # Head(reading) /\ q \in ToSet(reading)
  BY <1>1, <1>2, QueueLeave
<1>4. /\ proc' \in [Procs -> {"user", "blocked", "killed", "gone"}]
      /\ proc'[Head(reading)] \in {"user", "gone"}
      /\ \A q \in Procs : q # Head(reading) => proc'[q] = proc[q]
  <2>1. PICK p \in Procs : p = Head(reading)
    BY <1>3
  <2>2. \/ proc' = [proc EXCEPT ![p] = "gone"]
        \/ proc' = [proc EXCEPT ![p] = "user"]
    BY <1>2, <2>1
  <2> QED BY <1>1, <2>1, <2>2
<1>5. \A q \in Procs : proc'[q] \in {"blocked", "killed"} <=> q \in ToSet(reading')
  <2>1. proc'[Head(reading)] \notin {"blocked", "killed"}
    BY <1>4
  <2> QED BY <1>1, <1>3, <1>4, <2>1, Zenon
<1> QED BY <1>1, <1>3, <1>4, <1>5 DEF ReadersInv, SharedReaders

LEMMA ReaderKilled ==
  ASSUME ReadersInv, NEW p \in Procs, proc[p] = "blocked",
         proc' = [proc EXCEPT ![p] = "killed"], ~InGets', UNCHANGED <<reading, gets>>
  PROVE  ReadersInv'
<1>1. /\ proc \in [Procs -> {"user", "blocked", "killed", "gone"}]
      /\ \A q \in Procs : proc[q] \in {"blocked", "killed"} <=> q \in ToSet(reading)
  BY DEF ReadersInv, SharedReaders
<1>2. /\ proc' \in [Procs -> {"user", "blocked", "killed", "gone"}]
      /\ \A q \in Procs : proc'[q] \in {"blocked", "killed"} <=> proc[q] \in {"blocked", "killed"}
  BY <1>1
<1> QED BY <1>1, <1>2 DEF ReadersInv, SharedReaders

LEMMA ReadersAside ==
  ASSUME ReadersInv, UNCHANGED <<procVars, gets>>, InGets' => InGets
  PROVE  ReadersInv'
BY DEF ReadersInv, SharedReaders, procVars

LEMMA ReadersSerial ==
  ASSUME ReadersInv, SerialLine
  PROVE  ReadersInv'
<1>1. gets' = gets
  BY DEF SerialLine
<1>2. ASSUME NEW p \in Procs, NEW n \in ReadLengths, sys_read(p, n) PROVE ReadersInv'
  <2>1. cpu' = "user" /\ proc[p] = "user"
    BY <1>2 DEF sys_read, InUser
  <2>2. CASE sys_read_data(p, n)
    BY <1>1, <2>1, <2>2, ReadersAside DEF sys_read_data, InGets
  <2>3. CASE sys_read_block(p, n)
    <3>1. DOMAIN gets' = {"by", "size", "count"} /\ gets'.by \subseteq Procs
      BY <1>1 DEF ReadersInv
    <3> QED BY <2>1, <2>3, <3>1, ReaderBlocks DEF sys_read_block, InGets
  <2> QED BY <1>2, <2>2, <2>3 DEF sys_read
<1>3. ASSUME NEW p \in Procs, sys_kill(p) PROVE ReadersInv'
  BY <1>1, <1>3, ReaderKilled DEF sys_kill, InUser, InGets
<1>4. ASSUME NEW p, NEW w, sys_write(p, w) PROVE ReadersInv'
  BY <1>1, <1>4, ReadersAside DEF sys_write, InUser, InGets
<1>5. CASE Arrive \/ Transmit
  BY <1>1, <1>5, ReadersAside DEF Arrive, Transmit, InGets
<1>6. CASE sio_isr_enter \/ sio_isr_timeout \/ sio_isr_tx \/ sio_isr_exit
  BY <1>1, <1>6, ReadersAside DEF sio_isr_enter, sio_isr_timeout, sio_isr_tx, sio_isr_exit, InGets
<1>7. CASE sio_isr_rx
  <2>1. ~InGets'
    BY <1>7 DEF sio_isr_rx, InIsr, InGets
  <2>2. CASE isr_rx_wake
    BY <1>1, <2>1, <2>2, ReaderWakes
  <2>3. CASE isr_rx_store \/ isr_rx_ignore
    BY <1>1, <2>1, <2>3, ReadersAside DEF isr_rx_store, isr_rx_ignore
  <2> QED BY <1>7, <2>2, <2>3 DEF sio_isr_rx
<1> QED BY <1>2, <1>3, <1>4, <1>5, <1>6, <1>7 DEF SerialLine, Next, Isr

LEMMA NextKeys == KeysInv /\ ReadersInv /\ [ConsNext]_consVars => KeysInv' /\ ReadersInv'
<1> SUFFICES ASSUME KeysInv, ReadersInv, [ConsNext]_consVars PROVE KeysInv' /\ ReadersInv'
  OBVIOUS
<1>1. ASSUME UNCHANGED <<keyVars, taken>> PROVE KeysInv'
  BY <1>1 DEF KeysInv, keyVars, KeyBuffer, cio_input_queue
<1>2. CASE SerialLine
  BY <1>1, <1>2, ReadersSerial DEF SerialLine
<1>3. CASE c_keyboard_isr
  BY <1>3, KeyScanned, ReadersAside DEF c_keyboard_isr, vars, InGets
<1>4. ASSUME NEW p \in Procs, sys_read_cons_none(p) PROVE KeysInv' /\ ReadersInv'
  BY <1>1, <1>4, ReadersAside DEF sys_read_cons_none, consVars, vars, InGets
<1>5. ASSUME NEW p \in Procs, NEW n, sys_read_cons(p, n) PROVE KeysInv' /\ ReadersInv'
  <2>1. /\ proc[p] = "user" /\ gets' = [by |-> {p}, size |-> n, count |-> 0]
        /\ UNCHANGED procVars
    BY <1>5 DEF sys_read_cons
  <2>2. DOMAIN gets' = {"by", "size", "count"} /\ gets'.by = {p}
    BY <2>1
  <2>3. ReadersInv'
    BY <2>1, <2>2 DEF ReadersInv, SharedReaders, procVars
  <2> QED BY <1>1, <1>5, <2>3 DEF sys_read_cons
<1>6. CASE cio_getchar
  <2>1. DOMAIN gets' = DOMAIN gets /\ gets'.by = gets.by
    BY <1>6 DEF cio_getchar, ReadersInv
  <2>2. UNCHANGED vars
    BY <1>6 DEF cio_getchar
  <2>3. ReadersInv'
    BY <2>1, <2>2 DEF ReadersInv, SharedReaders, vars, procVars, InGets
  <2> QED BY <1>6, <2>3, KeyTaken
<1>7. CASE cio_getchar_poll
  BY <1>7, KeyScanned, ReadersAside DEF cio_getchar_poll, vars, InGets
<1>8. CASE cio_gets_return
  <2>1. /\ InGets /\ cpu' = "user" /\ gets' = NoGets /\ UNCHANGED <<keyVars, taken>>
    BY <1>8 DEF cio_gets_return
  <2>2. ~InGets' /\ DOMAIN gets' = {"by", "size", "count"} /\ gets'.by \subseteq Procs
    BY <2>1 DEF InGets, NoGets
  <2>3. ASSUME UNCHANGED procVars PROVE ReadersInv'
    BY <2>2, <2>3 DEF ReadersInv, SharedReaders, procVars
  <2>4. ASSUME NEW p \in gets.by, proc' = [proc EXCEPT ![p] = "blocked"],
               reading' = Append(reading, p)
        PROVE  ReadersInv'
    <3>1. p \in Procs /\ proc[p] = "user"
      BY <2>1 DEF ReadersInv, SharedReaders
    <3> QED BY <2>2, <2>4, <3>1, ReaderBlocks
  <2> QED BY <1>1, <1>8, <2>1, <2>3, <2>4 DEF cio_gets_return
<1>9. CASE UNCHANGED consVars
  BY <1>1, <1>9, ReadersAside DEF consVars, vars, InGets
<1> QED BY <1>2, <1>3, <1>4, <1>5, <1>6, <1>7, <1>8, <1>9 DEF ConsNext

LEMMA InitKeys == ConsInit => KeysInv /\ ReadersInv
<1> SUFFICES ASSUME ConsInit PROVE KeysInv /\ ReadersInv
  OBVIOUS
<1>1. /\ c_input_buffer = [i \in Spaces |-> [key |-> "", shift |-> FALSE, ctrl |-> FALSE]]
      /\ c_next_char = 0 /\ c_next_space = 0 /\ shift = FALSE /\ ctrl = FALSE
      /\ typed = <<>> /\ taken = <<>> /\ gets = NoGets
      /\ proc = [p \in Procs |-> "user"] /\ reading = <<>> /\ cpu = "user"
  BY DEF ConsInit, Init
<1>2. KeysInv
  <2>1. [key |-> "", shift |-> FALSE, ctrl |-> FALSE] \in KeyChars
    BY DEF KeyChars
  <2>2. 0 \in Spaces
    BY KeySpaces
  <2>3. Queued(0, 0) = 0
    BY <2>2, QueuedIs
  <2>4. Circle(C_BUFSIZE, c_input_buffer, 0, 0) = <<>>
    BY DEF Circle
  <2>5. KeyBuffer = <<>>
    BY <1>1, <2>3, <2>4, KeyBufferIs, Zenon
  <2>6. taken \o KeyBuffer = typed /\ typed \in Seq(KeyChars) /\ taken \in Seq(KeyChars)
    <3>1. <<>> \o <<>> = <<>> /\ <<>> \in Seq(KeyChars)
      OBVIOUS
    <3> QED BY <1>1, <2>5, <3>1, Zenon
  <2> QED BY <1>1, <2>1, <2>2, <2>6 DEF KeysInv
<1>3. ReadersInv
  <2>1. reading \in Seq(Procs) /\ IsInjective(reading) /\ ToSet(reading) = {}
    <3>1. reading \in Seq(Procs) /\ Len(reading) = 0
      <4>1. reading = <<>>
        BY <1>1, Zenon
      <4> QED BY <4>1
    <3>2. DOMAIN reading = {}
      BY <3>1
    <3> QED BY <3>1, <3>2, Zenon DEF IsInjective, ToSet
  <2>3. /\ proc \in [Procs -> {"user", "blocked", "killed", "gone"}]
        /\ \A p \in Procs : proc[p] \notin {"blocked", "killed"}
    BY <1>1
  <2>2. ~InGets /\ DOMAIN gets = {"by", "size", "count"} /\ gets.by \subseteq Procs
    BY <1>1 DEF InGets, NoGets
  <2> QED BY <2>1, <2>2, <2>3 DEF ReadersInv, SharedReaders
<1> QED BY <1>2, <1>3

\* Keys reach read() in the order they were typed, none twice, whatever the size of
\* the buffer (cio.c, "Circular buffer"), and nobody is on the serial line's queue of
\* readers twice or while it runs (syscalls.c, _sys_read).
THEOREM KeysAreShared == ConsSpec => []KeysShared
<1>1. KeysInv /\ ReadersInv => KeysShared
  <2>1. KeyBuffer = [i \in 1 .. cio_input_queue |-> c_input_buffer[(c_next_char + i - 1) % C_BUFSIZE]]
    BY DEF KeyBuffer, Circle
  <2> QED BY <2>1, Zenon DEF KeysInv, ReadersInv, KeysShared, KeysInOrder
<1> QED BY <1>1, InitKeys, NextKeys, PTL DEF ConsSpec
=============================================================================
