------------------------------- MODULE Format -------------------------------
(***************************************************************************)
(* Conversions and padding of klibc.c and ulibc.c, which the screen's      *)
(* printf and the kernel's and the library's sprint share.                 *)
(*                                                                         *)
(* A text is a sequence of one-letter strings.  A format is a sequence of  *)
(* items: a literal text, or a conversion with its options and argument.   *)
(* Numbers are TLC's, which have 32 bits as those of the code; no step     *)
(* here leaves that range.                                                 *)
(***************************************************************************)
EXTENDS Integers, SequencesExt

INT_MAX == 2147483647
INT_MIN == -INT_MAX - 1

\* Arithmetic of 32 bits that wraps, as the processor's does.
Negated(n)      == IF n = INT_MIN THEN n ELSE -n
Plus(m, n)      == IF m > INT_MAX - n THEN (m - INT_MAX) + (n - INT_MAX) - 2 ELSE m + n
ShiftLeft(n, k) ==
  LET low == n % 2 ^ (32 - k)
  IN  (IF low >= 2 ^ (31 - k) THEN low - 2 ^ (32 - k) ELSE low) * 2 ^ k

NUL     == "NUL"
Garbage == "?"      \* what a buffer on the stack has behind its end

Hexdigits == <<"0", "1", "2", "3", "4", "5", "6", "7",
               "8", "9", "A", "B", "C", "D", "E", "F">>

Text(numbers) == [i \in DOMAIN numbers |-> Hexdigits[numbers[i] + 1]]

\* The digits of value, which is negative only if it is INT_MIN.
cvtdec0[value \in Int] ==
  LET quotient == IF value < 0 THEN 214748364 ELSE value \div 10
      last     == IF value < 0 THEN 8 ELSE value % 10
  IN  (IF quotient # 0 THEN cvtdec0[quotient] ELSE <<>>) \o Text(<<last>>)

cvtdec(value) ==
  IF value >= 0 THEN cvtdec0[value]
  ELSE <<"-">> \o cvtdec0[Negated(value)]

\* Defect: chars_stored is not kept, so no zero is stored but the last one.
Significant_Nonzero(fields) ==
  SelectSeq(Front(fields), LAMBDA f : f # 0) \o <<Last(fields)>>

\* From the first one that is not zero on, and always the last one.
Significant(fields) ==
  LET first == CHOOSE i \in DOMAIN fields :
                 /\ fields[i] # 0 \/ i = Len(fields)
                 /\ \A j \in 1 .. i - 1 : fields[j] = 0
  IN  SubSeq(fields, first, Len(fields))

cvthex(value) == Text(Significant([i \in 1 .. 8 |-> (value \div 16 ^ (8 - i)) % 16]))

\* The topmost two bits are shifted down with their sign, and masked to three.
cvtoct(value) == Text(Significant([i \in 1 .. 11 |-> (value \div 8 ^ (11 - i)) % 8]))

-----------------------------------------------------------------------------
pad(extra, padchar) == [i \in 1 .. extra |-> padchar]

\* Text str, as if it had len characters, filled up to width.
padstr(str, len, width, leftadjust, padchar) ==
  IF leftadjust THEN str \o pad(width - len, padchar) ELSE pad(width - len, padchar) \o str

\* What a conversion gets to pad.
Converted(item) ==
  CASE item.conv = "c" -> <<item.arg>>
    [] item.conv = "s" -> item.arg
    [] item.conv = "d" -> cvtdec(item.arg)
    [] item.conv = "x" -> cvthex(item.arg)
    [] item.conv = "o" -> cvtoct(item.arg)

Padded(item, str) == padstr(str, Len(str), item.width, item.left, IF item.zero THEN "0" ELSE " ")

\* What an item prints; sprint takes two characters too many for %x.
Printed(item) == IF item.conv = "text" THEN item.arg ELSE Padded(item, Converted(item))
Sprinted(item) ==
  IF item.conv = "x" THEN Padded(item, Converted(item) \o <<NUL, Garbage>>) ELSE Printed(item)

UpToNul(str) == SubSeq(str, 1, SelectInSeq(str \o <<NUL>>, LAMBDA c : c = NUL) - 1)

sprint(items) == UpToNul(FlattenSeq([i \in DOMAIN items |-> Sprinted(items[i])]))

-----------------------------------------------------------------------------
DigitValue(c) == CHOOSE d \in 0 .. 15 : Hexdigits[d + 1] = c

\* str2int, for bases up to 10: the digits up to the first other character, after a sign.
str2int(str, base) ==
  LET signed == str # <<>> /\ str[1] = "-"
      digits == {Hexdigits[d + 1] : d \in 0 .. base - 1}
      rest   == IF signed THEN Tail(str) ELSE str
      end    == SelectInSeq(rest \o <<NUL>>, LAMBDA c : c \notin digits)
      num    == FoldLeft(LAMBDA n, c : Plus(n * base, DigitValue(c)), 0, SubSeq(rest, 1, end - 1))
  IN  IF signed THEN Negated(num) ELSE num
=============================================================================
