------------------------------- MODULE Screen -------------------------------
(***************************************************************************)
(* Output to the console (cio.c): video memory, the scroll region in it,   *)
(* the cursor, the calls that write at the cursor and scroll, and those    *)
(* that write anywhere.                                                    *)
(*                                                                         *)
(* Scrolling is delayed: after the last line of the region the cursor is   *)
(* below it until something else is put there.  The hardware cursor is     *)
(* where curr_x and curr_y are, and has no variable; nor have attributes.  *)
(***************************************************************************)
EXTENDS Format

CONSTANTS
  MAX_X, MAX_Y,    \* SCREEN_MAX_X, SCREEN_MAX_Y
  Letters,         \* characters that programs print, LineFeed and Return apart
  Items,           \* what they print with a format
  Numbers,         \* conversions that sprint is called with
  Corners,         \* arguments of setscroll: <<x1, y1, x2, y2>>
  Places,          \* positions given to the other calls, also off the screen
  MaxRows          \* BOUND: rows of text between two calls that move the cursor

ASSUME ScreenAssumption ==
  /\ MAX_X \in Nat /\ MAX_Y \in Nat /\ MaxRows \in Nat
  /\ \A l \in Letters : l \in STRING

LineFeed == "\n"
Return == "\r"
Chars == Letters \cup {LineFeed, Return}

VARIABLES
  cells,           \* video memory: <<x, y>> -> character
  scroll,          \* scroll_min_x, ... : the scroll region
  curr,            \* curr_x, curr_y
  paper,           \* history: the text as if on paper, since the cursor was moved
  buffer           \* what sprint was asked for last and left in its caller's buffer

screenVars == <<cells, scroll, curr, paper, buffer>>

Cells        == (0 .. MAX_X) \X (0 .. MAX_Y)
Inside(x, y) == /\ scroll.min_x <= x /\ x <= scroll.max_x
                /\ scroll.min_y <= y /\ y <= scroll.max_y
Region       == {p \in Cells : Inside(p[1], p[2])}
Width        == scroll.max_x - scroll.min_x + 1
Height       == scroll.max_y - scroll.min_y + 1

NoBuffer == <<>>

bound(min, value, max) ==
  LET above == IF value < min THEN min ELSE value IN IF above > max THEN max ELSE above

-----------------------------------------------------------------------------
(***************************************************************************)
(* Video memory                                                            *)
(***************************************************************************)
c_putchar_at(m, x, y, c) == IF <<x, y>> \in Cells THEN [m EXCEPT ![<<x, y>>] = c] ELSE m

Erased(m, x, limit, y) ==
  [p \in Cells |-> IF p[2] = y /\ x <= p[1] /\ p[1] <= limit THEN " " ELSE m[p]]

clearscroll(m) == [p \in Cells |-> IF p \in Region THEN " " ELSE m[p]]

\* Lines are copied up, and the last ones cleared.
Shifted(m, lines) ==
  [p \in Cells |-> IF p \notin Region THEN m[p]
                   ELSE IF p[2] <= scroll.max_y - lines THEN m[<<p[1], p[2] + lines>>]
                   ELSE " "]

Home == [x |-> scroll.min_x, y |-> scroll.min_y]

\* __cio_scroll: a screen is its cells and its cursor.
Scrolled(s, lines) ==
  IF lines > scroll.max_y - scroll.min_y
  THEN [cells |-> clearscroll(s.cells), curr |-> Home]
  ELSE [s EXCEPT !.cells = Shifted(s.cells, lines)]

-----------------------------------------------------------------------------
(***************************************************************************)
(* Output at the cursor                                                    *)
(***************************************************************************)
\* Defect: the cursor stays below the region, and the last line is lost.
Ready_Below(s) ==
  IF s.curr.y > scroll.max_y THEN Scrolled(s, s.curr.y - scroll.max_y) ELSE s

\* The scrolling that the last output left to do.
Ready(s) ==
  IF s.curr.y > scroll.max_y
  THEN [Scrolled(s, s.curr.y - scroll.max_y) EXCEPT !.curr.y = scroll.max_y]
  ELSE s

NextLine(y) == [x |-> scroll.min_x, y |-> y + 1]

putchar(screen, c) ==
  LET s == Ready(screen)
      x == s.curr.x
      y == s.curr.y
  IN  CASE c = LineFeed -> [cells |-> Erased(s.cells, x, scroll.max_x, y), curr |-> NextLine(y)]
        [] c = Return -> [s EXCEPT !.curr.x = scroll.min_x]
        [] OTHER  -> [cells |-> c_putchar_at(s.cells, x, y, c),
                      curr  |-> IF x + 1 > scroll.max_x THEN NextLine(y)
                                ELSE [x |-> x + 1, y |-> y]]

-----------------------------------------------------------------------------
(***************************************************************************)
(* Paper: rows of the region's width, as many as were begun                *)
(***************************************************************************)
BlankRow == [i \in 1 .. Width |-> " "]

\* What is to be seen in the region, with the cursor in it or just below.
Seen ==
  [rows |-> [i \in 1 .. Height |->
               [j \in 1 .. Width |-> cells[<<scroll.min_x + j - 1, scroll.min_y + i - 1>>]]],
   row  |-> curr.y - scroll.min_y + 1,
   col  |-> curr.x - scroll.min_x + 1]

\* One more character on the paper.
TypedOn(p, c) ==
  LET rows == IF p.row > Len(p.rows) THEN Append(p.rows, BlankRow) ELSE p.rows
  IN  CASE c = LineFeed -> [rows |-> [rows EXCEPT ![p.row] =
                                  [j \in 1 .. Width |-> IF j < p.col THEN @[j] ELSE " "]],
                      row |-> p.row + 1, col |-> 1]
        [] c = Return -> [rows |-> rows, row |-> p.row, col |-> 1]
        [] OTHER  -> [rows |-> [rows EXCEPT ![p.row][p.col] = c],
                      row |-> IF p.col = Width THEN p.row + 1 ELSE p.row,
                      col |-> IF p.col = Width THEN 1 ELSE p.col + 1]

-----------------------------------------------------------------------------
(***************************************************************************)
(* Calls                                                                   *)
(***************************************************************************)
\* __cio_putchar, __cio_puts and __cio_write of a text, and __cio_printf.
cio_write(text) ==
  LET s == FoldLeft(putchar, [cells |-> cells, curr |-> curr], text) IN
  /\ Len(paper.rows) < MaxRows
  /\ cells' = s.cells /\ curr' = s.curr
  /\ paper' = FoldLeft(TypedOn, paper, text)
  /\ UNCHANGED scroll /\ buffer' = NoBuffer

cio_printf(items) == cio_write(FlattenSeq([i \in DOMAIN items |-> Printed(items[i])]))

\* Whatever moves the cursor or writes elsewhere begins a new sheet.
NewSheet == paper' = Seen' /\ buffer' = NoBuffer

cio_setscroll(x1, y1, x2, y2) ==
  LET left == bound(0, x1, MAX_X)
      top  == bound(0, y1, MAX_Y)
  IN  /\ scroll' = [min_x |-> left, min_y |-> top,
                    max_x |-> bound(left, x2, MAX_X), max_y |-> bound(top, y2, MAX_Y)]
      /\ curr' = [x |-> left, y |-> top]
      /\ UNCHANGED cells /\ NewSheet

cio_moveto(x, y) ==
  /\ curr' = [x |-> bound(scroll.min_x, x + scroll.min_x, scroll.max_x),
              y |-> bound(scroll.min_y, y + scroll.min_y, scroll.max_y)]
  /\ UNCHANGED <<cells, scroll>> /\ NewSheet

cio_scroll(lines) ==
  LET s == Scrolled([cells |-> cells, curr |-> curr], lines) IN
  /\ cells' = s.cells /\ curr' = s.curr
  /\ UNCHANGED scroll /\ NewSheet

cio_clearscroll ==
  cells' = clearscroll(cells) /\ UNCHANGED <<scroll, curr>> /\ NewSheet

cio_clearscreen ==
  cells' = [p \in Cells |-> " "] /\ UNCHANGED <<scroll, curr>> /\ NewSheet

\* Defect: a line is always erased up to the edge of the screen.
Limit_Edge(x) == MAX_X

\* How far a line is erased from column x on: not across the region's border.
Limit(x) ==
  IF x > scroll.max_x THEN MAX_X
  ELSE IF x >= scroll.min_x THEN scroll.max_x ELSE scroll.min_x - 1

putchar_at(m, x, y, c) ==
  IF c = LineFeed THEN Erased(m, x, Limit(x), y) ELSE c_putchar_at(m, x, y, c)

cio_putchar_at(x, y, c) ==
  cells' = putchar_at(cells, x, y, c) /\ UNCHANGED <<scroll, curr>> /\ NewSheet

\* Characters of a text or a conversion, and of the format itself.
PutAt(s, c) == [s EXCEPT !.cells = putchar_at(s.cells, s.x, s.y, c), !.x = @ + 1]
FormatAt(s, c) ==
  [cells |-> putchar_at(s.cells, s.x, s.y, c),
   x |-> IF c \in {LineFeed, Return} THEN scroll.min_x ELSE s.x + 1,
   y |-> IF c = LineFeed THEN s.y + 1 ELSE s.y]

\* __cio_printf_at, and __cio_puts_at, which prints one conversion.
cio_printf_at(x, y, items) ==
  LET print(s, item) == IF item.conv = "text" THEN FoldLeft(FormatAt, s, Printed(item))
                        ELSE FoldLeft(PutAt, s, Printed(item))
  IN  /\ cells' = FoldLeft(print, [cells |-> cells, x |-> x, y |-> y], items).cells
      /\ UNCHANGED <<scroll, curr>> /\ NewSheet

Blank ==
  /\ cells = [p \in Cells |-> " "]
  /\ scroll = [min_x |-> 0, min_y |-> 0, max_x |-> MAX_X, max_y |-> MAX_Y]
  /\ curr = [x |-> 0, y |-> 0]

\* __sprint, and sprint of the library.  BOUND: only while the screen is as it was at
\* first, since it plays no part in this.
sprint_item(item) ==
  /\ Blank /\ buffer = NoBuffer
  /\ buffer' = <<[item |-> item, text |-> sprint(<<item>>)]>>
  /\ UNCHANGED <<cells, scroll, curr, paper>>

-----------------------------------------------------------------------------
ScreenInit == Blank /\ paper = Seen /\ buffer = NoBuffer

ScreenNext ==
  \/ \E c \in Chars : cio_write(<<c>>)
  \/ \E item \in Items : cio_printf(<<item>>)
  \/ \E c \in Corners : cio_setscroll(c[1], c[2], c[3], c[4])
  \/ \E p \in Places :
       \/ cio_moveto(p[1], p[2])
       \/ \E c \in Chars \ {Return} : cio_putchar_at(p[1], p[2], c)
       \/ \E item \in Items : cio_printf_at(p[1], p[2], <<item>>)
  \/ \E n \in 0 .. MAX_Y + 1 : cio_scroll(n)
  \/ cio_clearscroll \/ cio_clearscreen
  \/ \E item \in Numbers : sprint_item(item)

ScreenSpec == ScreenInit /\ [][ScreenNext]_screenVars

-----------------------------------------------------------------------------
\* The region shows the last rows of the paper, blank ones below a text that does
\* not fill it, and the cursor is where the text goes on: delayed scrolling loses
\* no line and shows none twice (cio.c:158-164, 168-178, 253-287).
ShowsText ==
  LET hidden == Len(paper.rows) - Height
  IN  /\ hidden >= 0
      /\ Seen = [rows |-> SubSeq(paper.rows, hidden + 1, Len(paper.rows)),
                 row |-> paper.row - hidden, col |-> paper.col]

Changed == {p \in Cells : cells'[p] # cells[p]}

\* Output at the cursor and scrolling stay in the region; a character put anywhere
\* changes only one side of its border, also when it erases the rest of a line
\* (cio.c:132-136).
BordersKept ==
  [][/\ (\E c \in Chars : cio_write(<<c>>)) \/ (\E n \in 0 .. MAX_Y + 1 : cio_scroll(n))
          => Changed \subseteq Region
     /\ \A p \in Places : (\E c \in Chars \ {Return} : cio_putchar_at(p[1], p[2], c))
          => IF Inside(p[1], p[2]) THEN Changed \subseteq Region
             ELSE Changed \cap Region = {}]_screenVars

\* Conversions whose padding is not part of the number: 0 is put in front of a
\* minus, and behind a number that is adjusted to the left.
Readable(item) ==
  ~item.zero \/ (~item.left /\ (item.conv # "d" \/ item.arg >= 0))

\* What sprint writes of a number is as wide as it was asked to be (except for %x),
\* and str2int, or a reader of the bases 8 and 16, gets the same 32 bits back
\* (klibc.c:388-501, ulibc.c:124-150).
NumbersRead ==
  \A i \in DOMAIN buffer :
    LET item   == buffer[i].item
        text   == buffer[i].text
        number == SelectSeq(text, LAMBDA c : c # " ")
        Bits(k) == FoldLeft(LAMBDA n, c : ShiftLeft(n, k) + DigitValue(c), 0, number)
    IN  /\ item.conv # "x" => Len(text) = Max({item.width, Len(Converted(item))})
        /\ Readable(item) => item.arg = CASE item.conv = "d" -> str2int(number, 10)
                                          [] item.conv = "x" -> Bits(4)
                                          [] item.conv = "o" -> Bits(3)

(***************************************************************************)
(* Two statements that fail (README, section 5)                            *)
(***************************************************************************)
\* klibc.c:472 "Convert an integer value into an octal character string": it is one
\* of 32 bits.
OctalFits ==
  \A i \in DOMAIN buffer : buffer[i].item.conv = "o" /\ Len(buffer[i].text) = 11 =>
                             DigitValue(buffer[i].text[1]) <= 3

\* klibc.c:238 "The desired final length of the string": of hexadecimal numbers too.
HexPadded ==
  \A i \in DOMAIN buffer : buffer[i].item.conv = "x" => Len(buffer[i].text) >= buffer[i].item.width
=============================================================================
