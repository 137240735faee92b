------------------------------ MODULE MCConsole ------------------------------
(***************************************************************************)
(* TLC instances of the two halves of the console, ConsoleClaims and       *)
(* Console for the keyboard and Screen for the display.  They share no     *)
(* state, so a behaviour is one of either: which is chosen at the start.   *)
(***************************************************************************)
EXTENDS ConsoleClaims, Screen, TLC

VARIABLE half

HalfInit == half \in {"keyboard", "display"} /\ ConsInit /\ ScreenInit

HalfNext ==
  \/ half = "keyboard" /\ ConsNext /\ UNCHANGED <<screenVars, half>>
  \/ half = "display" /\ ScreenNext /\ UNCHANGED <<consVars, half>>

HalfSpec == HalfInit /\ [][HalfNext]_<<consVars, screenVars, half>>

Symmetry == Permutations(Procs)

-----------------------------------------------------------------------------
Conversion(conv, arg, width, left, zero) ==
  [conv |-> conv, arg |-> arg, width |-> width, left |-> left, zero |-> zero]

\* A padded text that wraps, one adjusted left, and a format with a new line.
SomeItems == {Conversion("s", <<"a">>, 3, FALSE, FALSE), Conversion("c", "a", 2, TRUE, FALSE),
              [conv |-> "text", arg |-> <<"a", LineFeed, "a">>]}

\* The whole screen and more, a region with a border on every side but one, a line.
SomeCorners == {<<0, 0, 9, 9>>, <<1, 1, 2, 9>>, <<0, 1, 1, 1>>}
SomePlaces  == {<<0, 0>>, <<1, 1>>, <<3, 3>>}

\* Both ends of the range, and numbers with zeros inside.
SomeNumbers ==
  [conv : {"d", "x", "o"}, width : {0, 4, 12}, left : BOOLEAN, zero : BOOLEAN,
   arg : {INT_MIN, INT_MIN + 1, -1000001, -10, -1, 0, 7, 8, 10, 100, 255, 4096, 65535, 1000000000, 2147483647}]
=============================================================================
