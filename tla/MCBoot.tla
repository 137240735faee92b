------------------------------- MODULE MCBoot -------------------------------
(***************************************************************************)
(* Memory and disks scaled down: 128 bytes and some, segments every 4      *)
(* bytes, sectors of 8, 32 bytes for 64K.  All command lines of up to two  *)
(* programs, of whole and broken sectors, that do not overlap, and two     *)
(* with too many programs.                                                 *)
(***************************************************************************)
EXTENDS BootClaims

Flat(a)    == [form |-> "flat", address |-> a]
Pair(s, o) == [form |-> "pair", segment |-> s, offset |-> o]

Places == {Flat(16), Flat(18), Flat(40), Flat(72), Flat(81), Pair(4, 8), Pair(6, 24), Pair(2, 15)}
Sizes  == {5, 8, 20, 33}

Candidates == {p \in [bytes : Sizes, at : Places] : Straight(p)}

SomeCommandLines ==
  {<<p>> : p \in Candidates} \cup
  {line \in Candidates \X Candidates : Apart(line[1], line[2])} \cup
  {[i \in 1 .. n |-> [bytes |-> 5, at |-> Flat(8 + 8 * i)]] : n \in 3 .. 4}

SomeGeometries ==
  {[sectors |-> 2, heads |-> 2], [sectors |-> 2, heads |-> 1], [sectors |-> 2, heads |-> 4],
   [sectors |-> 5, heads |-> 2]}

ASSUME LinesAreRegular == RegularLines
=============================================================================
