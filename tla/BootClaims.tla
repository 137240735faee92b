----------------------------- MODULE BootClaims -----------------------------
(***************************************************************************)
(* What comments of BuildImage.c and bootstrap.S say of them and what does *)
(* not hold; README, known deviations, tells the counterexamples.          *)
(***************************************************************************)
EXTENDS Boot

\* "Make sure the program will fit!" (BuildImage.c:158): an image that is accepted
\* loads nothing above the limit.
AcceptedFits ==
  phase = "load" =>
    \A p \in 1 .. Len(programs) : Target(programs[p].at) + programs[p].bytes <= LIMIT

\* The bootstrap stops at "# of sectors ... is it zero?" (bootstrap.S:123): the
\* table is followed by a zero.
TableTerminated == phase = "load" => TableWord(Len(info)) = 0

\* "nothing more to load" (bootstrap.S:125) is said when all programs were read.
AllRead == phase = "map" => di = Len(info)

\* "Too big" (bootstrap.S:334) is said of an image that does not fit the disk.
TooBigIsTooBig == phase = "frozen" /\ tries > 0 => Len(image) > Capacity
=============================================================================
