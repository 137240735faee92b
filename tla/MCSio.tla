-------------------------------- MODULE MCSio --------------------------------
(***************************************************************************)
(* TLC instances of Sio and SioClaims.                                     *)
(***************************************************************************)
EXTENDS SioClaims, TLC

Symmetry == Permutations(Procs)

Write(s) == [buf |-> s, length |-> Len(s)]

\* Lines that begin with a character, as most programs write.
PlainWrites == {Write(<<"a">>), Write(<<"b", "c">>), Write(<<"d", "e", "f">>)}

\* Lines that begin with a line feed too.
NewlineWrites == {Write(<<"a", "b">>), Write(<<NL, "c">>)}
=============================================================================
