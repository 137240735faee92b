----------------------------- MODULE MCHeaders -----------------------------
(***************************************************************************)
(* TLC instances of Headers.                                               *)
(***************************************************************************)
EXTENDS Headers

\* Small and large bytes, so that sums carry.
SomeAddresses == {<<10, 0, 0, 1>>, <<192, 168, 255, 254>>}
SomeMacs      == {<<255, 255, 255, 255, 255, 255>>, <<2, 0, 1, 0, 3, 9>>}
SomePorts     == {<<0, 80>>, <<255, 254>>}
\* Empty, odd, full of carries, longer than the padding, too long for the buffer.
SomePayloads  == {<<>>, <<1>>, <<255, 255, 255>>, [i \in 1 .. 22 |-> 7], [i \in 1 .. 30 |-> 8]}
=============================================================================
