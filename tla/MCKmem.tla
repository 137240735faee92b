------------------------------- MODULE MCKmem -------------------------------
(***************************************************************************)
(* TLC instances of Kmem: memory maps as a BIOS reports them.              *)
(***************************************************************************)
EXTENDS Kmem

Region(base, length) == [base |-> base, length |-> length, usable |-> TRUE]
Reserved(base, length) == [base |-> base, length |-> length, usable |-> FALSE]

\* Regions that are cut off at both limits, hold part of a page, or are of no use;
\* in order, and in the opposite order.
Maps == {
  << Region(0, 3), Region(4, 13), Reserved(17, 3), Region(20, 40), Region(64, 8) >>,
  << Region(28, 5), Reserved(24, 4), Region(8, 14), Region(0, 8) >> }

\* The maps are such as the proofs of KmemProofs require.
ASSUME MapsAreRegular == RegularMaps
=============================================================================
