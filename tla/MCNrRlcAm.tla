----------------------------- MODULE MCNrRlcAm -----------------------------
(* Instances of NrRlcAm for TLC.                                           *)
EXTENDS NrRlcAm

(* Neighbours of two bytes, so that an SDU with a gap is overtaken by the  *)
(* next; and an SDU of three bytes, so that one SDU has two gaps and a     *)
(* NACK is cut inside it.                                                  *)
SizesOf(s) == [i \in Sdu |-> s[i + 1]]
MixedSizes == {SizesOf(<<2, 2, 1, 1>>), SizesOf(<<1, 1, 1, 3>>)}
PairSizes == {SizesOf(<<2, 2>>)}
ShortSizes == {SizesOf(<<2, 1>>), SizesOf(<<1, 2>>)}
=============================================================================
