------------------------------ MODULE MCUseDef ------------------------------
(***************************************************************************)
(* TLC instance of UseDef: a phi, two ordinary instructions, two blocks, a *)
(* constant and four Use objects: two entries of the phi, or an            *)
(* instruction with two operands beside one entry.                         *)
(***************************************************************************)
EXTENDS UseDef, TLC

CONSTANTS i1, i2, p1, b1, b2, c1, u1, u2, u3, u4

MCInstrs == {i1, i2, p1}
MCPhis   == {p1}
MCBlocks == {b1, b2}
MCConsts == {c1}
MCUses   == {u1, u2, u3, u4}
MCName   == [b \in MCBlocks |-> b]
Symmetry == Permutations(MCUses) \cup Permutations({i1, i2})
=============================================================================
