--------------------------- MODULE MCFieldCombat ---------------------------
EXTENDS FieldCombat, TLC
CONSTANTS p1, p2, m1, d1, d2
Symmetry == Permutations(Players)
=============================================================================
