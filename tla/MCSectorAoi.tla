---------------------------- MODULE MCSectorAoi ----------------------------
(***************************************************************************)
(* A map of one row of sectors, long enough that some are not in sight of  *)
(* each other, for the model checker.                                      *)
(***************************************************************************)
EXTENDS SectorAoi, TLC

CONSTANTS a, b, wolf, coin

MCSpawnSector == [m \in Monsters |-> <<0, 0>>]

(* The characters are interchangeable, they enter anywhere.                *)
MCSymmetry == Permutations(Characters)
=============================================================================
