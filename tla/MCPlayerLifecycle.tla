------------------------- MODULE MCPlayerLifecycle -------------------------
(* Model checking of PlayerLifecycle: which sessions TLC may swap. *)
EXTENDS PlayerLifecycle, TLC

SessionSymmetry == Permutations(Sessions)
=============================================================================
