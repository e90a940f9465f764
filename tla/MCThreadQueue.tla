--------------------------- MODULE MCThreadQueue ---------------------------
(***************************************************************************)
(* Model values for ThreadQueue: the threads and the blocks are            *)
(* interchangeable, so the safety runs use their permutations as symmetry. *)
(***************************************************************************)
EXTENDS ThreadQueue, TLC

Symmetry ==
  Permutations(Producers) \cup Permutations(Consumers) \cup Permutations(Cells)
=============================================================================
