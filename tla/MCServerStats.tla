--------------------------- MODULE MCServerStats ---------------------------
(***************************************************************************)
(* Model values and symmetry for checking ServerStats with TLC.            *)
(***************************************************************************)
EXTENDS ServerStats, TLC

WorkerSymmetry == Permutations(Workers)
=============================================================================
