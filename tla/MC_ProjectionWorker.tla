------------------------- MODULE MC_ProjectionWorker -------------------------
(* Instances of ProjectionWorker for TLC.  Projection p applies both event   *)
(* types, q only the second, so that batches exist that one of them, or      *)
(* neither of them, needs.                                                   *)
EXTENDS ProjectionWorker, TLC

CONSTANTS p, q, k1, k2

MCHandles == (p :> {k1, k2}) @@ (q :> {k2})

MCSymmetry == Permutations(Writers)

=============================================================================
