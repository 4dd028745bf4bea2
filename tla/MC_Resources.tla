----------------------------- MODULE MC_Resources -----------------------------
(* Instance of ResourceCommands for TLC: handlers of each family compete.     *)
EXTENDS ResourceCommands, TLC

HandlerSymmetry == Permutations(Handlers)

=============================================================================
