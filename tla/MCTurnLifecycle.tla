--------------------------- MODULE MCTurnLifecycle ---------------------------
(* Small instances of TurnLifecycle. *)
EXTENDS TurnLifecycle, TLC

CONSTANTS a, b

\* The two session files are interchangeable.
SessionSymmetry == Permutations(LogFiles)
=============================================================================
