--------------------------- MODULE MCShellAuthority ---------------------------
(* Small instances of ShellAuthority. *)
EXTENDS ShellAuthority, TLC

CONSTANTS plain, listed, ask, human, s1, s2

\* The sessions are interchangeable.
SessionSymmetry == Permutations(Sessions)
=============================================================================
