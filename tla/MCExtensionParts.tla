-------------------------- MODULE MCExtensionParts --------------------------
(* The two ends of an extension, for TLC: the authority document, with two   *)
(* writers (AuthorityStore: a running session's lifecycle task and a         *)
(* command-line process), and the session with the extension's own process   *)
(* (HostSession: a two-tool extension whose host may also try a name that    *)
(* its manifest does not declare, and a reviewer).  A run chooses at its     *)
(* start which of the two is in use, so that its states are the sum of       *)
(* theirs and not the product.                                               *)
EXTENDS AuthorityStore, HostSession

VARIABLE part   \* the end in use

PartsInit == Init /\ HostInit /\ part \in {"authority", "host"}

PartsNext ==
    \/ part = "authority" /\ Next /\ UNCHANGED <<hostVars, part>>
    \/ part = "host" /\ HostNext /\ UNCHANGED <<vars, part>>

\* The end that is not in use has nothing under way, so it is owed no step.
PartsSpec == PartsInit /\ [][PartsNext]_<<vars, hostVars, part>> /\ Fairness /\ HostFairness

=============================================================================
