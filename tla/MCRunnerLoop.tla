---------------------------- MODULE MCRunnerLoop ----------------------------
(* The runner's loop for TLC: which provider it has (ModelActivation) and    *)
(* the turns it runs with it (TurnLifecycle, where the provider comes and    *)
(* goes at any time).  A run chooses at its start which of the two moves, so *)
(* that its states are the sum of theirs and not the product; the other is   *)
(* at rest in one of its initial states.                                     *)
EXTENDS MCModelActivation, MCTurnLifecycle

VARIABLE part   \* the side that moves

ActivationRests ==
    /\ ~hasRuntime /\ ~setupError /\ registry = {} /\ provider = {}
    /\ \A s \in Sessions : logTarget[s] = {}

\* The two sessions are interchangeable, and so are the two log files: it is no loss to
\* begin with s1 and a.
RunnerInit ==
    /\ Init /\ session = s1 /\ TurnsInit /\ current = a
    /\ \/ part = "activation" /\ ~configured
       \/ part = "turns" /\ ActivationRests

RunnerNext ==
    \/ part = "activation" /\ Next /\ UNCHANGED <<turnsVars, part>>
    \/ part = "turns" /\ TurnsNext /\ UNCHANGED <<vars, part>>

RunnerSpec ==
    RunnerInit /\ [][RunnerNext]_<<vars, turnsVars, part>> /\ Fairness /\ TurnsFairness

=============================================================================
