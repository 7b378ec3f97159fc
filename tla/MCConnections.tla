---------------------------- MODULE MCConnections ----------------------------
(* Stored connections for TLC: the registry and the credentials            *)
(* (ConnectionStore) and the models they offer (ModelRefresh).  ModelRefresh *)
(* has the registry as a set of connections; a run chooses at its start     *)
(* which of the two moves, so that its states are the sum of theirs.        *)
EXTENDS ConnectionStore, ModelRefresh

CONSTANT MaxEvents  \* bound on requests, mutations and outside events taken together

VARIABLE part   \* the component that moves

Events == asked.requests + asked.mutations + asked.outside

ConnectionsInit ==
    /\ ConInit /\ RefreshInit
    /\ part = "refresh" \/ (part = "store" /\ live = {})

ConnectionsNext ==
    \/ part = "store" /\ ConNext /\ UNCHANGED <<refreshVars, part>>
    \/ /\ part = "refresh" /\ RefreshNext /\ Events' <= MaxEvents
       /\ UNCHANGED <<conVars, part>>

ConnectionsSpec ==
    /\ ConnectionsInit
    /\ [][ConnectionsNext]_<<conVars, refreshVars, part>>
    /\ RefreshFairness

=============================================================================
