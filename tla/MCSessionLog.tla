---------------------------- MODULE MCSessionLog ----------------------------
(* What a session's log keeps and what is made of it, for TLC: the bytes in  *)
(* the file (SessionStore) and the context that requests are rebuilt from    *)
(* (ContextReplay).  A run chooses at its start which of the two is in use,  *)
(* so that its states are the sum of theirs and not the product.             *)
EXTENDS SessionStore, ContextReplay

VARIABLE part   \* the side in use

LogInit == StoreInit /\ ReplayInit /\ part \in {"bytes", "context"}

LogNext ==
    \/ part = "bytes" /\ StoreNext /\ UNCHANGED <<replayVars, part>>
    \/ part = "context" /\ ReplayNext /\ UNCHANGED <<storeVars, part>>

LogSpec == LogInit /\ [][LogNext]_<<storeVars, replayVars, part>>

=============================================================================
