----------------------------- MODULE AuthorityLog -----------------------------
(***************************************************************************)
(* What the store of extension authority promises for one extension: a     *)
(* list of decisions and the authority in force after the last of them.    *)
(* Decisions are added whole and one after another.  A power loss may take *)
(* back the latest ones, but none that was reported as written to stay.    *)
(***************************************************************************)
EXTENDS Integers, Sequences

CONSTANTS Grants, NoGrant

VARIABLES
    base,       \* the authority in force before the first decision
    decisions,  \* the decisions, oldest first
    current,    \* the authority in force
    reported    \* the decisions reported as written to stay

vars == <<base, decisions, current, reported>>

After(b, d) == IF d = <<>> THEN b ELSE d[Len(d)].after

Init ==
    /\ base \in Grants \cup {NoGrant} /\ current = base
    /\ decisions = <<>> /\ reported = {}

(* One decision more, made on the authority then in force. *)
Decide ==
    LET n == Len(decisions) + 1 IN
    /\ Len(decisions') = n /\ SubSeq(decisions', 1, n - 1) = decisions
    /\ decisions'[n].before = current
    /\ \A i \in 1..(n - 1) : decisions[i].op # decisions'[n].op
    /\ current' = decisions'[n].after /\ current' \in Grants \cup {NoGrant}
    /\ UNCHANGED <<base, reported>>

Report ==
    \E i \in 1..Len(decisions) :
        /\ reported' = reported \cup {decisions[i].op}
        /\ UNCHANGED <<base, decisions, current>>

Forget ==
    \E n \in 0..Len(decisions) :
        /\ \A i \in (n + 1)..Len(decisions) : decisions[i].op \notin reported
        /\ decisions' = SubSeq(decisions, 1, n)
        /\ current' = After(base, decisions')
        /\ UNCHANGED <<base, reported>>

Next == Decide \/ Report \/ Forget

Spec == Init /\ [][Next]_vars

=============================================================================
