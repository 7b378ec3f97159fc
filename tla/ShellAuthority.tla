----------------------------- MODULE ShellAuthority -----------------------------
(***************************************************************************)
(* Who may run a shell command (crates/yach-backend/src/runner.rs,         *)
(* permission.rs, review/coordinator.rs): the approval mode the user       *)
(* picks, the standing restrictions, the allowlist, the grants of the      *)
(* session, the reviewer extension and the review rows the client answers. *)
(*                                                                         *)
(* A turn's tool round takes its commands one after the other, beside the  *)
(* event loop.  They share two atomics, the approval mode and the          *)
(* authorization revision, which a decision loads once each, so a decision *)
(* and the start of the command it allows are one step; the grants are the *)
(* turn's own.  Each command that reaches a decision is an invocation with *)
(* an id of its own, which stands for its permission decision id and its   *)
(* review id; its "slot" is the request id tool-request-<round>-<index>,   *)
(* which the next turn uses again.                                         *)
(***************************************************************************)
EXTENDS Integers, Sequences, FiniteSets

CONSTANTS
    Commands,        \* commands with their working directory
    Allowlisted,     \* ... the user's shell allowlist runs
    AskFirst,        \* ... a standing restriction holds for the user
    HumanPerforms,   \* ... a standing restriction reserves for the user
    Sessions,
    Safe,            \* the modes that are stored: review, accept_edits
    MaxInvocations,  \* bound on the commands that reach a decision
    MaxBatch,        \* bound on the commands of one tool round
    MaxDecisions,    \* bound on the decisions waiting in a turn's channel
    MaxFaults        \* bound on the evidence writes that fail

ASSUME ShellAssumption ==
    /\ Allowlisted \subseteq Commands
    /\ AskFirst \subseteq Commands
    /\ HumanPerforms \subseteq Commands
    /\ Sessions # {}
    /\ Safe # {} /\ Safe \subseteq {"review", "accept_edits"}
    /\ MaxInvocations \in Nat /\ MaxBatch \in Nat
    /\ MaxDecisions \in Nat /\ MaxFaults \in Nat

VARIABLES
    executes,  \* does the build follow an "execute" route?  (gate_execution)
    session,   \* current_session_id
    mode,      \* approval_mode, and the live copy of session_mode_state
    stored,    \* the project's approval settings file
    grants,    \* shell_session_grants
    turn,      \* the active turn, its tool round and its cancellation token
    req,       \* the invocation the round is working on
    queue,     \* review_decision_tx: decisions not yet taken by the turn
    rows,      \* review rows the client has been shown
    issued,    \* invocation ids handed out
    evidence,  \* session files: the decisions of this process that let a command run
    faults,
    chosen,    \* ghost: the dangerous modes selected since the session was opened
    approved,  \* ghost: the invocations the client sent an approval of
    granted,   \* ghost: <<command, session>> the user approved for the session
    late       \* ghost: the commands started after this turn was cancelled

vars == <<executes, session, mode, stored, grants, turn, req, queue, rows, issued,
          evidence, faults, chosen, approved, granted, late>>

Dangerous == {"full_access", "auto_review"}
Modes == Safe \cup Dangerous
Ids   == 1..MaxInvocations
Verdicts == {"approve", "approve_session", "reject"}

NoReq  == [st |-> "none"]
NoTurn == [on |-> FALSE, cancelled |-> FALSE, slot |-> 0, left |-> 0,
           mode |-> CHOOSE m \in Safe : TRUE, reviewer |-> FALSE]

\* The mode it was decided under, and whether the authorization revision is the
\* one its review started from.
Request == [st : {"reviewing", "asking", "running"}, id : Ids, cmd : Commands,
            slot : Nat, used : Modes, fresh : BOOLEAN]
\* A row also remembers whether the reviewer found its command reserved for the
\* user.
Row == [id : Ids, slot : Nat, reserved : BOOLEAN]

TypeOK ==
    /\ executes \in BOOLEAN
    /\ session \in Sessions
    /\ mode \in Modes /\ stored \in Safe
    /\ grants \subseteq Commands
    /\ turn \in [on : BOOLEAN, cancelled : BOOLEAN, slot : 0..MaxInvocations,
                 left : 0..MaxBatch, mode : Modes, reviewer : BOOLEAN]
    /\ req = NoReq \/ (req \in Request /\ turn.on)
    /\ queue \in Seq([row : Row, verdict : Verdicts])
    /\ rows \subseteq Row
    /\ issued \in 0..MaxInvocations
    /\ evidence \subseteq Ids \X {"allowed", "execute", "approve", "approve_session"} \X Commands
    /\ faults \in 0..MaxFaults
    /\ chosen \subseteq Dangerous
    /\ approved \subseteq Ids
    /\ granted \subseteq Commands \X Sessions
    /\ late \in Nat

Init ==
    /\ executes \in BOOLEAN
    /\ session \in Sessions
    /\ stored \in Safe /\ mode = stored
    /\ grants = {} /\ turn = NoTurn /\ req = NoReq /\ queue = <<>> /\ rows = {}
    /\ issued = 0 /\ evidence = {} /\ faults = 0
    /\ chosen = {} /\ approved = {} /\ granted = {} /\ late = 0

-----------------------------------------------------------------------------
(***************************************************************************)
(* The event loop: approval modes, sessions, decisions, cancellation.      *)
(***************************************************************************)

\* ApprovalModeSelected: only the modes that are not dangerous are stored.
\* What fails before the switch leaves everything as it was.
SelectMode(m) ==
    /\ mode' = m
    /\ stored' = IF m \in Safe THEN m ELSE stored
    /\ chosen' = chosen \cup ({m} \cap Dangerous)
    /\ UNCHANGED <<executes, session, grants, turn, req, queue, rows, issued,
                    evidence, faults, approved, granted, late>>

\* reset_full_access_after_session_switch.
ResetFullAccess == IF mode = "full_access" THEN stored ELSE mode

\* SessionSelected, SessionPathSelected, of the current session too: refused
\* during a turn.
SwitchSession(s) ==
    /\ ~turn.on
    /\ session' = s
    /\ mode' = ResetFullAccess
    /\ chosen' = {}
    /\ UNCHANGED <<executes, stored, grants, turn, req, queue, rows, issued,
                    evidence, faults, approved, granted, late>>

\* A new process, in the middle of a turn or not: the stored mode, no grants, no
\* rows, no turn, and ids from the beginning.
Restart ==
    /\ session' \in Sessions
    /\ mode' = stored
    /\ grants' = {} /\ turn' = NoTurn /\ req' = NoReq /\ queue' = <<>> /\ rows' = {}
    /\ issued' = 0 /\ evidence' = {}
    /\ chosen' = {} /\ approved' = {} /\ granted' = {} /\ late' = 0
    /\ UNCHANGED <<executes, stored, faults>>

\* ToolReviewDecisionSubmitted: forwarded to the turn that is active, whatever
\* row it is about; without one it is answered with a status.
SubmitDecision(row, v) ==
    /\ turn.on /\ row \in rows
    /\ Len(queue) < MaxDecisions
    /\ queue' = Append(queue, [row |-> row, verdict |-> v])
    /\ approved' = IF v = "reject" THEN approved ELSE approved \cup {row.id}
    /\ UNCHANGED <<executes, session, mode, stored, grants, turn, req, rows,
                    issued, evidence, faults, chosen, granted, late>>

\* PromptCancelled.
CancelPrompt ==
    /\ turn.on
    /\ turn' = [turn EXCEPT !.cancelled = TRUE]
    /\ UNCHANGED <<executes, session, mode, stored, grants, req, queue, rows,
                    issued, evidence, faults, chosen, approved, granted, late>>

\* A prompt while the turn waits, possible once its provider was removed:
\* bump_authorization_revision.
BumpRevision ==
    /\ req.st = "reviewing"
    /\ req' = [req EXCEPT !.fresh = FALSE]
    /\ UNCHANGED <<executes, session, mode, stored, grants, turn, queue, rows,
                    issued, evidence, faults, chosen, approved, granted, late>>

StartTurn ==
    /\ ~turn.on
    /\ turn' = [NoTurn EXCEPT !.on = TRUE]
    /\ queue' = <<>> /\ late' = 0
    /\ UNCHANGED <<executes, session, mode, stored, grants, req, rows, issued,
                    evidence, faults, chosen, approved, granted>>

-----------------------------------------------------------------------------
(***************************************************************************)
(* The turn: its rounds and the commands of a round.                       *)
(***************************************************************************)

\* The turn is over, with an error or a final answer.
EndTurn == turn' = NoTurn /\ req' = NoReq /\ queue' = <<>>

\* A tool round takes the live mode, once, and a reviewer if there is one.
StartRound(n) ==
    /\ turn.on /\ req = NoReq /\ turn.left = 0 /\ ~turn.cancelled
    /\ \E r \in IF mode = "auto_review" THEN BOOLEAN ELSE {FALSE} :
         turn' = [turn EXCEPT !.left = n, !.mode = mode, !.reviewer = r]
    /\ UNCHANGED <<executes, session, mode, stored, grants, req, queue, rows,
                    issued, evidence, faults, chosen, approved, granted, late>>

\* The turn ends: a final answer, an error of the provider or of the round.
FinishTurn ==
    /\ turn.on /\ req = NoReq
    /\ EndTurn
    /\ UNCHANGED <<executes, session, mode, stored, grants, rows, issued, evidence,
                    faults, chosen, approved, granted, late>>

\* The round sees its cancelled token before the next command.
StopCancelled == turn.cancelled /\ FinishTurn

\* PermissionDecisionEngine::decide_shell: restrictions, the allowlist, the
\* grants, then the mode.
DecideShell(cmd, m) ==
    IF cmd \in HumanPerforms THEN "human"
    ELSE IF cmd \in AskFirst THEN "ask"
    ELSE IF cmd \in Allowlisted \cup grants \/ m = "full_access" THEN "allow"
    ELSE IF m = "auto_review" THEN "reviewer" ELSE "ask"

\* The batch comes to its next command, unless it was cancelled, and decides.
Decides(cmd, what) ==
    /\ turn.on /\ req = NoReq /\ turn.left > 0 /\ ~turn.cancelled
    /\ issued < MaxInvocations /\ issued' = issued + 1
    /\ DecideShell(cmd, turn.mode) = what

Outcomes == {"allow", "human", "ask", "reviewer"}

Taken == [turn EXCEPT !.left = @ - 1, !.slot = @ + 1]

Requested(cmd, st) ==
    [st |-> st, id |-> issued + 1, cmd |-> cmd, slot |-> turn.slot + 1,
     used |-> turn.mode, fresh |-> TRUE]

\* persist_tool_review_event and its callers: the events are in the file.
Persisted(events) == evidence' = evidence \cup events /\ UNCHANGED faults

\* ... or the write failed.  They stay pending, and the end of the turn may
\* still write them.
NotPersisted(events) ==
    /\ faults < MaxFaults /\ faults' = faults + 1
    /\ evidence' \in {evidence, evidence \cup events}

\* HostCommandExecutor::run is started.
Runs == late' = IF turn.cancelled THEN late + 1 ELSE late

\* Allowed: the decision is recorded, then the command runs.
RunAllowed(cmd) ==
    /\ Decides(cmd, "allow")
    /\ Persisted({<<issued + 1, "allowed", cmd>>})
    /\ turn' = Taken /\ req' = Requested(cmd, "running")
    /\ Runs
    /\ UNCHANGED <<executes, session, mode, stored, grants, queue, rows, chosen,
                    approved, granted>>

\* The command is refused and the round goes on: reserved for the user
\* (human_performs_handoff), an invalid workdir or executor, no reviewer, or a
\* client without review rows.
RefuseCommand(cmd) ==
    /\ \E what \in Outcomes : Decides(cmd, what)
    /\ turn' = Taken /\ req' = NoReq
    /\ UNCHANGED <<executes, session, mode, stored, grants, queue, rows, evidence,
                    faults, chosen, approved, granted, late>>

\* A review row for the client; the round waits for its decision.
AskUser(cmd) ==
    /\ Decides(cmd, "ask")
    /\ turn' = Taken /\ req' = Requested(cmd, "asking")
    /\ rows' = rows \cup {[id |-> issued + 1, slot |-> turn.slot + 1, reserved |-> FALSE]}
    /\ UNCHANGED <<executes, session, mode, stored, grants, queue, evidence,
                    faults, chosen, approved, granted, late>>

\* review_action: the request goes to the reviewer extension.
AskReviewer(cmd) ==
    /\ Decides(cmd, "reviewer") /\ turn.reviewer
    /\ turn' = Taken /\ req' = Requested(cmd, "reviewing")
    /\ UNCHANGED <<executes, session, mode, stored, grants, queue, rows, evidence,
                    faults, chosen, approved, granted, late>>

\* The decision, or the review row, cannot be recorded: the turn ends with an
\* error.
DecisionNotPersisted(cmd) ==
    /\ \E what \in Outcomes :
         /\ Decides(cmd, what)
         /\ NotPersisted(IF what = "allow" THEN {<<issued + 1, "allowed", cmd>>} ELSE {})
    /\ EndTurn
    /\ UNCHANGED <<executes, session, mode, stored, grants, rows, chosen, approved,
                    granted, late>>

-----------------------------------------------------------------------------
(***************************************************************************)
(* The reviewer's answer (ReviewCoordinator::review_within_deadline).      *)
(***************************************************************************)

\* The freshness check, then the execution gate.
Route(route) ==
    IF ~req.fresh \/ (route = "execute" /\ ~executes) THEN "failed" ELSE route

\* A hold and a failed review become a review row.
Ask(reserved) ==
    /\ req' = [req EXCEPT !.st = "asking"]
    /\ rows' = rows \cup {[id |-> req.id, slot |-> req.slot, reserved |-> reserved]}

\* The reviewer answers, times out or fails; the assessment is recorded before
\* its route is followed, and a route that cannot be recorded is a failed
\* review.  route_assessment yields "human" when a class of the command is
\* reserved for the user.
ReviewerAnswers(answer) ==
    /\ req.st = "reviewing"
    /\ \/ /\ Route(answer) = "execute"
          /\ Persisted({<<req.id, "execute", req.cmd>>})
          /\ req' = [req EXCEPT !.st = "running"] /\ Runs
          /\ UNCHANGED rows
       \/ /\ Route(answer) = "human"
          /\ req' = NoReq
          /\ UNCHANGED <<rows, evidence, faults, late>>
       \/ /\ Route(answer) \in {"hold", "failed"}
          /\ Ask(FALSE)
          /\ UNCHANGED <<evidence, faults, late>>
       \/ /\ NotPersisted({})
          /\ Ask(Route(answer) = "human")
          /\ UNCHANGED late
    /\ UNCHANGED <<executes, session, mode, stored, grants, turn, queue, issued,
                    chosen, approved, granted>>

\* The route cannot be shown (no review rows): the command fails.
HoldRefused ==
    /\ req.st = "reviewing"
    /\ req' = NoReq
    /\ UNCHANGED <<executes, session, mode, stored, grants, turn, queue, rows,
                    issued, evidence, faults, chosen, approved, granted, late>>

-----------------------------------------------------------------------------
(***************************************************************************)
(* The client's decision, the command, and cancellation.                   *)
(***************************************************************************)

\* Mutant: a decision is matched by its request id alone.
MatchesSlot(d) == d.row.slot = req.slot

\* wait_for_command_review_decision: request, review and decision ids.
Matches(d) == d.row.id = req.id /\ d.row.slot = req.slot

Resolution(v) == IF v = "reject" THEN {} ELSE {<<req.id, v, req.cmd>>}

\* Mutant: the grant is recorded before the evidence.
ResolveGrantsFirst(v) ==
    /\ grants' = IF v = "approve_session" THEN grants \cup {req.cmd} ELSE grants
    /\ granted' = IF v = "approve_session" THEN granted \cup {<<req.cmd, session>>} ELSE granted
    /\ \/ /\ Persisted(Resolution(v))
          /\ turn' = turn /\ queue' = Tail(queue)
          /\ \/ v = "reject" /\ req' = NoReq /\ UNCHANGED late
             \/ v # "reject" /\ req' = [req EXCEPT !.st = "running"] /\ Runs
       \/ /\ NotPersisted(Resolution(v))
          /\ EndTurn
          /\ UNCHANGED late

\* ToolReviewDecisionRecorded, persist_shell_review_resolution, then the grant.
Resolve(v) ==
    \/ /\ Persisted(Resolution(v))
       /\ turn' = turn /\ queue' = Tail(queue)
       /\ grants' = IF v = "approve_session" THEN grants \cup {req.cmd} ELSE grants
       /\ granted' = IF v = "approve_session" THEN granted \cup {<<req.cmd, session>>}
                                              ELSE granted
       /\ \/ v = "reject" /\ req' = NoReq /\ UNCHANGED late
          \/ v # "reject" /\ req' = [req EXCEPT !.st = "running"] /\ Runs
    \/ /\ NotPersisted(Resolution(v))
       /\ EndTurn
       /\ UNCHANGED <<grants, granted, late>>

TakeDecision ==
    /\ req.st = "asking" /\ queue # <<>>
    /\ Matches(Head(queue))
    /\ Resolve(Head(queue).verdict)
    /\ UNCHANGED <<executes, session, mode, stored, rows, issued, chosen, approved>>

\* stale_tool_review_decision: the review is interrupted and the turn fails.
TakeStaleDecision ==
    /\ req.st = "asking" /\ queue # <<>>
    /\ ~Matches(Head(queue))
    /\ EndTurn
    /\ UNCHANGED <<executes, session, mode, stored, grants, rows, issued, evidence,
                    faults, chosen, approved, granted, late>>

\* The command ends by itself, by its timeout or because it could not start.
CommandEnds ==
    /\ req.st = "running"
    /\ \/ req' = NoReq /\ UNCHANGED <<turn, queue, evidence, faults>>
       \/ EndTurn /\ NotPersisted({})
    /\ UNCHANGED <<executes, session, mode, stored, grants, rows, issued, chosen,
                    approved, granted, late>>

\* Mutant: the wait for a decision does not look at the token.
CancelSkipsReview ==
    /\ turn.cancelled /\ req.st \in {"reviewing", "running"}
    /\ EndTurn
    /\ UNCHANGED <<executes, session, mode, stored, grants, rows, issued, evidence,
                    faults, chosen, approved, granted, late>>

\* Every wait races the cancellation token.
CancelWins ==
    /\ turn.cancelled /\ req # NoReq
    /\ EndTurn
    /\ UNCHANGED <<executes, session, mode, stored, grants, rows, issued, evidence,
                    faults, chosen, approved, granted, late>>

Next ==
    \/ \E m \in Modes : SelectMode(m)
    \/ \E s \in Sessions : SwitchSession(s)
    \/ Restart \/ StartTurn \/ CancelPrompt \/ BumpRevision
    \/ \E row \in rows, v \in Verdicts : SubmitDecision(row, v)
    \/ \E n \in 1..MaxBatch : StartRound(n)
    \/ FinishTurn \/ StopCancelled
    \/ \E cmd \in Commands : \/ RunAllowed(cmd) \/ RefuseCommand(cmd) \/ AskUser(cmd)
                             \/ AskReviewer(cmd) \/ DecisionNotPersisted(cmd)
    \/ \E answer \in {"execute", "hold", "human", "failed"} : ReviewerAnswers(answer)
    \/ HoldRefused \/ TakeDecision \/ TakeStaleDecision \/ CommandEnds \/ CancelWins

\* A cancelled token wakes the turn that waits on it.
Fairness == WF_vars(CancelWins) /\ WF_vars(StopCancelled)

Spec == Init /\ [][Next]_vars /\ Fairness

-----------------------------------------------------------------------------
(***************************************************************************)
(* Properties.                                                             *)
(***************************************************************************)

Running == req.st = "running"

\* A command the policy reserves for the user never runs; one to ask about
\* first runs only if the user approved this very invocation; any other runs
\* only by the allowlist, a grant the user gave, full access the user chose in
\* this session, or the user's approval of this invocation.  Decisions may
\* come twice, late, in the next turn, or after the mode changed.
NoRunWithoutAuthority ==
    Running =>
      /\ req.cmd \notin HumanPerforms
      /\ \/ req.id \in approved
         \/ /\ req.cmd \notin AskFirst
            /\ \/ req.cmd \in Allowlisted
               \/ \E s \in Sessions : <<req.cmd, s>> \in granted
               \/ req.used = "full_access"
               \/ req.used = "auto_review" /\ executes

\* Full access is in force only in a session, and a process, in which the user
\* chose it: a switch of sessions and a restart both end it.
FullAccessIsSessionScoped ==
    /\ mode = "full_access" => mode \in chosen
    /\ (turn.on /\ turn.mode = "full_access") => turn.mode \in chosen

\* runner.rs:9590: "Record only after the decision is persisted, so a grant
\* can never outlive the evidence that created it": what let a command run, and
\* every grant, is in a session file, whichever write fails.
AuthorityIsRecorded ==
    /\ Running => \E what \in {"allowed", "execute", "approve", "approve_session"} :
                    <<req.id, what, req.cmd>> \in evidence
    /\ \A cmd \in grants : \E id \in Ids : <<id, "approve_session", cmd>> \in evidence

\* Once its turn is cancelled, at most the command whose approval was already
\* waiting still starts, never the next one of the batch.
CancelStopsTheBatch == late <= 1

\* A cancelled turn ends, whether it waits for the reviewer, for the client or
\* for a command.
CancelEndsTurn == turn.cancelled ~> ~turn.cancelled

\* review/coordinator.rs: "A late or stale response never becomes Execute": a
\* command runs on the reviewer's word only if no prompt came since it asked.
StaleReviewNeverRuns == Running => req.fresh \/ req.id \in approved

\* The four together: a command runs only on the word of someone who may give
\* it, in the mode, the session, the turn and the state of the review it was
\* given for, and a cancel takes it back.
RunsOnAuthority ==
    /\ NoRunWithoutAuthority
    /\ FullAccessIsSessionScoped
    /\ StaleReviewNeverRuns
    /\ CancelStopsTheBatch

\* runner.rs:1316: "Session-scoped shell approvals: created once per session":
\* a command runs on a grant only in the session the user granted it in.
GrantsAreSessionScoped ==
    Running =>
      \/ req.id \in approved \/ req.cmd \in Allowlisted \/ req.used = "full_access"
      \/ <<req.cmd, session>> \in granted

\* README.md:114: "`auto-review` is session-only like `full-access`, never
\* persisted".
AutoReviewIsSessionScoped == mode = "auto_review" => mode \in chosen

\* review/coordinator.rs: a HumanPerforms hold must survive to reach the
\* handoff, "not collapse into an approvable `ReviewFailed` row".
ReservedNeverOffered == \A row \in rows : ~row.reserved
=============================================================================
