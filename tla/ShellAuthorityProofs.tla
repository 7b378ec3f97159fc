--------------------------- MODULE ShellAuthorityProofs ---------------------------
(***************************************************************************)
(* Proofs about ShellAuthority: a shell command runs only on the word of   *)
(* someone who may give it, and what let it run is in a session file, for  *)
(* every set of commands, restrictions and sessions, any number of         *)
(* invocations, decisions in flight and failed writes.                     *)
(***************************************************************************)
EXTENDS ShellAuthority, SequenceTheorems, TLAPS

Ran == {"allowed", "execute", "approve", "approve_session"}

\* A round never has more slots than ids were handed out.
SlotsAreIssued == turn.slot <= issued

\* A decision that is not a rejection is of an invocation the client approved,
\* and the client approves only what it was shown.
DecisionsAreTheUsers ==
    /\ \A i \in 1..Len(queue) :
         queue[i].verdict # "reject" => queue[i].row.id \in approved
    /\ \A id \in approved : \E row \in rows : row.id = id

\* A grant is one the user gave, and its evidence was there first.
GrantsAreTheUsers ==
    \A cmd \in grants :
      /\ \E s \in Sessions : <<cmd, s>> \in granted
      /\ \E id \in Ids : <<id, "approve_session", cmd>> \in evidence

\* What waits for the reviewer or the user is nothing the policy reserves, and
\* the reviewer is asked only in its own mode.
WaitingIsUnreserved ==
    /\ req.st \in {"asking", "reviewing"} => req.cmd \notin HumanPerforms
    /\ req.st = "reviewing" => req.cmd \notin AskFirst /\ req.used = "auto_review"

\* A command that started after the cancel is the last of its turn.
LateIsLast ==
    \/ late = 0
    \/ late = 1 /\ (turn.on => turn.cancelled /\ req.st \in {"none", "running"})

\* The inductive invariant.
ShellInv ==
    /\ TypeOK
    /\ SlotsAreIssued
    /\ DecisionsAreTheUsers
    /\ GrantsAreTheUsers
    /\ WaitingIsUnreserved
    /\ LateIsLast
    /\ NoRunWithoutAuthority
    /\ FullAccessIsSessionScoped
    /\ StaleReviewNeverRuns
    /\ AuthorityIsRecorded

\* The invariant says more than the properties.
LEMMA InvIsEnough == ShellInv => RunsOnAuthority /\ AuthorityIsRecorded
  BY DEF ShellInv, LateIsLast, RunsOnAuthority, CancelStopsTheBatch

\* No turn: a safe mode, nothing cancelled, no slot used.
LEMMA NoTurnIsSafe ==
    /\ NoTurn.mode \in Safe /\ NoTurn.mode # "full_access"
    /\ NoTurn \in [on : BOOLEAN, cancelled : BOOLEAN, slot : 0..MaxInvocations,
                   left : 0..MaxBatch, mode : Modes, reviewer : BOOLEAN]
    /\ ~NoTurn.on /\ ~NoTurn.cancelled /\ NoTurn.slot = 0 /\ NoTurn.left = 0
  BY ShellAssumption DEF NoTurn, Modes

\* The user chooses a mode.
LEMMA SelectModeKeeps ==
    ASSUME ShellInv, NEW m \in Modes, SelectMode(m)
    PROVE  ShellInv'
<1>1. TypeOK'
  BY ShellAssumption DEF ShellInv, TypeOK, SelectMode, Modes
<1>2. FullAccessIsSessionScoped'
  BY ShellAssumption DEF ShellInv, TypeOK, FullAccessIsSessionScoped, SelectMode,
     Dangerous
<1>3. /\ SlotsAreIssued'
      /\ DecisionsAreTheUsers'
      /\ GrantsAreTheUsers'
      /\ WaitingIsUnreserved'
      /\ LateIsLast'
      /\ NoRunWithoutAuthority'
      /\ StaleReviewNeverRuns'
      /\ AuthorityIsRecorded'
  BY DEF ShellInv, SlotsAreIssued, DecisionsAreTheUsers, GrantsAreTheUsers,
     WaitingIsUnreserved, LateIsLast, NoRunWithoutAuthority, StaleReviewNeverRuns,
     AuthorityIsRecorded, Running, SelectMode
<1> QED BY <1>1, <1>2, <1>3 DEF ShellInv

\* A session is opened: full access ends.
LEMMA SwitchSessionKeeps ==
    ASSUME ShellInv, NEW s \in Sessions, SwitchSession(s)
    PROVE  ShellInv'
<1>1. TypeOK'
  BY ShellAssumption DEF ShellInv, TypeOK, SwitchSession, ResetFullAccess, Modes
<1>2. FullAccessIsSessionScoped'
  BY ShellAssumption DEF ShellInv, TypeOK, FullAccessIsSessionScoped, SwitchSession,
     ResetFullAccess, Modes
<1>3. /\ SlotsAreIssued'
      /\ DecisionsAreTheUsers'
      /\ GrantsAreTheUsers'
      /\ WaitingIsUnreserved'
      /\ LateIsLast'
      /\ NoRunWithoutAuthority'
      /\ StaleReviewNeverRuns'
      /\ AuthorityIsRecorded'
  BY DEF ShellInv, SlotsAreIssued, DecisionsAreTheUsers, GrantsAreTheUsers,
     WaitingIsUnreserved, LateIsLast, NoRunWithoutAuthority, StaleReviewNeverRuns,
     AuthorityIsRecorded, Running, SwitchSession, ResetFullAccess
<1> QED BY <1>1, <1>2, <1>3 DEF ShellInv

\* A new process has nothing of the old one.
LEMMA RestartKeeps ==
    ASSUME ShellInv, Restart
    PROVE  ShellInv'
<1>1. TypeOK'
  BY ShellAssumption, NoTurnIsSafe, EmptySeq DEF ShellInv, TypeOK, Restart, NoReq, Modes
<1>2. SlotsAreIssued'
  BY ShellAssumption, NoTurnIsSafe DEF ShellInv, TypeOK, SlotsAreIssued, Restart, NoReq,
     Running, Modes
<1>3. DecisionsAreTheUsers'
  BY ShellAssumption, NoTurnIsSafe, EmptySeq DEF ShellInv, TypeOK, DecisionsAreTheUsers,
     Restart, NoReq, Running, Modes
<1>4. GrantsAreTheUsers'
  BY ShellAssumption, NoTurnIsSafe DEF ShellInv, TypeOK, GrantsAreTheUsers, Restart,
     NoReq, Running, Modes
<1>5. WaitingIsUnreserved'
  BY ShellAssumption, NoTurnIsSafe DEF ShellInv, TypeOK, WaitingIsUnreserved, Restart,
     NoReq, Running, Modes
<1>6. LateIsLast'
  BY ShellAssumption, NoTurnIsSafe DEF ShellInv, TypeOK, LateIsLast, Restart, NoReq,
     Running, Modes
<1>7. NoRunWithoutAuthority'
  BY ShellAssumption, NoTurnIsSafe DEF ShellInv, TypeOK, NoRunWithoutAuthority, Restart,
     NoReq, Running, Modes
<1>8. FullAccessIsSessionScoped'
  BY ShellAssumption, NoTurnIsSafe DEF ShellInv, TypeOK, FullAccessIsSessionScoped,
     Restart, NoReq, Running, Modes
<1>9. StaleReviewNeverRuns'
  BY ShellAssumption, NoTurnIsSafe DEF ShellInv, TypeOK, StaleReviewNeverRuns, Restart,
     NoReq, Running, Modes
<1>10. AuthorityIsRecorded'
  BY ShellAssumption, NoTurnIsSafe DEF ShellInv, TypeOK, AuthorityIsRecorded, Restart,
     NoReq, Running, Modes
<1> QED BY <1>1, <1>2, <1>3, <1>4, <1>5, <1>6, <1>7, <1>8, <1>9, <1>10 DEF ShellInv

\* A turn starts in a safe mode and an empty channel.
LEMMA StartTurnKeeps ==
    ASSUME ShellInv, StartTurn
    PROVE  ShellInv'
<1>1. TypeOK'
  BY ShellAssumption, NoTurnIsSafe, EmptySeq DEF ShellInv, TypeOK, StartTurn, Modes
<1>2. SlotsAreIssued'
  BY ShellAssumption DEF ShellInv, TypeOK, SlotsAreIssued, StartTurn, NoTurn
<1>3. DecisionsAreTheUsers'
  BY ShellAssumption, EmptySeq DEF ShellInv, TypeOK, DecisionsAreTheUsers, StartTurn,
     NoTurn
<1>4. LateIsLast'
  BY ShellAssumption DEF ShellInv, TypeOK, LateIsLast, StartTurn, NoTurn
<1>5. FullAccessIsSessionScoped'
  BY ShellAssumption DEF ShellInv, TypeOK, FullAccessIsSessionScoped, StartTurn, NoTurn
<1>6. /\ GrantsAreTheUsers'
      /\ WaitingIsUnreserved'
      /\ NoRunWithoutAuthority'
      /\ StaleReviewNeverRuns'
      /\ AuthorityIsRecorded'
  BY DEF ShellInv, GrantsAreTheUsers, WaitingIsUnreserved, NoRunWithoutAuthority,
     StaleReviewNeverRuns, AuthorityIsRecorded, Running, StartTurn, NoTurn
<1> QED BY <1>1, <1>2, <1>3, <1>4, <1>5, <1>6 DEF ShellInv

\* The turn is cancelled.
LEMMA CancelPromptKeeps ==
    ASSUME ShellInv, CancelPrompt
    PROVE  ShellInv'
<1>1. TypeOK'
  BY ShellAssumption DEF ShellInv, TypeOK, CancelPrompt, Modes
<1>2. SlotsAreIssued'
  BY ShellAssumption DEF ShellInv, TypeOK, SlotsAreIssued, CancelPrompt
<1>3. LateIsLast'
  BY ShellAssumption DEF ShellInv, TypeOK, LateIsLast, CancelPrompt
<1>4. FullAccessIsSessionScoped'
  BY ShellAssumption DEF ShellInv, TypeOK, FullAccessIsSessionScoped, CancelPrompt
<1>5. /\ DecisionsAreTheUsers'
      /\ GrantsAreTheUsers'
      /\ WaitingIsUnreserved'
      /\ NoRunWithoutAuthority'
      /\ StaleReviewNeverRuns'
      /\ AuthorityIsRecorded'
  BY DEF ShellInv, DecisionsAreTheUsers, GrantsAreTheUsers, WaitingIsUnreserved,
     NoRunWithoutAuthority, StaleReviewNeverRuns, AuthorityIsRecorded, Running,
     CancelPrompt
<1> QED BY <1>1, <1>2, <1>3, <1>4, <1>5 DEF ShellInv

\* A prompt makes the review under way stale.
LEMMA BumpRevisionKeeps ==
    ASSUME ShellInv, BumpRevision
    PROVE  ShellInv'
<1>1. TypeOK'
  BY ShellAssumption DEF ShellInv, TypeOK, BumpRevision, Request, NoReq
<1>2. WaitingIsUnreserved'
  BY ShellAssumption DEF ShellInv, TypeOK, WaitingIsUnreserved, BumpRevision, Request,
     NoReq
<1>3. LateIsLast'
  BY ShellAssumption DEF ShellInv, TypeOK, LateIsLast, BumpRevision, Request, NoReq
<1>4. NoRunWithoutAuthority'
  BY ShellAssumption DEF ShellInv, TypeOK, NoRunWithoutAuthority, BumpRevision, Running,
     Request, NoReq
<1>5. StaleReviewNeverRuns'
  BY ShellAssumption DEF ShellInv, TypeOK, StaleReviewNeverRuns, BumpRevision, Running,
     Request, NoReq
<1>6. AuthorityIsRecorded'
  BY ShellAssumption DEF ShellInv, TypeOK, AuthorityIsRecorded, BumpRevision, Running,
     Request, NoReq
<1>7. /\ SlotsAreIssued'
      /\ DecisionsAreTheUsers'
      /\ GrantsAreTheUsers'
      /\ FullAccessIsSessionScoped'
  BY DEF ShellInv, SlotsAreIssued, DecisionsAreTheUsers, GrantsAreTheUsers,
     FullAccessIsSessionScoped, Running, BumpRevision
<1> QED BY <1>1, <1>2, <1>3, <1>4, <1>5, <1>6, <1>7 DEF ShellInv

\* The client decides about a row, maybe an old one.
LEMMA SubmitDecisionKeeps ==
    ASSUME ShellInv, NEW row \in rows, NEW v \in Verdicts, SubmitDecision(row, v)
    PROVE  ShellInv'
<1>1. TypeOK'
  BY ShellAssumption, AppendProperties DEF ShellInv, TypeOK, SubmitDecision, Row,
     Verdicts
<1>2. DecisionsAreTheUsers'
  BY ShellAssumption, AppendProperties DEF ShellInv, TypeOK, DecisionsAreTheUsers,
     SubmitDecision, Row, Verdicts
<1>3. NoRunWithoutAuthority'
  BY ShellAssumption DEF ShellInv, TypeOK, NoRunWithoutAuthority, SubmitDecision,
     Running
<1>4. StaleReviewNeverRuns'
  BY ShellAssumption DEF ShellInv, TypeOK, StaleReviewNeverRuns, SubmitDecision, Running
<1>5. /\ SlotsAreIssued'
      /\ GrantsAreTheUsers'
      /\ WaitingIsUnreserved'
      /\ LateIsLast'
      /\ FullAccessIsSessionScoped'
      /\ AuthorityIsRecorded'
  BY DEF ShellInv, SlotsAreIssued, GrantsAreTheUsers, WaitingIsUnreserved, LateIsLast,
     FullAccessIsSessionScoped, AuthorityIsRecorded, Running, SubmitDecision
<1> QED BY <1>1, <1>2, <1>3, <1>4, <1>5 DEF ShellInv

\* A round takes the live mode.
LEMMA StartRoundKeeps ==
    ASSUME ShellInv, NEW n \in 1..MaxBatch, StartRound(n)
    PROVE  ShellInv'
<1>1. TypeOK'
  <2>1. PICK r \in BOOLEAN :
          turn' = [turn EXCEPT !.left = n, !.mode = mode, !.reviewer = r]
    BY Zenon DEF StartRound
  <2>2. turn' \in [on : BOOLEAN, cancelled : BOOLEAN, slot : 0..MaxInvocations,
                   left : 0..MaxBatch, mode : Modes, reviewer : BOOLEAN]
    <3>1. n \in 0..MaxBatch
      BY ShellAssumption
    <3> QED BY <2>1, <3>1, Zenon DEF ShellInv, TypeOK
  <2> QED BY <2>2 DEF ShellInv, TypeOK, StartRound
<1>2. SlotsAreIssued'
  BY ShellAssumption DEF ShellInv, TypeOK, SlotsAreIssued, StartRound
<1>3. LateIsLast'
  BY ShellAssumption DEF ShellInv, TypeOK, LateIsLast, StartRound
<1>4. FullAccessIsSessionScoped'
  BY ShellAssumption DEF ShellInv, TypeOK, FullAccessIsSessionScoped, StartRound
<1>5. /\ DecisionsAreTheUsers'
      /\ GrantsAreTheUsers'
      /\ WaitingIsUnreserved'
      /\ NoRunWithoutAuthority'
      /\ StaleReviewNeverRuns'
      /\ AuthorityIsRecorded'
  BY DEF ShellInv, DecisionsAreTheUsers, GrantsAreTheUsers, WaitingIsUnreserved,
     NoRunWithoutAuthority, StaleReviewNeverRuns, AuthorityIsRecorded, Running,
     StartRound
<1> QED BY <1>1, <1>2, <1>3, <1>4, <1>5 DEF ShellInv

\* The turn ends, whatever was recorded by then: nothing of it is left but the
\* rows.
LEMMA EndTurnKeeps ==
    ASSUME ShellInv, EndTurn,
           UNCHANGED <<executes, session, mode, stored, grants, rows, chosen, approved,
                       granted, late>>,
           issued' \in issued..MaxInvocations, faults' \in 0..MaxFaults,
           evidence \subseteq evidence',
           evidence' \subseteq Ids \X Ran \X Commands
    PROVE  ShellInv'
<1>1. TypeOK'
  BY ShellAssumption, NoTurnIsSafe, EmptySeq DEF ShellInv, TypeOK, EndTurn, Ran
<1>2. SlotsAreIssued'
  BY ShellAssumption, NoTurnIsSafe DEF ShellInv, TypeOK, SlotsAreIssued, EndTurn
<1>3. DecisionsAreTheUsers'
  BY ShellAssumption, EmptySeq DEF ShellInv, TypeOK, DecisionsAreTheUsers, EndTurn
<1>4. GrantsAreTheUsers'
  BY ShellAssumption DEF ShellInv, TypeOK, GrantsAreTheUsers, EndTurn
<1>5. WaitingIsUnreserved'
  BY ShellAssumption DEF ShellInv, TypeOK, WaitingIsUnreserved, EndTurn, NoReq
<1>6. LateIsLast'
  BY ShellAssumption, NoTurnIsSafe DEF ShellInv, TypeOK, LateIsLast, EndTurn
<1>7. NoRunWithoutAuthority'
  BY ShellAssumption DEF ShellInv, TypeOK, NoRunWithoutAuthority, EndTurn, NoReq,
     Running
<1>8. FullAccessIsSessionScoped'
  BY ShellAssumption, NoTurnIsSafe DEF ShellInv, TypeOK, FullAccessIsSessionScoped,
     EndTurn
<1>9. StaleReviewNeverRuns'
  BY ShellAssumption DEF ShellInv, TypeOK, StaleReviewNeverRuns, EndTurn, NoReq, Running
<1>10. AuthorityIsRecorded'
  BY ShellAssumption DEF ShellInv, TypeOK, AuthorityIsRecorded, EndTurn, NoReq, Running
<1> QED BY <1>1, <1>2, <1>3, <1>4, <1>5, <1>6, <1>7, <1>8, <1>9, <1>10 DEF ShellInv

\* The next command of the batch gets an id and a slot of its own.
LEMMA TakenIsTyped ==
    ASSUME ShellInv, NEW cmd \in Commands, NEW what, Decides(cmd, what), turn' = Taken
    PROVE  /\ issued' = issued + 1 /\ issued' \in Ids
           /\ turn' \in [on : BOOLEAN, cancelled : BOOLEAN, slot : 0..MaxInvocations,
                         left : 0..MaxBatch, mode : Modes, reviewer : BOOLEAN]
           /\ turn'.slot = turn.slot + 1 /\ turn'.slot <= issued'
           /\ turn'.on = turn.on /\ turn'.cancelled = turn.cancelled
           /\ turn'.mode = turn.mode
           /\ turn.on /\ ~turn.cancelled
<1>1. /\ turn \in [on : BOOLEAN, cancelled : BOOLEAN, slot : 0..MaxInvocations,
                    left : 0..MaxBatch, mode : Modes, reviewer : BOOLEAN]
      /\ turn.on /\ ~turn.cancelled
  BY DEF ShellInv, TypeOK, Decides
<1>2. /\ issued' = issued + 1 /\ issued' \in Ids
      /\ turn.slot + 1 \in 0..MaxInvocations /\ turn.left - 1 \in 0..MaxBatch
      /\ turn.slot + 1 <= issued'
  BY <1>1, ShellAssumption DEF ShellInv, TypeOK, SlotsAreIssued, Decides, Ids
<1>3. turn' = [turn EXCEPT !.left = turn.left - 1, !.slot = turn.slot + 1]
  BY DEF Taken
<1>4. turn' \in [on : BOOLEAN, cancelled : BOOLEAN, slot : 0..MaxInvocations,
                 left : 0..MaxBatch, mode : Modes, reviewer : BOOLEAN]
  BY <1>1, <1>2, <1>3, Zenon
<1>5. /\ turn'.slot = turn.slot + 1
      /\ turn'.on = turn.on /\ turn'.cancelled = turn.cancelled
      /\ turn'.mode = turn.mode
  BY <1>1, <1>3
<1> QED BY <1>1, <1>2, <1>4, <1>5

\* ... and its request is one of the round's, fresh and in the round's mode.
LEMMA RequestedIsTyped ==
    ASSUME ShellInv, NEW cmd \in Commands, NEW what, Decides(cmd, what), turn' = Taken,
           NEW st \in {"reviewing", "asking", "running"}
    PROVE  /\ Requested(cmd, st) \in Request
           /\ Requested(cmd, st).st = st /\ Requested(cmd, st).id = issued + 1
           /\ Requested(cmd, st).cmd = cmd /\ Requested(cmd, st).fresh
           /\ Requested(cmd, st).used = turn.mode
  BY TakenIsTyped DEF ShellInv, TypeOK, Request, Requested

\* A command runs by the allowlist, a grant or full access, and that is on
\* record.
LEMMA RunAllowedKeeps ==
    ASSUME ShellInv, NEW cmd \in Commands, RunAllowed(cmd)
    PROVE  ShellInv'
<1>1. TypeOK'
  <2>1. Decides(cmd, "allow") /\ turn' = Taken /\ req' = Requested(cmd, "running")
    BY DEF RunAllowed
  <2>2. /\ issued' \in Ids /\ issued' = issued + 1 /\ req' \in Request /\ turn'.on
        /\ turn' \in [on : BOOLEAN, cancelled : BOOLEAN, slot : 0..MaxInvocations,
                      left : 0..MaxBatch, mode : Modes, reviewer : BOOLEAN]
    BY <2>1, TakenIsTyped, RequestedIsTyped
  <2>3. evidence' \subseteq Ids \X Ran \X Commands /\ faults' = faults
    BY <2>2 DEF RunAllowed, Persisted, ShellInv, TypeOK, Ran
  <2>4. late' \in Nat
    BY DEF RunAllowed, Runs, ShellInv, TypeOK
  <2> QED BY <2>2, <2>3, <2>4 DEF RunAllowed, ShellInv, TypeOK, Ran, Ids
<1>2. SlotsAreIssued'
  BY ShellAssumption, TakenIsTyped DEF ShellInv, TypeOK, SlotsAreIssued, RunAllowed
<1>3. GrantsAreTheUsers'
  BY ShellAssumption DEF ShellInv, TypeOK, GrantsAreTheUsers, RunAllowed, Persisted
<1>4. WaitingIsUnreserved'
  BY ShellAssumption, TakenIsTyped, RequestedIsTyped DEF ShellInv, TypeOK,
     WaitingIsUnreserved, RunAllowed
<1>5. LateIsLast'
  BY ShellAssumption, TakenIsTyped, RequestedIsTyped DEF ShellInv, TypeOK, LateIsLast,
     RunAllowed, Runs
<1>6. NoRunWithoutAuthority'
  <2>1. /\ Decides(cmd, "allow") /\ turn' = Taken /\ req' = Requested(cmd, "running")
        /\ granted' = granted
    BY DEF RunAllowed
  <2>2. req'.cmd = cmd /\ req'.used = turn.mode
    BY <2>1, RequestedIsTyped
  <2>3. /\ cmd \notin HumanPerforms /\ cmd \notin AskFirst
        /\ cmd \in Allowlisted \/ cmd \in grants \/ turn.mode = "full_access"
    BY <2>1 DEF Decides, DecideShell
  <2> QED BY <2>1, <2>2, <2>3 DEF NoRunWithoutAuthority, ShellInv, GrantsAreTheUsers
<1>7. FullAccessIsSessionScoped'
  BY ShellAssumption, TakenIsTyped DEF ShellInv, TypeOK, FullAccessIsSessionScoped,
     RunAllowed
<1>8. StaleReviewNeverRuns'
  BY ShellAssumption, TakenIsTyped, RequestedIsTyped DEF ShellInv, TypeOK,
     StaleReviewNeverRuns, RunAllowed, Running
<1>9. AuthorityIsRecorded'
  BY ZenonT(60), ShellAssumption, TakenIsTyped, RequestedIsTyped DEF ShellInv, TypeOK,
     AuthorityIsRecorded, RunAllowed, Running, Persisted
<1>10. /\ DecisionsAreTheUsers'
  BY DEF ShellInv, DecisionsAreTheUsers, Running, RunAllowed
<1> QED BY <1>1, <1>2, <1>3, <1>4, <1>5, <1>6, <1>7, <1>8, <1>9, <1>10 DEF ShellInv

\* A command is refused.
LEMMA RefuseCommandKeeps ==
    ASSUME ShellInv, NEW cmd \in Commands, RefuseCommand(cmd)
    PROVE  ShellInv'
<1>1. TypeOK'
  <2>1. PICK what \in Outcomes : Decides(cmd, what)
    BY DEF RefuseCommand
  <2>2. turn' = Taken /\ req' = NoReq
    BY DEF RefuseCommand
  <2>3. /\ issued' \in Ids
        /\ turn' \in [on : BOOLEAN, cancelled : BOOLEAN, slot : 0..MaxInvocations,
                      left : 0..MaxBatch, mode : Modes, reviewer : BOOLEAN]
    BY <2>1, <2>2, TakenIsTyped
  <2> QED BY <2>2, <2>3, ShellAssumption DEF RefuseCommand, ShellInv, TypeOK, Ids
<1>2. SlotsAreIssued'
  BY ShellAssumption, TakenIsTyped DEF ShellInv, TypeOK, SlotsAreIssued, RefuseCommand
<1>3. WaitingIsUnreserved'
  BY ShellAssumption, TakenIsTyped DEF ShellInv, TypeOK, WaitingIsUnreserved,
     RefuseCommand, NoReq
<1>4. LateIsLast'
  BY ShellAssumption, TakenIsTyped, RequestedIsTyped DEF ShellInv, TypeOK, LateIsLast,
     RefuseCommand, NoReq
<1>5. NoRunWithoutAuthority'
  BY ShellAssumption, TakenIsTyped DEF ShellInv, TypeOK, NoRunWithoutAuthority,
     RefuseCommand, Running, NoReq
<1>6. FullAccessIsSessionScoped'
  BY ShellAssumption, TakenIsTyped DEF ShellInv, TypeOK, FullAccessIsSessionScoped,
     RefuseCommand
<1>7. StaleReviewNeverRuns'
  BY ShellAssumption, TakenIsTyped DEF ShellInv, TypeOK, StaleReviewNeverRuns,
     RefuseCommand, Running, NoReq
<1>8. AuthorityIsRecorded'
  BY ShellAssumption, TakenIsTyped DEF ShellInv, TypeOK, AuthorityIsRecorded,
     RefuseCommand, Running, NoReq
<1>9. /\ DecisionsAreTheUsers'
      /\ GrantsAreTheUsers'
  BY DEF ShellInv, DecisionsAreTheUsers, GrantsAreTheUsers, Running, RefuseCommand
<1> QED BY <1>1, <1>2, <1>3, <1>4, <1>5, <1>6, <1>7, <1>8, <1>9 DEF ShellInv

\* A command the policy does not reserve waits for the user.
LEMMA AskUserKeeps ==
    ASSUME ShellInv, NEW cmd \in Commands, AskUser(cmd)
    PROVE  ShellInv'
<1>1. TypeOK'
  <2>1. Decides(cmd, "ask") /\ turn' = Taken /\ req' = Requested(cmd, "asking")
    BY DEF AskUser
  <2>2. /\ issued' \in Ids /\ issued' = issued + 1 /\ req' \in Request /\ turn'.on
        /\ turn'.slot = turn.slot + 1 /\ turn'.slot \in Nat
        /\ turn' \in [on : BOOLEAN, cancelled : BOOLEAN, slot : 0..MaxInvocations,
                      left : 0..MaxBatch, mode : Modes, reviewer : BOOLEAN]
    BY <2>1, TakenIsTyped, RequestedIsTyped
  <2>3. rows' \subseteq Row
    <3>1. [id |-> issued', slot |-> turn'.slot, reserved |-> FALSE] \in Row
      BY <2>2, Zenon DEF Row
    <3> QED BY <2>2, <3>1 DEF AskUser, ShellInv, TypeOK
  <2> QED BY <2>2, <2>3 DEF AskUser, ShellInv, TypeOK, Ids
<1>2. SlotsAreIssued'
  BY ShellAssumption, TakenIsTyped DEF ShellInv, TypeOK, SlotsAreIssued, AskUser
<1>3. DecisionsAreTheUsers'
  BY ShellAssumption, TakenIsTyped, RequestedIsTyped DEF ShellInv, TypeOK,
     DecisionsAreTheUsers, AskUser
<1>4. WaitingIsUnreserved'
  BY ShellAssumption, TakenIsTyped, RequestedIsTyped DEF ShellInv, TypeOK,
     WaitingIsUnreserved, AskUser, Decides, DecideShell
<1>5. LateIsLast'
  BY ShellAssumption, TakenIsTyped, RequestedIsTyped DEF ShellInv, TypeOK, LateIsLast,
     AskUser, NoReq
<1>6. NoRunWithoutAuthority'
  BY ShellAssumption, TakenIsTyped, RequestedIsTyped DEF ShellInv, TypeOK,
     NoRunWithoutAuthority, AskUser, Running
<1>7. FullAccessIsSessionScoped'
  BY ShellAssumption, TakenIsTyped DEF ShellInv, TypeOK, FullAccessIsSessionScoped,
     AskUser
<1>8. StaleReviewNeverRuns'
  BY ShellAssumption, TakenIsTyped, RequestedIsTyped DEF ShellInv, TypeOK,
     StaleReviewNeverRuns, AskUser, Running
<1>9. AuthorityIsRecorded'
  BY ShellAssumption, TakenIsTyped, RequestedIsTyped DEF ShellInv, TypeOK,
     AuthorityIsRecorded, AskUser, Running
<1>10. /\ GrantsAreTheUsers'
  BY DEF ShellInv, GrantsAreTheUsers, Running, AskUser
<1> QED BY <1>1, <1>2, <1>3, <1>4, <1>5, <1>6, <1>7, <1>8, <1>9, <1>10 DEF ShellInv

\* A command the policy leaves to the reviewer waits for it.
LEMMA AskReviewerKeeps ==
    ASSUME ShellInv, NEW cmd \in Commands, AskReviewer(cmd)
    PROVE  ShellInv'
<1>1. TypeOK'
  <2>1. Decides(cmd, "reviewer") /\ turn' = Taken /\ req' = Requested(cmd, "reviewing")
    BY DEF AskReviewer
  <2>2. /\ issued' \in Ids /\ issued' = issued + 1 /\ req' \in Request /\ turn'.on
        /\ turn'.slot = turn.slot + 1 /\ turn'.slot \in Nat
        /\ turn' \in [on : BOOLEAN, cancelled : BOOLEAN, slot : 0..MaxInvocations,
                      left : 0..MaxBatch, mode : Modes, reviewer : BOOLEAN]
    BY <2>1, TakenIsTyped, RequestedIsTyped
  <2>3. rows' \subseteq Row
    BY DEF AskReviewer, ShellInv, TypeOK
  <2> QED BY <2>2, <2>3 DEF AskReviewer, ShellInv, TypeOK, Ids
<1>2. SlotsAreIssued'
  BY ShellAssumption, TakenIsTyped DEF ShellInv, TypeOK, SlotsAreIssued, AskReviewer
<1>3. WaitingIsUnreserved'
  BY ShellAssumption, TakenIsTyped, RequestedIsTyped DEF ShellInv, TypeOK,
     WaitingIsUnreserved, AskReviewer, Decides, DecideShell
<1>4. LateIsLast'
  BY ShellAssumption, TakenIsTyped, RequestedIsTyped DEF ShellInv, TypeOK, LateIsLast,
     AskReviewer, NoReq
<1>5. NoRunWithoutAuthority'
  BY ShellAssumption, TakenIsTyped, RequestedIsTyped DEF ShellInv, TypeOK,
     NoRunWithoutAuthority, AskReviewer, Running
<1>6. FullAccessIsSessionScoped'
  BY ShellAssumption, TakenIsTyped DEF ShellInv, TypeOK, FullAccessIsSessionScoped,
     AskReviewer
<1>7. StaleReviewNeverRuns'
  BY ShellAssumption, TakenIsTyped, RequestedIsTyped DEF ShellInv, TypeOK,
     StaleReviewNeverRuns, AskReviewer, Running
<1>8. AuthorityIsRecorded'
  BY ShellAssumption, TakenIsTyped, RequestedIsTyped DEF ShellInv, TypeOK,
     AuthorityIsRecorded, AskReviewer, Running
<1>9. /\ DecisionsAreTheUsers'
      /\ GrantsAreTheUsers'
  BY DEF ShellInv, DecisionsAreTheUsers, GrantsAreTheUsers, Running, AskReviewer
<1> QED BY <1>1, <1>2, <1>3, <1>4, <1>5, <1>6, <1>7, <1>8, <1>9 DEF ShellInv

\* The reviewer answers: a command runs on its word only fresh, in its mode and
\* in a build that executes.
LEMMA ReviewerAnswersKeeps ==
    ASSUME ShellInv, NEW answer \in {"execute", "hold", "human", "failed"},
           ReviewerAnswers(answer)
    PROVE  ShellInv'
<1>1. /\ req \in Request /\ turn.on /\ req.st = "reviewing"
      /\ req.cmd \notin HumanPerforms /\ req.cmd \notin AskFirst
      /\ req.used = "auto_review"
  BY DEF ShellInv, TypeOK, WaitingIsUnreserved, ReviewerAnswers, NoReq
<1>2. UNCHANGED <<executes, session, mode, stored, grants, turn, queue, issued, chosen,
                  approved, granted>>
  BY DEF ReviewerAnswers
<1>3. CASE /\ Route(answer) = "execute"
           /\ Persisted({<<req.id, "execute", req.cmd>>})
           /\ req' = [req EXCEPT !.st = "running"] /\ Runs
           /\ UNCHANGED rows
  <2>1. /\ req' \in Request /\ req'.st = "running" /\ req'.id = req.id
        /\ req'.cmd = req.cmd /\ req'.used = req.used /\ req'.fresh = req.fresh
    BY <1>1, <1>3 DEF Request
  <2>2. req.fresh /\ executes
    BY <1>3 DEF Route
  <2>3. evidence' = evidence \cup {<<req.id, "execute", req.cmd>>} /\ faults' = faults
    BY <1>3 DEF Persisted
  <2>4. evidence' \subseteq Ids \X Ran \X Commands
    BY <1>1, <2>3 DEF ShellInv, TypeOK, Ran, Request
  <2>5. late' \in Nat /\ LateIsLast'
    BY <1>1, <1>2, <1>3, <2>1 DEF ShellInv, TypeOK, LateIsLast, Runs
  <2>6. TypeOK'
    BY <1>1, <1>2, <1>3, <2>1, <2>3, <2>4, <2>5 DEF ShellInv, TypeOK, Ran
  <2>7. SlotsAreIssued' /\ DecisionsAreTheUsers' /\ FullAccessIsSessionScoped'
    BY <1>2, <1>3 DEF ShellInv, SlotsAreIssued, DecisionsAreTheUsers,
       FullAccessIsSessionScoped
  <2>8. GrantsAreTheUsers'
    BY <1>2, <2>3 DEF ShellInv, GrantsAreTheUsers
  <2>9. WaitingIsUnreserved' /\ NoRunWithoutAuthority' /\ StaleReviewNeverRuns'
    BY <1>1, <1>2, <2>1, <2>2 DEF WaitingIsUnreserved, NoRunWithoutAuthority,
       StaleReviewNeverRuns
  <2>10. AuthorityIsRecorded'
    BY <1>2, <2>1, <2>3, <2>8 DEF AuthorityIsRecorded, GrantsAreTheUsers
  <2> QED BY <2>5, <2>6, <2>7, <2>8, <2>9, <2>10 DEF ShellInv
<1>4. CASE \/ /\ Route(answer) = "human"
              /\ req' = NoReq
              /\ UNCHANGED <<rows, evidence, faults, late>>
           \/ /\ Route(answer) \in {"hold", "failed"}
              /\ Ask(FALSE)
              /\ UNCHANGED <<evidence, faults, late>>
           \/ /\ NotPersisted({})
              /\ Ask(Route(answer) = "human")
              /\ UNCHANGED late
  <2>1. evidence' = evidence /\ faults' \in 0..MaxFaults /\ late' = late
    <3>1. faults \in 0..MaxFaults
      BY DEF ShellInv, TypeOK
    <3>2. NotPersisted({}) => evidence' = evidence /\ faults' \in 0..MaxFaults
      BY <3>1, ShellAssumption DEF NotPersisted
    <3> QED BY <1>4, <3>1, <3>2
  <2>2. \/ req' = NoReq /\ rows' = rows
        \/ \E b \in BOOLEAN : Ask(b)
    BY <1>4, Zenon
  <2>3. \/ req' = NoReq
        \/ /\ req' \in Request /\ req'.st = "asking"
           /\ req'.cmd = req.cmd
    BY <1>1, <2>2 DEF Ask, Request
  <2>4. rows \subseteq rows' /\ rows' \subseteq Row
    <3>1. rows \subseteq Row /\ req.id \in Ids /\ req.slot \in Nat
      BY <1>1 DEF ShellInv, TypeOK, Request
    <3>2. \A b \in BOOLEAN : [id |-> req.id, slot |-> req.slot, reserved |-> b] \in Row
      BY <3>1, Zenon DEF Row
    <3> QED BY <2>2, <3>1, <3>2 DEF Ask
  <2>5. TypeOK'
    BY <1>1, <1>2, <2>1, <2>3, <2>4 DEF ShellInv, TypeOK
  <2>6. /\ SlotsAreIssued' /\ FullAccessIsSessionScoped' /\ DecisionsAreTheUsers'
        /\ GrantsAreTheUsers'
    BY <1>2, <2>1, <2>4 DEF ShellInv, SlotsAreIssued, DecisionsAreTheUsers,
       GrantsAreTheUsers, FullAccessIsSessionScoped
  <2>7. LateIsLast'
    BY <1>1, <1>2, <2>1, <2>3 DEF ShellInv, LateIsLast
  <2>8. /\ WaitingIsUnreserved' /\ NoRunWithoutAuthority' /\ StaleReviewNeverRuns'
        /\ AuthorityIsRecorded'
    BY <1>1, <1>2, <2>1, <2>3, <2>6 DEF WaitingIsUnreserved, NoRunWithoutAuthority,
       StaleReviewNeverRuns, AuthorityIsRecorded, GrantsAreTheUsers, NoReq, Running
  <2> QED BY <2>5, <2>6, <2>7, <2>8 DEF ShellInv
<1> QED BY <1>3, <1>4, Zenon DEF ReviewerAnswers

\* The command is over, or its review cannot be shown, and the round goes on.
LEMMA RequestOverKeeps ==
    ASSUME ShellInv, req' = NoReq,
           UNCHANGED <<executes, session, mode, stored, grants, turn, queue, rows, issued,
                       evidence, faults, chosen, approved, granted, late>>
    PROVE  ShellInv'
<1>1. /\ TypeOK' /\ SlotsAreIssued' /\ DecisionsAreTheUsers' /\ GrantsAreTheUsers'
      /\ FullAccessIsSessionScoped'
  BY DEF ShellInv, TypeOK, SlotsAreIssued, DecisionsAreTheUsers, GrantsAreTheUsers,
     FullAccessIsSessionScoped
<1>2. LateIsLast' /\ WaitingIsUnreserved'
  BY DEF ShellInv, LateIsLast, WaitingIsUnreserved, NoReq
<1>3. NoRunWithoutAuthority' /\ StaleReviewNeverRuns' /\ AuthorityIsRecorded'
  BY DEF ShellInv, NoRunWithoutAuthority, StaleReviewNeverRuns, AuthorityIsRecorded,
     Running, NoReq
<1> QED BY <1>1, <1>2, <1>3 DEF ShellInv

\* The decision of the row that waits is followed: a command that runs on it is
\* one the user approved, its grant and its evidence come together, and a write
\* that fails ends the turn without either.
LEMMA TakeDecisionKeeps ==
    ASSUME ShellInv, TakeDecision
    PROVE  ShellInv'
<1> DEFINE v == Head(queue).verdict
<1>1. /\ req \in Request /\ turn.on /\ req.st = "asking"
      /\ req.cmd \notin HumanPerforms
  BY DEF ShellInv, TypeOK, WaitingIsUnreserved, TakeDecision, NoReq
<1>2. /\ v \in Verdicts /\ (v # "reject" => req.id \in approved)
      /\ Tail(queue) \in Seq([row : Row, verdict : Verdicts])
      /\ Len(Tail(queue)) = Len(queue) - 1
      /\ \A i \in 1..Len(Tail(queue)) : i + 1 \in 1..Len(queue) /\ Tail(queue)[i] = queue[i + 1]
  <2>1. queue \in Seq([row : Row, verdict : Verdicts]) /\ queue # <<>>
    BY DEF ShellInv, TypeOK, TakeDecision
  <2>2. /\ Head(queue) = queue[1] /\ 1 \in 1..Len(queue)
        /\ Head(queue) \in [row : Row, verdict : Verdicts]
        /\ Tail(queue) \in Seq([row : Row, verdict : Verdicts])
        /\ Len(Tail(queue)) = Len(queue) - 1
        /\ \A i \in 1..Len(Tail(queue)) : i + 1 \in 1..Len(queue) /\ Tail(queue)[i] = queue[i + 1]
    <3>0. Head(queue) = queue[1]
      BY <2>1
    <3>1. /\ Head(queue) \in [row : Row, verdict : Verdicts]
          /\ Tail(queue) \in Seq([row : Row, verdict : Verdicts])
          /\ Len(Tail(queue)) = Len(queue) - 1
          /\ \A i \in 1..Len(Tail(queue)) : Tail(queue)[i] = queue[i + 1]
      BY <2>1, HeadTailProperties
    <3>2. Len(queue) \in Nat /\ Len(queue) # 0
      BY <2>1, EmptySeq, LenProperties
    <3> QED BY <3>0, <3>1, <3>2
  <2>3. Head(queue).row.id = req.id
    BY DEF TakeDecision, Matches
  <2> QED BY <2>2, <2>3 DEF ShellInv, DecisionsAreTheUsers
<1>3. UNCHANGED <<executes, session, mode, stored, rows, issued, chosen, approved>>
  BY DEF TakeDecision
<1>4. Resolution(v) \subseteq Ids \X Ran \X Commands
  BY <1>1, <1>2 DEF Resolution, Verdicts, Ran, Request
<1>5. CASE /\ Persisted(Resolution(v))
           /\ turn' = turn /\ queue' = Tail(queue)
           /\ grants' = IF v = "approve_session" THEN grants \cup {req.cmd} ELSE grants
           /\ granted' = IF v = "approve_session" THEN granted \cup {<<req.cmd, session>>}
                                                  ELSE granted
           /\ \/ v = "reject" /\ req' = NoReq /\ UNCHANGED late
              \/ v # "reject" /\ req' = [req EXCEPT !.st = "running"] /\ Runs
  <2>1. \/ req' = NoReq /\ late' = late
        \/ /\ req' \in Request /\ req'.st = "running" /\ req'.id = req.id
           /\ req'.cmd = req.cmd /\ req.id \in approved
           /\ evidence' = evidence \cup {<<req.id, v, req.cmd>>} /\ v # "reject"
           /\ late' = IF turn.cancelled THEN late + 1 ELSE late
    BY <1>1, <1>2, <1>5 DEF Request, Runs, Persisted, Resolution
  <2>2. /\ evidence \subseteq evidence' /\ evidence' \subseteq Ids \X Ran \X Commands
        /\ faults' = faults
        /\ v = "approve_session" => <<req.id, "approve_session", req.cmd>> \in evidence'
    BY <1>4, <1>5 DEF Persisted, Resolution, ShellInv, TypeOK, Ran
  <2>3. late' \in Nat /\ LateIsLast'
    BY <1>1, <1>5, <2>1 DEF ShellInv, TypeOK, LateIsLast, NoReq
  <2>4. grants' \subseteq Commands /\ granted' \subseteq Commands \X Sessions
    BY <1>1, <1>5 DEF ShellInv, TypeOK, Request
  <2>5. TypeOK'
    BY <1>1, <1>2, <1>3, <1>5, <2>1, <2>2, <2>3, <2>4 DEF ShellInv, TypeOK, Ran
  <2>6. DecisionsAreTheUsers'
    BY <1>2, <1>3, <1>5 DEF ShellInv, DecisionsAreTheUsers
  <2>7. GrantsAreTheUsers'
    <3>1. session \in Sessions /\ req.id \in Ids
      BY <1>1 DEF ShellInv, TypeOK, Request
    <3> QED BY <1>5, <2>2, <3>1 DEF ShellInv, GrantsAreTheUsers
  <2>8. SlotsAreIssued' /\ FullAccessIsSessionScoped'
    BY <1>3, <1>5 DEF ShellInv, SlotsAreIssued, FullAccessIsSessionScoped
  <2>9. WaitingIsUnreserved' /\ NoRunWithoutAuthority' /\ StaleReviewNeverRuns'
    BY <1>1, <1>3, <2>1 DEF WaitingIsUnreserved, NoRunWithoutAuthority,
       StaleReviewNeverRuns, Running, NoReq
  <2>10. AuthorityIsRecorded'
    <3>1. Running' => <<req'.id, v, req'.cmd>> \in evidence' /\ v \in {"approve", "approve_session"}
      BY <1>2, <2>1 DEF Running, NoReq, Verdicts
    <3> QED BY <2>7, <3>1 DEF AuthorityIsRecorded, GrantsAreTheUsers
  <2> QED BY <2>3, <2>5, <2>6, <2>7, <2>8, <2>9, <2>10 DEF ShellInv
<1>6. CASE NotPersisted(Resolution(v)) /\ EndTurn /\ UNCHANGED <<grants, granted, late>>
  <2>1. /\ evidence \subseteq evidence' /\ evidence' \subseteq Ids \X Ran \X Commands
        /\ faults' \in 0..MaxFaults
    BY <1>4, <1>6, ShellAssumption DEF NotPersisted, ShellInv, TypeOK, Ran
  <2>2. issued' \in issued..MaxInvocations
    BY <1>3 DEF ShellInv, TypeOK
  <2> QED BY <1>3, <1>6, <2>1, <2>2, EndTurnKeeps
<1> QED BY <1>5, <1>6 DEF TakeDecision, Resolve

\* The decision about the command, or its row, cannot be written: the turn ends.
LEMMA DecisionNotPersistedKeeps ==
    ASSUME ShellInv, NEW cmd \in Commands, DecisionNotPersisted(cmd)
    PROVE  ShellInv'
<1>1. PICK what \in Outcomes :
        /\ Decides(cmd, what)
        /\ NotPersisted(IF what = "allow" THEN {<<issued + 1, "allowed", cmd>>} ELSE {})
  BY DEF DecisionNotPersisted
<1>2. issued' \in issued..MaxInvocations /\ issued + 1 \in Ids
  BY <1>1, ShellAssumption DEF Decides, ShellInv, TypeOK, Ids
<1>3. /\ evidence \subseteq evidence' /\ evidence' \subseteq Ids \X Ran \X Commands
      /\ faults' \in 0..MaxFaults
  BY <1>1, <1>2, ShellAssumption DEF NotPersisted, ShellInv, TypeOK, Ran
<1> QED BY <1>2, <1>3, EndTurnKeeps DEF DecisionNotPersisted

\* The other ways a command or its turn ends.
LEMMA EndsKeep ==
    ASSUME ShellInv,
           \/ FinishTurn \/ HoldRefused \/ TakeStaleDecision \/ CommandEnds \/ CancelWins
    PROVE  ShellInv'
<1>1. issued \in issued..MaxInvocations /\ evidence \subseteq Ids \X Ran \X Commands
  BY DEF ShellInv, TypeOK, Ran
<1>2. faults \in 0..MaxFaults
  BY DEF ShellInv, TypeOK
<1>3. CASE FinishTurn \/ TakeStaleDecision \/ CancelWins
  BY <1>1, <1>2, <1>3, EndTurnKeeps DEF FinishTurn, TakeStaleDecision, CancelWins
<1>4. CASE HoldRefused
  BY <1>4, RequestOverKeeps DEF HoldRefused
<1>5. CASE CommandEnds
  <2>1. UNCHANGED <<executes, session, mode, stored, grants, rows, issued, chosen,
                    approved, granted, late>>
    BY <1>5 DEF CommandEnds
  <2>2. CASE req' = NoReq /\ UNCHANGED <<turn, queue, evidence, faults>>
    BY <2>1, <2>2, RequestOverKeeps
  <2>3. CASE EndTurn /\ NotPersisted({})
    <3>1. evidence' = evidence /\ faults' \in 0..MaxFaults
      BY <1>2, <2>3, ShellAssumption DEF NotPersisted
    <3> QED BY <1>1, <2>1, <2>3, <3>1, EndTurnKeeps
  <2> QED BY <1>5, <2>2, <2>3 DEF CommandEnds
<1> QED BY <1>3, <1>4, <1>5

\* The invariant holds at the start ...
LEMMA InitShell == Init => ShellInv
<1> SUFFICES ASSUME Init PROVE ShellInv
  OBVIOUS
<1>1. TypeOK
  BY ShellAssumption, NoTurnIsSafe, EmptySeq DEF Init, TypeOK, Modes
<1>2. /\ SlotsAreIssued /\ DecisionsAreTheUsers /\ GrantsAreTheUsers
      /\ WaitingIsUnreserved /\ LateIsLast
  BY NoTurnIsSafe, EmptySeq DEF Init, SlotsAreIssued, DecisionsAreTheUsers,
     GrantsAreTheUsers, WaitingIsUnreserved, LateIsLast, NoReq
<1>3. /\ NoRunWithoutAuthority /\ FullAccessIsSessionScoped /\ StaleReviewNeverRuns
      /\ AuthorityIsRecorded
  BY ShellAssumption, NoTurnIsSafe DEF Init, NoRunWithoutAuthority,
     FullAccessIsSessionScoped, StaleReviewNeverRuns, AuthorityIsRecorded, Running, NoReq
<1> QED BY <1>1, <1>2, <1>3 DEF ShellInv

\* ... and every step keeps it.
LEMMA NextShell == ShellInv /\ [Next]_vars => ShellInv'
<1> SUFFICES ASSUME ShellInv, [Next]_vars PROVE ShellInv'
  OBVIOUS
<1>1. CASE UNCHANGED vars
  <2>1. TypeOK' /\ SlotsAreIssued' /\ DecisionsAreTheUsers' /\ GrantsAreTheUsers'
    BY <1>1 DEF vars, ShellInv, TypeOK, SlotsAreIssued, DecisionsAreTheUsers,
       GrantsAreTheUsers
  <2>2. WaitingIsUnreserved' /\ LateIsLast' /\ FullAccessIsSessionScoped'
    BY <1>1 DEF vars, ShellInv, WaitingIsUnreserved, LateIsLast,
       FullAccessIsSessionScoped
  <2>3. NoRunWithoutAuthority' /\ StaleReviewNeverRuns' /\ AuthorityIsRecorded'
    BY <1>1 DEF vars, ShellInv, NoRunWithoutAuthority, StaleReviewNeverRuns,
       AuthorityIsRecorded, Running
  <2> QED BY <2>1, <2>2, <2>3 DEF ShellInv
<1>2. ASSUME NEW m \in Modes, SelectMode(m) PROVE ShellInv'
  BY <1>2, SelectModeKeeps
<1>3. ASSUME NEW s \in Sessions, SwitchSession(s) PROVE ShellInv'
  BY <1>3, SwitchSessionKeeps
<1>4. CASE Restart \/ StartTurn \/ CancelPrompt \/ BumpRevision
  BY <1>4, RestartKeeps, StartTurnKeeps, CancelPromptKeeps, BumpRevisionKeeps
<1>5. ASSUME NEW row \in rows, NEW v \in Verdicts, SubmitDecision(row, v) PROVE ShellInv'
  BY <1>5, SubmitDecisionKeeps
<1>6. ASSUME NEW n \in 1..MaxBatch, StartRound(n) PROVE ShellInv'
  BY <1>6, StartRoundKeeps
<1>7. CASE FinishTurn \/ StopCancelled
  BY <1>7, EndsKeep DEF StopCancelled
<1>8. ASSUME NEW cmd \in Commands,
             \/ RunAllowed(cmd) \/ RefuseCommand(cmd) \/ AskUser(cmd)
             \/ AskReviewer(cmd) \/ DecisionNotPersisted(cmd)
      PROVE  ShellInv'
  BY <1>8, RunAllowedKeeps, RefuseCommandKeeps, AskUserKeeps, AskReviewerKeeps,
     DecisionNotPersistedKeeps
<1>9. ASSUME NEW answer \in {"execute", "hold", "human", "failed"},
             ReviewerAnswers(answer)
      PROVE  ShellInv'
  BY <1>9, ReviewerAnswersKeeps
<1>10. CASE HoldRefused \/ TakeStaleDecision \/ CommandEnds \/ CancelWins
  BY <1>10, EndsKeep
<1>11. CASE TakeDecision
  BY <1>11, TakeDecisionKeeps
<1> QED BY <1>1, <1>2, <1>3, <1>4, <1>5, <1>6, <1>7, <1>8, <1>9, <1>10, <1>11 DEF Next

\* A shell command runs only on the word of someone who may give it, given for
\* this invocation, in this mode and this session, and after a cancel at most the
\* one whose approval was already waiting
\* (runner.rs execute_shell_command, permission.rs decide_shell).
THEOREM CommandsRunOnAuthority == Spec => []RunsOnAuthority
<1>1. ShellInv => RunsOnAuthority
  BY InvIsEnough
<1> QED BY <1>1, InitShell, NextShell, PTL DEF Spec

\* What let a command run, and every grant, is in a session file, whichever
\* write fails (persist_tool_review_event, persist_shell_review_resolution).
THEOREM EvidenceOutlivesAuthority == Spec => []AuthorityIsRecorded
<1>1. ShellInv => AuthorityIsRecorded
  BY InvIsEnough
<1> QED BY <1>1, InitShell, NextShell, PTL DEF Spec
=============================================================================
