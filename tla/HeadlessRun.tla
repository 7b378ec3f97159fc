------------------------------ MODULE HeadlessRun ------------------------------
(***************************************************************************)
(* One `yach run` (crates/yach-cli/src/headless.rs): the driver waits for  *)
(* the session's model, for the extensions and for the approval mode it    *)
(* asked for, then submits its prompts one by one, each under a deadline,  *)
(* stops at the first that does not complete, closes the client channel,   *)
(* waits for the backend, and writes an outcome document whose per-turn    *)
(* facts it reads back from the session log.                               *)
(*                                                                         *)
(* Driver, backend loop (runner.rs) and turn task share one thread, which  *)
(* stands still while the task writes to an extension host that does not   *)
(* read; two unbounded FIFO channels connect the driver with the other     *)
(* two.  The backend is kept to what the driver can see of it: what it     *)
(* answers, or does not answer, and which turns it leaves in the log.  A   *)
(* log turn carries the number of the prompt it belongs to, 0 for one of   *)
(* an earlier run of the same session file.                                *)
(***************************************************************************)
EXTENDS Integers, Sequences, FiniteSets

CONSTANTS
    MaxPrompts,     \* bound on the prompts of the run
    MaxHistory,     \* bound on the turns the session file already holds
    TurnTimeout,    \* --turn-timeout-secs, in ticks
    CancelDrain,    \* CANCEL_DRAIN, in ticks
    MaxHeadFaults   \* bound on failed appends, panics, bad resets, a log that cannot be
                    \* read, a document that cannot be written and blocked writes

ASSUME HeadlessAssumption ==
    /\ MaxPrompts \in Nat \ {0} /\ MaxHistory \in Nat
    /\ TurnTimeout \in Nat /\ CancelDrain \in Nat /\ MaxHeadFaults \in Nat

VARIABLES
    plan,       \* the options of the run, and the history its session file holds
    stage,      \* where run_headless_command is
    extSeen,    \* extension_activation: "pending", "ok" or "failed"
    setupError, \* setup_error
    runs,       \* the turns driven so far: their outcome and whose answers they took
    drive,      \* the locals of drive_one_turn
    toBackend,  \* the client channel
    toDriver,   \* the backend channel
    startup,    \* what the backend's startup still has to report
    server,     \* the backend loop: "up", "grace", "exited" or "dead"
    served,     \* the approval mode in force
    work,       \* the turn task: its state, its prompt, whether it sent text
    turns,      \* the turns of the session file
    logRead,    \* whether the log could be read back for the document
    exitCode,   \* -1 until the document is written
    blocked,    \* who waits for an extension host to read: "no", "turn" or "activation"
    headFaults  \* ghost: how many faults happened so far

headVars == <<plan, stage, extSeen, setupError, runs, drive, toBackend, toDriver, startup,
              server, served, work, turns, logRead, exitCode, blocked, headFaults>>

driverVars  == <<plan, stage, extSeen, setupError, runs, drive, logRead, exitCode>>
backendVars == <<startup, server, served, work, turns, headFaults>>

Stages   == {"model", "extensions", "mode", "turn", "closing", "exited"}
Outcomes == {"completed", "failed", "approval", "timeout", "skipped"}
Stored   == {"review", "edits"}
Modes    == Stored \cup {"full", "auto"}
Ends     == {"open", "completed", "failed", "cancelled"}
Idle     == [st |-> "none", prompt |-> 0, said |-> FALSE]
Fresh    == [sent |-> FALSE, now |-> 0, cancel |-> "none", at |-> 0, desync |-> FALSE,
             got |-> {}]
Ev(k, v, of) == [k |-> k, v |-> v, of |-> of]

HeadTypeOK ==
    /\ stage \in Stages /\ extSeen \in {"pending", "ok", "failed"} /\ setupError \in BOOLEAN
    /\ Len(runs) <= Len(plan.prompts)
    /\ \A i \in DOMAIN runs : /\ runs[i].outcome \in Outcomes
                             /\ runs[i].got \subseteq 0..MaxPrompts
    /\ drive.cancel \in Outcomes \cup {"none"}
    /\ drive.now \in 0..(TurnTimeout + CancelDrain)
    /\ startup \subseteq {"model", "ext"}
    /\ server \in {"up", "grace", "exited", "dead"} /\ served \in Modes
    /\ blocked \in {"no", "turn", "activation"}
    /\ work.st \in {"none", "running", "asking", "done", "panicked"}
    /\ \A i \in DOMAIN turns : turns[i] \in [prompt : 0..MaxPrompts, end : Ends]
    /\ exitCode \in -1..4 /\ headFaults \in 0..MaxHeadFaults

Prompts == UNION {[1..n -> {"text", "blank"}] : n \in 1..MaxPrompts}

\* The loop starts in the mode stored for the project: load_project_approval_mode
\* gives neither full access nor automatic review.
HeadInit ==
    /\ plan \in [prompts : Prompts, mode : {"none", "full", "auto"}, stored : Stored,
                 waits : BOOLEAN]
    /\ stage = "model" /\ extSeen = "pending" /\ setupError = FALSE
    /\ runs = <<>> /\ drive = Fresh
    /\ toBackend = <<>> /\ toDriver = <<>>
    /\ startup = {"model"} \cup (IF plan.waits THEN {"ext"} ELSE {})
    /\ server = "up" /\ served = plan.stored /\ work = Idle
    /\ \E n \in 0..MaxHistory : turns = [i \in 1..n |-> [prompt |-> 0, end |-> "completed"]]
    /\ logRead = FALSE /\ exitCode = -1 /\ blocked = "no" /\ headFaults = 0

HeadFault == headFaults < MaxHeadFaults /\ headFaults' = headFaults + 1
Sound     == UNCHANGED headFaults

\* The one thread of the runtime is not held by a write.
Moves     == blocked # "turn" /\ UNCHANGED blocked
Lives     == Moves /\ stage # "exited"

\* The client channel has a receiver as long as the loop lives.
Listening == server \in {"up", "grace"}
Sent(e)   == toBackend' = IF Listening THEN Append(toBackend, e) ELSE toBackend

\* The driver takes the oldest event.
Take == Moves /\ toDriver # <<>> /\ toDriver' = Tail(toDriver)
News == Head(toDriver)

\* recv() gives None: the loop is gone, and no task holds a sender any more.
Hangup == toDriver = <<>> /\ ~Listening /\ work.st \notin {"running", "asking"}

-----------------------------------------------------------------------------
(***************************************************************************)
(* The driver: setup.                                                      *)
(***************************************************************************)

\* failed_setup_turns, and the same list in drive_turns: the first prompt failed,
\* the others skipped.
FailedSetup ==
    [i \in DOMAIN plan.prompts |->
        [outcome |-> IF i = 1 THEN "failed" ELSE "skipped", got |-> {}]]

GivesUp(setup) ==
    /\ runs' = FailedSetup /\ stage' = "closing" /\ setupError' = setup
    /\ UNCHANGED <<drive, toBackend>>

\* drive_turns begins: select_full_access or select_auto_review sends its request.
BeginTurns ==
    /\ UNCHANGED <<setupError, runs, drive>>
    /\ IF plan.mode = "none" THEN stage' = "turn" /\ UNCHANGED toBackend
                             ELSE stage' = "mode" /\ Sent(Ev("mode", plan.mode, 0))

\* Activation as it is known when the model is there.
Activated(seen) ==
    IF ~plan.waits \/ seen = "ok" THEN BeginTurns
    ELSE IF seen = "failed" THEN GivesUp(TRUE)
    ELSE stage' = "extensions" /\ UNCHANGED <<setupError, runs, drive, toBackend>>

\* prepare_model, one event: the model, or an extension status to remember.
prepare_model ==
    /\ stage = "model" /\ Take
    /\ \/ /\ News.k = "ext" /\ extSeen' = News.v
          /\ UNCHANGED <<stage, setupError, runs, drive, toBackend>>
       \/ News = Ev("model", "ok", 0) /\ Activated(extSeen) /\ UNCHANGED extSeen
       \/ News = Ev("model", "failed", 0) /\ GivesUp(FALSE) /\ UNCHANGED extSeen
    /\ UNCHANGED <<backendVars, plan, logRead, exitCode>>

wait_for_extension_activation ==
    /\ stage = "extensions" /\ Take
    /\ News.k = "ext"
    /\ extSeen' = News.v /\ Activated(News.v)
    /\ UNCHANGED <<backendVars, plan, logRead, exitCode>>

\* select_full_access and select_auto_review.
select_mode ==
    /\ stage = "mode" /\ Take
    /\ \/ /\ News = Ev("mode", "ok", 0) /\ stage' = "turn"
          /\ UNCHANGED <<setupError, runs, drive, toBackend>>
       \/ News = Ev("mode", "failed", 0) /\ GivesUp(FALSE)
    /\ UNCHANGED <<backendVars, plan, extSeen, logRead, exitCode>>

\* Each of the three waits has its deadline and an end of the channel.
SetupGivesUp ==
    /\ Moves /\ stage \in {"model", "extensions", "mode"}
    /\ GivesUp(stage = "extensions")
    /\ UNCHANGED <<backendVars, plan, extSeen, toDriver, logRead, exitCode>>

-----------------------------------------------------------------------------
(***************************************************************************)
(* The driver: turns.                                                      *)
(***************************************************************************)

\* Mutant: the run goes on after a turn that did not complete.
StopsNever(done) == Len(done) = Len(plan.prompts)

\* drive_turns after a turn: stop at the first that did not complete.
Stops(done) == \/ done[Len(done)].outcome # "completed"
               \/ Len(done) = Len(plan.prompts)

\* drive_one_turn returns; the prompts after a stop are skipped.
TurnEnds(outcome, got) ==
    LET done == Append(runs, [outcome |-> outcome, got |-> got])
    IN  /\ drive' = Fresh
        /\ IF Stops(done)
             THEN /\ stage' = "closing"
                  /\ runs' = [i \in DOMAIN plan.prompts |->
                                IF i <= Len(done) THEN done[i]
                                ELSE [outcome |-> "skipped", got |-> {}]]
             ELSE runs' = done /\ UNCHANGED stage

SubmitPrompt ==
    /\ Moves /\ stage = "turn" /\ ~drive.sent
    /\ \/ /\ Listening
          /\ Sent(Ev("prompt", plan.prompts[Len(runs) + 1], Len(runs) + 1))
          /\ drive' = [drive EXCEPT !.sent = TRUE]
          /\ UNCHANGED <<runs, stage>>
       \/ ~Listening /\ TurnEnds("failed", {}) /\ UNCHANGED toBackend
    /\ UNCHANGED <<backendVars, plan, extSeen, setupError, toDriver, logRead, exitCode>>

\* PromptCancelled, once.
Cancels(why, desync) ==
    IF drive.cancel = "none"
      THEN /\ Sent(Ev("cancel", "", 0))
           /\ drive' = [drive EXCEPT !.cancel = why, !.at = drive.now, !.desync = desync]
      ELSE drive' = [drive EXCEPT !.desync = desync] /\ UNCHANGED toBackend

Driving == Moves /\ stage = "turn" /\ drive.sent

\* The turn's deadline passes.
TurnTimesOut ==
    /\ Driving /\ drive.cancel = "none" /\ drive.now >= TurnTimeout
    /\ Cancels("timeout", drive.desync)
    /\ UNCHANGED <<backendVars, plan, stage, extSeen, setupError, runs, toDriver,
                   logRead, exitCode>>

\* Mutant: a cancelled turn is over when its PromptFinished has come.
DrainAwaitsFinish == FALSE /\ UNCHANGED headVars

\* The drain window passes.  It ends CANCEL_DRAIN after the turn's deadline,
\* whenever the cancel was sent.
DrainExpires ==
    /\ Driving /\ drive.cancel # "none" /\ drive.now >= TurnTimeout + CancelDrain
    /\ TurnEnds(drive.cancel, drive.got)
    /\ UNCHANGED <<backendVars, plan, extSeen, setupError, toBackend, toDriver, logRead,
                   exitCode>>

\* What a PromptFinished makes of the turn.
OutcomeOf(v) == IF v = "completed" THEN "completed" ELSE "failed"

\* recv() in drive_one_turn: text, a reset that does not fit, a review nobody will
\* answer, the end of the turn.
DriverReceives ==
    /\ Driving /\ Take
    /\ \/ /\ News.k = "delta"
          /\ drive' = IF drive.desync THEN drive
                      ELSE [drive EXCEPT !.got = @ \cup {News.of}]
          /\ UNCHANGED <<stage, runs, toBackend>>
       \/ News.k = "reset" /\ Cancels("failed", TRUE) /\ UNCHANGED <<stage, runs>>
       \/ /\ News.k = "review" /\ Cancels("approval", drive.desync)
          /\ UNCHANGED <<stage, runs>>
       \/ /\ News.k = "finished"
          /\ TurnEnds(IF drive.desync THEN "failed"
                      ELSE IF drive.cancel # "none" THEN drive.cancel
                      ELSE OutcomeOf(News.v),
                      drive.got \cup {News.of})
          /\ UNCHANGED toBackend
    /\ UNCHANGED <<backendVars, plan, extSeen, setupError, logRead, exitCode>>

\* The backend channel closes in the middle of a turn.
BackendGone ==
    /\ Driving /\ Hangup
    /\ TurnEnds(IF drive.cancel = "none" THEN "failed" ELSE drive.cancel, drive.got)
    /\ UNCHANGED <<backendVars, plan, extSeen, setupError, toBackend, toDriver, logRead,
                   exitCode>>

Tick ==
    /\ Driving /\ drive.now < TurnTimeout + CancelDrain
    /\ drive' = [drive EXCEPT !.now = @ + 1]
    /\ UNCHANGED <<backendVars, plan, stage, extSeen, setupError, runs, toBackend,
                   toDriver, logRead, exitCode>>

-----------------------------------------------------------------------------
(***************************************************************************)
(* The outcome document and the exit.                                      *)
(***************************************************************************)

Executed == {i \in DOMAIN runs : runs[i].outcome # "skipped"}
Order    == [i \in DOMAIN turns |-> turns[i].prompt]

\* turn_facts_from_log: the newest n turns of the log (here, whose they are).
turn_facts_from_log(n) ==
    SubSeq(Order, IF Len(Order) > n THEN Len(Order) - n + 1 ELSE 1, Len(Order))

\* build_outcome_document gives the turns their facts in order, after padding in
\* front: whose facts turn i gets, -1 for none.  Of a log that cannot be read there are
\* none.
FactsOf(i) ==
    LET n     == Cardinality(Executed)
        facts == IF logRead THEN turn_facts_from_log(n) ELSE <<>>
        pad   == n - Len(facts)
    IN  IF i \in Executed /\ i > pad THEN facts[i - pad] ELSE -1

\* overall_outcome and headless_exit_code.
Overall ==
    IF \A i \in DOMAIN runs : runs[i].outcome \in {"completed", "skipped"} THEN "completed"
    ELSE LET bad   == {i \in DOMAIN runs : runs[i].outcome \notin {"completed", "skipped"}}
             first == CHOOSE i \in bad : \A j \in bad : i <= j
         IN  runs[first].outcome

headless_exit_code ==
    IF setupError THEN 2
    ELSE CASE Overall = "completed" -> 0
           [] Overall = "approval"  -> 3
           [] Overall = "timeout"   -> 4
           [] OTHER                 -> 1

\* backend_handle.await is over: read the log, if it can be read, and write the
\* document.  The process is gone when the runtime is: its drop waits for an
\* activation that still runs.
Exit ==
    /\ Moves /\ stage = "closing" /\ ~Listening
    /\ stage' = "exited"
    /\ \/ exitCode' = headless_exit_code /\ logRead' = TRUE /\ Sound
       \/ exitCode' = headless_exit_code /\ logRead' = FALSE /\ HeadFault
       \/ exitCode' = 2 /\ logRead' = TRUE /\ HeadFault
    /\ UNCHANGED <<plan, extSeen, setupError, runs, drive, toBackend, toDriver,
                   startup, server, served, work, turns>>

-----------------------------------------------------------------------------
(***************************************************************************)
(* The backend, as far as the driver can tell.                             *)
(***************************************************************************)

Reports(e) == toDriver' = Append(toDriver, e)

\* The startup after FirstRenderCompleted: the session's model is activated or not,
\* the background activation of the extensions ends or fails.
BackendStarts ==
    /\ Lives /\ server = "up"
    /\ \E w \in startup, v \in {"ok", "failed"} :
          /\ w = "ext" => blocked = "no"
          /\ Reports(Ev(w, v, 0)) /\ startup' = startup \ {w}
    /\ UNCHANGED <<driverVars, toBackend, server, served, work, turns, headFaults>>

\* collect_finished_provider_turn.
Collected == IF work.st \in {"done", "panicked"} THEN Idle ELSE work

\* ApprovalModeSelected: granted, or refused.
SetMode(m) ==
    /\ \/ served' = m /\ Reports(Ev("mode", "ok", 0))
       \/ UNCHANGED served /\ Reports(Ev("mode", "failed", 0))
    /\ work' = Collected /\ Sound /\ UNCHANGED <<server, turns>>

\* PromptSubmitted: ignored when it is blank or a turn runs, not started when its
\* first append fails, and in neither case answered with a PromptFinished.
TakePrompt(v, p) ==
    /\ IF v = "blank" \/ Collected.st # "none"
         THEN work' = Collected /\ Sound /\ UNCHANGED turns
         ELSE \/ /\ work' = [st |-> "running", prompt |-> p, said |-> FALSE]
                 /\ turns' = Append(turns, [prompt |-> p, end |-> "open"])
                 /\ Sound
              \/ work' = Idle /\ HeadFault /\ UNCHANGED turns
    /\ UNCHANGED <<server, served, toDriver>>

\* PromptCancelled: the loop waits for the task, if there is one.
TakeCancel ==
    /\ work' = Collected
    /\ server' = IF Collected.st = "none" THEN "up" ELSE "grace"
    /\ Sound /\ UNCHANGED <<served, turns, toDriver>>

LoopTakes ==
    /\ Lives /\ server = "up" /\ toBackend # <<>>
    /\ toBackend' = Tail(toBackend)
    /\ LET e == Head(toBackend)
       IN  \/ e.k = "mode" /\ SetMode(e.v)
           \/ e.k = "prompt" /\ TakePrompt(e.v, e.of)
           \/ e.k = "cancel" /\ TakeCancel
    /\ UNCHANGED <<driverVars, startup>>

\* The client channel is closed and empty: cancel what runs, then exit.
LoopCloses ==
    /\ Moves /\ server = "up" /\ stage = "closing" /\ toBackend = <<>>
    /\ server' = IF work.st = "none" THEN "exited" ELSE "grace"
    /\ UNCHANGED <<driverVars, toBackend, toDriver, startup, served, work, turns,
                   headFaults>>

\* A turn is over: its end reaches the log, or the append fails; the client is told
\* either way.
RecordsEnd(v) ==
    /\ \/ turns' = [turns EXCEPT ![Len(turns)].end = v] /\ Sound
       \/ UNCHANGED turns /\ HeadFault
    /\ Reports(Ev("finished", v, work.prompt))

\* cancel_active_provider_turn: the task ends within the grace, or is aborted and
\* its turn recorded as cancelled.
GraceEnds ==
    /\ Lives /\ server = "grace"
    /\ \/ work.st \in {"done", "panicked"} /\ Sound /\ UNCHANGED <<turns, toDriver>>
       \/ work.st \in {"running", "asking"} /\ RecordsEnd("cancelled")
    /\ server' = "up" /\ work' = Idle
    /\ UNCHANGED <<driverVars, toBackend, startup, served>>

Working == Lives /\ work.st \in {"running", "asking"}

\* The task streams text, asks for a review, sends a reset that does not fit.
TaskSpeaks ==
    /\ Working /\ work.st = "running"
    /\ \/ /\ ~work.said /\ work' = [work EXCEPT !.said = TRUE]
          /\ Reports(Ev("delta", "", work.prompt)) /\ Sound
       \/ /\ work' = [work EXCEPT !.st = "asking"]
          /\ Reports(Ev("review", "", work.prompt)) /\ Sound
       \/ /\ UNCHANGED work
          /\ Reports(Ev("reset", "", work.prompt)) /\ HeadFault
    /\ UNCHANGED <<driverVars, toBackend, startup, server, served, turns>>

\* The turn ends by itself; one that waits for a review ends when it is cancelled or
\* the loop that would bring the decision is gone.  It is cancelled only by the loop.
TaskFinishes ==
    /\ Working
    /\ \E v \in {"completed", "failed", "cancelled"} :
          /\ v = "cancelled" => server = "grace"
          /\ work.st = "asking" => v # "completed" /\ server # "up"
          /\ RecordsEnd(v)
    /\ work' = [work EXCEPT !.st = "done"]
    /\ UNCHANGED <<driverVars, toBackend, startup, server, served>>

\* The task panics, and no PromptFinished comes.
TaskPanics ==
    /\ Working /\ HeadFault
    /\ work' = [work EXCEPT !.st = "panicked"]
    /\ UNCHANGED <<driverVars, toBackend, toDriver, startup, server, served, turns>>

\* The loop panics; the task goes on without it.
LoopPanics ==
    /\ Lives /\ server = "up" /\ HeadFault
    /\ server' = "dead" /\ toBackend' = <<>>
    /\ UNCHANGED <<driverVars, toDriver, startup, served, work, turns>>

\* ExtensionProcessHostTransport::send: a write without deadline to a host that does
\* not read.  A tool call of the turn makes it on the runtime's thread, an activation
\* on one of its own.
HostBlocks ==
    /\ blocked = "no" /\ HeadFault
    /\ \/ stage # "exited" /\ work.st = "running" /\ blocked' = "turn"
       \/ stage # "exited" /\ "ext" \in startup /\ blocked' = "activation"
    /\ UNCHANGED <<driverVars, toBackend, toDriver, startup, server, served, work, turns>>

\* The host reads after all, or dies.
HostReads ==
    /\ blocked # "no" /\ blocked' = "no"
    /\ UNCHANGED <<driverVars, toBackend, toDriver, backendVars>>

-----------------------------------------------------------------------------
HeadNext ==
    \/ prepare_model \/ wait_for_extension_activation \/ select_mode \/ SetupGivesUp
    \/ SubmitPrompt \/ TurnTimesOut \/ DrainExpires \/ DriverReceives \/ BackendGone \/ Tick
    \/ Exit
    \/ BackendStarts \/ LoopTakes \/ LoopCloses \/ GraceEnds
    \/ TaskSpeaks \/ TaskFinishes \/ TaskPanics \/ LoopPanics \/ HostBlocks \/ HostReads

\* The driver's own steps and timers happen, and the loop handles its channel and
\* its 250 ms grace, whenever the thread is free.  Nothing is assumed of the task, of
\* the startup or of an extension host.
HeadFairness ==
    /\ WF_headVars(SetupGivesUp) /\ WF_headVars(SubmitPrompt)
    /\ WF_headVars(DriverReceives) /\ WF_headVars(TurnTimesOut) /\ WF_headVars(DrainExpires)
    /\ WF_headVars(BackendGone) /\ WF_headVars(Tick) /\ WF_headVars(Exit)
    /\ WF_headVars(LoopTakes) /\ WF_headVars(LoopCloses) /\ WF_headVars(GraceEnds)

HeadSpec == HeadInit /\ [][HeadNext]_headVars /\ HeadFairness

-----------------------------------------------------------------------------
Of(p) == {i \in DOMAIN turns : turns[i].prompt = p}

(***************************************************************************)
(* Exit code 0 means what a script takes it for: every prompt of the run   *)
(* has exactly one turn in the session file, which completed (or whose end *)
(* could not be written), in the order of the prompts.  The code decides   *)
(* it from PromptFinished events alone (drive_one_turn,                    *)
(* headless_exit_code).                                                    *)
(***************************************************************************)
SuccessIsRecorded ==
    exitCode = 0 =>
        /\ \A p \in DOMAIN plan.prompts :
              /\ Cardinality(Of(p)) = 1
              /\ \A i \in Of(p) : turns[i].end = "completed"
                                  \/ (headFaults > 0 /\ turns[i].end = "open")
        /\ \A i, j \in DOMAIN turns : i < j => turns[i].prompt <= turns[j].prompt

(***************************************************************************)
(* The text and the end a turn of the document is made of come from the    *)
(* turn of its own prompt, though the events carry no turn and a turn the  *)
(* driver gave up can still send some (drive_turns, which stops there).    *)
(***************************************************************************)
AnswerIsOwn == \A i \in DOMAIN runs : runs[i].got \subseteq {i}

(***************************************************************************)
(* No turn runs under another approval mode than the run asked for or,     *)
(* without a flag, than the one stored for the project                     *)
(* (select_full_access and select_auto_review, which give up first).       *)
(***************************************************************************)
RunsAsRequested ==
    work.st # "none" => served = IF plan.mode = "none" THEN plan.stored ELSE plan.mode

(***************************************************************************)
(* When the log can be read and every prompt that was driven has a turn in *)
(* it, the document gives each its own facts, whatever history the file    *)
(* already held (turn_facts_from_log, build_outcome_document).  Of a log   *)
(* that cannot be read the document has no facts, and does not say so.     *)
(***************************************************************************)
FactsAligned ==
    (stage = "exited" /\ logRead /\ \A i \in Executed : Of(i) # {})
        => \A i \in Executed : FactsOf(i) = i

(***************************************************************************)
(* The log is read back when nothing can change it any more: the backend   *)
(* has exited and, unless a fault kept it from writing, no turn in the     *)
(* file is still open (the drop of client_tx and backend_handle.await).    *)
(***************************************************************************)
LogIsFinal ==
    stage = "exited" =>
        /\ ~Listening
        /\ headFaults = 0 => \A i \in DOMAIN turns : turns[i].end # "open"

(***************************************************************************)
(* The five together: what the outcome document and the exit code say of a *)
(* run, its approval mode included, is what happened, whatever the session *)
(* file held before and whatever came late.                                *)
(***************************************************************************)
DocumentIsTrue ==
    SuccessIsRecorded /\ AnswerIsOwn /\ RunsAsRequested /\ FactsAligned /\ LogIsFinal

(***************************************************************************)
(* The run ends, whatever the provider and the reviewers do, blank         *)
(* prompts, panics and lost answers included; and whatever the extensions  *)
(* do but one thing: a write to a host that never reads holds the thread   *)
(* of the run, or the end of its runtime, for ever (extension.rs:573).     *)
(***************************************************************************)
RunEnds == <>[](blocked # "no") \/ <>(stage = "exited" /\ blocked = "no")

(***************************************************************************)
(* "The driver's turns are the newest N in the log", and the padding that  *)
(* is there "so zip below stays aligned if the log is missing turns": the  *)
(* facts a turn gets are its own or none.  Violated: a prompt that leaves  *)
(* no turn (blank, its first append failed, or the set-up did) gives its   *)
(* place to an older turn.                                                 *)
(***************************************************************************)
FactsAreOwn == stage = "exited" => \A i \in Executed : FactsOf(i) \in {i, -1}

(***************************************************************************)
(* "After cancelling a turn (timeout or approval refusal), wait this long  *)
(* for the backend to acknowledge": violated, the wait is counted from the *)
(* turn's deadline, so a refused approval can wait for all of the timeout. *)
(***************************************************************************)
DrainIsBounded == drive.cancel # "none" => drive.now <= drive.at + CancelDrain
=============================================================================
