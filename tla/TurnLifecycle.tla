----------------------------- MODULE TurnLifecycle -----------------------------
(***************************************************************************)
(* The life of a turn in the backend's event loop                          *)
(* (crates/yach-backend/src/runner.rs): a prompt starts a spawned task     *)
(* that owns a copy of the session log; the loop adopts that copy when it  *)
(* next looks, or cancels the task, waits 250 ms for it and then aborts it *)
(* and records the turn as cancelled itself.  Around it, on the same loop: *)
(* session switches, manual compaction, local edits and their previews,    *)
(* the client closing its channel, the process dying and coming back.      *)
(*                                                                         *)
(* The TUI runs the loop and its tasks on a multi-thread runtime, the      *)
(* headless and RPC front ends on one thread.  A handler is one step up to *)
(* the await it blocks in, except that a turn can end on another thread    *)
(* between the moment the loop collects a finished turn and the moment the *)
(* handler asks again whether one is running.  A session log is a sequence *)
(* of events [kind, turn, session, by]; "by" says whether a turn task or   *)
(* the loop itself recorded it.  An append either writes all its events or *)
(* fails (a fault); SessionStore models what a torn one leaves.            *)
(***************************************************************************)
EXTENDS Integers, Sequences, FiniteSets

CONSTANTS
    LogFiles,       \* session files of the sessions directory
    MaxIndex,       \* bound on the turn indices handed out
    MaxSteps,       \* bound on the tool events of one turn
    MaxFaults,      \* bound on failed writes, failed loads, panics and late returns
    MaxStops,       \* bound on exits and crashes
    MaxPreviews,    \* bound on the local edit previews pending at once
    MaxEvents       \* bound on the events of one session file

ASSUME LifecycleAssumption ==
    /\ LogFiles # {}
    /\ MaxIndex \in Nat /\ MaxSteps \in Nat /\ MaxFaults \in Nat
    /\ MaxStops \in Nat /\ MaxPreviews \in Nat /\ MaxEvents \in Nat

VARIABLES
    run,        \* "up", "closing" (client channel closed), "exited" or "crashed"
    current,    \* current_session_id, and with it the store
    disk,       \* session -> the events in its file
    mem,        \* session_log
    turnIndex,  \* turn_index
    editIndex,  \* local_edit_index
    configured, \* is a provider installed?
    task,       \* active_provider_turn and what its task has done so far
    loop,       \* "select" (waiting for an event), "handling" (has one, and has
                \* collected) or "grace" (awaiting the task)
    previews,   \* edit_access.pending
    faults, stops, \* ghosts: how many happened so far
    blind       \* ghost: has a process started on a log it could not read?

turnsVars == <<run, current, disk, mem, turnIndex, editIndex, configured, task, loop,
               previews, faults, stops, blind>>

Indices == 0..MaxIndex
Event   == [kind : {"user", "step", "finished", "edit", "compaction"},
            turn : Indices, session : LogFiles, by : {"task", "loop"}]
NoTask  == [st |-> "none", turn |-> 0, log |-> <<>>, pending |-> <<>>]
Preview == [session : LogFiles, turn : Indices]

LoopTypeOK ==
    /\ run \in {"up", "closing", "exited", "crashed"}
    /\ current \in LogFiles
    /\ disk \in [LogFiles -> Seq(Event)]
    /\ mem \in Seq(Event)
    /\ turnIndex \in Indices /\ editIndex \in Indices
    /\ configured \in BOOLEAN
    /\ task \in [st : {"none", "running", "finishing", "done", "failed"}, turn : Indices,
                 log : Seq(Event), pending : Seq(Event)]
    /\ loop \in {"select", "handling", "grace"}
    /\ previews \subseteq Preview
    /\ faults \in 0..MaxFaults /\ stops \in 0..MaxStops

TurnsTypeOK == LoopTypeOK /\ blind \in BOOLEAN

-----------------------------------------------------------------------------
Mark(kind, turn, by) == [kind |-> kind, turn |-> turn, session |-> current, by |-> by]

EventsOf(log) == {log[i] : i \in 1..Len(log)}
TurnsOf(log)  == {e.turn : e \in EventsOf(log)}

\* SessionLog::next_turn_index, over every event that names a turn.
NextTurnIndex(log) ==
    IF log = <<>> THEN 0
    ELSE 1 + (CHOOSE t \in TurnsOf(log) : \A u \in TurnsOf(log) : u <= t)

Larger(a, b) == IF a > b THEN a ELSE b

Fault == faults < MaxFaults /\ faults' = faults + 1

\* store.append_events(events): all of them, or a fault.
Written(events) == disk' = [disk EXCEPT ![current] = @ \o events] /\ UNCHANGED faults
Unwritten == UNCHANGED disk /\ Fault

Alive == run \in {"up", "closing"}

\* JoinHandle::is_finished: a task that has sent PromptFinished and still has its
\* statistics to send is not.
Finished(t) == t.st \in {"done", "failed"}
Busy(t)     == t.st \in {"running", "finishing"}

\* collect_finished_provider_turn, run before every client event: the log of a
\* turn that finished replaces the loop's.
Collect ==
    [mem  |-> IF task.st = "done" THEN task.log ELSE mem,
     task |-> IF Finished(task) THEN NoTask ELSE task]

\* A handler runs, on what it finds: just collected, or, when a turn ended after
\* the loop looked, not collected.
Handles == run = "up" /\ loop \in {"select", "handling"}
Found   == IF loop = "select" THEN Collect ELSE [mem |-> mem, task |-> task]
Returns == loop' = "select"

\* Events that change nothing here, and refusals.
OtherEvent ==
    /\ Handles /\ Returns
    /\ mem' = Found.mem /\ task' = Found.task
    /\ UNCHANGED <<run, current, disk, turnIndex, editIndex, configured, previews,
                   faults, stops, blind>>

TurnsInit ==
    /\ run = "up" /\ loop = "select"
    /\ current \in LogFiles
    /\ disk = [s \in LogFiles |-> <<>>]
    /\ mem = <<>> /\ turnIndex = 0 /\ editIndex = 0
    /\ configured \in BOOLEAN
    /\ task = NoTask
    /\ previews = {}
    /\ faults = 0 /\ stops = 0 /\ blind = FALSE

-----------------------------------------------------------------------------
(***************************************************************************)
(* Prompts.                                                                *)
(***************************************************************************)

\* A prompt always spends a turn index, whatever becomes of it.
SpendIndex ==
    /\ turnIndex < MaxIndex
    /\ turnIndex' = turnIndex + 1
    /\ editIndex' = Larger(editIndex, turnIndex')

\* A turn that has finished since the loop collected is forgotten, its log with it
\* (active_provider_turn = None).
Forget(t) == IF configured /\ Finished(t) THEN NoTask ELSE t

\* PromptSubmitted while a turn runs, or else for another session than the current
\* one: a status, nothing else.  Without a provider the check for a running turn
\* is not made.
RefusePrompt(s) ==
    /\ Handles /\ Returns
    /\ SpendIndex
    /\ s # current \/ (configured /\ Busy(Found.task))
    /\ mem' = Found.mem /\ task' = Forget(Found.task)
    /\ UNCHANGED <<run, current, disk, configured, previews, faults, stops, blind>>

\* start_native_prompt and the spawn of handle_started_native_provider_prompt.
\* The user entry is in the log before its write is known to have succeeded.
StartTurn ==
    /\ Handles /\ Returns /\ configured
    /\ ~Busy(Found.task)
    /\ SpendIndex
    /\ Len(disk[current]) < MaxEvents
    /\ LET user == Mark("user", turnIndex, "task")
       IN  /\ mem' = Append(Found.mem, user)
           /\ \/ /\ Written(<<user>>)
                 /\ task' = [st |-> "running", turn |-> turnIndex,
                             log |-> mem', pending |-> <<>>]
              \/ Unwritten /\ task' = NoTask
    /\ UNCHANGED <<run, current, configured, previews, stops, blind>>

\* handle_native_prompt_unconfigured_provider and handle_native_prompt: the
\* whole turn inside the handler.
DirectPrompt ==
    /\ Handles /\ Returns /\ ~configured
    /\ SpendIndex
    /\ Len(disk[current]) < MaxEvents
    /\ LET user == Mark("user", turnIndex, "loop")
           done == Mark("finished", turnIndex, "loop")
       IN  /\ mem' = Found.mem \o <<user, done>>
           /\ \/ Written(<<user, done>>)
              \/ Unwritten
              \/ /\ disk' = [disk EXCEPT ![current] = Append(@, user)]
                 /\ Fault
    /\ task' = Found.task
    /\ UNCHANGED <<run, current, configured, previews, stops, blind>>

\* A connection mutation that completes can install or remove the provider,
\* in the middle of a turn too (ModelActivation).
ProviderChanges ==
    /\ Handles /\ Returns
    /\ configured' = ~configured
    /\ mem' = Found.mem /\ task' = Found.task
    /\ UNCHANGED <<run, current, disk, turnIndex, editIndex, previews, faults, stops, blind>>

-----------------------------------------------------------------------------
(***************************************************************************)
(* The turn task.                                                          *)
(***************************************************************************)

Steps == Cardinality({i \in 1..Len(task.log) :
                        task.log[i].kind = "step" /\ task.log[i].turn = task.turn})

\* A round records its tool requests and results; what an append could not
\* write stays pending.
TaskStep ==
    /\ Alive /\ task.st = "running" /\ Steps < MaxSteps
    /\ Len(disk[current]) < MaxEvents
    /\ LET batch == Append(task.pending, Mark("step", task.turn, "task"))
       IN  \/ /\ Written(batch)
              /\ task' = [task EXCEPT !.log = Append(@, Mark("step", task.turn, "task")),
                                      !.pending = <<>>]
           \/ /\ Unwritten
              /\ task' = [task EXCEPT !.log = Append(@, Mark("step", task.turn, "task")),
                                      !.pending = batch]
    /\ UNCHANGED <<run, current, mem, turnIndex, editIndex, configured, loop, previews,
                   stops, blind>>

\* handle_native_provider_prompt ends, completed, failed or cancelled:
\* TurnFinished and finish_native_prompt, which tells the client and then has the
\* trace to flush and the statistics to send.
TaskFinishes ==
    /\ Alive /\ task.st = "running"
    /\ LET done == Mark("finished", task.turn, "task")
       IN  /\ task' = [task EXCEPT !.st = "finishing", !.log = Append(@, done), !.pending = <<>>]
           /\ Written(Append(task.pending, done)) \/ Unwritten
    /\ UNCHANGED <<run, current, mem, turnIndex, editIndex, configured, loop, previews,
                   stops, blind>>

\* The task returns its log, or panics and its log is gone.
Ends(st) ==
    /\ task' = [task EXCEPT !.st = st]
    /\ UNCHANGED <<run, current, disk, mem, turnIndex, editIndex, configured, previews,
                   stops, blind>>

TaskReturns == Alive /\ task.st = "finishing" /\ Ends("done") /\ UNCHANGED <<loop, faults>>
TaskPanics  == Alive /\ Busy(task) /\ Ends("failed") /\ Fault /\ UNCHANGED loop

\* The same on another thread, just after the loop took an event and found nothing
\* to collect.
TaskReturnsLate ==
    /\ run = "up" /\ loop = "select" /\ task.st = "finishing"
    /\ Ends("done") /\ Fault /\ loop' = "handling"

-----------------------------------------------------------------------------
(***************************************************************************)
(* Cancellation and shutdown.                                              *)
(***************************************************************************)

\* PromptCancelled: cancel the token and wait for the task.
CancelPrompt ==
    /\ Handles
    /\ mem' = Found.mem /\ task' = Found.task
    /\ loop' = IF task'.st # "none" THEN "grace" ELSE "select"
    /\ UNCHANGED <<run, current, disk, turnIndex, editIndex, configured, previews, faults,
                   stops, blind>>

\* Mutant: the loop exits without looking at the running turn.
CloseDetaches ==
    /\ run = "up" /\ loop = "select" /\ stops < MaxStops
    /\ run' = "exited" /\ stops' = stops + 1
    /\ task' = NoTask
    /\ UNCHANGED <<current, disk, mem, turnIndex, editIndex, configured, loop, previews,
                   faults, blind>>

\* The client drops its sender: the loop cancels a turn it still holds, one
\* that already finished included, and exits.
CloseClient ==
    /\ run = "up" /\ loop = "select" /\ stops < MaxStops
    /\ IF task.st = "none"
         THEN run' = "exited" /\ loop' = "select" /\ stops' = stops + 1
         ELSE run' = "closing" /\ loop' = "grace" /\ UNCHANGED stops
    /\ UNCHANGED <<current, disk, mem, turnIndex, editIndex, configured, task, previews,
                   faults, blind>>

\* After cancel_active_provider_turn the loop goes on, or exits if it was closing.
Resume ==
    /\ task' = NoTask /\ Returns /\ UNCHANGED blind
    /\ IF run = "closing" THEN run' = "exited" /\ stops' = stops + 1
                          ELSE UNCHANGED <<run, stops>>

\* The task answers within PROVIDER_CANCELLATION_GRACE, or has panicked.
TaskAnswers ==
    /\ loop = "grace" /\ task.st \in {"done", "failed"}
    /\ mem' = IF task.st = "done" THEN task.log ELSE mem
    /\ Resume
    /\ UNCHANGED <<current, disk, turnIndex, editIndex, configured, previews, faults>>

HasFinished(log, t) == \E e \in EventsOf(log) : e.kind = "finished" /\ e.turn = t

\* Mutant: the cancelled turn is recorded whether or not the task ended it.
GraceExpiresAlways ==
    /\ loop = "grace"
    /\ Written(<<Mark("finished", task.turn, "task")>>)
    /\ mem' = disk'[current]
    /\ Resume
    /\ UNCHANGED <<current, turnIndex, editIndex, configured, previews>>

\* Mutant: the log is not reloaded after an abort.
GraceExpiresNoReload ==
    /\ loop = "grace" /\ task.st = "running"
    /\ Written(<<Mark("finished", task.turn, "task")>>)
    /\ mem' = Append(mem, Mark("finished", task.turn, "task"))
    /\ Resume
    /\ UNCHANGED <<current, turnIndex, editIndex, configured, previews>>

\* Mutant: no timeout around the wait for the task.
GraceAwaitsTask ==
    /\ loop = "grace" /\ task.st = "done"
    /\ mem' = disk[current]
    /\ Resume
    /\ UNCHANGED <<current, disk, turnIndex, editIndex, configured, previews, faults>>

\* The grace runs out: abort the task, persist_native_cancelled_turn, then
\* reload the log from disk (an unreadable file reads as an empty log).
GraceExpires ==
    /\ loop = "grace" /\ task.st = "running"
    /\ LET cancelled == IF HasFinished(mem, task.turn) THEN <<>>
                        ELSE <<Mark("finished", task.turn, "task")>>
       IN  \/ Written(cancelled) /\ mem' = disk'[current]
           \/ Unwritten /\ cancelled # <<>> /\ mem' \in {disk[current], <<>>}
           \/ /\ disk' = [disk EXCEPT ![current] = @ \o cancelled]
              /\ mem' = <<>> /\ Fault
    /\ Resume
    /\ UNCHANGED <<current, turnIndex, editIndex, configured, previews>>

\* The process dies, and what it had in memory with it.
Crash ==
    /\ Alive /\ stops < MaxStops
    /\ run' = "crashed" /\ stops' = stops + 1 /\ loop' = "select"
    /\ task' = NoTask /\ mem' = <<>> /\ previews' = {}
    /\ turnIndex' = 0 /\ editIndex' = 0 /\ configured' = FALSE
    /\ UNCHANGED <<current, disk, faults, blind>>

\* Adopting a log: at startup and in switch_native_session.
Adopt(s) ==
    /\ current' = s
    /\ mem' = disk[s]
    /\ turnIndex' = NextTurnIndex(disk[s])
    /\ editIndex' = turnIndex'
    /\ turnIndex' <= MaxIndex

\* load_native_session_log_for_runner: a file that cannot be read gives an empty
\* log, and the counter begins again below what the file holds.
AdoptUnread(s) ==
    /\ disk[s] # <<>> /\ Fault
    /\ current' = s /\ mem' = <<>>
    /\ turnIndex' = 0 /\ editIndex' = 0
    /\ blind' = TRUE

Restart ==
    /\ ~Alive /\ run' = "up"
    /\ \E s \in LogFiles :
          (Adopt(s) /\ UNCHANGED <<faults, blind>>) \/ AdoptUnread(s)
    /\ configured' \in BOOLEAN
    /\ previews' = {}
    /\ UNCHANGED <<disk, task, loop, stops>>

-----------------------------------------------------------------------------
(***************************************************************************)
(* Session switches, compaction and local edits.                           *)
(***************************************************************************)

\* SessionSelected and SessionPathSelected: refused while a turn is held; a
\* session that cannot be loaded leaves everything as it was.
SwitchSession(s) ==
    /\ Handles /\ Returns
    /\ Found.task.st = "none" /\ task' = NoTask
    /\ \/ Adopt(s) /\ UNCHANGED faults
       \/ /\ Fault
          /\ mem' = Found.mem
          /\ UNCHANGED <<current, turnIndex, editIndex>>
    /\ UNCHANGED <<run, disk, configured, previews, stops, blind>>

\* CompactionRequested: a turn index and a checkpoint of its own, inside the
\* handler.  A turn that finished since is still to be collected.
CompactSession ==
    /\ Handles /\ Returns /\ configured
    /\ ~Busy(Found.task) /\ task' = Found.task
    /\ Found.mem # <<>>
    /\ SpendIndex
    /\ Len(disk[current]) < MaxEvents
    /\ LET checkpoint == Mark("compaction", turnIndex, "loop")
       IN  \/ mem' = Append(Found.mem, checkpoint) /\ Written(<<checkpoint>>)
           \/ mem' = Append(Found.mem, checkpoint) /\ Unwritten
           \/ mem' = Found.mem /\ UNCHANGED <<disk, faults>>
    /\ UNCHANGED <<run, current, configured, previews, stops, blind>>

\* LocalEditPrepareRequested: the preview is pending only if its evidence was
\* written; a denied or invalid edit leaves evidence and no preview.
PrepareEdit ==
    /\ Handles /\ Returns
    /\ LET t == Larger(editIndex, turnIndex)
           edit == Mark("edit", t, "loop")
       IN  /\ t < MaxIndex
           /\ Cardinality(previews) < MaxPreviews
           /\ Len(disk[current]) < MaxEvents
           /\ editIndex' = t + 1
           /\ turnIndex' = Larger(turnIndex, t + 1)
           /\ \/ Written(<<edit>>) /\ previews' = previews \cup {[session |-> current, turn |-> t]}
              \/ Written(<<edit>>) /\ UNCHANGED previews
              \/ Unwritten /\ UNCHANGED previews
    /\ mem' = Found.mem /\ task' = Found.task
    /\ UNCHANGED <<run, current, configured, stops, blind>>

\* LocalEditDecisionSubmitted, applied or rejected: evidence under the
\* preview's session and turn, into the current session's file.  An apply
\* whose first write fails keeps the preview.
DecideEdit(p) ==
    /\ Handles /\ Returns
    /\ p \in previews
    /\ Len(disk[current]) < MaxEvents
    /\ LET edit == [kind |-> "edit", turn |-> p.turn, session |-> p.session, by |-> "loop"]
       IN  \/ Written(<<edit>>) /\ previews' = previews \ {p}
           \/ Unwritten /\ previews' \in {previews, previews \ {p}}
    /\ mem' = Found.mem /\ task' = Found.task
    /\ UNCHANGED <<run, current, turnIndex, editIndex, configured, stops, blind>>

TurnsNext ==
    \/ OtherEvent
    \/ \E s \in LogFiles : RefusePrompt(s) \/ SwitchSession(s)
    \/ StartTurn \/ DirectPrompt \/ ProviderChanges
    \/ TaskStep \/ TaskFinishes \/ TaskReturns \/ TaskReturnsLate \/ TaskPanics
    \/ CancelPrompt \/ CloseClient \/ TaskAnswers \/ GraceExpires
    \/ Crash \/ Restart
    \/ CompactSession \/ PrepareEdit
    \/ \E p \in previews : DecideEdit(p)

\* The runtime's timer ends the grace period, a closing loop exits, and a task that
\* has finished its turn has nothing left to wait for.
TurnsFairness ==
    WF_turnsVars(TaskAnswers) /\ WF_turnsVars(GraceExpires) /\ WF_turnsVars(TaskReturns)

TurnsSpec == TurnsInit /\ [][TurnsNext]_turnsVars /\ TurnsFairness

-----------------------------------------------------------------------------
(***************************************************************************)
(* Properties.                                                             *)
(***************************************************************************)

Finishes(s, t) == {i \in 1..Len(disk[s]) : disk[s][i].kind = "finished" /\ disk[s][i].turn = t}
Starts(s, t)   == {i \in 1..Len(disk[s]) : disk[s][i].kind = "user" /\ disk[s][i].turn = t}

\* A turn ends at most once in its session file, and only after it started,
\* however its own end, the cancel, the abort and the shutdown race.
TurnEndsOnce ==
    \A s \in LogFiles, t \in Indices :
      /\ Cardinality(Finishes(s, t)) <= 1
      /\ (faults = 0 /\ Finishes(s, t) # {}) =>
            \E i \in Starts(s, t) : \A j \in Finishes(s, t) : i < j

\* A prompt shares its turn index with no other prompt, compaction or local
\* edit of its session, across switches away and back, restarts, refused
\* prompts and writes that failed.
TurnIndexUnique ==
    \A s \in LogFiles : \A i, j \in 1..Len(disk[s]) :
      /\ disk[s][i].kind = "user"
      /\ disk[s][j].kind \in {"user", "compaction", "edit"}
      /\ disk[s][j].session = s
      /\ disk[s][i].turn = disk[s][j].turn
      => i = j

\* The two together: a turn of a session file is one prompt's and ends once, as
\* long as every process could read the log it started on.  One that could not
\* counts from 0 again and appends to that file (runner/session_state.rs:505-535):
\* then indices, and with them ends, meet those of earlier turns.
TurnsStayApart == ~blind => TurnEndsOnce /\ TurnIndexUnique

\* While nothing failed, the loop never forgets a turn: every turn in the
\* current file has ended or is the one the loop still holds, and what a turn
\* task recorded is in the log the next prompt is built from.
LoopKeepsTurns ==
    (run = "up" /\ faults = 0 /\ stops = 0) =>
      \A e \in EventsOf(disk[current]) :
        e.by = "task" =>
          \/ task.st # "none" /\ task.turn = e.turn
          \/ Finishes(current, e.turn) # {} /\ e \in EventsOf(mem)

\* runner.rs:1505: "a shutdown never detaches a running turn or loses its
\* cancelled-turn session record": after a clean exit, every turn of every
\* session file has ended.
ShutdownEndsTurn ==
    (run = "exited" /\ faults = 0 /\ stops = 1) =>
      \A s \in LogFiles : \A e \in EventsOf(disk[s]) :
        e.kind = "user" => Finishes(s, e.turn) # {}

\* A cancel or a shutdown is never stuck behind a task that does not answer: the loop
\* always leaves the grace period again, and then selects.
CancelReturns == []<>(loop # "grace")

\* What a finished turn recorded reaches the loop's log, whatever the loop is doing
\* when the turn returns (collect_finished_provider_turn).
LogIsAdopted ==
    [][(task.st = "done" /\ task'.st # "done" /\ run' = "up" /\ current' = current) =>
         \A e \in EventsOf(task.log) \cap EventsOf(disk[current]) : e \in EventsOf(mem')]_turnsVars

\* A prompt sent after PromptFinished is not refused as one too many.
FinishedMeansFree ==
    [][(turnIndex' > turnIndex /\ task.st = "finishing" /\ configured) => disk' # disk]_turnsVars

\* docs/project/specs/2026-05-15-native-edit-local-access-design.md:273:
\* "preview IDs are session-scoped and short-lived": the evidence of an edit is
\* in the file of the session it belongs to.
PreviewsAreSessionScoped ==
    \A s \in LogFiles : \A e \in EventsOf(disk[s]) : e.session = s
=============================================================================
