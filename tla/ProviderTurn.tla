----------------------------- MODULE ProviderTurn -----------------------------
(***************************************************************************)
(* One turn's requests to the provider and what the client shows of them   *)
(* (crates/yach-backend/src/runner.rs, rig_adapter.rs; the TUI's app.rs    *)
(* and transcript.rs).  A turn is a series of rounds; a round is one       *)
(* request, made in up to three attempts.  An attempt streams its text to  *)
(* the client while it runs, so an attempt that breaks off leaves text on  *)
(* the screen that a later attempt continues (prefix resume) or that has   *)
(* to be retracted first (PromptAttemptReset).  Around it: the user        *)
(* cancelling, rows of other origin landing in the transcript, compaction  *)
(* between rounds, the client going away, the loop aborting the task.      *)
(*                                                                         *)
(* Text is a sequence of chunks, each the number of the attempt that       *)
(* produced it; 0 is the blank line that joins two rounds.  A chunk counts *)
(* as one byte of a reset, and no chunk is blank or ends in white space.   *)
(* The provider is external: it may answer, stop or fail at any point.     *)
(***************************************************************************)
EXTENDS Integers, Sequences, FiniteSets

CONSTANTS
    MaxText,        \* bound on the deltas of one attempt
    MaxCalls,       \* bound on the tool calls of one attempt
    MaxTotalCalls,  \* max_total_tool_calls
    MaxFailures,    \* bound on the provider failures of one turn
    MaxCompactions, \* MID_TURN_COMPACTIONS_MAX
    MaxNotices,     \* bound on the rows of other origin
    MaxWire,        \* bound on the events on their way to the client
    DelayBudget,    \* PROVIDER_RETRY_DELAY_BUDGET_MS
    RetryAfters     \* the waits a provider may ask for with a failure

ASSUME TurnAssumption ==
    /\ MaxText \in Nat /\ MaxCalls \in Nat /\ MaxTotalCalls \in Nat
    /\ MaxFailures \in Nat /\ MaxCompactions \in Nat /\ MaxNotices \in Nat
    /\ MaxWire \in Nat \ {0}
    /\ DelayBudget \in Nat /\ RetryAfters \subseteq Nat

\* PROVIDER_RETRY_DELAYS_MS, in seconds.
Delays == <<1, 2>>

VARIABLES
    negotiated, \* did the client negotiate Capability::PromptAttemptReset?
    resumes,    \* does the provider continue from a prefix (supports_prefix_resume)?
    pc,         \* where the turn's task is
    cancelled,  \* the turn's cancellation token
    seq,        \* attempt_sequence
    req,        \* the request being made: see NewRequest
    att,        \* the attempt in flight: see NewAttempt
    turn,       \* what the turn remembers across rounds
    started,    \* the attempts begun
    settled,    \* the ProviderAttemptFinished events, in order
    result,     \* how the turn was recorded
    wire,       \* the events on their way to the client
    open,       \* does the client still receive?
    ui,         \* the client: stream state, last sequence seen, transcript rows
    asked,      \* PromptCancelled is sent
    failures, notices,  \* ghosts: how many happened
    dropped,    \* ghost: the attempts given up, but for
    late        \* ghost: those whose text is left standing, as their request was found
                \* too long and is made again

task   == <<pc, seq, req, att, turn, started, settled, result, dropped, late>>
client == <<ui, asked, notices>>
vars   == <<negotiated, resumes, cancelled, task, client, wire, open, failures>>

NewRequest == [retry |-> 0, spent |-> 0, prefix |-> <<>>, streamed |-> FALSE,
               delay |-> 0, discard |-> 0]
NewAttempt == [text |-> <<>>, live |-> 0, calls |-> 0, partial |-> 0, done |-> FALSE]
NewTurn    == [mid |-> <<>>, initial |-> TRUE, overflow |-> FALSE, nudged |-> FALSE,
               compactions |-> 0, calls |-> 0]
NoResult   == [outcome |-> "none", text |-> <<>>]

TextRow(c) == [kind |-> "text", chunk |-> c]
OtherRow   == [kind |-> "other", chunk |-> 0]
Delta(c)   == [kind |-> "delta", seq |-> c, count |-> 0]
Reset(s, n) == [kind |-> "reset", seq |-> s, count |-> n]
ToolCall   == [kind |-> "tool", seq |-> 0, count |-> 0]
Finished(outcome) == [kind |-> outcome, seq |-> 0, count |-> 0]

Errors   == {"transient", "context", "fatal"}
Outcomes == {"completed", "failed", "cancelled"}

TypeOK ==
    /\ negotiated \in BOOLEAN /\ resumes \in BOOLEAN /\ cancelled \in BOOLEAN
    /\ pc \in {"start", "round", "attempt", "delay", "tools", "running",
               "pre", "overflow", "mid", "ended"}
    /\ seq \in Nat
    /\ req \in [retry : 0..Len(Delays), spent : Nat, prefix : Seq(1..seq),
                streamed : BOOLEAN, delay : Nat, discard : 0..MaxText]
    /\ att \in [text : Seq(1..seq), live : 0..MaxText, calls : 0..MaxCalls,
                partial : 0..1, done : BOOLEAN]
    /\ turn \in [mid : Seq(0..seq), initial : BOOLEAN, overflow : BOOLEAN,
                 nudged : BOOLEAN, compactions : 0..MaxCompactions,
                 calls : 0..MaxTotalCalls]
    /\ started \subseteq 1..seq /\ dropped \subseteq started /\ late \subseteq started
    /\ settled \in Seq(started)
    /\ result \in [outcome : Outcomes \cup {"none"}, text : Seq(0..seq)]
    /\ wire \in Seq([kind : {"delta", "reset", "tool"} \cup Outcomes,
                     seq : 0..seq, count : 0..MaxText])
    /\ open \in BOOLEAN /\ asked \in BOOLEAN
    /\ ui \in [st : {"idle", "streaming", "cancelled", "desync", "gone"},
               seen : 0..seq,
               rows : Seq([kind : {"text", "other"}, chunk : 0..seq])]
    /\ failures \in 0..MaxFailures /\ notices \in 0..MaxNotices

Init ==
    /\ negotiated \in BOOLEAN /\ resumes \in BOOLEAN
    /\ pc = "start" /\ cancelled = FALSE /\ seq = 0
    /\ req = NewRequest /\ att = NewAttempt
    /\ turn = NewTurn
    /\ started = {} /\ settled = <<>> /\ result = NoResult
    /\ wire = <<>> /\ open = TRUE
    /\ ui = [st |-> "streaming", seen |-> 0, rows |-> <<>>]
    /\ asked = FALSE /\ failures = 0 /\ notices = 0 /\ dropped = {} /\ late = {}

-----------------------------------------------------------------------------
(***************************************************************************)
(* What the turn's task does when it gets somewhere.                       *)
(***************************************************************************)

Fixed == UNCHANGED <<negotiated, resumes, cancelled, open, client>>

\* review_tx.send, to a client that may be gone.
Send(messages) ==
    /\ wire' = IF open THEN wire \o messages ELSE wire
    /\ Len(wire) < MaxWire \/ wire' = wire

\* The turn is recorded and the client told (finish_native_prompt).
End(outcome, text, messages) ==
    /\ pc' = "ended"
    /\ result' = [outcome |-> outcome, text |-> text]
    /\ req' = NewRequest /\ att' = NewAttempt /\ turn' = NewTurn
    /\ Send(messages \o <<Finished(outcome)>>)

Stop(outcome) ==
    /\ End(outcome, <<>>, <<>>)
    /\ UNCHANGED <<seq, started>>

\* Mutant: an attempt that fails is recorded again when its retry is settled.
SettleOnReturn == settled' = settled \o [i \in 1..(1 + req.retry) |-> seq]

\* settle_attempt
Settle == settled' = Append(settled, seq)

\* The next attempt starts: its sequence number is taken just before.
Start == seq' = seq + 1 /\ started' = started \cup {seq + 1} /\ att' = NewAttempt

\* The request failed for good: the turn's first request, if it was too long,
\* is made once more over a compacted log.
GiveUp(error) ==
    IF error = "context" /\ turn.initial /\ ~turn.overflow
    THEN /\ pc' = "overflow"
         /\ turn' = [turn EXCEPT !.overflow = TRUE]
         /\ late' = late \cup {(req.prefix \o att.text)[i] : i \in 1..Len(req.prefix \o att.text)}
         /\ att' = NewAttempt
         /\ UNCHANGED <<seq, req, started, result, wire, dropped>>
    ELSE Stop("failed") /\ dropped' = dropped \cup {seq} /\ UNCHANGED late

\* provider_retry_delay_ms: may a request that failed so be tried again?
Allowed(retry, spent, error, delay) ==
    retry < Len(Delays) /\ error = "transient" /\ delay <= DelayBudget - spent

DelayOf(retry, after) ==
    IF retry < Len(Delays) /\ Delays[retry + 1] > after THEN Delays[retry + 1] ELSE after

\* A failed attempt is settled and either another one is scheduled, with the
\* text of this one kept as its prefix, retracted or never shown, or the
\* request fails.
Retry(error, after, kept, discard) ==
    LET delay == DelayOf(req.retry, after) IN
    IF Allowed(req.retry, req.spent, error, delay)
    THEN /\ pc' = "delay"
         /\ req' = [req EXCEPT !.prefix = IF kept THEN @ \o att.text ELSE @,
                               !.delay = delay, !.discard = discard]
         /\ dropped' = IF kept THEN dropped ELSE dropped \cup {seq}
         /\ UNCHANGED late
         /\ att' = NewAttempt
         /\ UNCHANGED <<seq, turn, started, result, wire>>
    ELSE GiveUp(error)

\* The text of a round that asked for tools, on its way into the narrative.
Joined(text) == IF text = <<>> THEN <<>> ELSE Append(text, 0)

Deltas(text) == [i \in 1..Len(text) |-> Delta(text[i])]

\* Mutant: a round that streamed is burst again.
UnshownAlways(text) == Deltas(text)

\* What of a round's text the client has not been sent yet.
Unshown(text) == IF req.streamed THEN <<>> ELSE Deltas(text)

\* A contentless response is answered, once, with a request for the answer.
Nudge ==
    /\ pc' = "round" /\ att' = NewAttempt
    /\ turn' = [turn EXCEPT !.nudged = TRUE, !.initial = FALSE]
    /\ UNCHANGED <<req, result, wire>>

\* The final round: the turn is recorded as the narrative and this text.
Answer(text) ==
    IF ~open /\ (turn.mid \o text = <<>> \/ (text # <<>> /\ ~req.streamed))
    THEN End("cancelled", <<>>, <<>>)
    ELSE End("completed", turn.mid \o text, Unshown(text))

\* A round that asked for tools.
AskTools(text) ==
    /\ pc' = "tools"
    /\ turn' = [turn EXCEPT !.mid = @ \o Joined(text)]
    /\ Send(IF text = <<>> THEN <<>> ELSE Append(Unshown(text), Delta(0)))
    /\ att' = [NewAttempt EXCEPT !.calls = att.calls, !.partial = att.partial]
    /\ UNCHANGED <<req, result>>

\* collect_native_provider_first_round and what the turn does with the round.
Conclude(text, calls) ==
    /\ UNCHANGED <<seq, started, dropped, late>>
    /\ \/ calls > 0 /\ AskTools(text)
       \/ /\ calls = 0
          /\ IF turn.mid \o text = <<>> /\ ~turn.nudged THEN Nudge ELSE Answer(text)

-----------------------------------------------------------------------------
(***************************************************************************)
(* Requests and attempts.  The attempt and the wait between attempts are   *)
(* polled behind the cancellation token (a biased select), so neither      *)
(* makes a step once the token is cancelled.                               *)
(***************************************************************************)

\* Before the first request: the log may be over the compaction threshold.
StartTurn ==
    /\ pc = "start" /\ Fixed
    /\ pc' \in {"round", "pre"}
    /\ UNCHANGED <<seq, req, att, turn, started, settled, result, dropped, late,
                   wire, failures>>

\* The top of the turn's loop.
BeginRequest ==
    /\ pc = "round" /\ Fixed
    /\ UNCHANGED <<settled, dropped, late, failures>>
    /\ \/ /\ cancelled
          /\ Stop("cancelled")
       \/ /\ ~cancelled
          /\ Start /\ req' = NewRequest /\ pc' = "attempt"
          /\ UNCHANGED <<turn, result, wire>>

Streaming == pc = "attempt" /\ ~cancelled

\* A text delta is collected and forwarded at once.
StreamText ==
    /\ Streaming /\ ~att.done /\ Len(att.text) < MaxText /\ Fixed
    /\ att' = [att EXCEPT !.text = Append(@, seq), !.live = @ + (IF open THEN 1 ELSE 0)]
    /\ req' = [req EXCEPT !.streamed = @ \/ open]
    /\ Send(<<Delta(seq)>>)
    /\ UNCHANGED <<pc, seq, turn, started, settled, result, dropped, late, failures>>

\* Part of a tool call, or a whole one, which may be the one begun.
StreamToolCall ==
    /\ Streaming /\ ~att.done /\ Fixed
    /\ \/ att.partial = 0 /\ att' = [att EXCEPT !.partial = 1]
       \/ \E left \in 0..att.partial :
             /\ att.calls < MaxCalls
             /\ att' = [att EXCEPT !.calls = @ + 1, !.partial = left]
    /\ UNCHANGED <<pc, seq, req, turn, started, settled, result, dropped, late, wire,
                   failures>>

\* The provider's final item, with every tool call complete.
StreamFinal ==
    /\ Streaming /\ ~att.done /\ att.partial = 0 /\ Fixed
    /\ att' = [att EXCEPT !.done = TRUE]
    /\ UNCHANGED <<pc, seq, req, turn, started, settled, result, dropped, late, wire,
                   failures>>

\* The stream ends after its final item and the round is collected.
EndStream ==
    /\ Streaming /\ att.done /\ Fixed
    /\ Settle
    /\ Conclude(req.prefix \o att.text, att.calls)
    /\ UNCHANGED failures

Failure == failures < MaxFailures /\ failures' = failures + 1

\* The stream ends without a final item, names a tool that was not offered,
\* leaves a tool call open or carries a raw output that does not match its text.
EndMalformed ==
    /\ Streaming /\ Fixed
    /\ Settle
    /\ dropped' = dropped \cup {seq}
    /\ Stop("failed")
    /\ UNCHANGED <<late, failures>>

\* The bytes of the failed attempt that a replacement has to retract first.
Discarded(kept) == IF kept THEN 0 ELSE att.live

\* tool_round_complete: are the calls of a stream that broke off usable?
CallsUsable(error) == att.partial = 0 /\ error = "transient"

\* The stream breaks off or times out (ProviderStreamAttempt::Partial).
BreakStream(error, after) ==
    LET kept == resumes /\ att.text # <<>> IN
    /\ Streaming /\ Failure /\ Fixed
    /\ Settle
    /\ IF att.done \/ (att.calls > 0 /\ CallsUsable(error))
       THEN Conclude(req.prefix \o att.text, att.calls)
       ELSE IF att.calls > 0 \/ (Discarded(kept) > 0 /\ ~negotiated)
       THEN GiveUp(error)
       ELSE Retry(error, after, kept, Discarded(kept))

\* The request is refused before anything is streamed.
Refuse(error, after) ==
    /\ Streaming /\ att = NewAttempt /\ Failure /\ Fixed
    /\ Settle
    /\ Retry(error, after, FALSE, 0)

\* The number a reset carries: that of the replacement attempt.
ResetSequence == seq + 1

\* The wait between two attempts ended without a cancellation.
Waited == pc = "delay" /\ ~cancelled

\* The wait is over: the reset, if text is to be retracted, and the next attempt.
BeginRetry ==
    /\ Waited /\ Fixed
    /\ UNCHANGED <<dropped, late, settled, failures>>
    /\ \/ /\ req.discard > 0 /\ ~open
          /\ Stop("cancelled")
       \/ /\ req.discard = 0 \/ open
          /\ Start
          /\ req' = [req EXCEPT !.retry = @ + 1, !.spent = @ + req.delay,
                                !.delay = 0, !.discard = 0]
          /\ Send(IF req.discard = 0 THEN <<>> ELSE <<Reset(ResetSequence, req.discard)>>)
          /\ pc' = "attempt"
          /\ UNCHANGED <<turn, result>>

\* The token is seen cancelled, in an attempt (which is settled) or in the wait.
NoticeCancel ==
    /\ pc \in {"attempt", "delay"} /\ cancelled /\ Fixed
    /\ IF pc = "attempt" THEN Settle ELSE UNCHANGED settled
    /\ Stop("cancelled")
    /\ UNCHANGED <<dropped, late, failures>>

-----------------------------------------------------------------------------
(***************************************************************************)
(* Tools and compaction, between two requests.                             *)
(***************************************************************************)

\* begin_tool_round: the calls of one turn are limited.
OverBudget == turn.calls + att.calls > MaxTotalCalls

\* execute_native_provider_agent_tool_batch, up to its first await.
BeginTools ==
    /\ pc = "tools" /\ Fixed
    /\ UNCHANGED <<seq, started, settled, dropped, late, failures>>
    /\ \/ cancelled /\ Stop("cancelled")
       \/ ~cancelled /\ OverBudget /\ Stop("failed")
       \/ ~cancelled /\ ~OverBudget /\ ~open /\ Stop("cancelled")
       \/ /\ ~cancelled /\ ~OverBudget /\ open
          /\ pc' = "running"
          /\ turn' = [turn EXCEPT !.calls = @ + att.calls]
          /\ Send(<<ToolCall>>)
          /\ att' = NewAttempt
          /\ UNCHANGED <<req, result>>

\* The batch ends: with results for the next request, which may be over the
\* compaction threshold, or with an error that ends the turn.
EndTools ==
    /\ pc = "running" /\ Fixed
    /\ UNCHANGED <<settled, dropped, late, failures>>
    /\ \/ /\ ~cancelled
          /\ \/ pc' = "round" \/ (pc' = "mid" /\ turn.compactions < MaxCompactions)
          /\ turn' = [turn EXCEPT !.initial = FALSE]
          /\ UNCHANGED <<seq, req, att, started, result, wire>>
       \/ ~cancelled /\ Stop("failed")
       \/ cancelled /\ Stop("cancelled")

\* run_compaction made an attempt of its own, which takes a sequence number and
\* is settled but shows the client nothing (before the first request, where
\* nothing precedes it, the number is left out).
Compacted ==
    IF pc = "pre" THEN UNCHANGED <<seq, started, settled>>
    ELSE /\ seq' = seq + 1 /\ started' = started \cup {seq + 1}
         /\ settled' = Append(settled, seq + 1)

\* Compaction before the first request, after one that was too long and between
\* two rounds; a log that still does not fit ends the turn, and so does a first
\* request that stays too long.
Compact ==
    /\ pc \in {"pre", "overflow", "mid"} /\ Fixed
    /\ UNCHANGED <<dropped, late, failures>>
    /\ \/ cancelled /\ Stop("cancelled") /\ UNCHANGED settled
       \/ /\ ~cancelled /\ pc # "overflow" /\ pc' = "round"
          /\ UNCHANGED <<seq, req, att, turn, started, settled, result, wire>>
       \/ ~cancelled /\ pc = "overflow" /\ Stop("failed") /\ UNCHANGED settled
       \/ /\ ~cancelled /\ Compacted /\ pc' = "round"
          /\ turn' = [turn EXCEPT !.compactions = @ + (IF pc = "mid" THEN 1 ELSE 0)]
          /\ UNCHANGED <<req, att, result, wire>>
       \/ /\ ~cancelled /\ Compacted /\ pc # "overflow"
          /\ End("failed", <<>>, <<>>)

\* The loop cancels the token of the turn the client asked to cancel.
CancelTurn ==
    /\ asked /\ ~cancelled /\ pc # "ended"
    /\ cancelled' = TRUE
    /\ UNCHANGED <<negotiated, resumes, task, client, wire, open, failures>>

\* The task has not ended in time: the loop aborts it and records the turn.
GraceExpires ==
    /\ cancelled /\ pc # "ended" /\ Fixed
    /\ Stop("cancelled")
    /\ UNCHANGED <<settled, dropped, late, failures>>

-----------------------------------------------------------------------------
(***************************************************************************)
(* The client (yach-ui).                                                   *)
(***************************************************************************)

Show(row) == ui' = [ui EXCEPT !.rows = Append(@, row)]

Ignores == ui.st \in {"cancelled", "desync"}

\* PromptDelta
TakeDelta(m) ==
    IF Ignores THEN UNCHANGED ui
    ELSE ui' = [ui EXCEPT !.rows = Append(@, TextRow(m.seq)), !.st = "streaming"]

\* Mutant: rows of other origin do not stop the retraction.
TrailingAny(rows, n) == n <= Len(rows)

\* truncate_assistant_suffix_bytes: do the last rows hold so much text?
Trailing(rows, n) ==
    n <= Len(rows) /\ \A i \in (Len(rows) - n + 1)..Len(rows) : rows[i].kind = "text"

\* accept_prompt_attempt_sequence
Newer(seen, s) == s > seen

\* PromptAttemptReset: the text is retracted exactly, or nothing more of the
\* prompt is shown and it is cancelled.
TakeReset(m) ==
    IF ui.st # "streaming" THEN UNCHANGED <<ui, asked>>
    ELSE IF Newer(ui.seen, m.seq) /\ Trailing(ui.rows, m.count)
    THEN /\ ui' = [ui EXCEPT !.seen = m.seq,
                             !.rows = SubSeq(@, 1, Len(@) - m.count)]
         /\ UNCHANGED asked
    ELSE ui' = [ui EXCEPT !.st = "desync"] /\ asked' = TRUE

\* Mutant: only a streaming prompt is finished.
TakeFinishedStreaming(m) ==
    ui' = IF ui.st = "streaming" THEN [ui EXCEPT !.st = "idle"] ELSE ui

\* The turn_end status and PromptFinished that follow each other.
TakeFinished(m) ==
    ui' = [ui EXCEPT !.st = "idle",
                     !.rows = IF m.kind = "completed" \/ ui.st = "desync" THEN @
                              ELSE Append(@, OtherRow)]

\* The client handles the next event.
Receive ==
    /\ wire # <<>> /\ wire' = Tail(wire)
    /\ LET m == Head(wire) IN
       \/ m.kind = "delta" /\ TakeDelta(m) /\ UNCHANGED asked
       \/ m.kind = "reset" /\ TakeReset(m)
       \/ /\ m.kind = "tool" /\ UNCHANGED asked
          /\ IF Ignores THEN UNCHANGED ui ELSE Show(OtherRow)
       \/ m.kind \in Outcomes /\ TakeFinished(m) /\ UNCHANGED asked
    /\ UNCHANGED <<negotiated, resumes, cancelled, task, open, notices, failures>>

\* The user cancels what is streaming (cancel_streaming_prompt).
UserCancels ==
    /\ ui.st = "streaming"
    /\ ui' = [ui EXCEPT !.st = "cancelled"] /\ asked' = TRUE
    /\ UNCHANGED <<negotiated, resumes, cancelled, task, wire, open, notices, failures>>

\* A row of other origin: an extension's diagnostics, an assumed context window.
Notice ==
    /\ notices < MaxNotices /\ ui.st = "streaming"
    /\ notices' = notices + 1 /\ Show(OtherRow)
    /\ UNCHANGED <<negotiated, resumes, cancelled, task, asked, wire, open, failures>>

\* The client's end of the channel is dropped.
ClientLeaves ==
    /\ open /\ pc # "ended"
    /\ open' = FALSE /\ wire' = <<>> /\ ui' = [st |-> "gone", seen |-> 0, rows |-> <<>>]
    /\ UNCHANGED <<negotiated, resumes, cancelled, task, asked, notices, failures>>

\* The turn is over and everything about it delivered.
Over ==
    pc = "ended" /\ wire = <<>> /\ UNCHANGED vars

-----------------------------------------------------------------------------
TaskStep == StartTurn \/ BeginRequest \/ BeginRetry \/ NoticeCancel \/ BeginTools
            \/ EndTools \/ Compact

Next ==
    \/ TaskStep
    \/ StreamText \/ StreamToolCall \/ StreamFinal \/ EndStream \/ EndMalformed
    \/ \E error \in Errors, after \in RetryAfters :
          BreakStream(error, after) \/ Refuse(error, after)
    \/ CancelTurn \/ GraceExpires
    \/ Receive \/ UserCancels \/ Notice \/ ClientLeaves
    \/ Over

\* The task is polled when it can go on, the loop takes the client's events and
\* the client takes the backend's; the provider owes nothing, and the loop's
\* grace timer is not needed.
Spec == Init /\ [][Next]_vars
        /\ WF_vars(TaskStep) /\ WF_vars(CancelTurn) /\ WF_vars(Receive)

-----------------------------------------------------------------------------
(***************************************************************************)
(* Properties.                                                             *)
(***************************************************************************)

TextRows(rows) == SelectSeq(rows, LAMBDA r : r.kind = "text")
Shown == [i \in 1..Len(TextRows(ui.rows)) |-> TextRows(ui.rows)[i].chunk]

\* A turn that completed, with a client that followed it to the end, shows the
\* text the session log records, whatever attempts broke off on the way: "resume
\* matches what the live transcript showed" (handle_native_provider_prompt).
ShownAnyway ==
    (result.outcome = "completed" /\ ui.st = "idle" /\ ~asked) => Shown = result.text

\* So it is, unless a request was found too long after text of it was shown: that
\* text is left standing, and is not recorded (runner.rs:5506, 6591-6620).
ShownIsRecorded == late = {} => ShownAnyway

\* Text of a later attempt is never appended below text of a discarded one, in
\* a client that keeps showing the prompt: a reset precedes it or the client
\* stops (handle_prompt_attempt_reset, truncate_assistant_suffix_bytes).  Text
\* that is left standing as its request is made again (late) is excepted.
NeverMixed ==
    \A i, j \in 1..Len(ui.rows) :
        (/\ i < j /\ ui.rows[i].kind = "text" /\ ui.rows[j].kind = "text"
         /\ ui.rows[i].chunk \in dropped) => ui.rows[j].chunk <= ui.rows[i].chunk

\* Sequence numbers of one turn name one attempt each, in the order they were
\* settled, and no attempt is left unsettled but the one in flight or the one
\* the loop aborted with the task (provider_request_with_retry_context,
\* run_compaction_with_sequence).
SettledOnce ==
    /\ \A i, j \in 1..Len(settled) : i < j => settled[i] < settled[j]
    /\ \A s \in started : (s = seq /\ (pc = "attempt" \/ cancelled))
                          \/ \E i \in 1..Len(settled) : settled[i] = s

\* The waits of one request stay within the budget, whatever wait a failing provider asks for (provider_retry_delay_ms).
WithinBudget ==
    req.spent + req.delay <= DelayBudget

\* The tools a round asked for are run only when every call it began is whole,
\* also when the stream broke off after them (tool_round_complete).
ToolsAreWhole == pc = "tools" => att.partial = 0

\* A reset is refused only for a row of other origin below the text it retracts:
\* its count and its sequence number are always right
\* (discarded_utf8_bytes, accept_prompt_attempt_sequence).
ResetsApply == ui.st = "desync" => notices > 0

\* The two together: what a broken-off attempt has shown is retracted whole
\* before anything else is shown, or the client stops showing the prompt.
TranscriptIsClean == NeverMixed /\ ResetsApply

\* Once the token is cancelled no attempt starts and no reset is sent
\* (the biased select of provider_request_with_retry_context).
CancelStartsNothing ==
    [][cancelled => /\ started' = started
                    /\ \A i \in 1..Len(wire') : wire'[i].kind = "reset" =>
                          \E j \in 1..Len(wire) : wire[j] = wire'[i]]_vars

\* A client that asked for the cancellation, its user or a reset it could not
\* apply, and any client whose turn has ended, is told so and is ready again,
\* without the loop's abort (provider_request_with_retry_context, PromptFinished).
CancelSettlesClient == (asked \/ pc = "ended") ~> ui.st \in {"idle", "gone"}
=============================================================================
