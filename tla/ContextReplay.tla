----------------------------- MODULE ContextReplay -----------------------------
(***************************************************************************)
(* What a provider is told of the session (crates/yach-backend/src:         *)
(* compaction.rs, responses_replay.rs and the runner's turn rounds).  A      *)
(* request is rebuilt from the log: the newest checkpoint's summary and the  *)
(* events kept after it (the portable context).  An OpenAI Responses model   *)
(* that can compact gets instead the opaque window its last compaction       *)
(* returned, followed by what happened since: the replay chain, which is     *)
(* kept in memory across turns and says up to which event of the log it goes *)
(* (synced_event_count).                                                     *)
(*                                                                         *)
(* The turn's task owns a copy of the log; the loop appends to its own copy  *)
(* and to the file in the meantime, and adopts the task's copy, or reads the *)
(* file again after it had to abort the task.                                *)
(*                                                                         *)
(* Text is abstracted to facts: the prompt of a turn, a tool call with its   *)
(* result, the turn's answer, the nudge for an empty answer.  An item of a   *)
(* request is the set of facts it stands for, a summary and a window the set *)
(* of all they fold.  A round has one call and no text of its own; a size    *)
(* is not counted, so that every budget is possible.  Metrics, attempts and  *)
(* permission records are left out of the log.                               *)
(***************************************************************************)
EXTENDS Integers, Sequences, FiniteSets, SequencesExt

CONSTANTS
    ReplayModels,   \* the models the user can choose
    FirstModels,    \* those the session may start with
    OpenAi,         \* those of an OpenAI Responses connection
    Capable,        \* those whose catalog entry has responses_compact
    MaxReplayTurns, \* bound on turns
    MaxRounds,      \* bound on the tool rounds of a turn
    MaxUpsets       \* bound on what disturbs the plain course: a compaction, a model
                    \* choice, an event the loop logs itself, an abort, a session
                    \* opened again, a failed append, a malformed round, a log that
                    \* is not adopted

ASSUME ReplayAssumption ==
    /\ Capable \subseteq OpenAi /\ OpenAi \subseteq ReplayModels
    /\ FirstModels \subseteq ReplayModels
    /\ \A b \in {MaxReplayTurns, MaxRounds, MaxUpsets} : b \in Nat

VARIABLES
    provider,   \* the loop's provider: [model, capable]
    slog,       \* session_log, the loop's copy
    stored,     \* the events in the session's file
    chain,      \* NativeReplayStoreState
    job,        \* the turn's task
    nextTurn,   \* turn_index
    skewed,     \* ghost: the loop took up another log than the chain was counted in
    upsets      \* ghost: how much of MaxUpsets is spent

replayVars == <<provider, slog, stored, chain, job, nextTurn, skewed, upsets>>

-----------------------------------------------------------------------------
(***************************************************************************)
(* The log and the portable context.                                        *)
(***************************************************************************)

Prompt(t)  == <<"prompt", t>>
Tool(t, r) == <<"tool", t, r>>
Answer(t)  == <<"answer", t>>
Nudge(t)   == <<"nudge", t>>

User(t)      == [k |-> "user", t |-> t]
Call(t, r)   == [k |-> "call", t |-> t, r |-> r]
Result(t, r) == [k |-> "result", t |-> t, r |-> r]
Assistant(t) == [k |-> "assistant", t |-> t]
Fin(t, o)    == [k |-> "fin", t |-> t, outcome |-> o]
Mask(t, r)   == [k |-> "mask", t |-> t, r |-> r]
Note         == [k |-> "note"]

IsEntry(e) == e.k \in {"user", "assistant"}

\* Indices of a log's events of a kind, and the last, first and n-th of a set of indices.
Of(log, kind) == {i \in DOMAIN log : log[i].k = kind}
Last0(is)     == IF is = {} THEN 0 ELSE CHOOSE i \in is : \A j \in is : j <= i
First(is)     == CHOOSE i \in is : \A j \in is : i <= j
Nth(is, n)    == CHOOSE i \in is : Cardinality({j \in is : j <= i}) = n

\* newest_compaction_checkpoint: its index (0 if there is none), what its summary
\* folds, and where the kept events begin: at the entry it names.
Newest(log) == Last0(Of(log, "checkpoint"))
SummaryOf(log) == IF Newest(log) = 0 THEN {} ELSE log[Newest(log)].summary
KeptFrom(log) ==
    IF Newest(log) = 0 THEN 1
    ELSE LET named == {i \in DOMAIN log : log[i] = log[Newest(log)].kept}
         IN IF named = {} THEN Newest(log) + 1 ELSE First(named)

Ended(log, t, outcomes) == \E i \in Of(log, "fin") : log[i].t = t /\ log[i].outcome \in outcomes
Entries(log, t)   == {u \in 0..MaxReplayTurns : u = t \/ Ended(log, u, {"completed"})}
ToolTurns(log, t) == {u \in 0..MaxReplayTurns :
                        u = t \/ Ended(log, u, {"completed", "stopped"})}

\* provider_messages_from_event_slice: one item per entry of the current or of a
\* completed turn, and per call with its result, both in the slice, of a turn
\* that is current or over.
FactOf(e) == CASE e.k = "user"      -> Prompt(e.t)
               [] e.k = "assistant" -> Answer(e.t)
               [] e.k = "result"    -> Tool(e.t, e.r)

Items(log, from, t) ==
    LET slice    == {i \in DOMAIN log : i >= from}
        entries  == Entries(log, t)
        tools    == ToolTurns(log, t)
        Shown(e) == \/ IsEntry(e) /\ e.t \in entries
                    \/ /\ e.k = "result" /\ e.t \in tools
                       /\ \E j \in slice : log[j] = Call(e.t, e.r)
        shown    == {i \in slice : Shown(log[i])}
    IN [n \in 1..Cardinality(shown) |-> {FactOf(log[Nth(shown, n)])}]

\* provider_messages_from_log without its first message, the summary: a system
\* message, which the native path carries in its instructions.
Kept(log, t) == Items(log, KeptFrom(log), t)

Facts(items) == UNION {items[i] : i \in DOMAIN items}

\* select_compaction_cut: the kept tail begins at the first prompt at or after
\* where the budget ends, else at the first entry; the last entry is always kept.
\* 0 when nothing would be folded.
Cut(log, budget) ==
    LET from    == KeptFrom(log)
        entries == {i \in from..Len(log) : IsEntry(log[i])}
        start   == IF \E i \in entries : i >= budget THEN budget ELSE Last0(entries)
        after   == {i \in entries : i >= start}
        users   == {i \in after : log[i].k = "user"}
        cut     == IF users # {} THEN First(users) ELSE First(after)
    IN IF entries = {} \/ budget = from \/ cut = from THEN 0 ELSE cut

\* serialize_events_for_summary: what is folded, whatever became of the turn.
Folded(log, from, to) ==
    {FactOf(log[i]) : i \in {j \in from..to : IsEntry(log[j]) \/ log[j].k = "result"}}

\* select_mask_candidates: results of turns that are over, in the kept events.
Maskable(log, t) ==
    {<<log[i].t, log[i].r>> : i \in {j \in Of(log, "result") :
        /\ j >= KeptFrom(log) /\ log[j].t # t
        /\ log[j].t \in ToolTurns(log, t)
        /\ ~\E m \in Of(log, "mask") : log[m].t = log[j].t /\ log[m].r = log[j].r}}

-----------------------------------------------------------------------------
(***************************************************************************)
(* The replay chain.  Messages and a native envelope are both [sum, items]: *)
(* what the system messages fold, which a native request has in its         *)
(* instructions, and the items.  An optional value is a set of at most one. *)
(***************************************************************************)

NoChain     == [st |-> "none", of |-> "", sum |-> {}, items |-> <<>>, synced |-> 0]
Invalid(m)  == [NoChain EXCEPT !.st = "invalid", !.of = m]
Disabled(m) == [NoChain EXCEPT !.st = "disabled", !.of = m]
Active(m, sum, items, synced) ==
    [st |-> "active", of |-> m, sum |-> sum, items |-> items, synced |-> synced]

Messages(log, t)  == [sum |-> SummaryOf(log), items |-> Kept(log, t)]
Envelope(replay)  == {[sum |-> c.sum, items |-> c.items] : c \in replay}
Snapshot(c)       == IF c.st = "active" THEN {c} ELSE {}

\* native_replay_from_newest_checkpoint: only the newest, only if this model made
\* its window and no result was masked since.
FromCheckpoint(log, m, sum) ==
    LET n == Newest(log) IN
    IF /\ n # 0 /\ log[n].by = m
       /\ \A i \in Of(log, "mask") : i < n
    THEN Active(m, sum, <<log[n].window>>, n)
    ELSE Invalid(m)

\* What the messages have beyond the log: the live-only nudge.
Unlogged(msgs, logged) ==
    LET at == {o \in 0..(Len(msgs) - Len(logged)) :
                 SubSeq(msgs, o + 1, o + Len(logged)) = logged}
    IN IF logged = <<>> THEN msgs
       ELSE IF at = {} THEN <<>>
       ELSE SubSeq(msgs, First(at) + Len(logged) + 1, Len(msgs))

Matches(c, m)   == c.of = m /\ c.st \in {"invalid", "active"}
CaughtUp(c, log, sum, t) ==
    IF c.synced >= Len(log) THEN [c EXCEPT !.sum = sum]
    ELSE [c EXCEPT !.sum = sum, !.items = @ \o Items(log, c.synced + 1, t), !.synced = Len(log)]

\* assemble_native_replay_request: the chain afterwards, and the envelope.
Assemble(c, log, p, msgs, t) ==
    LET found == IF Matches(c, p.model) THEN c ELSE FromCheckpoint(log, p.model, msgs.sum)
        next  == CaughtUp(found, log, msgs.sum, t)
    IN CASE p.model \notin OpenAi -> [chain |-> c, native |-> {}]
         [] p.model \in OpenAi /\ ~p.capable ->
              [chain |-> Disabled(p.model), native |-> {msgs}]
         [] p.model \in OpenAi /\ p.capable /\ found.st # "active" ->
              [chain |-> found, native |-> {msgs}]
         [] OTHER ->
              [chain  |-> next,
               native |-> {[sum   |-> next.sum,
                            items |-> next.items \o Unlogged(msgs.items, Kept(log, t))]}]

\* Mutant: a compaction that leaves no replay leaves the chain alone.
PublishedIfAny(c, replay) ==
    IF replay # {} THEN CHOOSE r \in replay : TRUE ELSE c

\* publish_native_replay.
Published(c, replay) ==
    IF replay # {} THEN CHOOSE r \in replay : TRUE
    ELSE CASE c.st = "active" -> Invalid(c.of)
           [] c.st = "none"   -> Invalid("")
           [] OTHER           -> c

\* commit_native_replay_round: what was sent, followed by the round's own output;
\* raw is empty when the provider gave none.
Committed(c, m, sent, raw, synced) ==
    IF c.st # "active" \/ c.of # m THEN c
    ELSE IF sent = {} \/ raw = {} THEN Invalid(m)
    ELSE LET s == CHOOSE x \in sent : TRUE
             o == CHOOSE x \in raw : TRUE
         IN Active(m, s.sum, s.items \o o, synced)

\* run_compaction: what it can append to the log of turn t, and the replay it
\* leaves.  Budgets, the configured compactor and the providers' answers decide.
Masks(log, t) ==
    {SetToSeq({Mask(x[1], x[2]) : x \in {y \in Maskable(log, t) : y[1] <= u}}) :
        u \in {x[1] : x \in Maskable(log, t)}}

NotApplied(replay) == [app |-> "not", add |-> <<>>, replay |-> replay]

Checkpoint(log, cut, by, window) ==
    [k |-> "checkpoint", by |-> by, window |-> window, kept |-> log[cut],
     summary |-> SummaryOf(log) \cup Folded(log, KeptFrom(log), cut - 1)]

\* One without a window.
Portable(log, cut) == Checkpoint(log, cut, "", {})

Cuts(log) == {Cut(log, b) : b \in KeptFrom(log)..(Len(log) + 1)} \ {0}

CanCompact(p, request) == p.model \in OpenAi /\ p.capable /\ request # {}

Masked(log, t) == {[app |-> "mask", add |-> ms, replay |-> {}] : ms \in Masks(log, t)}

Summarised(log, t) ==
    {[app |-> "summary", add |-> ms \o <<Portable(log, cut)>>, replay |-> {}] :
        ms \in {<<>>} \cup Masks(log, t), cut \in Cuts(log)}

\* The provider folds the request r into a window w.
Windowed(log, t, p, r, w) ==
    {[app |-> "native", add |-> ms \o <<Checkpoint(log, cut, p.model, w)>>,
      replay |-> {Active(p.model, r.sum, <<w>>, Len(log) + Len(ms) + 1)}] :
        ms \in {<<>>} \cup Masks(log, t), cut \in Cuts(log)}

Compactions(log, t, p, request, replay) ==
    {NotApplied(replay)} \cup Masked(log, t) \cup Summarised(log, t)
    \cup UNION {Windowed(log, t, p, r, Facts(r.items)) :
                  r \in IF CanCompact(p, request) THEN request ELSE {}}

-----------------------------------------------------------------------------
(***************************************************************************)
(* The turn's task.                                                         *)
(***************************************************************************)

NoJob    == [st |-> "none"]
TaskRuns == job.st \notin {"none", "done"}

Upset == upsets < MaxUpsets /\ upsets' = upsets + 1

\* The task logs events and, at last, how its turn ended.
Logs(events) == stored' = stored \o events
Ends(log, events, outcome) ==
    LET more == Append(events, Fin(job.t, outcome)) IN
    Logs(more) /\ job' = [st |-> "done", t |-> job.t, log |-> log \o more]

\* PromptSubmitted: the prompt is logged, and a task starts on a copy of the log.
StartTurn ==
    /\ job.st = "none" /\ nextTurn < MaxReplayTurns
    /\ nextTurn' = nextTurn + 1
    /\ slog' = Append(slog, User(nextTurn)) /\ Logs(<<User(nextTurn)>>)
    /\ job' = [st |-> "new", t |-> nextTurn, p |-> provider, log |-> slog']
    /\ UNCHANGED <<provider, chain, skewed, upsets>>

\* The first request is assembled.
Begin ==
    /\ job.st = "new"
    /\ LET msgs == Messages(job.log, job.t)
           a    == Assemble(chain, job.log, job.p, msgs, job.t)
       IN /\ chain' = a.chain
          /\ job' = [st |-> "gate", t |-> job.t, p |-> job.p, log |-> job.log, msgs |-> msgs,
                     replay |-> Snapshot(a.chain), native |-> a.native,
                     first |-> TRUE, over |-> FALSE, nudged |-> FALSE, r |-> 0]
    /\ UNCHANGED <<provider, slog, stored, nextTurn, skewed, upsets>>

\* The request goes out: the first with the chain of the snapshot, a later one
\* with what was assembled.
Sent == [job EXCEPT !.st = "sent",
                    !.native = IF job.first THEN Envelope(job.replay) ELSE @]

Proceed ==
    /\ job.st = "gate"
    /\ job' = Sent
    /\ UNCHANGED <<provider, slog, stored, chain, nextTurn, skewed, upsets>>

\* The envelope a compaction starts from: the request's own, or its messages.
CompactRequest ==
    IF job.native # {} \/ job.p.model \notin OpenAi THEN job.native ELSE {job.msgs}

Outcomes == Compactions(job.log, job.t, job.p, CompactRequest, job.replay)

\* A compaction that changed something: the request is rebuilt, and may be too
\* large even so.
Compacted(o) ==
    LET log == job.log \o o.add IN
    /\ Upset
    /\ chain' = Published(chain, o.replay)
    /\ \/ /\ job' = [job EXCEPT !.st = "sent", !.log = log, !.msgs = Messages(log, job.t),
                                 !.replay = o.replay, !.native = Envelope(o.replay)]
          /\ Logs(o.add)
       \/ Ends(job.log, o.add, "stopped")
    /\ UNCHANGED <<provider, slog, nextTurn, skewed>>

\* At the threshold, before the first request or between two rounds.
Compact ==
    /\ job.st = "gate"
    /\ \/ \E o \in Outcomes : o.app # "not" /\ Compacted(o)
       \/ /\ chain' = Published(chain, job.replay) /\ job' = Sent
          /\ UNCHANGED <<provider, slog, stored, nextTurn, skewed, upsets>>

\* An adapter of another provider refuses a native request.
Answers == job.st = "sent" /\ (job.native = {} \/ job.p.model \in OpenAi)

\* The provider finds the first request too long: compact once and ask again.
TooLong == Answers /\ job.first /\ ~job.over

Overflow ==
    /\ TooLong
    /\ \/ \E o \in Outcomes :
            LET log == job.log \o o.add IN
            /\ o.app # "not"
            /\ Upset
            /\ chain' = Published(chain, o.replay)
            /\ job' = [job EXCEPT !.log = log, !.msgs = Messages(log, job.t),
                                  !.replay = o.replay, !.over = TRUE,
                                  !.native = Envelope(o.replay)]
            /\ Logs(o.add)
       \/ /\ chain' = Published(chain, job.replay)
          /\ Ends(job.log, <<>>, "stopped") /\ UNCHANGED upsets
    /\ UNCHANGED <<provider, slog, nextTurn, skewed>>

\* The checkpoint cannot be written: log and chain stay as they were.
CompactUnwritten ==
    /\ job.st = "gate" \/ TooLong
    /\ Cuts(job.log) # {} \/ Maskable(job.log, job.t) # {}
    /\ Upset
    /\ Ends(job.log, <<>>, "stopped")
    /\ UNCHANGED <<provider, slog, chain, nextTurn, skewed>>

\* A round with a call: it is logged, then runs.
CallTool ==
    /\ Answers /\ job.r < MaxRounds
    /\ LET call == Call(job.t, job.r + 1) IN
       /\ job' = [job EXCEPT !.st = "tool", !.r = @ + 1, !.log = Append(@, call)]
       /\ Logs(<<call>>)
    /\ UNCHANGED <<provider, slog, chain, nextTurn, skewed, upsets>>

\* A round is committed, with its output unless the provider gave none.
Round(raw, output, synced) ==
    Committed(chain, job.p.model, job.native, IF raw THEN {output} ELSE {}, synced)
Gives(raw) == IF raw THEN UNCHANGED upsets ELSE Upset

\* The call's result is logged and the round committed.  A batch that failed ends
\* the turn; else, if the task has a replay, the next request is assembled, and
\* the replay looked up again.
FinishTool(raw) ==
    /\ job.st = "tool"
    /\ LET result == Result(job.t, job.r)
           log    == Append(job.log, result)
           item   == {Tool(job.t, job.r)}
           c      == Round(raw, <<item>>, Len(log))
           msgs   == [job.msgs EXCEPT !.items = Append(@, item)]
           live   == job.replay # {}
           a      == Assemble(c, log, job.p, msgs, job.t)
           next   == [job EXCEPT !.st = "gate", !.first = FALSE, !.log = log, !.msgs = msgs]
       IN \/ /\ live
             /\ chain' = a.chain
             /\ job' = [next EXCEPT !.replay = Snapshot(a.chain),
                                    !.native = IF Snapshot(a.chain) = {} THEN {} ELSE a.native]
             /\ Logs(<<result>>)
          \/ /\ ~live
             /\ chain' = c
             /\ job' = [next EXCEPT !.native = {}]
             /\ Logs(<<result>>)
          \/ /\ chain' = c
             /\ Ends(job.log, <<result>>, "stopped")
    /\ Gives(raw)
    /\ UNCHANGED <<provider, slog, nextTurn, skewed>>

\* An empty answer is asked for once more, with a message that is not logged.
AskAgain(raw) ==
    /\ Answers /\ ~job.nudged
    /\ LET c    == Round(raw, <<>>, Len(job.log))
           msgs == [job.msgs EXCEPT !.items = Append(@, {Nudge(job.t)})]
           live == Snapshot(c) # {}
           a    == Assemble(c, job.log, job.p, msgs, job.t)
       IN /\ chain' = IF live THEN a.chain ELSE c
          /\ job' = [job EXCEPT !.first = FALSE, !.msgs = msgs, !.nudged = TRUE,
                                !.replay = Snapshot(c),
                                !.native = IF live THEN a.native ELSE {}]
    /\ Gives(raw)
    /\ UNCHANGED <<provider, slog, stored, nextTurn, skewed>>

\* Mutant: the chain is not told that the log now holds the answer it has.
FinishUnsynced(raw) ==
    /\ Answers
    /\ chain' = Round(raw, <<{Answer(job.t)}>>, Len(job.log))
    /\ Ends(job.log, <<Assistant(job.t)>>, "completed")
    /\ Gives(raw)
    /\ UNCHANGED <<provider, slog, nextTurn, skewed>>

\* The last round: committed, then logged with the turn's end, which the chain
\* has then covered too.
Finish(raw) ==
    /\ Answers
    /\ LET c == Round(raw, <<{Answer(job.t)}>>, Len(job.log))
       IN chain' = IF c.st = "active" /\ c.of = job.p.model
                   THEN [c EXCEPT !.synced = Len(job.log) + 2] ELSE c
    /\ Ends(job.log, <<Assistant(job.t)>>, "completed")
    /\ Gives(raw)
    /\ UNCHANGED <<provider, slog, nextTurn, skewed>>

\* A malformed round breaks the chain, and the turn fails.
Malformed ==
    /\ Answers
    /\ Upset
    /\ chain' = Round(FALSE, <<>>, Len(job.log))
    /\ Ends(job.log, <<>>, "stopped")
    /\ UNCHANGED <<provider, slog, nextTurn, skewed>>

\* The provider fails or refuses, or the task notices a cancel.
GiveUp ==
    /\ job.st \in {"gate", "sent", "tool"}
    /\ Ends(job.log, <<>>, "stopped")
    /\ UNCHANGED <<provider, slog, chain, nextTurn, skewed, upsets>>

-----------------------------------------------------------------------------
(***************************************************************************)
(* The loop.                                                                *)
(***************************************************************************)

\* collect_finished_provider_turn.
Collect ==
    /\ job.st = "done"
    /\ slog' = job.log /\ job' = NoJob
    /\ UNCHANGED <<provider, stored, chain, nextTurn, skewed, upsets>>

\* The log of a task that panicked, or returned just after the loop looked, is
\* not adopted.
Lose ==
    /\ job.st # "none"
    /\ Upset
    /\ skewed' = TRUE /\ job' = NoJob
    /\ UNCHANGED <<provider, slog, stored, chain, nextTurn>>

\* A cancelled task that does not return is aborted; the loop records the end of
\* its turn and reads the file again.
Abort ==
    /\ TaskRuns
    /\ Upset
    /\ Logs(<<Fin(job.t, "stopped")>>)
    /\ slog' = stored' /\ job' = NoJob
    /\ skewed' = (skewed \/ stored # job.log)
    /\ UNCHANGED <<provider, chain, nextTurn>>

\* Events of the loop's own: a mode, a level, a local edit.
LoopNote ==
    /\ Upset
    /\ slog' = Append(slog, Note) /\ Logs(<<Note>>)
    /\ UNCHANGED <<provider, chain, job, nextTurn, skewed>>

\* A model is chosen, or the catalog has learnt what the current one can do.
SelectModel(m, capable) ==
    /\ job.st = "none" /\ capable => m \in Capable
    /\ provider # [model |-> m, capable |-> capable]
    /\ Upset
    /\ provider' = [model |-> m, capable |-> capable]
    /\ slog' = Append(slog, Note) /\ Logs(<<Note>>)
    /\ UNCHANGED <<chain, job, nextTurn, skewed>>

\* switch_native_session between turns, or the process dies, in a turn or not, and
\* starts again: the log is the file's.
Reopen ==
    /\ Upset
    /\ slog' = stored /\ chain' = NoChain /\ job' = NoJob
    /\ UNCHANGED <<provider, stored, nextTurn, skewed>>

\* CompactionRequested: /compact between turns, in a turn of its own.
ManualCompact ==
    /\ job.st = "none" /\ nextTurn < MaxReplayTurns
    /\ Cuts(slog) # {}
    /\ nextTurn' = nextTurn + 1
    /\ LET msgs == Messages(slog, nextTurn)
           a    == Assemble(chain, slog, provider, msgs, nextTurn)
       IN \/ \E o \in Compactions(slog, nextTurn, provider, a.native, Snapshot(a.chain)) :
               /\ IF o.app = "not" THEN UNCHANGED upsets ELSE Upset
               /\ chain' = Published(a.chain, o.replay)
               /\ slog' = slog \o o.add /\ Logs(o.add)
          \/ /\ Upset
             /\ chain' = a.chain /\ UNCHANGED <<slog, stored>>
    /\ UNCHANGED <<provider, job, skewed>>

-----------------------------------------------------------------------------
ReplayInit ==
    /\ \E m \in FirstModels : provider = [model |-> m, capable |-> m \in Capable]
    /\ slog = <<>> /\ stored = <<>> /\ chain = NoChain /\ job = NoJob
    /\ nextTurn = 0 /\ skewed = FALSE
    /\ upsets = 0

ReplayNext ==
    \/ StartTurn \/ Begin \/ Proceed \/ Compact \/ Overflow \/ CompactUnwritten
    \/ CallTool \/ Malformed \/ GiveUp
    \/ \E raw \in BOOLEAN : FinishTool(raw) \/ AskAgain(raw) \/ Finish(raw)
    \/ Collect \/ Lose \/ Abort \/ LoopNote
    \/ \E m \in ReplayModels, c \in BOOLEAN : SelectModel(m, c)
    \/ Reopen \/ ManualCompact

ReplaySpec == ReplayInit /\ [][ReplayNext]_replayVars

-----------------------------------------------------------------------------
(***************************************************************************)
(* Properties.                                                              *)
(***************************************************************************)

AllTurns == 0..(MaxReplayTurns - 1)
Known == UNION {{Prompt(t), Answer(t), Nudge(t)} : t \in AllTurns}
         \cup {Tool(t, r) : t \in AllTurns, r \in 1..MaxRounds}

IsMessages(x) == /\ x.sum \subseteq Known
                 /\ \A i \in DOMAIN x.items : x.items[i] \subseteq Known

(* The types of the log's events, of the chain and of the task's request.    *)
ReplayTypeOK ==
    /\ provider.model \in ReplayModels /\ provider.capable \in BOOLEAN
    /\ \A log \in {slog, stored, IF job.st = "none" THEN <<>> ELSE job.log} :
         \A i \in DOMAIN log :
            /\ log[i].k \in {"user", "call", "result", "assistant", "fin", "mask",
                             "note", "checkpoint"}
            /\ log[i].k = "checkpoint" =>
                 /\ IsEntry(log[i].kept) /\ log[i].summary \subseteq Known
                 /\ log[i].window \subseteq Known /\ log[i].by \in OpenAi \cup {""}
    /\ chain.st \in {"none", "invalid", "disabled", "active"}
    /\ chain.of \in OpenAi \cup {""} /\ chain.synced \in Nat /\ IsMessages(chain)
    /\ job.st \in {"none", "new", "gate", "sent", "tool", "done"}
    /\ job.st \in {"gate", "sent", "tool"} =>
         /\ IsMessages(job.msgs) /\ \A x \in job.native \cup job.replay : IsMessages(x)
         /\ Cardinality(job.native) <= 1 /\ Cardinality(job.replay) <= 1
    /\ nextTurn \in 0..MaxReplayTurns /\ skewed \in BOOLEAN /\ upsets \in 0..MaxUpsets

\* What a request of the current turn must tell: the prompts and answers of the
\* completed turns, the current prompt, and every call with its result.
Needed(log, t) == Facts(Items(log, 1, t))

\* The request under way, all it tells, and when a fact of it happened.
InUse     == IF job.native # {} THEN CHOOSE n \in job.native : TRUE ELSE job.msgs
Told      == InUse.sum \cup Facts(InUse.items)
When(f)   == {i \in DOMAIN job.log :
                (IsEntry(job.log[i]) \/ job.log[i].k = "result") /\ FactOf(job.log[i]) = f}

InOrder ==
    \A i, j \in DOMAIN InUse.items : i < j =>
        /\ InUse.items[i] \cap InUse.items[j] = {}
        /\ \A f \in InUse.items[i], g \in InUse.items[j] :
             \A x \in When(f), y \in When(g) : x < y

Whole == Needed(job.log, job.t) \subseteq Told /\ InOrder

(* A request that a provider answers tells it the whole session, in order   *)
(* and nothing twice, whether it is rebuilt from the log or continues the    *)
(* replay chain: after any mix of compactions, masked results, nudges,       *)
(* failed rounds, aborted turns, model switches and restarts.  It is assumed *)
(* that the loop took up the log that the chain was counted in               *)
(* (runner.rs:7385, 7646).                                                   *)
RequestIsWhole == Answers /\ ~skewed => Whole

\* The log the chain follows.
Followed == IF job.st = "none" THEN slog ELSE job.log

(* A chain in use is backed by the log: it begins with the window of the     *)
(* newest checkpoint, which its own model made, and no result was masked     *)
(* since, so that a restart would begin the same context and not another     *)
(* (runner.rs:7420-7469, 7531-7558).                                         *)
ReplayIsBacked ==
    chain.st = "active" /\ ~skewed =>
        LET n == Newest(Followed) IN
        /\ n # 0 /\ Followed[n].by = chain.of
        /\ chain.items # <<>> /\ chain.items[1] = Followed[n].window
        /\ \A i \in Of(Followed, "mask") : i < n

(* The design's rule that any mismatch, a provider that is not Responses     *)
(* among them, rebuilds the context through the ordinary path: a provider    *)
(* that cannot take a native request is not given one                        *)
(* (runner.rs:5420, rig_adapter.rs:429).                                     *)
RequestIsAccepted == job.st = "sent" /\ job.native # {} => job.p.model \in OpenAi

(* RequestIsWhole without its assumption.                                    *)
RequestAlwaysWhole == Answers => Whole

=============================================================================
