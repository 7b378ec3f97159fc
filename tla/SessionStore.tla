----------------------------- MODULE SessionStore -----------------------------
(***************************************************************************)
(* The append-only JSONL session log: JsonlSessionStore                    *)
(* (crates/yach-backend/src/session_store.rs), the encoder and the loader  *)
(* of session.rs, and the way the runner keeps events pending until they   *)
(* are written.                                                            *)
(*                                                                         *)
(* The file is a sequence of tokens: a whole JSON object, a newline, or    *)
(* what is left of an object whose write was cut short ("frag"; "cut" when *)
(* the cut falls inside a multi-byte character).  Every event is a turn of *)
(* its own here: its turn index is the runner's turn_index when it was     *)
(* pushed, and its id is a ghost that tells events apart.                  *)
(***************************************************************************)
EXTENDS Integers, Sequences, FiniteSets

CONSTANTS
    MaxEvents,      \* bound on the events pushed
    MaxPending,     \* bound on the events one append writes
    MaxTears,       \* bound on the writes cut short
    MultiByte       \* can a cut fall inside a multi-byte character?

ASSUME SessionStoreAssumption ==
    /\ MaxEvents \in Nat /\ MaxPending \in Nat /\ MaxTears \in Nat
    /\ MultiByte \in BOOLEAN

VARIABLES
    up,         \* is the process running?
    file,       \* the log file, as the next reader sees it
    synced,     \* length of the prefix that survives a power loss
    pending,    \* pending_events: pushed and not yet written
    turnIndex,  \* turn_index
    count,      \* ghost: events pushed so far
    written,    \* ghost: ids of the events a write reported as written
    safe,       \* ghost: ids reported as written and then as synced
    logged,     \* ghost: ids in the running process's in-memory log
    givenUp,    \* ghost: ids whose batch was dropped after its write failed
    tears       \* ghost: writes cut short so far

storeVars == <<up, file, synced, pending, turnIndex, count, written, safe, logged,
               givenUp, tears>>

Ids   == 1..MaxEvents
Turns == 0..(MaxEvents - 1)
Event == [kind : {"event"}, id : Ids, turn : Turns]
Token == [kind : {"event", "frag", "cut"}, id : Ids, turn : Turns]
         \cup [kind : {"nl"}, id : {0}, turn : {0}]

StoreTypeOK ==
    /\ up \in BOOLEAN
    /\ file \in Seq(Token)
    /\ synced \in 0..Len(file)
    /\ pending \in Seq(Event)
    /\ turnIndex \in 0..MaxEvents
    /\ count \in 0..MaxEvents
    /\ written \subseteq Ids /\ safe \subseteq written /\ logged \subseteq Ids
    /\ givenUp \subseteq Ids
    /\ tears \in 0..MaxTears

-----------------------------------------------------------------------------
(***************************************************************************)
(* Writing and reading lines.                                              *)
(***************************************************************************)

NL == [kind |-> "nl", id |-> 0, turn |-> 0]

\* encode_stamped_lines: one JSON object and a newline per event.
Encode(events) ==
    [i \in 1..(2 * Len(events)) |->
       IF i % 2 = 1 THEN events[(i + 1) \div 2] ELSE NL]

\* What a write of buffer b can leave behind it when it is cut short.
CutShort(b) ==
    {SubSeq(b, 1, k) : k \in 0..Len(b)}
    \cup UNION {{Append(SubSeq(b, 1, k), [b[k + 1] EXCEPT !.kind = cut]) :
                   k \in {j \in 0..(Len(b) - 1) : b[j + 1].kind = "event"}} :
                  cut \in IF MultiByte THEN {"frag", "cut"} ELSE {"frag"}}

\* load_from_file_with_warnings: a line loads if it holds exactly one object;
\* any other line is skipped with a warning.
LineLoads(f, i) ==
    /\ f[i].kind = "event"
    /\ i = 1 \/ f[i - 1].kind = "nl"
    /\ i = Len(f) \/ f[i + 1].kind = "nl"

\* reader.lines() fails on a line that is not UTF-8, and the load with it.
LoadFails(f) == \E i \in 1..Len(f) : f[i].kind = "cut"

\* session_state_from_load_result: a failed load is an empty log.
Loaded(f) == {i \in 1..Len(f) : LineLoads(f, i) /\ ~LoadFails(f)}

LoadedIds == {file[i].id : i \in Loaded(file)}

\* SessionLog::next_turn_index
NextTurnIndex(f) ==
    CHOOSE n \in 0..MaxEvents :
      /\ \A i \in Loaded(f) : f[i].turn < n
      /\ n = 0 \/ \E i \in Loaded(f) : f[i].turn = n - 1

-----------------------------------------------------------------------------
StoreInit ==
    /\ up = TRUE
    /\ file = <<>> /\ synced = 0
    /\ pending = <<>>
    /\ turnIndex = 0 /\ count = 0
    /\ written = {} /\ safe = {} /\ logged = {} /\ givenUp = {}
    /\ tears = 0

NewEvent == [kind |-> "event", id |-> count + 1, turn |-> turnIndex]

IdsOf(events) == {events[i].id : i \in 1..Len(events)}

\* push_native_session_event: into the log and the pending batch.
PushPending ==
    /\ up
    /\ count < MaxEvents /\ Len(pending) < MaxPending
    /\ pending' = Append(pending, NewEvent)
    /\ logged' = logged \cup {count + 1}
    /\ count' = count + 1
    /\ turnIndex' = turnIndex + 1
    /\ UNCHANGED <<up, file, synced, written, safe, givenUp, tears>>

\* After a failed append a turn keeps its batch and writes it again with the
\* next one; at its end (finish_native_prompt, or a handler that stops there)
\* the batch is dropped, with its events in the log; and a compaction takes
\* the events it pushed out of both.
Unwritten ==
    \/ UNCHANGED <<pending, logged, givenUp>>
    \/ /\ pending' = <<>>
       /\ givenUp' = givenUp \cup IdsOf(pending)
       /\ UNCHANGED logged
    \/ \E k \in 0..(Len(pending) - 1) :
         /\ pending' = SubSeq(pending, 1, k)
         /\ logged' = logged \ IdsOf(SubSeq(pending, k + 1, Len(pending)))
         /\ UNCHANGED givenUp

\* append_pending_native_session_events: append_events_without_sync, then
\* clear.  A write that fails part way clears nothing; what becomes of the
\* batch is its owner's to say, a turn or a handler to which it is local.
AppendPending ==
    /\ up /\ pending # <<>>
    /\ \/ /\ file' = file \o Encode(pending)
          /\ written' = written \cup IdsOf(pending)
          /\ pending' = <<>>
          /\ UNCHANGED <<logged, givenUp, tears>>
       \/ /\ tears < MaxTears /\ tears' = tears + 1
          /\ \E cut \in CutShort(Encode(pending)) : file' = file \o cut
          /\ Unwritten
          /\ UNCHANGED written
    /\ UNCHANGED <<up, synced, turnIndex, count, safe>>

\* The turn's task ends between two appends without returning its copy of the
\* log, and its batch goes with it: after an abort the loop reads the log from
\* the file again, after a panic it keeps its own copy.
Abandon ==
    /\ up /\ pending # <<>>
    /\ pending' = <<>>
    /\ logged' \in {LoadedIds, logged \ IdsOf(pending)}
    /\ UNCHANGED <<up, file, synced, turnIndex, count, written, safe, givenUp, tears>>

\* append_events: write and sync at once, as local edit evidence is.  Its turn
\* index is spent whether or not the write succeeds, and it never enters the
\* in-memory log.
AppendEvents ==
    /\ up
    /\ count < MaxEvents
    /\ count' = count + 1
    /\ turnIndex' = turnIndex + 1
    /\ \/ /\ file' = file \o Encode(<<NewEvent>>)
          /\ synced' = Len(file')
          /\ written' = written \cup {NewEvent.id}
          /\ safe' = written'
          /\ UNCHANGED tears
       \/ /\ tears < MaxTears /\ tears' = tears + 1
          /\ \E cut \in CutShort(Encode(<<NewEvent>>)) : file' = file \o cut
          /\ UNCHANGED <<synced, written, safe>>
    /\ UNCHANGED <<up, pending, logged, givenUp>>

\* Mutant: a flush that reports success without sync_data.
FlushWithoutSync ==
    /\ up
    /\ safe' = written
    /\ UNCHANGED <<up, file, synced, pending, turnIndex, count, written, logged,
                   givenUp, tears>>

\* flush_durable: sync_data on the file as it is.
FlushDurable ==
    /\ up
    /\ synced' = Len(file)
    /\ safe' = written
    /\ UNCHANGED <<up, file, pending, turnIndex, count, written, logged, givenUp, tears>>

\* The process dies, possibly in the middle of writing its pending batch.
Crash ==
    /\ up /\ up' = FALSE
    /\ \/ UNCHANGED <<file, tears>>
       \/ /\ tears < MaxTears /\ tears' = tears + 1
          /\ \E cut \in CutShort(Encode(pending)) : file' = file \o cut
    /\ pending' = <<>> /\ logged' = {}
    /\ UNCHANGED <<synced, turnIndex, count, written, safe, givenUp>>

\* The machine loses power: what was not synced may be gone, whole or in part.
StorePowerLoss ==
    /\ up' = FALSE
    /\ tears < MaxTears /\ tears' = tears + 1
    /\ \E cut \in CutShort(SubSeq(file, synced + 1, Len(file))) :
         file' = SubSeq(file, 1, synced) \o cut
    /\ synced' = Len(file')
    /\ pending' = <<>> /\ logged' = {}
    /\ written' = safe
    /\ UNCHANGED <<turnIndex, count, safe, givenUp>>

\* Startup: load the log and continue after its last turn.
Restart ==
    /\ ~up /\ up' = TRUE
    /\ logged' = LoadedIds
    /\ turnIndex' = NextTurnIndex(file)
    /\ UNCHANGED <<file, synced, pending, count, written, safe, givenUp, tears>>

StoreNext ==
    \/ PushPending \/ AppendPending \/ Abandon \/ AppendEvents \/ FlushDurable
    \/ Crash \/ StorePowerLoss \/ Restart

StoreSpec == StoreInit /\ [][StoreNext]_storeVars

-----------------------------------------------------------------------------
(***************************************************************************)
(* Properties.                                                             *)
(***************************************************************************)

Lost == safe \ LoadedIds

\* A write cut short costs at most one event that was reported durable: the
\* one the next append glues to the torn line.  Everything else that
\* flush_durable or append_event acknowledged is read back by the next load.
TearCostsOne ==
    ~MultiByte => /\ Cardinality(Lost) <= tears
                  /\ \A id \in Lost :
                       \E i \in 2..Len(file) : file[i].id = id /\ file[i].kind = "event"
                                               /\ file[i - 1].kind # "nl"

\* next_turn_index, computed from what loads, never hands out the index of a
\* turn that loads: the turns of a log keep distinct indices across crashes,
\* torn writes, retried batches and lines that stopped or started to load.
TurnsDistinct ==
    ~MultiByte =>
      \A i, j \in Loaded(file) :
        file[i].turn = file[j].turn => file[i].id = file[j].id

\* An event in the running process's log is still pending, or has reached the
\* file whole, or its batch was dropped after its write failed; and nothing that
\* was given up so had been reported as written, by that write or another.
NothingForgotten ==
    /\ givenUp \cap written = {}
    /\ up => \A id \in logged \ givenUp :
               \/ \E i \in 1..Len(pending) : pending[i].id = id
               \/ \E i \in 1..Len(file) : file[i].id = id /\ file[i].kind = "event"

\* The three together: what crashes, power losses, failed writes and retries
\* may do to the log and to the indices computed from it.
LogSurvives == TearCostsOne /\ TurnsDistinct /\ NothingForgotten

\* session_store.rs:138: flush_durable will "Make previously written session
\* events durable on disk": what was reported durable is read back.
DurableIsRead == safe \subseteq LoadedIds

\* docs/project/plans/2026-06-11-repository-audit-remediation.md:190: a "log
\* with a truncated final line [...] expects valid earlier events to load".
EarlierEventsLoad ==
    \A i \in 1..Len(file) :
      (i < Len(file) /\ LineLoads(file, i)) => i \in Loaded(file)
=============================================================================
