------------------------------- MODULE EditAccess -------------------------------
(***************************************************************************)
(* Edits of project files (crates/yach-backend/src/edit_access.rs,         *)
(* edit.rs, agent_edit_tools.rs, runner/local_edit.rs and the edit part of *)
(* runner.rs): a request is validated into a transaction with a preview, a *)
(* permission decision or a review lets it be applied, and the apply       *)
(* stages, rechecks and publishes the files, with evidence in the session  *)
(* log before and after.                                                   *)
(*                                                                         *)
(* An apply never awaits, but the agent's turn and the event loop, which   *)
(* applies the user's own edits, are tasks of a multi-thread runtime: two  *)
(* applies run side by side, and editors, formatters and other processes   *)
(* change files between any two of their system calls.  A transaction's    *)
(* number stands for its transaction, preview and permission decision ids, *)
(* and for the text it writes: a text is told apart from another by who    *)
(* wrote it, as its hash does.                                             *)
(***************************************************************************)
EXTENDS Integers, Sequences, FiniteSets

CONSTANTS
    Files,
    Targets,     \* what a request may name: a file, or the files of a proposal
    Asked,       \* files a standing restriction holds for the user
    Reserved,    \* files a standing restriction reserves for the user
    Executes,    \* AUTO_REVIEW_EXECUTION_ENABLED: is an "execute" route followed?
    MaxTx,       \* bound on the transactions previewed
    MaxOutside,  \* bound on the changes other programs make
    MaxDecisions,\* bound on the decisions waiting in a turn's channel
    MaxFaults    \* bound on the system calls and log writes that fail

ASSUME EditAssumption ==
    /\ Targets \subseteq Seq(Files) \ {<<>>}
    /\ Asked \subseteq Files /\ Reserved \subseteq Files
    /\ Executes \in BOOLEAN
    /\ MaxTx \in Nat /\ MaxOutside \in Nat /\ MaxDecisions \in Nat /\ MaxFaults \in Nat

VARIABLES
    disk,     \* the text of each file
    temps,    \* temporary files, as <<transaction, file>>
    backup,   \* the agent's apply's hard links to the files it replaces
    txs,      \* transactions, previewed one after the other
    evidence, \* the session log, as <<kind, transaction>>
    agent,    \* the agent's edit request that waits
    queue,    \* review_decision_tx: decisions not yet taken by the turn
    shown,    \* transactions whose review row the client has been shown
    engine,   \* the applies in progress, the agent's and the event loop's
    outside, faults,
    approved, \* ghost: the transactions the user sent an approval of
    executed, \* ghost: the transactions a fresh review let through
    late      \* ghost: files changed by others after each apply's last look

vars == <<disk, temps, backup, txs, evidence, agent, queue, shown, engine,
          outside, faults, approved, executed, late>>

Tx    == 1..MaxTx

\* A text is the number of the transaction that wrote it, or one of these.
Base   == 0   \* what was there at first
Ext    == -1  \* what another program wrote
Absent == -2  \* no file

\* A hard link of the apply's: none, to the file itself, or else the text it kept.
Unlinked == -3
Linked   == -4

Texts == {Base, Ext} \cup Tx
Kinds == {"prepared", "started", "completed", "failed"}

NoRequest == [st |-> "none"]
NoApply   == [st |-> "none"]
Who       == {"agent", "local"}
NoLinks   == [f \in Files |-> Unlinked]

\* One transaction: who asked for it, its targets in order, the texts they had,
\* what the permission decision says of it, whether the preview is still held
\* and how it ended.
Transaction == [by : {"agent", "local"}, kind : {"modify", "create"},
                paths : Seq(Files), before : [Files -> Texts \cup {Absent}],
                says : {"allow", "ask", "auto", "human"}, held : BOOLEAN,
                end : {"open", "applied", "failed", "rejected"}]

TypeOK ==
    /\ disk \in [Files -> Texts \cup {Absent}]
    /\ temps \subseteq Tx \X Files
    /\ backup \in [Files -> Texts \cup {Unlinked, Linked}]
    /\ txs \in Seq(Transaction) /\ Len(txs) <= MaxTx
    /\ evidence \subseteq Kinds \X Tx
    /\ agent = NoRequest
       \/ agent \in [st : {"reviewing", "asking", "executing", "applying"}, t : Tx, fresh : BOOLEAN]
    /\ queue \in Seq([t : Tx, verdict : {"approve", "reject"}])
    /\ shown \subseteq Tx
    /\ DOMAIN engine = Who
    /\ \A w \in Who :
         \/ engine[w] = NoApply
         \/ engine[w] \in [st : {"reject", "start", "check", "write", "link", "recheck",
                                 "publish", "rollback", "completed", "failed"},
                           t : Tx, i : Nat \ {0}]
    /\ outside \in 0..MaxOutside /\ faults \in 0..MaxFaults
    /\ approved \subseteq Tx /\ executed \subseteq Tx
    /\ late \in [Who -> SUBSET Files]

Init ==
    /\ disk \in [Files -> {Base, Absent}]
    /\ temps = {} /\ backup = NoLinks /\ txs = <<>> /\ evidence = {}
    /\ agent = NoRequest /\ queue = <<>> /\ shown = {}
    /\ engine = [w \in Who |-> NoApply]
    /\ outside = 0 /\ faults = 0
    /\ approved = {} /\ executed = {} /\ late = [w \in Who |-> {}]

\* A system call or a write of evidence, which may fail.
Calls(ok) ==
    /\ ok \/ faults < MaxFaults
    /\ faults' = IF ok THEN faults ELSE faults + 1

\* The task is free to go on with its round, or to handle an event.
Free(w) == engine[w] = NoApply

Begin(w, st, t) == engine' = [engine EXCEPT ![w] = [st |-> st, t |-> t, i |-> 1]]
Close(t, how) == [txs EXCEPT ![t].end = how, ![t].held = FALSE]

-----------------------------------------------------------------------------
(***************************************************************************)
(* Preparing: permission decision, preview, evidence.                      *)
(***************************************************************************)

\* PermissionDecisionEngine::decide on the request permission_request_from_edit
\* makes, which names the first target only.
Decide(paths, mode) ==
    CASE paths[1] \in Reserved -> "human"
      [] paths[1] \in Asked /\ paths[1] \notin Reserved -> "ask"
      [] OTHER -> mode

\* EditEngine::preview: targets distinct, existing for a modification and
\* missing for a creation, and as the request expects them; what it computes is
\* kept with the text it read.
Previews(kind, paths) ==
    /\ \A i, j \in DOMAIN paths : paths[i] = paths[j] => i = j
    /\ \A i \in DOMAIN paths : (disk[paths[i]] = Absent) <=> (kind = "create")

Preview(by, kind, paths, says) ==
    [by |-> by, kind |-> kind, paths |-> paths, before |-> disk, says |-> says,
     held |-> TRUE, end |-> "open"]

\* handle_native_local_edit_prepare: the user's own edit, always to be confirmed.
\* A preview whose evidence cannot be written is dropped.
LocalPrepare(kind, f) ==
    /\ Free("local") /\ Len(txs) < MaxTx
    /\ Previews(kind, <<f>>)
    /\ \E ok \in BOOLEAN :
        /\ Calls(ok)
        /\ txs' = Append(txs, [Preview("local", kind, <<f>>, "ask") EXCEPT
                                   !.held = ok, !.end = IF ok THEN "open" ELSE "failed"])
        /\ evidence' = IF ok THEN evidence \cup {<<"prepared", Len(txs) + 1>>} ELSE evidence
    /\ UNCHANGED <<disk, temps, backup, agent, queue, shown, engine, outside,
                   approved, executed, late>>

\* A request ends and the turn goes on, or ends with the error.
Continues == agent' = NoRequest /\ UNCHANGED queue
Breaks    == agent' = NoRequest /\ queue' = <<>>

\* prepare_agent_edit_tool_request, prepare_extension_edit_proposal (which never
\* creates), and the beginning of finish_prepared_edit_tool_request: what is
\* allowed is applied at once, what is reserved for the user is handed back, the
\* rest goes to the reviewer, if there is one, or to the user.
AgentPrepare(kind, paths, mode, reviewer) ==
    /\ Free("agent") /\ agent = NoRequest /\ Len(txs) < MaxTx
    /\ Previews(kind, paths)
    /\ LET says == Decide(paths, mode)
           t    == Len(txs) + 1
           tx   == Preview("agent", kind, paths, says)
       IN \E ok \in BOOLEAN :
        /\ Calls(ok)
        /\ evidence' = IF ok THEN evidence \cup {<<"prepared", t>>} ELSE evidence
        /\ IF ~ok
           THEN /\ txs' = Append(txs, [tx EXCEPT !.end = "failed", !.held = FALSE])
                /\ Breaks /\ UNCHANGED <<engine, shown>>
           ELSE /\ txs' = Append(txs, tx)
                /\ agent' = [t |-> t, fresh |-> TRUE,
                             st |-> CASE says \in {"allow", "human"} -> "applying"
                                      [] says = "auto" /\ reviewer -> "reviewing"
                                      [] OTHER -> "asking"]
                /\ CASE says = "allow" -> Begin("agent", "start", t)
                     [] says = "human" -> Begin("agent", "reject", t)
                     [] OTHER -> UNCHANGED engine
                /\ shown' = IF agent'.st = "asking" THEN shown \cup {t} ELSE shown
                /\ UNCHANGED queue
    /\ UNCHANGED <<disk, temps, backup, outside, approved, executed,
                   late>>

-----------------------------------------------------------------------------
(***************************************************************************)
(* Decisions: the user's own edits, the reviewer, the review rows.         *)
(***************************************************************************)

\* handle_native_local_edit_decision.  A preview that is not held is answered
\* with an error and nothing else; a rejection first tries whether the log can
\* be written, and keeps the preview when it cannot.
LocalDecide(t, verdict) ==
    /\ Free("local") /\ t \in DOMAIN txs /\ txs[t].by = "local" /\ txs[t].held
    /\ IF verdict = "approve"
       THEN Begin("local", "start", t) /\ approved' = approved \cup {t} /\ UNCHANGED faults
       ELSE \E ok \in BOOLEAN :
            /\ Calls(ok)
            /\ IF ok THEN Begin("local", "reject", t) ELSE UNCHANGED engine
            /\ UNCHANGED approved
    /\ UNCHANGED <<disk, temps, backup, txs, evidence, agent, queue, shown,
                   outside, executed, late>>

\* The policy, the authorization or the reviewer change.
BumpRevision ==
    /\ Free("local") /\ agent.st = "reviewing" /\ agent.fresh
    /\ agent' = [agent EXCEPT !.fresh = FALSE]
    /\ UNCHANGED <<disk, temps, backup, txs, evidence, queue, shown, engine,
                   outside, faults, approved, executed, late>>

\* ReviewCoordinator::review_action: the freshness check, then the gate.
Route(assessed) ==
    IF agent.fresh /\ (assessed # "execute" \/ Executes) THEN assessed ELSE "hold"

\* finish_prepared_edit_tool_request after the review: "execute" applies,
\* "human" hands back, everything else asks the user.
ReviewEnds(assessed) ==
    /\ Free("agent") /\ agent.st = "reviewing"
    /\ LET t == agent.t
           route == Route(assessed)
       IN \/ /\ route = "execute"
             /\ agent' = [agent EXCEPT !.st = "executing"]
             /\ Begin("agent", "start", t)
             /\ executed' = IF agent.fresh THEN executed \cup {t} ELSE executed
             /\ UNCHANGED shown
          \/ /\ route = "human"
             /\ agent' = [agent EXCEPT !.st = "applying"]
             /\ Begin("agent", "reject", t)
             /\ UNCHANGED <<executed, shown>>
          \/ /\ route = "hold"
             /\ agent' = [agent EXCEPT !.st = "asking"]
             /\ shown' = shown \cup {t}
             /\ UNCHANGED <<engine, executed>>
    /\ UNCHANGED <<disk, temps, backup, txs, queue, evidence, outside, faults,
                   approved, late>>

\* ToolReviewDecisionSubmitted, for a row of now or of before: it waits in the
\* turn's channel, also while the turn waits for no decision.
SubmitDecision(t, verdict) ==
    /\ Free("local")
    /\ t \in shown /\ Len(queue) < MaxDecisions
    /\ queue' = Append(queue, [t |-> t, verdict |-> verdict])
    /\ approved' = IF verdict = "approve" THEN approved \cup {t} ELSE approved
    /\ UNCHANGED <<disk, temps, backup, txs, evidence, agent, shown, engine,
                   outside, faults, executed, late>>

\* Mutant: the decision is not compared with the pending review.
MatchesAny(d) == TRUE

\* wait_for_agent_edit_review_decision: request, preview and decision id.
Matches(d) == d.t = agent.t

\* The turn takes the next decision; a decision for another request, or one that
\* cannot be recorded, ends the turn with an error.
TakeDecision ==
    /\ Free("agent") /\ agent.st = "asking" /\ queue # <<>>
    /\ \E ok \in BOOLEAN :
        /\ Calls(ok)
        /\ LET d == Head(queue)
               t == agent.t
           IN IF ~Matches(d) \/ ~ok
              THEN txs' = Close(t, "failed") /\ Breaks /\ UNCHANGED engine
              ELSE /\ agent' = [agent EXCEPT !.st = "applying"]
                   /\ queue' = Tail(queue)
                   /\ Begin("agent", IF d.verdict = "approve" THEN "start" ELSE "reject", t)
                   /\ UNCHANGED txs
    /\ UNCHANGED <<disk, temps, backup, evidence, shown, outside,
                   approved, executed, late>>

\* The prompt is cancelled or the client goes away while the request waits, for
\* the reviewer or for the user (record_interrupted_prepared_edit).
Interrupt ==
    /\ Free("agent") /\ agent.st \in {"reviewing", "asking"}
    /\ txs' = Close(agent.t, "failed")
    /\ Breaks
    /\ UNCHANGED <<disk, temps, backup, evidence, shown, engine, outside,
                   faults, approved, executed, late>>

\* The turn ends with no request pending, and its channel with it.
EndTurn ==
    /\ Free("agent") /\ agent = NoRequest
    /\ queue' = <<>>
    /\ UNCHANGED <<disk, temps, backup, txs, evidence, agent, shown, engine,
                   outside, faults, approved, executed, late>>

-----------------------------------------------------------------------------
(***************************************************************************)
(* Applying, by w.  Every step is a few system calls on one file; between  *)
(* two of them other programs and the other apply move.                    *)
(***************************************************************************)

Now(w)    == txs[engine[w].t]
Target(w) == Now(w).paths[engine[w].i]
Multi(w)  == Len(Now(w).paths) > 1

\* Mutant: the loops over the operations stop one too early.
LastButOne(w) == engine[w].i >= Len(Now(w).paths) - 1

\* The loops over the operations of the plan end.
Last(w) == engine[w].i = Len(Now(w).paths)

To(w, st, i) == engine' = [engine EXCEPT ![w].st = st, ![w].i = i]

\* The file changes under the applies of these, which may have had their last look.
Disturbs(whose, f) ==
    late' = [v \in Who |->
               IF v \in whose /\ engine[v].st \in {"recheck", "publish", "rollback", "completed"}
               THEN late[v] \cup {f} ELSE late[v]]

\* A hard link of a file that is replaced keeps its text.
Kept(f) == [backup EXCEPT ![f] = IF @ = Linked THEN disk[f] ELSE @]

\* cleanup_staged_operations and cleanup_temp_file.
CleanUp(w) ==
    /\ temps' = {x \in temps : x[1] # engine[w].t}
    /\ backup' = IF w = "agent" THEN NoLinks ELSE backup
Abort(w)   == CleanUp(w) /\ To(w, "failed", 1)

\* What becomes of the agent's request when the apply or the rejection returns:
\* a result goes back to the model, unless the turn ends because the result is
\* over its budget or the recorded events cannot be taken over; an error ends
\* the turn.  The user's own edits have no turn.
Returns(w, result) ==
    /\ engine' = [engine EXCEPT ![w] = NoApply]
    /\ IF Now(w).by = "local" THEN UNCHANGED <<agent, queue>>
       ELSE (result /\ Continues) \/ Breaks

\* EditAccess::reject_with_reason and the log write that follows.
Reject(w) ==
    /\ engine[w].st = "reject"
    /\ \E ok \in BOOLEAN :
        /\ Calls(ok)
        /\ evidence' = IF ok THEN evidence \cup {<<"failed", engine[w].t>>} ELSE evidence
        /\ Returns(w, ok)
    /\ txs' = Close(engine[w].t, "rejected")
    /\ UNCHANGED <<disk, temps, backup, shown, outside, approved, executed, late>>

\* self.pending.remove(preview_id)
Take(t) == [txs EXCEPT ![t].held = FALSE]

\* Mutant: the write-ahead log is best effort, like the log of a failure.
WriteAheadIgnored(ok) == TRUE

\* sink.append_events(write_ahead_log) has to succeed.
WriteAheadOk(ok) == ok

\* apply_with_evidence_sink_and_freshness up to the apply: a stale authorization
\* and a log that cannot be written keep the preview, which only the user's own
\* edits can come back to.
Start(w) ==
    /\ engine[w].st = "start"
    /\ LET t == engine[w].t
           stale == w = "agent" /\ agent.st = "executing" /\ ~agent.fresh
       IN \E ok \in BOOLEAN :
        /\ stale => ok
        /\ Calls(ok)
        /\ evidence' = IF ok /\ ~stale THEN evidence \cup {<<"started", t>>} ELSE evidence
        /\ IF ~stale /\ WriteAheadOk(ok)
           THEN /\ txs' = Take(t) /\ To(w, "check", 1)
                /\ late' = [late EXCEPT ![w] = {}] /\ UNCHANGED <<agent, queue>>
           ELSE /\ IF Now(w).by = "agent" THEN txs' = Close(t, "failed") /\ Breaks
                                          ELSE UNCHANGED <<txs, agent, queue>>
                /\ engine' = [engine EXCEPT ![w] = NoApply] /\ UNCHANGED late
    /\ UNCHANGED <<disk, temps, backup, shown, outside, approved, executed>>

\* Mutant: the text read is not compared with the previewed one.
AsPreviewedAny(w, f) == (disk[f] = Absent) <=> (Now(w).before[f] = Absent)

\* The hash comparison of a modification and the existence test of a creation.
AsPreviewed(w, f) == disk[f] = Now(w).before[f]

\* The checks of stage_operation, apply_create_operation and
\* apply_modify_operation before anything is written.
Check(w) ==
    /\ engine[w].st = "check"
    /\ IF AsPreviewed(w, Target(w))
       THEN To(w, "write", engine[w].i) /\ UNCHANGED <<temps, backup>>
       ELSE Abort(w)
    /\ UNCHANGED <<disk, txs, evidence, agent, queue, shown, outside, faults,
                   approved, executed, late>>

\* write_temp_file, after the permissions of the file to modify are read.
Write(w) ==
    /\ engine[w].st = "write"
    /\ \E ok \in BOOLEAN :
        /\ Calls(ok)
        /\ IF ok /\ (disk[Target(w)] # Absent \/ Now(w).kind = "create")
           THEN /\ temps' = temps \cup {<<engine[w].t, Target(w)>>}
                /\ To(w, IF Multi(w) THEN "link" ELSE "recheck", engine[w].i)
                /\ UNCHANGED backup
           ELSE Abort(w)
    /\ UNCHANGED <<disk, txs, evidence, agent, queue, shown, outside, approved,
                   executed, late>>

\* stage_operation: a hard link keeps the file that will be replaced.
Link(w) ==
    /\ engine[w].st = "link"
    /\ \E ok \in BOOLEAN :
        /\ Calls(ok)
        /\ IF ok /\ disk[Target(w)] # Absent
           THEN /\ backup' = [backup EXCEPT ![Target(w)] = Linked]
                /\ IF Last(w) THEN To(w, "recheck", 1) ELSE To(w, "check", engine[w].i + 1)
                /\ UNCHANGED temps
           ELSE Abort(w)
    /\ UNCHANGED <<disk, txs, evidence, agent, queue, shown, outside, approved,
                   executed, late>>

\* revalidate_staged_operation, and the last checks of a single operation, where
\* a file that cannot be read, or a target that exists, returns through `?` and
\* leaves the temporary file behind.
Recheck(w) ==
    /\ engine[w].st = "recheck"
    /\ IF AsPreviewed(w, Target(w))
       THEN /\ late' = [late EXCEPT ![w] = @ \ {Target(w)}]
            /\ IF Last(w) THEN To(w, "publish", 1) ELSE To(w, "recheck", engine[w].i + 1)
            /\ UNCHANGED <<temps, backup>>
       ELSE /\ IF ~Multi(w) /\ (Now(w).kind = "create" \/ disk[Target(w)] = Absent)
               THEN To(w, "failed", 1) /\ UNCHANGED <<temps, backup>>
               ELSE Abort(w)
            /\ UNCHANGED late
    /\ UNCHANGED <<disk, txs, evidence, agent, queue, shown, outside, faults,
                   approved, executed>>

\* How many operations rollback_staged_operations is given.
Published(w) == engine[w].i - 1

\* rename over the file to modify, hard_link to the file to create, which fails
\* if it exists.
Publish(w) ==
    /\ engine[w].st = "publish"
    /\ \E ok \in BOOLEAN :
        /\ Calls(ok)
        /\ IF ok /\ (Now(w).kind = "modify" \/ disk[Target(w)] = Absent)
           THEN /\ disk' = [disk EXCEPT ![Target(w)] = engine[w].t]
                /\ temps' = temps \ {<<engine[w].t, Target(w)>>}
                /\ backup' = IF w = "agent" /\ Last(w) THEN NoLinks ELSE Kept(Target(w))
                /\ IF Last(w) THEN To(w, "completed", 1) ELSE To(w, "publish", engine[w].i + 1)
                /\ Disturbs(Who \ {w}, Target(w))
           ELSE /\ IF Published(w) > 0
                   THEN To(w, "rollback", Published(w)) /\ UNCHANGED <<temps, backup>>
                   ELSE Abort(w)
                /\ UNCHANGED <<disk, late>>
    /\ UNCHANGED <<txs, evidence, agent, queue, shown, outside, approved, executed>>

\* rollback_staged_operations, last file first; a failing rename is ignored.
Rollback(w) ==
    /\ engine[w].st = "rollback"
    /\ \E ok \in BOOLEAN :
        /\ Calls(ok)
        /\ IF ok THEN /\ disk' = [disk EXCEPT ![Target(w)] = backup[Target(w)]]
                       /\ Disturbs(Who \ {w}, Target(w))
                  ELSE UNCHANGED <<disk, late>>
    /\ IF engine[w].i > 1 THEN To(w, "rollback", engine[w].i - 1) /\ UNCHANGED <<temps, backup>>
                          ELSE Abort(w)
    /\ UNCHANGED <<txs, evidence, agent, queue, shown, outside, approved, executed>>

\* The end of apply_with_evidence_sink_and_freshness: a log that cannot be
\* written does not change the outcome.
Record(w) ==
    /\ engine[w].st \in {"completed", "failed"}
    /\ \E ok \in BOOLEAN :
        /\ Calls(ok)
        /\ evidence' = IF ok THEN evidence \cup {<<engine[w].st, engine[w].t>>} ELSE evidence
    /\ txs' = [txs EXCEPT ![engine[w].t].end =
                   IF engine[w].st = "completed" THEN "applied" ELSE "failed"]
    /\ Returns(w, engine[w].st = "completed")
    /\ UNCHANGED <<disk, temps, backup, shown, outside, approved, executed, late>>

\* Another program writes the file in place, replaces it, creates it or deletes
\* it.  A hard link follows a write in place.
OutsideEdit(f, text, inPlace) ==
    /\ outside < MaxOutside /\ text # disk[f]
    /\ inPlace => disk[f] # Absent /\ text # Absent
    /\ outside' = outside + 1
    /\ disk' = [disk EXCEPT ![f] = text]
    /\ backup' = IF inPlace THEN backup ELSE Kept(f)
    /\ Disturbs(Who, f)
    /\ UNCHANGED <<temps, txs, evidence, agent, queue, shown, engine, faults,
                   approved, executed>>

-----------------------------------------------------------------------------

\* A creation names one file; several files come from an extension's proposal.
Prepare ==
    \E paths \in Targets, kind \in {"modify", "create"} :
        /\ kind = "create" => Len(paths) = 1
        /\ \/ Len(paths) = 1 /\ LocalPrepare(kind, paths[1])
           \/ \E mode \in {"allow", "ask", "auto"}, reviewer \in BOOLEAN :
                AgentPrepare(kind, paths, mode, reviewer)

Verdict ==
    \/ \E t \in Tx, verdict \in {"approve", "reject"} :
        LocalDecide(t, verdict) \/ SubmitDecision(t, verdict)
    \/ BumpRevision
    \/ \E assessed \in {"execute", "human", "hold"} : ReviewEnds(assessed)
    \/ TakeDecision
    \/ Interrupt
    \/ EndTurn

Apply == \E w \in Who :
    \/ Reject(w) \/ Start(w) \/ Check(w) \/ Write(w) \/ Link(w) \/ Recheck(w)
    \/ Publish(w) \/ Rollback(w) \/ Record(w)

Environment == \E f \in Files, text \in {Base, Ext, Absent}, inPlace \in BOOLEAN :
                   OutsideEdit(f, text, inPlace)

Next == Prepare \/ Verdict \/ Apply \/ Environment

Spec == Init /\ [][Next]_vars

-----------------------------------------------------------------------------
(***************************************************************************)
(* Properties.                                                             *)
(***************************************************************************)

\* A transaction over several files is applied to all of them or to none: when
\* the apply has failed no file keeps the transaction's text, however many files
\* were published before the failure, and when it has completed every file has
\* it or was changed by someone else after the last look.  Rolling back is
\* itself a call that may fail and is then given up, so it takes two failures to
\* leave a file behind.  (apply_multiple_operations_atomically)
AllOrNothing ==
    /\ \A t \in DOMAIN txs : txs[t].end \in {"failed", "rejected"} /\ faults < 2 =>
           \A f \in Files : disk[f] # t
    /\ \A w \in Who : engine[w].st = "completed" =>
           \A i \in DOMAIN Now(w).paths :
               disk[Now(w).paths[i]] = engine[w].t \/ Now(w).paths[i] \in late[w]

\* Whatever stops the program, no file has a transaction's text that the session
\* log does not know to have been started, and the log records the preview of
\* whatever it records the start of.  (write_ahead_log)
WriteAhead ==
    /\ \A t \in DOMAIN txs, f \in Files : disk[f] = t => <<"started", t>> \in evidence
    /\ \A t \in DOMAIN txs : <<"started", t>> \in evidence => <<"prepared", t>> \in evidence

\* An apply begins only for a transaction that has not been applied, rejected or
\* given up, and only if the mode allows it, the user approved this very preview,
\* or a review that was still fresh when it ended let it through: late, repeated
\* and mismatched decisions apply nothing, in whatever order they come.
Authorised ==
    [][\A w \in Who : engine[w].st = "start" /\ engine'[w].st = "check" =>
           /\ Now(w).end = "open"
           /\ \/ Now(w).says = "allow"
              \/ engine[w].t \in approved \/ engine[w].t \in executed]_vars

\* The apply replaces a text that is not the one previewed only if another
\* program, or the other apply, wrote it after the last look, a file that appeared
\* is never replaced by a creation, and rolling back replaces nothing but the
\* transaction's own text and such a late one.
NoBlindOverwrite ==
    [][\A f \in Files : disk'[f] # disk[f] /\ outside' = outside =>
           \E w \in Who :
             /\ engine'[w] # engine[w]
             /\ \/ engine[w].st = "publish" /\ disk[f] = Now(w).before[f]
                \/ engine[w].st = "rollback" /\ disk[f] = engine[w].t
                \/ f \in late[w] /\ Now(w).kind = "modify"]_vars

\* As the user documentation says of files reserved for the user: what touches
\* one is handed off, not run.
ReservedUntouched ==
    \A t \in DOMAIN txs, f \in Reserved : disk[f] = t => txs[t].by = "local"

\* Once no apply runs, no temporary file is left.
NoLeftovers == (\A w \in Who : Free(w)) => temps = {}

=============================================================================
