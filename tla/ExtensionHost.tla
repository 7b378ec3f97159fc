----------------------------- MODULE ExtensionHost -----------------------------
(***************************************************************************)
(* The extension activation manager of a running session: the manifest     *)
(* scan, the background activation, the shared activation snapshot, the    *)
(* lifecycle commands stop, reload, trust and revoke                       *)
(* (crates/yach-backend/src/runner/extension_state.rs and extension.rs),   *)
(* and the turns that work on a clone of the snapshot.                     *)
(*                                                                         *)
(* The snapshot is guarded by one mutex; a lifecycle task holds it for all *)
(* it does, so it is one step here, and tasks that wait for it run in any  *)
(* order.  The background activation does not hold it: it builds a         *)
(* snapshot of its own and replaces the shared one at the end.  Authority  *)
(* is the approved set covering what the manifest requests; AuthorityStore *)
(* shows that a decision on it is one step.  A host is a number, the       *)
(* process lives while a snapshot or a clone refers to it.                 *)
(***************************************************************************)
EXTENDS Integers, Sequences, FiniteSets, FiniteSetsExt, SequencesExt

CONSTANTS
    Order,          \* the discovered extensions, in the order of the index
    Reviewers,      \* those that contribute a reviewer and hence no tools
    Privileged,     \* those that request capabilities
    Project,        \* those of project scope, which never activate
    Passive,        \* those with no host to start after the first paint
    Package,        \* the package root of each
    Source,         \* the source_ref of each one's package root
    Selectors,      \* how commands name one: "id", "source", "root", "manifest"
    MaxCommands,    \* bound on the lifecycle commands
    MaxOutside,     \* bound on the decisions of `yach extension' commands
    MaxTurns        \* bound on the turns

Exts  == Range(Order)
NoExt == "none"

(* The ids of an index are distinct (ExtensionCatalog::from_manifests).  A *)
(* source_ref belongs to a package root, which may hold several manifests; *)
(* the roots of YACH_EXTENSION_PACKAGE_ROOTS all have the same one.        *)
ASSUME ExtensionAssumption ==
    /\ Order \in Seq(Exts) /\ NoExt \notin Exts
    /\ \A i, j \in 1..Len(Order) : Order[i] = Order[j] => i = j
    /\ Reviewers \subseteq Exts /\ Privileged \subseteq Exts
    /\ Project \subseteq Exts /\ Passive \subseteq Exts
    /\ \A e, f \in Exts : Package[e] = Package[f] => Source[e] = Source[f]
    /\ Selectors \subseteq {"id", "source", "root", "manifest"}
    /\ MaxCommands \in Nat /\ MaxOutside \in Nat /\ MaxTurns \in Nat

VARIABLES
    granted,    \* the extensions whose requests an approved set covers
    index,      \* extension_manifest_scan_state
    bg,         \* the background activation: where it is and its snapshot
    snap,       \* extension_activation_state
    cells,      \* the reviewer_generation counters
    hosts,      \* hosts started so far
    waiting,    \* lifecycle tasks that wait for the snapshot
    commands,   \* ghost: commands given so far
    outside,    \* ghost: decisions of other processes so far
    turn,       \* the turn's clone of the snapshot and its review
    turnsBegun, \* ghost: turns begun so far
    down,       \* ghost: stopped or revoked, and not started since
    revoked     \* ghost: revoked, and not granted since

vars == <<granted, index, bg, snap, cells, hosts, waiting, commands, outside,
          turn, turnsBegun, down, revoked>>

NoReviewer == [ext |-> NoExt, gen |-> 0, host |-> 0]
Diag(e, s, g) == [ext |-> e, state |-> s, gen |-> g]
Empty(c) == [diags |-> <<>>, tools |-> {}, exec |-> [e \in Exts |-> 0],
             reviewer |-> NoReviewer, cell |-> c]
NoReview == [sent |-> FALSE, gen |-> 0, seat |-> 0]
NoJudge  == [by |-> 0, then |-> 0, now |-> 0, same |-> FALSE]
NoTurn   == [on |-> FALSE, snap |-> Empty(0), review |-> NoReview, judge |-> NoJudge]

(* What the background activation and every command may start. *)
MaxHosts == Len(Order) + MaxCommands
MaxGen   == MaxCommands + 1

States    == {"discovered", "blocked", "active", "failed", "stopped"}
Snapshots == [diags : Seq([ext : Exts, state : States, gen : 0..MaxGen]),
              tools : SUBSET Exts, exec : [Exts -> 0..MaxHosts],
              reviewer : [ext : Exts \cup {NoExt}, gen : 0..MaxGen,
                          host : 0..MaxHosts],
              cell : {0, 1}]
Commands  == [kind : {"reload", "trust", "revoke"}, ext : Exts, sel : Selectors]

TypeOK ==
    /\ granted \subseteq Privileged
    /\ index \in {"none", "scanning", "done", "failed"}
    /\ bg.pc \in {"off", "record", "start", "done"}
    /\ bg.left \in Seq(Exts) /\ bg.snap \in Snapshots
    /\ snap \in Snapshots
    /\ cells \in [{0, 1} -> 0..MaxGen] /\ hosts \in 0..MaxHosts
    /\ waiting \subseteq Commands
    /\ commands \in 0..MaxCommands /\ outside \in 0..MaxOutside
    /\ turn.snap \in Snapshots /\ turnsBegun \in 0..MaxTurns
    /\ down \subseteq Exts /\ revoked \subseteq Exts

Init ==
    /\ granted \in SUBSET Privileged
    /\ index = "none" /\ bg = [pc |-> "off", left |-> <<>>, snap |-> Empty(1)]
    /\ snap = Empty(0) /\ cells = [c \in {0, 1} |-> 0] /\ hosts = 0
    /\ waiting = {} /\ commands = 0 /\ outside = 0
    /\ turn = NoTurn /\ turnsBegun = 0 /\ down = {} /\ revoked = {}

-----------------------------------------------------------------------------
(***************************************************************************)
(* The activation snapshot.                                                *)
(***************************************************************************)

(* capability_block_reason: what is requested and not approved. *)
Gate(e) == e \in Privileged => e \in granted

(* The host has registered: handlers or the reviewer, and an active        *)
(* diagnostic.                                                             *)
Activate(s, e, gen, h) ==
    [s EXCEPT !.tools = IF e \in Reviewers THEN @ ELSE @ \cup {e},
              !.exec[e] = IF e \in Reviewers THEN @ ELSE h,
              !.reviewer = IF e \in Reviewers
                             THEN [ext |-> e, gen |-> gen, host |-> h] ELSE @,
              !.diags = Append(@, Diag(e, "active", IF gen = 0 THEN 1 ELSE gen))]

Mark(s, e, state, gen) == [s EXCEPT !.diags = Append(@, Diag(e, state, gen))]

(* The counter takes the generation of the reviewer just activated. *)
Count(s, e, gen) ==
    IF e \in Reviewers THEN [cells EXCEPT ![s.cell] = gen] ELSE cells

(* matches_selector: a diagnostic is found by id, by source_ref, by        *)
(* package root, and not by manifest path.  A session's diagnostics have   *)
(* no install_source.                                                      *)
Selects(sel, e, f) ==
    \/ sel = "id" /\ f = e
    \/ sel = "source" /\ Source[f] = Source[e]
    \/ sel = "root" /\ Package[f] = Package[e]

(* stop_extension finds the first diagnostic selected; the extension must  *)
(* be active.                                                              *)
Stoppable(s, sel, e) ==
    LET hits == {i \in 1..Len(s.diags) : Selects(sel, e, s.diags[i].ext)} IN
    hits # {} /\ s.diags[Min(hits)].state = "active"

Target(s, sel, e) ==
    s.diags[Min({i \in 1..Len(s.diags) : Selects(sel, e, s.diags[i].ext)})].ext

(* Mutant: the handlers stay in the executor. *)
StopKeepsHandlers(s, f) ==
    [s EXCEPT !.tools = @ \ {f},
              !.reviewer = IF @.ext = f THEN NoReviewer ELSE @,
              !.diags = [i \in 1..Len(@) |->
                           IF @[i].ext = f /\ @[i].state = "active"
                             THEN Diag(f, "stopped", @[i].gen + 1) ELSE @[i]]]

Stop(s, f) ==
    [s EXCEPT !.tools = @ \ {f}, !.exec[f] = 0,
              !.reviewer = IF @.ext = f THEN NoReviewer ELSE @,
              !.diags = [i \in 1..Len(@) |->
                           IF @[i].ext = f /\ @[i].state = "active"
                             THEN Diag(f, "stopped", @[i].gen + 1) ELSE @[i]]]

(* Mutant: stopping the reviewer does not bump the counter. *)
CountStopNot(s, f) == cells

CountStop(s, f) ==
    IF s.reviewer.ext = f THEN [cells EXCEPT ![s.cell] = @ + 1] ELSE cells

(* matches_package_record: diagnostics of the same id, package root or     *)
(* source_ref are replaced together; no two have the same manifest path.   *)
SameRecord(e, f) == e = f \/ Package[e] = Package[f] \/ Source[e] = Source[f]

NextGen(s, e) ==
    1 + Max({0} \cup {s.diags[i].gen : i \in {j \in 1..Len(s.diags) :
                                               SameRecord(e, s.diags[j].ext)}})

(* The diagnostics that stay when e is reloaded (Vec::retain). *)
Retained(ds, e) ==
    LET upTo[i \in 0..Len(ds)] ==
          IF i = 0 THEN <<>>
          ELSE IF SameRecord(e, ds[i].ext) THEN upTo[i - 1]
          ELSE Append(upTo[i - 1], ds[i])
    IN  upTo[Len(ds)]

(* Mutant: reloading leaves the handlers of the retired host routed. *)
RetireKeepsHandlers(s, e) ==
    [s EXCEPT !.tools = @ \ {e},
              !.diags = Retained(@, e)]

(* reload_extension_from_record before a host is started: the tools of e   *)
(* leave the registry, the handlers of all it replaces the executor.       *)
Retire(s, e) ==
    [s EXCEPT !.tools = @ \ {e},
              !.exec = [f \in Exts |-> IF SameRecord(e, f) THEN 0 ELSE @[f]],
              !.diags = Retained(@, e)]

(* The snapshot after a reload; `up' says whether the host registers.  A   *)
(* reload that does not get so far leaves the reviewer as it was.          *)
Reloaded(s, e, allowed, up) ==
    LET r == Retire(s, e)
        g == NextGen(s, e)
    IN  IF e \in Project \/ (e \notin Passive /\ ~allowed)
          THEN Mark(r, e, "blocked", g)
        ELSE IF e \in Passive THEN Mark(r, e, "discovered", g)
        ELSE IF up THEN Activate(r, e, g, hosts + 1)
        ELSE Mark(r, e, "failed", g)

Starts(e, allowed) == e \notin Project \cup Passive /\ allowed

-----------------------------------------------------------------------------
(***************************************************************************)
(* The scan and the background activation.                                 *)
(***************************************************************************)

(* FirstRenderCompleted schedules the scan once. *)
FirstRender ==
    /\ index = "none" /\ index' = "scanning"
    /\ UNCHANGED <<granted, bg, snap, cells, hosts, waiting, commands, outside,
                   turn, turnsBegun, down, revoked>>

ScanEnds ==
    /\ index = "scanning"
    /\ \/ /\ index' = "done" /\ bg' = [bg EXCEPT !.pc = "record", !.left = Order]
       \/ index' = "failed" /\ UNCHANGED bg
    /\ UNCHANGED <<granted, snap, cells, hosts, waiting, commands, outside, turn,
                   turnsBegun, down, revoked>>

(* The checks made on one record before its host is started. *)
BackgroundRecord ==
    /\ bg.pc = "record" /\ bg.left # <<>>
    /\ LET e == Head(bg.left)
           skip(state) == [bg EXCEPT !.left = Tail(@),
                                     !.snap = Mark(@, e, state, 0)]
       IN bg' = IF e \in Project THEN skip("blocked")
                ELSE IF e \in Passive THEN skip("discovered")
                ELSE IF ~Gate(e) THEN skip("blocked")
                ELSE [bg EXCEPT !.pc = "start"]
    /\ UNCHANGED <<granted, index, snap, cells, hosts, waiting, commands, outside,
                   turn, turnsBegun, down, revoked>>

BackgroundStart ==
    /\ bg.pc = "start"
    /\ LET e == Head(bg.left) IN
       \/ /\ bg' = [bg EXCEPT !.pc = "record", !.left = Tail(@),
                              !.snap = Activate(@, e, 0, hosts + 1)]
          /\ cells' = Count(bg.snap, e, 0) /\ hosts' = hosts + 1
       \/ /\ bg' = [bg EXCEPT !.pc = "record", !.left = Tail(@),
                              !.snap = Mark(@, e, "failed", 0)]
          /\ UNCHANGED <<cells, hosts>>
    /\ UNCHANGED <<granted, index, snap, waiting, commands, outside, turn,
                   turnsBegun, down, revoked>>

(* The shared snapshot is replaced whole, unless the task panicked. *)
BackgroundInstalls ==
    /\ bg.pc = "record" /\ bg.left = <<>>
    /\ snap' = bg.snap \/ snap' = snap
    /\ bg' = [pc |-> "done", left |-> <<>>, snap |-> Empty(1)]
    /\ UNCHANGED <<granted, index, cells, hosts, waiting, commands, outside, turn,
                   turnsBegun, down, revoked>>

-----------------------------------------------------------------------------
(***************************************************************************)
(* Lifecycle commands.                                                     *)
(***************************************************************************)

(* The record a selector names: the first of those it matches. *)
Record(sel, e) ==
    IF sel \in {"source", "root"}
      THEN Order[Min({i \in 1..Len(Order) : Selects(sel, e, Order[i])})]
      ELSE e

(* Reload and trust need a discovered package; revoke works by id without  *)
(* one.  The task is put on a thread that waits for the snapshot.          *)
Command(c) ==
    /\ commands < MaxCommands /\ commands' = commands + 1
    /\ index = "done" \/ (c.kind = "revoke" /\ c.sel = "id")
    /\ waiting' = waiting \cup {c}
    /\ UNCHANGED <<granted, index, bg, snap, cells, hosts, outside, turn,
                   turnsBegun, down, revoked>>

(* Stop runs in the loop. *)
StopCommand(sel, e) ==
    LET f == Target(snap, sel, e) IN
    /\ commands < MaxCommands /\ commands' = commands + 1
    /\ Stoppable(snap, sel, e)
    /\ snap' = Stop(snap, f) /\ cells' = CountStop(snap, f)
    /\ down' = IF bg.pc = "done" THEN down \cup {f} ELSE down
    /\ UNCHANGED <<granted, index, bg, hosts, waiting, outside, turn, turnsBegun,
                   revoked>>

(* What a reload does to the snapshot, under the authority `g'. *)
ReloadWith(e, g) ==
    LET allowed == e \in Privileged => e \in g IN
    \E up \in BOOLEAN :
        /\ snap' = Reloaded(snap, e, allowed, up)
        /\ up => Starts(e, allowed)
        /\ cells' = IF up THEN Count(snap, e, NextGen(snap, e)) ELSE cells
        /\ hosts' = IF up THEN hosts + 1 ELSE hosts
        /\ down' = down \ {e}

Run(c) == c \in waiting /\ waiting' = waiting \ {c}

RunReload(c) ==
    /\ c.kind = "reload" /\ Run(c)
    /\ ReloadWith(Record(c.sel, c.ext), granted)
    /\ UNCHANGED <<granted, index, bg, commands, outside, turn, turnsBegun, revoked>>

(* The grant is written, then the extension reloaded; if the write fails,  *)
(* or its durability is unknown, nothing is reloaded.  An extension that   *)
(* requests nothing is left alone.                                         *)
RunTrust(c) ==
    LET e == Record(c.sel, c.ext) IN
    /\ c.kind = "trust" /\ Run(c)
    /\ \/ /\ e \in Privileged /\ granted' = granted \cup {e}
          /\ ReloadWith(e, granted') /\ revoked' = revoked \ {e}
       \/ /\ e \in Privileged /\ granted' = granted \cup {e}
          /\ revoked' = revoked \ {e} /\ UNCHANGED <<snap, cells, hosts, down>>
       \/ UNCHANGED <<granted, snap, cells, hosts, down, revoked>>
    /\ UNCHANGED <<index, bg, commands, outside, turn, turnsBegun>>

(* The grant is cleared, then what the selector finds is stopped, and      *)
(* whether that worked is not looked at.  After an uncertain write nothing *)
(* is stopped.                                                             *)
RunRevoke(c) ==
    LET e == Record(c.sel, c.ext)
        stop == Stoppable(snap, c.sel, c.ext)
        f == Target(snap, c.sel, c.ext)
    IN
    /\ c.kind = "revoke" /\ Run(c)
    /\ \/ /\ granted' = granted \ {e} /\ revoked' = revoked \cup {e}
          /\ snap' = IF stop THEN Stop(snap, f) ELSE snap
          /\ cells' = IF stop THEN CountStop(snap, f) ELSE cells
          /\ down' = IF bg.pc = "done" /\ c.sel = "id" THEN down \cup {e} ELSE down
       \/ /\ granted' = granted \ {e}
          /\ UNCHANGED <<revoked, snap, cells, down>>
       \/ UNCHANGED <<granted, revoked, snap, cells, down>>
    /\ UNCHANGED <<index, bg, hosts, commands, outside, turn, turnsBegun>>

(* `yach extension trust' and `revoke' in another process: they write the  *)
(* decision only.  External to the session.                                *)
OutsideDecision(e) ==
    /\ outside < MaxOutside /\ outside' = outside + 1
    /\ e \in Privileged
    /\ granted' = IF e \in granted THEN granted \ {e} ELSE granted \cup {e}
    /\ revoked' = IF e \in granted' THEN revoked \ {e} ELSE revoked
    /\ UNCHANGED <<index, bg, snap, cells, hosts, waiting, commands, turn,
                   turnsBegun, down>>

-----------------------------------------------------------------------------
(***************************************************************************)
(* Turns.  A prompt's task clones the snapshot; the clone shares the       *)
(* handlers, the reviewer and its counter.                                 *)
(***************************************************************************)
BeginTurn ==
    /\ ~turn.on /\ turnsBegun < MaxTurns /\ turnsBegun' = turnsBegun + 1
    /\ turn' = [NoTurn EXCEPT !.on = TRUE, !.snap = snap]
    /\ UNCHANGED <<granted, index, bg, snap, cells, hosts, waiting, commands,
                   outside, down, revoked>>

(* The coordinator notes the counter when it sends a request... *)
SendReview ==
    /\ turn.on /\ ~turn.review.sent /\ turn.snap.reviewer # NoReviewer
    /\ turn' = [turn EXCEPT !.review = [sent |-> TRUE,
                                        gen |-> cells[turn.snap.cell],
                                        seat |-> snap.reviewer.host],
                            !.judge = NoJudge]
    /\ UNCHANGED <<granted, index, bg, snap, cells, hosts, waiting, commands,
                   outside, turnsBegun, down, revoked>>

(* ...and takes the answer only if it has not moved since. *)
TakeReview ==
    /\ turn.review.sent
    /\ turn' = [turn EXCEPT
                  !.review = NoReview,
                  !.judge = IF turn.review.gen = cells[turn.snap.cell]
                              THEN [by |-> turn.snap.reviewer.host,
                                    then |-> turn.review.seat,
                                    now |-> snap.reviewer.host,
                                    same |-> turn.snap.cell = snap.cell]
                              ELSE NoJudge]
    /\ UNCHANGED <<granted, index, bg, snap, cells, hosts, waiting, commands,
                   outside, turnsBegun, down, revoked>>

EndTurn ==
    /\ turn.on /\ turn' = NoTurn
    /\ UNCHANGED <<granted, index, bg, snap, cells, hosts, waiting, commands,
                   outside, turnsBegun, down, revoked>>

-----------------------------------------------------------------------------
Next ==
    \/ FirstRender \/ ScanEnds
    \/ BackgroundRecord \/ BackgroundStart \/ BackgroundInstalls
    \/ \E c \in Commands : Command(c)
    \/ \E sel \in Selectors, e \in Exts : StopCommand(sel, e)
    \/ \E c \in waiting : RunReload(c) \/ RunTrust(c) \/ RunRevoke(c)
    \/ \E e \in Exts : OutsideDecision(e)
    \/ BeginTurn \/ SendReview \/ TakeReview \/ EndTurn

Spec == Init /\ [][Next]_vars

-----------------------------------------------------------------------------
(***************************************************************************)
(* Properties.                                                             *)
(***************************************************************************)
ActiveIn(s) == {s.diags[i].ext : i \in {j \in 1..Len(s.diags) :
                                          s.diags[j].state = "active"}}

(* No other extension has the package root or the source_ref of e. *)
Alone(e) == \A f \in Exts : SameRecord(e, f) => f = e

(* The parts of a snapshot agree, the shared one, the clone of a turn and  *)
(* the one being built: the extensions that diagnostics call active are    *)
(* those routed to a host, and their tools are in the registry, through    *)
(* every failed, blocked or repeated reload (extension.rs:961-1127).       *)
(* Tools outlive their host for an extension only that shares its package  *)
(* or source_ref, when another of the record is reloaded: its diagnostic   *)
(* is gone then, and its tools stay, with no handler behind them.          *)
SnapshotAgrees ==
    \A s \in {snap, turn.snap, bg.snap} :
        LET routed == {e \in Exts : s.exec[e] # 0} IN
        /\ routed = ActiveIn(s) \ Reviewers
        /\ routed \subseteq s.tools
        /\ \A e \in s.tools \ routed :
             ~Alone(e) /\ \A i \in 1..Len(s.diags) : s.diags[i].ext # e

(* What was stopped, or revoked by its id, once the background activation  *)
(* is in place stays down until it is reloaded or trusted again: nothing   *)
(* that finishes late brings it back.                                      *)
StaysDown == \A e \in down : e \notin ActiveIn(snap) /\ snap.exec[e] = 0

(* The reviewers of a session, which extension.rs:2701-2735 does not limit *)
(* to one, count their generations apart and in one counter.               *)
OneReviewer == \A r, q \in Reviewers : r = q

(* A review is acted on only if the reviewer process in the seat has been  *)
(* the same since it was sent: what was stopped or replaced while the      *)
(* review ran has its answer discarded (coordinator.rs:358-367), however   *)
(* reloads fail or are blocked in between, and of whatever other extension *)
(* of the record they are.  The turn's clone must share the counter of the *)
(* seat, which the background activation replaces; and the session has one *)
(* reviewer, whose generations only grow: with two, the second may come to *)
(* the generation of the first.                                            *)
SeatKept == turn.judge.same => turn.judge.then = turn.judge.now
ReviewUndisturbed == OneReviewer => SeatKept

(* A review that is acted on comes from the process in the seat, so a      *)
(* response from a previous process is stale (extension.rs:735-736).       *)
ReviewFresh == turn.judge.same => turn.judge.by = turn.judge.now

(* After a revocation that succeeded, nothing in the snapshot uses a host  *)
(* of the extension until it is granted again.                             *)
RevokeStopsHost ==
    \A e \in revoked :
        e \notin ActiveIn(snap) /\ snap.exec[e] = 0 /\ snap.reviewer.ext # e

=============================================================================
