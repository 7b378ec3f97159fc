------------------------------ MODULE TuiScreens ------------------------------
(***************************************************************************)
(* What the TUI shows and lets the user do                                 *)
(* (crates/yach-ui/src/app.rs), against the backend it talks to: the       *)
(* screen (mode), the connection dialog, the local edit from its composer  *)
(* to its decision, whether a response is awaited, the model shown and the *)
(* one deferred while the response is awaited, and the hand-off from a     *)
(* model change to the thinking selector.                                  *)
(*                                                                         *)
(* Keys and backend events are handled one at a time; a backend event can  *)
(* change the screen under the user's hands.  The two channels are FIFO    *)
(* and unbounded, so every event can be late.  The backend (runner.rs) is  *)
(* kept to what it answers.  Tool reviews are in ShellAuthority, deltas    *)
(* and resets in ProviderTurn.                                             *)
(***************************************************************************)
EXTENDS Integers, Sequences, FiniteSets

CONSTANTS
    Models,         \* the models that can be selected, positive numbers
    MaxUiPrompts,   \* bound on the prompts submitted
    MaxUiEdits,     \* bound on the local edits requested
    MaxUiSelects,   \* bound on the model changes requested
    MaxUiDialogs,   \* bound on the dialogs the connection flow shows
    MaxUnderWay,    \* bound on the client events under way at once
    MaxUiFaults     \* bound on the upsets: failed appends, late ends of a turn's task,
                    \* prompts answered without a provider while a turn runs

ASSUME ScreensAssumption ==
    /\ Models \subseteq Nat \ {0} /\ Models # {}
    /\ MaxUiPrompts \in Nat /\ MaxUiEdits \in Nat /\ MaxUiSelects \in Nat
    /\ MaxUiDialogs \in Nat /\ MaxUnderWay \in Nat /\ MaxUiFaults \in Nat

VARIABLES
    ui,         \* the App: see UiInit
    toLoop,     \* client events under way
    toUi,       \* backend events under way
    turn,       \* the backend's turn: "none", "running" or "finishing"
    inForce,    \* the model the backend runs, or 0: it has no provider
    activating, \* the request for a model it is working on, if any
    previews,   \* the edit previews it holds
    kept,       \* ghost: those it holds since a decision on them failed
    flow,       \* the connection flow: "none", "working" or "asking"
    spent,      \* how much of the bounds is used
    uiFaults    \* ghost: how many upsets happened so far

tuiVars ==
    <<ui, toLoop, toUi, turn, inForce, activating, previews, kept, flow, spent, uiFaults>>
loopVars == <<turn, inForce, activating, previews, kept, flow, uiFaults>>

Msg(k, v, of) == [k |-> k, v |-> v, of |-> of]
NoMsg         == Msg("none", 0, 0)

Screens == {"normal", "select", "compose", "review", "dialog"}

ScreensTypeOK ==
    /\ ui.mode \in Screens /\ ui.stream \in {"idle", "streaming", "cancelled"}
    /\ ui.showing \in 0..MaxUiEdits /\ ui.request \in 0..MaxUiEdits
    /\ ui.preview \in 0..MaxUiEdits /\ ui.submitted \in BOOLEAN
    /\ ui.dialog \in 0..MaxUiDialogs
    /\ ui.model \in Models /\ ui.pending \in Models \cup {0}
    /\ ui.handoff \in 0..MaxUiSelects /\ ui.ready \in BOOLEAN
    /\ turn \in {"none", "running", "finishing"} /\ inForce \in Models \cup {0}
    /\ activating = NoMsg \/ activating.v \in Models
    /\ previews \subseteq 1..MaxUiEdits /\ kept \subseteq 1..MaxUiEdits
    /\ flow \in {"none", "working", "asking"} /\ uiFaults \in 0..MaxUiFaults

\* mode, and for a review the preview it shows; active_dialog; the three fields of
\* a local edit; stream_state; model and pending_model; pending_thinking_handoff.
UiInit(m) ==
    [mode |-> "normal", showing |-> 0, dialog |-> 0, request |-> 0, preview |-> 0,
     submitted |-> FALSE, stream |-> "idle", model |-> m, pending |-> 0,
     handoff |-> 0, ready |-> FALSE]

TuiInit ==
    /\ inForce \in Models /\ ui = UiInit(inForce)
    /\ toLoop = <<>> /\ toUi = <<>> /\ turn = "none" /\ activating = NoMsg
    /\ previews = {} /\ kept = {} /\ flow = "none"
    /\ spent = [prompts |-> 0, edits |-> 0, selects |-> 0, dialogs |-> 0]
    /\ uiFaults = 0

UiFault == uiFaults < MaxUiFaults /\ uiFaults' = uiFaults + 1

-----------------------------------------------------------------------------
(***************************************************************************)
(* The App's own helpers.                                                  *)
(***************************************************************************)

\* backend_busy.
Busy(u) == u.stream # "idle"

\* has_local_edit_in_flight.
EditInFlight(u) == u.request # 0 \/ u.preview # 0 \/ u.submitted

\* set_stream_state(Idle), which applies what was deferred.
ToIdle(u) ==
    [u EXCEPT !.stream = "idle", !.pending = 0,
              !.model = IF u.pending # 0 THEN u.pending ELSE u.model]

\* maybe_open_pending_thinking_handoff, after every key and every event.
HandOff(u) ==
    IF /\ u.handoff # 0 /\ u.ready /\ u.mode = "normal" /\ u.dialog = 0
       /\ u.request = 0 /\ ~u.submitted /\ ~Busy(u)
      THEN [u EXCEPT !.handoff = 0, !.mode = "select"]
      ELSE u

\* A model reported by the backend is shown now, or when the response is over.
ShowModel(u, m) == IF Busy(u) THEN [u EXCEPT !.pending = m] ELSE [u EXCEPT !.model = m]

Sends(e)  == Len(toLoop) < MaxUnderWay /\ toLoop' = Append(toLoop, e)
Key(u)    == ui' = HandOff(u) /\ UNCHANGED <<toUi, loopVars>>
Spend(f, max) == spent[f] < max /\ spent' = [spent EXCEPT ![f] = @ + 1]

-----------------------------------------------------------------------------
(***************************************************************************)
(* Keys.                                                                   *)
(***************************************************************************)

\* submit_input with a prompt.
SubmitInput ==
    /\ ui.mode = "normal" /\ ~Busy(ui)
    /\ Spend("prompts", MaxUiPrompts)
    /\ Sends(Msg("prompt", 0, 0))
    /\ Key([ui EXCEPT !.stream = "streaming"])

\* cancel_streaming_prompt, from the keys that reach handle_normal_key.
CancelStreaming ==
    /\ ui.mode = "normal" \/ (ui.mode = "review" /\ ui.submitted)
    /\ ui.stream = "streaming"
    /\ Sends(Msg("cancel", 0, 0))
    /\ Key([ui EXCEPT !.stream = "cancelled"])
    /\ UNCHANGED spent

OpenSelector ==
    /\ ui.mode = "normal" /\ ~Busy(ui)
    /\ Key([ui EXCEPT !.mode = "select"])
    /\ UNCHANGED <<toLoop, spent>>

\* A selector closes, with a model requested or not.
CloseSelector ==
    /\ ui.mode = "select"
    /\ \/ Key([ui EXCEPT !.mode = "normal"]) /\ UNCHANGED <<toLoop, spent>>
       \/ /\ ~Busy(ui) /\ Spend("selects", MaxUiSelects)
          /\ \E m \in Models : Sends(Msg("select", m, spent.selects + 1))
          /\ Key([ui EXCEPT !.mode = "normal", !.handoff = spent.selects + 1,
                            !.ready = FALSE])

\* request_connections.
RequestConnections ==
    /\ ui.mode = "normal" /\ ~Busy(ui) /\ spent.dialogs < MaxUiDialogs
    /\ Sends(Msg("connect", 0, 0))
    /\ Key([ui EXCEPT !.handoff = 0])
    /\ UNCHANGED spent

\* submit_dialog_response and clear_dialog.
AnswerDialog ==
    /\ ui.mode = "dialog"
    /\ Sends(Msg("resolved", 0, ui.dialog))
    /\ Key([ui EXCEPT !.mode = "normal", !.dialog = 0])
    /\ UNCHANGED spent

\* Mutant: the composer opens while an edit is under way.
ComposeAnyway ==
    /\ ui.mode = "normal" /\ ~Busy(ui)
    /\ Key([ui EXCEPT !.mode = "compose"])
    /\ UNCHANGED <<toLoop, spent>>

\* open_local_edit_composer.
Compose ==
    /\ ui.mode = "normal" /\ ~Busy(ui) /\ ~EditInFlight(ui)
    /\ Key([ui EXCEPT !.mode = "compose"])
    /\ UNCHANGED <<toLoop, spent>>

\* The composer is left, or sends its edit (submit_local_edit_prepare).
LeaveComposer ==
    /\ ui.mode = "compose"
    /\ \/ Key([ui EXCEPT !.mode = "normal"]) /\ UNCHANGED <<toLoop, spent>>
       \/ /\ Spend("edits", MaxUiEdits)
          /\ Sends(Msg("prepare", 0, spent.edits + 1))
          /\ Key([ui EXCEPT !.mode = "normal", !.request = spent.edits + 1, !.preview = 0,
                            !.submitted = FALSE])

\* submit_local_edit_review; the review stays on the screen until the answer comes.
Decide ==
    /\ ui.mode = "review" /\ ~ui.submitted
    /\ Sends(Msg("decide", 0, ui.showing))
    /\ Key([ui EXCEPT !.request = 0, !.submitted = TRUE])
    /\ UNCHANGED spent

-----------------------------------------------------------------------------
(***************************************************************************)
(* Backend events: handle_server_event.                                    *)
(***************************************************************************)

\* Mutant: once it is cancelled, a prompt's end is ignored like its deltas.
FinishIgnored(u) == IF u.stream = "cancelled" THEN u ELSE ToIdle(u)

\* PromptFinished.
PromptFinished(u) == ToIdle(u)

\* LocalEditPreviewReady: only for the request that is pending.
PreviewReady(u, e) ==
    IF u.request # e.v THEN u
    ELSE [u EXCEPT !.request = 0, !.preview = e.of, !.submitted = FALSE,
                   !.mode = "review", !.showing = e.of]

\* LocalEditFinished: for the active preview, or, without one, for the request.
EditFinished(u, p) ==
    IF (p # 0 /\ u.preview # p) \/ (p = 0 /\ u.request = 0) THEN u
    ELSE [u EXCEPT !.request = 0, !.preview = 0, !.submitted = FALSE, !.mode = "normal"]

\* The App after one event.  StateUpdated says "not streaming" whatever runs.
Handled(u, e) ==
    CASE e.k = "state"     -> ToIdle(ShowModel(u, e.v))
      [] e.k = "activated" -> [ShowModel(u, e.v) EXCEPT !.ready = @ \/ u.handoff = e.of]
      [] e.k = "refused"   -> [u EXCEPT !.handoff = IF @ = e.of THEN 0 ELSE @]
      [] e.k = "required"  -> [u EXCEPT !.handoff = 0]
      [] e.k = "delta"     -> IF Busy(u) THEN u ELSE [u EXCEPT !.stream = "streaming"]
      [] e.k = "ended"     -> ToIdle(u)
      [] e.k = "finished"  -> PromptFinished(u)
      [] e.k = "preview"   -> PreviewReady(u, e)
      [] e.k = "edited"    -> EditFinished(u, e.of)
      [] e.k = "dialog"    -> [u EXCEPT !.mode = "dialog", !.dialog = e.of]

UiReceives ==
    /\ toUi # <<>>
    /\ ui' = HandOff(Handled(ui, Head(toUi))) /\ toUi' = Tail(toUi)
    /\ UNCHANGED <<toLoop, spent, loopVars>>

-----------------------------------------------------------------------------
(***************************************************************************)
(* The backend, as far as the TUI can tell.                                *)
(***************************************************************************)

Tells(es) == toUi' = toUi \o es
Ending    == <<Msg("ended", 0, 0), Msg("finished", 0, 0)>>

\* PromptSubmitted: refused with a PromptFinished while a model is being activated,
\* and without a provider, even if a turn still runs; with a status only while a turn
\* has not ended; otherwise the turn starts, which turn_start announces, or its first
\* append fails.
TakeUiPrompt ==
    /\ \/ /\ activating # NoMsg \/ inForce = 0
          /\ Tells(<<Msg("finished", 0, 0)>>)
          /\ IF activating = NoMsg /\ turn # "none" THEN UiFault ELSE UNCHANGED uiFaults
          /\ UNCHANGED turn
       \/ /\ activating = NoMsg /\ inForce # 0 /\ turn # "none"
          /\ UNCHANGED <<toUi, turn, uiFaults>>
       \/ /\ activating = NoMsg /\ inForce # 0 /\ turn = "none"
          /\ Tells(<<Msg("delta", 0, 0)>>)
          /\ \/ turn' = "running" /\ UNCHANGED uiFaults
             \/ UiFault /\ UNCHANGED turn
    /\ UNCHANGED <<inForce, activating, previews, kept, flow>>

\* PromptCancelled: the turn ends cancelled, by its task or by the loop.
TakeUiCancel ==
    /\ turn' = "none"
    /\ IF turn = "running" THEN Tells(Ending) ELSE UNCHANGED toUi
    /\ UNCHANGED <<inForce, activating, previews, kept, flow, uiFaults>>

\* ModelActivationRequested: refused during a turn or another change, which the
\* flow at work may be.
TakeSelect(e) ==
    /\ \/ /\ turn # "none" \/ activating # NoMsg \/ flow = "working"
          /\ Tells(<<Msg("refused", 0, e.of)>>) /\ UNCHANGED activating
       \/ turn = "none" /\ activating = NoMsg /\ activating' = e /\ UNCHANGED toUi
    /\ UNCHANGED <<turn, inForce, previews, kept, flow, uiFaults>>

\* handle_native_local_edit_prepare.
TakePrepare(r) ==
    /\ \/ /\ previews' = previews \cup {r} /\ kept' = kept \ {r}
          /\ Tells(<<Msg("preview", r, r)>>)
       \/ UNCHANGED <<previews, kept>> /\ Tells(<<Msg("edited", 0, 0)>>)
    /\ UNCHANGED <<turn, inForce, activating, flow, uiFaults>>

\* handle_native_local_edit_decision: the preview is gone, or its evidence could not be
\* appended, and it is held on.  The answer ends the review either way.
TakeDecision(p) ==
    /\ \/ previews' = previews \ {p} /\ UNCHANGED <<kept, uiFaults>>
       \/ UiFault /\ kept' = kept \cup {p} /\ UNCHANGED previews
    /\ Tells(<<Msg("edited", 0, p)>>)
    /\ UNCHANGED <<turn, inForce, activating, flow>>

\* ConnectionsRequested starts the flow over; an answer to its latest dialog ends
\* it or sets it to work; an answer to an older one is ignored.
TakeConnect ==
    /\ flow' = "working"
    /\ UNCHANGED <<toUi, turn, inForce, activating, previews, kept, uiFaults>>

TakeResolved(d) ==
    /\ IF flow = "asking" /\ d = spent.dialogs THEN flow' \in {"none", "working"}
                                               ELSE UNCHANGED flow
    /\ UNCHANGED <<toUi, turn, inForce, activating, previews, kept, uiFaults>>

UiLoopTakes ==
    /\ toLoop # <<>> /\ toLoop' = Tail(toLoop)
    /\ LET e == Head(toLoop)
       IN  \/ e.k = "prompt" /\ TakeUiPrompt
           \/ e.k = "cancel" /\ TakeUiCancel
           \/ e.k = "select" /\ TakeSelect(e)
           \/ e.k = "prepare" /\ TakePrepare(e.of)
           \/ e.k = "decide" /\ TakeDecision(e.of)
           \/ e.k = "connect" /\ TakeConnect
           \/ e.k = "resolved" /\ TakeResolved(e.of)
    /\ UNCHANGED <<ui, spent>>

\* A finished activation: reported and followed by the backend's state, or refused.
ActivationEnds ==
    /\ activating # NoMsg
    /\ \/ /\ inForce' = activating.v
          /\ Tells(<<Msg("activated", activating.v, activating.of),
                     Msg("state", activating.v, 0)>>)
       \/ Tells(<<Msg("refused", 0, activating.of)>>) /\ UNCHANGED inForce
    /\ activating' = NoMsg
    /\ UNCHANGED <<ui, toLoop, turn, previews, kept, flow, spent, uiFaults>>

\* ShowDialog: a list, a question, a device code, a result; or the flow is done; or
\* the connection the user chose to remove is the active model's, which takes the
\* provider away (ModelSelectionRequired).
FlowGoesOn ==
    /\ flow = "working"
    /\ \/ /\ Spend("dialogs", MaxUiDialogs) /\ flow' = "asking"
          /\ Tells(<<Msg("dialog", 0, spent.dialogs + 1)>>) /\ UNCHANGED inForce
       \/ flow' = "none" /\ UNCHANGED <<toUi, spent, inForce>>
       \/ /\ spent.dialogs > 0 /\ inForce # 0 /\ inForce' = 0
          /\ Tells(<<Msg("required", 0, 0)>>) /\ UNCHANGED <<flow, spent>>
    /\ UNCHANGED <<ui, toLoop, turn, activating, previews, kept, uiFaults>>

\* The turn's task streams, ends, and returns at once or a little later.
TurnGoesOn ==
    /\ \/ /\ turn = "running" /\ toUi = <<>> /\ Tells(<<Msg("delta", 0, 0)>>)
          /\ UNCHANGED <<turn, uiFaults>>
       \/ turn = "running" /\ Tells(Ending) /\ turn' = "none" /\ UNCHANGED uiFaults
       \/ turn = "running" /\ Tells(Ending) /\ turn' = "finishing" /\ UiFault
       \/ turn = "finishing" /\ turn' = "none" /\ UNCHANGED <<toUi, uiFaults>>
    /\ UNCHANGED <<ui, toLoop, inForce, activating, previews, kept, flow, spent>>

-----------------------------------------------------------------------------
TuiNext ==
    \/ SubmitInput \/ CancelStreaming \/ OpenSelector \/ CloseSelector
    \/ RequestConnections \/ AnswerDialog \/ Compose \/ LeaveComposer \/ Decide
    \/ UiReceives
    \/ UiLoopTakes \/ ActivationEnds \/ FlowGoesOn \/ TurnGoesOn

TuiSpec == TuiInit /\ [][TuiNext]_tuiVars

-----------------------------------------------------------------------------
Quiet == toLoop = <<>> /\ toUi = <<>>

\* The previews the backend holds for the user: all but those a failed decision left.
Held == previews \ kept

(***************************************************************************)
(* The backend never holds more than one of the user's previews, but for   *)
(* those whose decision it could not record (it keeps them for good, with  *)
(* their review ended), a decision under way is the only one for a preview *)
(* it still holds, and the review on the screen is of the preview waiting  *)
(* for the user, whatever dialogs and late answers did to the screen in    *)
(* between (has_local_edit_in_flight, should_accept_local_edit_preview,    *)
(* submit_local_edit_review).                                              *)
(***************************************************************************)
EditsOneByOne ==
    /\ Cardinality(Held) <= 1
    /\ \A i \in DOMAIN toLoop : toLoop[i].k = "decide" =>
          /\ toLoop[i].of \in Held
          /\ \A j \in DOMAIN toLoop : toLoop[j] = toLoop[i] => i = j
    /\ ui.mode = "review" => ui.showing = ui.preview

(***************************************************************************)
(* With nothing under way the TUI waits for a response if and only if the  *)
(* backend runs a turn, unless an append failed, a prompt met a task that  *)
(* had not returned yet, or one was answered for want of a provider while  *)
(* a turn ran: prompts refused, cancelled, or overtaken by a backend state *)
(* that was sent before them and says that nothing streams                 *)
(* (StreamState, apply_backend_state, begin_streaming_if_idle).            *)
(***************************************************************************)
TurnIsShown == (Quiet /\ uiFaults = 0) => (Busy(ui) <=> turn # "none")

(***************************************************************************)
(* With nothing under way the model shown, or the one deferred until the   *)
(* response is over, is the one the backend runs, if it runs one           *)
(* (apply_pending_backend_state).  When the connection of the active model *)
(* is removed the backend runs none, and the screen keeps the removed one: *)
(* ModelSelectionRequired only sets the status line.                       *)
(***************************************************************************)
ShownIsInForce ==
    (Quiet /\ inForce # 0) => inForce = IF ui.pending # 0 THEN ui.pending ELSE ui.model

(***************************************************************************)
(* The two together: once every message under way has arrived, the screen  *)
(* agrees with the backend about the turn and about the model, with the    *)
(* exceptions above.                                                       *)
(***************************************************************************)
UiSettles == TurnIsShown /\ ShownIsInForce

(***************************************************************************)
(* A local edit that waits for the user can be decided.  Violated: a       *)
(* dialog of the connection flow takes the screen from the review, nothing *)
(* brings it back, and every further /edit is told to wait for it.         *)
(***************************************************************************)
EditCanBeDecided ==
    (Quiet /\ ui.preview # 0 /\ ~ui.submitted) => ui.mode \in {"review", "dialog"}
=============================================================================
