--------------------------- MODULE ModelActivation ---------------------------
(***************************************************************************)
(* The model-activation half of the native runner loop                     *)
(* (crates/yach-backend/src/runner.rs, run_native_loop_with_requester_-    *)
(* factory) together with the part of the /connect reducer it depends on   *)
(* (crates/yach-backend/src/provider_connections.rs).                      *)
(*                                                                         *)
(* The loop is one task and alone changes the state below, so each handler *)
(* is one step.  Activations and connection mutations are tasks it spawns, *)
(* on any thread; a task first touches the connection store (one step) and *)
(* its outcome is then queued, to be delivered to the loop in any order    *)
(* with respect to everything else.                                        *)
(*                                                                         *)
(* An Option is a set of at most one element: {} is None.                  *)
(***************************************************************************)
EXTENDS Integers, FiniteSets

CONSTANTS
    Conns,          \* connection identities
    Environment,    \* the read-only connections taken from the environment
    Models,         \* model ids
    Sessions,       \* session logs the client can select
    Requests,       \* request ids of explicit model activations
    Kinds,          \* mutation kinds the user performs
    MaxGen,         \* bound on activation_generation
    MaxMutations    \* bound on the number of connection mutations

AllKinds == {"edit", "remove", "replace", "login"}

ASSUME ConstantsAssumption ==
    /\ Environment \subseteq Conns
    /\ Kinds \subseteq AllKinds
    /\ MaxGen \in Nat
    /\ MaxMutations \in Nat

Option(S) == {{}} \cup {{x} : x \in S}
Target == [conn : Conns, model : Models]

VARIABLES
    hasRuntime,     \* connection_runtime.is_some(), fixed at startup
    rendered,       \* first_render_completed
    provider,       \* Option(Target): the installed ProviderConfig
    setupError,     \* provider_setup_error.is_some()
    flowActive,     \* Option(Target): connection_flow.active
    pending,        \* Option: connection_flow.pending_mutation
    form,           \* Option: the staged EnteringReplaceSecret dialog
    mutTasks,       \* mutation tasks and their queued outcomes
    mutCount,       \* mutations started so far
    registry,       \* stored connections with a usable credential
    actGen,         \* activation_generation
    inFlight,       \* Option: activation_in_flight
    actTasks,       \* activation tasks and their queued outcomes
    turn,           \* is a provider turn running?
    session,        \* current_session_id
    logTarget,      \* per session, log.model_target()
    asked,          \* ghost: what each explicit request asked for
    replies,        \* ghost: the ModelActivationFinished sent for it
    gone            \* ghost: connections whose removal was acknowledged

flowVars == <<pending, form, mutTasks, mutCount>>
actVars  == <<actGen, inFlight, actTasks>>
vars == <<hasRuntime, rendered, provider, setupError, flowActive, pending,
          form, mutTasks, mutCount, registry, actGen, inFlight, actTasks,
          turn, session, logTarget, asked, replies, gone>>

Activation == [gen : 1..MaxGen, req : Option(Requests), target : Target,
               persist : BOOLEAN]
ActTask    == [gen : 1..MaxGen, target : Target,
               stage : {"reading", "activated", "failed"}]
Staged     == [conn : Conns, model : Option(Models)]
Mutation   == [kind : AllKinds, conn : Conns, model : Option(Models)]
MutTask    == [id : 1..MaxMutations, kind : AllKinds, conn : Conns,
               model : Option(Models), stage : {"running", "ok", "failed"}]

TypeOK ==
    /\ hasRuntime \in BOOLEAN
    /\ rendered \in BOOLEAN
    /\ provider \in Option(Target)
    /\ setupError \in BOOLEAN
    /\ flowActive \in Option(Target)
    /\ pending \in Option(Mutation)
    /\ form \in Option(Staged)
    /\ mutTasks \subseteq MutTask
    /\ mutCount \in 0..MaxMutations
    /\ registry \subseteq Conns
    /\ actGen \in 0..MaxGen
    /\ inFlight \in Option(Activation)
    /\ actTasks \subseteq ActTask
    /\ turn \in {"idle", "running"}
    /\ session \in Sessions
    /\ logTarget \in [Sessions -> Option(Target)]
    /\ asked \in [Requests -> Option(Target)]
    /\ replies \in [Requests -> {"none", "activated", "failed", "twice"}]
    /\ gone \subseteq Conns

-----------------------------------------------------------------------------
(***************************************************************************)
(* Helpers of the handlers.                                                *)
(***************************************************************************)

OnConn(opt, c) == \E t \in opt : t.conn = c

\* send_model_change_failed / ModelActivationFinished for the request of an
\* in-flight record; a background activation (request_id 0) has none.
Reply(reqs, verdict) ==
    replies' = [r \in Requests |->
                  IF r \notin reqs THEN replies[r]
                  ELSE IF replies[r] = "none" THEN verdict ELSE "twice"]

NoReply == UNCHANGED replies

RequestsOf(activations) == UNION {a.req : a \in activations}

\* schedule_model_activation, and the same steps in ModelActivationRequested:
\* advance the generation, overwrite the in-flight record, spawn the task.
Schedule(t, req, persist) ==
    /\ actGen < MaxGen
    /\ actGen' = actGen + 1
    /\ inFlight' = {[gen |-> actGen + 1, req |-> req, target |-> t,
                     persist |-> persist]}
    /\ actTasks' = actTasks \cup {[gen |-> actGen + 1, target |-> t,
                                   stage |-> "reading"]}

\* resolve_session_model_target: the logged target, else what the configured
\* default or the last provider metadata resolves to, which may be nothing
\* (Ok(None)) or a resolution failure (Err).
Resolutions(s) ==
    IF logTarget[s] # {}
    THEN {[ok |-> TRUE, target |-> logTarget[s]]}
    ELSE {[ok |-> FALSE, target |-> {}], [ok |-> TRUE, target |-> {}]}
         \cup {[ok |-> TRUE, target |-> {t}] :
                 t \in {u \in Target : u.conn \in registry \cup Environment}}

\* store.append_event of SessionModelChanged, followed by session_log.push.
Record(s, t) == logTarget' = [logTarget EXCEPT ![s] = {t}]

-----------------------------------------------------------------------------
(***************************************************************************)
(* Startup: the launcher hands over a provider, a setup error or neither;  *)
(* a session log may or may not already name a model.                      *)
(***************************************************************************)
Init ==
    /\ hasRuntime \in BOOLEAN
    /\ rendered = FALSE
    /\ registry \in SUBSET (Conns \ Environment)
    /\ provider \in Option({t \in Target : t.conn \in registry \cup Environment})
    /\ setupError \in BOOLEAN
    /\ provider # {} => ~setupError
    /\ flowActive = provider
    /\ pending = {} /\ form = {} /\ mutTasks = {} /\ mutCount = 0
    /\ actGen = 0 /\ inFlight = {} /\ actTasks = {}
    /\ turn = "idle"
    /\ session \in Sessions
    /\ logTarget \in [Sessions -> Option(Target)]
    \* without a runtime, startup records the configured provider itself
    /\ ~hasRuntime /\ provider # {} => logTarget[session] # {}
    /\ asked = [r \in Requests |-> {}]
    /\ replies = [r \in Requests |-> "none"]
    /\ gone = {}

\* ClientEvent::FirstRenderCompleted, target already installed: record it if
\* the log names none; a failed append drops the provider.
KeepActive(t) ==
    /\ UNCHANGED actVars
    /\ \/ /\ IF logTarget[session] = {} THEN Record(session, t)
                                        ELSE UNCHANGED logTarget
          /\ flowActive' = {t} /\ setupError' = FALSE
          /\ UNCHANGED provider
       \/ /\ logTarget[session] = {}
          /\ provider' = {} /\ flowActive' = {} /\ setupError' = TRUE
          /\ UNCHANGED logTarget

\* ... target not installed: uninstall whatever is, and activate it.
ActivateRestored(t) ==
    /\ provider' = {} /\ flowActive' = {} /\ setupError' = FALSE
    /\ Schedule(t, {}, logTarget[session] = {})
    /\ UNCHANGED logTarget

\* ... nothing to restore.
NothingToRestore(resolved) ==
    /\ IF resolved
       THEN /\ setupError' = (setupError \/ provider = {})
            /\ UNCHANGED <<provider, flowActive>>
       ELSE provider' = {} /\ flowActive' = {} /\ setupError' = TRUE
    /\ UNCHANGED <<actVars, logTarget>>

FirstRender ==
    /\ rendered' = TRUE
    /\ IF ~hasRuntime
       THEN UNCHANGED <<provider, setupError, flowActive, actVars, logTarget>>
       ELSE \E res \in Resolutions(session) :
              LET wanted == IF res.ok /\ res.target = {} THEN provider
                                                         ELSE res.target
              IN  \/ wanted = {} /\ NothingToRestore(res.ok)
                  \/ \E t \in wanted :
                       IF provider = {t} THEN KeepActive(t)
                                         ELSE ActivateRestored(t)
    /\ UNCHANGED <<hasRuntime, flowVars, registry, turn, session, asked, gone>>
    /\ NoReply

\* ClientEvent::SessionSelected and SessionPathSelected, once the selected log
\* has loaded.  With a runtime the provider is dropped before the new log's
\* target is resolved; Ok(None) falls back to the provider just dropped.
RestoreSelected(s, res) ==
    LET wanted == IF res.ok /\ res.target = {} THEN provider ELSE res.target
    IN  /\ provider' = {} /\ flowActive' = {}
        /\ setupError' = (wanted = {})
        /\ \/ wanted = {} /\ UNCHANGED actVars
           \/ \E t \in wanted : Schedule(t, {}, logTarget[s] = {})
        /\ UNCHANGED logTarget

\* ... without a runtime the configured provider stays and is recorded.
RecordSelected(s) ==
    /\ UNCHANGED <<flowActive, actVars>>
    /\ IF logTarget[s] # {} \/ provider = {}
       THEN UNCHANGED <<provider, setupError, logTarget>>
       ELSE \/ /\ \E t \in provider : Record(s, t)
               /\ UNCHANGED <<provider, setupError>>
            \/ /\ provider' = {} /\ setupError' = TRUE
               /\ UNCHANGED logTarget

SelectSession(s) ==
    /\ turn = "idle"
    /\ session' = s
    /\ IF hasRuntime
       THEN \E res \in Resolutions(s) : RestoreSelected(s, res)
       ELSE RecordSelected(s)
    /\ UNCHANGED <<hasRuntime, rendered, flowVars, registry, turn, asked,
                   gone>>
    /\ NoReply

-----------------------------------------------------------------------------
(***************************************************************************)
(* Explicit activations: ClientEvent::ModelActivationRequested.            *)
(***************************************************************************)

Refused ==
    \/ turn = "running"
    \/ pending # {}
    \/ inFlight # {}

RequestRefused(r, t) ==
    /\ Reply({r}, "failed")
    /\ UNCHANGED <<provider, logTarget, actVars>>

\* A target that is not in the advertised catalog is refused.  The catalog
\* lags the registry (see ModelRefresh), so either answer is possible.
RequestAccepted(r, t) ==
    /\ ~Refused /\ hasRuntime
    /\ Schedule(t, {r}, TRUE)
    /\ NoReply
    /\ UNCHANGED <<provider, logTarget>>

\* Without a runtime only another model of the configured connection can be
\* chosen (prepare_native_model_selection), synchronously.
RequestDirect(r, t) ==
    /\ ~Refused /\ ~hasRuntime
    /\ OnConn(provider, t.conn)
    /\ Record(session, t)
    /\ provider' = {t}
    /\ Reply({r}, "activated")
    /\ UNCHANGED actVars

RequestActivation(r, t) ==
    /\ asked[r] = {}
    /\ asked' = [asked EXCEPT ![r] = {t}]
    /\ RequestRefused(r, t) \/ RequestAccepted(r, t) \/ RequestDirect(r, t)
    /\ UNCHANGED <<hasRuntime, rendered, setupError, flowActive, flowVars,
                   registry, turn, session, gone>>

\* runtime.activate: the environment connection always activates; a stored one
\* activates only if its record and credential are there when they are read.
ActivationReads(k) ==
    /\ k.stage = "reading"
    /\ \E outcome \in {"activated", "failed"} :
         /\ outcome = "activated" => k.target.conn \in registry \cup Environment
         /\ outcome = "failed" => k.target.conn \notin Environment
         /\ actTasks' = (actTasks \ {k}) \cup {[k EXCEPT !.stage = outcome]}
    /\ UNCHANGED <<hasRuntime, rendered, provider, setupError, flowActive,
                   flowVars, registry, actGen, inFlight, turn, session,
                   logTarget, asked, gone>>
    /\ NoReply

\* Mutant: the candidate is installed whether or not the append succeeded.
InstallsUnrecorded(k, a) ==
    /\ k.stage = "activated" /\ turn = "idle" /\ k.target = a.target
    /\ Record(session, k.target) \/ UNCHANGED logTarget
    /\ flowActive' = {k.target} /\ provider' = {k.target}
    /\ setupError' = FALSE
    /\ Reply(a.req, "activated")

\* NativeLoopEvent::Activation.  The in-flight record is taken before the
\* generations are compared.
ActivationInstalls(k, a) ==
    /\ k.stage = "activated" /\ turn = "idle" /\ k.target = a.target
    /\ IF a.persist THEN Record(session, k.target) ELSE UNCHANGED logTarget
    /\ flowActive' = {k.target} /\ provider' = {k.target}
    /\ setupError' = FALSE
    /\ Reply(a.req, "activated")

ActivationFails(k, a) ==
    \* a running turn, a failed activation, another target, a failed append
    /\ \/ turn = "running"
       \/ k.stage = "failed"
       \/ k.target # a.target
       \/ a.persist
    /\ Reply(a.req, "failed")
    /\ UNCHANGED <<provider, setupError, flowActive, logTarget>>

\* Mutant: a failed outcome is reported without taking the in-flight record.
DeliverKeepsRecord(k) ==
    /\ k.stage # "reading"
    /\ actTasks' = actTasks \ {k}
    /\ \/ /\ \A a \in inFlight : a.gen # k.gen \/ k.gen # actGen
          /\ NoReply
          /\ UNCHANGED <<provider, setupError, flowActive, logTarget, inFlight>>
       \/ \E a \in inFlight :
            /\ a.gen = k.gen /\ k.gen = actGen
            /\ \/ ActivationInstalls(k, a) /\ inFlight' = {}
               \/ ActivationFails(k, a) /\ UNCHANGED inFlight
    /\ UNCHANGED <<hasRuntime, rendered, flowVars, registry, actGen, turn,
                   session, asked, gone>>

DeliverActivation(k) ==
    /\ k.stage # "reading"
    /\ actTasks' = actTasks \ {k}
    /\ inFlight' = {}
    /\ \/ /\ \A a \in inFlight : a.gen # k.gen \/ k.gen # actGen
          /\ NoReply
          /\ UNCHANGED <<provider, setupError, flowActive, logTarget>>
       \/ \E a \in inFlight :
            /\ a.gen = k.gen /\ k.gen = actGen
            /\ ActivationInstalls(k, a) \/ ActivationFails(k, a)
    /\ UNCHANGED <<hasRuntime, rendered, flowVars, registry, actGen, turn,
                   session, asked, gone>>

-----------------------------------------------------------------------------
(***************************************************************************)
(* Connection mutations: the /connect dialogs, their tasks and outcomes.   *)
(***************************************************************************)

\* select_action "replace": the dialog captures the active model if the
\* connection backs it.
StageReplace(c) ==
    /\ rendered /\ hasRuntime /\ "replace" \in Kinds
    /\ c \in registry
    /\ form' = {[conn |-> c,
                 model |-> {t.model : t \in {u \in flowActive : u.conn = c}}]}
    /\ UNCHANGED <<hasRuntime, rendered, provider, setupError, flowActive,
                   pending, mutTasks, mutCount, registry, actVars, turn,
                   session, logTarget, asked, gone>>
    /\ NoReply

\* What the user can start: a login may also run during a turn.
Startable(kind, c, model) ==
    /\ kind \in Kinds
    /\ c \notin Environment
    /\ c \notin gone
    /\ kind # "login" => turn = "idle"
    /\ kind = "remove" => c \in registry
    /\ IF kind = "replace" THEN [conn |-> c, model |-> model] \in form
                           ELSE model = {}

\* Mutant: the in-flight activation is failed but not retired.
StartMutationNotRetiring(kind, c, model) ==
    /\ rendered /\ hasRuntime
    /\ Startable(kind, c, model)
    /\ pending = {}
    /\ mutCount < MaxMutations
    /\ pending' = {[kind |-> kind, conn |-> c, model |-> model]}
    /\ form' = {}
    /\ mutCount' = mutCount + 1
    /\ mutTasks' = mutTasks \cup {[id |-> mutCount + 1, kind |-> kind,
                                   conn |-> c, model |-> model,
                                   stage |-> "running"]}
    /\ Reply(RequestsOf(inFlight), "failed")
    /\ UNCHANGED <<hasRuntime, rendered, provider, setupError, flowActive,
                   registry, actVars, turn, session, logTarget, asked, gone>>

\* start_mutation, then ConnectionFlowEffect::StartMutation: the activation
\* generation is retired and an in-flight activation is failed.
StartMutation(kind, c, model) ==
    /\ rendered /\ hasRuntime
    /\ Startable(kind, c, model)
    /\ pending = {}
    /\ mutCount < MaxMutations /\ actGen < MaxGen
    /\ pending' = {[kind |-> kind, conn |-> c, model |-> model]}
    /\ form' = {}
    /\ mutCount' = mutCount + 1
    /\ mutTasks' = mutTasks \cup {[id |-> mutCount + 1, kind |-> kind,
                                   conn |-> c, model |-> model,
                                   stage |-> "running"]}
    /\ actGen' = actGen + 1
    /\ inFlight' = {}
    /\ Reply(RequestsOf(inFlight), "failed")
    /\ UNCHANGED <<hasRuntime, rendered, provider, setupError, flowActive,
                   registry, actTasks, turn, session, logTarget, asked, gone>>

\* The runtime's create/repair/rename/replace/remove/login against the store.
MutationCommits(m) ==
    /\ m.stage = "running"
    /\ \/ /\ registry' = (IF m.kind = "remove" THEN registry \ {m.conn}
                                               ELSE registry \cup {m.conn})
          /\ mutTasks' = (mutTasks \ {m}) \cup {[m EXCEPT !.stage = "ok"]}
       \/ /\ UNCHANGED registry
          /\ mutTasks' = (mutTasks \ {m}) \cup {[m EXCEPT !.stage = "failed"]}
    /\ UNCHANGED <<hasRuntime, rendered, provider, setupError, flowActive,
                   pending, form, mutCount, actVars, turn, session, logTarget,
                   asked, gone>>
    /\ NoReply

\* complete_mutation: outcomes carry no identity, the pending one is settled.
\* Success of a pending removal drops an active target on that connection.
CompleteMutation(ok) ==
    /\ pending' = {}
    /\ flowActive' = {t \in flowActive :
                        ~\E p \in pending : ok /\ p.kind = "remove"
                                               /\ p.conn = t.conn}
    /\ form' = IF pending = {} THEN form
               ELSE IF ok THEN {}
               ELSE {[conn |-> p.conn, model |-> p.model] :
                       p \in {q \in pending : q.kind = "replace"}}

\* Mutant: the provider of a removed connection is left installed.
SettleNothing(m) == UNCHANGED <<provider, setupError>>

\* ConnectionRuntimeUpdate::Mutation: a provider whose connection is no longer
\* the flow's active one is dropped.
SettleProvider(m) ==
    IF \E t \in provider : ~OnConn(flowActive', t.conn)
    THEN provider' = {} /\ setupError' = TRUE
    ELSE UNCHANGED <<provider, setupError>>

\* ConnectionRuntimeUpdate::Replacement: a candidate on the provider's own
\* connection is installed.
InstallReplacement(m) ==
    /\ provider' = IF m.stage = "ok" /\ m.model # {} /\ OnConn(provider, m.conn)
                   THEN {[conn |-> m.conn, model |-> x] : x \in m.model}
                   ELSE provider
    /\ UNCHANGED setupError

DeliverMutation(m) ==
    /\ m.stage # "running"
    /\ mutTasks' = mutTasks \ {m}
    /\ CompleteMutation(m.stage = "ok")
    /\ IF m.kind = "replace" THEN InstallReplacement(m) ELSE SettleProvider(m)
    /\ gone' = IF m.kind = "remove" /\ m.stage = "ok" THEN gone \cup {m.conn}
                                                      ELSE gone
    /\ UNCHANGED <<hasRuntime, rendered, mutCount, registry, actVars, turn,
                   session, logTarget, asked>>
    /\ NoReply

\* CancelChatGptLogin: the login task is aborted; an outcome it has already
\* sent stays queued, and a store write already under way still happens.
CancelLogin ==
    /\ \E p \in pending : p.kind = "login"
    /\ pending' = {}
    /\ LET aborted == {m \in mutTasks : m.kind = "login" /\ m.stage = "running"}
       IN  /\ mutTasks' = mutTasks \ aborted
           /\ \/ UNCHANGED registry
              \/ registry' = registry \cup {m.conn : m \in aborted}
    /\ UNCHANGED <<hasRuntime, rendered, provider, setupError, flowActive,
                   form, mutCount, actVars, turn, session, logTarget, asked,
                   gone>>
    /\ NoReply

-----------------------------------------------------------------------------
(***************************************************************************)
(* Prompts: ClientEvent::PromptSubmitted and the end of a turn.            *)
(***************************************************************************)

\* The path a prompt submitted now takes.
PromptPath ==
    CASE inFlight # {} -> "resolving"
      [] inFlight = {} /\ provider # {} -> "provider"
      [] inFlight = {} /\ provider = {} /\ setupError -> "unconfigured"
      [] OTHER -> "fixture"

SubmitPrompt ==
    /\ PromptPath = "provider" /\ turn = "idle"
    /\ turn' = "running"
    /\ UNCHANGED <<hasRuntime, rendered, provider, setupError, flowActive,
                   flowVars, registry, actVars, session, logTarget, asked,
                   gone>>
    /\ NoReply

\* The turn task finishes or is cancelled.
FinishTurn ==
    /\ turn = "running"
    /\ turn' = "idle"
    /\ UNCHANGED <<hasRuntime, rendered, provider, setupError, flowActive,
                   flowVars, registry, actVars, session, logTarget, asked,
                   gone>>
    /\ NoReply

-----------------------------------------------------------------------------
\* Clients send FirstRenderCompleted once, after their first frame (yach-ui
\* app.rs) or at start (headless.rs).
Client ==
    \/ ~rendered /\ FirstRender
    \/ \E s \in Sessions : SelectSession(s)
    \/ \E r \in Requests, t \in Target : RequestActivation(r, t)
    \/ \E c \in Conns : StageReplace(c)
    \/ \E kind \in Kinds, c \in Conns, model \in Option(Models) :
         StartMutation(kind, c, model)
    \/ CancelLogin
    \/ SubmitPrompt

Tasks ==
    \/ \E k \in actTasks : ActivationReads(k) \/ DeliverActivation(k)
    \/ \E m \in mutTasks : MutationCommits(m) \/ DeliverMutation(m)
    \/ FinishTurn

Next == Client \/ Tasks

\* Spawned tasks finish and the loop's select! drains its channels.
Fairness ==
    /\ WF_vars(\E k \in actTasks : ActivationReads(k) \/ DeliverActivation(k))
    /\ WF_vars(\E m \in mutTasks : MutationCommits(m) \/ DeliverMutation(m))

Spec == Init /\ [][Next]_vars /\ Fairness

-----------------------------------------------------------------------------
(***************************************************************************)
(* Properties.                                                             *)
(***************************************************************************)

\* An in-flight record is always the newest generation, no mutation has been
\* started since, and the task that will answer it is outstanding: the record
\* that blocks prompts and model changes can never be an orphan.
InFlightIsLive ==
    \A a \in inFlight :
      /\ a.gen = actGen
      /\ pending # {} => a.req = {}
      /\ \E k \in actTasks : k.gen = a.gen /\ k.target = a.target

\* The gate PromptSubmitted and ModelActivationRequested check always reopens.
GateReopens == []<>(inFlight = {})

\* One ModelActivationFinished per request at most, whoever ends it (the
\* outcome, a refusal, or the mutation that cancels it): nothing is answered
\* before it is asked, and a request still in flight has not been answered.
AnsweredAtMostOnce ==
    /\ \A r \in Requests : replies[r] # "twice"
    /\ \A r \in Requests : asked[r] = {} => replies[r] = "none"
    /\ \A a \in inFlight : \A r \in a.req : asked[r] # {} /\ replies[r] = "none"

\* A request reported as activated is, at that very step, what the provider
\* runs and what the current session's log will restore.
ActivatedIsInstalled ==
    [][\A r \in Requests :
         (replies'[r] = "activated" /\ replies[r] # "activated")
           => provider' = asked'[r] /\ logTarget'[session'] = asked'[r]]_vars

\* The reducer's active target and the runner's provider name the same
\* connection: the removal check reads the one to decide about the other
\* (provider_connections.rs:811: "the runner drops its cached provider when the
\* flow's active target disappears").
FlowTracksProvider ==
    hasRuntime => {t.conn : t \in provider} = {t.conn : t \in flowActive}

\* The outcome of a replacement settles a removal that was started after it.
\* That takes a third mutation, a cancelled login whose outcome settled the
\* replacement: outcomes carry no identity.
MixedOutcome ==
    \E m \in mutTasks \ mutTasks', p \in pending :
        m.kind = "replace" /\ m.stage = "ok" /\ p.kind = "remove"

\* No other step ever parts the two, which agree at the start.
FlowTracksUnlessMixed ==
    [][FlowTracksProvider /\ ~MixedOutcome => FlowTracksProvider']_vars

\* docs/project/specs/2026-08-26-model-defaults-session-state-design.md:81:
\* "Runtime activation is valid only when it agrees with the session
\* projection."
SessionAgrees ==
    hasRuntime /\ rendered /\ provider # {} => logTarget[session] = provider

\* Same document, line 289: "the backend does not accept a prompt until target
\* resolution reaches either an active or explicit unresolved state": while
\* the newest activation is still under way, prompts are held back.
PromptWaitsForResolution ==
    (\E k \in actTasks : k.gen = actGen) => inFlight # {}

\* runner.rs:3732: an unconfigured prompt fails "with the provider setup error
\* instead of producing fixture output".
PromptNeverEchoed == hasRuntime /\ rendered => PromptPath # "fixture"

\* runner.rs:1775: "the cached provider must not outlive its removed
\* credential".
RemovedNeverActive == \A c \in gone : ~OnConn(provider, c)

\* provider_connections.rs:1014: mutation_in_flight is "Whether a connection
\* mutation has been accepted and awaits completion."
MutationIsPending ==
    (\E m \in mutTasks : m.stage = "running") => pending # {}
=============================================================================
