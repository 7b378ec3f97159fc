------------------------------ MODULE HostSession ------------------------------
(***************************************************************************)
(* One extension host process and the session that talks to it over its    *)
(* pipes: ExtensionHostSession and ExtensionProcessHostTransport           *)
(* (crates/yach-backend/src/extension.rs), with the request ids the runner *)
(* gives the calls (runner.rs).                                            *)
(*                                                                         *)
(* A session serves either tools or reviews (a reviewer may declare no     *)
(* tools).  It lives for many turns.  A call sends one request and reads   *)
(* messages until its answer, an error or the deadline; nothing drains     *)
(* what the host says afterwards.  The ids are "tool-request-R-I": they    *)
(* grow within a turn and start again in the next, so an id is a number    *)
(* here and `ref' is the ghost identity of a call.                         *)
(***************************************************************************)
EXTENDS Integers, Sequences, FiniteSets

CONSTANTS
    Declared,       \* the tools a tool extension's manifest declares
    Names,          \* the names its host may try to register
    MaxTurns,       \* bound on the turns
    MaxCalls,       \* bound on the calls, and on the request ids of a turn
    MaxMessages,    \* messages one call reads (64 in the code)
    MaxAsks,        \* bound on the resource ids the host uses
    MaxSaid,        \* bound on the lines of the host that wait to be read
    PipeLines       \* lines the host's standard input holds unread

ASSUME HostAssumption ==
    /\ Declared \subseteq Names /\ IsFiniteSet(Declared)
    /\ MaxTurns \in Nat \ {0} /\ MaxCalls \in Nat /\ MaxMessages \in Nat \ {0}
    /\ MaxAsks \in Nat /\ MaxSaid \in Nat /\ PipeLines \in Nat

VARIABLES
    kind,       \* "tool" or "review"
    phase,      \* "none", "spawned", "ready", "register", "review", "active", "failed"
    staged,     \* registrations accepted so far, in order
    registry,   \* the extension's tools in the registry clone
    channel,    \* lines the reader thread has queued for the session
    inbox,      \* lines written to the host's standard input
    hostUp,     \* is the host process running?
    serving,    \* the call the host works on, or NoCall
    asking,     \* the resource id the host waits for, 0 if none
    turn,       \* the current turn
    lastId,     \* the last request id this turn has used
    turnOver,   \* a failed tool call ends its turn
    call,       \* the call in progress (it holds the session), or NoCall
    madeIn,     \* ghost: the turn of every call made so far, in order
    delivered   \* ghost: <<call, the call its answer was made for>>

hostVars == <<kind, phase, staged, registry, channel, inbox, hostUp, serving, asking,
              turn, lastId, turnOver, call, madeIn, delivered>>

handshake == <<kind, phase, staged, registry>>
process   == <<hostUp, serving, asking>>
turns     == <<turn, lastId, turnOver>>

Ids    == 1..MaxCalls
Refs   == 1..MaxCalls
Asks   == 0..MaxAsks
NoCall == [ref |-> 0, id |-> 0, seen |-> {}, read |-> 0, wanted |-> FALSE]
Calls  == [ref : Refs, id : Ids, seen : SUBSET Asks, read : 0..MaxMessages,
           wanted : BOOLEAN]

Msg(k, i, r, n) == [kind |-> k, id |-> i, ref |-> r, name |-> n]
None == "none"
ServerKinds == {"ready", "register", "review_ready", "result", "resource", "junk"}
ClientKinds == {"initialize", "invoke", "resource_result"}

HostTypeOK ==
    /\ kind \in {"tool", "review"}
    /\ phase \in {"none", "spawned", "ready", "register", "review", "active", "failed"}
    /\ staged \in Seq(Declared) /\ registry \subseteq Declared
    /\ channel \in Seq([kind : ServerKinds, id : 0..(MaxCalls + MaxAsks),
                        ref : 0..MaxCalls, name : Names \cup {None}])
    /\ inbox \in Seq([kind : ClientKinds, id : 0..(MaxCalls + MaxAsks),
                      ref : 0..MaxCalls, name : {None}])
    /\ hostUp \in BOOLEAN /\ turnOver \in BOOLEAN
    /\ serving \in [ref : 0..MaxCalls, id : 0..MaxCalls] /\ asking \in Asks
    /\ turn \in 1..MaxTurns /\ lastId \in 0..MaxCalls
    /\ call \in Calls \cup {NoCall}
    /\ madeIn \in Seq(1..MaxTurns) /\ delivered \subseteq Refs \X Refs

made == Len(madeIn)
Idle == [ref |-> 0, id |-> 0]

HostInit ==
    /\ kind = "tool" /\ phase = "none"
    /\ staged = <<>> /\ registry = {}
    /\ channel = <<>> /\ inbox = <<>>
    /\ hostUp = FALSE /\ serving = Idle /\ asking = 0
    /\ turn = 1 /\ lastId = 0 /\ turnOver = FALSE
    /\ call = NoCall /\ madeIn = <<>> /\ delivered = {}

-----------------------------------------------------------------------------
(***************************************************************************)
(* The handshake: initialize_and_register.                                 *)
(***************************************************************************)
Live == phase # "failed"

(* A write fails once the host has gone. *)
Send(m) == IF hostUp THEN inbox' = Append(inbox, m) ELSE UNCHANGED inbox

(* send is a write_all without a deadline: while the line does not fit     *)
(* into the pipe, the thread that wrote it waits for the host to read or   *)
(* to exit, and does nothing else.                                         *)
Stuck == hostUp /\ Len(inbox) > PipeLines

(* The process is started; that may fail. *)
Spawn(k) ==
    /\ phase = "none"
    /\ kind' = k
    /\ \/ phase' = "spawned" /\ hostUp' = TRUE
       \/ phase' = "failed" /\ hostUp' = FALSE
    /\ UNCHANGED <<staged, registry, channel, inbox, serving, asking, turns, call, madeIn,
                   delivered>>

Initialize ==
    /\ phase = "spawned"
    /\ phase' = IF hostUp THEN "ready" ELSE "failed"
    /\ Send(Msg("initialize", 0, 0, None))
    /\ UNCHANGED <<kind, staged, registry, channel, process, turns, call, madeIn,
                   delivered>>

DeclaredTools == IF kind = "tool" THEN Declared ELSE {}

(* What follows the registrations: the reviewer's own handshake, if any. *)
AfterTools == IF kind = "review" THEN "review" ELSE "active"

ReceiveReady(m) ==
    /\ phase = "ready"
    /\ phase' = IF m.kind # "ready" THEN "failed"
                ELSE IF DeclaredTools = {} THEN AfterTools ELSE "register"
    /\ UNCHANGED <<staged, registry>>

(* bind_registration_to_manifest, staging, and, once as many registrations *)
(* as the manifest declares tools have come, the checks for duplicates and *)
(* the registration itself, which the registry refuses if a name is not    *)
(* `free': a core tool or another extension's has it.  A host that names a *)
(* risk other than the declared one is refused like an undeclared tool:    *)
(* "junk" covers it.                                                       *)
ReceiveRegister(m) ==
    LET all == Append(staged, m.name)
        whole == Len(all) = Cardinality(DeclaredTools)
        distinct == \A i, j \in 1..Len(all) : i # j => all[i] # all[j]
    IN
    /\ phase = "register"
    /\ \E free \in BOOLEAN :
       IF m.kind # "register" \/ m.name \notin DeclaredTools
         THEN phase' = "failed" /\ UNCHANGED <<staged, registry>>
       ELSE IF ~whole
         THEN phase' = phase /\ staged' = all /\ UNCHANGED registry
       ELSE IF ~distinct \/ ~free
         THEN phase' = "failed" /\ staged' = all /\ UNCHANGED registry
       ELSE /\ phase' = AfterTools /\ staged' = all
            /\ registry' = {all[i] : i \in 1..Len(all)}

ReceiveReviewReady(m) ==
    /\ phase = "review"
    /\ phase' = IF m.kind = "review_ready" THEN "active" ELSE "failed"
    /\ UNCHANGED <<staged, registry>>

Handshake ==
    /\ ~Stuck /\ channel # <<>>
    /\ \/ ReceiveReady(Head(channel))
       \/ ReceiveRegister(Head(channel))
       \/ ReceiveReviewReady(Head(channel))
    /\ channel' = Tail(channel)
    /\ UNCHANGED <<kind, inbox, process, turns, call, madeIn, delivered>>

(* Mutant: only the first answer has a deadline. *)
HandshakeTimesOutOnce ==
    /\ phase = "ready" /\ channel = <<>> /\ ~Stuck
    /\ phase' = "failed"
    /\ UNCHANGED <<kind, staged, registry, channel, inbox, process, turns, call,
                   madeIn, delivered>>

(* registration_timeout, or the host exits before it is done.  The session *)
(* is dropped either way.                                                  *)
HandshakeTimesOut ==
    /\ phase \in {"ready", "register", "review"} /\ channel = <<>> /\ ~Stuck
    /\ phase' = "failed"
    /\ UNCHANGED <<kind, staged, registry, channel, inbox, process, turns, call,
                   madeIn, delivered>>

(* Dropping the transport kills the process group. *)
Drop ==
    /\ phase = "failed" /\ hostUp
    /\ hostUp' = FALSE
    /\ UNCHANGED <<handshake, channel, inbox, serving, asking, turns, call, madeIn,
                   delivered>>

-----------------------------------------------------------------------------
(***************************************************************************)
(* Calls: invoke_tool and review.                                          *)
(***************************************************************************)
Wanted(r, i) == [ref |-> r, id |-> i, seen |-> {}, read |-> 0, wanted |-> TRUE]

(* A call ends; a failed tool call ends its turn as well *)
(* (tool_round_execution_failed), a failed review does not. *)
Close(failed) ==
    /\ call' = NoCall
    /\ turnOver' = (turnOver \/ (failed /\ kind = "tool" /\ call.wanted))
    /\ UNCHANGED <<turn, lastId>>

(* The session's mutex is free: the request is written.  If the pipe is    *)
(* broken the call fails where it stands.                                  *)
StartCall(i) ==
    /\ phase = "active" /\ call = NoCall /\ ~turnOver
    /\ made < MaxCalls /\ i > lastId
    /\ madeIn' = Append(madeIn, turn) /\ lastId' = i
    /\ IF hostUp
         THEN /\ inbox' = Append(inbox, Msg("invoke", i, made + 1, None))
              /\ call' = Wanted(made + 1, i) /\ UNCHANGED turnOver
         ELSE /\ turnOver' = (kind = "tool") /\ UNCHANGED <<inbox, call>>
    /\ UNCHANGED <<handshake, channel, process, turn, delivered>>

(* Mutant: any result is the answer. *)
TakeAnyResult(m) ==
    /\ m.kind = "result"
    /\ Close(FALSE)
    /\ delivered' = IF call.wanted THEN delivered \cup {<<call.ref, m.ref>>}
                    ELSE delivered
    /\ UNCHANGED inbox

(* The answer is taken if its id is the id asked for and it is not too     *)
(* large.                                                                  *)
TakeResult(m) ==
    /\ m.kind = "result"
    /\ \E fits \in BOOLEAN :
          LET taken == m.id = call.id /\ fits IN
          /\ Close(~taken)
          /\ delivered' = IF taken /\ call.wanted
                            THEN delivered \cup {<<call.ref, m.ref>>} ELSE delivered
    /\ UNCHANGED inbox

(* A resource id must be new to this call.  The answer is written with the *)
(* same send.                                                              *)
TakeResource(m) ==
    /\ m.kind = "resource"
    /\ IF m.id = 0 \/ m.id \in call.seen \/ ~hostUp
         THEN Close(TRUE) /\ UNCHANGED inbox
         ELSE /\ inbox' = Append(inbox, Msg("resource_result", m.id, 0, None))
              /\ call' = [call EXCEPT !.seen = @ \cup {m.id}, !.read = @ + 1]
              /\ UNCHANGED turns
    /\ UNCHANGED delivered

TakeOther(m) ==
    /\ m.kind \notin {"result", "resource"}
    /\ Close(TRUE) /\ UNCHANGED <<inbox, delivered>>

Receive ==
    /\ call # NoCall /\ call.read < MaxMessages /\ channel # <<>> /\ ~Stuck
    /\ \/ TakeResult(Head(channel))
       \/ TakeResource(Head(channel))
       \/ TakeOther(Head(channel))
    /\ channel' = Tail(channel)
    /\ UNCHANGED <<handshake, process, madeIn>>

(* The deadline is checked before every read, so a call may time out with  *)
(* its answer in the channel; a host that has exited, also during a write, *)
(* fails the call alike, and so does the last message a call may read.     *)
CallTimesOut ==
    /\ call # NoCall /\ ~Stuck
    /\ Close(TRUE)
    /\ UNCHANGED <<handshake, channel, inbox, process, madeIn, delivered>>

(* A cancelled prompt drops the future that awaits a review; the thread    *)
(* that holds the session reads on.  A tool call blocks its turn's thread  *)
(* and cannot be left.                                                     *)
EndTurn ==
    /\ phase = "active" /\ turn < MaxTurns
    /\ call # NoCall => kind = "review"
    /\ turn' = turn + 1 /\ lastId' = 0 /\ turnOver' = FALSE
    /\ call' = IF call = NoCall THEN NoCall ELSE [call EXCEPT !.wanted = FALSE]
    /\ UNCHANGED <<handshake, channel, inbox, process, madeIn, delivered>>

-----------------------------------------------------------------------------
(***************************************************************************)
(* The host process: external.  It serves one request at a time in the     *)
(* order of its input, may ask for resources and wait for them, answers    *)
(* each request with the id it was given, late or never, and may say       *)
(* anything while it registers.                                            *)
(***************************************************************************)
Say(m) == hostUp /\ Len(channel) < MaxSaid /\ channel' = Append(channel, m)

HostRegisters ==
    /\ phase \in {"ready", "register", "review"}
    /\ \/ Say(Msg("ready", 0, 0, None))
       \/ \E n \in Names : Say(Msg("register", 0, 0, n))
       \/ Say(Msg("review_ready", 0, 0, None))
       \/ Say(Msg("junk", 0, 0, None))
    /\ UNCHANGED <<handshake, inbox, process, turns, call, madeIn, delivered>>

HostReads ==
    /\ hostUp /\ inbox # <<>>
    /\ LET m == Head(inbox) IN
       /\ m.kind = "invoke" => serving = Idle
       /\ serving' = IF m.kind = "invoke" THEN [ref |-> m.ref, id |-> m.id]
                     ELSE serving
       /\ asking' = IF m.kind = "resource_result" /\ m.id = asking THEN 0
                    ELSE asking
    /\ inbox' = Tail(inbox)
    /\ UNCHANGED <<handshake, channel, hostUp, turns, call, madeIn, delivered>>

HostAsks ==
    /\ serving # Idle /\ asking = 0
    /\ \E i \in 1..MaxAsks :
          Say(Msg("resource", i, serving.ref, None)) /\ asking' = i
    /\ UNCHANGED <<handshake, inbox, hostUp, serving, turns, call, madeIn, delivered>>

HostAnswers ==
    /\ serving # Idle /\ asking = 0
    /\ Say(Msg("result", serving.id, serving.ref, None))
    /\ serving' = Idle
    /\ UNCHANGED <<handshake, inbox, hostUp, asking, turns, call, madeIn, delivered>>

HostExits ==
    /\ hostUp /\ Live
    /\ hostUp' = FALSE /\ serving' = Idle /\ asking' = 0
    /\ UNCHANGED <<handshake, channel, inbox, turns, call, madeIn, delivered>>

-----------------------------------------------------------------------------
HostNext ==
    \/ \E k \in {"tool", "review"} : Spawn(k)
    \/ Initialize \/ Handshake \/ HandshakeTimesOut \/ Drop
    \/ \E i \in Ids : StartCall(i)
    \/ Receive \/ CallTimesOut \/ EndTurn
    \/ HostRegisters \/ HostReads \/ HostAsks \/ HostAnswers \/ HostExits

(* The session's own steps happen: a read that finds a message returns and *)
(* the deadlines pass.  The host owes nothing, not even to read.           *)
HostFairness ==
    /\ WF_hostVars(Initialize) /\ WF_hostVars(Handshake) /\ WF_hostVars(HandshakeTimesOut)
    /\ WF_hostVars(Receive) /\ WF_hostVars(CallTimesOut)

HostSpec == HostInit /\ [][HostNext]_hostVars /\ HostFairness

-----------------------------------------------------------------------------
(***************************************************************************)
(* Properties.                                                             *)
(***************************************************************************)

(* The answer handed to a call was made for that call: the id check of     *)
(* invoke_tool and review is enough to tell a late answer from the one     *)
(* awaited (extension.rs:2304, 2390).                                      *)
RightAnswer == \A d \in delivered : d[1] = d[2]

(* Within one turn that is so: no answer of a call that timed out, was     *)
(* refused or was answered before is ever taken for the answer of another  *)
(* call of its turn, whatever the host says late (runner.rs:9940 gives     *)
(* every call of a turn an id of its own).                                 *)
RightAnswerInTurn ==
    \A d \in delivered : madeIn[d[1]] = madeIn[d[2]] => d[1] = d[2]

(* What a tool extension has registered when it becomes active is exactly  *)
(* what its manifest declares: as many registrations as declared tools,    *)
(* each of a declared name and no name twice (extension.rs:2210-2258).     *)
RegistersDeclared == phase = "active" => registry = DeclaredTools

(* Once what the session writes is taken, or the host exits, the handshake *)
(* and every call come to an end whatever else the host does, even one     *)
(* that asks for resources without end.  A host that stays up and never    *)
(* reads holds the session's thread in the write for ever: the deadlines   *)
(* are of the reads (extension.rs:573-584, 2294).                          *)
HostSettles ==
    []<>~Stuck =>
        /\ (phase \in {"spawned", "ready", "register", "review"})
             ~> (phase \in {"active", "failed"})
        /\ (call # NoCall) ~> (call = NoCall)

=============================================================================
