---------------------------- MODULE ModelRefresh ----------------------------
(***************************************************************************)
(* What the model picker offers: the runner's coalesced refresh requests   *)
(* (yach-backend/src/runner.rs), the runtime that carries them out and its *)
(* caches (yach-cli/src/provider_connections.rs, model_discovery_cache.rs),*)
(* the Codex release check and catalog (codex_release.rs,                  *)
(* catalog_refresh.rs), while connection mutations run.                    *)
(*                                                                         *)
(* The connection store is one step per operation here; ConnectionStore    *)
(* has its inside.  A list of models is represented by the version of the  *)
(* registry it was resolved from, a Codex listing by the client version it *)
(* was asked with; a cached credential is the connection's or the one it   *)
(* had before.  Clocks are a choice: a row may or may not be fresh, a      *)
(* check due or not.  The first render has happened.                       *)
(***************************************************************************)
EXTENDS Naturals, FiniteSets

CONSTANTS
    Conns,        \* stored connections
    Chat,         \* the managed ChatGPT connection among them
    MaxRequests,  \* bound on picker requests
    MaxMutations, \* bound on connection mutations
    MaxVersion,   \* bound on Codex releases
    MaxOutside    \* bound on what happens outside: releases, other processes

ASSUME RefreshAssumption ==
    /\ Chat \in Conns
    /\ MaxRequests \in Nat /\ MaxMutations \in Nat /\ MaxVersion \in Nat \ {0}
    /\ MaxOutside \in Nat

Modes == {"normal", "forced"}

VARIABLES
    live,       \* connections in the registry, ready
    regVer,     \* number of committed changes of the registry
    avail,      \* AvailabilityCache: generation, refresh_generation, snapshot (at most one view)
    discovery,  \* discovery cache: for a connection at most one [stamp, real]
    credCache,  \* CredentialCache: for a connection nothing, its secret, or an older one
    mutation,   \* the mutation task
    refresh,    \* the refresh task
    catalog,    \* the Codex catalog tasks, by mode
    codexFile,  \* codex-models.json: at most one [stamp, asked], the version it was
                \* listed with and (ghost) that of the check that last confirmed it
    effective,  \* the client version requests send
    latest,     \* the newest release there is
    runnerGen,  \* connection_model_refresh_generation
    inFlight,   \* connection_model_refresh_in_flight: at most one
    pendingRef, \* connection_model_refresh_pending: at most one mode
    advertised, \* advertised_catalog: at most one view
    asked,      \* requests and mutations made so far
    invVer,     \* ghost: registry version at the last invalidation
    floorVer,   \* ghost: the same at the last mutation the runner saw succeed
    owesForced, \* ghost: a forced request for which none has started yet
    owed        \* ghost: registry versions whose mutation awaits a refresh

refreshVars == <<live, regVer, avail, discovery, credCache, mutation, refresh, catalog, codexFile,
                 effective, latest, runnerGen, inFlight, pendingRef, advertised, asked,
                 invVer, floorVer, owesForced, owed>>

runtimeVars == <<live, regVer, discovery, credCache, mutation, catalog, codexFile, effective,
                 latest, invVer>>
codexVars == <<catalog, codexFile, effective, latest>>
runnerVars == <<runnerGen, inFlight, pendingRef, advertised, asked, floorVer, owesForced, owed>>

NoRefresh == [at |-> "none", gen |-> 0, turn |-> 0, rg |-> 0, mode |-> "normal",
              view |-> 0, todo |-> {}, outdated |-> {}, sent |-> {}, updates |-> {}]
NoMutation == [at |-> "none", kind |-> "none", id |-> Chat]

----------------------------------------------------------------------------
(* The runner: one refresh in flight, one pending. *)

\* start_connection_model_refresh, with the part of refresh_models that runs at once.
Start(g, mode) ==
    /\ inFlight' = {[generation |-> g, mode |-> mode, publishable |-> TRUE]}
    /\ avail' = [avail EXCEPT !.turn = @ + 1]
    /\ refresh' = [NoRefresh EXCEPT !.at = "resolve", !.gen = avail.gen,
                                    !.turn = avail.turn + 1, !.rg = g, !.mode = mode]
    /\ owesForced' = (owesForced /\ mode # "forced")

\* The pending mode: forced if any of the two requests or the running one is.
Merged(mode, flying) ==
    IF "forced" \in {mode, flying} \union pendingRef THEN "forced" ELSE "normal"

\* Mutant: a mutation leaves a forced report of the old connections publishable.
MutantStillPublishable(mode, invalidate) ==
    /\ runnerGen' = runnerGen + 1
    /\ IF inFlight # {}
       THEN /\ pendingRef' = {Merged(mode, f.mode) : f \in inFlight}
            /\ owesForced' = (owesForced \/ mode = "forced")
            /\ UNCHANGED <<avail, refresh, inFlight>>
       ELSE Start(runnerGen + 1, mode) /\ UNCHANGED pendingRef

\* request_connection_model_refresh.
request(mode, invalidate) ==
    /\ runnerGen' = runnerGen + 1
    /\ IF inFlight # {}
       THEN /\ inFlight' = {[f EXCEPT !.publishable = @ /\ ~invalidate] : f \in inFlight}
            /\ pendingRef' = {Merged(mode, f.mode) : f \in inFlight}
            /\ owesForced' = (owesForced \/ mode = "forced")
            /\ UNCHANGED <<avail, refresh>>
       ELSE Start(runnerGen + 1, mode) /\ UNCHANGED pendingRef

\* AvailableModelsRequested and AvailableModelsRefreshRequested: the runtime's
\* snapshot is shown at once, and a refresh asked for.
OpenPicker(mode) ==
    /\ asked.requests < MaxRequests
    /\ asked' = [asked EXCEPT !.requests = @ + 1]
    /\ advertised' = IF avail.snapshot # {} THEN avail.snapshot ELSE advertised
    /\ request(mode, FALSE)
    /\ UNCHANGED <<runtimeVars, floorVer, owed>>

\* The mutations that the report does not show: it was given up, it saw the registry
\* before them, or it asked with a credential that is no more.  A refresh that could
\* not read the registry says so.
Unpaid ==
    {v \in owed : \/ refresh.at = "superseded"
                  \/ refresh.view < v
                  \/ refresh.at = "published" /\ refresh.outdated # {}}

\* Mutant: the pending request is forgotten when the running one ends.
MutantPendingDropped ==
    /\ refresh.at \in {"published", "superseded", "failed"}
    /\ inFlight # {}
    /\ LET f == CHOOSE f \in inFlight : TRUE
           may == refresh.rg = runnerGen \/ (f.publishable /\ f.mode = "forced")
       IN /\ advertised' = IF may /\ refresh.at = "published" THEN {refresh.view} ELSE advertised
          /\ owed' = Unpaid
    /\ inFlight' = {} /\ refresh' = NoRefresh
    /\ UNCHANGED <<avail, owesForced>>
    /\ pendingRef' = {}
    /\ UNCHANGED <<runtimeVars, runnerGen, asked, floorVer>>

\* The refresh outcome reaches the loop.  A retired generation publishes only
\* a forced report that no mutation has outdated; the pending request then starts.
DeliverRefresh ==
    /\ refresh.at \in {"published", "superseded", "failed"}
    /\ inFlight # {}
    /\ LET f == CHOOSE f \in inFlight : TRUE
           may == refresh.rg = runnerGen \/ (f.publishable /\ f.mode = "forced")
       IN /\ advertised' = IF may /\ refresh.at = "published" THEN {refresh.view} ELSE advertised
          /\ owed' = Unpaid
    /\ IF pendingRef # {}
       THEN Start(runnerGen, CHOOSE m \in pendingRef : TRUE)
       ELSE /\ inFlight' = {} /\ refresh' = NoRefresh
            /\ UNCHANGED <<avail, owesForced>>
    /\ pendingRef' = {}
    /\ UNCHANGED <<runtimeVars, runnerGen, asked, floorVer>>

----------------------------------------------------------------------------
(* The runtime's refresh task. *)

Task(at) == refresh' = [refresh EXCEPT !.at = at]

\* cached_credential: the secret in the cache, else the stored one, which then stays
\* there.  The managed connection has none.
Cached(ids) ==
    [id \in Conns |-> IF id \in ids \ {Chat} /\ credCache[id] = "none" THEN "current"
                     ELSE credCache[id]]

\* The connections whose cached secret is no longer theirs.
Outdated == {id \in live : credCache[id] = "old"}

\* resolve_ready_connections: the list and the credentials, or nothing when the store
\* cannot be read.
resolve ==
    /\ refresh.at = "resolve"
    /\ \/ /\ refresh' = [refresh EXCEPT !.at = "codex", !.view = regVer, !.todo = live,
                                        !.outdated = Outdated]
          /\ credCache' = Cached(live)
       \/ /\ refresh' = [refresh EXCEPT !.at = "failed", !.view = regVer]
          /\ UNCHANGED credCache
    /\ UNCHANGED <<live, regVer, discovery, mutation, codexVars, invVer, runnerVars, avail>>

\* list_connections and activate read credentials too, whenever the user asks.
read_credential(id) ==
    /\ id \in live
    /\ credCache' = Cached({id})
    /\ UNCHANGED <<live, regVer, avail, discovery, mutation, refresh, codexVars, invVer,
                   runnerVars>>

\* check_latest_release: not due, failed, or the newest release becomes effective.
check_release ==
    /\ refresh.at = "codex"
    /\ IF Chat \in refresh.todo
       THEN /\ effective' \in {effective, latest}
            /\ Task("catalog")
       ELSE Task("discover") /\ UNCHANGED effective
    /\ UNCHANGED <<live, regVer, avail, discovery, credCache, mutation, catalog, codexFile,
                   latest, invVer, runnerVars>>

\* refresh_codex_catalog begins: a normal one only if no other runs, detached; a forced
\* one waits for the lock and the refresh waits for it.
Fetching == {m \in Modes : catalog[m].at = "fetch"}

start_catalog ==
    /\ refresh.at = "catalog"
    /\ LET m == refresh.mode
           due == [catalog EXCEPT ![m] = [at |-> "fetch", version |-> effective,
                                          existing |-> codexFile]]
           forcedDue == \A e \in codexFile : e.stamp # effective
       IN \/ Fetching = {} /\ catalog' = due
          \/ m = "normal" /\ (Fetching # {} \/ ~forcedDue) /\ UNCHANGED catalog
    /\ Task(IF refresh.mode = "forced" THEN "await" ELSE "discover")
    /\ UNCHANGED <<live, regVer, avail, discovery, credCache, mutation, codexFile, effective,
                   latest, invVer, runnerVars>>

\* An ETag is sent only for a listing of the version now asked with.
EtagSent(c) == \E e \in c.existing : e.stamp = c.version

\* The catalog answer: not modified, a new listing, or a failure (the old file is
\* written back with the time of the check).
finish_catalog(m) ==
    /\ catalog[m].at = "fetch"
    /\ catalog' = [catalog EXCEPT ![m].at = "none"]
    /\ \/ /\ EtagSent(catalog[m])
          /\ codexFile' = {[e EXCEPT !.asked = catalog[m].version] : e \in catalog[m].existing}
       \/ codexFile' = {[stamp |-> catalog[m].version, asked |-> catalog[m].version]}
       \/ codexFile' = IF catalog[m].existing # {} THEN catalog[m].existing ELSE codexFile
    /\ IF m = "forced" /\ refresh.at = "await" THEN Task("discover") ELSE UNCHANGED refresh
    /\ UNCHANGED <<live, regVer, avail, discovery, credCache, mutation, effective, latest,
                   invVer, runnerVars>>

\* A discovery row serves only if it was listed with the version requests send now.
Fresh(id) == \E e \in discovery[id] : id = Chat => e.stamp = effective

\* discover_connection_models: from the cache, or asked with the version of this moment.
discover(id) ==
    /\ refresh.at = "discover" /\ id \in refresh.todo
    /\ \/ /\ refresh.mode = "normal" /\ Fresh(id)
          /\ refresh' = [refresh EXCEPT !.todo = @ \ {id}]
       \/ refresh' = [refresh EXCEPT !.todo = @ \ {id}, !.sent = @ \union {<<id, effective>>}]
    /\ UNCHANGED <<runtimeVars, runnerVars, avail>>

\* The provider answers for the version it was asked with, or fails.
answer(pair) ==
    /\ pair \in refresh.sent
    /\ \/ refresh' = [refresh EXCEPT !.sent = @ \ {pair},
                                     !.updates = @ \union {[id |-> pair[1], stamp |-> pair[2],
                                                            real |-> pair[2]]}]
       \/ refresh' = [refresh EXCEPT !.sent = @ \ {pair}]
    /\ UNCHANGED <<runtimeVars, runnerVars, avail>>

\* The rows of a refresh as DiscoveryCache::update stores them.
Updated(updates) ==
    [id \in Conns |->
        LET us == {u \in updates : u.id = id}
        IN IF us = {} THEN discovery[id] ELSE {[stamp |-> u.stamp, real |-> u.real] : u \in us}]

\* publish_snapshot_and_cache_updates: nothing if the caches were invalidated since.
Current(gen, turn) == gen = avail.gen /\ turn = avail.turn

publish ==
    /\ refresh.at = "discover" /\ refresh.todo = {} /\ refresh.sent = {}
    /\ IF Current(refresh.gen, refresh.turn)
       THEN /\ discovery' = Updated(refresh.updates)
            /\ avail' = [avail EXCEPT !.snapshot = {refresh.view}]
            /\ Task("save")
       ELSE /\ Task("superseded")
            /\ UNCHANGED <<discovery, avail>>
    /\ UNCHANGED <<live, regVer, credCache, mutation, codexVars, invVer, runnerVars>>

\* persist_discovery_cache; a failure is ignored.
save ==
    /\ refresh.at = "save"
    /\ Task("published")
    /\ UNCHANGED <<live, regVer, avail, discovery, credCache, mutation, codexVars, invVer,
                   runnerVars>>

----------------------------------------------------------------------------
(* A connection mutation: create, rename and key assignment change the store  *)
(* first; repair, replace and remove invalidate first.                        *)

Mutate(at) == mutation' = [mutation EXCEPT !.at = at]

\* StartMutation: a create needs nothing, the others a connection that is listed.
StartMutation(kind, id) ==
    /\ mutation.at = "none"
    /\ asked.mutations < MaxMutations
    /\ asked' = [asked EXCEPT !.mutations = @ + 1]
    /\ kind = "create" <=> id \notin live
    /\ mutation' = [at |-> IF kind \in {"create", "rename"} THEN "store" ELSE "invalidate",
                    kind |-> kind, id |-> id]
    /\ UNCHANGED <<live, regVer, avail, discovery, credCache, refresh, codexVars, runnerGen,
                   inFlight, pendingRef, advertised, invVer, floorVer, owesForced, owed>>

\* invalidate_connection before the store changes: snapshot and rows go, then the file is
\* rewritten; if that fails so does the mutation, else the cached credentials go.
invalidate_connection ==
    /\ mutation.at = "invalidate"
    /\ avail' = [avail EXCEPT !.gen = @ + 1, !.snapshot = {}]
    /\ discovery' = [discovery EXCEPT ![mutation.id] = {}]
    /\ invVer' = regVer
    /\ Mutate("persist")
    /\ UNCHANGED <<live, regVer, credCache, refresh, codexVars, runnerVars>>

persist_invalidated ==
    /\ mutation.at = "persist"
    /\ \/ Mutate("store") /\ credCache' = [id \in Conns |-> "none"]
       \/ Mutate("failed") /\ UNCHANGED credCache
    /\ UNCHANGED <<live, regVer, avail, discovery, refresh, codexVars, invVer, runnerVars>>

\* The secret of a connection changes: one that was cached since the invalidation is old.
Replaced(id) == [credCache EXCEPT ![id] = IF @ = "current" THEN "old" ELSE @]

\* The store operation commits, or fails.  A new connection has a new id, which no
\* cache knows.
commit ==
    /\ mutation.at = "store"
    /\ \/ /\ regVer' = regVer + 1
          /\ live' = CASE mutation.kind = "create" -> live \union {mutation.id}
                       [] mutation.kind = "remove" -> live \ {mutation.id}
                       [] OTHER -> live
          /\ credCache' = CASE mutation.kind = "create" ->
                                  [credCache EXCEPT ![mutation.id] = "none"]
                            [] mutation.kind = "rename" -> credCache
                            [] OTHER -> Replaced(mutation.id)
          /\ Mutate(IF mutation.kind \in {"create", "rename"} THEN "after" ELSE "done")
       \/ Mutate("failed") /\ UNCHANGED <<live, regVer, credCache>>
    /\ UNCHANGED <<avail, discovery, refresh, codexVars, invVer, runnerVars>>

\* invalidate after the store has changed.
invalidate ==
    /\ mutation.at = "after"
    /\ avail' = [avail EXCEPT !.gen = @ + 1, !.snapshot = {}]
    /\ credCache' = [id \in Conns |-> "none"]
    /\ invVer' = regVer
    /\ Mutate("done")
    /\ UNCHANGED <<live, regVer, discovery, refresh, codexVars, runnerVars>>

\* The outcome reaches the loop: success clears the advertised catalog and asks for
\* a refresh that outdates the one in flight.
DeliverMutation ==
    /\ mutation.at \in {"done", "failed"}
    /\ mutation' = NoMutation
    /\ IF mutation.at = "done"
       THEN /\ advertised' = {}
            /\ floorVer' = invVer
            /\ owed' = owed \union {regVer}
            /\ request("normal", TRUE)
       ELSE UNCHANGED <<advertised, floorVer, owed, runnerGen, inFlight, pendingRef, avail,
                        refresh, owesForced>>
    /\ UNCHANGED <<live, regVer, discovery, credCache, codexVars, invVer, asked>>

----------------------------------------------------------------------------
(* The world outside: releases appear, and another yach, possibly of another *)
(* version, writes the shared Codex catalog.                                  *)

Outside ==
    /\ asked.outside < MaxOutside
    /\ asked' = [asked EXCEPT !.outside = @ + 1]
    /\ UNCHANGED <<live, regVer, avail, discovery, credCache, mutation, refresh, catalog,
                   invVer, runnerGen, inFlight, pendingRef, advertised, floorVer, owesForced, owed>>

Release ==
    /\ latest < MaxVersion
    /\ latest' = latest + 1
    /\ Outside /\ UNCHANGED <<codexFile, effective>>

OtherYach ==
    /\ \E v \in 1..latest : codexFile' = {[stamp |-> v, asked |-> v]}
    /\ Outside /\ UNCHANGED <<effective, latest>>

\* spawn_release_check_if_due, at startup.
StartupCheck ==
    /\ effective' = latest
    /\ Outside /\ UNCHANGED <<codexFile, latest>>

RefreshInit ==
    /\ live \in SUBSET Conns /\ regVer = 0
    /\ avail = [gen |-> 0, turn |-> 0, snapshot |-> {}]
    /\ discovery = [id \in Conns |-> {}]
    /\ credCache = [id \in Conns |-> "none"]
    /\ mutation = NoMutation
    /\ refresh = NoRefresh
    /\ catalog = [m \in Modes |-> [at |-> "none", version |-> 1, existing |-> {}]]
    /\ codexFile = {}
    /\ effective = 1 /\ latest = 1
    /\ runnerGen = 0 /\ inFlight = {} /\ pendingRef = {} /\ advertised = {}
    /\ asked = [requests |-> 0, mutations |-> 0, outside |-> 0]
    /\ invVer = 0 /\ floorVer = 0 /\ owesForced = FALSE /\ owed = {}

RuntimeStep ==
    \/ resolve
    \/ check_release
    \/ start_catalog
    \/ \E m \in Modes : finish_catalog(m)
    \/ \E id \in Conns : discover(id)
    \/ \E pair \in refresh.sent : answer(pair)
    \/ publish
    \/ save
    \/ DeliverRefresh

MutationStep ==
    \/ invalidate_connection
    \/ persist_invalidated
    \/ commit
    \/ invalidate
    \/ DeliverMutation

RefreshNext ==
    \/ \E mode \in Modes : OpenPicker(mode)
    \/ \E kind \in {"create", "rename", "replace", "remove"}, id \in Conns :
          StartMutation(kind, id)
    \/ \E id \in Conns : read_credential(id)
    \/ RuntimeStep
    \/ MutationStep
    \/ Release
    \/ OtherYach
    \/ StartupCheck

\* Spawned tasks run and end: listings and catalog requests have timeouts, and the
\* loop drains its channels.
RefreshFairness == WF_refreshVars(RuntimeStep) /\ WF_refreshVars(MutationStep)

RefreshSpec == RefreshInit /\ [][RefreshNext]_refreshVars /\ RefreshFairness

----------------------------------------------------------------------------

RefreshTypeOK ==
    /\ live \subseteq Conns
    /\ credCache \in [Conns -> {"none", "current", "old"}]
    /\ avail.snapshot \subseteq 0..regVer /\ Cardinality(avail.snapshot) <= 1
    /\ Cardinality(inFlight) <= 1 /\ Cardinality(pendingRef) <= 1
    /\ advertised \subseteq 0..regVer
    /\ effective \in 1..latest
    /\ (refresh.at = "none") <=> (inFlight = {})

\* Neither the runtime's snapshot nor the catalog the picker offers was resolved
\* before the invalidation of a mutation that has since succeeded, although the
\* refresh and the mutation run side by side, report over different channels and
\* a forced report outlives its generation (provider_connections.rs:1168,
\* runner.rs:650).
NothingOlderIsOffered ==
    /\ \A v \in avail.snapshot : v >= invVer
    /\ \A v \in advertised : v >= floorVer

\* A forced refresh the user asked for is not lost to the requests that follow
\* while another one runs: until it starts, the pending slot is forced (runner.rs:650).
ForcedIsKept == owesForced => "forced" \in pendingRef

\* Rows and catalogs carry the client version they were really listed with, though the
\* release check may advance the version while they are under way, and a check that
\* succeeds leaves a catalog of the version it asked for (model_discovery_cache.rs:158,
\* provider_connections.rs:1662).
StampedAsRequested ==
    /\ \A id \in Conns : \A e \in discovery[id] : e.stamp = e.real
    /\ \A e \in codexFile : e.asked = e.stamp

\* The three together: what the picker offers is no older than the registry it
\* was told of, was listed as it says, and was asked for again when the user did.
RefreshIsHonest == NothingOlderIsOffered /\ ForcedIsKept /\ StampedAsRequested

\* After a mutation succeeds a refresh that saw the registry and the credentials as
\* it left them reports to the runner, or one reports that it could not read the
\* registry, whatever was in flight then (runner.rs:1739).  One exception: a
\* credential that was read again between the invalidation and the write of repair,
\* replace and remove stays in the cache, and the refreshes ask with the old one
\* (provider_connections.rs:445).
RefreshCatchesUp ==
    \A v \in 1..MaxMutations : v \in owed ~> v \notin owed \/ Outdated # {}

\* No exception: "a resolved secret ... is cached per connection and cleared by every
\* successful mutation" (provider_connections.rs:192).
SecretsAreCurrent == Outdated = {}

\* Once a mutation has succeeded the picker offers nothing resolved before it: "no
\* cached row is selectable until the required fresh discovery wins" (runner.rs:705).
NothingStaleIsSelectable == \A v \in advertised : \A w \in owed : v >= w
=============================================================================
