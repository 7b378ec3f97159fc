---------------------------- MODULE AuthorityStore ----------------------------
(***************************************************************************)
(* The authority document of one extension,                                *)
(* ~/.yach/extensions/<id>.json: ExtensionAuthorityStore                   *)
(* (crates/yach-backend/src/extension_capability/store.rs), written by the *)
(* lifecycle tasks of running sessions and by `yach extension' commands,   *)
(* each a writer of its own.                                               *)
(*                                                                         *)
(* A grant is its approved set.  Documents that do not parse, whatever the *)
(* reason, are "damaged".  Temporary files are never read and are left     *)
(* out.                                                                    *)
(***************************************************************************)
EXTENDS Integers, Sequences, FiniteSets

CONSTANTS
    Writers,        \* the processes and tasks that may change the document
    Caps,           \* the capabilities an extension may be granted
    MaxOps,         \* bound on the decisions asked for
    MaxLosses       \* bound on the power losses

ASSUME StoreAssumption == MaxOps \in Nat /\ MaxLosses \in Nat

NoOne   == "nobody"
NoGrant == {}
Grants  == (SUBSET Caps) \ {{}}

ASSUME NoOneAssumption == NoOne \notin Writers

VARIABLES
    origin,     \* ghost: the document found at the start
    visible,    \* the document a reader opens
    durable,    \* the document a power loss leaves
    holder,     \* who holds the sidecar file lock
    pc,         \* where each writer is
    job,        \* the decision each writer has been asked for
    next,       \* the document each writer has computed
    ops,        \* operation ids used so far
    acked,      \* ghost: operations reported as recorded, directory synced
    unsynced,   \* ghost: operations reported as recorded where the file
                \* system does not support syncing a directory
    refused,    \* ghost: operations reported as not recorded
    losses      \* ghost: power losses so far

vars == <<origin, visible, durable, holder, pc, job, next, ops, acked, unsynced,
          refused, losses>>

OpIds   == 1..MaxOps
Authority == Grants \cup {NoGrant}
Jobs    == [op : 0..MaxOps, after : Authority]
Entries == [op : OpIds, before : Authority, after : Authority]
Doc(s, c, b, h) == [shape |-> s, current |-> c, baseline |-> b, history |-> h]
Missing == Doc("missing", NoGrant, NoGrant, <<>>)
Damaged == Doc("damaged", NoGrant, NoGrant, <<>>)
Legacy(g) == Doc("legacy", g, NoGrant, <<>>)
Docs == [shape : {"missing", "damaged", "legacy", "versioned"},
         current : Authority, baseline : Authority, history : Seq(Entries)]

TypeOK ==
    /\ origin \in Docs /\ visible \in Docs /\ durable \in Docs
    /\ holder \in Writers \cup {NoOne}
    /\ pc \in [Writers -> {"idle", "opening", "waiting", "locked", "loaded",
                           "staged", "renamed"}]
    /\ job \in [Writers -> Jobs] /\ next \in [Writers -> Docs]
    /\ ops \in 0..MaxOps /\ acked \subseteq OpIds /\ unsynced \subseteq OpIds
    /\ refused \subseteq OpIds
    /\ losses \in 0..MaxLosses

NoJob == [op |-> 0, after |-> NoGrant]

Init ==
    /\ origin \in {Missing, Damaged} \cup {Legacy(g) : g \in Grants}
    /\ visible = origin /\ durable = origin
    /\ holder = NoOne /\ pc = [w \in Writers |-> "idle"]
    /\ job = [w \in Writers |-> NoJob] /\ next = [w \in Writers |-> Missing]
    /\ ops = 0 /\ acked = {} /\ unsynced = {} /\ refused = {} /\ losses = 0

-----------------------------------------------------------------------------
(***************************************************************************)
(* Documents.                                                              *)
(***************************************************************************)
Before(d, i) == IF i = 1 THEN d.baseline ELSE d.history[i - 1].after

(* validate_document: the entries form a chain from the baseline to the    *)
(* current grant and no operation id occurs twice.                         *)
ValidDocument(d) ==
    /\ \A i \in 1..Len(d.history) : d.history[i].before = Before(d, i)
    /\ \A i, j \in 1..Len(d.history) :
          i # j => d.history[i].op # d.history[j].op
    /\ d.current = Before(d, Len(d.history) + 1)

(* Parsing: a versioned document must also be valid. *)
Loads(d) == d.shape # "damaged" /\ (d.shape = "versioned" => ValidDocument(d))

(* load_grant, for the activation gate: no document that fails to load     *)
(* grants anything.                                                        *)
LoadGrant(d) == IF Loads(d) THEN d.current ELSE NoGrant

(* into_versioned: a grant of the old format becomes the baseline. *)
IntoVersioned(d) ==
    IF d.shape = "versioned" THEN d ELSE Doc("versioned", d.current, d.current, <<>>)

(* grant_requested and revoke_grant differ in what is in force after. *)
Decided(d, j) ==
    LET v == IntoVersioned(d) IN
    Doc("versioned", j.after, v.baseline,
        Append(v.history, [op |-> j.op, before |-> v.current, after |-> j.after]))

-----------------------------------------------------------------------------
(***************************************************************************)
(* mutate and commit_document, step by step.                               *)
(***************************************************************************)
Goto(w, l) == pc' = [pc EXCEPT ![w] = l]

Release(w) == holder' = IF holder = w THEN NoOne ELSE holder

(* An error before the rename: the lock, if held, goes with the file. *)
Refuse(w) ==
    /\ Goto(w, "idle") /\ Release(w)
    /\ refused' = refused \cup {job[w].op}
    /\ UNCHANGED <<origin, visible, durable, job, next, ops, acked, unsynced, losses>>

(* A grant of the requested set, or a revocation.  A request for nothing   *)
(* writes nothing and does not get here.                                   *)
Begin(w) ==
    /\ pc[w] = "idle" /\ ops < MaxOps
    /\ \E a \in Authority : job' = [job EXCEPT ![w] = [op |-> ops + 1, after |-> a]]
    /\ ops' = ops + 1 /\ Goto(w, "opening")
    /\ UNCHANGED <<origin, visible, durable, holder, next, acked, unsynced, refused,
                   losses>>

(* A directory sync before the commit: that the file system does not       *)
(* support it is no error (map_pre_commit_sync).                           *)
DirectorySynced == durable' \in {visible, durable}

(* prepare_grants_dir syncs the directory, whatever was renamed into it.   *)
Prepare(w) ==
    /\ pc[w] = "opening"
    /\ \/ /\ Goto(w, "waiting") /\ DirectorySynced
          /\ UNCHANGED <<origin, visible, holder, job, next, ops, acked, unsynced,
                         refused, losses>>
       \/ Refuse(w)

(* Mutant: the lock does not exclude another writer. *)
LockShared(w) ==
    /\ pc[w] = "waiting"
    /\ holder' = w /\ Goto(w, "locked")
    /\ UNCHANGED <<origin, visible, durable, job, next, ops, acked, unsynced, refused,
                   losses>>

Lock(w) ==
    /\ pc[w] = "waiting" /\ holder = NoOne
    /\ holder' = w /\ Goto(w, "locked")
    /\ UNCHANGED <<origin, visible, durable, job, next, ops, acked, unsynced, refused,
                   losses>>

(* The lock file cannot be opened or locked. *)
LockFails(w) == pc[w] = "waiting" /\ Refuse(w)

(* The document is read, decided on and validated, unless it cannot be     *)
(* read or does not load.                                                  *)
Load(w) ==
    /\ pc[w] = "locked"
    /\ \/ /\ Loads(visible) /\ ValidDocument(Decided(visible, job[w]))
          /\ next' = [next EXCEPT ![w] = Decided(visible, job[w])]
          /\ Goto(w, "loaded")
          /\ UNCHANGED <<origin, visible, durable, holder, job, ops, acked, unsynced,
                         refused, losses>>
       \/ Refuse(w)

(* The temporary file is written and synced. *)
Stage(w) ==
    /\ pc[w] = "loaded"
    /\ \/ /\ Goto(w, "staged")
          /\ UNCHANGED <<origin, visible, durable, holder, job, next, ops, acked,
                         unsynced, refused, losses>>
       \/ Refuse(w)

Rename(w) ==
    /\ pc[w] = "staged"
    /\ \/ /\ visible' = next[w] /\ Goto(w, "renamed")
          /\ UNCHANGED <<origin, durable, holder, job, next, ops, acked, unsynced,
                         refused, losses>>
       \/ Refuse(w)

(* Mutant: a failed directory sync is reported like one that was done. *)
SyncNever(w) ==
    /\ pc[w] = "renamed"
    /\ acked' = acked \cup {job[w].op}
    /\ Goto(w, "idle") /\ Release(w)
    /\ UNCHANGED <<origin, visible, durable, job, next, ops, unsynced, refused, losses>>

(* Mutant: the lock file is kept open when the sync fails. *)
SyncKeepsLock(w) ==
    /\ pc[w] = "renamed"
    /\ \/ durable' = visible /\ acked' = acked \cup {job[w].op} /\ Release(w)
       \/ UNCHANGED <<durable, acked, holder>>
    /\ Goto(w, "idle")
    /\ UNCHANGED <<origin, visible, job, next, ops, unsynced, refused, losses>>

(* The directory sync after the rename.  One the file system does not      *)
(* support is reported like one that was done; if it fails the outcome is  *)
(* DurabilityUnknown, which claims neither success nor rollback.           *)
Sync(w) ==
    /\ pc[w] = "renamed"
    /\ \/ /\ durable' = visible /\ acked' = acked \cup {job[w].op}
          /\ UNCHANGED unsynced
       \/ /\ unsynced' = unsynced \cup {job[w].op}
          /\ UNCHANGED <<durable, acked>>
       \/ UNCHANGED <<durable, acked, unsynced>>
    /\ Goto(w, "idle") /\ Release(w)
    /\ UNCHANGED <<origin, visible, job, next, ops, refused, losses>>

(* The process dies; the kernel drops its lock. *)
Die(w) ==
    /\ pc[w] # "idle"
    /\ Goto(w, "idle") /\ Release(w)
    /\ UNCHANGED <<origin, visible, durable, job, next, ops, acked, unsynced, refused,
                   losses>>

(* The file system writes the directory back on its own. *)
Flush ==
    /\ durable # visible /\ durable' = visible
    /\ UNCHANGED <<origin, visible, holder, pc, job, next, ops, acked, unsynced,
                   refused, losses>>

PowerLoss ==
    /\ losses < MaxLosses /\ losses' = losses + 1
    /\ visible' = durable
    /\ pc' = [w \in Writers |-> "idle"] /\ holder' = NoOne
    /\ UNCHANGED <<origin, durable, job, next, ops, acked, unsynced, refused>>

Step(w) == Prepare(w) \/ Lock(w) \/ Load(w) \/ Stage(w) \/ Rename(w) \/ Sync(w)

Next ==
    \/ \E w \in Writers : Begin(w) \/ Step(w) \/ LockFails(w) \/ Die(w)
    \/ Flush \/ PowerLoss

(* Every call of the store returns: system calls do, and flock wakes a     *)
(* waiter once the lock is free.  That it fails is not owed.               *)
Fairness == \A w \in Writers : WF_vars(Step(w))

Spec == Init /\ [][Next]_vars /\ Fairness

-----------------------------------------------------------------------------
(***************************************************************************)
(* Properties.                                                             *)
(***************************************************************************)
OpsOf(d) == {d.history[i].op : i \in 1..Len(d.history)}

(* A decision reported as recorded once the directory was synced is in the *)
(* document that survives a power loss, through every later decision,      *)
(* failure and crash (store.rs:523-532).  One reported on a file system    *)
(* that syncs no directory (store.rs:617-631) is in the document a reader  *)
(* opens until the power fails: after that nothing is promised of it.      *)
AckedSurvives ==
    /\ acked \subseteq OpsOf(durable)
    /\ losses = 0 => unsynced \subseteq OpsOf(visible)

(* A decision reported as failed before the rename is in neither document, *)
(* ever (store.rs:501-522): the user may repeat it.                        *)
RefusedNotRecorded == refused \cap (OpsOf(visible) \cup OpsOf(durable)) = {}

(* What was found at the start is not lost: a damaged document stays as it *)
(* is, and a grant of the old format is the baseline of every document     *)
(* written over it (store.rs:242-263, 219-240).                            *)
OriginKept ==
    \A d \in {visible, durable} :
        \/ d = origin
        \/ /\ origin # Damaged /\ d.shape = "versioned"
           /\ d.baseline = origin.current

(* The three together: what the store tells its caller of a decision, and  *)
(* what it found, stays true whoever else writes, fails, dies or loses     *)
(* power afterwards.                                                       *)
DecisionsStick == AckedSurvives /\ RefusedNotRecorded /\ OriginKept

(* Every writer comes to the end of what it was asked for. *)
Settles == \A w \in Writers : (pc[w] # "idle") ~> (pc[w] = "idle")

(* The documents, read the way the activation gate reads them, behave as   *)
(* one list of whole decisions, whoever writes and whatever fails: no      *)
(* decision disappears because another was written at the same time, and   *)
(* a power loss takes back none whose directory sync was done.             *)
Log == INSTANCE AuthorityLog WITH
    base <- LoadGrant(origin),
    decisions <- visible.history,
    current <- LoadGrant(visible),
    reported <- acked

ImplementsLog == Log!Spec

=============================================================================
