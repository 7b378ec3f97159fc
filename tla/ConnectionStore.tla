-------------------------- MODULE ConnectionStore --------------------------
(***************************************************************************)
(* The stored provider connections: the metadata registry                  *)
(* (yach-connections/src/registry.rs), the credential file (credential.rs),*)
(* the compound operations over both (lib.rs), and the managed ChatGPT     *)
(* login (yach-backend/src/chatgpt_auth.rs), as several yach processes use *)
(* them at once.                                                           *)
(*                                                                         *)
(* A registry mutation happens under the global lock and ends in a rename, *)
(* so it is one step; it can fail before the rename, or after it, when the *)
(* directory cannot be synced.  The credential file has no lock and one    *)
(* temporary name for every process: reading it, writing the temporary     *)
(* file and renaming it are three steps, and a document that cannot be     *)
(* read or decoded is read as empty.  A secret is the number of the        *)
(* operation that brought it, 0 is none.  Labels and base URLs are left    *)
(* out: no operation decides by them once a draft is valid.                *)
(***************************************************************************)
EXTENDS Naturals, FiniteSets

CONSTANTS
    Procs,           \* yach processes that share the files
    Ids,             \* stored connection ids
    Providers,       \* kinds of provider
    Subscription,    \* the provider kind of the managed ChatGPT row
    Keys,            \* configuration keys
    Accounts,        \* ChatGPT accounts, positive numbers
    MAX_CONNECTIONS,  \* rows the registry holds
    MAX_RETIRED_KEYS, \* retired keys it holds
    MaxOps,          \* bound on operations started
    MaxFaults        \* bound on failing calls and dying processes

ASSUME ConnectionAssumption ==
    /\ Subscription \in Providers
    /\ Accounts \subseteq Nat \ {0}
    /\ MAX_CONNECTIONS \in Nat
    /\ MAX_RETIRED_KEYS \in Nat
    /\ MaxOps \in Nat
    /\ MaxFaults \in Nat

VARIABLES
    rows,      \* the registry: one row for every id
    retired,   \* its retired (provider, key) pairs
    creds,     \* the credential file: a secret for every id
    tmpFile,   \* credentials.json.tmp: at most one document
    idLock,    \* who holds the lock file of an id: at most one process
    authFile,  \* the ChatGPT token file: its account, 0 if absent, and its identity
    op,        \* the operation of each process
    opsMade,   \* operations started
    conFaults, \* faults that may still happen
    written,   \* ghost: the secret last put in place for each id, 0 once removed
    leaving,   \* ghost: ids whose removal has reached the credential file
    astray,    \* ghost: two processes rewrote the credential file at once, or one
               \* could not read it and took it for empty
    adopted    \* ghost: <<account shown, account stored>> of each adoption

conVars == <<rows, retired, creds, tmpFile, idLock, authFile, op, opsMade, conFaults,
             written, leaving, astray, adopted>>

----------------------------------------------------------------------------
(* Rows and the registry's own checks. *)

Row == [state : {"absent", "pending", "ready"}, provider : Providers,
        key : SUBSET Keys, account : Accounts \union {0}]

NoRow == [state |-> "absent", provider |-> Subscription, key |-> {}, account |-> 0]

Live(r) == {i \in Ids : r[i].state # "absent"}

ReadyRows(r, provider) == {i \in Ids : r[i].state = "ready" /\ r[i].provider = provider}

\* The (provider, key) pairs the rows hold.
KeysOf(r) == UNION {{<<r[i].provider, k>> : k \in r[i].key} : i \in Live(r)}

\* validate_registry: capacity, one subscription row, no key twice, live or retired.
validate_registry(r, q) ==
    /\ Cardinality(Live(r)) <= MAX_CONNECTIONS
    /\ Cardinality(q) <= MAX_RETIRED_KEYS
    /\ Cardinality({i \in Live(r) : r[i].provider = Subscription}) <= 1
    /\ \A i, j \in Live(r) :
          i # j /\ r[i].provider = r[j].provider => r[i].key \intersect r[j].key = {}
    /\ KeysOf(r) \intersect q = {}

\* mark_ready: a second ready row of a provider needs keys on all of them.
mark_ready_allowed(r, i) ==
    /\ r[i].state = "pending"
    /\ \A j \in ReadyRows(r, r[i].provider) \ {i} : r[i].key # {} /\ r[j].key # {}

----------------------------------------------------------------------------
(* Processes: locks, failures, and one registry mutation. *)

Idle == [kind |-> "none", at |-> "idle", id |-> {}, secret |-> 0, provider |-> Subscription,
         key |-> {}, account |-> 0, token |-> 0, doc |-> <<>>]

\* The operation ends and drops its lock; its temporary file may stay.
Finish(p) ==
    /\ op' = [op EXCEPT ![p] = Idle]
    /\ idLock' = [i \in Ids |-> idLock[i] \ {p}]

Goto(p, at) == op' = [op EXCEPT ![p].at = at] /\ UNCHANGED idLock

TheId(p) == CHOOSE i \in op[p].id : TRUE

Fault == conFaults > 0 /\ conFaults' = conFaults - 1

\* The empty credential document.
Nothing == [i \in Ids |-> 0]

\* FileCredentialStore::read_document: what is in the file, or nothing when it
\* cannot be read, is malformed or has a foreign schema.
Reads(seen) ==
    \/ seen = creds /\ UNCHANGED conFaults
    \/ seen = Nothing /\ creds # Nothing /\ Fault

\* JsonConnectionMetadataStore::mutate and write_registry: load, change, validate,
\* rename under the global lock.  It can refuse, fail before the rename, or
\* fail to sync after it; `then` is what follows a clean write.
mutate(p, r, q, allowed, then) ==
    \/ /\ allowed /\ validate_registry(r, q)
       /\ rows' = r /\ retired' = q
       /\ then
       /\ UNCHANGED conFaults
    \/ /\ ~(allowed /\ validate_registry(r, q))
       /\ Finish(p)
       /\ UNCHANGED <<rows, retired, conFaults>>
    \/ /\ Fault /\ Finish(p)
       /\ UNCHANGED <<rows, retired>>
    \/ /\ Fault /\ Finish(p)
       /\ allowed /\ validate_registry(r, q)
       /\ rows' = r /\ retired' = q

\* Lock the id of the operation (blocking) and reload its row.
CanLock(p) == \A i \in op[p].id : idLock[i] \subseteq {p}

Lock(p, at) ==
    /\ idLock' = [idLock EXCEPT ![TheId(p)] = {p}]
    /\ op' = [op EXCEPT ![p].at = at]

----------------------------------------------------------------------------
(* Starting an operation: what the runtime reads before it calls the store. *)

Begin(p, o) ==
    /\ op[p].at = "idle"
    /\ opsMade < MaxOps
    /\ opsMade' = opsMade + 1
    /\ op' = [op EXCEPT ![p] = o]
    /\ UNCHANGED <<rows, retired, creds, tmpFile, idLock, authFile, conFaults,
                   written, leaving, astray, adopted>>

\* create: the list is read for capacity and for the key rule, then a fresh id is drawn.
StartCreate(p, provider, key) ==
    /\ provider # Subscription
    /\ Cardinality(Live(rows)) < MAX_CONNECTIONS
    /\ \A j \in ReadyRows(rows, provider) : key # {} /\ rows[j].key # {}
    /\ \E i \in Ids :
          /\ rows[i] = NoRow /\ written[i] = 0 /\ i \notin leaving
          /\ \A q \in Procs : i \notin op[q].id
          /\ Begin(p, [Idle EXCEPT !.kind = "create", !.at = "pend", !.id = {i},
                                   !.secret = opsMade + 1, !.provider = provider, !.key = key])

\* repair, replace, remove: load_connection finds the row, whose state chooses the repair.
StartOn(p, i) ==
    /\ rows[i].state # "absent"
    /\ \E kind \in {"repair", "replace", "remove"} :
          /\ kind # "remove" => rows[i].provider # Subscription
          /\ Begin(p, [Idle EXCEPT !.kind = IF kind = "repair" /\ rows[i].state = "ready"
                                            THEN "repair_ready" ELSE kind,
                                   !.at = IF kind = "remove" /\ rows[i].provider = Subscription
                                          THEN "logout" ELSE "check",
                                   !.id = {i}, !.secret = IF kind = "remove" THEN 0
                                                          ELSE opsMade + 1])

\* assign_key: nothing is read before the lock.
StartKey(p, i, k) ==
    /\ rows[i].state # "absent"
    /\ Begin(p, [Idle EXCEPT !.kind = "assign_key", !.at = "key", !.id = {i}, !.key = {k}])

----------------------------------------------------------------------------
(* Creating and repairing: pending row, credential, ready row. *)

\* create_validated up to the pending row.
create_pending(p) ==
    /\ op[p].at = "pend" /\ CanLock(p)
    /\ LET i == TheId(p)
           row == [state |-> "pending", provider |-> op[p].provider,
                   key |-> op[p].key, account |-> 0]
       IN mutate(p, [rows EXCEPT ![i] = row], retired,
                 rows[i].state = "absent" /\ Cardinality(Live(rows)) < MAX_CONNECTIONS,
                 Lock(p, "read"))
    /\ UNCHANGED <<creds, tmpFile, authFile, opsMade, written, leaving, astray, adopted>>

\* Under the lock the row must still be what the operation needs:
\* repair_validated a pending one, repair_unavailable_ready_validated a ready one
\* without credential in the document seen, replace_validated a ready one, remove any.
Needs(kind, i, seen) ==
    CASE kind = "repair" -> rows[i].state = "pending"
      [] kind = "repair_ready" -> rows[i].state = "ready" /\ seen[i] = 0
      [] kind = "replace" -> rows[i].state = "ready"
      [] OTHER -> rows[i].state # "absent"

\* Mutant: the state read before the lock is trusted.
MutantNoRecheck(p) ==
    /\ op[p].at = "check" /\ CanLock(p)
    /\ Lock(p, "read")
    /\ UNCHANGED <<rows, retired, creds, tmpFile, authFile, opsMade, conFaults,
                   written, leaving, astray, adopted>>

find_locked(p) ==
    /\ op[p].at = "check" /\ CanLock(p)
    /\ \E seen \in {creds, Nothing} :
          /\ Reads(seen)
          /\ op[p].kind # "repair_ready" => seen = creds
          /\ IF Needs(op[p].kind, TheId(p), seen) THEN Lock(p, "read") ELSE Finish(p)
    /\ UNCHANGED <<rows, retired, creds, tmpFile, authFile, opsMade, written, leaving,
                   astray, adopted>>

\* What follows a credential that is in place.
AfterCredential(p) ==
    CASE op[p].kind \in {"create", "repair"} -> Goto(p, "ready")
      [] op[p].kind = "remove" -> Goto(p, "drop")
      [] OTHER -> Finish(p)

\* Mutant: the document written holds this connection's credential alone.
MutantWriteAlone(p) ==
    /\ op[p].at = "read"
    /\ op' = [op EXCEPT ![p].at = "write",
                        ![p].doc = [i \in Ids |-> IF i = TheId(p) THEN op[p].secret ELSE 0]]
    /\ UNCHANGED <<rows, retired, creds, tmpFile, authFile, opsMade, conFaults, idLock,
                   written, leaving, astray, adopted>>

\* put and remove: read the whole document.  Removing what is not there writes nothing.
read_document(p) ==
    /\ op[p].at = "read"
    /\ leaving' = IF op[p].kind = "remove" THEN leaving \union op[p].id ELSE leaving
    /\ \E seen \in {creds, Nothing} :
          /\ Reads(seen)
          /\ astray' = (\/ astray \/ seen # creds
                        \/ \E q \in Procs \ {p} : op[q].at \in {"write", "rename"})
          /\ IF op[p].kind = "remove" /\ seen[TheId(p)] = 0
             THEN AfterCredential(p) /\ written' = [written EXCEPT ![TheId(p)] = 0]
             ELSE /\ op' = [op EXCEPT ![p].at = "write",
                                      ![p].doc = [seen EXCEPT ![TheId(p)] = op[p].secret]]
                  /\ UNCHANGED <<idLock, written>>
    /\ UNCHANGED <<rows, retired, creds, tmpFile, authFile, opsMade, adopted>>

\* write_document: the temporary file has one name for all processes ...
write_temporary(p) ==
    /\ op[p].at = "write"
    /\ \/ tmpFile' = {op[p].doc} /\ Goto(p, "rename") /\ UNCHANGED conFaults
       \/ Fault /\ Finish(p) /\ UNCHANGED tmpFile
    /\ UNCHANGED <<rows, retired, creds, authFile, opsMade, written, leaving, astray, adopted>>

\* ... and whatever it holds is renamed into place; gone, the rename fails.
rename_document(p) ==
    /\ op[p].at = "rename"
    /\ \/ /\ tmpFile # {}
          /\ creds' = CHOOSE d \in tmpFile : TRUE
          /\ tmpFile' = {}
          /\ written' = [written EXCEPT ![TheId(p)] = op[p].secret]
          /\ leaving' = IF op[p].secret # 0 THEN leaving \ op[p].id ELSE leaving
          /\ AfterCredential(p)
          /\ UNCHANGED conFaults
       \/ /\ tmpFile = {} /\ Finish(p)
          /\ UNCHANGED <<creds, tmpFile, written, leaving, conFaults>>
       \/ /\ Fault /\ Finish(p)
          /\ UNCHANGED <<creds, tmpFile, written, leaving>>
    /\ UNCHANGED <<rows, retired, authFile, opsMade, astray, adopted>>

\* mark_ready, the last write of create_validated and repair_validated.
mark_ready(p) ==
    /\ op[p].at = "ready"
    /\ LET i == TheId(p)
       IN mutate(p, [rows EXCEPT ![i].state = "ready"], retired,
                 mark_ready_allowed(rows, i), Finish(p))
    /\ UNCHANGED <<creds, tmpFile, authFile, opsMade, written, leaving, astray, adopted>>

\* ProviderConnectionStore::assign_key.
assign_key(p) ==
    /\ op[p].at = "key" /\ CanLock(p)
    /\ LET i == TheId(p)
       IN mutate(p, [rows EXCEPT ![i].key = op[p].key], retired,
                 rows[i].state # "absent" /\ rows[i].key = {}, Finish(p))
    /\ UNCHANGED <<creds, tmpFile, authFile, opsMade, written, leaving, astray, adopted>>

\* LockedConnectionMetadata::remove: the row goes and its key is retired.
remove_row(p) ==
    /\ op[p].at = "drop"
    /\ LET i == TheId(p)
       IN mutate(p, [rows EXCEPT ![i] = NoRow],
                 retired \union {<<rows[i].provider, k>> : k \in rows[i].key},
                 rows[i].state # "absent", Finish(p))
    /\ UNCHANGED <<creds, tmpFile, authFile, opsMade, written, leaving, astray, adopted>>

----------------------------------------------------------------------------
(* The managed ChatGPT login: one token file, one row. *)

\* probe_chatgpt_subscription shows the account found; the user may then ask
\* to adopt it, or to delete it and sign in again.  With no file, or from the
\* row, the user signs in.
StartLogin(p, a) ==
    \/ /\ authFile.account = 0
       /\ Begin(p, [Idle EXCEPT !.kind = "login", !.at = "device", !.account = a])
    \/ /\ authFile.account # 0
       /\ \E kind \in {"adopt", "relogin"} :
             Begin(p, [Idle EXCEPT !.kind = kind, !.at = "confirm", !.token = authFile.tag,
                                   !.account = IF kind = "adopt" THEN authFile.account ELSE a])
    \/ /\ ReadyRows(rows, Subscription) # {}
       /\ Begin(p, [Idle EXCEPT !.kind = "reauth", !.at = "forget", !.account = a])

Same == UNCHANGED <<rows, retired, creds, tmpFile, idLock, conFaults, opsMade, written,
                    leaving, astray>>

\* Mutant: the file found now is adopted, whatever was shown.
MutantAdoptAny(p) ==
    /\ op[p].at = "confirm" /\ op[p].kind = "adopt" /\ authFile.account # 0
    /\ op' = [op EXCEPT ![p].at = "list", ![p].account = authFile.account]
    /\ adopted' = adopted \union {<<op[p].account, authFile.account>>}
    /\ UNCHANGED authFile /\ Same

\* adopt_chatgpt_subscription: the file must still be the one shown; the account
\* stored is the one it authorizes.
adopt(p) ==
    /\ op[p].at = "confirm" /\ op[p].kind = "adopt"
    /\ IF authFile.account # 0 /\ authFile.tag = op[p].token
       THEN /\ op' = [op EXCEPT ![p].at = "list", ![p].account = authFile.account]
            /\ adopted' = adopted \union {<<op[p].account, authFile.account>>}
       ELSE op' = [op EXCEPT ![p] = Idle] /\ UNCHANGED adopted
    /\ UNCHANGED authFile /\ Same

\* delete_probed_chatgpt_auth_file: only the file that was shown.
delete_probed(p) ==
    /\ op[p].at = "confirm" /\ op[p].kind = "relogin"
    /\ IF authFile.account # 0 /\ authFile.tag = op[p].token
       THEN /\ authFile' = [authFile EXCEPT !.account = 0]
            /\ op' = [op EXCEPT ![p].at = "device"]
       ELSE op' = [op EXCEPT ![p] = Idle] /\ UNCHANGED authFile
    /\ UNCHANGED adopted /\ Same

\* delete_managed_chatgpt_auth_file, before a new login and before a removal.
delete_managed(p) ==
    /\ op[p].at \in {"forget", "logout"}
    /\ authFile' = [authFile EXCEPT !.account = 0]
    /\ op' = [op EXCEPT ![p].at = IF @ = "forget" THEN "device" ELSE "check"]
    /\ UNCHANGED adopted /\ Same

\* login_device_flow_expecting(Absent): the token file is created, or the login
\* fails because one appeared, or the user does not confirm.
device_login(p) ==
    /\ op[p].at = "device"
    /\ \/ /\ authFile.account = 0
          /\ authFile' = [account |-> op[p].account, tag |-> authFile.tag + 1]
          /\ op' = [op EXCEPT ![p].at = "list"]
       \/ op' = [op EXCEPT ![p] = Idle] /\ UNCHANGED authFile
    /\ UNCHANGED adopted /\ Same

\* create_managed_subscription: an existing row is updated, else a new one is
\* inserted; when another process was first, its row is updated.
create_managed(p) ==
    /\ op[p].at = "list"
    /\ \/ /\ \E i \in Live(rows) :
                /\ rows[i].provider = Subscription
                /\ op' = [op EXCEPT ![p].at = "update", ![p].id = {i}]
          /\ UNCHANGED <<rows, retired, conFaults, idLock>>
       \/ /\ \A i \in Live(rows) : rows[i].provider # Subscription
          /\ \E i \in Ids :
                /\ rows[i] = NoRow /\ written[i] = 0 /\ i \notin leaving
                /\ \A q \in Procs : i \notin op[q].id
                /\ mutate(p, [rows EXCEPT ![i] = [NoRow EXCEPT !.state = "ready",
                                                               !.account = op[p].account]],
                          retired, Cardinality(Live(rows)) < MAX_CONNECTIONS, Finish(p))
    /\ UNCHANGED <<creds, tmpFile, authFile, opsMade, written, leaving, astray, adopted>>

\* update_managed_account.
update_managed(p) ==
    /\ op[p].at = "update" /\ CanLock(p)
    /\ LET i == TheId(p)
       IN mutate(p, [rows EXCEPT ![i].account = op[p].account], retired,
                 rows[i].state = "ready" /\ rows[i].provider = Subscription, Finish(p))
    /\ UNCHANGED <<creds, tmpFile, authFile, opsMade, written, leaving, astray, adopted>>

----------------------------------------------------------------------------

\* A process dies: the system drops its locks, files stay as they are.
Die(p) ==
    /\ op[p].at # "idle"
    /\ Fault /\ Finish(p)
    /\ UNCHANGED <<rows, retired, creds, tmpFile, authFile, opsMade, written, leaving,
                   astray, adopted>>

ConInit ==
    /\ rows = [i \in Ids |-> NoRow]
    /\ retired = {}
    /\ creds = [i \in Ids |-> 0]
    /\ tmpFile = {}
    /\ idLock = [i \in Ids |-> {}]
    /\ authFile = [account |-> 0, tag |-> 0]
    /\ op = [p \in Procs |-> Idle]
    /\ opsMade = 0
    /\ conFaults = MaxFaults
    /\ written = [i \in Ids |-> 0]
    /\ leaving = {}
    /\ astray = FALSE
    /\ adopted = {}

Store(p) ==
    \/ \E provider \in Providers, key \in {{}} \union {{k} : k \in Keys} :
          StartCreate(p, provider, key)
    \/ \E i \in Ids : StartOn(p, i)
    \/ \E i \in Ids, k \in Keys : StartKey(p, i, k)
    \/ create_pending(p)
    \/ find_locked(p)
    \/ read_document(p)
    \/ write_temporary(p)
    \/ rename_document(p)
    \/ mark_ready(p)
    \/ assign_key(p)
    \/ remove_row(p)
    \/ Die(p)

Login(p) ==
    \/ \E a \in Accounts : StartLogin(p, a)
    \/ adopt(p)
    \/ delete_probed(p)
    \/ delete_managed(p)
    \/ device_login(p)
    \/ create_managed(p)
    \/ update_managed(p)

ConNext == \E p \in Procs : Store(p) \/ Login(p)

ConSpec == ConInit /\ [][ConNext]_conVars

----------------------------------------------------------------------------

ConTypeOK ==
    /\ rows \in [Ids -> Row]
    /\ retired \subseteq Providers \X Keys
    /\ creds \in [Ids -> 0..MaxOps]
    /\ tmpFile \subseteq [Ids -> 0..MaxOps] /\ Cardinality(tmpFile) <= 1
    /\ idLock \in [Ids -> SUBSET Procs]
    /\ authFile.account \in Accounts \union {0}
    /\ opsMade \in 0..MaxOps
    /\ conFaults \in 0..MaxFaults
    /\ written \in [Ids -> 0..MaxOps]
    /\ leaving \subseteq Ids

\* Whatever two processes create, repair and assign at once, two ready
\* connections of one provider both have keys, so that a default that names the
\* provider alone is never ambiguous: the check made before the pending row is
\* stale by the time the row becomes ready (registry.rs:334).
ReadyNeedKeys ==
    \A i, j \in Ids :
       /\ i # j
       /\ rows[i].state = "ready" /\ rows[j].state = "ready"
       /\ rows[i].provider = rows[j].provider
       => rows[i].key # {} /\ rows[j].key # {}

\* Whichever write fails and wherever a process dies, the credential file holds a
\* secret for every ready connection (unless its removal has begun) and none for a
\* connection that is not in the registry: pending row, credential, ready row in
\* this order, and the credential removed before the row (lib.rs:714, 987).  Two
\* exceptions: processes that rewrote the file at once, and a file taken for empty
\* because it could not be read (credential.rs:75), after which a removal leaves the
\* secret behind and a write loses those of the others.
ReadyHasSecret ==
    ~astray => \A i \in Ids :
       /\ rows[i].state = "ready" /\ rows[i].provider # Subscription /\ i \notin leaving
          => creds[i] # 0
       /\ rows[i].state = "absent" => creds[i] = 0

\* The two together: what a ready row promises to who resolves it.
RowsAreSound == ReadyNeedKeys /\ ReadyHasSecret

\* The credential file holds, for every connection, what was last put there for
\* it, as long as no two processes rewrote the file at the same time and none that
\* rewrote it took an unreadable file for an empty one: neither a failed write nor a
\* temporary file left by a process that died changes another connection's
\* credential (credential.rs:86).
CredentialKept == ~astray => creds = written

\* The same without the condition, which the registry's per-connection locks do
\* not give: "Metadata and the system credential have both been written."
CredentialAlwaysKept == creds = written

\* A key once given to a connection is never given to another one, not even after
\* the first is removed (registry.rs:420).
KeyIsForever ==
    [][/\ retired \subseteq retired'
       /\ \A i \in Ids : \A k \in rows[i].key :
             \/ rows'[i].key = rows[i].key /\ rows'[i].provider = rows[i].provider
             \/ <<rows[i].provider, k>> \in retired']_conVars

\* The login adopted is the one the user was shown, though the file may have been
\* replaced between the question and the answer (chatgpt_auth.rs:156).
AdoptIsWhatWasSeen == \A pair \in adopted : pair[1] = pair[2]
=============================================================================
