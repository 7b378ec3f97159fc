-------------------------- MODULE ConnectionsProofs --------------------------
(***************************************************************************)
(* The proofs about the provider connections: the stores that keep them    *)
(* and the refresh of the models they offer.                               *)
(***************************************************************************)
EXTENDS ConnectionStore, ModelRefresh, TLAPS

-----------------------------------------------------------------------------
(***************************************************************************)
(* Proofs about ConnectionStore: what the stored connections promise, for  *)
(* any number of processes, connections, providers, keys, operations and   *)
(* faults.                                                                 *)
(***************************************************************************)

Kinds == {"none", "create", "repair", "repair_ready", "replace", "remove", "assign_key",
          "login", "adopt", "relogin", "reauth"}
Steps == {"idle", "pend", "logout", "check", "key", "read", "write", "rename", "ready",
          "drop", "device", "confirm", "forget", "list", "update"}
Docs  == [Ids -> 0..MaxOps]

Operation == [kind : Kinds, at : Steps, id : SUBSET Ids, secret : 0..MaxOps,
              provider : Providers, key : SUBSET Keys, account : Accounts \union {0},
              token : Nat, doc : Docs \union {<<>>}]

\* The steps made under the lock of a connection, those of operations on the
\* credential, and those that are about a connection at all.
Held      == {"read", "write", "rename", "ready", "drop"}
Rewriting == {"write", "rename"}
OnSecret  == {"pend", "check", "logout"} \union Held
OnRow     == {"key", "update"} \union OnSecret

Types ==
    /\ rows \in [Ids -> Row]
    /\ creds \in Docs /\ written \in Docs /\ tmpFile \subseteq Docs
    /\ idLock \in [Ids -> SUBSET Procs]
    /\ authFile \in [account : Accounts \union {0}, tag : Nat]
    /\ op \in [Procs -> Operation]
    /\ opsMade \in 0..MaxOps /\ conFaults \in 0..MaxFaults
    /\ astray \in BOOLEAN

\* An operation on the credential is one of five; all but a removal bring a
\* secret, one connection is meant, and what is written is a whole document.
Sensible(o) ==
    /\ o.at \in OnRow => \E i \in Ids : o.id = {i}
    /\ o.at \in OnSecret =>
         \/ o.kind = "remove" /\ o.secret = 0
         \/ o.kind \in {"create", "repair", "repair_ready", "replace"} /\ o.secret # 0
    /\ o.at = "ready" => o.kind # "remove"
    /\ o.at \in {"drop", "logout"} => o.kind = "remove"
    /\ o.at \in Rewriting => o.doc \in Docs

OperationsMakeSense == \A p \in Procs : Sensible(op[p])

\* Who works under the lock of a connection is alone there, its row is in the
\* registry, and what it did to the credential is still so.
Holds(p, o, i) ==
    /\ o.id = {i} /\ idLock[i] = {p}
    /\ rows[i].state # "absent"
    /\ o.at \in {"write", "rename", "drop"} /\ o.kind = "remove" => i \in leaving
    /\ o.at = "ready" => written[i] # 0
    /\ o.at = "drop" => written[i] = 0

LocksHold == \A p \in Procs : op[p].at \in Held => \E i \in Ids : Holds(p, op[p], i)

\* What is not in the registry has no key there.
AbsentIsEmpty == \A i \in Ids : rows[i].state = "absent" => rows[i].key = {}

\* Who rewrites the credential file alone writes what the file holds, changed for
\* its connection only, and finds its own document under the temporary name.
Rewrites(o) ==
    /\ \A i \in o.id : o.doc = [creds EXCEPT ![i] = o.secret]
    /\ o.at = "rename" => tmpFile = {o.doc}

OneRewrites ==
    ~astray => \A p \in Procs : op[p].at \in Rewriting =>
      /\ \A q \in Procs \ {p} : op[q].at \notin Rewriting
      /\ Rewrites(op[p])

\* The token file a question was asked about has the account that was shown, as
\* long as it is that file.
Shown(o) ==
    o.at = "confirm" =>
      /\ o.token <= authFile.tag
      /\ o.kind = "adopt" /\ o.token = authFile.tag /\ authFile.account # 0
           => o.account = authFile.account

ShownIsThere == \A p \in Procs : Shown(op[p])

\* A ready row has had its credential written, unless its removal has begun, and a
\* row that is not there has none, whatever the file holds.
WrittenInOrder ==
    \A i \in Ids :
       /\ rows[i].state = "ready" /\ rows[i].provider # Subscription /\ i \notin leaving
          => written[i] # 0
       /\ rows[i].state = "absent" => written[i] = 0

RowsInOrder == ReadyNeedKeys /\ WrittenInOrder

\* The inductive invariant.
ConInv ==
    /\ Types /\ OperationsMakeSense /\ LocksHold /\ AbsentIsEmpty
    /\ OneRewrites /\ ShownIsThere
    /\ RowsInOrder /\ CredentialKept /\ AdoptIsWhatWasSeen

-----------------------------------------------------------------------------
(***************************************************************************)
(* What one process does to the operations and the locks.                  *)
(***************************************************************************)

\* An idle process asks nothing of the invariant.
LEMMA IdleIsSensible ==
    /\ Idle \in Operation /\ Sensible(Idle) /\ Shown(Idle)'
    /\ Idle.at = "idle" /\ Idle.id = {} /\ Idle.kind = "none" /\ Idle.account = 0
    /\ Idle.at \notin Held /\ Idle.at \notin Rewriting
<1>1. Idle \in Operation
  BY ConnectionAssumption DEF Idle, Operation, Kinds, Steps
<1>2. Idle.at = "idle" /\ Idle.id = {} /\ Idle.kind = "none" /\ Idle.account = 0
  BY DEF Idle
<1> QED BY <1>1, <1>2 DEF Sensible, Shown, OnRow, OnSecret, Held, Rewriting

\* The connection an operation is about.
LEMMA TheIdIs ==
    ASSUME NEW p \in Procs, NEW i \in Ids, op[p].id = {i}
    PROVE  TheId(p) = i
  BY DEF TheId

\* What one process does leaves the others' locks and what they rest on alone.
LEMMA LocksStay ==
    ASSUME ConInv, NEW p \in Procs, NEW o \in Operation, op' = [op EXCEPT ![p] = o],
           \A q \in Procs \ {p}, j \in Ids : idLock[j] = {q} =>
             /\ idLock'[j] = {q} /\ written'[j] = written[j]
             /\ rows[j].state # "absent" => rows'[j].state # "absent"
             /\ j \in leaving => j \in leaving',
           o.at \in Held => \E i \in Ids : Holds(p, o, i)'
    PROVE  LocksHold'
<1> SUFFICES ASSUME NEW q \in Procs, op'[q].at \in Held
             PROVE  \E j \in Ids : Holds(q, op[q], j)'
  BY DEF LocksHold
<1>1. op \in [Procs -> Operation]
  BY DEF ConInv, Types
<1>2. CASE q = p
  BY <1>1, <1>2
<1>3. CASE q # p
  <2>1. op'[q] = op[q]
    BY <1>1, <1>3
  <2>2. PICK j \in Ids : Holds(q, op[q], j)
    BY <2>1 DEF ConInv, LocksHold
  <2>3. Holds(q, op[q], j)'
    BY <1>3, <2>1, <2>2 DEF Holds
  <2> QED BY <2>3
<1> QED BY <1>2, <1>3

\* ... and the sense of the others' operations.
LEMMA SenseStays ==
    ASSUME ConInv, NEW p \in Procs, NEW o \in Operation, op' = [op EXCEPT ![p] = o],
           Sensible(o)
    PROVE  OperationsMakeSense' /\ op' \in [Procs -> Operation]
  BY DEF ConInv, Types, OperationsMakeSense

\* ... and what the others were shown, while the token file is the same or a new
\* one.
LEMMA ShownStays ==
    ASSUME ConInv, NEW p \in Procs, NEW o \in Operation, op' = [op EXCEPT ![p] = o],
           Shown(o)',
           \/ authFile' = authFile
           \/ authFile' = [authFile EXCEPT !.account = 0]
           \/ authFile'.tag = authFile.tag + 1
    PROVE  ShownIsThere'
<1> SUFFICES ASSUME NEW q \in Procs PROVE Shown(op[q])'
  BY DEF ShownIsThere
<1>1. op \in [Procs -> Operation] /\ authFile \in [account : Accounts \union {0}, tag : Nat]
  BY DEF ConInv, Types
<1>2. CASE q = p
  BY <1>1, <1>2
<1>3. CASE q # p
  <2>1. op'[q] = op[q] /\ op[q].token \in Nat
    BY <1>1, <1>3 DEF Operation
  <2>2. Shown(op[q])
    BY DEF ConInv, ShownIsThere
  <2> QED BY <1>1, <2>1, <2>2 DEF Shown
<1> QED BY <1>2, <1>3

\* ... and the document of the one that rewrites the credential file.
LEMMA RewriteStays ==
    ASSUME ConInv, NEW p \in Procs, NEW o \in Operation, op' = [op EXCEPT ![p] = o],
           o.at \notin Rewriting, UNCHANGED <<creds, tmpFile, astray>>
    PROVE  OneRewrites'
<1>1. op \in [Procs -> Operation]
  BY DEF ConInv, Types
<1>2. op'[p] = o /\ \A q \in Procs \ {p} : op'[q] = op[q]
  BY <1>1
<1> QED BY <1>2 DEF ConInv, OneRewrites, Rewrites

\* A step that changes neither the credentials nor the token file: the registry is
\* sound after it, and no row that another process works on is gone.
LEMMA RegistryStepKeeps ==
    ASSUME ConInv, NEW p \in Procs, NEW o \in Operation, op' = [op EXCEPT ![p] = o],
           Sensible(o), Shown(o)', o.at \notin Rewriting,
           UNCHANGED <<creds, written, leaving, authFile, tmpFile, adopted, astray>>,
           opsMade' \in 0..MaxOps, conFaults' \in 0..MaxFaults,
           idLock' \in [Ids -> SUBSET Procs], rows' \in [Ids -> Row],
           \A q \in Procs \ {p}, j \in Ids : idLock[j] = {q} =>
             /\ idLock'[j] = {q}
             /\ rows[j].state # "absent" => rows'[j].state # "absent",
           o.at \in Held => \E i \in Ids : Holds(p, o, i)',
           AbsentIsEmpty', RowsInOrder'
    PROVE  ConInv'
<1>1. LocksHold'
  BY LocksStay
<1>2. OperationsMakeSense' /\ op' \in [Procs -> Operation]
  BY SenseStays
<1>3. ShownIsThere' /\ OneRewrites'
  BY ShownStays, RewriteStays
<1>4. Types'
  BY <1>2 DEF ConInv, Types
<1>5. CredentialKept' /\ AdoptIsWhatWasSeen'
  BY DEF ConInv, CredentialKept, AdoptIsWhatWasSeen
<1> QED BY <1>1, <1>2, <1>3, <1>4, <1>5 DEF ConInv

\* A step that changes the operation of one process only.
LEMMA OperationStepKeeps ==
    ASSUME ConInv, NEW p \in Procs, NEW o \in Operation, op' = [op EXCEPT ![p] = o],
           Sensible(o), Shown(o)', o.at \notin Rewriting,
           UNCHANGED <<rows, creds, written, leaving, authFile, tmpFile, adopted, astray>>,
           opsMade' \in 0..MaxOps, conFaults' \in 0..MaxFaults,
           idLock' \in [Ids -> SUBSET Procs],
           \A q \in Procs \ {p}, j \in Ids : idLock[j] = {q} => idLock'[j] = {q},
           o.at \in Held => \E i \in Ids : Holds(p, o, i)'
    PROVE  ConInv'
<1>1. AbsentIsEmpty' /\ rows' \in [Ids -> Row]
  BY DEF ConInv, AbsentIsEmpty, Types
<1>2. RowsInOrder'
  BY DEF ConInv, RowsInOrder, ReadyNeedKeys, WrittenInOrder
<1> QED BY <1>1, <1>2, RegistryStepKeeps

\* Finish: the lock of the process is dropped, no other.
LEMMA FinishLocks ==
    ASSUME ConInv, NEW p \in Procs, Finish(p)
    PROVE  /\ op' = [op EXCEPT ![p] = Idle]
           /\ idLock' \in [Ids -> SUBSET Procs]
           /\ \A q \in Procs \ {p}, j \in Ids : idLock[j] = {q} => idLock'[j] = {q}
  BY DEF ConInv, Types, Finish

\* An operation that ends, or whose process dies, leaves everything as it is.
LEMMA FinishKeeps ==
    ASSUME ConInv, NEW p \in Procs, Finish(p), conFaults' \in 0..MaxFaults,
           UNCHANGED <<rows, creds, written, leaving, authFile, tmpFile, adopted, astray,
                       opsMade>>
    PROVE  ConInv'
<1>1. opsMade' \in 0..MaxOps
  BY DEF ConInv, Types
<1> QED BY <1>1, FinishLocks, IdleIsSensible, OperationStepKeeps

\* A fault is counted.
LEMMA FaultCounts ==
    ASSUME ConInv
    PROVE  /\ conFaults \in 0..MaxFaults
           /\ Fault => conFaults' \in 0..MaxFaults
  BY ConnectionAssumption DEF ConInv, Types, Fault

-----------------------------------------------------------------------------
(***************************************************************************)
(* The operations of the store.                                            *)
(***************************************************************************)

\* An operation begins, without a lock.
LEMMA BeginKeeps ==
    ASSUME ConInv, NEW p \in Procs, NEW o \in Operation, Begin(p, o),
           Sensible(o), Shown(o), o.at \notin Held, o.at \notin Rewriting
    PROVE  ConInv'
<1>1. /\ op' = [op EXCEPT ![p] = o]
      /\ UNCHANGED <<rows, retired, creds, tmpFile, idLock, authFile, conFaults,
                     written, leaving, astray, adopted>>
  BY DEF Begin
<1>2. opsMade' \in 0..MaxOps /\ conFaults' \in 0..MaxFaults
  BY <1>1, ConnectionAssumption DEF ConInv, Types, Begin
<1>3. Shown(o)'
  BY <1>1 DEF Shown
<1>4. idLock' \in [Ids -> SUBSET Procs]
  BY <1>1 DEF ConInv, Types
<1> QED BY <1>1, <1>2, <1>3, <1>4, OperationStepKeeps

\* The secret of an operation that begins is its number.
LEMMA SecretIsNew ==
    ASSUME ConInv, opsMade < MaxOps
    PROVE  opsMade + 1 \in 0..MaxOps /\ opsMade + 1 # 0 /\ 0 \in 0..MaxOps
  BY ConnectionAssumption DEF ConInv, Types

\* create begins with a fresh id and a secret of its own.
LEMMA StartCreateKeeps ==
    ASSUME ConInv, NEW p \in Procs, NEW provider \in Providers, NEW key \in SUBSET Keys,
           StartCreate(p, provider, key)
    PROVE  ConInv'
<1>1. PICK i \in Ids :
        Begin(p, [Idle EXCEPT !.kind = "create", !.at = "pend", !.id = {i},
                              !.secret = opsMade + 1, !.provider = provider, !.key = key])
  BY DEF StartCreate
<1> DEFINE o == [Idle EXCEPT !.kind = "create", !.at = "pend", !.id = {i},
                             !.secret = opsMade + 1, !.provider = provider, !.key = key]
<1>2. opsMade + 1 \in 0..MaxOps /\ opsMade + 1 # 0
  BY <1>1, SecretIsNew DEF Begin
<1>3. o \in Operation
  BY <1>2, IdleIsSensible DEF Operation, Kinds, Steps
<1>4. o.at = "pend" /\ o.kind = "create" /\ o.id = {i} /\ o.secret = opsMade + 1
  BY DEF Idle
<1>5. Sensible(o) /\ Shown(o) /\ o.at \notin Held /\ o.at \notin Rewriting
  BY <1>2, <1>4 DEF Sensible, Shown, OnSecret, OnRow, Held, Rewriting
<1> QED BY <1>1, <1>3, <1>5, BeginKeeps

\* repair, replace and remove begin with the row they found.
LEMMA StartOnKeeps ==
    ASSUME ConInv, NEW p \in Procs, NEW i \in Ids, StartOn(p, i)
    PROVE  ConInv'
<1>1. PICK kind \in {"repair", "replace", "remove"} :
        Begin(p, [Idle EXCEPT !.kind = IF kind = "repair" /\ rows[i].state = "ready"
                                         THEN "repair_ready" ELSE kind,
                              !.at = IF kind = "remove" /\ rows[i].provider = Subscription
                                       THEN "logout" ELSE "check",
                              !.id = {i}, !.secret = IF kind = "remove" THEN 0
                                                     ELSE opsMade + 1])
  BY DEF StartOn
<1>2. PICK k, at, secret :
        /\ Begin(p, [Idle EXCEPT !.kind = k, !.at = at, !.id = {i}, !.secret = secret])
        /\ at \in {"logout", "check"} /\ (at = "logout" => k = "remove")
        /\ \/ k = "remove" /\ secret = 0
           \/ k \in {"repair", "repair_ready", "replace"} /\ secret = opsMade + 1
  BY <1>1
<1> DEFINE o == [Idle EXCEPT !.kind = k, !.at = at, !.id = {i}, !.secret = secret]
<1>3. secret \in 0..MaxOps /\ opsMade + 1 # 0
  BY <1>2, SecretIsNew DEF Begin
<1>4. o \in Operation
  BY <1>2, <1>3, IdleIsSensible DEF Operation, Kinds, Steps
<1>5. o.at = at /\ o.kind = k /\ o.id = {i} /\ o.secret = secret
  BY DEF Idle
<1>6. Sensible(o) /\ Shown(o) /\ o.at \notin Held /\ o.at \notin Rewriting
  BY <1>2, <1>3, <1>5 DEF Sensible, Shown, OnSecret, OnRow, Held, Rewriting
<1> QED BY <1>2, <1>4, <1>6, BeginKeeps

\* assign_key begins.
LEMMA StartKeyKeeps ==
    ASSUME ConInv, NEW p \in Procs, NEW i \in Ids, NEW k \in Keys, StartKey(p, i, k)
    PROVE  ConInv'
<1> DEFINE o == [Idle EXCEPT !.kind = "assign_key", !.at = "key", !.id = {i}, !.key = {k}]
<1>1. Begin(p, o)
  BY DEF StartKey
<1>2. o \in Operation
  BY IdleIsSensible DEF Operation, Kinds, Steps
<1>3. o.at = "key" /\ o.id = {i}
  BY DEF Idle
<1>4. Sensible(o) /\ Shown(o) /\ o.at \notin Held /\ o.at \notin Rewriting
  BY <1>3 DEF Sensible, Shown, OnSecret, OnRow, Held, Rewriting
<1> QED BY <1>1, <1>2, <1>4, BeginKeeps

\* The lock of a connection is taken only when no other process holds it.
LEMMA LockLocks ==
    ASSUME ConInv, NEW p \in Procs, NEW i \in Ids, op[p].id = {i}, CanLock(p),
           NEW at \in Steps, Lock(p, at)
    PROVE  /\ op' = [op EXCEPT ![p] = [op[p] EXCEPT !.at = at]]
           /\ idLock' \in [Ids -> SUBSET Procs] /\ idLock'[i] = {p}
           /\ \A q \in Procs \ {p}, j \in Ids : idLock[j] = {q} => idLock'[j] = {q}
<1>1. TheId(p) = i
  BY TheIdIs
<1>2. idLock \in [Ids -> SUBSET Procs]
  BY DEF ConInv, Types
<1> QED BY <1>1, <1>2 DEF Lock, CanLock

\* The operation of a process goes on.
LEMMA AtIsSensible ==
    ASSUME ConInv, NEW p \in Procs, NEW at \in Steps
    PROVE  /\ op[p] \in Operation /\ Sensible(op[p]) /\ Shown(op[p])
           /\ \E o \in Operation :
                /\ o = [op[p] EXCEPT !.at = at] /\ o.at = at /\ o.id = op[p].id
                /\ o.kind = op[p].kind /\ o.secret = op[p].secret /\ o.doc = op[p].doc
<1>1. op[p] \in Operation /\ Sensible(op[p]) /\ Shown(op[p])
  BY DEF ConInv, Types, OperationsMakeSense, ShownIsThere
<1>2. [op[p] EXCEPT !.at = at] \in Operation
  BY <1>1 DEF Operation
<1>3. \A o : o = [op[p] EXCEPT !.at = at] =>
        /\ o.at = at /\ o.id = op[p].id
        /\ o.kind = op[p].kind /\ o.secret = op[p].secret /\ o.doc = op[p].doc
  BY <1>1 DEF Operation
<1> QED BY <1>1, <1>2, <1>3

\* Under the lock the row is still there, or the operation ends.
LEMMA FindLockedKeeps ==
    ASSUME ConInv, NEW p \in Procs, find_locked(p)
    PROVE  ConInv'
<1>1. /\ op[p].at = "check" /\ CanLock(p)
      /\ UNCHANGED <<rows, retired, creds, tmpFile, authFile, opsMade, written, leaving,
                     astray, adopted>>
  BY DEF find_locked
<1>2. PICK i \in Ids : op[p].id = {i}
  BY <1>1, AtIsSensible DEF Sensible, OnRow, OnSecret, Steps
<1>3. TheId(p) = i
  BY <1>2, TheIdIs
<1>4. conFaults' \in 0..MaxFaults /\ opsMade' \in 0..MaxOps
  BY <1>1, FaultCounts DEF ConInv, Types, find_locked, Reads
<1>5. CASE Finish(p)
  BY <1>1, <1>4, <1>5, FinishKeeps
<1>6. CASE (\E seen \in {creds, Nothing} : Needs(op[p].kind, i, seen)) /\ Lock(p, "read")
  <2>1. "read" \in Steps
    BY DEF Steps
  <2>2. PICK o \in Operation :
          /\ o = [op[p] EXCEPT !.at = "read"]
          /\ o.at = "read" /\ o.id = op[p].id /\ o.kind = op[p].kind
          /\ o.secret = op[p].secret
    BY <1>2, <2>1, AtIsSensible
  <2>3. Sensible(o) /\ Shown(o)' /\ o.at \notin Rewriting
    BY <1>1, <1>2, <2>1, <2>2, AtIsSensible DEF Sensible, Shown, OnSecret, OnRow, Held,
       Rewriting
  <2>4. /\ op' = [op EXCEPT ![p] = o]
        /\ idLock' \in [Ids -> SUBSET Procs] /\ idLock'[i] = {p}
        /\ \A q \in Procs \ {p}, j \in Ids : idLock[j] = {q} => idLock'[j] = {q}
    BY <1>1, <1>2, <1>6, <2>1, <2>2, LockLocks
  <2>5. rows[i].state # "absent"
    BY <1>6 DEF Needs
  <2>6. Holds(p, o, i)'
    BY <1>1, <1>2, <2>2, <2>4, <2>5 DEF Holds
  <2> QED BY <1>1, <1>4, <2>2, <2>3, <2>4, <2>6, OperationStepKeeps
<1> QED BY <1>3, <1>5, <1>6 DEF find_locked

\* A registry write that ends the operation, of a row that no other process works
\* on or that stays.
LEMMA RowWriteKeeps ==
    ASSUME ConInv, NEW p \in Procs, NEW i \in Ids, NEW row \in Row, Finish(p),
           rows' = [rows EXCEPT ![i] = row],
           row.state = "absent" => idLock[i] = {p} /\ row.key = {},
           RowsInOrder', conFaults' \in 0..MaxFaults,
           UNCHANGED <<creds, tmpFile, authFile, opsMade, written, leaving, astray,
                       adopted>>
    PROVE  ConInv'
<1>1. rows \in [Ids -> Row] /\ opsMade' \in 0..MaxOps
  BY DEF ConInv, Types
<1>2. rows' \in [Ids -> Row] /\ AbsentIsEmpty'
  BY <1>1 DEF ConInv, AbsentIsEmpty
<1>3. op' = [op EXCEPT ![p] = Idle] /\ idLock' \in [Ids -> SUBSET Procs]
  BY FinishLocks
<1>4. \A q \in Procs \ {p}, j \in Ids : idLock[j] = {q} =>
        /\ idLock'[j] = {q}
        /\ rows[j].state # "absent" => rows'[j].state # "absent"
  BY <1>1, FinishLocks
<1> QED BY <1>1, <1>2, <1>3, <1>4, IdleIsSensible, RegistryStepKeeps

\* The rows of one connection change: what is left to show of the registry.
LEMMA SoundAfter ==
    ASSUME ConInv, NEW i \in Ids, NEW row \in Row, rows' = [rows EXCEPT ![i] = row],
           UNCHANGED <<written, leaving>>,
           row.state = "ready" =>
             \A j \in Ids \ {i} : rows[j].state = "ready" /\ rows[j].provider = row.provider
                                    => row.key # {} /\ rows[j].key # {},
           (row.state = "ready" /\ row.provider # Subscription /\ i \notin leaving)
             => written[i] # 0,
           row.state = "absent" => written[i] = 0
    PROVE  RowsInOrder'
<1>1. rows \in [Ids -> Row] /\ rows'[i] = row /\ \A j \in Ids \ {i} : rows'[j] = rows[j]
  BY DEF ConInv, Types
<1>2. ReadyNeedKeys'
  BY <1>1 DEF ConInv, RowsInOrder, ReadyNeedKeys
<1>3. WrittenInOrder'
  BY <1>1 DEF ConInv, RowsInOrder, WrittenInOrder
<1> QED BY <1>2, <1>3 DEF RowsInOrder

\* Under the lock the process knows its row.
LEMMA UnderLock ==
    ASSUME ConInv, NEW p \in Procs, op[p].at \in Held
    PROVE  \E i \in Ids : Holds(p, op[p], i) /\ TheId(p) = i
<1>1. PICK i \in Ids : Holds(p, op[p], i)
  BY DEF ConInv, LocksHold
<1>2. TheId(p) = i
  BY <1>1, TheIdIs DEF Holds
<1> QED BY <1>1, <1>2

\* mark_ready: the credential is in place, and the keys tell the ready rows apart.
LEMMA MarkReadyKeeps ==
    ASSUME ConInv, NEW p \in Procs, mark_ready(p)
    PROVE  ConInv'
<1>1. /\ op[p].at = "ready"
      /\ UNCHANGED <<creds, tmpFile, authFile, opsMade, written, leaving, astray, adopted>>
  BY DEF mark_ready
<1>2. PICK i \in Ids : Holds(p, op[p], i) /\ TheId(p) = i
  BY <1>1, UnderLock DEF Held
<1>3. rows \in [Ids -> Row]
  BY DEF ConInv, Types
<1>4. /\ conFaults' \in 0..MaxFaults
      /\ Finish(p)
      /\ \/ rows' = rows
         \/ mark_ready_allowed(rows, i) /\ rows' = [rows EXCEPT ![i].state = "ready"]
  BY <1>2, FaultCounts DEF mark_ready, mutate
<1>5. CASE rows' = rows
  BY <1>1, <1>4, <1>5, FinishKeeps
<1>6. CASE mark_ready_allowed(rows, i) /\ rows' = [rows EXCEPT ![i].state = "ready"]
  <2>1. PICK row \in Row : /\ row.state = "ready" /\ row.provider = rows[i].provider
                           /\ row.key = rows[i].key
                           /\ rows' = [rows EXCEPT ![i] = row]
    <3>1. [rows[i] EXCEPT !.state = "ready"] \in Row
      BY <1>3 DEF Row
    <3>2. \A row : row = [rows[i] EXCEPT !.state = "ready"] =>
            /\ row.state = "ready" /\ row.provider = rows[i].provider
            /\ row.key = rows[i].key
      BY <1>3 DEF Row
    <3>3. rows' = [rows EXCEPT ![i] = [rows[i] EXCEPT !.state = "ready"]]
      BY <1>3, <1>6
    <3> QED BY <3>1, <3>2, <3>3
  <2>2. \A j \in Ids \ {i} : rows[j].state = "ready" /\ rows[j].provider = row.provider
                               => row.key # {} /\ rows[j].key # {}
    BY <1>6, <2>1 DEF mark_ready_allowed, ReadyRows
  <2>3. written[i] # 0
    BY <1>1, <1>2 DEF Holds
  <2>4. RowsInOrder'
    BY <1>1, <2>1, <2>2, <2>3, SoundAfter
  <2> QED BY <1>1, <1>4, <2>1, <2>4, RowWriteKeeps
<1> QED BY <1>4, <1>5, <1>6

\* assign_key: only a row without a key gets one.
LEMMA AssignKeyKeeps ==
    ASSUME ConInv, NEW p \in Procs, assign_key(p)
    PROVE  ConInv'
<1>1. /\ op[p].at = "key"
      /\ UNCHANGED <<creds, tmpFile, authFile, opsMade, written, leaving, astray, adopted>>
  BY DEF assign_key
<1>2. PICK i \in Ids : op[p].id = {i}
  BY <1>1 DEF ConInv, OperationsMakeSense, Sensible, OnRow
<1>3. rows \in [Ids -> Row] /\ op[p] \in Operation /\ TheId(p) = i
  BY <1>2, TheIdIs DEF ConInv, Types
<1>4. /\ conFaults' \in 0..MaxFaults
      /\ Finish(p)
      /\ \/ rows' = rows
         \/ /\ rows[i].state # "absent" /\ rows[i].key = {}
            /\ rows' = [rows EXCEPT ![i].key = op[p].key]
  BY <1>3, FaultCounts DEF assign_key, mutate
<1>5. CASE rows' = rows
  BY <1>1, <1>4, <1>5, FinishKeeps
<1>6. CASE /\ rows[i].state # "absent" /\ rows[i].key = {}
           /\ rows' = [rows EXCEPT ![i].key = op[p].key]
  <2>1. PICK row \in Row : /\ row.state = rows[i].state /\ row.provider = rows[i].provider
                           /\ rows' = [rows EXCEPT ![i] = row]
    <3>1. [rows[i] EXCEPT !.key = op[p].key] \in Row
      BY <1>3 DEF Row, Operation
    <3>2. \A row : row = [rows[i] EXCEPT !.key = op[p].key] =>
            row.state = rows[i].state /\ row.provider = rows[i].provider
      BY <1>3 DEF Row
    <3>3. rows' = [rows EXCEPT ![i] = [rows[i] EXCEPT !.key = op[p].key]]
      BY <1>3, <1>6
    <3> QED BY <3>1, <3>2, <3>3
  <2>2. row.state = "ready" =>
          \A j \in Ids \ {i} : rows[j].state # "ready" \/ rows[j].provider # row.provider
    BY <1>6, <2>1 DEF ConInv, RowsInOrder, ReadyNeedKeys
  <2>3. (row.state = "ready" /\ row.provider # Subscription /\ i \notin leaving)
          => written[i] # 0
    BY <2>1 DEF ConInv, RowsInOrder, WrittenInOrder
  <2>4. row.state # "absent"
    BY <1>6, <2>1
  <2>5. RowsInOrder'
    BY <1>1, <2>1, <2>2, <2>3, <2>4, SoundAfter
  <2> QED BY <1>1, <1>4, <2>1, <2>4, <2>5, RowWriteKeeps
<1> QED BY <1>4, <1>5, <1>6

\* An absent row is a row without a key.
LEMMA NoRowIsRow == NoRow \in Row /\ NoRow.state = "absent" /\ NoRow.key = {}
  BY ConnectionAssumption DEF NoRow, Row

\* remove: the row goes when its credential has gone.
LEMMA RemoveRowKeeps ==
    ASSUME ConInv, NEW p \in Procs, remove_row(p)
    PROVE  ConInv'
<1>1. /\ op[p].at = "drop"
      /\ UNCHANGED <<creds, tmpFile, authFile, opsMade, written, leaving, astray, adopted>>
  BY DEF remove_row
<1>2. PICK i \in Ids : Holds(p, op[p], i) /\ TheId(p) = i
  BY <1>1, UnderLock DEF Held
<1>3. /\ conFaults' \in 0..MaxFaults
      /\ Finish(p)
      /\ rows' = rows \/ rows' = [rows EXCEPT ![i] = NoRow]
  BY <1>2, FaultCounts DEF remove_row, mutate
<1>4. CASE rows' = rows
  BY <1>1, <1>3, <1>4, FinishKeeps
<1>5. CASE rows' = [rows EXCEPT ![i] = NoRow]
  <2>1. written[i] = 0 /\ idLock[i] = {p}
    BY <1>1, <1>2 DEF Holds
  <2>2. RowsInOrder'
    BY <1>1, <1>5, <2>1, NoRowIsRow, SoundAfter
  <2> QED BY <1>1, <1>3, <1>5, <2>1, <2>2, NoRowIsRow, RowWriteKeeps
<1> QED BY <1>3, <1>4, <1>5

\* update_managed_account: only the account of the row changes.
LEMMA UpdateManagedKeeps ==
    ASSUME ConInv, NEW p \in Procs, update_managed(p)
    PROVE  ConInv'
<1>1. /\ op[p].at = "update"
      /\ UNCHANGED <<creds, tmpFile, authFile, opsMade, written, leaving, astray, adopted>>
  BY DEF update_managed
<1>2. PICK i \in Ids : op[p].id = {i}
  BY <1>1 DEF ConInv, OperationsMakeSense, Sensible, OnRow
<1>3. rows \in [Ids -> Row] /\ op[p] \in Operation /\ TheId(p) = i
  BY <1>2, TheIdIs DEF ConInv, Types
<1>4. /\ conFaults' \in 0..MaxFaults
      /\ Finish(p)
      /\ \/ rows' = rows
         \/ /\ rows[i].state = "ready"
            /\ rows' = [rows EXCEPT ![i].account = op[p].account]
  BY <1>3, FaultCounts DEF update_managed, mutate
<1>5. CASE rows' = rows
  BY <1>1, <1>4, <1>5, FinishKeeps
<1>6. CASE /\ rows[i].state = "ready"
           /\ rows' = [rows EXCEPT ![i].account = op[p].account]
  <2>1. PICK row \in Row : /\ row.state = rows[i].state /\ row.provider = rows[i].provider
                           /\ row.key = rows[i].key
                           /\ rows' = [rows EXCEPT ![i] = row]
    <3>1. [rows[i] EXCEPT !.account = op[p].account] \in Row
      BY <1>3 DEF Row, Operation
    <3>2. \A row : row = [rows[i] EXCEPT !.account = op[p].account] =>
            /\ row.state = rows[i].state /\ row.provider = rows[i].provider
            /\ row.key = rows[i].key
      BY <1>3 DEF Row
    <3>3. rows' = [rows EXCEPT ![i] = [rows[i] EXCEPT !.account = op[p].account]]
      BY <1>3, <1>6
    <3> QED BY <3>1, <3>2, <3>3
  <2>2. /\ row.state # "absent"
        /\ \A j \in Ids \ {i} : rows[j].state = "ready" /\ rows[j].provider = row.provider
                                  => row.key # {} /\ rows[j].key # {}
        /\ row.provider # Subscription /\ i \notin leaving => written[i] # 0
    BY <1>6, <2>1 DEF ConInv, RowsInOrder, ReadyNeedKeys, WrittenInOrder
  <2>3. RowsInOrder'
    BY <1>1, <2>1, <2>2, SoundAfter
  <2> QED BY <1>1, <1>4, <2>1, <2>2, <2>3, RowWriteKeeps
<1> QED BY <1>4, <1>5, <1>6

\* The pending row is written with the lock of its connection.
LEMMA CreatePendingKeeps ==
    ASSUME ConInv, NEW p \in Procs, create_pending(p)
    PROVE  ConInv'
<1>1. /\ op[p].at = "pend" /\ CanLock(p)
      /\ UNCHANGED <<creds, tmpFile, authFile, opsMade, written, leaving, astray, adopted>>
  BY DEF create_pending
<1>2. PICK i \in Ids : op[p].id = {i}
  BY <1>1 DEF ConInv, OperationsMakeSense, Sensible, OnRow, OnSecret
<1>3. rows \in [Ids -> Row] /\ op[p] \in Operation /\ TheId(p) = i
  BY <1>2, TheIdIs DEF ConInv, Types
<1>4. PICK row \in Row : row = [state |-> "pending", provider |-> op[p].provider,
                                key |-> op[p].key, account |-> 0]
  BY <1>3 DEF Row, Operation
<1>5. /\ conFaults' \in 0..MaxFaults
      /\ \/ rows' = rows /\ Finish(p)
         \/ rows' = [rows EXCEPT ![i] = row] /\ Finish(p)
         \/ rows' = [rows EXCEPT ![i] = row] /\ Lock(p, "read")
  BY <1>3, <1>4, FaultCounts DEF create_pending, mutate
<1>6. CASE rows' = rows /\ Finish(p)
  BY <1>1, <1>5, <1>6, FinishKeeps
<1>7. row.state = "pending"
  BY <1>4
<1>8. CASE rows' = [rows EXCEPT ![i] = row] /\ Finish(p)
  <2>1. RowsInOrder'
    BY <1>1, <1>7, <1>8, SoundAfter
  <2> QED BY <1>1, <1>5, <1>7, <1>8, <2>1, RowWriteKeeps
<1>9. CASE rows' = [rows EXCEPT ![i] = row] /\ Lock(p, "read")
  <2>1. RowsInOrder'
    BY <1>1, <1>7, <1>9, SoundAfter
  <2>2. "read" \in Steps
    BY DEF Steps
  <2>3. PICK o \in Operation :
          /\ o = [op[p] EXCEPT !.at = "read"]
          /\ o.at = "read" /\ o.id = op[p].id /\ o.kind = op[p].kind
          /\ o.secret = op[p].secret
    BY <2>2, AtIsSensible
  <2>4. Sensible(o) /\ Shown(o)' /\ o.at \notin Rewriting
    BY <1>1, <1>2, <2>2, <2>3, AtIsSensible DEF Sensible, Shown, OnSecret, OnRow, Held,
       Rewriting
  <2>5. /\ op' = [op EXCEPT ![p] = o]
        /\ idLock' \in [Ids -> SUBSET Procs] /\ idLock'[i] = {p}
        /\ \A q \in Procs \ {p}, j \in Ids : idLock[j] = {q} => idLock'[j] = {q}
    BY <1>1, <1>2, <1>9, <2>2, <2>3, LockLocks
  <2>6. /\ rows' \in [Ids -> Row] /\ AbsentIsEmpty' /\ rows'[i].state # "absent"
        /\ \A j \in Ids : rows[j].state # "absent" => rows'[j].state # "absent"
    BY <1>3, <1>7, <1>9 DEF ConInv, AbsentIsEmpty
  <2>7. Holds(p, o, i)'
    BY <1>2, <2>3, <2>5, <2>6 DEF Holds
  <2>8. opsMade' \in 0..MaxOps
    BY <1>1 DEF ConInv, Types
  <2>9. \A q \in Procs \ {p}, j \in Ids : idLock[j] = {q} =>
          /\ idLock'[j] = {q}
          /\ rows[j].state # "absent" => rows'[j].state # "absent"
    BY <2>5, <2>6
  <2> QED BY <1>1, <1>5, <2>1, <2>4, <2>5, <2>6, <2>7, <2>8, <2>9, RegistryStepKeeps
<1> QED BY <1>5, <1>6, <1>8, <1>9

-----------------------------------------------------------------------------
(***************************************************************************)
(* The credential file.                                                    *)
(***************************************************************************)

\* The document read is the file, changed for one connection, or nothing was read;
\* this, and a process that reads while another rewrites, puts the file astray.
LEMMA ReadDocumentKeeps ==
    ASSUME ConInv, NEW p \in Procs, read_document(p)
    PROVE  ConInv'
<1>0. PICK seen \in {creds, Nothing} :
        /\ Reads(seen)
        /\ astray' = (\/ astray \/ seen # creds
                      \/ \E q \in Procs \ {p} : op[q].at \in {"write", "rename"})
        /\ IF op[p].kind = "remove" /\ seen[TheId(p)] = 0
           THEN AfterCredential(p) /\ written' = [written EXCEPT ![TheId(p)] = 0]
           ELSE /\ op' = [op EXCEPT ![p].at = "write",
                                    ![p].doc = [seen EXCEPT ![TheId(p)] = op[p].secret]]
                /\ UNCHANGED <<idLock, written>>
  BY DEF read_document
<1>1. /\ op[p].at = "read"
      /\ leaving' = IF op[p].kind = "remove" THEN leaving \union op[p].id ELSE leaving
      /\ UNCHANGED <<rows, retired, creds, tmpFile, authFile, opsMade, adopted>>
      /\ conFaults' \in 0..MaxFaults
  BY <1>0, FaultCounts DEF read_document, Reads
<1>2. PICK i \in Ids : Holds(p, op[p], i) /\ TheId(p) = i
  BY <1>1, UnderLock DEF Held
<1>3. op[p].id = {i} /\ idLock[i] = {p} /\ rows[i].state # "absent"
  BY <1>2 DEF Holds
<1>4. /\ op \in [Procs -> Operation] /\ creds \in Docs /\ written \in Docs
      /\ idLock \in [Ids -> SUBSET Procs] /\ op[p] \in Operation /\ Sensible(op[p])
      /\ seen \in Docs
  BY <1>0, ConnectionAssumption DEF ConInv, Types, OperationsMakeSense, Nothing, Docs
<1>5. \/ op[p].kind = "remove" /\ op[p].secret = 0
      \/ op[p].kind \in {"create", "repair", "repair_ready", "replace"} /\ op[p].secret # 0
  BY <1>1, <1>4 DEF Sensible, OnSecret, Held
<1>6. astray' \in BOOLEAN /\ (~astray' => ~astray) /\ (~astray' => seen = creds)
      /\ (~astray' => \A q \in Procs \ {p} : op[q].at \notin Rewriting)
  BY <1>0, Zenon DEF Rewriting
<1>7. ~astray' => creds = written
  BY <1>6 DEF ConInv, CredentialKept
<1>8. leaving \subseteq leaving' /\ (op[p].kind = "remove" => i \in leaving')
  BY <1>1, <1>3
<1>9. AbsentIsEmpty' /\ AdoptIsWhatWasSeen' /\ ReadyNeedKeys'
  BY <1>1 DEF ConInv, AbsentIsEmpty, AdoptIsWhatWasSeen, RowsInOrder, ReadyNeedKeys
<1>10. PICK o \in Operation :
        /\ op' = [op EXCEPT ![p] = o] /\ o.id = {i} /\ o.kind = op[p].kind
        /\ o.secret = op[p].secret
        /\ \/ o.at = "drop" /\ op[p].kind = "remove" /\ seen[i] = 0
              /\ written' = [written EXCEPT ![i] = 0]
           \/ o.at = "write" /\ o.doc = [seen EXCEPT ![i] = op[p].secret]
              /\ written' = written
        /\ idLock' = idLock
  <2>1. CASE op[p].kind = "remove" /\ seen[i] = 0
    <3>1. /\ op' = [op EXCEPT ![p].at = "drop"] /\ idLock' = idLock
          /\ written' = [written EXCEPT ![i] = 0]
      BY <1>0, <1>2, <2>1 DEF AfterCredential, Goto
    <3>2. op' = [op EXCEPT ![p] = [op[p] EXCEPT !.at = "drop"]]
      BY <1>4, <3>1
    <3>3. [op[p] EXCEPT !.at = "drop"] \in Operation
      BY <1>4 DEF Operation, Steps
    <3>4. \A o : o = [op[p] EXCEPT !.at = "drop"] =>
            o.at = "drop" /\ o.id = op[p].id /\ o.kind = op[p].kind /\ o.secret = op[p].secret
      BY <1>4 DEF Operation
    <3> QED BY <1>3, <2>1, <3>1, <3>2, <3>3, <3>4
  <2>2. CASE ~(op[p].kind = "remove" /\ seen[i] = 0)
    <3> DEFINE d == [seen EXCEPT ![i] = op[p].secret]
    <3>1. /\ op' = [op EXCEPT ![p].at = "write", ![p].doc = d]
          /\ idLock' = idLock /\ written' = written
      BY <1>0, <1>2, <2>2
    <3>2. d \in Docs
      BY <1>4 DEF Docs, Operation
    <3> HIDE DEF d
    <3>3. op' = [op EXCEPT ![p] = [op[p] EXCEPT !.at = "write", !.doc = d]]
      BY <1>4, <3>1
    <3>4. [op[p] EXCEPT !.at = "write", !.doc = d] \in Operation
      BY <1>4, <3>2 DEF Operation, Steps
    <3>5. \A o : o = [op[p] EXCEPT !.at = "write", !.doc = d] =>
            /\ o.at = "write" /\ o.id = op[p].id /\ o.kind = op[p].kind
            /\ o.secret = op[p].secret /\ o.doc = d
      BY <1>4 DEF Operation
    <3> QED BY <1>3, <3>1, <3>3, <3>4, <3>5 DEF d
  <2> QED BY <2>1, <2>2
<1>11. o.doc \in Docs \/ o.at = "drop"
  BY <1>4, <1>10 DEF Docs, Operation
<1>12. Sensible(o) /\ Shown(o)'
  BY <1>5, <1>10, <1>11 DEF Sensible, Shown, OnRow, OnSecret, Held, Rewriting
<1>13. written' \in Docs /\ (o.at = "drop" => written'[i] = 0)
       /\ \A j \in Ids \ {i} : written'[j] = written[j]
  BY <1>4, <1>10, ConnectionAssumption DEF Docs
<1>14. Holds(p, o, i)'
  BY <1>1, <1>3, <1>8, <1>10, <1>13 DEF Holds
<1>15. LocksHold'
  <2>1. \A q \in Procs \ {p}, j \in Ids : idLock[j] = {q} =>
          /\ idLock'[j] = {q} /\ written'[j] = written[j]
          /\ rows[j].state # "absent" => rows'[j].state # "absent"
          /\ j \in leaving => j \in leaving'
    BY <1>1, <1>3, <1>8, <1>10, <1>13
  <2> QED BY <1>10, <1>14, <2>1, LocksStay
<1>16. OperationsMakeSense' /\ op' \in [Procs -> Operation]
  BY <1>10, <1>12, SenseStays
<1>17. ShownIsThere'
  BY <1>1, <1>10, <1>12, ShownStays
<1>18. Types'
  BY <1>1, <1>6, <1>10, <1>13, <1>16 DEF ConInv, Types
<1>19. WrittenInOrder'
  <2>1. o.at = "drop" => i \in leaving'
    BY <1>5, <1>8, <1>10
  <2> QED BY <1>1, <1>3, <1>8, <1>10, <1>13, <2>1 DEF ConInv, RowsInOrder,
     WrittenInOrder
<1>20. CredentialKept'
  BY <1>1, <1>4, <1>6, <1>7, <1>10 DEF CredentialKept, Docs
<1>21. OneRewrites'
  <2>1. op'[p] = o /\ \A q \in Procs \ {p} : op'[q] = op[q]
    BY <1>4, <1>10
  <2>2. ~astray' /\ o.at \in Rewriting =>
          o.at = "write" /\ o.doc = [creds EXCEPT ![i] = o.secret]
    BY <1>6, <1>10 DEF Rewriting
  <2>3. ~astray' /\ o.at \in Rewriting => Rewrites(o)'
    BY <1>1, <1>10, <2>2 DEF Rewrites
  <2> QED BY <1>6, <2>1, <2>3 DEF OneRewrites
<1> QED BY <1>9, <1>15, <1>16, <1>17, <1>18, <1>19, <1>20, <1>21 DEF ConInv,
   RowsInOrder

\* The temporary file holds the document of the last one that wrote it.
LEMMA WriteTemporaryKeeps ==
    ASSUME ConInv, NEW p \in Procs, write_temporary(p)
    PROVE  ConInv'
<1>1. /\ op[p].at = "write"
      /\ UNCHANGED <<rows, retired, creds, authFile, opsMade, written, leaving, astray,
                     adopted>>
  BY DEF write_temporary
<1>2. CASE Fault /\ Finish(p) /\ UNCHANGED tmpFile
  BY <1>1, <1>2, FaultCounts, FinishKeeps
<1>3. CASE tmpFile' = {op[p].doc} /\ Goto(p, "rename") /\ UNCHANGED conFaults
  <2>1. PICK i \in Ids : Holds(p, op[p], i)
    BY <1>1 DEF ConInv, LocksHold, Held
  <2>2. "rename" \in Steps
    BY DEF Steps
  <2>3. PICK o \in Operation :
          /\ o = [op[p] EXCEPT !.at = "rename"] /\ o.at = "rename" /\ o.id = op[p].id
          /\ o.kind = op[p].kind /\ o.secret = op[p].secret /\ o.doc = op[p].doc
    BY <2>2, AtIsSensible
  <2>4. op \in [Procs -> Operation] /\ Sensible(op[p]) /\ op[p].doc \in Docs
    BY <1>1 DEF ConInv, Types, OperationsMakeSense, Sensible, Rewriting
  <2>5. op' = [op EXCEPT ![p] = o] /\ idLock' = idLock
    BY <1>3, <2>3, <2>4 DEF Goto
  <2>6. Sensible(o) /\ Shown(o)'
    BY <1>1, <2>3, <2>4 DEF Sensible, Shown, OnRow, OnSecret, Held, Rewriting
  <2>7. Holds(p, o, i)'
    BY <1>1, <2>1, <2>3, <2>5 DEF Holds
  <2>8. LocksHold'
    BY <1>1, <2>5, <2>7, LocksStay
  <2>9. OperationsMakeSense' /\ op' \in [Procs -> Operation] /\ ShownIsThere'
    BY <1>1, <2>5, <2>6, SenseStays, ShownStays
  <2>10. Types'
    BY <1>1, <1>3, <2>4, <2>5, <2>9 DEF ConInv, Types
  <2>11. AbsentIsEmpty' /\ RowsInOrder' /\ CredentialKept' /\ AdoptIsWhatWasSeen'
    BY <1>1 DEF ConInv, AbsentIsEmpty, RowsInOrder, ReadyNeedKeys, WrittenInOrder,
       CredentialKept, AdoptIsWhatWasSeen
  <2>12. OneRewrites'
    <3>1. op'[p] = o /\ \A q \in Procs \ {p} : op'[q] = op[q]
      BY <2>4, <2>5
    <3>2. ~astray => /\ \A q \in Procs \ {p} : op[q].at \notin Rewriting
                     /\ Rewrites(op[p])
      BY <1>1 DEF ConInv, OneRewrites, Rewriting
    <3>3. ~astray => Rewrites(o)'
      BY <1>1, <1>3, <2>3, <3>2 DEF Rewrites
    <3> QED BY <1>1, <3>1, <3>2, <3>3 DEF OneRewrites
  <2> QED BY <2>8, <2>9, <2>10, <2>11, <2>12 DEF ConInv
<1> QED BY <1>2, <1>3 DEF write_temporary

\* Without an overlap what is renamed into place is the process's own document.
LEMMA RenameDocumentKeeps ==
    ASSUME ConInv, NEW p \in Procs, rename_document(p)
    PROVE  ConInv'
<1>1. /\ op[p].at = "rename"
      /\ UNCHANGED <<rows, retired, authFile, opsMade, astray, adopted>>
  BY DEF rename_document
<1>2. CASE /\ Finish(p) /\ conFaults' \in 0..MaxFaults
           /\ UNCHANGED <<creds, tmpFile, written, leaving>>
  BY <1>1, <1>2, FinishKeeps
<1>3. CASE /\ tmpFile # {}
           /\ creds' = CHOOSE d \in tmpFile : TRUE
           /\ tmpFile' = {}
           /\ written' = [written EXCEPT ![TheId(p)] = op[p].secret]
           /\ leaving' = IF op[p].secret # 0 THEN leaving \ op[p].id ELSE leaving
           /\ AfterCredential(p)
           /\ UNCHANGED conFaults
  <2>1. PICK i \in Ids : Holds(p, op[p], i) /\ TheId(p) = i
    BY <1>1, UnderLock DEF Held
  <2>2. op[p].id = {i} /\ idLock[i] = {p} /\ rows[i].state # "absent"
    BY <2>1 DEF Holds
  <2>3. /\ op \in [Procs -> Operation] /\ op[p] \in Operation /\ Sensible(op[p])
        /\ creds \in Docs /\ written \in Docs /\ tmpFile \subseteq Docs
        /\ idLock \in [Ids -> SUBSET Procs]
    BY DEF ConInv, Types, OperationsMakeSense
  <2>4. \/ op[p].kind = "remove" /\ op[p].secret = 0 /\ i \in leaving
        \/ op[p].kind \in {"create", "repair", "repair_ready", "replace"} /\ op[p].secret # 0
    BY <1>1, <2>1, <2>3 DEF Sensible, OnSecret, Held, Holds
  <2>5. /\ written' = [written EXCEPT ![i] = op[p].secret] /\ written' \in Docs
        /\ creds' \in Docs
        /\ written'[i] = op[p].secret /\ \A j \in Ids \ {i} : written'[j] = written[j]
    BY <1>3, <2>1, <2>3 DEF Docs, Operation
  <2>6. /\ \A j \in Ids \ {i} : j \in leaving <=> j \in leaving'
        /\ op[p].secret = 0 => i \in leaving'
    BY <1>3, <2>2, <2>4
  <2>7. PICK o \in Operation :
          /\ op' = [op EXCEPT ![p] = o]
          /\ \/ o = Idle /\ Finish(p)
             \/ /\ idLock' = idLock /\ o.id = {i} /\ o.kind = op[p].kind
                /\ o.secret = op[p].secret
                /\ \/ o.at = "ready" /\ op[p].secret # 0
                   \/ o.at = "drop" /\ op[p].secret = 0
    <3>1. CASE op[p].kind \in {"create", "repair"}
      <4>1. op' = [op EXCEPT ![p] = [op[p] EXCEPT !.at = "ready"]] /\ idLock' = idLock
        BY <1>3, <2>3, <3>1 DEF AfterCredential, Goto
      <4>2. "ready" \in Steps
        BY DEF Steps
      <4>3. PICK o \in Operation :
              /\ o = [op[p] EXCEPT !.at = "ready"] /\ o.at = "ready" /\ o.id = op[p].id
              /\ o.kind = op[p].kind /\ o.secret = op[p].secret
        BY <4>2, AtIsSensible
      <4>4. op' = [op EXCEPT ![p] = o]
        BY <4>1, <4>3
      <4> QED BY <2>2, <2>4, <3>1, <4>1, <4>3, <4>4
    <3>2. CASE op[p].kind = "remove"
      <4>1. op' = [op EXCEPT ![p] = [op[p] EXCEPT !.at = "drop"]] /\ idLock' = idLock
        BY <1>3, <2>3, <3>2 DEF AfterCredential, Goto
      <4>2. "drop" \in Steps
        BY DEF Steps
      <4>3. PICK o \in Operation :
              /\ o = [op[p] EXCEPT !.at = "drop"] /\ o.at = "drop" /\ o.id = op[p].id
              /\ o.kind = op[p].kind /\ o.secret = op[p].secret
        BY <4>2, AtIsSensible
      <4>4. op' = [op EXCEPT ![p] = o]
        BY <4>1, <4>3
      <4> QED BY <2>2, <2>4, <3>2, <4>1, <4>3, <4>4
    <3>3. CASE op[p].kind \in {"repair_ready", "replace"}
      <4>1. Finish(p)
        BY <1>3, <3>3 DEF AfterCredential
      <4> QED BY <4>1, IdleIsSensible DEF Finish
    <3> QED BY <2>4, <3>1, <3>2, <3>3
  <2>8. Sensible(o) /\ Shown(o)' /\ o.at \notin Rewriting
    BY <2>4, <2>7, IdleIsSensible DEF Sensible, Shown, OnRow, OnSecret, Held, Rewriting
  <2>9. o.at \in Held => Holds(p, o, i)'
    BY <1>1, <2>2, <2>5, <2>6, <2>7, IdleIsSensible DEF Holds
  <2>10. idLock' \in [Ids -> SUBSET Procs]
         /\ \A q \in Procs \ {p}, j \in Ids : idLock[j] = {q} => idLock'[j] = {q}
    BY <2>3, <2>7, FinishLocks
  <2>11. LocksHold'
    <3>1. \A q \in Procs \ {p}, j \in Ids : idLock[j] = {q} =>
            /\ idLock'[j] = {q} /\ written'[j] = written[j]
            /\ rows[j].state # "absent" => rows'[j].state # "absent"
            /\ j \in leaving => j \in leaving'
      BY <1>1, <2>2, <2>5, <2>6, <2>10
    <3> QED BY <2>7, <2>9, <3>1, LocksStay
  <2>12. OperationsMakeSense' /\ op' \in [Procs -> Operation] /\ ShownIsThere'
    BY <1>1, <2>7, <2>8, SenseStays, ShownStays
  <2>13. Types'
    BY <1>1, <1>3, <2>5, <2>10, <2>12 DEF ConInv, Types
  <2>14. AbsentIsEmpty' /\ AdoptIsWhatWasSeen' /\ ReadyNeedKeys'
    BY <1>1 DEF ConInv, AbsentIsEmpty, AdoptIsWhatWasSeen, RowsInOrder, ReadyNeedKeys
  <2>15. WrittenInOrder'
    BY <1>1, <2>2, <2>5, <2>6 DEF ConInv, RowsInOrder, WrittenInOrder
  <2>16. ~astray => /\ \A q \in Procs \ {p} : op[q].at \notin Rewriting
                    /\ op[p].doc = [creds EXCEPT ![i] = op[p].secret]
                    /\ tmpFile = {op[p].doc} /\ creds = written
    BY <1>1, <2>2 DEF ConInv, OneRewrites, Rewrites, Rewriting, CredentialKept
  <2>17. CredentialKept'
    BY <1>1, <1>3, <2>5, <2>16 DEF CredentialKept
  <2>18. OneRewrites'
    <3>1. op'[p] = o /\ \A q \in Procs \ {p} : op'[q] = op[q]
      BY <2>3, <2>7
    <3> QED BY <1>1, <2>8, <2>16, <3>1 DEF OneRewrites
  <2> QED BY <2>11, <2>12, <2>13, <2>14, <2>15, <2>17, <2>18 DEF ConInv, RowsInOrder
<1> QED BY <1>2, <1>3, FaultCounts DEF rename_document

-----------------------------------------------------------------------------
(***************************************************************************)
(* The managed login, and the theorems.                                    *)
(***************************************************************************)

\* A question about the token file shows the account it has.
LEMMA StartLoginKeeps ==
    ASSUME ConInv, NEW p \in Procs, NEW a \in Accounts, StartLogin(p, a)
    PROVE  ConInv'
<1>1. /\ authFile.tag \in Nat /\ authFile.account \in Accounts \union {0}
  BY DEF ConInv, Types
<1>2. CASE Begin(p, [Idle EXCEPT !.kind = "login", !.at = "device", !.account = a])
  <2>1. PICK o : o = [Idle EXCEPT !.kind = "login", !.at = "device", !.account = a]
    OBVIOUS
  <2>2. o \in Operation
    BY <2>1, IdleIsSensible DEF Operation, Kinds, Steps
  <2>3. o.at = "device"
    BY <2>1 DEF Idle
  <2>4. Sensible(o) /\ Shown(o) /\ o.at \notin Held /\ o.at \notin Rewriting
    BY <2>3 DEF Sensible, Shown, OnSecret, OnRow, Held, Rewriting
  <2> QED BY <1>2, <2>1, <2>2, <2>4, BeginKeeps
<1>3. CASE Begin(p, [Idle EXCEPT !.kind = "reauth", !.at = "forget", !.account = a])
  <2>1. PICK o : o = [Idle EXCEPT !.kind = "reauth", !.at = "forget", !.account = a]
    OBVIOUS
  <2>2. o \in Operation
    BY <2>1, IdleIsSensible DEF Operation, Kinds, Steps
  <2>3. o.at = "forget"
    BY <2>1 DEF Idle
  <2>4. Sensible(o) /\ Shown(o) /\ o.at \notin Held /\ o.at \notin Rewriting
    BY <2>3 DEF Sensible, Shown, OnSecret, OnRow, Held, Rewriting
  <2> QED BY <1>3, <2>1, <2>2, <2>4, BeginKeeps
<1>4. CASE \E kind \in {"adopt", "relogin"} :
             Begin(p, [Idle EXCEPT !.kind = kind, !.at = "confirm", !.token = authFile.tag,
                                   !.account = IF kind = "adopt" THEN authFile.account ELSE a])
  <2>1. PICK kind \in {"adopt", "relogin"} :
             Begin(p, [Idle EXCEPT !.kind = kind, !.at = "confirm", !.token = authFile.tag,
                                   !.account = IF kind = "adopt" THEN authFile.account ELSE a])
    BY <1>4
  <2>2. PICK account \in Accounts \union {0} :
          account = IF kind = "adopt" THEN authFile.account ELSE a
    BY <1>1
  <2>3. [Idle EXCEPT !.kind = kind, !.at = "confirm", !.token = authFile.tag,
                     !.account = IF kind = "adopt" THEN authFile.account ELSE a] =
        [Idle EXCEPT !.kind = kind, !.at = "confirm", !.account = account,
                     !.token = authFile.tag]
    BY <2>2 DEF Idle
  <2>4. PICK o : o = [Idle EXCEPT !.kind = kind, !.at = "confirm", !.account = account,
                                  !.token = authFile.tag]
    OBVIOUS
  <2>5. o \in Operation
    BY <1>1, <2>4, IdleIsSensible DEF Operation, Kinds, Steps
  <2>6. o.at = "confirm" /\ o.kind = kind /\ o.account = account /\ o.token = authFile.tag
    BY <2>4 DEF Idle
  <2>7. Sensible(o) /\ Shown(o) /\ o.at \notin Held /\ o.at \notin Rewriting
    BY <1>1, <2>2, <2>6 DEF Sensible, Shown, OnSecret, OnRow, Held, Rewriting
  <2> QED BY <2>1, <2>3, <2>4, <2>5, <2>7, BeginKeeps
<1> QED BY <1>2, <1>3, <1>4 DEF StartLogin

\* A step of the login: no lock, no registry, no credential.
LEMMA LoginStepKeeps ==
    ASSUME ConInv, NEW p \in Procs, NEW o \in Operation, op' = [op EXCEPT ![p] = o],
           Sensible(o), Shown(o)', o.at \notin Held, o.at \notin Rewriting, Same,
           authFile' \in [account : Accounts \union {0}, tag : Nat],
           \/ authFile' = authFile
           \/ authFile' = [authFile EXCEPT !.account = 0]
           \/ authFile'.tag = authFile.tag + 1,
           AdoptIsWhatWasSeen'
    PROVE  ConInv'
<1>1. UNCHANGED <<rows, retired, creds, tmpFile, idLock, conFaults, opsMade, written,
                  leaving, astray>>
  BY DEF Same
<1>2. LocksHold'
  BY <1>1, LocksStay
<1>3. OperationsMakeSense' /\ op' \in [Procs -> Operation]
  BY SenseStays
<1>4. ShownIsThere'
  BY ShownStays
<1>5. OneRewrites'
  BY <1>1, RewriteStays
<1>6. Types'
  BY <1>1, <1>3 DEF ConInv, Types
<1>7. AbsentIsEmpty' /\ RowsInOrder' /\ CredentialKept'
  BY <1>1 DEF ConInv, AbsentIsEmpty, RowsInOrder, ReadyNeedKeys, WrittenInOrder,
     CredentialKept
<1> QED BY <1>2, <1>3, <1>4, <1>5, <1>6, <1>7 DEF ConInv

\* The steps of a login that go on or give up.
LEMMA LoginOperations ==
    ASSUME ConInv, NEW p \in Procs, NEW at \in {"list", "device", "check"},
           at = "check" => op[p].at = "logout" /\ op[p].kind = "remove"
                           /\ op[p].secret = 0 /\ \E i \in Ids : op[p].id = {i},
           op' = [op EXCEPT ![p].at = at]
    PROVE  \E o \in Operation : /\ op' = [op EXCEPT ![p] = o] /\ Sensible(o) /\ Shown(o)'
                                /\ o.at \notin Held /\ o.at \notin Rewriting
<1>1. at \in Steps
  BY DEF Steps
<1>2. PICK o \in Operation :
        /\ o = [op[p] EXCEPT !.at = at] /\ o.at = at /\ o.id = op[p].id
        /\ o.kind = op[p].kind /\ o.secret = op[p].secret /\ o.doc = op[p].doc
  BY <1>1, AtIsSensible
<1>3. op \in [Procs -> Operation]
  BY DEF ConInv, Types
<1>4. op' = [op EXCEPT ![p] = o]
  BY <1>2, <1>3
<1>5. Sensible(o) /\ Shown(o)' /\ o.at \notin Held /\ o.at \notin Rewriting
  BY <1>2 DEF Sensible, Shown, OnSecret, OnRow, Held, Rewriting
<1> QED BY <1>4, <1>5

\* adopt: the file is still the one the question was about.
LEMMA AdoptKeeps ==
    ASSUME ConInv, NEW p \in Procs, adopt(p)
    PROVE  ConInv'
<1>1. op[p].at = "confirm" /\ op[p].kind = "adopt" /\ authFile' = authFile /\ Same
  BY DEF adopt
<1>2. /\ authFile' \in [account : Accounts \union {0}, tag : Nat]
      /\ op[p] \in Operation /\ op \in [Procs -> Operation] /\ Shown(op[p])
  BY <1>1 DEF ConInv, Types, ShownIsThere
<1>3. CASE /\ authFile.account # 0 /\ authFile.tag = op[p].token
           /\ op' = [op EXCEPT ![p].at = "list", ![p].account = authFile.account]
           /\ adopted' = adopted \union {<<op[p].account, authFile.account>>}
  <2>1. op[p].account = authFile.account
    BY <1>1, <1>2, <1>3 DEF Shown
  <2>2. op' = [op EXCEPT ![p].at = "list"]
    BY <1>2, <1>3, <2>1 DEF Operation
  <2>3. AdoptIsWhatWasSeen'
    BY <1>3, <2>1 DEF ConInv, AdoptIsWhatWasSeen
  <2>4. PICK o \in Operation : /\ op' = [op EXCEPT ![p] = o] /\ Sensible(o) /\ Shown(o)'
                               /\ o.at \notin Held /\ o.at \notin Rewriting
    BY <2>2, LoginOperations
  <2> QED BY <1>1, <1>2, <2>3, <2>4, LoginStepKeeps
<1>4. CASE op' = [op EXCEPT ![p] = Idle] /\ UNCHANGED adopted
  <2>1. AdoptIsWhatWasSeen'
    BY <1>4 DEF ConInv, AdoptIsWhatWasSeen
  <2> QED BY <1>1, <1>2, <1>4, <2>1, IdleIsSensible, LoginStepKeeps
<1> QED BY <1>3, <1>4 DEF adopt

\* The token file is deleted.
LEMMA DeleteKeeps ==
    ASSUME ConInv, NEW p \in Procs, delete_probed(p) \/ delete_managed(p)
    PROVE  ConInv'
<1>1. adopted' = adopted /\ Same
  BY DEF delete_probed, delete_managed
<1>2. /\ authFile \in [account : Accounts \union {0}, tag : Nat]
      /\ op \in [Procs -> Operation]
  BY DEF ConInv, Types
<1>3. AdoptIsWhatWasSeen'
  BY <1>1 DEF ConInv, AdoptIsWhatWasSeen
<1>4. CASE op' = [op EXCEPT ![p] = Idle] /\ UNCHANGED authFile
  BY <1>1, <1>2, <1>3, <1>4, IdleIsSensible, LoginStepKeeps
<1>5. CASE /\ authFile' = [authFile EXCEPT !.account = 0]
           /\ \/ op' = [op EXCEPT ![p].at = "device"]
              \/ op' = [op EXCEPT ![p].at = "check"] /\ op[p].at = "logout"
  <2>1. op[p].at = "logout" => /\ op[p].kind = "remove" /\ op[p].secret = 0
                               /\ \E i \in Ids : op[p].id = {i}
    BY DEF ConInv, OperationsMakeSense, Sensible, OnSecret, OnRow
  <2>2. PICK o \in Operation : /\ op' = [op EXCEPT ![p] = o] /\ Sensible(o) /\ Shown(o)'
                               /\ o.at \notin Held /\ o.at \notin Rewriting
    BY <1>5, <2>1, LoginOperations
  <2>3. authFile' \in [account : Accounts \union {0}, tag : Nat]
    BY <1>2, <1>5
  <2> QED BY <1>1, <1>3, <1>5, <2>2, <2>3, LoginStepKeeps
<1> QED BY <1>4, <1>5 DEF delete_probed, delete_managed

\* A login creates a new token file.
LEMMA DeviceLoginKeeps ==
    ASSUME ConInv, NEW p \in Procs, device_login(p)
    PROVE  ConInv'
<1>1. adopted' = adopted /\ Same
  BY DEF device_login
<1>2. /\ authFile \in [account : Accounts \union {0}, tag : Nat]
      /\ op \in [Procs -> Operation] /\ op[p].account \in Accounts \union {0}
  BY DEF ConInv, Types, Operation
<1>3. AdoptIsWhatWasSeen'
  BY <1>1 DEF ConInv, AdoptIsWhatWasSeen
<1>4. CASE op' = [op EXCEPT ![p] = Idle] /\ UNCHANGED authFile
  BY <1>1, <1>2, <1>3, <1>4, IdleIsSensible, LoginStepKeeps
<1>5. CASE /\ authFile' = [account |-> op[p].account, tag |-> authFile.tag + 1]
           /\ op' = [op EXCEPT ![p].at = "list"]
  <2>1. PICK o \in Operation : /\ op' = [op EXCEPT ![p] = o] /\ Sensible(o) /\ Shown(o)'
                               /\ o.at \notin Held /\ o.at \notin Rewriting
    BY <1>5, LoginOperations
  <2>2. /\ authFile' \in [account : Accounts \union {0}, tag : Nat]
        /\ authFile'.tag = authFile.tag + 1
    BY <1>2, <1>5
  <2> QED BY <1>1, <1>3, <2>1, <2>2, LoginStepKeeps
<1> QED BY <1>4, <1>5 DEF device_login

\* The row of the subscription is found, or made when there is none.
LEMMA CreateManagedKeeps ==
    ASSUME ConInv, NEW p \in Procs, create_managed(p)
    PROVE  ConInv'
<1>1. /\ op[p].at = "list"
      /\ UNCHANGED <<creds, tmpFile, authFile, opsMade, written, leaving, astray, adopted>>
  BY DEF create_managed
<1>2. /\ op \in [Procs -> Operation] /\ op[p] \in Operation /\ rows \in [Ids -> Row]
      /\ idLock \in [Ids -> SUBSET Procs]
      /\ opsMade' \in 0..MaxOps /\ conFaults \in 0..MaxFaults
  BY <1>1 DEF ConInv, Types
<1>3. CASE /\ \E i \in Live(rows) :
                /\ rows[i].provider = Subscription
                /\ op' = [op EXCEPT ![p].at = "update", ![p].id = {i}]
           /\ UNCHANGED <<rows, retired, conFaults, idLock>>
  <2>1. PICK i \in Ids : op' = [op EXCEPT ![p].at = "update", ![p].id = {i}]
    BY <1>3 DEF Live
  <2>2. PICK o \in Operation : /\ o = [op[p] EXCEPT !.at = "update", !.id = {i}]
                               /\ o.at = "update" /\ o.id = {i}
    <3>1. [op[p] EXCEPT !.at = "update", !.id = {i}] \in Operation
      BY <1>2 DEF Operation, Steps
    <3>2. \A o : o = [op[p] EXCEPT !.at = "update", !.id = {i}] =>
            o.at = "update" /\ o.id = {i}
      BY <1>2 DEF Operation
    <3> QED BY <3>1, <3>2
  <2>3. op' = [op EXCEPT ![p] = o]
    BY <1>2, <2>1, <2>2
  <2>4. Sensible(o) /\ Shown(o)' /\ o.at \notin Held /\ o.at \notin Rewriting
    BY <2>2 DEF Sensible, Shown, OnSecret, OnRow, Held, Rewriting
  <2> QED BY <1>1, <1>2, <1>3, <2>3, <2>4, OperationStepKeeps
<1>4. CASE /\ \A i \in Live(rows) : rows[i].provider # Subscription
           /\ \E i \in Ids :
                /\ rows[i] = NoRow /\ written[i] = 0 /\ i \notin leaving
                /\ \A q \in Procs : i \notin op[q].id
                /\ mutate(p, [rows EXCEPT ![i] = [NoRow EXCEPT !.state = "ready",
                                                               !.account = op[p].account]],
                          retired, Cardinality(Live(rows)) < MAX_CONNECTIONS, Finish(p))
  <2>1. PICK i \in Ids :
                mutate(p, [rows EXCEPT ![i] = [NoRow EXCEPT !.state = "ready",
                                                            !.account = op[p].account]],
                       retired, Cardinality(Live(rows)) < MAX_CONNECTIONS, Finish(p))
    BY <1>4
  <2>2. PICK row \in Row :
          /\ row = [NoRow EXCEPT !.state = "ready", !.account = op[p].account]
          /\ row.state = "ready" /\ row.provider = Subscription
    <3>1. [NoRow EXCEPT !.state = "ready", !.account = op[p].account] \in Row
      BY <1>2, NoRowIsRow DEF Row, Operation
    <3>2. \A row : row = [NoRow EXCEPT !.state = "ready", !.account = op[p].account] =>
            row.state = "ready" /\ row.provider = Subscription
      BY DEF NoRow
    <3> QED BY <3>1, <3>2
  <2>3. /\ conFaults' \in 0..MaxFaults
        /\ Finish(p)
        /\ rows' = rows \/ rows' = [rows EXCEPT ![i] = row]
    BY <2>1, <2>2, FaultCounts DEF mutate
  <2>4. CASE rows' = rows
    BY <1>1, <2>3, <2>4, FinishKeeps
  <2>5. CASE rows' = [rows EXCEPT ![i] = row]
    <3>1. \A j \in Ids : rows[j].state # "ready" \/ rows[j].provider # row.provider
      BY <1>4, <2>2 DEF Live
    <3>2. RowsInOrder'
      BY <1>1, <2>2, <2>5, <3>1, SoundAfter
    <3> QED BY <1>1, <2>2, <2>3, <2>5, <3>2, RowWriteKeeps
  <2> QED BY <2>3, <2>4, <2>5
<1> QED BY <1>3, <1>4 DEF create_managed

\* A process dies.
LEMMA DieKeeps ==
    ASSUME ConInv, NEW p \in Procs, Die(p)
    PROVE  ConInv'
  BY FaultCounts, FinishKeeps DEF Die

\* The invariant holds at the start ...
LEMMA InitConnections == ConInit => ConInv
<1> SUFFICES ASSUME ConInit PROVE ConInv
  OBVIOUS
<1>1. \A p \in Procs : op[p] = Idle
  BY DEF ConInit
<1>2. Types
  <2>1. rows \in [Ids -> Row] /\ op \in [Procs -> Operation]
    BY NoRowIsRow, IdleIsSensible DEF ConInit
  <2>2. /\ creds \in Docs /\ written \in Docs /\ tmpFile \subseteq Docs
        /\ opsMade \in 0..MaxOps /\ conFaults \in 0..MaxFaults
    BY ConnectionAssumption DEF ConInit, Docs
  <2>3. /\ idLock \in [Ids -> SUBSET Procs] /\ astray \in BOOLEAN
        /\ authFile \in [account : Accounts \union {0}, tag : Nat]
    BY DEF ConInit
  <2> QED BY <2>1, <2>2, <2>3 DEF Types
<1>3. OperationsMakeSense /\ LocksHold /\ OneRewrites
  BY <1>1, IdleIsSensible DEF OperationsMakeSense, LocksHold, OneRewrites
<1>4. ShownIsThere
  BY <1>1, IdleIsSensible DEF ShownIsThere, Shown
<1>5. AbsentIsEmpty /\ RowsInOrder
  BY NoRowIsRow DEF ConInit, AbsentIsEmpty, RowsInOrder, ReadyNeedKeys, WrittenInOrder
<1>6. CredentialKept /\ AdoptIsWhatWasSeen
  BY DEF ConInit, CredentialKept, AdoptIsWhatWasSeen
<1> QED BY <1>2, <1>3, <1>4, <1>5, <1>6 DEF ConInv

\* ... and every step keeps it.
LEMMA NextConnections == ConInv /\ [ConNext]_conVars => ConInv'
<1> SUFFICES ASSUME ConInv, [ConNext]_conVars PROVE ConInv'
  OBVIOUS
<1>1. CASE UNCHANGED conVars
  <2>1. Types' /\ OperationsMakeSense' /\ AbsentIsEmpty'
    BY <1>1 DEF conVars, ConInv, Types, OperationsMakeSense, AbsentIsEmpty
  <2>2. LocksHold' /\ OneRewrites' /\ ShownIsThere'
    BY <1>1 DEF conVars, ConInv, LocksHold, Holds, OneRewrites, Rewrites, ShownIsThere,
       Shown
  <2>3. RowsInOrder' /\ CredentialKept' /\ AdoptIsWhatWasSeen'
    BY <1>1 DEF conVars, ConInv, RowsInOrder, ReadyNeedKeys, WrittenInOrder,
       CredentialKept, AdoptIsWhatWasSeen
  <2> QED BY <2>1, <2>2, <2>3 DEF ConInv
<1>2. ASSUME NEW p \in Procs, Store(p) PROVE ConInv'
  <2>1. ASSUME NEW provider \in Providers, NEW key \in {{}} \union {{k} : k \in Keys},
               StartCreate(p, provider, key)
        PROVE  ConInv'
    <3>1. key \in SUBSET Keys
      OBVIOUS
    <3> QED BY <2>1, <3>1, StartCreateKeeps
  <2>2. ASSUME NEW i \in Ids, StartOn(p, i) PROVE ConInv'
    BY <2>2, StartOnKeeps
  <2>3. ASSUME NEW i \in Ids, NEW k \in Keys, StartKey(p, i, k) PROVE ConInv'
    BY <2>3, StartKeyKeeps
  <2>4. CASE create_pending(p)
    BY <2>4, CreatePendingKeeps
  <2>5. CASE find_locked(p)
    BY <2>5, FindLockedKeeps
  <2>6. CASE read_document(p)
    BY <2>6, ReadDocumentKeeps
  <2>7. CASE write_temporary(p)
    BY <2>7, WriteTemporaryKeeps
  <2>8. CASE rename_document(p)
    BY <2>8, RenameDocumentKeeps
  <2>9. CASE mark_ready(p)
    BY <2>9, MarkReadyKeeps
  <2>10. CASE assign_key(p)
    BY <2>10, AssignKeyKeeps
  <2>11. CASE remove_row(p)
    BY <2>11, RemoveRowKeeps
  <2>12. CASE Die(p)
    BY <2>12, DieKeeps
  <2> QED BY <1>2, <2>1, <2>2, <2>3, <2>4, <2>5, <2>6, <2>7, <2>8, <2>9, <2>10, <2>11,
             <2>12 DEF Store
<1>3. ASSUME NEW p \in Procs, Login(p) PROVE ConInv'
  <2>1. ASSUME NEW a \in Accounts, StartLogin(p, a) PROVE ConInv'
    BY <2>1, StartLoginKeeps
  <2>2. CASE adopt(p)
    BY <2>2, AdoptKeeps
  <2>3. CASE delete_probed(p) \/ delete_managed(p)
    BY <2>3, DeleteKeeps
  <2>4. CASE device_login(p)
    BY <2>4, DeviceLoginKeeps
  <2>5. CASE create_managed(p)
    BY <2>5, CreateManagedKeeps
  <2>6. CASE update_managed(p)
    BY <2>6, UpdateManagedKeeps
  <2> QED BY <1>3, <2>1, <2>2, <2>3, <2>4, <2>5, <2>6 DEF Login
<1> QED BY <1>1, <1>2, <1>3 DEF ConNext

\* Two ready connections of a provider both have keys, whatever the processes do at
\* once and wherever one dies; and until the credential file is rewritten by two at
\* once, or taken for empty, it has a secret for a ready connection and none for an
\* absent one (registry.rs mark_ready, lib.rs create_validated and remove).
THEOREM ReadyRowsAreSound == ConSpec => []RowsAreSound
<1>1. ConInv => RowsAreSound
  BY DEF ConInv, RowsInOrder, WrittenInOrder, CredentialKept, RowsAreSound, ReadyHasSecret
<1> QED BY <1>1, InitConnections, NextConnections, PTL DEF ConSpec

\* Until two processes rewrite the credential file at once, or one that rewrites it
\* could not read it, it holds what was last put there for each connection
\* (credential.rs read_document, write_document).
THEOREM CredentialsAreKept == ConSpec => []CredentialKept
<1>1. ConInv => CredentialKept
  BY DEF ConInv
<1> QED BY <1>1, InitConnections, NextConnections, PTL DEF ConSpec

\* The login that is adopted is the one the user was shown
\* (chatgpt_auth.rs adopt_chatgpt_subscription).
THEOREM AdoptedIsShown == ConSpec => []AdoptIsWhatWasSeen
<1>1. ConInv => AdoptIsWhatWasSeen
  BY DEF ConInv
<1> QED BY <1>1, InitConnections, NextConnections, PTL DEF ConSpec

\* What one registry write may do to a key: give one to a row without, or retire
\* the key of a row that goes.
KeysStay ==
    /\ retired \subseteq retired'
    /\ \A i \in Ids : \A k \in rows[i].key :
         \/ rows'[i].key = rows[i].key /\ rows'[i].provider = rows[i].provider
         \/ <<rows[i].provider, k>> \in retired'

\* What does not write the registry takes no key away.
LEMMA UnchangedKeysStay == ASSUME rows' = rows, retired' = retired PROVE KeysStay
  BY DEF KeysStay

\* No step of a process takes a key away.
LEMMA NextKeysStay ==
    ASSUME ConInv, NEW p \in Procs, Store(p) \/ Login(p)
    PROVE  KeysStay
<1>1. rows \in [Ids -> Row] /\ op[p] \in Operation
  BY DEF ConInv, Types
<1>2. CASE create_pending(p)
  <2>1. PICK i \in Ids : op[p].id = {i}
    BY <1>2 DEF ConInv, OperationsMakeSense, Sensible, OnRow, OnSecret, create_pending
  <2>2. TheId(p) = i
    BY <2>1, TheIdIs
  <2>3. PICK row : row = [state |-> "pending", provider |-> op[p].provider,
                          key |-> op[p].key, account |-> 0]
    OBVIOUS
  <2>4. /\ retired' = retired
        /\ rows' = rows \/ (rows[i].state = "absent" /\ rows' = [rows EXCEPT ![i] = row])
    BY <1>2, <2>2, <2>3 DEF create_pending, mutate
  <2> QED BY <1>1, <2>4 DEF KeysStay, ConInv, AbsentIsEmpty
<1>3. CASE mark_ready(p)
  <2>1. PICK i : i = TheId(p)
    OBVIOUS
  <2>2. retired' = retired /\ (rows' = rows \/ rows' = [rows EXCEPT ![i].state = "ready"])
    BY <1>3, <2>1 DEF mark_ready, mutate
  <2> QED BY <1>1, <2>2 DEF KeysStay, Row
<1>4. CASE assign_key(p)
  <2>1. PICK i : i = TheId(p)
    OBVIOUS
  <2>2. /\ retired' = retired
        /\ rows' = rows \/ (rows[i].key = {} /\ rows' = [rows EXCEPT ![i].key = op[p].key])
    BY <1>4, <2>1 DEF assign_key, mutate
  <2> QED BY <1>1, <2>2 DEF KeysStay, Row
<1>5. CASE remove_row(p)
  <2>1. PICK i : i = TheId(p)
    OBVIOUS
  <2>2. \/ rows' = rows /\ retired' = retired
        \/ /\ rows' = [rows EXCEPT ![i] = NoRow]
           /\ retired' = retired \union {<<rows[i].provider, k>> : k \in rows[i].key}
    BY <1>5, <2>1 DEF remove_row, mutate
  <2> QED BY <1>1, <2>2 DEF KeysStay
<1>6. CASE update_managed(p)
  <2>1. PICK i : i = TheId(p)
    OBVIOUS
  <2>2. /\ retired' = retired
        /\ rows' = rows \/ rows' = [rows EXCEPT ![i].account = op[p].account]
    BY <1>6, <2>1 DEF update_managed, mutate
  <2> QED BY <1>1, <2>2 DEF KeysStay, Row
<1>7. CASE create_managed(p)
  <2>1. \/ rows' = rows /\ retired' = retired
        \/ \E i \in Ids : \E row :
             /\ rows[i] = NoRow
             /\ rows' = [rows EXCEPT ![i] = row] /\ retired' = retired
    BY <1>7 DEF create_managed, mutate
  <2> QED BY <1>1, <2>1, NoRowIsRow DEF KeysStay
<1>8. CASE /\ ~create_pending(p) /\ ~mark_ready(p) /\ ~assign_key(p) /\ ~remove_row(p)
           /\ ~update_managed(p) /\ ~create_managed(p)
  <2>1. rows' = rows /\ retired' = retired
    <3>1. CASE Store(p)
      BY <1>8, <3>1 DEF Store, StartCreate, StartOn, StartKey, Begin, find_locked,
         read_document, write_temporary, rename_document, Die
    <3>2. CASE Login(p)
      BY <1>8, <3>2 DEF Login, StartLogin, Begin, adopt, delete_probed, delete_managed,
         device_login, Same
    <3> QED BY <3>1, <3>2
  <2> QED BY <2>1, UnchangedKeysStay
<1> QED BY <1>2, <1>3, <1>4, <1>5, <1>6, <1>7, <1>8

\* A key once given to a connection stays with it or is retired, and a retired key
\* stays retired (registry.rs assign_key, LockedConnectionMetadata::remove).
THEOREM KeysAreForever == ConSpec => KeyIsForever
<1>1. ConInv /\ [ConNext]_conVars => [KeysStay]_conVars
  <2> SUFFICES ASSUME ConInv, ConNext PROVE KeysStay
    OBVIOUS
  <2> QED BY NextKeysStay DEF ConNext
<1> QED BY <1>1, InitConnections, NextConnections, PTL DEF ConSpec, KeyIsForever,
   KeysStay

-----------------------------------------------------------------------------
(***************************************************************************)
(* Proofs about ModelRefresh: what the model picker offers is no older     *)
(* than the registry it was told of, was listed as it says, and was asked  *)
(* for again when the user did, for any number of requests, mutations,     *)
(* connections and releases.                                               *)
(***************************************************************************)

TaskSteps == {"none", "resolve", "codex", "catalog", "await", "discover", "save",
              "published", "superseded", "failed"}
Stamped == [stamp : Nat, real : Nat]
Listing == [stamp : Nat, asked : Nat]
Flight  == [generation : Nat, mode : Modes, publishable : BOOLEAN]
CatalogRow     == [id : Conns, stamp : Nat, real : Nat]
RefreshTask == [at : TaskSteps, gen : Nat, turn : Nat, rg : Nat, mode : Modes, view : Nat,
                todo : SUBSET Conns, outdated : SUBSET Conns, sent : SUBSET (Conns \X Nat),
                updates : SUBSET CatalogRow]
Mutation == [at : {"none", "store", "invalidate", "persist", "after", "done", "failed"},
             kind : {"none", "create", "rename", "replace", "remove"}, id : Conns]
Fetch   == [at : {"none", "fetch"}, version : Nat, existing : SUBSET Listing]

\* At most one.
AtMostOne(S) == \A e, f \in S : e = f

RefreshTypes ==
    /\ live \subseteq Conns
    /\ regVer \in Nat /\ invVer \in Nat /\ floorVer \in Nat
    /\ avail \in [gen : Nat, turn : Nat, snapshot : SUBSET Nat]
    /\ discovery \in [Conns -> SUBSET Stamped]
    /\ mutation \in Mutation
    /\ refresh \in RefreshTask
    /\ catalog \in [Modes -> Fetch]
    /\ codexFile \subseteq Listing
    /\ effective \in Nat /\ latest \in Nat /\ runnerGen \in Nat
    /\ inFlight \subseteq Flight /\ AtMostOne(inFlight)
    /\ pendingRef \subseteq Modes /\ AtMostOne(pendingRef)
    /\ advertised \subseteq Nat
    /\ owesForced \in BOOLEAN

\* A refresh that has resolved the connections saw the last invalidation, unless
\* the caches were invalidated since it started, and the last mutation the runner
\* heard of, unless the runner gave up on its report.
Resolved == refresh.at \notin {"none", "resolve"}

ViewIsCurrent ==
    /\ floorVer <= invVer /\ invVer <= regVer
    /\ refresh.gen <= avail.gen /\ refresh.rg <= runnerGen
    /\ Resolved /\ refresh.gen = avail.gen => refresh.view >= invVer
    /\ Resolved /\ (refresh.rg = runnerGen \/ \E f \in inFlight : f.publishable)
         => refresh.view >= floorVer

\* A listing under way is kept with the version it was asked with.
Honest(S) == AtMostOne(S) /\ \A e \in S : e.asked = e.stamp

StampsAreTrue ==
    /\ \A u \in refresh.updates : u.stamp = u.real
    /\ Honest(codexFile) /\ \A m \in Modes : Honest(catalog[m].existing)

\* The inductive invariant.
RefreshInv == RefreshTypes /\ ViewIsCurrent /\ StampsAreTrue /\ RefreshIsHonest
-----------------------------------------------------------------------------
(***************************************************************************)
(* The runner's requests.                                                  *)
(***************************************************************************)

\* No task is a task, one that has seen nothing.
LEMMA NoRefreshIsTask ==
    /\ NoRefresh \in RefreshTask /\ NoRefresh.at = "none" /\ NoRefresh.gen = 0
    /\ NoRefresh.rg = 0 /\ NoRefresh.updates = {}
  BY DEF NoRefresh, RefreshTask, TaskSteps, Modes

\* A refresh starts: it has seen nothing yet, and a forced one settles what was
\* owed.
LEMMA StartStarts ==
    ASSUME RefreshInv, NEW g \in Nat, NEW mode \in Modes, Start(g, mode),
           runnerGen' \in Nat, g <= runnerGen'
    PROVE  /\ refresh' \in RefreshTask /\ refresh'.at = "resolve"
           /\ refresh'.gen = avail.gen /\ refresh'.rg = g /\ refresh'.updates = {}
           /\ avail' \in [gen : Nat, turn : Nat, snapshot : SUBSET Nat]
           /\ avail'.gen = avail.gen /\ avail'.snapshot = avail.snapshot
           /\ inFlight' \subseteq Flight /\ AtMostOne(inFlight')
           /\ owesForced' \in BOOLEAN
           /\ owesForced' => owesForced /\ mode # "forced"
<1>1. avail \in [gen : Nat, turn : Nat, snapshot : SUBSET Nat]
  BY DEF RefreshInv, RefreshTypes
<1>2. refresh' = [NoRefresh EXCEPT !.at = "resolve", !.gen = avail.gen,
                                   !.turn = avail.turn + 1, !.rg = g, !.mode = mode]
  BY DEF Start
<1>3. /\ refresh' \in RefreshTask /\ refresh'.at = "resolve"
      /\ refresh'.gen = avail.gen /\ refresh'.rg = g /\ refresh'.updates = {}
  <2>1. avail.gen \in Nat /\ avail.turn + 1 \in Nat /\ "resolve" \in TaskSteps
    BY <1>1 DEF TaskSteps
  <2>2. PICK n \in Nat, k \in Nat : n = avail.gen /\ k = avail.turn + 1
    BY <2>1
  <2>3. refresh' = [at |-> "resolve", gen |-> n, turn |-> k, rg |-> g, mode |-> mode,
                    view |-> 0, todo |-> {}, outdated |-> {}, sent |-> {}, updates |-> {}]
    BY <1>2, <2>2 DEF NoRefresh
  <2>4. refresh' \in RefreshTask
    BY <2>1, <2>3 DEF RefreshTask
  <2> QED BY <2>2, <2>3, <2>4
<1>4. /\ avail' \in [gen : Nat, turn : Nat, snapshot : SUBSET Nat]
      /\ avail'.gen = avail.gen /\ avail'.snapshot = avail.snapshot
  BY <1>1 DEF Start
<1>5. inFlight' \subseteq Flight /\ AtMostOne(inFlight')
  <2>1. [generation |-> g, mode |-> mode, publishable |-> TRUE] \in Flight
    BY Zenon DEF Flight
  <2> QED BY <2>1 DEF Start, AtMostOne
<1>6. owesForced' \in BOOLEAN /\ (owesForced' => owesForced /\ mode # "forced")
  BY Zenon DEF Start
<1> QED BY <1>3, <1>4, <1>5, <1>6

\* A request keeps the views current and the forced refresh pending; one that
\* follows a mutation takes the running report out of the way.
LEMMA RequestRequests ==
    ASSUME RefreshInv, NEW mode \in Modes, NEW inv \in BOOLEAN, request(mode, inv)
    PROVE  /\ refresh' \in RefreshTask /\ runnerGen' = runnerGen + 1
           /\ avail' \in [gen : Nat, turn : Nat, snapshot : SUBSET Nat]
           /\ avail'.gen = avail.gen /\ avail'.snapshot = avail.snapshot
           /\ inFlight' \subseteq Flight /\ AtMostOne(inFlight')
           /\ pendingRef' \subseteq Modes /\ AtMostOne(pendingRef')
           /\ owesForced' \in BOOLEAN /\ (owesForced' => "forced" \in pendingRef')
           /\ \/ refresh'.at = "resolve" /\ refresh'.gen = avail.gen
                 /\ refresh'.rg = runnerGen' /\ refresh'.updates = {}
              \/ refresh' = refresh /\ avail' = avail
                 /\ \A f \in inFlight' : f.publishable =>
                      ~inv /\ \E h \in inFlight : h.publishable
<1>1. /\ runnerGen \in Nat /\ inFlight \subseteq Flight /\ AtMostOne(inFlight)
      /\ pendingRef \subseteq Modes /\ AtMostOne(pendingRef) /\ owesForced \in BOOLEAN
      /\ refresh \in RefreshTask /\ avail \in [gen : Nat, turn : Nat, snapshot : SUBSET Nat]
      /\ owesForced => "forced" \in pendingRef
  BY DEF RefreshInv, RefreshTypes, RefreshIsHonest, ForcedIsKept
<1>2. runnerGen' = runnerGen + 1
  BY DEF request
<1>3. CASE inFlight = {}
  <2>1. Start(runnerGen + 1, mode) /\ pendingRef' = pendingRef
    BY <1>3 DEF request
  <2> QED BY <1>1, <1>2, <2>1, StartStarts
<1>4. CASE inFlight # {}
  <2>1. PICK f \in Flight : inFlight = {f}
    BY <1>1, <1>4 DEF AtMostOne
  <2>2. /\ inFlight' = {[h EXCEPT !.publishable = @ /\ ~inv] : h \in inFlight}
        /\ pendingRef' = {Merged(mode, h.mode) : h \in inFlight}
        /\ owesForced' = (owesForced \/ mode = "forced")
        /\ avail' = avail /\ refresh' = refresh
    BY <1>4 DEF request
  <2>3. PICK e : e = [f EXCEPT !.publishable = f.publishable /\ ~inv]
    OBVIOUS
  <2>4. inFlight' = {e} /\ pendingRef' = {Merged(mode, f.mode)}
    BY <2>1, <2>2, <2>3
  <2>5. e \in Flight /\ (e.publishable => f.publishable /\ ~inv)
    BY <2>1, <2>3, Zenon DEF Flight
  <2>6. Merged(mode, f.mode) \in Modes
    BY DEF Merged, Modes
  <2>7. (owesForced \/ mode = "forced") => Merged(mode, f.mode) = "forced"
    BY <1>1 DEF Merged
  <2>8. owesForced' \in BOOLEAN /\ (owesForced' => "forced" \in pendingRef')
    BY <2>2, <2>4, <2>7, Zenon
  <2> QED BY <1>1, <1>2, <2>1, <2>2, <2>4, <2>5, <2>6, <2>8 DEF AtMostOne
<1> QED BY <1>3, <1>4

\* The picker is opened: the snapshot it shows is no older than the last mutation.
LEMMA OpenPickerKeeps ==
    ASSUME RefreshInv, NEW mode \in Modes, OpenPicker(mode)
    PROVE  RefreshInv'
<1>1. /\ request(mode, FALSE)
      /\ UNCHANGED <<live, regVer, discovery, mutation, catalog, codexFile, effective,
                     latest, invVer, floorVer>>
      /\ advertised' = IF avail.snapshot # {} THEN avail.snapshot ELSE advertised
  BY DEF OpenPicker, runtimeVars
<1>2. /\ refresh' \in RefreshTask /\ runnerGen' = runnerGen + 1
      /\ avail' \in [gen : Nat, turn : Nat, snapshot : SUBSET Nat]
      /\ avail'.gen = avail.gen /\ avail'.snapshot = avail.snapshot
      /\ inFlight' \subseteq Flight /\ AtMostOne(inFlight')
      /\ pendingRef' \subseteq Modes /\ AtMostOne(pendingRef')
      /\ owesForced' \in BOOLEAN /\ (owesForced' => "forced" \in pendingRef')
      /\ \/ refresh'.at = "resolve" /\ refresh'.gen = avail.gen
            /\ refresh'.rg = runnerGen' /\ refresh'.updates = {}
         \/ refresh' = refresh /\ avail' = avail
            /\ \A f \in inFlight' : f.publishable => \E h \in inFlight : h.publishable
  BY <1>1, RequestRequests
<1>3. runnerGen \in Nat /\ avail \in [gen : Nat, turn : Nat, snapshot : SUBSET Nat]
      /\ refresh \in RefreshTask
  BY DEF RefreshInv, RefreshTypes
<1>4. RefreshTypes'
  <2>1. avail.snapshot \subseteq Nat /\ advertised \subseteq Nat
    BY <1>3 DEF RefreshInv, RefreshTypes
  <2>2. advertised' \subseteq Nat
    BY <1>1, <2>1
  <2>3. runnerGen' \in Nat
    BY <1>2, <1>3
  <2> QED BY <1>1, <1>2, <2>2, <2>3 DEF RefreshInv, RefreshTypes
<1>5. ViewIsCurrent'
  BY <1>1, <1>2, <1>3 DEF RefreshInv, ViewIsCurrent, Resolved, RefreshTask
<1>6. StampsAreTrue' /\ StampedAsRequested'
  BY <1>1, <1>2 DEF RefreshInv, StampsAreTrue, RefreshIsHonest, StampedAsRequested
<1>7. ForcedIsKept'
  BY <1>2 DEF ForcedIsKept
<1>8. NothingOlderIsOffered'
  <2>1. /\ floorVer \in Nat /\ invVer \in Nat /\ floorVer <= invVer
        /\ \A v \in avail.snapshot : v \in Nat /\ v >= invVer
        /\ \A v \in advertised : v >= floorVer
    BY DEF RefreshInv, RefreshTypes, ViewIsCurrent, RefreshIsHonest, NothingOlderIsOffered
  <2> QED BY <1>1, <1>2, <2>1 DEF NothingOlderIsOffered
<1> QED BY <1>4, <1>5, <1>6, <1>7, <1>8 DEF RefreshInv, RefreshIsHonest

\* A report reaches the runner: what it publishes saw the last mutation it knows.
LEMMA DeliverRefreshKeeps ==
    ASSUME RefreshInv, DeliverRefresh
    PROVE  RefreshInv'
<1>1. /\ refresh.at \in {"published", "superseded", "failed"} /\ inFlight # {}
      /\ pendingRef' = {}
      /\ UNCHANGED <<live, regVer, discovery, mutation, catalog, codexFile, effective,
                     latest, invVer, runnerGen, asked, floorVer>>
  BY DEF DeliverRefresh, runtimeVars
<1>2. /\ inFlight \subseteq Flight /\ AtMostOne(inFlight) /\ runnerGen \in Nat
      /\ pendingRef \subseteq Modes /\ AtMostOne(pendingRef) /\ owesForced \in BOOLEAN
      /\ refresh \in RefreshTask /\ avail \in [gen : Nat, turn : Nat, snapshot : SUBSET Nat]
      /\ advertised \subseteq Nat
  BY DEF RefreshInv, RefreshTypes
<1>3. owesForced => "forced" \in pendingRef
  BY DEF RefreshInv, RefreshIsHonest, ForcedIsKept
<1>4. /\ advertised' \subseteq Nat
      /\ \A v \in advertised' : v \in advertised \/ v >= floorVer
  <2>1. PICK f : f = CHOOSE h \in inFlight : TRUE
    OBVIOUS
  <2>2. f \in inFlight
    BY <1>1, <2>1
  <2>3. advertised' = IF /\ refresh.rg = runnerGen \/ (f.publishable /\ f.mode = "forced")
                         /\ refresh.at = "published"
                      THEN {refresh.view} ELSE advertised
    BY <2>1 DEF DeliverRefresh
  <2>4. refresh.view \in Nat
    BY <1>2 DEF RefreshTask
  <2>5. (refresh.rg = runnerGen \/ f.publishable) => refresh.view >= floorVer
    BY <1>1, <2>2 DEF RefreshInv, ViewIsCurrent, Resolved
  <2> QED BY <1>2, <2>3, <2>4, <2>5
<1>5. /\ refresh' \in RefreshTask /\ refresh'.at \in {"none", "resolve"}
      /\ refresh'.gen <= avail'.gen /\ refresh'.rg <= runnerGen /\ refresh'.updates = {}
      /\ avail' \in [gen : Nat, turn : Nat, snapshot : SUBSET Nat]
      /\ avail'.gen = avail.gen /\ avail'.snapshot = avail.snapshot
      /\ inFlight' \subseteq Flight /\ AtMostOne(inFlight')
      /\ owesForced' = FALSE
  <2>1. CASE pendingRef = {}
    <3>1. inFlight' = {} /\ refresh' = NoRefresh /\ avail' = avail /\ owesForced' = owesForced
      BY <2>1 DEF DeliverRefresh
    <3> QED BY <1>2, <1>3, <2>1, <3>1, NoRefreshIsTask DEF AtMostOne
  <2>2. CASE pendingRef # {}
    <3>1. PICK m \in Modes : pendingRef = {m}
      BY <1>2, <2>2 DEF AtMostOne
    <3>2. Start(runnerGen, m)
      <4>1. (CHOOSE x \in pendingRef : TRUE) = m
        BY <3>1
      <4>2. Start(runnerGen, CHOOSE x \in pendingRef : TRUE)
        BY <2>2 DEF DeliverRefresh
      <4> QED BY <4>1, <4>2
    <3>3. owesForced => m = "forced"
      BY <1>3, <3>1
    <3>4. runnerGen' \in Nat /\ runnerGen <= runnerGen'
      BY <1>1, <1>2
    <3>5. owesForced' \in BOOLEAN /\ (owesForced' => owesForced /\ m # "forced")
      BY <1>2, <3>2, <3>4, StartStarts
    <3>6. owesForced' = FALSE
      BY <3>3, <3>5, Zenon
    <3> QED BY <1>2, <3>2, <3>4, <3>6, StartStarts
  <2> QED BY <2>1, <2>2
<1>6. RefreshTypes'
  BY <1>1, <1>2, <1>4, <1>5 DEF RefreshInv, RefreshTypes, AtMostOne
<1>7. ViewIsCurrent'
  BY <1>1, <1>5 DEF RefreshInv, ViewIsCurrent, Resolved
<1>8. StampsAreTrue' /\ StampedAsRequested' /\ ForcedIsKept'
  BY <1>1, <1>5 DEF RefreshInv, StampsAreTrue, RefreshIsHonest, StampedAsRequested,
     ForcedIsKept
<1>9. NothingOlderIsOffered'
  BY <1>1, <1>4, <1>5 DEF RefreshInv, RefreshIsHonest, NothingOlderIsOffered
<1> QED BY <1>6, <1>7, <1>8, <1>9 DEF RefreshInv, RefreshIsHonest

-----------------------------------------------------------------------------
(***************************************************************************)
(* The refresh task.                                                       *)
(***************************************************************************)

\* A step of the task that leaves the caches and the runner alone.
LEMMA TaskKeeps ==
    ASSUME RefreshInv, refresh' \in RefreshTask,
           refresh'.gen = refresh.gen, refresh'.rg = refresh.rg,
           \A u \in refresh'.updates : u.stamp = u.real,
           \/ ~Resolved'
           \/ Resolved /\ refresh'.view = refresh.view
           \/ refresh'.view = regVer,
           UNCHANGED <<live, regVer, avail, discovery, mutation, invVer, runnerVars>>,
           latest' = latest, effective' \in Nat,
           catalog' \in [Modes -> Fetch], codexFile' \subseteq Listing,
           Honest(codexFile'), \A m \in Modes : Honest(catalog'[m].existing)
    PROVE  RefreshInv'
<1>1. RefreshTypes'
  BY DEF RefreshInv, RefreshTypes, runnerVars
<1>2. ViewIsCurrent'
  <2>1. /\ refresh.view \in Nat /\ regVer \in Nat /\ invVer \in Nat /\ floorVer \in Nat
        /\ floorVer <= invVer /\ invVer <= regVer
    BY DEF RefreshInv, RefreshTypes, ViewIsCurrent, RefreshTask
  <2> QED BY <2>1 DEF RefreshInv, ViewIsCurrent, Resolved, runnerVars
<1>3. StampsAreTrue'
  BY DEF StampsAreTrue
<1>4. NothingOlderIsOffered' /\ ForcedIsKept'
  BY DEF RefreshInv, RefreshIsHonest, NothingOlderIsOffered, ForcedIsKept, runnerVars
<1>5. StampedAsRequested'
  BY DEF RefreshInv, RefreshIsHonest, StampedAsRequested, Honest
<1> QED BY <1>1, <1>2, <1>3, <1>4, <1>5 DEF RefreshInv, RefreshIsHonest

\* What the task and the Codex catalog are before a step.
LEMMA TaskIs ==
    ASSUME RefreshInv
    PROVE  /\ refresh \in RefreshTask /\ effective \in Nat /\ latest \in Nat
           /\ catalog \in [Modes -> Fetch] /\ codexFile \subseteq Listing
           /\ Honest(codexFile) /\ \A m \in Modes : Honest(catalog[m].existing)
           /\ \A u \in refresh.updates : u.stamp = u.real
           /\ live \subseteq Conns /\ regVer \in Nat
  BY DEF RefreshInv, RefreshTypes, StampsAreTrue

\* The task goes to its next step.
LEMMA TaskGoesOn ==
    ASSUME RefreshInv, NEW at \in TaskSteps, Task(at)
    PROVE  /\ refresh' \in RefreshTask /\ refresh'.at = at
           /\ refresh'.gen = refresh.gen /\ refresh'.rg = refresh.rg
           /\ refresh'.view = refresh.view /\ refresh'.updates = refresh.updates
  BY TaskIs DEF Task, RefreshTask

\* The connections are resolved: the view is the registry of this moment.
LEMMA ResolveKeeps == ASSUME RefreshInv, resolve PROVE RefreshInv'
<1>1. UNCHANGED <<live, regVer, discovery, mutation, codexVars, invVer, runnerVars, avail>>
  BY DEF resolve
<1>2. PICK at \in TaskSteps, todo \in SUBSET Conns, old \in SUBSET Conns :
        refresh' = [refresh EXCEPT !.at = at, !.view = regVer, !.todo = todo, !.outdated = old]
  <2>1. CASE refresh' = [refresh EXCEPT !.at = "codex", !.view = regVer, !.todo = live,
                                        !.outdated = Outdated]
    <3>1. live \in SUBSET Conns /\ Outdated \in SUBSET Conns /\ "codex" \in TaskSteps
      BY DEF RefreshInv, RefreshTypes, Outdated, TaskSteps
    <3> QED BY <2>1, <3>1
  <2>2. CASE refresh' = [refresh EXCEPT !.at = "failed", !.view = regVer]
    <3>1. refresh' = [refresh EXCEPT !.at = "failed", !.view = regVer, !.todo = refresh.todo,
                                     !.outdated = refresh.outdated]
      BY <2>2, TaskIs DEF RefreshTask
    <3> QED BY <3>1, TaskIs DEF TaskSteps, RefreshTask
  <2> QED BY <2>1, <2>2 DEF resolve
<1>3. /\ refresh' \in RefreshTask /\ refresh'.gen = refresh.gen /\ refresh'.rg = refresh.rg
      /\ refresh'.view = regVer /\ refresh'.updates = refresh.updates
  BY <1>2, TaskIs DEF RefreshTask
<1> QED BY <1>1, <1>3, TaskIs, TaskKeeps DEF codexVars

\* Reading a credential changes the credential cache alone.
LEMMA ReadCredentialKeeps ==
    ASSUME RefreshInv, NEW id \in Conns, read_credential(id)
    PROVE  RefreshInv'
  BY DEF read_credential, codexVars, runnerVars, RefreshInv, RefreshTypes, ViewIsCurrent,
     Resolved, StampsAreTrue, RefreshIsHonest, NothingOlderIsOffered, ForcedIsKept,
     StampedAsRequested

\* The release check may change the version requests send, and nothing else.
LEMMA CheckReleaseKeeps == ASSUME RefreshInv, check_release PROVE RefreshInv'
<1>1. /\ refresh.at = "codex" /\ effective' \in {effective, latest}
      /\ UNCHANGED <<live, regVer, avail, discovery, mutation, catalog, codexFile, latest,
                     invVer, runnerVars>>
      /\ Task("catalog") \/ Task("discover")
  BY DEF check_release
<1>2. PICK at \in TaskSteps : Task(at)
  BY <1>1 DEF TaskSteps
<1>3. Resolved
  BY <1>1 DEF Resolved
<1> QED BY <1>1, <1>2, <1>3, TaskIs, TaskGoesOn, TaskKeeps

\* A catalog request starts with the listing there is.
LEMMA StartCatalogKeeps == ASSUME RefreshInv, start_catalog PROVE RefreshInv'
<1>1. /\ refresh.at = "catalog" /\ effective' = effective
      /\ UNCHANGED <<live, regVer, avail, discovery, mutation, codexFile, latest,
                     invVer, runnerVars>>
      /\ Task("await") \/ Task("discover")
  BY DEF start_catalog
<1>2. PICK at \in TaskSteps : Task(at)
  BY <1>1 DEF TaskSteps
<1>3. Resolved
  BY <1>1 DEF Resolved
<1>4. /\ catalog' \in [Modes -> Fetch]
      /\ \A m \in Modes : Honest(catalog'[m].existing)
  <2>1. PICK c : c = [at |-> "fetch", version |-> effective, existing |-> codexFile]
    OBVIOUS
  <2>2. c \in Fetch /\ Honest(c.existing)
    BY <2>1, TaskIs DEF Fetch
  <2>3. \/ catalog' = [catalog EXCEPT ![refresh.mode] = c]
        \/ catalog' = catalog
    BY <2>1 DEF start_catalog
  <2> QED BY <2>2, <2>3, TaskIs
<1> QED BY <1>1, <1>2, <1>3, <1>4, TaskIs, TaskGoesOn, TaskKeeps

\* The catalog that is stored is of the version it was asked with: an answer "not
\* modified" is only possible for that version.
LEMMA FinishCatalogKeeps ==
    ASSUME RefreshInv, NEW m \in Modes, finish_catalog(m)
    PROVE  RefreshInv'
<1>1. /\ catalog' = [catalog EXCEPT ![m].at = "none"]
      /\ UNCHANGED <<live, regVer, avail, discovery, mutation, effective, latest, invVer,
                     runnerVars>>
      /\ (refresh.at = "await" /\ Task("discover")) \/ refresh' = refresh
  BY DEF finish_catalog
<1>2. /\ catalog' \in [Modes -> Fetch]
      /\ \A k \in Modes : Honest(catalog'[k].existing)
  <2>1. [catalog[m] EXCEPT !.at = "none"] \in Fetch
        /\ [catalog[m] EXCEPT !.at = "none"].existing = catalog[m].existing
    BY TaskIs DEF Fetch
  <2>2. catalog' = [catalog EXCEPT ![m] = [catalog[m] EXCEPT !.at = "none"]]
    BY <1>1, TaskIs
  <2> QED BY <2>1, <2>2, TaskIs
<1>3. codexFile' \subseteq Listing /\ Honest(codexFile')
  <2>1. PICK c \in Fetch : c = catalog[m] /\ Honest(c.existing)
    BY TaskIs
  <2>2. c.version \in Nat /\ c.existing \subseteq Listing
    BY <2>1 DEF Fetch
  <2>3. CASE /\ EtagSent(c)
             /\ codexFile' = {[e EXCEPT !.asked = c.version] : e \in c.existing}
    <3>1. PICK e \in c.existing : e.stamp = c.version
      BY <2>3 DEF EtagSent
    <3>2. c.existing = {e}
      BY <2>1, <3>1 DEF Honest, AtMostOne
    <3>3. codexFile' = {[e EXCEPT !.asked = c.version]}
      BY <2>3, <3>2
    <3>4. /\ [e EXCEPT !.asked = c.version] \in Listing
          /\ [e EXCEPT !.asked = c.version].asked = [e EXCEPT !.asked = c.version].stamp
      BY <2>2, <3>1 DEF Listing
    <3> QED BY <3>3, <3>4 DEF Honest, AtMostOne
  <2>4. CASE codexFile' = {[stamp |-> c.version, asked |-> c.version]}
    BY <2>2, <2>4 DEF Honest, AtMostOne, Listing
  <2>5. CASE codexFile' = IF c.existing # {} THEN c.existing ELSE codexFile
    BY <2>1, <2>2, <2>5, TaskIs
  <2> QED BY <2>1, <2>3, <2>4, <2>5 DEF finish_catalog
<1>4. CASE refresh.at = "await" /\ Task("discover")
  <2>1. "discover" \in TaskSteps /\ Resolved
    BY <1>4 DEF TaskSteps, Resolved
  <2> QED BY <1>1, <1>2, <1>3, <1>4, <2>1, TaskIs, TaskGoesOn, TaskKeeps
<1>5. CASE refresh' = refresh
  <2>1. \/ ~Resolved'
        \/ Resolved /\ refresh'.view = refresh.view
    BY <1>5 DEF Resolved
  <2> QED BY <1>1, <1>2, <1>3, <1>5, <2>1, TaskIs, TaskKeeps
<1> QED BY <1>1, <1>4, <1>5

\* A listing is asked for with the version of this moment, or not at all.
LEMMA DiscoverKeeps ==
    ASSUME RefreshInv, NEW id \in Conns, discover(id)
    PROVE  RefreshInv'
<1>1. refresh.at = "discover" /\ UNCHANGED <<runtimeVars, runnerVars, avail>>
  BY DEF discover
<1>2. /\ refresh' \in RefreshTask /\ refresh'.gen = refresh.gen /\ refresh'.rg = refresh.rg
      /\ refresh'.view = refresh.view /\ refresh'.updates = refresh.updates
  <2>1. PICK todo \in SUBSET Conns : todo = refresh.todo \ {id}
    BY TaskIs DEF RefreshTask
  <2>2. PICK sent \in SUBSET (Conns \X Nat) : sent = refresh.sent \union {<<id, effective>>}
    <3>1. refresh.sent \in SUBSET (Conns \X Nat) /\ <<id, effective>> \in Conns \X Nat
      BY TaskIs DEF RefreshTask
    <3>2. refresh.sent \union {<<id, effective>>} \in SUBSET (Conns \X Nat)
      BY <3>1, Zenon
    <3> QED BY <3>2
  <2>3. \/ refresh' = [refresh EXCEPT !.todo = todo]
        \/ refresh' = [refresh EXCEPT !.todo = todo, !.sent = sent]
    BY <2>1, <2>2 DEF discover
  <2> QED BY <2>3, TaskIs DEF RefreshTask
<1>3. Resolved
  BY <1>1 DEF Resolved
<1> QED BY <1>1, <1>2, <1>3, TaskIs, TaskKeeps DEF runtimeVars

\* A listing is stamped with the version it was asked with.
LEMMA AnswerKeeps ==
    ASSUME RefreshInv, NEW pair \in refresh.sent, answer(pair)
    PROVE  RefreshInv'
<1>1. UNCHANGED <<runtimeVars, runnerVars, avail>>
  BY DEF answer
<1>2. pair \in Conns \X Nat
  BY TaskIs DEF RefreshTask
<1>3. PICK u \in CatalogRow : u = [id |-> pair[1], stamp |-> pair[2], real |-> pair[2]]
                       /\ u.stamp = u.real
  <2>1. pair[1] \in Conns /\ pair[2] \in Nat
    BY <1>2
  <2>2. [id |-> pair[1], stamp |-> pair[2], real |-> pair[2]] \in CatalogRow
    BY <2>1 DEF CatalogRow
  <2> QED BY <2>2
<1>4. PICK sent \in SUBSET (Conns \X Nat), updates \in SUBSET CatalogRow :
        /\ refresh' = [refresh EXCEPT !.sent = sent, !.updates = updates]
        /\ updates \subseteq refresh.updates \union {u}
  <2>1. /\ refresh.sent \ {pair} \in SUBSET (Conns \X Nat)
        /\ refresh.updates \in SUBSET CatalogRow /\ refresh.updates \union {u} \in SUBSET CatalogRow
    BY TaskIs DEF RefreshTask
  <2>2. CASE refresh' = [refresh EXCEPT !.sent = @ \ {pair}]
    <3>1. refresh' = [refresh EXCEPT !.sent = refresh.sent \ {pair},
                                     !.updates = refresh.updates]
      BY <2>2, TaskIs DEF RefreshTask
    <3> QED BY <2>1, <3>1
  <2>3. CASE refresh' = [refresh EXCEPT !.sent = @ \ {pair},
                           !.updates = @ \union {[id |-> pair[1], stamp |-> pair[2],
                                                  real |-> pair[2]]}]
    BY <1>3, <2>1, <2>3
  <2> QED BY <2>2, <2>3 DEF answer
<1>5. /\ refresh' \in RefreshTask /\ refresh'.gen = refresh.gen /\ refresh'.rg = refresh.rg
      /\ refresh'.view = refresh.view /\ refresh'.updates = updates
      /\ refresh'.at = refresh.at
  BY <1>4, TaskIs DEF RefreshTask
<1>6. \A v \in refresh'.updates : v.stamp = v.real
  BY <1>3, <1>4, <1>5, TaskIs
<1>7. \/ ~Resolved'
      \/ Resolved /\ refresh'.view = refresh.view
  BY <1>5 DEF Resolved
<1> QED BY <1>1, <1>5, <1>6, <1>7, TaskIs, TaskKeeps DEF runtimeVars

\* The rows are saved.
LEMMA SaveKeeps == ASSUME RefreshInv, save PROVE RefreshInv'
<1>1. /\ refresh.at = "save" /\ Task("published")
      /\ UNCHANGED <<live, regVer, avail, discovery, mutation, codexVars, invVer, runnerVars>>
  BY DEF save
<1>2. "published" \in TaskSteps /\ Resolved
  BY <1>1 DEF TaskSteps, Resolved
<1> QED BY <1>1, <1>2, TaskIs, TaskGoesOn, TaskKeeps DEF codexVars

\* A snapshot is published only if the caches were not invalidated since.
LEMMA PublishKeeps == ASSUME RefreshInv, publish PROVE RefreshInv'
<1>1. /\ refresh.at = "discover"
      /\ UNCHANGED <<live, regVer, mutation, codexVars, invVer, runnerVars>>
  BY DEF publish
<1>2. Resolved
  BY <1>1 DEF Resolved
<1>3. CASE ~Current(refresh.gen, refresh.turn)
  <2>1. Task("superseded") /\ UNCHANGED <<discovery, avail>> /\ "superseded" \in TaskSteps
    BY <1>3 DEF publish, TaskSteps
  <2> QED BY <1>1, <1>2, <2>1, TaskIs, TaskGoesOn, TaskKeeps DEF codexVars
<1>4. CASE Current(refresh.gen, refresh.turn)
  <2>1. /\ discovery' = Updated(refresh.updates)
        /\ avail' = [avail EXCEPT !.snapshot = {refresh.view}]
        /\ Task("save") /\ "save" \in TaskSteps
    BY <1>4 DEF publish, TaskSteps
  <2>2. /\ refresh' \in RefreshTask /\ refresh'.at = "save"
        /\ refresh'.gen = refresh.gen /\ refresh'.rg = refresh.rg
        /\ refresh'.view = refresh.view /\ refresh'.updates = refresh.updates
    BY <2>1, TaskGoesOn
  <2>3. avail \in [gen : Nat, turn : Nat, snapshot : SUBSET Nat] /\ refresh.view \in Nat
        /\ discovery \in [Conns -> SUBSET Stamped] /\ refresh.updates \subseteq CatalogRow
    BY TaskIs DEF RefreshInv, RefreshTypes, RefreshTask
  <2>4. /\ avail' \in [gen : Nat, turn : Nat, snapshot : SUBSET Nat]
        /\ avail'.gen = avail.gen /\ avail'.snapshot = {refresh.view}
    BY <2>1, <2>3
  <2>5. /\ discovery' \in [Conns -> SUBSET Stamped]
        /\ \A id \in Conns : \A e \in discovery'[id] : e.stamp = e.real
    <3> SUFFICES ASSUME NEW id \in Conns
                 PROVE  /\ discovery'[id] \subseteq Stamped
                        /\ \A e \in discovery'[id] : e.stamp = e.real
      BY <2>1 DEF Updated
    <3>1. /\ \A e \in discovery[id] : e \in Stamped /\ e.stamp = e.real
          /\ \A u \in refresh.updates : u \in CatalogRow /\ u.stamp = u.real
      BY <2>3, TaskIs DEF RefreshInv, RefreshIsHonest, StampedAsRequested
    <3>2. \A u \in refresh.updates : [stamp |-> u.stamp, real |-> u.real] \in Stamped
      BY <3>1 DEF CatalogRow, Stamped
    <3>3. \A e \in discovery'[id] :
            \/ e \in discovery[id]
            \/ \E u \in refresh.updates : e = [stamp |-> u.stamp, real |-> u.real]
      BY <2>1 DEF Updated
    <3> QED BY <3>1, <3>2, <3>3
  <2>6. RefreshTypes'
    BY <1>1, <2>2, <2>4, <2>5 DEF RefreshInv, RefreshTypes, codexVars, runnerVars
  <2>7. refresh.view >= invVer
    BY <1>2, <1>4 DEF RefreshInv, ViewIsCurrent, Current
  <2>8. ViewIsCurrent'
    BY <1>1, <1>2, <2>2, <2>4 DEF RefreshInv, ViewIsCurrent, Resolved, runnerVars
  <2>9. StampsAreTrue' /\ StampedAsRequested' /\ ForcedIsKept'
    BY <1>1, <2>2, <2>5 DEF RefreshInv, StampsAreTrue, RefreshIsHonest, StampedAsRequested,
       ForcedIsKept, codexVars, runnerVars
  <2>10. NothingOlderIsOffered'
    BY <1>1, <2>4, <2>7 DEF RefreshInv, RefreshIsHonest, NothingOlderIsOffered, runnerVars
  <2> QED BY <2>6, <2>8, <2>9, <2>10 DEF RefreshInv, RefreshIsHonest
<1> QED BY <1>3, <1>4

-----------------------------------------------------------------------------
(***************************************************************************)
(* The mutations, and the world outside.                                   *)
(***************************************************************************)

\* A step of a mutation leaves the runner and the refresh task alone.  If it
\* invalidates the caches, the snapshot goes and what a running refresh resolved no
\* longer counts.
LEMMA MutationKeeps ==
    ASSUME RefreshInv, mutation' \in Mutation, live' \subseteq Conns,
           regVer' \in Nat, regVer <= regVer',
           UNCHANGED <<refresh, catalog, codexFile, effective, latest, runnerGen, inFlight,
                       pendingRef, advertised, floorVer, owesForced>>,
           discovery' \in [Conns -> SUBSET Stamped],
           \A id \in Conns : discovery'[id] \subseteq discovery[id],
           \/ avail' = avail /\ invVer' = invVer
           \/ avail' = [avail EXCEPT !.gen = @ + 1, !.snapshot = {}] /\ invVer' = regVer
    PROVE  RefreshInv'
<1>1. /\ avail \in [gen : Nat, turn : Nat, snapshot : SUBSET Nat]
      /\ regVer \in Nat /\ invVer \in Nat /\ floorVer \in Nat
      /\ floorVer <= invVer /\ invVer <= regVer
      /\ refresh.gen \in Nat /\ refresh.gen <= avail.gen
  BY DEF RefreshInv, RefreshTypes, ViewIsCurrent, RefreshTask
<1>2. /\ avail' \in [gen : Nat, turn : Nat, snapshot : SUBSET Nat]
      /\ invVer' \in Nat /\ floorVer <= invVer' /\ invVer' <= regVer'
      /\ \/ avail'.gen = avail.gen /\ avail'.snapshot = avail.snapshot /\ invVer' = invVer
         \/ avail'.gen = avail.gen + 1 /\ avail'.snapshot = {}
  <2>1. CASE avail' = avail /\ invVer' = invVer
    BY <1>1, <2>1
  <2>2. CASE /\ avail' = [avail EXCEPT !.gen = @ + 1, !.snapshot = {}]
             /\ invVer' = regVer
    <3>1. avail.gen + 1 \in Nat
      BY <1>1
    <3>2. avail' \in [gen : Nat, turn : Nat, snapshot : SUBSET Nat]
      BY <1>1, <2>2, <3>1
    <3>3. avail'.gen = avail.gen + 1 /\ avail'.snapshot = {}
      BY <1>1, <2>2
    <3> QED BY <1>1, <2>2, <3>2, <3>3
  <2> QED BY <2>1, <2>2
<1>3. RefreshTypes'
  BY <1>2 DEF RefreshInv, RefreshTypes
<1>4. ViewIsCurrent'
  BY <1>1, <1>2 DEF RefreshInv, ViewIsCurrent, Resolved
<1>5. StampsAreTrue' /\ StampedAsRequested' /\ ForcedIsKept'
  BY DEF RefreshInv, StampsAreTrue, RefreshIsHonest, StampedAsRequested, ForcedIsKept
<1>6. NothingOlderIsOffered'
  BY <1>2 DEF RefreshInv, RefreshIsHonest, NothingOlderIsOffered
<1> QED BY <1>3, <1>4, <1>5, <1>6 DEF RefreshInv, RefreshIsHonest

\* What a mutation works on.
LEMMA MutationIs ==
    ASSUME RefreshInv
    PROVE  /\ mutation \in Mutation /\ live \subseteq Conns /\ regVer \in Nat
           /\ discovery \in [Conns -> SUBSET Stamped]
           /\ \A id \in Conns : discovery[id] \subseteq discovery[id]
  BY DEF RefreshInv, RefreshTypes

\* The mutation goes to its next step.
LEMMA MutationGoesOn ==
    ASSUME RefreshInv,
           NEW at \in {"none", "store", "invalidate", "persist", "after", "done", "failed"},
           Mutate(at)
    PROVE  mutation' \in Mutation
  BY MutationIs DEF Mutate, Mutation

\* A mutation starts.
LEMMA StartMutationKeeps ==
    ASSUME RefreshInv, NEW kind \in {"create", "rename", "replace", "remove"},
           NEW id \in Conns, StartMutation(kind, id)
    PROVE  RefreshInv'
<1>1. mutation' = [at |-> IF kind \in {"create", "rename"} THEN "store" ELSE "invalidate",
                   kind |-> kind, id |-> id]
      /\ UNCHANGED <<live, regVer, avail, discovery, refresh, codexVars, runnerGen, inFlight,
                     pendingRef, advertised, invVer, floorVer, owesForced, owed>>
  BY DEF StartMutation
<1>2. mutation' \in Mutation
  BY <1>1 DEF Mutation
<1> QED BY <1>1, <1>2, MutationIs, MutationKeeps DEF codexVars

\* Invalidation before the store changes: snapshot and rows go.
LEMMA InvalidateConnectionKeeps == ASSUME RefreshInv, invalidate_connection PROVE RefreshInv'
<1>1. /\ avail' = [avail EXCEPT !.gen = @ + 1, !.snapshot = {}]
      /\ discovery' = [discovery EXCEPT ![mutation.id] = {}]
      /\ invVer' = regVer /\ Mutate("persist")
      /\ UNCHANGED <<live, regVer, refresh, codexVars, runnerVars>>
  BY DEF invalidate_connection
<1>2. /\ discovery' \in [Conns -> SUBSET Stamped]
      /\ \A id \in Conns : discovery'[id] \subseteq discovery[id]
  BY <1>1, MutationIs
<1> QED BY <1>1, <1>2, MutationIs, MutationGoesOn, MutationKeeps DEF codexVars, runnerVars

\* The rows that are left are written to the cache file, or the mutation fails.
LEMMA PersistInvalidatedKeeps == ASSUME RefreshInv, persist_invalidated PROVE RefreshInv'
<1>1. /\ Mutate("store") \/ Mutate("failed")
      /\ UNCHANGED <<live, regVer, avail, discovery, refresh, codexVars, invVer, runnerVars>>
  BY DEF persist_invalidated
<1>2. mutation' \in Mutation
  BY <1>1, MutationGoesOn
<1> QED BY <1>1, <1>2, MutationIs, MutationKeeps DEF codexVars, runnerVars

\* The store changes, or the mutation fails.
LEMMA CommitKeeps == ASSUME RefreshInv, commit PROVE RefreshInv'
<1>1. UNCHANGED <<avail, discovery, refresh, codexVars, invVer, runnerVars>>
  BY DEF commit
<1>2. Mutate("after") \/ Mutate("done") \/ Mutate("failed")
  BY DEF commit
<1>3. mutation' \in Mutation
  BY <1>2, MutationGoesOn
<1>4. mutation.id \in Conns
  BY MutationIs DEF Mutation
<1>5. live' \subseteq Conns /\ regVer' \in Nat /\ regVer <= regVer'
  <2>1. CASE UNCHANGED <<live, regVer>>
    BY <2>1, MutationIs
  <2>2. CASE /\ regVer' = regVer + 1
             /\ live' = CASE mutation.kind = "create" -> live \union {mutation.id}
                          [] mutation.kind = "remove" -> live \ {mutation.id}
                          [] OTHER -> live
    BY <1>4, <2>2, MutationIs
  <2> QED BY <2>1, <2>2 DEF commit
<1> QED BY <1>1, <1>3, <1>5, MutationIs, MutationKeeps DEF codexVars, runnerVars

\* Invalidation after the store has changed.
LEMMA InvalidateKeeps == ASSUME RefreshInv, invalidate PROVE RefreshInv'
<1>1. /\ avail' = [avail EXCEPT !.gen = @ + 1, !.snapshot = {}]
      /\ invVer' = regVer /\ Mutate("done")
      /\ UNCHANGED <<live, regVer, discovery, refresh, codexVars, runnerVars>>
  BY DEF invalidate
<1> QED BY <1>1, MutationIs, MutationGoesOn, MutationKeeps DEF codexVars, runnerVars

\* The runner hears of a mutation: nothing is offered any more, and a refresh that
\* was under way may not report what it saw before.
LEMMA DeliverMutationKeeps ==
    ASSUME RefreshAssumption, RefreshInv, DeliverMutation
    PROVE  RefreshInv'
<1>1. /\ mutation' = NoMutation
      /\ UNCHANGED <<live, regVer, discovery, catalog, codexFile, effective, latest, invVer>>
  BY DEF DeliverMutation, codexVars
<1>2. mutation' \in Mutation
  BY <1>1 DEF RefreshAssumption, NoMutation, Mutation
<1>3. CASE mutation.at # "done"
  <2>1. UNCHANGED <<advertised, floorVer, runnerGen, inFlight, pendingRef, avail,
                    refresh, owesForced>>
    BY <1>3 DEF DeliverMutation
  <2> QED BY <1>1, <1>2, <2>1, MutationIs, MutationKeeps
<1>4. CASE mutation.at = "done"
  <2>1. advertised' = {} /\ floorVer' = invVer /\ request("normal", TRUE)
    BY <1>4 DEF DeliverMutation
  <2>2. /\ refresh' \in RefreshTask /\ runnerGen' = runnerGen + 1
        /\ avail' \in [gen : Nat, turn : Nat, snapshot : SUBSET Nat]
        /\ avail'.gen = avail.gen /\ avail'.snapshot = avail.snapshot
        /\ inFlight' \subseteq Flight /\ AtMostOne(inFlight')
        /\ pendingRef' \subseteq Modes /\ AtMostOne(pendingRef')
        /\ owesForced' \in BOOLEAN /\ (owesForced' => "forced" \in pendingRef')
        /\ \/ refresh'.at = "resolve" /\ refresh'.gen = avail.gen
              /\ refresh'.rg = runnerGen' /\ refresh'.updates = {}
           \/ refresh' = refresh /\ avail' = avail
              /\ \A f \in inFlight' : ~f.publishable
    <3>1. "normal" \in Modes
      BY DEF Modes
    <3> QED BY <2>1, <3>1, RequestRequests
  <2>3. /\ runnerGen \in Nat /\ invVer \in Nat /\ floorVer \in Nat /\ regVer \in Nat
        /\ avail \in [gen : Nat, turn : Nat, snapshot : SUBSET Nat]
        /\ refresh.rg \in Nat /\ refresh.gen \in Nat /\ refresh.rg <= runnerGen
        /\ refresh.gen <= avail.gen /\ invVer <= regVer
    BY DEF RefreshInv, RefreshTypes, ViewIsCurrent, RefreshTask
  <2>4. RefreshTypes'
    <3>1. runnerGen' \in Nat /\ floorVer' \in Nat /\ advertised' \subseteq Nat
      BY <2>1, <2>2, <2>3
    <3> QED BY <1>1, <1>2, <2>2, <3>1 DEF RefreshInv, RefreshTypes
  <2>5. ViewIsCurrent'
    BY <1>1, <2>1, <2>2, <2>3 DEF RefreshInv, ViewIsCurrent, Resolved
  <2>6. StampsAreTrue' /\ StampedAsRequested'
    BY <1>1, <2>2 DEF RefreshInv, StampsAreTrue, RefreshIsHonest, StampedAsRequested
  <2>7. ForcedIsKept'
    BY <2>2 DEF ForcedIsKept
  <2>8. NothingOlderIsOffered'
    BY <1>1, <2>1, <2>2 DEF RefreshInv, RefreshIsHonest, NothingOlderIsOffered
  <2> QED BY <2>4, <2>5, <2>6, <2>7, <2>8 DEF RefreshInv, RefreshIsHonest
<1> QED BY <1>3, <1>4

\* Releases and another yach change only the versions and the shared catalog.
LEMMA OutsideKeeps ==
    ASSUME RefreshInv, Outside, effective' \in Nat, latest' \in Nat,
           codexFile' \subseteq Listing, Honest(codexFile')
    PROVE  RefreshInv'
<1>1. UNCHANGED <<live, regVer, avail, discovery, mutation, refresh, catalog, invVer,
                  runnerGen, inFlight, pendingRef, advertised, floorVer, owesForced>>
  BY DEF Outside
<1>2. RefreshTypes'
  BY <1>1 DEF RefreshInv, RefreshTypes
<1>3. ViewIsCurrent'
  BY <1>1 DEF RefreshInv, ViewIsCurrent, Resolved
<1>4. StampsAreTrue' /\ StampedAsRequested' /\ ForcedIsKept' /\ NothingOlderIsOffered'
  BY <1>1 DEF RefreshInv, StampsAreTrue, RefreshIsHonest, StampedAsRequested, ForcedIsKept,
     NothingOlderIsOffered, Honest
<1> QED BY <1>2, <1>3, <1>4 DEF RefreshInv, RefreshIsHonest

\* A catalog of another yach was listed with the version it says.
LEMMA OutsideStepsKeep ==
    ASSUME RefreshInv, Release \/ OtherYach \/ StartupCheck
    PROVE  RefreshInv'
<1>1. CASE Release
  <2>1. latest' = latest + 1 /\ Outside /\ UNCHANGED <<codexFile, effective>>
    BY <1>1 DEF Release
  <2> QED BY <2>1, TaskIs, OutsideKeeps
<1>2. CASE OtherYach
  <2>1. Outside /\ UNCHANGED <<effective, latest>>
    BY <1>2 DEF OtherYach
  <2>2. PICK v \in 1..latest : codexFile' = {[stamp |-> v, asked |-> v]}
    BY <1>2 DEF OtherYach
  <2>3. v \in Nat
    BY TaskIs
  <2>4. codexFile' \subseteq Listing /\ Honest(codexFile')
    BY <2>2, <2>3 DEF Listing, Honest, AtMostOne
  <2> QED BY <2>1, <2>4, TaskIs, OutsideKeeps
<1>3. CASE StartupCheck
  <2>1. effective' = latest /\ Outside /\ UNCHANGED <<codexFile, latest>>
    BY <1>3 DEF StartupCheck
  <2> QED BY <2>1, TaskIs, OutsideKeeps
<1> QED BY <1>1, <1>2, <1>3

-----------------------------------------------------------------------------
(***************************************************************************)
(* The theorem.                                                            *)
(***************************************************************************)

\* At the start nothing is cached, offered or under way.
LEMMA InitRefresh ==
    ASSUME RefreshAssumption, RefreshInit
    PROVE  RefreshInv
<1>1. /\ live \subseteq Conns /\ regVer = 0 /\ invVer = 0 /\ floorVer = 0
      /\ avail = [gen |-> 0, turn |-> 0, snapshot |-> {}]
      /\ discovery = [id \in Conns |-> {}]
      /\ mutation = NoMutation /\ refresh = NoRefresh
      /\ catalog = [m \in Modes |-> [at |-> "none", version |-> 1, existing |-> {}]]
      /\ codexFile = {} /\ effective = 1 /\ latest = 1
      /\ runnerGen = 0 /\ inFlight = {} /\ pendingRef = {} /\ advertised = {}
      /\ owesForced = FALSE
  BY DEF RefreshInit
<1>2. mutation \in Mutation
  BY <1>1 DEF RefreshAssumption, NoMutation, Mutation
<1>3. avail \in [gen : Nat, turn : Nat, snapshot : SUBSET Nat]
      /\ avail.gen = 0 /\ avail.snapshot = {}
  BY <1>1
<1>4. catalog \in [Modes -> Fetch] /\ \A m \in Modes : catalog[m].existing = {}
  BY <1>1 DEF Fetch
<1>5. RefreshTypes
  BY <1>1, <1>2, <1>3, <1>4, NoRefreshIsTask DEF RefreshTypes, AtMostOne
<1>6. ViewIsCurrent
  BY <1>1, <1>3, NoRefreshIsTask DEF ViewIsCurrent, Resolved
<1>7. StampsAreTrue
  BY <1>1, <1>4, NoRefreshIsTask DEF StampsAreTrue, Honest, AtMostOne
<1>8. RefreshIsHonest
  BY <1>1, <1>3 DEF RefreshIsHonest, NothingOlderIsOffered, ForcedIsKept, StampedAsRequested
<1> QED BY <1>5, <1>6, <1>7, <1>8 DEF RefreshInv

\* Every step keeps the invariant.
LEMMA NextRefresh ==
    ASSUME RefreshAssumption, RefreshInv, [RefreshNext]_refreshVars
    PROVE  RefreshInv'
<1>1. CASE \E mode \in Modes : OpenPicker(mode)
  BY <1>1, OpenPickerKeeps
<1>2. CASE \E kind \in {"create", "rename", "replace", "remove"}, id \in Conns :
             StartMutation(kind, id)
  BY <1>2, StartMutationKeeps
<1>3. CASE RuntimeStep
  <2>1. CASE \E m \in Modes : finish_catalog(m)
    BY <2>1, FinishCatalogKeeps
  <2>2. CASE \E id \in Conns : discover(id)
    BY <2>2, DiscoverKeeps
  <2>3. CASE \E pair \in refresh.sent : answer(pair)
    BY <2>3, AnswerKeeps
  <2> QED BY <1>3, <2>1, <2>2, <2>3, ResolveKeeps, CheckReleaseKeeps, StartCatalogKeeps,
             PublishKeeps, SaveKeeps, DeliverRefreshKeeps DEF RuntimeStep
<1>4. CASE MutationStep
  BY <1>4, InvalidateConnectionKeeps, PersistInvalidatedKeeps, CommitKeeps, InvalidateKeeps,
     DeliverMutationKeeps DEF MutationStep
<1>5. CASE Release \/ OtherYach \/ StartupCheck
  BY <1>5, OutsideStepsKeep
<1>6. CASE \E id \in Conns : read_credential(id)
  BY <1>6, ReadCredentialKeeps
<1>7. CASE UNCHANGED refreshVars
  BY <1>7 DEF refreshVars, RefreshInv, RefreshTypes, ViewIsCurrent, Resolved, StampsAreTrue,
     RefreshIsHonest, NothingOlderIsOffered, ForcedIsKept, StampedAsRequested
<1> QED BY <1>1, <1>2, <1>3, <1>4, <1>5, <1>6, <1>7 DEF RefreshNext

\* Whatever requests, refreshes, mutations and releases overlap, neither the
\* runtime's snapshot nor the catalog the picker offers is older than the last
\* invalidation of a mutation that has succeeded, a forced refresh is not lost to
\* the requests that follow it, and rows and catalogs carry the client version they
\* were listed with (runner.rs:650, provider_connections.rs:1168 and 1662,
\* model_discovery_cache.rs:158).
THEOREM OffersAreHonest == RefreshSpec => []RefreshIsHonest
<1>1. RefreshInit => RefreshInv
  BY RefreshAssumption, InitRefresh
<1>2. RefreshInv /\ [RefreshNext]_refreshVars => RefreshInv'
  BY RefreshAssumption, NextRefresh
<1>3. RefreshInv => RefreshIsHonest
  BY DEF RefreshInv
<1> QED BY <1>1, <1>2, <1>3, PTL DEF RefreshSpec
=============================================================================
