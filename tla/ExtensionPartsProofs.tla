------------------------- MODULE ExtensionPartsProofs -------------------------
(***************************************************************************)
(* The proofs about the two parts the extension host is made of: the       *)
(* authority store and the sessions of the host processes.                 *)
(***************************************************************************)
EXTENDS AuthorityStore, HostSession, SequenceTheorems, FiniteSetTheorems, TLAPS

-----------------------------------------------------------------------------
(***************************************************************************)
(* Machine-checked theorems about AuthorityStore, for every set of writers *)
(* and of capabilities and for all bounds: what the store tells a caller   *)
(* stays true, and the document implements AuthorityLog.                   *)
(***************************************************************************)

-----------------------------------------------------------------------------
(***************************************************************************)
(* The inductive invariant.                                                *)
(***************************************************************************)

(* The document found at the start is not of the versioned format. *)
OriginOld ==
    /\ origin.shape # "versioned" /\ origin.history = <<>>
    /\ origin.shape = "damaged" => origin = Damaged

(* Mutual exclusion: a writer past the lock holds it. *)
Inside == {"locked", "loaded", "staged", "renamed"}
LockHeld == \A w \in Writers : pc[w] \in Inside => holder = w

(* The operation of a writer under way is of its own, and is in no document *)
(* and in no report until its rename.                                       *)
Fresh(w) ==
    /\ job[w].op \in 1..ops /\ job[w].op \notin acked /\ job[w].op \notin refused
    /\ pc[w] # "renamed" => job[w].op \notin OpsOf(visible) \cup OpsOf(durable)
    /\ \A v \in Writers : v # w /\ pc[v] # "idle" => job[v].op # job[w].op
JobsFresh == \A w \in Writers : pc[w] # "idle" => Fresh(w)

(* What a writer computed under the lock is still one decision more than   *)
(* the document, and after the rename it is the last one of it.            *)
NextCurrent ==
    \A w \in Writers :
        /\ pc[w] \in {"loaded", "staged"} =>
              /\ Loads(visible) /\ next[w] = Decided(visible, job[w])
              /\ ValidDocument(next[w])
        /\ pc[w] = "renamed" => job[w].op \in OpsOf(visible)

(* Only operations that were begun are named anywhere. *)
OpsKnown ==
    /\ OpsOf(visible) \cup OpsOf(durable) \subseteq 1..ops
    /\ acked \subseteq 1..ops /\ unsynced \subseteq 1..ops /\ refused \subseteq 1..ops

(* A document is the one found at the start, or a valid versioned one.     *)
DocsSound == \A d \in {visible, durable} :
                 d = origin \/ (d.shape = "versioned" /\ ValidDocument(d))

(* What a power loss would leave is an earlier state of the document.      *)
DurableIsEarlier ==
    /\ Len(durable.history) <= Len(visible.history)
    /\ \A i \in 1..Len(durable.history) : durable.history[i] = visible.history[i]

StoreInv ==
    /\ TypeOK /\ OriginOld /\ LockHeld /\ JobsFresh /\ NextCurrent /\ OpsKnown
    /\ DocsSound /\ DurableIsEarlier /\ DecisionsStick

-----------------------------------------------------------------------------
(***************************************************************************)
(* Documents and what a decision does to one.                              *)
(***************************************************************************)

\* grant_requested and revoke_grant: one entry more, on the authority in force.
LEMMA DecidedDocument ==
    ASSUME NEW d \in Docs, NEW j \in Jobs, j.op \in OpIds,
           d.shape # "versioned" => d.history = <<>>
    PROVE  LET e == [op |-> j.op, before |-> d.current, after |-> j.after] IN
           /\ e \in Entries
           /\ Decided(d, j) = Doc("versioned", j.after,
                                  IF d.shape = "versioned" THEN d.baseline ELSE d.current,
                                  Append(d.history, e))
           /\ Decided(d, j) \in Docs
  <1> DEFINE e == [op |-> j.op, before |-> d.current, after |-> j.after]
             b == IF d.shape = "versioned" THEN d.baseline ELSE d.current
  <1>1. e \in Entries
    BY DEF Docs, Jobs, Entries
  <1>2. Decided(d, j) = Doc("versioned", j.after, b, Append(d.history, e))
    BY DEF Decided, IntoVersioned, Doc
  <1>3. Append(d.history, e) \in Seq(Entries)
    BY <1>1 DEF Docs
  <1>4. Decided(d, j) \in Docs
    BY <1>2, <1>3 DEF Docs, Doc, Jobs
  <1> QED
    BY <1>1, <1>2, <1>4

\* The operations of a document after one entry more.
LEMMA OpsAppend ==
    ASSUME NEW d \in Docs, NEW e \in Entries, NEW s, NEW c, NEW b
    PROVE  OpsOf(Doc(s, c, b, Append(d.history, e))) = OpsOf(d) \cup {e.op}
  <1> DEFINE h == Append(d.history, e)
  <1>1. d.history \in Seq(Entries)
    BY DEF Docs
  <1>2. Len(h) = Len(d.history) + 1 /\ Len(d.history) \in Nat
    BY <1>1
  <1>3. \A i \in 1..Len(d.history) : h[i] = d.history[i]
    BY <1>1
  <1>4. h[Len(d.history) + 1] = e
    BY <1>1
  <1>5. OpsOf(Doc(s, c, b, h)) = {h[i].op : i \in 1..Len(h)}
    BY DEF OpsOf, Doc
  <1>6. {h[i].op : i \in 1..Len(h)}
          = {d.history[i].op : i \in 1..Len(d.history)} \cup {e.op}
    <2> HIDE DEF h
    <2> QED
      BY <1>2, <1>3, <1>4
  <1> QED
    BY <1>5, <1>6 DEF OpsOf

-----------------------------------------------------------------------------
(***************************************************************************)
(* Every step keeps the invariant.                                         *)
(***************************************************************************)

\* Before any writer has begun, the first document holds everything there is.
LEMMA InitInv == Init => StoreInv
  <1> SUFFICES ASSUME Init PROVE StoreInv
    OBVIOUS
  <1> USE DEF Init
  <1>1. origin \in Docs /\ origin.shape # "versioned" /\ origin.history = <<>>
        /\ (origin.shape = "damaged" => origin = Damaged)
    <2>1. Missing \in Docs /\ Damaged \in Docs /\ \A g \in Grants : Legacy(g) \in Docs
      BY DEF Missing, Damaged, Legacy, Doc, Docs, Authority
    <2>2. CASE origin \in {Missing, Damaged}
      BY <2>1, <2>2 DEF Missing, Damaged, Doc
    <2>3. CASE \E g \in Grants : origin = Legacy(g)
      BY <2>1, <2>3 DEF Legacy, Doc
    <2> QED
      BY <2>2, <2>3
  <1>2. OpsOf(origin) = {}
    BY <1>1 DEF OpsOf
  <1>3. TypeOK
    <2>1. Missing \in Docs
      BY DEF Missing, Doc, Docs, Authority
    <2>2. NoJob \in Jobs
      BY StoreAssumption DEF NoJob, Jobs, Authority
    <2> QED
      BY <1>1, <2>1, <2>2, StoreAssumption DEF TypeOK
  <1>4. OriginOld /\ DocsSound
    BY <1>1 DEF OriginOld, DocsSound
  <1>5. LockHeld /\ JobsFresh /\ NextCurrent
    BY DEF LockHeld, JobsFresh, NextCurrent, Inside
  <1>6. OpsKnown /\ DecisionsStick
    BY <1>2 DEF OpsKnown, DecisionsStick, AckedSurvives, RefusedNotRecorded, OriginKept
  <1>7. DurableIsEarlier
    BY <1>1 DEF DurableIsEarlier
  <1> QED
    BY <1>3, <1>4, <1>5, <1>6, <1>7 DEF StoreInv

\* A step that leaves documents and reports alone.
LEMMA QuietStep ==
    ASSUME StoreInv, UNCHANGED <<origin, visible, durable, acked, unsynced, refused, losses>>,
           ops' \in Nat, ops' >= ops
    PROVE  OriginOld' /\ DocsSound' /\ DurableIsEarlier' /\ DecisionsStick' /\ OpsKnown'
  <1>1. OriginOld' /\ DocsSound' /\ DurableIsEarlier' /\ DecisionsStick'
    BY DEF StoreInv, OriginOld, DocsSound, DurableIsEarlier, DecisionsStick,
           AckedSurvives, RefusedNotRecorded, OriginKept, OpsOf, ValidDocument, Before
  <1>2. OpsKnown'
    BY DEF StoreInv, OpsKnown, OpsOf, TypeOK
  <1> QED
    BY <1>1, <1>2

\* A caller of grant_requested or revoke_grant begins with an id nobody has used.
LEMMA BeginInv ==
    ASSUME StoreInv, NEW w \in Writers, Begin(w)
    PROVE  StoreInv'
  <1> USE StoreAssumption
  <1> PICK a \in Authority : job' = [job EXCEPT ![w] = [op |-> ops + 1, after |-> a]]
    BY DEF Begin
  <1>1. ops + 1 \in OpIds /\ ops' = ops + 1 /\ ops \in Nat
    BY DEF Begin, StoreInv, TypeOK, OpIds
  <1>2. TypeOK'
    <2>1. [op |-> ops + 1, after |-> a] \in Jobs
      BY <1>1 DEF Jobs, OpIds
    <2> QED
      BY <1>1, <2>1 DEF StoreInv, TypeOK, Begin, Goto, OpIds
  <1>3. LockHeld'
    BY DEF StoreInv, TypeOK, LockHeld, Begin, Goto, Inside
  <1>4. JobsFresh'
    <2> SUFFICES ASSUME NEW u \in Writers, pc'[u] # "idle"
                 PROVE  Fresh(u)'
      BY DEF JobsFresh
    <2>1. \A v \in Writers : v # w => job'[v] = job[v] /\ pc'[v] = pc[v]
      BY DEF StoreInv, TypeOK, Begin, Goto
    <2>2. job'[w].op = ops + 1 /\ pc'[w] = "opening"
      BY DEF StoreInv, TypeOK, Begin, Goto
    <2>3. \A v \in Writers : v # w /\ pc[v] # "idle" => job[v].op \in 1..ops
      BY DEF StoreInv, JobsFresh, Fresh
    <2>4. ops + 1 \notin acked \cup refused \cup OpsOf(visible) \cup OpsOf(durable)
      BY <1>1 DEF StoreInv, OpsKnown
    <2>5. UNCHANGED <<visible, durable, acked, refused>>
      BY DEF Begin
    <2>6. CASE u = w
      <3>1. job'[w].op \in 1..ops'
        BY <1>1, <2>2
      <3>2. \A v \in Writers : v # w /\ pc'[v] # "idle" => job'[v].op # job'[w].op
        BY <1>1, <2>1, <2>2, <2>3
      <3> QED
        BY <2>2, <2>4, <2>5, <2>6, <3>1, <3>2 DEF Fresh, OpsOf
    <2>7. CASE u # w
      <3>1. Fresh(u) /\ pc[u] # "idle"
        BY <2>1, <2>7 DEF StoreInv, JobsFresh
      <3>2. job'[u].op \in 1..ops' /\ job'[u].op # ops + 1
        BY <1>1, <2>1, <2>7, <3>1 DEF Fresh
      <3>3. \A v \in Writers : v # u /\ pc'[v] # "idle" => job'[v].op # job'[u].op
        BY <2>1, <2>2, <2>7, <3>1, <3>2 DEF Fresh
      <3> QED
        BY <2>1, <2>5, <2>7, <3>1, <3>2, <3>3 DEF Fresh, OpsOf
    <2> QED
      BY <2>6, <2>7
  <1>5. NextCurrent'
    BY DEF StoreInv, TypeOK, NextCurrent, Begin, Goto, OpsOf
  <1>6. OriginOld' /\ DocsSound' /\ DurableIsEarlier' /\ DecisionsStick' /\ OpsKnown'
    BY <1>1, QuietStep DEF Begin
  <1> QED
    BY <1>2, <1>3, <1>4, <1>5, <1>6 DEF StoreInv

\* A writer that goes from one place to another, and changes no document and no
\* report: its own operation, and the others', stay as fresh as they were.
LEMMA MoveFresh ==
    ASSUME StoreInv, NEW w \in Writers, NEW l \in {"idle", "waiting", "locked", "loaded", "staged"},
           Goto(w, l), l # "idle" => pc[w] \notin {"idle", "renamed"},
           UNCHANGED <<visible, durable, job, ops, acked, refused>>
    PROVE  JobsFresh'
  <1> SUFFICES ASSUME NEW u \in Writers, pc'[u] # "idle"
               PROVE  Fresh(u)'
    BY DEF JobsFresh
  <1>1. \A v \in Writers : pc'[v] # "idle" => pc[v] # "idle"
    BY DEF StoreInv, TypeOK, Goto
  <1>2. pc'[u] # "renamed" => pc[u] # "renamed"
    BY DEF StoreInv, TypeOK, Goto
  <1>3. Fresh(u)
    BY <1>1 DEF StoreInv, JobsFresh
  <1> QED
    BY <1>1, <1>2, <1>3 DEF Fresh, OpsOf

\* The same for what the writers inside the lock have computed.
LEMMA MoveNext ==
    ASSUME StoreInv, NEW w \in Writers, NEW l \in {"idle", "waiting", "locked", "staged"},
           Goto(w, l), l = "staged" => pc[w] = "loaded",
           UNCHANGED <<visible, job, next>>
    PROVE  NextCurrent'
  <1> SUFFICES ASSUME NEW u \in Writers
               PROVE  /\ pc'[u] \in {"loaded", "staged"} =>
                            /\ Loads(visible) /\ next[u] = Decided(visible, job[u])
                            /\ ValidDocument(next[u])
                      /\ pc'[u] = "renamed" => job[u].op \in OpsOf(visible)
    BY DEF NextCurrent
  <1>1. pc'[u] \in {"loaded", "staged"} => pc[u] \in {"loaded", "staged"}
    BY DEF StoreInv, TypeOK, Goto
  <1>2. pc'[u] = "renamed" => pc[u] = "renamed"
    BY DEF StoreInv, TypeOK, Goto
  <1> QED
    BY <1>1, <1>2 DEF StoreInv, NextCurrent

\* Leaving: the lock goes with the writer.
LEMMA LeaveLock ==
    ASSUME StoreInv, NEW w \in Writers, Goto(w, "idle"), Release(w)
    PROVE  LockHeld' /\ holder' \in Writers \cup {NoOne}
  <1>1. holder' \in Writers \cup {NoOne}
    BY DEF StoreInv, TypeOK, Release
  <1>2. ASSUME NEW u \in Writers, pc'[u] \in Inside
        PROVE  holder' = u
    <2>1. u # w /\ pc[u] \in Inside
      BY <1>2 DEF StoreInv, TypeOK, Goto, Inside
    <2>2. holder = u
      BY <2>1 DEF StoreInv, LockHeld
    <2> QED
      BY <2>1, <2>2 DEF Release
  <1> QED
    BY <1>1, <1>2 DEF LockHeld

\* with_operation's early returns: the writer leaves as it came.
LEMMA RefuseInv ==
    ASSUME StoreInv, NEW w \in Writers, Refuse(w), pc[w] \notin {"idle", "renamed"}
    PROVE  StoreInv'
  <1>1. Fresh(w)
    BY DEF StoreInv, JobsFresh
  <1>2. job[w].op \in OpIds /\ ops \in Nat
    BY <1>1, StoreAssumption DEF StoreInv, TypeOK, Fresh, OpIds
  <1>3. TypeOK'
    BY <1>2, LeaveLock DEF StoreInv, TypeOK, Refuse, Goto
  <1>4. LockHeld'
    BY LeaveLock DEF Refuse
  <1>5. JobsFresh'
    <2> SUFFICES ASSUME NEW u \in Writers, pc'[u] # "idle"
                 PROVE  Fresh(u)'
      BY DEF JobsFresh
    <2>1. u # w /\ pc'[u] = pc[u]
      BY DEF StoreInv, TypeOK, Refuse, Goto
    <2>2. Fresh(u)
      BY <2>1 DEF StoreInv, JobsFresh
    <2>3. job[u].op # job[w].op
      BY <2>1, <2>2 DEF Fresh
    <2>4. \A v \in Writers : pc'[v] # "idle" => pc[v] # "idle"
      BY DEF StoreInv, TypeOK, Refuse, Goto
    <2> QED
      BY <2>1, <2>2, <2>3, <2>4 DEF Fresh, OpsOf, Refuse
  <1>6. NextCurrent'
    BY MoveNext DEF Refuse
  <1>7. OriginOld' /\ DocsSound' /\ DurableIsEarlier'
    BY DEF StoreInv, OriginOld, DocsSound, DurableIsEarlier, Refuse, ValidDocument, Before
  <1>8. OpsKnown'
    BY <1>1 DEF StoreInv, OpsKnown, OpsOf, Refuse, Fresh
  <1>9. DecisionsStick'
    <2>1. job[w].op \notin OpsOf(visible) \cup OpsOf(durable)
      BY <1>1 DEF Fresh
    <2> QED
      BY <2>1 DEF StoreInv, DecisionsStick, AckedSurvives, RefusedNotRecorded, OriginKept,
                  OpsOf, Refuse
  <1> QED
    BY <1>3, <1>4, <1>5, <1>6, <1>7, <1>8, <1>9 DEF StoreInv

\* The visible document becomes durable: all that was known of it holds of both.
LEMMA DurableStep ==
    ASSUME StoreInv, durable' = visible, UNCHANGED <<origin, visible, ops>>,
           UNCHANGED <<refused, unsynced, losses>>,
           acked' \subseteq acked \cup OpsOf(visible)
    PROVE  OriginOld' /\ DocsSound' /\ DurableIsEarlier' /\ DecisionsStick' /\ OpsKnown'
  <1>1. OpsOf(durable) \subseteq OpsOf(visible)
    <2>1. visible.history \in Seq(Entries) /\ durable.history \in Seq(Entries)
      BY DEF StoreInv, TypeOK, Docs
    <2> QED
      BY <2>1 DEF StoreInv, DurableIsEarlier, OpsOf
  <1>2. OriginOld' /\ DocsSound'
    BY DEF StoreInv, OriginOld, DocsSound, ValidDocument, Before
  <1>3. DurableIsEarlier'
    <2>1. visible.history \in Seq(Entries)
      BY DEF StoreInv, TypeOK, Docs
    <2> QED
      BY <2>1 DEF DurableIsEarlier
  <1>4. DecisionsStick'
    BY <1>1 DEF StoreInv, DecisionsStick, AckedSurvives, RefusedNotRecorded, OriginKept,
                OpsOf
  <1>5. OpsKnown'
    BY DEF StoreInv, OpsKnown, OpsOf
  <1> QED
    BY <1>2, <1>3, <1>4, <1>5

\* The kernel may write the renamed document back at any time.
LEMMA FlushInv == StoreInv /\ Flush => StoreInv'
  <1> SUFFICES ASSUME StoreInv, Flush PROVE StoreInv'
    OBVIOUS
  <1>1. TypeOK' /\ LockHeld'
    BY DEF StoreInv, TypeOK, LockHeld, Flush, Inside
  <1>2. NextCurrent'
    <2>1. visible' = visible /\ pc' = pc /\ job' = job /\ next' = next
      BY DEF Flush
    <2> QED BY <2>1 DEF StoreInv, NextCurrent
  <1>3. JobsFresh'
    <2>1. \A w \in Writers : Fresh(w) => Fresh(w)'
      BY DEF Fresh, Flush, OpsOf
    <2> QED
      BY <2>1 DEF StoreInv, JobsFresh, Flush
  <1>4. OriginOld' /\ DocsSound' /\ DurableIsEarlier' /\ DecisionsStick' /\ OpsKnown'
    BY DurableStep DEF Flush
  <1> QED
    BY <1>1, <1>2, <1>3, <1>4 DEF StoreInv

\* with_operation creates the state directory before it locks.
LEMMA PrepareInv ==
    ASSUME StoreInv, NEW w \in Writers, Prepare(w)
    PROVE  StoreInv'
  <1>1. CASE Refuse(w)
    BY <1>1, RefuseInv DEF Prepare
  <1>2. CASE ~Refuse(w)
    <2>1. /\ Goto(w, "waiting") /\ durable' \in {visible, durable} /\ pc[w] = "opening"
          /\ UNCHANGED <<origin, visible, holder, job, next, ops, acked, unsynced,
                         refused, losses>>
      BY <1>2 DEF Prepare, DirectorySynced
    <2>2. TypeOK' /\ LockHeld'
      BY <2>1 DEF StoreInv, TypeOK, LockHeld, Goto, Inside
    <2>3. JobsFresh'
      <3> SUFFICES ASSUME NEW u \in Writers, pc'[u] # "idle"
                   PROVE  Fresh(u)'
        BY DEF JobsFresh
      <3>1. \A v \in Writers : pc'[v] # "idle" => pc[v] # "idle"
        BY <2>1 DEF StoreInv, TypeOK, Goto
      <3>2. pc'[u] # "renamed" => pc[u] # "renamed"
        BY <2>1 DEF StoreInv, TypeOK, Goto
      <3>3. Fresh(u)
        BY <3>1 DEF StoreInv, JobsFresh
      <3> QED
        BY <2>1, <3>1, <3>2, <3>3 DEF Fresh, OpsOf
    <2>4. NextCurrent'
      BY <2>1, MoveNext
    <2>5. OriginOld' /\ DocsSound' /\ DurableIsEarlier' /\ DecisionsStick' /\ OpsKnown'
      <3>1. CASE durable' = visible
        BY <2>1, <3>1, DurableStep
      <3>2. CASE durable' = durable
        BY <2>1, <3>2, QuietStep DEF StoreInv, TypeOK
      <3> QED
        BY <2>1, <3>1, <3>2
    <2> QED
      BY <2>2, <2>3, <2>4, <2>5 DEF StoreInv
  <1> QED
    BY <1>1, <1>2

\* flock lets a writer in only when nobody is inside.
LEMMA LockInv ==
    ASSUME StoreInv, NEW w \in Writers, Lock(w)
    PROVE  StoreInv'
  <1>1. TypeOK'
    BY DEF StoreInv, TypeOK, Lock, Goto
  <1>2. LockHeld'
    <2>1. \A u \in Writers : pc[u] \notin Inside
      BY NoOneAssumption DEF StoreInv, LockHeld, Lock
    <2> QED
      BY <2>1 DEF StoreInv, TypeOK, LockHeld, Lock, Goto, Inside
  <1>3. JobsFresh'
    BY MoveFresh DEF Lock
  <1>4. NextCurrent'
    BY MoveNext DEF Lock
  <1>5. OriginOld' /\ DocsSound' /\ DurableIsEarlier' /\ DecisionsStick' /\ OpsKnown'
    BY QuietStep DEF Lock, StoreInv, TypeOK
  <1> QED
    BY <1>1, <1>2, <1>3, <1>4, <1>5 DEF StoreInv

\* A writer that dies lets go of the lock and leaves the document.
LEMMA DieInv ==
    ASSUME StoreInv, NEW w \in Writers, Die(w)
    PROVE  StoreInv'
  <1>1. TypeOK' /\ LockHeld'
    BY LeaveLock DEF StoreInv, TypeOK, Die, Goto
  <1>2. JobsFresh'
    BY MoveFresh DEF Die
  <1>3. NextCurrent'
    BY MoveNext DEF Die
  <1>4. OriginOld' /\ DocsSound' /\ DurableIsEarlier' /\ DecisionsStick' /\ OpsKnown'
    BY QuietStep DEF Die, StoreInv, TypeOK
  <1> QED
    BY <1>1, <1>2, <1>3, <1>4 DEF StoreInv

\* What a document gets from the decision of a writer under way.
LEMMA DecidedNow ==
    ASSUME StoreInv, NEW w \in Writers, pc[w] # "idle"
    PROVE  /\ job[w] \in Jobs /\ job[w].op \in OpIds
           /\ visible \in Docs /\ (visible.shape # "versioned" => visible.history = <<>>)
           /\ Decided(visible, job[w]) \in Docs
  <1>1. job[w] \in Jobs /\ job[w].op \in OpIds /\ visible \in Docs
    BY StoreAssumption DEF StoreInv, TypeOK, JobsFresh, Fresh, OpIds
  <1>2. visible.shape # "versioned" => visible.history = <<>>
    BY DEF StoreInv, DocsSound, OriginOld
  <1> QED
    BY <1>1, <1>2, DecidedDocument

\* Under the lock, the writer computes one decision more than what it has read.
LEMMA LoadInv ==
    ASSUME StoreInv, NEW w \in Writers, Load(w)
    PROVE  StoreInv'
  <1>1. CASE Refuse(w)
    BY <1>1, RefuseInv DEF Load
  <1>2. CASE ~Refuse(w)
    <2>1. /\ pc[w] = "locked" /\ Goto(w, "loaded")
          /\ Loads(visible) /\ ValidDocument(Decided(visible, job[w]))
          /\ next' = [next EXCEPT ![w] = Decided(visible, job[w])]
          /\ UNCHANGED <<origin, visible, durable, holder, job, ops, acked, unsynced,
                         refused, losses>>
      BY <1>2 DEF Load
    <2>2. TypeOK'
      BY <2>1, DecidedNow DEF StoreInv, TypeOK, Goto
    <2>3. LockHeld'
      BY <2>1 DEF StoreInv, TypeOK, LockHeld, Goto, Inside
    <2>4. JobsFresh'
      BY <2>1, MoveFresh
    <2>5. NextCurrent'
      <3> SUFFICES ASSUME NEW u \in Writers
                   PROVE  /\ pc'[u] \in {"loaded", "staged"} =>
                                /\ Loads(visible) /\ next'[u] = Decided(visible, job[u])
                                /\ ValidDocument(next'[u])
                          /\ pc'[u] = "renamed" => job[u].op \in OpsOf(visible)
        BY <2>1 DEF NextCurrent
      <3>1. CASE u = w
        BY <2>1, <3>1 DEF StoreInv, TypeOK, Goto
      <3>2. CASE u # w
        BY <2>1, <3>2 DEF StoreInv, TypeOK, Goto, NextCurrent
      <3> QED
        BY <3>1, <3>2
    <2>6. OriginOld' /\ DocsSound' /\ DurableIsEarlier' /\ DecisionsStick' /\ OpsKnown'
      BY <2>1, QuietStep DEF StoreInv, TypeOK
    <2> QED
      BY <2>2, <2>3, <2>4, <2>5, <2>6 DEF StoreInv
  <1> QED
    BY <1>1, <1>2

\* The temporary file is not the document.
LEMMA StageInv ==
    ASSUME StoreInv, NEW w \in Writers, Stage(w)
    PROVE  StoreInv'
  <1>1. CASE Refuse(w)
    BY <1>1, RefuseInv DEF Stage
  <1>2. CASE ~Refuse(w)
    <2>1. /\ pc[w] = "loaded" /\ Goto(w, "staged")
          /\ UNCHANGED <<origin, visible, durable, holder, job, next, ops, acked, unsynced,
                         refused, losses>>
      BY <1>2 DEF Stage
    <2>2. TypeOK' /\ LockHeld'
      BY <2>1 DEF StoreInv, TypeOK, LockHeld, Goto, Inside
    <2>3. JobsFresh'
      BY <2>1, MoveFresh
    <2>4. NextCurrent'
      BY <2>1, MoveNext
    <2>5. OriginOld' /\ DocsSound' /\ DurableIsEarlier' /\ DecisionsStick' /\ OpsKnown'
      BY <2>1, QuietStep DEF StoreInv, TypeOK
    <2> QED
      BY <2>2, <2>3, <2>4, <2>5 DEF StoreInv
  <1> QED
    BY <1>1, <1>2

\* A directory sync that was done is reported, and one that is not supported.
LEMMA SyncInv ==
    ASSUME StoreInv, NEW w \in Writers, Sync(w)
    PROVE  StoreInv'
  <1>1. /\ pc[w] = "renamed" /\ Goto(w, "idle") /\ Release(w)
        /\ \/ /\ durable' = visible /\ acked' = acked \cup {job[w].op}
              /\ UNCHANGED unsynced
           \/ /\ unsynced' = unsynced \cup {job[w].op}
              /\ UNCHANGED <<durable, acked>>
           \/ UNCHANGED <<durable, acked, unsynced>>
        /\ UNCHANGED <<origin, visible, job, next, ops, refused, losses>>
    BY DEF Sync
  <1>2. job[w].op \in OpIds /\ job[w].op \in OpsOf(visible) /\ Fresh(w)
    BY <1>1, DecidedNow DEF StoreInv, NextCurrent, JobsFresh
  <1>3. TypeOK' /\ LockHeld'
    BY <1>1, <1>2, LeaveLock DEF StoreInv, TypeOK, Goto
  <1>4. JobsFresh'
    <2> SUFFICES ASSUME NEW u \in Writers, pc'[u] # "idle"
                 PROVE  Fresh(u)'
      BY DEF JobsFresh
    <2>1. u # w /\ pc'[u] = pc[u]
      BY <1>1 DEF StoreInv, TypeOK, Goto
    <2>2. Fresh(u) /\ job[u].op # job[w].op
      BY <1>1, <2>1 DEF StoreInv, JobsFresh, Fresh
    <2>3. \A v \in Writers : pc'[v] # "idle" => pc[v] # "idle"
      BY <1>1 DEF StoreInv, TypeOK, Goto
    <2> QED
      BY <1>1, <2>1, <2>2, <2>3 DEF Fresh
  <1>5. NextCurrent'
    BY <1>1, MoveNext
  <1>6. OriginOld' /\ DocsSound' /\ DurableIsEarlier' /\ DecisionsStick' /\ OpsKnown'
    <2>1. CASE durable' = visible /\ acked' = acked \cup {job[w].op} /\ UNCHANGED unsynced
      BY <1>1, <1>2, <2>1, DurableStep
    <2>2. CASE UNCHANGED <<durable, acked, unsynced>>
      BY <1>1, <2>2, QuietStep DEF StoreInv, TypeOK
    <2>3. CASE unsynced' = unsynced \cup {job[w].op} /\ UNCHANGED <<durable, acked>>
      <3>1. OriginOld' /\ DocsSound' /\ DurableIsEarlier'
        BY <1>1, <2>3 DEF StoreInv, OriginOld, DocsSound, DurableIsEarlier, ValidDocument,
                          Before
      <3>2. OpsKnown'
        BY <1>1, <1>2, <2>3 DEF StoreInv, OpsKnown, OpsOf, Fresh
      <3>3. DecisionsStick'
        BY <1>1, <1>2, <2>3 DEF StoreInv, DecisionsStick, AckedSurvives,
                                RefusedNotRecorded, OriginKept, OpsOf
      <3> QED
        BY <3>1, <3>2, <3>3
    <2> QED
      BY <1>1, <2>1, <2>2, <2>3
  <1> QED
    BY <1>3, <1>4, <1>5, <1>6 DEF StoreInv

\* What is durable is an earlier document that has all that was reported.
LEMMA PowerLossInv == StoreInv /\ PowerLoss => StoreInv'
  <1> SUFFICES ASSUME StoreInv, PowerLoss PROVE StoreInv'
    OBVIOUS
  <1> USE DEF PowerLoss
  <1>1. TypeOK'
    BY StoreAssumption DEF StoreInv, TypeOK
  <1>2. LockHeld' /\ JobsFresh' /\ NextCurrent'
    BY DEF LockHeld, JobsFresh, NextCurrent, Inside
  <1>3. OriginOld' /\ DocsSound'
    BY DEF StoreInv, OriginOld, DocsSound
  <1>4. OpsKnown' /\ DecisionsStick'
    <2>1. losses' # 0
      BY DEF StoreInv, TypeOK
    <2> QED
      BY <2>1 DEF StoreInv, OpsKnown, DecisionsStick, AckedSurvives, RefusedNotRecorded,
                  OriginKept
  <1>5. DurableIsEarlier'
    <2>1. durable.history \in Seq(Entries)
      BY DEF StoreInv, TypeOK, Docs
    <2> QED
      BY <2>1 DEF DurableIsEarlier
  <1> QED
    BY <1>1, <1>2, <1>3, <1>4, <1>5 DEF StoreInv

\* The rename makes the staged document the visible one.
LEMMA RenameInv ==
    ASSUME StoreInv, NEW w \in Writers, Rename(w)
    PROVE  StoreInv'
  <1>1. CASE Refuse(w)
    BY <1>1, RefuseInv DEF Rename
  <1>2. CASE ~Refuse(w)
    <2> DEFINE e == [op |-> job[w].op, before |-> visible.current, after |-> job[w].after]
               b == IF visible.shape = "versioned" THEN visible.baseline ELSE visible.current
    <2>1. /\ pc[w] = "staged" /\ Goto(w, "renamed") /\ visible' = next[w]
          /\ UNCHANGED <<origin, durable, holder, job, next, ops, acked, unsynced,
                         refused, losses>>
      BY <1>2 DEF Rename
    <2>2. Fresh(w) /\ Loads(visible) /\ ValidDocument(visible')
          /\ visible' = Decided(visible, job[w]) /\ visible' \in Docs
      BY <2>1, DecidedNow DEF StoreInv, JobsFresh, NextCurrent
    <2>3. e \in Entries
          /\ visible' = Doc("versioned", job[w].after, b, Append(visible.history, e))
      BY <2>1, <2>2, DecidedNow, DecidedDocument
    <2>4. OpsOf(visible') = OpsOf(visible) \cup {job[w].op}
      BY <2>1, <2>3, OpsAppend, DecidedNow
    <2>5. TypeOK' /\ LockHeld'
      BY <2>1, <2>2 DEF StoreInv, TypeOK, LockHeld, Goto, Inside
    <2>6. \A u \in Writers : u # w => pc[u] \notin Inside
      BY <2>1 DEF StoreInv, LockHeld, Inside
    <2>7. JobsFresh'
      <3> SUFFICES ASSUME NEW u \in Writers, pc'[u] # "idle"
                   PROVE  Fresh(u)'
        BY DEF JobsFresh
      <3>1. \A v \in Writers : pc'[v] # "idle" => pc[v] # "idle"
        BY <2>1 DEF StoreInv, TypeOK, Goto
      <3>2. Fresh(u)
        BY <3>1 DEF StoreInv, JobsFresh
      <3>3. CASE u = w
        BY <2>1, <3>1, <3>2, <3>3 DEF Fresh, StoreInv, TypeOK, Goto
      <3>4. CASE u # w
        <4>1. job[u].op # job[w].op
          BY <2>1, <3>2, <3>4 DEF Fresh
        <4>2. pc'[u] = pc[u]
          BY <2>1, <3>4 DEF StoreInv, TypeOK, Goto
        <4> QED
          BY <2>1, <2>4, <3>1, <3>2, <4>1, <4>2 DEF Fresh
      <3> QED
        BY <3>3, <3>4
    <2>8. NextCurrent'
      <3> SUFFICES ASSUME NEW u \in Writers
                   PROVE  /\ pc'[u] \notin {"loaded", "staged"}
                          /\ pc'[u] = "renamed" => job[u].op \in OpsOf(visible')
        BY <2>1 DEF NextCurrent
      <3>1. u # w => pc'[u] = pc[u] /\ pc[u] \notin Inside
        BY <2>1, <2>6 DEF StoreInv, TypeOK, Goto
      <3>2. pc'[w] = "renamed"
        BY <2>1 DEF StoreInv, TypeOK, Goto
      <3> QED
        BY <2>4, <3>1, <3>2 DEF Inside
    <2>9. OriginOld' /\ DocsSound'
      BY <2>1, <2>2, <2>3 DEF StoreInv, OriginOld, DocsSound, Doc
    <2>10. OpsKnown'
      BY <2>1, <2>2, <2>4 DEF StoreInv, OpsKnown, Fresh
    <2>11. DurableIsEarlier'
      <3>1. visible.history \in Seq(Entries) /\ durable.history \in Seq(Entries)
        BY DEF StoreInv, TypeOK, Docs
      <3>2. visible'.history = Append(visible.history, e)
        BY <2>3 DEF Doc
      <3> QED
        BY <2>1, <2>3, <3>1, <3>2 DEF StoreInv, DurableIsEarlier
    <2>12. DecisionsStick'
      <3>1. AckedSurvives' /\ RefusedNotRecorded'
        BY <2>1, <2>2, <2>4 DEF StoreInv, DecisionsStick, AckedSurvives,
                                RefusedNotRecorded, Fresh
      <3>2. visible.shape # "damaged"
        BY <2>2 DEF Loads
      <3>3. origin # Damaged /\ b = origin.current
        BY <3>2 DEF StoreInv, DecisionsStick, OriginKept, OriginOld, Damaged, Doc
      <3>4. visible'.shape = "versioned" /\ visible'.baseline = b
        BY <2>3 DEF Doc
      <3>5. OriginKept'
        BY <2>1, <3>3, <3>4 DEF StoreInv, DecisionsStick, OriginKept
      <3> QED
        BY <3>1, <3>5 DEF DecisionsStick
    <2> QED
      BY <2>5, <2>7, <2>8, <2>9, <2>10, <2>11, <2>12 DEF StoreInv
  <1> QED
    BY <1>1, <1>2

\* Every step keeps the invariant.
LEMMA NextInv == StoreInv /\ [Next]_vars => StoreInv'
  <1> SUFFICES ASSUME StoreInv, [Next]_vars PROVE StoreInv'
    OBVIOUS
  <1>1. CASE UNCHANGED vars
    <2>1. \A w \in Writers : Fresh(w) => Fresh(w)'
      BY <1>1 DEF Fresh, vars
    <2>2. TypeOK' /\ OriginOld' /\ LockHeld' /\ NextCurrent' /\ OpsKnown'
      BY <1>1 DEF StoreInv, TypeOK, OriginOld, LockHeld, NextCurrent, OpsKnown, vars
    <2>3. JobsFresh'
      BY <1>1, <2>1 DEF StoreInv, JobsFresh, vars
    <2>4. DocsSound' /\ DurableIsEarlier' /\ DecisionsStick'
      BY <1>1, QuietStep DEF vars, StoreInv, TypeOK
    <2> QED
      BY <2>2, <2>3, <2>4 DEF StoreInv
  <1>2. CASE \E w \in Writers : Begin(w) \/ Step(w) \/ LockFails(w) \/ Die(w)
    <2> PICK w \in Writers : Begin(w) \/ Step(w) \/ LockFails(w) \/ Die(w)
      BY <1>2
    <2>1. LockFails(w) => StoreInv'
      BY RefuseInv DEF LockFails
    <2> QED
      BY <2>1, BeginInv, PrepareInv, LockInv, LoadInv, StageInv, RenameInv, SyncInv, DieInv
         DEF Step
  <1>3. CASE Flush \/ PowerLoss
    BY <1>3, FlushInv, PowerLossInv
  <1> QED
    BY <1>1, <1>2, <1>3 DEF Next

-----------------------------------------------------------------------------
(***************************************************************************)
(* The theorems.                                                           *)
(***************************************************************************)

\* The invariant holds in every reachable state.
LEMMA StoreInvariant == Spec => []StoreInv
  BY InitInv, NextInv, PTL DEF Spec

(* Every reachable state is well typed: the documents are documents, only  *)
(* writers hold the lock, only asked operations are reported.              *)
THEOREM TypeCorrect == Spec => []TypeOK
  <1>1. StoreInv => TypeOK
    BY DEF StoreInv
  <1> QED
    BY <1>1, StoreInvariant, PTL

(* What the store tells its caller of a decision, and what it found at the *)
(* start, stays true: for any number of writers that fail, die and lose    *)
(* power at any system call (store.rs:219-240, 472-533).                   *)
THEOREM DecisionsAreKept == Spec => []DecisionsStick
  <1>1. StoreInv => DecisionsStick
    BY DEF StoreInv
  <1> QED
    BY <1>1, StoreInvariant, PTL

-----------------------------------------------------------------------------
(***************************************************************************)
(* The refinement.                                                         *)
(***************************************************************************)

\* What the activation gate reads is what the abstract log says is in force.
LEMMA GateReads ==
    ASSUME StoreInv, NEW d \in {visible, durable}
    PROVE  /\ LoadGrant(d) = Log!After(LoadGrant(origin), d.history)
           /\ LoadGrant(d) \in Authority
           /\ Loads(d) => LoadGrant(d) = d.current
  <1>1. d \in Docs /\ d.history \in Seq(Entries) /\ d.current \in Authority
    BY DEF StoreInv, TypeOK, Docs
  <1>2. CASE d = origin
    BY <1>1, <1>2 DEF StoreInv, OriginOld, LoadGrant, Log!After, Authority
  <1>3. CASE d # origin
    <2>1. d.shape = "versioned" /\ ValidDocument(d) /\ origin # Damaged
          /\ d.baseline = origin.current
      BY <1>3 DEF StoreInv, DocsSound, DecisionsStick, OriginKept
    <2>2. LoadGrant(d) = d.current
      BY <2>1 DEF LoadGrant, Loads
    <2>3. LoadGrant(origin) = origin.current
      BY <2>1 DEF StoreInv, OriginOld, LoadGrant, Loads
    <2>4. d.history # <<>> => Len(d.history) # 0 /\ Len(d.history) \in Nat
      BY <1>1
    <2>5. d.current = Before(d, Len(d.history) + 1)
      BY <2>1 DEF ValidDocument
    <2>6. CASE d.history = <<>>
      BY <2>1, <2>2, <2>3, <2>5, <2>6, <1>1 DEF Before, Log!After
    <2>7. CASE d.history # <<>>
      BY <2>2, <2>4, <2>5, <2>7, <1>1 DEF Before, Log!After
    <2> QED
      BY <1>1, <2>2, <2>6, <2>7
  <1> QED
    BY <1>2, <1>3

\* The first document is the log before any decision.
LEMMA RefineInit == Init => Log!Init
  <1> SUFFICES ASSUME Init PROVE Log!Init
    OBVIOUS
  <1>1. StoreInv /\ visible = origin /\ acked = {}
    BY InitInv DEF Init
  <1>2. LoadGrant(visible) \in Authority /\ visible.history = <<>>
    BY <1>1, GateReads DEF StoreInv, OriginOld
  <1> QED
    BY <1>1, <1>2 DEF Log!Init, Authority

\* The rename is the decision.
LEMMA RefineRename ==
    ASSUME StoreInv, StoreInv', NEW w \in Writers, Rename(w), ~Refuse(w)
    PROVE  Log!Decide
  <1> DEFINE e == [op |-> job[w].op, before |-> visible.current, after |-> job[w].after]
             b == IF visible.shape = "versioned" THEN visible.baseline ELSE visible.current
  <1>1. pc[w] = "staged" /\ visible' = next[w] /\ UNCHANGED <<origin, acked, job>>
    BY DEF Rename
  <1>2. Fresh(w) /\ Loads(visible) /\ ValidDocument(visible')
        /\ visible' = Decided(visible, job[w])
    BY <1>1 DEF StoreInv, JobsFresh, NextCurrent
  <1>3. e \in Entries
        /\ visible' = Doc("versioned", job[w].after, b, Append(visible.history, e))
    BY <1>1, <1>2, DecidedNow, DecidedDocument
  <1>4. visible.history \in Seq(Entries)
    BY DEF StoreInv, TypeOK, Docs
  <1> DEFINE n == Len(visible.history) + 1
  <1>5. /\ visible'.history = Append(visible.history, e) /\ visible'.shape = "versioned"
        /\ visible'.current = job[w].after
    BY <1>3 DEF Doc
  <1>6. Len(visible'.history) = n /\ visible'.history[n] = e /\ n \in Nat \ {0}
    BY <1>3, <1>4, <1>5
  <1>7. SubSeq(visible'.history, 1, n - 1) = visible.history
    <2>1. \A i \in 1..(n - 1) : visible'.history[i] = visible.history[i]
      BY <1>3, <1>4, <1>5
    <2>2. \A i \in 1..(n - 1) : visible'.history[i] \in Entries
      BY <1>4, <2>1
    <2>3. /\ SubSeq(visible'.history, 1, n - 1) \in Seq(Entries)
          /\ Len(SubSeq(visible'.history, 1, n - 1)) = n - 1
          /\ \A i \in 1..(n - 1) :
                SubSeq(visible'.history, 1, n - 1)[i] = visible'.history[i]
      BY <1>6, <2>2, SubSeqProperties
    <2> QED
      BY <1>4, <1>6, <2>1, <2>3, SeqEqual
  <1>8. LoadGrant(visible) = visible.current
    BY <1>2, GateReads
  <1>9. LoadGrant(visible') = job[w].after /\ job[w].after \in Grants \cup {NoGrant}
    BY <1>1, <1>2, <1>5, DecidedNow DEF LoadGrant, Loads, Jobs, Authority
  <1>10. \A i \in 1..(n - 1) : visible.history[i].op # job[w].op
    BY <1>1, <1>2 DEF Fresh, OpsOf
  <1>11. e.before = visible.current /\ e.after = job[w].after /\ e.op = job[w].op
    OBVIOUS
  <1> HIDE DEF e, n
  <1> QED
    BY <1>1, <1>6, <1>7, <1>8, <1>9, <1>10, <1>11 DEF Log!Decide

\* The directory sync that succeeds is the report.
LEMMA RefineSync ==
    ASSUME StoreInv, NEW w \in Writers, Sync(w), durable' = visible,
           acked' = acked \cup {job[w].op}
    PROVE  Log!Report
  <1>1. job[w].op \in OpsOf(visible) /\ UNCHANGED <<origin, visible>>
    BY DEF Sync, StoreInv, NextCurrent
  <1> QED
    BY <1>1 DEF Log!Report, OpsOf

\* A power loss takes back what was not yet durable, and nothing reported.
LEMMA RefinePowerLoss ==
    ASSUME StoreInv, PowerLoss
    PROVE  Log!Forget
  <1> DEFINE v == visible.history
             n == Len(durable.history)
  <1>1. v \in Seq(Entries) /\ durable.history \in Seq(Entries) /\ n \in 0..Len(v)
    BY DEF StoreInv, TypeOK, Docs, DurableIsEarlier
  <1>2. \A i \in 1..n : durable.history[i] = v[i]
    BY DEF StoreInv, DurableIsEarlier
  <1>3. visible' = durable /\ UNCHANGED <<origin, acked>>
    BY DEF PowerLoss
  <1>4. SubSeq(v, 1, n) = durable.history
    <2>1. \A i \in 1..n : v[i] \in Entries
      BY <1>1
    <2>2. /\ SubSeq(v, 1, n) \in Seq(Entries) /\ Len(SubSeq(v, 1, n)) = n
          /\ \A i \in 1..n : SubSeq(v, 1, n)[i] = v[i]
      BY <1>1, <2>1, SubSeqProperties
    <2> QED
      BY <1>1, <1>2, <2>2, SeqEqual
  <1>5. \A i \in (n + 1)..Len(v) : v[i].op \notin acked
    <2> SUFFICES ASSUME NEW i \in (n + 1)..Len(v), v[i].op \in acked
                 PROVE  FALSE
      OBVIOUS
    <2>1. PICK k \in 1..n : durable.history[k].op = v[i].op
      BY DEF StoreInv, DecisionsStick, AckedSurvives, OpsOf
    <2>2. k \in 1..Len(v) /\ i \in 1..Len(v) /\ k # i /\ v[k].op = v[i].op
      BY <1>1, <1>2, <2>1
    <2>3. ValidDocument(visible) \/ visible = origin
      BY DEF StoreInv, DocsSound
    <2> QED
      BY <1>1, <2>2, <2>3 DEF ValidDocument, StoreInv, OriginOld
  <1>6. LoadGrant(visible)' = Log!After(LoadGrant(origin), durable.history)
    BY <1>3, GateReads
  <1> QED
    BY <1>1, <1>3, <1>4, <1>5, <1>6 DEF Log!Forget, Log!After

\* Every step is a step of the log, or leaves it alone.
LEMMA RefineNext == StoreInv /\ StoreInv' /\ [Next]_vars => [Log!Next]_(Log!vars)
  <1> SUFFICES ASSUME StoreInv, StoreInv', [Next]_vars PROVE [Log!Next]_(Log!vars)
    OBVIOUS
  <1>1. UNCHANGED <<origin, visible, acked>> => UNCHANGED Log!vars
    BY DEF Log!vars
  <1>2. ASSUME NEW w \in Writers, Rename(w)
        PROVE  [Log!Next]_(Log!vars)
    BY <1>1, <1>2, RefineRename DEF Log!Next, Refuse
  <1>3. ASSUME NEW w \in Writers, Sync(w)
        PROVE  [Log!Next]_(Log!vars)
    BY <1>1, <1>3, RefineSync DEF Log!Next, Sync
  <1>4. ASSUME NEW w \in Writers,
               Begin(w) \/ Prepare(w) \/ Lock(w) \/ Load(w) \/ Stage(w) \/ LockFails(w)
                 \/ Die(w)
        PROVE  UNCHANGED <<origin, visible, acked>>
    BY <1>4 DEF Begin, Prepare, Lock, Load, Stage, LockFails, Die, Refuse
  <1>5. CASE PowerLoss
    BY <1>5, RefinePowerLoss DEF Log!Next
  <1>6. CASE UNCHANGED vars \/ Flush
    BY <1>1, <1>6 DEF vars, Flush
  <1> QED
    BY <1>1, <1>2, <1>3, <1>4, <1>5, <1>6 DEF Next, Step

(* The document, read as the activation gate reads it, is one list of      *)
(* whole decisions: no decision of one writer is lost to another's, and a  *)
(* power loss takes back nothing that was reported after a directory sync. *)
THEOREM StoreImplementsLog == Spec => ImplementsLog
  BY RefineInit, RefineNext, StoreInvariant, PTL DEF Spec, ImplementsLog, Log!Spec

-----------------------------------------------------------------------------
(***************************************************************************)
(* Theorems about HostSession: the answers handed to calls, and what an    *)
(* extension has registered, for every number of tools, turns, calls and   *)
(* messages.                                                               *)
(*                                                                         *)
(* That an answer belongs to its call is not inductive: it depends on what *)
(* the host is working on, on lines that still wait in the two pipes and   *)
(* on the ids the turn has used.  All of these are bound to one numbering  *)
(* of the calls, f, which exists in every reachable state: f gives every   *)
(* call its request id, no two calls of a turn the same one.               *)
(***************************************************************************)

ServerMsgs == [kind : ServerKinds, id : 0..(MaxCalls + MaxAsks), ref : 0..MaxCalls,
               name : Names \cup {None}]
ClientMsgs == [kind : ClientKinds, id : 0..(MaxCalls + MaxAsks), ref : 0..MaxCalls,
               name : {None}]

(***************************************************************************)
(* The inductive invariant.                                                *)
(***************************************************************************)
ResourceIds ==
    \A k \in 1..Len(channel) : channel[k].kind = "resource" => channel[k].id \in Asks

(* Within the bounds: calls, messages read, resource ids.                  *)
WithinBounds ==
    /\ made <= MaxCalls
    /\ call.read <= MaxMessages
    /\ ResourceIds

(* Calls belong to turns that have begun, and answers to calls made.       *)
Past ==
    /\ \A r \in 1..made : madeIn[r] <= turn
    /\ \A d \in delivered : d[1] \in 1..made /\ d[2] \in 1..made

(* What the registry holds at every phase of the handshake.                *)
Registered ==
    /\ phase \in {"none", "spawned", "ready", "register"} => registry = {}
    /\ phase = "register" => kind = "tool"
    /\ phase = "review" => kind = "review"
    /\ phase \in {"review", "active"} => registry = DeclaredTools

Made(f, x) == x.ref \in 1..made /\ f[x.ref] = x.id

ChannelMade(f) ==
    \A k \in 1..Len(channel) : channel[k].kind = "result" => Made(f, channel[k])

InboxMade(f) ==
    \A k \in 1..Len(inbox) : inbox[k].kind = "invoke" => Made(f, inbox[k])

(* The numbering f: no two calls of a turn have one id, a turn has used no *)
(* id above lastId, and whatever is under way carries the id of its call.  *)
Numbered(f) ==
    /\ \A r, q \in 1..made : madeIn[r] = madeIn[q] /\ f[r] = f[q] => r = q
    /\ \A r \in 1..made : madeIn[r] = turn => f[r] <= lastId
    /\ call # NoCall => Made(f, call)
    /\ serving # Idle => Made(f, serving)
    /\ ChannelMade(f) /\ InboxMade(f)

SomeNumbering == \E f \in [Refs -> Ids] : Numbered(f)

HostInv ==
    /\ HostTypeOK /\ WithinBounds /\ Past /\ Registered /\ SomeNumbering
    /\ RightAnswerInTurn

-----------------------------------------------------------------------------
(***************************************************************************)
(* Queues.                                                                 *)
(***************************************************************************)

\* What is left of a queue, and what was at its head, was in it.
LEMMA QueueTail ==
    ASSUME NEW S, NEW s \in Seq(S), s # <<>>
    PROVE  /\ Head(s) \in S /\ Tail(s) \in Seq(S)
           /\ 1 \in 1..Len(s) /\ Head(s) = s[1]
           /\ \A k \in 1..Len(Tail(s)) : k + 1 \in 1..Len(s) /\ Tail(s)[k] = s[k + 1]
  BY HeadTailProperties, SMT

\* What is in a queue after one line more was in it, or is that line.
LEMMA QueueAppend ==
    ASSUME NEW S, NEW s \in Seq(S), NEW e \in S
    PROVE  /\ Append(s, e) \in Seq(S)
           /\ Len(Append(s, e)) = Len(s) + 1
           /\ \A k \in 1..Len(Append(s, e)) :
                 \/ k \in 1..Len(s) /\ Append(s, e)[k] = s[k]
                 \/ k = Len(s) + 1 /\ Append(s, e)[k] = e
  BY AppendProperties

\* A call is not the placeholder for none.
LEMMA CallFields ==
    ASSUME HostInv
    PROVE  /\ call # NoCall => call \in Calls
           /\ NoCall.read = 0 /\ MaxMessages > 0
  BY HostAssumption DEF HostInv, HostTypeOK, NoCall

-----------------------------------------------------------------------------
(***************************************************************************)
(* Initially, and step by step.                                            *)
(***************************************************************************)

\* Before the host is started nothing has been said, registered or called.
LEMMA SessionInitInv == HostInit => HostInv
<1> SUFFICES ASSUME HostInit PROVE HostInv
    OBVIOUS
<1>1. HostTypeOK
  <2>1. staged \in Seq(Declared) /\ channel \in Seq(ServerMsgs)
        /\ inbox \in Seq(ClientMsgs) /\ madeIn \in Seq(1..MaxTurns)
    BY EmptySeq DEF HostInit
  <2>2. serving \in [ref : 0..MaxCalls, id : 0..MaxCalls] /\ asking \in Asks
    BY HostAssumption DEF HostInit, Idle, Asks
  <2>3. turn \in 1..MaxTurns /\ lastId \in 0..MaxCalls
    BY HostAssumption DEF HostInit
  <2> QED
    BY <2>1, <2>2, <2>3 DEF HostInit, HostTypeOK, ServerMsgs, ClientMsgs
<1>2. WithinBounds /\ Past /\ Registered /\ RightAnswerInTurn
    BY HostAssumption DEF HostInit, WithinBounds, ResourceIds, Past, Registered, RightAnswerInTurn,
       made, NoCall
<1>3. SomeNumbering
  <2>1. PICK f \in [Refs -> Ids] : TRUE
    <3>1. [r \in Refs |-> r] \in [Refs -> Ids]
        BY DEF Refs, Ids
    <3> QED
        BY <3>1
  <2>2. Numbered(f)
    BY DEF HostInit, Numbered, ChannelMade, InboxMade, made
  <2> QED
    BY <2>2 DEF SomeNumbering
<1> QED
    BY <1>1, <1>2, <1>3 DEF HostInv


\* The types of the messages, as the sets named above.
LEMMA MessageTypes ==
    HostTypeOK => channel \in Seq(ServerMsgs) /\ inbox \in Seq(ClientMsgs)
  BY DEF HostTypeOK, ServerMsgs, ClientMsgs

\* The session reads a line.
LEMMA ChannelLess ==
    ASSUME HostInv, channel # <<>>, channel' = Tail(channel)
    PROVE  /\ channel' \in Seq(ServerMsgs) /\ Head(channel) \in ServerMsgs
           /\ ResourceIds'
           /\ Head(channel).kind = "resource" => Head(channel).id \in Asks
           /\ madeIn' = madeIn => \A f \in [Refs -> Ids] : Numbered(f) =>
                 /\ ChannelMade(f)'
                 /\ Head(channel).kind = "result" => Made(f, Head(channel))
<1>1. channel \in Seq(ServerMsgs)
    BY MessageTypes DEF HostInv
<1>2. /\ Head(channel) \in ServerMsgs /\ Tail(channel) \in Seq(ServerMsgs)
      /\ 1 \in 1..Len(channel) /\ Head(channel) = channel[1]
      /\ \A k \in 1..Len(Tail(channel)) :
            k + 1 \in 1..Len(channel) /\ Tail(channel)[k] = channel[k + 1]
    BY <1>1, QueueTail
<1>3. ResourceIds' /\ (Head(channel).kind = "resource" => Head(channel).id \in Asks)
    BY <1>2 DEF HostInv, WithinBounds, ResourceIds
<1>4. ASSUME madeIn' = madeIn, NEW f \in [Refs -> Ids], Numbered(f)
      PROVE  ChannelMade(f)' /\ (Head(channel).kind = "result" => Made(f, Head(channel)))
    BY <1>2, <1>4 DEF Numbered, ChannelMade, Made, made
<1> QED
    BY <1>2, <1>3, <1>4

\* The host says a line.
LEMMA ChannelMore ==
    ASSUME HostInv, NEW m \in ServerMsgs, channel' = Append(channel, m),
           m.kind = "resource" => m.id \in Asks
    PROVE  /\ channel' \in Seq(ServerMsgs)
           /\ ResourceIds'
           /\ madeIn' = madeIn => \A f \in [Refs -> Ids] :
                 Numbered(f) /\ (m.kind = "result" => Made(f, m)) => ChannelMade(f)'
<1>1. channel \in Seq(ServerMsgs)
    BY MessageTypes DEF HostInv
<1>2. /\ Append(channel, m) \in Seq(ServerMsgs)
      /\ \A k \in 1..Len(Append(channel, m)) :
            \/ k \in 1..Len(channel) /\ Append(channel, m)[k] = channel[k]
            \/ k = Len(channel) + 1 /\ Append(channel, m)[k] = m
    BY <1>1, QueueAppend
<1>3. ResourceIds'
    BY <1>2 DEF HostInv, WithinBounds, ResourceIds
<1>4. ASSUME madeIn' = madeIn, NEW f \in [Refs -> Ids], Numbered(f),
             m.kind = "result" => Made(f, m)
      PROVE  ChannelMade(f)'
    BY <1>2, <1>4 DEF Numbered, ChannelMade, Made, made
<1> QED
    BY <1>2, <1>3, <1>4

\* The session writes a line.
LEMMA InboxMore ==
    ASSUME HostInv, NEW m \in ClientMsgs, inbox' = Append(inbox, m)
    PROVE  /\ inbox' \in Seq(ClientMsgs)
           /\ \A k \in 1..Len(inbox') :
                 \/ k \in 1..Len(inbox) /\ inbox'[k] = inbox[k]
                 \/ k = Len(inbox) + 1 /\ inbox'[k] = m
           /\ madeIn' = madeIn /\ m.kind # "invoke" =>
                 \A f \in [Refs -> Ids] : Numbered(f) => InboxMade(f)'
<1>1. inbox \in Seq(ClientMsgs)
    BY MessageTypes DEF HostInv
<1>2. /\ Append(inbox, m) \in Seq(ClientMsgs)
      /\ \A k \in 1..Len(Append(inbox, m)) :
            \/ k \in 1..Len(inbox) /\ Append(inbox, m)[k] = inbox[k]
            \/ k = Len(inbox) + 1 /\ Append(inbox, m)[k] = m
    BY <1>1, QueueAppend
<1>3. ASSUME madeIn' = madeIn, m.kind # "invoke", NEW f \in [Refs -> Ids], Numbered(f)
      PROVE  InboxMade(f)'
    BY <1>2, <1>3 DEF Numbered, InboxMade, Made, made
<1> QED
    BY <1>2, <1>3

\* A step that makes no call and ends no turn: it is enough that what is under
\* way afterwards carries the id of its call.
LEMMA NumberedStep ==
    ASSUME HostInv, UNCHANGED <<madeIn, turn, lastId>>,
           \A f \in [Refs -> Ids] : Numbered(f) =>
              /\ call' # NoCall => Made(f, call')
              /\ serving' # Idle => Made(f, serving')
              /\ ChannelMade(f)' /\ InboxMade(f)'
    PROVE  SomeNumbering'
<1>1. PICK f \in [Refs -> Ids] : Numbered(f)
    BY DEF HostInv, SomeNumbering
<1>2. Numbered(f)'
    BY <1>1 DEF Numbered, Made, made
<1> QED
    BY <1>2 DEF SomeNumbering

\* A step that touches no call at all keeps the pipes' lines numbered.
LEMMA PipesKept ==
    ASSUME madeIn' = madeIn
    PROVE  /\ channel' = channel => ResourceIds' = ResourceIds
           /\ \A f \in [Refs -> Ids] :
                /\ channel' = channel => ChannelMade(f)' = ChannelMade(f)
                /\ inbox' = inbox => InboxMade(f)' = InboxMade(f)
  BY DEF ResourceIds, ChannelMade, InboxMade, Made, made

\* The same calls, in the same turns.
LEMMA PastKept ==
    ASSUME Past, RightAnswerInTurn, UNCHANGED <<madeIn, turn, delivered>>
    PROVE  Past' /\ RightAnswerInTurn'
  BY DEF Past, RightAnswerInTurn, made

-----------------------------------------------------------------------------
(***************************************************************************)
(* The handshake.                                                          *)
(***************************************************************************)

\* The process is started, or not: nothing is registered yet.
LEMMA SpawnInv ==
    ASSUME HostInv, NEW k \in {"tool", "review"}, Spawn(k)
    PROVE  HostInv'
<1>1. HostTypeOK'
    BY DEF HostInv, HostTypeOK, Spawn, turns
<1>2. WithinBounds' /\ SomeNumbering'
    BY PipesKept, NumberedStep DEF HostInv, WithinBounds, Spawn, made, turns, Numbered
<1>3. Past' /\ RightAnswerInTurn'
    BY PastKept DEF HostInv, Spawn, turns
<1>4. Registered'
    BY DEF HostInv, Registered, Spawn
<1> QED
    BY <1>1, <1>2, <1>3, <1>4 DEF HostInv

\* initialize is written; it is no call.
LEMMA InitializeInv == HostInv /\ Initialize => HostInv'
<1> SUFFICES ASSUME HostInv, Initialize PROVE HostInv'
    OBVIOUS
<1>1. Msg("initialize", 0, 0, None) \in ClientMsgs
      /\ Msg("initialize", 0, 0, None).kind # "invoke"
    BY HostAssumption DEF Msg, ClientMsgs, ClientKinds
<1>2. /\ inbox' \in Seq(ClientMsgs)
      /\ \A f \in [Refs -> Ids] : Numbered(f) => InboxMade(f)'
  <2>1. CASE inbox' = inbox
    BY <2>1, MessageTypes, PipesKept DEF HostInv, Initialize, Numbered
  <2>2. CASE inbox' = Append(inbox, Msg("initialize", 0, 0, None))
    BY <2>2, <1>1, InboxMore DEF Initialize
  <2> QED
    BY <2>1, <2>2 DEF Initialize, Send
<1>3. HostTypeOK'
    BY <1>2 DEF HostInv, HostTypeOK, Initialize, turns, process, ClientMsgs
<1>4. WithinBounds' /\ SomeNumbering'
    BY <1>2, PipesKept, NumberedStep
    DEF HostInv, WithinBounds, Initialize, made, turns, process, Numbered
<1>5. Past' /\ RightAnswerInTurn'
    BY PastKept DEF HostInv, Initialize, turns
<1>6. Registered'
    BY DEF HostInv, Registered, Initialize
<1> QED
    BY <1>3, <1>4, <1>5, <1>6 DEF HostInv

\* The deadline of the handshake passes.
LEMMA HandshakeTimesOutInv == HostInv /\ HandshakeTimesOut => HostInv'
<1> SUFFICES ASSUME HostInv, HandshakeTimesOut PROVE HostInv'
    OBVIOUS
<1>1. HostTypeOK'
    BY DEF HostInv, HostTypeOK, HandshakeTimesOut, turns, process
<1>2. WithinBounds' /\ SomeNumbering'
    BY PipesKept, NumberedStep
    DEF HostInv, WithinBounds, HandshakeTimesOut, made, turns, process, Numbered
<1>3. Past' /\ RightAnswerInTurn'
    BY PastKept DEF HostInv, HandshakeTimesOut, turns
<1>4. Registered'
    BY DEF HostInv, Registered, HandshakeTimesOut
<1> QED
    BY <1>1, <1>2, <1>3, <1>4 DEF HostInv

\* The process is killed, or exits by itself; what it worked on is gone.
LEMMA DownInv == HostInv /\ (Drop \/ HostExits) => HostInv'
<1> SUFFICES ASSUME HostInv, Drop \/ HostExits PROVE HostInv'
    OBVIOUS
<1>1. HostTypeOK'
  <2>1. Idle \in [ref : 0..MaxCalls, id : 0..MaxCalls] /\ 0 \in Asks
    BY HostAssumption DEF Idle, Asks
  <2> QED
    BY <2>1 DEF HostInv, HostTypeOK, Drop, HostExits, handshake, turns
<1>2. WithinBounds' /\ SomeNumbering'
    BY PipesKept, NumberedStep
    DEF HostInv, WithinBounds, Drop, HostExits, made, turns, Numbered
<1>3. Past' /\ RightAnswerInTurn'
    BY PastKept DEF HostInv, Drop, HostExits, turns
<1>4. Registered'
    BY DEF HostInv, Registered, Drop, HostExits, handshake, DeclaredTools
<1> QED
    BY <1>1, <1>2, <1>3, <1>4 DEF HostInv

\* As many registrations as declared tools, each of a declared name and no name
\* twice, are exactly the declared tools.
LEMMA AllRegistered ==
    ASSUME NEW D, IsFiniteSet(D), NEW all \in Seq(D), Len(all) = Cardinality(D),
           \A i, j \in 1..Len(all) : i # j => all[i] # all[j]
    PROVE  {all[i] : i \in 1..Len(all)} = D
<1> DEFINE R == {all[i] : i \in 1..Len(all)}
<1>1. R \subseteq D /\ Len(all) \in Nat
    OBVIOUS
<1>2. [i \in 1..Len(all) |-> all[i]] \in Bijection(1..Len(all), R)
    BY DEF Bijection, Injection, Surjection, IsInjective
<1>3. Cardinality(R) = Len(all)
    BY <1>1, <1>2, FS_CountingElements DEF ExistsBijection
<1> QED
    BY <1>1, <1>3, FS_Subset

\* The session reads a line of the handshake.
LEMMA HandshakeInv == HostInv /\ Handshake => HostInv'
<1> SUFFICES ASSUME HostInv, Handshake PROVE HostInv'
    OBVIOUS
<1> DEFINE m == Head(channel)
           all == Append(staged, m.name)
<1>1. /\ channel' \in Seq(ServerMsgs) /\ m \in ServerMsgs /\ ResourceIds'
      /\ \A f \in [Refs -> Ids] : Numbered(f) => ChannelMade(f)'
    BY ChannelLess DEF Handshake
<1>2. WithinBounds' /\ SomeNumbering'
    BY <1>1, PipesKept, NumberedStep
    DEF HostInv, WithinBounds, Handshake, made, turns, process, Numbered
<1>3. Past' /\ RightAnswerInTurn'
    BY PastKept DEF HostInv, Handshake, turns
<1>4. DeclaredTools \subseteq Declared
    BY DEF DeclaredTools
<1>5. m.name \in DeclaredTools => all \in Seq(Declared)
    BY <1>4 DEF HostInv, HostTypeOK
<1>6. /\ phase' \in {"none", "spawned", "ready", "register", "review", "active", "failed"}
      /\ staged' \in Seq(Declared) /\ registry' \subseteq Declared
      /\ Registered'
  <2>1. CASE ReceiveReady(m)
    BY <2>1 DEF HostInv, HostTypeOK, Registered, Handshake, ReceiveReady, AfterTools,
       DeclaredTools
  <2>2. CASE ReceiveReviewReady(m)
    BY <2>2 DEF HostInv, HostTypeOK, Registered, Handshake, ReceiveReviewReady,
       DeclaredTools
  <2>3. CASE ReceiveRegister(m)
    <3>1. kind = "tool" /\ DeclaredTools = Declared /\ registry = {}
          /\ AfterTools = "active" /\ kind' = kind
        BY <2>3 DEF HostInv, Registered, ReceiveRegister, DeclaredTools, AfterTools, Handshake
    <3>2. CASE /\ m.name \in DeclaredTools /\ Len(all) = Cardinality(DeclaredTools)
               /\ \A i, j \in 1..Len(all) : i # j => all[i] # all[j]
               /\ phase' = AfterTools /\ staged' = all
               /\ registry' = {all[i] : i \in 1..Len(all)}
      <4>1. registry' = Declared
        BY <3>1, <3>2, <1>5, AllRegistered, HostAssumption
      <4> QED
        BY <4>1, <3>1, <3>2, <1>5 DEF Registered, DeclaredTools
    <3>3. CASE /\ registry' = registry
               /\ \/ phase' = "failed"
                  \/ phase' = phase
               /\ \/ staged' = staged
                  \/ m.name \in DeclaredTools /\ staged' = all
        BY <3>1, <3>3, <1>5 DEF HostInv, HostTypeOK, Registered, DeclaredTools
    <3> QED
        BY <2>3, <3>2, <3>3 DEF ReceiveRegister
  <2> QED
    BY <2>1, <2>2, <2>3 DEF Handshake
<1>7. HostTypeOK'
    BY <1>1, <1>6 DEF HostInv, HostTypeOK, Handshake, turns, process, ServerMsgs
<1> QED
    BY <1>2, <1>3, <1>6, <1>7 DEF HostInv

\* The host says something of the handshake, never a result.
LEMMA HostRegistersInv == HostInv /\ HostRegisters => HostInv'
<1> SUFFICES ASSUME HostInv, HostRegisters PROVE HostInv'
    OBVIOUS
<1>1. PICK m \in ServerMsgs : /\ channel' = Append(channel, m)
                              /\ m.kind \notin {"result", "resource"}
  <2>1. \A k \in {"ready", "register", "review_ready", "junk"}, n \in Names \cup {None} :
           Msg(k, 0, 0, n) \in ServerMsgs /\ Msg(k, 0, 0, n).kind = k
    BY HostAssumption DEF Msg, ServerMsgs, ServerKinds
  <2> QED
    BY <2>1 DEF HostRegisters, Say
<1>2. /\ channel' \in Seq(ServerMsgs) /\ ResourceIds'
      /\ \A f \in [Refs -> Ids] : Numbered(f) => ChannelMade(f)'
    BY <1>1, ChannelMore DEF HostRegisters
<1>3. HostTypeOK'
    BY <1>2 DEF HostInv, HostTypeOK, HostRegisters, handshake, turns, process, ServerMsgs
<1>4. WithinBounds' /\ SomeNumbering'
    BY <1>2, PipesKept, NumberedStep
    DEF HostInv, WithinBounds, HostRegisters, made, turns, process, Numbered
<1>5. Past' /\ RightAnswerInTurn'
    BY PastKept DEF HostInv, HostRegisters, turns
<1>6. Registered'
    BY DEF HostInv, Registered, HostRegisters, handshake, DeclaredTools
<1> QED
    BY <1>3, <1>4, <1>5, <1>6 DEF HostInv

-----------------------------------------------------------------------------
(***************************************************************************)
(* The host at work.                                                       *)
(***************************************************************************)

\* It takes up the next request, or the resource it waited for.
LEMMA HostReadsInv == HostInv /\ HostReads => HostInv'
<1> SUFFICES ASSUME HostInv, HostReads PROVE HostInv'
    OBVIOUS
<1> DEFINE m == Head(inbox)
<1>1. /\ m \in ClientMsgs /\ inbox' \in Seq(ClientMsgs)
      /\ 1 \in 1..Len(inbox) /\ m = inbox[1]
      /\ \A k \in 1..Len(inbox') : k + 1 \in 1..Len(inbox) /\ inbox'[k] = inbox[k + 1]
    BY MessageTypes, QueueTail DEF HostInv, HostReads
<1>2. ASSUME NEW f \in [Refs -> Ids], Numbered(f)
      PROVE  /\ InboxMade(f)'
             /\ m.kind = "invoke" => Made(f, m)
    BY <1>1, <1>2 DEF Numbered, InboxMade, Made, made, HostReads
<1>3. m.kind = "invoke" => [ref |-> m.ref, id |-> m.id] \in [ref : 0..MaxCalls, id : 0..MaxCalls]
  <2>1. PICK f \in [Refs -> Ids] : Numbered(f)
    BY DEF HostInv, SomeNumbering
  <2>2. ASSUME m.kind = "invoke" PROVE m.id \in 0..MaxCalls
    <3>1. m.ref \in 1..made /\ f[m.ref] = m.id
        BY <2>1, <2>2, <1>2 DEF Made
    <3>2. m.ref \in Refs
        BY <3>1, <1>1, HostAssumption DEF HostInv, WithinBounds, Refs, ClientMsgs
    <3> QED
        BY <3>1, <3>2, HostAssumption DEF Ids
  <2> QED
    BY <2>2, <1>1 DEF ClientMsgs
<1>4. ASSUME NEW f \in [Refs -> Ids], Numbered(f), serving' # Idle
      PROVE  Made(f, serving')
    BY <1>2, <1>4 DEF HostReads, Made, Numbered
<1>5. HostTypeOK'
  <2>1. serving' \in [ref : 0..MaxCalls, id : 0..MaxCalls]
    BY <1>3 DEF HostReads, HostInv, HostTypeOK
  <2>2. asking' \in Asks
    BY HostAssumption DEF HostReads, HostInv, HostTypeOK, Asks
  <2> QED
    BY <2>1, <2>2, <1>1 DEF HostInv, HostTypeOK, HostReads, handshake, turns, ClientMsgs
<1>6. WithinBounds' /\ SomeNumbering'
    BY <1>2, <1>4, PipesKept, NumberedStep
    DEF HostInv, WithinBounds, HostReads, made, turns, Numbered
<1>7. Past' /\ RightAnswerInTurn'
    BY PastKept DEF HostInv, HostReads, turns
<1>8. Registered'
    BY DEF HostInv, Registered, HostReads, handshake, DeclaredTools
<1> QED
    BY <1>5, <1>6, <1>7, <1>8 DEF HostInv

\* It asks for a resource; the ids it uses for that are its own.
LEMMA HostAsksInv == HostInv /\ HostAsks => HostInv'
<1> SUFFICES ASSUME HostInv, HostAsks PROVE HostInv'
    OBVIOUS
<1>1. PICK i \in 1..MaxAsks : /\ channel' = Append(channel, Msg("resource", i, serving.ref, None))
                              /\ asking' = i
    BY DEF HostAsks, Say
<1> DEFINE m == Msg("resource", i, serving.ref, None)
<1>2. m \in ServerMsgs /\ m.kind = "resource" /\ m.id \in Asks /\ asking' \in Asks
    BY <1>1, HostAssumption DEF Msg, ServerMsgs, ServerKinds, Asks, HostInv, HostTypeOK
<1>3. /\ channel' \in Seq(ServerMsgs) /\ ResourceIds'
      /\ \A f \in [Refs -> Ids] : Numbered(f) => ChannelMade(f)'
    BY <1>1, <1>2, ChannelMore DEF HostAsks
<1>4. HostTypeOK'
    BY <1>2, <1>3 DEF HostInv, HostTypeOK, HostAsks, handshake, turns, ServerMsgs
<1>5. WithinBounds' /\ SomeNumbering'
    BY <1>3, PipesKept, NumberedStep
    DEF HostInv, WithinBounds, HostAsks, made, turns, Numbered
<1>6. Past' /\ RightAnswerInTurn'
    BY PastKept DEF HostInv, HostAsks, turns
<1>7. Registered'
    BY DEF HostInv, Registered, HostAsks, handshake, DeclaredTools
<1> QED
    BY <1>4, <1>5, <1>6, <1>7 DEF HostInv

\* It answers with the id it was given, however late.
LEMMA HostAnswersInv == HostInv /\ HostAnswers => HostInv'
<1> SUFFICES ASSUME HostInv, HostAnswers PROVE HostInv'
    OBVIOUS
<1> DEFINE m == Msg("result", serving.id, serving.ref, None)
<1>1. m \in ServerMsgs /\ m.kind = "result" /\ m.ref = serving.ref /\ m.id = serving.id
    BY HostAssumption DEF Msg, ServerMsgs, ServerKinds, HostInv, HostTypeOK
<1>2. /\ channel' \in Seq(ServerMsgs) /\ ResourceIds'
      /\ \A f \in [Refs -> Ids] : Numbered(f) => ChannelMade(f)'
  <2>1. \A f \in [Refs -> Ids] : Numbered(f) => Made(f, m)
    BY <1>1 DEF HostAnswers, Numbered, Made
  <2> QED
    BY <2>1, <1>1, ChannelMore DEF HostAnswers, Say
<1>3. HostTypeOK'
  <2>1. Idle \in [ref : 0..MaxCalls, id : 0..MaxCalls]
    BY HostAssumption DEF Idle
  <2> QED
    BY <1>2, <2>1 DEF HostInv, HostTypeOK, HostAnswers, handshake, turns, ServerMsgs
<1>4. WithinBounds' /\ SomeNumbering'
    BY <1>2, PipesKept, NumberedStep
    DEF HostInv, WithinBounds, HostAnswers, made, turns, Numbered
<1>5. Past' /\ RightAnswerInTurn'
    BY PastKept DEF HostInv, HostAnswers, turns
<1>6. Registered'
    BY DEF HostInv, Registered, HostAnswers, handshake, DeclaredTools
<1> QED
    BY <1>3, <1>4, <1>5, <1>6 DEF HostInv

-----------------------------------------------------------------------------
(***************************************************************************)
(* Calls.                                                                  *)
(***************************************************************************)

\* A call of the current turn takes an id above all its turn has used: the
\* numbering grows by one.
LEMMA StartCallInv ==
    ASSUME HostInv, NEW i \in Ids, StartCall(i)
    PROVE  HostInv'
<1>0. PICK r \in Nat : r = made + 1
    BY DEF HostInv, HostTypeOK, made
<1>1. /\ madeIn \in Seq(1..MaxTurns) /\ turn \in 1..MaxTurns /\ made \in Nat
      /\ madeIn' \in Seq(1..MaxTurns) /\ made' = r /\ r \in Refs
      /\ \A q \in 1..made : q \in 1..made' /\ madeIn'[q] = madeIn[q]
      /\ madeIn'[r] = turn
      /\ \A q \in 1..made' : q = r \/ q \in 1..made
      /\ \A q \in 1..made : q \in Refs
      /\ turn' = turn /\ lastId' = i /\ i > lastId /\ lastId \in Nat /\ i \in 1..MaxCalls
  <2>1. /\ madeIn \in Seq(1..MaxTurns) /\ turn \in 1..MaxTurns /\ lastId \in 0..MaxCalls
        /\ MaxCalls \in Nat /\ MaxTurns \in Nat
    BY HostAssumption DEF HostInv, HostTypeOK
  <2>2. /\ madeIn' = Append(madeIn, turn) /\ turn' = turn /\ lastId' = i /\ i > lastId
        /\ made < MaxCalls /\ i \in 1..MaxCalls
    BY DEF StartCall, Ids
  <2>3. made \in Nat /\ r = made + 1 /\ made < MaxCalls
    BY <1>0, <2>1, <2>2 DEF made
  <2>4. /\ madeIn' \in Seq(1..MaxTurns) /\ made' = r /\ madeIn'[r] = turn
        /\ \A q \in 1..made : madeIn'[q] = madeIn[q]
    BY <2>1, <2>2, <2>3, AppendProperties DEF made
  <2>5. /\ r \in Refs /\ \A q \in 1..made : q \in 1..r /\ q \in Refs
        /\ \A q \in 1..r : q = r \/ q \in 1..made
    BY <2>1, <2>3 DEF Refs
  <2>6. lastId \in Nat
    BY <2>1
  <2>7. /\ \A q \in 1..made : q \in 1..made' /\ madeIn'[q] = madeIn[q] /\ q \in Refs
        /\ \A q \in 1..made' : q = r \/ q \in 1..made
    BY <2>4, <2>5, Zenon
  <2> QED BY <2>1, <2>2, <2>3, <2>4, <2>5, <2>6, <2>7, Zenon
<1>2. /\ Msg("invoke", i, r, None) \in ClientMsgs
      /\ Msg("invoke", i, r, None).ref = r /\ Msg("invoke", i, r, None).id = i
    BY <1>1, HostAssumption DEF Msg, ClientMsgs, ClientKinds, Ids, Refs
<1>3. /\ inbox' \in Seq(ClientMsgs)
      /\ \A k \in 1..Len(inbox') :
            \/ k \in 1..Len(inbox) /\ inbox'[k] = inbox[k]
            \/ inbox'[k] = Msg("invoke", i, r, None)
  <2>1. CASE inbox' = inbox
    BY <2>1, MessageTypes DEF HostInv
  <2>2. CASE inbox' = Append(inbox, Msg("invoke", i, r, None))
    BY <2>2, <1>2, InboxMore
  <2> QED
    BY <1>0, <2>1, <2>2 DEF StartCall
<1>4. /\ Wanted(r, i) \in Calls /\ Wanted(r, i).ref = r /\ Wanted(r, i).id = i
      /\ Wanted(r, i).read = 0 /\ call.read <= MaxMessages /\ 0 < MaxMessages
    BY <1>1, HostAssumption DEF Wanted, Calls, Asks, HostInv, WithinBounds
<1>5. call' = call \/ call' = Wanted(r, i)
    BY <1>0 DEF StartCall
<1>6. HostTypeOK'
  <2>1. lastId' \in 0..MaxCalls /\ call' \in Calls \cup {NoCall}
    BY <1>1, <1>4, <1>5, HostAssumption DEF HostInv, HostTypeOK
  <2>2. turnOver' \in BOOLEAN
    BY Zenon DEF HostInv, HostTypeOK, StartCall
  <2> QED
    BY <1>1, <1>3, <2>1, <2>2 DEF HostInv, HostTypeOK, StartCall, handshake, process, ClientMsgs
<1>7. WithinBounds'
    BY <1>1, <1>4, <1>5, HostAssumption DEF HostInv, WithinBounds, ResourceIds, StartCall, Refs
<1>8. Past'
  <2>1. \A q \in 1..made' : madeIn'[q] <= turn'
    BY <1>1 DEF HostInv, Past
  <2>2. \A d \in delivered' : d[1] \in 1..made' /\ d[2] \in 1..made'
    BY <1>1 DEF HostInv, Past, StartCall
  <2> QED
    BY <2>1, <2>2 DEF Past
<1>9. RightAnswerInTurn'
    BY <1>1 DEF HostInv, Past, RightAnswerInTurn, StartCall
<1>10. SomeNumbering'
  <2>1. PICK f \in [Refs -> Ids] : Numbered(f)
    BY DEF HostInv, SomeNumbering
  <2>g. PICK g \in [Refs -> Ids] : g = [f EXCEPT ![r] = i]
    OBVIOUS
  <2>2. /\ g \in [Refs -> Ids] /\ g[r] = i
        /\ \A q \in 1..made : g[q] = f[q]
    BY <2>g, <1>0, <1>1, HostAssumption DEF Refs, HostInv, WithinBounds
  <2>3. \A x : Made(f, x) => Made(g, x)'
    <3> SUFFICES ASSUME NEW x, Made(f, x) PROVE x.ref \in 1..made' /\ g[x.ref] = x.id
        BY DEF Made
    <3> QED
        BY <1>0, <1>1, <2>2 DEF Made
  <2>4. \A p, q \in 1..made' : madeIn'[p] = madeIn'[q] /\ g[p] = g[q] => p = q
    <3>1. \A q \in 1..made : f[q] \in Nat
        BY <1>1, HostAssumption DEF Ids
    <3>2. \A q \in 1..made : madeIn[q] = turn => f[q] # i
        BY <3>1, <2>1, <1>1 DEF Numbered
    <3>3. \A q \in 1..made : madeIn'[q] = madeIn'[r] => g[q] # g[r]
        BY <3>2, <1>1, <2>2
    <3>4. \A p, q \in 1..made : madeIn'[p] = madeIn'[q] /\ g[p] = g[q] => p = q
        BY <2>1, <2>2, <1>1 DEF Numbered
    <3> QED
        BY <3>3, <3>4, <1>1
  <2>5. \A q \in 1..made' : madeIn'[q] = turn' => g[q] <= lastId'
    <3>1. \A q \in 1..made : f[q] \in Nat
        BY <1>1, HostAssumption DEF Ids
    <3> QED
        BY SMTT(30), <3>1, <1>1, <2>1, <2>2 DEF Numbered
  <2>6. call' # NoCall => Made(g, call)'
    <3>1. r \in 1..made' /\ call = NoCall
        BY <1>0, <1>1 DEF StartCall
    <3> QED
        BY <3>1, <1>4, <1>5, <2>2 DEF Made
  <2>7. serving' # Idle => Made(g, serving)'
    BY <2>1, <2>3 DEF Numbered, StartCall, process, Made
  <2>8. ChannelMade(g)'
    BY <2>1, <2>3 DEF Numbered, ChannelMade, StartCall, Made
  <2>9. InboxMade(g)'
    <3> SUFFICES ASSUME NEW k \in 1..Len(inbox'), inbox'[k].kind = "invoke"
                 PROVE  inbox'[k].ref \in 1..made' /\ g[inbox'[k].ref] = inbox'[k].id
        BY DEF InboxMade, Made
    <3>1. CASE k \in 1..Len(inbox) /\ inbox'[k] = inbox[k]
        BY <3>1, <1>1, <2>1, <2>2 DEF Numbered, InboxMade, Made
    <3>2. CASE inbox'[k] = Msg("invoke", i, r, None)
        BY <3>2, <1>0, <1>1, <1>2, <2>2
    <3> QED
        BY <3>1, <3>2, <1>3
  <2> QED
    BY <2>2, <2>4, <2>5, <2>6, <2>7, <2>8, <2>9 DEF SomeNumbering, Numbered
<1>11. Registered'
    BY DEF HostInv, Registered, StartCall, handshake, DeclaredTools
<1> QED
    BY <1>6, <1>7, <1>8, <1>9, <1>10, <1>11 DEF HostInv

\* A call that ends, and what its ending leaves of the turn.
LEMMA CloseStep ==
    ASSUME HostInv, NEW b \in BOOLEAN, Close(b)
    PROVE  /\ call' = NoCall /\ call'.read <= MaxMessages
           /\ turnOver' \in BOOLEAN /\ turn' = turn /\ lastId' = lastId
<1>1. turnOver' \in BOOLEAN
    BY Zenon DEF HostInv, HostTypeOK, Close
<1> QED
    BY <1>1, CallFields, HostAssumption DEF Close, NoCall

\* The session reads a line for its call.  An answer that is taken has the id
\* of the call, and in one turn only one call has it.
LEMMA ReceiveInv == HostInv /\ Receive => HostInv'
<1> SUFFICES ASSUME HostInv, Receive PROVE HostInv'
    OBVIOUS
<1> DEFINE m == Head(channel)
<1>1. /\ channel' \in Seq(ServerMsgs) /\ m \in ServerMsgs /\ ResourceIds'
      /\ m.kind = "resource" => m.id \in Asks
      /\ \A f \in [Refs -> Ids] : Numbered(f) =>
            ChannelMade(f)' /\ (m.kind = "result" => Made(f, m))
    BY ChannelLess DEF Receive
<1>2. PICK f \in [Refs -> Ids] : Numbered(f)
    BY DEF HostInv, SomeNumbering
<1>3. call \in Calls /\ call # NoCall /\ UNCHANGED <<madeIn, serving>>
    BY CallFields DEF Receive, process
<1>4. /\ UNCHANGED <<turn, lastId>> /\ turnOver' \in BOOLEAN
      /\ call'.read <= MaxMessages
      /\ \/ call' = NoCall
         \/ call' \in Calls /\ call'.ref = call.ref /\ call'.id = call.id
  <2>1. ASSUME NEW b \in BOOLEAN, Close(b)
        PROVE  /\ UNCHANGED <<turn, lastId>> /\ turnOver' \in BOOLEAN
               /\ call'.read <= MaxMessages /\ call' = NoCall
    BY <2>1, CloseStep
  <2>2. CASE TakeResult(m)
    BY <2>1, <2>2 DEF TakeResult
  <2>3. CASE TakeOther(m)
    BY <2>1, <2>3 DEF TakeOther
  <2>4. CASE TakeResource(m)
    <3>1. CASE Close(TRUE)
        BY <2>1, <3>1
    <3>2. CASE /\ UNCHANGED turns
               /\ call' = [call EXCEPT !.seen = @ \cup {m.id}, !.read = @ + 1]
      <4>1. call.read \in Nat /\ call.read < MaxMessages /\ m.id \in Asks
        BY <1>1, <1>3, <2>4, HostAssumption DEF Calls, Receive, TakeResource
      <4>2. call.read + 1 \in 0..MaxMessages
        BY <3>2, <4>1, HostAssumption
      <4>3. call' \in Calls /\ call'.ref = call.ref /\ call'.id = call.id
            /\ call'.read = call.read + 1
        BY <3>2, <4>1, <4>2, <1>3 DEF Calls
      <4> QED
        BY <3>2, <4>2, <4>3 DEF turns, HostInv, HostTypeOK
    <3> QED
        BY <2>4, <3>1, <3>2 DEF TakeResource
  <2> QED
    BY <2>2, <2>3, <2>4 DEF Receive
<1>5. /\ inbox' \in Seq(ClientMsgs)
      /\ \A h \in [Refs -> Ids] : Numbered(h) => InboxMade(h)'
  <2>1. CASE inbox' = inbox
    BY <2>1, <1>3, MessageTypes, PipesKept DEF HostInv, Numbered
  <2>2. CASE inbox' = Append(inbox, Msg("resource_result", m.id, 0, None))
    <3>1. /\ Msg("resource_result", m.id, 0, None) \in ClientMsgs
          /\ Msg("resource_result", m.id, 0, None).kind # "invoke"
        BY <1>1, HostAssumption DEF Msg, ClientMsgs, ClientKinds, ServerMsgs
    <3> QED
        BY <2>2, <3>1, <1>3, InboxMore
  <2> QED
    BY <2>1, <2>2 DEF Receive, TakeResult, TakeOther, TakeResource
<1>6. \/ delivered' = delivered
      \/ /\ delivered' = delivered \cup {<<call.ref, m.ref>>}
         /\ call.ref \in 1..made /\ m.ref \in 1..made
         /\ f[call.ref] = f[m.ref]
  <2>1. CASE TakeResult(m)
    <3>1. Made(f, m) /\ Made(f, call)
        BY <1>1, <1>2, <1>3, <2>1 DEF TakeResult, Numbered
    <3>2. \/ delivered' = delivered
          \/ delivered' = delivered \cup {<<call.ref, m.ref>>} /\ m.id = call.id
        BY <2>1, Zenon DEF TakeResult
    <3> QED
        BY <3>1, <3>2 DEF Made
  <2> QED
    BY <2>1 DEF Receive, TakeResource, TakeOther
<1>7. Past' /\ RightAnswerInTurn' /\ delivered' \subseteq Refs \X Refs
  <2>1. \A r \in 1..made : r \in Refs
    BY HostAssumption DEF HostInv, HostTypeOK, WithinBounds, made, Refs
  <2>2. CASE delivered' = delivered
    BY <2>2, <1>3, <1>4, PastKept DEF HostInv, HostTypeOK
  <2>3. CASE /\ delivered' = delivered \cup {<<call.ref, m.ref>>}
             /\ call.ref \in 1..made /\ m.ref \in 1..made
             /\ f[call.ref] = f[m.ref]
    <3>1. Past'
        BY <2>3, <1>3, <1>4 DEF HostInv, Past, made
    <3>2. madeIn[call.ref] = madeIn[m.ref] => call.ref = m.ref
        BY <2>3, <1>2 DEF Numbered
    <3>3. RightAnswerInTurn'
        BY <2>3, <3>2, <1>3 DEF HostInv, RightAnswerInTurn
    <3> QED
        BY <2>1, <2>3, <3>1, <3>3 DEF HostInv, HostTypeOK
  <2> QED
    BY <1>6, <2>2, <2>3
<1>8. HostTypeOK'
    BY <1>1, <1>3, <1>4, <1>5, <1>7
    DEF HostInv, HostTypeOK, Receive, handshake, process, ServerMsgs, ClientMsgs
<1>9. WithinBounds'
    BY <1>1, <1>3, <1>4 DEF HostInv, WithinBounds, made
<1>10. SomeNumbering'
  <2>1. \A h \in [Refs -> Ids] : Numbered(h) =>
           /\ call' # NoCall => Made(h, call')
           /\ serving' # Idle => Made(h, serving')
    BY <1>3, <1>4 DEF Numbered, Made
  <2> QED
    BY <2>1, <1>1, <1>3, <1>4, <1>5, NumberedStep
<1>11. Registered'
    BY DEF HostInv, Registered, Receive, handshake, DeclaredTools
<1> QED
    BY <1>7, <1>8, <1>9, <1>10, <1>11 DEF HostInv

\* The deadline of a call passes, whatever waits in the channel.
LEMMA CallTimesOutInv == HostInv /\ CallTimesOut => HostInv'
<1> SUFFICES ASSUME HostInv, CallTimesOut PROVE HostInv'
    OBVIOUS
<1>1. /\ call' = NoCall /\ call'.read <= MaxMessages
      /\ turnOver' \in BOOLEAN /\ turn' = turn /\ lastId' = lastId
    BY CloseStep DEF CallTimesOut
<1>2. HostTypeOK'
    BY <1>1 DEF HostInv, HostTypeOK, CallTimesOut, handshake, process
<1>3. WithinBounds' /\ SomeNumbering'
    BY <1>1, PipesKept, NumberedStep
    DEF HostInv, WithinBounds, CallTimesOut, made, process, Numbered
<1>4. Past' /\ RightAnswerInTurn'
    BY <1>1, PastKept DEF HostInv, CallTimesOut
<1>5. Registered'
    BY DEF HostInv, Registered, CallTimesOut, handshake, DeclaredTools
<1> QED
    BY <1>2, <1>3, <1>4, <1>5 DEF HostInv

\* The next turn begins with the ids all free again; no call belongs to it yet.
LEMMA EndTurnInv == HostInv /\ EndTurn => HostInv'
<1> SUFFICES ASSUME HostInv, EndTurn PROVE HostInv'
    OBVIOUS
<1>1. /\ turn \in 1..MaxTurns /\ turn' = turn + 1 /\ turn' \in 1..MaxTurns
      /\ UNCHANGED <<madeIn, channel, inbox, serving, delivered>>
    BY HostAssumption DEF HostInv, HostTypeOK, EndTurn, process
<1>2. /\ call' \in Calls \cup {NoCall} /\ call'.read <= MaxMessages
      /\ call' # NoCall => call # NoCall /\ call'.ref = call.ref /\ call'.id = call.id
  <2>1. CASE call = NoCall
    BY <2>1, CallFields, HostAssumption DEF EndTurn, NoCall
  <2>2. CASE call # NoCall
    <3>1. call \in Calls /\ call.read <= MaxMessages
        BY <2>2, CallFields DEF HostInv, WithinBounds
    <3>2. call' = [call EXCEPT !.wanted = FALSE]
        BY <2>2 DEF EndTurn
    <3> QED
        BY <2>2, <3>1, <3>2 DEF Calls
  <2> QED
    BY <2>1, <2>2
<1>3. HostTypeOK'
  <2>1. lastId' = 0 /\ turnOver' = FALSE /\ 0 \in 0..MaxCalls
    BY HostAssumption DEF EndTurn
  <2> QED
    BY <1>1, <1>2, <2>1 DEF HostInv, HostTypeOK, EndTurn, handshake, process
<1>4. WithinBounds'
    BY <1>1, <1>2 DEF HostInv, WithinBounds, ResourceIds, made
<1>5. \A r \in 1..made : madeIn[r] \in 1..MaxTurns /\ madeIn[r] < turn'
  <2>1. madeIn \in Seq(1..MaxTurns) /\ \A r \in 1..Len(madeIn) : madeIn[r] <= turn
    BY DEF HostInv, HostTypeOK, Past, made
  <2>2. \A r \in 1..Len(madeIn) : madeIn[r] \in 1..MaxTurns
    BY <2>1, ElementOfSeq
  <2> QED
    BY <1>1, <2>1, <2>2, HostAssumption DEF made
<1>6. Past' /\ RightAnswerInTurn'
  <2>1. made' = made /\ \A r \in 1..made : madeIn'[r] <= turn'
    BY <1>1, <1>5 DEF made
  <2> QED
    BY <2>1, <1>1 DEF HostInv, Past, RightAnswerInTurn
<1>7. SomeNumbering'
  <2>1. PICK f \in [Refs -> Ids] : Numbered(f)
    BY DEF HostInv, SomeNumbering
  <2>2. Numbered(f)'
    BY <2>1, <1>1, <1>2, <1>5 DEF Numbered, Made, made, ChannelMade, InboxMade
  <2> QED
    BY <2>2 DEF SomeNumbering
<1>8. Registered'
    BY DEF HostInv, Registered, EndTurn, handshake, DeclaredTools
<1> QED
    BY <1>3, <1>4, <1>6, <1>7, <1>8 DEF HostInv

-----------------------------------------------------------------------------
(***************************************************************************)
(* The theorems.                                                           *)
(***************************************************************************)

\* Every step keeps the invariant.
LEMMA SessionNextInv == HostInv /\ [HostNext]_hostVars => HostInv'
<1> SUFFICES ASSUME HostInv, [HostNext]_hostVars PROVE HostInv'
    OBVIOUS
<1>1. CASE UNCHANGED hostVars
  <2>1. HostTypeOK' /\ WithinBounds' /\ Past' /\ Registered' /\ RightAnswerInTurn'
    BY <1>1 DEF HostInv, hostVars, HostTypeOK, WithinBounds, ResourceIds, Past, Registered,
       DeclaredTools, RightAnswerInTurn, made
  <2>2. SomeNumbering'
    BY <1>1, PipesKept, NumberedStep DEF HostInv, hostVars, Numbered
  <2> QED
    BY <2>1, <2>2 DEF HostInv
<1>2. CASE HostNext
    BY <1>2, SpawnInv, InitializeInv, HandshakeInv, HandshakeTimesOutInv, DownInv,
       StartCallInv, ReceiveInv, CallTimesOutInv, EndTurnInv, HostRegistersInv,
       HostReadsInv, HostAsksInv, HostAnswersInv DEF HostNext
<1> QED
    BY <1>1, <1>2

\* The invariant holds in every reachable state.
LEMMA HostInvariant == HostSpec => []HostInv
  BY SessionInitInv, SessionNextInv, PTL DEF HostSpec

(* Every reachable state is well typed: messages are messages, ids and     *)
(* resource ids stay in their ranges, only declared tools are staged.      *)
THEOREM SessionTypeCorrect == HostSpec => []HostTypeOK
<1>1. HostInv => HostTypeOK
    BY DEF HostInv
<1> QED
    BY <1>1, HostInvariant, PTL

(* Within a turn no call is given the answer made for another, however     *)
(* late, however many and in whatever order the host answers, through time *)
(* outs, refusals, dropped reviews and restarts of the numbering           *)
(* (extension.rs:2304, 2390, runner.rs:9940).                              *)
THEOREM AnswersBelong == HostSpec => []RightAnswerInTurn
<1>1. HostInv => RightAnswerInTurn
    BY DEF HostInv
<1> QED
    BY <1>1, HostInvariant, PTL

(* An active extension has registered exactly the tools its manifest       *)
(* declares, whatever its host tried to register (extension.rs:2210-2258). *)
THEOREM DeclaredIsRegistered == HostSpec => []RegistersDeclared
<1>1. HostInv => RegistersDeclared
    BY DEF HostInv, Registered, RegistersDeclared
<1> QED
    BY <1>1, HostInvariant, PTL
=============================================================================
