---------------------------- MODULE EditAccessProofs ----------------------------
(***************************************************************************)
(* Proofs about EditAccess: for any files, targets and restrictions, and    *)
(* any number of transactions, outside changes and failures, an edit is     *)
(* applied to all its files or to none, no file has a text the session log  *)
(* does not know of, an apply begins only with authority, and no apply or   *)
(* roll-back replaces what it has not looked at.                            *)
(*                                                                          *)
(* The inductive invariant says where in its apply a transaction whose text *)
(* is in a file, or in a kept link, has to be (Traces), what the hard links *)
(* of the agent's apply are at each of its steps (Links), and what each     *)
(* apply may rely on since its last look at a file (Looks).                 *)
(***************************************************************************)
EXTENDS EditAccess, TLAPS

\* An apply in progress: where it is, of which transaction, at which file.
ApplyStates == {"reject", "start", "check", "write", "link", "recheck", "publish",
                "rollback", "completed", "failed"}
ApplyRec    == [st : ApplyStates, t : Tx, i : Nat \ {0}]
EngineType  == DOMAIN engine = Who /\ \A w \in Who : engine[w] = NoApply \/ engine[w] \in ApplyRec

\* An apply of w is in progress.
Busy(w) == engine[w].st # "none"

\* Every transaction is well formed, and what is still held is open and recorded.
Shaped(x) ==
    /\ Len(x.paths) >= 1
    /\ \A i, j \in DOMAIN x.paths : x.paths[i] = x.paths[j] => i = j
    /\ Len(x.paths) > 1 => x.by = "agent" /\ x.kind = "modify"
    /\ x.kind = "create" => x.before[x.paths[1]] = Absent

TxOk(t) ==
    /\ Shaped(txs[t])
    /\ txs[t].held => txs[t].end = "open" /\ <<"prepared", t>> \in evidence

TxSound == \A t \in DOMAIN txs : TxOk(t)

\* What the log knows to be started was previewed, and recorded as such.
LogSound ==
    \A t \in Tx : <<"started", t>> \in evidence =>
        t \in DOMAIN txs /\ <<"prepared", t>> \in evidence

\* Who lets the transaction through: the mode, the user, or a review.
Allowed(t) == txs[t].says = "allow" \/ t \in approved \/ t \in executed

\* An apply is of an open transaction of its own side, with authority, and after
\* its start the preview is no longer held and the log knows of it.
EngineSound ==
    \A w \in Who : Busy(w) =>
        /\ engine[w].t \in DOMAIN txs
        /\ Now(w).by = w /\ Now(w).end = "open"
        /\ engine[w].i <= Len(Now(w).paths)
        /\ <<"prepared", engine[w].t>> \in evidence
        /\ engine[w].st = "start" => Allowed(engine[w].t)
        /\ engine[w].st \notin {"start", "reject"} =>
             ~Now(w).held /\ <<"started", engine[w].t>> \in evidence

\* The request that waits is open and recorded, and an approval in the channel
\* is one the user sent.
AgentSound ==
    /\ agent.st # "none" =>
         /\ agent.t \in DOMAIN txs
         /\ txs[agent.t].by = "agent" /\ txs[agent.t].end = "open"
         /\ <<"prepared", agent.t>> \in evidence
    /\ \A k \in DOMAIN queue : queue[k].verdict = "approve" => queue[k].t \in approved

\* Which links the agent's apply has made, at each of its steps.
LinksAt(st, i, t, paths) ==
    /\ st \in {"none", "start", "reject", "completed", "failed"} => backup = NoLinks
    /\ Len(paths) <= 1 => backup = NoLinks
    /\ \A f \in Files : backup[f] # t /\ (disk[f] = t => backup[f] # Linked)
    /\ st \in {"check", "write", "link"} =>
         \A j \in DOMAIN paths : j < i => backup[paths[j]] # Unlinked
    /\ Len(paths) > 1 /\ st \in {"recheck", "publish"} =>
         \A j \in DOMAIN paths : backup[paths[j]] # Unlinked
    /\ st = "publish" => \A j \in DOMAIN paths : j < i => backup[paths[j]] # Linked
    /\ st = "rollback" =>
         \A j \in DOMAIN paths : j <= i => backup[paths[j]] \notin {Unlinked, Linked}

\* Only an apply of several files links and rolls back, the latter after a failure.
Staged(w) == /\ engine[w].st = "rollback" => faults >= 1
             /\ engine[w].st \in {"link", "rollback"} => Multi(w)

\* A link is to a file, the links are those of the agent's apply, and go with it.
Links ==
    /\ \A f \in Files : backup[f] = Linked => disk[f] # Absent
    /\ IF Busy("agent")
       THEN LinksAt(engine["agent"].st, engine["agent"].i, engine["agent"].t,
                    Now("agent").paths)
       ELSE backup = NoLinks
    /\ \A w \in Who : Staged(w)

\* The apply of t by w has published f and not rolled it back.
Wrote(w, t, f) ==
    /\ Busy(w) /\ engine[w].t = t
    /\ \/ engine[w].st = "completed"
       \/ /\ engine[w].st = "publish"
          /\ \E j \in DOMAIN Now(w).paths : j < engine[w].i /\ Now(w).paths[j] = f
       \/ /\ engine[w].st = "rollback"
          /\ \/ faults >= 2
             \/ \E j \in DOMAIN Now(w).paths : j <= engine[w].i /\ Now(w).paths[j] = f
       \/ engine[w].st = "failed" /\ faults >= 2

\* The text of t is in f or in its kept link.
Traced(t, f) == disk[f] = t \/ backup[f] = t

\* The text of a transaction is in a file, or in a link, only if it was started,
\* and, while it is open, only if its apply has published it there; a failed one
\* leaves a text only after a second failure.
Traces ==
    \A f \in Files : \A t \in Tx : Traced(t, f) =>
        /\ t \in DOMAIN txs
        /\ <<"started", t>> \in evidence
        /\ txs[t].end \in {"failed", "rejected"} => faults >= 2
        /\ txs[t].end = "open" => Wrote(txs[t].by, t, f)

\* What the apply w may rely on: its own text, or the previewed one, or someone
\* came after its last look.
Mine(w, j)  == disk[Now(w).paths[j]] = engine[w].t \/ Now(w).paths[j] \in late[w]
Still(w, j) == \/ disk[Now(w).paths[j]] = Now(w).before[Now(w).paths[j]]
               \/ Now(w).paths[j] \in late[w]

\* What the apply w relies on, at each of its steps.
LooksOk(w) ==
    \A j \in DOMAIN Now(w).paths :
        /\ engine[w].st = "recheck" /\ j < engine[w].i => Still(w, j)
        /\ engine[w].st = "publish" /\ j >= engine[w].i => Still(w, j)
        /\ engine[w].st = "publish" /\ j < engine[w].i => Mine(w, j)
        /\ engine[w].st = "rollback" /\ j <= engine[w].i => Mine(w, j)
        /\ engine[w].st = "completed" => Mine(w, j)

Looks == \A w \in Who : Busy(w) => LooksOk(w)

\* The inductive invariant.
EditInv ==
    /\ TypeOK /\ TxSound /\ LogSound /\ EngineSound /\ AgentSound
    /\ Links /\ Traces /\ Looks

-----------------------------------------------------------------------------
(***************************************************************************)
(* The steps of an apply, as facts about the fields of its record.         *)
(***************************************************************************)

\* The type invariant says this of the two applies.
LEMMA TypesOfEngine == TypeOK => EngineType
BY DEF TypeOK, EngineType, ApplyRec, ApplyStates

\* The record of an apply that is in progress has its fields.
LEMMA EngineRecord ==
    ASSUME EngineType, NEW w \in Who
    PROVE  /\ Free(w) <=> ~Busy(w)
           /\ Busy(w) => /\ engine[w] \in ApplyRec
                         /\ engine[w].st \in ApplyStates /\ engine[w].t \in Tx
                         /\ engine[w].i \in Nat \ {0}
BY DEF EngineType, Free, Busy, NoApply, ApplyRec, ApplyStates

\* Every step of one apply leaves the other's record alone.
Moved(w, st, t, i) ==
    /\ engine'[w].st = st /\ engine'[w].t = t /\ engine'[w].i = i
    /\ \A v \in Who \ {w} : engine'[v] = engine[v]

\* What Begin does to the two records.
LEMMA BeginMoves ==
    ASSUME EngineType, NEW w \in Who, NEW st \in ApplyStates, NEW t \in Tx, Begin(w, st, t)
    PROVE  EngineType' /\ Moved(w, st, t, 1)
<1>1. [st |-> st, t |-> t, i |-> 1] \in ApplyRec
  BY DEF ApplyRec
<1> QED BY <1>1 DEF EngineType, Begin, Moved

\* What To does to the two records.
LEMMA ToMoves ==
    ASSUME EngineType, NEW w \in Who, Busy(w), NEW st \in ApplyStates, NEW i \in Nat \ {0},
           To(w, st, i)
    PROVE  EngineType' /\ Moved(w, st, engine[w].t, i)
<1>1. engine[w] \in ApplyRec
  BY EngineRecord
<1>2. PICK e \in ApplyRec : e = engine[w]
  BY <1>1
<1>3. [[e EXCEPT !.st = st] EXCEPT !.i = i] \in ApplyRec
  BY DEF ApplyRec
<1>4. engine' = [engine EXCEPT ![w] = [[e EXCEPT !.st = st] EXCEPT !.i = i]]
  BY <1>2 DEF To, EngineType
<1>5. /\ [[e EXCEPT !.st = st] EXCEPT !.i = i].st = st
      /\ [[e EXCEPT !.st = st] EXCEPT !.i = i].i = i
      /\ [[e EXCEPT !.st = st] EXCEPT !.i = i].t = e.t
  BY DEF ApplyRec
<1> QED BY <1>2, <1>3, <1>4, <1>5 DEF EngineType, Moved

\* An apply returns; the other is left alone.
LEMMA EndMoves ==
    ASSUME EngineType, NEW w \in Who, engine' = [engine EXCEPT ![w] = NoApply]
    PROVE  /\ EngineType' /\ engine'[w] = NoApply /\ engine'[w].st = "none"
           /\ \A v \in Who \ {w} : engine'[v] = engine[v]
BY DEF EngineType, NoApply

\* What no operation changes of a transaction.
TxsKept ==
    /\ DOMAIN txs \subseteq DOMAIN txs'
    /\ \A s \in DOMAIN txs :
         /\ txs'[s].paths = txs[s].paths /\ txs'[s].by = txs[s].by
         /\ txs'[s].kind = txs[s].kind /\ txs'[s].before = txs[s].before
         /\ txs'[s].says = txs[s].says

\* The type of the transactions.
TxsType == txs \in Seq(Transaction) /\ Len(txs) <= MaxTx

\* The fields of a transaction that are used below.
LEMMA TxRecord ==
    ASSUME TxsType, NEW t \in DOMAIN txs
    PROVE  /\ txs[t] \in Transaction /\ txs[t].by \in Who /\ txs[t].paths \in Seq(Files)
           /\ t \in Tx /\ t \in Nat /\ t > 0
<1>1. PICK x \in Transaction : x = txs[t]
  BY DEF TxsType
<1>2. x.by \in Who /\ x.paths \in Seq(Files)
  BY DEF Transaction, Who
<1>3. t \in Tx /\ t \in Nat /\ t > 0
  BY EditAssumption DEF TxsType, Tx
<1> QED BY <1>1, <1>2, <1>3

\* A transaction is closed or its end recorded; the others are left alone.
Ended(t, how) ==
    /\ DOMAIN txs' = DOMAIN txs
    /\ txs'[t].end = how
    /\ \A s \in DOMAIN txs \ {t} : txs'[s] = txs[s]

\* Closing a transaction ends it, and drops its preview.
LEMMA CloseEnds ==
    ASSUME TxsType, NEW t \in DOMAIN txs,
           NEW how \in {"open", "applied", "failed", "rejected"}, txs' = Close(t, how)
    PROVE  TxsType' /\ TxsKept /\ Ended(t, how) /\ ~txs'[t].held
<1>1. PICK x \in Transaction : x = txs[t]
  BY DEF TxsType
<1>2. [[x EXCEPT !.end = how] EXCEPT !.held = FALSE] \in Transaction
  BY DEF Transaction
<1>3. txs' = [txs EXCEPT ![t] = [[x EXCEPT !.end = how] EXCEPT !.held = FALSE]]
  BY <1>1 DEF Close, TxsType
<1>4. PICK y \in Transaction : /\ y.end = how /\ ~y.held /\ y.paths = x.paths /\ y.by = x.by
                               /\ y.kind = x.kind /\ y.before = x.before /\ y.says = x.says
                               /\ txs' = [txs EXCEPT ![t] = y]
  BY <1>2, <1>3 DEF Transaction
<1> QED BY <1>1, <1>4 DEF TxsType, TxsKept, Ended

\* Recording the end of a transaction changes nothing else of it.
LEMMA RecordEnds ==
    ASSUME TxsType, NEW t \in DOMAIN txs,
           NEW how \in {"open", "applied", "failed", "rejected"},
           txs' = [txs EXCEPT ![t].end = how]
    PROVE  TxsType' /\ TxsKept /\ Ended(t, how) /\ txs'[t].held = txs[t].held
<1>1. PICK x \in Transaction : x = txs[t]
  BY DEF TxsType
<1>2. [x EXCEPT !.end = how] \in Transaction
  BY DEF Transaction
<1>3. txs' = [txs EXCEPT ![t] = [x EXCEPT !.end = how]]
  BY <1>1 DEF TxsType
<1>4. PICK y \in Transaction : /\ y.end = how /\ y.held = x.held /\ y.paths = x.paths
                               /\ y.by = x.by /\ y.kind = x.kind /\ y.before = x.before
                               /\ y.says = x.says /\ txs' = [txs EXCEPT ![t] = y]
  BY ZenonT(60), <1>2, <1>3 DEF Transaction
<1> QED BY <1>1, <1>4 DEF TxsType, TxsKept, Ended

\* Taking a preview for the apply changes nothing else of the transaction.
LEMMA TakeKeeps ==
    ASSUME TxsType, NEW t \in DOMAIN txs, txs' = Take(t)
    PROVE  TxsType' /\ TxsKept /\ Ended(t, txs[t].end) /\ ~txs'[t].held
<1>1. PICK x \in Transaction : x = txs[t]
  BY DEF TxsType
<1>2. [x EXCEPT !.held = FALSE] \in Transaction
  BY DEF Transaction
<1>3. txs' = [txs EXCEPT ![t] = [x EXCEPT !.held = FALSE]]
  BY <1>1 DEF TxsType, Take
<1>4. PICK y \in Transaction : /\ y.end = x.end /\ ~y.held /\ y.paths = x.paths
                               /\ y.by = x.by /\ y.kind = x.kind /\ y.before = x.before
                               /\ y.says = x.says /\ txs' = [txs EXCEPT ![t] = y]
  BY <1>2, <1>3 DEF Transaction
<1> QED BY <1>1, <1>4 DEF TxsType, TxsKept, Ended

\* A new transaction leaves the earlier ones alone.
LEMMA AppendKeeps ==
    ASSUME TxsType, NEW x \in Transaction, Len(txs) < MaxTx, txs' = Append(txs, x)
    PROVE  /\ TxsType' /\ TxsKept /\ DOMAIN txs' = DOMAIN txs \cup {Len(txs) + 1}
           /\ txs'[Len(txs) + 1] = x /\ Len(txs) + 1 \in Tx /\ Len(txs) + 1 \notin DOMAIN txs
           /\ \A s \in DOMAIN txs : txs'[s] = txs[s]
BY EditAssumption DEF TxsType, TxsKept, Tx

-----------------------------------------------------------------------------
(***************************************************************************)
(* Steps that touch no file: requests, decisions, the log.                 *)
(***************************************************************************)

\* An apply begins, starts or returns.
QuietMove(w) ==
    \/ engine'[w] = engine[w]
    \/ /\ engine[w].st \in {"none", "start", "reject"}
       /\ engine'[w].st \in {"none", "start", "reject", "check"}
       /\ engine'[w].st # "none" => engine'[w].i = 1
    \/ /\ engine[w].st \in {"completed", "failed"} /\ engine'[w].st = "none"
       /\ txs'[engine[w].t].end # "open"

\* A transaction ends: applied, or with no trace unless a roll-back failed.
EndMove(s) ==
    \/ txs'[s].end = txs[s].end
    \/ /\ txs[s].end = "open"
       /\ txs'[s].end = "applied" \/ \A f \in Files : Traced(s, f) => faults >= 2

\* A step that changes neither files nor links.
Quiet ==
    /\ UNCHANGED <<disk, backup>>
    /\ \A w \in Who : engine'[w] = engine[w] => late'[w] = late[w]
    /\ faults' \in Nat /\ faults' >= faults
    /\ evidence \subseteq evidence'
    /\ TxsKept
    /\ \A s \in DOMAIN txs : EndMove(s)
    /\ \A w \in Who : QuietMove(w)

\* Where no file changes, what the applies may rely on stays.
LEMMA QuietLooks ==
    ASSUME EditInv, EngineType', Quiet
    PROVE  Looks'
<1> SUFFICES ASSUME NEW w \in Who, Busy(w)' PROVE LooksOk(w)'
  BY DEF Looks
<1>1. CASE engine'[w] = engine[w]
  <2>1. Busy(w) /\ engine[w].t \in DOMAIN txs
    BY <1>1 DEF EditInv, EngineSound, Busy
  <2>2. Now(w)'.paths = Now(w).paths /\ Now(w)'.before = Now(w).before
    BY <1>1, <2>1 DEF Quiet, TxsKept, Now
  <2> QED BY <1>1, <2>1, <2>2 DEF EditInv, Looks, LooksOk, Still, Mine, Quiet
<1>2. CASE engine'[w] # engine[w]
  BY <1>2 DEF Quiet, QuietMove, Busy, LooksOk
<1> QED BY <1>1, <1>2

\* Where no file changes, the links stay what they have to be.
LEMMA QuietLinks ==
    ASSUME EditInv, EngineType', TxsType', EngineSound', Quiet
    PROVE  Links'
<1>1. EngineType /\ faults \in Nat
  BY TypesOfEngine DEF EditInv, TypeOK
<1>2. (\A f \in Files : backup[f] = Linked => disk[f] # Absent)'
  BY DEF EditInv, Links, Quiet
<1>3. \A w \in Who : Staged(w)'
  <2> SUFFICES ASSUME NEW w \in Who, engine'[w].st \in {"link", "rollback"}
               PROVE  Multi(w)' /\ (engine'[w].st = "rollback" => faults' >= 1)
    BY DEF Staged
  <2>1. engine'[w] = engine[w]
    BY DEF Quiet, QuietMove
  <2>2. /\ engine[w].t \in DOMAIN txs /\ Multi(w)
        /\ engine[w].st = "rollback" => faults >= 1
    BY <2>1 DEF EditInv, EngineSound, Busy, Links, Staged
  <2> QED BY <1>1, <2>1, <2>2 DEF Multi, Now, Quiet, TxsKept
<1>4. CASE engine'["agent"] = engine["agent"]
  <2>1. CASE Busy("agent")
    <3>1. engine["agent"].t \in DOMAIN txs
      BY <2>1 DEF EditInv, EngineSound, Who
    <3>2. Now("agent")'.paths = Now("agent").paths /\ Busy("agent")'
      BY <1>4, <2>1, <3>1 DEF Quiet, TxsKept, Now, Busy
    <3>3. LinksAt(engine["agent"].st, engine["agent"].i, engine["agent"].t,
                  Now("agent").paths)
      BY <2>1 DEF EditInv, Links
    <3>4. LinksAt(engine["agent"].st, engine["agent"].i, engine["agent"].t,
                  Now("agent").paths)'
      BY <1>4, <3>2, <3>3 DEF LinksAt, Quiet
    <3> QED BY <1>2, <1>3, <3>2, <3>4 DEF Links
  <2>2. CASE ~Busy("agent")
    <3>1. backup = NoLinks /\ ~Busy("agent")'
      BY <1>4, <2>2 DEF EditInv, Links, Busy
    <3> QED BY <1>2, <1>3, <3>1 DEF Links, Quiet
  <2> QED BY <2>1, <2>2
<1>5. CASE engine'["agent"] # engine["agent"]
  <2>1. backup = NoLinks
    <3>1. engine["agent"].st \in {"none", "start", "reject", "completed", "failed"}
      BY <1>5 DEF Quiet, QuietMove, Who
    <3> QED BY <3>1 DEF EditInv, Links, LinksAt, Busy
  <2>2. backup' = NoLinks /\ backup' = backup
    BY <2>1 DEF Quiet
  <2>3. CASE Busy("agent")'
    <3>1. /\ engine'["agent"].st \in {"start", "reject", "check"}
          /\ engine'["agent"].i = 1
      BY <1>5, <2>3 DEF Quiet, QuietMove, Who, Busy
    <3>2. engine'["agent"].t \in Nat
      BY <2>3, EditAssumption DEF EngineType, Busy, NoApply, ApplyRec, Who, Tx
    <3>3. \A f \in Files : backup'[f] = -3
      BY <2>2 DEF NoLinks, Unlinked
    <3>4. (\A f \in Files : backup[f] # engine["agent"].t /\ backup[f] # Linked)'
      BY <3>2, <3>3 DEF Linked
    <3>5. (\A j \in DOMAIN Now("agent").paths : ~(j < 1))'
      <4>1. engine'["agent"].t \in DOMAIN txs'
        BY <2>3 DEF EngineSound, Who
      <4>2. PICK x \in Transaction : x = txs'[engine'["agent"].t]
        BY <4>1 DEF TxsType
      <4>3. DOMAIN x.paths \subseteq Nat \ {0}
        BY DEF Transaction
      <4> QED BY <4>2, <4>3 DEF Now
    <3>6. LinksAt(engine["agent"].st, engine["agent"].i, engine["agent"].t,
                  Now("agent").paths)'
      BY <2>2, <3>1, <3>4, <3>5 DEF LinksAt
    <3> QED BY <1>2, <1>3, <2>3, <3>6 DEF Links
  <2>4. CASE ~Busy("agent")'
    BY <1>2, <1>3, <2>2, <2>4 DEF Links
  <2> QED BY <2>3, <2>4
<1> QED BY <1>4, <1>5

\* Where no file changes, every trace is still accounted for.
LEMMA QuietTraces ==
    ASSUME EditInv, EngineType', Quiet
    PROVE  Traces'
<1>1. faults \in Nat /\ EngineType
  BY TypesOfEngine DEF EditInv, TypeOK
<1> SUFFICES ASSUME NEW f \in Files, NEW t \in Tx, Traced(t, f)'
             PROVE  (/\ t \in DOMAIN txs
                     /\ <<"started", t>> \in evidence
                     /\ txs[t].end \in {"failed", "rejected"} => faults >= 2
                     /\ txs[t].end = "open" => Wrote(txs[t].by, t, f))'
  BY DEF Traces
<1>2. Traced(t, f)
  BY DEF Quiet, Traced
<1>3. /\ t \in DOMAIN txs
      /\ <<"started", t>> \in evidence
      /\ txs[t].end \in {"failed", "rejected"} => faults >= 2
      /\ txs[t].end = "open" => Wrote(txs[t].by, t, f)
  BY <1>2 DEF EditInv, Traces
<1>4. t \in DOMAIN txs' /\ <<"started", t>> \in evidence' /\ txs'[t].by = txs[t].by
  BY <1>3 DEF Quiet, TxsKept
<1>5. ASSUME txs'[t].end \in {"failed", "rejected"} PROVE faults' >= 2
  <2>1. txs'[t].end = txs[t].end \/ faults >= 2
    BY <1>2, <1>3, <1>5 DEF Quiet, EndMove
  <2> QED BY <1>1, <1>3, <1>5, <2>1 DEF Quiet
<1>6. ASSUME txs'[t].end = "open" PROVE Wrote(txs[t].by, t, f)'
  <2>1. txs[t].end = "open" \/ \A g \in Files : Traced(t, g) => faults >= 2
    BY <1>3, <1>6 DEF Quiet, EndMove
  <2>2. txs[t].end = "open"
    BY <1>3, <1>6 DEF Quiet, EndMove
  <2>3. PICK w : w = txs[t].by
    OBVIOUS
  <2>4. Wrote(w, t, f) /\ w \in Who
    <3>1. TxsType
      BY DEF EditInv, TypeOK, TxsType
    <3>2. txs[t].by \in Who
      BY <1>3, <3>1, TxRecord
    <3> QED BY <1>3, <2>2, <2>3, <3>2
  <2>5. engine'[w] = engine[w]
    <3>1. engine[w].st \in {"completed", "publish", "rollback", "failed"} /\ engine[w].t = t
      BY <2>4 DEF Wrote
    <3> QED BY <1>6, <2>4, <3>1 DEF Quiet, QuietMove
  <2>6. Now(w)'.paths = Now(w).paths
    BY <1>3, <2>4, <2>5 DEF Now, Wrote, Quiet, TxsKept
  <2>7. Wrote(w, t, f)'
    BY <1>1, <2>4, <2>5, <2>6 DEF Wrote, Busy, Quiet
  <2> QED BY <1>4, <2>3, <2>7
<1> QED BY <1>4, <1>5, <1>6

\* The types of the agent's request and of the turn's channel.
AgentType == \/ agent = NoRequest
             \/ agent \in [st : {"reviewing", "asking", "executing", "applying"},
                           t : Tx, fresh : BOOLEAN]
QueueType == queue \in Seq([t : Tx, verdict : {"approve", "reject"}])

\* The type invariant, part by part.
LEMMA TypesOfParts ==
    ASSUME TypeOK
    PROVE  /\ EngineType /\ TxsType /\ AgentType /\ QueueType
           /\ faults \in Nat /\ faults \in 0..MaxFaults
           /\ evidence \subseteq Kinds \X Tx
           /\ shown \subseteq Tx /\ approved \subseteq Tx /\ executed \subseteq Tx
<1>1. EngineType
  BY TypesOfEngine
<1>2. TxsType /\ AgentType /\ QueueType
  BY DEF TypeOK, TxsType, AgentType, QueueType
<1> QED BY <1>1, <1>2, EditAssumption DEF TypeOK

\* The parts make up the type invariant of a step that touches no file.
LEMMA PartsOfTypes ==
    ASSUME TypeOK, UNCHANGED <<disk, temps, backup, outside>>,
           UNCHANGED late \/ late' \in [Who -> SUBSET Files],
           EngineType', TxsType', AgentType', QueueType', faults' \in 0..MaxFaults,
           evidence' \subseteq Kinds \X Tx, shown' \subseteq Tx,
           approved' \subseteq Tx, executed' \subseteq Tx
    PROVE  TypeOK'
<1>1. (DOMAIN engine = Who
       /\ \A w \in Who :
         \/ engine[w] = NoApply
         \/ engine[w] \in [st : {"reject", "start", "check", "write", "link", "recheck",
                                 "publish", "rollback", "completed", "failed"},
                           t : Tx, i : Nat \ {0}])'
  BY DEF EngineType, ApplyRec, ApplyStates
<1>2. /\ disk' \in [Files -> Texts \cup {Absent}]
      /\ temps' \subseteq Tx \X Files
      /\ backup' \in [Files -> Texts \cup {Unlinked, Linked}]
      /\ outside' \in 0..MaxOutside
      /\ late' \in [Who -> SUBSET Files]
  BY DEF TypeOK
<1> QED BY <1>1, <1>2 DEF TypeOK, TxsType, AgentType, QueueType

\* A call counts its failure, within the bound.
LEMMA CallsCounts ==
    ASSUME faults \in 0..MaxFaults, NEW ok \in BOOLEAN, Calls(ok)
    PROVE  /\ faults' \in 0..MaxFaults /\ faults' \in Nat /\ faults' >= faults
           /\ ~ok => faults' = faults + 1
<1>1. CASE ok
  BY <1>1, EditAssumption DEF Calls
<1>2. CASE ~ok
  BY <1>2, EditAssumption DEF Calls
<1> QED BY <1>1, <1>2

\* What EngineSound says of one apply, and AgentSound of the request.
EngineOk(w) ==
    /\ engine[w].t \in DOMAIN txs
    /\ Now(w).by = w /\ Now(w).end = "open"
    /\ engine[w].i <= Len(Now(w).paths)
    /\ <<"prepared", engine[w].t>> \in evidence
    /\ engine[w].st = "start" => Allowed(engine[w].t)
    /\ engine[w].st \notin {"start", "reject"} =>
         ~Now(w).held /\ <<"started", engine[w].t>> \in evidence

\* EngineSound, one apply at a time.
LEMMA EngineOks ==
    /\ EngineSound <=> \A w \in Who : Busy(w) => EngineOk(w)
    /\ EngineSound' <=> \A w \in Who : Busy(w)' => EngineOk(w)'
BY DEF EngineSound, EngineOk

\* What AgentSound says of the request that waits.
RequestOk(t) == /\ t \in DOMAIN txs
                /\ txs[t].by = "agent" /\ txs[t].end = "open"
                /\ <<"prepared", t>> \in evidence

\* A preview once given up is not held again.
HeldMove(s) == txs'[s].held => txs[s].held /\ txs'[s].end = txs[s].end

\* The log and the notes of who let what through only grow.
Grows == /\ evidence \subseteq evidence' /\ approved \subseteq approved'
         /\ executed \subseteq executed'

\* An apply that does not move stays sound while its transaction is open.
LEMMA EngineStays ==
    ASSUME EditInv, TxsKept, Grows, NEW w \in Who, engine'[w] = engine[w], Busy(w)',
           txs'[engine[w].t].end = "open", HeldMove(engine[w].t)
    PROVE  EngineOk(w)'
<1>1. PICK e : e = engine[w] /\ e = engine'[w]
  OBVIOUS
<1>2. EngineOk(w)
  BY EngineOks DEF EditInv, Busy
<1>3. PICK t : t = e.t
  OBVIOUS
<1>4. /\ t \in DOMAIN txs' /\ txs'[t].by = txs[t].by /\ txs'[t].paths = txs[t].paths
      /\ txs'[t].says = txs[t].says
  BY <1>1, <1>2, <1>3 DEF TxsKept, EngineOk
<1>5. e.st = "start" => Allowed(t)'
  BY <1>1, <1>2, <1>3, <1>4 DEF EngineOk, Allowed, Grows
<1> QED BY <1>1, <1>2, <1>3, <1>4, <1>5 DEF EngineOk, Now, Grows, HeldMove

\* A request stays sound while its transaction is open.
LEMMA RequestStays ==
    ASSUME TxsKept, Grows, NEW t, RequestOk(t), txs'[t].end = "open"
    PROVE  RequestOk(t)'
BY DEF RequestOk, TxsKept, Grows

\* A transaction stays sound if at most its preview is dropped.
LEMMA TxSoundStays ==
    ASSUME TxSound, TxsKept, Grows, NEW s \in DOMAIN txs, HeldMove(s)
    PROVE  TxOk(s)'
BY DEF TxSound, TxOk, Shaped, TxsKept, Grows, HeldMove

\* A step that touches no file keeps the invariant if it keeps the rest of it.
LEMMA QuietInv ==
    ASSUME EditInv, Quiet, TypeOK', TxSound', LogSound', EngineSound', AgentSound'
    PROVE  EditInv'
<1>1. EngineType' /\ TxsType'
  BY TypesOfParts, PTL
<1> QED BY <1>1, QuietLooks, QuietLinks, QuietTraces DEF EditInv

\* A transaction that is not in the middle of being published is in no file.
LEMMA Unpublished ==
    ASSUME EditInv, NEW t \in DOMAIN txs, txs[t].end = "open",
           \/ engine[txs[t].by].st \in {"none", "start", "reject"}
           \/ engine[txs[t].by].t # t
    PROVE  \A f \in Files : ~Traced(t, f)
<1>1. t \in Tx
  BY TypesOfParts, TxRecord DEF EditInv
<1> QED BY <1>1 DEF EditInv, Traces, Wrote

\* A step that leaves the transactions alone is quiet about them.
LEMMA SameTxs ==
    ASSUME EditInv, txs' = txs
    PROVE  /\ TxsKept /\ TxsType'
           /\ \A s \in DOMAIN txs : EndMove(s) /\ HeldMove(s)
<1>1. TxsType
  BY TypesOfParts DEF EditInv
<1> QED BY <1>1 DEF TxsKept, TxsType, EndMove, HeldMove

\* Only the log may have grown: the transactions and what the log says of them.
LEMMA SameRecords ==
    ASSUME EditInv, txs' = txs, evidence' = evidence, Grows
    PROVE  TxSound' /\ LogSound'
<1>1. TxSound'
  BY DEF EditInv, TxSound, TxOk
<1>2. LogSound'
  BY DEF EditInv, LogSound
<1> QED BY <1>1, <1>2

\* A changed policy only makes a review stale.
LEMMA BumpRevisionInv == ASSUME EditInv, BumpRevision PROVE EditInv'
<1>1. EngineType /\ TxsType /\ AgentType /\ QueueType /\ faults \in Nat
  BY TypesOfParts DEF EditInv
<1>2. Grows /\ txs' = txs /\ evidence' = evidence /\ engine' = engine
  BY DEF BumpRevision, Grows
<1>3. AgentType' /\ agent'.st = agent.st /\ agent'.t = agent.t
  <2>1. PICK a \in [st : {"reviewing", "asking", "executing", "applying"},
                    t : Tx, fresh : BOOLEAN] : a = agent
    BY <1>1 DEF AgentType, BumpRevision, NoRequest
  <2>2. /\ [a EXCEPT !.fresh = FALSE].st = a.st /\ [a EXCEPT !.fresh = FALSE].t = a.t
        /\ [a EXCEPT !.fresh = FALSE] \in [st : {"reviewing", "asking", "executing", "applying"},
                                           t : Tx, fresh : BOOLEAN]
    OBVIOUS
  <2> QED BY <2>1, <2>2 DEF BumpRevision, AgentType
<1>4. TypeOK'
  BY <1>3 DEF EditInv, TypeOK, BumpRevision, AgentType
<1>5. TxsKept /\ \A s \in DOMAIN txs : EndMove(s) /\ HeldMove(s)
  BY <1>2, SameTxs
<1>6. Quiet
  BY <1>1, <1>2, <1>5 DEF Quiet, QuietMove, BumpRevision
<1>7. EngineSound'
  BY <1>2 DEF EditInv, EngineSound, Busy, Now, Allowed, BumpRevision
<1>8. AgentSound'
  BY <1>2, <1>3 DEF EditInv, AgentSound, BumpRevision
<1> QED BY <1>2, <1>4, <1>6, <1>7, <1>8, SameRecords, QuietInv

\* A decision joins the turn's channel, and an approval is noted.
LEMMA SubmitDecisionInv ==
    ASSUME EditInv, NEW t \in Tx, NEW verdict \in {"approve", "reject"}, SubmitDecision(t, verdict)
    PROVE  EditInv'
<1>1. EngineType /\ TxsType /\ QueueType /\ faults \in Nat /\ approved \subseteq Tx
  BY TypesOfParts DEF EditInv
<1>2. Grows /\ txs' = txs /\ evidence' = evidence /\ engine' = engine
  BY DEF SubmitDecision, Grows
<1>3. [t |-> t, verdict |-> verdict] \in [t : Tx, verdict : {"approve", "reject"}]
  OBVIOUS
<1>4. QueueType' /\ approved' \subseteq Tx
  BY <1>1, <1>3 DEF QueueType, SubmitDecision
<1>5. TypeOK'
  BY <1>4 DEF EditInv, TypeOK, SubmitDecision, QueueType
<1>6. TxsKept /\ \A s \in DOMAIN txs : EndMove(s) /\ HeldMove(s)
  BY <1>2, SameTxs
<1>7. Quiet
  BY <1>1, <1>2, <1>6 DEF Quiet, QuietMove, SubmitDecision
<1>8. EngineSound'
  BY <1>2 DEF EditInv, EngineSound, Busy, Now, Allowed, Grows
<1>9. AgentSound'
  <2>1. \A k \in DOMAIN queue' : queue'[k].verdict = "approve" => queue'[k].t \in approved'
    <3> SUFFICES ASSUME NEW k \in DOMAIN queue', queue'[k].verdict = "approve"
                 PROVE  queue'[k].t \in approved'
      OBVIOUS
    <3>1. CASE k \in DOMAIN queue
      BY <1>1, <1>2, <3>1 DEF QueueType, SubmitDecision, EditInv, AgentSound, Grows
    <3>2. CASE k \notin DOMAIN queue
      <4>1. queue'[k] = [t |-> t, verdict |-> verdict]
        BY <1>1, <1>3, <3>2 DEF QueueType, SubmitDecision
      <4> QED BY <4>1 DEF SubmitDecision
    <3> QED BY <3>1, <3>2
  <2>2. agent' = agent
    BY DEF SubmitDecision
  <2> QED BY <1>2, <2>1, <2>2 DEF EditInv, AgentSound
<1> QED BY <1>2, <1>5, <1>7, <1>8, <1>9, SameRecords, QuietInv

\* The turn's channel goes with the turn.
LEMMA EndTurnInv == ASSUME EditInv, EndTurn PROVE EditInv'
<1>1. EngineType /\ TxsType /\ faults \in Nat
  BY TypesOfParts DEF EditInv
<1>2. Grows /\ txs' = txs /\ evidence' = evidence /\ engine' = engine
  BY DEF EndTurn, Grows
<1>3. TypeOK'
  BY DEF EditInv, TypeOK, EndTurn
<1>4. TxsKept /\ \A s \in DOMAIN txs : EndMove(s) /\ HeldMove(s)
  BY <1>2, SameTxs
<1>5. Quiet
  BY <1>1, <1>2, <1>4 DEF Quiet, QuietMove, EndTurn
<1>6. EngineSound'
  BY <1>2 DEF EditInv, EngineSound, Busy, Now, Allowed, EndTurn
<1>7. AgentSound'
  BY <1>2 DEF EditInv, AgentSound, EndTurn
<1> QED BY <1>2, <1>3, <1>5, <1>6, <1>7, SameRecords, QuietInv

\* An apply or a rejection of a transaction is begun.
LEMMA BegunOk ==
    ASSUME EditInv, txs' = txs, Grows, NEW w \in Who, Free(w), NEW t \in DOMAIN txs,
           NEW st \in {"start", "reject"}, Begin(w, st, t),
           txs[t].by = w, txs[t].end = "open", <<"prepared", t>> \in evidence,
           st = "start" => Allowed(t)'
    PROVE  EngineType' /\ EngineSound' /\ \A v \in Who : QuietMove(v)
<1>1. EngineType /\ TxsType
  BY TypesOfParts DEF EditInv
<1>2. t \in Tx /\ st \in ApplyStates
  BY <1>1, TxRecord DEF ApplyStates
<1>3. EngineType' /\ Moved(w, st, t, 1)
  BY <1>1, <1>2, BeginMoves
<1>4. \A v \in Who : QuietMove(v)
  BY <1>1, <1>3, EngineRecord DEF Moved, QuietMove, Busy
<1>5. ASSUME NEW v \in Who, Busy(v)' PROVE EngineOk(v)'
  <2>1. CASE v = w
    <3>1. Len(txs[t].paths) >= 1
      BY DEF EditInv, TxSound, TxOk, Shaped
    <3> QED BY <1>3, <2>1, <3>1 DEF EngineOk, Moved, Now, Grows
  <2>2. CASE v # w
    <3>1. engine'[v] = engine[v]
      BY <1>3, <2>2 DEF Moved
    <3>2. engine[v].t \in DOMAIN txs /\ txs'[engine[v].t].end = "open"
      BY <1>5, <3>1 DEF EditInv, EngineSound, Busy, Now
    <3> QED BY <1>5, <3>1, <3>2, EngineStays, SameTxs
  <2> QED BY <2>1, <2>2
<1> QED BY <1>3, <1>4, <1>5, EngineOks

\* The user's decision on an own edit begins an apply of a held preview.
LEMMA LocalDecideInv ==
    ASSUME EditInv, NEW t \in Tx, NEW verdict \in {"approve", "reject"}, LocalDecide(t, verdict)
    PROVE  EditInv'
<1>1. /\ EngineType /\ TxsType /\ AgentType /\ QueueType /\ faults \in 0..MaxFaults
      /\ evidence \subseteq Kinds \X Tx /\ faults \in Nat
      /\ shown \subseteq Tx /\ approved \subseteq Tx /\ executed \subseteq Tx
  BY TypesOfParts DEF EditInv
<1>2. /\ Grows /\ txs' = txs /\ evidence' = evidence /\ approved' \subseteq Tx
      /\ agent' = agent /\ queue' = queue /\ shown' = shown /\ executed' = executed
      /\ UNCHANGED <<disk, temps, backup, outside, late>>
  BY <1>1 DEF LocalDecide, Grows
<1>3. /\ t \in DOMAIN txs /\ txs[t].by = "local" /\ txs[t].end = "open"
      /\ <<"prepared", t>> \in evidence /\ Free("local")
  BY DEF LocalDecide, EditInv, TxSound, TxOk
<1>4. /\ faults' \in 0..MaxFaults /\ faults' \in Nat /\ faults' >= faults
      /\ \/ Begin("local", "start", t) /\ t \in approved'
         \/ Begin("local", "reject", t)
         \/ engine' = engine
  <2>1. CASE verdict = "approve"
    BY <1>1, <2>1 DEF LocalDecide
  <2>2. CASE verdict # "approve"
    <3>1. PICK ok \in BOOLEAN : Calls(ok) /\ (Begin("local", "reject", t) \/ engine' = engine)
      BY <2>2 DEF LocalDecide
    <3> QED BY <1>1, <3>1, CallsCounts
  <2> QED BY <2>1, <2>2
<1>5. EngineType' /\ EngineSound' /\ \A v \in Who : QuietMove(v)
  <2>1. CASE Begin("local", "start", t) /\ t \in approved'
    BY <1>2, <1>3, <2>1, BegunOk DEF Who, Allowed
  <2>2. CASE Begin("local", "reject", t)
    BY <1>2, <1>3, <2>2, BegunOk DEF Who
  <2>3. CASE engine' = engine
    BY <1>1, <1>2, <2>3 DEF EngineType, EditInv, EngineSound, Busy, Now, Allowed, Grows,
       QuietMove
  <2> QED BY <1>4, <2>1, <2>2, <2>3
<1>6. TxsKept /\ TxsType' /\ \A s \in DOMAIN txs : EndMove(s) /\ HeldMove(s)
  BY <1>2, SameTxs
<1>7. AgentType' /\ QueueType' /\ AgentSound'
  BY <1>1, <1>2 DEF AgentType, QueueType, EditInv, AgentSound, Grows
<1>8. TypeOK'
  BY <1>1, <1>2, <1>4, <1>5, <1>6, <1>7, PartsOfTypes DEF EditInv
<1>9. Quiet
  BY <1>2, <1>4, <1>5, <1>6 DEF Quiet, Grows
<1> QED BY <1>2, <1>5, <1>7, <1>8, <1>9, SameRecords, QuietInv

\* A transaction is closed that is in no file, and no apply of it goes on.
LEMMA ClosedOk ==
    ASSUME EditInv, Grows, NEW t \in DOMAIN txs, NEW how \in {"failed", "rejected"},
           txs' = Close(t, how), txs[t].end = "open", \A f \in Files : ~Traced(t, f)
    PROVE  /\ TxsType' /\ TxsKept /\ DOMAIN txs' = DOMAIN txs /\ TxSound'
           /\ \A s \in DOMAIN txs : EndMove(s) /\ HeldMove(s)
           /\ \A s \in DOMAIN txs \ {t} : txs'[s] = txs[s]
           /\ txs'[t].end = how
<1>1. TxsType
  BY TypesOfParts DEF EditInv
<1>2. TxsType' /\ TxsKept /\ Ended(t, how) /\ ~txs'[t].held
  BY <1>1, CloseEnds
<1>3. \A s \in DOMAIN txs : EndMove(s) /\ HeldMove(s)
  BY <1>2 DEF Ended, EndMove, HeldMove
<1>4. TxSound'
  <2>1. TxSound
    BY DEF EditInv
  <2> QED BY <1>2, <1>3, <2>1, TxSoundStays DEF TxSound, Ended
<1> QED BY <1>2, <1>3, <1>4 DEF Ended

\* The log starts nothing that it has not seen prepared.
LEMMA LogStays ==
    ASSUME EditInv, DOMAIN txs \subseteq DOMAIN txs', evidence \subseteq evidence',
           \A t \in Tx : <<"started", t>> \in evidence' =>
               <<"started", t>> \in evidence \/ (t \in DOMAIN txs /\ <<"prepared", t>> \in evidence)
    PROVE  LogSound'
BY DEF EditInv, LogSound

\* The applies that a step leaves alone stay sound.
LEMMA OthersStay ==
    ASSUME EditInv, TxsKept, Grows, NEW w \in Who, Busy(w)', engine'[w] = engine[w],
           \A s \in DOMAIN txs : HeldMove(s),
           NEW t, txs[t].by # w \/ engine[w].t # t,
           \A s \in DOMAIN txs \ {t} : txs'[s] = txs[s]
    PROVE  EngineOk(w)'
<1>1. engine[w].t \in DOMAIN txs /\ txs[engine[w].t].end = "open" /\ txs[engine[w].t].by = w
  BY DEF EditInv, EngineSound, Busy, Now
<1> QED BY <1>1, EngineStays

\* The review begins an apply of the request it is about, or asks the user.
LEMMA ReviewEndsInv ==
    ASSUME EditInv, NEW assessed \in {"execute", "human", "hold"}, ReviewEnds(assessed)
    PROVE  EditInv'
<1>1. /\ EngineType /\ TxsType /\ AgentType /\ QueueType /\ faults \in 0..MaxFaults
      /\ evidence \subseteq Kinds \X Tx /\ faults \in Nat
      /\ shown \subseteq Tx /\ approved \subseteq Tx /\ executed \subseteq Tx
  BY TypesOfParts DEF EditInv
<1>2. PICK a \in [st : {"reviewing", "asking", "executing", "applying"},
                  t : Tx, fresh : BOOLEAN] : a = agent
  BY <1>1 DEF AgentType, ReviewEnds, NoRequest
<1>3. /\ a.t \in DOMAIN txs /\ txs[a.t].by = "agent" /\ txs[a.t].end = "open"
      /\ <<"prepared", a.t>> \in evidence /\ Free("agent")
  BY <1>2 DEF EditInv, AgentSound, ReviewEnds
<1>4. \A st \in {"asking", "executing", "applying"} :
        /\ [a EXCEPT !.st = st] \in [st : {"reviewing", "asking", "executing", "applying"},
                                     t : Tx, fresh : BOOLEAN]
        /\ [a EXCEPT !.st = st].st = st /\ [a EXCEPT !.st = st].t = a.t
  OBVIOUS
<1>5. /\ txs' = txs /\ evidence' = evidence /\ approved' = approved /\ queue' = queue
      /\ UNCHANGED <<disk, temps, backup, outside, late>> /\ faults' = faults
  BY DEF ReviewEnds
<1>6. /\ executed \subseteq executed' /\ executed' \subseteq Tx /\ shown' \subseteq Tx
      /\ \E st \in {"asking", "executing", "applying"} : agent' = [a EXCEPT !.st = st]
      /\ \/ Begin("agent", "start", a.t) /\ a.t \in executed'
         \/ Begin("agent", "reject", a.t)
         \/ engine' = engine
  <2>1. CASE Route(assessed) = "execute"
    <3>1. a.fresh
      BY <1>2, <2>1 DEF Route
    <3> QED BY <1>1, <1>2, <2>1, <3>1 DEF ReviewEnds
  <2>2. CASE Route(assessed) = "human"
    BY <1>1, <1>2, <2>2 DEF ReviewEnds
  <2>3. CASE Route(assessed) = "hold"
    BY <1>1, <1>2, <2>3 DEF ReviewEnds
  <2> QED BY <2>1, <2>2, <2>3 DEF ReviewEnds
<1>7. Grows
  BY <1>5, <1>6 DEF Grows
<1>8. AgentType' /\ agent'.t = a.t /\ QueueType'
  BY <1>1, <1>4, <1>5, <1>6 DEF AgentType, QueueType
<1>9. AgentSound'
  BY <1>3, <1>5, <1>8 DEF EditInv, AgentSound
<1>10. EngineType' /\ EngineSound' /\ \A v \in Who : QuietMove(v)
  <2>1. CASE Begin("agent", "start", a.t) /\ a.t \in executed'
    BY <1>3, <1>5, <1>7, <2>1, BegunOk DEF Who, Allowed
  <2>2. CASE Begin("agent", "reject", a.t)
    BY <1>3, <1>5, <1>7, <2>2, BegunOk DEF Who
  <2>3. CASE engine' = engine
    BY <1>1, <1>5, <1>7, <2>3 DEF EngineType, EditInv, EngineSound, Busy, Now, Allowed,
       Grows,
       QuietMove
  <2> QED BY <1>6, <2>1, <2>2, <2>3
<1>11. TxsKept /\ TxsType' /\ \A s \in DOMAIN txs : EndMove(s) /\ HeldMove(s)
  BY <1>5, SameTxs
<1>12. TypeOK'
  BY <1>1, <1>5, <1>6, <1>8, <1>10, <1>11, PartsOfTypes DEF EditInv
<1>13. Quiet
  BY <1>1, <1>5, <1>10, <1>11 DEF Quiet
<1> QED BY <1>5, <1>7, <1>9, <1>10, <1>12, <1>13, SameRecords, QuietInv

\* The request of the turn ends before any apply of it.
LEMMA RequestFailsInv ==
    ASSUME EditInv, Free("agent"), agent.st # "none", txs' = Close(agent.t, "failed"), Breaks,
           faults' \in 0..MaxFaults, faults' \in Nat, faults' >= faults,
           UNCHANGED <<disk, temps, backup, evidence, shown, engine, outside,
                       approved, executed, late>>
    PROVE  EditInv'
<1>1. /\ EngineType /\ TxsType /\ evidence \subseteq Kinds \X Tx
      /\ shown \subseteq Tx /\ approved \subseteq Tx /\ executed \subseteq Tx
  BY TypesOfParts DEF EditInv
<1>2. PICK t : t = agent.t
  OBVIOUS
<1>3. t \in DOMAIN txs /\ txs[t].by = "agent" /\ txs[t].end = "open"
  BY <1>2 DEF EditInv, AgentSound
<1>4. engine["agent"].st = "none"
  BY DEF Free, NoApply
<1>5. \A f \in Files : ~Traced(t, f)
  BY <1>3, <1>4, Unpublished
<1>6. Grows
  BY DEF Grows
<1>7. /\ TxsType' /\ TxsKept /\ DOMAIN txs' = DOMAIN txs /\ TxSound'
      /\ \A s \in DOMAIN txs : EndMove(s) /\ HeldMove(s)
      /\ \A s \in DOMAIN txs \ {t} : txs'[s] = txs[s]
  BY <1>2, <1>3, <1>5, <1>6, ClosedOk
<1>8. AgentType' /\ QueueType' /\ AgentSound'
  BY DEF Breaks, AgentType, QueueType, AgentSound, NoRequest
<1>9. EngineSound'
  <2>1. ASSUME NEW w \in Who, Busy(w)' PROVE EngineOk(w)'
    <3>1. w # "agent" /\ txs[t].by # w
      BY <1>3, <1>4, <2>1 DEF Busy
    <3> QED BY <1>6, <1>7, <2>1, <3>1, OthersStay
  <2> QED BY <2>1, EngineOks
<1>10. LogSound'
  BY <1>7, LogStays
<1>11. EngineType'
  BY <1>1 DEF EngineType
<1>12. TypeOK'
  BY <1>1, <1>7, <1>8, <1>11, PartsOfTypes DEF EditInv
<1>13. Quiet
  BY <1>7 DEF Quiet, QuietMove
<1> QED BY <1>7, <1>8, <1>9, <1>10, <1>12, <1>13, QuietInv

\* A request that is given up while it waits has written nothing.
LEMMA InterruptInv == ASSUME EditInv, Interrupt PROVE EditInv'
<1>1. faults \in Nat /\ faults \in 0..MaxFaults
  BY TypesOfParts DEF EditInv
<1> QED BY <1>1, RequestFailsInv DEF Interrupt

\* The channel after its head is taken.
LEMMA TailShifts ==
    ASSUME NEW S, NEW q \in Seq(S), q # <<>>
    PROVE  /\ Tail(q) \in Seq(S)
           /\ \A k \in DOMAIN Tail(q) : k + 1 \in DOMAIN q /\ Tail(q)[k] = q[k + 1]
OBVIOUS

\* A decision that matches begins an apply, another one ends the request.
LEMMA TakeDecisionInv == ASSUME EditInv, TakeDecision PROVE EditInv'
<1>1. /\ EngineType /\ TxsType /\ AgentType /\ QueueType /\ faults \in 0..MaxFaults
      /\ evidence \subseteq Kinds \X Tx /\ faults \in Nat
      /\ shown \subseteq Tx /\ approved \subseteq Tx /\ executed \subseteq Tx
  BY TypesOfParts DEF EditInv
<1>2. PICK ok \in BOOLEAN :
        /\ Calls(ok)
        /\ IF ~Matches(Head(queue)) \/ ~ok
           THEN txs' = Close(agent.t, "failed") /\ Breaks /\ UNCHANGED engine
           ELSE /\ agent' = [agent EXCEPT !.st = "applying"]
                /\ queue' = Tail(queue)
                /\ Begin("agent", IF Head(queue).verdict = "approve" THEN "start" ELSE "reject",
                         agent.t)
                /\ UNCHANGED txs
  BY DEF TakeDecision
<1>3. faults' \in 0..MaxFaults /\ faults' \in Nat /\ faults' >= faults
  BY <1>1, <1>2, CallsCounts
<1>4. /\ UNCHANGED <<disk, temps, backup, evidence, shown, outside, approved, executed, late>>
      /\ Free("agent") /\ agent.st # "none" /\ queue # <<>>
  BY DEF TakeDecision
<1>5. CASE ~Matches(Head(queue)) \/ ~ok
  BY <1>2, <1>3, <1>4, <1>5, RequestFailsInv
<1>6. CASE Matches(Head(queue)) /\ ok
  <2>1. PICK a \in [st : {"reviewing", "asking", "executing", "applying"},
                    t : Tx, fresh : BOOLEAN] : a = agent
    BY <1>1, <1>4 DEF AgentType, NoRequest
  <2>2. /\ a.t \in DOMAIN txs /\ txs[a.t].by = "agent" /\ txs[a.t].end = "open"
        /\ <<"prepared", a.t>> \in evidence
    BY <1>4, <2>1 DEF EditInv, AgentSound
  <2>3. /\ AgentType' /\ agent'.t = a.t
    <3>1. /\ [a EXCEPT !.st = "applying"] \in
                [st : {"reviewing", "asking", "executing", "applying"}, t : Tx, fresh : BOOLEAN]
          /\ [a EXCEPT !.st = "applying"].t = a.t
      OBVIOUS
    <3> QED BY <1>2, <1>6, <2>1, <3>1 DEF AgentType
  <2>4. PICK st \in {"start", "reject"} :
          /\ Begin("agent", st, a.t)
          /\ st = "start" => Head(queue).verdict = "approve"
    BY <1>2, <1>6, <2>1
  <2>5. QueueType' /\ \A k \in DOMAIN queue' : k + 1 \in DOMAIN queue /\ queue'[k] = queue[k + 1]
    BY <1>1, <1>2, <1>4, <1>6, TailShifts DEF QueueType
  <2>6. st = "start" => a.t \in approved
    <3>1. 1 \in DOMAIN queue /\ Head(queue) = queue[1]
      BY <1>1, <1>4 DEF QueueType
    <3> QED BY <1>6, <2>1, <2>4, <3>1 DEF Matches, EditInv, AgentSound
  <2>7. Grows /\ txs' = txs
    BY <1>2, <1>4, <1>6 DEF Grows
  <2>8. EngineType' /\ EngineSound' /\ \A v \in Who : QuietMove(v)
    <3>1. st = "start" => Allowed(a.t)'
      BY <1>4, <2>6 DEF Allowed
    <3> QED BY <1>4, <2>2, <2>4, <2>7, <3>1, BegunOk DEF Who
  <2>9. AgentSound'
    BY <1>4, <2>2, <2>3, <2>5, <2>7 DEF EditInv, AgentSound
  <2>10. TxsKept /\ TxsType' /\ \A s \in DOMAIN txs : EndMove(s) /\ HeldMove(s)
    BY <2>7, SameTxs
  <2>11. TypeOK'
    BY <1>1, <1>3, <1>4, <2>3, <2>5, <2>8, <2>10, PartsOfTypes DEF EditInv
  <2>12. Quiet
    BY <1>3, <1>4, <2>8, <2>10 DEF Quiet
  <2> QED BY <1>4, <2>7, <2>8, <2>9, <2>11, <2>12, SameRecords, QuietInv
<1> QED BY <1>5, <1>6

\* The turn after one of its applies, or one of the user's, has returned.
TurnAfter(w) ==
    \/ w = "local" /\ agent' = agent /\ queue' = queue
    \/ agent' = NoRequest /\ queue' \in {queue, <<>>}

\* Whatever becomes of the turn, the request that waits is sound.
LEMMA TurnAfterOk ==
    ASSUME EditInv, NEW w \in Who, TurnAfter(w), NEW t \in DOMAIN txs, txs[t].by = w, TxsKept,
           Grows, \A s \in DOMAIN txs \ {t} : txs'[s] = txs[s]
    PROVE  AgentType' /\ QueueType' /\ AgentSound'
<1>1. AgentType /\ QueueType
  BY TypesOfParts DEF EditInv
<1>2. CASE w = "local" /\ agent' = agent /\ queue' = queue
  <2>1. agent.st # "none" => RequestOk(agent.t) /\ agent.t # t
    BY <1>2 DEF EditInv, AgentSound, RequestOk
  <2>2. agent.st # "none" => RequestOk(agent.t)'
    <3>1. PICK r : r = agent.t
      OBVIOUS
    <3>2. ASSUME agent.st # "none" PROVE RequestOk(r)'
      <4>1. RequestOk(r) /\ txs'[r].end = "open"
        BY <2>1, <3>1, <3>2 DEF RequestOk
      <4> QED BY <4>1, RequestStays
    <3> QED BY <1>2, <3>1, <3>2 DEF RequestOk
  <2>3. AgentSound'
    BY <1>2, <2>2 DEF EditInv, AgentSound, RequestOk, Grows
  <2> QED BY <1>1, <1>2, <2>3 DEF AgentType, QueueType
<1>3. CASE agent' = NoRequest /\ queue' \in {queue, <<>>}
  <2>1. \A k \in DOMAIN queue' : queue'[k].verdict = "approve" => queue'[k].t \in approved'
    BY <1>3 DEF EditInv, AgentSound, Grows
  <2>2. QueueType'
    <3>1. CASE queue' = queue
      BY <1>1, <3>1 DEF QueueType
    <3>2. CASE queue' = <<>>
      BY <3>2 DEF QueueType
    <3> QED BY <1>3, <3>1, <3>2
  <2>3. AgentType' /\ agent'.st = "none"
    BY <1>3 DEF AgentType, NoRequest
  <2> QED BY <2>1, <2>2, <2>3 DEF AgentSound
<1> QED BY <1>2, <1>3 DEF TurnAfter

\* An apply that returns leaves the turn in one of these ways.
LEMMA ReturnsAfter ==
    ASSUME EditInv, NEW w \in Who, Busy(w), NEW r, Returns(w, r)
    PROVE  TurnAfter(w) /\ engine' = [engine EXCEPT ![w] = NoApply]
<1>1. Now(w).by = w
  BY DEF EditInv, EngineSound
<1> QED BY <1>1 DEF Returns, TurnAfter, Continues, Breaks, Who

\* When one apply ends, the other stays sound.
LEMMA EndedOk ==
    ASSUME EditInv, NEW w \in Who, Busy(w), engine' = [engine EXCEPT ![w] = NoApply],
           TxsKept, Grows, \A s \in DOMAIN txs : HeldMove(s),
           \A s \in DOMAIN txs \ {engine[w].t} : txs'[s] = txs[s],
           \/ engine[w].st \in {"start", "reject"}
           \/ engine[w].st \in {"completed", "failed"} /\ txs'[engine[w].t].end # "open"
    PROVE  EngineType' /\ EngineSound' /\ \A v \in Who : QuietMove(v)
<1>1. EngineType
  BY TypesOfParts DEF EditInv
<1>2. /\ EngineType' /\ engine'[w].st = "none"
      /\ \A v \in Who \ {w} : engine'[v] = engine[v]
  BY <1>1, EndMoves
<1>3. \A v \in Who : QuietMove(v)
  BY <1>2 DEF QuietMove
<1>4. ASSUME NEW v \in Who, Busy(v)' PROVE EngineOk(v)'
  <2>1. v # w /\ engine'[v] = engine[v]
    BY <1>2, <1>4 DEF Busy
  <2>2. txs[engine[w].t].by # v
    BY <2>1 DEF EditInv, EngineSound, Now
  <2> QED BY <1>4, <2>1, <2>2, OthersStay
<1> QED BY <1>2, <1>3, <1>4, EngineOks

\* A rejected transaction has written nothing.
LEMMA RejectInv == ASSUME EditInv, NEW w \in Who, Reject(w) PROVE EditInv'
<1>1. /\ EngineType /\ TxsType /\ faults \in 0..MaxFaults /\ evidence \subseteq Kinds \X Tx
      /\ shown \subseteq Tx /\ approved \subseteq Tx /\ executed \subseteq Tx
  BY TypesOfParts DEF EditInv
<1>2. Busy(w) /\ engine[w].st = "reject"
  BY DEF Reject, Busy
<1>3. PICK t : t = engine[w].t
  OBVIOUS
<1>4. t \in DOMAIN txs /\ txs[t].by = w /\ txs[t].end = "open"
  BY <1>2, <1>3 DEF EditInv, EngineSound, Now
<1>5. PICK ok \in BOOLEAN :
        /\ Calls(ok)
        /\ evidence' = IF ok THEN evidence \cup {<<"failed", engine[w].t>>} ELSE evidence
        /\ Returns(w, ok)
  BY DEF Reject
<1>6. faults' \in 0..MaxFaults /\ faults' \in Nat /\ faults' >= faults
  BY <1>1, <1>5, CallsCounts
<1>7. /\ UNCHANGED <<disk, temps, backup, shown, outside, approved, executed, late>>
      /\ txs' = Close(t, "rejected")
  BY <1>3 DEF Reject
<1>8. t \in Tx
  BY <1>1, <1>4, TxRecord
<1>9. evidence' \subseteq Kinds \X Tx /\ Grows
  BY <1>1, <1>3, <1>5, <1>7, <1>8 DEF Kinds, Grows
<1>10. \A f \in Files : ~Traced(t, f)
  BY <1>2, <1>4, Unpublished
<1>11. /\ TxsType' /\ TxsKept /\ DOMAIN txs' = DOMAIN txs /\ TxSound'
       /\ \A s \in DOMAIN txs : EndMove(s) /\ HeldMove(s)
       /\ \A s \in DOMAIN txs \ {t} : txs'[s] = txs[s]
  BY <1>4, <1>7, <1>9, <1>10, ClosedOk
<1>12. TurnAfter(w) /\ engine' = [engine EXCEPT ![w] = NoApply]
  BY <1>2, <1>5, ReturnsAfter
<1>13. AgentType' /\ QueueType' /\ AgentSound'
  BY <1>4, <1>9, <1>11, <1>12, TurnAfterOk
<1>14. EngineType' /\ EngineSound' /\ \A v \in Who : QuietMove(v)
  BY <1>2, <1>3, <1>9, <1>11, <1>12, EndedOk
<1>15. LogSound'
  <2>1. \A s \in Tx : <<"started", s>> \in evidence' => <<"started", s>> \in evidence
    BY <1>5
  <2> QED BY <1>9, <1>11, <2>1, LogStays DEF Grows
<1>16. TypeOK'
  BY <1>1, <1>6, <1>7, <1>9, <1>11, <1>13, <1>14, PartsOfTypes DEF EditInv
<1>17. Quiet
  BY <1>6, <1>7, <1>9, <1>11, <1>14 DEF Quiet, Grows
<1> QED BY <1>11, <1>13, <1>14, <1>15, <1>16, <1>17, QuietInv

\* A transaction ends applied with all its texts, or failed with none, unless a
\* roll-back failed.
LEMMA RecordInv == ASSUME EditInv, NEW w \in Who, Record(w) PROVE EditInv'
<1>1. /\ EngineType /\ TxsType /\ faults \in 0..MaxFaults /\ evidence \subseteq Kinds \X Tx
      /\ shown \subseteq Tx /\ approved \subseteq Tx /\ executed \subseteq Tx
  BY TypesOfParts DEF EditInv
<1>2. Busy(w) /\ engine[w].st \in {"completed", "failed"}
  BY DEF Record, Busy
<1>3. PICK t : t = engine[w].t
  OBVIOUS
<1>4. t \in DOMAIN txs /\ txs[t].by = w /\ txs[t].end = "open" /\ ~txs[t].held
  BY <1>2, <1>3 DEF EditInv, EngineSound, Now
<1>5. PICK ok \in BOOLEAN :
        /\ Calls(ok)
        /\ evidence' = IF ok THEN evidence \cup {<<engine[w].st, engine[w].t>>} ELSE evidence
  BY DEF Record
<1>6. faults' \in 0..MaxFaults /\ faults' \in Nat /\ faults' >= faults
  BY <1>1, <1>5, CallsCounts
<1>7. PICK how \in {"open", "applied", "failed", "rejected"} :
        /\ how = IF engine[w].st = "completed" THEN "applied" ELSE "failed"
  OBVIOUS
<1>8. /\ UNCHANGED <<disk, temps, backup, shown, outside, approved, executed, late>>
      /\ txs' = [txs EXCEPT ![t].end = how]
      /\ Returns(w, engine[w].st = "completed")
  BY <1>3, <1>7 DEF Record
<1>9. t \in Tx
  BY <1>1, <1>4, TxRecord
<1>10. evidence' \subseteq Kinds \X Tx /\ Grows
  BY <1>1, <1>2, <1>3, <1>5, <1>8, <1>9 DEF Kinds, Grows
<1>11. TxsType' /\ TxsKept /\ Ended(t, how) /\ txs'[t].held = txs[t].held
  BY <1>1, <1>4, <1>8, RecordEnds
<1>12. how = "failed" => \A f \in Files : Traced(t, f) => faults >= 2
  BY <1>2, <1>3, <1>4, <1>7, <1>9 DEF EditInv, Traces, Wrote
<1>13. \A s \in DOMAIN txs : EndMove(s) /\ HeldMove(s)
  BY <1>4, <1>7, <1>11, <1>12 DEF Ended, EndMove, HeldMove
<1>14. TxSound'
  <2>1. TxSound
    BY DEF EditInv
  <2> QED BY <1>10, <1>11, <1>13, <2>1, TxSoundStays DEF TxSound, Ended
<1>15. TurnAfter(w) /\ engine' = [engine EXCEPT ![w] = NoApply]
  BY <1>2, <1>8, ReturnsAfter
<1>16. AgentType' /\ QueueType' /\ AgentSound'
  BY <1>4, <1>10, <1>11, <1>15, TurnAfterOk DEF Ended
<1>17. EngineType' /\ EngineSound' /\ \A v \in Who : QuietMove(v)
  <2>1. txs'[t].end # "open" /\ \A s \in DOMAIN txs \ {t} : txs'[s] = txs[s]
    BY <1>7, <1>11 DEF Ended
  <2> QED BY <1>2, <1>3, <1>10, <1>11, <1>13, <1>15, <2>1, EndedOk
<1>18. LogSound'
  <2>1. \A s \in Tx : <<"started", s>> \in evidence' => <<"started", s>> \in evidence
    BY <1>2, <1>5
  <2> QED BY <1>10, <1>11, <2>1, LogStays DEF Grows, Ended
<1>19. TypeOK'
  BY <1>1, <1>6, <1>8, <1>10, <1>11, <1>16, <1>17, PartsOfTypes DEF EditInv
<1>20. Quiet
  BY <1>6, <1>8, <1>10, <1>11, <1>13, <1>17 DEF Quiet, Grows
<1> QED BY <1>14, <1>16, <1>17, <1>18, <1>19, <1>20, QuietInv

\* The log knows of the apply before it begins.
LEMMA StartInv == ASSUME EditInv, NEW w \in Who, Start(w) PROVE EditInv'
<1>1. /\ EngineType /\ TxsType /\ AgentType /\ QueueType /\ faults \in 0..MaxFaults
      /\ evidence \subseteq Kinds \X Tx
      /\ shown \subseteq Tx /\ approved \subseteq Tx /\ executed \subseteq Tx
  BY TypesOfParts DEF EditInv
<1>2. Busy(w) /\ engine[w].st = "start"
  BY DEF Start, Busy
<1>3. PICK t : t = engine[w].t
  OBVIOUS
<1>4. /\ t \in DOMAIN txs /\ txs[t].by = w /\ txs[t].end = "open"
      /\ <<"prepared", t>> \in evidence /\ Len(txs[t].paths) >= 1
  BY <1>2, <1>3 DEF EditInv, EngineSound, TxSound, TxOk, Shaped, Now
<1>5. /\ UNCHANGED <<disk, temps, backup, shown, outside, approved, executed>>
      /\ \E ok \in BOOLEAN :
           /\ Calls(ok)
           /\ \/ /\ evidence' = evidence \cup {<<"started", t>>}
                 /\ txs' = Take(t) /\ To(w, "check", 1)
                 /\ late' = [late EXCEPT ![w] = {}] /\ UNCHANGED <<agent, queue>>
              \/ /\ evidence' = evidence /\ UNCHANGED late
                 /\ engine' = [engine EXCEPT ![w] = NoApply]
                 /\ IF txs[t].by = "agent" THEN txs' = Close(t, "failed") /\ Breaks
                                           ELSE UNCHANGED <<txs, agent, queue>>
  BY <1>3 DEF Start, WriteAheadOk, Now
<1>6. faults' \in 0..MaxFaults /\ faults' \in Nat /\ faults' >= faults
  BY <1>1, <1>5, CallsCounts
<1>7. t \in Tx
  BY <1>1, <1>4, TxRecord
<1>8. evidence' \subseteq Kinds \X Tx /\ Grows
  BY <1>1, <1>5, <1>7 DEF Kinds, Grows
<1>9. CASE /\ evidence' = evidence \cup {<<"started", t>>}
           /\ txs' = Take(t) /\ To(w, "check", 1)
           /\ late' = [late EXCEPT ![w] = {}] /\ UNCHANGED <<agent, queue>>
  <2>1. TxsType' /\ TxsKept /\ Ended(t, txs[t].end) /\ ~txs'[t].held
    BY <1>1, <1>4, <1>9, TakeKeeps
  <2>2. \A s \in DOMAIN txs : EndMove(s) /\ HeldMove(s)
    BY <2>1 DEF Ended, EndMove, HeldMove
  <2>3. TxSound'
    <3>1. TxSound
      BY DEF EditInv
    <3> QED BY <1>8, <2>1, <2>2, <3>1, TxSoundStays DEF TxSound, Ended
  <2>4. EngineType' /\ Moved(w, "check", t, 1)
    BY <1>1, <1>2, <1>3, <1>9, ToMoves DEF ApplyStates
  <2>5. \A v \in Who : QuietMove(v)
    BY <1>2, <2>4 DEF Moved, QuietMove
  <2>6. ASSUME NEW v \in Who, Busy(v)' PROVE EngineOk(v)'
    <3>1. CASE v = w
      BY <1>4, <1>9, <2>1, <2>4, <3>1 DEF EngineOk, Moved, Now, Ended, TxsKept
    <3>2. CASE v # w
      <4>1. engine'[v] = engine[v] /\ txs[t].by # v
        BY <1>4, <2>4, <3>2 DEF Moved
      <4> QED BY <1>8, <2>1, <2>2, <2>6, <4>1, OthersStay DEF Ended
    <3> QED BY <3>1, <3>2
  <2>7. EngineSound'
    BY <2>6, EngineOks
  <2>8. AgentSound'
    <3>1. PICK r : r = agent.t
      OBVIOUS
    <3>2. ASSUME agent.st # "none" PROVE RequestOk(r)'
      <4>1. RequestOk(r) /\ txs'[r].end = "open"
        BY <1>4, <2>1, <3>1, <3>2 DEF EditInv, AgentSound, RequestOk, Ended
      <4> QED BY <1>8, <2>1, <4>1, RequestStays
    <3> QED BY <1>5, <1>9, <3>1, <3>2 DEF EditInv, AgentSound, RequestOk
  <2>9. LogSound'
    <3>1. \A s \in Tx : <<"started", s>> \in evidence' => <<"started", s>> \in evidence \/ s = t
      BY <1>9
    <3> QED BY <1>4, <1>8, <2>1, <3>1, LogStays DEF Grows, Ended
  <2>10. AgentType' /\ QueueType' /\ late' \in [Who -> SUBSET Files]
    BY <1>1, <1>9 DEF AgentType, QueueType, EditInv, TypeOK
  <2>11. TypeOK'
    BY <1>1, <1>5, <1>6, <1>8, <2>1, <2>4, <2>10, PartsOfTypes DEF EditInv
  <2>12. \A v \in Who : engine'[v] = engine[v] => late'[v] = late[v]
    BY <1>2, <1>9, <2>4 DEF Moved, EditInv, TypeOK
  <2>13. Quiet
    BY <1>5, <1>6, <1>8, <2>1, <2>2, <2>5, <2>12 DEF Quiet, Grows
  <2> QED BY <2>3, <2>7, <2>8, <2>9, <2>11, <2>13, QuietInv
<1>10. CASE /\ evidence' = evidence /\ UNCHANGED late
            /\ engine' = [engine EXCEPT ![w] = NoApply]
            /\ IF txs[t].by = "agent" THEN txs' = Close(t, "failed") /\ Breaks
                                      ELSE UNCHANGED <<txs, agent, queue>>
  <2>1. /\ TxsType' /\ TxsKept /\ DOMAIN txs' = DOMAIN txs /\ TxSound'
        /\ \A s \in DOMAIN txs : EndMove(s) /\ HeldMove(s)
        /\ \A s \in DOMAIN txs \ {t} : txs'[s] = txs[s]
    <3>1. CASE txs[t].by = "agent"
      <4>1. \A f \in Files : ~Traced(t, f)
        BY <1>2, <1>4, Unpublished
      <4> QED BY <1>4, <1>8, <1>10, <3>1, <4>1, ClosedOk
    <3>2. CASE txs[t].by # "agent"
      <4>1. txs' = txs
        BY <1>10, <3>2
      <4> QED BY <1>8, <1>10, <4>1, SameTxs, SameRecords
    <3> QED BY <3>1, <3>2
  <2>2. TurnAfter(w)
    BY <1>4, <1>10 DEF TurnAfter, Breaks, Who
  <2>3. AgentType' /\ QueueType' /\ AgentSound'
    BY <1>4, <1>8, <2>1, <2>2, TurnAfterOk
  <2>4. EngineType' /\ EngineSound' /\ \A v \in Who : QuietMove(v)
    BY <1>2, <1>3, <1>8, <1>10, <2>1, EndedOk
  <2>5. LogSound'
    BY <1>8, <1>10, <2>1, LogStays
  <2>6. TypeOK'
    BY <1>1, <1>5, <1>6, <1>8, <1>10, <2>1, <2>3, <2>4, PartsOfTypes DEF EditInv
  <2>7. Quiet
    BY <1>5, <1>6, <1>8, <1>10, <2>1, <2>4 DEF Quiet, Grows
  <2> QED BY <2>1, <2>3, <2>4, <2>5, <2>6, <2>7, QuietInv
<1> QED BY <1>5, <1>9, <1>10

\* The first of a non-empty sequence.
LEMMA NonEmpty ==
    ASSUME NEW S, NEW q \in Seq(S), q # <<>>
    PROVE  Len(q) >= 1 /\ 1 \in DOMAIN q /\ (Len(q) > 1 => Len(q) # 1)
<1>1. Len(q) \in Nat /\ Len(q) >= 1 /\ 1 \in DOMAIN q
  OBVIOUS
<1>2. PICK n \in Nat : n = Len(q)
  BY <1>1
<1>3. n > 1 => n # 1
  OBVIOUS
<1> QED BY <1>1, <1>2, <1>3

\* What Prepare previews.
Previewed(by, kind, paths, says) ==
    /\ by \in Who /\ kind \in {"modify", "create"}
    /\ paths \in Seq(Files) /\ paths # <<>> /\ Previews(kind, paths)
    /\ kind = "create" => Len(paths) = 1
    /\ by = "local" => Len(paths) = 1
    /\ says \in {"allow", "ask", "auto", "human"}

\* A well-formed transaction with these fields.
SoundTx(x, by, says, held, end) ==
    /\ x \in Transaction /\ Shaped(x)
    /\ x.by = by /\ x.says = says /\ x.held = held /\ x.end = end

\* A preview is a transaction, sound as EditEngine::preview leaves it.
LEMMA PreviewIsSound ==
    ASSUME TypeOK, NEW by, NEW kind, NEW paths, NEW says, Previewed(by, kind, paths, says)
    PROVE  SoundTx(Preview(by, kind, paths, says), by, says, TRUE, "open")
<1> USE DEF Previewed
<1> DEFINE x == Preview(by, kind, paths, says)
<1>1. x \in Transaction
  <2>1. disk \in [Files -> Texts \cup {Absent}]
    BY DEF TypeOK
  <2> QED BY <2>1 DEF Transaction, Who, Preview
<1>2. /\ x.by = by /\ x.kind = kind /\ x.paths = paths /\ x.before = disk /\ x.says = says
      /\ x.held = TRUE /\ x.end = "open"
  BY DEF Preview
<1> HIDE DEF x
<1>3. Len(paths) >= 1 /\ 1 \in DOMAIN paths /\ (Len(paths) > 1 => Len(paths) # 1)
  BY NonEmpty
<1>4. Len(paths) > 1 => by = "agent" /\ kind = "modify"
  BY <1>3 DEF Who
<1>5. kind = "create" => disk[paths[1]] = Absent
  BY <1>3 DEF Previews
<1>6. \A i, j \in DOMAIN paths : paths[i] = paths[j] => i = j
  BY DEF Previews
<1>7. Shaped(x)
  BY <1>2, <1>3, <1>4, <1>5, <1>6 DEF Shaped
<1> QED BY <1>1, <1>2, <1>7 DEF SoundTx, x

\* The preview whose evidence could not be written.
Reworded(x, y, held, end) ==
    \/ y = [x EXCEPT !.held = held, !.end = end]
    \/ y = [x EXCEPT !.end = end, !.held = held]

\* A preview that could not be recorded is a sound transaction that is over.
LEMMA DroppedPreview ==
    ASSUME NEW x, NEW by, NEW says, SoundTx(x, by, says, TRUE, "open"), NEW held \in BOOLEAN,
           NEW end \in {"open", "applied", "failed", "rejected"},
           NEW y, Reworded(x, y, held, end)
    PROVE  SoundTx(y, by, says, held, end)
<1>1. x \in Transaction /\ Shaped(x) /\ x.by = by /\ x.says = says
  BY DEF SoundTx
<1>2. /\ y \in Transaction /\ y.held = held /\ y.end = end /\ y.by = x.by
      /\ y.kind = x.kind /\ y.paths = x.paths /\ y.before = x.before /\ y.says = x.says
  BY <1>1 DEF Transaction, Reworded
<1>3. Shaped(y)
  BY <1>1, <1>2 DEF Shaped
<1> QED BY <1>1, <1>2, <1>3 DEF SoundTx

\* A transaction is added: what was there stays as it was.
LEMMA AddedOk ==
    ASSUME EditInv, Len(txs) < MaxTx, NEW x \in Transaction, txs' = Append(txs, x),
           Shaped(x), NEW ok \in BOOLEAN, x.held = ok, ok => x.end = "open",
           evidence' = IF ok THEN evidence \cup {<<"prepared", Len(txs) + 1>>} ELSE evidence,
           UNCHANGED <<approved, executed>>
    PROVE  /\ TxsType' /\ TxsKept /\ Grows /\ TxSound' /\ LogSound'
           /\ evidence' \subseteq Kinds \X Tx
           /\ Len(txs) + 1 \in Tx /\ txs'[Len(txs) + 1] = x /\ Len(txs) + 1 \in DOMAIN txs'
           /\ \A s \in DOMAIN txs : txs'[s] = txs[s] /\ EndMove(s) /\ HeldMove(s)
<1>1. TxsType /\ evidence \subseteq Kinds \X Tx
  BY TypesOfParts DEF EditInv
<1>2. PICK n : n = Len(txs) + 1
  OBVIOUS
<1>3. /\ TxsType' /\ TxsKept /\ DOMAIN txs' = DOMAIN txs \cup {n}
      /\ txs'[n] = x /\ n \in Tx /\ n \notin DOMAIN txs
      /\ \A s \in DOMAIN txs : txs'[s] = txs[s]
  BY <1>1, <1>2, AppendKeeps
<1>4. Grows /\ evidence' \subseteq Kinds \X Tx
  BY <1>1, <1>2, <1>3 DEF Grows, Kinds
<1>5. \A s \in DOMAIN txs : EndMove(s) /\ HeldMove(s)
  BY <1>3 DEF EndMove, HeldMove
<1>6. TxSound'
  <2>1. TxSound
    BY DEF EditInv
  <2>2. x.held => x.end = "open" /\ <<"prepared", n>> \in evidence'
    BY <1>2
  <2> SUFFICES ASSUME NEW s \in DOMAIN txs'
               PROVE  TxOk(s)'
    BY DEF TxSound
  <2>3. CASE s \in DOMAIN txs
    BY <1>3, <1>4, <1>5, <2>1, <2>3, TxSoundStays
  <2>4. CASE s = n
    BY <1>3, <2>2, <2>4 DEF TxOk
  <2> QED BY <1>3, <2>3, <2>4
<1>7. LogSound'
  <2>1. \A s \in Tx : <<"started", s>> \in evidence' => <<"started", s>> \in evidence
    OBVIOUS
  <2> QED BY <1>3, <1>4, <2>1, LogStays DEF Grows
<1> QED BY <1>2, <1>3, <1>4, <1>5, <1>6, <1>7

\* The applies, and the request if there is one, are as before.
LEMMA AddedStays ==
    ASSUME EditInv, TxsKept, Grows, \A s \in DOMAIN txs : txs'[s] = txs[s] /\ HeldMove(s)
    PROVE  /\ \A w \in Who : engine'[w] = engine[w] /\ Busy(w)' => EngineOk(w)'
           /\ agent.st # "none" => RequestOk(agent.t) /\ txs'[agent.t].end = "open"
<1>1. ASSUME NEW w \in Who, engine'[w] = engine[w], Busy(w)' PROVE EngineOk(w)'
  <2>1. engine[w].t \in DOMAIN txs /\ txs[engine[w].t].end = "open"
    BY <1>1 DEF EditInv, EngineSound, Busy, Now
  <2> QED BY <1>1, <2>1, EngineStays
<1>2. agent.st # "none" => RequestOk(agent.t) /\ txs'[agent.t].end = "open"
  BY DEF EditInv, AgentSound, RequestOk
<1> QED BY <1>1, <1>2

\* The preview of an own edit is sound, and starts nothing.
LEMMA LocalPrepareInv ==
    ASSUME EditInv, NEW kind \in {"modify", "create"}, NEW f \in Files, LocalPrepare(kind, f)
    PROVE  EditInv'
<1>1. /\ EngineType /\ AgentType /\ QueueType /\ faults \in 0..MaxFaults
      /\ shown \subseteq Tx /\ approved \subseteq Tx /\ executed \subseteq Tx
  BY TypesOfParts DEF EditInv
<1>2. PICK ok \in BOOLEAN :
        /\ Calls(ok)
        /\ txs' = Append(txs, [Preview("local", kind, <<f>>, "ask") EXCEPT
                                   !.held = ok, !.end = IF ok THEN "open" ELSE "failed"])
        /\ evidence' = IF ok THEN evidence \cup {<<"prepared", Len(txs) + 1>>} ELSE evidence
  BY DEF LocalPrepare
<1>3. faults' \in 0..MaxFaults /\ faults' \in Nat /\ faults' >= faults
  BY <1>1, <1>2, CallsCounts
<1>4. /\ UNCHANGED <<disk, temps, backup, agent, queue, shown, engine, outside,
                     approved, executed, late>>
      /\ Len(txs) < MaxTx /\ Previews(kind, <<f>>)
  BY DEF LocalPrepare
<1>5. PICK end \in {"open", "applied", "failed", "rejected"} :
        end = IF ok THEN "open" ELSE "failed"
  OBVIOUS
<1>6. PICK y : y = Preview("local", kind, <<f>>, "ask")
  OBVIOUS
<1>7. PICK x : txs' = Append(txs, x) /\ SoundTx(x, "local", "ask", ok, end)
  <2>1. <<f>> \in Seq(Files) /\ <<f>> # <<>> /\ Len(<<f>>) = 1
    OBVIOUS
  <2>2. Previewed("local", kind, <<f>>, "ask")
    BY <1>4, <2>1 DEF Previewed, Who
  <2>3. SoundTx(y, "local", "ask", TRUE, "open")
    BY <1>6, <2>2, PreviewIsSound DEF EditInv
  <2>4. PICK x : x = [y EXCEPT !.held = ok, !.end = end]
    OBVIOUS
  <2>5. SoundTx(x, "local", "ask", ok, end)
    <3>1. Reworded(y, x, ok, end)
      BY <2>4 DEF Reworded
    <3> QED BY <2>3, <3>1, DroppedPreview
  <2>6. txs' = Append(txs, x)
    BY <1>2, <1>5, <1>6, <2>4
  <2> QED BY <2>5, <2>6
<1>8. /\ TxsType' /\ TxsKept /\ Grows /\ TxSound' /\ LogSound'
      /\ evidence' \subseteq Kinds \X Tx
      /\ \A s \in DOMAIN txs : txs'[s] = txs[s] /\ EndMove(s) /\ HeldMove(s)
  <2>1. ok => x.end = "open"
    BY <1>5, <1>7 DEF SoundTx
  <2>2. x \in Transaction /\ Shaped(x) /\ x.held = ok
    BY <1>7 DEF SoundTx
  <2> QED BY <1>2, <1>4, <1>7, <2>1, <2>2, AddedOk
<1>9. EngineSound'
  BY <1>4, <1>8, AddedStays, EngineOks
<1>10. AgentSound'
  <2>1. PICK r : r = agent.t
    OBVIOUS
  <2>2. ASSUME agent.st # "none" PROVE RequestOk(r)'
    <3>1. RequestOk(r) /\ txs'[r].end = "open"
      BY <1>8, <2>1, <2>2, AddedStays
    <3> QED BY <1>8, <3>1, RequestStays
  <2> QED BY <1>4, <2>1, <2>2 DEF EditInv, AgentSound, RequestOk
<1>11. AgentType' /\ QueueType' /\ EngineType'
  BY <1>1, <1>4 DEF AgentType, QueueType, EngineType
<1>12. TypeOK'
  BY <1>1, <1>3, <1>4, <1>8, <1>11, PartsOfTypes DEF EditInv
<1>13. Quiet
  BY <1>3, <1>4, <1>8 DEF Quiet, QuietMove, Grows
<1> QED BY <1>8, <1>9, <1>10, <1>12, <1>13, QuietInv

\* The permission decision is one of these.
LEMMA DecideSays ==
    ASSUME NEW paths, NEW mode \in {"allow", "ask", "auto"}
    PROVE  Decide(paths, mode) \in {"allow", "ask", "auto", "human"}
BY DEF Decide

\* The preview of a request is sound; only what the mode allows begins an apply.
LEMMA AgentPrepareInv ==
    ASSUME EditInv, NEW kind \in {"modify", "create"}, NEW paths \in Targets,
           kind = "create" => Len(paths) = 1,
           NEW mode \in {"allow", "ask", "auto"}, NEW reviewer \in BOOLEAN,
           AgentPrepare(kind, paths, mode, reviewer)
    PROVE  EditInv'
<1>1. /\ EngineType /\ AgentType /\ QueueType /\ TxsType /\ faults \in 0..MaxFaults
      /\ shown \subseteq Tx /\ approved \subseteq Tx /\ executed \subseteq Tx
  BY TypesOfParts DEF EditInv
<1>2. PICK says \in {"allow", "ask", "auto", "human"} : says = Decide(paths, mode)
  BY DecideSays
<1>3. PICK t : t = Len(txs) + 1
  OBVIOUS
<1>4. PICK y : y = Preview("agent", kind, paths, says)
  OBVIOUS
<1>5. /\ UNCHANGED <<disk, temps, backup, outside, approved, executed, late>>
      /\ Len(txs) < MaxTx /\ Previews(kind, paths) /\ Free("agent") /\ agent = NoRequest
  BY DEF AgentPrepare
<1>6. SoundTx(y, "agent", says, TRUE, "open")
  <2>1. Previewed("agent", kind, paths, says)
    BY <1>5, EditAssumption DEF Previewed, Who
  <2> QED BY <1>4, <2>1, PreviewIsSound DEF EditInv
<1>7. PICK ok \in BOOLEAN :
        /\ Calls(ok)
        /\ evidence' = IF ok THEN evidence \cup {<<"prepared", t>>} ELSE evidence
        /\ IF ~ok
           THEN /\ txs' = Append(txs, [y EXCEPT !.end = "failed", !.held = FALSE])
                /\ Breaks /\ UNCHANGED <<engine, shown>>
           ELSE /\ txs' = Append(txs, y)
                /\ agent' = [t |-> t, fresh |-> TRUE,
                             st |-> CASE says \in {"allow", "human"} -> "applying"
                                      [] says = "auto" /\ reviewer -> "reviewing"
                                      [] OTHER -> "asking"]
                /\ CASE says = "allow" -> Begin("agent", "start", t)
                     [] says = "human" -> Begin("agent", "reject", t)
                     [] OTHER -> UNCHANGED engine
                /\ shown' = IF agent'.st = "asking" THEN shown \cup {t} ELSE shown
                /\ UNCHANGED queue
  BY <1>2, <1>3, <1>4 DEF AgentPrepare
<1>8. faults' \in 0..MaxFaults /\ faults' \in Nat /\ faults' >= faults
  BY <1>1, <1>7, CallsCounts
<1>9. PICK x : /\ txs' = Append(txs, x)
               /\ SoundTx(x, "agent", says, ok, IF ok THEN "open" ELSE "failed")
  <2>1. CASE ok
    BY <1>6, <1>7, <2>1
  <2>2. CASE ~ok
    <3>1. PICK x : x = [y EXCEPT !.end = "failed", !.held = FALSE]
      OBVIOUS
    <3>2. Reworded(y, x, FALSE, "failed")
      BY <3>1 DEF Reworded
    <3>3. SoundTx(x, "agent", says, FALSE, "failed")
      BY <1>6, <3>2, DroppedPreview
    <3>4. txs' = Append(txs, x)
      BY <1>7, <2>2, <3>1
    <3>5. ok = FALSE
      BY <2>2
    <3> QED BY <3>3, <3>4, <3>5
  <2> QED BY <2>1, <2>2
<1>10. x \in Transaction /\ Shaped(x) /\ x.held = ok /\ (ok => x.end = "open")
  BY <1>9 DEF SoundTx
<1>11. /\ TxsType' /\ TxsKept /\ Grows /\ TxSound' /\ LogSound'
       /\ evidence' \subseteq Kinds \X Tx
       /\ t \in Tx /\ txs'[t] = x /\ t \in DOMAIN txs'
       /\ \A s \in DOMAIN txs : txs'[s] = txs[s] /\ EndMove(s) /\ HeldMove(s)
  BY <1>3, <1>5, <1>7, <1>9, <1>10, AddedOk
<1>12. CASE ~ok
  <2>1. agent' = NoRequest /\ queue' = <<>> /\ engine' = engine /\ shown' = shown
    BY <1>7, <1>12 DEF Breaks
  <2>2. EngineSound'
    BY <1>11, <2>1, AddedStays, EngineOks
  <2>3. AgentType' /\ QueueType' /\ AgentSound' /\ EngineType'
    BY <1>1, <2>1 DEF AgentType, QueueType, AgentSound, NoRequest, EngineType
  <2>4. TypeOK'
    BY <1>1, <1>5, <1>8, <1>11, <2>1, <2>3, PartsOfTypes DEF EditInv
  <2>5. Quiet
    BY <1>5, <1>8, <1>11, <2>1 DEF Quiet, QuietMove, Grows
  <2> QED BY <1>11, <2>2, <2>3, <2>4, <2>5, QuietInv
<1>13. CASE ok
  <2>1. PICK st \in {"applying", "reviewing", "asking"} :
          agent' = [t |-> t, fresh |-> TRUE, st |-> st]
    BY <1>7, <1>13
  <2>2. AgentType' /\ agent'.t = t
    BY <1>11, <2>1 DEF AgentType
  <2>3. shown' \subseteq Tx /\ queue' = queue
    BY <1>1, <1>7, <1>11, <1>13
  <2>4. /\ txs'[t].by = "agent" /\ txs'[t].end = "open" /\ <<"prepared", t>> \in evidence'
        /\ txs'[t].says = says /\ Len(txs'[t].paths) >= 1
    BY <1>7, <1>9, <1>11, <1>13 DEF SoundTx, Shaped
  <2>5. AgentSound' /\ QueueType'
    BY <1>1, <1>5, <1>11, <2>2, <2>3, <2>4 DEF EditInv, AgentSound, QueueType
  <2>6. \/ says = "allow" /\ Begin("agent", "start", t)
        \/ Begin("agent", "reject", t)
        \/ engine' = engine
    BY <1>7, <1>13
  <2>7. EngineType' /\ EngineSound' /\ \A v \in Who : QuietMove(v)
    <3>1. CASE engine' = engine
      <4>1. EngineSound'
        BY <1>11, <3>1, AddedStays, EngineOks
      <4> QED BY <1>1, <3>1, <4>1 DEF EngineType, QuietMove
    <3>2. ASSUME NEW s \in {"start", "reject"}, Begin("agent", s, t),
                 s = "start" => says = "allow"
          PROVE  EngineType' /\ EngineSound' /\ \A v \in Who : QuietMove(v)
      <4>1. EngineType' /\ Moved("agent", s, t, 1)
        BY <1>1, <1>11, <3>2, BeginMoves DEF ApplyStates, Who
      <4>2. engine["agent"].st = "none"
        BY <1>5 DEF Free, NoApply
      <4>3. \A v \in Who : QuietMove(v)
        BY <4>1, <4>2 DEF Moved, QuietMove
      <4>4. EngineOk("agent")'
        BY <1>11, <2>4, <3>2, <4>1 DEF EngineOk, Moved, Now, Allowed
      <4>5. \A v \in Who : Busy(v)' => EngineOk(v)'
        BY <1>11, <4>1, <4>4, AddedStays DEF Moved
      <4> QED BY <4>1, <4>3, <4>5, EngineOks
    <3> QED BY <2>6, <3>1, <3>2
  <2>8. TypeOK'
    BY <1>1, <1>5, <1>8, <1>11, <2>2, <2>3, <2>5, <2>7, PartsOfTypes DEF EditInv
  <2>9. Quiet
    BY <1>5, <1>8, <1>11, <2>7 DEF Quiet, Grows
  <2> QED BY <1>11, <2>5, <2>7, <2>8, <2>9, QuietInv
<1> QED BY <1>12, <1>13

-----------------------------------------------------------------------------
(***************************************************************************)
(* Steps of an apply on the files, and changes by other programs.          *)
(***************************************************************************)

\* What such a step leaves alone.
FileFrame == UNCHANGED <<txs, evidence, agent, queue, shown, approved, executed>>

\* What a step of an apply leaves alone stays sound.
LEMMA FileStays ==
    ASSUME EditInv, FileFrame
    PROVE  TxSound' /\ LogSound' /\ AgentSound' /\ TxsType' /\ AgentType' /\ QueueType'
<1>1. TxsType /\ AgentType /\ QueueType
  BY TypesOfParts DEF EditInv
<1>2. txs' = txs /\ evidence' = evidence /\ agent' = agent /\ queue' = queue /\ approved' = approved
  BY DEF FileFrame
<1>3. TxSound'
  BY <1>2 DEF EditInv, TxSound, TxOk
<1>4. LogSound' /\ AgentSound'
  BY <1>2 DEF EditInv, LogSound, AgentSound
<1> QED BY <1>1, <1>2, <1>3, <1>4 DEF TxsType, AgentType, QueueType

\* The apply w is past its start: its transaction t, at file i of its paths.
At(w, st, t, i, paths) ==
    /\ engine[w].st = st /\ engine[w].t = t /\ engine[w].i = i
    /\ t \in DOMAIN txs /\ paths = txs[t].paths /\ Now(w) = txs[t]
    /\ t \in Tx /\ t \in Nat /\ t > 0
    /\ paths \in Seq(Files) /\ i \in 1..Len(paths) /\ i \in DOMAIN paths
    /\ \A j \in DOMAIN paths : j \in Nat /\ j > 0 /\ paths[j] \in Files
    /\ \A j \in DOMAIN paths : paths[i] = paths[j] => i = j
    /\ Len(paths) > 1 => txs[t].by = "agent" /\ txs[t].kind = "modify"
    /\ txs[t].by = w /\ txs[t].end = "open"
    /\ <<"started", t>> \in evidence

\* Where an apply under way is.
LEMMA AtFile ==
    ASSUME EditInv, NEW w \in Who,
           engine[w].st \in {"check", "write", "link", "recheck", "publish", "rollback",
                             "completed", "failed"}
    PROVE  At(w, engine[w].st, engine[w].t, engine[w].i, Now(w).paths)
<1>1. EngineType /\ TxsType
  BY TypesOfParts DEF EditInv
<1>2. Busy(w) /\ engine[w].i \in Nat \ {0}
  <2>1. Busy(w)
    BY DEF Busy
  <2> QED BY <1>1, <2>1, EngineRecord
<1>3. PICK t : t = engine[w].t
  OBVIOUS
<1>4. /\ t \in DOMAIN txs /\ txs[t].by = w /\ txs[t].end = "open"
      /\ engine[w].i <= Len(txs[t].paths) /\ <<"started", t>> \in evidence
  BY <1>2, <1>3 DEF EditInv, EngineSound, Now
<1>5. PICK paths \in Seq(Files) : paths = txs[t].paths
  BY <1>1, <1>4, TxRecord
<1>6. PICK i \in Nat \ {0} : i = engine[w].i
  BY <1>2
<1>7. t \in Tx /\ t \in Nat /\ t > 0
  BY <1>1, <1>4, TxRecord
<1>8. i \in 1..Len(paths) /\ i \in DOMAIN paths
  BY <1>4, <1>5, <1>6
<1>9. \A j \in DOMAIN paths : j \in Nat /\ j > 0 /\ paths[j] \in Files
  OBVIOUS
<1>10. /\ \A j \in DOMAIN paths : paths[i] = paths[j] => i = j
       /\ Len(paths) > 1 => txs[t].by = "agent" /\ txs[t].kind = "modify"
  BY <1>4, <1>5, <1>8 DEF EditInv, TxSound, TxOk, Shaped
<1> QED BY <1>3, <1>4, <1>5, <1>6, <1>7, <1>8, <1>9, <1>10 DEF At, Now

\* The step of one apply keeps both applies sound.
LEMMA FileEngine ==
    ASSUME EditInv, FileFrame, NEW w \in Who, NEW st, NEW t, NEW i, NEW paths,
           At(w, st, t, i, paths),
           st \in {"check", "write", "link", "recheck", "publish", "rollback",
                   "completed", "failed"},
           NEW st2 \in ApplyStates \ {"start", "reject"}, NEW i2 \in 1..Len(paths),
           To(w, st2, i2)
    PROVE  EngineType' /\ EngineSound' /\ Moved(w, st2, t, i2)
<1>1. EngineType /\ Busy(w)
  BY TypesOfParts DEF EditInv, At, Busy
<1>2. i2 \in Nat \ {0} /\ i2 <= Len(paths)
  BY DEF At
<1>3. EngineType' /\ Moved(w, st2, t, i2)
  BY <1>1, <1>2, ToMoves DEF At
<1>4. txs' = txs /\ evidence' = evidence /\ approved' = approved /\ executed' = executed
  BY DEF FileFrame
<1>5. ASSUME NEW v \in Who, Busy(v)' PROVE EngineOk(v)'
  <2>1. CASE v = w
    <3>1. EngineOk(w)
      BY <1>1, EngineOks DEF EditInv
    <3> QED BY <1>2, <1>3, <1>4, <2>1, <3>1 DEF EngineOk, Moved, Now, At
  <2>2. CASE v # w
    <3>1. engine'[v] = engine[v]
      BY <1>3, <2>2 DEF Moved
    <3>2. EngineOk(v)
      BY <1>5, <3>1, EngineOks DEF EditInv, Busy
    <3> QED BY <1>4, <3>1, <3>2 DEF EngineOk, Now, Allowed
  <2> QED BY <2>1, <2>2
<1> QED BY <1>3, <1>5, EngineOks

\* A step of w leaves the traces of other transactions where they may be, and its
\* own only where its place in the apply says.
LEMMA TracesMove ==
    ASSUME EditInv, FileFrame, NEW w \in Who, NEW st, NEW t, NEW i, NEW paths,
           At(w, st, t, i, paths), \A v \in Who \ {w} : engine'[v] = engine[v],
           faults' \in Nat, faults' >= faults,
           \A f \in Files : \A s \in Tx : s # t /\ Traced(s, f)' => Traced(s, f),
           \A f \in Files : Traced(t, f)' => Wrote(w, t, f)'
    PROVE  Traces'
<1>1. faults \in Nat /\ TxsType
  BY TypesOfParts DEF EditInv
<1>2. txs' = txs /\ evidence' = evidence
  BY DEF FileFrame
<1> SUFFICES ASSUME NEW f \in Files, NEW s \in Tx, Traced(s, f)'
             PROVE  (/\ s \in DOMAIN txs
                     /\ <<"started", s>> \in evidence
                     /\ txs[s].end \in {"failed", "rejected"} => faults >= 2
                     /\ txs[s].end = "open" => Wrote(txs[s].by, s, f))'
  BY DEF Traces
<1>3. CASE s = t
  BY <1>2, <1>3 DEF At
<1>4. CASE s # t
  <2>1. /\ s \in DOMAIN txs
        /\ <<"started", s>> \in evidence
        /\ txs[s].end \in {"failed", "rejected"} => faults >= 2
        /\ txs[s].end = "open" => Wrote(txs[s].by, s, f)
    BY <1>4 DEF EditInv, Traces
  <2>2. ASSUME txs[s].end = "open" PROVE Wrote(txs[s].by, s, f)'
    <3>1. PICK v : v = txs[s].by
      OBVIOUS
    <3>2. v \in Who /\ Wrote(v, s, f)
      BY <1>1, <2>1, <2>2, <3>1, TxRecord
    <3>3. engine'[v] = engine[v]
      BY <1>4, <3>2 DEF At, Wrote
    <3>4. Wrote(v, s, f)'
      BY <1>1, <1>2, <3>2, <3>3 DEF Wrote, Busy, Now
    <3> QED BY <1>2, <3>1, <3>4
  <2> QED BY <1>1, <1>2, <2>1, <2>2
<1> QED BY <1>3, <1>4

\* Before its first file is published a transaction is in no file.
LEMMA NotYet ==
    ASSUME EditInv, NEW w \in Who, NEW st, NEW t, NEW i, NEW paths, At(w, st, t, i, paths),
           st \in {"check", "write", "link", "recheck"} \/ (st = "publish" /\ i = 1)
    PROVE  \A f \in Files : ~Traced(t, f)
<1>1. \A f \in Files : ~Wrote(w, t, f)
  BY DEF Wrote, At
<1> QED BY <1>1 DEF EditInv, Traces, At

\* An apply that does not move may go on relying on what it looked at, for it is
\* told of every later change.
LEMMA LooksStay ==
    ASSUME EditInv, FileFrame, NEW v \in Who, engine'[v] = engine[v], Busy(v)',
           late[v] \subseteq late'[v],
           \A f \in Files : \/ disk'[f] = disk[f]
                            \/ engine[v].st \in {"recheck", "publish", "rollback", "completed"} =>
                                 f \in late'[v]
    PROVE  LooksOk(v)'
<1>1. CASE engine[v].st \in {"recheck", "publish", "rollback", "completed"}
  <2>1. PICK paths : paths = Now(v).paths
    OBVIOUS
  <2>2. \A j \in DOMAIN paths : paths[j] \in Files
    BY <1>1, <2>1, AtFile DEF At
  <2>3. LooksOk(v)
    BY DEF EditInv, Looks, Busy
  <2>4. Now(v)' = Now(v)
    BY DEF Now, FileFrame
  <2>5. \A j \in DOMAIN paths : (Still(v, j) => Still(v, j)') /\ (Mine(v, j) => Mine(v, j)')
    BY <1>1, <2>1, <2>2, <2>4 DEF Still, Mine
  <2> QED BY <2>1, <2>3, <2>4, <2>5 DEF LooksOk
<1>2. CASE engine[v].st \notin {"recheck", "publish", "rollback", "completed"}
  BY <1>2 DEF LooksOk
<1> QED BY <1>1, <1>2

\* The types after a step of an apply.
LEMMA FileTypes ==
    ASSUME TypeOK, FileFrame, EngineType', faults' \in 0..MaxFaults, outside' \in 0..MaxOutside,
           disk' \in [Files -> Texts \cup {Absent}],
           backup' \in [Files -> Texts \cup {Unlinked, Linked}],
           temps' \subseteq Tx \X Files, late' \in [Who -> SUBSET Files]
    PROVE  TypeOK'
<1>1. (DOMAIN engine = Who
       /\ \A w \in Who :
         \/ engine[w] = NoApply
         \/ engine[w] \in [st : {"reject", "start", "check", "write", "link", "recheck",
                                 "publish", "rollback", "completed", "failed"},
                           t : Tx, i : Nat \ {0}])'
  BY DEF EngineType, ApplyRec, ApplyStates
<1>2. /\ txs' = txs /\ evidence' = evidence /\ agent' = agent /\ queue' = queue
      /\ shown' = shown /\ approved' = approved /\ executed' = executed
  BY DEF FileFrame
<1> QED BY <1>1, <1>2 DEF TypeOK

\* A step of an apply keeps the invariant if it keeps these parts of it.
LEMMA FileInv ==
    ASSUME EditInv, FileFrame, TypeOK', EngineSound', Links', Traces', Looks'
    PROVE  EditInv'
BY FileStays DEF EditInv

\* The texts and the marks of a link, told apart.
LEMMA Marks ==
    /\ Linked \notin Texts \cup {Absent} /\ Unlinked \notin Texts \cup {Absent}
    /\ Linked # Unlinked /\ Linked \notin Tx /\ Unlinked \notin Tx /\ Tx \subseteq Texts
    /\ Absent \notin Tx /\ Absent \notin Texts /\ Base \notin Tx /\ Ext \notin Tx
    /\ NoLinks \in [Files -> Texts \cup {Unlinked, Linked}]
    /\ \A f \in Files : NoLinks[f] = Unlinked
BY EditAssumption DEF Texts, Tx, Base, Ext, Absent, Unlinked, Linked, NoLinks

\* Only an apply of several files comes to link or to roll back.
LEMMA StagedMove ==
    ASSUME EditInv, FileFrame, NEW w \in Who, NEW st, NEW t, NEW i, NEW paths,
           At(w, st, t, i, paths), NEW st2, NEW i2, Moved(w, st2, t, i2),
           faults' \in Nat, faults' >= faults,
           st2 = "rollback" => faults' >= 1,
           st2 \in {"link", "rollback"} => Len(paths) > 1
    PROVE  \A v \in Who : Staged(v)'
<1>1. faults \in Nat
  BY TypesOfParts DEF EditInv
<1> SUFFICES ASSUME NEW v \in Who PROVE Staged(v)'
  OBVIOUS
<1>2. CASE v = w
  BY <1>2 DEF Staged, Moved, Multi, Now, At, FileFrame
<1>3. CASE v # w
  <2>1. engine'[v] = engine[v] /\ Staged(v)
    BY <1>3 DEF Moved, EditInv, Links
  <2> QED BY <1>1, <2>1 DEF Staged, Multi, Now, FileFrame
<1> QED BY <1>2, <1>3

\* What Links says of the agent's apply.
AgentLinks == IF Busy("agent")
              THEN LinksAt(engine["agent"].st, engine["agent"].i, engine["agent"].t,
                           Now("agent").paths)
              ELSE backup = NoLinks

\* Links, part by part.
LEMMA LinksParts ==
    /\ Links <=> /\ \A f \in Files : backup[f] = Linked => disk[f] # Absent
                 /\ AgentLinks
                 /\ \A w \in Who : Staged(w)
    /\ Links' <=> /\ \A f \in Files : backup'[f] = Linked => disk'[f] # Absent
                  /\ AgentLinks'
                  /\ \A w \in Who : Staged(w)'
BY DEF Links, AgentLinks

\* The links when neither they nor the files change.
LEMMA LinksSame ==
    ASSUME EditInv, FileFrame, engine'["agent"] = engine["agent"], disk' = disk, backup' = backup,
           \A w \in Who : Staged(w)'
    PROVE  Links'
<1>1. AgentLinks'
  <2>1. AgentLinks
    BY LinksParts DEF EditInv
  <2>2. Now("agent")' = Now("agent") /\ Busy("agent")' = Busy("agent")
    BY DEF Now, FileFrame, Busy
  <2> QED BY <2>1, <2>2 DEF AgentLinks, LinksAt
<1>2. \A f \in Files : backup'[f] = Linked => disk'[f] # Absent
  BY DEF EditInv, Links
<1> QED BY <1>1, <1>2, LinksParts

\* A file is replaced by someone else than the agent's apply, or written in place.
LEMMA LinksKept ==
    ASSUME EditInv, FileFrame, engine'["agent"] = engine["agent"],
           NEW f \in Files, NEW text \in Texts \cup {Absent},
           disk' = [disk EXCEPT ![f] = text],
           Busy("agent") => text # engine["agent"].t,
           backup' = Kept(f) \/ (backup' = backup /\ text # Absent),
           \A w \in Who : Staged(w)'
    PROVE  Links'
<1>1. /\ disk \in [Files -> Texts \cup {Absent}]
      /\ backup \in [Files -> Texts \cup {Unlinked, Linked}]
  BY DEF EditInv, TypeOK
<1>2. /\ \A g \in Files \ {f} : backup'[g] = backup[g] /\ disk'[g] = disk[g]
      /\ disk'[f] = text
      /\ \/ backup'[f] = backup[f] /\ (backup[f] # Linked \/ text # Absent)
         \/ backup[f] = Linked /\ backup'[f] = disk[f] /\ disk[f] # Absent
    <2>1. CASE backup' = Kept(f)
      <3>1. backup[f] = Linked => disk[f] # Absent
        BY DEF EditInv, Links
      <3> QED BY <1>1, <2>1, <3>1 DEF Kept
    <2>2. CASE backup' = backup /\ text # Absent
      BY <1>1, <2>2
    <2> QED BY <2>1, <2>2
<1>3. \A g \in Files : backup'[g] = Linked => disk'[g] # Absent
  <2>1. \A g \in Files : backup[g] = Linked => disk[g] # Absent
    BY DEF EditInv, Links
  <2> QED BY <1>1, <1>2, <2>1, Marks
<1>4. backup = NoLinks => backup' = NoLinks
  <2>1. backup' = Kept(f) \/ backup' = backup
    OBVIOUS
  <2>2. ASSUME backup = NoLinks PROVE Kept(f) = NoLinks
    BY <2>2, Marks DEF Kept, NoLinks
  <2> QED BY <2>1, <2>2
<1>5. \A g \in Files : /\ backup[g] # Unlinked => backup'[g] # Unlinked
                       /\ backup[g] # Linked => backup'[g] # Linked
  BY <1>1, <1>2, Marks
<1>6. AgentLinks'
  <2>1. AgentLinks
    BY LinksParts DEF EditInv
  <2>2. Now("agent")' = Now("agent") /\ (Busy("agent")' <=> Busy("agent"))
    BY DEF Now, FileFrame, Busy
  <2>3. CASE ~Busy("agent")
    BY <1>4, <2>1, <2>2, <2>3 DEF AgentLinks
  <2>4. CASE Busy("agent")
    <3>1. PICK st, i, t, paths :
            /\ st = engine["agent"].st /\ i = engine["agent"].i /\ t = engine["agent"].t
            /\ paths = Now("agent").paths
      OBVIOUS
    <3>2. LinksAt(st, i, t, paths)
      BY <2>1, <2>4, <3>1 DEF AgentLinks
    <3>3. \A g \in Files : backup'[g] # t /\ (disk'[g] = t => backup'[g] # Linked)
      <4>1. /\ \A g \in Files : backup[g] # t /\ (disk[g] = t => backup[g] # Linked)
            /\ text # t
        BY <2>4, <3>1, <3>2 DEF LinksAt
      <4> QED BY <1>2, <1>5, <4>1
    <3>4. CASE backup = NoLinks
      <4>1. LinksAt(st, i, t, paths)'
        <5>1. backup' = backup
          BY <1>4, <3>4
        <5> QED BY <3>2, <3>3, <5>1 DEF LinksAt
      <4> QED BY <2>2, <2>4, <3>1, <4>1 DEF AgentLinks
    <3>5. CASE backup # NoLinks
      <4>1. st \in {"check", "write", "link", "recheck", "publish", "rollback"}
        <5>1. EngineType /\ "agent" \in Who
          BY TypesOfParts DEF EditInv, Who
        <5>2. st \in ApplyStates
          BY <2>4, <3>1, <5>1, EngineRecord
        <5> QED BY <3>2, <3>5, <5>2 DEF LinksAt, ApplyStates
      <4>2. \A j \in DOMAIN paths : paths[j] \in Files
        <5>1. At("agent", st, t, i, paths)
          BY <3>1, <4>1, AtFile DEF Who
        <5> QED BY <5>1 DEF At
      <4>3. ~(Len(paths) <= 1)
        BY <3>2, <3>5 DEF LinksAt
      <4>4. LinksAt(st, i, t, paths)'
        BY <1>5, <3>2, <3>3, <4>1, <4>2, <4>3 DEF LinksAt
      <4> QED BY <2>2, <2>4, <3>1, <4>4 DEF AgentLinks
    <3> QED BY <3>4, <3>5
  <2> QED BY <2>3, <2>4
<1> QED BY <1>3, <1>6, LinksParts

\* The apply gives up: its temporary files and links are removed.
LEMMA CleanUpTypes ==
    ASSUME TypeOK, NEW w \in Who, CleanUp(w)
    PROVE  /\ temps' \subseteq Tx \X Files
           /\ backup' \in [Files -> Texts \cup {Unlinked, Linked}]
           /\ \A f \in Files : \A s \in Tx : backup'[f] = s => backup[f] = s
           /\ w = "agent" => backup' = NoLinks
           /\ w # "agent" => backup' = backup
<1>1. temps \subseteq Tx \X Files /\ backup \in [Files -> Texts \cup {Unlinked, Linked}]
  BY DEF TypeOK
<1>2. backup' = NoLinks \/ backup' = backup
  BY DEF CleanUp
<1>3. backup' \in [Files -> Texts \cup {Unlinked, Linked}]
  BY <1>1, <1>2, Marks
<1>4. \A f \in Files : \A s \in Tx : backup'[f] = s => backup[f] = s
  BY <1>2, Marks
<1> QED BY <1>1, <1>3, <1>4 DEF CleanUp

\* The links once the agent's apply has failed or completed.
LEMMA LinksGone ==
    ASSUME EditInv, NEW st2 \in {"completed", "failed"}, NEW t \in Tx, NEW i2,
           Moved("agent", st2, t, i2), backup' = NoLinks, \A v \in Who : Staged(v)'
    PROVE  Links'
<1>1. \A f \in Files : backup'[f] # Linked /\ backup'[f] # t
  BY Marks
<1>2. /\ Busy("agent")' /\ engine'["agent"].st = st2 /\ engine'["agent"].t = t
      /\ engine'["agent"].i = i2
  BY DEF Busy, Moved
<1>3. PICK paths : paths = Now("agent")'.paths
  OBVIOUS
<1>4. LinksAt(st2, i2, t, paths)'
  BY <1>1 DEF LinksAt
<1>5. AgentLinks'
  BY <1>2, <1>3, <1>4 DEF AgentLinks
<1> QED BY <1>1, <1>5, LinksParts

\* An apply that gives up before it has published anything.
LEMMA AbortInv ==
    ASSUME EditInv, FileFrame, NEW w \in Who, NEW st, NEW t, NEW i, NEW paths,
           At(w, st, t, i, paths),
           st \in {"check", "write", "link", "recheck", "publish"},
           \A f \in Files : ~Traced(t, f),
           disk' = disk, late' = late, outside' = outside,
           faults' \in 0..MaxFaults, faults' \in Nat, faults' >= faults,
           To(w, "failed", 1),
           CleanUp(w) \/ (UNCHANGED <<temps, backup>> /\ (w = "agent" => backup = NoLinks))
    PROVE  EditInv'
<1>1. EngineType' /\ EngineSound' /\ Moved(w, "failed", t, 1)
  <2>1. 1 \in 1..Len(paths) /\ "failed" \in ApplyStates \ {"start", "reject"}
    BY DEF At, ApplyStates
  <2> QED BY <2>1, FileEngine
<1>2. /\ temps' \subseteq Tx \X Files
      /\ backup' \in [Files -> Texts \cup {Unlinked, Linked}]
      /\ \A f \in Files : \A s \in Tx : backup'[f] = s => backup[f] = s
      /\ w = "agent" => backup' = NoLinks
      /\ w # "agent" => backup' = backup
  <2>1. CASE CleanUp(w)
    BY <2>1, CleanUpTypes DEF EditInv
  <2>2. CASE UNCHANGED <<temps, backup>> /\ (w = "agent" => backup = NoLinks)
    BY <2>2 DEF EditInv, TypeOK
  <2> QED BY <2>1, <2>2
<1>3. TypeOK'
  <2>1. /\ disk' \in [Files -> Texts \cup {Absent}] /\ late' \in [Who -> SUBSET Files]
        /\ outside' \in 0..MaxOutside
    BY DEF EditInv, TypeOK
  <2> QED BY <1>1, <1>2, <2>1, FileTypes DEF EditInv
<1>4. \A v \in Who : Staged(v)'
  BY <1>1, StagedMove
<1>5. Links'
  <2>1. CASE w = "agent"
    BY <1>1, <1>2, <1>4, <2>1, LinksGone DEF At
  <2>2. CASE w # "agent"
    <3>1. engine'["agent"] = engine["agent"]
      BY <1>1, <2>2 DEF Moved, Who
    <3> QED BY <1>2, <1>4, <2>2, <3>1, LinksSame
  <2> QED BY <2>1, <2>2
<1>6. Traces'
  <2>1. \A f \in Files : \A s \in Tx : Traced(s, f)' => Traced(s, f)
    BY <1>2 DEF Traced
  <2>2. \A v \in Who \ {w} : engine'[v] = engine[v]
    BY <1>1 DEF Moved
  <2>3. t \in Tx
    BY DEF At
  <2> QED BY <2>1, <2>2, <2>3, TracesMove
<1>7. Looks'
  <2>1. ASSUME NEW v \in Who, Busy(v)' PROVE LooksOk(v)'
    <3>1. CASE v = w
      BY <1>1, <3>1 DEF LooksOk, Moved
    <3>2. CASE v # w
      BY <1>1, <2>1, <3>2, LooksStay DEF Moved
    <3> QED BY <3>1, <3>2
  <2> QED BY <2>1 DEF Looks
<1> QED BY <1>1, <1>3, <1>5, <1>6, <1>7, FileInv

\* A step that goes on and leaves the files and what was looked at alone.
LEMMA GoesOnInv ==
    ASSUME EditInv, FileFrame, NEW w \in Who, NEW st, NEW t, NEW i, NEW paths,
           At(w, st, t, i, paths), st \in {"check", "write", "link", "recheck"},
           NEW st2 \in {"check", "write", "link", "recheck", "publish"}, NEW i2 \in 1..Len(paths),
           To(w, st2, i2), disk' = disk, outside' = outside,
           late' \in [Who -> SUBSET Files], \A v \in Who \ {w} : late'[v] = late[v],
           faults' \in 0..MaxFaults, faults' \in Nat, faults' >= faults,
           temps' \subseteq Tx \X Files,
           st2 = "link" => Len(paths) > 1,
           st2 = "publish" => i2 = 1,
           \/ backup' = backup
           \/ w = "agent" /\ \E f \in Files : /\ backup' = [backup EXCEPT ![f] = Linked]
                                              /\ disk[f] # Absent,
           w = "agent" => LinksAt(st2, i2, t, paths)',
           \A j \in DOMAIN paths : st2 = "publish" \/ (st2 = "recheck" /\ j < i2) =>
               disk[paths[j]] = txs[t].before[paths[j]] \/ paths[j] \in late'[w]
    PROVE  EditInv'
<1>1. EngineType' /\ EngineSound' /\ Moved(w, st2, t, i2)
  <2>1. st2 \in ApplyStates \ {"start", "reject"}
    BY DEF ApplyStates
  <2> QED BY <2>1, FileEngine
<1>2. /\ disk \in [Files -> Texts \cup {Absent}]
      /\ backup \in [Files -> Texts \cup {Unlinked, Linked}] /\ outside \in 0..MaxOutside
  BY DEF EditInv, TypeOK
<1>3. backup' \in [Files -> Texts \cup {Unlinked, Linked}]
  BY <1>2
<1>4. TypeOK'
  BY <1>1, <1>2, <1>3, FileTypes DEF EditInv
<1>5. \A v \in Who : Staged(v)'
  BY <1>1, StagedMove
<1>6. Links'
  <2>1. CASE w # "agent"
    <3>1. engine'["agent"] = engine["agent"]
      BY <1>1, <2>1 DEF Moved, Who
    <3> QED BY <1>5, <2>1, <3>1, LinksSame
  <2>2. CASE w = "agent"
    <3>1. \A f \in Files : backup'[f] = Linked => disk'[f] # Absent
      BY <1>2 DEF EditInv, Links
    <3>2. /\ Busy("agent")' /\ engine'["agent"].st = st2 /\ engine'["agent"].t = t
          /\ engine'["agent"].i = i2 /\ Now("agent")'.paths = paths
      BY <1>1, <2>2 DEF Busy, Moved, Now, At, FileFrame
    <3>3. AgentLinks'
      BY <2>2, <3>2 DEF AgentLinks
    <3> QED BY <1>5, <3>1, <3>3, LinksParts
  <2> QED BY <2>1, <2>2
<1>7. Traces'
  <2>1. \A f \in Files : \A s \in Tx : Traced(s, f)' => Traced(s, f)
    BY <1>2, Marks DEF Traced
  <2>2. \A v \in Who \ {w} : engine'[v] = engine[v]
    BY <1>1 DEF Moved
  <2>3. t \in Tx /\ \A f \in Files : ~Traced(t, f)
    BY NotYet DEF At
  <2> QED BY <2>1, <2>2, <2>3, TracesMove
<1>8. Looks'
  <2>1. ASSUME NEW v \in Who, Busy(v)' PROVE LooksOk(v)'
    <3>1. CASE v = w
      <4>1. /\ engine'[w].st = st2 /\ engine'[w].i = i2 /\ Now(w)' = txs[t] /\ txs[t].paths = paths
        BY <1>1 DEF Moved, Now, FileFrame, At
      <4>2. \A j \in DOMAIN paths : st2 = "publish" \/ (st2 = "recheck" /\ j < i2) => Still(w, j)'
        BY <4>1 DEF Still
      <4>3. \A j \in DOMAIN paths : st2 = "publish" => ~(j < i2)
        BY DEF At
      <4> QED BY <3>1, <4>1, <4>2, <4>3 DEF LooksOk
    <3>2. CASE v # w
      BY <1>1, <2>1, <3>2, LooksStay DEF Moved
    <3> QED BY <3>1, <3>2
  <2> QED BY <2>1 DEF Looks
<1> QED BY <1>1, <1>4, <1>6, <1>7, <1>8, FileInv

\* What LinksAt says of the agent's apply as it is.
LEMMA LinksNow ==
    ASSUME EditInv, NEW w \in Who, w = "agent", NEW st, NEW t, NEW i, NEW paths,
           At(w, st, t, i, paths), st # "none"
    PROVE  LinksAt(st, i, t, paths)
<1>1. Busy("agent") /\ AgentLinks
  BY LinksParts DEF EditInv, Busy, At
<1> QED BY <1>1 DEF AgentLinks, At

\* The first look at a file.
LEMMA CheckInv == ASSUME EditInv, NEW w \in Who, Check(w) PROVE EditInv'
<1>1. engine[w].st = "check" /\ FileFrame
  BY DEF Check, FileFrame
<1>2. PICK st, t, i, paths : At(w, st, t, i, paths) /\ st = "check"
  BY <1>1, AtFile
<1>3. /\ disk' = disk /\ late' = late /\ outside' = outside /\ faults' = faults
      /\ \/ To(w, "write", i) /\ UNCHANGED <<temps, backup>>
         \/ Abort(w)
  BY <1>2 DEF Check, At
<1>4. faults \in 0..MaxFaults /\ faults \in Nat /\ late \in [Who -> SUBSET Files]
  BY TypesOfParts DEF EditInv, TypeOK
<1>5. \A f \in Files : ~Traced(t, f)
  BY <1>2, NotYet
<1>6. CASE Abort(w)
  BY <1>1, <1>2, <1>3, <1>4, <1>5, <1>6, AbortInv DEF Abort
<1>7. CASE To(w, "write", i) /\ UNCHANGED <<temps, backup>>
  <2>1. w = "agent" => LinksAt("write", i, t, paths)'
    <3>1. ASSUME w = "agent" PROVE LinksAt("write", i, t, paths)'
      <4>1. LinksAt(st, i, t, paths)
        BY <1>2, <3>1, LinksNow
      <4> QED BY <1>2, <1>3, <1>7, <4>1 DEF LinksAt
    <3> QED BY <3>1
  <2>2. temps' \subseteq Tx \X Files /\ i \in 1..Len(paths)
    BY <1>2, <1>7 DEF EditInv, TypeOK, At
  <2> QED BY <1>1, <1>2, <1>3, <1>4, <1>7, <2>1, <2>2, GoesOnInv
<1> QED BY <1>3, <1>6, <1>7

\* A temporary file is written.
LEMMA WriteInv == ASSUME EditInv, NEW w \in Who, Write(w) PROVE EditInv'
<1>1. engine[w].st = "write" /\ FileFrame
  BY DEF Write, FileFrame
<1>2. PICK st, t, i, paths : At(w, st, t, i, paths) /\ st = "write"
  BY <1>1, AtFile
<1>3. faults \in 0..MaxFaults /\ faults \in Nat /\ late \in [Who -> SUBSET Files]
  BY TypesOfParts DEF EditInv, TypeOK
<1>4. PICK ok \in BOOLEAN :
        /\ Calls(ok)
        /\ \/ /\ temps' = temps \cup {<<engine[w].t, Target(w)>>}
              /\ To(w, IF Multi(w) THEN "link" ELSE "recheck", engine[w].i)
              /\ UNCHANGED backup
           \/ Abort(w)
  BY DEF Write
<1>5. faults' \in 0..MaxFaults /\ faults' \in Nat /\ faults' >= faults
  BY <1>3, <1>4, CallsCounts
<1>6. disk' = disk /\ late' = late /\ outside' = outside
  BY DEF Write
<1>7. \A f \in Files : ~Traced(t, f)
  BY <1>2, NotYet
<1>8. CASE Abort(w)
  BY <1>1, <1>2, <1>5, <1>6, <1>7, <1>8, AbortInv DEF Abort
<1>9. CASE /\ temps' = temps \cup {<<engine[w].t, Target(w)>>}
           /\ To(w, IF Multi(w) THEN "link" ELSE "recheck", engine[w].i)
           /\ UNCHANGED backup
  <2>1. PICK st2 \in {"link", "recheck"} :
          /\ To(w, st2, i)
          /\ st2 = "link" => Len(paths) > 1
          /\ st2 = "recheck" => ~(Len(paths) > 1)
    BY <1>2, <1>9 DEF At, Multi
  <2>2. i \in 1..Len(paths) /\ Len(paths) \in Nat
    BY <1>2 DEF At
  <2>3. temps' \subseteq Tx \X Files
    <3>1. temps \subseteq Tx \X Files
      BY DEF EditInv, TypeOK
    <3>2. engine[w].t \in Tx /\ Target(w) \in Files
      BY <1>2 DEF At, Target
    <3> QED BY <1>9, <3>1, <3>2
  <2>4. w = "agent" => LinksAt(st2, i, t, paths)'
    <3>1. ASSUME w = "agent" PROVE LinksAt(st2, i, t, paths)'
      <4>1. LinksAt(st, i, t, paths)
        BY <1>2, <3>1, LinksNow
      <4> QED BY <1>2, <1>6, <1>9, <2>1, <4>1 DEF LinksAt
    <3> QED BY <3>1
  <2>5. \A j \in DOMAIN paths : ~(st2 = "recheck" /\ j < i)
    <3>1. st2 = "recheck" => i = 1
      BY <2>1, <2>2
    <3> QED BY <1>2, <3>1 DEF At
  <2> QED BY <1>1, <1>2, <1>3, <1>5, <1>6, <1>9, <2>1, <2>2, <2>3, <2>4, <2>5, GoesOnInv
<1> QED BY <1>4, <1>8, <1>9

\* A hard link keeps the next file.
LEMMA LinkInv == ASSUME EditInv, NEW w \in Who, Link(w) PROVE EditInv'
<1>1. engine[w].st = "link" /\ FileFrame
  BY DEF Link, FileFrame
<1>2. PICK st, t, i, paths : At(w, st, t, i, paths) /\ st = "link"
  BY <1>1, AtFile
<1>3. faults \in 0..MaxFaults /\ faults \in Nat /\ late \in [Who -> SUBSET Files]
  BY TypesOfParts DEF EditInv, TypeOK
<1>4. PICK ok \in BOOLEAN :
        /\ Calls(ok)
        /\ \/ /\ disk[Target(w)] # Absent
              /\ backup' = [backup EXCEPT ![Target(w)] = Linked]
              /\ IF Last(w) THEN To(w, "recheck", 1) ELSE To(w, "check", engine[w].i + 1)
              /\ UNCHANGED temps
           \/ Abort(w)
  BY DEF Link
<1>5. faults' \in 0..MaxFaults /\ faults' \in Nat /\ faults' >= faults
  BY <1>3, <1>4, CallsCounts
<1>6. disk' = disk /\ late' = late /\ outside' = outside
  BY DEF Link
<1>7. \A f \in Files : ~Traced(t, f)
  BY <1>2, NotYet
<1>8. CASE Abort(w)
  BY <1>1, <1>2, <1>5, <1>6, <1>7, <1>8, AbortInv DEF Abort
<1>9. CASE /\ disk[Target(w)] # Absent
           /\ backup' = [backup EXCEPT ![Target(w)] = Linked]
           /\ IF Last(w) THEN To(w, "recheck", 1) ELSE To(w, "check", engine[w].i + 1)
           /\ UNCHANGED temps
  <2>1. i \in 1..Len(paths) /\ Len(paths) \in Nat /\ paths \in Seq(Files)
    BY <1>2 DEF At
  <2>2. PICK st2 \in {"recheck", "check"}, i2 \in 1..Len(paths) :
          /\ To(w, st2, i2)
          /\ st2 = "check" => i2 = i + 1
          /\ st2 = "recheck" => i2 = 1 /\ i = Len(paths)
    <3>1. CASE Last(w)
      BY <1>2, <1>9, <2>1, <3>1 DEF At, Last
    <3>2. CASE ~Last(w)
      <4>1. i # Len(paths)
        BY <1>2, <3>2 DEF At, Last
      <4>2. i + 1 \in 1..Len(paths)
        BY <2>1, <4>1
      <4>3. To(w, "check", i + 1)
        BY <1>2, <1>9, <3>2 DEF At
      <4> QED BY <4>2, <4>3
    <3> QED BY <3>1, <3>2
  <2>3. temps' \subseteq Tx \X Files
    BY <1>9 DEF EditInv, TypeOK
  <2>4. Len(paths) > 1 /\ w = "agent"
    <3>1. Staged(w)
      BY DEF EditInv, Links
    <3>2. Len(paths) > 1
      BY <1>2, <3>1 DEF Staged, Multi, At
    <3> QED BY <1>2, <3>2 DEF At
  <2>5. PICK f \in Files : /\ f = paths[i] /\ backup' = [backup EXCEPT ![f] = Linked]
                           /\ disk[f] # Absent
    BY <1>2, <1>9 DEF At, Target
  <2>6. LinksAt(st2, i2, t, paths)'
    <3>1. LinksAt(st, i, t, paths) /\ backup \in [Files -> Texts \cup {Unlinked, Linked}]
      BY <1>2, <2>4, LinksNow DEF EditInv, TypeOK
    <3>2. t \in Tx /\ \A g \in Files : disk[g] # t
      BY <1>2, <1>7 DEF Traced, At
    <3>3. \A g \in Files : backup'[g] # t /\ (disk'[g] = t => backup'[g] # Linked)
      BY <1>6, <2>5, <3>1, <3>2, Marks DEF LinksAt
    <3>4. \A j \in DOMAIN paths : j <= i => backup'[paths[j]] # Unlinked
      <4> SUFFICES ASSUME NEW j \in DOMAIN paths, j <= i PROVE backup'[paths[j]] # Unlinked
        OBVIOUS
      <4>1. paths[j] \in Files /\ j \in Nat
        BY <1>2 DEF At
      <4>2. CASE j = i
        BY <2>5, <3>1, <4>2, Marks
      <4>3. CASE j # i
        <5>1. j < i
          BY <2>1, <4>1, <4>3
        <5>2. backup[paths[j]] # Unlinked
          BY <1>2, <3>1, <5>1 DEF LinksAt
        <5> QED BY <2>5, <3>1, <4>1, <5>2, Marks
      <4> QED BY <4>2, <4>3
    <3>5. CASE st2 = "check"
      <4>1. \A j \in DOMAIN paths : j < i2 => j <= i
        BY <1>2, <2>1, <2>2, <3>5 DEF At
      <4> QED BY <2>1, <2>4, <3>3, <3>4, <3>5, <4>1 DEF LinksAt
    <3>6. CASE st2 = "recheck"
      <4>1. \A j \in DOMAIN paths : j <= i
        BY <1>2, <2>1, <2>2, <3>6 DEF At
      <4> QED BY <2>1, <2>4, <3>3, <3>4, <3>6, <4>1 DEF LinksAt
    <3> QED BY <3>5, <3>6
  <2>7. \A j \in DOMAIN paths : ~(st2 = "recheck" /\ j < i2)
    BY <1>2, <2>2 DEF At
  <2>8. \/ backup' = backup
        \/ w = "agent" /\ \E g \in Files : /\ backup' = [backup EXCEPT ![g] = Linked]
                                           /\ disk[g] # Absent
    BY <2>4, <2>5
  <2>9. \A j \in DOMAIN paths : st2 = "publish" \/ (st2 = "recheck" /\ j < i2) =>
            disk[paths[j]] = txs[t].before[paths[j]] \/ paths[j] \in late'[w]
    BY <2>2, <2>7
  <2>10. /\ late' \in [Who -> SUBSET Files] /\ \A v \in Who \ {w} : late'[v] = late[v]
         /\ st2 \in {"check", "write", "link", "recheck", "publish"}
         /\ (st2 = "link" => Len(paths) > 1) /\ (st2 = "publish" => i2 = 1)
    BY <1>3, <1>6, <2>2
  <2> QED BY <1>1, <1>2, <1>5, <1>6, <2>2, <2>3, <2>6, <2>8, <2>9, <2>10, GoesOnInv
<1> QED BY <1>4, <1>8, <1>9

\* The last look at a file.
LEMMA RecheckInv == ASSUME EditInv, NEW w \in Who, Recheck(w) PROVE EditInv'
<1>1. engine[w].st = "recheck" /\ FileFrame
  BY DEF Recheck, FileFrame
<1>2. PICK st, t, i, paths : At(w, st, t, i, paths) /\ st = "recheck"
  BY <1>1, AtFile
<1>3. faults \in 0..MaxFaults /\ faults \in Nat /\ late \in [Who -> SUBSET Files]
  BY TypesOfParts DEF EditInv, TypeOK
<1>4. disk' = disk /\ outside' = outside /\ faults' = faults
  BY DEF Recheck
<1>5. \A f \in Files : ~Traced(t, f)
  BY <1>2, NotYet
<1>6. i \in 1..Len(paths) /\ Len(paths) \in Nat /\ paths \in Seq(Files)
  BY <1>2 DEF At
<1>7. CASE AsPreviewed(w, Target(w))
  <2>1. /\ late' = [late EXCEPT ![w] = @ \ {paths[i]}]
        /\ IF Last(w) THEN To(w, "publish", 1) ELSE To(w, "recheck", i + 1)
        /\ UNCHANGED <<temps, backup>>
    BY <1>2, <1>7 DEF Recheck, At, Target
  <2>2. PICK st2 \in {"recheck", "publish"}, i2 \in 1..Len(paths) :
          /\ To(w, st2, i2)
          /\ st2 = "recheck" => i2 = i + 1
          /\ st2 = "publish" => i2 = 1 /\ i = Len(paths)
    <3>1. CASE Last(w)
      BY <1>2, <1>6, <2>1, <3>1 DEF At, Last
    <3>2. CASE ~Last(w)
      <4>1. i # Len(paths)
        BY <1>2, <3>2 DEF At, Last
      <4>2. i + 1 \in 1..Len(paths)
        BY <1>6, <4>1
      <4> QED BY <2>1, <3>2, <4>2
    <3> QED BY <3>1, <3>2
  <2>3. late' \in [Who -> SUBSET Files] /\ \A v \in Who \ {w} : late'[v] = late[v]
    BY <1>3, <2>1
  <2>4. temps' \subseteq Tx \X Files
    BY <2>1 DEF EditInv, TypeOK
  <2>5. w = "agent" => LinksAt(st2, i2, t, paths)'
    <3>1. ASSUME w = "agent" PROVE LinksAt(st2, i2, t, paths)'
      <4>1. LinksAt(st, i, t, paths)
        BY <1>2, <3>1, LinksNow
      <4>2. st2 = "publish" => \A j \in DOMAIN paths : ~(j < i2)
        BY <1>2, <2>2 DEF At
      <4> QED BY <1>2, <1>4, <2>1, <4>1, <4>2 DEF LinksAt
    <3> QED BY <3>1
  <2>6. \A j \in DOMAIN paths : st2 = "publish" \/ (st2 = "recheck" /\ j < i2) =>
            disk[paths[j]] = txs[t].before[paths[j]] \/ paths[j] \in late'[w]
    <3> SUFFICES ASSUME NEW j \in DOMAIN paths, st2 = "publish" \/ (st2 = "recheck" /\ j < i2)
                 PROVE  disk[paths[j]] = txs[t].before[paths[j]] \/ paths[j] \in late'[w]
      OBVIOUS
    <3>1. j \in Nat /\ j <= i
      BY <1>2, <1>6, <2>2 DEF At
    <3>2. CASE j = i
      BY <1>2, <1>7, <3>2 DEF AsPreviewed, Target, At
    <3>3. CASE j # i
      <4>1. j < i /\ paths[j] # paths[i]
        BY <1>2, <1>6, <3>1, <3>3 DEF At
      <4>2. LooksOk(w)
        BY <1>1 DEF EditInv, Looks, Busy
      <4>3. disk[paths[j]] = txs[t].before[paths[j]] \/ paths[j] \in late[w]
        BY <1>2, <4>1, <4>2 DEF LooksOk, Still, At
      <4> QED BY <1>3, <2>1, <4>1, <4>3
    <3> QED BY <3>2, <3>3
  <2> QED BY <1>1, <1>2, <1>3, <1>4, <2>1, <2>2, <2>3, <2>4, <2>5, <2>6, GoesOnInv
<1>8. CASE ~AsPreviewed(w, Target(w))
  <2>1. /\ late' = late
        /\ \/ To(w, "failed", 1) /\ UNCHANGED <<temps, backup>> /\ ~Multi(w)
           \/ Abort(w)
    BY <1>8 DEF Recheck
  <2>2. CASE Abort(w)
    BY <1>1, <1>2, <1>3, <1>4, <1>5, <2>1, <2>2, AbortInv DEF Abort
  <2>3. CASE To(w, "failed", 1) /\ UNCHANGED <<temps, backup>> /\ ~Multi(w)
    <3>1. ASSUME w = "agent" PROVE backup = NoLinks
      <4>1. LinksAt(st, i, t, paths)
        BY <1>2, <3>1, LinksNow
      <4>2. Len(paths) <= 1
        BY <1>2, <1>6, <2>3 DEF Multi, At
      <4> QED BY <4>1, <4>2 DEF LinksAt
    <3> QED BY <1>1, <1>2, <1>3, <1>4, <1>5, <2>1, <2>3, <3>1, AbortInv
  <2> QED BY <2>1, <2>2, <2>3
<1> QED BY <1>7, <1>8

\* Whoever may rely on a file is told that it changes.
LEMMA DisturbsTells ==
    ASSUME TypeOK, NEW f \in Files, NEW whose, Disturbs(whose, f)
    PROVE  /\ late' \in [Who -> SUBSET Files]
           /\ \A v \in Who : late[v] \subseteq late'[v]
           /\ \A v \in Who : v \notin whose => late'[v] = late[v]
           /\ \A v \in Who : /\ v \in whose
                             /\ engine[v].st \in {"recheck", "publish", "rollback", "completed"}
                             => f \in late'[v]
BY DEF TypeOK, Disturbs

\* A link to a file that is replaced keeps its text.
LEMMA KeptTypes ==
    ASSUME EditInv, NEW f \in Files
    PROVE  /\ Kept(f) \in [Files -> Texts \cup {Unlinked, Linked}]
           /\ \A g \in Files \ {f} : Kept(f)[g] = backup[g]
           /\ Kept(f)[f] # Linked
           /\ backup[f] # Unlinked => Kept(f)[f] # Unlinked
           /\ backup[f] = Linked => Kept(f)[f] = disk[f]
           /\ backup[f] # Linked => Kept(f)[f] = backup[f]
<1>1. /\ disk \in [Files -> Texts \cup {Absent}]
      /\ backup \in [Files -> Texts \cup {Unlinked, Linked}]
      /\ backup[f] = Linked => disk[f] # Absent
  BY DEF EditInv, TypeOK, Links
<1> QED BY <1>1, Marks DEF Kept

\* The apply fails after it published a file, and turns back.
LEMMA TurnsBackInv ==
    ASSUME EditInv, FileFrame, NEW w \in Who, NEW st, NEW t, NEW i, NEW paths,
           At(w, st, t, i, paths), st = "publish", i > 1, To(w, "rollback", i - 1),
           UNCHANGED <<disk, temps, backup, late, outside>>,
           faults' \in 0..MaxFaults, faults' \in Nat, faults' = faults + 1
    PROVE  EditInv'
<1>1. i \in Nat /\ Len(paths) \in Nat /\ i - 1 \in 1..Len(paths) /\ Len(paths) > 1 /\ faults \in Nat
  BY TypesOfParts DEF At, EditInv
<1>2. w = "agent"
  BY <1>1 DEF At
<1>3. EngineType' /\ EngineSound' /\ Moved(w, "rollback", t, i - 1)
  <2>1. "rollback" \in ApplyStates \ {"start", "reject"}
    BY DEF ApplyStates
  <2> QED BY <1>1, <2>1, FileEngine
<1>4. TypeOK'
  <2>1. /\ disk' \in [Files -> Texts \cup {Absent}] /\ late' \in [Who -> SUBSET Files]
        /\ outside' \in 0..MaxOutside /\ temps' \subseteq Tx \X Files
        /\ backup' \in [Files -> Texts \cup {Unlinked, Linked}]
    BY DEF EditInv, TypeOK
  <2> QED BY <1>3, <2>1, FileTypes DEF EditInv
<1>5. faults' >= faults /\ faults' >= 1
  BY <1>1
<1>6. \A v \in Who : Staged(v)'
  BY <1>1, <1>3, <1>5, StagedMove
<1>7. Links'
  <2>1. LinksAt(st, i, t, paths)
    BY <1>2, LinksNow
  <2>2. \A j \in DOMAIN paths : j <= i - 1 => j < i
    BY <1>1 DEF At
  <2>3. LinksAt("rollback", i - 1, t, paths)'
    BY <1>1, <2>1, <2>2 DEF LinksAt
  <2>4. /\ Busy("agent")' /\ engine'["agent"].st = "rollback" /\ engine'["agent"].t = t
        /\ engine'["agent"].i = i - 1 /\ Now("agent")'.paths = paths
    BY <1>2, <1>3 DEF Busy, Moved, Now, At, FileFrame
  <2>5. AgentLinks'
    BY <2>3, <2>4 DEF AgentLinks
  <2>6. \A f \in Files : backup'[f] = Linked => disk'[f] # Absent
    BY DEF EditInv, Links
  <2> QED BY <1>6, <2>5, <2>6, LinksParts
<1>8. Traces'
  <2>1. \A f \in Files : \A s \in Tx : Traced(s, f)' => Traced(s, f)
    BY DEF Traced
  <2>2. \A v \in Who \ {w} : engine'[v] = engine[v]
    BY <1>3 DEF Moved
  <2>3. ASSUME NEW f \in Files, Traced(t, f)' PROVE Wrote(w, t, f)'
    <3>1. Wrote(w, t, f)
      BY <2>1, <2>3 DEF EditInv, Traces, At
    <3>2. PICK j \in DOMAIN paths : j < i /\ paths[j] = f
      BY <3>1 DEF Wrote, At
    <3>3. j <= i - 1
      BY <1>1, <3>2 DEF At
    <3>4. /\ engine'[w].st = "rollback" /\ engine'[w].t = t /\ engine'[w].i = i - 1
          /\ Now(w)'.paths = paths
      BY <1>3 DEF Moved, Now, At, FileFrame
    <3> QED BY <3>2, <3>3, <3>4 DEF Wrote, Busy
  <2> QED BY <1>5, <2>1, <2>2, <2>3, TracesMove
<1>9. Looks'
  <2>1. ASSUME NEW v \in Who, Busy(v)' PROVE LooksOk(v)'
    <3>1. CASE v = w
      <4>1. /\ engine'[w].st = "rollback" /\ engine'[w].i = i - 1 /\ engine'[w].t = t
            /\ Now(w)'.paths = paths
        BY <1>3 DEF Moved, Now, FileFrame, At
      <4>2. LooksOk(w)
        BY DEF EditInv, Looks, Busy, At
      <4>3. \A j \in DOMAIN paths : j <= i - 1 => Mine(w, j)
        BY <1>1, <4>2 DEF LooksOk, At
      <4>4. \A j \in DOMAIN paths : j <= i - 1 => Mine(w, j)'
        BY <4>1, <4>3 DEF Mine, At
      <4> QED BY <3>1, <4>1, <4>4 DEF LooksOk
    <3>2. CASE v # w
      BY <1>3, <2>1, <3>2, LooksStay DEF Moved
    <3> QED BY <3>1, <3>2
  <2> QED BY <2>1 DEF Looks
<1> QED BY <1>3, <1>4, <1>7, <1>8, <1>9, FileInv

\* A file is published.
LEMMA PublishesInv ==
    ASSUME EditInv, FileFrame, NEW w \in Who, NEW st, NEW t, NEW i, NEW paths,
           At(w, st, t, i, paths), st = "publish", NEW f, f = paths[i],
           disk' = [disk EXCEPT ![f] = t],
           temps' = temps \ {<<t, f>>},
           backup' = IF w = "agent" /\ i = Len(paths) THEN NoLinks ELSE Kept(f),
           NEW st2, NEW i2, To(w, st2, i2),
           \/ i = Len(paths) /\ st2 = "completed" /\ i2 = 1
           \/ i # Len(paths) /\ st2 = "publish" /\ i2 = i + 1,
           Disturbs(Who \ {w}, f), outside' = outside,
           faults' \in 0..MaxFaults, faults' \in Nat, faults' >= faults
    PROVE  EditInv'
<1>1. /\ i \in Nat /\ Len(paths) \in Nat /\ i2 \in 1..Len(paths) /\ i2 \in Nat /\ f \in Files
      /\ i # Len(paths) => Len(paths) > 1
  BY DEF At
<1>2. i # Len(paths) => w = "agent"
  BY <1>1 DEF At
<1>3. EngineType' /\ EngineSound' /\ Moved(w, st2, t, i2)
  <2>1. st2 \in ApplyStates \ {"start", "reject"}
    BY DEF ApplyStates
  <2> QED BY <1>1, <2>1, FileEngine
<1>4. /\ late' \in [Who -> SUBSET Files]
      /\ \A v \in Who : late[v] \subseteq late'[v]
      /\ late'[w] = late[w]
      /\ \A v \in Who \ {w} : engine[v].st \in {"recheck", "publish", "rollback", "completed"}
                                => f \in late'[v]
  BY <1>1, DisturbsTells DEF EditInv
<1>5. /\ disk \in [Files -> Texts \cup {Absent}] /\ outside \in 0..MaxOutside
      /\ temps \subseteq Tx \X Files /\ t \in Tx
  BY DEF EditInv, TypeOK, At
<1>6. disk' \in [Files -> Texts \cup {Absent}] /\ disk'[f] = t /\ \A g \in Files \ {f} : disk'[g] = disk[g]
  BY <1>1, <1>5, Marks
<1>7. backup' \in [Files -> Texts \cup {Unlinked, Linked}]
  BY <1>1, KeptTypes, Marks
<1>8. TypeOK'
  <2>1. temps' \subseteq Tx \X Files
    BY <1>5
  <2> QED BY <1>3, <1>4, <1>5, <1>6, <1>7, <2>1, FileTypes DEF EditInv
<1>9. \A v \in Who : Staged(v)'
  <2>1. st2 # "rollback" /\ st2 \notin {"link", "rollback"}
    OBVIOUS
  <2> QED BY <1>3, <2>1, StagedMove
<1>10. Links'
  <2>1. CASE w # "agent"
    <3>1. engine'["agent"] = engine["agent"]
      BY <1>3, <2>1 DEF Moved, Who
    <3>2. Busy("agent") => t # engine["agent"].t
      BY <2>1 DEF At, EditInv, EngineSound, Now, Who
    <3> QED BY <1>1, <1>5, <1>9, <2>1, <3>1, <3>2, LinksKept, Marks
  <2>2. CASE w = "agent" /\ i = Len(paths)
    BY <1>3, <1>5, <1>9, <2>2, LinksGone
  <2>3. CASE w = "agent" /\ i # Len(paths)
    <3>1. LinksAt(st, i, t, paths)
      BY <2>3, LinksNow
    <3>2. backup' = Kept(f)
      BY <2>3
    <3>3. \A g \in Files : backup'[g] # t /\ (disk'[g] = t => backup'[g] # Linked)
      <4>1. \A g \in Files : backup[g] # t /\ (disk[g] = t => backup[g] # Linked)
        BY <3>1 DEF LinksAt
      <4>2. backup'[f] # t /\ backup'[f] # Linked
        BY <1>1, <3>2, <4>1, KeptTypes
      <4>3. \A g \in Files \ {f} : backup'[g] = backup[g]
        BY <1>1, <3>2, KeptTypes
      <4> QED BY <1>6, <4>1, <4>2, <4>3
    <3>4. \A j \in DOMAIN paths : /\ backup'[paths[j]] # Unlinked
                                  /\ j < i + 1 => backup'[paths[j]] # Linked
      <4> SUFFICES ASSUME NEW j \in DOMAIN paths
                   PROVE  /\ backup'[paths[j]] # Unlinked
                          /\ j < i + 1 => backup'[paths[j]] # Linked
        OBVIOUS
      <4>1. /\ backup[paths[j]] # Unlinked /\ paths[j] \in Files /\ j \in Nat
            /\ j < i => backup[paths[j]] # Linked
        BY <1>1, <2>3, <3>1 DEF LinksAt, At
      <4>2. CASE j = i
        BY <1>1, <3>2, <4>1, <4>2, KeptTypes
      <4>3. CASE j # i
        <5>1. paths[j] # f
          BY <4>3 DEF At
        <5>2. backup'[paths[j]] = backup[paths[j]]
          BY <1>1, <3>2, <4>1, <5>1, KeptTypes
        <5>3. j < i + 1 => j < i
          BY <1>1, <4>1, <4>3
        <5> QED BY <4>1, <5>2, <5>3
      <4> QED BY <4>2, <4>3
    <3>5. ~(Len(paths) <= 1) /\ st2 = "publish" /\ i2 = i + 1
      BY <1>1, <2>3
    <3>6. LinksAt(st2, i2, t, paths)'
      BY <3>3, <3>4, <3>5 DEF LinksAt
    <3>7. /\ Busy("agent")' /\ engine'["agent"].st = st2 /\ engine'["agent"].t = t
          /\ engine'["agent"].i = i2 /\ Now("agent")'.paths = paths
      BY <1>3, <2>3, <3>5 DEF Busy, Moved, Now, At, FileFrame
    <3>8. AgentLinks'
      BY <3>6, <3>7 DEF AgentLinks
    <3>9. \A g \in Files : backup'[g] = Linked => disk'[g] # Absent
      <4>1. \A g \in Files : backup[g] = Linked => disk[g] # Absent
        BY DEF EditInv, Links
      <4> QED BY <1>1, <1>5, <1>6, <3>2, <4>1, KeptTypes, Marks
    <3> QED BY <1>9, <3>8, <3>9, LinksParts
  <2> QED BY <2>1, <2>2, <2>3
<1>11. Traces'
  <2>1. \A g \in Files : \A s \in Tx : s # t /\ Traced(s, g)' => Traced(s, g)
    <3> SUFFICES ASSUME NEW g \in Files, NEW s \in Tx, s # t, Traced(s, g)'
                 PROVE  Traced(s, g)
      OBVIOUS
    <3>1. disk'[g] = s => disk[g] = s
      BY <1>6
    <3>2. backup'[g] = s => backup[g] = s \/ disk[g] = s
      <4>1. backup' = NoLinks \/ backup' = Kept(f)
        OBVIOUS
      <4>2. NoLinks[g] # s
        BY Marks
      <4>3. Kept(f)[g] = s => backup[g] = s \/ disk[g] = s
        BY <1>1, KeptTypes
      <4> QED BY <4>1, <4>2, <4>3
    <3> QED BY <3>1, <3>2 DEF Traced
  <2>2. \A v \in Who \ {w} : engine'[v] = engine[v]
    BY <1>3 DEF Moved
  <2>3. ASSUME NEW g \in Files, Traced(t, g)' PROVE Wrote(w, t, g)'
    <3>1. /\ engine'[w].st = st2 /\ engine'[w].t = t /\ engine'[w].i = i2
          /\ Now(w)'.paths = paths
      BY <1>3 DEF Moved, Now, At, FileFrame
    <3>2. CASE i = Len(paths)
      BY <3>1, <3>2 DEF Wrote, Busy
    <3>3. CASE i # Len(paths)
      <4>1. \E j \in DOMAIN paths : j < i + 1 /\ paths[j] = g
        <5>1. CASE g = f
          BY <1>1, <5>1 DEF At
        <5>2. CASE g # f
          <6>1. backup[g] # t
            BY <1>2, <3>3, LinksNow DEF LinksAt
          <6>2. backup'[g] = backup[g]
            BY <1>1, <3>3, <5>2, KeptTypes
          <6>3. Traced(t, g)
            BY <1>6, <2>3, <5>2, <6>1, <6>2 DEF Traced
          <6>4. Wrote(w, t, g)
            BY <6>3 DEF EditInv, Traces, At
          <6>5. PICK j \in DOMAIN paths : j < i /\ paths[j] = g
            BY <6>4 DEF Wrote, At
          <6>6. j < i + 1
            BY <1>1, <6>5 DEF At
          <6> QED BY <6>5, <6>6
        <5> QED BY <5>1, <5>2
      <4> QED BY <3>1, <3>3, <4>1 DEF Wrote, Busy
    <3> QED BY <3>2, <3>3
  <2> QED BY <2>1, <2>2, <2>3, TracesMove
<1>12. Looks'
  <2>1. ASSUME NEW v \in Who, Busy(v)' PROVE LooksOk(v)'
    <3>1. CASE v = w
      <4>1. /\ engine'[w].st = st2 /\ engine'[w].i = i2 /\ engine'[w].t = t
            /\ Now(w)' = txs[t] /\ txs[t].paths = paths /\ Now(w) = txs[t]
            /\ engine[w].t = t
        BY <1>3 DEF Moved, Now, FileFrame, At
      <4>2. LooksOk(w)
        BY DEF EditInv, Looks, Busy, At
      <4>3. \A j \in DOMAIN paths : (j < i => Mine(w, j)) /\ (j >= i => Still(w, j))
        BY <4>2 DEF LooksOk, At
      <4>4. \A j \in DOMAIN paths : j # i => paths[j] # f /\ paths[j] \in Files
        BY DEF At
      <4>5. \A j \in DOMAIN paths : j < i + 1 => Mine(w, j)'
        <5> SUFFICES ASSUME NEW j \in DOMAIN paths, j < i + 1 PROVE Mine(w, j)'
          OBVIOUS
        <5>1. CASE j = i
          BY <1>6, <4>1, <5>1 DEF Mine
        <5>2. CASE j # i
          <6>1. j < i
            BY <1>1, <5>2 DEF At
          <6> QED BY <1>4, <1>6, <4>1, <4>3, <4>4, <5>2, <6>1 DEF Mine
        <5> QED BY <5>1, <5>2
      <4>6. \A j \in DOMAIN paths : j >= i + 1 => Still(w, j)'
        <5> SUFFICES ASSUME NEW j \in DOMAIN paths, j >= i + 1 PROVE Still(w, j)'
          OBVIOUS
        <5>1. j >= i /\ j # i
          BY <1>1 DEF At
        <5> QED BY <1>4, <1>6, <4>1, <4>3, <4>4, <5>1 DEF Still
      <4>7. CASE i = Len(paths)
        <5>1. \A j \in DOMAIN paths : j < i + 1
          BY <1>1, <4>7 DEF At
        <5> QED BY <3>1, <4>1, <4>5, <4>7, <5>1 DEF LooksOk
      <4>8. CASE i # Len(paths)
        BY <3>1, <4>1, <4>5, <4>6, <4>8 DEF LooksOk
      <4> QED BY <4>7, <4>8
    <3>2. CASE v # w
      BY <1>3, <1>4, <1>6, <2>1, <3>2, LooksStay DEF Moved
    <3> QED BY <3>1, <3>2
  <2> QED BY <2>1 DEF Looks
<1> QED BY <1>3, <1>8, <1>10, <1>11, <1>12, FileInv

\* The new text goes into the next file, or the apply turns back.
LEMMA PublishInv == ASSUME EditInv, NEW w \in Who, Publish(w) PROVE EditInv'
<1>1. engine[w].st = "publish" /\ FileFrame /\ outside' = outside
  BY DEF Publish, FileFrame
<1>2. PICK st, t, i, paths : At(w, st, t, i, paths) /\ st = "publish"
  BY <1>1, AtFile
<1>3. faults \in 0..MaxFaults /\ faults \in Nat
  BY TypesOfParts DEF EditInv
<1>4. /\ engine[w].t = t /\ engine[w].i = i /\ Now(w) = txs[t] /\ txs[t].paths = paths
      /\ Target(w) = paths[i] /\ (Last(w) <=> i = Len(paths)) /\ Published(w) = i - 1
      /\ i \in Nat /\ i > 0 /\ Len(paths) \in Nat /\ i <= Len(paths)
  BY <1>2 DEF At, Target, Last, Published
<1>5. PICK ok \in BOOLEAN :
        /\ Calls(ok)
        /\ IF ok /\ (txs[t].kind = "modify" \/ disk[paths[i]] = Absent)
           THEN /\ disk' = [disk EXCEPT ![paths[i]] = t]
                /\ temps' = temps \ {<<t, paths[i]>>}
                /\ backup' = IF w = "agent" /\ Last(w) THEN NoLinks ELSE Kept(paths[i])
                /\ IF Last(w) THEN To(w, "completed", 1) ELSE To(w, "publish", i + 1)
                /\ Disturbs(Who \ {w}, paths[i])
           ELSE /\ IF i - 1 > 0
                   THEN To(w, "rollback", i - 1) /\ UNCHANGED <<temps, backup>>
                   ELSE Abort(w)
                /\ UNCHANGED <<disk, late>>
  BY <1>4 DEF Publish
<1>6. /\ faults' \in 0..MaxFaults /\ faults' \in Nat /\ faults' >= faults
      /\ ~ok => faults' = faults + 1
  BY <1>3, <1>5, CallsCounts
<1>7. CASE ok /\ (txs[t].kind = "modify" \/ disk[paths[i]] = Absent)
  <2>1. PICK st2, i2 : /\ To(w, st2, i2)
                       /\ \/ i = Len(paths) /\ st2 = "completed" /\ i2 = 1
                          \/ i # Len(paths) /\ st2 = "publish" /\ i2 = i + 1
    BY <1>4, <1>5, <1>7
  <2>2. PICK f : f = paths[i]
    OBVIOUS
  <2>3. /\ disk' = [disk EXCEPT ![f] = t] /\ temps' = temps \ {<<t, f>>}
        /\ backup' = IF w = "agent" /\ i = Len(paths) THEN NoLinks ELSE Kept(f)
        /\ Disturbs(Who \ {w}, f)
    BY <1>4, <1>5, <1>7, <2>2
  <2> QED BY <1>1, <1>2, <1>6, <2>1, <2>2, <2>3, PublishesInv
<1>8. CASE ~(ok /\ (txs[t].kind = "modify" \/ disk[paths[i]] = Absent)) /\ i - 1 > 0
  <2>1. i > 1 /\ Len(paths) > 1
    BY <1>4, <1>8
  <2>2. txs[t].kind = "modify"
    BY <1>2, <2>1 DEF At
  <2>3. faults' = faults + 1
    BY <1>6, <1>8, <2>2
  <2>4. To(w, "rollback", i - 1) /\ UNCHANGED <<disk, temps, backup, late, outside>>
    BY <1>1, <1>5, <1>8
  <2> QED BY <1>1, <1>2, <1>6, <2>1, <2>3, <2>4, TurnsBackInv
<1>9. CASE ~(ok /\ (txs[t].kind = "modify" \/ disk[paths[i]] = Absent)) /\ ~(i - 1 > 0)
  <2>1. i = 1
    BY <1>4, <1>9
  <2>2. \A f \in Files : ~Traced(t, f)
    BY <1>2, <2>1, NotYet
  <2>3. CleanUp(w) /\ To(w, "failed", 1) /\ disk' = disk /\ late' = late
    BY <1>5, <1>9 DEF Abort
  <2> QED BY <1>1, <1>2, <1>6, <2>2, <2>3, AbortInv
<1> QED BY <1>7, <1>8, <1>9

\* A file gets its kept text back, last file first; the link never holds the
\* transaction's own text.
LEMMA RollbackInv == ASSUME EditInv, NEW w \in Who, Rollback(w) PROVE EditInv'
<1>1. engine[w].st = "rollback" /\ FileFrame /\ outside' = outside
  BY DEF Rollback, FileFrame
<1>2. PICK st, t, i, paths : At(w, st, t, i, paths) /\ st = "rollback"
  BY <1>1, AtFile
<1>3. /\ faults \in 0..MaxFaults /\ faults \in Nat /\ faults >= 1 /\ Len(paths) > 1
  <2>1. Staged(w) /\ faults \in 0..MaxFaults /\ faults \in Nat
    BY TypesOfParts DEF EditInv, Links
  <2> QED BY <1>2, <2>1 DEF Staged, Multi, At
<1>4. /\ engine[w].t = t /\ engine[w].i = i /\ Now(w) = txs[t] /\ txs[t].paths = paths
      /\ Target(w) = paths[i] /\ i \in Nat /\ i > 0 /\ Len(paths) \in Nat /\ i <= Len(paths)
      /\ w = "agent" /\ t \in Tx
  BY <1>2, <1>3 DEF At, Target
<1>5. PICK f \in Files : f = paths[i]
  BY <1>2 DEF At
<1>6. PICK ok \in BOOLEAN :
        /\ Calls(ok)
        /\ IF ok THEN disk' = [disk EXCEPT ![f] = backup[f]] /\ Disturbs(Who \ {w}, f)
                 ELSE UNCHANGED <<disk, late>>
  BY <1>4, <1>5 DEF Rollback
<1>7. /\ faults' \in 0..MaxFaults /\ faults' \in Nat /\ faults' >= faults
      /\ ~ok => faults' = faults + 1
  BY <1>3, <1>6, CallsCounts
<1>8. LinksAt(st, i, t, paths)
  BY <1>2, <1>4, LinksNow
<1>9. /\ disk \in [Files -> Texts \cup {Absent}] /\ outside \in 0..MaxOutside
      /\ backup \in [Files -> Texts \cup {Unlinked, Linked}]
      /\ temps \subseteq Tx \X Files /\ late \in [Who -> SUBSET Files]
  BY DEF EditInv, TypeOK
<1>10. backup[f] \in Texts /\ backup[f] # t
  <2>1. backup[f] \notin {Unlinked, Linked} /\ backup[f] # t
    BY <1>2, <1>4, <1>5, <1>8 DEF LinksAt, At
  <2> QED BY <1>9, <2>1
<1>11. /\ disk' \in [Files -> Texts \cup {Absent}]
       /\ \A g \in Files \ {f} : disk'[g] = disk[g]
       /\ disk'[f] = disk[f] \/ disk'[f] = backup[f]
       /\ ok => disk'[f] = backup[f]
  BY <1>6, <1>9, <1>10
<1>12. /\ late' \in [Who -> SUBSET Files]
       /\ \A v \in Who : late[v] \subseteq late'[v]
       /\ late'[w] = late[w]
       /\ \A v \in Who \ {w} :
            \A g \in Files : \/ disk'[g] = disk[g]
                             \/ engine[v].st \in {"recheck", "publish", "rollback", "completed"}
                                  => g \in late'[v]
  <2>1. CASE ok
    <3>1. Disturbs(Who \ {w}, f)
      BY <1>6, <2>1
    <3> QED BY <1>11, <3>1, DisturbsTells DEF EditInv
  <2>2. CASE ~ok
    BY <1>6, <1>9, <2>2
  <2> QED BY <2>1, <2>2
<1>13. PICK st2 \in {"rollback", "failed"}, i2 \in 1..Len(paths) :
         /\ To(w, st2, i2)
         /\ st2 = "rollback" => i > 1 /\ i2 = i - 1 /\ UNCHANGED <<temps, backup>>
         /\ st2 = "failed" => i = 1 /\ CleanUp(w)
  <2>1. CASE i > 1
    <3>1. i - 1 \in 1..Len(paths) /\ To(w, "rollback", i - 1) /\ UNCHANGED <<temps, backup>>
      BY <1>4, <2>1 DEF Rollback
    <3> QED BY <2>1, <3>1
  <2>2. CASE ~(i > 1)
    <3>1. 1 \in 1..Len(paths) /\ To(w, "failed", 1) /\ CleanUp(w) /\ i = 1
      BY <1>4, <2>2 DEF Rollback, Abort
    <3> QED BY <3>1
  <2> QED BY <2>1, <2>2
<1>14. EngineType' /\ EngineSound' /\ Moved(w, st2, t, i2)
  <2>1. st2 \in ApplyStates \ {"start", "reject"}
    BY DEF ApplyStates
  <2> QED BY <1>1, <1>2, <1>13, <2>1, FileEngine
<1>15. /\ temps' \subseteq Tx \X Files
       /\ backup' \in [Files -> Texts \cup {Unlinked, Linked}]
       /\ \A g \in Files : \A s \in Tx : backup'[g] = s => backup[g] = s
  <2>1. CASE st2 = "rollback"
    BY <1>9, <1>13, <2>1
  <2>2. CASE st2 = "failed"
    BY <1>13, <2>2, CleanUpTypes DEF EditInv
  <2> QED BY <2>1, <2>2
<1>16. TypeOK'
  BY <1>1, <1>7, <1>9, <1>11, <1>12, <1>14, <1>15, FileTypes DEF EditInv
<1>17. \A v \in Who : Staged(v)'
  <2>1. faults' >= 1
    BY <1>3, <1>7
  <2> QED BY <1>1, <1>2, <1>3, <1>7, <1>14, <2>1, StagedMove
<1>18. Links'
  <2>1. CASE st2 = "failed"
    <3>1. backup' = NoLinks
      BY <1>4, <1>13, <2>1, CleanUpTypes DEF EditInv
    <3> QED BY <1>4, <1>14, <1>17, <2>1, <3>1, LinksGone
  <2>2. CASE st2 = "rollback"
    <3>1. backup' = backup /\ i2 = i - 1
      BY <1>13, <2>2
    <3>2. \A g \in Files : backup'[g] # t /\ (disk'[g] = t => backup'[g] # Linked)
      <4>1. \A g \in Files : backup[g] # t /\ (disk[g] = t => backup[g] # Linked)
        BY <1>8 DEF LinksAt
      <4> QED BY <1>10, <1>11, <3>1, <4>1
    <3>3. \A j \in DOMAIN paths : j <= i2 => backup'[paths[j]] \notin {Unlinked, Linked}
      <4>1. \A j \in DOMAIN paths : j <= i2 => j <= i
        BY <1>2, <1>4, <3>1 DEF At
      <4>2. \A j \in DOMAIN paths : j <= i => backup[paths[j]] \notin {Unlinked, Linked}
        BY <1>2, <1>8 DEF LinksAt
      <4> QED BY <3>1, <4>1, <4>2
    <3>4. ~(Len(paths) <= 1)
      BY <1>3, <1>4
    <3>5. LinksAt(st2, i2, t, paths)'
      BY <2>2, <3>2, <3>3, <3>4 DEF LinksAt
    <3>6. /\ Busy("agent")' /\ engine'["agent"].st = st2 /\ engine'["agent"].t = t
          /\ engine'["agent"].i = i2 /\ Now("agent")'.paths = paths
      BY <1>1, <1>4, <1>14, <2>2 DEF Busy, Moved, Now, FileFrame
    <3>7. AgentLinks'
      BY <3>5, <3>6 DEF AgentLinks
    <3>8. \A g \in Files : backup'[g] = Linked => disk'[g] # Absent
      <4>1. \A g \in Files : backup[g] = Linked => disk[g] # Absent
        BY DEF EditInv, Links
      <4> QED BY <1>10, <1>11, <3>1, <4>1, Marks
    <3> QED BY <1>17, <3>7, <3>8, LinksParts
  <2> QED BY <2>1, <2>2
<1>19. Traces'
  <2>1. \A g \in Files : \A s \in Tx : s # t /\ Traced(s, g)' => Traced(s, g)
    BY <1>11, <1>15 DEF Traced
  <2>2. \A v \in Who \ {w} : engine'[v] = engine[v]
    BY <1>14 DEF Moved
  <2>3. ASSUME NEW g \in Files, Traced(t, g)' PROVE Wrote(w, t, g)'
    <3>1. /\ engine'[w].st = st2 /\ engine'[w].t = t /\ engine'[w].i = i2
          /\ Now(w)'.paths = paths
      BY <1>1, <1>4, <1>14 DEF Moved, Now, FileFrame
    <3>2. CASE faults' >= 2
      BY <3>1, <3>2 DEF Wrote, Busy
    <3>3. CASE ~(faults' >= 2)
      <4>1. ok /\ ~(faults >= 2)
        BY <1>3, <1>7, <3>3
      <4>2. backup'[g] # t
        BY <1>4, <1>8, <1>15 DEF LinksAt
      <4>3. g # f /\ disk[g] = t
        BY <1>10, <1>11, <2>3, <4>1, <4>2 DEF Traced
      <4>4. Wrote(w, t, g)
        BY <1>2, <4>3 DEF EditInv, Traces, Traced, At
      <4>5. PICK j \in DOMAIN paths : j <= i /\ paths[j] = g
        BY <1>2, <4>1, <4>4 DEF Wrote, At
      <4>6. j \in Nat /\ j > 0 /\ j # i
        BY <1>2, <1>5, <4>3, <4>5 DEF At
      <4>7. i # 1 /\ j <= i - 1
        BY <1>4, <4>5, <4>6
      <4>8. st2 = "rollback" /\ i2 = i - 1
        BY <1>13, <4>7
      <4> QED BY <3>1, <4>5, <4>7, <4>8 DEF Wrote, Busy
    <3> QED BY <3>2, <3>3
  <2> QED BY <1>1, <1>2, <1>7, <2>1, <2>2, <2>3, TracesMove
<1>20. Looks'
  <2>1. ASSUME NEW v \in Who, Busy(v)' PROVE LooksOk(v)'
    <3>1. CASE v = w
      <4>1. /\ engine'[w].st = st2 /\ engine'[w].i = i2 /\ engine'[w].t = t
            /\ Now(w)'.paths = paths
        BY <1>1, <1>4, <1>14 DEF Moved, Now, FileFrame
      <4>2. LooksOk(w)
        BY <1>1 DEF EditInv, Looks, Busy
      <4>3. \A j \in DOMAIN paths : j <= i => Mine(w, j)
        BY <1>1, <1>4, <4>2 DEF LooksOk
      <4>4. CASE st2 = "rollback"
        <5>1. \A j \in DOMAIN paths : j <= i2 => Mine(w, j)'
          <6> SUFFICES ASSUME NEW j \in DOMAIN paths, j <= i2 PROVE Mine(w, j)'
            OBVIOUS
          <6>1. j <= i /\ j # i /\ i2 = i - 1
            BY <1>2, <1>4, <1>13, <4>4 DEF At
          <6>2. paths[j] # f /\ paths[j] \in Files
            BY <1>2, <1>5, <6>1 DEF At
          <6> QED BY <1>4, <1>11, <1>12, <4>1, <4>3, <6>1, <6>2 DEF Mine
        <5> QED BY <3>1, <4>1, <4>4, <5>1 DEF LooksOk
      <4>5. CASE st2 = "failed"
        BY <3>1, <4>1, <4>5 DEF LooksOk
      <4> QED BY <4>4, <4>5
    <3>2. CASE v # w
      BY <1>1, <1>12, <1>14, <2>1, <3>2, LooksStay DEF Moved
    <3> QED BY <3>1, <3>2
  <2> QED BY <2>1 DEF Looks
<1> QED BY <1>1, <1>14, <1>16, <1>18, <1>19, <1>20, FileInv

\* Another program's change is a late one for whoever has had the last look.
LEMMA OutsideEditInv ==
    ASSUME EditInv, NEW f \in Files, NEW text \in {Base, Ext, Absent}, NEW inPlace \in BOOLEAN,
           OutsideEdit(f, text, inPlace)
    PROVE  EditInv'
<1>1. FileFrame /\ engine' = engine /\ faults' = faults /\ temps' = temps
  BY DEF OutsideEdit, FileFrame
<1>2. /\ EngineType /\ disk \in [Files -> Texts \cup {Absent}] /\ outside \in 0..MaxOutside
      /\ backup \in [Files -> Texts \cup {Unlinked, Linked}]
      /\ temps \subseteq Tx \X Files /\ faults \in 0..MaxFaults
  BY TypesOfParts DEF EditInv, TypeOK
<1>3. /\ disk' = [disk EXCEPT ![f] = text] /\ text \in Texts \cup {Absent} /\ text \notin Tx
      /\ backup' = Kept(f) \/ (backup' = backup /\ text # Absent)
  BY Marks DEF OutsideEdit, Texts
<1>4. /\ disk' \in [Files -> Texts \cup {Absent}] /\ disk'[f] = text
      /\ \A g \in Files \ {f} : disk'[g] = disk[g]
  BY <1>2, <1>3
<1>5. /\ late' \in [Who -> SUBSET Files]
      /\ \A v \in Who : late[v] \subseteq late'[v]
      /\ \A v \in Who : engine[v].st \in {"recheck", "publish", "rollback", "completed"}
                          => f \in late'[v]
  <2>1. Disturbs(Who, f)
    BY DEF OutsideEdit
  <2> QED BY <2>1, DisturbsTells DEF EditInv
<1>6. TypeOK'
  <2>1. outside' \in 0..MaxOutside
    BY <1>2, EditAssumption DEF OutsideEdit
  <2>2. backup' \in [Files -> Texts \cup {Unlinked, Linked}]
    BY <1>2, <1>3, KeptTypes
  <2>3. EngineType'
    BY <1>1, <1>2 DEF EngineType
  <2> QED BY <1>1, <1>2, <1>4, <1>5, <2>1, <2>2, <2>3, FileTypes DEF EditInv
<1>7. EngineSound'
  BY <1>1 DEF EditInv, EngineSound, Busy, Now, Allowed, FileFrame
<1>8. Links'
  <2>1. \A w \in Who : Staged(w)'
    BY <1>1 DEF EditInv, Links, Staged, Multi, Now, FileFrame
  <2>2. Busy("agent") => text # engine["agent"].t
    BY <1>2, <1>3, EngineRecord DEF Who
  <2> QED BY <1>1, <1>3, <2>1, <2>2, LinksKept
<1>9. Traces'
  <2> SUFFICES ASSUME NEW g \in Files, NEW s \in Tx, Traced(s, g)'
               PROVE  (/\ s \in DOMAIN txs
                       /\ <<"started", s>> \in evidence
                       /\ txs[s].end \in {"failed", "rejected"} => faults >= 2
                       /\ txs[s].end = "open" => Wrote(txs[s].by, s, g))'
    BY DEF Traces
  <2>1. Traced(s, g)
    <3>1. disk'[g] = s => disk[g] = s
      BY <1>3, <1>4
    <3>2. backup'[g] = s => backup[g] = s \/ disk[g] = s
      BY <1>3, KeptTypes
    <3> QED BY <3>1, <3>2 DEF Traced
  <2>2. /\ s \in DOMAIN txs /\ <<"started", s>> \in evidence
        /\ txs[s].end \in {"failed", "rejected"} => faults >= 2
        /\ txs[s].end = "open" => Wrote(txs[s].by, s, g)
    BY <2>1 DEF EditInv, Traces
  <2>3. txs' = txs /\ evidence' = evidence /\ engine' = engine /\ faults' = faults
    BY <1>1 DEF FileFrame
  <2>4. Wrote(txs[s].by, s, g) => Wrote(txs[s].by, s, g)'
    BY <2>3 DEF Wrote, Busy, Now
  <2> QED BY <2>2, <2>3, <2>4
<1>10. Looks'
  <2>1. ASSUME NEW v \in Who, Busy(v)' PROVE LooksOk(v)'
    BY <1>1, <1>4, <1>5, <2>1, LooksStay
  <2> QED BY <2>1 DEF Looks
<1> QED BY <1>1, <1>6, <1>7, <1>8, <1>9, <1>10, FileInv

-----------------------------------------------------------------------------
(***************************************************************************)
(* The invariant, and the four properties of the edits.                    *)
(***************************************************************************)

\* Nothing is under way at first.
LEMMA InitInv == Init => EditInv
<1> SUFFICES ASSUME Init PROVE EditInv
  OBVIOUS
<1>1. \A w \in Who : engine[w] = NoApply /\ engine[w].st = "none" /\ ~Busy(w)
  BY DEF Init, NoApply, Busy
<1>2. TypeOK
  <2>1. disk \in [Files -> Texts \cup {Absent}] /\ backup \in [Files -> Texts \cup {Unlinked, Linked}]
    BY Marks DEF Init, Texts
  <2>2. outside \in 0..MaxOutside /\ faults \in 0..MaxFaults /\ Len(txs) <= MaxTx
    BY EditAssumption DEF Init
  <2>3. /\ txs \in Seq(Transaction) /\ queue \in Seq([t : Tx, verdict : {"approve", "reject"}])
    BY DEF Init
  <2> QED BY <1>1, <2>1, <2>2, <2>3 DEF Init, TypeOK
<1>3. DOMAIN txs = {} /\ DOMAIN queue = {} /\ agent.st = "none"
  BY DEF Init, NoRequest
<1>4. TxSound /\ LogSound /\ EngineSound /\ AgentSound
  BY <1>1, <1>3 DEF TxSound, LogSound, EngineSound, AgentSound, Init
<1>5. Links
  <2>1. \A w \in Who : Staged(w)
    BY <1>1 DEF Staged
  <2>2. AgentLinks
    BY <1>1 DEF AgentLinks, Init, Who
  <2>3. \A f \in Files : backup[f] = Linked => disk[f] # Absent
    BY Marks DEF Init
  <2> QED BY <2>1, <2>2, <2>3, LinksParts
<1>6. Traces
  <2>1. \A f \in Files : \A t \in Tx : ~Traced(t, f)
    BY Marks DEF Init, Traced
  <2> QED BY <2>1 DEF Traces
<1>7. Looks
  BY <1>1 DEF Looks
<1> QED BY <1>2, <1>4, <1>5, <1>6, <1>7 DEF EditInv

\* Where nothing changes, the invariant stays.
LEMMA StutterInv == ASSUME EditInv, UNCHANGED vars PROVE EditInv'
<1>1. /\ FileFrame /\ disk' = disk /\ temps' = temps /\ backup' = backup /\ engine' = engine
      /\ outside' = outside /\ faults' = faults /\ late' = late
  BY DEF vars, FileFrame
<1>2. TypeOK'
  BY <1>1 DEF EditInv, TypeOK, FileFrame
<1>3. EngineSound'
  BY <1>1 DEF EditInv, EngineSound, Busy, Now, Allowed, FileFrame
<1>4. Links'
  <2>1. \A w \in Who : Staged(w)'
    BY <1>1 DEF EditInv, Links, Staged, Multi, Now, FileFrame
  <2> QED BY <1>1, <2>1, LinksSame
<1>5. Traces'
  <2> SUFFICES ASSUME NEW g \in Files, NEW s \in Tx, Traced(s, g)'
               PROVE  (/\ s \in DOMAIN txs
                       /\ <<"started", s>> \in evidence
                       /\ txs[s].end \in {"failed", "rejected"} => faults >= 2
                       /\ txs[s].end = "open" => Wrote(txs[s].by, s, g))'
    BY DEF Traces
  <2>1. Traced(s, g)
    BY <1>1 DEF Traced
  <2>2. /\ s \in DOMAIN txs /\ <<"started", s>> \in evidence
        /\ txs[s].end \in {"failed", "rejected"} => faults >= 2
        /\ txs[s].end = "open" => Wrote(txs[s].by, s, g)
    BY <2>1 DEF EditInv, Traces
  <2>3. txs' = txs /\ evidence' = evidence /\ engine' = engine /\ faults' = faults
    BY <1>1 DEF FileFrame
  <2>4. Wrote(txs[s].by, s, g) => Wrote(txs[s].by, s, g)'
    BY <2>3 DEF Wrote, Busy, Now
  <2> QED BY <2>2, <2>3, <2>4
<1>6. Looks'
  <2>1. ASSUME NEW v \in Who, Busy(v)' PROVE LooksOk(v)'
    BY <1>1, <2>1, LooksStay
  <2> QED BY <2>1 DEF Looks
<1> QED BY <1>1, <1>2, <1>3, <1>4, <1>5, <1>6, FileInv

\* Every step keeps the invariant.
LEMMA NextInv == EditInv /\ [Next]_vars => EditInv'
<1> SUFFICES ASSUME EditInv, [Next]_vars PROVE EditInv'
  OBVIOUS
<1>1. CASE UNCHANGED vars
  BY <1>1, StutterInv
<1>2. CASE Prepare
  <2>1. PICK paths \in Targets, kind \in {"modify", "create"} :
          /\ kind = "create" => Len(paths) = 1
          /\ \/ Len(paths) = 1 /\ LocalPrepare(kind, paths[1])
             \/ \E mode \in {"allow", "ask", "auto"}, reviewer \in BOOLEAN :
                  AgentPrepare(kind, paths, mode, reviewer)
    BY <1>2 DEF Prepare
  <2>2. CASE Len(paths) = 1 /\ LocalPrepare(kind, paths[1])
    <3>1. paths[1] \in Files
      BY <2>2, EditAssumption
    <3> QED BY <2>2, <3>1, LocalPrepareInv
  <2>3. CASE \E mode \in {"allow", "ask", "auto"}, reviewer \in BOOLEAN :
               AgentPrepare(kind, paths, mode, reviewer)
    BY <2>1, <2>3, AgentPrepareInv
  <2> QED BY <2>1, <2>2, <2>3
<1>3. CASE Verdict
  BY <1>3, LocalDecideInv, SubmitDecisionInv, BumpRevisionInv, ReviewEndsInv,
     TakeDecisionInv,
     InterruptInv, EndTurnInv DEF Verdict
<1>4. CASE Apply
  BY <1>4, RejectInv, StartInv, CheckInv, WriteInv, LinkInv, RecheckInv, PublishInv,
     RollbackInv, RecordInv DEF Apply
<1>5. CASE Environment
  BY <1>5, OutsideEditInv DEF Environment
<1> QED BY <1>1, <1>2, <1>3, <1>4, <1>5 DEF Next

\* Every behaviour keeps the invariant, and with it the types.
THEOREM EditsAreSound == Spec => []EditInv
<1>1. EditInv /\ [Next]_vars => EditInv'
  BY NextInv
<1> QED BY <1>1, InitInv, PTL DEF Spec

\* A transaction is applied to all of its files or, unless a roll-back itself fails,
\* to none (apply_multiple_operations_atomically), whatever other programs and the
\* other apply do in between.
THEOREM EditsAreWhole == Spec => []AllOrNothing
<1>1. EditInv => AllOrNothing
  <2> SUFFICES ASSUME EditInv PROVE AllOrNothing
    OBVIOUS
  <2>1. ASSUME NEW t \in DOMAIN txs, txs[t].end \in {"failed", "rejected"}, faults < 2,
               NEW f \in Files, disk[f] = t
        PROVE  FALSE
    <3>1. t \in Tx /\ faults \in Nat
      BY <2>1, TypesOfParts, TxRecord DEF EditInv
    <3>2. faults >= 2
      BY <2>1, <3>1 DEF EditInv, Traces, Traced
    <3> QED BY <2>1, <3>1, <3>2
  <2>2. ASSUME NEW w \in Who, engine[w].st = "completed", NEW i \in DOMAIN Now(w).paths
        PROVE  disk[Now(w).paths[i]] = engine[w].t \/ Now(w).paths[i] \in late[w]
    BY <2>2 DEF EditInv, Looks, LooksOk, Mine, Busy
  <2> QED BY <2>1, <2>2 DEF AllOrNothing
<1> QED BY <1>1, EditsAreSound, PTL

\* The log knows of every transaction whose text is in a file, and of the preview of
\* every transaction it knows to be started (write_ahead_log).
THEOREM LogIsAhead == Spec => []WriteAhead
<1>1. EditInv => WriteAhead
  <2> SUFFICES ASSUME EditInv PROVE WriteAhead
    OBVIOUS
  <2>1. \A t \in DOMAIN txs : t \in Tx
    BY TypesOfParts, TxRecord DEF EditInv
  <2>2. \A t \in DOMAIN txs, f \in Files : disk[f] = t => <<"started", t>> \in evidence
    BY <2>1 DEF EditInv, Traces, Traced
  <2>3. \A t \in DOMAIN txs : <<"started", t>> \in evidence => <<"prepared", t>> \in evidence
    BY <2>1 DEF EditInv, LogSound
  <2> QED BY <2>2, <2>3 DEF WriteAhead
<1> QED BY <1>1, EditsAreSound, PTL

\* One step of Authorised.
Admits ==
    \A w \in Who : engine[w].st = "start" /\ engine'[w].st = "check" =>
        /\ Now(w).end = "open"
        /\ \/ Now(w).says = "allow"
           \/ engine[w].t \in approved \/ engine[w].t \in executed

\* An apply begins only for an open transaction, and with authority: of the mode, of
\* the user's approval of this very preview, or of a review that was fresh when it
\* ended (EditAccess::apply_with_evidence_sink_and_freshness and its callers).
THEOREM AppliesAreAuthorised == Spec => Authorised
<1>1. EditInv /\ [Next]_vars => [Admits]_vars
  BY DEF EditInv, EngineSound, Busy, Allowed, Now, Admits
<1> QED BY <1>1, EditsAreSound, PTL DEF Spec, Authorised, Admits

\* One step of NoBlindOverwrite, for one file.
Overwrites(f) ==
    \E w \in Who :
        /\ engine'[w] # engine[w]
        /\ \/ engine[w].st = "publish" /\ disk[f] = Now(w).before[f]
           \/ engine[w].st = "rollback" /\ disk[f] = engine[w].t
           \/ f \in late[w] /\ Now(w).kind = "modify"

\* One step of NoBlindOverwrite.
LooksFirst == \A f \in Files : disk'[f] # disk[f] /\ outside' = outside => Overwrites(f)

\* What an apply publishes over is the previewed text, or a later one of a file that
\* is modified.
LEMMA PublishLooks ==
    ASSUME EditInv, NEW w \in Who, Publish(w), NEW f \in Files, disk'[f] # disk[f]
    PROVE  Overwrites(f)
<1>1. /\ EngineType /\ TxsType /\ Busy(w) /\ engine[w].st = "publish"
      /\ disk \in [Files -> Texts \cup {Absent}]
  BY TypesOfParts, TypesOfEngine DEF EditInv, TypeOK, Publish, Busy
<1>2. PICK i \in Nat \ {0} : i = engine[w].i
  BY <1>1, EngineRecord
<1>3. engine[w].t \in DOMAIN txs /\ i <= Len(Now(w).paths) /\ TxOk(engine[w].t)
  BY <1>1, <1>2 DEF EditInv, EngineSound, TxSound
<1>4. PICK p \in Seq(Files) : p = Now(w).paths
  BY <1>1, <1>3, TxRecord DEF Now
<1>5. i \in DOMAIN p /\ Target(w) = p[i] /\ p[i] \in Files
  BY <1>2, <1>3, <1>4 DEF Target
<1>6. f = p[i] /\ (Now(w).kind = "modify" \/ disk[f] = Absent)
      /\ (IF Last(w) THEN To(w, "completed", 1) ELSE To(w, "publish", engine[w].i + 1))
  BY <1>1, <1>5 DEF Publish
<1>7. engine'[w] # engine[w]
  <2>1. CASE Last(w)
    <3>1. Moved(w, "completed", engine[w].t, 1)
      BY <1>1, <1>6, <2>1, ToMoves DEF ApplyStates
    <3> QED BY <1>1, <3>1 DEF Moved
  <2>2. CASE ~Last(w)
    <3>1. i + 1 \in Nat \ {0} /\ i + 1 # i
      BY <1>2
    <3>2. To(w, "publish", i + 1)
      BY <1>2, <1>6, <2>2
    <3>3. Moved(w, "publish", engine[w].t, i + 1)
      BY <1>1, <3>1, <3>2, ToMoves DEF ApplyStates
    <3> QED BY <1>2, <3>1, <3>3 DEF Moved
  <2> QED BY <2>1, <2>2
<1>8. disk[f] = Now(w).before[f] \/ f \in late[w]
  <2>1. Still(w, i)
    BY <1>1, <1>2, <1>4, <1>5 DEF EditInv, Looks, LooksOk
  <2> QED BY <1>4, <1>6, <2>1 DEF Still
<1>9. Now(w).kind = "modify" \/ disk[f] = Now(w).before[f]
  <2>1. CASE Now(w).kind = "modify"
    BY <2>1
  <2>2. CASE Now(w).kind # "modify"
    <3>1. Now(w).kind = "create"
      <4>1. PICK x \in Transaction : x = Now(w)
        BY <1>1, <1>3, TxRecord DEF Now
      <4>2. x.kind \in {"modify", "create"}
        BY DEF Transaction
      <4> QED BY <2>2, <4>1, <4>2
    <3>2. ~(Len(p) > 1) /\ Now(w).before[p[1]] = Absent
      BY <1>3, <1>4, <3>1 DEF TxOk, Shaped, Now
    <3>3. Len(p) \in Nat /\ i <= Len(p)
      BY <1>3, <1>4
    <3>4. i = 1
      BY <3>2, <3>3
    <3> QED BY <1>6, <2>2, <3>2, <3>4
  <2> QED BY <2>1, <2>2
<1> QED BY <1>1, <1>7, <1>8, <1>9 DEF Overwrites

\* What a roll-back replaces is the transaction's own text, or a later one.
LEMMA RollbackLooks ==
    ASSUME EditInv, NEW w \in Who, Rollback(w), NEW f \in Files, disk'[f] # disk[f]
    PROVE  Overwrites(f)
<1>1. /\ EngineType /\ TxsType /\ Busy(w) /\ engine[w].st = "rollback"
      /\ disk \in [Files -> Texts \cup {Absent}]
  BY TypesOfParts, TypesOfEngine DEF EditInv, TypeOK, Rollback, Busy
<1>2. PICK i \in Nat \ {0} : i = engine[w].i
  BY <1>1, EngineRecord
<1>3. engine[w].t \in DOMAIN txs /\ i <= Len(Now(w).paths) /\ TxOk(engine[w].t)
  BY <1>1, <1>2 DEF EditInv, EngineSound, TxSound
<1>4. PICK p \in Seq(Files) : p = Now(w).paths
  BY <1>1, <1>3, TxRecord DEF Now
<1>5. i \in DOMAIN p /\ Target(w) = p[i] /\ p[i] \in Files
  BY <1>2, <1>3, <1>4 DEF Target
<1>6. f = p[i]
  BY <1>1, <1>5 DEF Rollback
<1>7. engine'[w] # engine[w]
  <2>1. CASE i > 1
    <3>1. i - 1 \in Nat \ {0} /\ i - 1 # i
      BY <1>2, <2>1
    <3>2. To(w, "rollback", i - 1)
      BY <1>2, <2>1 DEF Rollback
    <3>3. Moved(w, "rollback", engine[w].t, i - 1)
      BY <1>1, <3>1, <3>2, ToMoves DEF ApplyStates
    <3> QED BY <1>2, <3>1, <3>3 DEF Moved
  <2>2. CASE ~(i > 1)
    <3>1. To(w, "failed", 1)
      BY <1>2, <2>2 DEF Rollback, Abort
    <3>2. Moved(w, "failed", engine[w].t, 1)
      BY <1>1, <3>1, ToMoves DEF ApplyStates
    <3> QED BY <1>1, <3>2 DEF Moved
  <2> QED BY <2>1, <2>2
<1>8. disk[f] = engine[w].t \/ f \in late[w]
  <2>1. i <= engine[w].i
    BY <1>2
  <2>2. Mine(w, i)
    BY <1>1, <2>1, <1>4, <1>5 DEF EditInv, Looks, LooksOk
  <2> QED BY <1>4, <1>6, <2>2 DEF Mine
<1>9. Now(w).kind = "modify"
  <2>1. Len(Now(w).paths) > 1
    BY <1>1 DEF EditInv, Links, Staged, Multi
  <2> QED BY <1>3, <2>1 DEF TxOk, Shaped, Now
<1> QED BY <1>1, <1>7, <1>8, <1>9 DEF Overwrites

\* Nothing but publishing, rolling back and other programs changes a file.
LEMMA OthersLeaveFiles ==
    ASSUME EditInv, Next, UNCHANGED outside, NEW f \in Files, disk'[f] # disk[f]
    PROVE  \E w \in Who : Publish(w) \/ Rollback(w)
<1>1. CASE Prepare
  BY <1>1 DEF Prepare, LocalPrepare, AgentPrepare
<1>2. CASE Verdict
  BY <1>2 DEF Verdict, LocalDecide, SubmitDecision, BumpRevision, ReviewEnds,
     TakeDecision,
     Interrupt, EndTurn
<1>3. CASE Apply
  <2>1. PICK w \in Who : \/ Reject(w) \/ Start(w) \/ Check(w) \/ Write(w) \/ Link(w)
                         \/ Recheck(w) \/ Publish(w) \/ Rollback(w) \/ Record(w)
    BY <1>3 DEF Apply
  <2>2. CASE Reject(w) \/ Start(w) \/ Check(w) \/ Write(w) \/ Link(w) \/ Recheck(w) \/ Record(w)
    BY <2>2 DEF Reject, Start, Check, Write, Link, Recheck, Record
  <2> QED BY <2>1, <2>2
<1>4. CASE Environment
  <2>1. outside' = outside + 1 /\ outside \in Nat
    BY <1>4, EditAssumption DEF Environment, OutsideEdit, EditInv, TypeOK
  <2> QED BY <2>1
<1> QED BY <1>1, <1>2, <1>3, <1>4 DEF Next

\* An apply replaces nothing it has not looked at, save what came after its last look,
\* creates over nothing, and rolls back only its own text or such a late one.
THEOREM ApplyLooksFirst == Spec => NoBlindOverwrite
<1>1. EditInv /\ [Next]_vars => [LooksFirst]_vars
  <2> SUFFICES ASSUME EditInv, Next, NEW f \in Files, disk'[f] # disk[f], outside' = outside
               PROVE  Overwrites(f)
    BY DEF LooksFirst
  <2> QED BY OthersLeaveFiles, PublishLooks, RollbackLooks
<1> QED BY <1>1, EditsAreSound, PTL DEF Spec, NoBlindOverwrite, LooksFirst, Overwrites

=============================================================================
