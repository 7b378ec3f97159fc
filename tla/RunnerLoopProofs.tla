--------------------------- MODULE RunnerLoopProofs ---------------------------
(***************************************************************************)
(* The proofs about the runner's loop: the turns it runs and keeps, and    *)
(* the model it activates.                                                 *)
(***************************************************************************)
EXTENDS TurnLifecycle, ModelActivation, SequenceTheorems, FiniteSetTheorems, WellFoundedInduction, TLAPS

-----------------------------------------------------------------------------
(***************************************************************************)
(* Theorems about TurnLifecycle: what a session file says of its turns,    *)
(* for any number of files, turns, events, previews, failures and stops.   *)
(*                                                                         *)
(* That a turn index is one prompt's is not inductive: it rests on every   *)
(* index in use lying below the counter, which a restart or a switch reads *)
(* back from the file, and on every pending preview having left its        *)
(* evidence there.  That a turn ends once and after it began rests on what *)
(* the running task has put into the file, and that the loop keeps turns   *)
(* on where their events are: in the loop's log, or in the copy the task   *)
(* works on.                                                               *)
(***************************************************************************)

TurnTask == [st : {"none", "running", "finishing", "done", "failed"}, turn : Indices,
             log : Seq(Event), pending : Seq(Event)]

(***************************************************************************)
(* The inductive invariant.                                                *)
(***************************************************************************)

\* Only the evidence of a local edit may lie in another session's file.
OwnFile ==
    \A s \in LogFiles : \A k \in 1..Len(disk[s]) :
      disk[s][k].kind # "edit" => disk[s][k].session = s

\* The counter is above every index the current session has used.
IndicesBelow ==
    Alive => /\ \A k \in 1..Len(disk[current]) :
                  disk[current][k].session = current => disk[current][k].turn < turnIndex
             /\ \A k \in 1..Len(mem) :
                  mem[k].kind = "finished" => mem[k].turn < turnIndex

\* A pending preview has left its evidence in the file of its session.
PreviewsAreEvident ==
    \A p \in previews : \E k \in 1..Len(disk[p.session]) :
      /\ disk[p.session][k].kind = "edit" /\ disk[p.session][k].session = p.session
      /\ disk[p.session][k].turn = p.turn

\* A turn in a file has one end, and it began before that.
EndsAfterStart ==
    \A s \in LogFiles : \A j \in 1..Len(disk[s]) : disk[s][j].kind = "finished" =>
      /\ \A i \in 1..Len(disk[s]) :
           disk[s][i].kind = "finished" /\ disk[s][i].turn = disk[s][j].turn => i = j
      /\ \E i \in 1..Len(disk[s]) :
           i < j /\ disk[s][i].kind = "user" /\ disk[s][i].turn = disk[s][j].turn

\* The turn the loop holds has begun in the current file, and only its task ends it.
TaskIsOurs ==
    task.st # "none" =>
      /\ Alive /\ task.turn < turnIndex
      /\ \E k \in 1..Len(disk[current]) :
           disk[current][k].kind = "user" /\ disk[current][k].turn = task.turn
      /\ \A k \in 1..Len(task.pending) :
           /\ task.pending[k].kind = "step" /\ task.pending[k].turn = task.turn
           /\ task.pending[k].session = current
      /\ \A k \in 1..Len(task.log) :
           task.log[k].kind = "finished" => task.log[k].turn < turnIndex

RunningIsOpen ==
    task.st = "running" =>
      /\ \A k \in 1..Len(disk[current]) :
           disk[current][k].kind = "finished" => disk[current][k].turn # task.turn
      /\ \A k \in 1..Len(mem) : mem[k].kind = "finished" => mem[k].turn # task.turn

Ended(s, t) == \E k \in 1..Len(disk[s]) : disk[s][k].kind = "finished" /\ disk[s][k].turn = t

\* While nothing failed and nothing stopped: a turn in a file has ended or is the
\* one that runs, and what tasks recorded is in the log in use.
NothingFailed ==
    Alive /\ faults = 0 /\ stops = 0 =>
      /\ loop # "handling" /\ task.st # "failed" /\ task.pending = <<>>
      /\ \A s \in LogFiles : \A k \in 1..Len(disk[s]) :
           disk[s][k].kind = "user" \/ disk[s][k].by = "task" =>
             \/ Ended(s, disk[s][k].turn)
             \/ s = current /\ task.st = "running" /\ task.turn = disk[s][k].turn
      /\ \A k \in 1..Len(disk[current]) :
           disk[current][k].by = "task" =>
             disk[current][k] \in EventsOf(IF task.st = "none" THEN mem ELSE task.log)

\* ... and the events of other turns than the one that runs in the loop's own.
OthersAreKept ==
    Alive /\ faults = 0 /\ stops = 0 /\ task.st # "none" =>
      \A k \in 1..Len(disk[current]) :
        disk[current][k].by = "task" /\ disk[current][k].turn # task.turn =>
          disk[current][k] \in EventsOf(mem)

Types ==
    /\ LoopTypeOK /\ task \in TurnTask
    /\ run = "closing" => stops < MaxStops
    /\ ~Alive => stops # 0

TurnsInv ==
    /\ Types /\ OwnFile /\ IndicesBelow /\ PreviewsAreEvident /\ EndsAfterStart
    /\ TaskIsOurs /\ RunningIsOpen /\ NothingFailed /\ OthersAreKept
    /\ TurnIndexUnique /\ ShutdownEndsTurn
-----------------------------------------------------------------------------
(***************************************************************************)
(* Logs.                                                                   *)
(***************************************************************************)

\* A bounded set of indices has a largest one.
LEMMA Largest ==
    ASSUME NEW n \in Nat, NEW S \in SUBSET (0..n), S # {}
    PROVE  \E t \in S : \A u \in S : u <= t
<1> DEFINE T == {n - t : t \in S}
<1>1. T \subseteq Nat /\ T # {}
  <2>1. ASSUME NEW t \in S PROVE n - t \in Nat
    OBVIOUS
  <2>2. PICK t : t \in S
    OBVIOUS
  <2>3. n - t \in T
    BY <2>2
  <2> QED BY <2>1, <2>3
<1>2. PICK x \in T : \A y \in T : ~(<<y, x>> \in OpToRel(<, Nat))
  BY <1>1, NatLessThanWellFounded, WFMin
<1>3. \A y \in T : ~(y < x)
  BY <1>1, <1>2 DEF OpToRel
<1>4. PICK t \in S : x = n - t
  OBVIOUS
<1>5. ASSUME NEW u \in S PROVE u <= t
  <2>1. n - u \in T /\ u \in Int /\ t \in Int
    OBVIOUS
  <2> QED BY <1>3, <1>4, <2>1
<1> QED BY <1>5

\* The turn of an event in a log is a number.
LEMMA TurnIsNat ==
    ASSUME LifecycleAssumption, NEW l \in Seq(Event), NEW k \in 1..Len(l)
    PROVE  l[k] \in Event /\ l[k].turn \in Nat
<1>1. l[k] \in Event
  BY ElementOfSeq
<1>2. MaxIndex \in Nat
  BY DEF LifecycleAssumption
<1> QED BY <1>1, <1>2 DEF Event, Indices

\* The index read back from a log is above every index in it.
LEMMA NextIsAbove ==
    ASSUME LifecycleAssumption, NEW l \in Seq(Event)
    PROVE  /\ NextTurnIndex(l) \in Nat
           /\ \A k \in 1..Len(l) : l[k].turn \in Nat /\ l[k].turn < NextTurnIndex(l)
<1>1. CASE l = <<>>
  BY <1>1 DEF NextTurnIndex
<1>2. CASE l # <<>>
  <2>1. \A k \in 1..Len(l) : l[k] \in Event
    BY ElementOfSeq
  <2>2. \A k \in 1..Len(l) : l[k].turn \in 0..MaxIndex
    BY <2>1 DEF Event, Indices
  <2>3. \A k \in 1..Len(l) : l[k].turn \in TurnsOf(l)
    BY DEF TurnsOf, EventsOf
  <2>4. TurnsOf(l) \in SUBSET (0..MaxIndex)
    BY <2>2 DEF TurnsOf, EventsOf
  <2>5. TurnsOf(l) # {}
    <3>1. 1 \in 1..Len(l)
      BY <1>2, EmptySeq
    <3> QED BY <2>3, <3>1
  <2>6. \E t \in TurnsOf(l) : \A u \in TurnsOf(l) : u <= t
    <3>1. MaxIndex \in Nat
      BY DEF LifecycleAssumption
    <3> QED BY <2>4, <2>5, <3>1, Largest
  <2>7. PICK t : t = CHOOSE x \in TurnsOf(l) : \A u \in TurnsOf(l) : u <= x
    OBVIOUS
  <2>8. t \in TurnsOf(l) /\ \A u \in TurnsOf(l) : u <= t
    BY <2>6, <2>7
  <2>9. NextTurnIndex(l) = 1 + t
    BY <1>2, <2>7 DEF NextTurnIndex
  <2> QED BY <2>2, <2>3, <2>4, <2>8, <2>9
<1> QED BY <1>1, <1>2

\* A log that is extended: what was there stays where it was.
LEMMA Extended ==
    ASSUME NEW l \in Seq(Event), NEW m \in Seq(Event)
    PROVE  /\ l \o m \in Seq(Event) /\ Len(l) \in Nat /\ Len(m) \in Nat
           /\ Len(l \o m) = Len(l) + Len(m)
           /\ \A k \in 1..Len(l) : k \in 1..Len(l \o m) /\ (l \o m)[k] = l[k]
           /\ \A a \in 1..Len(m) :
                Len(l) + a \in 1..Len(l \o m) /\ (l \o m)[Len(l) + a] = m[a]
           /\ \A k \in 1..Len(l \o m) :
                k \in 1..Len(l) \/ \E a \in 1..Len(m) : k = Len(l) + a
<1>1. /\ l \o m \in Seq(Event) /\ Len(l) \in Nat /\ Len(m) \in Nat
      /\ Len(l \o m) = Len(l) + Len(m)
      /\ \A i \in 1 .. Len(l) + Len(m) : (l \o m)[i] =
                     IF i <= Len(l) THEN l[i] ELSE m[i - Len(l)]
  BY ConcatProperties, LenProperties
<1>2. \A k \in 1..Len(l) : k \in 1..Len(l \o m) /\ (l \o m)[k] = l[k]
  BY <1>1
<1>3. \A a \in 1..Len(m) : Len(l) + a \in 1..Len(l \o m) /\ (l \o m)[Len(l) + a] = m[a]
  <2> SUFFICES ASSUME NEW a \in 1..Len(m)
               PROVE  Len(l) + a \in 1..Len(l \o m) /\ (l \o m)[Len(l) + a] = m[a]
    OBVIOUS
  <2>1. Len(l) + a \in 1..(Len(l) + Len(m)) /\ ~(Len(l) + a <= Len(l))
        /\ (Len(l) + a) - Len(l) = a
    BY <1>1
  <2> QED BY <1>1, <2>1
<1>4. \A k \in 1..Len(l \o m) : k \in 1..Len(l) \/ \E a \in 1..Len(m) : k = Len(l) + a
  <2> SUFFICES ASSUME NEW k \in 1..Len(l \o m), k \notin 1..Len(l)
               PROVE  \E a \in 1..Len(m) : k = Len(l) + a
    OBVIOUS
  <2>1. k - Len(l) \in 1..Len(m) /\ k = Len(l) + (k - Len(l))
    BY <1>1
  <2> QED BY <2>1
<1> QED BY <1>1, <1>2, <1>3, <1>4

\* What is in a log that is extended.
LEMMA ExtendedHolds ==
    ASSUME NEW l \in Seq(Event), NEW m \in Seq(Event)
    PROVE  EventsOf(l) \subseteq EventsOf(l \o m) /\ EventsOf(m) \subseteq EventsOf(l \o m)
<1>1. /\ \A k \in 1..Len(l) : k \in 1..Len(l \o m) /\ (l \o m)[k] = l[k]
      /\ \A a \in 1..Len(m) : Len(l) + a \in 1..Len(l \o m) /\ (l \o m)[Len(l) + a] = m[a]
  BY Extended
<1>2. ASSUME NEW k \in 1..Len(l) PROVE l[k] \in EventsOf(l \o m)
  BY <1>1 DEF EventsOf
<1>3. ASSUME NEW a \in 1..Len(m) PROVE m[a] \in EventsOf(l \o m)
  BY <1>1 DEF EventsOf
<1> QED BY <1>2, <1>3 DEF EventsOf

\* One event by itself.
LEMMA OneMore ==
    ASSUME NEW e \in Event
    PROVE  <<e>> \in Seq(Event) /\ Len(<<e>>) = 1 /\ <<e>>[1] = e
  OBVIOUS

\* Two events by themselves.
LEMMA TwoMore ==
    ASSUME NEW e \in Event, NEW f \in Event
    PROVE  /\ <<e, f>> \in Seq(Event) /\ Len(<<e, f>>) = 2
           /\ <<e, f>>[1] = e /\ <<e, f>>[2] = f
  OBVIOUS

\* One event more is an extension.
LEMMA AppendExtends ==
    ASSUME NEW l \in Seq(Event), NEW e \in Event
    PROVE  Append(l, e) = l \o <<e>>
<1>1. <<e>> \in Seq(Event) /\ Len(<<e>>) = 1 /\ <<e>>[1] = e
  OBVIOUS
<1>2. Append(l, e) \in Seq(Event) /\ Len(Append(l, e)) = Len(l) + 1
      /\ \A k \in 1..Len(l) + 1 : Append(l, e)[k] = IF k <= Len(l) THEN l[k] ELSE e
  OBVIOUS
<1>3. /\ l \o <<e>> \in Seq(Event) /\ Len(l \o <<e>>) = Len(l) + 1
      /\ \A k \in 1..Len(l) + 1 : (l \o <<e>>)[k] = IF k <= Len(l) THEN l[k] ELSE e
  BY <1>1, ConcatProperties, LenProperties
<1> QED BY <1>2, <1>3, SeqEqual

-----------------------------------------------------------------------------
(***************************************************************************)
(* The session files.                                                      *)
(***************************************************************************)

\* What an append may put into the current file: prompts under an index nobody of
\* this session has used, edits and checkpoints under one no prompt has used, and
\* the end of a turn that has begun and not ended.
Fits(new) ==
    /\ \A a \in 1..Len(new) :
         /\ new[a].kind # "edit" => new[a].session = current
         /\ new[a].kind = "user" =>
              \A k \in 1..Len(disk[current]) :
                disk[current][k].session = current => disk[current][k].turn # new[a].turn
         /\ new[a].kind \in {"compaction", "edit"} /\ new[a].session = current =>
              \A k \in 1..Len(disk[current]) :
                disk[current][k].kind = "user" => disk[current][k].turn # new[a].turn
         /\ new[a].kind = "finished" =>
              /\ \A k \in 1..Len(disk[current]) :
                   disk[current][k].kind = "finished" => disk[current][k].turn # new[a].turn
              /\ \/ \E k \in 1..Len(disk[current]) :
                      disk[current][k].kind = "user" /\ disk[current][k].turn = new[a].turn
                 \/ \E b \in 1..Len(new) :
                      b < a /\ new[b].kind = "user" /\ new[b].turn = new[a].turn
    /\ \A a, b \in 1..Len(new) :
         /\ new[a].kind = "user" /\ new[b].kind \in {"user", "compaction", "edit"} => a = b
         /\ new[a].kind = "finished" /\ new[b].kind = "finished" => a = b

Appended(new) == disk' = [disk EXCEPT ![current] = @ \o new]

\* The files after an append.
LEMMA FileGrows ==
    ASSUME TurnsInv, NEW new \in Seq(Event), Appended(new)
    PROVE  /\ disk' \in [LogFiles -> Seq(Event)]
           /\ \A s \in LogFiles : s # current => disk'[s] = disk[s]
           /\ disk'[current] = disk[current] \o new /\ disk[current] \in Seq(Event)
           /\ Len(disk[current]) \in Nat
           /\ \A k \in 1..Len(disk[current]) :
                k \in 1..Len(disk'[current]) /\ disk'[current][k] = disk[current][k]
           /\ \A a \in 1..Len(new) : /\ Len(disk[current]) + a \in 1..Len(disk'[current])
                                     /\ disk'[current][Len(disk[current]) + a] = new[a]
           /\ \A k \in 1..Len(disk'[current]) :
                \/ k \in 1..Len(disk[current])
                \/ \E a \in 1..Len(new) : k = Len(disk[current]) + a
<1>1. disk \in [LogFiles -> Seq(Event)] /\ current \in LogFiles
  BY DEF TurnsInv, Types, LoopTypeOK
<1>2. disk[current] \in Seq(Event)
  BY <1>1
<1>3. disk[current] \o new \in Seq(Event)
  BY <1>2, Extended
<1>4. /\ disk' \in [LogFiles -> Seq(Event)]
      /\ \A s \in LogFiles : s # current => disk'[s] = disk[s]
      /\ disk'[current] = disk[current] \o new
  BY <1>1, <1>3 DEF Appended
<1> QED BY <1>2, <1>4, Extended

\* Every event of a file after an append was there, or is new in the current one.
LEMMA FileHolds ==
    ASSUME TurnsInv, NEW new \in Seq(Event), Appended(new), NEW s \in LogFiles,
           NEW k \in 1..Len(disk'[s])
    PROVE  \/ k \in 1..Len(disk[s]) /\ disk'[s][k] = disk[s][k]
           \/ s = current /\ \E a \in 1..Len(new) :
                k = Len(disk[current]) + a /\ disk'[s][k] = new[a]
<1>1. CASE s # current
  BY <1>1, FileGrows
<1>2. CASE s = current
  BY SMTT(30), <1>2, FileGrows
<1> QED BY <1>1, <1>2

\* No event of a file is lost by an append.
LEMMA FileKeeps ==
    ASSUME TurnsInv, NEW new \in Seq(Event), Appended(new), NEW s \in LogFiles,
           NEW k \in 1..Len(disk[s])
    PROVE  k \in 1..Len(disk'[s]) /\ disk'[s][k] = disk[s][k]
<1>1. CASE s # current
  BY <1>1, FileGrows
<1>2. CASE s = current
  BY <1>2, FileGrows
<1> QED BY <1>1, <1>2

\* An append that fits keeps the turns of every file apart.
LEMMA FilesKeep ==
    ASSUME TurnsInv, NEW new \in Seq(Event), Appended(new), Fits(new)
    PROVE  OwnFile' /\ TurnIndexUnique' /\ EndsAfterStart'
<1>1. OwnFile /\ TurnIndexUnique /\ EndsAfterStart /\ current \in LogFiles
  BY DEF TurnsInv, Types, LoopTypeOK
<1>2. OwnFile'
  <2> SUFFICES ASSUME NEW s \in LogFiles, NEW k \in 1..Len(disk'[s]),
                      disk'[s][k].kind # "edit"
               PROVE  disk'[s][k].session = s
    BY DEF OwnFile
  <2>1. CASE k \in 1..Len(disk[s]) /\ disk'[s][k] = disk[s][k]
    BY <1>1, <2>1 DEF OwnFile
  <2>2. CASE s = current /\ \E a \in 1..Len(new) :
               k = Len(disk[current]) + a /\ disk'[s][k] = new[a]
    BY <2>2 DEF Fits
  <2> QED BY <2>1, <2>2, FileHolds
<1>3. TurnIndexUnique'
  <2> SUFFICES ASSUME NEW s \in LogFiles,
                      NEW i \in 1..Len(disk'[s]), NEW j \in 1..Len(disk'[s]),
                      disk'[s][i].kind = "user",
                      disk'[s][j].kind \in {"user", "compaction", "edit"},
                      disk'[s][j].session = s, disk'[s][i].turn = disk'[s][j].turn
               PROVE  i = j
    BY DEF TurnIndexUnique
  <2>1. CASE i \in 1..Len(disk[s]) /\ disk'[s][i] = disk[s][i]
    <3>1. CASE j \in 1..Len(disk[s]) /\ disk'[s][j] = disk[s][j]
      BY <1>1, <2>1, <3>1 DEF TurnIndexUnique
    <3>2. CASE s = current /\ \E a \in 1..Len(new) :
                 j = Len(disk[current]) + a /\ disk'[s][j] = new[a]
      <4>1. PICK a \in 1..Len(new) : disk'[s][j] = new[a]
        BY <3>2
      <4>2. disk[current][i].session = current
        BY <1>1, <2>1, <3>2 DEF OwnFile
      <4> QED BY <2>1, <3>2, <4>1, <4>2 DEF Fits
    <3> QED BY <3>1, <3>2, FileHolds
  <2>2. CASE s = current /\ \E a \in 1..Len(new) :
               i = Len(disk[current]) + a /\ disk'[s][i] = new[a]
    <3>1. PICK a \in 1..Len(new) : i = Len(disk[current]) + a /\ disk'[s][i] = new[a]
      BY <2>2
    <3>2. CASE j \in 1..Len(disk[s]) /\ disk'[s][j] = disk[s][j]
      BY <2>2, <3>1, <3>2 DEF Fits
    <3>3. CASE s = current /\ \E b \in 1..Len(new) :
                 j = Len(disk[current]) + b /\ disk'[s][j] = new[b]
      BY <3>1, <3>3 DEF Fits
    <3> QED BY <3>2, <3>3, FileHolds
  <2> QED BY <2>1, <2>2, FileHolds
<1>4. EndsAfterStart'
  <2> SUFFICES ASSUME NEW s \in LogFiles, NEW j \in 1..Len(disk'[s]),
                      disk'[s][j].kind = "finished"
               PROVE  /\ \A i \in 1..Len(disk'[s]) :
                           disk'[s][i].kind = "finished" /\ disk'[s][i].turn = disk'[s][j].turn
                             => i = j
                      /\ \E i \in 1..Len(disk'[s]) : /\ i < j /\ disk'[s][i].kind = "user"
                                                     /\ disk'[s][i].turn = disk'[s][j].turn
    BY DEF EndsAfterStart
  <2>1. CASE j \in 1..Len(disk[s]) /\ disk'[s][j] = disk[s][j]
    <3>1. ASSUME NEW i \in 1..Len(disk'[s]), disk'[s][i].kind = "finished",
                 disk'[s][i].turn = disk'[s][j].turn
          PROVE  i = j
      <4>1. CASE i \in 1..Len(disk[s]) /\ disk'[s][i] = disk[s][i]
        BY <1>1, <2>1, <3>1, <4>1 DEF EndsAfterStart
      <4>2. CASE s = current /\ \E a \in 1..Len(new) :
                   i = Len(disk[current]) + a /\ disk'[s][i] = new[a]
        BY <2>1, <3>1, <4>2 DEF Fits
      <4> QED BY <4>1, <4>2, FileHolds
    <3>2. PICK i \in 1..Len(disk[s]) : /\ i < j /\ disk[s][i].kind = "user"
                                       /\ disk[s][i].turn = disk[s][j].turn
      BY <1>1, <2>1 DEF EndsAfterStart
    <3>3. i \in 1..Len(disk'[s]) /\ disk'[s][i] = disk[s][i]
      BY <3>2, FileKeeps
    <3> QED BY <2>1, <3>1, <3>2, <3>3
  <2>2. CASE s = current /\ \E a \in 1..Len(new) :
               j = Len(disk[current]) + a /\ disk'[s][j] = new[a]
    <3>1. PICK a \in 1..Len(new) : j = Len(disk[current]) + a /\ disk'[s][j] = new[a]
      BY <2>2
    <3>2. ASSUME NEW i \in 1..Len(disk'[s]), disk'[s][i].kind = "finished",
                 disk'[s][i].turn = disk'[s][j].turn
          PROVE  i = j
      <4>1. CASE i \in 1..Len(disk[s]) /\ disk'[s][i] = disk[s][i]
        BY <2>2, <3>1, <3>2, <4>1 DEF Fits
      <4>2. CASE s = current /\ \E b \in 1..Len(new) :
                   i = Len(disk[current]) + b /\ disk'[s][i] = new[b]
        BY <3>1, <3>2, <4>2 DEF Fits
      <4> QED BY <4>1, <4>2, FileHolds
    <3>3. \E i \in 1..Len(disk'[s]) : /\ i < j /\ disk'[s][i].kind = "user"
                                      /\ disk'[s][i].turn = disk'[s][j].turn
      <4>1. CASE \E k \in 1..Len(disk[current]) :
                   disk[current][k].kind = "user" /\ disk[current][k].turn = new[a].turn
        <5>1. PICK k \in 1..Len(disk[current]) :
                disk[current][k].kind = "user" /\ disk[current][k].turn = new[a].turn
          BY <4>1
        <5>2. k \in 1..Len(disk'[s]) /\ disk'[s][k] = disk[s][k]
          BY <2>2, FileKeeps
        <5>3. k < j
          BY <3>1, FileGrows
        <5> QED BY <2>2, <3>1, <5>1, <5>2, <5>3
      <4>2. CASE \E b \in 1..Len(new) :
                   b < a /\ new[b].kind = "user" /\ new[b].turn = new[a].turn
        <5>1. PICK b \in 1..Len(new) :
                b < a /\ new[b].kind = "user" /\ new[b].turn = new[a].turn
          BY <4>2
        <5>2. /\ Len(disk[current]) + b \in 1..Len(disk'[s])
              /\ disk'[s][Len(disk[current]) + b] = new[b]
          BY <2>2, FileGrows
        <5>3. Len(disk[current]) + b < j
          BY <3>1, <5>1, FileGrows
        <5> QED BY <3>1, <5>1, <5>2, <5>3
      <4> QED BY <3>1, <4>1, <4>2 DEF Fits
    <3> QED BY <3>2, <3>3
  <2> QED BY <2>1, <2>2, FileHolds
<1> QED BY <1>2, <1>3, <1>4

-----------------------------------------------------------------------------
(***************************************************************************)
(* The handlers.                                                           *)
(***************************************************************************)

\* The types of the state, one by one.
LEMMA StateIs ==
    ASSUME TurnsInv
    PROVE  /\ run \in {"up", "closing", "exited", "crashed"} /\ current \in LogFiles
           /\ disk \in [LogFiles -> Seq(Event)] /\ mem \in Seq(Event)
           /\ turnIndex \in Indices /\ editIndex \in Indices /\ configured \in BOOLEAN
           /\ task \in TurnTask /\ loop \in {"select", "handling", "grace"}
           /\ previews \subseteq Preview
           /\ faults \in 0..MaxFaults /\ stops \in 0..MaxStops
           /\ run = "closing" => stops < MaxStops
           /\ ~Alive => stops # 0
  BY DEF TurnsInv, Types, LoopTypeOK

\* No task is a task, with nothing recorded.
LEMMA NoTaskIs ==
    ASSUME LifecycleAssumption
    PROVE  NoTask \in TurnTask /\ NoTask.st = "none" /\ NoTask.pending = <<>>
<1>1. <<>> \in Seq(Event)
  OBVIOUS
<1>2. 0 \in Indices
  BY DEF LifecycleAssumption, Indices
<1> QED BY <1>1, <1>2 DEF NoTask, TurnTask

\* What a handler finds: a turn that is over has been collected, unless it ended
\* after the loop looked.
LEMMA FoundIs ==
    ASSUME LifecycleAssumption, TurnsInv, Handles
    PROVE  /\ Found.mem \in Seq(Event) /\ Found.task \in TurnTask
           /\ \A k \in 1..Len(Found.mem) :
                Found.mem[k].kind = "finished" => Found.mem[k].turn < turnIndex
           /\ Found.task = task \/ Found.task = NoTask
           /\ Found.task.st # "none" => Found.task = task /\ Found.mem = mem
           /\ faults = 0 /\ stops = 0 =>
                /\ ~Finished(Found.task) /\ Found.task.st # "failed"
                /\ Found.task.pending = <<>>
                /\ \A s \in LogFiles : \A k \in 1..Len(disk[s]) :
                     disk[s][k].kind = "user" \/ disk[s][k].by = "task" =>
                       \/ Ended(s, disk[s][k].turn)
                       \/ /\ s = current /\ Found.task.st = "running"
                          /\ Found.task.turn = disk[s][k].turn
                /\ \A k \in 1..Len(disk[current]) :
                     disk[current][k].by = "task" => disk[current][k] \in
                       EventsOf(IF Found.task.st = "none" THEN Found.mem ELSE Found.task.log)
<1>1. Alive /\ loop \in {"select", "handling"}
  BY DEF Handles, Alive
<1>2. /\ mem \in Seq(Event) /\ task \in TurnTask /\ task.log \in Seq(Event)
  BY StateIs DEF TurnTask
<1>3. /\ \A k \in 1..Len(mem) : mem[k].kind = "finished" => mem[k].turn < turnIndex
      /\ task.st # "none" => \A k \in 1..Len(task.log) :
           task.log[k].kind = "finished" => task.log[k].turn < turnIndex
  BY <1>1 DEF TurnsInv, IndicesBelow, TaskIsOurs
<1>4. faults = 0 /\ stops = 0 =>
        /\ loop # "handling" /\ task.st # "failed" /\ task.pending = <<>>
        /\ \A s \in LogFiles : \A k \in 1..Len(disk[s]) :
             disk[s][k].kind = "user" \/ disk[s][k].by = "task" =>
               \/ Ended(s, disk[s][k].turn)
               \/ s = current /\ task.st = "running" /\ task.turn = disk[s][k].turn
        /\ \A k \in 1..Len(disk[current]) :
             disk[current][k].by = "task" =>
               disk[current][k] \in EventsOf(IF task.st = "none" THEN mem ELSE task.log)
  BY <1>1 DEF TurnsInv, NothingFailed
<1>5. CASE loop = "handling"
  <2>1. Found.mem = mem /\ Found.task = task
    BY <1>5 DEF Found
  <2> QED BY <1>2, <1>3, <1>4, <1>5, <2>1
<1>6. CASE loop = "select" /\ Finished(task)
  <2>1. Found.task = NoTask /\ Found.mem = IF task.st = "done" THEN task.log ELSE mem
    BY <1>6 DEF Found, Collect
  <2>2. task.st \in {"done", "failed"}
    BY <1>6 DEF Finished
  <2>3. ~Finished(NoTask)
    BY NoTaskIs DEF Finished
  <2> QED BY <1>2, <1>3, <1>4, <2>1, <2>2, <2>3, NoTaskIs
<1>7. CASE loop = "select" /\ ~Finished(task)
  <2>1. Found.task = task /\ Found.mem = mem
    BY <1>7 DEF Found, Collect, Finished
  <2> QED BY <1>2, <1>3, <1>4, <1>7, <2>1
<1> QED BY <1>1, <1>5, <1>6, <1>7

\* A preview keeps its evidence when the file grows.
LEMMA EvidenceStays ==
    ASSUME TurnsInv, NEW new \in Seq(Event), Appended(new), NEW p \in previews
    PROVE  \E k \in 1..Len(disk'[p.session]) :
             /\ disk'[p.session][k].kind = "edit" /\ disk'[p.session][k].session = p.session
             /\ disk'[p.session][k].turn = p.turn
<1>1. p.session \in LogFiles
  BY StateIs DEF Preview
<1>2. PICK k \in 1..Len(disk[p.session]) :
             /\ disk[p.session][k].kind = "edit" /\ disk[p.session][k].session = p.session
             /\ disk[p.session][k].turn = p.turn
  BY DEF TurnsInv, PreviewsAreEvident
<1>3. k \in 1..Len(disk'[p.session]) /\ disk'[p.session][k] = disk[p.session][k]
  BY <1>1, FileKeeps
<1> QED BY <1>2, <1>3

\* A turn that has ended in a file has ended when the file grows.
LEMMA EndedStays ==
    ASSUME TurnsInv, NEW new \in Seq(Event), Appended(new), NEW s \in LogFiles, NEW t,
           Ended(s, t)
    PROVE  \E k \in 1..Len(disk'[s]) : disk'[s][k].kind = "finished" /\ disk'[s][k].turn = t
<1>1. PICK k \in 1..Len(disk[s]) : disk[s][k].kind = "finished" /\ disk[s][k].turn = t
  BY DEF Ended
<1>2. k \in 1..Len(disk'[s]) /\ disk'[s][k] = disk[s][k]
  BY FileKeeps
<1> QED BY <1>1, <1>2

\* After a clean exit nothing moves but a restart, which is no exit.
LEMMA NotExited ==
    ASSUME run' # "exited"
    PROVE  ShutdownEndsTurn'
  BY DEF ShutdownEndsTurn

\* A handler that starts no turn: it appends new to the file and add to the log.
LEMMA HandlerKeeps ==
    ASSUME LifecycleAssumption, TurnsInv, Handles,
           NEW new \in Seq(Event), NEW add \in Seq(Event), Appended(new), Fits(new),
           mem' = Found.mem \o add,
           task' = Found.task \/ (~Busy(Found.task) /\ task' = NoTask),
           UNCHANGED <<run, current, stops>>,
           turnIndex' \in Indices, editIndex' \in Indices, turnIndex <= turnIndex',
           faults' \in 0..MaxFaults, faults <= faults', configured' \in BOOLEAN,
           loop' \in {"select", "grace"}, previews' \subseteq Preview, PreviewsAreEvident',
           \A k \in 1..Len(new) :
             /\ new[k].by = "loop"
             /\ new[k].session = current => new[k].turn < turnIndex'
             /\ new[k].kind = "finished" => turnIndex <= new[k].turn
             /\ new[k].kind = "user" /\ faults' = 0 =>
                  \E j \in 1..Len(new) : new[j].kind = "finished" /\ new[j].turn = new[k].turn,
           \A k \in 1..Len(add) :
             add[k].kind = "finished" => turnIndex <= add[k].turn /\ add[k].turn < turnIndex'
    PROVE  TurnsInv'
<1>1. PICK fm \in Seq(Event), ft \in TurnTask : fm = Found.mem /\ ft = Found.task
  BY FoundIs
<1>2. /\ \A k \in 1..Len(fm) : fm[k].kind = "finished" => fm[k].turn < turnIndex
      /\ ft = task \/ ft = NoTask
      /\ ft.st # "none" => ft = task /\ fm = mem
      /\ faults = 0 /\ stops = 0 =>
           /\ ~Finished(ft) /\ ft.st # "failed" /\ ft.pending = <<>>
           /\ \A s \in LogFiles : \A k \in 1..Len(disk[s]) :
                disk[s][k].kind = "user" \/ disk[s][k].by = "task" =>
                  \/ Ended(s, disk[s][k].turn)
                  \/ s = current /\ ft.st = "running" /\ ft.turn = disk[s][k].turn
           /\ \A k \in 1..Len(disk[current]) :
                disk[current][k].by = "task" =>
                  disk[current][k] \in EventsOf(IF ft.st = "none" THEN fm ELSE ft.log)
  BY <1>1, FoundIs
<1>3. /\ current \in LogFiles /\ turnIndex \in Nat /\ turnIndex' \in Nat
      /\ run = "up" /\ run' = "up" /\ Alive /\ Alive' /\ current' = current
  <2>1. turnIndex \in Nat /\ turnIndex' \in Nat
    BY StateIs DEF Indices
  <2> QED BY <2>1, StateIs DEF Handles, Alive
<1>4. task' \in TurnTask /\ (task' = ft \/ (~Busy(ft) /\ task' = NoTask))
  BY <1>1, NoTaskIs
<1>5. mem' = fm \o add /\ mem' \in Seq(Event)
  BY <1>1, Extended
<1>6. Types'
  <2>1. disk' \in [LogFiles -> Seq(Event)]
    BY FileGrows
  <2>2. LoopTypeOK'
    BY <1>3, <1>4, <1>5, <2>1, StateIs DEF LoopTypeOK, TurnTask
  <2> QED BY <1>3, <1>4, <2>2 DEF Types
<1>7. OwnFile' /\ TurnIndexUnique' /\ EndsAfterStart'
  BY FilesKeep
<1>8. \A k \in 1..Len(mem') : mem'[k].kind = "finished" =>
        \/ k \in 1..Len(fm) /\ mem'[k] = fm[k] /\ mem'[k].turn < turnIndex
        \/ turnIndex <= mem'[k].turn /\ mem'[k].turn < turnIndex'
  <2> SUFFICES ASSUME NEW k \in 1..Len(mem'), mem'[k].kind = "finished"
               PROVE  \/ k \in 1..Len(fm) /\ mem'[k] = fm[k] /\ mem'[k].turn < turnIndex
                      \/ turnIndex <= mem'[k].turn /\ mem'[k].turn < turnIndex'
    OBVIOUS
  <2>1. CASE k \in 1..Len(fm)
    BY <1>2, <1>5, <2>1, Extended
  <2>2. CASE \E a \in 1..Len(add) : k = Len(fm) + a
    BY <1>5, <2>2, Extended
  <2> QED BY <1>5, <2>1, <2>2, Extended
<1>9. \A k \in 1..Len(mem') : mem'[k] \in Event /\ mem'[k].turn \in Nat
  BY <1>5, TurnIsNat
<1>10. IndicesBelow'
  <2>1. ASSUME NEW k \in 1..Len(disk'[current]), disk'[current][k].session = current
        PROVE  disk'[current][k].turn < turnIndex'
    <3>1. CASE k \in 1..Len(disk[current]) /\ disk'[current][k] = disk[current][k]
      <4>1. disk[current][k].turn < turnIndex
        BY <1>3, <2>1, <3>1 DEF TurnsInv, IndicesBelow
      <4>2. disk[current][k].turn \in Nat
        BY <1>3, <3>1, StateIs, TurnIsNat
      <4> QED BY <1>3, <3>1, <4>1, <4>2
    <3>2. CASE \E a \in 1..Len(new) : disk'[current][k] = new[a]
      BY <2>1, <3>2
    <3> QED BY SMTT(30), <1>3, <3>1, <3>2, FileHolds
  <2>2. ASSUME NEW k \in 1..Len(mem'), mem'[k].kind = "finished"
        PROVE  mem'[k].turn < turnIndex'
    <3>1. mem'[k].turn < turnIndex \/ mem'[k].turn < turnIndex'
      BY <1>8, <2>2
    <3>2. mem'[k].turn \in Nat
      BY <1>9
    <3> QED BY SMTT(30), <1>3, <3>1, <3>2
  <2> QED BY <1>3, <2>1, <2>2 DEF IndicesBelow
<1>11. TaskIsOurs'
  <2> SUFFICES ASSUME task'.st # "none"
               PROVE  /\ task'.turn < turnIndex'
                      /\ \E k \in 1..Len(disk'[current]) : /\ disk'[current][k].kind = "user"
                                                           /\ disk'[current][k].turn = task'.turn
                      /\ \A k \in 1..Len(task'.pending) :
                           /\ task'.pending[k].kind = "step" /\ task'.pending[k].turn = task'.turn
                           /\ task'.pending[k].session = current
                      /\ \A k \in 1..Len(task'.log) :
                           task'.log[k].kind = "finished" => task'.log[k].turn < turnIndex'
    BY <1>3 DEF TaskIsOurs
  <2>1. task' = task
    BY <1>2, <1>4, NoTaskIs
  <2>2. /\ task.turn < turnIndex
        /\ \E k \in 1..Len(disk[current]) :
             disk[current][k].kind = "user" /\ disk[current][k].turn = task.turn
        /\ \A k \in 1..Len(task.pending) :
             /\ task.pending[k].kind = "step" /\ task.pending[k].turn = task.turn
             /\ task.pending[k].session = current
        /\ \A k \in 1..Len(task.log) :
             task.log[k].kind = "finished" => task.log[k].turn < turnIndex
    BY <2>1 DEF TurnsInv, TaskIsOurs
  <2>3. task.turn \in Nat /\ \A k \in 1..Len(task.log) : task.log[k].turn \in Nat
    <3>1. task.log \in Seq(Event) /\ task.turn \in Nat
      BY StateIs DEF TurnTask, Indices
    <3> QED BY <3>1, TurnIsNat
  <2>4. \E k \in 1..Len(disk'[current]) : /\ disk'[current][k].kind = "user"
                                          /\ disk'[current][k].turn = task.turn
    BY <1>3, <2>2, FileKeeps
  <2>5. /\ task.turn < turnIndex'
        /\ \A k \in 1..Len(task.log) :
             task.log[k].kind = "finished" => task.log[k].turn < turnIndex'
    BY SMTT(30), <1>3, <2>2, <2>3
  <2> QED BY <2>1, <2>2, <2>4, <2>5
<1>12. RunningIsOpen'
  <2> SUFFICES ASSUME task'.st = "running"
               PROVE  /\ \A k \in 1..Len(disk'[current]) : disk'[current][k].kind = "finished"
                           => disk'[current][k].turn # task'.turn
                      /\ \A k \in 1..Len(mem') :
                           mem'[k].kind = "finished" => mem'[k].turn # task'.turn
    BY <1>3 DEF RunningIsOpen
  <2>1. task' = task /\ task.st = "running" /\ fm = mem
    BY <1>2, <1>4, NoTaskIs
  <2>2. task.turn < turnIndex /\ task.turn \in Nat
    BY <2>1, StateIs DEF TurnsInv, TaskIsOurs, TurnTask, Indices
  <2>3. ASSUME NEW k \in 1..Len(disk'[current]), disk'[current][k].kind = "finished"
        PROVE  disk'[current][k].turn # task.turn
    <3>1. CASE k \in 1..Len(disk[current]) /\ disk'[current][k] = disk[current][k]
      BY <2>1, <2>3, <3>1 DEF TurnsInv, RunningIsOpen
    <3>2. CASE \E a \in 1..Len(new) : disk'[current][k] = new[a]
      <4>1. PICK a \in 1..Len(new) : disk'[current][k] = new[a]
        BY <3>2
      <4>2. new[a].turn \in Nat /\ turnIndex <= new[a].turn
        BY <2>3, <4>1, TurnIsNat
      <4> QED BY <1>3, <2>2, <4>1, <4>2
    <3> QED BY ZenonT(60), <1>3, <3>1, <3>2, FileHolds
  <2>4. ASSUME NEW k \in 1..Len(mem'), mem'[k].kind = "finished"
        PROVE  mem'[k].turn # task.turn
    <3>1. CASE k \in 1..Len(fm) /\ mem'[k] = fm[k]
      BY <2>1, <2>4, <3>1 DEF TurnsInv, RunningIsOpen
    <3>2. CASE turnIndex <= mem'[k].turn
      BY SMTT(30), <1>3, <1>9, <2>2, <3>2
    <3> QED BY <1>8, <2>4, <3>1, <3>2
  <2> QED BY <2>1, <2>3, <2>4
<1>13. NothingFailed'
  <2> SUFFICES ASSUME faults' = 0, stops' = 0
               PROVE  /\ loop' # "handling" /\ task'.st # "failed" /\ task'.pending = <<>>
                      /\ \A s \in LogFiles : \A k \in 1..Len(disk'[s]) :
                           disk'[s][k].kind = "user" \/ disk'[s][k].by = "task" =>
                             \/ \E i \in 1..Len(disk'[s]) :
                                  /\ disk'[s][i].kind = "finished"
                                  /\ disk'[s][i].turn = disk'[s][k].turn
                             \/ s = current /\ task'.st = "running"
                                /\ task'.turn = disk'[s][k].turn
                      /\ \A k \in 1..Len(disk'[current]) :
                           disk'[current][k].by = "task" => disk'[current][k] \in
                             EventsOf(IF task'.st = "none" THEN mem' ELSE task'.log)
    BY <1>3 DEF NothingFailed, Ended
  <2>1. faults = 0 /\ stops = 0
    BY StateIs
  <2>2. /\ task' = ft \/ (task' = NoTask /\ ft.st = "none")
        /\ task'.st = ft.st /\ task'.st # "failed" /\ task'.pending = <<>>
    <3>1. ~Finished(ft) /\ ft.st # "failed" /\ ft.pending = <<>>
      BY <1>2, <2>1
    <3>2. ~Busy(ft) => ft.st = "none"
      BY <3>1 DEF Busy, Finished, TurnTask
    <3>3. CASE task' = ft
      BY <3>1, <3>3
    <3>4. CASE ~Busy(ft) /\ task' = NoTask
      BY <3>2, <3>4, NoTaskIs
    <3> QED BY <1>4, <3>3, <3>4
  <2>3. ASSUME NEW s \in LogFiles, NEW k \in 1..Len(disk'[s]),
               disk'[s][k].kind = "user" \/ disk'[s][k].by = "task"
        PROVE  \/ \E i \in 1..Len(disk'[s]) : /\ disk'[s][i].kind = "finished"
                                              /\ disk'[s][i].turn = disk'[s][k].turn
               \/ s = current /\ ft.st = "running" /\ ft.turn = disk'[s][k].turn
    <3>1. CASE k \in 1..Len(disk[s]) /\ disk'[s][k] = disk[s][k]
      <4>1. \/ Ended(s, disk[s][k].turn)
            \/ s = current /\ ft.st = "running" /\ ft.turn = disk[s][k].turn
        BY <1>2, <2>1, <2>3, <3>1
      <4>2. CASE Ended(s, disk[s][k].turn)
        <5>1. PICK t : t = disk[s][k].turn
          OBVIOUS
        <5>2. \E i \in 1..Len(disk'[s]) : disk'[s][i].kind = "finished" /\ disk'[s][i].turn = t
          BY <4>2, <5>1, EndedStays
        <5> QED BY <3>1, <5>1, <5>2
      <4>3. CASE s = current /\ ft.st = "running" /\ ft.turn = disk[s][k].turn
        BY <3>1, <4>3, Zenon
      <4> QED BY <4>1, <4>2, <4>3
    <3>2. CASE s = current /\ \E a \in 1..Len(new) : disk'[s][k] = new[a]
      <4>1. PICK a \in 1..Len(new) : disk'[s][k] = new[a]
        BY <3>2
      <4>2. new[a].kind = "user"
        BY <2>3, <4>1
      <4>3. PICK j \in 1..Len(new) : new[j].kind = "finished" /\ new[j].turn = new[a].turn
        BY <4>2
      <4>4. PICK i \in 1..Len(disk'[current]) : disk'[current][i] = new[j]
        BY FileGrows
      <4>5. disk'[s][i].kind = "finished" /\ disk'[s][i].turn = disk'[s][k].turn
        BY <3>2, <4>1, <4>3, <4>4
      <4> QED BY <3>2, <4>4, <4>5
    <3> QED BY <3>1, <3>2, FileHolds
  <2>4. ASSUME NEW k \in 1..Len(disk'[current]), disk'[current][k].by = "task"
        PROVE  disk'[current][k] \in EventsOf(IF ft.st = "none" THEN mem' ELSE ft.log)
    <3>1. k \in 1..Len(disk[current]) /\ disk'[current][k] = disk[current][k]
      <4>1. CASE \E a \in 1..Len(new) : disk'[current][k] = new[a]
        BY <2>4, <4>1
      <4> QED BY <1>3, <4>1, FileHolds
    <3>2. disk[current][k] \in EventsOf(IF ft.st = "none" THEN fm ELSE ft.log)
      BY <1>2, <2>1, <2>4, <3>1
    <3>3. EventsOf(fm) \subseteq EventsOf(mem')
      BY <1>5, ExtendedHolds
    <3> QED BY <3>1, <3>2, <3>3
  <2>5. \A k \in 1..Len(disk'[current]) :
          disk'[current][k].by = "task" => disk'[current][k] \in
            EventsOf(IF task'.st = "none" THEN mem' ELSE task'.log)
    BY <2>2, <2>4
  <2>6. ft.st = "running" => task' = ft
    BY <2>2
  <2> QED BY <2>2, <2>3, <2>5, <2>6
<1>14. ShutdownEndsTurn'
  BY <1>3, NotExited
<1>15. OthersAreKept'
  <2> SUFFICES ASSUME faults' = 0, stops' = 0, task'.st # "none",
                      NEW k \in 1..Len(disk'[current]), disk'[current][k].by = "task",
                      disk'[current][k].turn # task'.turn
               PROVE  disk'[current][k] \in EventsOf(mem')
    BY <1>3 DEF OthersAreKept
  <2>1. faults = 0 /\ stops = 0 /\ task' = task /\ fm = mem
    BY <1>2, <1>4, StateIs, NoTaskIs
  <2>2. CASE \E a \in 1..Len(new) : disk'[current][k] = new[a]
    BY <2>2
  <2>3. CASE k \in 1..Len(disk[current]) /\ disk'[current][k] = disk[current][k]
    <3>1. disk[current][k] \in EventsOf(mem)
      BY <1>3, <2>1, <2>3 DEF TurnsInv, OthersAreKept
    <3>2. EventsOf(fm) \subseteq EventsOf(mem')
      BY <1>5, ExtendedHolds
    <3> QED BY <2>1, <2>3, <3>1, <3>2
  <2> QED BY <1>3, <2>2, <2>3, FileHolds
<1> QED BY <1>6, <1>7, <1>10, <1>11, <1>12, <1>13, <1>14, <1>15 DEF TurnsInv

\* An append of nothing.
LEMMA NothingFits ==
    ASSUME TurnsInv
    PROVE  /\ <<>> \in Seq(Event) /\ Len(<<>>) = 0 /\ Fits(<<>>)
           /\ disk' = disk => Appended(<<>>)
           /\ \A l \in Seq(Event) : l \o <<>> = l
<1>1. <<>> \in Seq(Event) /\ Len(<<>>) = 0 /\ \A l \in Seq(Event) : l \o <<>> = l
  BY ConcatEmptySeq
<1>2. Fits(<<>>)
  BY <1>1 DEF Fits
<1>3. disk' = disk => Appended(<<>>)
  BY <1>1, StateIs DEF Appended
<1> QED BY <1>1, <1>2, <1>3

\* What the counter has not reached no event of this session has.
LEMMA CounterIsFresh ==
    ASSUME LifecycleAssumption, TurnsInv, Alive, NEW k \in 1..Len(disk[current])
    PROVE  /\ turnIndex \in Nat /\ disk[current][k].turn \in Nat
           /\ disk[current][k].session = current => disk[current][k].turn < turnIndex
           /\ disk[current][k].kind # "edit" => disk[current][k].turn < turnIndex
<1>1. disk[current] \in Seq(Event) /\ current \in LogFiles /\ turnIndex \in Nat
  BY StateIs DEF Indices
<1>2. disk[current][k].turn \in Nat
  BY <1>1, TurnIsNat
<1> QED BY <1>1, <1>2 DEF TurnsInv, IndicesBelow, OwnFile

\* A handler that writes nothing.
LEMMA QuietKeeps ==
    ASSUME LifecycleAssumption, TurnsInv, Handles,
           mem' = Found.mem,
           task' = Found.task \/ (~Busy(Found.task) /\ task' = NoTask),
           UNCHANGED <<run, current, disk, previews, stops>>,
           faults' \in 0..MaxFaults, faults <= faults',
           turnIndex' \in Indices, editIndex' \in Indices, turnIndex <= turnIndex',
           configured' \in BOOLEAN, loop' \in {"select", "grace"}
    PROVE  TurnsInv'
<1>1. mem' = Found.mem \o <<>>
  BY FoundIs, NothingFits
<1>2. PreviewsAreEvident'
  BY DEF TurnsInv, PreviewsAreEvident
<1>3. previews' \subseteq Preview
  BY StateIs
<1>4. \A k \in 1..Len(<<>>) : FALSE
  OBVIOUS
<1> QED BY <1>1, <1>2, <1>3, <1>4, NothingFits, HandlerKeeps

\* A prompt's index: the counter moves on.
LEMMA SpendIndexSpends ==
    ASSUME LifecycleAssumption, TurnsInv, SpendIndex
    PROVE  /\ turnIndex \in Nat /\ turnIndex' = turnIndex + 1
           /\ turnIndex' \in Indices /\ editIndex' \in Indices
  BY StateIs DEF LifecycleAssumption, SpendIndex, Larger, Indices

\* A write that fails is counted.
LEMMA FaultCounts ==
    ASSUME LifecycleAssumption, TurnsInv, Fault
    PROVE  faults' \in 0..MaxFaults /\ faults <= faults' /\ faults' # 0
  BY StateIs DEF LifecycleAssumption, Fault

\* Events that change nothing.
LEMMA OtherEventKeeps == ASSUME LifecycleAssumption, TurnsInv, OtherEvent PROVE TurnsInv'
<1>1. /\ Handles /\ loop' = "select" /\ mem' = Found.mem /\ task' = Found.task
      /\ UNCHANGED <<run, current, disk, turnIndex, editIndex, configured, previews,
                     faults, stops>>
  BY DEF OtherEvent, Returns
<1>2. turnIndex \in Indices /\ turnIndex <= turnIndex /\ faults \in 0..MaxFaults /\ faults <= faults
  BY StateIs DEF LifecycleAssumption, Indices
<1> QED BY <1>1, <1>2, StateIs, QuietKeeps

\* A refused prompt: a turn that has ended since the loop looked is forgotten.
LEMMA RefusePromptKeeps ==
    ASSUME LifecycleAssumption, TurnsInv, NEW s \in LogFiles, RefusePrompt(s)
    PROVE  TurnsInv'
<1>1. /\ Handles /\ loop' = "select" /\ mem' = Found.mem /\ task' = Forget(Found.task)
      /\ UNCHANGED <<run, current, disk, configured, previews, faults, stops>>
      /\ SpendIndex
  BY DEF RefusePrompt, Returns
<1>2. turnIndex <= turnIndex' /\ turnIndex' \in Indices /\ editIndex' \in Indices
  BY <1>1, SpendIndexSpends
<1>3. task' = Found.task \/ (~Busy(Found.task) /\ task' = NoTask)
  BY <1>1 DEF Forget, Busy, Finished
<1>4. faults \in 0..MaxFaults /\ faults <= faults
  BY StateIs DEF LifecycleAssumption
<1> QED BY <1>1, <1>2, <1>3, <1>4, StateIs, QuietKeeps

\* The provider comes or goes.
LEMMA ProviderChangesKeeps == ASSUME LifecycleAssumption, TurnsInv, ProviderChanges PROVE TurnsInv'
<1>1. /\ Handles /\ loop' = "select" /\ mem' = Found.mem /\ task' = Found.task
      /\ configured' = ~configured
      /\ UNCHANGED <<run, current, disk, turnIndex, editIndex, previews, faults, stops>>
  BY DEF ProviderChanges, Returns
<1>2. turnIndex \in Indices /\ turnIndex <= turnIndex /\ faults \in 0..MaxFaults /\ faults <= faults
  BY StateIs DEF LifecycleAssumption, Indices
<1>3. configured' \in BOOLEAN
  BY <1>1, Zenon
<1> QED BY <1>1, <1>2, <1>3, StateIs, QuietKeeps

\* A cancel: the loop waits for the task, if there is one.
LEMMA CancelPromptKeeps == ASSUME LifecycleAssumption, TurnsInv, CancelPrompt PROVE TurnsInv'
<1>1. /\ Handles /\ mem' = Found.mem /\ task' = Found.task
      /\ loop' \in {"select", "grace"}
      /\ UNCHANGED <<run, current, disk, turnIndex, editIndex, configured, previews,
                     faults, stops>>
  BY DEF CancelPrompt
<1>2. turnIndex \in Indices /\ turnIndex <= turnIndex /\ faults \in 0..MaxFaults /\ faults <= faults
  BY StateIs DEF LifecycleAssumption, Indices
<1> QED BY <1>1, <1>2, StateIs, QuietKeeps

\* What the loop records is an event.
LEMMA MarkIs ==
    ASSUME TurnsInv, NEW t \in Indices, NEW by \in {"task", "loop"},
           NEW kind \in {"user", "step", "finished", "edit", "compaction"}
    PROVE  /\ Mark(kind, t, by) \in Event
           /\ Mark(kind, t, by).kind = kind /\ Mark(kind, t, by).turn = t
           /\ Mark(kind, t, by).session = current /\ Mark(kind, t, by).by = by
  BY StateIs DEF Mark, Event

\* A whole turn inside the handler, under a fresh index.
LEMMA DirectPromptKeeps == ASSUME LifecycleAssumption, TurnsInv, DirectPrompt PROVE TurnsInv'
<1>1. PICK user, done : /\ user = Mark("user", turnIndex, "loop")
                        /\ done = Mark("finished", turnIndex, "loop")
  OBVIOUS
<1>2. /\ Handles /\ loop' = "select" /\ SpendIndex /\ task' = Found.task
      /\ mem' = Found.mem \o <<user, done>>
      /\ UNCHANGED <<run, current, configured, previews, stops>>
      /\ \/ Written(<<user, done>>)
         \/ Unwritten
         \/ disk' = [disk EXCEPT ![current] = Append(@, user)] /\ Fault
  BY <1>1 DEF DirectPrompt, Returns
<1>3. /\ user \in Event /\ user.kind = "user" /\ user.turn = turnIndex
      /\ user.session = current /\ user.by = "loop"
      /\ done \in Event /\ done.kind = "finished" /\ done.turn = turnIndex
      /\ done.session = current /\ done.by = "loop"
  BY <1>1, StateIs, MarkIs
<1>4. /\ turnIndex <= turnIndex' /\ turnIndex' \in Indices /\ editIndex' \in Indices
      /\ turnIndex < turnIndex' /\ turnIndex \in Nat
  BY <1>2, SpendIndexSpends
<1>5. Alive
  BY <1>2 DEF Handles, Alive
<1>6. \A k \in 1..Len(disk[current]) :
        /\ disk[current][k].session = current => disk[current][k].turn # turnIndex
        /\ disk[current][k].kind # "edit" => disk[current][k].turn # turnIndex
  BY <1>5, CounterIsFresh
<1>7. \A k \in 1..Len(<<user, done>>) : <<user, done>>[k].kind = "finished" =>
         turnIndex <= <<user, done>>[k].turn /\ <<user, done>>[k].turn < turnIndex'
  BY <1>3, <1>4, TwoMore
<1>8. ASSUME NEW new \in Seq(Event), Appended(new), Fits(new), faults' \in 0..MaxFaults,
             faults <= faults',
             \A k \in 1..Len(new) :
               /\ new[k].by = "loop" /\ new[k].turn = turnIndex
               /\ new[k].kind = "user" /\ faults' = 0 => \E j \in 1..Len(new) :
                    new[j].kind = "finished" /\ new[j].turn = new[k].turn
      PROVE  TurnsInv'
  <2>1. PreviewsAreEvident'
    BY <1>2, <1>8, EvidenceStays DEF PreviewsAreEvident
  <2>2. \A k \in 1..Len(new) : new[k].turn < turnIndex' /\ turnIndex <= new[k].turn
    BY <1>4, <1>8
  <2>3. \A k \in 1..Len(new) :
          /\ new[k].by = "loop"
          /\ new[k].session = current => new[k].turn < turnIndex'
          /\ new[k].kind = "finished" => turnIndex <= new[k].turn
          /\ new[k].kind = "user" /\ faults' = 0 => \E j \in 1..Len(new) :
               new[j].kind = "finished" /\ new[j].turn = new[k].turn
    BY <1>8, <2>2
  <2>4. /\ <<user, done>> \in Seq(Event) /\ configured' \in BOOLEAN
        /\ previews' \subseteq Preview /\ loop' \in {"select", "grace"}
    BY <1>2, <1>3, TwoMore, StateIs
  <2> QED BY <1>2, <1>4, <1>7, <1>8, <2>1, <2>3, <2>4, HandlerKeeps
<1>9. CASE Written(<<user, done>>)
  <2>1. Appended(<<user, done>>) /\ faults' = faults
    BY <1>9 DEF Written, Appended
  <2>2. /\ <<user, done>> \in Seq(Event) /\ Len(<<user, done>>) = 2
        /\ <<user, done>>[1] = user /\ <<user, done>>[2] = done
    BY <1>3, TwoMore
  <2>3. Fits(<<user, done>>)
    BY <1>3, <1>6, <2>2 DEF Fits
  <2>4. faults' \in 0..MaxFaults /\ faults <= faults'
    BY <2>1, StateIs DEF LifecycleAssumption
  <2>5. \A k \in 1..Len(<<user, done>>) :
          /\ <<user, done>>[k].by = "loop" /\ <<user, done>>[k].turn = turnIndex
          /\ <<user, done>>[k].kind = "user" /\ faults' = 0 =>
               \E j \in 1..Len(<<user, done>>) :
                 /\ <<user, done>>[j].kind = "finished"
                 /\ <<user, done>>[j].turn = <<user, done>>[k].turn
    <3>1. 2 \in 1..Len(<<user, done>>)
      BY <2>2
    <3>2. ASSUME NEW k \in 1..Len(<<user, done>>)
          PROVE  <<user, done>>[k].by = "loop" /\ <<user, done>>[k].turn = turnIndex
      BY <1>3, <2>2
    <3> QED BY <1>3, <2>2, <3>1, <3>2
  <2> QED BY <1>8, <2>1, <2>2, <2>3, <2>4, <2>5
<1>10. CASE Unwritten
  <2>1. disk' = disk /\ faults' \in 0..MaxFaults /\ faults <= faults'
    BY <1>10, FaultCounts DEF Unwritten
  <2>2. <<>> \in Seq(Event) /\ Appended(<<>>) /\ Fits(<<>>) /\ \A k \in 1..Len(<<>>) : FALSE
    BY <2>1, NothingFits
  <2> QED BY <1>8, <2>1, <2>2
<1>11. CASE disk' = [disk EXCEPT ![current] = Append(@, user)] /\ Fault
  <2>1. Appended(<<user>>)
    <3>1. disk[current] \in Seq(Event)
      BY StateIs
    <3>2. Append(disk[current], user) = disk[current] \o <<user>>
      BY <1>3, <3>1, AppendExtends
    <3> QED BY <1>11, <3>2 DEF Appended
  <2>2. <<user>> \in Seq(Event) /\ Len(<<user>>) = 1 /\ <<user>>[1] = user
    BY <1>3, OneMore
  <2>3. Fits(<<user>>)
    BY <1>3, <1>6, <2>2 DEF Fits
  <2>4. faults' \in 0..MaxFaults /\ faults <= faults' /\ faults' # 0
    BY <1>11, FaultCounts
  <2>5. \A k \in 1..Len(<<user>>) : <<user>>[k].by = "loop" /\ <<user>>[k].turn = turnIndex
    BY <1>3, <2>2
  <2> QED BY <1>8, <2>1, <2>2, <2>3, <2>4, <2>5
<1> QED BY <1>2, <1>9, <1>10, <1>11

\* A checkpoint under an index of its own.
LEMMA CompactSessionKeeps == ASSUME LifecycleAssumption, TurnsInv, CompactSession PROVE TurnsInv'
<1>1. PICK mark : mark = Mark("compaction", turnIndex, "loop")
  OBVIOUS
<1>2. /\ Handles /\ loop' = "select" /\ SpendIndex /\ task' = Found.task
      /\ UNCHANGED <<run, current, configured, previews, stops>>
      /\ \/ mem' = Append(Found.mem, mark) /\ Written(<<mark>>)
         \/ mem' = Append(Found.mem, mark) /\ Unwritten
         \/ mem' = Found.mem /\ UNCHANGED <<disk, faults>>
  BY <1>1 DEF CompactSession, Returns
<1>3. /\ mark \in Event /\ mark.kind = "compaction" /\ mark.turn = turnIndex
      /\ mark.session = current /\ mark.by = "loop"
  BY <1>1, StateIs, MarkIs
<1>4. /\ turnIndex <= turnIndex' /\ turnIndex' \in Indices /\ editIndex' \in Indices
      /\ turnIndex < turnIndex' /\ turnIndex \in Nat
  BY <1>2, SpendIndexSpends
<1>5. \A k \in 1..Len(disk[current]) :
        disk[current][k].kind = "user" => disk[current][k].turn # turnIndex
  <2>1. Alive
    BY <1>2 DEF Handles, Alive
  <2> QED BY <2>1, CounterIsFresh
<1>6. /\ <<mark>> \in Seq(Event) /\ Len(<<mark>>) = 1 /\ <<mark>>[1] = mark
      /\ Append(Found.mem, mark) = Found.mem \o <<mark>>
  BY <1>2, <1>3, OneMore, FoundIs, AppendExtends
<1>7. Fits(<<mark>>)
  BY <1>3, <1>5, <1>6 DEF Fits
<1>8. ASSUME NEW new \in {<<>>, <<mark>>}, Appended(new),
             faults' \in 0..MaxFaults, faults <= faults', mem' = Found.mem \o <<mark>>
      PROVE  TurnsInv'
  <2>1. new \in Seq(Event) /\ Fits(new)
    BY <1>6, <1>7, <1>8, NothingFits
  <2>2. \A k \in 1..Len(new) : new[k] = mark
    BY <1>6, <1>8, NothingFits
  <2>3. PreviewsAreEvident'
    BY <1>2, <1>8, <2>1, EvidenceStays DEF PreviewsAreEvident
  <2>4. \A k \in 1..Len(<<mark>>) : <<mark>>[k].kind # "finished"
    BY <1>3, <1>6
  <2> QED BY <1>2, <1>3, <1>4, <1>6, <1>8, <2>1, <2>2, <2>3, <2>4, StateIs, HandlerKeeps
<1>9. CASE mem' = Append(Found.mem, mark) /\ Written(<<mark>>)
  <2>1. Appended(<<mark>>) /\ faults' = faults
    BY <1>9 DEF Written, Appended
  <2>2. faults' \in 0..MaxFaults /\ faults <= faults'
    BY <2>1, StateIs DEF LifecycleAssumption
  <2> QED BY <1>6, <1>8, <1>9, <2>1, <2>2
<1>10. CASE mem' = Append(Found.mem, mark) /\ Unwritten
  <2>1. disk' = disk /\ faults' \in 0..MaxFaults /\ faults <= faults'
    BY <1>10, FaultCounts DEF Unwritten
  <2> QED BY <1>6, <1>8, <1>10, <2>1, NothingFits
<1>11. CASE mem' = Found.mem /\ UNCHANGED <<disk, faults>>
  <2>1. faults \in 0..MaxFaults /\ faults <= faults
    BY StateIs DEF LifecycleAssumption
  <2> QED BY <1>2, <1>4, <1>11, <2>1, StateIs, QuietKeeps
<1> QED BY <1>2, <1>9, <1>10, <1>11

\* The evidence of a local edit goes into the file or does not; the loop's log does
\* not have it.
LEMMA EvidenceKeeps ==
    ASSUME LifecycleAssumption, TurnsInv, Handles,
           NEW edit \in Event, edit.kind = "edit", edit.by = "loop",
           edit.session = current =>
             /\ edit.turn < turnIndex'
             /\ \A k \in 1..Len(disk[current]) :
                  disk[current][k].kind = "user" => disk[current][k].turn # edit.turn,
           NEW new \in {<<>>, <<edit>>}, Appended(new),
           mem' = Found.mem, task' = Found.task,
           UNCHANGED <<run, current, configured, stops>>,
           turnIndex' \in Indices, editIndex' \in Indices, turnIndex <= turnIndex',
           faults' \in 0..MaxFaults, faults <= faults',
           loop' = "select", previews' \subseteq Preview, PreviewsAreEvident'
    PROVE  TurnsInv'
<1>1. <<edit>> \in Seq(Event) /\ Len(<<edit>>) = 1 /\ <<edit>>[1] = edit
  BY OneMore
<1>2. Fits(<<edit>>)
  BY <1>1 DEF Fits
<1>3. new \in Seq(Event) /\ Fits(new)
  BY <1>1, <1>2, NothingFits
<1>4. \A k \in 1..Len(new) : new[k] = edit
  BY <1>1, NothingFits
<1>5. \A k \in 1..Len(new) :
        /\ new[k].by = "loop"
        /\ new[k].session = current => new[k].turn < turnIndex'
        /\ new[k].kind = "finished" => turnIndex <= new[k].turn
        /\ new[k].kind = "user" /\ faults' = 0 =>
             \E j \in 1..Len(new) : new[j].kind = "finished" /\ new[j].turn = new[k].turn
  BY <1>4
<1>6. <<>> \in Seq(Event) /\ mem' = Found.mem \o <<>> /\ \A k \in 1..Len(<<>>) : FALSE
  BY FoundIs, NothingFits
<1>7. configured' \in BOOLEAN
  BY StateIs
<1> QED BY <1>3, <1>5, <1>6, <1>7, HandlerKeeps

\* An edit is prepared under an index no prompt has used, and its preview pending
\* only with evidence.
LEMMA PrepareEditKeeps == ASSUME LifecycleAssumption, TurnsInv, PrepareEdit PROVE TurnsInv'
<1>1. PICK t : t = Larger(editIndex, turnIndex)
  OBVIOUS
<1>2. PICK edit : edit = Mark("edit", t, "loop")
  OBVIOUS
<1>3. /\ Handles /\ loop' = "select" /\ mem' = Found.mem /\ task' = Found.task
      /\ UNCHANGED <<run, current, configured, stops>>
      /\ t < MaxIndex /\ editIndex' = t + 1 /\ turnIndex' = Larger(turnIndex, t + 1)
      /\ \/ Written(<<edit>>) /\ previews' = previews \cup {[session |-> current, turn |-> t]}
         \/ Written(<<edit>>) /\ UNCHANGED previews
         \/ Unwritten /\ UNCHANGED previews
  BY <1>1, <1>2 DEF PrepareEdit, Returns
<1>4. /\ turnIndex \in Nat /\ t \in Indices /\ turnIndex <= t /\ turnIndex' = t + 1
      /\ turnIndex' \in Indices /\ editIndex' \in Indices
  BY <1>1, <1>3, StateIs DEF LifecycleAssumption, Larger, Indices
<1>5. /\ edit \in Event /\ edit.kind = "edit" /\ edit.turn = t
      /\ edit.session = current /\ edit.by = "loop"
  BY <1>2, <1>4, MarkIs
<1>6. /\ edit.turn < turnIndex' /\ turnIndex <= turnIndex'
      /\ \A k \in 1..Len(disk[current]) :
           disk[current][k].kind = "user" => disk[current][k].turn # edit.turn
  <2>1. Alive
    BY <1>3 DEF Handles, Alive
  <2>2. t \in Nat
    BY <1>4 DEF LifecycleAssumption, Indices
  <2>3. ASSUME NEW k \in 1..Len(disk[current]), disk[current][k].kind = "user"
        PROVE  disk[current][k].turn # edit.turn
    <3>1. disk[current][k].turn \in Nat /\ disk[current][k].turn < turnIndex
      BY <2>1, <2>3, CounterIsFresh
    <3> QED BY <1>4, <1>5, <2>2, <3>1
  <2> QED BY <1>4, <1>5, <2>2, <2>3
<1>7. CASE Written(<<edit>>)
  <2>1. Appended(<<edit>>) /\ faults' = faults
    BY <1>7 DEF Written, Appended
  <2>2. faults' \in 0..MaxFaults /\ faults <= faults'
    BY <2>1, StateIs DEF LifecycleAssumption
  <2>3. PICK q : q = [session |-> current, turn |-> t]
    OBVIOUS
  <2>4. q \in Preview /\ q.session = current /\ q.turn = t
    BY <1>4, <2>3, StateIs DEF Preview
  <2>5. \A p \in previews' : p \in previews \/ p = q
    BY <1>3, <1>7, <2>3 DEF Unwritten
  <2>6. previews' \subseteq Preview
    BY <2>4, <2>5, StateIs
  <2>7. <<edit>> \in Seq(Event) /\ Len(<<edit>>) = 1 /\ <<edit>>[1] = edit
    BY <1>5, OneMore
  <2>8. PreviewsAreEvident'
    <3> SUFFICES ASSUME NEW p \in previews'
                 PROVE  \E k \in 1..Len(disk'[p.session]) :
                          /\ disk'[p.session][k].kind = "edit"
                          /\ disk'[p.session][k].session = p.session
                          /\ disk'[p.session][k].turn = p.turn
      BY DEF PreviewsAreEvident
    <3>1. CASE p \in previews
      BY <2>1, <2>7, <3>1, EvidenceStays
    <3>2. CASE p = q
      <4>1. PICK k \in 1..Len(disk'[current]) : disk'[current][k] = edit
        <5>1. 1 \in 1..Len(<<edit>>)
          BY <2>7
        <5> QED BY <2>1, <2>7, <5>1, FileGrows
      <4> QED BY <1>5, <2>4, <3>2, <4>1
    <3> QED BY <2>5, <3>1, <3>2
  <2> QED BY <1>3, <1>4, <1>5, <1>6, <2>1, <2>2, <2>6, <2>8, EvidenceKeeps
<1>8. CASE Unwritten /\ UNCHANGED previews
  <2>1. disk' = disk /\ faults' \in 0..MaxFaults /\ faults <= faults'
    BY <1>8, FaultCounts DEF Unwritten
  <2> QED BY <1>3, <1>4, <1>6, <1>8, <2>1, StateIs, QuietKeeps
<1> QED BY <1>3, <1>7, <1>8

\* The evidence of a decision carries the index its preview has had from the start.
LEMMA DecideEditKeeps ==
    ASSUME LifecycleAssumption, TurnsInv, NEW p \in previews, DecideEdit(p)
    PROVE  TurnsInv'
<1>1. PICK edit : edit = [kind |-> "edit", turn |-> p.turn, session |-> p.session, by |-> "loop"]
  OBVIOUS
<1>2. /\ Handles /\ loop' = "select" /\ mem' = Found.mem /\ task' = Found.task
      /\ UNCHANGED <<run, current, turnIndex, editIndex, configured, stops>>
      /\ \/ Written(<<edit>>) /\ previews' = previews \ {p}
         \/ Unwritten /\ previews' \in {previews, previews \ {p}}
  BY <1>1 DEF DecideEdit, Returns
<1>3. p \in Preview /\ p.session \in LogFiles /\ p.turn \in Indices
  BY StateIs DEF Preview
<1>4. /\ edit \in Event /\ edit.kind = "edit" /\ edit.by = "loop"
      /\ edit.session = p.session /\ edit.turn = p.turn
  BY <1>1, <1>3 DEF Event
<1>5. edit.session = current =>
        /\ edit.turn < turnIndex'
        /\ \A k \in 1..Len(disk[current]) :
             disk[current][k].kind = "user" => disk[current][k].turn # edit.turn
  <2> SUFFICES ASSUME p.session = current
               PROVE  /\ p.turn < turnIndex
                      /\ \A k \in 1..Len(disk[current]) :
                           disk[current][k].kind = "user" => disk[current][k].turn # p.turn
    BY <1>2, <1>4
  <2>1. PICK j \in 1..Len(disk[current]) :
          /\ disk[current][j].kind = "edit" /\ disk[current][j].session = current
          /\ disk[current][j].turn = p.turn
    BY DEF TurnsInv, PreviewsAreEvident
  <2>2. Alive /\ current \in LogFiles
    BY <1>2, StateIs DEF Handles, Alive
  <2>3. p.turn < turnIndex
    BY <2>1, <2>2, CounterIsFresh
  <2>4. ASSUME NEW k \in 1..Len(disk[current]), disk[current][k].kind = "user",
               disk[current][k].turn = p.turn
        PROVE  FALSE
    <3>1. k = j
      BY <2>1, <2>2, <2>4 DEF TurnsInv, TurnIndexUnique
    <3> QED BY <2>1, <2>4, <3>1
  <2> QED BY <2>3, <2>4
<1>6. /\ turnIndex' \in Indices /\ editIndex' \in Indices /\ turnIndex <= turnIndex'
      /\ previews' \subseteq previews /\ previews' \subseteq Preview
  BY <1>2, StateIs DEF LifecycleAssumption, Indices
<1>7. ASSUME NEW new \in {<<>>, <<edit>>}, Appended(new), faults' \in 0..MaxFaults,
             faults <= faults'
      PROVE  TurnsInv'
  <2>1. new \in Seq(Event)
    BY <1>4, <1>7, OneMore, NothingFits
  <2>2. PreviewsAreEvident'
    BY <1>6, <1>7, <2>1, EvidenceStays DEF PreviewsAreEvident
  <2> QED BY <1>2, <1>4, <1>5, <1>6, <1>7, <2>2, EvidenceKeeps
<1>8. CASE Written(<<edit>>)
  <2>1. Appended(<<edit>>) /\ faults' = faults
    BY <1>8 DEF Written, Appended
  <2>2. faults' \in 0..MaxFaults /\ faults <= faults'
    BY <2>1, StateIs DEF LifecycleAssumption
  <2> QED BY <1>7, <2>1, <2>2
<1>9. CASE Unwritten
  <2>1. disk' = disk /\ faults' \in 0..MaxFaults /\ faults <= faults'
    BY <1>9, FaultCounts DEF Unwritten
  <2> QED BY <1>7, <2>1, NothingFits
<1> QED BY <1>2, <1>8, <1>9

-----------------------------------------------------------------------------
(***************************************************************************)
(* A turn and its task.                                                    *)
(***************************************************************************)

\* A prompt begins a turn under a fresh index; the task works on a copy of the
\* log the loop has just brought up to date.
LEMMA StartTurnKeeps == ASSUME LifecycleAssumption, TurnsInv, StartTurn PROVE TurnsInv'
<1>1. PICK user : user = Mark("user", turnIndex, "task")
  OBVIOUS
<1>2. /\ Handles /\ loop' = "select" /\ ~Busy(Found.task) /\ SpendIndex
      /\ mem' = Append(Found.mem, user)
      /\ \/ /\ Written(<<user>>)
            /\ task' = [st |-> "running", turn |-> turnIndex, log |-> mem', pending |-> <<>>]
         \/ Unwritten /\ task' = NoTask
      /\ UNCHANGED <<run, current, configured, previews, stops>>
  BY <1>1 DEF StartTurn, Returns
<1>3. /\ user \in Event /\ user.kind = "user" /\ user.turn = turnIndex
      /\ user.session = current /\ user.by = "task"
  BY <1>1, StateIs, MarkIs
<1>4. /\ turnIndex \in Nat /\ turnIndex' = turnIndex + 1 /\ turnIndex <= turnIndex'
      /\ turnIndex' \in Indices /\ editIndex' \in Indices /\ turnIndex \in Indices
  BY <1>2, StateIs, SpendIndexSpends
<1>5. /\ run = "up" /\ run' = "up" /\ Alive /\ Alive' /\ current \in LogFiles
      /\ current' = current
  BY <1>2, StateIs DEF Handles, Alive
<1>6. PICK fm \in Seq(Event), ft \in TurnTask : fm = Found.mem /\ ft = Found.task
  BY <1>2, FoundIs
<1>7. /\ \A k \in 1..Len(fm) : fm[k].kind = "finished" => fm[k].turn < turnIndex
      /\ ~Busy(ft)
      /\ faults = 0 /\ stops = 0 =>
           /\ ~Finished(ft)
           /\ \A s \in LogFiles : \A k \in 1..Len(disk[s]) :
                disk[s][k].kind = "user" \/ disk[s][k].by = "task" =>
                  \/ Ended(s, disk[s][k].turn)
                  \/ s = current /\ ft.st = "running" /\ ft.turn = disk[s][k].turn
           /\ \A k \in 1..Len(disk[current]) :
                disk[current][k].by = "task" =>
                  disk[current][k] \in EventsOf(IF ft.st = "none" THEN fm ELSE ft.log)
  BY <1>2, <1>6, FoundIs
<1>8. <<user>> \in Seq(Event) /\ Len(<<user>>) = 1 /\ <<user>>[1] = user
  BY <1>3, OneMore
<1>9. mem' = fm \o <<user>> /\ mem' \in Seq(Event)
  BY <1>2, <1>3, <1>6, <1>8, AppendExtends, Extended
<1>10. CASE Unwritten /\ task' = NoTask
  <2>1. disk' = disk /\ faults' \in 0..MaxFaults /\ faults <= faults'
    BY <1>10, FaultCounts DEF Unwritten
  <2>2. mem' = Found.mem \o <<user>>
    BY <1>6, <1>9
  <2>3. \A k \in 1..Len(<<user>>) : <<user>>[k].kind # "finished"
    BY <1>3, <1>8
  <2>4. PreviewsAreEvident'
    BY <1>2, <2>1 DEF TurnsInv, PreviewsAreEvident
  <2>5. \A k \in 1..Len(<<>>) : FALSE
    OBVIOUS
  <2>6. configured' \in BOOLEAN /\ previews' \subseteq Preview /\ loop' \in {"select", "grace"}
    BY <1>2, StateIs
  <2> QED BY <1>2, <1>4, <1>8, <1>10, <2>1, <2>2, <2>3, <2>4, <2>5, <2>6, NothingFits,
     HandlerKeeps
<1>11. CASE /\ Written(<<user>>)
            /\ task' = [st |-> "running", turn |-> turnIndex, log |-> mem', pending |-> <<>>]
  <2>1. Appended(<<user>>) /\ faults' = faults
    BY <1>11 DEF Written, Appended
  <2>2. /\ task' \in TurnTask /\ task'.st = "running" /\ task'.turn = turnIndex
        /\ task'.log = mem' /\ task'.pending = <<>>
    <3>1. <<>> \in Seq(Event)
      OBVIOUS
    <3> QED BY <1>4, <1>9, <1>11, <3>1 DEF TurnTask
  <2>3. \A k \in 1..Len(disk[current]) :
          /\ disk[current][k].turn \in Nat
          /\ disk[current][k].session = current => disk[current][k].turn < turnIndex
          /\ disk[current][k].kind # "edit" => disk[current][k].turn < turnIndex
    BY <1>5, CounterIsFresh
  <2>4. Fits(<<user>>)
    <3>1. \A k \in 1..Len(disk[current]) :
            disk[current][k].session = current => disk[current][k].turn # turnIndex
      BY <1>4, <2>3
    <3> QED BY <1>3, <1>8, <3>1 DEF Fits
  <2>5. ASSUME NEW k \in 1..Len(disk'[current])
        PROVE  \/ k \in 1..Len(disk[current]) /\ disk'[current][k] = disk[current][k]
               \/ disk'[current][k] = user
    <3>1. \A a \in 1..Len(<<user>>) : <<user>>[a] = user
      BY <1>8
    <3>2. \/ k \in 1..Len(disk[current]) /\ disk'[current][k] = disk[current][k]
          \/ current = current /\ \E a \in 1..Len(<<user>>) :
               k = Len(disk[current]) + a /\ disk'[current][k] = <<user>>[a]
      BY <1>5, <1>8, <2>1, FileHolds
    <3> QED BY <3>1, <3>2
  <2>6. ASSUME NEW k \in 1..Len(mem'), mem'[k].kind = "finished"
        PROVE  mem'[k].turn \in Nat /\ mem'[k].turn < turnIndex
    <3>1. CASE k \in 1..Len(fm)
      BY <1>7, <1>8, <1>9, <2>6, <3>1, Extended, TurnIsNat
    <3>2. CASE \E a \in 1..Len(<<user>>) : k = Len(fm) + a
      BY <1>3, <1>8, <1>9, <2>6, <3>2, Extended
    <3> QED BY <1>8, <1>9, <3>1, <3>2, Extended
  <2>7. Types'
    <3>1. disk' \in [LogFiles -> Seq(Event)]
      BY <1>8, <2>1, FileGrows
    <3>2. LoopTypeOK'
      BY <1>2, <1>4, <1>5, <1>9, <2>1, <2>2, <3>1, StateIs DEF LoopTypeOK, TurnTask
    <3> QED BY <1>5, <2>2, <3>2 DEF Types
  <2>8. OwnFile' /\ TurnIndexUnique' /\ EndsAfterStart'
    BY <1>8, <2>1, <2>4, FilesKeep
  <2>9. IndicesBelow'
    <3>1. ASSUME NEW k \in 1..Len(disk'[current]), disk'[current][k].session = current
          PROVE  disk'[current][k].turn < turnIndex'
      BY <1>3, <1>4, <2>3, <2>5, <3>1
    <3>2. ASSUME NEW k \in 1..Len(mem'), mem'[k].kind = "finished"
          PROVE  mem'[k].turn < turnIndex'
      BY <1>4, <2>6, <3>2
    <3> QED BY <1>5, <3>1, <3>2 DEF IndicesBelow
  <2>10. PreviewsAreEvident'
    BY <1>2, <1>8, <2>1, EvidenceStays DEF PreviewsAreEvident
  <2>11. TaskIsOurs'
    <3>1. PICK k \in 1..Len(disk'[current]) : disk'[current][k] = user
      <4>1. 1 \in 1..Len(<<user>>)
        BY <1>8
      <4> QED BY <1>8, <2>1, <4>1, FileGrows
    <3>2. \A i \in 1..Len(task'.log) :
            task'.log[i].kind = "finished" => task'.log[i].turn < turnIndex'
      BY <1>4, <2>2, <2>6
    <3>3. \A i \in 1..Len(task'.pending) : FALSE
      BY <2>2
    <3>4. task'.turn < turnIndex'
      BY <1>4, <2>2
    <3> QED BY <1>3, <1>5, <2>2, <3>1, <3>2, <3>3, <3>4 DEF TaskIsOurs
  <2>12. RunningIsOpen'
    <3>1. ASSUME NEW k \in 1..Len(disk'[current]), disk'[current][k].kind = "finished"
          PROVE  disk'[current][k].turn # turnIndex
      <4>1. k \in 1..Len(disk[current]) /\ disk'[current][k] = disk[current][k]
        BY <1>3, <2>5, <3>1
      <4>2. disk[current][k].turn \in Nat /\ disk[current][k].turn < turnIndex
        BY <2>3, <3>1, <4>1
      <4> QED BY <1>4, <4>1, <4>2
    <3>2. ASSUME NEW k \in 1..Len(mem'), mem'[k].kind = "finished"
          PROVE  mem'[k].turn # turnIndex
      BY <1>4, <2>6, <3>2
    <3> QED BY <1>5, <2>2, <3>1, <3>2 DEF RunningIsOpen
  <2>13. NothingFailed'
    <3> SUFFICES ASSUME faults' = 0, stops' = 0
                 PROVE  /\ \A s \in LogFiles : \A k \in 1..Len(disk'[s]) :
                             disk'[s][k].kind = "user" \/ disk'[s][k].by = "task" =>
                               \/ \E i \in 1..Len(disk'[s]) :
                                    /\ disk'[s][i].kind = "finished"
                                    /\ disk'[s][i].turn = disk'[s][k].turn
                               \/ s = current /\ turnIndex = disk'[s][k].turn
                        /\ \A k \in 1..Len(disk'[current]) :
                             disk'[current][k].by = "task" => disk'[current][k] \in EventsOf(mem')
      BY <1>2, <1>5, <2>2 DEF NothingFailed, Ended
    <3>1. faults = 0 /\ stops = 0
      BY <1>2, <2>1
    <3>2. ft.st = "none"
      BY <1>7, <3>1 DEF Busy, Finished, TurnTask
    <3>3. ASSUME NEW s \in LogFiles, NEW k \in 1..Len(disk'[s]),
                 disk'[s][k].kind = "user" \/ disk'[s][k].by = "task"
          PROVE  \/ \E i \in 1..Len(disk'[s]) : /\ disk'[s][i].kind = "finished"
                                                /\ disk'[s][i].turn = disk'[s][k].turn
                 \/ s = current /\ turnIndex = disk'[s][k].turn
      <4>1. CASE k \in 1..Len(disk[s]) /\ disk'[s][k] = disk[s][k]
        <5>1. Ended(s, disk[s][k].turn)
          BY <1>7, <3>1, <3>2, <3>3, <4>1
        <5> QED BY <1>8, <2>1, <4>1, <5>1, EndedStays
      <4>2. CASE s = current /\ \E a \in 1..Len(<<user>>) : disk'[s][k] = <<user>>[a]
        BY <1>3, <1>8, <4>2
      <4> QED BY <1>8, <2>1, <4>1, <4>2, FileHolds
    <3>4. ASSUME NEW k \in 1..Len(disk'[current]), disk'[current][k].by = "task"
          PROVE  disk'[current][k] \in EventsOf(mem')
      <4>1. EventsOf(fm) \subseteq EventsOf(mem') /\ EventsOf(<<user>>) \subseteq EventsOf(mem')
        BY <1>8, <1>9, ExtendedHolds
      <4>2. user \in EventsOf(<<user>>)
        <5>1. 1 \in 1..Len(<<user>>) /\ <<user>>[1] = user
          BY <1>8
        <5> QED BY <5>1 DEF EventsOf
      <4>3. CASE k \in 1..Len(disk[current]) /\ disk'[current][k] = disk[current][k]
        BY <1>7, <3>1, <3>2, <3>4, <4>1, <4>3
      <4> QED BY <2>5, <4>1, <4>2, <4>3
    <3> QED BY <3>3, <3>4
  <2>14. ShutdownEndsTurn'
    BY <1>5, NotExited
  <2>15. OthersAreKept'
    BY <2>2, <2>13 DEF NothingFailed, OthersAreKept
  <2> QED BY <2>7, <2>8, <2>9, <2>10, <2>11, <2>12, <2>13, <2>14, <2>15 DEF TurnsInv
<1> QED BY <1>2, <1>10, <1>11

\* What a batch of a task's events holds: steps it could not write, and the new event.
LEMMA BatchIs ==
    ASSUME LifecycleAssumption, TurnsInv, task.st = "running",
           NEW e \in Event, e.turn = task.turn, e.session = current,
           e.kind \in {"step", "finished"}
    PROVE  /\ task.pending \in Seq(Event) /\ Append(task.pending, e) \in Seq(Event)
           /\ Len(task.pending) \in Nat /\ Len(Append(task.pending, e)) = Len(task.pending) + 1
           /\ Append(task.pending, e)[Len(task.pending) + 1] = e
           /\ \A k \in 1..Len(Append(task.pending, e)) :
                /\ Append(task.pending, e)[k].turn = task.turn
                /\ Append(task.pending, e)[k].session = current
                /\ Append(task.pending, e)[k].kind = "step" \/ k = Len(task.pending) + 1
                /\ Append(task.pending, e)[k].kind \in {"step", "finished"}
           /\ e.kind = "step" => \A k \in 1..Len(Append(task.pending, e)) :
                                   Append(task.pending, e)[k].kind = "step"
<1>1. task.pending \in Seq(Event)
  BY StateIs DEF TurnTask
<1>2. /\ Append(task.pending, e) \in Seq(Event) /\ Len(task.pending) \in Nat
      /\ Len(Append(task.pending, e)) = Len(task.pending) + 1
      /\ \A k \in 1..Len(task.pending) : Append(task.pending, e)[k] = task.pending[k]
      /\ Append(task.pending, e)[Len(task.pending) + 1] = e
  BY <1>1, AppendProperties, LenProperties
<1>3. \A k \in 1..Len(task.pending) :
        /\ task.pending[k].kind = "step" /\ task.pending[k].turn = task.turn
        /\ task.pending[k].session = current
  BY DEF TurnsInv, TaskIsOurs
<1>4. ASSUME NEW k \in 1..Len(Append(task.pending, e))
      PROVE  /\ Append(task.pending, e)[k].turn = task.turn
             /\ Append(task.pending, e)[k].session = current
             /\ Append(task.pending, e)[k].kind = "step" \/ k = Len(task.pending) + 1
             /\ Append(task.pending, e)[k].kind \in {"step", "finished"}
             /\ e.kind = "step" => Append(task.pending, e)[k].kind = "step"
  <2>1. CASE k = Len(task.pending) + 1
    BY <1>2, <2>1
  <2>2. CASE k \in 1..Len(task.pending)
    BY <1>2, <1>3, <2>2
  <2> QED BY <1>2, <2>1, <2>2
<1> QED BY <1>1, <1>2, <1>4

\* Every event of the current file after an append was there, or is new.
LEMMA CurrentHolds ==
    ASSUME TurnsInv, NEW new \in Seq(Event), Appended(new),
           NEW k \in 1..Len(disk'[current])
    PROVE  \/ k \in 1..Len(disk[current]) /\ disk'[current][k] = disk[current][k]
           \/ \E a \in 1..Len(new) : disk'[current][k] = new[a]
<1>1. current \in LogFiles
  BY StateIs
<1> QED BY <1>1, FileHolds

\* One event more in a log.
LEMMA AppendHolds ==
    ASSUME NEW l \in Seq(Event), NEW e \in Event
    PROVE  /\ Append(l, e) \in Seq(Event)
           /\ \A k \in 1..Len(Append(l, e)) :
                Append(l, e)[k] = e \/ (k \in 1..Len(l) /\ Append(l, e)[k] = l[k])
           /\ EventsOf(l) \subseteq EventsOf(Append(l, e)) /\ e \in EventsOf(Append(l, e))
<1>1. /\ Append(l, e) \in Seq(Event) /\ Len(l) \in Nat
      /\ Len(Append(l, e)) = Len(l) + 1
      /\ \A k \in 1..Len(l) : Append(l, e)[k] = l[k]
      /\ Append(l, e)[Len(l) + 1] = e
  BY AppendProperties, LenProperties
<1>2. \A k \in 1..Len(Append(l, e)) :
        Append(l, e)[k] = e \/ (k \in 1..Len(l) /\ Append(l, e)[k] = l[k])
  BY <1>1
<1>3. \A k \in 1..Len(l) : k \in 1..Len(Append(l, e)) /\ Append(l, e)[k] = l[k]
  BY <1>1
<1>4. EventsOf(l) \subseteq EventsOf(Append(l, e))
  BY <1>3 DEF EventsOf
<1>5. e \in EventsOf(Append(l, e))
  <2>1. Len(l) + 1 \in 1..Len(Append(l, e))
    BY <1>1
  <2> QED BY <1>1, <2>1 DEF EventsOf
<1> QED BY <1>1, <1>2, <1>4, <1>5

\* A batch of a task's events fits.
LEMMA BatchFits ==
    ASSUME TurnsInv, NEW t, NEW new \in Seq(Event),
           \A a \in 1..Len(new) : /\ new[a].turn = t /\ new[a].session = current
                                   /\ new[a].kind \in {"step", "finished"},
           \A a, b \in 1..Len(new) :
             new[a].kind = "finished" /\ new[b].kind = "finished" => a = b,
           \E k \in 1..Len(disk[current]) :
             disk[current][k].kind = "user" /\ disk[current][k].turn = t,
           \A k \in 1..Len(disk[current]) :
             disk[current][k].kind = "finished" => disk[current][k].turn # t
    PROVE  Fits(new)
  BY DEF Fits

\* A task records a step, or its end: in its log, and with what it could not write
\* before in the file, unless that fails too.
LEMMA TaskRecords ==
    ASSUME LifecycleAssumption, TurnsInv, Alive, task.st = "running",
           NEW e \in Event, e.turn = task.turn, e.session = current,
           NEW st, NEW pend \in Seq(Event), NEW new \in Seq(Event), Appended(new),
           \/ st = "running" /\ e.kind = "step"
           \/ st = "finishing" /\ e.kind = "finished",
           task' = [task EXCEPT !.st = st, !.log = Append(@, e), !.pending = pend],
           \/ new = Append(task.pending, e) /\ pend = <<>> /\ faults' = faults
           \/ /\ new = <<>> /\ faults' \in 0..MaxFaults /\ faults' # 0
              /\ pend = <<>> \/ (st = "running" /\ pend = Append(task.pending, e)),
           UNCHANGED <<run, current, mem, turnIndex, editIndex, configured, loop,
                       previews, stops>>
    PROVE  TurnsInv'
<1>1. /\ current \in LogFiles /\ current' = current /\ Alive' /\ task \in TurnTask
      /\ mem' = mem /\ turnIndex' = turnIndex /\ turnIndex \in Nat
      /\ task.log \in Seq(Event) /\ task.turn \in Nat /\ disk[current] \in Seq(Event)
  BY StateIs DEF TurnTask, Alive, Indices
<1>2. Append(task.log, e) \in Seq(Event)
  BY <1>1, AppendHolds
<1>3. /\ task' \in TurnTask /\ task'.st = st /\ task'.turn = task.turn
      /\ task'.log = Append(task.log, e) /\ task'.pending = pend
  BY <1>1, <1>2 DEF TurnTask
<1>4. \A k \in 1..Len(new) :
        /\ new[k].turn = task.turn /\ new[k].session = current
        /\ new[k].kind = "step" \/ (e.kind = "finished" /\ k = Len(task.pending) + 1)
        /\ new[k].kind \in {"step", "finished"}
  <2>1. e.kind \in {"step", "finished"}
    OBVIOUS
  <2>2. CASE new = Append(task.pending, e)
    <3>1. \A k \in 1..Len(Append(task.pending, e)) :
            /\ Append(task.pending, e)[k].turn = task.turn
            /\ Append(task.pending, e)[k].session = current
            /\ Append(task.pending, e)[k].kind = "step" \/ k = Len(task.pending) + 1
            /\ Append(task.pending, e)[k].kind \in {"step", "finished"}
      BY <2>1, BatchIs
    <3>2. e.kind = "step" => \A k \in 1..Len(Append(task.pending, e)) :
            Append(task.pending, e)[k].kind = "step"
      BY <2>1, BatchIs
    <3> QED BY <2>1, <2>2, <3>1, <3>2
  <2>3. CASE new = <<>>
    BY <2>3
  <2> QED BY <2>2, <2>3
<1>5. /\ \E k \in 1..Len(disk[current]) :
           disk[current][k].kind = "user" /\ disk[current][k].turn = task.turn
      /\ task.turn < turnIndex
      /\ \A k \in 1..Len(task.log) :
           task.log[k].kind = "finished" => task.log[k].turn < turnIndex
  BY DEF TurnsInv, TaskIsOurs
<1>6. /\ \A k \in 1..Len(disk[current]) :
           disk[current][k].kind = "finished" => disk[current][k].turn # task.turn
      /\ \A k \in 1..Len(mem) : mem[k].kind = "finished" => mem[k].turn # task.turn
  BY DEF TurnsInv, RunningIsOpen
<1>7. Fits(new)
  <2>1. \A a, b \in 1..Len(new) :
          new[a].kind = "finished" /\ new[b].kind = "finished" => a = b
    BY <1>4
  <2>2. \A a \in 1..Len(new) : /\ new[a].turn = task.turn /\ new[a].session = current
                                /\ new[a].kind \in {"step", "finished"}
    BY <1>4
  <2> QED BY <1>5, <1>6, <2>1, <2>2, BatchFits
<1>8. Types'
  <2>1. disk' \in [LogFiles -> Seq(Event)]
    BY FileGrows
  <2>2. faults' \in 0..MaxFaults
    BY StateIs
  <2>3. LoopTypeOK'
    BY <1>1, <1>3, <2>1, <2>2, StateIs DEF LoopTypeOK, TurnTask
  <2>4. (run' = "closing" => stops' < MaxStops) /\ (~Alive' => stops' # 0)
    BY <1>1, StateIs
  <2> QED BY <1>3, <2>3, <2>4 DEF Types
<1>9. OwnFile' /\ TurnIndexUnique' /\ EndsAfterStart'
  BY <1>7, FilesKeep
<1>10. PreviewsAreEvident'
  BY EvidenceStays DEF PreviewsAreEvident
<1>11. ASSUME NEW k \in 1..Len(disk'[current])
       PROVE  \/ k \in 1..Len(disk[current]) /\ disk'[current][k] = disk[current][k]
              \/ \E a \in 1..Len(new) : disk'[current][k] = new[a]
  BY CurrentHolds
<1>12. IndicesBelow'
  <2>1. ASSUME NEW k \in 1..Len(disk'[current]), disk'[current][k].session = current
        PROVE  disk'[current][k].turn < turnIndex
    <3>1. CASE k \in 1..Len(disk[current]) /\ disk'[current][k] = disk[current][k]
      BY <2>1, <3>1, CounterIsFresh
    <3>2. CASE \E a \in 1..Len(new) : disk'[current][k] = new[a]
      BY <1>4, <1>5, <3>2
    <3> QED BY <1>11, <3>1, <3>2
  <2>2. \A k \in 1..Len(mem) : mem[k].kind = "finished" => mem[k].turn < turnIndex
    BY DEF TurnsInv, IndicesBelow
  <2> QED BY <1>1, <2>1, <2>2 DEF IndicesBelow
<1>13. \A k \in 1..Len(task'.log) : task'.log[k].kind = "finished" => task'.log[k].turn < turnIndex
  <2> SUFFICES ASSUME NEW k \in 1..Len(task'.log), task'.log[k].kind = "finished"
               PROVE  task'.log[k].turn < turnIndex
    OBVIOUS
  <2>1. task'.log[k] = e \/ (k \in 1..Len(task.log) /\ task'.log[k] = task.log[k])
    BY <1>1, <1>3, AppendHolds
  <2> QED BY <1>5, <2>1
<1>14. TaskIsOurs'
  <2>1. \E k \in 1..Len(disk'[current]) :
          disk'[current][k].kind = "user" /\ disk'[current][k].turn = task.turn
    BY <1>1, <1>5, FileKeeps
  <2>2. \A k \in 1..Len(pend) : /\ pend[k].kind = "step" /\ pend[k].turn = task.turn
                                /\ pend[k].session = current
    <3>1. CASE pend = <<>>
      BY <3>1
    <3>2. CASE st = "running" /\ pend = Append(task.pending, e)
      <4>1. e.kind = "step"
        BY <3>2
      <4>2. \A k \in 1..Len(Append(task.pending, e)) :
              /\ Append(task.pending, e)[k].turn = task.turn
              /\ Append(task.pending, e)[k].session = current
              /\ Append(task.pending, e)[k].kind = "step"
        BY <4>1, BatchIs
      <4> QED BY <3>2, <4>2
    <3> QED BY <3>1, <3>2
  <2>3. \A k \in 1..Len(task'.pending) :
          /\ task'.pending[k].kind = "step" /\ task'.pending[k].turn = task'.turn
          /\ task'.pending[k].session = current'
    BY <1>1, <1>3, <2>2
  <2>4. /\ task'.turn < turnIndex'
        /\ \E k \in 1..Len(disk'[current']) :
             disk'[current'][k].kind = "user" /\ disk'[current'][k].turn = task'.turn
        /\ \A k \in 1..Len(task'.log) :
             task'.log[k].kind = "finished" => task'.log[k].turn < turnIndex'
    BY <1>1, <1>3, <1>5, <1>13, <2>1
  <2> QED BY <1>1, <2>3, <2>4 DEF TaskIsOurs
<1>15. RunningIsOpen'
  <2> SUFFICES ASSUME st = "running", NEW k \in 1..Len(disk'[current]),
                      disk'[current][k].kind = "finished"
               PROVE  disk'[current][k].turn # task.turn
    BY <1>1, <1>3, <1>6 DEF RunningIsOpen
  <2>1. CASE k \in 1..Len(disk[current]) /\ disk'[current][k] = disk[current][k]
    BY <1>6, <2>1
  <2>2. CASE \E a \in 1..Len(new) : disk'[current][k] = new[a]
    BY <1>4, <2>2
  <2> QED BY <1>11, <2>1, <2>2
<1>16. NothingFailed'
  <2> SUFFICES ASSUME faults' = 0, stops' = 0
               PROVE  /\ loop' # "handling" /\ st # "failed" /\ pend = <<>>
                      /\ \A s \in LogFiles : \A k \in 1..Len(disk'[s]) :
                           disk'[s][k].kind = "user" \/ disk'[s][k].by = "task" =>
                             \/ \E i \in 1..Len(disk'[s]) :
                                  /\ disk'[s][i].kind = "finished"
                                  /\ disk'[s][i].turn = disk'[s][k].turn
                             \/ /\ s = current /\ st = "running"
                                /\ task.turn = disk'[s][k].turn
                      /\ \A k \in 1..Len(disk'[current]) :
                           disk'[current][k].by = "task" => disk'[current][k] \in
                             EventsOf(Append(task.log, e))
    BY <1>1, <1>3 DEF NothingFailed, Ended
  <2>1. faults = 0 /\ stops = 0 /\ pend = <<>> /\ new = Append(task.pending, e)
    OBVIOUS
  <2>2. /\ loop # "handling" /\ task.pending = <<>>
        /\ \A s \in LogFiles : \A k \in 1..Len(disk[s]) :
             disk[s][k].kind = "user" \/ disk[s][k].by = "task" =>
               \/ Ended(s, disk[s][k].turn)
               \/ s = current /\ task.turn = disk[s][k].turn
        /\ \A k \in 1..Len(disk[current]) :
             disk[current][k].by = "task" => disk[current][k] \in EventsOf(task.log)
    BY <2>1 DEF TurnsInv, NothingFailed
  <2>3. Len(new) = 1 /\ new[1] = e
    BY <2>1, <2>2
  <2>4. PICK i \in 1..Len(disk'[current]) : disk'[current][i] = e
    <3>1. 1 \in 1..Len(new)
      BY <2>3
    <3> QED BY ZenonT(60), <2>3, <3>1, FileGrows
  <2>5. \/ st = "running"
        \/ disk'[current][i].kind = "finished" /\ disk'[current][i].turn = task.turn
    BY <2>4
  <2>6. ASSUME NEW s \in LogFiles, NEW k \in 1..Len(disk'[s]),
               disk'[s][k].kind = "user" \/ disk'[s][k].by = "task"
        PROVE  \/ \E j \in 1..Len(disk'[s]) : /\ disk'[s][j].kind = "finished"
                                              /\ disk'[s][j].turn = disk'[s][k].turn
               \/ s = current /\ st = "running" /\ task.turn = disk'[s][k].turn
    <3>1. CASE k \in 1..Len(disk[s]) /\ disk'[s][k] = disk[s][k] /\ Ended(s, disk[s][k].turn)
      BY SMTT(30), <3>1, EndedStays
    <3>2. CASE s = current /\ disk'[s][k].turn = task.turn
      BY <2>5, <3>2
    <3>3. CASE s = current /\ \E a \in 1..Len(new) : disk'[s][k] = new[a]
      BY <1>4, <3>2, <3>3
    <3>4. CASE k \in 1..Len(disk[s]) /\ disk'[s][k] = disk[s][k]
      <4>1. Ended(s, disk[s][k].turn) \/ (s = current /\ task.turn = disk[s][k].turn)
        BY <2>2, <2>6, <3>4
      <4> QED BY <3>1, <3>2, <3>4, <4>1
    <3>5. \/ k \in 1..Len(disk[s]) /\ disk'[s][k] = disk[s][k]
          \/ s = current /\ \E a \in 1..Len(new) :
               k = Len(disk[current]) + a /\ disk'[s][k] = new[a]
      BY FileHolds
    <3> QED BY <3>3, <3>4, <3>5
  <2>7. ASSUME NEW k \in 1..Len(disk'[current]), disk'[current][k].by = "task"
        PROVE  disk'[current][k] \in EventsOf(Append(task.log, e))
    <3>1. EventsOf(task.log) \subseteq EventsOf(Append(task.log, e))
          /\ e \in EventsOf(Append(task.log, e))
      BY <1>1, AppendHolds
    <3>3. CASE k \in 1..Len(disk[current]) /\ disk'[current][k] = disk[current][k]
      BY <2>2, <2>7, <3>1, <3>3
    <3>4. CASE \E a \in 1..Len(new) : disk'[current][k] = new[a]
      BY <2>3, <3>1, <3>4
    <3> QED BY <1>11, <3>3, <3>4
  <2> QED BY <2>1, <2>2, <2>6, <2>7
<1>17. ShutdownEndsTurn'
  BY <1>1, NotExited DEF Alive
<1>18. OthersAreKept'
  <2> SUFFICES ASSUME faults' = 0, stops' = 0,
                      NEW k \in 1..Len(disk'[current]), disk'[current][k].by = "task",
                      disk'[current][k].turn # task.turn
               PROVE  disk'[current][k] \in EventsOf(mem)
    BY <1>1, <1>3 DEF OthersAreKept
  <2>1. faults = 0 /\ stops = 0
    OBVIOUS
  <2>2. CASE k \in 1..Len(disk[current]) /\ disk'[current][k] = disk[current][k]
    BY <2>1, <2>2 DEF TurnsInv, OthersAreKept
  <2>3. CASE \E a \in 1..Len(new) : disk'[current][k] = new[a]
    BY <1>4, <2>3
  <2> QED BY <1>11, <2>2, <2>3
<1> QED BY <1>8, <1>9, <1>10, <1>12, <1>14, <1>15, <1>16, <1>17, <1>18 DEF TurnsInv

\* A round of tools.
LEMMA TaskStepKeeps == ASSUME LifecycleAssumption, TurnsInv, TaskStep PROVE TurnsInv'
<1>1. PICK e : e = Mark("step", task.turn, "task")
  OBVIOUS
<1>2. /\ Alive /\ task.st = "running"
      /\ UNCHANGED <<run, current, mem, turnIndex, editIndex, configured, loop, previews, stops>>
      /\ \/ /\ Written(Append(task.pending, e))
            /\ task' = [task EXCEPT !.log = Append(@, e), !.pending = <<>>]
         \/ /\ Unwritten
            /\ task' = [task EXCEPT !.log = Append(@, e), !.pending = Append(task.pending, e)]
  BY <1>1 DEF TaskStep
<1>3. /\ e \in Event /\ e.kind = "step" /\ e.turn = task.turn /\ e.session = current
  BY <1>1, StateIs, MarkIs DEF TurnTask
<1>4. /\ <<>> \in Seq(Event) /\ Append(task.pending, e) \in Seq(Event)
  BY <1>2, <1>3, BatchIs
<1>5. ASSUME NEW pend, task' = [task EXCEPT !.log = Append(@, e), !.pending = pend]
      PROVE  task' = [task EXCEPT !.st = "running", !.log = Append(@, e), !.pending = pend]
  BY <1>2, <1>5, StateIs DEF TurnTask
<1>6. CASE /\ Written(Append(task.pending, e))
           /\ task' = [task EXCEPT !.log = Append(@, e), !.pending = <<>>]
  <2>1. Appended(Append(task.pending, e)) /\ faults' = faults
    BY <1>6 DEF Written, Appended
  <2>2. task' = [task EXCEPT !.st = "running", !.log = Append(@, e), !.pending = <<>>]
    BY <1>5, <1>6
  <2> QED BY <1>2, <1>3, <1>4, <2>1, <2>2, TaskRecords
<1>7. CASE /\ Unwritten
           /\ task' = [task EXCEPT !.log = Append(@, e), !.pending = Append(task.pending, e)]
  <2>1. disk' = disk /\ faults' \in 0..MaxFaults /\ faults' # 0
    BY <1>7, FaultCounts DEF Unwritten
  <2>2. task' = [task EXCEPT !.st = "running", !.log = Append(@, e),
                             !.pending = Append(task.pending, e)]
    BY <1>5, <1>7
  <2>3. Appended(<<>>)
    BY <2>1, NothingFits
  <2> QED BY <1>2, <1>3, <1>4, <2>1, <2>2, <2>3, TaskRecords
<1> QED BY <1>2, <1>6, <1>7

\* A turn ends by itself.
LEMMA TaskFinishesKeeps == ASSUME LifecycleAssumption, TurnsInv, TaskFinishes PROVE TurnsInv'
<1>1. PICK e : e = Mark("finished", task.turn, "task")
  OBVIOUS
<1>2. /\ Alive /\ task.st = "running"
      /\ UNCHANGED <<run, current, mem, turnIndex, editIndex, configured, loop, previews, stops>>
      /\ task' = [task EXCEPT !.st = "finishing", !.log = Append(@, e), !.pending = <<>>]
      /\ Written(Append(task.pending, e)) \/ Unwritten
  BY <1>1 DEF TaskFinishes
<1>3. /\ e \in Event /\ e.kind = "finished" /\ e.turn = task.turn /\ e.session = current
  BY <1>1, StateIs, MarkIs DEF TurnTask
<1>4. /\ <<>> \in Seq(Event) /\ Append(task.pending, e) \in Seq(Event)
  BY <1>2, <1>3, BatchIs
<1>5. CASE Written(Append(task.pending, e))
  <2>1. Appended(Append(task.pending, e)) /\ faults' = faults
    BY <1>5 DEF Written, Appended
  <2> QED BY <1>2, <1>3, <1>4, <2>1, TaskRecords
<1>6. CASE Unwritten
  <2>1. disk' = disk /\ faults' \in 0..MaxFaults /\ faults' # 0
    BY <1>6, FaultCounts DEF Unwritten
  <2>2. Appended(<<>>)
    BY <2>1, NothingFits
  <2> QED BY <1>2, <1>3, <1>4, <2>1, <2>2, TaskRecords
<1> QED BY <1>2, <1>5, <1>6

\* A task that returns or panics leaves the files and the loop's log alone; what it
\* recorded is still in its own.
LEMMA EndsKeeps ==
    ASSUME LifecycleAssumption, TurnsInv, Alive, Busy(task),
           NEW st \in {"done", "failed"}, Ends(st), loop' \in {"select", "handling", "grace"},
           \/ st = "done" /\ task.st = "finishing" /\ faults' = faults /\ loop' = loop
           \/ faults' \in 0..MaxFaults /\ faults' # 0
    PROVE  TurnsInv'
<1>1. /\ task' = [task EXCEPT !.st = st]
      /\ UNCHANGED <<run, current, disk, mem, turnIndex, editIndex, configured, previews, stops>>
  BY DEF Ends
<1>2. /\ task' \in TurnTask /\ task'.st = st /\ task'.turn = task.turn
      /\ task'.log = task.log /\ task'.pending = task.pending /\ task.st # "none"
  BY <1>1, StateIs DEF TurnTask, Busy
<1>3. Alive'
  BY <1>1 DEF Alive
<1>4. Types'
  <2>1. faults' \in 0..MaxFaults
    BY StateIs
  <2>2. LoopTypeOK'
    BY <1>1, <1>2, <2>1, StateIs DEF LoopTypeOK, TurnTask
  <2> QED BY <1>1, <1>2, <1>3, <2>2, StateIs DEF Types
<1>5. /\ OwnFile' /\ TurnIndexUnique' /\ EndsAfterStart' /\ PreviewsAreEvident'
  BY <1>1 DEF TurnsInv, OwnFile, TurnIndexUnique, EndsAfterStart, PreviewsAreEvident
<1>6. IndicesBelow'
  BY <1>1 DEF TurnsInv, IndicesBelow
<1>7. TaskIsOurs'
  BY <1>1, <1>2, <1>3 DEF TurnsInv, TaskIsOurs
<1>8. RunningIsOpen'
  BY <1>2 DEF RunningIsOpen
<1>9. NothingFailed'
  <2> SUFFICES ASSUME faults' = 0, stops' = 0
               PROVE  /\ loop' # "handling" /\ task'.st # "failed" /\ task'.pending = <<>>
                      /\ \A s \in LogFiles : \A k \in 1..Len(disk[s]) :
                           disk[s][k].kind = "user" \/ disk[s][k].by = "task" =>
                             Ended(s, disk[s][k].turn)
                      /\ \A k \in 1..Len(disk[current]) :
                           disk[current][k].by = "task" =>
                             disk[current][k] \in EventsOf(task.log)
    BY <1>1, <1>2, <1>3 DEF NothingFailed, Ended
  <2>1. faults = 0 /\ stops = 0 /\ st = "done" /\ task.st = "finishing" /\ loop' = loop
    BY <1>1
  <2> QED BY <1>2, <2>1 DEF TurnsInv, NothingFailed
<1>10. ShutdownEndsTurn'
  BY <1>3, NotExited DEF Alive
<1>11. OthersAreKept'
  <2> SUFFICES ASSUME faults' = 0, stops' = 0
               PROVE  \A k \in 1..Len(disk[current]) :
                        disk[current][k].by = "task" /\ disk[current][k].turn # task.turn =>
                          disk[current][k] \in EventsOf(mem)
    BY <1>1, <1>2 DEF OthersAreKept
  <2>1. faults = 0 /\ stops = 0
    BY <1>1
  <2> QED BY <1>2, <2>1 DEF TurnsInv, OthersAreKept
<1> QED BY <1>4, <1>5, <1>6, <1>7, <1>8, <1>9, <1>10, <1>11 DEF TurnsInv

\* The three ways a task ends.
LEMMA TaskReturnsKeeps == ASSUME LifecycleAssumption, TurnsInv, TaskReturns PROVE TurnsInv'
<1>1. /\ Alive /\ task.st = "finishing" /\ Ends("done") /\ loop' = loop /\ faults' = faults
  BY DEF TaskReturns
<1>2. Busy(task)
  BY <1>1 DEF Busy
<1> QED BY <1>1, <1>2, StateIs, EndsKeeps

\* The same on another thread.
LEMMA TaskReturnsLateKeeps ==
    ASSUME LifecycleAssumption, TurnsInv, TaskReturnsLate PROVE TurnsInv'
<1>1. /\ Alive /\ task.st = "finishing" /\ Ends("done") /\ loop' = "handling" /\ Fault
  BY DEF TaskReturnsLate, Alive
<1>2. Busy(task)
  BY <1>1 DEF Busy
<1> QED BY <1>1, <1>2, FaultCounts, EndsKeeps

\* A task panics, and its log is gone.
LEMMA TaskPanicsKeeps == ASSUME LifecycleAssumption, TurnsInv, TaskPanics PROVE TurnsInv'
<1>1. /\ Alive /\ Busy(task) /\ Ends("failed") /\ loop' = loop /\ Fault
  BY DEF TaskPanics
<1> QED BY <1>1, StateIs, FaultCounts, EndsKeeps

-----------------------------------------------------------------------------
(***************************************************************************)
(* Cancellation, shutdown, crashes, restarts and switches.                 *)
(***************************************************************************)

\* A clean exit that leaves every turn ended.
LEMMA ExitEnds ==
    ASSUME faults' = 0 /\ stops' = 1 =>
             \A s \in LogFiles : \A k \in 1..Len(disk'[s]) : disk'[s][k].kind = "user" =>
               \E i \in 1..Len(disk'[s]) : /\ disk'[s][i].kind = "finished"
                                           /\ disk'[s][i].turn = disk'[s][k].turn
    PROVE  ShutdownEndsTurn'
<1> SUFFICES ASSUME faults' = 0, stops' = 1, NEW s \in LogFiles, NEW k \in 1..Len(disk'[s]),
                    disk'[s][k].kind = "user"
             PROVE  {i \in 1..Len(disk'[s]) : /\ disk'[s][i].kind = "finished"
                                              /\ disk'[s][i].turn = disk'[s][k].turn} # {}
  BY DEF ShutdownEndsTurn, EventsOf, Finishes
<1>1. PICK i \in 1..Len(disk'[s]) : /\ disk'[s][i].kind = "finished"
                                    /\ disk'[s][i].turn = disk'[s][k].turn
  OBVIOUS
<1> QED BY <1>1

\* The client closes its channel: the loop exits, or waits for the turn it holds.
LEMMA CloseClientKeeps == ASSUME LifecycleAssumption, TurnsInv, CloseClient PROVE TurnsInv'
<1>1. /\ run = "up" /\ loop = "select" /\ stops < MaxStops /\ Alive
      /\ UNCHANGED <<current, disk, mem, turnIndex, editIndex, configured, task, previews, faults>>
      /\ \/ /\ task.st = "none" /\ run' = "exited" /\ loop' = "select" /\ stops' = stops + 1
         \/ run' = "closing" /\ loop' = "grace" /\ stops' = stops
  BY DEF CloseClient, Alive
<1>2. stops \in Nat /\ MaxStops \in Nat /\ stops' \in 0..MaxStops
      /\ (run' = "closing" => stops' < MaxStops)
      /\ (run' = "exited" => stops' = stops + 1 /\ stops' # 0)
  BY <1>1, StateIs DEF LifecycleAssumption
<1>3. Types'
  <2>1. LoopTypeOK'
    BY <1>1, <1>2, StateIs DEF LoopTypeOK, TurnTask
  <2> QED BY <1>1, <1>2, <2>1, StateIs DEF Types, Alive
<1>4. /\ OwnFile' /\ TurnIndexUnique' /\ EndsAfterStart' /\ PreviewsAreEvident' /\ RunningIsOpen'
  BY <1>1 DEF TurnsInv, OwnFile, TurnIndexUnique, EndsAfterStart, PreviewsAreEvident,
              RunningIsOpen
<1>5. IndicesBelow'
  BY <1>1 DEF TurnsInv, IndicesBelow
<1>6. TaskIsOurs'
  BY <1>1 DEF TurnsInv, TaskIsOurs, Alive
<1>7. NothingFailed'
  <2>1. CASE run' = "exited"
    BY <2>1 DEF NothingFailed, Alive
  <2>2. CASE run' = "closing" /\ loop' = "grace" /\ stops' = stops
    BY <1>1, <2>2 DEF TurnsInv, NothingFailed, Ended
  <2> QED BY <1>1, <2>1, <2>2
<1>8. ShutdownEndsTurn'
  <2>1. CASE run' = "closing"
    BY <2>1, NotExited
  <2>2. CASE run' = "exited"
    <3>1. ASSUME faults' = 0, stops' = 1, NEW s \in LogFiles, NEW k \in 1..Len(disk[s]),
                 disk[s][k].kind = "user"
          PROVE  Ended(s, disk[s][k].turn)
      <4>1. faults = 0 /\ stops = 0 /\ task.st = "none"
        BY <1>1, <1>2, <2>2, <3>1
      <4> QED BY <1>1, <3>1, <4>1 DEF TurnsInv, NothingFailed
    <3> QED BY <1>1, <3>1, ExitEnds DEF Ended
  <2> QED BY <1>1, <2>1, <2>2
<1>9. OthersAreKept'
  <2>1. CASE run' = "exited"
    BY <2>1 DEF OthersAreKept, Alive
  <2>2. CASE run' = "closing" /\ loop' = "grace" /\ stops' = stops
    BY <1>1, <2>2 DEF TurnsInv, OthersAreKept
  <2> QED BY <1>1, <2>1, <2>2
<1> QED BY <1>3, <1>4, <1>5, <1>6, <1>7, <1>8, <1>9 DEF TurnsInv

\* The loop lets the turn go, with new in the file and a log in which, if nothing
\* failed, every turn has ended and nothing is missing.
LEMMA ResumeKeeps ==
    ASSUME LifecycleAssumption, TurnsInv, task.st # "none", Resume,
           NEW new \in Seq(Event), Appended(new), Fits(new),
           \A a \in 1..Len(new) : new[a].turn = task.turn,
           mem' \in Seq(Event),
           \A k \in 1..Len(mem') : mem'[k].kind = "finished" => mem'[k].turn < turnIndex,
           faults' \in 0..MaxFaults,
           faults' = 0 /\ stops = 0 =>
             /\ \A s \in LogFiles : \A k \in 1..Len(disk'[s]) :
                  disk'[s][k].kind = "user" \/ disk'[s][k].by = "task" =>
                    \E i \in 1..Len(disk'[s]) : /\ disk'[s][i].kind = "finished"
                                                /\ disk'[s][i].turn = disk'[s][k].turn
             /\ \A k \in 1..Len(disk'[current]) :
                  disk'[current][k].by = "task" => disk'[current][k] \in EventsOf(mem'),
           UNCHANGED <<current, turnIndex, editIndex, configured, previews>>
    PROVE  TurnsInv'
<1>1. /\ task' = NoTask /\ loop' = "select"
      /\ \/ run = "closing" /\ run' = "exited" /\ stops' = stops + 1
         \/ run # "closing" /\ run' = run /\ stops' = stops
  BY DEF Resume, Returns
<1>2. Alive /\ task.turn < turnIndex
  BY DEF TurnsInv, TaskIsOurs
<1>3. /\ task' \in TurnTask /\ task'.st = "none" /\ task'.pending = <<>>
      /\ current' = current /\ turnIndex' = turnIndex /\ current \in LogFiles
  BY <1>1, NoTaskIs, StateIs
<1>4. /\ run' \in {"up", "exited"} /\ stops' \in 0..MaxStops /\ stops \in Nat
      /\ run' = "exited" => stops' = stops + 1 /\ stops' # 0
      /\ run' = "up" => stops' = stops
  BY <1>1, <1>2, StateIs DEF LifecycleAssumption, Alive
<1>5. Types'
  <2>1. disk' \in [LogFiles -> Seq(Event)]
    BY FileGrows
  <2>2. LoopTypeOK'
    BY <1>1, <1>3, <1>4, <2>1, StateIs DEF LoopTypeOK, TurnTask
  <2> QED BY <1>3, <1>4, <2>2 DEF Types, Alive
<1>6. OwnFile' /\ TurnIndexUnique' /\ EndsAfterStart'
  BY FilesKeep
<1>7. PreviewsAreEvident'
  BY EvidenceStays DEF PreviewsAreEvident
<1>8. IndicesBelow'
  <2>1. ASSUME NEW k \in 1..Len(disk'[current]), disk'[current][k].session = current
        PROVE  disk'[current][k].turn < turnIndex
    <3>1. CASE k \in 1..Len(disk[current]) /\ disk'[current][k] = disk[current][k]
      BY <1>2, <2>1, <3>1, CounterIsFresh
    <3>2. CASE \E a \in 1..Len(new) : disk'[current][k] = new[a]
      BY <1>2, <3>2
    <3> QED BY <3>1, <3>2, CurrentHolds
  <2> QED BY <1>3, <2>1 DEF IndicesBelow
<1>9. TaskIsOurs' /\ RunningIsOpen'
  BY <1>3 DEF TaskIsOurs, RunningIsOpen
<1>10. NothingFailed'
  <2>1. CASE run' = "exited"
    BY <2>1 DEF NothingFailed, Alive
  <2>2. CASE run' = "up"
    BY <1>1, <1>3, <1>4, <2>2 DEF NothingFailed, Ended
  <2> QED BY <1>4, <2>1, <2>2
<1>11. ShutdownEndsTurn'
  <2>1. CASE run' = "up"
    BY <2>1, NotExited
  <2>2. CASE run' = "exited"
    <3>1. stops' = 1 => stops = 0
      BY <1>4, <2>2
    <3> QED BY <3>1, ExitEnds
  <2> QED BY <1>4, <2>1, <2>2
<1>12. OthersAreKept'
  BY <1>3 DEF OthersAreKept
<1> QED BY <1>5, <1>6, <1>7, <1>8, <1>9, <1>10, <1>11, <1>12 DEF TurnsInv

\* The task answers the cancel: the loop takes its log.
LEMMA TaskAnswersKeeps == ASSUME LifecycleAssumption, TurnsInv, TaskAnswers PROVE TurnsInv'
<1>1. /\ task.st \in {"done", "failed"} /\ mem' = (IF task.st = "done" THEN task.log ELSE mem)
      /\ Resume
      /\ UNCHANGED <<current, disk, turnIndex, editIndex, configured, previews, faults>>
  BY DEF TaskAnswers
<1>2. task.st # "none" /\ Alive
  BY <1>1 DEF TurnsInv, TaskIsOurs
<1>3. <<>> \in Seq(Event) /\ Appended(<<>>) /\ Fits(<<>>) /\ \A a \in 1..Len(<<>>) : FALSE
  BY <1>1, NothingFits
<1>4. mem' \in Seq(Event) /\ faults' \in 0..MaxFaults
  BY <1>1, StateIs DEF TurnTask
<1>5. \A k \in 1..Len(mem') : mem'[k].kind = "finished" => mem'[k].turn < turnIndex
  BY <1>1, <1>2 DEF TurnsInv, IndicesBelow, TaskIsOurs
<1>6. ASSUME faults' = 0, stops = 0
      PROVE  /\ \A s \in LogFiles : \A k \in 1..Len(disk'[s]) :
                  disk'[s][k].kind = "user" \/ disk'[s][k].by = "task" =>
                    \E i \in 1..Len(disk'[s]) : /\ disk'[s][i].kind = "finished"
                                                /\ disk'[s][i].turn = disk'[s][k].turn
             /\ \A k \in 1..Len(disk'[current]) :
                  disk'[current][k].by = "task" => disk'[current][k] \in EventsOf(mem')
  <2>1. /\ task.st # "failed"
        /\ \A s \in LogFiles : \A k \in 1..Len(disk[s]) :
             disk[s][k].kind = "user" \/ disk[s][k].by = "task" =>
               \/ Ended(s, disk[s][k].turn)
               \/ s = current /\ task.st = "running" /\ task.turn = disk[s][k].turn
        /\ \A k \in 1..Len(disk[current]) :
             disk[current][k].by = "task" =>
               disk[current][k] \in EventsOf(IF task.st = "none" THEN mem ELSE task.log)
    BY <1>1, <1>2, <1>6 DEF TurnsInv, NothingFailed
  <2>2. task.st = "done" /\ mem' = task.log /\ disk' = disk
    BY <1>1, <2>1
  <2> QED BY <2>1, <2>2 DEF Ended
<1> QED BY <1>1, <1>2, <1>3, <1>4, <1>5, <1>6, ResumeKeeps

\* The grace runs out: the turn ends in the file, by the loop's hand, and the log is
\* read again from there.
LEMMA GraceExpiresKeeps == ASSUME LifecycleAssumption, TurnsInv, GraceExpires PROVE TurnsInv'
<1>1. PICK done : done = Mark("finished", task.turn, "task")
  OBVIOUS
<1>2. task.st = "running" /\ Resume
      /\ UNCHANGED <<current, turnIndex, editIndex, configured, previews>>
  BY DEF GraceExpires
<1>3. /\ task.st # "none" /\ Alive /\ task.turn < turnIndex /\ current \in LogFiles
      /\ disk[current] \in Seq(Event)
      /\ \E k \in 1..Len(disk[current]) :
           disk[current][k].kind = "user" /\ disk[current][k].turn = task.turn
      /\ \A k \in 1..Len(disk[current]) :
           disk[current][k].kind = "finished" => disk[current][k].turn # task.turn
      /\ \A k \in 1..Len(mem) : mem[k].kind = "finished" => mem[k].turn # task.turn
  BY <1>2, StateIs DEF TurnsInv, TaskIsOurs, RunningIsOpen
<1>4. ~HasFinished(mem, task.turn)
  BY <1>3 DEF HasFinished, EventsOf
<1>5. /\ done \in Event /\ done.kind = "finished" /\ done.turn = task.turn
      /\ done.session = current
  BY <1>1, StateIs, MarkIs DEF TurnTask
<1>6. <<done>> \in Seq(Event) /\ Len(<<done>>) = 1 /\ <<done>>[1] = done
  BY <1>5, OneMore
<1>7. \/ Written(<<done>>) /\ mem' = disk'[current]
      \/ Unwritten /\ mem' \in {disk[current], <<>>}
      \/ disk' = [disk EXCEPT ![current] = @ \o <<done>>] /\ mem' = <<>> /\ Fault
  BY <1>1, <1>4 DEF GraceExpires
<1>8. \A a \in 1..Len(<<done>>) : <<done>>[a] = done
  BY <1>6
<1>9. Fits(<<done>>)
  <2>1. PICK new : new = <<done>>
    OBVIOUS
  <2>2. new \in Seq(Event) /\ \A a \in 1..Len(new) : new[a] = done /\ a = 1
    BY <1>6, <2>1
  <2>3. \A a \in 1..Len(new) : /\ new[a].turn = task.turn /\ new[a].session = current
                                /\ new[a].kind \in {"step", "finished"}
    BY <1>5, <2>2
  <2>4. \A a, b \in 1..Len(new) :
          new[a].kind = "finished" /\ new[b].kind = "finished" => a = b
    BY <2>2
  <2>5. Fits(new)
    BY <1>3, <2>2, <2>3, <2>4, BatchFits
  <2> QED BY <2>1, <2>5
<1>10. \A a \in 1..Len(<<done>>) : <<done>>[a].turn = task.turn
  BY <1>5, <1>8
<1>11. \A k \in 1..Len(disk[current]) :
         disk[current][k].kind = "finished" => disk[current][k].turn < turnIndex
  BY <1>3, CounterIsFresh
<1>12. CASE Written(<<done>>) /\ mem' = disk'[current]
  <2>1. Appended(<<done>>) /\ faults' = faults
    BY <1>12 DEF Written, Appended
  <2>2. mem' \in Seq(Event) /\ faults' \in 0..MaxFaults
    <3>1. disk'[current] \in Seq(Event)
      BY <1>3, <1>6, <2>1, FileGrows
    <3> QED BY <1>12, <2>1, <3>1, StateIs
  <2>3. ASSUME NEW k \in 1..Len(mem'), mem'[k].kind = "finished"
        PROVE  mem'[k].turn < turnIndex
    <3>1. \/ k \in 1..Len(disk[current]) /\ disk'[current][k] = disk[current][k]
          \/ \E a \in 1..Len(<<done>>) : disk'[current][k] = <<done>>[a]
      BY <1>6, <1>12, <2>1, CurrentHolds
    <3>2. CASE k \in 1..Len(disk[current]) /\ disk'[current][k] = disk[current][k]
      BY <1>11, <1>12, <2>3, <3>2
    <3>3. CASE \E a \in 1..Len(<<done>>) : disk'[current][k] = <<done>>[a]
      BY <1>3, <1>10, <1>12, <3>3
    <3> QED BY <3>1, <3>2, <3>3
  <2>4. ASSUME faults' = 0, stops = 0, NEW s \in LogFiles, NEW k \in 1..Len(disk'[s]),
               disk'[s][k].kind = "user" \/ disk'[s][k].by = "task"
        PROVE  \E i \in 1..Len(disk'[s]) : /\ disk'[s][i].kind = "finished"
                                           /\ disk'[s][i].turn = disk'[s][k].turn
    <3>1. PICK i \in 1..Len(disk'[current]) : disk'[current][i] = done
      <4>1. 1 \in 1..Len(<<done>>)
        BY <1>6
      <4> QED BY <1>6, <2>1, <4>1, FileGrows
    <3>2. CASE s = current /\ disk'[s][k].turn = task.turn
      <4>1. disk'[current][i].kind = "finished" /\ disk'[current][i].turn = task.turn
        BY <1>5, <3>1
      <4> QED BY <3>2, <4>1
    <3>3. CASE k \in 1..Len(disk[s]) /\ disk'[s][k] = disk[s][k]
      <4>1. Ended(s, disk[s][k].turn) \/ (s = current /\ task.turn = disk[s][k].turn)
        BY <1>3, <2>1, <2>4, <3>3 DEF TurnsInv, NothingFailed
      <4>2. CASE Ended(s, disk[s][k].turn)
        BY <1>6, <2>1, <3>3, <4>2, EndedStays
      <4> QED BY <3>2, <3>3, <4>1, <4>2
    <3>4. CASE s = current /\ \E a \in 1..Len(<<done>>) :
                 k = Len(disk[current]) + a /\ disk'[s][k] = <<done>>[a]
      BY <1>10, <3>2, <3>4
    <3>5. \/ k \in 1..Len(disk[s]) /\ disk'[s][k] = disk[s][k]
          \/ s = current /\ \E a \in 1..Len(<<done>>) :
               k = Len(disk[current]) + a /\ disk'[s][k] = <<done>>[a]
      BY <1>6, <2>1, FileHolds
    <3> QED BY <3>3, <3>4, <3>5
  <2>5. \A k \in 1..Len(disk'[current]) : disk'[current][k] \in EventsOf(mem')
    BY <1>12 DEF EventsOf
  <2> QED BY <1>2, <1>3, <1>6, <1>9, <1>10, <2>1, <2>2, <2>3, <2>4, <2>5, ResumeKeeps
<1>13. CASE Unwritten /\ mem' \in {disk[current], <<>>}
  <2>1. disk' = disk /\ faults' \in 0..MaxFaults /\ faults' # 0
    BY <1>13, FaultCounts DEF Unwritten
  <2>2. mem' \in Seq(Event)
        /\ \A k \in 1..Len(mem') : mem'[k].kind = "finished" => mem'[k].turn < turnIndex
    <3>1. CASE mem' = disk[current]
      BY <1>3, <1>11, <3>1
    <3>2. CASE mem' = <<>>
      BY <3>2
    <3> QED BY <1>13, <3>1, <3>2
  <2>3. <<>> \in Seq(Event) /\ Appended(<<>>) /\ Fits(<<>>) /\ \A a \in 1..Len(<<>>) : FALSE
    BY <2>1, NothingFits
  <2> QED BY <1>2, <1>3, <2>1, <2>2, <2>3, ResumeKeeps
<1>14. CASE disk' = [disk EXCEPT ![current] = @ \o <<done>>] /\ mem' = <<>> /\ Fault
  <2>1. Appended(<<done>>) /\ faults' \in 0..MaxFaults /\ faults' # 0
    BY <1>14, FaultCounts DEF Appended
  <2>2. mem' \in Seq(Event) /\ \A k \in 1..Len(mem') : FALSE
    BY <1>14
  <2> QED BY <1>2, <1>3, <1>6, <1>9, <1>10, <2>1, <2>2, ResumeKeeps
<1> QED BY <1>7, <1>12, <1>13, <1>14

\* The process dies: what is left is the files.
LEMMA CrashKeeps == ASSUME LifecycleAssumption, TurnsInv, Crash PROVE TurnsInv'
<1>1. /\ stops < MaxStops /\ run' = "crashed" /\ stops' = stops + 1 /\ loop' = "select"
      /\ task' = NoTask /\ mem' = <<>> /\ previews' = {}
      /\ turnIndex' = 0 /\ editIndex' = 0 /\ configured' = FALSE
      /\ UNCHANGED <<current, disk, faults>>
  BY DEF Crash
<1>2. /\ task' \in TurnTask /\ task'.st = "none" /\ ~Alive' /\ 0 \in Indices
  BY <1>1, NoTaskIs DEF Alive, LifecycleAssumption, Indices
<1>3. stops' \in 0..MaxStops /\ stops' # 0 /\ <<>> \in Seq(Event)
  BY <1>1, StateIs DEF LifecycleAssumption
<1>4. Types'
  <2>1. LoopTypeOK'
    BY <1>1, <1>2, <1>3, StateIs DEF LoopTypeOK, TurnTask
  <2> QED BY <1>1, <1>2, <1>3, <2>1 DEF Types
<1>5. OwnFile' /\ TurnIndexUnique' /\ EndsAfterStart' /\ PreviewsAreEvident'
  BY <1>1 DEF TurnsInv, OwnFile, TurnIndexUnique, EndsAfterStart, PreviewsAreEvident
<1>6. IndicesBelow' /\ TaskIsOurs' /\ RunningIsOpen' /\ NothingFailed' /\ OthersAreKept'
  BY <1>2 DEF IndicesBelow, TaskIsOurs, RunningIsOpen, NothingFailed, OthersAreKept
<1>7. ShutdownEndsTurn'
  BY <1>1, NotExited
<1> QED BY <1>4, <1>5, <1>6, <1>7 DEF TurnsInv

\* A log is adopted, by a loop that holds no turn: the counter read back from the
\* file is above all its indices.
LEMMA AdoptKeeps ==
    ASSUME LifecycleAssumption, TurnsInv, NEW s \in LogFiles, Adopt(s),
           run' = "up", task' \in TurnTask, task'.st = "none", disk' = disk,
           loop' \in {"select", "handling", "grace"},
           previews' \subseteq previews, configured' \in BOOLEAN,
           UNCHANGED <<faults, stops>>,
           faults = 0 /\ stops = 0 =>
             /\ loop' # "handling" /\ task'.pending = <<>>
             /\ \A f \in LogFiles : \A k \in 1..Len(disk[f]) :
                  disk[f][k].kind = "user" \/ disk[f][k].by = "task" =>
                    Ended(f, disk[f][k].turn)
    PROVE  TurnsInv'
<1>1. /\ current' = s /\ mem' = disk[s] /\ turnIndex' = NextTurnIndex(disk[s])
      /\ editIndex' = turnIndex' /\ turnIndex' <= MaxIndex /\ disk[s] \in Seq(Event)
  BY StateIs DEF Adopt
<1>2. /\ turnIndex' \in Nat
      /\ \A k \in 1..Len(disk[s]) : disk[s][k].turn < turnIndex'
  BY <1>1, NextIsAbove
<1>3. turnIndex' \in Indices
  BY <1>1, <1>2 DEF Indices, LifecycleAssumption
<1>4. Alive'
  BY DEF Alive
<1>5. Types'
  <2>1. LoopTypeOK'
    BY <1>1, <1>3, <1>4, StateIs DEF LoopTypeOK, TurnTask
  <2> QED BY <1>4, <2>1 DEF Types
<1>6. OwnFile' /\ TurnIndexUnique' /\ EndsAfterStart' /\ PreviewsAreEvident'
  <2>1. OwnFile' /\ TurnIndexUnique'
    BY DEF TurnsInv, OwnFile, TurnIndexUnique
  <2>2. EndsAfterStart'
    BY DEF TurnsInv, EndsAfterStart
  <2>3. PreviewsAreEvident'
    BY DEF TurnsInv, PreviewsAreEvident
  <2> QED BY <2>1, <2>2, <2>3
<1>7. IndicesBelow'
  BY <1>1, <1>2 DEF IndicesBelow
<1>8. TaskIsOurs' /\ RunningIsOpen' /\ OthersAreKept'
  BY DEF TaskIsOurs, RunningIsOpen, OthersAreKept
<1>9. NothingFailed'
  <2>1. \A k \in 1..Len(disk[s]) : disk[s][k] \in EventsOf(disk[s])
    BY DEF EventsOf
  <2> QED BY <1>1, <1>4, <2>1 DEF NothingFailed, Ended
<1>10. ShutdownEndsTurn'
  BY NotExited
<1> QED BY <1>5, <1>6, <1>7, <1>8, <1>9, <1>10 DEF TurnsInv

\* The process comes back; something has stopped by then.
LEMMA RestartKeeps == ASSUME LifecycleAssumption, TurnsInv, Restart, ~blind' PROVE TurnsInv'
<1>2. PICK s \in LogFiles : Adopt(s) /\ UNCHANGED <<faults, blind>>
  BY DEF Restart, AdoptUnread
<1>1. /\ ~Alive /\ run' = "up" /\ configured' \in BOOLEAN /\ previews' = {}
      /\ UNCHANGED <<disk, task, loop, faults, stops>>
  BY <1>2 DEF Restart
<1>3. stops # 0 /\ task.st = "none"
  BY <1>1, StateIs DEF TurnsInv, TaskIsOurs
<1> QED BY <1>1, <1>2, <1>3, StateIs, AdoptKeeps

\* Another session is selected, or cannot be loaded.
LEMMA SwitchSessionKeeps ==
    ASSUME LifecycleAssumption, TurnsInv, NEW s \in LogFiles, SwitchSession(s)
    PROVE  TurnsInv'
<1>1. /\ Handles /\ loop' = "select" /\ Found.task.st = "none" /\ task' = NoTask
      /\ \/ Adopt(s) /\ faults' = faults
         \/ Fault /\ mem' = Found.mem /\ UNCHANGED <<current, turnIndex, editIndex>>
      /\ UNCHANGED <<run, disk, configured, previews, stops>>
  BY DEF SwitchSession, Returns
<1>2. run' = "up" /\ NoTask \in TurnTask /\ NoTask.st = "none" /\ NoTask.pending = <<>>
  BY <1>1, NoTaskIs DEF Handles
<1>3. CASE Adopt(s) /\ faults' = faults
  <2>1. faults = 0 /\ stops = 0 =>
          \A f \in LogFiles : \A k \in 1..Len(disk[f]) :
            disk[f][k].kind = "user" \/ disk[f][k].by = "task" => Ended(f, disk[f][k].turn)
    BY <1>1, FoundIs
  <2>2. configured' \in BOOLEAN /\ previews' \subseteq previews
    BY <1>1, StateIs
  <2> QED BY <1>1, <1>2, <1>3, <2>1, <2>2, AdoptKeeps
<1>4. CASE Fault /\ mem' = Found.mem /\ UNCHANGED <<current, turnIndex, editIndex>>
  <2>1. ~Busy(Found.task) /\ faults' \in 0..MaxFaults /\ faults <= faults'
    BY <1>1, <1>4, FaultCounts DEF Busy
  <2>2. turnIndex \in Indices /\ turnIndex <= turnIndex
    BY StateIs DEF LifecycleAssumption, Indices
  <2> QED BY <1>1, <1>4, <2>1, <2>2, StateIs, QuietKeeps
<1> QED BY <1>1, <1>3, <1>4

-----------------------------------------------------------------------------
(***************************************************************************)
(* The invariant and the theorems.                                         *)
(***************************************************************************)

\* An empty sessions directory satisfies the invariant.
LEMMA TurnsStart == ASSUME LifecycleAssumption, TurnsInit PROVE TurnsInv
<1>1. /\ run = "up" /\ loop = "select" /\ current \in LogFiles
      /\ disk = [s \in LogFiles |-> <<>>] /\ mem = <<>> /\ turnIndex = 0 /\ editIndex = 0
      /\ configured \in BOOLEAN /\ task = NoTask /\ previews = {} /\ faults = 0 /\ stops = 0
  BY DEF TurnsInit
<1>2. NoTask \in TurnTask /\ NoTask.st = "none" /\ NoTask.pending = <<>>
  BY NoTaskIs
<1>3. \A s \in LogFiles : disk[s] = <<>> /\ Len(disk[s]) = 0
  BY <1>1
<1>4. Types
  <2>1. 0 \in Indices /\ 0 \in 0..MaxFaults /\ 0 \in 0..MaxStops /\ <<>> \in Seq(Event)
    BY DEF LifecycleAssumption, Indices
  <2>2. disk \in [LogFiles -> Seq(Event)]
    BY <1>1, <2>1
  <2>3. LoopTypeOK
    BY <1>1, <1>2, <2>1, <2>2 DEF LoopTypeOK, TurnTask
  <2> QED BY <1>1, <1>2, <2>3 DEF Types, Alive
<1>5. /\ OwnFile /\ TurnIndexUnique /\ EndsAfterStart
  BY <1>3 DEF OwnFile, TurnIndexUnique, EndsAfterStart
<1>6. IndicesBelow
  BY <1>1, <1>3 DEF IndicesBelow
<1>7. TaskIsOurs /\ RunningIsOpen /\ OthersAreKept
  BY <1>1, <1>2 DEF TaskIsOurs, RunningIsOpen, OthersAreKept
<1>8. PreviewsAreEvident /\ ShutdownEndsTurn
  BY <1>1 DEF PreviewsAreEvident, ShutdownEndsTurn
<1>9. NothingFailed
  BY <1>1, <1>2, <1>3 DEF NothingFailed
<1> QED BY <1>4, <1>5, <1>6, <1>7, <1>8, <1>9 DEF TurnsInv

\* Nothing moves, nothing breaks.
LEMMA TurnsStutter == ASSUME TurnsInv, UNCHANGED turnsVars PROVE TurnsInv'
<1>1. UNCHANGED <<run, current, disk, mem, turnIndex, editIndex, configured, task, loop,
                  previews, faults, stops>>
  BY DEF turnsVars
<1>2. Types'
  BY <1>1 DEF TurnsInv, Types, LoopTypeOK, Alive
<1>3. /\ OwnFile' /\ TurnIndexUnique' /\ EndsAfterStart' /\ PreviewsAreEvident'
  BY <1>1 DEF TurnsInv, OwnFile, TurnIndexUnique, EndsAfterStart, PreviewsAreEvident
<1>4. /\ IndicesBelow' /\ TaskIsOurs' /\ RunningIsOpen'
  BY <1>1 DEF TurnsInv, IndicesBelow, TaskIsOurs, RunningIsOpen, Alive
<1>5. NothingFailed' /\ OthersAreKept'
  BY <1>1 DEF TurnsInv, NothingFailed, OthersAreKept, Ended, Alive
<1>6. ShutdownEndsTurn'
  BY <1>1 DEF TurnsInv, ShutdownEndsTurn, Finishes
<1> QED BY <1>2, <1>3, <1>4, <1>5, <1>6 DEF TurnsInv

\* Every step keeps the invariant, while every log that was opened could be read.
LEMMA TurnsStep == ASSUME LifecycleAssumption, TurnsInv, TurnsNext, ~blind' PROVE TurnsInv'
<1>1. CASE \E s \in LogFiles : RefusePrompt(s) \/ SwitchSession(s)
  BY <1>1, RefusePromptKeeps, SwitchSessionKeeps
<1>2. CASE \E p \in previews : DecideEdit(p)
  BY <1>2, DecideEditKeeps
<1>3. CASE OtherEvent \/ StartTurn \/ DirectPrompt \/ ProviderChanges
  BY <1>3, OtherEventKeeps, StartTurnKeeps, DirectPromptKeeps, ProviderChangesKeeps
<1>4. CASE TaskStep \/ TaskFinishes \/ TaskReturns \/ TaskReturnsLate \/ TaskPanics
  BY <1>4, TaskStepKeeps, TaskFinishesKeeps, TaskReturnsKeeps, TaskReturnsLateKeeps,
     TaskPanicsKeeps
<1>5. CASE CancelPrompt \/ CloseClient \/ TaskAnswers \/ GraceExpires
  BY <1>5, CancelPromptKeeps, CloseClientKeeps, TaskAnswersKeeps, GraceExpiresKeeps
<1>6. CASE Crash \/ Restart \/ CompactSession \/ PrepareEdit
  BY <1>6, CrashKeeps, RestartKeeps, CompactSessionKeeps, PrepareEditKeeps
<1> QED BY <1>1, <1>2, <1>3, <1>4, <1>5, <1>6 DEF TurnsNext

\* A process that started on a log it could not read has met a fault.
Unread == blind = TRUE /\ faults \in Nat \ {0}

\* The ghost is set once and for all.
LEMMA BlindMoves == ASSUME [TurnsNext]_turnsVars PROVE blind' = blind \/ blind' = TRUE
<1>1. CASE UNCHANGED turnsVars
  BY <1>1 DEF turnsVars
<1>2. CASE \E s \in LogFiles : RefusePrompt(s) \/ SwitchSession(s)
  BY <1>2 DEF RefusePrompt, SwitchSession
<1>3. CASE \E p \in previews : DecideEdit(p)
  BY <1>3 DEF DecideEdit
<1>4. CASE OtherEvent \/ StartTurn \/ DirectPrompt \/ ProviderChanges
  BY <1>4 DEF OtherEvent, StartTurn, DirectPrompt, ProviderChanges
<1>5. CASE TaskStep \/ TaskFinishes \/ TaskReturns \/ TaskReturnsLate \/ TaskPanics
  BY <1>5 DEF TaskStep, TaskFinishes, TaskReturns, TaskReturnsLate, TaskPanics, Ends
<1>6. CASE CancelPrompt \/ CloseClient \/ TaskAnswers \/ GraceExpires
  BY <1>6 DEF CancelPrompt, CloseClient, TaskAnswers, GraceExpires, Resume
<1>7. CASE Crash \/ Restart \/ CompactSession \/ PrepareEdit
  BY <1>7 DEF Crash, Restart, AdoptUnread, CompactSession, PrepareEdit
<1> QED BY <1>1, <1>2, <1>3, <1>4, <1>5, <1>6, <1>7 DEF TurnsNext

\* A fault that was met stays met.
LEMMA UnreadStays == ASSUME Unread, [TurnsNext]_turnsVars PROVE Unread'
<1>1. faults' = faults \/ Fault
  <2>1. CASE UNCHANGED turnsVars
    BY <2>1 DEF turnsVars
  <2>2. CASE \E s \in LogFiles : RefusePrompt(s) \/ SwitchSession(s)
    BY <2>2 DEF RefusePrompt, SwitchSession
  <2>3. CASE \E p \in previews : DecideEdit(p)
    BY <2>3 DEF DecideEdit, Written, Unwritten
  <2>4. CASE OtherEvent \/ StartTurn \/ DirectPrompt \/ ProviderChanges
    BY <2>4 DEF OtherEvent, StartTurn, DirectPrompt, ProviderChanges, Written, Unwritten
  <2>5. CASE TaskStep \/ TaskFinishes \/ TaskReturns \/ TaskReturnsLate \/ TaskPanics
    BY <2>5 DEF TaskStep, TaskFinishes, TaskReturns, TaskReturnsLate, TaskPanics, Written,
                Unwritten
  <2>6. CASE CancelPrompt \/ CloseClient \/ TaskAnswers \/ GraceExpires
    BY <2>6 DEF CancelPrompt, CloseClient, TaskAnswers, GraceExpires, Written, Unwritten
  <2>7. CASE Crash \/ Restart \/ CompactSession \/ PrepareEdit
    BY <2>7 DEF Crash, Restart, AdoptUnread, CompactSession, PrepareEdit, Written, Unwritten
  <2> QED BY <2>1, <2>2, <2>3, <2>4, <2>5, <2>6, <2>7 DEF TurnsNext
<1>2. blind' = blind \/ blind' = TRUE
  BY BlindMoves
<1>3. /\ blind = TRUE /\ faults \in Nat /\ faults # 0
  BY DEF Unread
<1>4. faults' \in Nat \ {0}
  BY <1>1, <1>3 DEF Fault
<1> QED BY <1>2, <1>3, <1>4 DEF Unread

\* The step that cannot read the log counts as a fault.
LEMMA UnreadStarts ==
    ASSUME LifecycleAssumption, TurnsInv, TurnsNext, ~blind, blind'
    PROVE  Unread'
<1>1. CASE Restart
  <2>1. Fault /\ blind' = TRUE
    BY <1>1 DEF Restart, AdoptUnread
  <2> QED BY <2>1, FaultCounts DEF Unread, LifecycleAssumption
<1>2. CASE ~Restart
  <2>1. CASE \E s \in LogFiles : RefusePrompt(s) \/ SwitchSession(s)
    BY <2>1 DEF RefusePrompt, SwitchSession
  <2>2. CASE \E p \in previews : DecideEdit(p)
    BY <2>2 DEF DecideEdit
  <2>3. CASE OtherEvent \/ StartTurn \/ DirectPrompt \/ ProviderChanges
    BY <2>3 DEF OtherEvent, StartTurn, DirectPrompt, ProviderChanges
  <2>4. CASE TaskStep \/ TaskFinishes \/ TaskReturns \/ TaskReturnsLate \/ TaskPanics
    BY <2>4 DEF TaskStep, TaskFinishes, TaskReturns, TaskReturnsLate, TaskPanics, Ends
  <2>5. CASE CancelPrompt \/ CloseClient \/ TaskAnswers \/ GraceExpires
    BY <2>5 DEF CancelPrompt, CloseClient, TaskAnswers, GraceExpires, Resume
  <2>6. CASE Crash \/ CompactSession \/ PrepareEdit
    BY <2>6 DEF Crash, CompactSession, PrepareEdit
  <2> QED BY <1>2, <2>1, <2>2, <2>3, <2>4, <2>5, <2>6 DEF TurnsNext
<1> QED BY <1>1, <1>2

\* The invariant holds in every state of the loop, until a log could not be read.
TurnsKnown == Unread \/ (blind = FALSE /\ TurnsInv)

LEMMA TurnsHold == TurnsSpec => []TurnsKnown
<1>1. TurnsInit => TurnsKnown
  BY LifecycleAssumption, TurnsStart DEF TurnsInit, TurnsKnown
<1>2. TurnsKnown /\ [TurnsNext]_turnsVars => TurnsKnown'
  <2> SUFFICES ASSUME TurnsKnown, [TurnsNext]_turnsVars PROVE TurnsKnown'
    OBVIOUS
  <2>1. CASE Unread
    BY <2>1, UnreadStays DEF TurnsKnown
  <2>2. CASE blind = FALSE /\ TurnsInv /\ UNCHANGED turnsVars
    BY <2>2, TurnsStutter DEF TurnsKnown, turnsVars
  <2>3. CASE blind = FALSE /\ TurnsInv /\ TurnsNext /\ ~blind'
    <3>1. TurnsInv' /\ blind' = FALSE
      BY <2>3, LifecycleAssumption, TurnsStep, BlindMoves
    <3> QED BY <3>1 DEF TurnsKnown
  <2>4. CASE blind = FALSE /\ TurnsInv /\ TurnsNext /\ blind'
    BY <2>4, LifecycleAssumption, UnreadStarts DEF TurnsKnown
  <2> QED BY <2>1, <2>2, <2>3, <2>4 DEF TurnsKnown
<1> QED BY <1>1, <1>2, PTL DEF TurnsSpec

\* The invariant keeps the turns of a file apart.
LEMMA ApartByInv == ASSUME TurnsInv PROVE TurnsStayApart
<1>1. TurnIndexUnique /\ EndsAfterStart
  BY DEF TurnsInv
<1>2. ASSUME NEW s \in LogFiles, NEW t \in Indices
      PROVE  /\ Cardinality(Finishes(s, t)) <= 1
             /\ (faults = 0 /\ Finishes(s, t) # {}) =>
                  \E i \in Starts(s, t) : \A j \in Finishes(s, t) : i < j
  <2>1. CASE Finishes(s, t) = {}
    <3>1. Cardinality({}) = 0
      BY FS_EmptySet
    <3> QED BY <2>1, <3>1
  <2>2. CASE Finishes(s, t) # {}
    <3>1. PICK j \in Finishes(s, t) : TRUE
      BY <2>2
    <3>2. j \in 1..Len(disk[s]) /\ disk[s][j].kind = "finished" /\ disk[s][j].turn = t
      BY <3>1 DEF Finishes
    <3>3. ASSUME NEW i \in Finishes(s, t) PROVE i = j
      <4>1. i \in 1..Len(disk[s]) /\ disk[s][i].kind = "finished" /\ disk[s][i].turn = t
        BY <3>3 DEF Finishes
      <4> QED BY <1>1, <3>2, <4>1 DEF EndsAfterStart
    <3>4. Finishes(s, t) = {j}
      BY <3>1, <3>3
    <3>5. Cardinality({j}) = 1
      BY FS_Singleton
    <3>6. PICK i \in 1..Len(disk[s]) : i < j /\ disk[s][i].kind = "user" /\ disk[s][i].turn = t
      BY <1>1, <3>2 DEF EndsAfterStart
    <3>7. i \in Starts(s, t)
      BY <3>6 DEF Starts
    <3> QED BY <3>4, <3>5, <3>6, <3>7
  <2> QED BY <2>1, <2>2
<1>3. TurnEndsOnce
  BY <1>2 DEF TurnEndsOnce
<1> QED BY <1>1, <1>3 DEF TurnsStayApart

\* The invariant keeps every turn with the loop.
LEMMA KeptByInv == ASSUME TurnsInv PROVE LoopKeepsTurns
<1> SUFFICES ASSUME run = "up", faults = 0, stops = 0, NEW k \in 1..Len(disk[current]),
                    disk[current][k].by = "task",
                    ~(task.st # "none" /\ task.turn = disk[current][k].turn)
             PROVE  /\ Finishes(current, disk[current][k].turn) # {}
                    /\ disk[current][k] \in EventsOf(mem)
  BY DEF LoopKeepsTurns, EventsOf
<1>1. Alive /\ current \in LogFiles
  BY StateIs DEF Alive
<1>2. Ended(current, disk[current][k].turn)
  BY <1>1 DEF TurnsInv, NothingFailed
<1>3. Finishes(current, disk[current][k].turn) # {}
  BY <1>2 DEF Ended, Finishes
<1>4. CASE task.st = "none"
  <2>1. disk[current][k] \in EventsOf(IF task.st = "none" THEN mem ELSE task.log)
    BY <1>1 DEF TurnsInv, NothingFailed
  <2> QED BY <1>3, <1>4, <2>1
<1>5. CASE task.st # "none"
  <2>1. disk[current][k] \in EventsOf(mem)
    BY <1>1, <1>5 DEF TurnsInv, OthersAreKept
  <2> QED BY <1>3, <2>1
<1> QED BY <1>4, <1>5

\* A turn of a session file is one prompt's and ends once, after it began, for any
\* number of files, turns, failed writes, panics, crashes and restarts, until a
\* process starts on a log it cannot read
\* (run_native_backend_loop, cancel_active_provider_turn, switch_native_session).
THEOREM TurnsAreApart == TurnsSpec => []TurnsStayApart
<1>1. TurnsKnown => TurnsStayApart
  BY ApartByInv DEF TurnsKnown, Unread, TurnsStayApart
<1> QED BY <1>1, TurnsHold, PTL

\* While nothing fails the loop forgets no turn: each has ended, and its record is in
\* the log the next prompt is built from, or the loop holds it
\* (collect_finished_provider_turn).
THEOREM NoTurnIsForgotten == TurnsSpec => []LoopKeepsTurns
<1>1. TurnsKnown => LoopKeepsTurns
  BY KeptByInv DEF TurnsKnown, Unread, LoopKeepsTurns
<1> QED BY <1>1, TurnsHold, PTL

\* After a clean exit every turn of every session file has ended (runner.rs:1505).
THEOREM ExitLeavesNoneOpen == TurnsSpec => []ShutdownEndsTurn
<1>1. TurnsKnown => ShutdownEndsTurn
  BY DEF TurnsInv, TurnsKnown, Unread, ShutdownEndsTurn
<1> QED BY <1>1, TurnsHold, PTL

-----------------------------------------------------------------------------
(***************************************************************************)
(* Machine-checked theorems about ModelActivation, for every value of its  *)
(* constants that satisfies ConstantsAssumption.                           *)
(***************************************************************************)

\* None is an Option of any set, and the Option of a larger set has more.
LEMMA OptionNone ==
    ASSUME NEW S
    PROVE  {} \in Option(S)
  BY DEF Option

\* Some(x) is an Option of S for x in S.
LEMMA OptionSome ==
    ASSUME NEW S, NEW x \in S
    PROVE  {x} \in Option(S)
  BY DEF Option

\* Filtering an Option leaves an Option.
LEMMA OptionSubset ==
    ASSUME NEW S, NEW o \in Option(S), NEW p \in SUBSET o
    PROVE  p \in Option(S)
  BY DEF Option

\* The members of an Option of S are in S, and there is at most one.
LEMMA OptionMember ==
    ASSUME NEW S, NEW o \in Option(S), NEW x \in o
    PROVE  x \in S /\ o = {x}
  BY DEF Option

\* ModelActivationFinished verdicts stay within their type.
LEMMA ReplyType ==
    ASSUME TypeOK, NEW reqs, NEW v \in {"activated", "failed"},
           Reply(reqs, v)
    PROVE  replies' \in [Requests -> {"none", "activated", "failed", "twice"}]
  BY DEF TypeOK, Reply

\* schedule_model_activation keeps the generation, the record and the tasks
\* well typed.
LEMMA ScheduleType ==
    ASSUME TypeOK, NEW t \in Target, NEW req \in Option(Requests),
           NEW persist \in BOOLEAN, Schedule(t, req, persist)
    PROVE  /\ actGen' \in 0..MaxGen
           /\ inFlight' \in Option(Activation)
           /\ actTasks' \subseteq ActTask
  <1>1. actGen + 1 \in 1..MaxGen
    BY ConstantsAssumption DEF TypeOK, Schedule
  <1>2. [gen |-> actGen + 1, req |-> req, target |-> t, persist |-> persist]
          \in Activation
    BY <1>1 DEF Activation
  <1>3. [gen |-> actGen + 1, target |-> t, stage |-> "reading"] \in ActTask
    BY <1>1 DEF ActTask
  <1>4. actGen' \in 0..MaxGen
    BY <1>1 DEF Schedule
  <1>5. inFlight' \in Option(Activation)
    BY <1>2, OptionSome DEF Schedule
  <1>6. actTasks' \subseteq ActTask
    BY <1>3 DEF Schedule, TypeOK
  <1> QED
    BY <1>4, <1>5, <1>6

\* A resolution names a target or none.
LEMMA ResolutionType ==
    ASSUME TypeOK, NEW s \in Sessions, NEW res \in Resolutions(s)
    PROVE  res.target \in Option(Target)
  <1>1. CASE logTarget[s] # {}
    BY <1>1 DEF TypeOK, Resolutions
  <1>2. CASE logTarget[s] = {}
    <2>1. CASE \E u \in Target : res = [ok |-> TRUE, target |-> {u}]
      BY <2>1, OptionSome
    <2>2. CASE ~\E u \in Target : res = [ok |-> TRUE, target |-> {u}]
      <3>1. res.target = {}
        BY <1>2, <2>2 DEF Resolutions
      <3> QED
        BY <3>1, OptionNone
    <2> QED
      BY <2>1, <2>2
  <1> QED
    BY <1>1, <1>2

\* Appending SessionModelChanged keeps the logs well typed.
LEMMA RecordType ==
    ASSUME TypeOK, NEW s \in Sessions, NEW t \in Target, Record(s, t)
    PROVE  logTarget' \in [Sessions -> Option(Target)]
  BY OptionSome DEF TypeOK, Record

-----------------------------------------------------------------------------
(***************************************************************************)
(* Every handler and task step preserves TypeOK.                           *)
(***************************************************************************)

\* Startup states are well typed.
LEMMA InitType == Init => TypeOK
  <1> SUFFICES ASSUME Init PROVE TypeOK
    OBVIOUS
  <1>1. provider \in Option(Target)
    <2>1. {t \in Target : t.conn \in registry \cup Environment} \subseteq Target
      OBVIOUS
    <2> QED
      BY <2>1 DEF Init, Option
  <1>2. asked \in [Requests -> Option(Target)]
    BY OptionNone DEF Init
  <1>3. actGen \in 0..MaxGen /\ mutCount \in 0..MaxMutations
    BY ConstantsAssumption DEF Init
  <1> QED
    BY <1>1, <1>2, <1>3, OptionNone DEF Init, TypeOK

\* FirstRenderCompleted.
LEMMA FirstRenderType ==
    ASSUME TypeOK, FirstRender
    PROVE  TypeOK'
  <1> DEFINE Restored ==
        /\ provider' \in Option(Target) /\ flowActive' \in Option(Target)
        /\ setupError' \in BOOLEAN
        /\ logTarget' \in [Sessions -> Option(Target)]
        /\ actGen' \in 0..MaxGen /\ inFlight' \in Option(Activation)
        /\ actTasks' \subseteq ActTask
  <1>1. Restored
    <2>1. CASE ~hasRuntime
      BY <2>1 DEF FirstRender, TypeOK, actVars
    <2>2. CASE hasRuntime
      <3>1. PICK res \in Resolutions(session) :
              LET wanted == IF res.ok /\ res.target = {} THEN provider
                                                         ELSE res.target
              IN  \/ wanted = {} /\ NothingToRestore(res.ok)
                  \/ \E t \in wanted :
                       IF provider = {t} THEN KeepActive(t)
                                         ELSE ActivateRestored(t)
        BY <2>2 DEF FirstRender
      <3>2. res.target \in Option(Target)
        BY ResolutionType DEF TypeOK
      <3>3. CASE NothingToRestore(res.ok)
        BY <3>3, OptionNone DEF NothingToRestore, TypeOK, actVars
      <3>4. ASSUME NEW t \in Target, KeepActive(t)
            PROVE  Restored
        BY <3>4, OptionNone, OptionSome, RecordType
           DEF KeepActive, TypeOK, actVars
      <3>5. ASSUME NEW t \in Target, ActivateRestored(t)
            PROVE  Restored
        <4>1. (logTarget[session] = {}) \in BOOLEAN
          OBVIOUS
        <4> QED
          BY <3>5, <4>1, OptionNone, ScheduleType
             DEF ActivateRestored, TypeOK
      <3>6. \A t \in (IF res.ok /\ res.target = {} THEN provider
                      ELSE res.target) : t \in Target
        BY <3>2, OptionMember DEF TypeOK
      <3> QED
        BY <3>1, <3>3, <3>4, <3>5, <3>6
    <2> QED
      BY <2>1, <2>2
  <1> QED
    BY <1>1 DEF FirstRender, flowVars, NoReply, TypeOK

\* SessionSelected and SessionPathSelected.
LEMMA SelectSessionType ==
    ASSUME TypeOK, NEW s \in Sessions, SelectSession(s)
    PROVE  TypeOK'
  <1> DEFINE Activations ==
        /\ actGen' \in 0..MaxGen /\ inFlight' \in Option(Activation)
        /\ actTasks' \subseteq ActTask
  <1> DEFINE Restored ==
        /\ provider' \in Option(Target) /\ flowActive' \in Option(Target)
        /\ setupError' \in BOOLEAN
        /\ logTarget' \in [Sessions -> Option(Target)]
        /\ Activations
  <1>1. ASSUME hasRuntime PROVE Restored
    <2>1. PICK res \in Resolutions(s) : RestoreSelected(s, res)
      BY <1>1 DEF SelectSession
    <2>2. res.target \in Option(Target)
      BY ResolutionType
    <2> DEFINE wanted == IF res.ok /\ res.target = {} THEN provider
                                                      ELSE res.target
    <2>3. \A t \in wanted : t \in Target
      BY <2>2, OptionMember DEF TypeOK
    <2>4. /\ provider' = {} /\ flowActive' = {} /\ setupError' = (wanted = {})
          /\ logTarget' = logTarget
          /\ \/ UNCHANGED actVars
             \/ \E t \in wanted : Schedule(t, {}, logTarget[s] = {})
      BY <2>1 DEF RestoreSelected
    <2>5. Activations
      <3>1. CASE UNCHANGED actVars
        BY <3>1 DEF actVars, TypeOK
      <3>2. ASSUME NEW t \in wanted, Schedule(t, {}, logTarget[s] = {})
            PROVE  Activations
        <4>1. (logTarget[s] = {}) \in BOOLEAN /\ {} \in Option(Requests)
          BY OptionNone
        <4> QED
          BY <2>3, <3>2, <4>1, ScheduleType
      <3> QED
        BY <2>4, <3>1, <3>2
    <2> QED
      BY <2>4, <2>5, OptionNone DEF TypeOK
  <1>2. ASSUME ~hasRuntime PROVE Restored
    <2>1. RecordSelected(s)
      BY <1>2 DEF SelectSession
    <2>2. \A t \in provider : t \in Target
      BY OptionMember DEF TypeOK
    <2> QED
      BY <2>1, <2>2, OptionNone, RecordType
         DEF RecordSelected, TypeOK, actVars
  <1>3. Restored
    BY <1>1, <1>2
  <1> QED
    BY <1>3 DEF SelectSession, TypeOK, flowVars, NoReply

\* ModelActivationRequested.
LEMMA RequestActivationType ==
    ASSUME TypeOK, NEW r \in Requests, NEW t \in Target,
           RequestActivation(r, t)
    PROVE  TypeOK'
  <1> DEFINE Answered ==
        /\ provider' \in Option(Target)
        /\ logTarget' \in [Sessions -> Option(Target)]
        /\ actGen' \in 0..MaxGen /\ inFlight' \in Option(Activation)
        /\ actTasks' \subseteq ActTask
        /\ replies' \in [Requests -> {"none", "activated", "failed", "twice"}]
  <1>1. ASSUME RequestRefused(r, t) PROVE Answered
    <2>1. replies' \in [Requests -> {"none", "activated", "failed", "twice"}]
      BY <1>1, ReplyType DEF RequestRefused
    <2> QED
      BY <1>1, <2>1 DEF RequestRefused, TypeOK, actVars
  <1>2. ASSUME RequestAccepted(r, t) PROVE Answered
    <2>1. Schedule(t, {r}, TRUE) /\ {r} \in Option(Requests)
      BY <1>2, OptionSome DEF RequestAccepted
    <2> QED
      BY <1>2, <2>1, ScheduleType DEF RequestAccepted, NoReply, TypeOK
  <1>3. ASSUME RequestDirect(r, t) PROVE Answered
    <2>1. replies' \in [Requests -> {"none", "activated", "failed", "twice"}]
      BY <1>3, ReplyType DEF RequestDirect
    <2>2. logTarget' \in [Sessions -> Option(Target)]
      BY <1>3, RecordType DEF RequestDirect, TypeOK
    <2> QED
      BY <1>3, <2>1, <2>2, OptionSome DEF RequestDirect, TypeOK, actVars
  <1>4. Answered
    BY <1>1, <1>2, <1>3 DEF RequestActivation
  <1>5. asked' \in [Requests -> Option(Target)]
    BY OptionSome DEF RequestActivation, TypeOK
  <1> QED
    BY <1>4, <1>5 DEF RequestActivation, TypeOK, flowVars

\* The runtime's activation reads the store.
LEMMA ActivationReadsType ==
    ASSUME TypeOK, NEW k \in actTasks, ActivationReads(k)
    PROVE  TypeOK'
  <1>1. k \in ActTask
    BY DEF TypeOK
  <1>2. \A o \in {"activated", "failed"} : [k EXCEPT !.stage = o] \in ActTask
    BY <1>1 DEF ActTask
  <1>3. actTasks' \subseteq ActTask
    BY <1>2 DEF ActivationReads, TypeOK
  <1> QED
    BY <1>3 DEF ActivationReads, TypeOK, flowVars, NoReply

\* NativeLoopEvent::Activation.
LEMMA DeliverActivationType ==
    ASSUME TypeOK, NEW k \in actTasks, DeliverActivation(k)
    PROVE  TypeOK'
  <1> DEFINE Delivered ==
        /\ provider' \in Option(Target) /\ flowActive' \in Option(Target)
        /\ setupError' \in BOOLEAN
        /\ logTarget' \in [Sessions -> Option(Target)]
        /\ replies' \in [Requests -> {"none", "activated", "failed", "twice"}]
  <1>1. k.target \in Target
    BY DEF TypeOK, ActTask
  <1>2. ASSUME NoReply, UNCHANGED <<provider, setupError, flowActive, logTarget>>
        PROVE  Delivered
    BY <1>2 DEF NoReply, TypeOK
  <1>3. ASSUME NEW a \in inFlight, ActivationInstalls(k, a)
        PROVE  Delivered
    <2>1. logTarget' \in [Sessions -> Option(Target)]
      BY <1>1, <1>3, RecordType DEF ActivationInstalls, TypeOK
    <2>2. replies' \in [Requests -> {"none", "activated", "failed", "twice"}]
      BY <1>3, ReplyType DEF ActivationInstalls
    <2> QED
      BY <1>1, <1>3, <2>1, <2>2, OptionSome DEF ActivationInstalls
  <1>4. ASSUME NEW a \in inFlight, ActivationFails(k, a)
        PROVE  Delivered
    <2>1. replies' \in [Requests -> {"none", "activated", "failed", "twice"}]
      BY <1>4, ReplyType DEF ActivationFails
    <2> QED
      BY <1>4, <2>1 DEF ActivationFails, TypeOK
  <1>5. Delivered
    BY <1>2, <1>3, <1>4 DEF DeliverActivation
  <1>6. inFlight' \in Option(Activation) /\ actTasks' \subseteq ActTask
    BY OptionNone DEF DeliverActivation, TypeOK
  <1> QED
    BY <1>5, <1>6 DEF DeliverActivation, TypeOK, flowVars

\* The replace dialog is staged.
LEMMA StageReplaceType ==
    ASSUME TypeOK, NEW c \in Conns, StageReplace(c)
    PROVE  TypeOK'
  <1> DEFINE captured == {t.model : t \in {u \in flowActive : u.conn = c}}
  <1>1. captured \in Option(Models)
    <2>1. CASE flowActive = {}
      BY <2>1 DEF Option
    <2>2. ASSUME NEW a \in Target, flowActive = {a}
          PROVE  captured \in Option(Models)
      <3>1. CASE a.conn = c
        <4>1. captured = {a.model}
          BY <2>2, <3>1
        <4> QED
          BY <4>1, OptionSome DEF Target
      <3>2. CASE a.conn # c
        <4>1. captured = {}
          BY <2>2, <3>2
        <4> QED
          BY <4>1, OptionNone
      <3> QED
        BY <3>1, <3>2
    <2> QED
      BY <2>1, <2>2 DEF TypeOK, Option
  <1>2. form' \in Option(Staged)
    <2>1. [conn |-> c, model |-> captured] \in Staged
      BY <1>1 DEF Staged
    <2> QED
      BY <2>1, OptionSome DEF StageReplace
  <1> QED
    BY <1>2 DEF StageReplace, TypeOK, actVars, NoReply

\* start_mutation and its StartMutation effect.
LEMMA StartMutationType ==
    ASSUME TypeOK, NEW kind \in Kinds, NEW c \in Conns,
           NEW model \in Option(Models), StartMutation(kind, c, model)
    PROVE  TypeOK'
  <1>1. kind \in AllKinds
    BY ConstantsAssumption
  <1>2. pending' \in Option(Mutation)
    <2>1. [kind |-> kind, conn |-> c, model |-> model] \in Mutation
      BY <1>1 DEF Mutation
    <2> QED
      BY <2>1, OptionSome DEF StartMutation
  <1>3. mutCount' \in 0..MaxMutations /\ actGen' \in 0..MaxGen
        /\ mutCount + 1 \in 1..MaxMutations
    BY ConstantsAssumption DEF StartMutation, TypeOK
  <1>4. mutTasks' \subseteq MutTask
    <2>1. [id |-> mutCount + 1, kind |-> kind, conn |-> c, model |-> model,
           stage |-> "running"] \in MutTask
      BY <1>1, <1>3 DEF MutTask
    <2> QED
      BY <2>1 DEF StartMutation, TypeOK
  <1>5. replies' \in [Requests -> {"none", "activated", "failed", "twice"}]
    BY ReplyType DEF StartMutation
  <1>6. form' \in Option(Staged) /\ inFlight' \in Option(Activation)
    BY OptionNone DEF StartMutation
  <1> QED
    BY <1>2, <1>3, <1>4, <1>5, <1>6 DEF StartMutation, TypeOK

\* The mutation's store operation.
LEMMA MutationCommitsType ==
    ASSUME TypeOK, NEW m \in mutTasks, MutationCommits(m)
    PROVE  TypeOK'
  <1>1. m \in MutTask /\ m.conn \in Conns
    BY DEF TypeOK, MutTask
  <1>2. \A o \in {"ok", "failed"} : [m EXCEPT !.stage = o] \in MutTask
    BY <1>1 DEF MutTask
  <1>3. mutTasks' \subseteq MutTask /\ registry' \subseteq Conns
    BY <1>1, <1>2 DEF MutationCommits, TypeOK
  <1> QED
    BY <1>3 DEF MutationCommits, TypeOK, actVars, NoReply

\* The mutation's outcome reaches the loop.
LEMMA DeliverMutationType ==
    ASSUME TypeOK, NEW m \in mutTasks, DeliverMutation(m)
    PROVE  TypeOK'
  <1>1. m.conn \in Conns /\ m.model \in Option(Models)
    BY DEF TypeOK, MutTask
  <1>2. flowActive' \in Option(Target)
    BY OptionSubset DEF DeliverMutation, CompleteMutation, TypeOK
  <1>3. form' \in Option(Staged)
    <2> DEFINE restaged == {[conn |-> p.conn, model |-> p.model] :
                              p \in {q \in pending : q.kind = "replace"}}
    <2>1. restaged \in Option(Staged)
      <3>1. CASE pending = {}
        BY <3>1, OptionNone
      <3>2. ASSUME NEW q \in Mutation, pending = {q}
            PROVE  restaged \in Option(Staged)
        <4>1. [conn |-> q.conn, model |-> q.model] \in Staged
          BY DEF Mutation, Staged
        <4>2. restaged = {} \/ restaged = {[conn |-> q.conn, model |-> q.model]}
          BY <3>2
        <4> QED
          BY <4>1, <4>2, OptionNone, OptionSome
      <3> QED
        BY <3>1, <3>2 DEF TypeOK, Option
    <2> QED
      BY <2>1, OptionNone DEF DeliverMutation, CompleteMutation, TypeOK
  <1>4. provider' \in Option(Target) /\ setupError' \in BOOLEAN
    <2>1. ASSUME SettleProvider(m)
          PROVE  provider' \in Option(Target) /\ setupError' \in BOOLEAN
      BY <2>1, OptionNone DEF SettleProvider, TypeOK
    <2>2. ASSUME InstallReplacement(m)
          PROVE  provider' \in Option(Target) /\ setupError' \in BOOLEAN
      <3>1. {[conn |-> m.conn, model |-> x] : x \in m.model} \in Option(Target)
        <4>1. CASE m.model = {}
          BY <4>1, OptionNone
        <4>2. ASSUME NEW x \in Models, m.model = {x}
              PROVE  {[conn |-> m.conn, model |-> y] : y \in m.model}
                       \in Option(Target)
          <5>1. [conn |-> m.conn, model |-> x] \in Target
            BY <1>1 DEF Target
          <5>2. {[conn |-> m.conn, model |-> y] : y \in m.model}
                  = {[conn |-> m.conn, model |-> x]}
            BY <4>2
          <5> QED
            BY <5>1, <5>2, OptionSome
        <4> QED
          BY <1>1, <4>1, <4>2 DEF Option
      <3> QED
        BY <2>2, <3>1 DEF InstallReplacement, TypeOK
    <2> QED
      BY <2>1, <2>2 DEF DeliverMutation
  <1>5. pending' \in Option(Mutation)
    BY OptionNone DEF DeliverMutation, CompleteMutation
  <1>6. mutTasks' \subseteq MutTask /\ gone' \subseteq Conns
    BY <1>1 DEF DeliverMutation, TypeOK
  <1> QED
    BY <1>2, <1>3, <1>4, <1>5, <1>6
       DEF DeliverMutation, TypeOK, actVars, NoReply

\* CancelChatGptLogin.
LEMMA CancelLoginType ==
    ASSUME TypeOK, CancelLogin
    PROVE  TypeOK'
  <1>1. \A m \in mutTasks : m.conn \in Conns
    BY DEF TypeOK, MutTask
  <1>2. registry' \subseteq Conns /\ mutTasks' \subseteq MutTask
    BY <1>1 DEF CancelLogin, TypeOK
  <1> QED
    BY <1>2, OptionNone DEF CancelLogin, TypeOK, actVars, NoReply

\* Every step of the loop and of its tasks preserves the types.
LEMMA NextType == TypeOK /\ [Next]_vars => TypeOK'
  <1> SUFFICES ASSUME TypeOK, [Next]_vars PROVE TypeOK'
    OBVIOUS
  <1>1. CASE Client
    <2>1. CASE SubmitPrompt
      BY <2>1 DEF SubmitPrompt, TypeOK, flowVars, actVars, NoReply
    <2> QED
      BY <1>1, <2>1, FirstRenderType, SelectSessionType, RequestActivationType,
         StageReplaceType, StartMutationType, CancelLoginType DEF Client
  <1>2. CASE Tasks
    <2>1. CASE FinishTurn
      BY <2>1 DEF FinishTurn, TypeOK, flowVars, actVars, NoReply
    <2> QED
      BY <1>2, <2>1, ActivationReadsType, DeliverActivationType,
         MutationCommitsType, DeliverMutationType DEF Tasks
  <1>3. CASE UNCHANGED vars
    BY <1>3 DEF vars, TypeOK
  <1> QED
    BY <1>1, <1>2, <1>3 DEF Next

\* The loop's state is always well typed, whatever the constants.
THEOREM TypeCorrect == Spec => []TypeOK
  BY InitType, NextType, PTL DEF Spec

-----------------------------------------------------------------------------
(***************************************************************************)
(* The in-flight record is live, and every request is answered at most     *)
(* once.  Both are inductive together with TypeOK.                         *)
(***************************************************************************)

\* schedule_model_activation installs a live record.
LEMMA ScheduleLive ==
    ASSUME TypeOK, NEW t \in Target, NEW req \in Option(Requests),
           NEW persist \in BOOLEAN, Schedule(t, req, persist),
           pending' # {} => req = {}
    PROVE  InFlightIsLive'
  <1> DEFINE record == [gen |-> actGen + 1, req |-> req, target |-> t,
                        persist |-> persist]
             spawned == [gen |-> actGen + 1, target |-> t, stage |-> "reading"]
  <1>1. inFlight' = {record} /\ spawned \in actTasks' /\ actGen' = actGen + 1
    BY DEF Schedule
  <1>2. /\ record.gen = actGen' /\ record.req = req
        /\ spawned.gen = record.gen /\ spawned.target = record.target
    BY <1>1
  <1> HIDE DEF record, spawned
  <1> QED
    BY <1>1, <1>2 DEF InFlightIsLive

\* Steps that touch neither the record, the tasks nor the pending mutation.
LEMMA LiveUnchanged ==
    ASSUME InFlightIsLive, UNCHANGED <<actGen, inFlight, actTasks, pending>>
    PROVE  InFlightIsLive'
  BY DEF InFlightIsLive

\* FirstRenderCompleted, which schedules a background activation or none.
LEMMA FirstRenderLive ==
    ASSUME TypeOK, InFlightIsLive, FirstRender
    PROVE  InFlightIsLive'
  <1>1. pending' = pending
    BY DEF FirstRender, flowVars
  <1>2. \/ UNCHANGED actVars
        \/ \E t \in Target : ActivateRestored(t)
    <2>1. CASE ~hasRuntime
      BY <2>1 DEF FirstRender, actVars
    <2>2. CASE hasRuntime
      <3>1. PICK res \in Resolutions(session) :
              LET wanted == IF res.ok /\ res.target = {} THEN provider
                                                         ELSE res.target
              IN  \/ wanted = {} /\ NothingToRestore(res.ok)
                  \/ \E t \in wanted :
                       IF provider = {t} THEN KeepActive(t)
                                         ELSE ActivateRestored(t)
        BY <2>2 DEF FirstRender
      <3>2. res.target \in Option(Target)
        BY ResolutionType DEF TypeOK
      <3>3. \A t \in (IF res.ok /\ res.target = {} THEN provider
                      ELSE res.target) : t \in Target
        BY <3>2, OptionMember DEF TypeOK
      <3> QED
        BY <3>1, <3>3 DEF NothingToRestore, KeepActive
    <2> QED
      BY <2>1, <2>2
  <1>3. ASSUME NEW t \in Target, ActivateRestored(t)
        PROVE  InFlightIsLive'
    <2>1. (logTarget[session] = {}) \in BOOLEAN /\ {} \in Option(Requests)
      BY OptionNone
    <2> QED
      BY <1>3, <2>1, ScheduleLive DEF ActivateRestored
  <1> QED
    BY <1>1, <1>2, <1>3, LiveUnchanged DEF actVars

\* A session switch, which schedules a background activation or none.
LEMMA SelectSessionLive ==
    ASSUME TypeOK, InFlightIsLive, NEW s \in Sessions, SelectSession(s)
    PROVE  InFlightIsLive'
  <1>1. pending' = pending
    BY DEF SelectSession, flowVars
  <1>2. \/ UNCHANGED actVars
        \/ \E t \in Target : Schedule(t, {}, logTarget[s] = {})
    <2>1. CASE ~hasRuntime
      BY <2>1 DEF SelectSession, RecordSelected
    <2>2. CASE hasRuntime
      <3>1. PICK res \in Resolutions(s) : RestoreSelected(s, res)
        BY <2>2 DEF SelectSession
      <3>2. res.target \in Option(Target)
        BY ResolutionType
      <3>3. \A t \in (IF res.ok /\ res.target = {} THEN provider
                      ELSE res.target) : t \in Target
        BY <3>2, OptionMember DEF TypeOK
      <3> QED
        BY <3>1, <3>3 DEF RestoreSelected
    <2> QED
      BY <2>1, <2>2
  <1>3. (logTarget[s] = {}) \in BOOLEAN /\ {} \in Option(Requests)
    BY OptionNone
  <1> QED
    BY <1>1, <1>2, <1>3, ScheduleLive, LiveUnchanged DEF actVars

\* An explicit request is accepted only when no mutation is pending.
LEMMA RequestActivationLive ==
    ASSUME TypeOK, InFlightIsLive, NEW r \in Requests, NEW t \in Target,
           RequestActivation(r, t)
    PROVE  InFlightIsLive'
  <1>1. pending' = pending
    BY DEF RequestActivation, flowVars
  <1>2. CASE RequestAccepted(r, t)
    <2>1. pending = {} /\ Schedule(t, {r}, TRUE) /\ {r} \in Option(Requests)
      BY <1>2, OptionSome DEF RequestAccepted, Refused
    <2> QED
      BY <1>1, <2>1, ScheduleLive
  <1>3. CASE RequestRefused(r, t) \/ RequestDirect(r, t)
    BY <1>1, <1>3, LiveUnchanged DEF RequestRefused, RequestDirect, actVars
  <1> QED
    BY <1>2, <1>3 DEF RequestActivation

\* An activation task keeps its generation and target when it reads the store.
LEMMA ActivationReadsLive ==
    ASSUME TypeOK, InFlightIsLive, NEW k \in actTasks, ActivationReads(k)
    PROVE  InFlightIsLive'
  <1>1. PICK o \in {"activated", "failed"} :
          actTasks' = (actTasks \ {k}) \cup {[k EXCEPT !.stage = o]}
    BY DEF ActivationReads
  <1> DEFINE settled == [k EXCEPT !.stage = o]
  <1>2. settled \in actTasks' /\ settled.gen = k.gen /\ settled.target = k.target
    BY <1>1 DEF TypeOK, ActTask
  <1>3. UNCHANGED <<actGen, inFlight, pending>>
    BY DEF ActivationReads, flowVars
  <1>4. \A j \in actTasks : \E l \in actTasks' :
          l.gen = j.gen /\ l.target = j.target
    BY <1>1, <1>2
  <1> HIDE DEF settled
  <1> QED
    BY <1>3, <1>4 DEF InFlightIsLive

\* The in-flight record stays live.
LEMMA NextLive == TypeOK /\ InFlightIsLive /\ [Next]_vars => InFlightIsLive'
  <1> SUFFICES ASSUME TypeOK, InFlightIsLive, [Next]_vars
               PROVE  InFlightIsLive'
    OBVIOUS
  <1>1. CASE Client
    <2>1. CASE SubmitPrompt
      BY <2>1, LiveUnchanged DEF SubmitPrompt, flowVars, actVars
    <2>2. ASSUME NEW c \in Conns, StageReplace(c)
          PROVE  InFlightIsLive'
      BY <2>2, LiveUnchanged DEF StageReplace, actVars
    <2>3. ASSUME NEW kind \in Kinds, NEW c \in Conns,
                 NEW model \in Option(Models), StartMutation(kind, c, model)
          PROVE  InFlightIsLive'
      BY <2>3 DEF StartMutation, InFlightIsLive
    <2>4. CASE CancelLogin
      BY <2>4 DEF CancelLogin, actVars, InFlightIsLive
    <2> QED
      BY <1>1, <2>1, <2>2, <2>3, <2>4, FirstRenderLive, SelectSessionLive,
         RequestActivationLive DEF Client
  <1>2. CASE Tasks
    <2>1. ASSUME NEW k \in actTasks, DeliverActivation(k)
          PROVE  InFlightIsLive'
      BY <2>1 DEF DeliverActivation, InFlightIsLive
    <2>2. ASSUME NEW m \in mutTasks, MutationCommits(m)
          PROVE  InFlightIsLive'
      BY <2>2, LiveUnchanged DEF MutationCommits, actVars
    <2>3. ASSUME NEW m \in mutTasks, DeliverMutation(m)
          PROVE  InFlightIsLive'
      BY <2>3 DEF DeliverMutation, CompleteMutation, actVars, InFlightIsLive
    <2>4. CASE FinishTurn
      BY <2>4, LiveUnchanged DEF FinishTurn, flowVars, actVars
    <2> QED
      BY <1>2, <2>1, <2>2, <2>3, <2>4, ActivationReadsLive DEF Tasks
  <1>3. CASE UNCHANGED vars
    BY <1>3, LiveUnchanged DEF vars
  <1> QED
    BY <1>1, <1>2, <1>3 DEF Next

\* Whatever the client, the tasks and the mutations do, a record that blocks
\* prompts is the newest one and its task is still outstanding.
THEOREM InFlightLive == Spec => []InFlightIsLive
  <1>1. Init => InFlightIsLive
    BY DEF Init, InFlightIsLive
  <1> QED
    BY <1>1, InitType, NextType, NextLive, PTL DEF Spec

\* A verdict for requests that have none yet is not a second one, and leaves
\* the other requests alone.
LEMMA ReplyFresh ==
    ASSUME TypeOK, NEW reqs \in SUBSET Requests,
           NEW v \in {"activated", "failed"}, Reply(reqs, v),
           \A r \in reqs : replies[r] = "none",
           \A r \in Requests : replies[r] # "twice"
    PROVE  /\ \A r \in Requests : replies'[r] # "twice"
           /\ \A r \in Requests \ reqs : replies'[r] = replies[r]
  BY DEF Reply, TypeOK

\* The requests of an in-flight record are request ids.
LEMMA InFlightRequests ==
    ASSUME TypeOK
    PROVE  /\ \A a \in inFlight : a.req \in SUBSET Requests
           /\ RequestsOf(inFlight) \in SUBSET Requests
  <1>1. \A a \in inFlight : a.req \in Option(Requests)
    <2>1. \A a \in inFlight : a \in Activation
      BY OptionMember DEF TypeOK
    <2> QED
      BY <2>1 DEF Activation
  <1>2. \A a \in inFlight : a.req \in SUBSET Requests
    BY <1>1, OptionMember
  <1> QED
    BY <1>2 DEF RequestsOf

\* Steps that answer nobody and put no request in flight.
LEMMA AnswersUnchanged ==
    ASSUME AnsweredAtMostOnce, UNCHANGED <<asked, replies>>,
           \A a \in inFlight' : a \in inFlight \/ a.req = {}
    PROVE  AnsweredAtMostOnce'
  BY DEF AnsweredAtMostOnce

\* An explicit request is asked once, and answered now or left in flight.
LEMMA RequestActivationAnswers ==
    ASSUME TypeOK, AnsweredAtMostOnce, NEW r \in Requests, NEW t \in Target,
           RequestActivation(r, t)
    PROVE  AnsweredAtMostOnce'
  <1>1. /\ asked[r] = {} /\ replies[r] = "none"
        /\ asked'[r] # {}
        /\ \A q \in Requests \ {r} : asked'[q] = asked[q]
    BY DEF RequestActivation, AnsweredAtMostOnce, TypeOK
  <1>2. \A a \in inFlight : a.req \in SUBSET Requests /\ r \notin a.req
    BY <1>1, InFlightRequests DEF AnsweredAtMostOnce
  <1>3. CASE RequestAccepted(r, t)
    <2>1. /\ replies' = replies
          /\ \A a \in inFlight' : a.req = {r}
      BY <1>3 DEF RequestAccepted, NoReply, Schedule
    <2> QED
      BY <1>1, <2>1 DEF AnsweredAtMostOnce
  <1>4. CASE RequestRefused(r, t) \/ RequestDirect(r, t)
    <2>1. /\ inFlight' = inFlight
          /\ Reply({r}, "failed") \/ Reply({r}, "activated")
      BY <1>4 DEF RequestRefused, RequestDirect, actVars
    <2>2. /\ \A q \in Requests : replies'[q] # "twice"
          /\ \A q \in Requests \ {r} : replies'[q] = replies[q]
      BY <1>1, <2>1, ReplyFresh DEF AnsweredAtMostOnce
    <2> QED
      BY <1>1, <1>2, <2>1, <2>2 DEF AnsweredAtMostOnce
  <1> QED
    BY <1>3, <1>4 DEF RequestActivation

\* The outcome that ends an in-flight record answers its request.
LEMMA DeliverActivationAnswers ==
    ASSUME TypeOK, AnsweredAtMostOnce, NEW k \in actTasks, DeliverActivation(k)
    PROVE  AnsweredAtMostOnce'
  <1>1. inFlight' = {} /\ asked' = asked
    BY DEF DeliverActivation
  <1>2. CASE NoReply
    BY <1>1, <1>2, AnswersUnchanged DEF NoReply
  <1>3. ASSUME NEW a \in inFlight, NEW v \in {"activated", "failed"},
               Reply(a.req, v)
        PROVE  AnsweredAtMostOnce'
    <2>1. a.req \in SUBSET Requests /\ \A r \in a.req : replies[r] = "none"
      BY InFlightRequests DEF AnsweredAtMostOnce
    <2>2. /\ \A r \in Requests : replies'[r] # "twice"
          /\ \A r \in Requests \ a.req : replies'[r] = replies[r]
      BY <1>3, <2>1, ReplyFresh DEF AnsweredAtMostOnce
    <2> QED
      BY <1>1, <2>1, <2>2 DEF AnsweredAtMostOnce
  <1> QED
    BY <1>2, <1>3 DEF DeliverActivation, ActivationInstalls, ActivationFails

\* A starting mutation fails the request it takes out of flight.
LEMMA StartMutationAnswers ==
    ASSUME TypeOK, AnsweredAtMostOnce, NEW kind, NEW c, NEW model,
           StartMutation(kind, c, model)
    PROVE  AnsweredAtMostOnce'
  <1>1. /\ inFlight' = {} /\ asked' = asked
        /\ Reply(RequestsOf(inFlight), "failed")
    BY DEF StartMutation
  <1>2. /\ RequestsOf(inFlight) \in SUBSET Requests
        /\ \A r \in RequestsOf(inFlight) : replies[r] = "none" /\ asked[r] # {}
    BY InFlightRequests DEF AnsweredAtMostOnce, RequestsOf
  <1>3. /\ \A r \in Requests : replies'[r] # "twice"
        /\ \A r \in Requests \ RequestsOf(inFlight) : replies'[r] = replies[r]
    BY <1>1, <1>2, ReplyFresh DEF AnsweredAtMostOnce
  <1> QED
    BY <1>1, <1>2, <1>3 DEF AnsweredAtMostOnce

\* No step answers a request twice.
LEMMA NextAnswers ==
    TypeOK /\ AnsweredAtMostOnce /\ [Next]_vars => AnsweredAtMostOnce'
  <1> SUFFICES ASSUME TypeOK, AnsweredAtMostOnce, [Next]_vars
               PROVE  AnsweredAtMostOnce'
    OBVIOUS
  <1>1. CASE Client
    <2>1. CASE FirstRender
      <3>1. \A a \in inFlight' : a \in inFlight \/ a.req = {}
        BY <2>1 DEF FirstRender, NothingToRestore, KeepActive,
                    ActivateRestored, Schedule, actVars
      <3> QED
        BY <2>1, <3>1, AnswersUnchanged DEF FirstRender, NoReply
    <2>2. ASSUME NEW s \in Sessions, SelectSession(s)
          PROVE  AnsweredAtMostOnce'
      <3>1. \A a \in inFlight' : a \in inFlight \/ a.req = {}
        BY <2>2 DEF SelectSession, RestoreSelected, RecordSelected,
                    Schedule, actVars
      <3> QED
        BY <2>2, <3>1, AnswersUnchanged DEF SelectSession, NoReply
    <2>3. CASE CancelLogin \/ SubmitPrompt \/ \E c \in Conns : StageReplace(c)
      BY <2>3, AnswersUnchanged
         DEF CancelLogin, SubmitPrompt, StageReplace, actVars, NoReply
    <2> QED
      BY <1>1, <2>1, <2>2, <2>3, RequestActivationAnswers,
         StartMutationAnswers DEF Client
  <1>2. CASE Tasks
    <2>1. ASSUME NEW k \in actTasks, ActivationReads(k)
          PROVE  AnsweredAtMostOnce'
      BY <2>1, AnswersUnchanged DEF ActivationReads, NoReply
    <2>2. ASSUME NEW m \in mutTasks, MutationCommits(m) \/ DeliverMutation(m)
          PROVE  AnsweredAtMostOnce'
      BY <2>2, AnswersUnchanged
         DEF MutationCommits, DeliverMutation, actVars, NoReply
    <2>3. CASE FinishTurn
      BY <2>3, AnswersUnchanged DEF FinishTurn, actVars, NoReply
    <2> QED
      BY <1>2, <2>1, <2>2, <2>3, DeliverActivationAnswers DEF Tasks
  <1>3. CASE UNCHANGED vars
    BY <1>3, AnswersUnchanged DEF vars
  <1> QED
    BY <1>1, <1>2, <1>3 DEF Next

\* Every explicit model request gets at most one ModelActivationFinished.
THEOREM AnsweredOnce == Spec => []AnsweredAtMostOnce
  <1>1. Init => AnsweredAtMostOnce
    BY DEF Init, AnsweredAtMostOnce
  <1> QED
    BY <1>1, InitType, NextType, NextAnswers, PTL DEF Spec

-----------------------------------------------------------------------------
(***************************************************************************)
(* What a reply says is true.                                              *)
(***************************************************************************)

\* A request in flight is for the target its record names, and is to be
\* recorded: the strengthening that makes the reply to it true.
InFlightIsAsked ==
    \A a \in inFlight : \A r \in a.req : asked[r] = {a.target} /\ a.persist

\* Steps that leave the requests in flight and what was asked alone.
LEMMA AskedUnchanged ==
    ASSUME InFlightIsAsked, asked' = asked,
           \A a \in inFlight' : a \in inFlight \/ a.req = {}
    PROVE  InFlightIsAsked'
  BY DEF InFlightIsAsked

\* An accepted request is in flight for what was asked; a request that was in
\* flight before is not asked again.
LEMMA RequestActivationAsked ==
    ASSUME TypeOK, AnsweredAtMostOnce, InFlightIsAsked, NEW r \in Requests,
           NEW t \in Target, RequestActivation(r, t)
    PROVE  InFlightIsAsked'
  <1>1. /\ asked[r] = {} /\ asked'[r] = {t}
        /\ \A q \in Requests \ {r} : asked'[q] = asked[q]
    BY DEF RequestActivation, TypeOK
  <1>2. CASE RequestAccepted(r, t)
    <2>1. \A a \in inFlight' : a.req = {r} /\ a.target = t /\ a.persist
      BY <1>2 DEF RequestAccepted, Schedule
    <2> QED
      BY <1>1, <2>1 DEF InFlightIsAsked
  <1>3. CASE RequestRefused(r, t) \/ RequestDirect(r, t)
    <2>1. inFlight' = inFlight
      BY <1>3 DEF RequestRefused, RequestDirect, actVars
    <2>2. \A a \in inFlight : a.req \in SUBSET Requests /\ r \notin a.req
      BY <1>1, InFlightRequests DEF AnsweredAtMostOnce
    <2> QED
      BY <1>1, <2>1, <2>2 DEF InFlightIsAsked
  <1> QED
    BY <1>2, <1>3 DEF RequestActivation

\* Every step keeps it.
LEMMA NextAsked ==
    TypeOK /\ AnsweredAtMostOnce /\ InFlightIsAsked /\ [Next]_vars => InFlightIsAsked'
  <1> SUFFICES ASSUME TypeOK, AnsweredAtMostOnce, InFlightIsAsked, [Next]_vars
               PROVE  InFlightIsAsked'
    OBVIOUS
  <1>1. CASE Client
    <2>1. CASE FirstRender
      <3>1. \A a \in inFlight' : a \in inFlight \/ a.req = {}
        BY <2>1 DEF FirstRender, NothingToRestore, KeepActive,
                    ActivateRestored, Schedule, actVars
      <3> QED
        BY <2>1, <3>1, AskedUnchanged DEF FirstRender
    <2>2. ASSUME NEW s \in Sessions, SelectSession(s)
          PROVE  InFlightIsAsked'
      <3>1. \A a \in inFlight' : a \in inFlight \/ a.req = {}
        BY <2>2 DEF SelectSession, RestoreSelected, RecordSelected,
                    Schedule, actVars
      <3> QED
        BY <2>2, <3>1, AskedUnchanged DEF SelectSession
    <2>3. CASE CancelLogin \/ SubmitPrompt \/ \E c \in Conns : StageReplace(c)
      BY <2>3, AskedUnchanged DEF CancelLogin, SubmitPrompt, StageReplace, actVars
    <2>4. ASSUME NEW kind \in Kinds, NEW c \in Conns,
                 NEW model \in Option(Models), StartMutation(kind, c, model)
          PROVE  InFlightIsAsked'
      BY <2>4, AskedUnchanged DEF StartMutation
    <2> QED
      BY <1>1, <2>1, <2>2, <2>3, <2>4, RequestActivationAsked DEF Client
  <1>2. CASE Tasks
    <2>1. ASSUME NEW k \in actTasks, ActivationReads(k) \/ DeliverActivation(k)
          PROVE  InFlightIsAsked'
      BY <2>1, AskedUnchanged DEF ActivationReads, DeliverActivation
    <2>2. ASSUME NEW m \in mutTasks, MutationCommits(m) \/ DeliverMutation(m)
          PROVE  InFlightIsAsked'
      BY <2>2, AskedUnchanged DEF MutationCommits, DeliverMutation, actVars
    <2>3. CASE FinishTurn
      BY <2>3, AskedUnchanged DEF FinishTurn, actVars
    <2> QED
      BY <1>2, <2>1, <2>2, <2>3 DEF Tasks
  <1>3. CASE UNCHANGED vars
    BY <1>3, AskedUnchanged DEF vars
  <1> QED
    BY <1>1, <1>2, <1>3 DEF Next

\* What a step says of the requests it answers with "activated".
TrueReplies ==
    \A r \in Requests :
      (replies'[r] = "activated" /\ replies[r] # "activated")
        => provider' = asked'[r] /\ logTarget'[session'] = asked'[r]

\* Nobody is answered, or only with a failure.
LEMMA NothingActivated ==
    ASSUME replies' = replies \/ \E reqs : Reply(reqs, "failed")
    PROVE  TrueReplies
  BY DEF TrueReplies, Reply

\* The outcome that is installed is recorded first, if its request asks for it.
LEMMA DeliverActivationTrue ==
    ASSUME TypeOK, InFlightIsAsked, NEW k \in actTasks, DeliverActivation(k)
    PROVE  TrueReplies
  <1>1. CASE NoReply
    BY <1>1, NothingActivated DEF NoReply
  <1>2. ASSUME NEW a \in inFlight, ActivationFails(k, a)
        PROVE  TrueReplies
    BY <1>2, NothingActivated DEF ActivationFails
  <1>3. ASSUME NEW a \in inFlight, ActivationInstalls(k, a)
        PROVE  TrueReplies
    <2>1. ASSUME NEW r \in Requests, replies'[r] = "activated", replies[r] # "activated"
          PROVE  r \in a.req
      BY <1>3, <2>1 DEF ActivationInstalls, Reply
    <2>2. ASSUME NEW r \in a.req
          PROVE  provider' = asked'[r] /\ logTarget'[session'] = asked'[r]
      <3>1. asked'[r] = {k.target} /\ a.persist
        BY <1>3, <2>2 DEF InFlightIsAsked, ActivationInstalls, DeliverActivation
      <3>2. logTarget'[session'] = {k.target}
        BY <1>3, <3>1 DEF ActivationInstalls, Record, TypeOK, DeliverActivation
      <3> QED
        BY <1>3, <3>1, <3>2 DEF ActivationInstalls
    <2> QED
      BY <2>1, <2>2 DEF TrueReplies
  <1> QED
    BY <1>1, <1>2, <1>3 DEF DeliverActivation

\* A request is answered at once without a runtime, or refused.
LEMMA RequestActivationTrue ==
    ASSUME TypeOK, NEW r \in Requests, NEW t \in Target, RequestActivation(r, t)
    PROVE  TrueReplies
  <1>1. CASE RequestRefused(r, t) \/ RequestAccepted(r, t)
    BY <1>1, NothingActivated DEF RequestRefused, RequestAccepted, NoReply
  <1>2. CASE RequestDirect(r, t)
    <2>1. \A q \in Requests : q # r => replies'[q] = replies[q]
      BY <1>2 DEF RequestDirect, Reply
    <2>2. asked'[r] = {t} /\ session' = session
      BY DEF RequestActivation, TypeOK
    <2>3. provider' = {t} /\ logTarget'[session] = {t}
      BY <1>2 DEF RequestDirect, Record, TypeOK
    <2> QED
      BY <2>1, <2>2, <2>3 DEF TrueReplies
  <1> QED
    BY <1>1, <1>2 DEF RequestActivation

\* Every step answers truly.
LEMMA NextTrue ==
    TypeOK /\ InFlightIsAsked /\ [Next]_vars => TrueReplies
  <1> SUFFICES ASSUME TypeOK, InFlightIsAsked, [Next]_vars
               PROVE  TrueReplies
    OBVIOUS
  <1>1. CASE Client
    <2>1. CASE \/ FirstRender \/ CancelLogin \/ SubmitPrompt
               \/ \E s \in Sessions : SelectSession(s)
               \/ \E c \in Conns : StageReplace(c)
      BY <2>1, NothingActivated DEF FirstRender, CancelLogin, SubmitPrompt,
         SelectSession, StageReplace, NoReply
    <2>2. ASSUME NEW kind \in Kinds, NEW c \in Conns,
                 NEW model \in Option(Models), StartMutation(kind, c, model)
          PROVE  TrueReplies
      BY <2>2, NothingActivated DEF StartMutation
    <2> QED
      BY <1>1, <2>1, <2>2, RequestActivationTrue DEF Client
  <1>2. CASE Tasks
    <2>1. CASE \/ \E k \in actTasks : ActivationReads(k)
               \/ \E m \in mutTasks : MutationCommits(m) \/ DeliverMutation(m)
               \/ FinishTurn
      BY <2>1, NothingActivated DEF ActivationReads, MutationCommits, DeliverMutation,
         FinishTurn, NoReply
    <2> QED
      BY <1>2, <2>1, DeliverActivationTrue DEF Tasks
  <1>3. CASE UNCHANGED vars
    BY <1>3, NothingActivated DEF vars
  <1> QED
    BY <1>1, <1>2, <1>3 DEF Next

\* A request reported as activated is, at that step, what the provider runs and
\* what the current session's log restores, whatever was superseded, cancelled
\* or switched in between (runner.rs, the Activation arm).
THEOREM RepliesAreTrue == Spec => ActivatedIsInstalled
  <1>1. Init => AnsweredAtMostOnce /\ InFlightIsAsked
    BY DEF Init, AnsweredAtMostOnce, InFlightIsAsked
  <1>2. TypeOK /\ InFlightIsAsked /\ [Next]_vars =>
          [\A r \in Requests :
             (replies'[r] = "activated" /\ replies[r] # "activated")
               => provider' = asked'[r] /\ logTarget'[session'] = asked'[r]]_vars
    BY NextTrue DEF TrueReplies
  <1> QED
    BY <1>1, <1>2, InitType, NextType, NextAnswers, NextAsked, PTL
       DEF Spec, ActivatedIsInstalled

-----------------------------------------------------------------------------
(***************************************************************************)
(* The reducer and the runner.                                             *)
(***************************************************************************)

ConnsOf(o) == {t.conn : t \in o}

\* Steps that leave both alone, change both alike, or run without a runtime.
LEMMA TracksAlike ==
    ASSUME FlowTracksProvider, hasRuntime' = hasRuntime,
           \/ ~hasRuntime
           \/ UNCHANGED <<provider, flowActive>>
           \/ provider' = flowActive'
    PROVE  FlowTracksProvider'
  BY DEF FlowTracksProvider

\* A mutation's outcome: a removal takes the reducer's target away, and the
\* runner looks for it unless the outcome is that of a replacement.
LEMMA DeliverMutationTracks ==
    ASSUME TypeOK, FlowTracksProvider, NEW m \in mutTasks, DeliverMutation(m), ~MixedOutcome
    PROVE  FlowTracksProvider'
  <1> SUFFICES ASSUME hasRuntime PROVE ConnsOf(provider') = ConnsOf(flowActive')
    BY DEF FlowTracksProvider, DeliverMutation, ConnsOf
  <1>1. ConnsOf(provider) = ConnsOf(flowActive)
    BY DEF FlowTracksProvider, ConnsOf
  <1>2. flowActive' \subseteq flowActive
    BY DEF DeliverMutation, CompleteMutation
  <1>3. provider = {} \/ \E t \in Target : provider = {t}
    BY DEF TypeOK, Option
  <1>4. CASE m.kind # "replace"
    <2>1. SettleProvider(m)
      BY <1>4 DEF DeliverMutation
    <2>2. CASE \E t \in provider : ~OnConn(flowActive', t.conn)
      <3>1. PICK t \in provider : provider = {t} /\ ~OnConn(flowActive', t.conn)
        BY <2>2, <1>3
      <3>2. \A u \in flowActive : u.conn = t.conn
        BY <1>1, <3>1 DEF ConnsOf
      <3>3. flowActive' = {}
        BY <1>2, <3>1, <3>2 DEF OnConn
      <3> QED
        BY <2>1, <2>2, <3>3 DEF SettleProvider, ConnsOf
    <2>3. CASE \A t \in provider : OnConn(flowActive', t.conn)
      <3>1. provider' = provider
        BY <2>1, <2>3 DEF SettleProvider
      <3> QED
        BY <1>1, <1>2, <2>3, <3>1 DEF ConnsOf, OnConn
    <2> QED
      BY <2>2, <2>3
  <1>5. CASE m.kind = "replace"
    <2>1. m \in mutTasks \ mutTasks' /\ InstallReplacement(m)
      BY <1>5 DEF DeliverMutation
    <2>2. flowActive' = flowActive
      BY <1>5, <2>1 DEF DeliverMutation, CompleteMutation, MixedOutcome
    <2>3. ConnsOf(provider') = ConnsOf(provider)
      <3>1. CASE provider' = provider
        BY <3>1
      <3>2. CASE /\ m.model # {} /\ OnConn(provider, m.conn)
                 /\ provider' = {[conn |-> m.conn, model |-> x] : x \in m.model}
        <4>1. ConnsOf(provider) = {m.conn}
          BY <1>3, <3>2 DEF ConnsOf, OnConn
        <4>2. \A u \in provider' : u.conn = m.conn
          BY <3>2
        <4>3. provider' # {}
          BY <3>2
        <4> QED
          BY <4>1, <4>2, <4>3 DEF ConnsOf
      <3> QED
        BY <2>1, <3>1, <3>2 DEF InstallReplacement
    <2> QED
      BY <1>1, <2>2, <2>3
  <1> QED
    BY <1>4, <1>5

\* No step but a mixed outcome parts them.
LEMMA NextTracks ==
    TypeOK /\ FlowTracksProvider /\ [Next]_vars /\ ~MixedOutcome => FlowTracksProvider'
  <1> SUFFICES ASSUME TypeOK, FlowTracksProvider, [Next]_vars, ~MixedOutcome
               PROVE  FlowTracksProvider'
    OBVIOUS
  <1>1. CASE Client
    <2>1. CASE FirstRender
      <3>1. hasRuntime' = hasRuntime
        BY <2>1 DEF FirstRender
      <3>2. CASE ~hasRuntime
        BY <3>1, <3>2, TracksAlike
      <3>3. ASSUME NEW t \in Target, provider = {t}, KeepActive(t)
            PROVE  FlowTracksProvider'
        BY <3>1, <3>3, TracksAlike DEF KeepActive
      <3>4. ASSUME NEW t \in Target, ActivateRestored(t)
            PROVE  FlowTracksProvider'
        BY <3>1, <3>4, TracksAlike DEF ActivateRestored
      <3>5. ASSUME NEW b, NothingToRestore(b)
            PROVE  FlowTracksProvider'
        BY <3>1, <3>5, TracksAlike DEF NothingToRestore
      <3>6. CASE hasRuntime
        <4>1. PICK res \in Resolutions(session) :
                LET wanted == IF res.ok /\ res.target = {} THEN provider ELSE res.target
                IN  \/ wanted = {} /\ NothingToRestore(res.ok)
                    \/ \E t \in wanted :
                         IF provider = {t} THEN KeepActive(t) ELSE ActivateRestored(t)
          BY <2>1, <3>6 DEF FirstRender
        <4>2. res.target \in Option(Target) /\ provider \in Option(Target)
          BY <4>1, ResolutionType DEF TypeOK
        <4>3. \A t : t \in provider \/ t \in res.target => t \in Target
          BY <4>2, OptionMember
        <4> QED
          BY <4>1, <4>3, <3>3, <3>4, <3>5
      <3> QED
        BY <3>2, <3>6
    <2>2. ASSUME NEW s \in Sessions, SelectSession(s)
          PROVE  FlowTracksProvider'
      BY <2>2, TracksAlike DEF SelectSession, RestoreSelected
    <2>3. ASSUME NEW r \in Requests, NEW t \in Target, RequestActivation(r, t)
          PROVE  FlowTracksProvider'
      BY <2>3, TracksAlike DEF RequestActivation, RequestRefused, RequestAccepted, RequestDirect
    <2>4. ASSUME NEW kind \in Kinds, NEW c \in Conns,
                 NEW model \in Option(Models), StartMutation(kind, c, model)
          PROVE  FlowTracksProvider'
      BY <2>4, TracksAlike DEF StartMutation
    <2>5. CASE CancelLogin \/ SubmitPrompt \/ \E c \in Conns : StageReplace(c)
      BY <2>5, TracksAlike DEF CancelLogin, SubmitPrompt, StageReplace
    <2> QED
      BY <1>1, <2>1, <2>2, <2>3, <2>4, <2>5 DEF Client
  <1>2. CASE Tasks
    <2>1. ASSUME NEW k \in actTasks, DeliverActivation(k)
          PROVE  FlowTracksProvider'
      BY <2>1, TracksAlike DEF DeliverActivation, ActivationInstalls, ActivationFails
    <2>2. CASE \/ \E k \in actTasks : ActivationReads(k)
               \/ \E m \in mutTasks : MutationCommits(m)
               \/ FinishTurn
      BY <2>2, TracksAlike DEF ActivationReads, MutationCommits, FinishTurn
    <2> QED
      BY <1>2, <2>1, <2>2, DeliverMutationTracks DEF Tasks
  <1>3. CASE UNCHANGED vars
    BY <1>3, TracksAlike DEF vars
  <1> QED
    BY <1>1, <1>2, <1>3 DEF Next

\* From the start the reducer and the runner name the same connection, and the
\* only step that can part them is the outcome of a replacement that settles a
\* removal (runner.rs, the Replacement arm, which does not look whether the
\* reducer's target has disappeared).
THEOREM ReducerFollowsRunner == Spec => FlowTracksProvider /\ FlowTracksUnlessMixed
  <1>1. Init => FlowTracksProvider
    BY DEF Init, FlowTracksProvider
  <1>2. TypeOK /\ [Next]_vars =>
          [FlowTracksProvider /\ ~MixedOutcome => FlowTracksProvider']_vars
    BY NextTracks
  <1> QED
    BY <1>1, <1>2, InitType, NextType, PTL DEF Spec, FlowTracksUnlessMixed

\* The pending mutation and the task that runs for it are one and the same, and
\* there is no second task: true as long as no login can be cancelled.
OneAtATime ==
    /\ \A p \in pending : p.kind # "login"
    /\ \A m, n \in mutTasks : m = n
    /\ \A m \in mutTasks : pending = {[kind |-> m.kind, conn |-> m.conn, model |-> m.model]}

\* Steps that leave the mutations alone.
LEMMA OneUnchanged ==
    ASSUME OneAtATime, UNCHANGED <<pending, mutTasks>>
    PROVE  OneAtATime'
  BY DEF OneAtATime

\* Without logins a mutation starts only when the one before is settled.
LEMMA NextOne ==
    ASSUME "login" \notin Kinds
    PROVE  TypeOK /\ OneAtATime /\ [Next]_vars => OneAtATime' /\ ~MixedOutcome
  <1> SUFFICES ASSUME TypeOK, OneAtATime, [Next]_vars
               PROVE  OneAtATime' /\ ~MixedOutcome
    OBVIOUS
  <1>0. ~MixedOutcome
    <2>1. \A m \in mutTasks, p \in pending : p.kind = m.kind
      BY DEF OneAtATime
    <2> QED
      BY <2>1 DEF MixedOutcome
  <1> SUFFICES OneAtATime'
    BY <1>0
  <1>1. CASE Client
    <2>1. CASE FirstRender
      BY <2>1, OneUnchanged DEF FirstRender, flowVars
    <2>2. CASE \E s \in Sessions : SelectSession(s)
      BY <2>2, OneUnchanged DEF SelectSession, flowVars
    <2>3. CASE \E r \in Requests, t \in Target : RequestActivation(r, t)
      BY <2>3, OneUnchanged DEF RequestActivation, flowVars
    <2>4. ASSUME NEW kind \in Kinds, NEW c \in Conns,
                 NEW model \in Option(Models), StartMutation(kind, c, model)
          PROVE  OneAtATime'
      <3> DEFINE spawned == [id |-> mutCount + 1, kind |-> kind, conn |-> c,
                          model |-> model, stage |-> "running"]
      <3>1. mutTasks = {} /\ mutTasks' = {spawned}
        BY <2>4 DEF StartMutation, OneAtATime
      <3>2. /\ pending' = {[kind |-> kind, conn |-> c, model |-> model]}
            /\ kind # "login"
        BY <2>4 DEF StartMutation
      <3>3. spawned.kind = kind /\ spawned.conn = c /\ spawned.model = model
        OBVIOUS
      <3> HIDE DEF spawned
      <3> QED
        BY <3>1, <3>2, <3>3 DEF OneAtATime
    <2>5. CASE CancelLogin
      BY <2>5 DEF CancelLogin, OneAtATime
    <2>6. CASE SubmitPrompt \/ \E c \in Conns : StageReplace(c)
      BY <2>6, OneUnchanged DEF SubmitPrompt, StageReplace, flowVars
    <2> QED
      BY <1>1, <2>1, <2>2, <2>3, <2>4, <2>5, <2>6 DEF Client
  <1>2. CASE Tasks
    <2>1. ASSUME NEW k \in actTasks, ActivationReads(k) \/ DeliverActivation(k)
          PROVE  OneAtATime'
      BY <2>1, OneUnchanged DEF ActivationReads, DeliverActivation, flowVars
    <2>2. ASSUME NEW m \in mutTasks, MutationCommits(m)
          PROVE  OneAtATime'
      <3>1. PICK o \in {"ok", "failed"} :
              mutTasks' = (mutTasks \ {m}) \cup {[m EXCEPT !.stage = o]}
        BY <2>2 DEF MutationCommits
      <3> DEFINE done == [m EXCEPT !.stage = o]
      <3>2. done.kind = m.kind /\ done.conn = m.conn /\ done.model = m.model
        BY DEF TypeOK, MutTask
      <3>3. mutTasks' = {done} /\ pending' = pending
        BY <2>2, <3>1 DEF OneAtATime, MutationCommits
      <3> HIDE DEF done
      <3> QED
        BY <3>2, <3>3 DEF OneAtATime
    <2>3. ASSUME NEW m \in mutTasks, DeliverMutation(m)
          PROVE  OneAtATime'
      BY <2>3 DEF DeliverMutation, CompleteMutation, OneAtATime
    <2>4. CASE FinishTurn
      BY <2>4, OneUnchanged DEF FinishTurn, flowVars
    <2> QED
      BY <1>2, <2>1, <2>2, <2>3, <2>4 DEF Tasks
  <1>3. CASE UNCHANGED vars
    BY <1>3, OneUnchanged DEF vars
  <1> QED
    BY <1>1, <1>2, <1>3 DEF Next

\* Where no login is possible, and so none can be cancelled, every outcome
\* settles the mutation it belongs to, and the reducer and the runner always
\* name the same connection.
THEOREM AlwaysTracksWithoutLogin ==
    ASSUME "login" \notin Kinds
    PROVE  Spec => []FlowTracksProvider
  <1>1. Init => FlowTracksProvider /\ OneAtATime
    BY DEF Init, FlowTracksProvider, OneAtATime
  <1>2. TypeOK /\ OneAtATime /\ FlowTracksProvider /\ [Next]_vars
          => OneAtATime' /\ FlowTracksProvider'
    BY NextOne, NextTracks
  <1> QED
    BY <1>1, <1>2, InitType, NextType, PTL DEF Spec
=============================================================================
