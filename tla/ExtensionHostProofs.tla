-------------------------- MODULE ExtensionHostProofs --------------------------
(***************************************************************************)
(* Proofs about ExtensionHost: for any extensions, in packages of their    *)
(* own or sharing a package or a source_ref, and any number of commands,   *)
(* decisions of other processes and turns, the parts of every snapshot     *)
(* agree, what was stopped stays down, and a review is acted on only while *)
(* its reviewer kept its seat.                                             *)
(*                                                                         *)
(* None of the three is inductive. That the parts agree rests on an        *)
(* extension having one diagnostic at most, which the background           *)
(* activation keeps because the records it has left are not yet mentioned  *)
(* (LeftOk). That a review is undisturbed rests on the counter only        *)
(* growing while a seat changes hands: it is never above the generation of *)
(* the reviewer's diagnostic, nor, when a reload of another extension of   *)
(* its record took that one away, of the diagnostic that replaced it, from *)
(* which a reload takes the next one (Counts); and the background          *)
(* activation installs a snapshot with a counter of its own, which no      *)
(* clone shares yet (Background).                                          *)
(***************************************************************************)
EXTENDS ExtensionHost, SequenceTheorems, WellFoundedInduction, TLAPS

-----------------------------------------------------------------------------
\* The types of a diagnostic, of the reviewer's seat, of a snapshot, of the
\* background activation, and of a turn with its review.
Entry == [ext : Exts, state : States, gen : Nat]
Seat  == [ext : Reviewers \cup {NoExt}, gen : Nat, host : Nat]
Parts == [diags : Seq(Entry), tools : SUBSET Exts, exec : [Exts -> Nat],
          reviewer : Seat, cell : {0, 1}]
Work  == [pc : {"off", "record", "start", "done"}, left : Seq(Exts), snap : Parts]
Review == [sent : BOOLEAN, gen : Nat, seat : Nat]
Judge  == [by : Nat, then : Nat, now : Nat, same : BOOLEAN]
Clone  == [on : BOOLEAN, snap : Parts, review : Review, judge : Judge]

\* An extension has one diagnostic at most.
OneEach(ds) == \A i, j \in 1..Len(ds) : ds[i].ext = ds[j].ext => i = j

\* A list of diagnostics has one of e.
Mentions(ds, e) == \E i \in 1..Len(ds) : ds[i].ext = e

\* One snapshot of SnapshotAgrees.
Routed(s) == {e \in Exts : s.exec[e] # 0}
Agrees(s) == /\ Routed(s) = ActiveIn(s) \ Reviewers
             /\ Routed(s) \subseteq s.tools
             /\ \A e \in s.tools \ Routed(s) : ~Alone(e) /\ ~Mentions(s.diags, e)

\* An extension of the reviewer's record.
Kin(f) == \E r \in Reviewers : SameRecord(r, f)

\* A snapshot that is typed, has one diagnostic an extension, and agrees.
GoodSnap(s) == s \in Parts /\ OneEach(s.diags) /\ Agrees(s)

\* The records left are distinct, and the snapshot does not know them.
LeftOk(l, s) ==
    /\ \A i, j \in 1..Len(l) : l[i] = l[j] => i = j
    /\ \A i \in 1..Len(l) : ~Mentions(s.diags, l[i]) /\ l[i] \notin s.tools

\* The background activation has records left that its snapshot does not know.
Background ==
    /\ bg \in Work /\ GoodSnap(bg.snap) /\ bg.snap.cell = 1
    /\ LeftOk(bg.left, bg.snap)
    /\ bg.pc = "start" => bg.left # <<>>
    /\ bg.pc # "done" => down = {} /\ snap.cell = 0 /\ cells[1] = 0
    /\ bg.pc = "off" => bg.snap.diags = <<>> /\ bg.snap.tools = {}
    /\ index \in {"none", "scanning"} => bg.pc = "off"

\* The counter of the snapshot is below the generation a reload would give.
Counts ==
    /\ cells \in [{0, 1} -> Nat] /\ hosts \in Nat
    /\ OneReviewer =>
         /\ \A i \in 1..Len(snap.diags) : snap.diags[i].ext \in Reviewers =>
              cells[snap.cell] <= snap.diags[i].gen
         /\ \/ cells[snap.cell] = 0
            \/ \E i \in 1..Len(snap.diags) :
                 Kin(snap.diags[i].ext) /\ cells[snap.cell] <= snap.diags[i].gen

\* A review that is under way, with the counter as it was, has its reviewer in the seat.
Reviewing ==
    /\ turn \in Clone /\ GoodSnap(turn.snap)
    /\ turn.snap.cell = 1 => snap.cell = 1
    /\ OneReviewer /\ turn.review.sent /\ turn.snap.cell = snap.cell =>
         /\ turn.review.gen <= cells[snap.cell]
         /\ turn.review.gen = cells[snap.cell] => turn.review.seat = snap.reviewer.host
    /\ ReviewUndisturbed

\* The inductive invariant.
HostInv ==
    /\ GoodSnap(snap) /\ down \subseteq Exts /\ waiting \subseteq Commands
    /\ StaysDown /\ Background /\ Counts /\ Reviewing

\* Induction on the naturals, over a set.
LEMMA SetInduction ==
    ASSUME NEW S, 0 \in S, \A n \in Nat : n \in S => n + 1 \in S
    PROVE  Nat \subseteq S
<1> SUFFICES ASSUME Nat \ S # {} PROVE FALSE
  OBVIOUS
<1>1. PICK x \in Nat \ S : \A y \in Nat \ S : ~(<<y, x>> \in OpToRel(<, Nat))
  BY NatLessThanWellFounded, WFMin
<1>2. \A y \in Nat \ S : ~(y < x)
  BY <1>1 DEF OpToRel
<1>3. x # 0 /\ x \in Nat
  OBVIOUS
<1>4. x - 1 \in Nat /\ x - 1 < x /\ (x - 1) + 1 = x
  BY <1>3
<1>5. x - 1 \in S
  BY <1>2, <1>4
<1> QED BY <1>4, <1>5

\* An extension is active if a diagnostic says so.
LEMMA ActiveIs ==
    ASSUME NEW s, NEW e
    PROVE  e \in ActiveIn(s) <=> \E i \in 1..Len(s.diags) : s.diags[i].state = "active"
                                                             /\ s.diags[i].ext = e
  BY DEF ActiveIn

\* One step of the filter.
Kept(ds, e, i, t, u) ==
    u = IF SameRecord(e, ds[i].ext) THEN t ELSE Append(t, ds[i])

\* What a filtered list is.
Filtered(ds, e, n, t) ==
    /\ t \in Seq(Entry)
    /\ \A k \in 1..Len(t) : \E j \in 1..n : t[k] = ds[j] /\ ~SameRecord(e, ds[j].ext)
    /\ \A j \in 1..n : ~SameRecord(e, ds[j].ext) => \E k \in 1..Len(t) : t[k] = ds[j]
    /\ OneEach(t)

\* The filter over one diagnostic more.
LEMMA FilteredStep ==
    ASSUME NEW ds \in Seq(Entry), OneEach(ds), NEW e, NEW n \in Nat, n + 1 <= Len(ds), NEW t,
           Filtered(ds, e, n, t), NEW u, Kept(ds, e, n + 1, t, u)
    PROVE  Filtered(ds, e, n + 1, u)
<1>1. t \in Seq(Entry) /\ Len(t) \in Nat /\ n + 1 \in 1..Len(ds) /\ ds[n + 1] \in Entry
      /\ Len(ds) \in Nat
  BY LenProperties DEF Filtered
<1>2. CASE SameRecord(e, ds[n + 1].ext)
  <2>1. u = t
    BY <1>2 DEF Kept
  <2>2. \A j \in 1..n : j \in 1..(n + 1)
    OBVIOUS
  <2>3. \A j \in 1..(n + 1) : j \in 1..n \/ j = n + 1
    OBVIOUS
  <2> QED BY <1>2, <2>1, <2>2, <2>3 DEF Filtered
<1>3. CASE ~SameRecord(e, ds[n + 1].ext)
  <2>1. u = Append(t, ds[n + 1])
    BY <1>3 DEF Kept
  <2>2. /\ u \in Seq(Entry) /\ Len(u) = Len(t) + 1 /\ u[Len(t) + 1] = ds[n + 1]
        /\ \A k \in 1..Len(t) : u[k] = t[k]
    BY <1>1, <2>1, AppendProperties
  <2>3. \A k \in 1..Len(u) : k \in 1..Len(t) \/ k = Len(t) + 1
    BY <1>1, <2>2
  <2>4. \A k \in 1..Len(t) : k \in 1..Len(u)
    BY <1>1, <2>2
  <2>5. Len(t) + 1 \in 1..Len(u)
    BY <1>1, <2>2
  <2>6. \A j \in 1..n : j \in 1..(n + 1) /\ j \in 1..Len(ds) /\ j # n + 1
    BY <1>1
  <2>7. \A j \in 1..(n + 1) : j \in 1..n \/ j = n + 1
    OBVIOUS
  <2>8. n + 1 \in 1..(n + 1)
    OBVIOUS
  <2>9. \A k \in 1..Len(u) : \E j \in 1..(n + 1) : u[k] = ds[j] /\ ~SameRecord(e, ds[j].ext)
    <3> SUFFICES ASSUME NEW k \in 1..Len(u)
                 PROVE  \E j \in 1..(n + 1) : u[k] = ds[j] /\ ~SameRecord(e, ds[j].ext)
      OBVIOUS
    <3>1. CASE k = Len(t) + 1
      <4>1. u[k] = ds[n + 1] /\ n + 1 \in 1..(n + 1)
        BY <2>2, <2>8, <3>1
      <4> QED BY <1>3, <4>1
    <3>2. CASE k \in 1..Len(t)
      <4>1. PICK j \in 1..n : t[k] = ds[j] /\ ~SameRecord(e, ds[j].ext)
        BY <3>2 DEF Filtered
      <4>2. j \in 1..(n + 1) /\ u[k] = ds[j]
        BY <2>2, <2>6, <3>2, <4>1
      <4> QED BY <4>1, <4>2
    <3> QED BY <2>3, <3>1, <3>2
  <2>10. \A j \in 1..(n + 1) : ~SameRecord(e, ds[j].ext) => \E k \in 1..Len(u) : u[k] = ds[j]
    BY <2>2, <2>4, <2>5, <2>7 DEF Filtered
  <2>11. \A k \in 1..Len(t) : t[k].ext # ds[n + 1].ext
    BY ZenonT(60), <1>1, <2>6 DEF Filtered, OneEach
  <2>12. OneEach(u)
    BY <2>2, <2>3, <2>11 DEF Filtered, OneEach
  <2> QED BY <2>2, <2>9, <2>10, <2>12 DEF Filtered
<1> QED BY <1>2, <1>3

\* g is the list of what the filter has kept, step by step.
Filters(ds, e, n, g) ==
    /\ g[0] = <<>>
    /\ \A i \in 1..n : Kept(ds, e, i, g[i - 1], g[i])

\* The filter is defined for every length.
LEMMA FilterExists ==
    ASSUME NEW ds, NEW e, NEW n \in Nat
    PROVE  \E g : DOMAIN g = 0..n /\ g = [i \in 0..n |-> g[i]] /\ Filters(ds, e, n, g)
<1> DEFINE Ok(m) == \E g : DOMAIN g = 0..m /\ g = [i \in 0..m |-> g[i]] /\ Filters(ds, e, m, g)
           S == {m \in Nat : Ok(m)}
<1>1. 0 \in S
  <2> DEFINE g == [i \in 0..0 |-> <<>>]
  <2>1. DOMAIN g = 0..0 /\ g = [i \in 0..0 |-> g[i]] /\ g[0] = <<>> /\ 1..0 = {}
    OBVIOUS
  <2>2. Filters(ds, e, 0, g)
    BY <2>1 DEF Filters
  <2>3. Ok(0)
    BY <2>1, <2>2
  <2> QED BY <2>3
<1>2. ASSUME NEW m \in Nat, m \in S PROVE m + 1 \in S
  <2>1. PICK g : DOMAIN g = 0..m /\ g = [i \in 0..m |-> g[i]] /\ Filters(ds, e, m, g)
    BY <1>2
  <2> DEFINE last == IF SameRecord(e, ds[m + 1].ext) THEN g[m] ELSE Append(g[m], ds[m + 1])
             h == [i \in 0..(m + 1) |-> IF i = m + 1 THEN last ELSE g[i]]
  <2>2. /\ DOMAIN h = 0..(m + 1) /\ h = [i \in 0..(m + 1) |-> h[i]]
        /\ h[m + 1] = last /\ \A i \in 0..m : h[i] = g[i]
    OBVIOUS
  <2> HIDE DEF h
  <2>3. h[0] = <<>>
    BY <2>1, <2>2 DEF Filters
  <2>4. ASSUME NEW i \in 1..(m + 1) PROVE Kept(ds, e, i, h[i - 1], h[i])
    <3>1. CASE i = m + 1
      <4>1. h[i - 1] = g[m] /\ h[i] = last
        BY <2>2, <3>1
      <4> QED BY <3>1, <4>1 DEF Kept
    <3>2. CASE i # m + 1
      <4>1. i \in 1..m
        BY <3>2
      <4>2. i - 1 \in 0..m /\ i \in 0..m
        BY <4>1
      <4>3. h[i - 1] = g[i - 1] /\ h[i] = g[i]
        BY <2>2, <4>2
      <4> QED BY <2>1, <4>1, <4>3 DEF Filters
    <3> QED BY <3>1, <3>2
  <2>5. Filters(ds, e, m + 1, h)
    BY <2>3, <2>4 DEF Filters
  <2>6. Ok(m + 1)
    BY <2>2, <2>5
  <2> QED BY <2>6
<1> HIDE DEF S
<1>3. Nat \subseteq S
  BY <1>1, <1>2, SetInduction
<1> USE DEF S
<1> QED BY <1>3

\* What Retained keeps: the diagnostics of other records, all of them.
LEMMA RetainedIs ==
    ASSUME NEW ds \in Seq(Entry), OneEach(ds), NEW e
    PROVE  Filtered(ds, e, Len(ds), Retained(ds, e))
<1> DEFINE Body(g) == [i \in 0..Len(ds) |->
                         IF i = 0 THEN <<>>
                         ELSE IF SameRecord(e, ds[i].ext) THEN g[i - 1]
                         ELSE Append(g[i - 1], ds[i])]
           F == CHOOSE g : g = Body(g)
<1>1. Len(ds) \in Nat
  BY LenProperties
<1>2. \E g : g = Body(g)
  <2>1. PICK g : DOMAIN g = 0..Len(ds) /\ g = [i \in 0..Len(ds) |-> g[i]]
                 /\ Filters(ds, e, Len(ds), g)
    BY <1>1, FilterExists
  <2>2. ASSUME NEW i \in 0..Len(ds) PROVE g[i] = Body(g)[i]
    <3>1. CASE i = 0
      BY <2>1, <3>1 DEF Filters
    <3>2. CASE i # 0
      <4>1. i \in 1..Len(ds)
        BY <1>1, <3>2
      <4>2. Kept(ds, e, i, g[i - 1], g[i])
        BY <2>1, <4>1 DEF Filters
      <4> QED BY <3>2, <4>2 DEF Kept
    <3> QED BY <3>1, <3>2
  <2>3. g = Body(g)
    BY <2>1, <2>2
  <2> QED BY <2>3
<1>3. F = Body(F)
  BY <1>2
<1>4. Retained(ds, e) = F[Len(ds)]
  BY DEF Retained
<1> HIDE DEF F
<1>5. F[0] = <<>> /\ \A i \in 1..Len(ds) : Kept(ds, e, i, F[i - 1], F[i])
  <2>1. F[0] = Body(F)[0]
    BY <1>3
  <2>2. F[0] = <<>>
    BY <1>1, <2>1
  <2>3. ASSUME NEW i \in 1..Len(ds) PROVE Kept(ds, e, i, F[i - 1], F[i])
    <3>1. i \in 0..Len(ds) /\ i # 0
      BY <1>1
    <3>2. F[i] = Body(F)[i]
      BY <1>3
    <3>3. Body(F)[i] = IF SameRecord(e, ds[i].ext) THEN F[i - 1] ELSE Append(F[i - 1], ds[i])
      BY <3>1
    <3> QED BY <3>2, <3>3 DEF Kept
  <2> QED BY <2>2, <2>3
<1> HIDE DEF Body
<1> DEFINE S == {n \in Nat : n <= Len(ds) => Filtered(ds, e, n, F[n])}
<1>6. 0 \in S
  <2>1. Filtered(ds, e, 0, <<>>)
    <3>1. Len(<<>>) = 0 /\ 1..0 = {} /\ <<>> \in Seq(Entry)
      OBVIOUS
    <3> QED BY <3>1 DEF Filtered, OneEach
  <2> QED BY <1>5, <2>1
<1>7. ASSUME NEW n \in Nat, n \in S PROVE n + 1 \in S
  <2> SUFFICES ASSUME n + 1 <= Len(ds) PROVE Filtered(ds, e, n + 1, F[n + 1])
    OBVIOUS
  <2>1. Filtered(ds, e, n, F[n])
    BY <1>1, <1>7
  <2>2. n + 1 \in 1..Len(ds) /\ (n + 1) - 1 = n
    BY <1>1
  <2>3. Kept(ds, e, n + 1, F[n], F[n + 1])
    BY <1>5, <2>2
  <2> QED BY <2>1, <2>3, FilteredStep
<1> HIDE DEF S
<1>8. Nat \subseteq S
  BY <1>6, <1>7, SetInduction
<1> USE DEF S
<1>9. Filtered(ds, e, Len(ds), F[Len(ds)])
  BY <1>1, <1>8
<1> QED BY <1>4, <1>9

-----------------------------------------------------------------------------
\* One diagnostic more.
LEMMA MoreDiags ==
    ASSUME NEW s, NEW r, s.diags \in Seq(Entry), NEW d \in Entry, r.diags = Append(s.diags, d)
    PROVE  /\ r.diags \in Seq(Entry)
           /\ ActiveIn(r) = ActiveIn(s) \cup (IF d.state = "active" THEN {d.ext} ELSE {})
           /\ OneEach(s.diags) /\ ~Mentions(s.diags, d.ext) => OneEach(r.diags)
           /\ \A i \in 1..Len(r.diags) : i \in 1..Len(s.diags) \/ r.diags[i] = d
           /\ \A i \in 1..Len(s.diags) : i \in 1..Len(r.diags) /\ r.diags[i] = s.diags[i]
           /\ \E i \in 1..Len(r.diags) : r.diags[i] = d
<1>1. /\ r.diags \in Seq(Entry) /\ Len(s.diags) \in Nat
      /\ Len(r.diags) = Len(s.diags) + 1 /\ r.diags[Len(s.diags) + 1] = d
      /\ \A i \in 1..Len(s.diags) : r.diags[i] = s.diags[i]
  BY AppendProperties, LenProperties
<1>2. \A i \in 1..Len(r.diags) : i \in 1..Len(s.diags) \/ i = Len(s.diags) + 1
  BY <1>1
<1>3. Len(s.diags) + 1 \in 1..Len(r.diags) /\ \A i \in 1..Len(s.diags) : i \in 1..Len(r.diags)
  BY <1>1
<1>4. ActiveIn(r) = ActiveIn(s) \cup (IF d.state = "active" THEN {d.ext} ELSE {})
  <2>1. ASSUME NEW e \in ActiveIn(r)
        PROVE  e \in ActiveIn(s) \/ (d.state = "active" /\ e = d.ext)
    <3>1. PICK i \in 1..Len(r.diags) : r.diags[i].state = "active" /\ r.diags[i].ext = e
      BY <2>1, ActiveIs
    <3>2. CASE i \in 1..Len(s.diags)
      BY <1>1, <3>1, <3>2, ActiveIs
    <3>3. CASE i = Len(s.diags) + 1
      BY <1>1, <3>1, <3>3
    <3> QED BY <1>2, <3>2, <3>3
  <2>2. ASSUME NEW e \in ActiveIn(s) PROVE e \in ActiveIn(r)
    <3>1. PICK i \in 1..Len(s.diags) : s.diags[i].state = "active" /\ s.diags[i].ext = e
      BY <2>2, ActiveIs
    <3> QED BY <1>1, <1>3, <3>1, ActiveIs
  <2>3. d.state = "active" => d.ext \in ActiveIn(r)
    BY <1>1, <1>3, ActiveIs
  <2> QED BY <2>1, <2>2, <2>3
<1>5. ASSUME OneEach(s.diags), ~Mentions(s.diags, d.ext) PROVE OneEach(r.diags)
  <2>1. \A i \in 1..Len(s.diags) : s.diags[i].ext # d.ext
    BY <1>5 DEF Mentions
  <2> SUFFICES ASSUME NEW i \in 1..Len(r.diags), NEW j \in 1..Len(r.diags),
                      r.diags[i].ext = r.diags[j].ext
               PROVE  i = j
    BY DEF OneEach
  <2>2. CASE i \in 1..Len(s.diags) /\ j \in 1..Len(s.diags)
    BY <1>1, <1>5, <2>2 DEF OneEach
  <2>3. CASE i = Len(s.diags) + 1
    BY <1>1, <1>2, <2>1, <2>3
  <2>4. CASE j = Len(s.diags) + 1
    BY <1>1, <1>2, <2>1, <2>4
  <2> QED BY <1>2, <2>2, <2>3, <2>4
<1>6. \A i \in 1..Len(r.diags) : i \in 1..Len(s.diags) \/ r.diags[i] = d
  BY <1>1, <1>2
<1> QED BY <1>1, <1>3, <1>4, <1>5, <1>6

\* The diagnostics of a good snapshot.
LEMMA DiagsAre ==
    ASSUME NEW s, GoodSnap(s)
    PROVE  /\ s.diags \in Seq(Entry) /\ OneEach(s.diags) /\ Len(s.diags) \in Nat
           /\ \A i \in 1..Len(s.diags) :
                /\ s.diags[i] \in Entry /\ s.diags[i].ext \in Exts
                /\ s.diags[i].gen \in Nat /\ s.diags[i].state \in States
<1>1. s.diags \in Seq(Entry) /\ OneEach(s.diags)
  BY DEF GoodSnap, Parts
<1>2. Len(s.diags) \in Nat /\ \A i \in 1..Len(s.diags) : s.diags[i] \in Entry
  BY <1>1, LenProperties, ElementOfSeq
<1>3. \A d \in Entry : d.ext \in Exts /\ d.gen \in Nat /\ d.state \in States
  BY DEF Entry
<1> QED BY <1>1, <1>2, <1>3

\* What is not active is not routed.
LEMMA NotRouted ==
    ASSUME NEW s, GoodSnap(s), NEW e \in Exts, e \notin ActiveIn(s)
    PROVE  s.exec[e] = 0
  BY DEF GoodSnap, Agrees, Routed

\* What no diagnostic mentions is not active.
LEMMA NotMentioned ==
    ASSUME NEW s, NEW e, ~Mentions(s.diags, e)
    PROVE  e \notin ActiveIn(s)
  BY ActiveIs DEF Mentions

\* A diagnostic that is not active changes nothing else.
LEMMA MarkGood ==
    ASSUME NEW s, GoodSnap(s), NEW e \in Exts, ~Mentions(s.diags, e), e \notin s.tools,
           NEW state \in States, state # "active", NEW gen \in Nat
    PROVE  /\ GoodSnap(Mark(s, e, state, gen))
           /\ Mark(s, e, state, gen).diags = Append(s.diags, Diag(e, state, gen))
           /\ Mark(s, e, state, gen).exec = s.exec /\ Mark(s, e, state, gen).tools = s.tools
           /\ Mark(s, e, state, gen).reviewer = s.reviewer
           /\ Mark(s, e, state, gen).cell = s.cell
           /\ ActiveIn(Mark(s, e, state, gen)) = ActiveIn(s)
<1>1. PICK d : d = Diag(e, state, gen)
  OBVIOUS
<1>2. d \in Entry /\ d.ext = e /\ d.state = state /\ d.gen = gen
  BY <1>1 DEF Diag, Entry
<1>3. PICK r : r = Mark(s, e, state, gen)
  OBVIOUS
<1>4. s \in Parts /\ s.diags \in Seq(Entry) /\ OneEach(s.diags) /\ Agrees(s)
  BY DEF GoodSnap, Parts
<1>5. /\ r.diags = Append(s.diags, d) /\ r.exec = s.exec /\ r.reviewer = s.reviewer
      /\ r.cell = s.cell /\ r.tools = s.tools
  BY <1>1, <1>3, <1>4 DEF Mark, Parts
<1>6. /\ r.diags \in Seq(Entry) /\ OneEach(r.diags)
      /\ ActiveIn(r) = ActiveIn(s) \cup (IF d.state = "active" THEN {d.ext} ELSE {})
  <2>1. ~Mentions(s.diags, d.ext) /\ d \in Entry /\ r.diags = Append(s.diags, d)
        /\ s.diags \in Seq(Entry) /\ OneEach(s.diags)
    BY <1>2, <1>4, <1>5
  <2>2. r.diags \in Seq(Entry)
    BY <2>1, MoreDiags
  <2>3. OneEach(r.diags)
    BY <2>1, MoreDiags
  <2>4. ActiveIn(r) = ActiveIn(s) \cup (IF d.state = "active" THEN {d.ext} ELSE {})
    BY <2>1, MoreDiags
  <2> QED BY <2>2, <2>3, <2>4
<1>7. ActiveIn(r) = ActiveIn(s)
  BY <1>2, <1>6
<1>8. r \in Parts
  BY <1>1, <1>3, <1>4, <1>5, <1>6 DEF Mark, Parts
<1>9. Agrees(r)
  <2>1. Routed(r) = Routed(s)
    BY <1>5 DEF Routed
  <2>2. \A f : f # e /\ ~Mentions(s.diags, f) => ~Mentions(r.diags, f)
    <3>1. /\ \A i \in 1..Len(r.diags) : i \in 1..Len(s.diags) \/ r.diags[i] = d
          /\ \A i \in 1..Len(s.diags) : r.diags[i] = s.diags[i]
      BY <1>2, <1>4, <1>5, MoreDiags
    <3> QED BY <1>2, <3>1 DEF Mentions
  <2> QED BY <1>4, <1>5, <1>7, <2>1, <2>2 DEF Agrees
<1> QED BY <1>1, <1>3, <1>5, <1>6, <1>7, <1>8, <1>9 DEF GoodSnap

\* An activated extension is active, and registered and routed unless it is a
\* reviewer.
LEMMA ActivateGood ==
    ASSUME NEW s, GoodSnap(s), NEW e \in Exts, ~Mentions(s.diags, e), e \notin s.tools,
           NEW gen \in Nat, NEW h \in Nat, h # 0, Reviewers \subseteq Exts
    PROVE  /\ GoodSnap(Activate(s, e, gen, h))
           /\ Activate(s, e, gen, h).diags
                = Append(s.diags, Diag(e, "active", IF gen = 0 THEN 1 ELSE gen))
           /\ \A f \in Exts : f # e => Activate(s, e, gen, h).exec[f] = s.exec[f]
           /\ Activate(s, e, gen, h).reviewer =
                IF e \in Reviewers THEN [ext |-> e, gen |-> gen, host |-> h] ELSE s.reviewer
           /\ Activate(s, e, gen, h).cell = s.cell
           /\ Activate(s, e, gen, h).tools \subseteq s.tools \cup {e}
           /\ ActiveIn(Activate(s, e, gen, h)) = ActiveIn(s) \cup {e}
<1>1. PICK d : d = Diag(e, "active", IF gen = 0 THEN 1 ELSE gen)
  OBVIOUS
<1>2. d \in Entry /\ d.ext = e /\ d.state = "active"
  BY <1>1 DEF Diag, Entry, States
<1>3. PICK r : r = Activate(s, e, gen, h)
  OBVIOUS
<1>4. /\ s \in Parts /\ s.diags \in Seq(Entry) /\ OneEach(s.diags) /\ Agrees(s)
      /\ s.tools \subseteq Exts /\ s.exec \in [Exts -> Nat] /\ s.reviewer \in Seat
      /\ s.cell \in {0, 1}
  BY DEF GoodSnap, Parts
<1>5. /\ r = [diags |-> r.diags, tools |-> r.tools, exec |-> r.exec,
              reviewer |-> r.reviewer, cell |-> r.cell]
      /\ r.diags = Append(s.diags, d) /\ r.cell = s.cell
      /\ r.tools = IF e \in Reviewers THEN s.tools ELSE s.tools \cup {e}
      /\ r.reviewer = IF e \in Reviewers THEN [ext |-> e, gen |-> gen, host |-> h]
                                         ELSE s.reviewer
  BY <1>1, <1>3, <1>4 DEF Activate, Parts
<1>6. r.exec = [s.exec EXCEPT ![e] = IF e \in Reviewers THEN @ ELSE h]
  BY <1>3, <1>4 DEF Activate, Parts
<1>7. /\ r.exec \in [Exts -> Nat] /\ \A f \in Exts : f # e => r.exec[f] = s.exec[f]
      /\ r.exec[e] = IF e \in Reviewers THEN s.exec[e] ELSE h
  BY <1>4, <1>6
<1>8. /\ r.diags \in Seq(Entry) /\ OneEach(r.diags)
      /\ ActiveIn(r) = ActiveIn(s) \cup (IF d.state = "active" THEN {d.ext} ELSE {})
  <2>1. ~Mentions(s.diags, d.ext) /\ d \in Entry /\ r.diags = Append(s.diags, d)
        /\ s.diags \in Seq(Entry) /\ OneEach(s.diags)
    BY <1>2, <1>4, <1>5
  <2>2. r.diags \in Seq(Entry)
    BY <2>1, MoreDiags
  <2>3. OneEach(r.diags)
    BY <2>1, MoreDiags
  <2>4. ActiveIn(r) = ActiveIn(s) \cup (IF d.state = "active" THEN {d.ext} ELSE {})
    BY <2>1, MoreDiags
  <2> QED BY <2>2, <2>3, <2>4
<1>9. ActiveIn(r) = ActiveIn(s) \cup {e}
  BY <1>2, <1>8
<1>10. r.reviewer \in Seat
  BY <1>4, <1>5 DEF Seat
<1>11. r.tools \in SUBSET Exts
  BY <1>4, <1>5
<1>12. r \in Parts
  BY <1>4, <1>5, <1>7, <1>8, <1>10, <1>11 DEF Parts
<1>13. Agrees(r)
  <2>1. e \notin Routed(s)
    BY <1>4 DEF Agrees
  <2>2. s.exec[e] = 0
    BY <2>1 DEF Routed
  <2>3. Routed(r) = IF e \in Reviewers THEN Routed(s) ELSE Routed(s) \cup {e}
    BY <1>7, <2>2 DEF Routed
  <2>4. \A f : f # e /\ ~Mentions(s.diags, f) => ~Mentions(r.diags, f)
    <3>1. /\ \A i \in 1..Len(r.diags) : i \in 1..Len(s.diags) \/ r.diags[i] = d
          /\ \A i \in 1..Len(s.diags) : r.diags[i] = s.diags[i]
      BY <1>2, <1>4, <1>5, MoreDiags
    <3> QED BY <1>2, <3>1 DEF Mentions
  <2>5. Routed(r) = ActiveIn(r) \ Reviewers /\ Routed(r) \subseteq r.tools
    BY <1>4, <1>5, <1>9, <2>3 DEF Agrees
  <2>6. \A f \in r.tools \ Routed(r) : f # e /\ f \in s.tools \ Routed(s)
    BY <1>5, <2>3
  <2>7. \A f \in r.tools \ Routed(r) : ~Alone(f) /\ ~Mentions(r.diags, f)
    BY <1>4, <2>4, <2>6 DEF Agrees
  <2> QED BY <2>5, <2>7 DEF Agrees
<1> QED BY <1>1, <1>3, <1>5, <1>7, <1>8, <1>9, <1>12, <1>13 DEF GoodSnap

\* What Activate makes of a snapshot.
Activated(s, r, e, gen, h) ==
    /\ GoodSnap(r) /\ r.cell = s.cell
    /\ r.diags = Append(s.diags, Diag(e, "active", IF gen = 0 THEN 1 ELSE gen))
    /\ \A f \in Exts : f # e => r.exec[f] = s.exec[f]
    /\ r.tools \subseteq s.tools \cup {e}
    /\ r.reviewer = IF e \in Reviewers THEN [ext |-> e, gen |-> gen, host |-> h]
                                       ELSE s.reviewer

\* ActivateGood, as one predicate.
LEMMA ActivateDoes ==
    ASSUME NEW s, GoodSnap(s), NEW e \in Exts, ~Mentions(s.diags, e), e \notin s.tools,
           NEW gen \in Nat, NEW h \in Nat, h # 0, Reviewers \subseteq Exts
    PROVE  Activated(s, Activate(s, e, gen, h), e, gen, h)
  BY ActivateGood DEF Activated

\* A stopped extension is not active, not registered and not routed.
LEMMA StopGood ==
    ASSUME NEW s, GoodSnap(s), NEW e \in Exts
    PROVE  /\ GoodSnap(Stop(s, e))
           /\ Len(Stop(s, e).diags) = Len(s.diags)
           /\ \A i \in 1..Len(s.diags) :
                Stop(s, e).diags[i] =
                  IF s.diags[i].ext = e /\ s.diags[i].state = "active"
                    THEN Diag(e, "stopped", s.diags[i].gen + 1) ELSE s.diags[i]
           /\ \A f \in Exts : Stop(s, e).exec[f] = IF f = e THEN 0 ELSE s.exec[f]
           /\ Stop(s, e).reviewer = IF s.reviewer.ext = e THEN NoReviewer ELSE s.reviewer
           /\ Stop(s, e).cell = s.cell
           /\ ActiveIn(Stop(s, e)) = ActiveIn(s) \ {e}
<1>1. /\ s \in Parts /\ s.diags \in Seq(Entry) /\ OneEach(s.diags) /\ Agrees(s)
      /\ s.tools \subseteq Exts /\ s.exec \in [Exts -> Nat] /\ s.reviewer \in Seat
      /\ s.cell \in {0, 1} /\ Len(s.diags) \in Nat
  BY LenProperties DEF GoodSnap, Parts
<1>2. PICK r : r = Stop(s, e)
  OBVIOUS
<1>3. PICK ds : ds = [i \in 1..Len(s.diags) |->
                        IF s.diags[i].ext = e /\ s.diags[i].state = "active"
                          THEN Diag(e, "stopped", s.diags[i].gen + 1) ELSE s.diags[i]]
  OBVIOUS
<1>4. /\ r = [diags |-> r.diags, tools |-> r.tools, exec |-> r.exec,
              reviewer |-> r.reviewer, cell |-> r.cell]
      /\ r.diags = ds /\ r.cell = s.cell /\ r.tools = s.tools \ {e}
      /\ r.reviewer = IF s.reviewer.ext = e THEN NoReviewer ELSE s.reviewer
      /\ r.exec = [s.exec EXCEPT ![e] = 0]
  BY <1>1, <1>2, <1>3 DEF Stop, Parts
<1>5. \A f \in Exts : r.exec[f] = IF f = e THEN 0 ELSE s.exec[f]
  BY <1>1, <1>4
<1>6. r.exec \in [Exts -> Nat]
  BY <1>1, <1>4
<1>7. \A i \in 1..Len(s.diags) : s.diags[i] \in Entry
  BY <1>1
<1>8. \A i \in 1..Len(s.diags) : ds[i] \in Entry /\ ds[i].ext = s.diags[i].ext
  <2> SUFFICES ASSUME NEW i \in 1..Len(s.diags)
               PROVE  ds[i] \in Entry /\ ds[i].ext = s.diags[i].ext
    OBVIOUS
  <2>1. s.diags[i].gen + 1 \in Nat
    BY <1>7 DEF Entry
  <2>2. /\ Diag(e, "stopped", s.diags[i].gen + 1) \in Entry
        /\ Diag(e, "stopped", s.diags[i].gen + 1).ext = e
    BY <2>1 DEF Diag, Entry, States
  <2> QED BY <1>3, <1>7, <2>2
<1>9. ds \in Seq(Entry) /\ Len(ds) = Len(s.diags)
  <2>1. ds \in [1..Len(s.diags) -> Entry]
    BY <1>3, <1>8
  <2> QED BY <1>1, <2>1
<1>10. OneEach(ds)
  BY <1>1, <1>8, <1>9 DEF OneEach
<1>11. ActiveIn(r) = ActiveIn(s) \ {e}
  <2>1. ASSUME NEW f \in ActiveIn(r) PROVE f \in ActiveIn(s) /\ f # e
    <3>1. PICK i \in 1..Len(s.diags) : ds[i].state = "active" /\ ds[i].ext = f
      BY <1>4, <1>9, <2>1, ActiveIs
    <3>2. ~(s.diags[i].ext = e /\ s.diags[i].state = "active")
      BY <1>3, <3>1 DEF Diag
    <3>3. ds[i] = s.diags[i]
      BY <1>3, <3>2
    <3> QED BY <3>1, <3>2, <3>3, ActiveIs
  <2>2. ASSUME NEW f \in ActiveIn(s), f # e PROVE f \in ActiveIn(r)
    <3>1. PICK i \in 1..Len(s.diags) : s.diags[i].state = "active" /\ s.diags[i].ext = f
      BY <2>2, ActiveIs
    <3>2. ds[i] = s.diags[i] /\ i \in 1..Len(r.diags)
      BY <1>3, <1>4, <1>9, <2>2, <3>1
    <3> QED BY <1>4, <3>1, <3>2, ActiveIs
  <2> QED BY <2>1, <2>2
<1>12. r.reviewer \in Seat
  BY <1>1, <1>4 DEF Seat, NoReviewer
<1>13. r.tools \in SUBSET Exts
  BY <1>1, <1>4
<1>14. r \in Parts
  BY <1>1, <1>4, <1>6, <1>9, <1>12, <1>13 DEF Parts
<1>15. Agrees(r)
  <2>1. Routed(r) = Routed(s) \ {e}
    BY <1>5 DEF Routed
  <2>2. \A f : ~Mentions(s.diags, f) => ~Mentions(r.diags, f)
    BY <1>4, <1>8, <1>9 DEF Mentions
  <2>3. Routed(r) = ActiveIn(r) \ Reviewers /\ Routed(r) \subseteq r.tools
    BY <1>1, <1>4, <1>11, <2>1 DEF Agrees
  <2>4. \A f \in r.tools \ Routed(r) : f \in s.tools \ Routed(s)
    BY <1>4, <2>1
  <2> QED BY <1>1, <2>2, <2>3, <2>4 DEF Agrees
<1>16. GoodSnap(r)
  BY <1>4, <1>10, <1>14, <1>15 DEF GoodSnap
<1> QED BY <1>2, <1>3, <1>4, <1>5, <1>9, <1>11, <1>16

\* What Retire makes of a snapshot: the extension is gone with the others of its record,
\* but for their tools; what is of other records stays.
Retired(s, r, e) ==
    /\ GoodSnap(r) /\ ~Mentions(r.diags, e) /\ e \notin r.tools
    /\ \A k \in 1..Len(r.diags) : \E i \in 1..Len(s.diags) :
         r.diags[k] = s.diags[i] /\ ~SameRecord(e, s.diags[i].ext)
    /\ \A i \in 1..Len(s.diags) : ~SameRecord(e, s.diags[i].ext) =>
         \E k \in 1..Len(r.diags) : r.diags[k] = s.diags[i]
    /\ \A f \in Exts : r.exec[f] = IF SameRecord(e, f) THEN 0 ELSE s.exec[f]
    /\ r.reviewer = s.reviewer /\ r.cell = s.cell
    /\ ActiveIn(r) = {f \in ActiveIn(s) : ~SameRecord(e, f)}

\* A retired extension leaves a good snapshot.
LEMMA RetireGood ==
    ASSUME NEW s, GoodSnap(s), NEW e \in Exts
    PROVE  Retired(s, Retire(s, e), e)
<1>1. /\ s \in Parts /\ s.diags \in Seq(Entry) /\ OneEach(s.diags) /\ Agrees(s)
      /\ s.tools \subseteq Exts /\ s.exec \in [Exts -> Nat] /\ s.reviewer \in Seat
      /\ s.cell \in {0, 1} /\ Len(s.diags) \in Nat
  BY LenProperties DEF GoodSnap, Parts
<1>2. PICK r : r = Retire(s, e)
  OBVIOUS
<1>3. PICK ds : ds = Retained(s.diags, e)
  OBVIOUS
<1>4. /\ r = [diags |-> r.diags, tools |-> r.tools, exec |-> r.exec,
              reviewer |-> r.reviewer, cell |-> r.cell]
      /\ r.diags = ds /\ r.cell = s.cell /\ r.tools = s.tools \ {e}
      /\ r.reviewer = s.reviewer
      /\ r.exec = [f \in Exts |-> IF SameRecord(e, f) THEN 0 ELSE s.exec[f]]
  BY <1>1, <1>2, <1>3 DEF Retire, Parts
<1>5. \A f \in Exts : r.exec[f] = IF SameRecord(e, f) THEN 0 ELSE s.exec[f]
  BY <1>4
<1>6. r.exec \in [Exts -> Nat]
  BY <1>1, <1>4
<1>7. Filtered(s.diags, e, Len(s.diags), ds)
  BY <1>1, <1>3, RetainedIs
<1>8. SameRecord(e, e)
  BY DEF SameRecord
<1>9. \A k \in 1..Len(ds) : \E i \in 1..Len(s.diags) :
        ds[k] = s.diags[i] /\ ~SameRecord(e, s.diags[i].ext)
  BY <1>7 DEF Filtered
<1>10. \A i \in 1..Len(s.diags) : ~SameRecord(e, s.diags[i].ext) =>
         \E k \in 1..Len(ds) : ds[k] = s.diags[i]
  BY <1>7 DEF Filtered
<1>11. ds \in Seq(Entry) /\ OneEach(ds)
  BY <1>7 DEF Filtered
<1>12. ~Mentions(ds, e) /\ \A f : ~Mentions(s.diags, f) => ~Mentions(ds, f)
  BY <1>8, <1>9 DEF Mentions
<1>13. ActiveIn(r) = {f \in ActiveIn(s) : ~SameRecord(e, f)}
  <2>1. ASSUME NEW f \in ActiveIn(r) PROVE f \in ActiveIn(s) /\ ~SameRecord(e, f)
    <3>1. PICK k \in 1..Len(ds) : ds[k].state = "active" /\ ds[k].ext = f
      BY <1>4, <2>1, ActiveIs
    <3>2. PICK i \in 1..Len(s.diags) : ds[k] = s.diags[i] /\ ~SameRecord(e, s.diags[i].ext)
      BY <1>9
    <3> QED BY <3>1, <3>2, ActiveIs
  <2>2. ASSUME NEW f \in ActiveIn(s), ~SameRecord(e, f) PROVE f \in ActiveIn(r)
    <3>1. PICK i \in 1..Len(s.diags) : s.diags[i].state = "active" /\ s.diags[i].ext = f
      BY <2>2, ActiveIs
    <3>2. PICK k \in 1..Len(ds) : ds[k] = s.diags[i]
      BY <1>10, <2>2, <3>1
    <3> QED BY <1>4, <3>1, <3>2, ActiveIs
  <2> QED BY <2>1, <2>2
<1>14. r.tools \in SUBSET Exts
  BY <1>1, <1>4
<1>15. r \in Parts
  BY <1>1, <1>4, <1>6, <1>11, <1>14 DEF Parts
<1>16. Agrees(r)
  <2>1. Routed(r) = {f \in Routed(s) : ~SameRecord(e, f)}
    BY <1>5 DEF Routed
  <2>2. Routed(r) = ActiveIn(r) \ Reviewers /\ Routed(r) \subseteq r.tools
    BY <1>1, <1>4, <1>8, <1>13, <2>1 DEF Agrees
  <2>3. ASSUME NEW f \in r.tools \ Routed(r) PROVE ~Alone(f) /\ ~Mentions(ds, f)
    <3>1. f \in s.tools /\ f # e /\ f \in Exts
      BY <1>1, <1>4
    <3>2. CASE f \in Routed(s)
      <4>1. SameRecord(e, f)
        BY <2>1, <3>2
      <4>2. ~Alone(f)
        BY <3>1, <4>1 DEF Alone, SameRecord
      <4>3. ~Mentions(ds, f)
        BY <1>9, <4>1 DEF Mentions
      <4> QED BY <4>2, <4>3
    <3>3. CASE f \notin Routed(s)
      BY <1>1, <1>12, <3>1, <3>3 DEF Agrees
    <3> QED BY <3>2, <3>3
  <2> QED BY <1>4, <2>2, <2>3 DEF Agrees
<1>17. GoodSnap(r)
  BY <1>4, <1>11, <1>15, <1>16 DEF GoodSnap
<1>18. e \notin r.tools
  BY <1>4
<1> QED BY <1>2, <1>4, <1>5, <1>9, <1>10, <1>12, <1>13, <1>17, <1>18 DEF Retired

\* One number more, and the largest is that one or the one before.
LEMMA LargerOf ==
    ASSUME NEW S, NEW T, NEW x \in Nat, S \subseteq Nat, T = S \/ T = S \cup {x},
           NEW m \in S, \A y \in S : y <= m
    PROVE  \E n \in T : \A y \in T : y <= n
<1>1. m \in Nat
  OBVIOUS
<1>2. CASE T = S
  BY <1>2
<1>3. CASE T = S \cup {x} /\ x <= m
  <2>1. m \in T /\ \A y \in T : y <= m
    BY <1>3
  <2> QED BY <2>1
<1>4. CASE T = S \cup {x} /\ ~(x <= m)
  <2>1. x \in T /\ \A y \in T : y <= x
    <3>1. x \in T
      BY <1>4
    <3>2. ASSUME NEW y \in T PROVE y <= x
      <4>1. CASE y = x
        BY <4>1
      <4>2. CASE y \in S
        <5>1. y \in Nat /\ y <= m
          BY <4>2
        <5> QED BY <1>1, <1>4, <5>1
      <4> QED BY <1>4, <3>2, <4>1, <4>2
    <3> QED BY <3>1, <3>2
  <2> QED BY <2>1
<1> QED BY <1>2, <1>3, <1>4

\* The generations of finitely many diagnostics, and 0, have a largest.
LEMMA LargestIs ==
    ASSUME NEW ds, NEW n \in Nat, \A i \in 1..n : ds[i].gen \in Nat, NEW J, J \subseteq 1..n,
           NEW S, S = {0} \cup {ds[i].gen : i \in J}
    PROVE  Max(S) \in Nat /\ \A x \in S : x <= Max(S)
<1>0. \A j \in J : j \in Nat /\ 1 <= j /\ j <= n
  <2>1. \A j \in 1..n : j \in Nat /\ 1 <= j /\ j <= n
    OBVIOUS
  <2> QED BY <2>1, Zenon
<1> DEFINE T(m) == {0} \cup {ds[i].gen : i \in {j \in J : j <= m}}
           Ok(m) == m <= n => T(m) \subseteq Nat /\ \E x \in T(m) : \A y \in T(m) : y <= x
           U == {m \in Nat : Ok(m)}
<1>1. 0 \in U
  <2>1. {j \in J : j <= 0} = {}
    <3>1. \A j \in J : ~(j <= 0)
      BY <1>0
    <3> QED BY <3>1
  <2>2. T(0) = {0}
    BY <2>1
  <2> HIDE DEF T
  <2>3. T(0) \subseteq Nat /\ \E x \in T(0) : \A y \in T(0) : y <= x
    BY <2>2
  <2> QED BY <2>3
<1>2. ASSUME NEW m \in Nat, m \in U PROVE m + 1 \in U
  <2>0. m + 1 \in Nat
    OBVIOUS
  <2> HIDE DEF T
  <2> SUFFICES ASSUME m + 1 <= n
               PROVE  T(m + 1) \subseteq Nat /\ \E x \in T(m + 1) : \A y \in T(m + 1) : y <= x
    BY <2>0, Zenon
  <2>1. T(m) \subseteq Nat /\ \E x \in T(m) : \A y \in T(m) : y <= x
    <3>1. m <= n
      OBVIOUS
    <3> QED BY <1>2, <3>1, Zenon
  <2> USE DEF T
  <2>2. m + 1 \in 1..n
    OBVIOUS
  <2>3. PICK g \in Nat : g = ds[m + 1].gen
    BY <2>2
  <2>4. T(m + 1) = T(m) \/ T(m + 1) = T(m) \cup {g}
    <3>1. CASE m + 1 \in J
      <4>1. {j \in J : j <= m + 1} = {j \in J : j <= m} \cup {m + 1}
        <5>1. \A j \in J : j <= m + 1 <=> j <= m \/ j = m + 1
          BY <1>0
        <5> QED BY <3>1, <5>1
      <4> QED BY <2>3, <4>1
    <3>2. CASE m + 1 \notin J
      <4>1. {j \in J : j <= m + 1} = {j \in J : j <= m}
        <5>1. \A j \in J : j <= m + 1 <=> j <= m
          BY <1>0, <3>2
        <5> QED BY <5>1
      <4> QED BY <4>1
    <3> QED BY <3>1, <3>2
  <2> HIDE DEF T
  <2>5. T(m + 1) \subseteq Nat
    BY <2>1, <2>3, <2>4
  <2>6. PICK A : A = T(m)
    OBVIOUS
  <2>7. PICK B : B = T(m + 1)
    OBVIOUS
  <2>8. PICK x \in A : \A y \in A : y <= x
    BY <2>1, <2>6
  <2>9. A \subseteq Nat /\ (B = A \/ B = A \cup {g})
    BY <2>1, <2>4, <2>6, <2>7
  <2>10. \E z \in B : \A y \in B : y <= z
    BY <2>8, <2>9, LargerOf
  <2> QED BY <2>5, <2>7, <2>10
<1> HIDE DEF U
<1>3. Nat \subseteq U
  BY <1>1, <1>2, SetInduction
<1> USE DEF U
<1>4. T(n) \subseteq Nat /\ \E x \in T(n) : \A y \in T(n) : y <= x
  <2> HIDE DEF T
  <2>1. \A m \in Nat : Ok(m)
    BY <1>3
  <2>2. Ok(n)
    BY <2>1
  <2> QED BY <2>2
<1>5. T(n) = S
  <2>1. {j \in J : j <= n} = J
    <3>1. \A j \in J : j <= n
      BY <1>0
    <3> QED BY <3>1
  <2> QED BY <2>1
<1> HIDE DEF T, U
<1>6. S \subseteq Nat /\ \E x \in S : \A y \in S : x >= y
  BY <1>4, <1>5
<1>7. Max(S) \in S /\ \A y \in S : Max(S) >= y
  BY <1>6 DEF Max
<1> QED BY <1>6, <1>7

\* The next generation is above that of every diagnostic of the record.
LEMMA NextGenIs ==
    ASSUME NEW s, GoodSnap(s), NEW e \in Exts
    PROVE  /\ NextGen(s, e) \in Nat /\ NextGen(s, e) > 0
           /\ \A i \in 1..Len(s.diags) : SameRecord(e, s.diags[i].ext) =>
                s.diags[i].gen < NextGen(s, e)
<1>1. /\ Len(s.diags) \in Nat
      /\ \A i \in 1..Len(s.diags) : s.diags[i].gen \in Nat
  BY DiagsAre
<1> DEFINE J == {j \in 1..Len(s.diags) : SameRecord(e, s.diags[j].ext)}
           S == {0} \cup {s.diags[i].gen : i \in J}
<1>2. J \subseteq 1..Len(s.diags)
  OBVIOUS
<1>3. NextGen(s, e) = 1 + Max(S)
  BY DEF NextGen
<1>4. \A i \in 1..Len(s.diags) : SameRecord(e, s.diags[i].ext) => s.diags[i].gen \in S
  OBVIOUS
<1>5. PICK A : A = S
  OBVIOUS
<1>6. PICK K : K = J
  OBVIOUS
<1>7. A = {0} \cup {s.diags[i].gen : i \in K} /\ K \subseteq 1..Len(s.diags)
  BY <1>2, <1>5, <1>6
<1> HIDE DEF S, J
<1>8. Max(A) \in Nat /\ \A x \in A : x <= Max(A)
  BY <1>1, <1>7, LargestIs
<1>9. PICK m \in Nat : m = Max(S)
  BY <1>5, <1>8
<1>10. \A i \in 1..Len(s.diags) : SameRecord(e, s.diags[i].ext) => s.diags[i].gen <= m
  BY <1>4, <1>5, <1>8, <1>9
<1> QED BY <1>1, <1>3, <1>9, <1>10

\* A set of positions has a first.
LEMMA FirstIs ==
    ASSUME NEW n \in Nat, NEW H, H \subseteq 1..n, H # {}
    PROVE  Min(H) \in H
<1>1. H \subseteq Nat
  OBVIOUS
<1>2. PICK x \in H : \A y \in H : ~(<<y, x>> \in OpToRel(<, Nat))
  BY <1>1, NatLessThanWellFounded, WFMin
<1>3. x \in Nat /\ \A y \in H : y \in Nat /\ ~(y < x)
  BY <1>1, <1>2 DEF OpToRel
<1>4. \A y \in H : x <= y
  BY <1>3
<1> QED BY <1>4 DEF Min

\* What stop_extension finds is an extension the selector names, and it is active.
LEMMA TargetIs ==
    ASSUME NEW s, GoodSnap(s), NEW e \in Exts, NEW sel, Stoppable(s, sel, e)
    PROVE  /\ Target(s, sel, e) \in Exts /\ (sel = "id" => Target(s, sel, e) = e)
           /\ \E i \in 1..Len(s.diags) :
                s.diags[i].ext = Target(s, sel, e) /\ s.diags[i].state = "active"
<1> DEFINE H == {j \in 1..Len(s.diags) : Selects(sel, e, s.diags[j].ext)}
<1>1. H # {} /\ s.diags[Min(H)].state = "active"
  BY DEF Stoppable
<1>2. Len(s.diags) \in Nat /\ \A i \in 1..Len(s.diags) : s.diags[i].ext \in Exts
  BY DiagsAre
<1>3. PICK K : K = H /\ K \subseteq 1..Len(s.diags) /\ K # {}
  BY <1>1
<1>4. Min(K) \in K
  BY <1>2, <1>3, FirstIs
<1>5. Min(H) \in 1..Len(s.diags) /\ Selects(sel, e, s.diags[Min(H)].ext)
  BY <1>3, <1>4
<1>6. Target(s, sel, e) = s.diags[Min(H)].ext
  BY DEF Target
<1> HIDE DEF H
<1>7. sel = "id" => s.diags[Min(H)].ext = e
  BY <1>5 DEF Selects
<1> QED BY <1>1, <1>2, <1>5, <1>6, <1>7

\* What cannot be stopped by its id is not active.
LEMMA NotStoppable ==
    ASSUME NEW s, GoodSnap(s), NEW e \in Exts, ~Stoppable(s, "id", e)
    PROVE  e \notin ActiveIn(s)
<1> SUFFICES ASSUME e \in ActiveIn(s) PROVE FALSE
  OBVIOUS
<1> DEFINE H == {j \in 1..Len(s.diags) : Selects("id", e, s.diags[j].ext)}
<1>1. PICK i \in 1..Len(s.diags) : s.diags[i].state = "active" /\ s.diags[i].ext = e
  BY ActiveIs
<1>2. i \in H /\ \A j \in H : j \in 1..Len(s.diags) /\ s.diags[j].ext = e
  BY <1>1 DEF Selects
<1>3. Len(s.diags) \in Nat /\ OneEach(s.diags)
  BY DiagsAre
<1>4. PICK K : K = H /\ K \subseteq 1..Len(s.diags) /\ K # {}
  BY <1>2
<1>5. Min(K) \in K
  BY <1>3, <1>4, FirstIs
<1>6. Min(H) = i
  BY <1>1, <1>2, <1>3, <1>4, <1>5 DEF OneEach
<1> QED BY <1>1, <1>2, <1>6 DEF Stoppable

\* A selector names a record of the index.
LEMMA RecordIs ==
    ASSUME ExtensionAssumption, NEW sel, NEW e \in Exts
    PROVE  Record(sel, e) \in Exts /\ (sel = "id" => Record(sel, e) = e)
<1>1. CASE sel \notin {"source", "root"}
  BY <1>1 DEF Record
<1>2. CASE sel \in {"source", "root"}
  <2> DEFINE H == {i \in 1..Len(Order) : Selects(sel, e, Order[i])}
  <2>1. Order \in Seq(Exts) /\ Len(Order) \in Nat /\ \A i \in 1..Len(Order) : Order[i] \in Exts
    BY LenProperties, ElementOfSeq DEF ExtensionAssumption
  <2>2. PICK i \in 1..Len(Order) : Order[i] = e
    <3>1. Exts = {Order[j] : j \in DOMAIN Order}
      BY DEF Exts, Range
    <3>2. DOMAIN Order = 1..Len(Order)
      BY <2>1
    <3> QED BY <3>1, <3>2
  <2>3. PICK K : K = H /\ K \subseteq 1..Len(Order) /\ K # {}
    <3>1. i \in H
      BY <1>2, <2>2 DEF Selects
    <3> QED BY <3>1
  <2>4. Min(K) \in K
    BY <2>1, <2>3, FirstIs
  <2>5. Order[Min(H)] \in Exts
    BY <2>1, <2>3, <2>4
  <2>6. Record(sel, e) = Order[Min(H)]
    BY <1>2 DEF Record
  <2> QED BY <1>2, <2>5, <2>6
<1> QED BY <1>1, <1>2

\* Being of the same record is symmetric and transitive.
LEMMA RecordsJoin ==
    ASSUME ExtensionAssumption, NEW e \in Exts, NEW f \in Exts, NEW r \in Exts
    PROVE  /\ SameRecord(e, f) => SameRecord(f, e)
           /\ SameRecord(e, f) /\ SameRecord(f, r) => SameRecord(e, r)
  BY DEF SameRecord, ExtensionAssumption

\* The snapshot after a reload of e: another diagnostic of e instead of those of its
\* record, and the rest as it was.
Renewed(s, r, e, g) ==
    /\ GoodSnap(r) /\ r.cell = s.cell
    /\ \A f \in Exts : f # e => /\ r.exec[f] \in {0, s.exec[f]}
                                /\ f \in ActiveIn(r) => f \in ActiveIn(s)
    /\ \A k \in 1..Len(r.diags) :
         \/ r.diags[k].ext = e /\ r.diags[k].gen = g
         \/ \E i \in 1..Len(s.diags) :
              r.diags[k] = s.diags[i] /\ ~SameRecord(e, s.diags[i].ext)
    /\ \E k \in 1..Len(r.diags) : r.diags[k].ext = e /\ r.diags[k].gen = g
    /\ \A i \in 1..Len(s.diags) : ~SameRecord(e, s.diags[i].ext) =>
         \E k \in 1..Len(r.diags) : r.diags[k] = s.diags[i]

\* Retiring an extension and adding a diagnostic of it is a renewal.
LEMMA RenewedBy ==
    ASSUME NEW s, GoodSnap(s), NEW e \in Exts, NEW q, q = Retire(s, e), NEW g \in Nat,
           NEW r, NEW d \in Entry, d.ext = e, d.gen = g, r.diags = Append(q.diags, d),
           GoodSnap(r), r.cell = s.cell, \A f \in Exts : f # e => r.exec[f] = q.exec[f]
    PROVE  Renewed(s, r, e, g)
<1>1. /\ GoodSnap(q) /\ q.diags \in Seq(Entry)
      /\ \A k \in 1..Len(q.diags) : \E i \in 1..Len(s.diags) :
           q.diags[k] = s.diags[i] /\ ~SameRecord(e, s.diags[i].ext)
      /\ \A i \in 1..Len(s.diags) : ~SameRecord(e, s.diags[i].ext) =>
           \E k \in 1..Len(q.diags) : q.diags[k] = s.diags[i]
      /\ \A f \in Exts : q.exec[f] = IF SameRecord(e, f) THEN 0 ELSE s.exec[f]
      /\ ActiveIn(q) \subseteq ActiveIn(s)
  <2>1. Retired(s, q, e)
    BY RetireGood
  <2>2. q.diags \in Seq(Entry)
    BY <2>1, DiagsAre DEF Retired
  <2> QED BY <2>1, <2>2 DEF Retired
<1>2. /\ \A i \in 1..Len(r.diags) : i \in 1..Len(q.diags) \/ r.diags[i] = d
      /\ \A i \in 1..Len(q.diags) : i \in 1..Len(r.diags) /\ r.diags[i] = q.diags[i]
      /\ \E i \in 1..Len(r.diags) : r.diags[i] = d
  BY <1>1, MoreDiags
<1>3. ActiveIn(r) = ActiveIn(q) \cup (IF d.state = "active" THEN {d.ext} ELSE {})
  <2>1. q.diags \in Seq(Entry)
    BY <1>1
  <2>2. r.diags = Append(q.diags, d) /\ d \in Entry
    OBVIOUS
  <2> QED BY ONLY <2>1, <2>2, MoreDiags
<1>4. \A f \in Exts : f # e => /\ r.exec[f] \in {0, s.exec[f]}
                               /\ f \in ActiveIn(r) => f \in ActiveIn(s)
  BY <1>1, <1>3
<1>5. ASSUME NEW k \in 1..Len(r.diags)
      PROVE  \/ r.diags[k].ext = e /\ r.diags[k].gen = g
             \/ \E i \in 1..Len(s.diags) :
                  r.diags[k] = s.diags[i] /\ ~SameRecord(e, s.diags[i].ext)
  <2>1. CASE r.diags[k] = d
    BY <2>1
  <2>2. CASE k \in 1..Len(q.diags)
    BY <1>1, <1>2, <2>2
  <2> QED BY <1>2, <2>1, <2>2
<1>6. \E k \in 1..Len(r.diags) : r.diags[k].ext = e /\ r.diags[k].gen = g
  BY <1>2
<1>7. ASSUME NEW i \in 1..Len(s.diags), ~SameRecord(e, s.diags[i].ext)
      PROVE  \E k \in 1..Len(r.diags) : r.diags[k] = s.diags[i]
  <2>1. PICK k \in 1..Len(q.diags) : q.diags[k] = s.diags[i]
    BY <1>1, <1>7
  <2> QED BY <1>2, <2>1
<1> QED BY <1>4, <1>5, <1>6, <1>7 DEF Renewed

\* A reload is a renewal, and only one that starts a reviewer's host changes the
\* seat.
LEMMA ReloadedIs ==
    ASSUME ExtensionAssumption, NEW s, GoodSnap(s), NEW e \in Exts,
           hosts \in Nat, NEW allowed \in BOOLEAN, NEW up \in BOOLEAN, up => Starts(e, allowed)
    PROVE  /\ Renewed(s, Reloaded(s, e, allowed, up), e, NextGen(s, e))
           /\ Reloaded(s, e, allowed, up).reviewer =
                IF up /\ e \in Reviewers
                  THEN [ext |-> e, gen |-> NextGen(s, e), host |-> hosts + 1]
                  ELSE s.reviewer
<1>1. PICK q : q = Retire(s, e)
  OBVIOUS
<1>2. PICK g \in Nat : g = NextGen(s, e) /\ g > 0
  BY NextGenIs
<1>3. /\ GoodSnap(q) /\ ~Mentions(q.diags, e) /\ e \notin q.tools
      /\ q.reviewer = s.reviewer /\ q.cell = s.cell
  BY <1>1, RetireGood DEF Retired
<1>4. PICK r : r = Reloaded(s, e, allowed, up)
  OBVIOUS
<1>5. ASSUME NEW state \in States, state # "active", ~up, r = Mark(q, e, state, g)
      PROVE  Renewed(s, r, e, g) /\ r.reviewer = s.reviewer
  <2>1. PICK d : d = Diag(e, state, g)
    OBVIOUS
  <2>2. d \in Entry /\ d.ext = e /\ d.gen = g
    BY <2>1 DEF Diag, Entry
  <2>3. /\ GoodSnap(r) /\ r.diags = Append(q.diags, d) /\ r.exec = q.exec
        /\ r.reviewer = q.reviewer /\ r.cell = q.cell
    BY <1>3, <1>5, <2>1, MarkGood
  <2>4. \A f \in Exts : f # e => r.exec[f] = q.exec[f]
    BY <2>3
  <2>5. r.cell = s.cell
    BY <1>3, <2>3
  <2>6. Renewed(s, r, e, g)
    BY <1>1, <2>2, <2>3, <2>4, <2>5, RenewedBy
  <2> QED BY <1>3, <2>3, <2>6
<1>6. ASSUME up, r = Activate(q, e, g, hosts + 1)
      PROVE  /\ Renewed(s, r, e, g)
             /\ r.reviewer = IF e \in Reviewers THEN [ext |-> e, gen |-> g, host |-> hosts + 1]
                                                ELSE s.reviewer
  <2>1. PICK d : d = Diag(e, "active", IF g = 0 THEN 1 ELSE g)
    OBVIOUS
  <2>2. d \in Entry /\ d.ext = e /\ d.gen = g
    BY <1>2, <2>1 DEF Diag, Entry, States
  <2>3. PICK h \in Nat : h = hosts + 1 /\ h # 0
    OBVIOUS
  <2>4. Reviewers \subseteq Exts
    BY DEF ExtensionAssumption
  <2>5. /\ GoodSnap(r) /\ r.diags = Append(q.diags, d) /\ r.cell = q.cell
        /\ \A f \in Exts : f # e => r.exec[f] = q.exec[f]
        /\ r.reviewer = IF e \in Reviewers THEN [ext |-> e, gen |-> g, host |-> h]
                                           ELSE q.reviewer
    BY <1>3, <1>6, <2>1, <2>3, <2>4, ActivateGood
  <2>6. r.cell = s.cell
    BY <1>3, <2>5
  <2>7. Renewed(s, r, e, g)
    BY <1>1, <2>2, <2>5, <2>6, RenewedBy
  <2> QED BY <1>3, <2>3, <2>5, <2>7
<1>7. \/ ~up /\ \E state \in {"blocked", "discovered", "failed"} : r = Mark(q, e, state, g)
      \/ up /\ r = Activate(q, e, g, hosts + 1)
  BY <1>1, <1>2, <1>4 DEF Reloaded, Starts
<1>8. \A state \in {"blocked", "discovered", "failed"} : state \in States /\ state # "active"
  BY DEF States
<1> QED BY <1>2, <1>4, <1>5, <1>6, <1>7, <1>8

-----------------------------------------------------------------------------
\* What a step that changes the shared snapshot does with its counter.
CountedOn ==
    /\ \A i \in 1..Len(snap'.diags) : snap'.diags[i].ext \in Reviewers =>
         cells'[snap.cell] <= snap'.diags[i].gen
    /\ \/ cells'[snap.cell] = 0
       \/ \E i \in 1..Len(snap'.diags) :
            Kin(snap'.diags[i].ext) /\ cells'[snap.cell] <= snap'.diags[i].gen
    /\ \/ cells'[snap.cell] = cells[snap.cell] /\ snap'.reviewer.host = snap.reviewer.host
       \/ cells'[snap.cell] > cells[snap.cell]

\* A step that changes the shared snapshot, its counter and what is down.
LEMMA ChangeKeeps ==
    ASSUME HostInv, bg' = bg, index' = index, turn' = turn, waiting' \subseteq Commands,
           down' \subseteq Exts, GoodSnap(snap'), snap'.cell = snap.cell,
           cells' \in [{0, 1} -> Nat], hosts' \in Nat, bg.pc # "done" => down' = {},
           \A c \in {0, 1} : c # snap.cell => cells'[c] = cells[c],
           StaysDown',
           OneReviewer => CountedOn
    PROVE  HostInv'
<1>1. Background'
  BY DEF HostInv, Background
<1>2. Counts'
  BY DEF HostInv, Counts, CountedOn, OneReviewer, Kin, SameRecord
<1>3. Reviewing'
  <2>1. /\ turn \in Clone /\ GoodSnap(turn.snap) /\ (turn.snap.cell = 1 => snap.cell = 1)
        /\ ReviewUndisturbed
    BY DEF HostInv, Reviewing
  <2>2. snap.cell \in {0, 1} /\ cells \in [{0, 1} -> Nat] /\ turn.review.gen \in Nat
    BY <2>1 DEF HostInv, GoodSnap, Parts, Counts, Clone, Review
  <2>3. PICK c \in Nat : c = cells[snap.cell]
    BY <2>2
  <2>4. PICK d \in Nat : d = cells'[snap.cell]
    BY <2>2
  <2>5. PICK g \in Nat : g = turn.review.gen
    BY <2>2
  <2>6. ASSUME OneReviewer, turn.review.sent, turn.snap.cell = snap.cell
        PROVE  g <= d /\ (g = d => turn.review.seat = snap'.reviewer.host)
    <3>1. g <= c /\ (g = c => turn.review.seat = snap.reviewer.host)
      BY <2>3, <2>5, <2>6 DEF HostInv, Reviewing
    <3>2. (d = c /\ snap'.reviewer.host = snap.reviewer.host) \/ d > c
      BY <2>3, <2>4, <2>6 DEF CountedOn
    <3> QED BY <3>1, <3>2
  <2>7. ReviewUndisturbed'
    BY <2>1 DEF ReviewUndisturbed, SeatKept, OneReviewer
  <2> QED BY <2>1, <2>4, <2>5, <2>6, <2>7 DEF Reviewing, OneReviewer
<1> QED BY <1>1, <1>2, <1>3 DEF HostInv

\* A step of the background activation.
LEMMA BackKeeps ==
    ASSUME HostInv, UNCHANGED <<snap, cells, waiting, turn, down>>, hosts' \in Nat, Background'
    PROVE  HostInv'
<1>1. /\ snap' = snap /\ cells' = cells /\ waiting' = waiting /\ turn' = turn /\ down' = down
  OBVIOUS
<1>2. Counts'
  BY <1>1 DEF HostInv, Counts, OneReviewer, Kin, SameRecord
<1>3. Reviewing'
  BY <1>1 DEF HostInv, Reviewing, ReviewUndisturbed, SeatKept, OneReviewer
<1>4. StaysDown'
  BY <1>1 DEF HostInv, StaysDown
<1> QED BY <1>1, <1>2, <1>3, <1>4 DEF HostInv

\* A step of the turn.
LEMMA TurnKeeps ==
    ASSUME HostInv, UNCHANGED <<snap, cells, waiting, hosts, down, bg, index>>, Reviewing'
    PROVE  HostInv'
<1>1. /\ snap' = snap /\ cells' = cells /\ waiting' = waiting /\ hosts' = hosts
      /\ down' = down /\ bg' = bg /\ index' = index
  OBVIOUS
<1>2. Counts'
  BY <1>1 DEF HostInv, Counts, OneReviewer, Kin, SameRecord
<1>3. Background'
  BY <1>1 DEF HostInv, Background
<1>4. StaysDown'
  BY <1>1 DEF HostInv, StaysDown
<1> QED BY <1>1, <1>2, <1>3, <1>4 DEF HostInv

\* An empty snapshot is good.
LEMMA EmptyIs ==
    ASSUME NEW c \in {0, 1}
    PROVE  /\ GoodSnap(Empty(c)) /\ Empty(c).cell = c /\ Empty(c).diags = <<>>
           /\ Empty(c).tools = {}
<1>1. PICK r : r = Empty(c)
  OBVIOUS
<1>2. r.diags = <<>> /\ r.cell = c /\ r.tools = {} /\ r.exec = [e \in Exts |-> 0]
  BY <1>1 DEF Empty
<1>3. Len(<<>>) = 0 /\ 1..0 = {} /\ <<>> \in Seq(Entry)
  OBVIOUS
<1>4. OneEach(r.diags) /\ ActiveIn(r) = {}
  BY <1>2, <1>3 DEF OneEach, ActiveIn
<1>5. r \in Parts
  BY <1>1, <1>3 DEF Empty, Parts, Seat, NoReviewer
<1>6. Agrees(r)
  <2>1. Routed(r) = {}
    BY <1>2 DEF Routed
  <2> QED BY <1>2, <1>4, <2>1 DEF Agrees
<1> QED BY <1>1, <1>2, <1>4, <1>5, <1>6 DEF GoodSnap

\* The invariant holds at the start.
LEMMA HostInit == ASSUME Init PROVE HostInv
<1>1. /\ index = "none" /\ bg = [pc |-> "off", left |-> <<>>, snap |-> Empty(1)]
      /\ snap = Empty(0) /\ cells = [c \in {0, 1} |-> 0] /\ hosts = 0
      /\ waiting = {} /\ turn = NoTurn /\ down = {}
  BY DEF Init
<1>2. GoodSnap(Empty(0)) /\ Empty(0).cell = 0 /\ Empty(0).diags = <<>>
  BY EmptyIs
<1>3. /\ GoodSnap(Empty(1)) /\ Empty(1).cell = 1 /\ Empty(1).diags = <<>>
      /\ Empty(1).tools = {}
  BY EmptyIs
<1>4. Len(<<>>) = 0 /\ 1..0 = {} /\ <<>> \in Seq(Exts)
  OBVIOUS
<1>5. Empty(0) \in Parts /\ Empty(1) \in Parts
  BY <1>2, <1>3 DEF GoodSnap
<1>6. bg.pc = "off" /\ bg.left = <<>> /\ bg.snap = Empty(1) /\ bg \in Work
  BY <1>1, <1>4, <1>5 DEF Work
<1>7. Background
  BY <1>1, <1>2, <1>3, <1>4, <1>6 DEF Background, LeftOk, Mentions
<1>8. Counts
  BY <1>1, <1>2, <1>4 DEF Counts
<1>9. /\ turn.snap = Empty(0) /\ turn.review = NoReview /\ turn.judge = NoJudge /\ turn \in Clone
  BY <1>1, <1>5 DEF NoTurn, Clone, NoReview, NoJudge, Review, Judge
<1>10. Reviewing
  BY <1>1, <1>2, <1>9 DEF Reviewing, NoReview, NoJudge, ReviewUndisturbed, SeatKept
<1>11. StaysDown
  BY <1>1 DEF StaysDown
<1> QED BY <1>1, <1>2, <1>7, <1>8, <1>10, <1>11 DEF HostInv

\* The scan is scheduled.
LEMMA FirstRenderKeeps == ASSUME HostInv, FirstRender PROVE HostInv'
<1>1. /\ index = "none" /\ index' = "scanning"
      /\ UNCHANGED <<snap, cells, waiting, turn, down>> /\ bg' = bg /\ hosts' = hosts
  BY DEF FirstRender
<1>2. Background'
  BY <1>1 DEF HostInv, Background
<1>3. hosts' \in Nat
  BY <1>1 DEF HostInv, Counts
<1> QED BY <1>1, <1>2, <1>3, BackKeeps

\* The scan gives the background activation its records, once.
LEMMA ScanEndsKeeps == ASSUME ExtensionAssumption, HostInv, ScanEnds PROVE HostInv'
<1>1. /\ index = "scanning" /\ UNCHANGED <<snap, cells, waiting, turn, down>> /\ hosts' = hosts
      /\ index' \in {"done", "failed"}
      /\ bg' = [bg EXCEPT !.pc = "record", !.left = Order] \/ bg' = bg
  BY DEF ScanEnds
<1>2. /\ bg \in Work /\ bg.pc = "off" /\ bg.snap.diags = <<>> /\ GoodSnap(bg.snap)
      /\ bg.snap.tools = {}
  BY <1>1 DEF HostInv, Background
<1>3. Background'
  <2>1. CASE bg' = bg
    BY <1>1, <2>1 DEF HostInv, Background
  <2>2. CASE bg' = [bg EXCEPT !.pc = "record", !.left = Order]
    <3>1. /\ Order \in Seq(Exts) /\ \A i, j \in 1..Len(Order) : Order[i] = Order[j] => i = j
      BY DEF ExtensionAssumption
    <3>2. bg'.pc = "record" /\ bg'.left = Order /\ bg'.snap = bg.snap /\ bg' \in Work
      BY <1>2, <2>2, <3>1 DEF Work
    <3>3. \A e : ~Mentions(bg.snap.diags, e)
      <4>1. Len(<<>>) = 0 /\ 1..0 = {}
        OBVIOUS
      <4> QED BY <1>2, <4>1 DEF Mentions
    <3>4. LeftOk(Order, bg.snap)
      BY <1>2, <3>1, <3>3 DEF LeftOk
    <3> QED BY <1>1, <1>2, <3>2, <3>4 DEF HostInv, Background
  <2> QED BY <1>1, <2>1, <2>2
<1>4. hosts' \in Nat
  BY <1>1 DEF HostInv, Counts
<1> QED BY <1>1, <1>3, <1>4, BackKeeps

\* The record at the head is done with, and the snapshot mentions it.
LEMMA RecordDone ==
    ASSUME HostInv, bg.left # <<>>, bg.pc # "off", bg.pc # "done",
           NEW s, GoodSnap(s), s.cell = bg.snap.cell,
           NEW d \in Entry, d.ext = Head(bg.left), s.diags = Append(bg.snap.diags, d),
           s.tools \subseteq bg.snap.tools \cup {d.ext},
           bg' = [bg EXCEPT !.pc = "record", !.left = Tail(@), !.snap = s],
           UNCHANGED <<snap, cells, down, index>>
    PROVE  Background'
<1>1. /\ bg \in Work /\ GoodSnap(bg.snap) /\ bg.snap.cell = 1
      /\ \A i, j \in 1..Len(bg.left) : bg.left[i] = bg.left[j] => i = j
      /\ \A i \in 1..Len(bg.left) : /\ ~Mentions(bg.snap.diags, bg.left[i])
                                   /\ bg.left[i] \notin bg.snap.tools
      /\ index \notin {"none", "scanning"}
  BY DEF HostInv, Background, LeftOk
<1>2. PICK l : l = bg.left /\ l \in Seq(Exts) /\ l # <<>>
  BY <1>1 DEF Work
<1>3. PICK t : t = Tail(l) /\ t \in Seq(Exts)
  BY <1>2, HeadTailProperties
<1>4. /\ Len(l) \in Nat /\ Len(t) = Len(l) - 1 /\ Head(l) = l[1] /\ Len(t) \in Nat
      /\ \A i \in 1..Len(t) : t[i] = l[i + 1]
  BY <1>2, <1>3
<1>5. \A i \in 1..Len(t) : i + 1 \in 1..Len(l) /\ i + 1 # 1
  BY <1>4
<1>6. 1 \in 1..Len(l)
  BY <1>2, <1>4
<1>7. s \in Parts
  BY DEF GoodSnap
<1>8. bg'.pc = "record" /\ bg'.left = t /\ bg'.snap = s /\ bg' \in Work
  BY <1>1, <1>2, <1>3, <1>7 DEF Work
<1>9. \A i, j \in 1..Len(t) : t[i] = t[j] => i = j
  <2> SUFFICES ASSUME NEW i \in 1..Len(t), NEW j \in 1..Len(t), t[i] = t[j] PROVE i = j
    OBVIOUS
  <2>1. l[i + 1] = l[j + 1] /\ i + 1 \in 1..Len(l) /\ j + 1 \in 1..Len(l)
    BY <1>4, <1>5
  <2>2. i + 1 = j + 1
    BY <1>1, <1>2, <2>1
  <2> QED BY <2>2
<1>10. ASSUME NEW i \in 1..Len(t) PROVE ~Mentions(s.diags, t[i]) /\ t[i] \notin s.tools
  <2>1. t[i] # d.ext /\ ~Mentions(bg.snap.diags, t[i]) /\ t[i] \notin bg.snap.tools
    <3>1. t[i] = l[i + 1] /\ i + 1 \in 1..Len(l) /\ i + 1 # 1
      BY <1>4, <1>5
    <3>2. d.ext = l[1]
      BY <1>2, <1>4
    <3>3. l[i + 1] # l[1]
      BY <1>1, <1>2, <1>6, <3>1, Zenon
    <3> QED BY <1>1, <1>2, <3>1, <3>2, <3>3, Zenon
  <2>2. bg.snap.diags \in Seq(Entry)
    BY <1>1, DiagsAre
  <2>3. \A k \in 1..Len(s.diags) : k \in 1..Len(bg.snap.diags) \/ s.diags[k] = d
    BY <2>2, MoreDiags
  <2>4. \A k \in 1..Len(bg.snap.diags) : s.diags[k] = bg.snap.diags[k]
    BY <2>2, MoreDiags
  <2> QED BY <2>1, <2>3, <2>4 DEF Mentions
<1>11. /\ bg'.pc # "done" => down' = {} /\ snap'.cell = 0 /\ cells'[1] = 0
  BY DEF HostInv, Background
<1>12. index' \notin {"none", "scanning"}
  BY <1>1
<1>13. GoodSnap(bg'.snap) /\ bg'.snap.cell = 1 /\ bg'.pc # "start" /\ bg'.pc # "off"
  BY <1>1, <1>8
<1>14. LeftOk(t, s)
  BY <1>9, <1>10 DEF LeftOk
<1> QED BY <1>8, <1>11, <1>12, <1>13, <1>14 DEF Background

\* A record is skipped with a diagnostic, or its host is to be started.
LEMMA BackgroundRecordKeeps ==
    ASSUME ExtensionAssumption, HostInv, BackgroundRecord
    PROVE  HostInv'
<1>1. /\ bg.pc = "record" /\ bg.left # <<>>
      /\ UNCHANGED <<snap, cells, waiting, turn, down>> /\ hosts' = hosts /\ index' = index
  BY DEF BackgroundRecord
<1>2. /\ bg \in Work /\ GoodSnap(bg.snap) /\ bg.left \in Seq(Exts)
      /\ \A i \in 1..Len(bg.left) : /\ ~Mentions(bg.snap.diags, bg.left[i])
                                   /\ bg.left[i] \notin bg.snap.tools
  BY DEF HostInv, Background, LeftOk, Work
<1>3. PICK e : e = Head(bg.left)
  OBVIOUS
<1>4. e \in Exts /\ e = bg.left[1] /\ 1 \in 1..Len(bg.left)
  BY <1>1, <1>2, <1>3, HeadTailProperties
<1>5. ~Mentions(bg.snap.diags, e) /\ e \notin bg.snap.tools
  BY <1>2, <1>4
<1>6. \/ \E state \in {"blocked", "discovered"} :
           bg' = [bg EXCEPT !.left = Tail(@), !.snap = Mark(@, e, state, 0)]
      \/ bg' = [bg EXCEPT !.pc = "start"]
  BY <1>3 DEF BackgroundRecord
<1>7. Background'
  <2>1. CASE bg' = [bg EXCEPT !.pc = "start"]
    <3>1. bg'.pc = "start" /\ bg'.left = bg.left /\ bg'.snap = bg.snap /\ bg' \in Work
      BY <1>2, <2>1 DEF Work
    <3>2. /\ down' = {} /\ snap'.cell = 0 /\ cells'[1] = 0
          /\ index' \notin {"none", "scanning"}
      BY <1>1 DEF HostInv, Background
    <3> QED BY <1>1, <1>2, <3>1, <3>2 DEF HostInv, Background
  <2>2. ASSUME NEW state \in {"blocked", "discovered"},
               bg' = [bg EXCEPT !.left = Tail(@), !.snap = Mark(@, e, state, 0)]
        PROVE  Background'
    <3>1. PICK s : s = Mark(bg.snap, e, state, 0)
      OBVIOUS
    <3>2. PICK d : d = Diag(e, state, 0)
      OBVIOUS
    <3>3. state \in States /\ state # "active" /\ 0 \in Nat
      BY DEF States
    <3>4. d \in Entry /\ d.ext = Head(bg.left)
      BY <1>3, <1>4, <3>2, <3>3 DEF Diag, Entry
    <3>5. /\ GoodSnap(s) /\ s.cell = bg.snap.cell /\ s.diags = Append(bg.snap.diags, d)
          /\ s.tools = bg.snap.tools
      BY SMTT(30), <1>2, <1>4, <1>5, <3>1, <3>2, <3>3, MarkGood
    <3>6. bg' = [bg EXCEPT !.pc = "record", !.left = Tail(@), !.snap = s]
      BY <1>1, <1>2, <2>2, <3>1 DEF Work
    <3>7. UNCHANGED <<snap, cells, down, index>>
      BY <1>1
    <3>8. bg.pc # "off" /\ bg.pc # "done"
      BY <1>1
    <3> QED BY <1>1, <3>4, <3>5, <3>6, <3>7, <3>8, RecordDone
  <2> QED BY <1>6, <2>1, <2>2
<1>8. hosts' \in Nat
  BY <1>1 DEF HostInv, Counts
<1> QED BY <1>1, <1>7, <1>8, BackKeeps

\* A host registers or fails; the counter of the new snapshot stays 0.
LEMMA BackgroundStartKeeps ==
    ASSUME ExtensionAssumption, HostInv, BackgroundStart
    PROVE  HostInv'
<1>1. /\ bg.pc = "start" /\ UNCHANGED <<snap, waiting, turn, down, index>>
  BY DEF BackgroundStart
<1>2. /\ bg \in Work /\ GoodSnap(bg.snap) /\ bg.left \in Seq(Exts) /\ bg.left # <<>>
      /\ \A i \in 1..Len(bg.left) : /\ ~Mentions(bg.snap.diags, bg.left[i])
                                   /\ bg.left[i] \notin bg.snap.tools
      /\ cells[1] = 0 /\ bg.snap.cell = 1
  BY <1>1 DEF HostInv, Background, LeftOk, Work
<1>3. PICK e : e = Head(bg.left)
  OBVIOUS
<1>4. e \in Exts /\ e = bg.left[1] /\ 1 \in 1..Len(bg.left)
  BY <1>2, <1>3, HeadTailProperties
<1>5. ~Mentions(bg.snap.diags, e) /\ e \notin bg.snap.tools
  BY <1>2, <1>4
<1>6. cells \in [{0, 1} -> Nat] /\ hosts \in Nat
  BY DEF HostInv, Counts
<1>7. Count(bg.snap, e, 0) = cells
  BY <1>2, <1>6 DEF Count
<1>8. \/ /\ bg' = [bg EXCEPT !.pc = "record", !.left = Tail(@),
                             !.snap = Activate(@, e, 0, hosts + 1)]
         /\ cells' = Count(bg.snap, e, 0) /\ hosts' = hosts + 1
      \/ /\ bg' = [bg EXCEPT !.pc = "record", !.left = Tail(@),
                             !.snap = Mark(@, e, "failed", 0)]
         /\ UNCHANGED <<cells, hosts>>
  BY <1>3 DEF BackgroundStart
<1>9. cells' = cells /\ hosts' \in Nat
  BY <1>6, <1>7, <1>8
<1>10. PICK h \in Nat : h = hosts + 1 /\ h # 0
  BY <1>6
<1>11. \E s, d : /\ GoodSnap(s) /\ s.cell = bg.snap.cell /\ s.diags = Append(bg.snap.diags, d)
                 /\ d \in Entry /\ d.ext = e /\ s.tools \subseteq bg.snap.tools \cup {e}
                 /\ bg' = [bg EXCEPT !.pc = "record", !.left = Tail(@), !.snap = s]
  <2>1. CASE bg' = [bg EXCEPT !.pc = "record", !.left = Tail(@),
                              !.snap = Activate(@, e, 0, hosts + 1)]
    <3>1. PICK g \in Nat : g = 0
      OBVIOUS
    <3>2. PICK s : s = Activate(bg.snap, e, g, h)
      OBVIOUS
    <3>3. PICK d : d = Diag(e, "active", IF g = 0 THEN 1 ELSE g)
      OBVIOUS
    <3>4. d \in Entry /\ d.ext = e
      BY <1>4, <3>3 DEF Diag, Entry, States
    <3>5. Reviewers \subseteq Exts
      BY DEF ExtensionAssumption
    <3>6. /\ GoodSnap(s) /\ s.cell = bg.snap.cell /\ s.diags = Append(bg.snap.diags, d)
          /\ s.tools \subseteq bg.snap.tools \cup {e}
      <4>1. Activated(bg.snap, Activate(bg.snap, e, g, h), e, g, h)
        BY <1>2, <1>4, <1>5, <1>10, <3>5, ActivateDoes
      <4> QED BY <3>2, <3>3, <4>1 DEF Activated
    <3>7. bg' = [bg EXCEPT !.pc = "record", !.left = Tail(@), !.snap = s]
      BY <1>2, <1>10, <2>1, <3>1, <3>2 DEF Work
    <3> QED BY <3>4, <3>6, <3>7
  <2>2. CASE bg' = [bg EXCEPT !.pc = "record", !.left = Tail(@),
                              !.snap = Mark(@, e, "failed", 0)]
    <3>1. PICK g \in Nat : g = 0
      OBVIOUS
    <3>2. PICK state \in States : state = "failed" /\ state # "active"
      BY DEF States
    <3>3. PICK s : s = Mark(bg.snap, e, state, g)
      OBVIOUS
    <3>4. PICK d : d = Diag(e, state, g)
      OBVIOUS
    <3>5. d \in Entry /\ d.ext = e
      BY <1>4, <3>4 DEF Diag, Entry
    <3>6. /\ GoodSnap(s) /\ s.cell = bg.snap.cell /\ s.diags = Append(bg.snap.diags, d)
          /\ s.tools = bg.snap.tools
      BY <1>2, <1>4, <1>5, <3>2, <3>3, <3>4, MarkGood
    <3>7. bg' = [bg EXCEPT !.pc = "record", !.left = Tail(@), !.snap = s]
      BY <1>2, <2>2, <3>1, <3>2, <3>3 DEF Work
    <3> QED BY <3>5, <3>6, <3>7
  <2> QED BY <1>8, <2>1, <2>2
<1>12. PICK s, d : /\ GoodSnap(s) /\ s.cell = bg.snap.cell /\ s.diags = Append(bg.snap.diags, d)
                   /\ d \in Entry /\ d.ext = e /\ s.tools \subseteq bg.snap.tools \cup {e}
                   /\ bg' = [bg EXCEPT !.pc = "record", !.left = Tail(@), !.snap = s]
  BY <1>11
<1>13. bg.pc # "off" /\ bg.pc # "done" /\ d.ext = Head(bg.left)
  BY <1>1, <1>3, <1>12
<1>14. UNCHANGED <<snap, cells, down, index>>
  BY <1>1, <1>9
<1>15. Background'
  BY <1>2, <1>12, <1>13, <1>14, RecordDone
<1>16. UNCHANGED <<snap, cells, waiting, turn, down>>
  BY <1>1, <1>9
<1> QED BY <1>9, <1>15, <1>16, BackKeeps

\* The new snapshot comes with its own counter, which no clone shares.
LEMMA BackgroundInstallsKeeps == ASSUME HostInv, BackgroundInstalls PROVE HostInv'
<1>1. /\ bg.pc = "record" /\ (snap' = bg.snap \/ snap' = snap)
      /\ bg' = [pc |-> "done", left |-> <<>>, snap |-> Empty(1)]
      /\ index' = index /\ cells' = cells /\ hosts' = hosts /\ waiting' = waiting
      /\ turn' = turn /\ down' = down
  BY DEF BackgroundInstalls
<1>2. /\ GoodSnap(bg.snap) /\ bg.snap.cell = 1 /\ down = {} /\ snap.cell = 0 /\ cells[1] = 0
      /\ index \notin {"none", "scanning"}
  BY <1>1 DEF HostInv, Background
<1>3. GoodSnap(snap) /\ GoodSnap(snap')
  BY <1>1, <1>2 DEF HostInv
<1>4. GoodSnap(Empty(1)) /\ Empty(1).cell = 1 /\ Empty(1).diags = <<>> /\ Empty(1) \in Parts
  BY EmptyIs DEF GoodSnap
<1>5. Len(<<>>) = 0 /\ 1..0 = {} /\ <<>> \in Seq(Exts)
  OBVIOUS
<1>6. bg'.pc = "done" /\ bg'.left = <<>> /\ bg'.snap = Empty(1) /\ bg' \in Work
  BY <1>1, <1>4, <1>5 DEF Work
<1>7. Background'
  BY <1>1, <1>2, <1>4, <1>5, <1>6 DEF Background, LeftOk, Mentions
<1>8. Counts'
  <2>1. CASE snap' = snap
    BY <1>1, <2>1 DEF HostInv, Counts, OneReviewer, Kin, SameRecord
  <2>2. CASE snap' = bg.snap
    <3>1. cells'[snap'.cell] = 0
      BY <1>1, <1>2, <2>2
    <3>2. \A i \in 1..Len(snap'.diags) : snap'.diags[i].gen \in Nat
      BY <1>3, DiagsAre
    <3>3. cells' \in [{0, 1} -> Nat] /\ hosts' \in Nat
      BY <1>1 DEF HostInv, Counts
    <3> QED BY <3>1, <3>2, <3>3 DEF Counts, OneReviewer
  <2> QED BY <1>1, <2>1, <2>2
<1>9. Reviewing'
  <2>1. turn \in Clone /\ GoodSnap(turn.snap) /\ ReviewUndisturbed
        /\ (turn.snap.cell = 1 => snap.cell = 1)
    BY DEF HostInv, Reviewing
  <2>2. turn.snap.cell = 0
    BY <1>2, <2>1 DEF GoodSnap, Parts
  <2>3. ReviewUndisturbed'
    BY <1>1, <2>1 DEF ReviewUndisturbed, SeatKept, OneReviewer
  <2>4. CASE snap' = snap
    BY <1>1, <2>4, <2>3 DEF HostInv, Reviewing, OneReviewer
  <2>5. CASE snap' = bg.snap
    <3>1. turn'.snap.cell # snap'.cell /\ turn'.snap.cell # 1
      BY <1>1, <1>2, <2>2, <2>5
    <3> QED BY <1>1, <2>1, <2>3, <3>1 DEF Reviewing, OneReviewer
  <2> QED BY <1>1, <2>4, <2>5
<1>10. StaysDown'
  BY <1>1, <1>2 DEF StaysDown
<1> QED BY <1>1, <1>3, <1>7, <1>8, <1>9, <1>10 DEF HostInv

\* A turn clones the shared snapshot.
LEMMA BeginTurnKeeps == ASSUME HostInv, BeginTurn PROVE HostInv'
<1>1. /\ turn' = [NoTurn EXCEPT !.on = TRUE, !.snap = snap]
      /\ UNCHANGED <<snap, cells, waiting, hosts, down, bg, index>>
  BY DEF BeginTurn
<1>2. GoodSnap(snap) /\ snap \in Parts /\ snap' = snap
  BY <1>1 DEF HostInv, GoodSnap
<1>3. /\ turn'.snap = snap /\ turn'.review = NoReview /\ turn'.judge = NoJudge
      /\ turn' \in Clone
  BY <1>1, <1>2 DEF NoTurn, Clone, NoReview, NoJudge, Review, Judge
<1>4. ~NoReview.sent /\ ~NoJudge.same
  BY DEF NoReview, NoJudge
<1>5. Reviewing'
  BY <1>2, <1>3, <1>4 DEF Reviewing, ReviewUndisturbed, SeatKept, OneReviewer
<1> QED BY <1>1, <1>5, TurnKeeps

\* A turn ends.
LEMMA EndTurnKeeps == ASSUME HostInv, EndTurn PROVE HostInv'
<1>1. turn' = NoTurn /\ UNCHANGED <<snap, cells, waiting, hosts, down, bg, index>>
  BY DEF EndTurn
<1>2. GoodSnap(Empty(0)) /\ Empty(0).cell = 0 /\ Empty(0) \in Parts
  BY EmptyIs DEF GoodSnap
<1>3. /\ turn'.snap = Empty(0) /\ turn'.review = NoReview /\ turn'.judge = NoJudge
      /\ turn' \in Clone
  BY <1>1, <1>2 DEF NoTurn, Clone, NoReview, NoJudge, Review, Judge
<1>4. ~NoReview.sent /\ ~NoJudge.same
  BY DEF NoReview, NoJudge
<1>5. Reviewing'
  BY <1>2, <1>3, <1>4 DEF Reviewing, ReviewUndisturbed, SeatKept, OneReviewer
<1> QED BY <1>1, <1>5, TurnKeeps

\* The clone, its counter and the seat.
LEMMA TurnIs ==
    ASSUME HostInv
    PROVE  /\ turn \in Clone /\ GoodSnap(turn.snap) /\ turn.snap \in Parts
           /\ turn.snap.cell \in {0, 1} /\ cells[turn.snap.cell] \in Nat
           /\ snap.reviewer.host \in Nat /\ turn.snap.reviewer.host \in Nat
           /\ (turn.snap.cell = 1 => snap.cell = 1)
           /\ turn.review \in Review /\ turn.judge \in Judge
<1>1. /\ turn \in Clone /\ GoodSnap(turn.snap) /\ GoodSnap(snap)
      /\ (turn.snap.cell = 1 => snap.cell = 1) /\ cells \in [{0, 1} -> Nat]
  BY DEF HostInv, Reviewing, Counts
<1>2. turn.snap \in Parts /\ snap \in Parts
  BY <1>1 DEF GoodSnap
<1>3. turn.snap.cell \in {0, 1} /\ turn.snap.reviewer \in Seat /\ snap.reviewer \in Seat
  BY <1>2 DEF Parts
<1>4. turn.review \in Review /\ turn.judge \in Judge
  BY <1>1 DEF Clone
<1> QED BY <1>1, <1>2, <1>3, <1>4 DEF Seat

\* A review notes the counter and the seat.
LEMMA SendReviewKeeps == ASSUME HostInv, SendReview PROVE HostInv'
<1>1. PICK v : v = [sent |-> TRUE, gen |-> cells[turn.snap.cell], seat |-> snap.reviewer.host]
  OBVIOUS
<1>2. /\ turn' = [turn EXCEPT !.review = v, !.judge = NoJudge]
      /\ UNCHANGED <<snap, cells, waiting, hosts, down, bg, index>>
  BY <1>1 DEF SendReview
<1>3. /\ v \in Review /\ v.gen = cells[turn.snap.cell] /\ v.seat = snap.reviewer.host
  BY <1>1, TurnIs DEF Review
<1>4. NoJudge \in Judge /\ ~NoJudge.same
  BY DEF NoJudge, Judge
<1>5. turn'.snap = turn.snap /\ turn'.review = v /\ turn'.judge = NoJudge /\ turn' \in Clone
  BY <1>2, <1>3, <1>4, TurnIs DEF Clone
<1>6. snap' = snap /\ cells' = cells
  BY <1>2
<1>7. PICK c \in Nat : c = cells[turn.snap.cell]
  BY TurnIs
<1>8. c <= c
  OBVIOUS
<1>9. Reviewing'
  BY <1>3, <1>4, <1>5, <1>6, <1>7, <1>8, TurnIs DEF Reviewing, ReviewUndisturbed, SeatKept, OneReviewer
<1> QED BY <1>2, <1>9, TurnKeeps

\* An answer is taken if the counter has not moved, and then the seat has not.
LEMMA TakeReviewKeeps == ASSUME HostInv, TakeReview PROVE HostInv'
<1>1. PICK j : j = IF turn.review.gen = cells[turn.snap.cell]
                     THEN [by |-> turn.snap.reviewer.host, then |-> turn.review.seat,
                           now |-> snap.reviewer.host, same |-> turn.snap.cell = snap.cell]
                     ELSE NoJudge
  OBVIOUS
<1>2. /\ turn.review.sent /\ turn' = [turn EXCEPT !.review = NoReview, !.judge = j]
      /\ UNCHANGED <<snap, cells, waiting, hosts, down, bg, index>>
  BY <1>1 DEF TakeReview
<1>3. NoReview \in Review /\ ~NoReview.sent
  BY DEF NoReview, Review
<1>4. j \in Judge /\ (OneReviewer /\ j.same => j.then = j.now)
  <2>1. CASE turn.review.gen = cells[turn.snap.cell]
    <3>1. OneReviewer /\ turn.snap.cell = snap.cell =>
            turn.review.seat = snap.reviewer.host
      BY <1>2, <2>1 DEF HostInv, Reviewing
    <3>2. turn.review.seat \in Nat
      BY TurnIs DEF Review
    <3> QED BY <1>1, <2>1, <3>1, <3>2, TurnIs DEF Judge
  <2>2. CASE turn.review.gen # cells[turn.snap.cell]
    BY <1>1, <2>2 DEF NoJudge, Judge
  <2> QED BY <2>1, <2>2
<1>5. turn'.snap = turn.snap /\ turn'.review = NoReview /\ turn'.judge = j /\ turn' \in Clone
  BY <1>2, <1>3, <1>4, TurnIs DEF Clone
<1>6. snap' = snap
  BY <1>2
<1>7. Reviewing'
  BY <1>3, <1>4, <1>5, <1>6, TurnIs DEF Reviewing, ReviewUndisturbed, SeatKept, OneReviewer
<1> QED BY <1>2, <1>7, TurnKeeps

\* The invariant, as far as it is about the shared snapshot.
LEMMA SnapIs ==
    ASSUME HostInv
    PROVE  /\ GoodSnap(snap) /\ snap.cell \in {0, 1} /\ cells \in [{0, 1} -> Nat]
           /\ hosts \in Nat /\ snap.reviewer.ext \in Reviewers \cup {NoExt}
           /\ bg.pc # "done" => down = {}
           /\ down \subseteq Exts /\ StaysDown
           /\ OneReviewer =>
                /\ \A i \in 1..Len(snap.diags) : snap.diags[i].ext \in Reviewers =>
                     cells[snap.cell] <= snap.diags[i].gen
                /\ \/ cells[snap.cell] = 0
                   \/ \E i \in 1..Len(snap.diags) :
                        Kin(snap.diags[i].ext) /\ cells[snap.cell] <= snap.diags[i].gen
<1>1. GoodSnap(snap) /\ snap \in Parts /\ down \subseteq Exts /\ StaysDown
  BY DEF HostInv, GoodSnap
<1>2. snap.cell \in {0, 1} /\ snap.reviewer \in Seat
  BY <1>1 DEF Parts
<1>3. snap.reviewer.ext \in Reviewers \cup {NoExt}
  BY <1>2 DEF Seat
<1>4. bg.pc # "done" => down = {}
  BY DEF HostInv, Background
<1> QED BY <1>1, <1>2, <1>3, <1>4 DEF HostInv, Counts

\* An active extension is stopped in the shared snapshot.
LEMMA StopKeeps ==
    ASSUME ExtensionAssumption, HostInv, NEW e \in Exts,
           NEW a \in 1..Len(snap.diags), snap.diags[a].ext = e, snap.diags[a].state = "active",
           snap' = Stop(snap, e), cells' = CountStop(snap, e), bg' = bg, index' = index,
           turn' = turn, hosts' = hosts, waiting' \subseteq Commands,
           down' = down \/ (bg.pc = "done" /\ down' = down \cup {e})
    PROVE  HostInv'
<1>1. snap.diags[a].ext = e /\ snap.diags[a].state = "active"
  OBVIOUS
<1>2. PICK c \in {0, 1} : c = snap.cell
  BY SnapIs
<1>3. PICK n \in Nat : n = cells[c]
  BY <1>2, SnapIs
<1>4. /\ GoodSnap(snap') /\ Len(snap'.diags) = Len(snap.diags) /\ snap'.cell = snap.cell
      /\ \A i \in 1..Len(snap.diags) :
           snap'.diags[i] = IF snap.diags[i].ext = e /\ snap.diags[i].state = "active"
                              THEN Diag(e, "stopped", snap.diags[i].gen + 1) ELSE snap.diags[i]
      /\ snap'.reviewer = IF snap.reviewer.ext = e THEN NoReviewer ELSE snap.reviewer
  BY SnapIs, StopGood
<1>5. /\ \A f \in Exts : snap'.exec[f] = IF f = e THEN 0 ELSE snap.exec[f]
      /\ ActiveIn(snap') = ActiveIn(snap) \ {e}
  BY SnapIs, StopGood
<1>6. \A i \in 1..Len(snap.diags) : snap.diags[i].gen \in Nat /\ snap.diags[i].ext \in Exts
  BY SnapIs, DiagsAre
<1>7. ASSUME NEW i \in 1..Len(snap.diags)
      PROVE  /\ snap'.diags[i].ext = snap.diags[i].ext
             /\ snap'.diags[i].gen \in Nat /\ snap.diags[i].gen <= snap'.diags[i].gen
             /\ i = a => snap'.diags[i].gen = snap.diags[i].gen + 1
  <2>1. PICK g \in Nat : g = snap.diags[i].gen
    BY <1>6
  <2>2. CASE snap.diags[i].ext = e /\ snap.diags[i].state = "active"
    <3>1. snap'.diags[i] = Diag(e, "stopped", g + 1)
      BY <1>4, <2>1, <2>2
    <3>2. snap'.diags[i].ext = e /\ snap'.diags[i].gen = g + 1
      BY <3>1 DEF Diag
    <3> QED BY <2>1, <2>2, <3>2
  <2>3. CASE ~(snap.diags[i].ext = e /\ snap.diags[i].state = "active")
    <3>1. snap'.diags[i] = snap.diags[i] /\ i # a
      BY <1>1, <1>4, <2>3
    <3> QED BY <2>1, <3>1
  <2> QED BY <2>2, <2>3
<1>8. StaysDown'
  <2> SUFFICES ASSUME NEW f \in down' PROVE f \notin ActiveIn(snap') /\ snap'.exec[f] = 0
    BY DEF StaysDown
  <2>1. f \in Exts /\ (f = e \/ f \in down)
    BY SnapIs
  <2>2. CASE f = e
    BY <1>5, <2>1, <2>2
  <2>3. CASE f \in down
    <3>1. f \notin ActiveIn(snap) /\ snap.exec[f] = 0
      BY <2>3, SnapIs DEF StaysDown
    <3> QED BY <1>5, <2>1, <3>1
  <2> QED BY <2>1, <2>2, <2>3
<1>9. /\ cells' \in [{0, 1} -> Nat] /\ \A b \in {0, 1} : b # c => cells'[b] = cells[b]
      /\ cells'[c] = IF snap.reviewer.ext = e THEN n + 1 ELSE n
  BY <1>2, <1>3, SnapIs DEF CountStop
<1>10. snap.reviewer.ext = e => e \in Reviewers
  <2>1. NoExt \notin Exts
    BY DEF ExtensionAssumption
  <2> QED BY <2>1, SnapIs
<1>11. PICK m \in Nat : m = cells'[c]
  BY <1>9
<1>12. ASSUME OneReviewer, NEW i \in 1..Len(snap'.diags), snap'.diags[i].ext \in Reviewers
       PROVE  m <= snap'.diags[i].gen
  <2>1. i \in 1..Len(snap.diags) /\ snap.diags[i].ext \in Reviewers
    BY <1>4, <1>7, <1>12
  <2>2. PICK g \in Nat : g = snap.diags[i].gen
    BY <1>6, <2>1
  <2>3. PICK h \in Nat : h = snap'.diags[i].gen /\ g <= h /\ (i = a => h = g + 1)
    BY <1>7, <2>1, <2>2
  <2>4. n <= g
    BY <1>2, <1>3, <1>12, <2>1, <2>2, SnapIs
  <2>5. CASE snap.reviewer.ext = e
    <3>1. snap.diags[i].ext = e
      BY <1>10, <1>12, <2>1, <2>5 DEF OneReviewer
    <3>2. OneEach(snap.diags)
      BY SnapIs, DiagsAre
    <3>3. i = a
      BY <1>1, <2>1, <3>1, <3>2 DEF OneEach
    <3> QED BY <1>9, <1>11, <2>3, <2>4, <2>5, <3>3
  <2>6. CASE snap.reviewer.ext # e
    BY <1>9, <1>11, <2>3, <2>4, <2>6
  <2> QED BY <2>5, <2>6
<1>13. ASSUME OneReviewer
       PROVE  m = 0 \/ \E i \in 1..Len(snap'.diags) :
                         Kin(snap'.diags[i].ext) /\ m <= snap'.diags[i].gen
  <2>1. CASE snap.reviewer.ext = e
    <3>1. a \in 1..Len(snap'.diags) /\ snap'.diags[a].ext = e /\ e \in Reviewers
      BY <1>1, <1>4, <1>7, <1>10, <2>1
    <3>2. m <= snap'.diags[a].gen
      BY <1>12, <1>13, <3>1
    <3>3. Kin(snap'.diags[a].ext)
      BY <3>1 DEF Kin, SameRecord
    <3> QED BY <3>1, <3>2, <3>3
  <2>2. CASE snap.reviewer.ext # e
    <3>1. m = n
      BY <1>9, <1>11, <2>2
    <3>2. CASE n = 0
      BY <3>1, <3>2
    <3>3. CASE n # 0
      <4>1. PICK i \in 1..Len(snap.diags) : Kin(snap.diags[i].ext) /\ n <= snap.diags[i].gen
        BY <1>2, <1>3, <1>13, <3>3, SnapIs
      <4>2. PICK g \in Nat : g = snap.diags[i].gen
        BY <1>6
      <4>3. PICK h \in Nat : h = snap'.diags[i].gen /\ g <= h
        BY <1>7, <4>2
      <4>4. n <= h
        BY <4>1, <4>2, <4>3
      <4>5. i \in 1..Len(snap'.diags) /\ snap'.diags[i].ext = snap.diags[i].ext
        BY <1>4, <1>7
      <4> QED BY <3>1, <4>1, <4>3, <4>4, <4>5
    <3> QED BY <3>2, <3>3
  <2> QED BY <2>1, <2>2
<1>14. \/ m = n /\ snap'.reviewer.host = snap.reviewer.host
       \/ m > n
  BY <1>4, <1>9, <1>11
<1>15. down' \subseteq Exts /\ (bg.pc # "done" => down' = {})
  BY SnapIs
<1>16. hosts' \in Nat
  BY SnapIs
<1>17. /\ cells' \in [{0, 1} -> Nat] /\ \A b \in {0, 1} : b # snap.cell => cells'[b] = cells[b]
  BY <1>2, <1>9
<1>18. OneReviewer => CountedOn
  BY <1>2, <1>3, <1>11, <1>12, <1>13, <1>14 DEF CountedOn
<1> QED BY <1>4, <1>8, <1>15, <1>16, <1>17, <1>18, ChangeKeeps

\* Two extensions of the one reviewer's record are of the same record.
LEMMA KinJoin ==
    ASSUME ExtensionAssumption, OneReviewer, NEW e \in Exts, NEW f \in Exts, Kin(e), Kin(f)
    PROVE  SameRecord(e, f)
<1>1. PICK r \in Reviewers : SameRecord(r, e) /\ SameRecord(r, f)
  BY DEF Kin, OneReviewer
<1>2. r \in Exts
  BY DEF ExtensionAssumption
<1>3. SameRecord(e, r)
  BY <1>1, <1>2, RecordsJoin
<1> QED BY <1>1, <1>2, <1>3, RecordsJoin

\* What is of the record of an extension of the reviewer's record is of that record.
LEMMA KinAlso ==
    ASSUME ExtensionAssumption, NEW e \in Exts, NEW f \in Exts, Kin(f), SameRecord(e, f)
    PROVE  Kin(e)
<1>1. PICK r \in Reviewers : SameRecord(r, f)
  BY DEF Kin
<1>2. r \in Exts
  BY DEF ExtensionAssumption
<1>3. SameRecord(f, e)
  BY <1>1, <1>2, RecordsJoin
<1>4. SameRecord(r, e)
  BY <1>1, <1>2, <1>3, RecordsJoin
<1> QED BY <1>4 DEF Kin

\* An extension is reloaded in the shared snapshot.
LEMMA ReloadKeeps ==
    ASSUME ExtensionAssumption, HostInv, NEW e \in Exts, NEW given, ReloadWith(e, given),
           bg' = bg, index' = index, turn' = turn, waiting' \subseteq Commands
    PROVE  HostInv'
<1>1. PICK allowed \in BOOLEAN, up \in BOOLEAN :
        /\ snap' = Reloaded(snap, e, allowed, up) /\ (up => Starts(e, allowed))
        /\ cells' = IF up THEN Count(snap, e, NextGen(snap, e)) ELSE cells
        /\ hosts' = IF up THEN hosts + 1 ELSE hosts
        /\ down' = down \ {e}
  <2>1. PICK allowed \in BOOLEAN : allowed = (e \in Privileged => e \in given)
    OBVIOUS
  <2> QED BY <2>1 DEF ReloadWith
<1>2. PICK c \in {0, 1} : c = snap.cell
  BY SnapIs
<1>3. PICK n \in Nat : n = cells[c]
  BY <1>2, SnapIs
<1>4. PICK g \in Nat : g = NextGen(snap, e) /\ g > 0
  BY SnapIs, NextGenIs
<1>5. \A i \in 1..Len(snap.diags) : SameRecord(e, snap.diags[i].ext) => snap.diags[i].gen < g
  BY <1>4, SnapIs, NextGenIs
<1>6. Renewed(snap, snap', e, g)
  BY <1>1, <1>4, SnapIs, ReloadedIs
<1>7. snap'.reviewer = IF up /\ e \in Reviewers
                         THEN [ext |-> e, gen |-> NextGen(snap, e), host |-> hosts + 1]
                         ELSE snap.reviewer
  BY <1>1, SnapIs, ReloadedIs
<1>8. GoodSnap(snap') /\ snap'.cell = snap.cell
  BY <1>6 DEF Renewed
<1>9. StaysDown'
  <2> SUFFICES ASSUME NEW f \in down' PROVE f \notin ActiveIn(snap') /\ snap'.exec[f] = 0
    BY DEF StaysDown
  <2>1. f \in Exts /\ f # e /\ f \in down
    BY <1>1, SnapIs
  <2>2. f \notin ActiveIn(snap) /\ snap.exec[f] = 0
    BY <2>1, SnapIs DEF StaysDown
  <2>3. snap'.exec[f] \in {0, snap.exec[f]} /\ (f \in ActiveIn(snap') => f \in ActiveIn(snap))
    BY <1>6, <2>1 DEF Renewed
  <2> QED BY <2>2, <2>3
<1>10. /\ cells' \in [{0, 1} -> Nat] /\ \A b \in {0, 1} : b # c => cells'[b] = cells[b]
       /\ cells'[c] = IF up /\ e \in Reviewers THEN g ELSE n
  BY <1>1, <1>2, <1>3, <1>4, SnapIs DEF Count
<1>11. ASSUME OneReviewer, Kin(e) PROVE n < g
  <2>1. CASE n = 0
    BY <1>4, <2>1
  <2>2. CASE n # 0
    <3>1. PICK i \in 1..Len(snap.diags) : Kin(snap.diags[i].ext) /\ n <= snap.diags[i].gen
      BY <1>2, <1>3, <1>11, <2>2, SnapIs
    <3>2. PICK x \in Nat : x = snap.diags[i].gen
      BY SnapIs, DiagsAre
    <3>3. SameRecord(e, snap.diags[i].ext)
      BY <1>11, <3>1, KinJoin, SnapIs, DiagsAre
    <3>4. n <= x /\ x < g
      BY <1>5, <3>1, <3>2, <3>3
    <3> QED BY <3>4
  <2> QED BY <2>1, <2>2
<1>12. PICK m \in Nat : m = cells'[c]
  BY <1>10
<1>13. e \in Reviewers => Kin(e)
  BY DEF Kin, SameRecord
<1>14. ASSUME OneReviewer PROVE CountedOn
  <2>1. ASSUME NEW k \in 1..Len(snap'.diags), snap'.diags[k].ext \in Reviewers
        PROVE  m <= snap'.diags[k].gen
    <3>1. CASE snap'.diags[k].ext = e /\ snap'.diags[k].gen = g
      BY <1>10, <1>11, <1>12, <1>13, <1>14, <2>1, <3>1
    <3>2. ASSUME NEW i \in 1..Len(snap.diags), snap'.diags[k] = snap.diags[i],
                 ~SameRecord(e, snap.diags[i].ext)
          PROVE  m <= snap'.diags[k].gen
      <4>1. e \notin Reviewers
        BY <1>14, <2>1, <3>2 DEF OneReviewer, SameRecord
      <4>2. n <= snap.diags[i].gen
        BY <1>2, <1>3, <1>14, <2>1, <3>2, SnapIs
      <4> QED BY <1>10, <1>12, <3>2, <4>1, <4>2
    <3> QED BY <1>6, <3>1, <3>2 DEF Renewed
  <2>2. m = 0 \/ \E k \in 1..Len(snap'.diags) :
                    Kin(snap'.diags[k].ext) /\ m <= snap'.diags[k].gen
    <3>1. CASE Kin(e)
      <4>1. PICK k \in 1..Len(snap'.diags) : snap'.diags[k].ext = e /\ snap'.diags[k].gen = g
        BY <1>6 DEF Renewed
      <4>2. m <= g
        BY <1>10, <1>11, <1>12, <1>14, <3>1
      <4> QED BY <3>1, <4>1, <4>2
    <3>2. CASE ~Kin(e) /\ n # 0
      <4>1. m = n
        BY <1>10, <1>12, <1>13, <3>2
      <4>2. PICK i \in 1..Len(snap.diags) : Kin(snap.diags[i].ext) /\ n <= snap.diags[i].gen
        BY <1>2, <1>3, <1>14, <3>2, SnapIs
      <4>3. ~SameRecord(e, snap.diags[i].ext)
        BY <3>2, <4>2, KinAlso, SnapIs, DiagsAre
      <4>4. PICK k \in 1..Len(snap'.diags) : snap'.diags[k] = snap.diags[i]
        BY <1>6, <4>3 DEF Renewed
      <4> QED BY <4>1, <4>2, <4>4
    <3>3. CASE ~Kin(e) /\ n = 0
      BY <1>10, <1>12, <1>13, <3>3
    <3> QED BY <3>1, <3>2, <3>3
  <2>3. \/ m = n /\ snap'.reviewer.host = snap.reviewer.host
        \/ m > n
    <3>1. CASE up /\ e \in Reviewers
      BY <1>10, <1>11, <1>12, <1>13, <1>14, <3>1
    <3>2. CASE ~(up /\ e \in Reviewers)
      BY <1>7, <1>10, <1>12, <3>2
    <3> QED BY <3>1, <3>2
  <2> QED BY <1>2, <1>3, <1>12, <2>1, <2>2, <2>3 DEF CountedOn
<1>16. down' \subseteq Exts /\ (bg.pc # "done" => down' = {})
  BY <1>1, SnapIs
<1>17. hosts' \in Nat
  BY <1>1, SnapIs
<1>18. /\ cells' \in [{0, 1} -> Nat] /\ \A b \in {0, 1} : b # snap.cell => cells'[b] = cells[b]
  BY <1>2, <1>10
<1> QED BY <1>8, <1>9, <1>14, <1>16, <1>17, <1>18, ChangeKeeps

\* The snapshot stays, and at most more is down that is not active.
LEMMA SameKeeps ==
    ASSUME HostInv, UNCHANGED <<snap, cells, hosts, bg, index, turn>>,
           waiting' \subseteq Commands, down' \subseteq Exts, StaysDown',
           bg.pc # "done" => down' = {}
    PROVE  HostInv'
<1>1. /\ snap' = snap /\ cells' = cells /\ hosts' = hosts /\ bg' = bg /\ index' = index
      /\ turn' = turn
  OBVIOUS
<1>2. Counts'
  BY <1>1 DEF HostInv, Counts, OneReviewer, Kin, SameRecord
<1>3. Background'
  BY <1>1 DEF HostInv, Background
<1>4. Reviewing'
  BY <1>1 DEF HostInv, Reviewing, ReviewUndisturbed, SeatKept, OneReviewer
<1> QED BY <1>1, <1>2, <1>3, <1>4 DEF HostInv

\* Nothing the invariant is about changes, but for the tasks that wait.
LEMMA WaitKeeps ==
    ASSUME HostInv, UNCHANGED <<snap, cells, hosts, bg, index, turn, down>>,
           waiting' \subseteq Commands
    PROVE  HostInv'
<1>1. snap' = snap /\ down' = down
  OBVIOUS
<1>2. StaysDown' /\ down' \subseteq Exts /\ (bg.pc # "done" => down' = {})
  BY <1>1, SnapIs DEF StaysDown
<1>3. UNCHANGED <<snap, cells, hosts, bg, index, turn>>
  OBVIOUS
<1> QED BY <1>2, <1>3, SameKeeps

\* The tasks that wait are commands.
LEMMA WaitingAre == ASSUME HostInv PROVE waiting \subseteq Commands
  BY DEF HostInv

\* A command is put on a thread.
LEMMA CommandKeeps == ASSUME HostInv, NEW c \in Commands, Command(c) PROVE HostInv'
<1>1. /\ waiting' = waiting \cup {c}
      /\ UNCHANGED <<snap, cells, hosts, bg, index, turn, down>>
  BY DEF Command
<1>2. waiting' \subseteq Commands
  BY <1>1, WaitingAre
<1> QED BY <1>1, <1>2, WaitKeeps

\* The stop command.
LEMMA StopCommandKeeps ==
    ASSUME ExtensionAssumption, HostInv, NEW sel \in Selectors, NEW e \in Exts,
           StopCommand(sel, e)
    PROVE  HostInv'
<1>1. Stoppable(snap, sel, e)
  BY DEF StopCommand
<1>2. PICK f \in Exts, a \in 1..Len(snap.diags) :
        f = Target(snap, sel, e) /\ snap.diags[a].ext = f /\ snap.diags[a].state = "active"
  BY <1>1, SnapIs, TargetIs
<1>3. /\ snap' = Stop(snap, f) /\ cells' = CountStop(snap, f) /\ bg' = bg /\ index' = index
      /\ turn' = turn /\ hosts' = hosts /\ waiting' = waiting
      /\ down' = IF bg.pc = "done" THEN down \cup {f} ELSE down
  BY <1>2 DEF StopCommand
<1>4. waiting' \subseteq Commands
  BY <1>3, WaitingAre
<1>5. down' = down \/ (bg.pc = "done" /\ down' = down \cup {f})
  BY <1>3
<1> QED BY <1>2, <1>3, <1>4, <1>5, StopKeeps

\* The task that runs, and the record it names.
LEMMA RunsOf ==
    ASSUME ExtensionAssumption, HostInv, NEW c \in waiting, Run(c)
    PROVE  /\ waiting' \subseteq Commands /\ c.ext \in Exts /\ Record(c.sel, c.ext) \in Exts
           /\ c.sel = "id" => Record(c.sel, c.ext) = c.ext
<1>1. c \in Commands /\ waiting' \subseteq Commands
  BY WaitingAre DEF Run
<1>2. c.ext \in Exts
  BY <1>1 DEF Commands
<1> QED BY <1>1, <1>2, RecordIs

\* The reload command.
LEMMA RunReloadKeeps ==
    ASSUME ExtensionAssumption, HostInv, NEW c \in waiting, RunReload(c)
    PROVE  HostInv'
<1>1. /\ Run(c) /\ ReloadWith(Record(c.sel, c.ext), granted) /\ bg' = bg /\ index' = index
      /\ turn' = turn
  BY DEF RunReload
<1>2. PICK e \in Exts : e = Record(c.sel, c.ext) /\ waiting' \subseteq Commands
  BY <1>1, RunsOf
<1>3. ReloadWith(e, granted)
  BY <1>1, <1>2
<1> QED BY <1>1, <1>2, <1>3, ReloadKeeps

\* The trust command: its grant is written, and the extension reloaded or not.
LEMMA RunTrustKeeps ==
    ASSUME ExtensionAssumption, HostInv, NEW c \in waiting, RunTrust(c)
    PROVE  HostInv'
<1>1. /\ Run(c) /\ bg' = bg /\ index' = index /\ turn' = turn
      /\ \/ ReloadWith(Record(c.sel, c.ext), granted')
         \/ UNCHANGED <<snap, cells, hosts, down>>
  BY DEF RunTrust
<1>2. PICK e \in Exts : e = Record(c.sel, c.ext) /\ waiting' \subseteq Commands
  BY <1>1, RunsOf
<1>3. CASE ReloadWith(Record(c.sel, c.ext), granted')
  <2>1. PICK g : g = granted'
    OBVIOUS
  <2>2. ReloadWith(e, g)
    BY <1>2, <1>3, <2>1
  <2> QED BY <1>1, <1>2, <2>2, ReloadKeeps
<1>4. CASE UNCHANGED <<snap, cells, hosts, down>>
  <2>1. UNCHANGED <<snap, cells, hosts, bg, index, turn, down>>
    BY <1>1, <1>4
  <2> QED BY <1>2, <2>1, WaitKeeps
<1> QED BY <1>1, <1>3, <1>4

\* The revoke command: what was not stopped was not active.
LEMMA RunRevokeKeeps ==
    ASSUME ExtensionAssumption, HostInv, NEW c \in waiting, RunRevoke(c)
    PROVE  HostInv'
<1>1. Run(c) /\ bg' = bg /\ index' = index /\ turn' = turn /\ hosts' = hosts
  BY DEF RunRevoke
<1>2. PICK e \in Exts, f \in Exts :
        /\ e = Record(c.sel, c.ext) /\ f = c.ext /\ waiting' \subseteq Commands
        /\ c.sel = "id" => e = f
  BY <1>1, RunsOf
<1>3. \/ /\ snap' = IF Stoppable(snap, c.sel, c.ext)
                      THEN Stop(snap, Target(snap, c.sel, c.ext)) ELSE snap
         /\ cells' = IF Stoppable(snap, c.sel, c.ext)
                       THEN CountStop(snap, Target(snap, c.sel, c.ext)) ELSE cells
         /\ down' = IF bg.pc = "done" /\ c.sel = "id" THEN down \cup {Record(c.sel, c.ext)}
                                                    ELSE down
      \/ UNCHANGED <<snap, cells, down>>
  BY DEF RunRevoke
<1>4. CASE UNCHANGED <<snap, cells, down>>
  <2>1. UNCHANGED <<snap, cells, hosts, bg, index, turn, down>>
    BY <1>1, <1>4
  <2> QED BY <1>2, <2>1, WaitKeeps
<1>5. CASE /\ Stoppable(snap, c.sel, f) /\ snap' = Stop(snap, Target(snap, c.sel, f))
           /\ cells' = CountStop(snap, Target(snap, c.sel, f))
           /\ down' = IF bg.pc = "done" /\ c.sel = "id" THEN down \cup {e} ELSE down
  <2>1. PICK h \in Exts, a \in 1..Len(snap.diags) :
          /\ h = Target(snap, c.sel, f) /\ snap.diags[a].ext = h
          /\ snap.diags[a].state = "active" /\ (c.sel = "id" => h = f)
    BY <1>5, SnapIs, TargetIs
  <2>2. snap' = Stop(snap, h) /\ cells' = CountStop(snap, h)
    BY <1>5, <2>1
  <2>3. down' = down \/ (bg.pc = "done" /\ down' = down \cup {h})
    BY <1>2, <1>5, <2>1
  <2> QED BY <1>1, <1>2, <2>1, <2>2, <2>3, StopKeeps
<1>6. CASE /\ ~Stoppable(snap, c.sel, f) /\ snap' = snap /\ cells' = cells
           /\ down' = IF bg.pc = "done" /\ c.sel = "id" THEN down \cup {e} ELSE down
  <2>1. UNCHANGED <<snap, cells, hosts, bg, index, turn>>
    BY <1>1, <1>6
  <2>2. c.sel = "id" => e \notin ActiveIn(snap) /\ snap.exec[e] = 0
    BY <1>2, <1>6, SnapIs, NotStoppable, NotRouted
  <2>3. StaysDown'
    BY <1>6, <2>2, SnapIs DEF StaysDown
  <2>4. down' \subseteq Exts /\ (bg.pc # "done" => down' = {})
    BY <1>6, SnapIs
  <2> QED BY <1>2, <2>1, <2>3, <2>4, SameKeeps
<1> QED BY <1>2, <1>3, <1>4, <1>5, <1>6

\* Every step keeps the invariant.
LEMMA HostNext ==
    ASSUME ExtensionAssumption, HostInv, [Next]_vars
    PROVE  HostInv'
<1>1. CASE FirstRender BY <1>1, FirstRenderKeeps
<1>2. CASE ScanEnds BY <1>2, ScanEndsKeeps
<1>3. CASE BackgroundRecord BY <1>3, BackgroundRecordKeeps
<1>4. CASE BackgroundStart BY <1>4, BackgroundStartKeeps
<1>5. CASE BackgroundInstalls BY <1>5, BackgroundInstallsKeeps
<1>6. CASE \E c \in Commands : Command(c) BY <1>6, CommandKeeps
<1>7. CASE \E sel \in Selectors, e \in Exts : StopCommand(sel, e) BY <1>7,
   StopCommandKeeps
<1>8. CASE \E c \in waiting : RunReload(c) \/ RunTrust(c) \/ RunRevoke(c)
  BY <1>8, RunReloadKeeps, RunTrustKeeps, RunRevokeKeeps
<1>9. CASE \E e \in Exts : OutsideDecision(e)
  <2>1. UNCHANGED <<snap, cells, hosts, bg, index, turn, down>> /\ waiting' = waiting
    BY <1>9 DEF OutsideDecision
  <2>2. waiting' \subseteq Commands
    BY <2>1, WaitingAre
  <2> QED BY <2>1, <2>2, WaitKeeps
<1>10. CASE BeginTurn BY <1>10, BeginTurnKeeps
<1>11. CASE SendReview BY <1>11, SendReviewKeeps
<1>12. CASE TakeReview BY <1>12, TakeReviewKeeps
<1>13. CASE EndTurn BY <1>13, EndTurnKeeps
<1>14. CASE UNCHANGED vars
  <2>1. UNCHANGED <<snap, cells, hosts, bg, index, turn, down>> /\ waiting' = waiting
    BY <1>14 DEF vars
  <2>2. waiting' \subseteq Commands
    BY <2>1, WaitingAre
  <2> QED BY <2>1, <2>2, WaitKeeps
<1> QED BY <1>1, <1>2, <1>3, <1>4, <1>5, <1>6, <1>7, <1>8, <1>9, <1>10, <1>11, <1>12,
           <1>13, <1>14 DEF Next

\* The invariant holds always, for any extensions, packages and source_refs, and any
\* number of commands and turns.
THEOREM HostInvariant == Spec => []HostInv
<1>1. Init => HostInv
  BY HostInit
<1>2. HostInv /\ [Next]_vars => HostInv'
  BY HostNext, ExtensionAssumption
<1> QED BY <1>1, <1>2, PTL DEF Spec

\* The parts of every snapshot agree: the extensions that diagnostics call active are those
\* routed to a host, and their tools are registered, through every failed, blocked or
\* repeated reload (extension.rs:961-1127). Tools with no host behind them are of an
\* extension that shares its record and has no diagnostic.
THEOREM SnapshotsAgree == Spec => []SnapshotAgrees
<1>1. HostInv => SnapshotAgrees
  <2> SUFFICES ASSUME HostInv, NEW s \in {snap, turn.snap, bg.snap} PROVE Agrees(s)
    BY DEF SnapshotAgrees, Agrees, Routed, Mentions
  <2>1. GoodSnap(snap) /\ GoodSnap(turn.snap) /\ GoodSnap(bg.snap)
    BY DEF HostInv, Reviewing, Background
  <2> QED BY <2>1 DEF GoodSnap
<1> QED BY <1>1, HostInvariant, PTL

\* What was stopped, or revoked by its id, stays down until it is reloaded or trusted
\* again, whichever waiting task runs next (extension_state.rs).
THEOREM StoppedStaysDown == Spec => []StaysDown
<1>1. HostInv => StaysDown
  BY DEF HostInv
<1> QED BY <1>1, HostInvariant, PTL

\* In a session of one reviewer, which may share its record with other extensions, a
\* review is acted on only if the reviewer in the seat has been the same since it was sent
\* (coordinator.rs:358-367).
THEOREM ReviewsAreUndisturbed == Spec => []ReviewUndisturbed
<1>1. HostInv => ReviewUndisturbed
  BY DEF HostInv, Reviewing
<1> QED BY <1>1, HostInvariant, PTL
=============================================================================
