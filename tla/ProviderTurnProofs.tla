-------------------------- MODULE ProviderTurnProofs --------------------------
(***************************************************************************)
(* Proofs about ProviderTurn: for any number of requests, retries, chunks, *)
(* tool calls, notices and cancels, every attempt of a turn settles        *)
(* exactly once; and nothing of an attempt that was given up stays in what *)
(* the client shows, but for the text the code leaves standing when a      *)
(* request turns out too long and is made again (late).                    *)
(*                                                                         *)
(* That the transcript is clean is not inductive: a retracted chunk may    *)
(* still be in the channel, shown, or not yet retracted by the reset that  *)
(* is due. The invariant follows every chunk of an abandoned attempt to    *)
(* the reset that will take it back: one that waits in the channel behind  *)
(* it and counts far enough to cover it (SentRetracted, RowsRetracted), or *)
(* the one the task still owes (SentDue, RowsDue); and it says that a      *)
(* reset finds as many trailing text rows as it counts (Findable), so that *)
(* the client never loses its place.                                       *)
(***************************************************************************)
EXTENDS ProviderTurn, FiniteSetTheorems, SequenceTheorems, TLAPS

\* The messages of the turn's channel.
Event == [kind : {"delta", "reset", "tool"} \cup Outcomes, seq : Nat, count : Nat]
\* The rows of the transcript.
Row   == [kind : {"text", "other"}, chunk : Nat]
\* The state of a request.
Request == [retry : Nat, spent : Nat, prefix : Seq(Nat), streamed : BOOLEAN,
            delay : Nat, discard : Nat]

\* The state of an attempt.
Attempt == [text : Seq(Nat), live : Nat, calls : Nat, partial : Nat, done : BOOLEAN]
\* The state of the client.
Client  == [st : {"idle", "streaming", "cancelled", "desync", "gone"}, seen : Nat,
            rows : Seq(Row)]

\* The types of the state.
TurnShape ==
    /\ seq \in Nat /\ started \subseteq 1..seq /\ dropped \subseteq started
    /\ settled \in Seq(Nat) /\ req \in Request /\ att \in Attempt
    /\ wire \in Seq(Event) /\ ui \in Client /\ notices \in Nat
    /\ open \in BOOLEAN /\ cancelled \in BOOLEAN

\* The attempts and their settlements, as SettledOnce needs them.
AttemptsSettle ==
    /\ \A i \in 1..Len(settled) : settled[i] <= seq /\ (pc = "attempt" => settled[i] < seq)
    /\ SettledOnce

-----------------------------------------------------------------------------
\* What a reset at position k of the wire, or due there, with count n retracts.
CoversSent(p, k, n)     == p < k /\ k - p <= n
\* A reset of n rows at place k of the channel takes back the row i, if it applies at
\* all.
CoversRow(rows, i, k, n) == Trailing(rows, n - (k - 1)) => i > Len(rows) - (n - (k - 1))

IsReset(w, k)   == w[k].kind = "reset"
IsDelta(w, p)   == w[p].kind = "delta"
\* The row i is text of the answer.
IsText(rows, i) == rows[i].kind = "text"

\* What the attempt in flight, or the one that broke off, has shown and a reset would
\* have to retract; and what the reset that is due will retract.
Owed == IF pc = "attempt" THEN att.live ELSE IF pc = "delay" THEN req.discard ELSE 0
Due  == IF pc = "delay" THEN req.discard ELSE 0

\* The messages a reset retracts are deltas and directly precede it.
Precede(w, k, n) == \A p \in 1..Len(w) : CoversSent(p, k, n) => IsDelta(w, p)
\* Before every reset, and at the end of the channel before the one of n rows, there
\* are enough chunks, or nothing but chunks.
Counted(w, n) ==
    /\ \A k \in 1..Len(w) : IsReset(w, k) => Precede(w, k, w[k].count)
    /\ Precede(w, Len(w) + 1, n)

\* Every reset finds its text at the end of the transcript.
Finds(rows, k, n) == n - (k - 1) > 0 => Trailing(rows, n - (k - 1))
\* Every reset finds its rows at the end of the transcript.
Findable(w, rows, n) ==
    /\ \A k \in 1..Len(w) : IsReset(w, k) => Finds(rows, k, w[k].count)
    /\ Finds(rows, Len(w) + 1, n)

\* Resets are numbered upwards, from the last one seen to the current attempt.
Numbered(w, seen, N) ==
    /\ seen <= N
    /\ \A k \in 1..Len(w) : IsReset(w, k) => seen < w[k].seq /\ w[k].seq <= N
    /\ \A k, l \in 1..Len(w) : IsReset(w, k) /\ IsReset(w, l) /\ k < l => w[k].seq < w[l].seq

\* Text is of attempts that have started.
RowsUpTo(rows, N) == \A i \in 1..Len(rows) : rows[i].chunk <= N
SentUpTo(w, N)    == \A p \in 1..Len(w) : IsDelta(w, p) => w[p].seq <= N

\* Text of a later attempt never follows dropped text, but after a reset that retracts
\* the latter.
RowsKept(rows, D) ==
    \A i, j \in 1..Len(rows) :
      i < j /\ IsText(rows, i) /\ IsText(rows, j) /\ rows[i].chunk \in D =>
        rows[j].chunk <= rows[i].chunk

\* A row of an abandoned attempt is taken back before a chunk of a later attempt is
\* shown.
RowsRetracted(w, rows, D) ==
    \A i \in 1..Len(rows), p \in 1..Len(w) :
      IsText(rows, i) /\ rows[i].chunk \in D /\ IsDelta(w, p) /\ w[p].seq > rows[i].chunk =>
        \E k \in 1..Len(w) : k < p /\ IsReset(w, k) /\ CoversRow(rows, i, k, w[k].count)

\* So is a chunk of an abandoned attempt that is still in the channel.
SentRetracted(w, D) ==
    \A p, q \in 1..Len(w) :
      p < q /\ IsDelta(w, p) /\ IsDelta(w, q) /\ w[p].seq \in D /\ w[q].seq > w[p].seq =>
        \E k \in 1..Len(w) : k < q /\ IsReset(w, k) /\ CoversSent(p, k, w[k].count)

\* Dropped text has a reset that retracts it, sent, or due with count n.
RowsDue(w, rows, D, n) ==
    \A i \in 1..Len(rows) : IsText(rows, i) /\ rows[i].chunk \in D =>
      \/ \E k \in 1..Len(w) : IsReset(w, k) /\ CoversRow(rows, i, k, w[k].count)
      \/ CoversRow(rows, i, Len(w) + 1, n)

\* A chunk of an abandoned attempt is taken back by a reset in the channel, or by one
\* of n rows that is due.
SentDue(w, D, n) ==
    \A p \in 1..Len(w) : IsDelta(w, p) /\ w[p].seq \in D =>
      \/ \E k \in 1..Len(w) : IsReset(w, k) /\ CoversSent(p, k, w[k].count)
      \/ CoversSent(p, Len(w) + 1, n)

\* The text of attempt N is the last, and no more than n.
RowsLast(w, rows, N, n) ==
    \A i \in 1..Len(rows) : IsText(rows, i) /\ rows[i].chunk = N =>
      CoversRow(rows, i, Len(w) + 1, n)

\* The chunks of attempt N are the last n in the channel or at the end of the
\* transcript.
SentLast(w, N, n) ==
    \A p \in 1..Len(w) : IsDelta(w, p) /\ w[p].seq = N => CoversSent(p, Len(w) + 1, n)

\* The end of the turn is the last message; a client that left gets none.
EndsLast ==
    /\ \A p \in 1..Len(wire) : wire[p].kind \in Outcomes => p = Len(wire) /\ pc = "ended"
    /\ ui.st = "idle" => wire = <<>> /\ pc = "ended"
    /\ ui.st = "gone" <=> ~open
    /\ ~open => wire = <<>> /\ ui.rows = <<>>

\* What is on its way.
SentInv ==
    /\ Counted(wire, Owed) /\ Numbered(wire, ui.seen, seq) /\ SentUpTo(wire, seq)
    /\ SentRetracted(wire, dropped)
    /\ pc # "ended" => SentDue(wire, dropped, Due)
    /\ pc = "attempt" => SentLast(wire, seq, att.live)

\* What is shown, and shown next.
RowsInv ==
    /\ RowsUpTo(ui.rows, seq) /\ RowsKept(ui.rows, dropped)
    /\ ui.st = "streaming" =>
         /\ notices = 0 => Findable(wire, ui.rows, Owed)
         /\ RowsRetracted(wire, ui.rows, dropped)
         /\ pc # "ended" => RowsDue(wire, ui.rows, dropped, Due)
         /\ pc = "attempt" => RowsLast(wire, ui.rows, seq, att.live)

\* The attempt in flight.
AttemptInv ==
    /\ pc = "attempt" => att.live <= Len(att.text) /\ seq \in started \ dropped
    /\ open => req.streamed \/ (req.prefix = <<>> /\ att.text = <<>>)

\* What the channel and the transcript owe each other.
WireInv == SentInv /\ RowsInv /\ EndsLast /\ AttemptInv /\ ResetsApply

\* The inductive invariant.
TurnInv == TurnShape /\ AttemptsSettle /\ WireInv

-----------------------------------------------------------------------------
\* The lemmas of the channel and of the transcript, as functions of both.  t is w with
\* m behind it; t is w without its head.
Longer(t, w, m) ==
    /\ Len(w) \in Nat /\ Len(t) = Len(w) + 1
    /\ \A i \in 1..Len(w) : t[i] = w[i]
    /\ t[Len(w) + 1] = m

\* t is w without its first element.
Shorter(t, w) ==
    /\ Len(t) \in Nat /\ Len(w) = Len(t) + 1
    /\ \A i \in 1..Len(t) : t[i] = w[i + 1]

\* Every event of the channel has numbers.
Numeric(w) == \A i \in 1..Len(w) : w[i].seq \in Nat /\ w[i].count \in Nat

\* Append gives one element more, at the end.
LEMMA AppendIsLonger ==
    ASSUME NEW M, NEW w \in Seq(M), NEW m \in M
    PROVE  Longer(Append(w, m), w, m)
<1>1. Len(w) \in Nat
  BY LenProperties
<1> QED BY <1>1 DEF Longer

\* Tail gives one element less, at the front.
LEMMA TailIsShorter ==
    ASSUME NEW M, NEW w \in Seq(M), w # <<>>
    PROVE  Shorter(Tail(w), w) /\ Head(w) = w[1] /\ Tail(w) \in Seq(M) /\ Head(w) \in M
<1>1. Len(w) \in Nat /\ Len(w) > 0
  BY LenProperties, EmptySeq
<1>2. Tail(w) \in Seq(M) /\ Head(w) = w[1] /\ Len(Tail(w)) = Len(w) - 1 /\ Head(w) \in M
  BY <1>1
<1>3. \A i \in 1..Len(Tail(w)) : Tail(w)[i] = w[i + 1]
  BY <1>1, <1>2
<1> QED BY <1>1, <1>2, <1>3 DEF Shorter

\* A sequence of events has numbers.
LEMMA EventNumeric == ASSUME NEW w \in Seq(Event) PROVE Numeric(w)
<1>1. \A i \in 1..Len(w) : w[i] \in Event
  OBVIOUS
<1> QED BY <1>1 DEF Numeric, Event

\* A sequence of rows has numbers.
LEMMA RowNumeric ==
    ASSUME NEW rows \in Seq(Row)
    PROVE  /\ Len(rows) \in Nat
           /\ \A i \in 1..Len(rows) : rows[i] \in Row /\ rows[i].chunk \in Nat
<1>1. Len(rows) \in Nat /\ \A i \in 1..Len(rows) : rows[i] \in Row
  BY LenProperties
<1> QED BY <1>1 DEF Row

\* The places of the longer and of the shorter one.
LEMMA LongerPlaces ==
    ASSUME NEW t, NEW w, NEW m, Longer(t, w, m)
    PROVE  /\ \A i \in 1..Len(w) : i \in 1..Len(t) /\ i \in Nat /\ i <= Len(w)
           /\ Len(w) + 1 \in 1..Len(t)
           /\ \A i \in 1..Len(t) : i \in 1..Len(w) \/ i = Len(w) + 1
  BY DEF Longer

\* The places of a sequence and of its tail.
LEMMA ShorterPlaces ==
    ASSUME NEW t, NEW w, Shorter(t, w)
    PROVE  /\ \A i \in 1..Len(t) : i + 1 \in 1..Len(w) /\ i \in Nat
           /\ 1 \in 1..Len(w)
           /\ \A i \in 1..Len(w) : i # 1 => i - 1 \in 1..Len(t) /\ i = (i - 1) + 1
  BY DEF Shorter

-----------------------------------------------------------------------------
\* A message is sent.
LEMMA CountedMore ==
    ASSUME NEW t, NEW w, NEW m, Longer(t, w, m), Numeric(w), NEW n \in Nat, Counted(w, n),
           m.kind # "reset", NEW d \in Nat, d = 0 \/ (m.kind = "delta" /\ d = n + 1)
    PROVE  Counted(t, d)
<1>1. ASSUME NEW k \in 1..Len(t), IsReset(t, k)
      PROVE  Precede(t, k, t[k].count)
  <2>1. k \in 1..Len(w) /\ t[k] = w[k] /\ w[k].count \in Nat /\ IsReset(w, k) /\ k \in Nat
    BY <1>1, LongerPlaces DEF Longer, IsReset, Numeric
  <2> SUFFICES ASSUME NEW p \in 1..Len(t), CoversSent(p, k, w[k].count)
               PROVE  IsDelta(t, p)
    BY <2>1 DEF Precede
  <2>2. p \in 1..Len(w)
    BY <2>1, LongerPlaces DEF CoversSent, Longer
  <2>3. IsDelta(w, p)
    BY <2>1, <2>2 DEF Counted, Precede
  <2> QED BY <2>2, <2>3 DEF IsDelta, Longer
<1>2. Precede(t, Len(t) + 1, d)
  <2> SUFFICES ASSUME NEW p \in 1..Len(t), CoversSent(p, Len(t) + 1, d)
               PROVE  IsDelta(t, p)
    BY DEF Precede
  <2>1. d = n + 1 /\ m.kind = "delta"
    BY DEF CoversSent, Longer
  <2>2. CASE p = Len(w) + 1
    BY <2>1, <2>2 DEF IsDelta, Longer
  <2>3. CASE p \in 1..Len(w)
    <3>1. CoversSent(p, Len(w) + 1, n)
      BY <2>1, <2>3 DEF CoversSent, Longer
    <3>2. IsDelta(w, p)
      BY <2>3, <3>1 DEF Counted, Precede
    <3> QED BY <2>3, <3>2 DEF IsDelta, Longer
  <2> QED BY <2>2, <2>3, LongerPlaces
<1> QED BY <1>1, <1>2 DEF Counted

\* A reset that joins the channel counts what was due.
LEMMA CountedReset ==
    ASSUME NEW t, NEW w, NEW m, Longer(t, w, m), Numeric(w), NEW n \in Nat, Counted(w, n),
           m.kind = "reset", m.count = n
    PROVE  Counted(t, 0)
<1>1. ASSUME NEW k \in 1..Len(t), IsReset(t, k)
      PROVE  Precede(t, k, t[k].count)
  <2> SUFFICES ASSUME NEW p \in 1..Len(t), CoversSent(p, k, t[k].count)
               PROVE  IsDelta(t, p)
    BY DEF Precede
  <2>1. p \in 1..Len(w)
    BY LongerPlaces DEF CoversSent, Longer
  <2>2. CASE k \in 1..Len(w)
    <3>1. t[k] = w[k] /\ IsReset(w, k)
      BY <1>1, <2>2 DEF Longer, IsReset
    <3>2. IsDelta(w, p)
      BY <2>1, <2>2, <3>1 DEF Counted, Precede
    <3> QED BY <2>1, <3>2 DEF IsDelta, Longer
  <2>3. CASE k = Len(w) + 1
    <3>1. CoversSent(p, Len(w) + 1, n)
      BY <2>3 DEF Longer
    <3>2. IsDelta(w, p)
      BY <2>1, <3>1 DEF Counted, Precede
    <3> QED BY <2>1, <3>2 DEF IsDelta, Longer
  <2> QED BY <2>2, <2>3, LongerPlaces
<1>2. Precede(t, Len(t) + 1, 0)
  BY DEF Precede, CoversSent, Longer
<1> QED BY <1>1, <1>2 DEF Counted

\* A reset of no rows is always counted.
LEMMA CountedNone ==
    ASSUME NEW w, Len(w) \in Nat, NEW n, Counted(w, n) PROVE Counted(w, 0)
  BY DEF Counted, Precede, CoversSent

\* A message that is no reset leaves the resets their rows.
LEMMA FindableMore ==
    ASSUME NEW t, NEW w, NEW m, Longer(t, w, m), Numeric(w), NEW rows, NEW n \in Nat,
           Findable(w, rows, n), m.kind # "reset", NEW d \in Nat, d = 0 \/ d = n + 1
    PROVE  Findable(t, rows, d)
<1>1. ASSUME NEW k \in 1..Len(t), IsReset(t, k)
      PROVE  Finds(rows, k, t[k].count)
  <2>1. k \in 1..Len(w) /\ t[k] = w[k] /\ IsReset(w, k)
    BY <1>1, LongerPlaces DEF Longer, IsReset
  <2> QED BY <2>1 DEF Findable
<1>2. CASE d = 0
  <2>1. Finds(rows, Len(t) + 1, d)
    BY <1>2 DEF Finds, Longer
  <2> QED BY <1>1, <2>1 DEF Findable
<1>3. CASE d = n + 1
  <2>1. d - ((Len(t) + 1) - 1) = n - ((Len(w) + 1) - 1)
    BY <1>3 DEF Longer
  <2>2. Finds(rows, Len(w) + 1, n)
    BY DEF Findable
  <2>3. Finds(rows, Len(t) + 1, d)
    BY <2>1, <2>2 DEF Finds
  <2> QED BY <1>1, <2>3 DEF Findable
<1> QED BY <1>2, <1>3

\* A reset that joins the channel finds what was due.
LEMMA FindableReset ==
    ASSUME NEW t, NEW w, NEW m, Longer(t, w, m), NEW rows, NEW n \in Nat,
           Findable(w, rows, n), m.count = n
    PROVE  Findable(t, rows, 0)
<1>1. ASSUME NEW k \in 1..Len(t), IsReset(t, k)
      PROVE  Finds(rows, k, t[k].count)
  <2>1. CASE k \in 1..Len(w)
    BY <1>1, <2>1 DEF Longer, IsReset, Findable
  <2>2. CASE k = Len(w) + 1
    BY <2>2 DEF Longer, Findable
  <2> QED BY <2>1, <2>2, LongerPlaces
<1>2. Finds(rows, Len(t) + 1, 0)
  BY DEF Finds, Longer
<1> QED BY <1>1, <1>2 DEF Findable

\* A reset of no rows always finds them.
LEMMA FindableNone ==
    ASSUME NEW w, Len(w) \in Nat, NEW rows, NEW n, Findable(w, rows, n)
    PROVE  Findable(w, rows, 0)
  BY DEF Findable, Finds

\* A message that is no reset leaves the numbers of the resets.
LEMMA NumberedMore ==
    ASSUME NEW t, NEW w, NEW m, Longer(t, w, m), NEW seen, NEW N, Numbered(w, seen, N),
           m.kind # "reset"
    PROVE  Numbered(t, seen, N)
<1>1. \A k \in 1..Len(t) : IsReset(t, k) => k \in 1..Len(w) /\ t[k] = w[k] /\ IsReset(w, k)
  BY LongerPlaces DEF Longer, IsReset
<1> QED BY <1>1 DEF Numbered

\* A reset that joins the channel has the next number.
LEMMA NumberedReset ==
    ASSUME NEW t, NEW w, NEW m, Longer(t, w, m), Numeric(w), NEW seen \in Nat, NEW N \in Nat,
           Numbered(w, seen, N), m.seq = N + 1
    PROVE  Numbered(t, seen, N + 1)
<1>1. \A k \in 1..Len(t) : IsReset(t, k) =>
        \/ k \in 1..Len(w) /\ t[k] = w[k] /\ IsReset(w, k)
        \/ k = Len(w) + 1 /\ t[k] = m
  BY LongerPlaces DEF Longer, IsReset
<1>2. \A k \in 1..Len(w) : k <= Len(w) /\ k \in Nat /\ w[k].seq \in Nat
  BY DEF Longer, Numeric
<1>3. seen <= N + 1
  BY DEF Numbered
<1>4. ASSUME NEW k \in 1..Len(t), IsReset(t, k)
      PROVE  seen < t[k].seq /\ t[k].seq <= N + 1
  BY <1>1, <1>2, <1>4 DEF Numbered
<1>5. ASSUME NEW k \in 1..Len(t), NEW l \in 1..Len(t), IsReset(t, k), IsReset(t, l), k < l
      PROVE  t[k].seq < t[l].seq
  <2>1. k \in 1..Len(w) /\ t[k] = w[k] /\ IsReset(w, k)
    BY <1>1, <1>2, <1>5 DEF Longer
  <2>2. w[k].seq \in Nat /\ w[k].seq <= N
    BY <1>2, <2>1 DEF Numbered
  <2>3. CASE l \in 1..Len(w) /\ t[l] = w[l] /\ IsReset(w, l)
    BY <1>5, <2>1, <2>3 DEF Numbered
  <2>4. CASE l = Len(w) + 1 /\ t[l] = m
    BY <2>1, <2>2, <2>4
  <2> QED BY <1>1, <1>5, <2>3, <2>4
<1> QED BY <1>3, <1>4, <1>5 DEF Numbered

\* The numbers in use stay below a higher one.
LEMMA NumberedUp ==
    ASSUME NEW w, Numeric(w), NEW seen \in Nat, NEW N \in Nat, Numbered(w, seen, N)
    PROVE  Numbered(w, seen, N + 1)
  BY DEF Numbered, Numeric

\* A chunk that joins the channel is of no later attempt.
LEMMA UpToMore ==
    ASSUME NEW t, NEW w, NEW m, Longer(t, w, m), NEW N, SentUpTo(w, N),
           m.kind = "delta" => m.seq <= N
    PROVE  SentUpTo(t, N)
<1> SUFFICES ASSUME NEW p \in 1..Len(t), IsDelta(t, p) PROVE t[p].seq <= N
  BY DEF SentUpTo
<1>1. CASE p \in 1..Len(w)
  BY <1>1 DEF SentUpTo, IsDelta, Longer
<1>2. CASE p = Len(w) + 1
  BY <1>2 DEF IsDelta, Longer
<1> QED BY <1>1, <1>2, LongerPlaces

\* The chunks in the channel are of attempts up to a higher one.
LEMMA UpToUp ==
    ASSUME NEW w, Numeric(w), NEW N \in Nat, SentUpTo(w, N) PROVE SentUpTo(w, N + 1)
  BY DEF SentUpTo, Numeric

\* The resets of the wire stay where they are.
LEMMA ResetStays ==
    ASSUME NEW t, NEW w, NEW m, Longer(t, w, m), NEW k \in 1..Len(w), IsReset(w, k)
    PROVE  k \in 1..Len(t) /\ IsReset(t, k) /\ t[k] = w[k] /\ k < Len(w) + 1
  BY LongerPlaces DEF Longer, IsReset

\* Dropped text: nothing that covers nothing is due.
LEMMA NothingDue ==
    ASSUME NEW w, Len(w) \in Nat, NEW rows, Len(rows) \in Nat
    PROVE  /\ \A p \in 1..Len(w) : ~CoversSent(p, Len(w) + 1, 0)
           /\ \A i \in 1..Len(rows) : ~CoversRow(rows, i, Len(w) + 1, 0)
<1>1. ASSUME NEW i \in 1..Len(rows) PROVE ~CoversRow(rows, i, Len(w) + 1, 0)
  <2>1. 0 - ((Len(w) + 1) - 1) \in Int /\ 0 - ((Len(w) + 1) - 1) <= 0
    OBVIOUS
  <2>2. PICK z \in Int : z = 0 - ((Len(w) + 1) - 1) /\ z <= 0
    BY <2>1
  <2>3. Trailing(rows, z) /\ ~(i > Len(rows) - z)
    BY <2>2 DEF Trailing
  <2> QED BY <2>2, <2>3 DEF CoversRow
<1> QED BY <1>1 DEF CoversSent

\* A message that joins the channel comes behind the resets that are due.
LEMMA SentRetractedMore ==
    ASSUME NEW t, NEW w, NEW m, Longer(t, w, m), Numeric(w), NEW D, SentRetracted(w, D),
           m.kind = "delta" => \/ m.seq = 0
                               \/ SentDue(w, D, 0)
    PROVE  SentRetracted(t, D)
<1> SUFFICES ASSUME NEW p \in 1..Len(t), NEW q \in 1..Len(t),
                    p < q, IsDelta(t, p), IsDelta(t, q), t[p].seq \in D, t[q].seq > t[p].seq
             PROVE  \E k \in 1..Len(t) :
                      k < q /\ IsReset(t, k) /\ CoversSent(p, k, t[k].count)
  BY DEF SentRetracted
<1>1. p \in 1..Len(w) /\ t[p] = w[p] /\ IsDelta(w, p) /\ w[p].seq \in Nat
  BY LongerPlaces DEF Longer, IsDelta, Numeric
<1>2. CASE q \in 1..Len(w)
  <2>1. t[q] = w[q] /\ IsDelta(w, q)
    BY <1>2 DEF Longer, IsDelta
  <2>2. PICK k \in 1..Len(w) : k < q /\ IsReset(w, k) /\ CoversSent(p, k, w[k].count)
    BY <1>1, <1>2, <2>1 DEF SentRetracted
  <2> QED BY <2>2, ResetStays
<1>3. CASE q = Len(w) + 1
  <2>1. t[q] = m /\ m.kind = "delta" /\ m.seq > w[p].seq
    BY <1>1, <1>3 DEF Longer, IsDelta
  <2>2. SentDue(w, D, 0) /\ Len(w) \in Nat
    BY <1>1, <2>1 DEF Longer
  <2>3. \/ \E k \in 1..Len(w) : IsReset(w, k) /\ CoversSent(p, k, w[k].count)
        \/ CoversSent(p, Len(w) + 1, 0)
    BY <1>1, <2>2 DEF SentDue
  <2>4. ~CoversSent(p, Len(w) + 1, 0)
    BY <1>1, <2>2 DEF CoversSent
  <2>5. PICK k \in 1..Len(w) : IsReset(w, k) /\ CoversSent(p, k, w[k].count)
    BY <2>3, <2>4
  <2> QED BY <1>3, <2>5, ResetStays
<1> QED BY <1>2, <1>3, LongerPlaces

\* The same, for the rows of the transcript.
LEMMA RowsRetractedMore ==
    ASSUME NEW t, NEW w, NEW m, Longer(t, w, m), NEW D, NEW rows \in Seq(Row),
           RowsRetracted(w, rows, D),
           m.kind = "delta" => \/ m.seq = 0
                               \/ RowsDue(w, rows, D, 0)
    PROVE  RowsRetracted(t, rows, D)
<1> SUFFICES ASSUME NEW i \in 1..Len(rows), NEW p \in 1..Len(t), IsText(rows, i),
                    rows[i].chunk \in D, IsDelta(t, p), t[p].seq > rows[i].chunk
             PROVE  \E k \in 1..Len(t) :
                      k < p /\ IsReset(t, k) /\ CoversRow(rows, i, k, t[k].count)
  BY DEF RowsRetracted
<1>1. rows[i].chunk \in Nat /\ Len(rows) \in Nat /\ Len(w) \in Nat
  BY RowNumeric DEF Longer
<1>2. CASE p \in 1..Len(w)
  <2>1. t[p] = w[p] /\ IsDelta(w, p)
    BY <1>2 DEF Longer, IsDelta
  <2>2. PICK k \in 1..Len(w) : k < p /\ IsReset(w, k) /\ CoversRow(rows, i, k, w[k].count)
    BY <1>2, <2>1 DEF RowsRetracted
  <2> QED BY <2>2, ResetStays
<1>3. CASE p = Len(w) + 1
  <2>1. t[p] = m /\ m.kind = "delta" /\ m.seq > rows[i].chunk
    BY <1>3 DEF Longer, IsDelta
  <2>2. RowsDue(w, rows, D, 0)
    BY <1>1, <2>1
  <2>3. \/ \E k \in 1..Len(w) : IsReset(w, k) /\ CoversRow(rows, i, k, w[k].count)
        \/ CoversRow(rows, i, Len(w) + 1, 0)
    BY <2>2 DEF RowsDue
  <2>4. ~CoversRow(rows, i, Len(w) + 1, 0)
    BY <1>1, NothingDue
  <2>5. PICK k \in 1..Len(w) : IsReset(w, k) /\ CoversRow(rows, i, k, w[k].count)
    BY <2>3, <2>4
  <2> QED BY <1>3, <2>5, ResetStays
<1> QED BY <1>2, <1>3, LongerPlaces

\* A message that is of no abandoned attempt owes nothing.
LEMMA SentDueMore ==
    ASSUME NEW t, NEW w, NEW m, Longer(t, w, m), NEW D, SentDue(w, D, 0),
           m.kind = "delta" => m.seq \notin D
    PROVE  SentDue(t, D, 0)
<1> SUFFICES ASSUME NEW p \in 1..Len(t), IsDelta(t, p), t[p].seq \in D
             PROVE  \E k \in 1..Len(t) : IsReset(t, k) /\ CoversSent(p, k, t[k].count)
  BY DEF SentDue
<1>1. p \in 1..Len(w) /\ t[p] = w[p] /\ IsDelta(w, p)
  BY LongerPlaces DEF Longer, IsDelta
<1>2. ~CoversSent(p, Len(w) + 1, 0)
  BY <1>1 DEF CoversSent, Longer
<1>3. PICK k \in 1..Len(w) : IsReset(w, k) /\ CoversSent(p, k, w[k].count)
  BY <1>1, <1>2 DEF SentDue
<1> QED BY <1>3, ResetStays

\* A longer channel still takes back the rows.
LEMMA RowsDueMore ==
    ASSUME NEW t, NEW w, NEW m, Longer(t, w, m), NEW D, NEW rows \in Seq(Row),
           RowsDue(w, rows, D, 0)
    PROVE  RowsDue(t, rows, D, 0)
<1> SUFFICES ASSUME NEW i \in 1..Len(rows), IsText(rows, i), rows[i].chunk \in D
             PROVE  \E k \in 1..Len(t) : IsReset(t, k) /\ CoversRow(rows, i, k, t[k].count)
  BY DEF RowsDue
<1>1. Len(rows) \in Nat /\ Len(w) \in Nat
  BY DEF Longer
<1>2. ~CoversRow(rows, i, Len(w) + 1, 0)
  BY <1>1, NothingDue
<1>3. PICK k \in 1..Len(w) : IsReset(w, k) /\ CoversRow(rows, i, k, w[k].count)
  BY <1>2 DEF RowsDue
<1> QED BY <1>3, ResetStays

\* A reset that was due is sent.
LEMMA SentDueReset ==
    ASSUME NEW t, NEW w, NEW m, Longer(t, w, m), NEW D, NEW n, SentDue(w, D, n),
           m.kind = "reset", m.count = n
    PROVE  SentDue(t, D, 0)
<1> SUFFICES ASSUME NEW p \in 1..Len(t), IsDelta(t, p), t[p].seq \in D
             PROVE  \E k \in 1..Len(t) : IsReset(t, k) /\ CoversSent(p, k, t[k].count)
  BY DEF SentDue
<1>1. p \in 1..Len(w) /\ t[p] = w[p] /\ IsDelta(w, p)
  BY LongerPlaces DEF Longer, IsDelta
<1>2. Len(w) + 1 \in 1..Len(t) /\ IsReset(t, Len(w) + 1) /\ t[Len(w) + 1].count = n
  BY LongerPlaces DEF Longer, IsReset
<1>3. CASE \E k \in 1..Len(w) : IsReset(w, k) /\ CoversSent(p, k, w[k].count)
  BY <1>3, ResetStays
<1>4. CASE CoversSent(p, Len(w) + 1, n)
  BY <1>2, <1>4
<1> QED BY <1>1, <1>3, <1>4 DEF SentDue

\* The reset that joins the channel pays what was due.
LEMMA RowsDueReset ==
    ASSUME NEW t, NEW w, NEW m, Longer(t, w, m), NEW D, NEW rows, NEW n, RowsDue(w, rows, D, n),
           m.kind = "reset", m.count = n
    PROVE  RowsDue(t, rows, D, 0)
<1> SUFFICES ASSUME NEW i \in 1..Len(rows), IsText(rows, i), rows[i].chunk \in D
             PROVE  \E k \in 1..Len(t) : IsReset(t, k) /\ CoversRow(rows, i, k, t[k].count)
  BY DEF RowsDue
<1>2. Len(w) + 1 \in 1..Len(t) /\ IsReset(t, Len(w) + 1) /\ t[Len(w) + 1].count = n
  BY LongerPlaces DEF Longer, IsReset
<1>3. CASE \E k \in 1..Len(w) : IsReset(w, k) /\ CoversRow(rows, i, k, w[k].count)
  BY <1>3, ResetStays
<1>4. CASE CoversRow(rows, i, Len(w) + 1, n)
  BY <1>2, <1>4
<1> QED BY <1>3, <1>4 DEF RowsDue

\* One more delta of the attempt in flight.
LEMMA SentLastMore ==
    ASSUME NEW t, NEW w, NEW m, Longer(t, w, m), NEW N, NEW n \in Nat, SentLast(w, N, n)
    PROVE  SentLast(t, N, n + 1)
<1> SUFFICES ASSUME NEW p \in 1..Len(t), IsDelta(t, p), t[p].seq = N
             PROVE  CoversSent(p, Len(t) + 1, n + 1)
  BY DEF SentLast
<1>1. CASE p \in 1..Len(w)
  <2>1. CoversSent(p, Len(w) + 1, n)
    BY <1>1 DEF SentLast, IsDelta, Longer
  <2> QED BY <1>1, <2>1 DEF CoversSent, Longer
<1>2. CASE p = Len(w) + 1
  BY <1>2 DEF CoversSent, Longer
<1> QED BY <1>1, <1>2, LongerPlaces

\* A chunk more in the channel is a row more to take back.
LEMMA RowsLastMore ==
    ASSUME NEW t, NEW w, NEW m, Longer(t, w, m), NEW N, NEW rows, NEW n \in Nat,
           RowsLast(w, rows, N, n)
    PROVE  RowsLast(t, rows, N, n + 1)
<1>1. (n + 1) - ((Len(t) + 1) - 1) = n - ((Len(w) + 1) - 1)
  BY DEF Longer
<1> QED BY <1>1 DEF RowsLast, CoversRow

\* Before an attempt has shown anything.
LEMMA LastNone ==
    ASSUME NEW w, Numeric(w), NEW rows \in Seq(Row), NEW N \in Nat, SentUpTo(w, N),
           RowsUpTo(rows, N)
    PROVE  /\ \A n : SentLast(w, N + 1, n)
           /\ \A n : RowsLast(w, rows, N + 1, n)
           /\ RowsUpTo(rows, N + 1)
<1>1. \A i \in 1..Len(rows) : rows[i].chunk \in Nat
  BY RowNumeric
<1> QED BY <1>1 DEF SentLast, RowsLast, SentUpTo, RowsUpTo, Numeric

\* An attempt is dropped: its text is the last.
LEMMA DropSent ==
    ASSUME NEW w, Numeric(w), NEW N \in Nat, NEW D, NEW n, SentUpTo(w, N), SentRetracted(w, D)
    PROVE  /\ SentRetracted(w, D \cup {N})
           /\ SentDue(w, D, 0) /\ SentLast(w, N, n) /\ Len(w) \in Nat => SentDue(w, D \cup {N}, n)
<1>1. SentRetracted(w, D \cup {N})
  BY DEF SentRetracted, SentUpTo, Numeric
<1>2. ASSUME SentDue(w, D, 0), SentLast(w, N, n), Len(w) \in Nat PROVE SentDue(w, D \cup {N}, n)
  BY <1>2 DEF SentDue, SentLast, CoversSent
<1> QED BY <1>1, <1>2

\* Abandoning attempt N makes its rows due, and no others.
LEMMA DropRows ==
    ASSUME NEW w, Numeric(w), Len(w) \in Nat, NEW rows \in Seq(Row), NEW N \in Nat, NEW D, NEW n,
           SentUpTo(w, N), RowsUpTo(rows, N)
    PROVE  /\ RowsKept(rows, D) => RowsKept(rows, D \cup {N})
           /\ RowsRetracted(w, rows, D) => RowsRetracted(w, rows, D \cup {N})
           /\ RowsDue(w, rows, D, 0) /\ RowsLast(w, rows, N, n) => RowsDue(w, rows, D \cup {N}, n)
<1>1. (\A i \in 1..Len(rows) : rows[i].chunk \in Nat) /\ Len(rows) \in Nat
  BY RowNumeric
<1>2. RowsKept(rows, D) => RowsKept(rows, D \cup {N})
  BY <1>1 DEF RowsKept, RowsUpTo
<1>3. RowsRetracted(w, rows, D) => RowsRetracted(w, rows, D \cup {N})
  BY <1>1 DEF RowsRetracted, SentUpTo, Numeric
<1>4. ASSUME RowsDue(w, rows, D, 0), RowsLast(w, rows, N, n) PROVE RowsDue(w, rows, D \cup {N}, n)
  <2> SUFFICES ASSUME NEW i \in 1..Len(rows), IsText(rows, i), rows[i].chunk \in D \cup {N}
               PROVE  \/ \E k \in 1..Len(w) : IsReset(w, k) /\ CoversRow(rows, i, k, w[k].count)
                      \/ CoversRow(rows, i, Len(w) + 1, n)
    BY DEF RowsDue
  <2>1. ~CoversRow(rows, i, Len(w) + 1, 0)
    BY <1>1, NothingDue
  <2>2. CASE rows[i].chunk = N
    BY <1>4, <2>2 DEF RowsLast
  <2>3. CASE rows[i].chunk \in D
    BY <1>4, <2>1, <2>3 DEF RowsDue
  <2> QED BY <2>2, <2>3
<1> QED BY <1>2, <1>3, <1>4

\* With nothing due, nothing is due whatever the count.
LEMMA DueAny ==
    ASSUME NEW w, Len(w) \in Nat, NEW rows, Len(rows) \in Nat, NEW D
    PROVE  /\ SentDue(w, D, 0) => \A n : SentDue(w, D, n)
           /\ RowsDue(w, rows, D, 0) => \A n : RowsDue(w, rows, D, n)
<1>1. SentDue(w, D, 0) => \A n : SentDue(w, D, n)
  BY NothingDue DEF SentDue
<1>2. RowsDue(w, rows, D, 0) => \A n : RowsDue(w, rows, D, n)
  BY NothingDue DEF RowsDue
<1> QED BY <1>1, <1>2

-----------------------------------------------------------------------------
\* A message is taken: what is left on the wire.
LEMMA CountedTail ==
    ASSUME NEW t, NEW w, Shorter(t, w), Numeric(w), NEW n \in Nat, Counted(w, n)
    PROVE  Counted(t, n)
<1>1. ASSUME NEW k \in 1..Len(t), IsReset(t, k)
      PROVE  Precede(t, k, t[k].count)
  <2>1. k + 1 \in 1..Len(w) /\ t[k] = w[k + 1] /\ IsReset(w, k + 1) /\ w[k + 1].count \in Nat
    BY <1>1, ShorterPlaces DEF Shorter, IsReset, Numeric
  <2> SUFFICES ASSUME NEW p \in 1..Len(t), CoversSent(p, k, t[k].count)
               PROVE  IsDelta(t, p)
    BY DEF Precede
  <2>2. p + 1 \in 1..Len(w) /\ t[p] = w[p + 1]
    BY ShorterPlaces DEF Shorter
  <2>3. CoversSent(p + 1, k + 1, w[k + 1].count)
    BY <2>1 DEF CoversSent
  <2>4. IsDelta(w, p + 1)
    BY <2>1, <2>2, <2>3 DEF Counted, Precede
  <2> QED BY <2>2, <2>4 DEF IsDelta
<1>2. Precede(t, Len(t) + 1, n)
  <2> SUFFICES ASSUME NEW p \in 1..Len(t), CoversSent(p, Len(t) + 1, n)
               PROVE  IsDelta(t, p)
    BY DEF Precede
  <2>1. p + 1 \in 1..Len(w) /\ t[p] = w[p + 1]
    BY ShorterPlaces DEF Shorter
  <2>2. CoversSent(p + 1, Len(w) + 1, n)
    BY DEF CoversSent, Shorter
  <2>3. IsDelta(w, p + 1)
    BY <2>1, <2>2 DEF Counted, Precede
  <2> QED BY <2>1, <2>3 DEF IsDelta
<1> QED BY <1>1, <1>2 DEF Counted

\* The numbers of the resets behind the head of the channel.
LEMMA NumberedTail ==
    ASSUME NEW t, NEW w, Shorter(t, w), Numeric(w), NEW seen \in Nat, NEW N \in Nat,
           Numbered(w, seen, N)
    PROVE  /\ Numbered(t, seen, N)
           /\ IsReset(w, 1) => seen < w[1].seq /\ Numbered(t, w[1].seq, N)
<1>1. \A k \in 1..Len(t) : IsReset(t, k) =>
        k + 1 \in 1..Len(w) /\ t[k] = w[k + 1] /\ IsReset(w, k + 1) /\ k \in Nat /\ k + 1 > 1
  BY ShorterPlaces DEF Shorter, IsReset
<1>2. 1 \in 1..Len(w)
  BY ShorterPlaces
<1>3. \A k, l \in 1..Len(t) : IsReset(t, k) /\ IsReset(t, l) /\ k < l => t[k].seq < t[l].seq
  <2> SUFFICES ASSUME NEW k \in 1..Len(t), NEW l \in 1..Len(t), IsReset(t, k), IsReset(t, l),
                      k < l
               PROVE  t[k].seq < t[l].seq
    OBVIOUS
  <2>1. k + 1 < l + 1
    BY <1>1
  <2> QED BY <1>1, <2>1 DEF Numbered
<1>4. Numbered(t, seen, N)
  BY <1>1, <1>3 DEF Numbered
<1>5. ASSUME IsReset(w, 1) PROVE seen < w[1].seq /\ Numbered(t, w[1].seq, N)
  <2>1. seen < w[1].seq /\ w[1].seq <= N
    BY <1>2, <1>5 DEF Numbered
  <2>2. ASSUME NEW k \in 1..Len(t), IsReset(t, k)
        PROVE  w[1].seq < t[k].seq /\ t[k].seq <= N
    <3>1. k + 1 \in 1..Len(w) /\ t[k] = w[k + 1] /\ IsReset(w, k + 1) /\ 1 < k + 1
      BY <1>1, <2>2
    <3>2. w[1].seq < w[k + 1].seq /\ w[k + 1].seq <= N
      BY <1>2, <1>5, <3>1 DEF Numbered
    <3> QED BY <3>1, <3>2
  <2> QED BY <1>3, <2>1, <2>2 DEF Numbered
<1> QED BY <1>4, <1>5

\* The attempts of the chunks behind the head of the channel.
LEMMA UpToTail ==
    ASSUME NEW t, NEW w, Shorter(t, w), NEW N, SentUpTo(w, N) PROVE SentUpTo(t, N)
  BY ShorterPlaces DEF SentUpTo, IsDelta, Shorter

\* The resets that are left.
LEMMA ResetMoves ==
    ASSUME NEW t, NEW w, Shorter(t, w), NEW k \in 1..Len(w), IsReset(w, k), k # 1
    PROVE  k - 1 \in 1..Len(t) /\ IsReset(t, k - 1) /\ t[k - 1] = w[k] /\ k \in Nat
<1>1. k - 1 \in 1..Len(t) /\ k = (k - 1) + 1 /\ k \in Nat
  BY ShorterPlaces DEF Shorter
<1>2. t[k - 1] = w[(k - 1) + 1]
  BY <1>1 DEF Shorter
<1> QED BY <1>1, <1>2 DEF IsReset

\* Taking the head leaves the other chunks their resets.
LEMMA SentRetractedTail ==
    ASSUME NEW t, NEW w, Shorter(t, w), NEW D, SentRetracted(w, D)
    PROVE  SentRetracted(t, D)
<1> SUFFICES ASSUME NEW p \in 1..Len(t), NEW q \in 1..Len(t),
                    p < q, IsDelta(t, p), IsDelta(t, q), t[p].seq \in D, t[q].seq > t[p].seq
             PROVE  \E k \in 1..Len(t) :
                      k < q /\ IsReset(t, k) /\ CoversSent(p, k, t[k].count)
  BY DEF SentRetracted
<1>1. /\ p + 1 \in 1..Len(w) /\ t[p] = w[p + 1] /\ p \in Nat
      /\ q + 1 \in 1..Len(w) /\ t[q] = w[q + 1] /\ q \in Nat /\ p + 1 < q + 1
  BY ShorterPlaces DEF Shorter
<1>2. PICK k \in 1..Len(w) : k < q + 1 /\ IsReset(w, k) /\ CoversSent(p + 1, k, w[k].count)
  BY <1>1 DEF SentRetracted, IsDelta
<1>3. k # 1
  BY <1>1, <1>2, ShorterPlaces DEF CoversSent
<1>4. k - 1 \in 1..Len(t) /\ IsReset(t, k - 1) /\ t[k - 1] = w[k] /\ k \in Nat
  BY <1>2, <1>3, ResetMoves
<1>5. CoversSent(p, k - 1, t[k - 1].count) /\ k - 1 < q
  BY <1>1, <1>2, <1>4 DEF CoversSent
<1> QED BY <1>4, <1>5

\* Taking the head leaves the other chunks what is due.
LEMMA SentDueTail ==
    ASSUME NEW t, NEW w, Shorter(t, w), NEW D, NEW n, SentDue(w, D, n)
    PROVE  SentDue(t, D, n)
<1> SUFFICES ASSUME NEW p \in 1..Len(t), IsDelta(t, p), t[p].seq \in D
             PROVE  \/ \E k \in 1..Len(t) : IsReset(t, k) /\ CoversSent(p, k, t[k].count)
                    \/ CoversSent(p, Len(t) + 1, n)
  BY DEF SentDue
<1>1. p + 1 \in 1..Len(w) /\ t[p] = w[p + 1] /\ p \in Nat
  BY ShorterPlaces DEF Shorter
<1>2. CASE \E k \in 1..Len(w) : IsReset(w, k) /\ CoversSent(p + 1, k, w[k].count)
  <2>1. PICK k \in 1..Len(w) : IsReset(w, k) /\ CoversSent(p + 1, k, w[k].count)
    BY <1>2
  <2>2. k # 1
    BY <1>1, <2>1, ShorterPlaces DEF CoversSent
  <2>3. k - 1 \in 1..Len(t) /\ IsReset(t, k - 1) /\ t[k - 1] = w[k] /\ k \in Nat
    BY <2>1, <2>2, ResetMoves
  <2>4. CoversSent(p, k - 1, t[k - 1].count)
    BY <1>1, <2>1, <2>3 DEF CoversSent
  <2> QED BY <2>3, <2>4
<1>3. CASE CoversSent(p + 1, Len(w) + 1, n)
  BY <1>1, <1>3 DEF CoversSent, Shorter
<1> QED BY <1>1, <1>2, <1>3 DEF SentDue, IsDelta

\* Taking the head leaves the last chunks the last.
LEMMA SentLastTail ==
    ASSUME NEW t, NEW w, Shorter(t, w), NEW N, NEW n, SentLast(w, N, n)
    PROVE  SentLast(t, N, n)
<1> SUFFICES ASSUME NEW p \in 1..Len(t), IsDelta(t, p), t[p].seq = N
             PROVE  CoversSent(p, Len(t) + 1, n)
  BY DEF SentLast
<1>1. p + 1 \in 1..Len(w) /\ t[p] = w[p + 1] /\ p \in Nat
  BY ShorterPlaces DEF Shorter
<1>2. CoversSent(p + 1, Len(w) + 1, n)
  BY <1>1 DEF SentLast, IsDelta
<1> QED BY <1>1, <1>2 DEF CoversSent, Shorter

-----------------------------------------------------------------------------
\* A row is added.
LEMMA TrailingText ==
    ASSUME NEW rs, NEW rows, NEW r, Longer(rs, rows, r), r.kind = "text", NEW z \in Nat
    PROVE  Trailing(rs, z + 1) <=> Trailing(rows, z)
<1>1. /\ Len(rows) \in Nat /\ Len(rs) = Len(rows) + 1 /\ rs[Len(rows) + 1] = r
      /\ \A i \in 1..Len(rows) : rs[i] = rows[i]
  BY DEF Longer
<1>2. ASSUME Trailing(rs, z + 1) PROVE Trailing(rows, z)
  <2>1. z <= Len(rows)
    BY <1>1, <1>2 DEF Trailing
  <2>2. ASSUME NEW i \in (Len(rows) - z + 1)..Len(rows) PROVE rows[i].kind = "text"
    <3>1. i \in 1..Len(rows) /\ i \in (Len(rs) - (z + 1) + 1)..Len(rs)
      BY <1>1, <2>1
    <3> QED BY <1>1, <1>2, <3>1 DEF Trailing
  <2> QED BY <2>1, <2>2 DEF Trailing
<1>3. ASSUME Trailing(rows, z) PROVE Trailing(rs, z + 1)
  <2>1. z <= Len(rows)
    BY <1>3 DEF Trailing
  <2>2. z + 1 <= Len(rs)
    BY <1>1, <2>1
  <2>3. ASSUME NEW i \in (Len(rs) - (z + 1) + 1)..Len(rs) PROVE rs[i].kind = "text"
    <3>1. (i \in 1..Len(rows) /\ i \in (Len(rows) - z + 1)..Len(rows)) \/ i = Len(rows) + 1
      BY <1>1, <2>1
    <3> QED BY <1>1, <1>3, <3>1 DEF Trailing
  <2> QED BY <2>2, <2>3 DEF Trailing
<1> QED BY <1>2, <1>3

\* A row that is not text ends the trailing text rows.
LEMMA TrailingOther ==
    ASSUME NEW rs, NEW rows, NEW r, Longer(rs, rows, r), r.kind # "text", NEW z \in Nat, z > 0
    PROVE  ~Trailing(rs, z)
<1>1. Len(rs) \in Nat /\ Len(rs) \in (Len(rs) - z + 1)..Len(rs) /\ rs[Len(rs)] = r
  BY DEF Longer
<1> QED BY <1>1 DEF Trailing

\* What a reset covers when rows are added.
LEMMA CoverFar ==
    ASSUME NEW rows, Len(rows) \in Nat, NEW i \in 1..Len(rows), NEW k \in Nat, NEW n \in Nat,
           n <= k - 1
    PROVE  ~CoversRow(rows, i, k, n)
<1>1. PICK z \in Int : z = n - (k - 1) /\ z <= 0
  OBVIOUS
<1>2. Trailing(rows, z) /\ ~(i > Len(rows) - z)
  BY <1>1 DEF Trailing
<1> QED BY <1>1, <1>2 DEF CoversRow

\* A chunk shown moves one place from the channel to the transcript.
LEMMA CoverText ==
    ASSUME NEW rs, NEW rows, NEW r, Longer(rs, rows, r), r.kind = "text",
           NEW i \in 1..Len(rows), NEW k \in Nat, NEW n \in Nat, CoversRow(rows, i, k, n)
    PROVE  CoversRow(rs, i, k - 1, n)
<1>0. Len(rows) \in Nat /\ Len(rs) = Len(rows) + 1
  BY DEF Longer
<1>1. n > k - 1
  BY <1>0, CoverFar
<1>2. PICK z \in Nat : z = n - (k - 1)
  BY <1>1
<1>3. n - ((k - 1) - 1) = z + 1
  BY <1>2
<1>4. Trailing(rs, z + 1) => i > Len(rs) - (z + 1)
  BY <1>0, <1>2, TrailingText DEF CoversRow
<1> QED BY <1>3, <1>4 DEF CoversRow

\* A reset that skips a row of another kind covers no less.
LEMMA CoverOther ==
    ASSUME NEW rs, NEW rows, NEW r, Longer(rs, rows, r), r.kind # "text",
           NEW i \in 1..Len(rows), NEW k \in Nat, NEW n \in Nat, CoversRow(rows, i, k, n)
    PROVE  CoversRow(rs, i, k, n)
<1>0. Len(rows) \in Nat /\ Len(rs) = Len(rows) + 1
  BY DEF Longer
<1>1. n > k - 1
  BY <1>0, CoverFar
<1>2. PICK z \in Nat : z = n - (k - 1) /\ z > 0
  BY <1>1
<1>3. ~Trailing(rs, z)
  BY <1>2, TrailingOther
<1> QED BY <1>2, <1>3 DEF CoversRow

\* The chunk just shown is covered by a reset that counts it.
LEMMA CoverNew ==
    ASSUME NEW rs, NEW rows, NEW r, Longer(rs, rows, r), NEW k \in Nat, NEW n \in Nat,
           k - 1 <= n
    PROVE  CoversRow(rs, Len(rows) + 1, k - 1, n)
  BY DEF CoversRow, Longer

\* A reset finds the chunk just shown.
LEMMA FindsText ==
    ASSUME NEW rs, NEW rows, NEW r, Longer(rs, rows, r), r.kind = "text",
           NEW k \in Nat, NEW n \in Nat, Finds(rows, k, n)
    PROVE  Finds(rs, k - 1, n)
<1>0. Len(rows) \in Nat
  BY DEF Longer
<1>1. CASE n - (k - 1) < 0
  BY <1>1 DEF Finds
<1>2. CASE n - (k - 1) >= 0
  <2>1. PICK z \in Nat : z = n - (k - 1)
    BY <1>2
  <2>2. n - ((k - 1) - 1) = z + 1
    BY <2>1
  <2>3. Trailing(rows, z)
    BY <1>0, <2>1 DEF Finds, Trailing
  <2>4. Trailing(rs, z + 1)
    BY <2>3, TrailingText
  <2> QED BY <2>2, <2>4 DEF Finds
<1> QED BY <1>1, <1>2

-----------------------------------------------------------------------------
\* A delta is taken and shown.
LEMMA TookText ==
    ASSUME NEW t, NEW w, Shorter(t, w), Numeric(w), IsDelta(w, 1),
           NEW rows \in Seq(Row), NEW r \in Row, NEW rs, Longer(rs, rows, r), r.kind = "text",
           r.chunk = w[1].seq, NEW n \in Nat, NEW D, NEW N
    PROVE  /\ Findable(w, rows, n) => Findable(t, rs, n)
           /\ RowsKept(rows, D) /\ RowsRetracted(w, rows, D) => RowsKept(rs, D)
           /\ RowsRetracted(w, rows, D) /\ SentRetracted(w, D) => RowsRetracted(t, rs, D)
           /\ RowsDue(w, rows, D, n) /\ SentDue(w, D, n) => RowsDue(t, rs, D, n)
           /\ RowsLast(w, rows, N, n) /\ SentLast(w, N, n) => RowsLast(t, rs, N, n)
<1>0. /\ Len(rows) \in Nat /\ Len(rs) = Len(rows) + 1 /\ rs[Len(rows) + 1] = r
      /\ (\A i \in 1..Len(rows) : rs[i] = rows[i] /\ i \in 1..Len(rs))
      /\ \A i \in 1..Len(rs) : i \in 1..Len(rows) \/ i = Len(rows) + 1
  BY LongerPlaces DEF Longer
<1>1. \A k \in 1..Len(w) : IsReset(w, k) => k # 1 /\ w[k].count \in Nat
  BY DEF IsReset, IsDelta, Numeric
<1>2. \A k \in 1..Len(t) : k + 1 \in 1..Len(w) /\ t[k] = w[k + 1] /\ k \in Nat /\ (k + 1) - 1 = k
  BY ShorterPlaces DEF Shorter
<1>3. Len(w) \in Nat /\ Len(t) \in Nat /\ (Len(w) + 1) - 1 = Len(t) + 1 /\ 1 \in 1..Len(w)
  BY ShorterPlaces DEF Shorter
<1>4. ASSUME Findable(w, rows, n) PROVE Findable(t, rs, n)
  <2>1. ASSUME NEW k \in 1..Len(t), IsReset(t, k) PROVE Finds(rs, k, t[k].count)
    <3>1. IsReset(w, k + 1) /\ w[k + 1].count \in Nat
      BY <1>1, <1>2, <2>1 DEF IsReset
    <3>2. Finds(rows, k + 1, w[k + 1].count)
      BY <1>2, <1>4, <3>1 DEF Findable
    <3>3. Finds(rs, (k + 1) - 1, w[k + 1].count)
      BY <1>2, <3>1, <3>2, FindsText
    <3> QED BY <1>2, <3>3
  <2>2. Finds(rows, Len(w) + 1, n)
    BY <1>4 DEF Findable
  <2>3. Finds(rs, (Len(w) + 1) - 1, n)
    BY <1>3, <2>2, FindsText
  <2> QED BY <1>3, <2>1, <2>3 DEF Findable
<1>5. ASSUME RowsKept(rows, D), RowsRetracted(w, rows, D) PROVE RowsKept(rs, D)
  <2> SUFFICES ASSUME NEW i \in 1..Len(rs), NEW j \in 1..Len(rs), i < j, IsText(rs, i),
                      IsText(rs, j), rs[i].chunk \in D
               PROVE  rs[j].chunk <= rs[i].chunk
    BY DEF RowsKept
  <2>1. i \in 1..Len(rows) /\ rs[i] = rows[i] /\ IsText(rows, i)
    BY <1>0 DEF IsText
  <2>2. CASE j \in 1..Len(rows)
    <3>1. rs[j] = rows[j] /\ IsText(rows, j)
      BY <1>0, <2>2 DEF IsText
    <3> QED BY <1>5, <2>1, <2>2, <3>1 DEF RowsKept
  <2>3. CASE j = Len(rows) + 1
    <3>1. ~(w[1].seq > rows[i].chunk)
      <4> SUFFICES ASSUME w[1].seq > rows[i].chunk PROVE FALSE
        OBVIOUS
      <4>1. PICK k \in 1..Len(w) : k < 1 /\ IsReset(w, k)
        BY <1>3, <1>5, <2>1 DEF RowsRetracted
      <4> QED BY <1>3, <4>1
    <3>2. w[1].seq \in Nat /\ rows[i].chunk \in Nat
      BY <1>3, <2>1, RowNumeric DEF Numeric
    <3>3. rs[j].chunk = w[1].seq
      BY <1>0, <2>3
    <3> QED BY <2>1, <3>1, <3>2, <3>3
  <2> QED BY <1>0, <2>2, <2>3
<1>6. ASSUME RowsRetracted(w, rows, D), SentRetracted(w, D) PROVE RowsRetracted(t, rs, D)
  <2> SUFFICES ASSUME NEW i \in 1..Len(rs), NEW p \in 1..Len(t), IsText(rs, i),
                      rs[i].chunk \in D, IsDelta(t, p), t[p].seq > rs[i].chunk
               PROVE  \E k \in 1..Len(t) :
                        k < p /\ IsReset(t, k) /\ CoversRow(rs, i, k, t[k].count)
    BY DEF RowsRetracted
  <2>1. p + 1 \in 1..Len(w) /\ t[p] = w[p + 1] /\ IsDelta(w, p + 1) /\ p \in Nat /\ 1 < p + 1
    BY <1>2, ShorterPlaces DEF IsDelta, Shorter
  <2>2. CASE i \in 1..Len(rows)
    <3>1. rs[i] = rows[i] /\ IsText(rows, i)
      BY <1>0, <2>2 DEF IsText
    <3>2. PICK k \in 1..Len(w) : k < p + 1 /\ IsReset(w, k) /\ CoversRow(rows, i, k, w[k].count)
      BY <1>6, <2>1, <2>2, <3>1 DEF RowsRetracted
    <3>3. k # 1 /\ w[k].count \in Nat
      BY <1>1, <3>2
    <3>4. k - 1 \in 1..Len(t) /\ IsReset(t, k - 1) /\ t[k - 1] = w[k] /\ k \in Nat
      BY <3>2, <3>3, ResetMoves
    <3>5. CoversRow(rs, i, k - 1, w[k].count)
      BY <2>2, <3>2, <3>3, <3>4, CoverText
    <3>6. k - 1 < p
      BY <2>1, <3>2, <3>4
    <3> QED BY <3>4, <3>5, <3>6
  <2>3. CASE i = Len(rows) + 1
    <3>1. rs[i].chunk = w[1].seq
      BY <1>0, <2>3
    <3>2. PICK k \in 1..Len(w) : k < p + 1 /\ IsReset(w, k) /\ CoversSent(1, k, w[k].count)
      BY <1>3, <1>6, <2>1, <3>1 DEF SentRetracted
    <3>3. k # 1 /\ w[k].count \in Nat
      BY <1>1, <3>2
    <3>4. k - 1 \in 1..Len(t) /\ IsReset(t, k - 1) /\ t[k - 1] = w[k] /\ k \in Nat
      BY <3>2, <3>3, ResetMoves
    <3>5. k - 1 <= w[k].count
      BY <3>2 DEF CoversSent
    <3>6. CoversRow(rs, Len(rows) + 1, k - 1, w[k].count)
      BY <3>3, <3>4, <3>5, CoverNew
    <3>7. k - 1 < p
      BY <2>1, <3>2, <3>4
    <3> QED BY <2>3, <3>4, <3>6, <3>7
  <2> QED BY <1>0, <2>2, <2>3
<1>7. ASSUME RowsDue(w, rows, D, n), SentDue(w, D, n) PROVE RowsDue(t, rs, D, n)
  <2> SUFFICES ASSUME NEW i \in 1..Len(rs), IsText(rs, i), rs[i].chunk \in D
               PROVE  \/ \E k \in 1..Len(t) : IsReset(t, k) /\ CoversRow(rs, i, k, t[k].count)
                      \/ CoversRow(rs, i, Len(t) + 1, n)
    BY DEF RowsDue
  <2>1. ASSUME NEW k \in 1..Len(w), IsReset(w, k),
               \/ i \in 1..Len(rows) /\ CoversRow(rows, i, k, w[k].count)
               \/ i = Len(rows) + 1 /\ CoversSent(1, k, w[k].count)
        PROVE  \E l \in 1..Len(t) : IsReset(t, l) /\ CoversRow(rs, i, l, t[l].count)
    <3>1. k # 1 /\ w[k].count \in Nat
      BY <1>1, <2>1
    <3>2. k - 1 \in 1..Len(t) /\ IsReset(t, k - 1) /\ t[k - 1] = w[k] /\ k \in Nat
      BY <2>1, <3>1, ResetMoves
    <3>3. CASE i \in 1..Len(rows) /\ CoversRow(rows, i, k, w[k].count)
      <4>1. CoversRow(rs, i, k - 1, w[k].count)
        BY <3>1, <3>2, <3>3, CoverText
      <4> QED BY <3>2, <4>1
    <3>4. CASE i = Len(rows) + 1 /\ CoversSent(1, k, w[k].count)
      <4>1. k - 1 <= w[k].count
        BY <3>4 DEF CoversSent
      <4>2. CoversRow(rs, Len(rows) + 1, k - 1, w[k].count)
        BY <3>1, <3>2, <4>1, CoverNew
      <4> QED BY <3>2, <3>4, <4>2
    <3> QED BY <2>1, <3>3, <3>4
  <2>2. CASE i \in 1..Len(rows)
    <3>1. rs[i] = rows[i] /\ IsText(rows, i)
      BY <1>0, <2>2 DEF IsText
    <3>2. CASE \E k \in 1..Len(w) : IsReset(w, k) /\ CoversRow(rows, i, k, w[k].count)
      BY <2>1, <2>2, <3>2
    <3>3. CASE CoversRow(rows, i, Len(w) + 1, n)
      <4>1. CoversRow(rs, i, (Len(w) + 1) - 1, n)
        BY <1>3, <2>2, <3>3, CoverText
      <4> QED BY <1>3, <4>1
    <3> QED BY <1>7, <2>2, <3>1, <3>2, <3>3 DEF RowsDue
  <2>3. CASE i = Len(rows) + 1
    <3>1. rs[i].chunk = w[1].seq
      BY <1>0, <2>3
    <3>2. CASE \E k \in 1..Len(w) : IsReset(w, k) /\ CoversSent(1, k, w[k].count)
      BY <2>1, <2>3, <3>2
    <3>3. CASE CoversSent(1, Len(w) + 1, n)
      <4>1. (Len(w) + 1) - 1 <= n
        BY <3>3 DEF CoversSent
      <4>2. PICK e \in Nat : e = Len(w) + 1 /\ e - 1 <= n
        BY <1>3, <4>1
      <4>3. CoversRow(rs, Len(rows) + 1, e - 1, n)
        BY <4>2, CoverNew
      <4> QED BY <1>3, <2>3, <4>2, <4>3
    <3> QED BY <1>3, <1>7, <3>1, <3>2, <3>3 DEF SentDue
  <2> QED BY <1>0, <2>2, <2>3
<1>8. ASSUME RowsLast(w, rows, N, n), SentLast(w, N, n) PROVE RowsLast(t, rs, N, n)
  <2> SUFFICES ASSUME NEW i \in 1..Len(rs), IsText(rs, i), rs[i].chunk = N
               PROVE  CoversRow(rs, i, Len(t) + 1, n)
    BY DEF RowsLast
  <2>2. CASE i \in 1..Len(rows)
    <3>1. rs[i] = rows[i] /\ IsText(rows, i)
      BY <1>0, <2>2 DEF IsText
    <3>2. CoversRow(rows, i, Len(w) + 1, n)
      BY <1>8, <2>2, <3>1 DEF RowsLast
    <3>3. CoversRow(rs, i, (Len(w) + 1) - 1, n)
      BY <1>3, <2>2, <3>2, CoverText
    <3> QED BY <1>3, <3>3
  <2>3. CASE i = Len(rows) + 1
    <3>1. w[1].seq = N
      BY <1>0, <2>3
    <3>2. CoversSent(1, Len(w) + 1, n)
      BY <1>3, <1>8, <3>1 DEF SentLast
    <3>3. (Len(w) + 1) - 1 <= n
      BY <3>2 DEF CoversSent
    <3>4. PICK e \in Nat : e = Len(w) + 1 /\ e - 1 <= n
      BY <1>3, <3>3
    <3>5. CoversRow(rs, Len(rows) + 1, e - 1, n)
      BY <3>4, CoverNew
    <3> QED BY <1>3, <2>3, <3>4, <3>5
  <2> QED BY <1>0, <2>2, <2>3
<1> QED BY <1>4, <1>5, <1>6, <1>7, <1>8

\* When the message taken is no delta, no other reset reaches the transcript.
LEMMA AllFar ==
    ASSUME NEW t, NEW w, Shorter(t, w), Numeric(w), ~IsDelta(w, 1), NEW n \in Nat, Counted(w, n),
           NEW rows, Len(rows) \in Nat
    PROVE  /\ \A k \in 1..Len(w) : IsReset(w, k) /\ k # 1 =>
                /\ w[k].count < k - 1 /\ k \in Nat /\ w[k].count \in Nat
                /\ \A i \in 1..Len(rows) : ~CoversRow(rows, i, k, w[k].count)
           /\ n < (Len(w) + 1) - 1 /\ Len(w) \in Nat
           /\ \A i \in 1..Len(rows) : ~CoversRow(rows, i, Len(w) + 1, n)
<1>1. Len(w) \in Nat /\ 1 \in 1..Len(w) /\ Len(w) + 1 \in Nat
  BY DEF Shorter
<1>2. ASSUME NEW k \in 1..Len(w), IsReset(w, k), k # 1
      PROVE  /\ w[k].count < k - 1 /\ k \in Nat /\ w[k].count \in Nat
             /\ \A i \in 1..Len(rows) : ~CoversRow(rows, i, k, w[k].count)
  <2>1. k \in Nat /\ k > 1 /\ w[k].count \in Nat
    BY <1>1, <1>2 DEF Numeric
  <2>2. ~CoversSent(1, k, w[k].count)
    BY <1>1, <1>2 DEF Counted, Precede
  <2>3. w[k].count < k - 1
    BY <2>1, <2>2 DEF CoversSent
  <2>4. w[k].count <= k - 1
    BY <2>1, <2>3
  <2> QED BY <2>1, <2>3, <2>4, CoverFar
<1>3. n < (Len(w) + 1) - 1
  <2>1. ~CoversSent(1, Len(w) + 1, n)
    BY <1>1 DEF Counted, Precede
  <2> QED BY <1>1, <2>1 DEF CoversSent
<1>4. n <= (Len(w) + 1) - 1
  BY <1>1, <1>3
<1>5. \A i \in 1..Len(rows) : ~CoversRow(rows, i, Len(w) + 1, n)
  BY <1>1, <1>4, CoverFar
<1> QED BY <1>1, <1>2, <1>3, <1>5

\* The rows that are left, when the message is no delta: none of them is to be retracted.
LEMMA NoneCovered ==
    ASSUME NEW t, NEW w, Shorter(t, w), Numeric(w), ~IsDelta(w, 1), NEW n \in Nat, Counted(w, n),
           NEW rows \in Seq(Row), NEW D, NEW d \in Nat, d = 0 \/ d = n,
           NEW i \in 1..Len(rows), IsText(rows, i),
           IsReset(w, 1) => ~CoversRow(rows, i, 1, w[1].count)
    PROVE  /\ RowsRetracted(w, rows, D) /\ rows[i].chunk \in D =>
                \A p \in 1..Len(w) : IsDelta(w, p) => ~(w[p].seq > rows[i].chunk)
           /\ RowsDue(w, rows, D, d) => rows[i].chunk \notin D
<1>1. Len(rows) \in Nat
  BY RowNumeric
<1>2. /\ \A k \in 1..Len(w) : IsReset(w, k) => ~CoversRow(rows, i, k, w[k].count)
      /\ ~CoversRow(rows, i, Len(w) + 1, n) /\ Len(w) \in Nat
  BY <1>1, AllFar
<1>3. ~CoversRow(rows, i, Len(w) + 1, d)
  BY <1>1, <1>2, NothingDue
<1> QED BY <1>2, <1>3 DEF RowsRetracted, RowsDue

\* No text row is of attempt N once another message is at the head.
LEMMA NoneLast ==
    ASSUME NEW t, NEW w, Shorter(t, w), Numeric(w), ~IsDelta(w, 1), NEW n \in Nat, Counted(w, n),
           NEW rows \in Seq(Row), NEW N, NEW i \in 1..Len(rows), IsText(rows, i),
           RowsLast(w, rows, N, n)
    PROVE  rows[i].chunk # N
<1>1. Len(rows) \in Nat
  BY RowNumeric
<1>2. ~CoversRow(rows, i, Len(w) + 1, n)
  BY <1>1, AllFar
<1> QED BY <1>2 DEF RowsLast

\* A message of another kind is taken: a row that is no text.
LEMMA TookOther ==
    ASSUME NEW t, NEW w, Shorter(t, w), Numeric(w), ~IsDelta(w, 1), ~IsReset(w, 1),
           NEW rows \in Seq(Row), NEW r \in Row, NEW rs, Longer(rs, rows, r), r.kind # "text",
           NEW n \in Nat, Counted(w, n), NEW D, NEW N, NEW d \in Nat, d = 0 \/ d = n
    PROVE  /\ Findable(t, rs, n)
           /\ RowsRetracted(w, rows, D) => RowsRetracted(t, rs, D)
           /\ RowsDue(w, rows, D, d) => RowsDue(t, rs, D, d)
           /\ RowsLast(w, rows, N, n) => RowsLast(t, rs, N, n)
<1>0. /\ Len(rows) \in Nat /\ rs[Len(rows) + 1] = r
      /\ (\A i \in 1..Len(rows) : rs[i] = rows[i])
      /\ \A i \in 1..Len(rs) : i \in 1..Len(rows) \/ i = Len(rows) + 1
  BY LongerPlaces DEF Longer
<1>1. \A i \in 1..Len(rs) : IsText(rs, i) => i \in 1..Len(rows) /\ IsText(rows, i) /\ rs[i] = rows[i]
  BY <1>0 DEF IsText
<1>2. \A k \in 1..Len(t) : k + 1 \in 1..Len(w) /\ t[k] = w[k + 1] /\ k \in Nat /\ k + 1 # 1
  BY ShorterPlaces DEF Shorter
<1>3. Len(w) \in Nat /\ Len(t) \in Nat /\ Len(w) = Len(t) + 1
  BY DEF Shorter
<1>4. Findable(t, rs, n)
  <2>1. ASSUME NEW k \in 1..Len(t), IsReset(t, k) PROVE Finds(rs, k, t[k].count)
    <3>1. IsReset(w, k + 1)
      BY <1>2, <2>1 DEF IsReset
    <3>2. w[k + 1].count < (k + 1) - 1 /\ w[k + 1].count \in Nat
      BY <1>0, <1>2, <3>1, AllFar
    <3>3. ~(t[k].count - (k - 1) > 0)
      BY <1>2, <3>2
    <3> QED BY <3>3 DEF Finds
  <2>2. n < (Len(w) + 1) - 1
    BY <1>0, AllFar
  <2>3. ~(n - ((Len(t) + 1) - 1) > 0)
    BY <1>3, <2>2
  <2> QED BY <2>1, <2>3 DEF Findable, Finds
<1>5. ASSUME RowsRetracted(w, rows, D) PROVE RowsRetracted(t, rs, D)
  <2> SUFFICES ASSUME NEW i \in 1..Len(rs), NEW p \in 1..Len(t), IsText(rs, i),
                      rs[i].chunk \in D, IsDelta(t, p), t[p].seq > rs[i].chunk
               PROVE  FALSE
    BY DEF RowsRetracted
  <2>1. i \in 1..Len(rows) /\ IsText(rows, i) /\ rs[i] = rows[i]
    BY <1>1
  <2>2. p + 1 \in 1..Len(w) /\ IsDelta(w, p + 1) /\ w[p + 1].seq > rows[i].chunk
    BY <1>2, <2>1 DEF IsDelta
  <2> QED BY <1>5, <2>1, <2>2, NoneCovered
<1>6. ASSUME RowsDue(w, rows, D, d) PROVE RowsDue(t, rs, D, d)
  <2> SUFFICES ASSUME NEW i \in 1..Len(rs), IsText(rs, i), rs[i].chunk \in D PROVE FALSE
    BY DEF RowsDue
  <2>1. i \in 1..Len(rows) /\ IsText(rows, i) /\ rows[i].chunk \in D
    BY <1>1
  <2> QED BY <1>6, <2>1, NoneCovered
<1>7. ASSUME RowsLast(w, rows, N, n) PROVE RowsLast(t, rs, N, n)
  <2> SUFFICES ASSUME NEW i \in 1..Len(rs), IsText(rs, i), rs[i].chunk = N PROVE FALSE
    BY DEF RowsLast
  <2>1. i \in 1..Len(rows) /\ IsText(rows, i) /\ rows[i].chunk = N
    BY <1>1
  <2> QED BY <1>7, <2>1, NoneLast
<1> QED BY <1>4, <1>5, <1>6, <1>7

\* A row that is no text keeps the ones above it.
LEMMA KeptOther ==
    ASSUME NEW rows, NEW r, NEW rs, Longer(rs, rows, r), r.kind # "text", NEW D, RowsKept(rows, D)
    PROVE  RowsKept(rs, D)
<1>1. \A i \in 1..Len(rs) : IsText(rs, i) => i \in 1..Len(rows) /\ IsText(rows, i) /\ rs[i] = rows[i]
  BY LongerPlaces DEF Longer, IsText
<1> QED BY <1>1 DEF RowsKept

\* A row more of an attempt up to N.
LEMMA UpToLonger ==
    ASSUME NEW rows, NEW r, NEW rs, Longer(rs, rows, r), NEW N, r.chunk <= N, RowsUpTo(rows, N)
    PROVE  RowsUpTo(rs, N)
  BY LongerPlaces DEF Longer, RowsUpTo

\* A row of other origin, while nothing is taken.
LEMMA NoticeRow ==
    ASSUME NEW w, Numeric(w), Len(w) \in Nat, NEW rows, NEW r, NEW rs, Longer(rs, rows, r),
           r.kind # "text", NEW D, NEW N, NEW n \in Nat
    PROVE  /\ RowsRetracted(w, rows, D) => RowsRetracted(w, rs, D)
           /\ RowsDue(w, rows, D, n) => RowsDue(w, rs, D, n)
           /\ RowsLast(w, rows, N, n) => RowsLast(w, rs, N, n)
<1>1. \A i \in 1..Len(rs) : IsText(rs, i) => i \in 1..Len(rows) /\ IsText(rows, i) /\ rs[i] = rows[i]
  BY LongerPlaces DEF Longer, IsText
<1>2. \A k \in 1..Len(w) : k \in Nat /\ w[k].count \in Nat
  BY DEF Numeric
<1>3. \A i \in 1..Len(rows), k \in 1..Len(w) :
        CoversRow(rows, i, k, w[k].count) => CoversRow(rs, i, k, w[k].count)
  BY <1>2, CoverOther
<1>4. Len(w) + 1 \in Nat
  OBVIOUS
<1>5. \A i \in 1..Len(rows) :
        CoversRow(rows, i, Len(w) + 1, n) => CoversRow(rs, i, Len(w) + 1, n)
  BY <1>4, CoverOther
<1>6. RowsRetracted(w, rows, D) => RowsRetracted(w, rs, D)
  BY <1>1, <1>3 DEF RowsRetracted
<1>7. RowsDue(w, rows, D, n) => RowsDue(w, rs, D, n)
  BY <1>1, <1>3, <1>5 DEF RowsDue
<1>8. RowsLast(w, rows, N, n) => RowsLast(w, rs, N, n)
  BY <1>1, <1>5 DEF RowsLast
<1> QED BY <1>6, <1>7, <1>8

\* A reset is taken and applied: rs is what is left of the transcript.
LEMMA TookReset ==
    ASSUME NEW t, NEW w, Shorter(t, w), Numeric(w), IsReset(w, 1),
           NEW rows \in Seq(Row), Trailing(rows, w[1].count),
           NEW rs, Len(rs) = Len(rows) - w[1].count, \A i \in 1..Len(rs) : rs[i] = rows[i],
           NEW n \in Nat, Counted(w, n), NEW D, NEW N, NEW d \in Nat, d = 0 \/ d = n
    PROVE  /\ Findable(t, rs, n)
           /\ RowsRetracted(w, rows, D) => RowsRetracted(t, rs, D)
           /\ RowsDue(w, rows, D, d) => RowsDue(t, rs, D, d)
           /\ RowsLast(w, rows, N, n) => RowsLast(t, rs, N, n)
           /\ RowsKept(rows, D) => RowsKept(rs, D)
           /\ RowsUpTo(rows, N) => RowsUpTo(rs, N)
<1>0. Len(rows) \in Nat /\ w[1].count \in Nat /\ ~IsDelta(w, 1)
  BY RowNumeric, ShorterPlaces DEF Numeric, IsReset, IsDelta
<1>1. w[1].count <= Len(rows)
  BY DEF Trailing
<1>2. \A i \in 1..Len(rs) : i \in 1..Len(rows) /\ rs[i] = rows[i] /\ ~(i > Len(rows) - w[1].count)
  BY <1>0, <1>1
<1>3. \A i \in 1..Len(rs) : ~CoversRow(rows, i, 1, w[1].count)
  <2>1. w[1].count - (1 - 1) = w[1].count
    BY <1>0
  <2> QED BY <1>2, <2>1 DEF CoversRow
<1>4. \A k \in 1..Len(t) : k + 1 \in 1..Len(w) /\ t[k] = w[k + 1] /\ k \in Nat /\ k + 1 # 1
  BY ShorterPlaces DEF Shorter
<1>5. Len(w) \in Nat /\ Len(t) \in Nat /\ Len(w) = Len(t) + 1
  BY DEF Shorter
<1>6. Findable(t, rs, n)
  <2>1. ASSUME NEW k \in 1..Len(t), IsReset(t, k) PROVE Finds(rs, k, t[k].count)
    <3>1. IsReset(w, k + 1)
      BY <1>4, <2>1 DEF IsReset
    <3>2. w[k + 1].count < (k + 1) - 1 /\ w[k + 1].count \in Nat
      BY <1>0, <1>4, <3>1, AllFar
    <3>3. ~(t[k].count - (k - 1) > 0)
      BY SMTT(30), <1>4, <3>2
    <3> QED BY <3>3 DEF Finds
  <2>2. n < (Len(w) + 1) - 1
    BY <1>0, AllFar
  <2>3. ~(n - ((Len(t) + 1) - 1) > 0)
    BY <1>5, <2>2
  <2> QED BY <2>1, <2>3 DEF Findable, Finds
<1>7. \A i \in 1..Len(rs) : IsText(rs, i) => i \in 1..Len(rows) /\ IsText(rows, i) /\ rs[i] = rows[i]
  BY <1>2 DEF IsText
<1>8. ASSUME RowsRetracted(w, rows, D) PROVE RowsRetracted(t, rs, D)
  <2> SUFFICES ASSUME NEW i \in 1..Len(rs), NEW p \in 1..Len(t), IsText(rs, i),
                      rs[i].chunk \in D, IsDelta(t, p), t[p].seq > rs[i].chunk
               PROVE  FALSE
    BY DEF RowsRetracted
  <2>1. i \in 1..Len(rows) /\ IsText(rows, i) /\ rs[i] = rows[i]
    BY <1>7
  <2>2. p + 1 \in 1..Len(w) /\ IsDelta(w, p + 1) /\ w[p + 1].seq > rows[i].chunk
    BY <1>4, <2>1 DEF IsDelta
  <2> QED BY <1>0, <1>3, <1>8, <2>1, <2>2, NoneCovered
<1>9. ASSUME RowsDue(w, rows, D, d) PROVE RowsDue(t, rs, D, d)
  <2> SUFFICES ASSUME NEW i \in 1..Len(rs), IsText(rs, i), rs[i].chunk \in D PROVE FALSE
    BY DEF RowsDue
  <2>1. i \in 1..Len(rows) /\ IsText(rows, i) /\ rows[i].chunk \in D
    BY <1>7
  <2> QED BY <1>0, <1>3, <1>9, <2>1, NoneCovered
<1>10. ASSUME RowsLast(w, rows, N, n) PROVE RowsLast(t, rs, N, n)
  <2> SUFFICES ASSUME NEW i \in 1..Len(rs), IsText(rs, i), rs[i].chunk = N PROVE FALSE
    BY DEF RowsLast
  <2>1. i \in 1..Len(rows) /\ IsText(rows, i) /\ rows[i].chunk = N
    BY <1>7
  <2> QED BY <1>0, <1>10, <2>1, NoneLast
<1>11. RowsKept(rows, D) => RowsKept(rs, D)
  BY <1>7 DEF RowsKept
<1>12. RowsUpTo(rows, N) => RowsUpTo(rs, N)
  BY <1>2 DEF RowsUpTo
<1> QED BY <1>6, <1>8, <1>9, <1>10, <1>11, <1>12

-----------------------------------------------------------------------------
\* What the invariant says of the variables.
LEMMA TurnIs ==
    ASSUME TurnInv
    PROVE  /\ seq \in Nat /\ started \subseteq 1..seq /\ dropped \subseteq started
           /\ settled \in Seq(Nat) /\ req \in Request /\ att \in Attempt
           /\ wire \in Seq(Event) /\ ui \in Client /\ notices \in Nat
           /\ open \in BOOLEAN /\ cancelled \in BOOLEAN
           /\ Len(wire) \in Nat /\ Numeric(wire) /\ ui.rows \in Seq(Row) /\ ui.seen \in Nat
           /\ Len(ui.rows) \in Nat
           /\ Owed \in Nat /\ Due \in Nat /\ (Due = 0 \/ Due = Owed)
           /\ att.live \in Nat /\ (pc = "attempt" => Owed = att.live /\ Due = 0)
           /\ SentInv /\ RowsInv /\ EndsLast /\ AttemptInv /\ ResetsApply /\ AttemptsSettle
<1>1. TurnShape /\ SentInv /\ RowsInv /\ EndsLast /\ AttemptInv /\ ResetsApply /\ AttemptsSettle
  BY DEF TurnInv, WireInv
<1>2. att.live \in Nat /\ req.discard \in Nat /\ ui.rows \in Seq(Row) /\ ui.seen \in Nat
  BY <1>1 DEF TurnShape, Request, Attempt, Client
<1>3. Len(wire) \in Nat /\ Numeric(wire) /\ Len(ui.rows) \in Nat
  BY <1>1, <1>2, EventNumeric, RowNumeric, LenProperties DEF TurnShape
<1>4. Owed \in Nat /\ Due \in Nat /\ (Due = 0 \/ Due = Owed)
      /\ (pc = "attempt" => Owed = att.live /\ Due = 0)
  BY <1>2 DEF Owed, Due
<1> QED BY <1>1, <1>2, <1>3, <1>4 DEF TurnShape

\* The steps of the task, by what they do to the wire and to what the invariant counts.
TaskSame == ui' = ui /\ notices' = notices /\ open' = open
SeqSame  == seq' = seq /\ started' = started
SeqNext  == seq' = seq + 1 /\ started' = started \cup {seq + 1} /\ dropped' = dropped
Outside  == {"attempt", "delay", "ended"}

\* The turn ends.
EndKind ==
    /\ TaskSame /\ pc # "ended" /\ pc' = "ended" /\ req' = NewRequest /\ att' = NewAttempt
    /\ \E o \in Outcomes : wire' = IF open THEN Append(wire, Finished(o)) ELSE wire
    /\ \/ SeqSame /\ (dropped' = dropped \/ (pc = "attempt" /\ dropped' = dropped \cup {seq}))
       \/ SeqNext

\* A step of the task that says nothing.
IdleKind ==
    /\ TaskSame /\ pc \notin {"delay", "ended"} /\ pc' \notin Outside /\ wire' = wire
    /\ req' = req /\ att' \in Attempt /\ (att' = att \/ att'.text = <<>>)
    /\ \/ /\ SeqSame
          /\ \/ dropped' = dropped
             \/ pc = "attempt" /\ att.text = <<>> /\ dropped' = dropped \cup {seq}
       \/ SeqNext

\* A step of the task that sends the whole answer, or a tool call.
SayKind ==
    /\ TaskSame /\ pc \notin {"delay", "ended"} /\ pc' \notin Outside /\ open
    /\ \E m \in {Delta(0), ToolCall} : wire' = Append(wire, m)
    /\ req' = req /\ att' \in Attempt /\ att'.text = <<>> /\ SeqSame /\ dropped' = dropped

\* A step of the stream within an attempt.
GoKind ==
    /\ TaskSame /\ pc = "attempt" /\ pc' = "attempt" /\ SeqSame /\ dropped' = dropped
    /\ att' \in Attempt /\ req' \in Request
    /\ \/ /\ wire' = wire /\ req' = req /\ att'.text = att.text /\ att'.live = att.live
       \/ /\ ~open /\ wire' = wire /\ Len(att'.text) = Len(att.text) + 1 /\ att'.live = att.live
       \/ /\ open /\ wire' = Append(wire, Delta(seq)) /\ Len(att'.text) = Len(att.text) + 1
          /\ att'.live = att.live + 1 /\ req'.streamed

\* The next attempt begins, with the reset that was due.
StartKind ==
    /\ TaskSame /\ pc \notin {"attempt", "ended"} /\ pc' = "attempt" /\ SeqNext
    /\ att' = NewAttempt /\ req' \in Request
    /\ req' = NewRequest \/ (req'.streamed = req.streamed /\ req'.prefix = req.prefix)
    /\ \/ Due = 0 /\ wire' = wire
       \/ pc = "delay" /\ open /\ wire' = Append(wire, Reset(seq + 1, Due))

\* An attempt is given up, and the retry waits.
DelayKind ==
    /\ TaskSame /\ pc = "attempt" /\ pc' = "delay" /\ SeqSame /\ wire' = wire
    /\ att' = NewAttempt /\ req' \in Request /\ req'.streamed = req.streamed
    /\ req.prefix = <<>> /\ att.text = <<>> => req'.prefix = <<>>
    /\ \/ dropped' = dropped /\ req'.discard = 0
       \/ dropped' = dropped \cup {seq} /\ req'.discard = att.live

\* The settlements.
SettlesNone ==
    /\ SeqSame /\ settled' = settled /\ (pc' = "attempt" => pc = "attempt")
    /\ (pc = "attempt" => pc' = "attempt" \/ cancelled') /\ (cancelled => cancelled')

\* The attempt under way settles.
SettlesOne ==
    SeqSame /\ settled' = Append(settled, seq) /\ pc = "attempt" /\ pc' # "attempt"
      /\ cancelled' = cancelled

\* A new attempt begins, and may settle at once.
SettlesLater ==
    /\ seq' = seq + 1 /\ started' = started \cup {seq + 1} /\ ~cancelled /\ pc # "attempt"
    /\ cancelled' = cancelled
    /\ \/ settled' = settled /\ pc' = "attempt"
       \/ settled' = Append(settled, seq + 1) /\ pc' # "attempt"

\* What SettledOnce rests on.
SettleInv ==
    /\ seq \in Nat /\ started \subseteq 1..seq /\ settled \in Seq(Nat) /\ AttemptsSettle

\* One more attempt in the list of the settled.
LEMMA SettledMore ==
    ASSUME settled \in Seq(Nat), NEW s \in Nat, settled' = Append(settled, s)
    PROVE  /\ settled' \in Seq(Nat) /\ Len(settled) \in Nat /\ Len(settled') = Len(settled) + 1
           /\ \A i \in 1..Len(settled) : settled'[i] = settled[i] /\ i \in 1..Len(settled')
                                         /\ settled[i] \in Nat
           /\ settled'[Len(settled) + 1] = s /\ Len(settled) + 1 \in 1..Len(settled')
           /\ \A i \in 1..Len(settled') : i \in 1..Len(settled) \/ i = Len(settled) + 1
<1>1. settled \in Seq(Nat)
  OBVIOUS
<1>2. Longer(settled', settled, s)
  BY <1>1, AppendIsLonger
<1>3. \A i \in 1..Len(settled) : settled[i] \in Nat
  BY <1>1
<1> QED BY <1>1, <1>2, <1>3, LongerPlaces DEF Longer

\* Each of these steps settles an attempt at most once.
LEMMA SettleKeeps ==
    ASSUME SettleInv, SettlesNone \/ SettlesOne \/ SettlesLater
    PROVE  SettleInv'
<1>1. /\ \A i \in 1..Len(settled) : settled[i] <= seq /\ (pc = "attempt" => settled[i] < seq)
      /\ \A i, j \in 1..Len(settled) : i < j => settled[i] < settled[j]
      /\ \A s \in started : (s = seq /\ (pc = "attempt" \/ cancelled))
                            \/ \E i \in 1..Len(settled) : settled[i] = s
      /\ settled \in Seq(Nat) /\ seq \in Nat /\ started \subseteq 1..seq
      /\ \A i \in 1..Len(settled) : settled[i] \in Nat
  BY DEF SettleInv, AttemptsSettle, SettledOnce
<1>0. seq' \in Nat /\ started' \subseteq 1..seq'
  <2>1. \/ seq' = seq /\ started' = started
        \/ seq' = seq + 1 /\ started' = started \cup {seq + 1}
    BY DEF SettlesNone, SettlesOne, SettlesLater, SeqSame
  <2>2. CASE seq' = seq /\ started' = started
    BY <1>1, <2>2
  <2>3. CASE seq' = seq + 1 /\ started' = started \cup {seq + 1}
    <3>1. PICK n \in Nat : n = seq
      BY <1>1
    <3>2. seq' = n + 1 /\ started' = started \cup {n + 1} /\ started \subseteq 1..n
      BY <1>1, <2>3, <3>1
    <3>3. started' \subseteq 1..(n + 1)
      BY <3>2
    <3> QED BY <3>2, <3>3
  <2> QED BY <2>1, <2>2, <2>3
<1> SUFFICES AttemptsSettle' /\ settled' \in Seq(Nat)
  BY <1>0 DEF SettleInv
<1>2. CASE SettlesNone
  <2>1. SettledOnce'
    BY <1>1, <1>2 DEF SettlesNone, SeqSame, SettledOnce
  <2> QED BY <1>1, <1>2, <2>1 DEF SettlesNone, SeqSame, AttemptsSettle
<1>3. CASE SettlesOne
  <2>1. /\ settled' \in Seq(Nat) /\ Len(settled) \in Nat
        /\ \A i \in 1..Len(settled) : settled'[i] = settled[i] /\ i \in 1..Len(settled')
        /\ settled'[Len(settled) + 1] = seq /\ Len(settled) + 1 \in 1..Len(settled')
        /\ \A i \in 1..Len(settled') : i \in 1..Len(settled) \/ i = Len(settled) + 1
    BY <1>1, <1>3, SettledMore DEF SettlesOne
  <2>2. seq' = seq /\ started' = started /\ pc = "attempt" /\ pc' # "attempt"
    BY <1>3 DEF SettlesOne, SeqSame
  <2>3. \A i \in 1..Len(settled') : settled'[i] <= seq
    BY SMTT(30), <1>1, <2>1
  <2>4. ASSUME NEW i \in 1..Len(settled'), NEW j \in 1..Len(settled'), i < j
        PROVE  settled'[i] < settled'[j]
    <3>1. i \in 1..Len(settled)
      BY <2>1, <2>4
    <3>2. CASE j \in 1..Len(settled)
      BY <1>1, <2>1, <2>4, <3>1, <3>2
    <3>3. CASE j = Len(settled) + 1
      BY <1>1, <2>1, <2>2, <3>1, <3>3
    <3> QED BY <2>1, <3>2, <3>3
  <2>5. \A s \in started : \E i \in 1..Len(settled') : settled'[i] = s
    BY <1>1, <2>1
  <2> QED BY <2>1, <2>2, <2>3, <2>4, <2>5 DEF AttemptsSettle, SettledOnce
<1>4. CASE SettlesLater
  <2>1. seq' = seq + 1 /\ started' = started \cup {seq + 1} /\ ~cancelled /\ pc # "attempt"
    BY <1>4 DEF SettlesLater
  <2>2. CASE settled' = settled /\ pc' = "attempt"
    <3>1. \A i \in 1..Len(settled) : settled[i] < seq + 1
      BY <1>1
    <3> QED BY <1>1, <2>1, <2>2, <3>1 DEF AttemptsSettle, SettledOnce
  <2>3. CASE settled' = Append(settled, seq + 1) /\ pc' # "attempt"
    <3>1. /\ settled' \in Seq(Nat) /\ Len(settled) \in Nat
          /\ \A i \in 1..Len(settled) : settled'[i] = settled[i] /\ i \in 1..Len(settled')
          /\ settled'[Len(settled) + 1] = seq + 1 /\ Len(settled) + 1 \in 1..Len(settled')
          /\ \A i \in 1..Len(settled') : i \in 1..Len(settled) \/ i = Len(settled) + 1
      BY <1>1, <2>3, SettledMore
    <3>2. ASSUME NEW i \in 1..Len(settled') PROVE settled'[i] <= seq + 1
      <4>1. CASE i \in 1..Len(settled)
        <5>1. settled'[i] = settled[i]
          BY <3>1, <4>1
        <5>2. settled[i] \in Nat /\ settled[i] <= seq /\ seq \in Nat
          BY <1>1, <4>1
        <5>3. settled[i] <= seq + 1
          BY <5>2
        <5> QED BY <5>1, <5>3
      <4>2. CASE i = Len(settled) + 1
        BY <1>1, <3>1, <4>2
      <4> QED BY <3>1, <4>1, <4>2
    <3>3. ASSUME NEW i \in 1..Len(settled'), NEW j \in 1..Len(settled'), i < j
          PROVE  settled'[i] < settled'[j]
      <4>1. i \in 1..Len(settled)
        BY <3>1, <3>3
      <4>2. CASE j \in 1..Len(settled)
        BY <1>1, <3>1, <3>3, <4>1, <4>2
      <4>3. CASE j = Len(settled) + 1
        BY SMTT(30), <1>1, <3>1, <4>1, <4>3
      <4> QED BY <3>1, <4>2, <4>3
    <3>4. \A s \in started' : \E i \in 1..Len(settled') : settled'[i] = s
      BY <1>1, <2>1, <3>1
    <3> QED BY <2>1, <2>3, <3>1, <3>2, <3>3, <3>4 DEF AttemptsSettle, SettledOnce
  <2> QED BY <1>4, <2>2, <2>3 DEF SettlesLater
<1> QED BY <1>2, <1>3, <1>4

-----------------------------------------------------------------------------
\* The parts of the shape a step of the task may change.
TaskShape ==
    /\ seq \in Nat /\ started \subseteq 1..seq /\ dropped \subseteq started
    /\ req \in Request /\ att \in Attempt /\ wire \in Seq(Event) /\ ui \in Client
    /\ notices \in Nat /\ open \in BOOLEAN

\* A fresh request and a fresh attempt.
LEMMA NewIs ==
    /\ NewRequest \in Request /\ NewAttempt \in Attempt
    /\ NewRequest.prefix = <<>> /\ NewRequest.discard = 0 /\ NewRequest.delay = 0
    /\ NewAttempt.text = <<>> /\ NewAttempt.live = 0
  BY DEF NewRequest, NewAttempt, Request, Attempt

\* The events have their type.
LEMMA EventIs ==
    /\ \A o \in Outcomes : Finished(o) \in Event /\ Finished(o).kind = o
                           /\ o \notin {"delta", "reset"}
    /\ ToolCall \in Event /\ ToolCall.kind = "tool"
    /\ \A c \in Nat : Delta(c) \in Event /\ Delta(c).kind = "delta" /\ Delta(c).seq = c
    /\ \A s, n \in Nat : Reset(s, n) \in Event /\ Reset(s, n).kind = "reset"
                         /\ Reset(s, n).seq = s /\ Reset(s, n).count = n
<1>1. \A o \in Outcomes : Finished(o) \in Event /\ Finished(o).kind = o
                          /\ o \notin {"delta", "reset"}
  BY DEF Finished, Event, Outcomes
<1>2. ToolCall \in Event /\ ToolCall.kind = "tool"
  BY DEF ToolCall, Event
<1>3. \A c \in Nat : Delta(c) \in Event /\ Delta(c).kind = "delta" /\ Delta(c).seq = c
  BY DEF Delta, Event
<1>4. \A s, n \in Nat : Reset(s, n) \in Event /\ Reset(s, n).kind = "reset"
                        /\ Reset(s, n).seq = s /\ Reset(s, n).count = n
  BY DEF Reset, Event
<1> QED BY <1>1, <1>2, <1>3, <1>4

\* A message that is no reset and shows no text of an attempt, or none at all.
Plain(m) == m \in Event /\ m.kind # "reset" /\ (m.kind = "delta" => m.seq = 0)
\* The channel, or one message more that retracts nothing and has no chunk of an
\* attempt.
PlainWire(t) == t = wire \/ \E m : Plain(m) /\ t = Append(wire, m)

\* What such a channel keeps of the invariant.
LEMMA PlainSent ==
    ASSUME TurnInv, NEW t, PlainWire(t)
    PROVE  /\ Counted(t, 0) /\ Numbered(t, ui.seen, seq) /\ SentUpTo(t, seq)
           /\ SentRetracted(t, dropped) /\ t \in Seq(Event) /\ Numeric(t) /\ Len(t) \in Nat
           /\ SentDue(wire, dropped, 0) => SentDue(t, dropped, 0)
<1>1. /\ Counted(wire, Owed) /\ Numbered(wire, ui.seen, seq) /\ SentUpTo(wire, seq)
      /\ SentRetracted(wire, dropped) /\ wire \in Seq(Event) /\ Numeric(wire)
      /\ Len(wire) \in Nat /\ Owed \in Nat /\ seq \in Nat /\ 0 \notin dropped
  BY TurnIs DEF SentInv
<1>2. CASE t = wire
  BY <1>1, <1>2, CountedNone
<1>3. CASE t # wire
  <2>1. PICK m : Plain(m) /\ t = Append(wire, m)
    BY <1>3 DEF PlainWire
  <2>2. /\ m \in Event /\ m.kind # "reset" /\ (m.kind = "delta" => m.seq = 0)
        /\ (m.kind = "delta" => m.seq <= seq) /\ (m.kind = "delta" => m.seq \notin dropped)
    BY <1>1, <2>1 DEF Plain
  <2>3. Longer(t, wire, m) /\ t \in Seq(Event)
    BY <1>1, <2>1, <2>2, AppendIsLonger
  <2>4. Counted(t, 0)
    BY <1>1, <2>2, <2>3, CountedMore
  <2>5. Numbered(t, ui.seen, seq)
    BY <1>1, <2>2, <2>3, NumberedMore
  <2>6. SentUpTo(t, seq)
    BY <1>1, <2>2, <2>3, UpToMore
  <2>7. SentRetracted(t, dropped)
    BY <1>1, <2>2, <2>3, SentRetractedMore
  <2>8. SentDue(wire, dropped, 0) => SentDue(t, dropped, 0)
    BY <2>2, <2>3, SentDueMore
  <2>9. Numeric(t) /\ Len(t) \in Nat
    BY <2>3, EventNumeric, LenProperties
  <2> QED BY <2>3, <2>4, <2>5, <2>6, <2>7, <2>8, <2>9
<1> QED BY <1>2, <1>3

\* The same, of the transcript.
LEMMA PlainShown ==
    ASSUME TurnInv, NEW t, PlainWire(t), ui.st = "streaming"
    PROVE  /\ notices = 0 => Findable(t, ui.rows, 0)
           /\ RowsRetracted(t, ui.rows, dropped)
           /\ RowsDue(wire, ui.rows, dropped, 0) => RowsDue(t, ui.rows, dropped, 0)
<1>1. /\ notices = 0 => Findable(wire, ui.rows, Owed)
      /\ RowsRetracted(wire, ui.rows, dropped) /\ ui.rows \in Seq(Row)
      /\ wire \in Seq(Event) /\ Numeric(wire) /\ Len(wire) \in Nat /\ Owed \in Nat
  BY TurnIs DEF RowsInv
<1>2. CASE t = wire
  BY <1>1, <1>2, FindableNone
<1>3. CASE t # wire
  <2>1. PICK m : Plain(m) /\ t = Append(wire, m)
    BY <1>3 DEF PlainWire
  <2>2. m \in Event /\ m.kind # "reset" /\ (m.kind = "delta" => m.seq = 0)
    BY <2>1 DEF Plain
  <2>3. Longer(t, wire, m)
    BY <1>1, <2>1, <2>2, AppendIsLonger
  <2>4. notices = 0 => Findable(t, ui.rows, 0)
    BY <1>1, <2>2, <2>3, FindableMore
  <2>5. RowsRetracted(t, ui.rows, dropped)
    BY <1>1, <2>2, <2>3, RowsRetractedMore
  <2>6. RowsDue(wire, ui.rows, dropped, 0) => RowsDue(t, ui.rows, dropped, 0)
    BY <1>1, <2>3, RowsDueMore
  <2> QED BY <2>4, <2>5, <2>6
<1> QED BY <1>2, <1>3

\* A step of the task after which no attempt runs and none is about to.
Bumped ==
    \/ seq' = seq /\ dropped' = dropped
    \/ seq' = seq + 1 /\ dropped' = dropped
    \/ /\ pc = "attempt" /\ seq' = seq /\ dropped' = dropped \cup {seq}
       /\ pc' = "ended" \/ att.text = <<>>

\* A step outside an attempt keeps what the channel owes.
LEMMA SentOutside ==
    ASSUME TurnInv, TaskSame, pc # "ended", pc' \notin {"attempt", "delay"},
           pc = "delay" => pc' = "ended", PlainWire(wire'), Bumped
    PROVE  SentInv'
<1>1. /\ Counted(wire', 0) /\ Numbered(wire', ui.seen, seq) /\ SentUpTo(wire', seq)
      /\ SentRetracted(wire', dropped) /\ Numeric(wire') /\ Len(wire') \in Nat
      /\ SentDue(wire, dropped, 0) => SentDue(wire', dropped, 0)
  BY PlainSent
<1>2. ui' = ui /\ Owed' = 0 /\ Due' = 0 /\ seq \in Nat /\ ui.seen \in Nat
  BY TurnIs DEF TaskSame, Owed, Due
<1>3. pc' # "ended" => SentDue(wire', dropped, 0)
  BY <1>1, TurnIs DEF SentInv, Due
<1>4. CASE seq' = seq /\ dropped' = dropped
  BY <1>1, <1>2, <1>3, <1>4 DEF SentInv
<1>5. CASE seq' = seq + 1 /\ dropped' = dropped
  <2>1. Numbered(wire', ui.seen, seq + 1)
    BY <1>1, <1>2, NumberedUp
  <2>2. SentUpTo(wire', seq + 1)
    BY <1>1, <1>2, UpToUp
  <2> QED BY <1>1, <1>2, <1>3, <1>5, <2>1, <2>2 DEF SentInv
<1>6. CASE /\ pc = "attempt" /\ seq' = seq /\ dropped' = dropped \cup {seq}
           /\ pc' = "ended" \/ att.text = <<>>
  <2>1. SentRetracted(wire', dropped \cup {seq})
    BY <1>1, <1>2, DropSent
  <2>2. ASSUME att.text = <<>>, pc' # "ended" PROVE SentDue(wire', dropped \cup {seq}, 0)
    <3>1. SentLast(wire, seq, att.live) /\ att.live = 0
      BY <1>6, <2>2, TurnIs DEF SentInv, AttemptInv
    <3>2. SentLast(wire', seq, 0)
      <4>1. CASE wire' = wire
        BY <3>1, <4>1
      <4>2. CASE wire' # wire
        <5>1. PICK m : Plain(m) /\ wire' = Append(wire, m)
          BY <4>2 DEF PlainWire
        <5>2. seq \in 1..seq /\ seq # 0 /\ wire \in Seq(Event)
          BY <1>6, TurnIs DEF AttemptInv
        <5>3. Longer(wire', wire, m) /\ (m.kind = "delta" => m.seq = 0)
          BY <5>1, <5>2, AppendIsLonger DEF Plain
        <5>4. \A p \in 1..Len(wire) : ~(IsDelta(wire, p) /\ wire[p].seq = seq)
          BY <3>1, <5>3 DEF SentLast, CoversSent, Longer
        <5>5. \A p \in 1..Len(wire') : ~(IsDelta(wire', p) /\ wire'[p].seq = seq)
          BY <5>2, <5>3, <5>4, LongerPlaces DEF IsDelta, Longer
        <5> QED BY <5>5 DEF SentLast
      <4> QED BY <4>1, <4>2
    <3> QED BY <1>1, <1>2, <1>3, <2>2, <3>2, DropSent
  <2> QED BY <1>1, <1>2, <1>6, <2>1, <2>2 DEF SentInv
<1> QED BY <1>4, <1>5, <1>6 DEF Bumped

\* A step outside an attempt keeps what the transcript owes.
LEMMA RowsOutside ==
    ASSUME TurnInv, TaskSame, pc # "ended", pc' \notin {"attempt", "delay"},
           pc = "delay" => pc' = "ended", PlainWire(wire'), Bumped
    PROVE  RowsInv'
<1>1. /\ RowsUpTo(ui.rows, seq) /\ RowsKept(ui.rows, dropped) /\ ui.rows \in Seq(Row)
      /\ seq \in Nat /\ SentUpTo(wire', seq) /\ Numeric(wire') /\ Len(wire') \in Nat
      /\ SentUpTo(wire, seq) /\ Numeric(wire) /\ Len(wire) \in Nat
  BY TurnIs, PlainSent DEF RowsInv, SentInv
<1>2. ui' = ui /\ notices' = notices /\ Owed' = 0 /\ Due' = 0
  BY DEF TaskSame, Owed, Due
<1>3. ui.st = "streaming" => /\ notices = 0 => Findable(wire', ui.rows, 0)
                             /\ RowsRetracted(wire', ui.rows, dropped)
  BY PlainShown
<1>4. ui.st = "streaming" /\ pc' # "ended" => RowsDue(wire', ui.rows, dropped, 0)
  BY PlainShown, TurnIs DEF RowsInv, Due
<1>5. CASE seq' = seq /\ dropped' = dropped
  BY <1>1, <1>2, <1>3, <1>4, <1>5 DEF RowsInv
<1>6. CASE seq' = seq + 1 /\ dropped' = dropped
  <2>1. RowsUpTo(ui.rows, seq + 1)
    BY <1>1, LastNone
  <2> QED BY <1>1, <1>2, <1>3, <1>4, <1>6, <2>1 DEF RowsInv
<1>7. CASE /\ pc = "attempt" /\ seq' = seq /\ dropped' = dropped \cup {seq}
           /\ pc' = "ended" \/ att.text = <<>>
  <2>1. /\ RowsKept(ui.rows, dropped \cup {seq})
        /\ RowsRetracted(wire', ui.rows, dropped) => RowsRetracted(wire', ui.rows, dropped \cup {seq})
    BY <1>1, DropRows
  <2>2. ASSUME att.text = <<>>, pc' # "ended", ui.st = "streaming"
        PROVE  RowsDue(wire', ui.rows, dropped \cup {seq}, 0)
    <3>1. RowsLast(wire, ui.rows, seq, 0)
      BY <1>7, <2>2, TurnIs DEF RowsInv, AttemptInv
    <3>2. \A i \in 1..Len(ui.rows) : ~(IsText(ui.rows, i) /\ ui.rows[i].chunk = seq)
      <4>1. Len(ui.rows) \in Nat
        BY TurnIs
      <4> QED BY <1>1, <3>1, <4>1, NothingDue DEF RowsLast
    <3>3. RowsLast(wire', ui.rows, seq, 0)
      BY <3>2 DEF RowsLast
    <3> QED BY <1>1, <1>4, <2>2, <3>3, DropRows
  <2> QED BY <1>1, <1>2, <1>3, <1>7, <2>1, <2>2 DEF RowsInv
<1> QED BY <1>5, <1>6, <1>7 DEF Bumped

\* While the turn has not ended nothing on the wire says so.
LEMMA NotEnded ==
    ASSUME TurnInv, pc # "ended"
    PROVE  /\ \A p \in 1..Len(wire) : wire[p].kind \notin Outcomes
           /\ ui.st # "idle"
  BY TurnIs DEF EndsLast

\* The end of the turn keeps the invariant.
LEMMA EndKeeps == ASSUME TurnInv, EndKind PROVE WireInv' /\ TaskShape'
<1>1. /\ TaskSame /\ pc # "ended" /\ pc' = "ended" /\ req' = NewRequest /\ att' = NewAttempt
      /\ ui' = ui /\ notices' = notices /\ open' = open
  BY DEF EndKind, TaskSame
<1>2. PICK o \in Outcomes : wire' = IF open THEN Append(wire, Finished(o)) ELSE wire
  BY DEF EndKind
<1>3. PICK m : m = Finished(o)
  OBVIOUS
<1>4. m \in Event /\ m.kind = o /\ o \notin {"delta", "reset"} /\ Plain(m)
  BY <1>2, <1>3, EventIs DEF Plain
<1>5. wire' = (IF open THEN Append(wire, m) ELSE wire) /\ PlainWire(wire')
  BY <1>2, <1>3, <1>4 DEF PlainWire
<1>6. Bumped
  BY <1>1 DEF EndKind, SeqSame, SeqNext, Bumped
<1>7. SentInv' /\ RowsInv'
  BY <1>1, <1>5, <1>6, SentOutside, RowsOutside
<1>8. EndsLast'
  <2>1. \A p \in 1..Len(wire') : wire'[p].kind \in Outcomes => p = Len(wire')
    <3>1. CASE wire' = wire
      BY <1>1, <3>1, NotEnded
    <3>2. CASE wire' = Append(wire, m)
      <4>1. Longer(wire', wire, m)
        BY <1>4, <3>2, TurnIs, AppendIsLonger
      <4> QED BY <1>1, <4>1, NotEnded, LongerPlaces DEF Longer
    <3> QED BY <1>5, <3>1, <3>2
  <2>2. (ui.st = "gone" <=> ~open) /\ (~open => wire = <<>> /\ ui.rows = <<>>)
    BY TurnIs DEF EndsLast
  <2> QED BY <1>1, <1>5, <2>1, <2>2, NotEnded DEF EndsLast
<1>9. AttemptInv' /\ ResetsApply'
  BY <1>1, TurnIs, NewIs DEF AttemptInv, ResetsApply
<1>10. TaskShape'
  <2>1. wire' \in Seq(Event)
    BY <1>5, PlainSent
  <2>2. seq' \in Nat /\ started' \subseteq 1..seq' /\ dropped' \subseteq started'
    BY TurnIs DEF EndKind, SeqSame, SeqNext, AttemptInv
  <2> QED BY <1>1, <2>1, <2>2, TurnIs, NewIs DEF TaskShape
<1> QED BY <1>7, <1>8, <1>9, <1>10 DEF WireInv

\* A silent step keeps the invariant.
LEMMA IdleKeeps == ASSUME TurnInv, IdleKind PROVE WireInv' /\ TaskShape'
<1>1. /\ TaskSame /\ pc \notin {"delay", "ended"} /\ pc' \notin {"attempt", "delay", "ended"}
      /\ wire' = wire /\ req' = req /\ att' \in Attempt /\ (att' = att \/ att'.text = <<>>)
      /\ ui' = ui /\ notices' = notices /\ open' = open
  BY DEF IdleKind, TaskSame, Outside
<1>2. PlainWire(wire') /\ Bumped
  BY <1>1 DEF IdleKind, SeqSame, SeqNext, Bumped, PlainWire
<1>3. SentInv' /\ RowsInv'
  BY <1>1, <1>2, SentOutside, RowsOutside
<1>4. EndsLast'
  <2>1. (ui.st = "gone" <=> ~open) /\ (~open => wire = <<>> /\ ui.rows = <<>>)
    BY TurnIs DEF EndsLast
  <2> QED BY <1>1, <2>1, NotEnded DEF EndsLast
<1>5. AttemptInv' /\ ResetsApply'
  BY <1>1, TurnIs DEF AttemptInv, ResetsApply
<1>6. TaskShape'
  <2>1. seq' \in Nat /\ started' \subseteq 1..seq' /\ dropped' \subseteq started'
    <3>1. \/ /\ seq' = seq /\ started' = started
             /\ dropped' = dropped \/ (pc = "attempt" /\ dropped' = dropped \cup {seq})
          \/ seq' = seq + 1 /\ started' = started \cup {seq + 1} /\ dropped' = dropped
      BY DEF IdleKind, SeqSame, SeqNext
    <3> QED BY <3>1, TurnIs DEF AttemptInv
  <2> QED BY <1>1, <2>1, TurnIs DEF TaskShape
<1> QED BY <1>3, <1>4, <1>5, <1>6 DEF WireInv

\* A whole answer or a tool call keeps the invariant.
LEMMA SayKeeps == ASSUME TurnInv, SayKind PROVE WireInv' /\ TaskShape'
<1>1. /\ TaskSame /\ pc \notin {"delay", "ended"} /\ pc' \notin {"attempt", "delay", "ended"}
      /\ req' = req /\ att' \in Attempt /\ att'.text = <<>> /\ open
      /\ ui' = ui /\ notices' = notices /\ open' = open
      /\ seq' = seq /\ started' = started /\ dropped' = dropped
  BY DEF SayKind, TaskSame, Outside, SeqSame
<1>2. PICK m \in {Delta(0), ToolCall} : wire' = Append(wire, m)
  BY DEF SayKind
<1>3. m \in Event /\ m.kind \in {"delta", "tool"} /\ Plain(m)
  BY <1>2, EventIs DEF Plain
<1>4. PlainWire(wire') /\ Bumped
  BY <1>1, <1>2, <1>3 DEF Bumped, PlainWire
<1>5. SentInv' /\ RowsInv'
  BY <1>1, <1>4, SentOutside, RowsOutside
<1>6. EndsLast'
  <2>1. Longer(wire', wire, m)
    BY <1>2, <1>3, TurnIs, AppendIsLonger
  <2>2. \A p \in 1..Len(wire') : wire'[p].kind \notin Outcomes
    BY <1>1, <1>3, <2>1, NotEnded, LongerPlaces DEF Longer, Outcomes
  <2>3. ui.st = "gone" <=> ~open
    BY TurnIs DEF EndsLast
  <2> QED BY <1>1, <2>2, <2>3, NotEnded DEF EndsLast
<1>7. AttemptInv' /\ ResetsApply'
  BY <1>1, TurnIs DEF AttemptInv, ResetsApply
<1>8. TaskShape'
  <2>1. wire' \in Seq(Event)
    BY <1>4, PlainSent
  <2> QED BY <1>1, <2>1, TurnIs DEF TaskShape
<1> QED BY <1>5, <1>6, <1>7, <1>8 DEF WireInv

\* The attempt goes on; with text, if the client is there, or not.
LEMMA GoKeeps == ASSUME TurnInv, GoKind PROVE WireInv' /\ TaskShape'
<1>1. /\ pc = "attempt" /\ pc' = "attempt" /\ seq' = seq /\ started' = started
      /\ dropped' = dropped /\ att' \in Attempt /\ req' \in Request
      /\ ui' = ui /\ notices' = notices /\ open' = open
  BY DEF GoKind, TaskSame, SeqSame
<1>2. Owed = att.live /\ Due = 0 /\ Owed' = att'.live /\ Due' = 0
  BY <1>1 DEF Owed, Due
<1>3. (ui.st = "gone" <=> ~open) /\ (~open => wire = <<>> /\ ui.rows = <<>>)
  BY TurnIs DEF EndsLast
<1>4. ASSUME wire' = wire, att'.live = att.live,
             (req' = req /\ att'.text = att.text) \/ (~open /\ Len(att'.text) = Len(att.text) + 1)
      PROVE  WireInv' /\ TaskShape'
  <2>1. SentInv' /\ RowsInv'
    BY <1>1, <1>2, <1>4, TurnIs DEF SentInv, RowsInv
  <2>2. EndsLast'
    BY <1>1, <1>3, <1>4, NotEnded DEF EndsLast
  <2>3. AttemptInv'
    <3>1. att.live <= Len(att.text) /\ Len(att.text) \in Nat /\ att.live \in Nat
      BY <1>1, TurnIs, LenProperties DEF AttemptInv, Attempt
    <3>2. att.live <= Len(att'.text)
      BY <1>4, <3>1
    <3>3. seq \in started \ dropped
      BY <1>1, TurnIs DEF AttemptInv
    <3>4. open => req'.streamed \/ (req'.prefix = <<>> /\ att'.text = <<>>)
      BY <1>4, TurnIs DEF AttemptInv
    <3> QED BY <1>1, <1>4, <3>2, <3>3, <3>4 DEF AttemptInv
  <2>4. ResetsApply' /\ TaskShape'
    BY <1>1, <1>4, TurnIs DEF ResetsApply, TaskShape
  <2> QED BY <2>1, <2>2, <2>3, <2>4 DEF WireInv
<1>5. ASSUME open, wire' = Append(wire, Delta(seq)), Len(att'.text) = Len(att.text) + 1,
             att'.live = att.live + 1, req'.streamed
      PROVE  WireInv' /\ TaskShape'
  <2>1. PICK m : m = Delta(seq)
    OBVIOUS
  <2>2. m \in Event /\ m.kind = "delta" /\ m.kind # "reset" /\ m.seq = seq
    BY <2>1, EventIs, TurnIs
  <2>3. Longer(wire', wire, m) /\ wire' \in Seq(Event) /\ wire' = Append(wire, m)
    BY <1>5, <2>1, <2>2, TurnIs, AppendIsLonger
  <2>4. /\ Counted(wire, att.live) /\ Numbered(wire, ui.seen, seq) /\ SentUpTo(wire, seq)
        /\ SentRetracted(wire, dropped) /\ SentDue(wire, dropped, 0)
        /\ SentLast(wire, seq, att.live)
        /\ Numeric(wire) /\ seq \in Nat /\ att.live \in Nat /\ att.live + 1 \in Nat
        /\ seq \notin dropped /\ ui.rows \in Seq(Row) /\ seq <= seq
    BY <1>1, <1>2, TurnIs DEF SentInv, AttemptInv
  <2>5. Counted(wire', att.live + 1)
    BY <2>2, <2>3, <2>4, CountedMore
  <2>6. Numbered(wire', ui.seen, seq)
    BY <2>2, <2>3, <2>4, NumberedMore
  <2>7. SentUpTo(wire', seq)
    BY <2>2, <2>3, <2>4, UpToMore
  <2>8. SentRetracted(wire', dropped)
    BY <2>2, <2>3, <2>4, SentRetractedMore
  <2>9. SentDue(wire', dropped, 0)
    BY <2>2, <2>3, <2>4, SentDueMore
  <2>10. SentLast(wire', seq, att.live + 1)
    BY <2>3, <2>4, SentLastMore
  <2>11. SentInv'
    BY <1>1, <1>2, <1>5, <2>5, <2>6, <2>7, <2>8, <2>9, <2>10 DEF SentInv
  <2>12. RowsInv'
    <3>1. ASSUME ui.st = "streaming"
          PROVE  /\ notices = 0 => Findable(wire', ui.rows, att.live + 1)
                 /\ RowsRetracted(wire', ui.rows, dropped)
                 /\ RowsDue(wire', ui.rows, dropped, 0)
                 /\ RowsLast(wire', ui.rows, seq, att.live + 1)
      <4>1. /\ notices = 0 => Findable(wire, ui.rows, att.live)
            /\ RowsRetracted(wire, ui.rows, dropped) /\ RowsDue(wire, ui.rows, dropped, 0)
            /\ RowsLast(wire, ui.rows, seq, att.live)
        BY <1>1, <1>2, <3>1, TurnIs DEF RowsInv
      <4>2. notices = 0 => Findable(wire', ui.rows, att.live + 1)
        BY <2>2, <2>3, <2>4, <4>1, FindableMore
      <4>3. RowsRetracted(wire', ui.rows, dropped)
        BY <2>2, <2>3, <2>4, <4>1, RowsRetractedMore
      <4>4. RowsDue(wire', ui.rows, dropped, 0)
        BY <2>3, <2>4, <4>1, RowsDueMore
      <4>5. RowsLast(wire', ui.rows, seq, att.live + 1)
        BY <2>3, <2>4, <4>1, RowsLastMore
      <4> QED BY <4>2, <4>3, <4>4, <4>5
    <3>2. RowsUpTo(ui.rows, seq) /\ RowsKept(ui.rows, dropped)
      BY TurnIs DEF RowsInv
    <3> QED BY <1>1, <1>2, <1>5, <3>1, <3>2 DEF RowsInv
  <2>13. EndsLast'
    <3>1. \A p \in 1..Len(wire') : wire'[p].kind \notin Outcomes
      BY <1>1, <2>2, <2>3, NotEnded, LongerPlaces DEF Longer, Outcomes
    <3> QED BY <1>1, <1>3, <1>5, <3>1, NotEnded DEF EndsLast
  <2>14. AttemptInv'
    <3>1. att.live <= Len(att.text) /\ Len(att.text) \in Nat /\ att.live \in Nat
      BY <1>1, TurnIs, LenProperties DEF AttemptInv, Attempt
    <3>2. att.live + 1 <= Len(att.text) + 1
      BY <3>1
    <3>3. seq \in started \ dropped
      BY <1>1, TurnIs DEF AttemptInv
    <3> QED BY <1>1, <1>5, <3>2, <3>3 DEF AttemptInv
  <2>15. ResetsApply' /\ TaskShape'
    BY <1>1, <2>3, TurnIs DEF ResetsApply, TaskShape
  <2> QED BY <2>11, <2>12, <2>13, <2>14, <2>15 DEF WireInv
<1> QED BY <1>4, <1>5 DEF GoKind

\* The next attempt starts, after the reset that was due, if any.
LEMMA StartKeeps == ASSUME TurnInv, StartKind PROVE WireInv' /\ TaskShape'
<1>1. /\ pc \notin {"attempt", "ended"} /\ pc' = "attempt" /\ seq' = seq + 1
      /\ started' = started \cup {seq + 1} /\ dropped' = dropped
      /\ att' = NewAttempt /\ req' \in Request
      /\ ui' = ui /\ notices' = notices /\ open' = open
  BY DEF StartKind, TaskSame, SeqNext
<1>2. Owed = Due /\ Owed' = 0 /\ Due' = 0 /\ att'.live = 0 /\ att'.text = <<>>
  BY <1>1, NewIs DEF Owed, Due
<1>3. /\ Counted(wire, Due) /\ Numbered(wire, ui.seen, seq) /\ SentUpTo(wire, seq)
      /\ SentRetracted(wire, dropped) /\ SentDue(wire, dropped, Due)
      /\ Numeric(wire) /\ seq \in Nat /\ ui.seen \in Nat /\ wire \in Seq(Event)
      /\ ui.rows \in Seq(Row) /\ RowsUpTo(ui.rows, seq) /\ RowsKept(ui.rows, dropped)
      /\ Due \in Nat /\ Len(wire) \in Nat
  BY <1>1, <1>2, TurnIs DEF SentInv, RowsInv
<1>4. ui.st = "streaming" =>
        /\ notices = 0 => Findable(wire, ui.rows, Due)
        /\ RowsRetracted(wire, ui.rows, dropped) /\ RowsDue(wire, ui.rows, dropped, Due)
  BY <1>1, <1>2, TurnIs DEF RowsInv
<1>5. /\ Counted(wire', 0) /\ Numbered(wire', ui.seen, seq + 1)
      /\ SentUpTo(wire', seq) /\ SentRetracted(wire', dropped) /\ SentDue(wire', dropped, 0)
      /\ wire' \in Seq(Event) /\ Numeric(wire')
      /\ (~open => wire' = wire)
      /\ \A p \in 1..Len(wire') : wire'[p].kind \notin Outcomes
      /\ ui.st = "streaming" =>
           /\ notices = 0 => Findable(wire', ui.rows, 0)
           /\ RowsRetracted(wire', ui.rows, dropped) /\ RowsDue(wire', ui.rows, dropped, 0)
  <2>1. CASE Due = 0 /\ wire' = wire
    <3>1. Numbered(wire, ui.seen, seq + 1)
      BY <1>3, NumberedUp
    <3> QED BY <1>1, <1>3, <1>4, <2>1, <3>1, NotEnded
  <2>2. CASE pc = "delay" /\ open /\ wire' = Append(wire, Reset(seq + 1, Due))
    <3>1. PICK m : m = Reset(seq + 1, Due)
      OBVIOUS
    <3>2. m \in Event /\ m.kind = "reset" /\ m.seq = seq + 1 /\ m.count = Due
      BY <1>3, <3>1, EventIs
    <3>3. Longer(wire', wire, m) /\ wire' \in Seq(Event)
      BY <1>3, <2>2, <3>1, <3>2, AppendIsLonger
    <3>4. Counted(wire', 0)
      BY <1>3, <3>2, <3>3, CountedReset
    <3>5. Numbered(wire', ui.seen, seq + 1)
      BY <1>3, <3>2, <3>3, NumberedReset
    <3>6. SentUpTo(wire', seq)
      BY <1>3, <3>2, <3>3, UpToMore
    <3>7. SentRetracted(wire', dropped)
      BY <1>3, <3>2, <3>3, SentRetractedMore
    <3>8. SentDue(wire', dropped, 0)
      BY <1>3, <3>2, <3>3, SentDueReset
    <3>9. \A p \in 1..Len(wire') : wire'[p].kind \notin Outcomes
      BY <1>1, <3>2, <3>3, NotEnded, LongerPlaces DEF Longer, Outcomes
    <3>10. ASSUME ui.st = "streaming"
           PROVE  /\ notices = 0 => Findable(wire', ui.rows, 0)
                  /\ RowsRetracted(wire', ui.rows, dropped) /\ RowsDue(wire', ui.rows, dropped, 0)
      <4>1. notices = 0 => Findable(wire', ui.rows, 0)
        BY <1>3, <1>4, <3>2, <3>3, <3>10, FindableReset
      <4>2. RowsRetracted(wire', ui.rows, dropped)
        BY <1>3, <1>4, <3>2, <3>3, <3>10, RowsRetractedMore
      <4>3. RowsDue(wire', ui.rows, dropped, 0)
        BY <1>3, <1>4, <3>2, <3>3, <3>10, RowsDueReset
      <4> QED BY <4>1, <4>2, <4>3
    <3>11. Numeric(wire')
      BY <3>3, EventNumeric
    <3> QED BY <2>2, <3>3, <3>4, <3>5, <3>6, <3>7, <3>8, <3>9, <3>10, <3>11
  <2> QED BY <2>1, <2>2 DEF StartKind
<1>6. SentUpTo(wire', seq + 1) /\ SentLast(wire', seq + 1, 0) /\ RowsUpTo(ui.rows, seq + 1)
      /\ RowsLast(wire', ui.rows, seq + 1, 0)
  BY <1>3, <1>5, LastNone, UpToUp
<1>7. SentInv'
  BY <1>1, <1>2, <1>5, <1>6 DEF SentInv
<1>8. RowsInv'
  BY <1>1, <1>2, <1>3, <1>5, <1>6 DEF RowsInv
<1>9. EndsLast'
  <2>1. (ui.st = "gone" <=> ~open) /\ (~open => wire = <<>> /\ ui.rows = <<>>)
    BY TurnIs DEF EndsLast
  <2> QED BY <1>1, <1>5, <2>1, NotEnded DEF EndsLast
<1>10. AttemptInv'
  <2>1. seq + 1 \in started' \ dropped'
    BY <1>1, TurnIs
  <2>2. att'.live <= Len(att'.text)
    BY <1>2
  <2>3. open => req'.streamed \/ req'.prefix = <<>>
    BY TurnIs, NewIs DEF StartKind, AttemptInv
  <2> QED BY <1>1, <1>2, <2>1, <2>2, <2>3 DEF AttemptInv
<1>11. ResetsApply'
  BY <1>1, TurnIs DEF ResetsApply
<1>12. TaskShape'
  <2>1. seq' \in Nat /\ started' \subseteq 1..seq' /\ dropped' \subseteq started'
    BY <1>1, TurnIs
  <2> QED BY <1>1, <1>5, <2>1, TurnIs, NewIs DEF TaskShape
<1> QED BY <1>7, <1>8, <1>9, <1>10, <1>11, <1>12 DEF WireInv

\* An attempt broke off: what it has shown is kept as a prefix or due to be retracted.
LEMMA DelayKeeps == ASSUME TurnInv, DelayKind PROVE WireInv' /\ TaskShape'
<1>1. /\ pc = "attempt" /\ pc' = "delay" /\ seq' = seq /\ started' = started /\ wire' = wire
      /\ att' = NewAttempt /\ req' \in Request /\ req'.streamed = req.streamed
      /\ (req.prefix = <<>> /\ att.text = <<>> => req'.prefix = <<>>)
      /\ ui' = ui /\ notices' = notices /\ open' = open
  BY DEF DelayKind, TaskSame, SeqSame
<1>2. Owed = att.live /\ Due = 0 /\ Owed' = req'.discard /\ Due' = req'.discard
  BY <1>1 DEF Owed, Due
<1>3. /\ Counted(wire, att.live) /\ Numbered(wire, ui.seen, seq) /\ SentUpTo(wire, seq)
      /\ SentRetracted(wire, dropped) /\ SentDue(wire, dropped, 0)
      /\ SentLast(wire, seq, att.live) /\ Len(wire) \in Nat
      /\ Numeric(wire) /\ seq \in Nat /\ att.live \in Nat /\ ui.rows \in Seq(Row)
      /\ RowsUpTo(ui.rows, seq) /\ RowsKept(ui.rows, dropped) /\ seq \in started
  BY <1>1, <1>2, TurnIs DEF SentInv, RowsInv, AttemptInv
<1>4. ui.st = "streaming" =>
        /\ notices = 0 => Findable(wire, ui.rows, att.live)
        /\ RowsRetracted(wire, ui.rows, dropped) /\ RowsDue(wire, ui.rows, dropped, 0)
        /\ RowsLast(wire, ui.rows, seq, att.live)
  BY <1>1, <1>2, TurnIs DEF RowsInv
<1>5. SentInv' /\ RowsInv'
  <2>1. CASE dropped' = dropped /\ req'.discard = 0
    <3>1. Counted(wire, 0) /\ (Findable(wire, ui.rows, att.live) => Findable(wire, ui.rows, 0))
      BY <1>3, CountedNone, FindableNone
    <3>2. SentInv'
      BY <1>1, <1>2, <1>3, <2>1, <3>1 DEF SentInv
    <3>3. RowsInv'
      BY <1>1, <1>2, <1>3, <1>4, <2>1, <3>1 DEF RowsInv
    <3> QED BY <3>2, <3>3
  <2>2. CASE dropped' = dropped \cup {seq} /\ req'.discard = att.live
    <3>1. SentRetracted(wire, dropped \cup {seq}) /\ SentDue(wire, dropped \cup {seq}, att.live)
      BY <1>3, DropSent
    <3>2. /\ RowsKept(ui.rows, dropped \cup {seq})
          /\ RowsRetracted(wire, ui.rows, dropped) => RowsRetracted(wire, ui.rows, dropped \cup {seq})
          /\ RowsDue(wire, ui.rows, dropped, 0) /\ RowsLast(wire, ui.rows, seq, att.live) =>
               RowsDue(wire, ui.rows, dropped \cup {seq}, att.live)
      BY <1>3, DropRows
    <3>3. SentInv'
      BY <1>1, <1>2, <1>3, <2>2, <3>1 DEF SentInv
    <3>4. RowsInv'
      BY <1>1, <1>2, <1>3, <1>4, <2>2, <3>2 DEF RowsInv
    <3> QED BY <3>3, <3>4
  <2> QED BY <2>1, <2>2 DEF DelayKind
<1>6. EndsLast'
  <2>1. (ui.st = "gone" <=> ~open) /\ (~open => wire = <<>> /\ ui.rows = <<>>)
    BY TurnIs DEF EndsLast
  <2> QED BY <1>1, <2>1, NotEnded DEF EndsLast
<1>7. AttemptInv' /\ ResetsApply'
  BY <1>1, TurnIs, NewIs DEF AttemptInv, ResetsApply
<1>8. TaskShape'
  <2>1. dropped' \subseteq started'
    BY <1>1, <1>3, TurnIs DEF DelayKind
  <2> QED BY <1>1, <2>1, TurnIs, NewIs DEF TaskShape
<1> QED BY <1>5, <1>6, <1>7, <1>8 DEF WireInv

-----------------------------------------------------------------------------
\* The steps of the client.
TaskRests ==
    /\ pc' = pc /\ seq' = seq /\ req' = req /\ att' = att /\ started' = started
    /\ settled' = settled /\ dropped' = dropped

\* A step of the client leaves what the task owes.
LEMMA RestsIs == ASSUME TaskRests PROVE Owed' = Owed /\ Due' = Due
  BY DEF TaskRests, Owed, Due

\* What taking a message leaves on the wire.
LEMMA TakenLeaves ==
    ASSUME TurnInv, TaskRests, wire # <<>>, wire' = Tail(wire)
    PROVE  /\ Shorter(wire', wire) /\ Head(wire) = wire[1] /\ wire' \in Seq(Event)
           /\ Head(wire) \in Event
           /\ Counted(wire', Owed) /\ SentUpTo(wire', seq) /\ SentRetracted(wire', dropped)
           /\ pc # "ended" => SentDue(wire', dropped, Due)
           /\ pc = "attempt" => SentLast(wire', seq, att.live)
           /\ Numbered(wire', ui.seen, seq)
           /\ IsReset(wire, 1) => ui.seen < wire[1].seq /\ Numbered(wire', wire[1].seq, seq)
<1>1. Shorter(wire', wire) /\ Head(wire) = wire[1] /\ wire' \in Seq(Event) /\ Head(wire) \in Event
  BY TurnIs, TailIsShorter
<1>2. /\ Counted(wire, Owed) /\ Numbered(wire, ui.seen, seq) /\ SentUpTo(wire, seq)
      /\ SentRetracted(wire, dropped) /\ Numeric(wire) /\ Owed \in Nat /\ seq \in Nat
      /\ ui.seen \in Nat
      /\ pc # "ended" => SentDue(wire, dropped, Due)
      /\ pc = "attempt" => SentLast(wire, seq, att.live)
  BY TurnIs DEF SentInv
<1>3. Counted(wire', Owed)
  BY <1>1, <1>2, CountedTail
<1>4. SentUpTo(wire', seq)
  BY <1>1, <1>2, UpToTail
<1>5. SentRetracted(wire', dropped)
  BY <1>1, <1>2, SentRetractedTail
<1>6. pc # "ended" => SentDue(wire', dropped, Due)
  BY <1>1, <1>2, SentDueTail
<1>7. pc = "attempt" => SentLast(wire', seq, att.live)
  BY <1>1, <1>2, SentLastTail
<1>8. /\ Numbered(wire', ui.seen, seq)
      /\ IsReset(wire, 1) => ui.seen < wire[1].seq /\ Numbered(wire', wire[1].seq, seq)
  BY <1>1, <1>2, NumberedTail
<1> QED BY <1>1, <1>3, <1>4, <1>5, <1>6, <1>7, <1>8

\* The client takes a message: the client that is left, in parts.
LEMMA TakenKeeps ==
    ASSUME TurnInv, TaskRests, wire # <<>>, wire' = Tail(wire), open' = open,
           notices' = notices, ui' \in Client, Numbered(wire', ui'.seen, seq),
           ui'.st \in {"streaming", "cancelled", "desync"}, ui.st # "idle", ui.st # "gone",
           Head(wire).kind \notin Outcomes, ui'.st = "desync" => notices > 0,
           RowsUpTo(ui'.rows, seq), RowsKept(ui'.rows, dropped),
           ui'.st = "streaming" =>
             /\ notices = 0 => Findable(wire', ui'.rows, Owed)
             /\ RowsRetracted(wire', ui'.rows, dropped)
             /\ pc # "ended" => RowsDue(wire', ui'.rows, dropped, Due)
             /\ pc = "attempt" => RowsLast(wire', ui'.rows, seq, att.live)
    PROVE  WireInv' /\ TaskShape'
<1>1. Owed' = Owed /\ Due' = Due
  BY RestsIs
<1>2. SentInv'
  BY <1>1, TakenLeaves DEF SentInv, TaskRests
<1>3. RowsInv'
  BY <1>1 DEF RowsInv, TaskRests
<1>4. EndsLast'
  <2>1. Shorter(wire', wire)
    BY TakenLeaves
  <2>2. \A p \in 1..Len(wire) : wire[p].kind \in Outcomes => p = Len(wire) /\ pc = "ended"
    BY TurnIs DEF EndsLast
  <2>3. ASSUME NEW p \in 1..Len(wire'), wire'[p].kind \in Outcomes
        PROVE  p = Len(wire') /\ pc = "ended"
    <3>1. p + 1 \in 1..Len(wire) /\ wire'[p] = wire[p + 1] /\ p \in Nat
      BY <2>1, ShorterPlaces DEF Shorter
    <3>2. p + 1 = Len(wire) /\ pc = "ended"
      BY <2>2, <2>3, <3>1
    <3>3. Len(wire') \in Nat /\ Len(wire) = Len(wire') + 1
      BY <2>1 DEF Shorter
    <3>4. p = Len(wire')
      BY <3>1, <3>2, <3>3
    <3> QED BY <3>2, <3>4
  <2>4. open
    BY TurnIs DEF EndsLast
  <2> QED BY <2>3, <2>4 DEF EndsLast, TaskRests
<1>5. AttemptInv' /\ ResetsApply'
  BY TurnIs DEF AttemptInv, ResetsApply, TaskRests
<1>6. TaskShape'
  BY TakenLeaves, TurnIs DEF TaskShape, TaskRests
<1> QED BY <1>2, <1>3, <1>4, <1>5, <1>6 DEF WireInv

\* The transcript with one row more.
LEMMA Shows ==
    ASSUME TurnInv, NEW r \in Row
    PROVE  /\ Append(ui.rows, r) \in Seq(Row) /\ Longer(Append(ui.rows, r), ui.rows, r)
  BY TurnIs, AppendIsLonger

\* The rows have their type.
LEMMA RowIs ==
    /\ \A c \in Nat : TextRow(c) \in Row /\ TextRow(c).kind = "text" /\ TextRow(c).chunk = c
    /\ OtherRow \in Row /\ OtherRow.kind # "text" /\ OtherRow.chunk = 0
  BY DEF TextRow, OtherRow, Row

\* The client takes a chunk.
LEMMA DeltaTaken ==
    ASSUME TurnInv, TaskRests, wire # <<>>, wire' = Tail(wire), open' = open,
           notices' = notices, Head(wire).kind = "delta", TakeDelta(Head(wire))
    PROVE  WireInv' /\ TaskShape'
<1>1. PICK m : m = Head(wire)
  OBVIOUS
<1>2. /\ m = wire[1] /\ m \in Event /\ m.seq \in Nat /\ IsDelta(wire, 1)
      /\ Shorter(wire', wire) /\ 1 \in 1..Len(wire) /\ m.kind \notin Outcomes
  BY <1>1, TakenLeaves, ShorterPlaces DEF Event, IsDelta, Outcomes
<1>3. /\ ui \in Client /\ ui.rows \in Seq(Row) /\ RowsUpTo(ui.rows, seq)
      /\ RowsKept(ui.rows, dropped) /\ Numbered(wire', ui.seen, seq)
      /\ ui.st # "idle" /\ ui.st # "gone" /\ (ui.st = "desync" => notices > 0)
      /\ ui.st \in {"idle", "streaming", "cancelled", "desync", "gone"}
      /\ Numeric(wire) /\ Owed \in Nat /\ Due \in Nat /\ att.live \in Nat
      /\ (pc = "attempt" => Owed = att.live)
  BY TurnIs, TakenLeaves DEF RowsInv, EndsLast, ResetsApply, Client
<1>4. CASE Ignores
  <2>1. ui' = ui /\ ui.st # "streaming" /\ ui.st \in {"cancelled", "desync"}
    BY <1>4 DEF TakeDelta, Ignores
  <2> QED BY <1>1, <1>2, <1>3, <2>1, TakenKeeps
<1>5. CASE ~Ignores
  <2>1. ui.st = "streaming"
    BY <1>3, <1>5 DEF Ignores
  <2>2. PICK r : r = TextRow(m.seq)
    OBVIOUS
  <2>3. r \in Row /\ r.kind = "text" /\ r.chunk = wire[1].seq
    BY <1>2, <2>2, RowIs
  <2>4. PICK rs : rs = Append(ui.rows, r)
    OBVIOUS
  <2>5. rs \in Seq(Row) /\ Longer(rs, ui.rows, r)
    BY <2>3, <2>4, Shows
  <2>6. ui' = [ui EXCEPT !.rows = rs, !.st = "streaming"]
    BY <1>1, <1>5, <2>2, <2>4 DEF TakeDelta
  <2>7. ui' \in Client /\ ui'.rows = rs /\ ui'.st = "streaming" /\ ui'.seen = ui.seen
    BY <1>3, <2>5, <2>6 DEF Client
  <2>8. /\ notices = 0 => Findable(wire, ui.rows, Owed)
        /\ RowsRetracted(wire, ui.rows, dropped) /\ SentRetracted(wire, dropped)
        /\ pc # "ended" => RowsDue(wire, ui.rows, dropped, Due) /\ SentDue(wire, dropped, Due)
        /\ pc = "attempt" => RowsLast(wire, ui.rows, seq, att.live) /\ SentLast(wire, seq, att.live)
        /\ SentUpTo(wire, seq)
    BY <2>1, TurnIs DEF RowsInv, SentInv
  <2>9. /\ Findable(wire, ui.rows, Owed) => Findable(wire', rs, Owed)
        /\ RowsKept(ui.rows, dropped) /\ RowsRetracted(wire, ui.rows, dropped) => RowsKept(rs, dropped)
        /\ RowsRetracted(wire, ui.rows, dropped) /\ SentRetracted(wire, dropped) =>
             RowsRetracted(wire', rs, dropped)
        /\ RowsLast(wire, ui.rows, seq, Owed) /\ SentLast(wire, seq, Owed) =>
             RowsLast(wire', rs, seq, Owed)
    BY <1>2, <1>3, <2>3, <2>5, TookText
  <2>10. RowsDue(wire, ui.rows, dropped, Due) /\ SentDue(wire, dropped, Due) =>
           RowsDue(wire', rs, dropped, Due)
    BY <1>2, <1>3, <2>3, <2>5, TookText
  <2>11. RowsUpTo(rs, seq)
    <3>1. r.chunk <= seq
      BY <1>2, <2>3, <2>8 DEF SentUpTo
    <3> QED BY <1>3, <2>5, <3>1, UpToLonger
  <2> QED BY <1>1, <1>2, <1>3, <2>7, <2>8, <2>9, <2>10, <2>11, TakenKeeps
<1> QED BY <1>4, <1>5

\* The client takes a tool call.
LEMMA ToolTaken ==
    ASSUME TurnInv, TaskRests, wire # <<>>, wire' = Tail(wire), open' = open,
           notices' = notices, Head(wire).kind = "tool",
           IF Ignores THEN UNCHANGED ui ELSE Show(OtherRow)
    PROVE  WireInv' /\ TaskShape'
<1>2. /\ ~IsDelta(wire, 1) /\ ~IsReset(wire, 1)
      /\ Shorter(wire', wire) /\ 1 \in 1..Len(wire) /\ Head(wire).kind \notin Outcomes
  BY TakenLeaves, ShorterPlaces DEF IsDelta, IsReset, Outcomes
<1>3. /\ ui \in Client /\ ui.rows \in Seq(Row) /\ RowsUpTo(ui.rows, seq)
      /\ RowsKept(ui.rows, dropped) /\ Numbered(wire', ui.seen, seq)
      /\ ui.st # "idle" /\ ui.st # "gone" /\ (ui.st = "desync" => notices > 0)
      /\ ui.st \in {"idle", "streaming", "cancelled", "desync", "gone"}
      /\ Numeric(wire) /\ Owed \in Nat /\ Due \in Nat /\ (Due = 0 \/ Due = Owed)
      /\ (pc = "attempt" => Owed = att.live) /\ Counted(wire, Owed) /\ seq \in Nat
  BY TurnIs, TakenLeaves DEF RowsInv, SentInv, EndsLast, ResetsApply, Client
<1>4. CASE Ignores
  <2>1. ui' = ui /\ ui.st # "streaming" /\ ui.st \in {"cancelled", "desync"}
    BY <1>4 DEF Ignores
  <2> QED BY <1>2, <1>3, <2>1, TakenKeeps
<1>5. CASE ~Ignores
  <2>1. ui.st = "streaming"
    BY <1>3, <1>5 DEF Ignores
  <2>2. PICK r : r = OtherRow
    OBVIOUS
  <2>3. r \in Row /\ r.kind # "text" /\ r.chunk <= seq
    BY <1>3, <2>2, RowIs
  <2>4. PICK rs : rs = Append(ui.rows, r)
    OBVIOUS
  <2>5. rs \in Seq(Row) /\ Longer(rs, ui.rows, r)
    BY <2>3, <2>4, Shows
  <2>6. ui' = [ui EXCEPT !.rows = rs]
    BY <1>5, <2>2, <2>4 DEF Show
  <2>7. ui' \in Client /\ ui'.rows = rs /\ ui'.st = "streaming" /\ ui'.seen = ui.seen
    BY <1>3, <2>1, <2>5, <2>6 DEF Client
  <2>8. /\ RowsRetracted(wire, ui.rows, dropped)
        /\ pc # "ended" => RowsDue(wire, ui.rows, dropped, Due)
        /\ pc = "attempt" => RowsLast(wire, ui.rows, seq, att.live)
    BY <2>1, TurnIs DEF RowsInv
  <2>9. /\ Findable(wire', rs, Owed)
        /\ RowsRetracted(wire, ui.rows, dropped) => RowsRetracted(wire', rs, dropped)
        /\ RowsDue(wire, ui.rows, dropped, Due) => RowsDue(wire', rs, dropped, Due)
        /\ RowsLast(wire, ui.rows, seq, Owed) => RowsLast(wire', rs, seq, Owed)
    BY <1>2, <1>3, <2>3, <2>5, TookOther
  <2>10. RowsUpTo(rs, seq) /\ RowsKept(rs, dropped)
    BY <1>3, <2>3, <2>5, UpToLonger, KeptOther
  <2> QED BY <1>2, <1>3, <2>7, <2>8, <2>9, <2>10, TakenKeeps
<1> QED BY <1>4, <1>5

\* The client takes a reset: it removes its rows, and only those.
LEMMA ResetTaken ==
    ASSUME TurnInv, TaskRests, wire # <<>>, wire' = Tail(wire), open' = open,
           notices' = notices, Head(wire).kind = "reset", TakeReset(Head(wire))
    PROVE  WireInv' /\ TaskShape'
<1>1. PICK m : m = Head(wire)
  OBVIOUS
<1>2. /\ m = wire[1] /\ m \in Event /\ m.seq \in Nat /\ m.count \in Nat /\ IsReset(wire, 1)
      /\ Shorter(wire', wire) /\ 1 \in 1..Len(wire) /\ m.kind \notin Outcomes
  BY <1>1, TakenLeaves, ShorterPlaces DEF Event, IsReset, Outcomes
<1>3. /\ ui \in Client /\ ui.rows \in Seq(Row) /\ RowsUpTo(ui.rows, seq)
      /\ RowsKept(ui.rows, dropped) /\ Numbered(wire', ui.seen, seq)
      /\ ui.st # "idle" /\ ui.st # "gone" /\ (ui.st = "desync" => notices > 0)
      /\ ui.st \in {"idle", "streaming", "cancelled", "desync", "gone"}
      /\ Numeric(wire) /\ Owed \in Nat /\ Due \in Nat /\ (Due = 0 \/ Due = Owed)
      /\ (pc = "attempt" => Owed = att.live) /\ Counted(wire, Owed) /\ seq \in Nat
      /\ ui.seen < m.seq /\ Numbered(wire', m.seq, seq) /\ notices \in Nat
      /\ Len(ui.rows) \in Nat
  BY <1>2, TurnIs, TakenLeaves DEF RowsInv, SentInv, EndsLast, ResetsApply, Client
<1>4. CASE ui.st # "streaming"
  <2>1. ui' = ui /\ ui.st \in {"cancelled", "desync"}
    BY <1>3, <1>4 DEF TakeReset
  <2> QED BY <1>1, <1>2, <1>3, <1>4, <2>1, TakenKeeps
<1>5. CASE ui.st = "streaming" /\ Trailing(ui.rows, m.count)
  <2>1. PICK rs : rs = SubSeq(ui.rows, 1, Len(ui.rows) - m.count)
    OBVIOUS
  <2>2. m.count <= Len(ui.rows)
    BY <1>5 DEF Trailing
  <2>3. /\ rs \in Seq(Row) /\ Len(rs) = Len(ui.rows) - m.count
        /\ \A i \in 1..Len(rs) : rs[i] = ui.rows[i]
    <3>1. PICK n \in Nat : n = Len(ui.rows) - m.count
      BY <1>2, <1>3, <2>2
    <3>2. n <= Len(ui.rows) /\ rs = SubSeq(ui.rows, 1, n)
      BY <1>2, <1>3, <2>1, <3>1
    <3>3. \A i \in 1..n : ui.rows[i] \in Row
      BY <1>3, <3>2, ElementOfSeq
    <3>4. rs \in Seq(Row) /\ Len(rs) = n
      BY <3>2, <3>3, SubSeqProperties
    <3>5. \A i \in 1..n : rs[i] = ui.rows[i]
      BY <3>2, <3>3, SubSeqProperties
    <3> QED BY <3>1, <3>4, <3>5
  <2>4. ui' = [ui EXCEPT !.seen = m.seq, !.rows = rs]
    BY <1>1, <1>3, <1>5, <2>1 DEF TakeReset, Newer
  <2>5. ui' \in Client /\ ui'.rows = rs /\ ui'.st = "streaming" /\ ui'.seen = m.seq
    BY <1>2, <1>3, <1>5, <2>3, <2>4 DEF Client
  <2>6. /\ RowsRetracted(wire, ui.rows, dropped)
        /\ pc # "ended" => RowsDue(wire, ui.rows, dropped, Due)
        /\ pc = "attempt" => RowsLast(wire, ui.rows, seq, att.live)
    BY <1>5, TurnIs DEF RowsInv
  <2>7. Trailing(ui.rows, wire[1].count) /\ Len(rs) = Len(ui.rows) - wire[1].count
    BY <1>2, <1>5, <2>3
  <2>8. /\ Findable(wire', rs, Owed)
        /\ RowsRetracted(wire, ui.rows, dropped) => RowsRetracted(wire', rs, dropped)
        /\ RowsDue(wire, ui.rows, dropped, Due) => RowsDue(wire', rs, dropped, Due)
        /\ RowsLast(wire, ui.rows, seq, Owed) => RowsLast(wire', rs, seq, Owed)
        /\ RowsKept(ui.rows, dropped) => RowsKept(rs, dropped)
        /\ RowsUpTo(ui.rows, seq) => RowsUpTo(rs, seq)
    BY <1>2, <1>3, <2>3, <2>7, TookReset
  <2> QED BY <1>1, <1>2, <1>3, <2>5, <2>6, <2>8, TakenKeeps
<1>6. CASE ui.st = "streaming" /\ ~Trailing(ui.rows, m.count)
  <2>1. ui' = [ui EXCEPT !.st = "desync"]
    BY <1>1, <1>6 DEF TakeReset
  <2>2. ui' \in Client /\ ui'.rows = ui.rows /\ ui'.st = "desync" /\ ui'.seen = ui.seen
    BY <1>3, <2>1 DEF Client
  <2>3. notices > 0
    <3> SUFFICES ASSUME notices = 0 PROVE FALSE
      BY <1>3
    <3>1. Finds(ui.rows, 1, wire[1].count)
      BY <1>2, <1>6, TurnIs DEF RowsInv, Findable
    <3>2. m.count - (1 - 1) = m.count
      BY <1>2
    <3>3. CASE m.count > 0
      BY <1>2, <1>6, <3>1, <3>2, <3>3 DEF Finds
    <3>4. CASE m.count = 0
      BY <1>3, <1>6, <3>4 DEF Trailing
    <3> QED BY <1>2, <3>3, <3>4
  <2> QED BY <1>1, <1>2, <1>3, <2>2, <2>3, TakenKeeps
<1> QED BY <1>4, <1>5, <1>6

\* Taking the end of the turn: the wire is empty and nothing more is shown.
LEMMA NothingSent ==
    ASSUME NEW n \in Nat, NEW s \in Nat, NEW N \in Nat, s <= N, NEW D, NEW rows
    PROVE  /\ Counted(<<>>, n) /\ Numbered(<<>>, s, N) /\ SentUpTo(<<>>, N)
           /\ SentRetracted(<<>>, D) /\ SentDue(<<>>, D, n) /\ SentLast(<<>>, N, n)
           /\ RowsRetracted(<<>>, rows, D)
<1>1. Len(<<>>) = 0 /\ 1..0 = {}
  OBVIOUS
<1> QED BY <1>1 DEF Counted, Precede, Numbered, SentUpTo, SentRetracted, SentDue,
   SentLast,
              RowsRetracted

\* The client takes the end of the turn.
LEMMA FinishTaken ==
    ASSUME TurnInv, TaskRests, wire # <<>>, wire' = Tail(wire), open' = open,
           notices' = notices, Head(wire).kind \in Outcomes, TakeFinished(Head(wire))
    PROVE  WireInv' /\ TaskShape'
<1>1. /\ Shorter(wire', wire) /\ Head(wire) = wire[1] /\ wire' \in Seq(Event)
      /\ Head(wire) \in Event /\ 1 \in 1..Len(wire)
  BY TakenLeaves, ShorterPlaces
<1>2. 1 = Len(wire) /\ pc = "ended"
  BY <1>1, TurnIs DEF EndsLast
<1>3. wire' = <<>>
  <2>1. Len(wire') \in Nat /\ Len(wire) = Len(wire') + 1
    BY <1>1 DEF Shorter
  <2>2. Len(wire') = 0
    BY <1>2, <2>1
  <2> QED BY <1>1, <2>2, EmptySeq
<1>4. /\ ui \in Client /\ ui.rows \in Seq(Row) /\ RowsUpTo(ui.rows, seq) /\ ui.seen \in Nat
      /\ RowsKept(ui.rows, dropped) /\ ui.st # "gone" /\ open /\ seq \in Nat
      /\ ui.seen <= seq /\ Owed \in Nat /\ Due \in Nat
  BY TurnIs DEF RowsInv, SentInv, EndsLast, Numbered
<1>5. PICK rs : rs = IF Head(wire).kind = "completed" \/ ui.st = "desync" THEN ui.rows
                     ELSE Append(ui.rows, OtherRow)
  OBVIOUS
<1>6. rs \in Seq(Row) /\ RowsUpTo(rs, seq) /\ RowsKept(rs, dropped)
  <2>1. CASE rs = ui.rows
    BY <1>4, <2>1
  <2>2. CASE rs = Append(ui.rows, OtherRow)
    <3>1. PICK r : r = OtherRow
      OBVIOUS
    <3>2. r \in Row /\ r.kind # "text" /\ r.chunk <= seq
      BY <1>4, <3>1, RowIs
    <3>3. rs \in Seq(Row) /\ Longer(rs, ui.rows, r)
      BY <2>2, <3>1, <3>2, Shows
    <3> QED BY <1>4, <3>2, <3>3, UpToLonger, KeptOther
  <2> QED BY <1>5, <2>1, <2>2
<1>7. ui' = [ui EXCEPT !.st = "idle", !.rows = rs]
  BY <1>5 DEF TakeFinished
<1>8. ui' \in Client /\ ui'.rows = rs /\ ui'.st = "idle" /\ ui'.seen = ui.seen
  BY <1>4, <1>6, <1>7 DEF Client
<1>9. /\ Counted(<<>>, Owed) /\ Numbered(<<>>, ui.seen, seq) /\ SentUpTo(<<>>, seq)
      /\ SentRetracted(<<>>, dropped)
  BY <1>4, NothingSent
<1>10. Owed' = Owed /\ Due' = Due /\ pc' = "ended" /\ seq' = seq /\ dropped' = dropped
       /\ req' = req /\ att' = att /\ started' = started
  BY <1>2, RestsIs DEF TaskRests
<1>11. SentInv'
  BY <1>3, <1>8, <1>9, <1>10 DEF SentInv
<1>12. RowsInv'
  BY <1>6, <1>8, <1>10 DEF RowsInv
<1>13. EndsLast'
  <2>1. Len(<<>>) = 0 /\ 1..0 = {}
    OBVIOUS
  <2> QED BY <1>3, <1>4, <1>8, <1>10, <2>1 DEF EndsLast
<1>14. AttemptInv' /\ ResetsApply'
  BY <1>8, <1>10, TurnIs DEF AttemptInv, ResetsApply
<1>15. TaskShape'
  BY <1>1, <1>8, <1>10, TurnIs DEF TaskShape
<1> QED BY <1>11, <1>12, <1>13, <1>14, <1>15 DEF WireInv

\* Whatever the client takes keeps the invariant.
LEMMA ReceiveKeeps == ASSUME TurnInv, Receive PROVE WireInv' /\ TaskShape'
<1>1. TaskRests /\ wire # <<>> /\ wire' = Tail(wire) /\ open' = open /\ notices' = notices
  BY DEF Receive, TaskRests, task
<1>2. CASE Head(wire).kind = "delta" /\ TakeDelta(Head(wire))
  BY <1>1, <1>2, DeltaTaken
<1>3. CASE Head(wire).kind = "reset" /\ TakeReset(Head(wire))
  BY <1>1, <1>3, ResetTaken
<1>4. CASE Head(wire).kind = "tool" /\ IF Ignores THEN UNCHANGED ui ELSE Show(OtherRow)
  BY <1>1, <1>4, ToolTaken
<1>5. CASE Head(wire).kind \in Outcomes /\ TakeFinished(Head(wire))
  BY <1>1, <1>5, FinishTaken
<1> QED BY <1>2, <1>3, <1>4, <1>5 DEF Receive

\* The steps of the client and the loop that take nothing.
LEMMA RestKeeps ==
    ASSUME TurnInv, TaskRests, wire' = wire, ui' = ui, notices' = notices, open' = open
    PROVE  WireInv' /\ TaskShape'
<1>1. Owed' = Owed /\ Due' = Due
  BY RestsIs
<1>2. WireInv
  BY DEF TurnInv
<1>3. SentInv' /\ RowsInv'
  BY <1>1, <1>2 DEF WireInv, SentInv, RowsInv, TaskRests
<1>4. EndsLast' /\ AttemptInv' /\ ResetsApply'
  BY <1>2 DEF WireInv, EndsLast, AttemptInv, ResetsApply, TaskRests
<1>5. TaskShape'
  BY TurnIs DEF TaskShape, TaskRests
<1> QED BY <1>3, <1>4, <1>5 DEF WireInv

\* The client's cancel keeps the invariant.
LEMMA UserCancelsKeeps == ASSUME TurnInv, UserCancels PROVE WireInv' /\ TaskShape'
<1>1. TaskRests /\ wire' = wire /\ open' = open /\ notices' = notices /\ ui.st = "streaming"
      /\ ui' = [ui EXCEPT !.st = "cancelled"]
  BY DEF UserCancels, TaskRests, task
<1>2. ui \in Client
  BY TurnIs
<1>3. ui' \in Client /\ ui'.rows = ui.rows /\ ui'.st = "cancelled" /\ ui'.seen = ui.seen
  BY <1>1, <1>2 DEF Client
<1>4. Owed' = Owed /\ Due' = Due
  BY <1>1, RestsIs
<1>5. WireInv
  BY DEF TurnInv
<1>6. SentInv' /\ RowsInv'
  BY <1>1, <1>3, <1>4, <1>5 DEF WireInv, SentInv, RowsInv, TaskRests
<1>7. EndsLast' /\ AttemptInv' /\ ResetsApply'
  BY <1>1, <1>3, <1>5 DEF WireInv, EndsLast, AttemptInv, ResetsApply, TaskRests
<1>8. TaskShape'
  BY <1>1, <1>3, TurnIs DEF TaskShape, TaskRests
<1> QED BY <1>6, <1>7, <1>8 DEF WireInv

\* A notice of the client itself keeps the invariant, for it ends the claim that
\* resets find their rows.
LEMMA NoticeKeeps == ASSUME TurnInv, Notice PROVE WireInv' /\ TaskShape'
<1>1. TaskRests /\ wire' = wire /\ open' = open /\ notices' = notices + 1 /\ ui.st = "streaming"
      /\ ui' = [ui EXCEPT !.rows = Append(@, OtherRow)]
  BY DEF Notice, TaskRests, task, Show
<1>2. /\ ui \in Client /\ ui.rows \in Seq(Row) /\ RowsUpTo(ui.rows, seq) /\ notices \in Nat
      /\ RowsKept(ui.rows, dropped) /\ seq \in Nat /\ Owed \in Nat /\ Due \in Nat
      /\ RowsRetracted(wire, ui.rows, dropped) /\ Numeric(wire) /\ Len(wire) \in Nat
      /\ pc # "ended" => RowsDue(wire, ui.rows, dropped, Due)
      /\ pc = "attempt" => RowsLast(wire, ui.rows, seq, att.live)
      /\ att.live \in Nat
  BY <1>1, TurnIs DEF RowsInv
<1>3. PICK r : r = OtherRow
  OBVIOUS
<1>4. r \in Row /\ r.kind # "text" /\ r.chunk <= seq
  BY <1>2, <1>3, RowIs
<1>5. PICK rs : rs = Append(ui.rows, r)
  OBVIOUS
<1>6. rs \in Seq(Row) /\ Longer(rs, ui.rows, r)
  BY <1>4, <1>5, Shows
<1>7. ui' = [ui EXCEPT !.rows = rs]
  BY <1>1, <1>3, <1>5
<1>8. ui' \in Client /\ ui'.rows = rs /\ ui'.st = "streaming" /\ ui'.seen = ui.seen
  BY <1>1, <1>2, <1>6, <1>7 DEF Client
<1>9. RowsUpTo(rs, seq) /\ RowsKept(rs, dropped)
  BY <1>2, <1>4, <1>6, UpToLonger, KeptOther
<1>10. RowsRetracted(wire, rs, dropped)
  BY <1>2, <1>4, <1>6, NoticeRow
<1>11. pc # "ended" => RowsDue(wire, rs, dropped, Due)
  BY <1>2, <1>4, <1>6, NoticeRow
<1>12. pc = "attempt" => RowsLast(wire, rs, seq, att.live)
  BY <1>2, <1>4, <1>6, NoticeRow
<1>13. Owed' = Owed /\ Due' = Due /\ notices' \in Nat /\ notices' > 0 /\ notices' # 0
  BY <1>1, <1>2, RestsIs
<1>14. WireInv
  BY DEF TurnInv
<1>15. SentInv'
  BY <1>1, <1>8, <1>13, <1>14 DEF WireInv, SentInv, TaskRests
<1>16. RowsInv'
  <2>1. wire' = wire /\ pc' = pc /\ seq' = seq /\ dropped' = dropped /\ att' = att
    BY <1>1 DEF TaskRests
  <2> QED BY <1>8, <1>9, <1>10, <1>11, <1>12, <1>13, <2>1 DEF RowsInv
<1>17. EndsLast'
  BY <1>1, <1>8, <1>14 DEF WireInv, EndsLast, TaskRests
<1>18. AttemptInv' /\ ResetsApply'
  BY <1>1, <1>8, <1>14 DEF WireInv, AttemptInv, ResetsApply, TaskRests
<1>19. TaskShape'
  BY <1>1, <1>8, <1>13, TurnIs DEF TaskShape, TaskRests
<1> QED BY <1>15, <1>16, <1>17, <1>18, <1>19 DEF WireInv

\* A client that leaves keeps the invariant.
LEMMA LeavesKeeps == ASSUME TurnInv, ClientLeaves PROVE WireInv' /\ TaskShape'
<1>1. TaskRests /\ wire' = <<>> /\ open' = FALSE /\ notices' = notices /\ pc # "ended"
      /\ ui' = [st |-> "gone", seen |-> 0, rows |-> <<>>]
  BY DEF ClientLeaves, TaskRests, task
<1>2. ui' \in Client /\ ui'.rows = <<>> /\ ui'.st = "gone" /\ ui'.seen = 0
  BY <1>1 DEF Client
<1>3. Owed' = Owed /\ Due' = Due
  BY <1>1, RestsIs
<1>4. seq \in Nat /\ Owed \in Nat /\ Due \in Nat /\ att.live \in Nat
  BY TurnIs
<1>5. Len(<<>>) = 0 /\ 1..0 = {} /\ 0 \in Nat /\ 0 <= seq
  BY <1>4
<1>6. /\ Counted(<<>>, Owed) /\ Numbered(<<>>, 0, seq) /\ SentUpTo(<<>>, seq)
      /\ SentRetracted(<<>>, dropped)
  BY <1>4, <1>5, NothingSent
<1>7. SentDue(<<>>, dropped, Due)
  BY <1>5 DEF SentDue
<1>8. SentLast(<<>>, seq, att.live)
  BY <1>5 DEF SentLast
<1>9. SentInv'
  BY <1>1, <1>2, <1>3, <1>6, <1>7, <1>8 DEF SentInv, TaskRests
<1>10. RowsInv'
  BY <1>1, <1>2, <1>5 DEF RowsInv, RowsUpTo, RowsKept
<1>11. EndsLast'
  BY <1>1, <1>2, <1>5 DEF EndsLast
<1>12. AttemptInv' /\ ResetsApply'
  BY <1>1, <1>2, TurnIs DEF AttemptInv, ResetsApply, TaskRests
<1>13. TaskShape'
  <2>1. wire' \in Seq(Event)
    BY <1>1
  <2> QED BY <1>1, <1>2, <2>1, TurnIs DEF TaskShape, TaskRests
<1> QED BY <1>9, <1>10, <1>11, <1>12, <1>13 DEF WireInv

-----------------------------------------------------------------------------
\* Every step of the task is of one of these kinds; first, how it settles.
LEMMA StopIs ==
    ASSUME NEW o, NEW t, NEW ms, End(o, t, ms)
    PROVE  pc' = "ended" /\ req' = NewRequest /\ att' = NewAttempt
  BY DEF End

\* Giving up leaves the numbers of the attempts.
LEMMA GiveUpIs == ASSUME NEW error, GiveUp(error) PROVE SeqSame /\ pc' # "attempt"
  BY DEF GiveUp, Stop, End, SeqSame

\* A retry leaves the numbers of the attempts.
LEMMA RetryIs ==
    ASSUME NEW error, NEW after, NEW kept, NEW d, Retry(error, after, kept, d)
    PROVE  SeqSame /\ pc' # "attempt"
<1>1. CASE Allowed(req.retry, req.spent, error, DelayOf(req.retry, after))
  BY <1>1 DEF Retry, SeqSame
<1>2. CASE ~Allowed(req.retry, req.spent, error, DelayOf(req.retry, after))
  BY <1>2, GiveUpIs DEF Retry
<1> QED BY <1>1, <1>2

\* The end of an attempt leaves the numbers and the abandoned ones.
LEMMA ConcludeIs ==
    ASSUME NEW text, NEW calls, Conclude(text, calls)
    PROVE  SeqSame /\ pc' # "attempt" /\ dropped' = dropped
<1>1. AskTools(text) \/ Nudge \/ Answer(text)
  BY DEF Conclude
<1>2. pc' # "attempt"
  BY <1>1 DEF AskTools, Nudge, Answer, End
<1> QED BY <1>2 DEF Conclude, SeqSame

\* What a step of the task leaves alone.
LEMMA FixedIs ==
    ASSUME Fixed
    PROVE  cancelled' = cancelled /\ TaskSame
  BY DEF Fixed, client, TaskSame

\* Every step of the task settles at most one attempt.
LEMMA TaskSettles ==
    ASSUME TaskStep
    PROVE  SettlesNone \/ SettlesOne \/ SettlesLater
<1>1. CASE StartTurn
  BY <1>1, FixedIs DEF StartTurn, SettlesNone, SeqSame
<1>2. CASE BeginRequest
  BY <1>2, FixedIs DEF BeginRequest, Stop, End, Start, SettlesNone, SettlesLater,
     SeqSame
<1>3. CASE BeginRetry
  BY <1>3, FixedIs DEF BeginRetry, Waited, Stop, End, Start, SettlesNone, SettlesLater,
     SeqSame
<1>4. CASE NoticeCancel
  BY <1>4, FixedIs DEF NoticeCancel, Stop, End, Settle, SettlesNone, SettlesOne, SeqSame
<1>5. CASE BeginTools
  BY <1>5, FixedIs DEF BeginTools, Stop, End, SettlesNone, SeqSame
<1>6. CASE EndTools
  BY <1>6, FixedIs DEF EndTools, Stop, End, SettlesNone, SeqSame
<1>7. CASE Compact
  BY <1>7, FixedIs DEF Compact, Compacted, Stop, End, SettlesNone, SettlesLater, SeqSame
<1> QED BY <1>1, <1>2, <1>3, <1>4, <1>5, <1>6, <1>7 DEF TaskStep

\* So does every step.
LEMMA NextSettles ==
    ASSUME [Next]_vars
    PROVE  SettlesNone \/ SettlesOne \/ SettlesLater
<1>1. CASE TaskStep
  BY <1>1, TaskSettles
<1>2. CASE StreamText \/ StreamToolCall \/ StreamFinal
  BY <1>2, FixedIs DEF StreamText, StreamToolCall, StreamFinal, Streaming, SettlesNone,
     SeqSame
<1>3. CASE EndStream
  BY <1>3, FixedIs, ConcludeIs DEF EndStream, Streaming, Settle, SettlesOne
<1>4. CASE EndMalformed
  BY <1>4, FixedIs DEF EndMalformed, Streaming, Settle, Stop, End, SettlesOne, SeqSame
<1>5. ASSUME NEW error \in Errors, NEW after \in RetryAfters, BreakStream(error, after)
      PROVE  SettlesOne
  <2>1. pc = "attempt" /\ cancelled' = cancelled /\ settled' = Append(settled, seq)
    BY <1>5, FixedIs DEF BreakStream, Streaming, Settle
  <2>2. \/ Conclude(req.prefix \o att.text, att.calls)
        \/ GiveUp(error)
        \/ Retry(error, after, resumes /\ att.text # <<>>, Discarded(resumes /\ att.text # <<>>))
    BY <1>5 DEF BreakStream
  <2>3. SeqSame /\ pc' # "attempt"
    BY <2>2, ConcludeIs, GiveUpIs, RetryIs
  <2> QED BY <2>1, <2>3 DEF SettlesOne
<1>6. ASSUME NEW error \in Errors, NEW after \in RetryAfters, Refuse(error, after)
      PROVE  SettlesOne
  <2>1. pc = "attempt" /\ cancelled' = cancelled /\ settled' = Append(settled, seq)
    BY <1>6, FixedIs DEF Refuse, Streaming, Settle
  <2>2. SeqSame /\ pc' # "attempt"
    BY <1>6, RetryIs DEF Refuse
  <2> QED BY <2>1, <2>2 DEF SettlesOne
<1>7. CASE CancelTurn
  BY <1>7 DEF CancelTurn, task, SettlesNone, SeqSame
<1>8. CASE GraceExpires
  BY <1>8, FixedIs DEF GraceExpires, Stop, End, SettlesNone, SeqSame
<1>9. CASE Receive \/ UserCancels \/ Notice \/ ClientLeaves
  BY <1>9 DEF Receive, UserCancels, Notice, ClientLeaves, task, SettlesNone, SeqSame
<1>10. CASE Over \/ UNCHANGED vars
  BY <1>10 DEF Over, vars, task, SettlesNone, SeqSame
<1> QED BY <1>1, <1>2, <1>3, <1>4, <1>5, <1>6, <1>7, <1>8, <1>9, <1>10 DEF Next

\* Sequence numbers name one attempt each and every attempt is settled once, in order,
\* whatever the provider and the client do (provider_request_with_retry_context,
\* run_compaction_with_sequence).
THEOREM SettledExactlyOnce == Spec => []SettledOnce
<1>1. Init => SettleInv
  <2> SUFFICES ASSUME Init PROVE SettleInv
    OBVIOUS
  <2>1. seq = 0 /\ started = {} /\ settled = <<>>
    BY DEF Init
  <2>2. Len(settled) = 0 /\ 1..0 = {} /\ settled \in Seq(Nat)
    BY <2>1
  <2> QED BY <2>1, <2>2 DEF SettleInv, AttemptsSettle, SettledOnce
<1>2. SettleInv /\ [Next]_vars => SettleInv'
  BY NextSettles, SettleKeeps
<1>3. SettleInv => SettledOnce
  BY DEF SettleInv, AttemptsSettle
<1> QED BY <1>1, <1>2, <1>3, PTL DEF Spec

-----------------------------------------------------------------------------
\* The kinds of the steps of the task.
LEMMA Joins ==
    /\ \A m \in Event : <<>> \o <<m>> = <<m>> /\ Append(<<>>, m) = <<m>>
    /\ \A w \in Seq(Event), m \in Event : w \o <<m>> = Append(w, m)
    /\ \A w \in Seq(Event) : w \o <<>> = w
<1>1. \A m \in Event : Append(<<>>, m) = <<m>>
  OBVIOUS
<1>2. \A m \in Event : <<>> \o <<m>> = <<m>>
  OBVIOUS
<1>3. ASSUME NEW w \in Seq(Event), NEW m \in Event PROVE w \o <<m>> = Append(w, m)
  OBVIOUS
<1>4. ASSUME NEW w \in Seq(Event) PROVE w \o <<>> = w
  OBVIOUS
<1> QED BY <1>1, <1>2, <1>3, <1>4

\* Joining texts that are empty, or not.
LEMMA JoinedEmpty ==
    ASSUME NEW s \in Seq(Nat), NEW t \in Seq(Nat)
    PROVE  /\ s \o t \in Seq(Nat)
           /\ s \o t = <<>> => s = <<>> /\ t = <<>>
           /\ s = <<>> /\ t = <<>> => s \o t = <<>>
<1>1. s \o t \in Seq(Nat) /\ Len(s \o t) = Len(s) + Len(t) /\ Len(s) \in Nat /\ Len(t) \in Nat
  BY ConcatProperties, LenProperties
<1>2. \A u \in Seq(Nat) : u = <<>> <=> Len(u) = 0
  BY EmptySeq
<1> QED BY <1>1, <1>2

\* The end of a turn that sends no more text sends its outcome only.
LEMMA EndsBare ==
    ASSUME TurnInv, NEW o \in Outcomes, NEW t, NEW ms, ms = <<>> \/ ~open, End(o, t, ms)
    PROVE  /\ pc' = "ended" /\ req' = NewRequest /\ att' = NewAttempt
           /\ wire' = IF open THEN Append(wire, Finished(o)) ELSE wire
<1>1. wire \in Seq(Event) /\ Finished(o) \in Event
  BY TurnIs, EventIs
<1>2. PICK m : m = Finished(o)
  OBVIOUS
<1>3. wire' = IF open THEN wire \o (ms \o <<m>>) ELSE wire
  BY <1>2 DEF End, Send
<1>4. wire' = IF open THEN wire \o <<m>> ELSE wire
  BY <1>1, <1>2, <1>3, Joins
<1>5. wire' = IF open THEN Append(wire, m) ELSE wire
  BY <1>1, <1>2, <1>4, Joins
<1> QED BY <1>2, <1>5, StopIs

\* Stopping is an end.
LEMMA StopKind ==
    ASSUME TurnInv, TaskSame, pc # "ended", NEW o \in Outcomes, Stop(o),
           dropped' = dropped \/ (pc = "attempt" /\ dropped' = dropped \cup {seq})
    PROVE  EndKind
<1>1. /\ pc' = "ended" /\ req' = NewRequest /\ att' = NewAttempt
      /\ wire' = IF open THEN Append(wire, Finished(o)) ELSE wire
  BY EndsBare DEF Stop
<1>2. SeqSame
  BY DEF Stop, SeqSame
<1> QED BY <1>1, <1>2 DEF EndKind

\* Giving up is an end, or a compaction with nothing shown.
LEMMA GiveUpKind ==
    ASSUME TurnInv, TaskSame, pc = "attempt", NEW error, GiveUp(error)
    PROVE  EndKind \/ IdleKind
<1>1. CASE error = "context" /\ turn.initial /\ ~turn.overflow
  <2>1. /\ pc' = "overflow" /\ dropped' = dropped /\ att' = NewAttempt
        /\ req' = req /\ wire' = wire /\ SeqSame
    BY <1>1 DEF GiveUp, SeqSame
  <2>2. pc \notin {"delay", "ended"} /\ pc' \notin Outside /\ att' \in Attempt /\ att'.text = <<>>
    BY <2>1, NewIs DEF Outside
  <2> QED BY <2>1, <2>2 DEF IdleKind
<1>2. CASE ~(error = "context" /\ turn.initial /\ ~turn.overflow)
  <2>1. Stop("failed") /\ dropped' = dropped \cup {seq}
    BY <1>2 DEF GiveUp
  <2>2. "failed" \in Outcomes
    BY DEF Outcomes
  <2> QED BY <2>1, <2>2, StopKind
<1> QED BY <1>1, <1>2

\* The delay of a retry is a number.
LEMMA DelayIs ==
    ASSUME NEW retry \in Nat, NEW after \in Nat
    PROVE  DelayOf(retry, after) \in Nat
<1>1. Delays = <<1, 2>> /\ Len(Delays) = 2
  BY DEF Delays
<1>2. CASE retry < 2
  <2>1. retry + 1 = 1 \/ retry + 1 = 2
    BY <1>2
  <2>2. Delays[1] = 1 /\ Delays[2] = 2
    BY <1>1
  <2>3. Delays[retry + 1] \in Nat
    BY <2>1, <2>2
  <2> QED BY <2>3 DEF DelayOf
<1>3. CASE ~(retry < 2)
  BY <1>1, <1>3 DEF DelayOf
<1> QED BY <1>2, <1>3

\* A failed attempt ends the turn, leads to a compaction, or waits to retry.
LEMMA RetryKind ==
    ASSUME TurnInv, TaskSame, pc = "attempt", NEW error, NEW after \in Nat, NEW kept \in BOOLEAN,
           NEW d \in Nat, Retry(error, after, kept, d),
           d = IF kept THEN 0 ELSE att.live
    PROVE  EndKind \/ IdleKind \/ DelayKind
<1>1. CASE Allowed(req.retry, req.spent, error, DelayOf(req.retry, after))
  <2>1. req \in Request /\ req.prefix \in Seq(Nat) /\ att.text \in Seq(Nat) /\ req.retry \in Nat
    BY TurnIs DEF Request, Attempt
  <2>2. PICK px \in Seq(Nat) : px = IF kept THEN req.prefix \o att.text ELSE req.prefix
    BY <2>1, JoinedEmpty
  <2>3. PICK delay \in Nat : delay = DelayOf(req.retry, after)
    BY <2>1, DelayIs
  <2>4. /\ pc' = "delay" /\ att' = NewAttempt /\ wire' = wire /\ SeqSame
        /\ dropped' = (IF kept THEN dropped ELSE dropped \cup {seq})
        /\ req' = [req EXCEPT !.prefix = px, !.delay = delay, !.discard = d]
    BY <1>1, <2>2, <2>3 DEF Retry, SeqSame
  <2>5. req' \in Request /\ req'.streamed = req.streamed /\ req'.prefix = px /\ req'.discard = d
    BY <2>1, <2>4 DEF Request
  <2>6. req.prefix = <<>> /\ att.text = <<>> => req'.prefix = <<>>
    BY <2>1, <2>2, <2>5, JoinedEmpty
  <2> QED BY <2>4, <2>5, <2>6 DEF DelayKind
<1>2. CASE ~Allowed(req.retry, req.spent, error, DelayOf(req.retry, after))
  <2>1. GiveUp(error)
    BY <1>2 DEF Retry
  <2> QED BY <2>1, GiveUpKind
<1> QED BY <1>1, <1>2

\* What the round's text still has to show a client that is there: nothing.
LEMMA RoundShown ==
    ASSUME TurnInv, open
    PROVE  /\ Unshown(req.prefix \o att.text) = <<>>
           /\ req.prefix \o att.text \in Seq(Nat)
<1>1. req.prefix \in Seq(Nat) /\ att.text \in Seq(Nat)
  BY TurnIs DEF Request, Attempt
<1>2. req.streamed \/ (req.prefix = <<>> /\ att.text = <<>>)
  BY TurnIs DEF AttemptInv
<1>3. CASE req.streamed
  BY <1>1, <1>3, JoinedEmpty DEF Unshown
<1>4. CASE ~req.streamed
  <2>1. req.prefix \o att.text = <<>>
    BY <1>1, <1>2, <1>4, JoinedEmpty
  <2>2. Deltas(<<>>) = <<>>
    BY DEF Deltas
  <2> QED BY <1>1, <1>4, <2>1, <2>2, JoinedEmpty DEF Unshown
<1> QED BY <1>3, <1>4

\* An attempt that came to its end ends the turn, says its answer or goes to its
\* tools.
LEMMA ConcludeKind ==
    ASSUME TurnInv, TaskSame, pc = "attempt", Conclude(req.prefix \o att.text, att.calls)
    PROVE  EndKind \/ IdleKind \/ SayKind
<1>1. PICK text : text = req.prefix \o att.text
  OBVIOUS
<1>2. open => Unshown(text) = <<>>
  BY <1>1, RoundShown
<1>3. SeqSame /\ dropped' = dropped /\ wire \in Seq(Event)
  BY TurnIs DEF Conclude, SeqSame
<1>4. CASE AskTools(text)
  <2>1. /\ pc' = "tools" /\ req' = req
        /\ att' = [NewAttempt EXCEPT !.calls = att.calls, !.partial = att.partial]
    BY <1>4 DEF AskTools
  <2>2. att.calls \in Nat /\ att.partial \in Nat
    BY TurnIs DEF Attempt
  <2>3. att' \in Attempt /\ att'.text = <<>>
    <3>1. PICK c \in Nat, q \in Nat, a \in {NewAttempt} : c = att.calls /\ q = att.partial
      BY <2>2
    <3>2. att' = [a EXCEPT !.calls = c, !.partial = q] /\ a \in Attempt /\ a.text = <<>>
      BY <2>1, <3>1, NewIs
    <3> QED BY <3>2 DEF Attempt
  <2>4. pc \notin {"delay", "ended"} /\ pc' \notin Outside
    BY <2>1 DEF Outside
  <2>5. CASE ~open \/ text = <<>>
    <3>1. wire' = wire
      BY <1>3, <1>4, <2>5, Joins DEF AskTools, Send
    <3> QED BY <1>3, <2>1, <2>3, <2>4, <3>1 DEF IdleKind
  <2>6. CASE open /\ text # <<>>
    <3>1. PICK m : m = Delta(0)
      OBVIOUS
    <3>2. m \in Event
      BY <3>1, EventIs
    <3>3. wire' = wire \o Append(<<>>, m)
      BY <1>2, <1>4, <2>6, <3>1 DEF AskTools, Send
    <3>4. wire' = Append(wire, m)
      BY <1>3, <3>2, <3>3, Joins
    <3> QED BY <1>3, <2>1, <2>3, <2>4, <2>6, <3>1, <3>4 DEF SayKind
  <2> QED BY <2>5, <2>6
<1>5. CASE Nudge
  <2>1. pc' = "round" /\ req' = req /\ att' = NewAttempt /\ wire' = wire
    BY <1>5 DEF Nudge
  <2>2. pc \notin {"delay", "ended"} /\ pc' \notin Outside /\ att' \in Attempt /\ att'.text = <<>>
    BY <2>1, NewIs DEF Outside
  <2> QED BY <1>3, <2>1, <2>2 DEF IdleKind
<1>6. CASE Answer(text)
  <2>1. PICK o \in Outcomes : \E t, ms : (ms = <<>> \/ ~open) /\ End(o, t, ms)
    BY <1>2, <1>6 DEF Answer, Outcomes
  <2>2. /\ pc' = "ended" /\ req' = NewRequest /\ att' = NewAttempt
        /\ wire' = IF open THEN Append(wire, Finished(o)) ELSE wire
    BY <2>1, EndsBare
  <2> QED BY <1>3, <2>1, <2>2 DEF EndKind
<1> QED BY <1>1, <1>4, <1>5, <1>6 DEF Conclude

\* A request begins its first attempt, or the turn ends.
LEMMA BeginRequestKind == ASSUME TurnInv, BeginRequest PROVE EndKind \/ StartKind
<1>1. TaskSame /\ pc = "round" /\ dropped' = dropped /\ "cancelled" \in Outcomes
  BY FixedIs DEF BeginRequest, Outcomes
<1>2. CASE Stop("cancelled")
  BY <1>1, <1>2, StopKind
<1>3. CASE Start /\ req' = NewRequest /\ pc' = "attempt" /\ wire' = wire
  <2>1. SeqNext /\ att' = NewAttempt /\ req' \in Request /\ Due = 0
    BY <1>1, <1>3, NewIs DEF Start, SeqNext, Due
  <2> QED BY <1>1, <1>3, <2>1 DEF StartKind
<1> QED BY <1>2, <1>3 DEF BeginRequest

\* A retry begins its attempt with the reset that is due, or the turn ends.
LEMMA BeginRetryKind == ASSUME TurnInv, BeginRetry PROVE EndKind \/ StartKind
<1>1. TaskSame /\ pc = "delay" /\ dropped' = dropped /\ "cancelled" \in Outcomes
  BY FixedIs DEF BeginRetry, Waited, Outcomes
<1>2. CASE Stop("cancelled")
  BY <1>1, <1>2, StopKind
<1>3. CASE ~Stop("cancelled")
  <2>1. /\ req.discard = 0 \/ open
        /\ Start
        /\ req' = [req EXCEPT !.retry = @ + 1, !.spent = @ + req.delay,
                              !.delay = 0, !.discard = 0]
        /\ Send(IF req.discard = 0 THEN <<>> ELSE <<Reset(ResetSequence, req.discard)>>)
        /\ pc' = "attempt"
    BY <1>3 DEF BeginRetry
  <2>2. /\ req \in Request /\ req.retry \in Nat /\ req.spent \in Nat /\ req.delay \in Nat
        /\ req.discard \in Nat /\ wire \in Seq(Event) /\ seq \in Nat /\ Due = req.discard
    BY <1>1, TurnIs DEF Request, Due
  <2>3. req' \in Request /\ req'.streamed = req.streamed /\ req'.prefix = req.prefix
    <3>1. PICK a \in Nat, b \in Nat : a = req.retry + 1 /\ b = req.spent + req.delay
      BY <2>2
    <3>2. req' = [req EXCEPT !.retry = a, !.spent = b, !.delay = 0, !.discard = 0]
      BY <2>1, <3>1
    <3> QED BY <2>2, <3>2 DEF Request
  <2>4. SeqNext /\ att' = NewAttempt
    BY <1>1, <2>1 DEF Start, SeqNext
  <2>5. CASE req.discard = 0
    <3>1. wire' = wire
      BY <2>1, <2>2, <2>5, Joins DEF Send
    <3> QED BY <1>1, <2>1, <2>2, <2>3, <2>4, <2>5, <3>1 DEF StartKind
  <2>6. CASE req.discard # 0
    <3>1. PICK m : m = Reset(seq + 1, Due)
      OBVIOUS
    <3>2. m \in Event
      BY <2>2, <3>1, EventIs
    <3>3. open /\ wire' = wire \o <<m>>
      BY <2>1, <2>2, <2>6, <3>1 DEF Send, ResetSequence
    <3>4. wire' = Append(wire, m)
      BY <2>2, <3>2, <3>3, Joins
    <3> QED BY <1>1, <2>1, <2>3, <2>4, <3>1, <3>3, <3>4 DEF StartKind
  <2> QED BY <2>5, <2>6
<1> QED BY <1>2, <1>3

\* The provider's chunks are steps within an attempt.
LEMMA StreamKind == ASSUME TurnInv, StreamText \/ StreamToolCall \/ StreamFinal PROVE GoKind
<1>1. TaskSame /\ pc = "attempt" /\ pc' = "attempt" /\ SeqSame /\ dropped' = dropped
  BY FixedIs DEF StreamText, StreamToolCall, StreamFinal, Streaming, SeqSame
<1>2. /\ att \in Attempt /\ att.text \in Seq(Nat) /\ att.live \in Nat /\ att.calls \in Nat
      /\ att.partial \in Nat /\ req \in Request /\ wire \in Seq(Event) /\ seq \in Nat
      /\ open \in BOOLEAN /\ req.streamed \in BOOLEAN
  BY TurnIs DEF Attempt, Request
<1>3. CASE StreamText
  <2>1. PICK t \in Seq(Nat) : t = Append(att.text, seq) /\ Len(t) = Len(att.text) + 1
    <3>1. PICK x \in Seq(Nat), s \in Nat : x = att.text /\ s = seq
      BY <1>2
    <3>2. Append(x, s) \in Seq(Nat) /\ Len(Append(x, s)) = Len(x) + 1
      BY AppendProperties
    <3> QED BY <3>1, <3>2
  <2>2. PICK l \in Nat : l = att.live + (IF open THEN 1 ELSE 0)
    BY <1>2
  <2>3. PICK b \in BOOLEAN : b = (req.streamed \/ open)
    OBVIOUS
  <2>4. /\ att' = [att EXCEPT !.text = t, !.live = l] /\ req' = [req EXCEPT !.streamed = b]
        /\ Send(<<Delta(seq)>>)
    BY <1>3, <2>1, <2>2, <2>3 DEF StreamText
  <2>5. att' \in Attempt /\ att'.text = t /\ att'.live = l
    BY <1>2, <2>4 DEF Attempt
  <2>6. req' \in Request /\ req'.streamed = b
    BY <1>2, <2>4 DEF Request
  <2>7. CASE open
    <3>1. PICK m : m = Delta(seq)
      OBVIOUS
    <3>2. m \in Event /\ wire' = wire \o <<m>>
      BY <1>2, <2>4, <2>7, <3>1, EventIs DEF Send
    <3>3. wire' = Append(wire, m)
      BY <1>2, <3>2, Joins
    <3> QED BY <1>1, <2>1, <2>2, <2>3, <2>5, <2>6, <2>7, <3>1, <3>3 DEF GoKind
  <2>8. CASE ~open
    <3>1. wire' = wire /\ l = att.live
      BY <1>2, <2>2, <2>4, <2>8 DEF Send
    <3> QED BY <1>1, <2>1, <2>5, <2>6, <2>8, <3>1 DEF GoKind
  <2> QED BY <2>7, <2>8
<1>4. CASE StreamToolCall \/ StreamFinal
  <2>1. wire' = wire /\ req' = req
    BY <1>4 DEF StreamToolCall, StreamFinal
  <2>2. att' \in Attempt /\ att'.text = att.text /\ att'.live = att.live
    <3>1. CASE StreamFinal
      BY <1>2, <3>1 DEF StreamFinal, Attempt
    <3>2. CASE att' = [att EXCEPT !.partial = 1]
      BY <1>2, <3>2 DEF Attempt
    <3>3. ASSUME NEW left \in 0..att.partial, att' = [att EXCEPT !.calls = @ + 1, !.partial = left]
          PROVE  att' \in Attempt /\ att'.text = att.text /\ att'.live = att.live
      <4>1. PICK c \in Nat : c = att.calls + 1
        BY <1>2
      <4>2. att' = [att EXCEPT !.calls = c, !.partial = left] /\ left \in Nat
        BY <1>2, <3>3, <4>1
      <4> QED BY <1>2, <4>2 DEF Attempt
    <3> QED BY <1>4, <3>1, <3>2, <3>3 DEF StreamToolCall
  <2> QED BY <1>1, <1>2, <2>1, <2>2 DEF GoKind
<1> QED BY <1>3, <1>4

\* The steps that end the turn or leave the wire alone.
LEMMA StartTurnKind == ASSUME TurnInv, StartTurn PROVE IdleKind
<1>1. /\ TaskSame /\ pc = "start" /\ pc' \in {"round", "pre"} /\ wire' = wire /\ req' = req
      /\ att' = att /\ SeqSame /\ dropped' = dropped
  BY FixedIs DEF StartTurn, SeqSame
<1>2. pc \notin {"delay", "ended"} /\ pc' \notin Outside /\ att' \in Attempt
  BY <1>1, TurnIs DEF Outside
<1> QED BY <1>1, <1>2 DEF IdleKind

\* A cancel that is noticed ends the turn.
LEMMA NoticeCancelKind == ASSUME TurnInv, NoticeCancel \/ GraceExpires PROVE EndKind
<1>1. TaskSame /\ pc # "ended" /\ Stop("cancelled") /\ dropped' = dropped
      /\ "cancelled" \in Outcomes
  BY FixedIs DEF NoticeCancel, GraceExpires, Outcomes
<1> QED BY <1>1, StopKind

\* A malformed stream ends the turn.
LEMMA EndMalformedKind == ASSUME TurnInv, EndMalformed PROVE EndKind
<1>1. TaskSame /\ pc = "attempt" /\ Stop("failed") /\ dropped' = dropped \cup {seq}
      /\ "failed" \in Outcomes
  BY FixedIs DEF EndMalformed, Streaming, Outcomes
<1> QED BY <1>1, StopKind

\* The tools begin, or the turn ends.
LEMMA BeginToolsKind == ASSUME TurnInv, BeginTools PROVE EndKind \/ SayKind
<1>1. TaskSame /\ pc = "tools" /\ dropped' = dropped /\ SeqSame
      /\ "cancelled" \in Outcomes /\ "failed" \in Outcomes
  BY FixedIs DEF BeginTools, Outcomes, SeqSame
<1>2. CASE Stop("cancelled") \/ Stop("failed")
  BY <1>1, <1>2, StopKind
<1>3. CASE open /\ pc' = "running" /\ Send(<<ToolCall>>) /\ att' = NewAttempt /\ req' = req
  <2>1. PICK m : m = ToolCall
    OBVIOUS
  <2>2. m \in Event /\ wire \in Seq(Event) /\ wire' = wire \o <<m>>
    BY <1>3, <2>1, TurnIs, EventIs DEF Send
  <2>3. wire' = Append(wire, m)
    BY <2>2, Joins
  <2>4. pc \notin {"delay", "ended"} /\ pc' \notin Outside /\ att' \in Attempt /\ att'.text = <<>>
    BY <1>1, <1>3, NewIs DEF Outside
  <2> QED BY <1>1, <1>3, <2>1, <2>3, <2>4 DEF SayKind
<1> QED BY <1>2, <1>3 DEF BeginTools

\* The tools end, and the next request is due.
LEMMA EndToolsKind == ASSUME TurnInv, EndTools PROVE EndKind \/ IdleKind
<1>1. TaskSame /\ pc = "running" /\ dropped' = dropped
      /\ "cancelled" \in Outcomes /\ "failed" \in Outcomes
  BY FixedIs DEF EndTools, Outcomes
<1>2. CASE Stop("cancelled") \/ Stop("failed")
  BY <1>1, <1>2, StopKind
<1>3. CASE /\ pc' = "round" \/ pc' = "mid"
           /\ UNCHANGED <<seq, req, att, started, result, wire>>
  <2>1. pc \notin {"delay", "ended"} /\ pc' \notin Outside /\ att' \in Attempt
    BY <1>1, <1>3, TurnIs DEF Outside
  <2> QED BY <1>1, <1>3, <2>1 DEF IdleKind, SeqSame
<1> QED BY <1>2, <1>3 DEF EndTools

\* A compaction ends the turn or leads to another request.
LEMMA CompactKind == ASSUME TurnInv, Compact PROVE EndKind \/ IdleKind
<1>1. TaskSame /\ pc \in {"pre", "overflow", "mid"} /\ dropped' = dropped
      /\ "cancelled" \in Outcomes /\ "failed" \in Outcomes
  BY FixedIs DEF Compact, Outcomes
<1>2. CASE Stop("cancelled") \/ Stop("failed")
  BY <1>1, <1>2, StopKind
<1>3. CASE /\ pc' = "round" /\ (SeqSame \/ Compacted)
           /\ UNCHANGED <<req, att, result, wire>>
  <2>1. pc \notin {"delay", "ended"} /\ pc' \notin Outside /\ att' \in Attempt
    BY <1>1, <1>3, TurnIs DEF Outside
  <2>2. SeqSame \/ SeqNext
    BY <1>1, <1>3 DEF Compacted, SeqSame, SeqNext
  <2> QED BY <1>1, <1>3, <2>1, <2>2 DEF IdleKind
<1>4. CASE Compacted /\ End("failed", <<>>, <<>>)
  <2>1. PICK o \in Outcomes : o = "failed"
    BY <1>1
  <2>2. /\ pc' = "ended" /\ req' = NewRequest /\ att' = NewAttempt
        /\ wire' = IF open THEN Append(wire, Finished(o)) ELSE wire
    BY <1>4, <2>1, EndsBare
  <2>3. SeqSame \/ SeqNext
    BY <1>1, <1>4 DEF Compacted, SeqSame, SeqNext
  <2> QED BY <1>1, <2>2, <2>3 DEF EndKind
<1> QED BY <1>2, <1>3, <1>4 DEF Compact, SeqSame

\* A step of the provider that fails or ends the attempt.
LEMMA FailureKind ==
    ASSUME TurnInv, NEW error \in Errors, NEW after \in RetryAfters,
           BreakStream(error, after) \/ Refuse(error, after)
    PROVE  EndKind \/ IdleKind \/ SayKind \/ DelayKind
<1>1. TaskSame /\ pc = "attempt" /\ after \in Nat /\ att.live \in Nat
  BY FixedIs, TurnAssumption, TurnIs DEF BreakStream, Refuse, Streaming
<1>3. CASE BreakStream(error, after)
  <2>1. PICK kept \in BOOLEAN : kept = (resumes /\ att.text # <<>>)
    OBVIOUS
  <2>2. PICK d \in Nat : d = (IF kept THEN 0 ELSE att.live)
    BY <1>1
  <2>3. \/ Conclude(req.prefix \o att.text, att.calls)
        \/ GiveUp(error)
        \/ Retry(error, after, kept, d)
    BY <1>3, <2>1, <2>2 DEF BreakStream, Discarded
  <2>4. CASE Conclude(req.prefix \o att.text, att.calls)
    BY <1>1, <2>4, ConcludeKind
  <2>5. CASE GiveUp(error)
    BY <1>1, <2>5, GiveUpKind
  <2>6. CASE Retry(error, after, kept, d)
    BY <1>1, <2>2, <2>6, RetryKind
  <2> QED BY <2>3, <2>4, <2>5, <2>6
<1>4. CASE Refuse(error, after)
  <2>1. PICK kept \in BOOLEAN, d \in Nat : kept = FALSE /\ d = 0
    OBVIOUS
  <2>2. d = (IF kept THEN 0 ELSE att.live)
    BY <1>4, <2>1, NewIs DEF Refuse
  <2>3. Retry(error, after, kept, d)
    BY <1>4, <2>1 DEF Refuse
  <2> QED BY <1>1, <2>2, <2>3, RetryKind
<1> QED BY <1>3, <1>4

\* Every step of the task keeps the invariant.
LEMMA TaskKeeps == ASSUME TurnInv, TaskStep PROVE WireInv' /\ TaskShape'
<1>1. EndKind \/ IdleKind \/ SayKind \/ StartKind
  BY StartTurnKind, BeginRequestKind, BeginRetryKind, NoticeCancelKind, BeginToolsKind,
     EndToolsKind, CompactKind DEF TaskStep
<1> QED BY <1>1, EndKeeps, IdleKeeps, SayKeeps, StartKeeps

\* Every step of the provider's stream keeps the invariant.
LEMMA ProviderKeeps ==
    ASSUME TurnInv,
           \/ StreamText \/ StreamToolCall \/ StreamFinal \/ EndStream \/ EndMalformed
           \/ \E error \in Errors, after \in RetryAfters :
                 BreakStream(error, after) \/ Refuse(error, after)
    PROVE  WireInv' /\ TaskShape'
<1>1. CASE StreamText \/ StreamToolCall \/ StreamFinal
  BY <1>1, StreamKind, GoKeeps
<1>2. CASE EndStream
  <2>1. TaskSame /\ pc = "attempt" /\ Conclude(req.prefix \o att.text, att.calls)
    BY <1>2, FixedIs DEF EndStream, Streaming
  <2> QED BY <2>1, ConcludeKind, EndKeeps, IdleKeeps, SayKeeps
<1>3. CASE EndMalformed
  BY <1>3, EndMalformedKind, EndKeeps
<1>4. ASSUME NEW error \in Errors, NEW after \in RetryAfters,
             BreakStream(error, after) \/ Refuse(error, after)
      PROVE  WireInv' /\ TaskShape'
  <2>1. EndKind \/ IdleKind \/ SayKind \/ DelayKind
    BY <1>4, FailureKind
  <2> QED BY <2>1, EndKeeps, IdleKeeps, SayKeeps, DelayKeeps
<1> QED BY <1>1, <1>2, <1>3, <1>4

\* Every step of the loop and of the client keeps the invariant.
LEMMA LoopKeeps ==
    ASSUME TurnInv, CancelTurn \/ GraceExpires \/ Receive \/ UserCancels \/ Notice
                    \/ ClientLeaves \/ Over \/ UNCHANGED vars
    PROVE  WireInv' /\ TaskShape'
<1>1. CASE CancelTurn \/ Over \/ UNCHANGED vars
  <2>1. TaskRests /\ wire' = wire /\ ui' = ui /\ notices' = notices /\ open' = open
    BY <1>1 DEF CancelTurn, Over, vars, task, client, TaskRests
  <2> QED BY <2>1, RestKeeps
<1>2. CASE GraceExpires
  BY <1>2, NoticeCancelKind, EndKeeps
<1> QED BY <1>1, <1>2, ReceiveKeeps, UserCancelsKeeps, NoticeKeeps, LeavesKeeps

\* The cancel flag stays a Boolean.
LEMMA CancelledTyped == ASSUME cancelled \in BOOLEAN, [Next]_vars PROVE cancelled' \in BOOLEAN
<1>1. CASE CancelTurn
  BY <1>1 DEF CancelTurn
<1>2. CASE ~CancelTurn
  <2>1. cancelled' = cancelled
    BY <1>2, FixedIs DEF Next, TaskStep, StartTurn, BeginRequest, BeginRetry,
       NoticeCancel,
       BeginTools, EndTools, Compact, StreamText, StreamToolCall, StreamFinal, EndStream,
       EndMalformed, BreakStream, Refuse, GraceExpires, Receive, UserCancels, Notice,
       ClientLeaves, Over, vars
  <2> QED BY <2>1
<1> QED BY <1>1, <1>2

\* The invariant holds at the start.
LEMMA TurnInit == ASSUME Init PROVE TurnInv
<1>1. /\ pc = "start" /\ cancelled = FALSE /\ seq = 0 /\ req = NewRequest /\ att = NewAttempt
      /\ started = {} /\ dropped = {} /\ settled = <<>> /\ wire = <<>> /\ open = TRUE
      /\ ui = [st |-> "streaming", seen |-> 0, rows |-> <<>>] /\ notices = 0
  BY DEF Init
<1>2. ui \in Client /\ ui.st = "streaming" /\ ui.seen = 0 /\ ui.rows = <<>>
  BY <1>1 DEF Client
<1>3. Len(<<>>) = 0 /\ 1..0 = {} /\ 0 \in Nat /\ Owed = 0 /\ Due = 0
  BY <1>1 DEF Owed, Due
<1>4. TurnShape
  <2>1. settled \in Seq(Nat) /\ wire \in Seq(Event)
    BY <1>1
  <2> QED BY <1>1, <1>2, <2>1, NewIs DEF TurnShape
<1>5. AttemptsSettle
  BY <1>1, <1>3 DEF AttemptsSettle, SettledOnce
<1>6. SentInv
  <2>1. /\ Counted(<<>>, 0) /\ Numbered(<<>>, 0, 0) /\ SentUpTo(<<>>, 0)
        /\ SentRetracted(<<>>, dropped) /\ SentDue(<<>>, dropped, 0)
    <3>1. 0 <= 0
      OBVIOUS
    <3> QED BY <1>3, <3>1, NothingSent
  <2> QED BY <1>1, <1>2, <1>3, <2>1 DEF SentInv
<1>7. RowsInv
  <2>1. Findable(<<>>, <<>>, 0)
    BY <1>3 DEF Findable, Finds
  <2>2. RowsUpTo(<<>>, 0) /\ RowsKept(<<>>, dropped) /\ RowsRetracted(<<>>, <<>>, dropped)
        /\ RowsDue(<<>>, <<>>, dropped, 0)
    BY <1>3 DEF RowsUpTo, RowsKept, RowsRetracted, RowsDue
  <2> QED BY <1>1, <1>2, <1>3, <2>1, <2>2 DEF RowsInv
<1>8. EndsLast /\ AttemptInv /\ ResetsApply
  BY <1>1, <1>2, <1>3, NewIs DEF EndsLast, AttemptInv, ResetsApply
<1> QED BY <1>4, <1>5, <1>6, <1>7, <1>8 DEF TurnInv, WireInv

\* Every step keeps the invariant.
LEMMA TurnNext == ASSUME TurnInv, [Next]_vars PROVE TurnInv'
<1>1. WireInv' /\ TaskShape'
  BY TaskKeeps, ProviderKeeps, LoopKeeps DEF Next
<1>2. SettleInv
  BY TurnIs DEF SettleInv
<1>3. SettleInv'
  BY <1>2, NextSettles, SettleKeeps
<1>4. cancelled' \in BOOLEAN
  BY TurnIs, CancelledTyped
<1>5. TurnShape'
  BY <1>1, <1>3, <1>4 DEF TurnShape, TaskShape, SettleInv
<1> QED BY <1>1, <1>3, <1>5 DEF TurnInv, SettleInv

\* The inductive invariant of a turn.
THEOREM TurnInvariant == Spec => []TurnInv
<1>1. Init => TurnInv
  BY TurnInit
<1>2. TurnInv /\ [Next]_vars => TurnInv'
  BY TurnNext
<1> QED BY <1>1, <1>2, PTL DEF Spec

\* Text of a later attempt never stands below text of a discarded one, and a reset is
\* refused only after a row of other origin (handle_prompt_attempt_reset,
\* truncate_assistant_suffix_bytes).  The text of a request that is found too long and
\* made again is not discarded: the code leaves it standing.
THEOREM TranscriptStaysClean == Spec => []TranscriptIsClean
<1>1. TurnInv => TranscriptIsClean
  <2> SUFFICES ASSUME TurnInv PROVE TranscriptIsClean
    OBVIOUS
  <2>1. RowsKept(ui.rows, dropped) /\ ResetsApply
    BY TurnIs DEF RowsInv
  <2>2. NeverMixed
    BY <2>1 DEF RowsKept, IsText, NeverMixed
  <2> QED BY <2>1, <2>2 DEF TranscriptIsClean
<1> QED BY <1>1, TurnInvariant, PTL
=============================================================================
