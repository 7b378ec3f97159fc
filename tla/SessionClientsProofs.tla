------------------------- MODULE SessionClientsProofs -------------------------
(***************************************************************************)
(* The proofs about the session a client works on: the log it is kept in,  *)
(* what a provider is told of it, and the screen it is shown on.           *)
(***************************************************************************)
EXTENDS SessionStore, ContextReplay, TuiScreens, FiniteSetTheorems, SequenceTheorems,
        NaturalsInduction, WellFoundedInduction, TLAPS

-----------------------------------------------------------------------------
(***************************************************************************)
(* Proofs about SessionStore: for any number of events, failed writes,     *)
(* crashes and power losses, of the events that were reported durable each *)
(* write cut short costs one at most, the one the next append glues to the *)
(* torn line; no two turns of a log that loads share an index, while no    *)
(* text is cut inside a character; and an event of the log in memory is    *)
(* given up only with a batch whose write failed.                          *)
(*                                                                         *)
(* That a line can be read back is not inductive: an append may glue its   *)
(* first line to the torn tail an earlier failure left. The invariant      *)
(* counts those torn tails against the failures so far (Debt), keeps every *)
(* reported event at a line that was ended (Reported), and keeps the turns *)
(* of the file apart from those of the events that are still to be written *)
(* again (ApartFrom).                                                      *)
(***************************************************************************)

\* The object at i begins its line, and its line has been ended.
Begins(f, i)  == f[i].kind = "event" /\ (i = 1 \/ f[i - 1].kind = "nl")
EndedAt(f, i) == i < Len(f) /\ f[i + 1].kind = "nl"

\* A line that was read, or will be, whatever is appended.
Closed(f, i) == Begins(f, i) /\ EndedAt(f, i)

\* Of two objects that begin their lines the earlier, once its line is ended, does
\* not share its turn with the later, unless it is the same event written again.
TurnsApart(f) ==
    \A i, j \in 1..Len(f) :
      i < j /\ Closed(f, i) /\ Begins(f, j) /\ f[i].turn = f[j].turn => f[i].id = f[j].id

\* Nor with an event that waits to be written, or with one still to be pushed.
ApartFrom(f, es) ==
    \A i \in 1..Len(f) : \A a \in 1..Len(es) :
      Closed(f, i) /\ f[i].turn = es[a].turn => f[i].id = es[a].id

\* Every closed line is of a turn below n.
Below(f, n) == \A i \in 1..Len(f) : Closed(f, i) => f[i].turn < n

\* No object is cut inside a character.
NoCuts(f) == \A i \in 1..Len(f) : f[i].kind # "cut"

\* What waits is in the order of its turns, all below the next one.
PendingInOrder ==
    /\ \A a, b \in 1..Len(pending) : a < b => pending[a].turn < pending[b].turn
    /\ \A a \in 1..Len(pending) : pending[a].turn < turnIndex

\* Identities are handed out in order and no turn is ahead of them.
CountedLog(f, n) ==
    \A i \in 1..Len(f) : f[i].id <= n /\ (f[i].kind # "nl" => f[i].turn < f[i].id)

\* The events carry numbers that were handed out, each later than its turn's index.
CountedEvents(es, n) == \A a \in 1..Len(es) : es[a].id <= n /\ es[a].turn < es[a].id
\* The log and the pending events carry only numbers that were handed out.
Counted == CountedLog(file, count) /\ CountedEvents(pending, count) /\ turnIndex <= count

\* An event whose line is ended, within the first n tokens.
Holds(f, n, id) ==
    \E i \in 1..(n - 1) : f[i].kind = "event" /\ f[i].id = id /\ f[i + 1].kind = "nl"

\* What was reported as written is in the file, what was reported as safe is in its
\* synced part.
Reported ==
    /\ \A id \in written : Holds(file, Len(file), id)
    /\ \A id \in safe : Holds(file, synced, id)

\* The events glued to a torn line, and whether the next append adds one.
Glued(f) ==
    {i \in 2..(Len(f) - 1) : f[i].kind = "event" /\ f[i + 1].kind = "nl" /\ f[i - 1].kind # "nl"}

\* The file ends inside a line.
Torn(f) == Len(f) > 0 /\ f[Len(f)].kind # "nl"
\* At most n lines are glued to a torn one, counting the torn tail the next append
\* would be glued to.
Debt(f, n) == Cardinality(Glued(f)) <= n /\ (Torn(f) => Cardinality(Glued(f)) + 1 <= n)

\* What was given up has a number that was handed out, and what waits has neither
\* been reported as written nor been given up.
GivenUpApart ==
    /\ \A id \in givenUp : id <= count
    /\ \A a \in 1..Len(pending) : pending[a].id \notin written /\ pending[a].id \notin givenUp

\* The inductive invariant.
StoreInv ==
    /\ StoreTypeOK
    /\ ~up => pending = <<>>
    /\ Counted /\ PendingInOrder
    /\ Reported
    /\ Debt(file, tears)
    /\ NothingForgotten /\ GivenUpApart
    /\ ~MultiByte => /\ NoCuts(file) /\ TurnsApart(file) /\ ApartFrom(file, pending)
                  /\ (up => Below(file, turnIndex))

-----------------------------------------------------------------------------
\* What a write of the events es leaves, whole or cut short: objects at the odd
\* places, of which the last may be torn, and newlines at the even ones.
Buffer(b, es) ==
    \A p \in 1..Len(b) :
      \/ \E a \in 1..Len(es) : p = 2 * a /\ b[p] = NL
      \/ \E a \in 1..Len(es) :
           /\ p = 2 * a - 1 /\ b[p].id = es[a].id /\ b[p].turn = es[a].turn
           /\ b[p].kind \in {"event", "frag", "cut"} /\ (b[p].kind = "cut" => MultiByte)

\* What a token is.
LEMMA TokenIs ==
    ASSUME SessionStoreAssumption, NEW t \in Token
    PROVE  /\ t.kind \in {"event", "frag", "cut", "nl"} /\ t.id \in Nat /\ t.turn \in Nat
           /\ t.id \in 0..MaxEvents /\ t.turn \in 0..MaxEvents
           /\ t.kind = "nl" => t = NL
           /\ t.kind # "nl" => t.id \in Ids /\ t.turn \in Turns
           /\ t.kind = "event" => t \in Event
<1>1. CASE t \in [kind : {"event", "frag", "cut"}, id : Ids, turn : Turns]
  BY <1>1 DEF SessionStoreAssumption, Ids, Turns, Event
<1>2. CASE t \in [kind : {"nl"}, id : {0}, turn : {0}]
  BY <1>2 DEF SessionStoreAssumption, NL
<1> QED BY <1>1, <1>2 DEF Token

\* An event is a token with an id and a turn.
LEMMA EventIs ==
    ASSUME SessionStoreAssumption, NEW t \in Event
    PROVE  /\ t.kind = "event" /\ t.id \in Ids /\ t.turn \in Turns /\ t \in Token
           /\ t.id \in Nat /\ t.turn \in Nat
  BY DEF SessionStoreAssumption, Event, Token, Ids, Turns

\* A line feed is a token of no event.
LEMMA NLIs == NL \in Token /\ NL.kind = "nl" /\ NL.id = 0 /\ NL.turn = 0
  BY DEF NL, Token

\* What encode_stamped_lines writes.
LEMMA EncodeIs ==
    ASSUME SessionStoreAssumption, NEW es \in Seq(Event)
    PROVE  /\ Encode(es) \in Seq(Token) /\ Len(Encode(es)) = 2 * Len(es) /\ Len(es) \in Nat
           /\ \A a \in 1..Len(es) : /\ Encode(es)[2 * a - 1] = es[a] /\ Encode(es)[2 * a] = NL
                                     /\ es[a] \in Event
           /\ \A p \in 1..(2 * Len(es)) : \E a \in 1..Len(es) : p = 2 * a - 1 \/ p = 2 * a
<1>1. Len(es) \in Nat /\ \A a \in 1..Len(es) : es[a] \in Event
  BY LenProperties, ElementOfSeq
<1>2. \A p \in 1..(2 * Len(es)) : \E a \in 1..Len(es) : p = 2 * a - 1 \/ p = 2 * a
  <2> SUFFICES ASSUME NEW p \in 1..(2 * Len(es))
               PROVE  \E a \in 1..Len(es) : p = 2 * a - 1 \/ p = 2 * a
    OBVIOUS
  <2>1. (p + 1) \div 2 \in 1..Len(es) /\ (p = 2 * ((p + 1) \div 2) - 1 \/ p = 2 * ((p + 1) \div 2))
    BY <1>1
  <2> QED BY <2>1
<1>3. \A a \in 1..Len(es) : Encode(es)[2 * a - 1] = es[a] /\ Encode(es)[2 * a] = NL
  <2> SUFFICES ASSUME NEW a \in 1..Len(es)
               PROVE  Encode(es)[2 * a - 1] = es[a] /\ Encode(es)[2 * a] = NL
    OBVIOUS
  <2>1. /\ 2 * a - 1 \in 1..(2 * Len(es)) /\ (2 * a - 1) % 2 = 1 /\ (2 * a - 1 + 1) \div 2 = a
        /\ 2 * a \in 1..(2 * Len(es)) /\ (2 * a) % 2 # 1
    BY <1>1
  <2> QED BY <2>1 DEF Encode
<1>4. \A p \in 1..(2 * Len(es)) : Encode(es)[p] \in Token
  <2> SUFFICES ASSUME NEW p \in 1..(2 * Len(es)) PROVE Encode(es)[p] \in Token
    OBVIOUS
  <2>1. PICK a \in 1..Len(es) : p = 2 * a - 1 \/ p = 2 * a
    BY <1>2
  <2> QED BY <1>1, <1>3, <2>1, EventIs, NLIs
<1>5. Encode(es) = [p \in 1..(2 * Len(es)) |-> Encode(es)[p]]
  BY DEF Encode
<1>6. 2 * Len(es) \in Nat
  BY <1>1
<1>7. Encode(es) \in [1..(2 * Len(es)) -> Token]
  BY <1>4, <1>5
<1>8. Encode(es) \in Seq(Token) /\ Len(Encode(es)) = 2 * Len(es)
  BY <1>6, <1>7
<1> QED BY <1>1, <1>2, <1>3, <1>8

\* encode_stamped_lines puts every event on a line of its own.
LEMMA EncodeBuffer ==
    ASSUME SessionStoreAssumption, NEW es \in Seq(Event)
    PROVE  Buffer(Encode(es), es)
<1> SUFFICES ASSUME NEW p \in 1..Len(Encode(es))
             PROVE  \/ \E a \in 1..Len(es) : p = 2 * a /\ Encode(es)[p] = NL
                    \/ \E a \in 1..Len(es) :
                         /\ p = 2 * a - 1 /\ Encode(es)[p].id = es[a].id /\ Encode(es)[p].turn = es[a].turn
                         /\ Encode(es)[p].kind \in {"event", "frag", "cut"}
                         /\ (Encode(es)[p].kind = "cut" => MultiByte)
  BY DEF Buffer
<1>0. p \in 1..(2 * Len(es))
  BY EncodeIs
<1>1. PICK a \in 1..Len(es) : p = 2 * a - 1 \/ p = 2 * a
  BY <1>0, EncodeIs
<1>2. /\ es[a] \in Event /\ es[a].kind = "event" 
      /\ Encode(es)[2 * a - 1] = es[a] /\ Encode(es)[2 * a] = NL
  BY EncodeIs, EventIs
<1>3. CASE p = 2 * a - 1
  BY <1>2, <1>3
<1>4. CASE p = 2 * a
  BY <1>2, <1>4
<1> QED BY <1>1, <1>3, <1>4

\* What a write that is cut short leaves of a sequence of tokens.
CutIs(c, b) ==
    /\ c \in Seq(Token) /\ Len(c) <= Len(b)
    /\ \A i \in 1..Len(c) :
         \/ c[i] = b[i]
         \/ /\ i = Len(c) /\ b[i].kind = "event" /\ c[i].kind \in {"frag", "cut"}
            /\ c[i].id = b[i].id /\ c[i].turn = b[i].turn /\ (c[i].kind = "cut" => MultiByte)

\* What a failed write leaves of a buffer is a cut of it.
LEMMA CutShortIs ==
    ASSUME SessionStoreAssumption, NEW b \in Seq(Token), NEW c \in CutShort(b)
    PROVE  CutIs(c, b)
<1>1. Len(b) \in Nat /\ \A i \in 1..Len(b) : b[i] \in Token
  BY LenProperties, ElementOfSeq
<1>2. CASE \E k \in 0..Len(b) : c = SubSeq(b, 1, k)
  <2>1. PICK k \in 0..Len(b) : c = SubSeq(b, 1, k)
    BY <1>2
  <2>2. c \in Seq(Token) /\ Len(c) = k /\ \A i \in 1..k : c[i] = b[i]
    BY <1>1, <2>1
  <2> QED BY <2>2, <1>1 DEF CutIs
<1>3. CASE \E k \in 0..(Len(b) - 1), e \in {"frag", "cut"} :
             /\ b[k + 1].kind = "event" /\ (e = "cut" => MultiByte)
             /\ c = Append(SubSeq(b, 1, k), [b[k + 1] EXCEPT !.kind = e])
  <2>1. PICK k \in 0..(Len(b) - 1), e \in {"frag", "cut"} :
             /\ b[k + 1].kind = "event" /\ (e = "cut" => MultiByte)
             /\ c = Append(SubSeq(b, 1, k), [b[k + 1] EXCEPT !.kind = e])
    BY <1>3
  <2>2. SubSeq(b, 1, k) \in Seq(Token) /\ Len(SubSeq(b, 1, k)) = k
        /\ \A i \in 1..k : SubSeq(b, 1, k)[i] = b[i]
    BY <1>1
  <2>3. PICK t : t = [b[k + 1] EXCEPT !.kind = e]
    OBVIOUS
  <2>4. b[k + 1] \in Event
    BY <1>1, <2>1, TokenIs
  <2>5. t \in Token /\ t.kind = e /\ t.id = b[k + 1].id /\ t.turn = b[k + 1].turn
    BY <2>3, <2>4 DEF Event, Token
  <2>6. c \in Seq(Token) /\ Len(c) = k + 1 /\ c[k + 1] = t /\ \A i \in 1..k : c[i] = b[i]
    BY <2>1, <2>2, <2>3, <2>5
  <2> QED BY <1>1, <2>1, <2>5, <2>6 DEF CutIs
<1>4. CASE c \in {SubSeq(b, 1, k) : k \in 0..Len(b)}
  BY <1>2, <1>4
<1>5. PICK J : J = {j \in 0..(Len(b) - 1) : b[j + 1].kind = "event"}
  OBVIOUS
<1>6. PICK C : C = IF MultiByte THEN {"frag", "cut"} ELSE {"frag"}
  OBVIOUS
<1>7. \A e \in C : e \in {"frag", "cut"} /\ (e = "cut" => MultiByte)
  BY <1>6
<1>8. PICK A : A = UNION {{Append(SubSeq(b, 1, k), [b[k + 1] EXCEPT !.kind = e]) : k \in J} : e \in C}
  OBVIOUS
<1>9. CASE c \in A
  <2>1. PICK e \in C : c \in {Append(SubSeq(b, 1, k), [b[k + 1] EXCEPT !.kind = e]) : k \in J}
    BY <1>8, <1>9
  <2>2. PICK k \in J : c = Append(SubSeq(b, 1, k), [b[k + 1] EXCEPT !.kind = e])
    BY <2>1
  <2>3. /\ k \in 0..(Len(b) - 1) /\ b[k + 1].kind = "event"
        /\ e \in {"frag", "cut"} /\ (e = "cut" => MultiByte)
    BY <1>5, <1>7
  <2> QED BY <1>3, <2>2, <2>3
<1>10. CutShort(b) = {SubSeq(b, 1, k) : k \in 0..Len(b)} \cup A
  BY <1>5, <1>6, <1>8 DEF CutShort
<1> QED BY <1>4, <1>9, <1>10

\* What a failed write leaves of encoded events is still one event a line.
LEMMA CutBuffer ==
    ASSUME SessionStoreAssumption, NEW es \in Seq(Event), NEW c \in CutShort(Encode(es))
    PROVE  c \in Seq(Token) /\ Buffer(c, es)
<1>1. Encode(es) \in Seq(Token) /\ Buffer(Encode(es), es) /\ Len(Encode(es)) \in Nat
  BY EncodeIs, EncodeBuffer, LenProperties
<1>2. CutIs(c, Encode(es))
  BY <1>1, CutShortIs
<1>3. c \in Seq(Token) /\ Len(c) \in Nat /\ Len(c) <= Len(Encode(es))
  BY <1>2, LenProperties DEF CutIs
<1> SUFFICES ASSUME NEW p \in 1..Len(c)
             PROVE  \/ \E a \in 1..Len(es) : p = 2 * a /\ c[p] = NL
                    \/ \E a \in 1..Len(es) :
                         /\ p = 2 * a - 1 /\ c[p].id = es[a].id /\ c[p].turn = es[a].turn
                         /\ c[p].kind \in {"event", "frag", "cut"} /\ (c[p].kind = "cut" => MultiByte)
  BY <1>3 DEF Buffer
<1>4. p \in 1..Len(Encode(es))
  BY <1>1, <1>3
<1>5. CASE c[p] = Encode(es)[p]
  BY <1>1, <1>4, <1>5 DEF Buffer
<1>6. CASE /\ Encode(es)[p].kind = "event" /\ c[p].kind \in {"frag", "cut"}
           /\ c[p].id = Encode(es)[p].id /\ c[p].turn = Encode(es)[p].turn
           /\ (c[p].kind = "cut" => MultiByte)
  <2>1. Encode(es)[p] # NL
    BY <1>6, NLIs
  <2>2. PICK a \in 1..Len(es) : p = 2 * a - 1 /\ Encode(es)[p].id = es[a].id
                                /\ Encode(es)[p].turn = es[a].turn
    BY <1>1, <1>4, <2>1 DEF Buffer
  <2> QED BY <1>6, <2>2
<1> QED BY <1>2, <1>5, <1>6 DEF CutIs

-----------------------------------------------------------------------------
\* A log and what is appended to it.
LEMMA Appended ==
    ASSUME SessionStoreAssumption, NEW f \in Seq(Token), NEW b \in Seq(Token)
    PROVE  /\ f \o b \in Seq(Token) /\ Len(f) \in Nat /\ Len(b) \in Nat
           /\ Len(f \o b) = Len(f) + Len(b) /\ Len(f \o b) \in Nat
           /\ \A i \in 1..Len(f) : (f \o b)[i] = f[i] /\ f[i] \in Token
           /\ \A p \in 1..Len(b) : (f \o b)[Len(f) + p] = b[p] /\ b[p] \in Token
           /\ \A i \in 1..Len(f \o b) :
                /\ (f \o b)[i] \in Token
                /\ i \in 1..Len(f) \/ \E p \in 1..Len(b) : i = Len(f) + p
<1>1. f \o b \in Seq(Token) /\ Len(f) \in Nat /\ Len(b) \in Nat
  BY ConcatProperties, LenProperties
<1>2. Len(f \o b) = Len(f) + Len(b)
  BY <1>1
<1>3. /\ \A i \in 1..Len(f) : f[i] \in Token
      /\ \A p \in 1..Len(b) : b[p] \in Token
      /\ \A i \in 1..Len(f \o b) : (f \o b)[i] \in Token
  BY <1>1, ElementOfSeq
<1>4. \A i \in 1..Len(f) : (f \o b)[i] = f[i]
  BY <1>1
<1>5. \A p \in 1..Len(b) : (f \o b)[Len(f) + p] = b[p]
  BY <1>1
<1>6. ASSUME NEW i \in 1..Len(f \o b), i \notin 1..Len(f)
      PROVE  \E p \in 1..Len(b) : i = Len(f) + p
  <2>1. i - Len(f) \in 1..Len(b) /\ i = Len(f) + (i - Len(f))
    BY <1>1, <1>2, <1>6
  <2> QED BY <2>1
<1> QED BY <1>1, <1>2, <1>3, <1>4, <1>5, <1>6

\* The token is one of the events, as far as its identity goes.
IsOf(t, es) == \E a \in 1..Len(es) : t.id = es[a].id /\ t.turn = es[a].turn

\* In such a buffer every object begins its line and is of one of the events.
LEMMA BufferIs ==
    ASSUME SessionStoreAssumption, NEW es \in Seq(Event), NEW b \in Seq(Token), Buffer(b, es)
    PROVE  /\ \A p \in 1..Len(b) : b[p].kind # "nl" => IsOf(b[p], es)
           /\ \A p \in 1..Len(b) : b[p].kind = "cut" => MultiByte
           /\ Len(b) > 0 => b[1].kind # "nl"
           /\ \A p \in 2..Len(b) : b[p].kind # "nl" => b[p - 1].kind = "nl"
<1>1. Len(b) \in Nat /\ Len(es) \in Nat
  BY LenProperties
<1>2. \A p \in 1..Len(b) : b[p].kind # "nl" =>
         \E a \in 1..Len(es) : p = 2 * a - 1 /\ b[p].id = es[a].id /\ b[p].turn = es[a].turn
  BY NLIs DEF Buffer
<1>3. \A p \in 1..Len(b) : b[p].kind = "nl" => \E a \in 1..Len(es) : p = 2 * a
  BY DEF Buffer
<1>4. Len(b) > 0 => b[1].kind # "nl"
  <2> SUFFICES ASSUME Len(b) > 0, b[1].kind = "nl" PROVE FALSE
    OBVIOUS
  <2>1. 1 \in 1..Len(b)
    BY <1>1
  <2>2. PICK a \in 1..Len(es) : 1 = 2 * a
    BY <1>3, <2>1
  <2> QED BY <1>1, <2>2
<1>5. \A p \in 2..Len(b) : b[p].kind # "nl" => b[p - 1].kind = "nl"
  <2> SUFFICES ASSUME NEW p \in 2..Len(b), b[p].kind # "nl", b[p - 1].kind # "nl" PROVE FALSE
    OBVIOUS
  <2>1. p \in 1..Len(b) /\ p - 1 \in 1..Len(b)
    BY <1>1
  <2>2. PICK a \in 1..Len(es) : p = 2 * a - 1
    BY <1>2, <2>1
  <2>3. PICK c \in 1..Len(es) : p - 1 = 2 * c - 1
    BY <1>2, <2>1
  <2> QED BY <1>1, <2>2, <2>3
<1>6. \A p \in 1..Len(b) : b[p].kind = "cut" => MultiByte
  BY NLIs DEF Buffer
<1> QED BY <1>2, <1>4, <1>5, <1>6 DEF IsOf

\* An object of the longer log that begins its line did so before, or was just written.
LEMMA BeginsAppended ==
    ASSUME SessionStoreAssumption, NEW f \in Seq(Token), NEW es \in Seq(Event),
           NEW b \in Seq(Token), Buffer(b, es), NEW i \in 1..Len(f \o b)
    PROVE  /\ Begins(f \o b, i) => \/ i \in 1..Len(f) /\ Begins(f, i) 
                                   \/ i > Len(f) /\ IsOf((f \o b)[i], es)
           /\ Closed(f \o b, i) => \/ i \in 1..Len(f) /\ Closed(f, i)
                                   \/ i > Len(f) /\ IsOf((f \o b)[i], es)
<1>1. /\ f \o b \in Seq(Token) /\ Len(f) \in Nat /\ Len(b) \in Nat
      /\ Len(f \o b) = Len(f) + Len(b)
      /\ \A j \in 1..Len(f) : (f \o b)[j] = f[j]
      /\ \A p \in 1..Len(b) : (f \o b)[Len(f) + p] = b[p]
      /\ i \in 1..Len(f) \/ \E p \in 1..Len(b) : i = Len(f) + p
  BY Appended
<1>2. /\ \A p \in 1..Len(b) : b[p].kind # "nl" => IsOf(b[p], es)
      /\ Len(b) > 0 => b[1].kind # "nl"
  BY BufferIs
<1>3. ASSUME Begins(f \o b, i)
      PROVE  \/ i \in 1..Len(f) /\ Begins(f, i) 
             \/ i > Len(f) /\ IsOf((f \o b)[i], es)
  <2>1. CASE i \in 1..Len(f)
    <3>1. (f \o b)[i] = f[i]
      BY <1>1, <2>1
    <3>2. i # 1 => (f \o b)[i - 1] = f[i - 1]
      BY <1>1, <2>1
    <3> QED BY <1>3, <2>1, <3>1, <3>2 DEF Begins
  <2>2. CASE \E p \in 1..Len(b) : i = Len(f) + p
    <3>1. PICK p \in 1..Len(b) : i = Len(f) + p
      BY <2>2
    <3>2. (f \o b)[i] = b[p] /\ (f \o b)[i].kind = "event" /\ i > Len(f)
      BY <1>1, <1>3, <3>1 DEF Begins
    <3> QED BY <1>2, <3>2
  <2> QED BY <1>1, <2>1, <2>2
<1>4. ASSUME EndedAt(f \o b, i), i \in 1..Len(f)
      PROVE  EndedAt(f, i)
  <2>1. (f \o b)[i + 1].kind = "nl" /\ i < Len(f) + Len(b)
    BY <1>1, <1>4 DEF EndedAt
  <2>2. CASE i < Len(f)
    <3>1. (f \o b)[i + 1] = f[i + 1]
      BY <1>1, <1>4, <2>2
    <3> QED BY <2>1, <2>2, <3>1 DEF EndedAt
  <2>3. CASE i = Len(f)
    <3>1. (f \o b)[i + 1] = b[1] /\ Len(b) > 0
      BY <1>1, <2>1, <2>3
    <3> QED BY <1>2, <2>1, <3>1
  <2> QED BY <1>1, <1>4, <2>2, <2>3
<1> QED BY <1>3, <1>4 DEF Closed

\* The events agree on turns and identities wherever they meet.
Agree(es, gs) ==
    \A a \in 1..Len(es) : \A c \in 1..Len(gs) : es[a].turn = gs[c].turn => es[a].id = gs[c].id

\* Appending a buffer keeps the turns of the file apart from those of further events
\* that agree with it.
LEMMA ApartAppended ==
    ASSUME SessionStoreAssumption, NEW f \in Seq(Token), NEW es \in Seq(Event),
           NEW b \in Seq(Token), Buffer(b, es),
           NEW gs \in Seq(Event), Agree(es, gs), ApartFrom(f, gs)
    PROVE  ApartFrom(f \o b, gs)
<1> SUFFICES ASSUME NEW i \in 1..Len(f \o b), NEW a \in 1..Len(gs),
                    Closed(f \o b, i), (f \o b)[i].turn = gs[a].turn
             PROVE  (f \o b)[i].id = gs[a].id
  BY DEF ApartFrom
<1>1. \/ i \in 1..Len(f) /\ Closed(f, i)
      \/ IsOf((f \o b)[i], es)
  BY BeginsAppended
<1>2. CASE i \in 1..Len(f) /\ Closed(f, i)
  BY <1>2, Appended DEF ApartFrom
<1>3. CASE IsOf((f \o b)[i], es)
  BY <1>3 DEF IsOf, Agree
<1> QED BY <1>1, <1>2, <1>3

\* Appending a buffer of a turn that is not in the file keeps its turns apart.
LEMMA TurnsApartAppended ==
    ASSUME SessionStoreAssumption, NEW f \in Seq(Token), NEW es \in Seq(Event),
           NEW b \in Seq(Token), Buffer(b, es),
           Agree(es, es), ApartFrom(f, es), TurnsApart(f)
    PROVE  TurnsApart(f \o b)
<1> SUFFICES ASSUME NEW i \in 1..Len(f \o b), NEW j \in 1..Len(f \o b), i < j,
                    Closed(f \o b, i), Begins(f \o b, j), (f \o b)[i].turn = (f \o b)[j].turn
             PROVE  (f \o b)[i].id = (f \o b)[j].id
  BY DEF TurnsApart
<1>1. ApartFrom(f \o b, es)
  BY ApartAppended
<1>2. (j \in 1..Len(f) /\ Begins(f, j)) \/ IsOf((f \o b)[j], es)
  BY BeginsAppended
<1>3. CASE IsOf((f \o b)[j], es)
  BY <1>1, <1>3 DEF IsOf, ApartFrom
<1>4. CASE j \in 1..Len(f) /\ Begins(f, j)
  <2>1. Len(f) \in Nat /\ i \in 1..Len(f) /\ (f \o b)[i] = f[i] /\ (f \o b)[j] = f[j]
    BY <1>4, Appended
  <2>2. Closed(f, i)
    BY <2>1, BeginsAppended
  <2> QED BY <1>4, <2>1, <2>2 DEF TurnsApart
<1> QED BY <1>2, <1>3, <1>4

\* Appending a buffer of turns below m keeps the closed lines below m.
LEMMA BelowAppended ==
    ASSUME SessionStoreAssumption, NEW f \in Seq(Token), NEW es \in Seq(Event),
           NEW b \in Seq(Token), Buffer(b, es), NEW n \in Nat, NEW m \in Nat, n <= m,
           Below(f, n), \A a \in 1..Len(es) : es[a].turn < m
    PROVE  Below(f \o b, m)
<1> SUFFICES ASSUME NEW i \in 1..Len(f \o b), Closed(f \o b, i)
             PROVE  (f \o b)[i].turn < m
  BY DEF Below
<1>1. (i \in 1..Len(f) /\ Closed(f, i)) \/ IsOf((f \o b)[i], es)
  BY BeginsAppended
<1>2. CASE i \in 1..Len(f) /\ Closed(f, i)
  <2>1. (f \o b)[i] = f[i] /\ f[i] \in Token
    BY <1>2, Appended
  <2>2. f[i].turn \in Nat /\ f[i].turn < n
    BY <1>2, <2>1, TokenIs DEF Below
  <2> QED BY <2>1, <2>2
<1>3. CASE IsOf((f \o b)[i], es)
  BY <1>3 DEF IsOf
<1> QED BY <1>1, <1>2, <1>3

\* Without multi-byte text nothing is cut inside a character.
LEMMA NoCutsAppended ==
    ASSUME SessionStoreAssumption, NEW f \in Seq(Token), NEW es \in Seq(Event),
           NEW b \in Seq(Token), Buffer(b, es), ~MultiByte, NoCuts(f)
    PROVE  NoCuts(f \o b)
<1> SUFFICES ASSUME NEW i \in 1..Len(f \o b) PROVE (f \o b)[i].kind # "cut"
  BY DEF NoCuts
<1>1. i \in 1..Len(f) \/ \E p \in 1..Len(b) : i = Len(f) + p
  BY Appended
<1>2. CASE i \in 1..Len(f)
  BY <1>2, Appended DEF NoCuts
<1>3. CASE \E p \in 1..Len(b) : i = Len(f) + p
  BY <1>3, Appended, BufferIs
<1> QED BY <1>1, <1>2, <1>3

\* What is held stays held by a log that begins alike.
LEMMA HoldsOn ==
    ASSUME NEW f, NEW g, NEW n \in Nat, NEW m \in Nat, n <= m, NEW id,
           \A i \in 1..n : g[i] = f[i], Holds(f, n, id)
    PROVE  Holds(g, m, id)
<1>1. PICK i \in 1..(n - 1) : f[i].kind = "event" /\ f[i].id = id /\ f[i + 1].kind = "nl"
  BY DEF Holds
<1>2. i \in 1..(m - 1) /\ i \in 1..n /\ i + 1 \in 1..n
  OBVIOUS
<1>3. g[i] = f[i] /\ g[i + 1] = f[i + 1]
  BY <1>2
<1> QED BY <1>1, <1>2, <1>3 DEF Holds

\* A write that succeeds leaves the log with every event of the batch.
LEMMA HoldsWritten ==
    ASSUME SessionStoreAssumption, NEW f \in Seq(Token), NEW es \in Seq(Event), NEW a \in 1..Len(es)
    PROVE  Holds(f \o Encode(es), Len(f \o Encode(es)), es[a].id)
<1>1. /\ Encode(es) \in Seq(Token) /\ Len(Encode(es)) = 2 * Len(es) /\ Len(es) \in Nat
      /\ Encode(es)[2 * a - 1] = es[a] /\ Encode(es)[2 * a] = NL /\ es[a].kind = "event"
  BY EncodeIs, EventIs
<1>2. 2 * a - 1 \in 1..Len(Encode(es)) /\ 2 * a \in 1..Len(Encode(es))
  BY <1>1
<1>3. /\ Len(f) \in Nat /\ Len(f \o Encode(es)) = Len(f) + Len(Encode(es))
      /\ (f \o Encode(es))[Len(f) + (2 * a - 1)] = es[a]
      /\ (f \o Encode(es))[Len(f) + 2 * a] = NL
  BY <1>1, <1>2, Appended
<1>4. PICK i : i = Len(f) + (2 * a - 1)
  OBVIOUS
<1>5. i \in 1..(Len(f \o Encode(es)) - 1) /\ i + 1 = Len(f) + 2 * a
  <2>1. PICK n, m : n = Len(f) /\ m = Len(es)
    OBVIOUS
  <2>2. /\ n \in Nat /\ m \in Nat /\ a \in 1..m /\ i = n + (2 * a - 1)
        /\ Len(f \o Encode(es)) = n + 2 * m
    BY <1>1, <1>3, <1>4, <2>1
  <2>3. i \in 1..(n + 2 * m - 1) /\ i + 1 = n + 2 * a
    BY <2>2
  <2> QED BY <2>1, <2>2, <2>3
<1> QED BY <1>1, <1>3, <1>4, <1>5, NLIs DEF Holds

-----------------------------------------------------------------------------
\* The glued events are finitely many.
LEMMA GluedIs ==
    ASSUME SessionStoreAssumption, NEW f \in Seq(Token)
    PROVE  IsFiniteSet(Glued(f)) /\ Cardinality(Glued(f)) \in Nat
<1>1. Len(f) \in Nat
  BY LenProperties
<1>2. IsFiniteSet(2..(Len(f) - 1))
  BY <1>1, FS_Interval
<1>3. Glued(f) \subseteq 2..(Len(f) - 1)
  BY DEF Glued
<1>4. IsFiniteSet(Glued(f))
  BY <1>2, <1>3, FS_Subset
<1> QED BY <1>4, FS_CardinalityType

\* An append glues at most its first event, and only to a torn line.
LEMMA GluedAppended ==
    ASSUME SessionStoreAssumption, NEW f \in Seq(Token), NEW es \in Seq(Event),
           NEW b \in Seq(Token), Buffer(b, es)
    PROVE  Cardinality(Glued(f \o b)) <= Cardinality(Glued(f)) + (IF Torn(f) THEN 1 ELSE 0)
<1>1. /\ f \o b \in Seq(Token) /\ Len(f) \in Nat /\ Len(b) \in Nat
      /\ Len(f \o b) = Len(f) + Len(b)
      /\ \A j \in 1..Len(f) : (f \o b)[j] = f[j]
      /\ \A p \in 1..Len(b) : (f \o b)[Len(f) + p] = b[p]
  BY Appended
<1>2. /\ Len(b) > 0 => b[1].kind # "nl"
      /\ \A p \in 2..Len(b) : b[p].kind # "nl" => b[p - 1].kind = "nl"
  BY BufferIs
<1>3. ASSUME NEW i \in Glued(f \o b), i # Len(f) + 1
      PROVE  i \in Glued(f)
  <2>1. /\ i \in 2..(Len(f) + Len(b) - 1) /\ (f \o b)[i].kind = "event"
        /\ (f \o b)[i + 1].kind = "nl" /\ (f \o b)[i - 1].kind # "nl"
    BY <1>1 DEF Glued
  <2>2. CASE i > Len(f)
    <3>1. PICK p : p = i - Len(f)
      OBVIOUS
    <3>2. p \in 2..Len(b) /\ p - 1 \in 1..Len(b) /\ i = Len(f) + p /\ i - 1 = Len(f) + (p - 1)
      BY <1>1, <1>3, <2>1, <2>2, <3>1
    <3>3. (f \o b)[i] = b[p] /\ (f \o b)[i - 1] = b[p - 1]
      <4>1. p \in 1..Len(b)
        BY <1>1, <3>2
      <4>2. (f \o b)[Len(f) + p] = b[p] /\ (f \o b)[Len(f) + (p - 1)] = b[p - 1]
        BY <1>1, <3>2, <4>1, Zenon
      <4> QED BY <3>2, <4>2
    <3>4. b[p].kind # "nl"
      BY <2>1, <3>3
    <3> QED BY <1>2, <2>1, <3>2, <3>3, <3>4
  <2>3. CASE i = Len(f)
    <3>1. i + 1 = Len(f) + 1 /\ 1 \in 1..Len(b) /\ Len(b) > 0
      BY <1>1, <2>1, <2>3
    <3>2. (f \o b)[i + 1] = b[1]
      BY <1>1, <3>1
    <3> QED BY <1>2, <2>1, <3>1, <3>2
  <2>4. CASE i < Len(f)
    <3>1. i \in 1..Len(f) /\ i - 1 \in 1..Len(f) /\ i + 1 \in 1..Len(f) /\ i \in 2..(Len(f) - 1)
      BY <1>1, <2>1, <2>4
    <3>2. (f \o b)[i] = f[i] /\ (f \o b)[i - 1] = f[i - 1] /\ (f \o b)[i + 1] = f[i + 1]
      BY <1>1, <3>1
    <3> QED BY <2>1, <3>1, <3>2 DEF Glued
  <2> QED BY <1>1, <2>1, <2>2, <2>3, <2>4
<1>4. Len(f) + 1 \in Glued(f \o b) => Torn(f)
  <2> SUFFICES ASSUME Len(f) + 1 \in Glued(f \o b) PROVE Torn(f)
    OBVIOUS
  <2>1. /\ Len(f) + 1 \in 2..(Len(f) + Len(b) - 1) /\ (f \o b)[Len(f) + 1 - 1].kind # "nl"
    BY <1>1 DEF Glued
  <2>2. Len(f) + 1 - 1 = Len(f) /\ Len(f) \in 1..Len(f) /\ Len(f) > 0
    BY <1>1, <2>1
  <2>3. (f \o b)[Len(f)] = f[Len(f)]
    BY <1>1, <2>2
  <2> QED BY <2>1, <2>2, <2>3 DEF Torn
<1>5. IsFiniteSet(Glued(f)) /\ Cardinality(Glued(f)) \in Nat /\ Cardinality(Glued(f \o b)) \in Nat
  BY <1>1, GluedIs
<1>6. CASE Torn(f)
  <2>1. Glued(f \o b) \subseteq Glued(f) \cup {Len(f) + 1}
    BY <1>3
  <2>2. /\ IsFiniteSet(Glued(f) \cup {Len(f) + 1})
        /\ Cardinality(Glued(f) \cup {Len(f) + 1}) <= Cardinality(Glued(f)) + 1
    <3>1. PICK G : G = Glued(f)
      OBVIOUS
    <3>2. PICK x : x = Len(f) + 1
      OBVIOUS
    <3>3. IsFiniteSet(G) /\ Cardinality(G) \in Nat
      BY <1>5, <3>1
    <3>4. /\ IsFiniteSet(G \cup {x})
          /\ Cardinality(G \cup {x}) = IF x \in G THEN Cardinality(G) ELSE Cardinality(G) + 1
      BY <3>3, FS_AddElement
    <3>5. Cardinality(G \cup {x}) <= Cardinality(G) + 1
      BY <3>3, <3>4
    <3> QED BY <3>1, <3>2, <3>4, <3>5
  <2>3. /\ Cardinality(Glued(f \o b)) <= Cardinality(Glued(f) \cup {Len(f) + 1})
        /\ Cardinality(Glued(f) \cup {Len(f) + 1}) \in Nat
    BY <2>1, <2>2, FS_Subset, FS_CardinalityType
  <2> QED BY <1>5, <1>6, <2>2, <2>3
<1>7. CASE ~Torn(f)
  <2>1. Glued(f \o b) \subseteq Glued(f)
    BY <1>3, <1>4, <1>7
  <2>2. Cardinality(Glued(f \o b)) <= Cardinality(Glued(f))
    BY <1>5, <2>1, FS_Subset
  <2> QED BY <1>5, <1>7, <2>2
<1> QED BY <1>6, <1>7

\* An append glues at most one line, and none to a file that ends with its line.
LEMMA DebtAppended ==
    ASSUME SessionStoreAssumption, NEW f \in Seq(Token), NEW es \in Seq(Event),
           NEW b \in Seq(Token), Buffer(b, es), NEW n \in Nat, Debt(f, n)
    PROVE  Debt(f \o b, n + 1) /\ (~Torn(f \o b) => Debt(f \o b, n))
<1>1. /\ Cardinality(Glued(f)) \in Nat /\ Cardinality(Glued(f \o b)) \in Nat
  BY Appended, GluedIs
<1>2. Cardinality(Glued(f \o b)) <= Cardinality(Glued(f)) + (IF Torn(f) THEN 1 ELSE 0)
  BY GluedAppended
<1>3. Cardinality(Glued(f \o b)) <= n
  BY <1>1, <1>2 DEF Debt
<1> QED BY <1>1, <1>3 DEF Debt

\* A write that succeeds ends its last line.
LEMMA WholeIsNotTorn ==
    ASSUME SessionStoreAssumption, NEW f \in Seq(Token), NEW es \in Seq(Event), Len(es) > 0
    PROVE  ~Torn(f \o Encode(es))
<1>1. /\ Encode(es) \in Seq(Token) /\ Len(Encode(es)) = 2 * Len(es) /\ Len(es) \in Nat
      /\ Len(es) \in 1..Len(es) /\ Encode(es)[2 * Len(es)] = NL
  BY EncodeIs
<1>2. 2 * Len(es) \in 1..Len(Encode(es))
  BY <1>1
<1>3. (f \o Encode(es))[Len(f) + 2 * Len(es)] = NL /\ Len(f \o Encode(es)) = Len(f) + 2 * Len(es)
  BY <1>1, <1>2, Appended
<1> QED BY <1>3, NLIs DEF Torn

-----------------------------------------------------------------------------
\* What a power loss leaves of a log whose first n tokens are safe.
Remains(g, f, n) ==
    /\ g \in Seq(Token) /\ Len(g) <= Len(f) /\ n <= Len(g)
    /\ \A i \in 1..n : g[i] = f[i]
    /\ CutIs(g, f)

\* A loss of power leaves the synced part and a cut of the rest.
LEMMA PowerLossLeaves ==
    ASSUME SessionStoreAssumption, NEW f \in Seq(Token), NEW n \in 0..Len(f),
           NEW c \in CutShort(SubSeq(f, n + 1, Len(f)))
    PROVE  Remains(SubSeq(f, 1, n) \o c, f, n)
<1>1. Len(f) \in Nat /\ \A i \in 1..Len(f) : f[i] \in Token
  BY LenProperties, ElementOfSeq
<1>2. PICK r : r = SubSeq(f, n + 1, Len(f))
  OBVIOUS
<1>3. PICK h : h = SubSeq(f, 1, n)
  OBVIOUS
<1>4. r \in Seq(Token) /\ Len(r) = Len(f) - n /\ \A i \in 1..(Len(f) - n) : r[i] = f[n + i]
  BY <1>1, <1>2
<1>5. h \in Seq(Token) /\ Len(h) = n /\ \A i \in 1..n : h[i] = f[i]
  BY <1>1, <1>3
<1>6. CutIs(c, r) /\ c \in Seq(Token) /\ Len(c) \in Nat
  BY <1>2, <1>4, CutShortIs, LenProperties DEF CutIs
<1>7. /\ h \o c \in Seq(Token) /\ Len(h \o c) = n + Len(c)
      /\ \A i \in 1..n : (h \o c)[i] = f[i]
      /\ \A p \in 1..Len(c) : (h \o c)[n + p] = c[p]
      /\ \A i \in 1..Len(h \o c) : i \in 1..n \/ \E p \in 1..Len(c) : i = n + p
  <2>1. /\ h \o c \in Seq(Token) /\ Len(h \o c) = Len(h) + Len(c)
        /\ \A i \in 1..Len(h) : (h \o c)[i] = h[i]
        /\ \A p \in 1..Len(c) : (h \o c)[Len(h) + p] = c[p]
        /\ \A i \in 1..Len(h \o c) : i \in 1..Len(h) \/ \E p \in 1..Len(c) : i = Len(h) + p
    BY <1>5, <1>6, Appended
  <2> QED BY <1>5, <2>1
<1>8. Len(c) <= Len(f) - n
  BY <1>4, <1>6 DEF CutIs
<1>9. ASSUME NEW i \in 1..Len(h \o c)
      PROVE  \/ (h \o c)[i] = f[i]
             \/ /\ i = Len(h \o c) /\ f[i].kind = "event" /\ (h \o c)[i].kind \in {"frag", "cut"}
                /\ (h \o c)[i].id = f[i].id /\ (h \o c)[i].turn = f[i].turn
                /\ ((h \o c)[i].kind = "cut" => MultiByte)
  <2>1. CASE i \in 1..n
    BY <1>7, <2>1
  <2>2. CASE \E p \in 1..Len(c) : i = n + p
    <3>1. PICK p \in 1..Len(c) : i = n + p
      BY <2>2
    <3>2. (h \o c)[i] = c[p] /\ r[p] = f[i] /\ (p = Len(c) => i = Len(h \o c))
      <4>1. p \in 1..(Len(f) - n)
        BY <1>1, <1>6, <1>8
      <4>2. r[p] = f[n + p]
        BY <1>4, <4>1
      <4>3. (h \o c)[i] = c[p]
        BY <1>7, <3>1
      <4>4. p = Len(c) => i = Len(h \o c)
        BY <1>7, <3>1
      <4> QED BY <3>1, <4>2, <4>3, <4>4
    <3>3. \/ c[p] = r[p]
          \/ /\ p = Len(c) /\ r[p].kind = "event" /\ c[p].kind \in {"frag", "cut"}
             /\ c[p].id = r[p].id /\ c[p].turn = r[p].turn /\ (c[p].kind = "cut" => MultiByte)
      BY <1>6 DEF CutIs
    <3> QED BY <3>2, <3>3
  <2> QED BY <1>7, <2>1, <2>2
<1>10. Len(h \o c) <= Len(f) /\ n <= Len(h \o c)
  BY <1>1, <1>6, <1>7, <1>8
<1>11. CutIs(h \o c, f)
  BY <1>7, <1>9, <1>10 DEF CutIs
<1> QED BY <1>3, <1>7, <1>10, <1>11 DEF Remains

\* A token of what remains is the old one or its torn beginning.
LEMMA CutKeeps ==
    ASSUME SessionStoreAssumption, NEW f \in Seq(Token), NEW g, CutIs(g, f)
    PROVE  /\ g \in Seq(Token) /\ Len(g) \in Nat /\ Len(f) \in Nat /\ Len(g) <= Len(f)
           /\ \A i \in 1..Len(g) : /\ i \in 1..Len(f) /\ g[i] \in Token /\ f[i] \in Token
                                   /\ g[i].id = f[i].id /\ g[i].turn = f[i].turn
                                   /\ (g[i].kind = "nl" <=> f[i].kind = "nl")
                                   /\ g[i].kind = "event" => g[i] = f[i]
                                   /\ (g[i].kind = "cut" => f[i].kind = "cut" \/ MultiByte)
           /\ \A i \in 1..Len(g) : Begins(g, i) => Begins(f, i)
           /\ \A i \in 1..Len(g) : Closed(g, i) => Closed(f, i)
<1>1. g \in Seq(Token) /\ Len(g) \in Nat /\ Len(f) \in Nat /\ Len(g) <= Len(f)
  BY LenProperties DEF CutIs
<1>2. \A i \in 1..Len(g) : /\ i \in 1..Len(f) /\ g[i] \in Token /\ f[i] \in Token
                           /\ g[i].id = f[i].id /\ g[i].turn = f[i].turn
                           /\ (g[i].kind = "nl" <=> f[i].kind = "nl")
                           /\ (g[i].kind = "event" => g[i] = f[i])
                           /\ (g[i].kind = "cut" => f[i].kind = "cut" \/ MultiByte)
  <2> SUFFICES ASSUME NEW i \in 1..Len(g)
               PROVE  /\ i \in 1..Len(f) /\ g[i] \in Token /\ f[i] \in Token
                      /\ g[i].id = f[i].id /\ g[i].turn = f[i].turn
                      /\ (g[i].kind = "nl" <=> f[i].kind = "nl")
                      /\ (g[i].kind = "event" => g[i] = f[i])
                      /\ (g[i].kind = "cut" => f[i].kind = "cut" \/ MultiByte)
    OBVIOUS
  <2>1. i \in 1..Len(f) /\ g[i] \in Token /\ f[i] \in Token
    BY <1>1, ElementOfSeq
  <2>2. \/ g[i] = f[i]
        \/ /\ f[i].kind = "event" /\ g[i].kind \in {"frag", "cut"}
           /\ g[i].id = f[i].id /\ g[i].turn = f[i].turn /\ (g[i].kind = "cut" => MultiByte)
    BY DEF CutIs
  <2> QED BY <2>1, <2>2
<1>3. ASSUME NEW i \in 1..Len(g), Begins(g, i) PROVE Begins(f, i)
  <2>1. g[i].kind = "event" /\ g[i] = f[i]
    BY <1>2, <1>3 DEF Begins
  <2>2. CASE i = 1
    BY <2>1, <2>2 DEF Begins
  <2>3. CASE i # 1
    <3>1. i - 1 \in 1..Len(g) /\ g[i - 1].kind = "nl"
      BY <1>1, <1>3, <2>3 DEF Begins
    <3> QED BY <1>2, <2>1, <3>1 DEF Begins
  <2> QED BY <2>2, <2>3
<1>4. ASSUME NEW i \in 1..Len(g), EndedAt(g, i) PROVE EndedAt(f, i)
  <2>1. i + 1 \in 1..Len(g) /\ g[i + 1].kind = "nl" /\ i < Len(f)
    BY <1>1, <1>4 DEF EndedAt
  <2> QED BY <1>2, <2>1 DEF EndedAt
<1> QED BY <1>1, <1>2, <1>3, <1>4 DEF Closed

\* A cut file is torn once more, and no turns get closer.
LEMMA CutSpares ==
    ASSUME SessionStoreAssumption, NEW f \in Seq(Token), NEW g, CutIs(g, f), NEW n \in Nat, Debt(f, n)
    PROVE  /\ Debt(g, n + 1)
           /\ TurnsApart(f) => TurnsApart(g)
           /\ ~MultiByte /\ NoCuts(f) => NoCuts(g)
<1>1. /\ g \in Seq(Token) /\ Len(g) \in Nat /\ Len(f) \in Nat /\ Len(g) <= Len(f)
      /\ \A i \in 1..Len(g) : /\ i \in 1..Len(f) /\ g[i] \in Token /\ f[i] \in Token
                              /\ g[i].id = f[i].id /\ g[i].turn = f[i].turn
                              /\ (g[i].kind = "nl" <=> f[i].kind = "nl")
                              /\ (g[i].kind = "event" => g[i] = f[i])
                              /\ (g[i].kind = "cut" => f[i].kind = "cut" \/ MultiByte)
      /\ \A i \in 1..Len(g) : Begins(g, i) => Begins(f, i)
      /\ \A i \in 1..Len(g) : Closed(g, i) => Closed(f, i)
  BY CutKeeps
<1>2. Glued(g) \subseteq Glued(f)
  <2> SUFFICES ASSUME NEW i \in Glued(g) PROVE i \in Glued(f)
    OBVIOUS
  <2>1. /\ i \in 2..(Len(g) - 1) /\ g[i].kind = "event" /\ g[i + 1].kind = "nl" /\ g[i - 1].kind # "nl"
    BY DEF Glued
  <2>2. /\ i \in 1..Len(g) /\ i + 1 \in 1..Len(g) /\ i - 1 \in 1..Len(g) /\ i \in 2..(Len(f) - 1)
    BY <1>1, <2>1
  <2>3. f[i].kind = "event" /\ f[i + 1].kind = "nl" /\ f[i - 1].kind # "nl"
    BY <1>1, <2>1, <2>2
  <2> QED BY <2>2, <2>3 DEF Glued
<1>3. Cardinality(Glued(g)) \in Nat /\ Cardinality(Glued(f)) \in Nat /\ IsFiniteSet(Glued(f))
  BY <1>1, GluedIs
<1>4. Cardinality(Glued(g)) <= Cardinality(Glued(f))
  BY <1>2, <1>3, FS_Subset
<1>5. Debt(g, n + 1)
  BY <1>3, <1>4 DEF Debt
<1>6. TurnsApart(f) => TurnsApart(g)
  BY <1>1 DEF TurnsApart
<1>7. ~MultiByte /\ NoCuts(f) => NoCuts(g)
  BY <1>1 DEF NoCuts
<1> QED BY <1>5, <1>6, <1>7

-----------------------------------------------------------------------------
\* A set of numbers with a bound has a largest one.
LEMMA Topmost ==
    ASSUME NEW n \in Nat, NEW S \in SUBSET (0..n), S # {}
    PROVE  \E t \in S : \A u \in S : u <= t
<1>1. PICK D : D = {n - u : u \in S}
  OBVIOUS
<1>2. \A u \in S : n - u \in D /\ n - u \in Nat
  BY <1>1
<1>3. D \subseteq Nat /\ D # {}
  BY <1>1, <1>2
<1>4. PICK d \in D : \A e \in D : ~(<<e, d>> \in OpToRel(<, Nat))
  BY <1>3, NatLessThanWellFounded, WFMin
<1>5. \A e \in D : ~(e < d)
  BY <1>3, <1>4 DEF OpToRel
<1>6. PICK t \in S : d = n - t
  BY <1>1
<1>7. \A u \in S : u <= t
  BY <1>2, <1>5, <1>6
<1> QED BY <1>7

\* next_turn_index is above every turn that loads, and just above one of them.
LEMMA NextTurnIs ==
    ASSUME SessionStoreAssumption, NEW f \in Seq(Token)
    PROVE  /\ NextTurnIndex(f) \in 0..MaxEvents
           /\ \A i \in Loaded(f) : f[i].turn < NextTurnIndex(f)
           /\ NextTurnIndex(f) = 0 \/ \E i \in Loaded(f) : f[i].turn = NextTurnIndex(f) - 1
<1>1. Len(f) \in Nat /\ \A i \in 1..Len(f) : f[i] \in Token
  BY LenProperties, ElementOfSeq
<1>2. \A i \in Loaded(f) : f[i].turn \in Turns
  BY <1>1, TokenIs DEF Loaded, LineLoads
<1>3. MaxEvents \in Nat
  BY DEF SessionStoreAssumption
<1>4. \E n \in 0..MaxEvents :
        /\ \A i \in Loaded(f) : f[i].turn < n
        /\ n = 0 \/ \E i \in Loaded(f) : f[i].turn = n - 1
  <2>1. CASE Loaded(f) = {}
    BY <1>3, <2>1
  <2>2. CASE Loaded(f) # {}
    <3>1. PICK S : S = {f[i].turn : i \in Loaded(f)}
      OBVIOUS
    <3>2. S # {} /\ S \in SUBSET (0..MaxEvents)
      BY <1>2, <1>3, <2>2, <3>1 DEF Turns
    <3>3. PICK t \in S : \A u \in S : u <= t
      BY <1>3, <3>2, Topmost
    <3>4. PICK k \in Loaded(f) : f[k].turn = t
      BY <3>1
    <3>5. t + 1 \in 0..MaxEvents /\ (t + 1) - 1 = t
      BY <1>2, <1>3, <3>4 DEF Turns
    <3>6. \A i \in Loaded(f) : f[i].turn < t + 1
      <4> SUFFICES ASSUME NEW i \in Loaded(f) PROVE f[i].turn < t + 1
        OBVIOUS
      <4>1. f[i].turn \in S /\ f[i].turn \in Nat /\ t \in Nat
        BY <1>2, <1>3, <3>1, <3>4 DEF Turns
      <4>2. f[i].turn <= t
        BY <3>3, <4>1
      <4> QED BY <4>1, <4>2
    <3> QED BY <3>4, <3>5, <3>6
  <2> QED BY <2>1, <2>2
<1> QED BY <1>4 DEF NextTurnIndex

\* The invariant gives the three properties.
LEMMA TearsCost ==
    ASSUME SessionStoreAssumption, StoreInv
    PROVE  TearCostsOne
<1> SUFFICES ASSUME ~MultiByte
             PROVE  /\ Cardinality(Lost) <= tears
                    /\ \A id \in Lost :
                         \E i \in 2..Len(file) : file[i].id = id /\ file[i].kind = "event"
                                                 /\ file[i - 1].kind # "nl"
  BY DEF TearCostsOne
<1>1. /\ file \in Seq(Token) /\ Len(file) \in Nat /\ synced \in 0..Len(file) /\ tears \in Nat
      /\ \A i \in 1..Len(file) : file[i].kind # "cut"
      /\ \A id \in safe : Holds(file, synced, id)
      /\ Debt(file, tears)
  <2>1. StoreTypeOK /\ NoCuts(file) /\ Reported /\ Debt(file, tears)
    BY DEF StoreInv
  <2>2. file \in Seq(Token) /\ synced \in 0..Len(file) /\ tears \in 0..MaxTears
    BY <2>1 DEF StoreTypeOK
  <2> QED BY <2>1, <2>2, LenProperties DEF NoCuts, Reported, SessionStoreAssumption
<1>2. ASSUME NEW id \in Lost
      PROVE  \E i \in Glued(file) : file[i].id = id
  <2>1. Holds(file, synced, id) /\ id \notin LoadedIds
    BY <1>1 DEF Lost
  <2>2. PICK i \in 1..(synced - 1) :
          file[i].kind = "event" /\ file[i].id = id /\ file[i + 1].kind = "nl"
    BY <2>1 DEF Holds
  <2>3. i \in 1..Len(file) /\ i < Len(file)
    BY <1>1
  <2>4. ~LineLoads(file, i)
    <3>1. ~LoadFails(file)
      BY <1>1 DEF LoadFails
    <3> QED BY <2>1, <2>2, <2>3, <3>1 DEF LoadedIds, Loaded
  <2>5. i # 1 /\ file[i - 1].kind # "nl"
    BY <2>2, <2>4 DEF LineLoads
  <2>6. i \in 2..(Len(file) - 1)
    BY <1>1, <2>3, <2>5
  <2> QED BY <2>2, <2>5, <2>6 DEF Glued
<1>3. \A id \in Lost :
         \E i \in 2..Len(file) : file[i].id = id /\ file[i].kind = "event"
                                 /\ file[i - 1].kind # "nl"
  <2> SUFFICES ASSUME NEW id \in Lost
               PROVE  \E i \in 2..Len(file) : file[i].id = id /\ file[i].kind = "event"
                                              /\ file[i - 1].kind # "nl"
    OBVIOUS
  <2>1. PICK i \in Glued(file) : file[i].id = id
    BY <1>2
  <2>2. i \in 2..Len(file) /\ file[i].kind = "event" /\ file[i - 1].kind # "nl"
    BY <1>1 DEF Glued
  <2> QED BY <2>1, <2>2
<1>4. PICK T : T = {file[i].id : i \in Glued(file)}
  OBVIOUS
<1>5. PICK m : m = [i \in Glued(file) |-> file[i].id]
  OBVIOUS
<1>6. m \in Surjection(Glued(file), T)
  BY <1>4, <1>5 DEF Surjection
<1>7. IsFiniteSet(Glued(file)) /\ Cardinality(Glued(file)) \in Nat
  BY <1>1, GluedIs
<1>8. IsFiniteSet(T) /\ Cardinality(T) <= Cardinality(Glued(file)) /\ Cardinality(T) \in Nat
  BY <1>6, <1>7, FS_Surjection, FS_CardinalityType
<1>9. Lost \subseteq T
  BY <1>2, <1>4
<1>10. Cardinality(Lost) <= Cardinality(T) /\ Cardinality(Lost) \in Nat
  BY <1>8, <1>9, FS_Subset, FS_CardinalityType
<1>11. Cardinality(Glued(file)) <= tears
  BY <1>1 DEF Debt
<1> QED BY <1>1, <1>3, <1>7, <1>8, <1>10, <1>11

\* The invariant gives TurnsDistinct.
LEMMA TurnsStayDistinct ==
    ASSUME SessionStoreAssumption, StoreInv
    PROVE  TurnsDistinct
<1> SUFFICES ASSUME ~MultiByte, NEW i \in Loaded(file), NEW j \in Loaded(file),
                    file[i].turn = file[j].turn
             PROVE  file[i].id = file[j].id
  BY DEF TurnsDistinct
<1>1. TurnsApart(file) /\ file \in Seq(Token) /\ Len(file) \in Nat
  BY LenProperties DEF StoreInv, StoreTypeOK
<1>2. \A k \in Loaded(file) : /\ k \in 1..Len(file) /\ Begins(file, k)
                              /\ (k < Len(file) => Closed(file, k))
  BY DEF Loaded, LineLoads, Begins, Closed, EndedAt
<1>3. CASE i < j
  BY <1>1, <1>2, <1>3 DEF TurnsApart
<1>4. CASE j < i
  BY <1>1, <1>2, <1>4 DEF TurnsApart
<1>5. CASE i = j
  BY <1>5
<1> QED BY <1>1, <1>2, <1>3, <1>4, <1>5

\* The invariant gives LogSurvives.
LEMMA InvGivesSurvival == ASSUME SessionStoreAssumption, StoreInv PROVE LogSurvives
  BY TearsCost, TurnsStayDistinct DEF LogSurvives, StoreInv

-----------------------------------------------------------------------------
\* What the invariant says of the variables.
LEMMA StoreIs ==
    ASSUME SessionStoreAssumption, StoreInv
    PROVE  /\ up \in BOOLEAN /\ file \in Seq(Token) /\ Len(file) \in Nat /\ synced \in 0..Len(file)
           /\ pending \in Seq(Event) /\ Len(pending) \in Nat
           /\ \A a \in 1..Len(pending) : pending[a] \in Event
           /\ turnIndex \in Nat /\ turnIndex <= count /\ count \in Nat /\ count <= MaxEvents
           /\ MaxEvents \in Nat /\ turnIndex \in 0..MaxEvents
           /\ written \subseteq Ids /\ safe \subseteq written /\ logged \subseteq Ids
           /\ givenUp \subseteq Ids
           /\ tears \in Nat /\ tears <= MaxTears /\ MaxTears \in Nat
<1>1. StoreTypeOK /\ turnIndex <= count
  BY DEF StoreInv, Counted
<1>2. /\ up \in BOOLEAN /\ file \in Seq(Token) /\ synced \in 0..Len(file)
      /\ pending \in Seq(Event) /\ turnIndex \in 0..MaxEvents /\ count \in 0..MaxEvents
      /\ written \subseteq Ids /\ safe \subseteq written /\ logged \subseteq Ids
      /\ givenUp \subseteq Ids /\ tears \in 0..MaxTears
  BY <1>1 DEF StoreTypeOK
<1>3. MaxEvents \in Nat /\ MaxTears \in Nat
  BY DEF SessionStoreAssumption
<1>4. Len(file) \in Nat /\ Len(pending) \in Nat /\ \A a \in 1..Len(pending) : pending[a] \in Event
  BY <1>2, LenProperties, ElementOfSeq
<1> QED BY <1>1, <1>2, <1>3, <1>4

\* Events that may be written now: n counts them, m is above their turns.
MayWrite(es, n, m) ==
    /\ Agree(es, es) /\ Agree(es, pending) /\ CountedEvents(es, n)
    /\ ~MultiByte => ApartFrom(file, es)
    /\ \A a \in 1..Len(es) : es[a].turn < m

\* What a log that has grown keeps.
Grown(g, n, m) ==
    /\ g \in Seq(Token) /\ Len(g) \in Nat /\ Len(file) <= Len(g)
    /\ \A i \in 1..Len(file) : g[i] = file[i]
    /\ CountedLog(g, n)
    /\ \A id \in written : Holds(g, Len(g), id)
    /\ \A id \in safe : Holds(g, synced, id)
    /\ Debt(g, tears + 1) /\ (~Torn(g) => Debt(g, tears))
    /\ ~MultiByte => /\ NoCuts(g) /\ TurnsApart(g) /\ ApartFrom(g, pending)
                     /\ (up => Below(g, m))

\* What an append of a buffer leaves of the invariant.
LEMMA LogGrows ==
    ASSUME SessionStoreAssumption, StoreInv, NEW es \in Seq(Event), NEW b \in Seq(Token),
           Buffer(b, es), NEW n \in Nat, NEW m \in Nat, count <= n, turnIndex <= m,
           MayWrite(es, n, m)
    PROVE  Grown(file \o b, n, m)
<1>1. PICK g : g = file \o b
  OBVIOUS
<1>2. /\ g \in Seq(Token) /\ Len(g) \in Nat /\ Len(file) <= Len(g)
      /\ \A i \in 1..Len(file) : g[i] = file[i]
  BY <1>1, StoreIs, Appended
<1>3. CountedLog(g, n)
  <2> SUFFICES ASSUME NEW i \in 1..Len(g)
               PROVE  g[i].id <= n /\ (g[i].kind # "nl" => g[i].turn < g[i].id)
    BY DEF CountedLog
  <2>1. CASE i \in 1..Len(file)
    <3>1. g[i] = file[i] /\ file[i] \in Token
      BY <1>2, <2>1, StoreIs, ElementOfSeq
    <3>2. file[i].id <= count /\ (file[i].kind # "nl" => file[i].turn < file[i].id)
      BY <2>1 DEF StoreInv, Counted, CountedLog
    <3>3. file[i].id \in Nat
      BY <3>1, TokenIs
    <3> QED BY SMTT(30), <3>1, <3>2, <3>3, StoreIs
  <2>2. CASE i \notin 1..Len(file)
    <3>1. PICK p \in 1..Len(b) : g[i] = b[p]
      BY SMTT(30), <1>1, <2>2, StoreIs, Appended
    <3>2. b[p].kind = "nl" => b[p] = NL
      BY ElementOfSeq, TokenIs
    <3>3. b[p].kind # "nl" => IsOf(b[p], es)
      BY BufferIs
    <3>4. CASE b[p].kind = "nl"
      BY <3>1, <3>2, <3>4, NLIs
    <3>5. CASE b[p].kind # "nl"
      BY <3>1, <3>3, <3>5 DEF IsOf, MayWrite, CountedEvents
    <3> QED BY <3>4, <3>5
  <2> QED BY <2>1, <2>2
<1>4. /\ \A id \in written : Holds(g, Len(g), id)
      /\ \A id \in safe : Holds(g, synced, id)
  <2>1. /\ \A id \in written : Holds(file, Len(file), id)
        /\ \A id \in safe : Holds(file, synced, id)
    BY DEF StoreInv, Reported
  <2>2. Len(file) \in Nat /\ synced \in Nat /\ synced <= Len(file)
    BY StoreIs
  <2>3. \A i \in 1..synced : g[i] = file[i]
    BY <1>2, <2>2
  <2> QED BY <1>2, <2>1, <2>2, <2>3, HoldsOn
<1>5. Debt(g, tears + 1) /\ (~Torn(g) => Debt(g, tears))
  BY <1>1, StoreIs, DebtAppended DEF StoreInv
<1>6. ASSUME ~MultiByte
      PROVE  NoCuts(g) /\ TurnsApart(g) /\ ApartFrom(g, pending) /\ (up => Below(g, m))
  <2>1. /\ NoCuts(file) /\ TurnsApart(file) /\ ApartFrom(file, pending)
        /\ (up => Below(file, turnIndex))
    BY <1>6 DEF StoreInv
  <2>2. /\ Agree(es, es) /\ Agree(es, pending) /\ ApartFrom(file, es)
        /\ \A a \in 1..Len(es) : es[a].turn < m
    BY <1>6 DEF MayWrite
  <2>3. NoCuts(g)
    BY <1>1, <1>6, <2>1, StoreIs, NoCutsAppended
  <2>4. TurnsApart(g)
    BY <1>1, <2>1, <2>2, StoreIs, TurnsApartAppended
  <2>5. ApartFrom(g, pending)
    BY <1>1, <2>1, <2>2, StoreIs, ApartAppended
  <2>6. up => Below(g, m)
    BY <1>1, <2>1, <2>2, StoreIs, BelowAppended
  <2> QED BY <2>3, <2>4, <2>5, <2>6
<1>7. Grown(g, n, m)
  BY <1>2, <1>3, <1>4, <1>5, <1>6 DEF Grown
<1> QED BY <1>1, <1>7

\* The pending batch may be written.
LEMMA PendingMayBeWritten ==
    ASSUME SessionStoreAssumption, StoreInv
    PROVE  MayWrite(pending, count, turnIndex)
<1>1. Agree(pending, pending)
  <2> SUFFICES ASSUME NEW a \in 1..Len(pending), NEW c \in 1..Len(pending),
                      pending[a].turn = pending[c].turn
               PROVE  pending[a].id = pending[c].id
    BY DEF Agree
  <2>1. /\ a < c => pending[a].turn < pending[c].turn
        /\ c < a => pending[c].turn < pending[a].turn
    BY DEF StoreInv, PendingInOrder
  <2>2. pending[a].turn \in Nat /\ pending[c].turn \in Nat
    BY StoreIs, EventIs
  <2>3. a = c
    BY <2>1, <2>2, StoreIs
  <2> QED BY <2>3
<1> QED BY <1>1 DEF StoreInv, MayWrite, Counted, PendingInOrder

\* A new event, and that it may be written.
LEMMA NewEventIs ==
    ASSUME SessionStoreAssumption, StoreInv, up, count < MaxEvents
    PROVE  /\ NewEvent \in Event /\ NewEvent.id = count + 1 /\ NewEvent.turn = turnIndex
           /\ count + 1 \in Ids /\ turnIndex + 1 \in 0..MaxEvents /\ count + 1 \in 0..MaxEvents
           /\ <<NewEvent>> \in Seq(Event) /\ Len(<<NewEvent>>) = 1
           /\ MayWrite(<<NewEvent>>, count + 1, turnIndex + 1)
<1>1. count + 1 \in Ids /\ turnIndex \in Turns /\ turnIndex + 1 \in 0..MaxEvents
      /\ count + 1 \in 0..MaxEvents
  BY StoreIs DEF Ids, Turns
<1>2. NewEvent \in Event /\ NewEvent.id = count + 1 /\ NewEvent.turn = turnIndex
  BY <1>1 DEF NewEvent, Event
<1>3. PICK es : es = <<NewEvent>>
  OBVIOUS
<1>4. es \in Seq(Event) /\ Len(es) = 1 /\ es[1] = NewEvent /\ \A a \in 1..Len(es) : a = 1
  BY <1>2, <1>3
<1>5. \A a \in 1..Len(es) : es[a].turn = turnIndex /\ es[a].id = count + 1
  BY <1>2, <1>4
<1>6. Agree(es, es) /\ CountedEvents(es, count + 1)
  BY SMTT(30), <1>5, StoreIs DEF Agree, CountedEvents
<1>7. \A a \in 1..Len(pending) : pending[a].turn < turnIndex /\ pending[a].turn \in Nat
  BY StoreIs, EventIs DEF StoreInv, PendingInOrder
<1>8. Agree(es, pending)
  <2> SUFFICES ASSUME NEW a \in 1..Len(es), NEW c \in 1..Len(pending),
                      es[a].turn = pending[c].turn
               PROVE  FALSE
    BY DEF Agree
  <2>1. es[a].turn = turnIndex /\ pending[c].turn < turnIndex /\ pending[c].turn \in Nat
    BY <1>5, <1>7
  <2> QED BY <2>1, <1>1
<1>9. ~MultiByte => ApartFrom(file, es)
  <2> SUFFICES ASSUME ~MultiByte, NEW i \in 1..Len(file), NEW a \in 1..Len(es),
                      Closed(file, i), file[i].turn = es[a].turn
               PROVE  FALSE
    BY DEF ApartFrom
  <2>1. file[i].turn < turnIndex
    BY DEF StoreInv, Below
  <2> QED BY <1>5, <2>1, StoreIs
<1>10. \A a \in 1..Len(es) : es[a].turn < turnIndex + 1
  BY <1>5, StoreIs
<1>11. MayWrite(es, count + 1, turnIndex + 1)
  BY <1>6, <1>8, <1>9, <1>10 DEF MayWrite
<1> QED BY <1>1, <1>2, <1>3, <1>4, <1>11

-----------------------------------------------------------------------------
\* The events of the log in memory are in a file that begins alike, or still wait.
KnownIn(f, es, ids) ==
    \A id \in ids : \/ \E a \in 1..Len(es) : es[a].id = id
                    \/ \E i \in 1..Len(f) : f[i].id = id /\ f[i].kind = "event"

\* What the log held before an append it still holds.
LEMMA KnownOn ==
    ASSUME SessionStoreAssumption, StoreInv, up, NEW g, Len(g) \in Nat, Len(file) <= Len(g),
           \A i \in 1..Len(file) : g[i] = file[i]
    PROVE  KnownIn(g, pending, logged \ givenUp)
<1>1. \A i \in 1..Len(file) : i \in 1..Len(g) /\ g[i] = file[i]
  BY StoreIs
<1>2. KnownIn(file, pending, logged \ givenUp)
  BY DEF StoreInv, NothingForgotten, KnownIn
<1> QED BY <1>1, <1>2 DEF KnownIn

\* What was reported as written has a number that was handed out.
LEMMA WrittenCounted ==
    ASSUME SessionStoreAssumption, StoreInv
    PROVE  /\ \A id \in written : id <= count
           /\ \A id \in givenUp : id <= count /\ id \notin written
           /\ count + 1 \notin written /\ count + 1 \notin givenUp
<1>1. ASSUME NEW id \in written PROVE id <= count
  <2>1. Holds(file, Len(file), id)
    BY DEF StoreInv, Reported
  <2>2. PICK i \in 1..(Len(file) - 1) : file[i].id = id
    BY <2>1 DEF Holds
  <2>3. i \in 1..Len(file)
    BY StoreIs
  <2> QED BY <2>2, <2>3 DEF StoreInv, Counted, CountedLog
<1>2. \A id \in givenUp : id <= count /\ id \notin written
  BY DEF StoreInv, GivenUpApart, NothingForgotten
<1> QED BY <1>1, <1>2, StoreIs

\* The first of the events es.
FirstOf(ks, es) ==
    /\ ks \in Seq(Event) /\ Len(ks) \in Nat
    /\ \A a \in 1..Len(ks) : a \in 1..Len(es) /\ ks[a] = es[a]

\* What becomes of a batch whose write failed.
LEMMA UnwrittenIs ==
    ASSUME SessionStoreAssumption, StoreInv, up, Unwritten, NEW g, Len(g) \in Nat,
           Len(file) <= Len(g), \A i \in 1..Len(file) : g[i] = file[i]
    PROVE  /\ FirstOf(pending', pending) /\ KnownIn(g, pending', logged' \ givenUp')
           /\ logged' \subseteq logged /\ givenUp' \subseteq givenUp \cup IdsOf(pending)
           /\ \A a \in 1..Len(pending') : pending'[a].id \notin givenUp'
<1>1. KnownIn(g, pending, logged \ givenUp)
  BY KnownOn
<1>2. \A a \in 1..Len(pending) : pending[a].id \notin givenUp
  BY DEF StoreInv, GivenUpApart
<1>3. CASE UNCHANGED <<pending, logged, givenUp>>
  BY <1>1, <1>2, <1>3, StoreIs DEF FirstOf
<1>4. CASE /\ pending' = <<>> /\ givenUp' = givenUp \cup IdsOf(pending) /\ logged' = logged
  <2>1. pending' \in Seq(Event) /\ Len(pending') = 0
    BY <1>4
  <2>2. \A a \in 1..Len(pending) : pending[a].id \in givenUp'
    BY <1>4 DEF IdsOf
  <2>3. KnownIn(g, pending', logged' \ givenUp')
    BY <1>1, <1>4, <2>2 DEF KnownIn
  <2> QED BY <1>4, <2>1, <2>3 DEF FirstOf
<1>5. ASSUME NEW k \in 0..(Len(pending) - 1), pending' = SubSeq(pending, 1, k),
             logged' = logged \ IdsOf(SubSeq(pending, k + 1, Len(pending))), givenUp' = givenUp
      PROVE  /\ FirstOf(pending', pending) /\ KnownIn(g, pending', logged' \ givenUp')
             /\ \A a \in 1..Len(pending') : pending'[a].id \notin givenUp'
  <2>1. /\ pending' \in Seq(Event) /\ Len(pending') = k
        /\ \A a \in 1..k : a \in 1..Len(pending) /\ pending'[a] = pending[a]
    BY <1>5, StoreIs
  <2>2. PICK ts : ts = SubSeq(pending, k + 1, Len(pending))
    OBVIOUS
  <2>3. Len(ts) = Len(pending) - k /\ \A c \in 1..(Len(pending) - k) : ts[c] = pending[k + c]
    BY <2>2, StoreIs
  <2>4. ASSUME NEW a \in 1..Len(pending), a \notin 1..k PROVE pending[a].id \in IdsOf(ts)
    <3>1. a - k \in 1..Len(ts) /\ ts[a - k] = pending[a]
      BY <2>3, <2>4, StoreIs
    <3> QED BY <3>1 DEF IdsOf
  <2>5. KnownIn(g, pending', logged' \ givenUp')
    BY <1>1, <1>5, <2>1, <2>2, <2>4 DEF KnownIn
  <2> QED BY <1>2, <1>5, <2>1, <2>5 DEF FirstOf
<1> QED BY <1>3, <1>4, <1>5 DEF Unwritten

\* What loads is in the file, whole.
LEMMA LoadedIs ==
    ASSUME SessionStoreAssumption, StoreInv
    PROVE  /\ LoadedIds \subseteq Ids
           /\ \A id \in LoadedIds : \E i \in 1..Len(file) : file[i].id = id /\ file[i].kind = "event"
<1> SUFFICES ASSUME NEW i \in Loaded(file)
             PROVE  i \in 1..Len(file) /\ file[i].kind = "event" /\ file[i].id \in Ids
  BY DEF LoadedIds
<1>1. i \in 1..Len(file) /\ file[i].kind = "event"
  BY DEF Loaded, LineLoads
<1>2. file[i] \in Token
  BY <1>1, StoreIs, ElementOfSeq
<1> QED BY <1>1, <1>2, TokenIs

\* An event is pushed.
LEMMA PushKeeps == ASSUME SessionStoreAssumption, StoreInv, PushPending PROVE StoreInv'
<1>1. /\ up /\ count < MaxEvents
      /\ pending' = Append(pending, NewEvent) /\ logged' = logged \cup {count + 1}
      /\ count' = count + 1 /\ turnIndex' = turnIndex + 1
      /\ up' = up /\ file' = file /\ synced' = synced /\ written' = written /\ safe' = safe
      /\ givenUp' = givenUp /\ tears' = tears
  BY DEF PushPending
<1>2. /\ NewEvent \in Event /\ NewEvent.id = count + 1 /\ NewEvent.turn = turnIndex
      /\ count + 1 \in Ids /\ turnIndex + 1 \in 0..MaxEvents /\ count + 1 \in 0..MaxEvents
  BY <1>1, NewEventIs
<1>3. PICK es : es = Append(pending, NewEvent)
  OBVIOUS
<1>4. /\ es \in Seq(Event) /\ Len(es) = Len(pending) + 1 /\ es[Len(pending) + 1] = NewEvent
      /\ \A a \in 1..Len(pending) : es[a] = pending[a]
  BY <1>2, <1>3, StoreIs
<1>5. \A a \in 1..Len(es) :
        \/ a \in 1..Len(pending) /\ es[a] = pending[a]
        \/ a = Len(pending) + 1 /\ es[a].id = count + 1 /\ es[a].turn = turnIndex
  BY <1>2, <1>4, StoreIs
<1>6. \A a \in 1..Len(pending) :
        /\ pending[a].turn \in Nat /\ pending[a].turn < turnIndex /\ pending[a].id <= count
        /\ pending[a].turn < pending[a].id /\ pending[a].id \in Nat
  BY StoreIs, EventIs DEF StoreInv, PendingInOrder, Counted, CountedEvents
<1>7. StoreTypeOK'
  <2>1. StoreTypeOK
    BY DEF StoreInv
  <2> QED BY <1>1, <1>2, <1>3, <1>4, <2>1 DEF StoreTypeOK
<1>8. CountedEvents(es, count + 1)
  BY SMTT(30), <1>5, <1>6, StoreIs DEF CountedEvents
<1>9. CountedLog(file, count + 1)
  <2>1. \A i \in 1..Len(file) : file[i].id \in Nat
    BY StoreIs, ElementOfSeq, TokenIs
  <2> QED BY <2>1, StoreIs DEF StoreInv, Counted, CountedLog
<1>10. Counted'
  BY <1>1, <1>3, <1>8, <1>9, StoreIs DEF Counted
<1>11. PendingInOrder'
  <2>1. \A a \in 1..Len(es) : es[a].turn < turnIndex + 1
    BY SMTT(30), <1>5, <1>6, StoreIs
  <2>2. ASSUME NEW a \in 1..Len(es), NEW c \in 1..Len(es), a < c
        PROVE  es[a].turn < es[c].turn
    <3>1. a \in 1..Len(pending) /\ es[a] = pending[a]
      BY <1>4, <1>5, <2>2, StoreIs
    <3>2. CASE c \in 1..Len(pending) /\ es[c] = pending[c]
      BY <2>2, <3>1, <3>2 DEF StoreInv, PendingInOrder
    <3>3. CASE es[c].turn = turnIndex
      BY <1>6, <3>1, <3>3
    <3> QED BY <1>5, <3>2, <3>3
  <2> QED BY <1>1, <1>3, <2>1, <2>2 DEF PendingInOrder
<1>12. NothingForgotten'
  <2>1. KnownIn(file, pending, logged \ givenUp) /\ givenUp \cap written = {}
    BY <1>1 DEF StoreInv, NothingForgotten, KnownIn
  <2>2. \A a \in 1..Len(pending) : a \in 1..Len(es) /\ es[a].id = pending[a].id
    BY <1>4, StoreIs
  <2>3. Len(pending) + 1 \in 1..Len(es) /\ es[Len(pending) + 1].id = count + 1
    BY <1>2, <1>4, StoreIs
  <2>4. KnownIn(file, es, (logged \cup {count + 1}) \ givenUp)
    BY <2>1, <2>2, <2>3 DEF KnownIn
  <2> QED BY <1>1, <1>3, <2>1, <2>4 DEF NothingForgotten, KnownIn
<1>13. ASSUME ~MultiByte
       PROVE  /\ NoCuts(file) /\ TurnsApart(file) /\ ApartFrom(file, es)
              /\ Below(file, turnIndex + 1)
  <2>1. /\ NoCuts(file) /\ TurnsApart(file) /\ ApartFrom(file, pending)
        /\ Below(file, turnIndex)
    BY <1>1, <1>13 DEF StoreInv
  <2>2. \A i \in 1..Len(file) : file[i].turn \in Nat
    BY StoreIs, ElementOfSeq, TokenIs
  <2>3. Below(file, turnIndex + 1)
    BY <2>1, <2>2, StoreIs DEF Below
  <2>4. ApartFrom(file, es)
    <3> SUFFICES ASSUME NEW i \in 1..Len(file), NEW a \in 1..Len(es), Closed(file, i),
                        file[i].turn = es[a].turn
                 PROVE  file[i].id = es[a].id
      BY DEF ApartFrom
    <3>1. CASE a \in 1..Len(pending) /\ es[a] = pending[a]
      BY <2>1, <3>1 DEF ApartFrom
    <3>2. CASE es[a].turn = turnIndex
      BY <2>1, <2>2, <3>2, StoreIs DEF Below
    <3> QED BY <1>5, <3>1, <3>2
  <2> QED BY <2>1, <2>3, <2>4
<1>14. Reported' /\ Debt(file, tears)
  BY <1>1 DEF StoreInv, Reported
<1>15. Debt(file', tears')
  BY <1>1, <1>14
<1>16. ~MultiByte => /\ NoCuts(file') /\ TurnsApart(file') /\ ApartFrom(file', pending')
                     /\ (up' => Below(file', turnIndex'))
  BY <1>1, <1>3, <1>13
<1>17. ~up' => pending' = <<>>
  BY <1>1
<1>18. GivenUpApart'
  <2>1. \A id \in givenUp : id <= count + 1
    <3>1. \A id \in givenUp : id <= count /\ id \in Ids
      BY WrittenCounted, StoreIs
    <3> QED BY <3>1, StoreIs DEF Ids
  <2>2. \A a \in 1..Len(es) : es[a].id \notin written /\ es[a].id \notin givenUp
    BY <1>5, WrittenCounted DEF StoreInv, GivenUpApart
  <2> QED BY <1>1, <1>3, <2>1, <2>2 DEF GivenUpApart
<1> QED BY <1>7, <1>10, <1>11, <1>12, <1>14, <1>15, <1>16, <1>17, <1>18 DEF StoreInv

\* The pending batch is written, or part of it.
LEMMA AppendPendingKeeps == ASSUME SessionStoreAssumption, StoreInv, AppendPending PROVE StoreInv'
<1>1. /\ up /\ pending # <<>>
      /\ up' = up /\ synced' = synced /\ turnIndex' = turnIndex /\ count' = count /\ safe' = safe
  BY DEF AppendPending
<1>2. StoreTypeOK /\ MayWrite(pending, count, turnIndex)
  BY PendingMayBeWritten DEF StoreInv
<1>3. CASE /\ file' = file \o Encode(pending) /\ written' = written \cup IdsOf(pending)
           /\ pending' = <<>> /\ tears' = tears /\ logged' = logged /\ givenUp' = givenUp
  <2>1. Encode(pending) \in Seq(Token) /\ Buffer(Encode(pending), pending)
    BY StoreIs, EncodeIs, EncodeBuffer
  <2>2. Grown(file', count, turnIndex)
    BY <1>2, <1>3, <2>1, StoreIs, LogGrows
  <2>3. Len(pending) > 0
    BY <1>1, StoreIs, EmptySeq
  <2>4. ~Torn(file')
    BY <1>3, <2>3, StoreIs, WholeIsNotTorn
  <2>5. pending' \in Seq(Event) /\ Len(pending') = 0 /\ \A a \in 1..Len(pending') : FALSE
    BY <1>3
  <2>6. \A a \in 1..Len(pending) : Holds(file', Len(file'), pending[a].id)
    BY <1>3, StoreIs, HoldsWritten
  <2>7. \A id \in IdsOf(pending) : id \in Ids /\ Holds(file', Len(file'), id)
    BY <2>6, StoreIs, EventIs DEF IdsOf
  <2>8. StoreTypeOK'
    <3>1. file' \in Seq(Token) /\ synced' \in 0..Len(file') /\ written' \subseteq Ids
          /\ safe' \subseteq written'
      BY <1>1, <1>3, <2>2, <2>7, StoreIs DEF Grown
    <3> QED BY <1>1, <1>2, <1>3, <2>5, <3>1 DEF StoreTypeOK
  <2>9. Counted' /\ PendingInOrder'
    <3>1. CountedLog(file', count') /\ CountedEvents(pending', count')
      BY <1>1, <2>2, <2>5 DEF Grown, CountedEvents
    <3> QED BY <1>1, <2>5, <3>1, StoreIs DEF Counted, PendingInOrder
  <2>10. Reported'
    BY <1>1, <1>3, <2>2, <2>7 DEF Grown, Reported
  <2>11. Debt(file', tears')
    BY <1>3, <2>2, <2>4 DEF Grown
  <2>12. NothingForgotten'
    <3>1. KnownIn(file', pending, logged \ givenUp)
      BY <1>1, <2>2, KnownOn DEF Grown
    <3>2. \A a \in 1..Len(pending) :
            \E i \in 1..Len(file') : file'[i].id = pending[a].id /\ file'[i].kind = "event"
      <4>1. Len(file') \in Nat
        BY <2>2 DEF Grown
      <4> QED BY <2>6, <4>1 DEF Holds
    <3>3. givenUp \cap (written \cup IdsOf(pending)) = {}
      BY DEF StoreInv, NothingForgotten, GivenUpApart, IdsOf
    <3>4. \A id \in logged \ givenUp :
            \E i \in 1..Len(file') : file'[i].id = id /\ file'[i].kind = "event"
      BY <3>1, <3>2 DEF KnownIn
    <3>5. givenUp' \cap written' = {}
      BY <1>3, <3>3
    <3> QED BY <1>3, <3>4, <3>5 DEF NothingForgotten
  <2>13. ~MultiByte => /\ NoCuts(file') /\ TurnsApart(file') /\ ApartFrom(file', pending')
                       /\ (up' => Below(file', turnIndex'))
    BY <1>1, <2>2, <2>5 DEF Grown, ApartFrom
  <2>14. ~up' => pending' = <<>>
    BY <1>1
  <2>15. GivenUpApart'
    BY <1>1, <1>3, <2>5 DEF StoreInv, GivenUpApart
  <2> QED BY <2>8, <2>9, <2>10, <2>11, <2>12, <2>13, <2>14, <2>15 DEF StoreInv
<1>4. CASE /\ tears < MaxTears /\ tears' = tears + 1
           /\ \E cut \in CutShort(Encode(pending)) : file' = file \o cut
           /\ Unwritten /\ written' = written
  <2>1. PICK cut \in CutShort(Encode(pending)) : file' = file \o cut
    BY <1>4
  <2>2. cut \in Seq(Token) /\ Buffer(cut, pending)
    BY StoreIs, CutBuffer
  <2>3. Grown(file', count, turnIndex)
    BY <1>2, <2>1, <2>2, StoreIs, LogGrows
  <2>4. FirstOf(pending', pending) /\ KnownIn(file', pending', logged' \ givenUp')
    BY <1>1, <1>4, <2>3, UnwrittenIs DEF Grown
  <2>5. /\ logged' \subseteq logged /\ givenUp' \subseteq givenUp \cup IdsOf(pending)
        /\ \A a \in 1..Len(pending') : pending'[a].id \notin givenUp'
    BY <1>1, <1>4, <2>3, UnwrittenIs DEF Grown
  <2>6. \A id \in IdsOf(pending) : id \in Ids /\ id <= count /\ id \notin written
    BY StoreIs, EventIs DEF IdsOf, StoreInv, Counted, CountedEvents, GivenUpApart
  <2>7. StoreTypeOK'
    <3>1. file' \in Seq(Token) /\ synced' \in 0..Len(file') /\ tears' \in 0..MaxTears
      BY <1>1, <1>4, <2>3, StoreIs DEF Grown
    <3>2. logged' \subseteq Ids /\ givenUp' \subseteq Ids /\ pending' \in Seq(Event)
      BY <2>4, <2>5, <2>6, StoreIs DEF FirstOf
    <3> QED BY <1>1, <1>2, <1>4, <3>1, <3>2 DEF StoreTypeOK
  <2>8. Counted' /\ PendingInOrder'
    <3>1. CountedLog(file', count') /\ CountedEvents(pending', count')
      BY <1>1, <2>3, <2>4 DEF Grown, StoreInv, Counted, CountedEvents, FirstOf
    <3> QED BY <1>1, <2>4, <3>1, StoreIs DEF Counted, PendingInOrder, StoreInv, FirstOf
  <2>9. Reported' /\ Debt(file', tears')
    BY <1>1, <1>4, <2>3 DEF Grown, Reported
  <2>10. NothingForgotten' /\ GivenUpApart'
    <3>1. givenUp' \cap written = {} /\ \A id \in givenUp' : id <= count
      BY <2>5, <2>6, WrittenCounted
    <3>2. \A a \in 1..Len(pending') : pending'[a].id \notin written
      BY <2>4 DEF StoreInv, GivenUpApart, FirstOf
    <3> QED BY <1>1, <1>4, <2>4, <2>5, <3>1, <3>2 DEF KnownIn, NothingForgotten, GivenUpApart
  <2>11. ~MultiByte => /\ NoCuts(file') /\ TurnsApart(file') /\ ApartFrom(file', pending')
                       /\ (up' => Below(file', turnIndex'))
    BY <1>1, <1>4, <2>3, <2>4 DEF Grown, FirstOf, ApartFrom
  <2>12. ~up' => pending' = <<>>
    BY <1>1
  <2> QED BY <2>7, <2>8, <2>9, <2>10, <2>11, <2>12 DEF StoreInv
<1> QED BY <1>3, <1>4 DEF AppendPending

\* The turn's task ends without returning its log.
LEMMA AbandonKeeps == ASSUME SessionStoreAssumption, StoreInv, Abandon PROVE StoreInv'
<1>1. /\ up /\ pending' = <<>> /\ logged' \in {LoadedIds, logged \ IdsOf(pending)}
      /\ up' = up /\ file' = file /\ synced' = synced /\ turnIndex' = turnIndex /\ count' = count
      /\ written' = written /\ safe' = safe /\ givenUp' = givenUp /\ tears' = tears
  BY DEF Abandon
<1>2. pending' \in Seq(Event) /\ \A a \in 1..Len(pending') : FALSE
  BY <1>1
<1>3. KnownIn(file, pending', logged' \ givenUp) /\ logged' \subseteq Ids
  <2>1. CASE logged' = LoadedIds
    BY <2>1, LoadedIs DEF KnownIn
  <2>2. CASE logged' = logged \ IdsOf(pending)
    BY <1>1, <2>2, StoreIs DEF StoreInv, NothingForgotten, KnownIn, IdsOf
  <2> QED BY <1>1, <2>1, <2>2
<1>4. StoreTypeOK'
  <2>1. StoreTypeOK
    BY DEF StoreInv
  <2> QED BY <1>1, <1>2, <1>3, <2>1 DEF StoreTypeOK
<1>5. Counted' /\ PendingInOrder'
  BY <1>1, <1>2 DEF StoreInv, Counted, CountedEvents, PendingInOrder
<1>6. NothingForgotten' /\ GivenUpApart'
  BY <1>1, <1>2, <1>3 DEF StoreInv, NothingForgotten, GivenUpApart, KnownIn
<1>7. Reported' /\ Debt(file', tears') /\ (~up' => pending' = <<>>)
  BY <1>1 DEF StoreInv, Reported
<1>8. ~MultiByte => /\ NoCuts(file') /\ TurnsApart(file') /\ ApartFrom(file', pending')
                    /\ (up' => Below(file', turnIndex'))
  BY <1>1, <1>2 DEF StoreInv, ApartFrom
<1> QED BY <1>4, <1>5, <1>6, <1>7, <1>8 DEF StoreInv

\* An event is written and synced at once, or part of it is written.
LEMMA AppendEventsKeeps == ASSUME SessionStoreAssumption, StoreInv, AppendEvents PROVE StoreInv'
<1>1. /\ up /\ count < MaxEvents /\ count' = count + 1 /\ turnIndex' = turnIndex + 1
      /\ up' = up /\ pending' = pending /\ logged' = logged /\ givenUp' = givenUp
  BY DEF AppendEvents
<1>2. /\ NewEvent \in Event /\ NewEvent.id = count + 1
      /\ count + 1 \in Ids /\ turnIndex + 1 \in 0..MaxEvents /\ count + 1 \in 0..MaxEvents
      /\ <<NewEvent>> \in Seq(Event) /\ Len(<<NewEvent>>) = 1
      /\ MayWrite(<<NewEvent>>, count + 1, turnIndex + 1)
  BY <1>1, NewEventIs
<1>3. /\ \A a \in 1..Len(pending) :
           /\ pending[a].turn \in Nat /\ pending[a].turn < turnIndex /\ pending[a].id <= count
           /\ pending[a].turn < pending[a].id /\ pending[a].id \in Nat
      /\ \A a, c \in 1..Len(pending) : a < c => pending[a].turn < pending[c].turn
      /\ StoreTypeOK
  BY StoreIs, EventIs DEF StoreInv, PendingInOrder, Counted, CountedEvents
<1>4. CountedEvents(pending, count + 1) /\ PendingInOrder'
  BY SMTT(30), <1>1, <1>3, StoreIs DEF CountedEvents, PendingInOrder
<1>5. /\ ~up' => pending' = <<>>
      /\ GivenUpApart' /\ givenUp' \cap written' = {}
  <2>1. written' \subseteq written \cup {count + 1}
    BY <1>2 DEF AppendEvents
  <2>2. \A id \in givenUp : id <= count + 1 /\ id # count + 1 /\ id \notin written
    BY WrittenCounted, StoreIs DEF Ids
  <2>3. \A a \in 1..Len(pending) : pending[a].id # count + 1
    BY <1>3, StoreIs
  <2>4. givenUp' \cap written' = {}
    BY <1>1, <2>1, <2>2
  <2> QED BY <1>1, <2>1, <2>2, <2>3, <2>4 DEF StoreInv, GivenUpApart
<1>6. ASSUME Grown(file', count + 1, turnIndex + 1)
      PROVE  /\ Counted' /\ NothingForgotten' /\ file' \in Seq(Token)
             /\ synced \in 0..Len(file') /\ Len(file') \in Nat
             /\ ~MultiByte => /\ NoCuts(file') /\ TurnsApart(file') /\ ApartFrom(file', pending')
                              /\ (up' => Below(file', turnIndex'))
  <2>1. Counted'
    BY <1>1, <1>4, <1>6, StoreIs DEF Grown, Counted
  <2>2. KnownIn(file', pending, logged \ givenUp)
    BY <1>1, <1>6, KnownOn DEF Grown
  <2>3. NothingForgotten'
    BY <1>1, <1>5, <2>2 DEF KnownIn, NothingForgotten
  <2>4. file' \in Seq(Token) /\ synced \in 0..Len(file') /\ Len(file') \in Nat
    BY <1>6, StoreIs DEF Grown
  <2> QED BY <1>1, <1>6, <2>1, <2>3, <2>4 DEF Grown
<1>7. PICK es : es = <<NewEvent>>
  OBVIOUS
<1>8. /\ es \in Seq(Event) /\ Len(es) > 0 /\ MayWrite(es, count + 1, turnIndex + 1)
       /\ count + 1 \in Nat /\ turnIndex + 1 \in Nat /\ count <= count + 1 /\ turnIndex <= turnIndex + 1
  BY <1>2, <1>7, StoreIs
<1>9. CASE /\ file' = file \o Encode(<<NewEvent>>) /\ synced' = Len(file')
           /\ written' = written \cup {NewEvent.id} /\ safe' = written' /\ tears' = tears
  <2>1. Encode(<<NewEvent>>) \in Seq(Token) /\ Buffer(Encode(<<NewEvent>>), <<NewEvent>>)
    BY <1>2, EncodeIs, EncodeBuffer
  <2>2. Grown(file', count + 1, turnIndex + 1)
    <3>1. Encode(es) \in Seq(Token) /\ Buffer(Encode(es), es)
      BY <1>7, <2>1
    <3>2. Grown(file \o Encode(es), count + 1, turnIndex + 1)
      BY <1>8, <3>1, LogGrows
    <3> QED BY <1>9, <1>7, <3>2
  <2>3. ~Torn(file')
    <3>1. ~Torn(file \o Encode(es))
      BY <1>8, StoreIs, WholeIsNotTorn
    <3> QED BY <1>9, <1>7, <3>1
  <2>4. Holds(file', Len(file'), NewEvent.id)
    <3>1. es \in Seq(Event) /\ 1 \in 1..Len(es) /\ es[1] = NewEvent
      BY <1>2, <1>7
    <3>2. Holds(file \o Encode(es), Len(file \o Encode(es)), es[1].id)
      BY <3>1, StoreIs, HoldsWritten
    <3> QED BY <1>7, <1>9, <3>1, <3>2
  <2>5. StoreTypeOK'
    <3>1. synced' \in 0..Len(file') /\ written' \subseteq Ids /\ safe' \subseteq written'
      BY <1>2, <1>6, <1>9, <2>2, StoreIs
    <3> QED BY <1>1, <1>2, <1>3, <1>6, <1>9, <2>2, <3>1 DEF StoreTypeOK
  <2>6. Reported' /\ Debt(file', tears')
    <3>1. \A id \in written' : Holds(file', Len(file'), id)
      BY <1>9, <2>2, <2>4 DEF Grown
    <3> QED BY <1>9, <2>2, <2>3, <3>1 DEF Grown, Reported
  <2> QED BY <1>4, <1>5, <1>6, <2>2, <2>5, <2>6 DEF StoreInv
<1>10. CASE /\ tears < MaxTears /\ tears' = tears + 1
           /\ \E cut \in CutShort(Encode(<<NewEvent>>)) : file' = file \o cut
           /\ synced' = synced /\ written' = written /\ safe' = safe
  <2>1. PICK cut \in CutShort(Encode(<<NewEvent>>)) : file' = file \o cut
    BY <1>10
  <2>2. cut \in Seq(Token) /\ Buffer(cut, <<NewEvent>>)
    BY <1>2, CutBuffer
  <2>3. Grown(file', count + 1, turnIndex + 1)
    <3>1. cut \in Seq(Token) /\ Buffer(cut, es)
      BY <1>7, <2>2
    <3>2. Grown(file \o cut, count + 1, turnIndex + 1)
      BY <1>8, <3>1, LogGrows
    <3> QED BY <2>1, <3>2
  <2>4. StoreTypeOK'
    <3>1. tears' \in 0..MaxTears
      BY <1>10, StoreIs
    <3> QED BY <1>1, <1>2, <1>3, <1>6, <1>10, <2>3, <3>1 DEF StoreTypeOK
  <2>5. Reported' /\ Debt(file', tears')
    BY <1>10, <2>3 DEF Grown, Reported
  <2> QED BY <1>4, <1>5, <1>6, <2>3, <2>4, <2>5 DEF StoreInv
<1> QED BY <1>9, <1>10 DEF AppendEvents

\* A flush.
LEMMA FlushKeeps == ASSUME SessionStoreAssumption, StoreInv, FlushDurable PROVE StoreInv'
<1>1. /\ up /\ synced' = Len(file) /\ safe' = written
      /\ up' = up /\ file' = file /\ pending' = pending /\ turnIndex' = turnIndex /\ count' = count
      /\ written' = written /\ logged' = logged /\ givenUp' = givenUp /\ tears' = tears
  BY DEF FlushDurable
<1>2. StoreTypeOK'
  <2>1. StoreTypeOK /\ Len(file) \in 0..Len(file)
    BY StoreIs DEF StoreInv
  <2> QED BY <1>1, <2>1 DEF StoreTypeOK
<1>3. Counted' /\ PendingInOrder' /\ NothingForgotten' /\ GivenUpApart'
  BY <1>1 DEF StoreInv, Counted, PendingInOrder, NothingForgotten, GivenUpApart
<1>4. Reported'
  BY <1>1 DEF StoreInv, Reported
<1>5. /\ Debt(file', tears') /\ (~up' => pending' = <<>>)
      /\ ~MultiByte => /\ NoCuts(file') /\ TurnsApart(file') /\ ApartFrom(file', pending')
                       /\ (up' => Below(file', turnIndex'))
  BY <1>1 DEF StoreInv
<1> QED BY <1>2, <1>3, <1>4, <1>5 DEF StoreInv

\* The process dies.
LEMMA CrashKeeps == ASSUME SessionStoreAssumption, StoreInv, Crash PROVE StoreInv'
<1>1. /\ up /\ up' = FALSE /\ pending' = <<>> /\ logged' = {}
      /\ synced' = synced /\ turnIndex' = turnIndex /\ count' = count /\ written' = written
      /\ safe' = safe /\ givenUp' = givenUp
  BY DEF Crash
<1>2. PICK b \in Seq(Token) : /\ Buffer(b, pending) /\ file' = file \o b /\ tears' \in 0..MaxTears
                              /\ \/ b = <<>> /\ tears' = tears
                                 \/ tears' = tears + 1
  <2>1. CASE file' = file /\ tears' = tears
    <3>1. file' = file \o <<>>
      BY <2>1, StoreIs
    <3>2. PICK b : b = <<>>
      OBVIOUS
    <3>3. b \in Seq(Token) /\ Len(b) = 0 /\ \A p \in 1..Len(b) : FALSE
      BY <3>2
    <3>4. Buffer(b, pending)
      BY <3>3 DEF Buffer
    <3>5. tears' \in 0..MaxTears /\ file' = file \o b
      BY <2>1, <3>1, <3>2, StoreIs
    <3> QED BY <2>1, <3>2, <3>3, <3>4, <3>5
  <2>2. CASE /\ tears < MaxTears /\ tears' = tears + 1
             /\ \E cut \in CutShort(Encode(pending)) : file' = file \o cut
    <3>1. PICK cut \in CutShort(Encode(pending)) : file' = file \o cut
      BY <2>2
    <3>2. cut \in Seq(Token) /\ Buffer(cut, pending)
      BY StoreIs, CutBuffer
    <3>3. tears' \in 0..MaxTears
      BY <2>2, StoreIs
    <3> QED BY <2>2, <3>1, <3>2, <3>3
  <2> QED BY <2>1, <2>2 DEF Crash
<1>3. Grown(file', count, turnIndex)
  BY <1>2, StoreIs, PendingMayBeWritten, LogGrows
<1>4. pending' \in Seq(Event) /\ \A a \in 1..Len(pending') : FALSE
  BY <1>1
<1>5. StoreTypeOK'
  <2>1. StoreTypeOK
    BY DEF StoreInv
  <2>2. file' \in Seq(Token) /\ synced' \in 0..Len(file')
    BY <1>1, <1>3, StoreIs DEF Grown
  <2> QED BY <1>1, <1>2, <1>4, <2>1, <2>2 DEF StoreTypeOK
<1>6. Counted' /\ PendingInOrder' /\ NothingForgotten' /\ GivenUpApart'
  <2>1. CountedLog(file', count') /\ CountedEvents(pending', count')
    BY <1>1, <1>3, <1>4 DEF Grown, CountedEvents
  <2>2. NothingForgotten' /\ GivenUpApart'
    BY <1>1, <1>4, WrittenCounted DEF NothingForgotten, GivenUpApart
  <2> QED BY <1>1, <1>4, <2>1, <2>2, StoreIs DEF Counted, PendingInOrder
<1>7. Debt(file', tears')
  <2>1. CASE b = <<>> /\ tears' = tears
    <3>1. file' = file
      BY <1>2, <2>1, StoreIs
    <3> QED BY <2>1, <3>1 DEF StoreInv
  <2>2. CASE tears' = tears + 1
    BY <1>3, <2>2 DEF Grown
  <2> QED BY <1>2, <2>1, <2>2
<1>8. Reported'
  BY <1>1, <1>3 DEF Grown, Reported
<1>9. ~MultiByte => /\ NoCuts(file') /\ TurnsApart(file') /\ ApartFrom(file', pending')
                    /\ (up' => Below(file', turnIndex'))
  BY <1>1, <1>3, <1>4 DEF Grown, ApartFrom
<1>10. ~up' => pending' = <<>>
  BY <1>1
<1> QED BY <1>5, <1>6, <1>7, <1>8, <1>9, <1>10 DEF StoreInv

\* The machine loses power.
LEMMA PowerLossKeeps == ASSUME SessionStoreAssumption, StoreInv, StorePowerLoss PROVE StoreInv'
<1>1. /\ up' = FALSE /\ tears < MaxTears /\ tears' = tears + 1 /\ synced' = Len(file')
      /\ pending' = <<>> /\ logged' = {} /\ written' = safe
      /\ turnIndex' = turnIndex /\ count' = count /\ safe' = safe /\ givenUp' = givenUp
  BY DEF StorePowerLoss
<1>2. PICK cut \in CutShort(SubSeq(file, synced + 1, Len(file))) :
        file' = SubSeq(file, 1, synced) \o cut
  BY DEF StorePowerLoss
<1>3. Remains(file', file, synced)
  BY <1>2, StoreIs, PowerLossLeaves
<1>4. /\ file' \in Seq(Token) /\ Len(file') \in Nat /\ Len(file') <= Len(file)
      /\ \A i \in 1..Len(file') : /\ i \in 1..Len(file) /\ file'[i].id = file[i].id
                                  /\ file'[i].turn = file[i].turn
                                  /\ (file'[i].kind = "nl" <=> file[i].kind = "nl")
      /\ synced <= Len(file') /\ \A i \in 1..synced : file'[i] = file[i]
  BY <1>3, StoreIs, CutKeeps DEF Remains
<1>5. /\ Debt(file', tears + 1)
      /\ ~MultiByte => TurnsApart(file') /\ NoCuts(file')
  BY <1>3, StoreIs, CutSpares DEF Remains, StoreInv
<1>6. pending' \in Seq(Event) /\ \A a \in 1..Len(pending') : FALSE
  BY <1>1
<1>7. StoreTypeOK'
  <2>1. StoreTypeOK
    BY DEF StoreInv
  <2>2. synced' \in 0..Len(file') /\ tears' \in 0..MaxTears /\ written' \subseteq Ids
    BY <1>1, <1>4, StoreIs
  <2> QED BY <1>1, <1>4, <1>6, <2>1, <2>2 DEF StoreTypeOK
<1>8. Counted' /\ PendingInOrder' /\ NothingForgotten' /\ GivenUpApart'
  <2>1. CountedLog(file', count)
    BY <1>4 DEF StoreInv, Counted, CountedLog
  <2>2. CountedEvents(pending', count)
    BY <1>6 DEF CountedEvents
  <2>3. NothingForgotten' /\ GivenUpApart'
    BY <1>1, <1>6, WrittenCounted, StoreIs DEF NothingForgotten, GivenUpApart
  <2> QED BY <1>1, <1>6, <2>1, <2>2, <2>3, StoreIs DEF Counted, PendingInOrder
<1>9. Reported'
  <2>1. \A id \in safe : Holds(file, synced, id)
    BY DEF StoreInv, Reported
  <2>2. synced \in Nat
    BY StoreIs
  <2>3. \A id \in safe : Holds(file', Len(file'), id)
    BY <1>4, <2>1, <2>2, HoldsOn
  <2> QED BY <1>1, <2>3 DEF Reported
<1>10. ~MultiByte => /\ NoCuts(file') /\ TurnsApart(file') /\ ApartFrom(file', pending')
                     /\ (up' => Below(file', turnIndex'))
  BY <1>1, <1>5, <1>6 DEF ApartFrom
<1>11. Debt(file', tears') /\ (~up' => pending' = <<>>)
  BY <1>1, <1>5
<1> QED BY <1>7, <1>8, <1>9, <1>10, <1>11 DEF StoreInv

\* The next start loads the log.
LEMMA RestartKeeps == ASSUME SessionStoreAssumption, StoreInv, Restart PROVE StoreInv'
<1>1. /\ ~up /\ up' = TRUE /\ logged' = LoadedIds
      /\ turnIndex' = NextTurnIndex(file)
      /\ file' = file /\ synced' = synced /\ pending' = pending /\ count' = count
      /\ written' = written /\ safe' = safe /\ givenUp' = givenUp /\ tears' = tears
  BY DEF Restart
<1>2. pending = <<>> /\ \A a \in 1..Len(pending) : FALSE
  BY <1>1 DEF StoreInv
<1>3. \A i \in Loaded(file) :
        /\ i \in 1..Len(file) /\ file[i].kind = "event" /\ file[i].id \in Ids
        /\ file[i].id <= count /\ file[i].turn < file[i].id
        /\ file[i].turn \in Nat /\ file[i].id \in Nat
  <2> SUFFICES ASSUME NEW i \in Loaded(file)
               PROVE  /\ i \in 1..Len(file) /\ file[i].kind = "event" /\ file[i].id \in Ids
                      /\ file[i].id <= count /\ file[i].turn < file[i].id
                      /\ file[i].turn \in Nat /\ file[i].id \in Nat
    OBVIOUS
  <2>1. i \in 1..Len(file) /\ file[i].kind = "event"
    BY DEF Loaded, LineLoads
  <2>2. file[i] \in Token
    BY <2>1, StoreIs, ElementOfSeq
  <2>3. CountedLog(file, count)
    BY DEF StoreInv, Counted
  <2> QED BY <2>1, <2>2, <2>3, TokenIs DEF CountedLog
<1>4. /\ turnIndex' \in 0..MaxEvents
      /\ \A i \in Loaded(file) : file[i].turn < turnIndex'
      /\ turnIndex' = 0 \/ \E i \in Loaded(file) : file[i].turn = turnIndex' - 1
  BY <1>1, StoreIs, NextTurnIs
<1>5. turnIndex' <= count
  <2>1. CASE turnIndex' = 0
    BY <2>1, StoreIs
  <2>2. CASE \E i \in Loaded(file) : file[i].turn = turnIndex' - 1
    <3>1. PICK i \in Loaded(file) : file[i].turn = turnIndex' - 1
      BY <2>2
    <3>2. turnIndex' \in Nat
      BY <1>4, StoreIs
    <3> QED BY <1>3, <3>1, <3>2, StoreIs
  <2> QED BY <1>4, <2>1, <2>2
<1>6. StoreTypeOK'
  <2>1. StoreTypeOK
    BY DEF StoreInv
  <2>2. logged' \subseteq Ids
    BY <1>1, LoadedIs
  <2> QED BY <1>1, <1>4, <2>1, <2>2 DEF StoreTypeOK
<1>7. Counted' /\ PendingInOrder'
  BY <1>1, <1>2, <1>5 DEF StoreInv, Counted, PendingInOrder, CountedEvents
<1>8. NothingForgotten' /\ GivenUpApart'
  <2>1. \A id \in logged' : \E i \in 1..Len(file) : file[i].id = id /\ file[i].kind = "event"
    BY <1>1, LoadedIs
  <2> QED BY <1>1, <2>1 DEF StoreInv, NothingForgotten, GivenUpApart
<1>9. ASSUME ~MultiByte PROVE Below(file, turnIndex')
  <2> SUFFICES ASSUME NEW i \in 1..Len(file), Closed(file, i) PROVE file[i].turn < turnIndex'
    BY DEF Below
  <2>1. LineLoads(file, i)
    BY DEF Closed, Begins, EndedAt, LineLoads
  <2>2. ~LoadFails(file)
    BY <1>9 DEF StoreInv, NoCuts, LoadFails
  <2> QED BY <1>4, <2>1, <2>2 DEF Loaded
<1>10. ~MultiByte => /\ NoCuts(file') /\ TurnsApart(file') /\ ApartFrom(file', pending')
                     /\ (up' => Below(file', turnIndex'))
  BY <1>1, <1>9 DEF StoreInv
<1>11. Reported' /\ Debt(file', tears') /\ (~up' => pending' = <<>>)
  BY <1>1 DEF StoreInv, Reported
<1> QED BY <1>6, <1>7, <1>8, <1>10, <1>11 DEF StoreInv

-----------------------------------------------------------------------------

\* The invariant holds at the start.
LEMMA StoreInvInit == ASSUME SessionStoreAssumption, StoreInit PROVE StoreInv
<1>1. /\ up = TRUE /\ file = <<>> /\ synced = 0 /\ pending = <<>> /\ turnIndex = 0 /\ count = 0
      /\ written = {} /\ safe = {} /\ logged = {} /\ givenUp = {} /\ tears = 0
  BY DEF StoreInit
<1>2. /\ file \in Seq(Token) /\ pending \in Seq(Event) /\ Len(file) = 0 /\ Len(pending) = 0
      /\ \A i \in 1..Len(file) : FALSE
      /\ \A a \in 1..Len(pending) : FALSE
  BY <1>1
<1>3. StoreTypeOK
  BY <1>1, <1>2 DEF StoreTypeOK, SessionStoreAssumption
<1>4. Counted /\ PendingInOrder /\ Reported /\ NothingForgotten /\ GivenUpApart
  BY <1>1, <1>2 DEF Counted, CountedLog, CountedEvents, PendingInOrder, Reported,
     NothingForgotten, GivenUpApart
<1>5. Debt(file, tears)
  <2>1. Glued(file) = {}
    BY <1>2 DEF Glued
  <2>2. Cardinality(Glued(file)) = 0
    BY <2>1, FS_EmptySet
  <2> QED BY <1>1, <1>2, <2>2 DEF Debt, Torn
<1>6. NoCuts(file) /\ TurnsApart(file) /\ ApartFrom(file, pending) /\ Below(file, turnIndex)
  BY <1>2 DEF NoCuts, TurnsApart, ApartFrom, Below
<1> QED BY <1>1, <1>3, <1>4, <1>5, <1>6 DEF StoreInv

\* Every step keeps the invariant.
LEMMA StoreInvNext == ASSUME SessionStoreAssumption, StoreInv, [StoreNext]_storeVars PROVE StoreInv'
<1>1. CASE UNCHANGED storeVars
  BY <1>1 DEF storeVars, StoreInv, StoreTypeOK, Counted, PendingInOrder, Reported,
     NothingForgotten, GivenUpApart
<1>2. CASE StoreNext
  BY <1>2, PushKeeps, AppendPendingKeeps, AbandonKeeps, AppendEventsKeeps, FlushKeeps, CrashKeeps,
     PowerLossKeeps, RestartKeeps DEF StoreNext
<1> QED BY <1>1, <1>2

\* The invariant holds in every state.
THEOREM StoreInvariant == StoreSpec => []StoreInv
<1>1. StoreInit => StoreInv
  BY SessionStoreAssumption, StoreInvInit
<1>2. StoreInv /\ [StoreNext]_storeVars => StoreInv'
  BY SessionStoreAssumption, StoreInvNext
<1> QED BY <1>1, <1>2, PTL DEF StoreSpec

\* Failed writes, crashes and losses of power cost the log of JsonlSessionStore at
\* most the one event that each torn write leaves glued to it; an event of the log in
\* memory waits, is in the file, or was given up with a batch whose write failed and
\* was never reported as written; and next_turn_index never gives two turns of a loaded log the
\* same index, while no text is cut inside a character.
THEOREM LogAlwaysSurvives == StoreSpec => []LogSurvives
<1>1. StoreInv => LogSurvives
  BY SessionStoreAssumption, InvGivesSurvival
<1> QED BY <1>1, StoreInvariant, PTL

-----------------------------------------------------------------------------
(***************************************************************************)
(* Proofs about ContextReplay: for any models, turns, rounds and upsets,   *)
(* the replay chain in use is backed by the log it follows.                *)
(*                                                                         *)
(* The property alone is not inductive. A task publishes again, after a    *)
(* compaction that was not applied, the replay it took when its request    *)
(* was assembled; and a round commits what was sent, so that the chain     *)
(* after it begins as the request did. The invariant (ReplayInv) says of   *)
(* that replay and, while the chain is in use, of the request under way    *)
(* that they begin with the window of the newest checkpoint.               *)
(***************************************************************************)

\* A log is a sequence, of whatever events.
IsLog(l) == \E S : l \in Seq(S)

\* A chain and a request under way have their fields, and their items are sequences.
IsChain(c)   == {"st", "of", "sum", "items", "synced"} \subseteq DOMAIN c /\ IsLog(c.items)
IsRequest(j) == {"st", "t", "p", "log", "msgs", "replay", "native", "first", "over", "nudged",
                 "r"} \subseteq DOMAIN j
HasItems(msgs, native) == /\ "items" \in DOMAIN msgs /\ IsLog(msgs.items)
                          /\ \A x \in native : IsLog(x.items)

\* Event n of the log is a checkpoint of model m, and neither a checkpoint nor a mask
\* comes after it.
BackedAt(l, m, n) ==
    /\ l[n].k = "checkpoint" /\ l[n].by = m
    /\ \A i \in 1..Len(l) : i > n => l[i].k \notin {"checkpoint", "mask"}

\* Items begin with a window; with the window of such a checkpoint, of whatever model.
Leads(items, w)  == Len(items) > 0 /\ items[1] = w
Starts(l, items) == \E n \in 1..Len(l) : BackedAt(l, l[n].by, n) /\ Leads(items, l[n].window)

\* A chain in use continues such a checkpoint.
BackedBy(l, c) ==
    c.st = "active" => \E n \in 1..Len(l) : BackedAt(l, c.of, n) /\ Leads(c.items, l[n].window)

\* A request is under way.
Requesting == job.st \in {"gate", "sent", "tool"}

\* The logs, the chain and the task's request, whatever they hold.
ReplayShape ==
    /\ IsLog(slog) /\ IsLog(stored) /\ (job.st # "none" => IsLog(job.log))
    /\ job.st \in {"none", "new", "gate", "sent", "tool", "done"}
    /\ skewed \in BOOLEAN /\ IsChain(chain)
    /\ Requesting => /\ IsRequest(job) /\ HasItems(job.msgs, job.native)
                     /\ \A c \in job.replay : IsChain(c)
    /\ job.st = "gate" => job.replay \subseteq Snapshot(chain)

\* The request under way begins as the chain does, if there is one in use.
Goes(l, c, native) == c.st = "active" => \A x \in native : Starts(l, x.items)

\* The chain, and the one the task may publish again, are backed by the log they follow.
ChainsBacked ==
    ~skewed => /\ BackedBy(Followed, chain)
               /\ Requesting => /\ \A c \in job.replay : BackedBy(job.log, c)
                                /\ Goes(job.log, chain, job.native)

\* The inductive invariant.
ReplayInv == ReplayShape /\ ChainsBacked

-----------------------------------------------------------------------------
\* A sequence is one over any larger set.
LEMMA LargerSet ==
    ASSUME NEW S, NEW U, S \subseteq U, NEW l \in Seq(S)
    PROVE  l \in Seq(U)
  OBVIOUS

\* Two logs one after the other, element by element.
LEMMA LogsJoined ==
    ASSUME NEW l, NEW m, IsLog(l), IsLog(m)
    PROVE  /\ IsLog(l \o m) /\ Len(l) \in Nat /\ Len(m) \in Nat
           /\ Len(l \o m) = Len(l) + Len(m)
           /\ \A i \in 1..Len(l) : (l \o m)[i] = l[i]
           /\ \A i \in 1..Len(m) : (l \o m)[Len(l) + i] = m[i]
           /\ \A i \in 1..(Len(l) + Len(m)) :
                i \in 1..Len(l) \/ \E j \in 1..Len(m) : i = Len(l) + j
<1>1. PICK S : l \in Seq(S)
  BY DEF IsLog
<1>2. PICK T : m \in Seq(T)
  BY DEF IsLog
<1>3. PICK U : U = S \cup T
  OBVIOUS
<1>4. l \in Seq(U) /\ m \in Seq(U)
  <2>1. S \subseteq U /\ T \subseteq U
    BY <1>3
  <2> QED BY <1>1, <1>2, <2>1, LargerSet
<1>5. Len(l) \in Nat /\ Len(m) \in Nat
  BY <1>4, LenProperties
<1>6. /\ l \o m \in Seq(U) /\ Len(l \o m) = Len(l) + Len(m)
      /\ \A i \in 1..Len(l) + Len(m) : (l \o m)[i] = IF i <= Len(l) THEN l[i] ELSE m[i - Len(l)]
  BY <1>4, ConcatProperties
<1>7. IsLog(l \o m)
  BY <1>6 DEF IsLog
<1>8. \A i \in 1..Len(l) : (l \o m)[i] = l[i]
  BY <1>5, <1>6
<1>9. \A i \in 1..Len(m) : (l \o m)[Len(l) + i] = m[i]
  <2> TAKE i \in 1..Len(m)
  <2>1. Len(l) + i \in 1..Len(l) + Len(m) /\ ~(Len(l) + i <= Len(l)) /\ (Len(l) + i) - Len(l) = i
    BY <1>5
  <2> QED BY <1>6, <2>1
<1>10. ASSUME NEW i \in 1..(Len(l) + Len(m))
       PROVE  i \in 1..Len(l) \/ \E j \in 1..Len(m) : i = Len(l) + j
  <2>1. CASE i <= Len(l)
    BY <1>5, <2>1
  <2>2. CASE i > Len(l)
    <3>1. i - Len(l) \in 1..Len(m) /\ i = Len(l) + (i - Len(l))
      BY <1>5, <2>2
    <3> QED BY <3>1
  <2> QED BY <1>5, <2>1, <2>2
<1> QED BY <1>5, <1>6, <1>7, <1>8, <1>9, <1>10

\* The log of one event, and of none.
LEMMA ShortLogs ==
    /\ IsLog(<<>>) /\ Len(<<>>) = 0
    /\ \A e : IsLog(<<e>>) /\ Len(<<e>>) = 1 /\ <<e>>[1] = e
<1>1. <<>> \in Seq({})
  OBVIOUS
<1>2. ASSUME NEW e PROVE <<e>> \in Seq({e}) /\ Len(<<e>>) = 1 /\ <<e>>[1] = e
  OBVIOUS
<1> QED BY <1>1, <1>2 DEF IsLog

\* Append is a concatenation.
LEMMA AppendJoins ==
    ASSUME NEW l, NEW e, IsLog(l)
    PROVE  Append(l, e) = l \o <<e>>
<1>1. PICK S : l \in Seq(S)
  BY DEF IsLog
<1>2. PICK T : T = S \cup {e}
  OBVIOUS
<1>3. l \in Seq(T) /\ e \in T
  BY <1>1, <1>2, LargerSet
<1> QED BY <1>3, AppendIsConcat

LEMMA AppendIsLog ==
    ASSUME NEW l, NEW e, IsLog(l)
    PROVE  IsLog(Append(l, e))
<1>1. Append(l, e) = l \o <<e>> /\ IsLog(<<e>>)
  BY AppendJoins, ShortLogs
<1> QED BY <1>1, LogsJoined

\* Events that are neither checkpoints nor masks leave a chain backed.
Plain(m) == \A i \in 1..Len(m) : m[i].k \notin {"checkpoint", "mask"}

\* So does one more log of such events.
LEMMA PlainKeepsAt ==
    ASSUME NEW l, NEW m, NEW by, IsLog(l), IsLog(m), Plain(m),
           NEW n \in 1..Len(l), BackedAt(l, by, n)
    PROVE  n \in 1..Len(l \o m) /\ (l \o m)[n] = l[n] /\ BackedAt(l \o m, by, n)
<1>1. /\ Len(l) \in Nat /\ Len(m) \in Nat /\ Len(l \o m) = Len(l) + Len(m)
      /\ \A i \in 1..Len(l) : (l \o m)[i] = l[i]
      /\ \A i \in 1..Len(m) : (l \o m)[Len(l) + i] = m[i]
      /\ \A i \in 1..(Len(l) + Len(m)) :
           i \in 1..Len(l) \/ \E j \in 1..Len(m) : i = Len(l) + j
  BY LogsJoined
<1>2. n \in 1..Len(l \o m) /\ (l \o m)[n] = l[n]
  BY <1>1
<1>3. ASSUME NEW i \in 1..Len(l \o m), i > n PROVE (l \o m)[i].k \notin {"checkpoint", "mask"}
  <2>1. CASE i \in 1..Len(l)
    BY <1>1, <1>3, <2>1 DEF BackedAt
  <2>2. ASSUME NEW j \in 1..Len(m), i = Len(l) + j PROVE (l \o m)[i].k \notin {"checkpoint", "mask"}
    BY <1>1, <2>2 DEF Plain
  <2> QED BY <1>1, <2>1, <2>2
<1>4. BackedAt(l \o m, by, n)
  BY <1>2, <1>3 DEF BackedAt
<1> QED BY <1>2, <1>4

\* So a chain stays backed, and a request begins as it did.
LEMMA PlainKeeps ==
    ASSUME NEW l, NEW m, IsLog(l), IsLog(m), Plain(m)
    PROVE  /\ \A c : BackedBy(l, c) => BackedBy(l \o m, c)
           /\ \A items : Starts(l, items) => Starts(l \o m, items)
<1>1. ASSUME NEW c, BackedBy(l, c), c.st = "active"
      PROVE  \E n \in 1..Len(l \o m) : BackedAt(l \o m, c.of, n) /\ Leads(c.items, (l \o m)[n].window)
  <2>1. PICK n \in 1..Len(l) : BackedAt(l, c.of, n) /\ Leads(c.items, l[n].window)
    BY <1>1 DEF BackedBy
  <2> QED BY <2>1, PlainKeepsAt
<1>2. ASSUME NEW items, Starts(l, items) PROVE Starts(l \o m, items)
  <2>1. PICK n \in 1..Len(l) : BackedAt(l, l[n].by, n) /\ Leads(items, l[n].window)
    BY <1>2 DEF Starts
  <2>2. n \in 1..Len(l \o m) /\ (l \o m)[n] = l[n] /\ BackedAt(l \o m, l[n].by, n)
    BY <2>1, PlainKeepsAt
  <2> QED BY <2>1, <2>2 DEF Starts
<1> QED BY <1>1, <1>2 DEF BackedBy

\* A request goes on beginning as the chain does.
LEMMA PlainGoes ==
    ASSUME NEW l, NEW m, NEW c, NEW native, IsLog(l), IsLog(m), Plain(m), Goes(l, c, native)
    PROVE  Goes(l \o m, c, native)
  BY PlainKeeps DEF Goes

\* What comes after the window does not change how items begin.
LEMMA LeadsOn ==
    ASSUME NEW s, NEW r, IsLog(s), IsLog(r)
    PROVE  IsLog(s \o r) /\ \A w : Leads(s, w) => Leads(s \o r, w)
<1>1. /\ IsLog(s \o r) /\ Len(s) \in Nat /\ Len(r) \in Nat /\ Len(s \o r) = Len(s) + Len(r)
      /\ \A i \in 1..Len(s) : (s \o r)[i] = s[i]
  BY LogsJoined
<1>2. ASSUME NEW w, Len(s) > 0, s[1] = w PROVE Len(s \o r) > 0 /\ (s \o r)[1] = w
  <2>1. 1 \in 1..Len(s) /\ Len(s \o r) > 0
    BY <1>1, <1>2
  <2> QED BY <1>1, <1>2, <2>1
<1> QED BY <1>1, <1>2 DEF Leads

\* A log has one place that can back a chain, so a chain in use begins as a request of
\* that log, and what begins so is backed if its model is the chain's.
LEMMA BackedOnce ==
    ASSUME NEW l, NEW m, NEW by, IsLog(l), NEW n \in 1..Len(l), NEW k \in 1..Len(l),
           BackedAt(l, m, n), BackedAt(l, by, k)
    PROVE  n = k
<1>1. Len(l) \in Nat
  BY LenProperties DEF IsLog
<1> QED BY <1>1 DEF BackedAt

LEMMA BackedStarts ==
    ASSUME NEW l, NEW c, BackedBy(l, c), c.st = "active"
    PROVE  Starts(l, c.items)
  BY DEF BackedBy, Starts, BackedAt

LEMMA StartsBacked ==
    ASSUME NEW l, NEW c, NEW d, IsLog(l), BackedBy(l, c), c.st = "active", d.of = c.of,
           Starts(l, d.items)
    PROVE  BackedBy(l, d)
<1>1. PICK n \in 1..Len(l) : BackedAt(l, c.of, n)
  BY DEF BackedBy
<1>2. PICK k \in 1..Len(l) : BackedAt(l, l[k].by, k) /\ Leads(d.items, l[k].window)
  BY DEF Starts
<1>3. n = k
  BY <1>1, <1>2, BackedOnce
<1> QED BY <1>1, <1>2, <1>3 DEF BackedBy

-----------------------------------------------------------------------------
\* The last of some places of a log, if there is one.
LEMMA LastIs ==
    ASSUME NEW n \in Nat, NEW is \in SUBSET (1..n), is # {}
    PROVE  Last0(is) \in is /\ \A j \in is : j <= Last0(is)
<1> DEFINE above == {x \in Nat : \A j \in is : j <= x}
<1>1. n \in above
  OBVIOUS
<1>2. PICK x \in above : \A y \in above : ~(<<y, x>> \in OpToRel(<, Nat))
  BY <1>1, NatLessThanWellFounded, WFMin
<1>3. x \in Nat /\ (\A j \in is : j <= x) /\ \A y \in above : ~(y < x)
  BY <1>2 DEF OpToRel
<1>4. x \in is
  <2> SUFFICES ASSUME x \notin is PROVE FALSE
    OBVIOUS
  <2>1. PICK j \in is : j \in 1..n
    OBVIOUS
  <2>2. x # 0
    BY <1>3, <2>1
  <2>3. x - 1 \in Nat /\ x - 1 < x /\ \A k \in is : k <= x - 1
    BY <1>3, <2>2
  <2> QED BY <1>3, <2>3
<1>5. \E i \in is : \A j \in is : j <= i
  BY <1>3, <1>4
<1> QED BY <1>5 DEF Last0

\* The first of some numbers, if there is one.
LEMMA FirstIs ==
    ASSUME NEW is \in SUBSET Nat, is # {}
    PROVE  First(is) \in is
<1>1. PICK x \in is : \A y \in is : ~(<<y, x>> \in OpToRel(<, Nat))
  BY NatLessThanWellFounded, WFMin
<1>2. \A y \in is : ~(y < x)
  BY <1>1 DEF OpToRel
<1>3. \A y \in is : x <= y
  BY <1>2
<1> QED BY <1>3 DEF First

\* The items made of a log, and those that are not logged, are sequences.
LEMMA ItemsAreLogs ==
    ASSUME NEW l, NEW from, NEW t, IsLog(l)
    PROVE  IsLog(Items(l, from, t))
<1> DEFINE slice    == {i \in DOMAIN l : i >= from}
           Shown(e) == \/ IsEntry(e) /\ e.t \in Entries(l, t)
                       \/ /\ e.k = "result" /\ e.t \in ToolTurns(l, t)
                          /\ \E j \in slice : l[j] = Call(e.t, e.r)
           shown    == {i \in slice : Shown(l[i])}
           k        == Cardinality(shown)
           f        == [n \in 1..k |-> {FactOf(l[Nth(shown, n)])}]
<1>1. Items(l, from, t) = f
  BY DEF Items
<1>2. Len(l) \in Nat /\ DOMAIN l = 1..Len(l)
  BY LenProperties DEF IsLog
<1>3. shown \in SUBSET (1..Len(l))
  BY <1>2
<1>4. k \in Nat
  <2>1. IsFiniteSet(1..Len(l))
    BY <1>2, FS_Interval
  <2>2. IsFiniteSet(shown)
    <3> HIDE DEF shown
    <3> QED BY <1>3, <2>1, FS_Subset
  <2> HIDE DEF shown
  <2> QED BY <2>2, FS_CardinalityType
<1> HIDE DEF shown, k
<1> DEFINE S == {{FactOf(l[Nth(shown, n)])} : n \in 1..k}
<1>5. f \in [1..k -> S]
  OBVIOUS
<1> HIDE DEF S, f
<1>6. f \in Seq(S)
  BY <1>4, <1>5, SeqDef
<1> QED BY <1>1, <1>6 DEF IsLog

LEMMA KeptIsLog ==
    ASSUME NEW l, NEW t, IsLog(l)
    PROVE  IsLog(Kept(l, t))
  BY ItemsAreLogs DEF Kept

LEMMA UnloggedIsLog ==
    ASSUME NEW msgs, NEW inLog, IsLog(msgs), IsLog(inLog)
    PROVE  IsLog(Unlogged(msgs, inLog))
<1> DEFINE at == {o \in 0..(Len(msgs) - Len(inLog)) :
                    SubSeq(msgs, o + 1, o + Len(inLog)) = inLog}
           from == First(at) + Len(inLog) + 1
<1>1. Len(msgs) \in Nat /\ Len(inLog) \in Nat
  BY LenProperties DEF IsLog
<1>2. at \in SUBSET Nat
  BY <1>1
<1>3. Unlogged(msgs, inLog) = IF inLog = <<>> THEN msgs
                               ELSE IF at = {} THEN <<>> ELSE SubSeq(msgs, from, Len(msgs))
  BY DEF Unlogged
<1>4. ASSUME at # {} PROVE IsLog(SubSeq(msgs, from, Len(msgs)))
  <2> HIDE DEF at
  <2>1. First(at) \in Nat
    BY <1>2, <1>4, FirstIs
  <2>2. from \in Int /\ Len(msgs) \in Int
    BY <1>1, <2>1
  <2> HIDE DEF from
  <2>3. \A i \in from..Len(msgs) : msgs[i] \in {msgs[j] : j \in from..Len(msgs)}
    OBVIOUS
  <2>4. SubSeq(msgs, from, Len(msgs)) \in Seq({msgs[j] : j \in from..Len(msgs)})
    BY <2>2, <2>3, SubSeqProperties
  <2> QED BY <2>4 DEF IsLog
<1> HIDE DEF at, from
<1> QED BY <1>3, <1>4, ShortLogs

\* Where a log has a last checkpoint.
LEMMA NewestIs ==
    ASSUME NEW l, IsLog(l), Newest(l) # 0
    PROVE  /\ Newest(l) \in 1..Len(l) /\ l[Newest(l)].k = "checkpoint" /\ Len(l) \in Nat
           /\ \A i \in 1..Len(l) : l[i].k = "checkpoint" => i <= Newest(l)
<1>1. Len(l) \in Nat /\ DOMAIN l = 1..Len(l)
  BY LenProperties DEF IsLog
<1>2. Of(l, "checkpoint") \in SUBSET (1..Len(l)) /\ Of(l, "checkpoint") # {}
  BY <1>1 DEF Of, Newest, Last0
<1>3. Newest(l) \in Of(l, "checkpoint") /\ \A j \in Of(l, "checkpoint") : j <= Newest(l)
  BY <1>1, <1>2, LastIs DEF Newest
<1> QED BY <1>1, <1>3 DEF Of

\* A chain rebuilt from the newest checkpoint is backed.
LEMMA FromCheckpointBacked ==
    ASSUME NEW l, NEW m, NEW sum, IsLog(l)
    PROVE  IsChain(FromCheckpoint(l, m, sum)) /\ BackedBy(l, FromCheckpoint(l, m, sum))
<1> DEFINE n == Newest(l)
<1>1. CASE n # 0 /\ l[n].by = m /\ \A i \in Of(l, "mask") : i < n
  <2>1. FromCheckpoint(l, m, sum) = Active(m, sum, <<l[n].window>>, n)
    BY <1>1 DEF FromCheckpoint
  <2>2. /\ n \in 1..Len(l) /\ l[n].k = "checkpoint" /\ Len(l) \in Nat
        /\ \A i \in 1..Len(l) : l[i].k = "checkpoint" => i <= n
    BY <1>1, NewestIs
  <2>3. DOMAIN l = 1..Len(l)
    BY LenProperties DEF IsLog
  <2>4. ASSUME NEW i \in 1..Len(l), i > n PROVE l[i].k \notin {"checkpoint", "mask"}
    BY <1>1, <2>2, <2>3, <2>4 DEF Of
  <2>5. BackedAt(l, m, n)
    BY <1>1, <2>2, <2>4 DEF BackedAt
  <2>6. PICK w : w = l[n].window
    OBVIOUS
  <2>7. IsLog(<<w>>) /\ Leads(<<w>>, w)
    BY ShortLogs DEF Leads
  <2>8. PICK c : c = Active(m, sum, <<w>>, n)
    OBVIOUS
  <2>9. IsChain(c) /\ c.of = m /\ c.items = <<w>>
    BY <2>7, <2>8 DEF Active, IsChain
  <2> QED BY <2>1, <2>2, <2>5, <2>6, <2>7, <2>8, <2>9 DEF BackedBy
<1>2. CASE ~(n # 0 /\ l[n].by = m /\ \A i \in Of(l, "mask") : i < n)
  <2>1. FromCheckpoint(l, m, sum) = Invalid(m)
    BY <1>2 DEF FromCheckpoint
  <2> QED BY <2>1, ShortLogs DEF Invalid, NoChain, IsChain, BackedBy
<1> QED BY <1>1, <1>2

\* A chain that is not in use needs no checkpoint.
LEMMA NotInUse ==
    ASSUME NEW l, NEW m
    PROVE  /\ IsChain(NoChain) /\ BackedBy(l, NoChain)
           /\ IsChain(Invalid(m)) /\ BackedBy(l, Invalid(m))
           /\ IsChain(Disabled(m)) /\ BackedBy(l, Disabled(m))
<1>1. NoChain.st = "none" /\ Invalid(m).st = "invalid" /\ Disabled(m).st = "disabled"
  BY DEF NoChain, Invalid, Disabled
<1>2. IsChain(NoChain) /\ IsChain(Invalid(m)) /\ IsChain(Disabled(m))
  BY ShortLogs DEF NoChain, Invalid, Disabled, IsChain
<1> QED BY <1>1, <1>2 DEF BackedBy

\* A chain that catches up with the log begins as it did.
LEMMA CaughtUpIs ==
    ASSUME NEW c, NEW l, NEW sum, NEW t, IsLog(l), IsChain(c)
    PROVE  LET d == CaughtUp(c, l, sum, t)
           IN  /\ IsChain(d) /\ d.st = c.st /\ d.of = c.of
               /\ BackedBy(l, c) => BackedBy(l, d)
<1>1. PICK d, more : d = CaughtUp(c, l, sum, t) /\ more = Items(l, c.synced + 1, t)
  OBVIOUS
<1>2. /\ IsLog(c.items) /\ IsLog(c.items \o more)
      /\ \A w : Leads(c.items, w) => Leads(c.items \o more, w)
  BY <1>1, ItemsAreLogs, LeadsOn DEF IsChain
<1>3. \/ d = [c EXCEPT !.sum = sum]
      \/ d = [c EXCEPT !.sum = sum, !.items = c.items \o more, !.synced = Len(l)]
  BY <1>1 DEF CaughtUp
<1>4. /\ {"st", "of", "sum", "items", "synced"} \subseteq DOMAIN d /\ d.st = c.st /\ d.of = c.of
      /\ d.items = c.items \/ d.items = c.items \o more
  BY <1>3 DEF IsChain
<1>5. IsChain(d)
  BY <1>2, <1>4 DEF IsChain
<1>6. BackedBy(l, c) => BackedBy(l, d)
  BY <1>2, <1>4 DEF BackedBy
<1> QED BY <1>1, <1>4, <1>5, <1>6

\* A chain that is backed stays so where a request is assembled, and the request begins
\* as it does.
LEMMA AssembleBacked ==
    ASSUME NEW c, NEW l, NEW p, NEW msgs, NEW t, IsLog(l), IsChain(c), IsLog(msgs.items)
    PROVE  LET a == Assemble(c, l, p, msgs, t)
           IN  /\ IsChain(a.chain) /\ \A x \in a.native : IsLog(x.items)
               /\ BackedBy(l, c) => BackedBy(l, a.chain) /\ Goes(l, a.chain, a.native)
<1> DEFINE found == IF Matches(c, p.model) THEN c ELSE FromCheckpoint(l, p.model, msgs.sum)
<1>1. IsChain(found) /\ (BackedBy(l, c) => BackedBy(l, found))
  BY FromCheckpointBacked
<1>2. PICK next : next = CaughtUp(found, l, msgs.sum, t)
  OBVIOUS
<1>3. /\ IsChain(next) /\ next.st = found.st
      /\ BackedBy(l, c) => BackedBy(l, next)
  <2> HIDE DEF found
  <2> QED BY <1>1, <1>2, CaughtUpIs
<1>4. PICK rest : rest = Unlogged(msgs.items, Kept(l, t))
  OBVIOUS
<1>5. IsLog(next.items) /\ IsLog(rest)
  BY <1>3, <1>4, KeptIsLog, UnloggedIsLog DEF IsChain
<1>6. PICK env : env = [sum |-> next.sum, items |-> next.items \o rest]
  OBVIOUS
<1>7. /\ env.items = next.items \o rest /\ IsLog(env.items)
      /\ \A w : Leads(next.items, w) => Leads(env.items, w)
  BY <1>5, <1>6, LeadsOn
<1>8. IsChain(Disabled(p.model)) /\ BackedBy(l, Disabled(p.model)) /\ Disabled(p.model).st # "active"
  BY NotInUse DEF Disabled, NoChain
<1>9. PICK a : a = Assemble(c, l, p, msgs, t)
  OBVIOUS
<1> HIDE DEF found
<1>10. a = CASE p.model \notin OpenAi -> [chain |-> c, native |-> {}]
             [] p.model \in OpenAi /\ ~p.capable ->
                  [chain |-> Disabled(p.model), native |-> {msgs}]
             [] p.model \in OpenAi /\ p.capable /\ found.st # "active" ->
                  [chain |-> found, native |-> {msgs}]
             [] OTHER -> [chain  |-> next, native |-> {env}]
  BY <1>2, <1>4, <1>6, <1>9 DEF Assemble, found
<1>11. CASE p.model \notin OpenAi
  <2>1. a.chain = c /\ a.native = {}
    BY <1>10, <1>11
  <2> QED BY <1>9, <2>1 DEF Goes
<1>12. CASE p.model \in OpenAi /\ ~p.capable
  <2>1. a.chain = Disabled(p.model) /\ a.native = {msgs}
    BY <1>10, <1>12
  <2> QED BY <1>8, <1>9, <2>1 DEF Goes
<1>13. CASE p.model \in OpenAi /\ p.capable /\ found.st # "active"
  <2>1. a.chain = found /\ a.native = {msgs}
    BY <1>10, <1>13
  <2> QED BY <1>1, <1>9, <1>13, <2>1 DEF Goes
<1>14. CASE p.model \in OpenAi /\ p.capable /\ found.st = "active"
  <2>1. a.chain = next /\ a.native = {env}
    BY <1>10, <1>14
  <2>2. BackedBy(l, c) => Starts(l, next.items)
    BY <1>3, <1>14, BackedStarts
  <2>3. Starts(l, next.items) => Starts(l, env.items)
    BY <1>7 DEF Starts
  <2> QED BY <1>3, <1>7, <1>9, <2>1, <2>2, <2>3 DEF Goes
<1> QED BY <1>11, <1>12, <1>13, <1>14

\* A chain that is published, or committed to, is one the log backs.
LEMMA PublishedIs ==
    ASSUME NEW c, NEW replay, IsChain(c), \A r \in replay : IsChain(r)
    PROVE  /\ IsChain(Published(c, replay))
           /\ replay # {} => Published(c, replay) \in replay
           /\ replay = {} => Published(c, replay).st # "active"
<1>1. CASE replay # {}
  <2>1. Published(c, replay) \in replay
    BY <1>1 DEF Published
  <2> QED BY <1>1, <2>1
<1>2. CASE replay = {}
  <2>1. CASE c.st = "active"
    BY <1>2, <2>1, ShortLogs DEF Published, Invalid, NoChain, IsChain
  <2>2. CASE c.st = "none"
    BY <1>2, <2>2, ShortLogs DEF Published, Invalid, NoChain, IsChain
  <2>3. CASE c.st \notin {"active", "none"}
    BY <1>2, <2>3 DEF Published
  <2> QED BY <1>2, <2>1, <2>2, <2>3
<1> QED BY <1>1, <1>2

LEMMA PublishedBacked ==
    ASSUME NEW c, NEW l, NEW replay, IsChain(c),
           \A r \in replay : IsChain(r) /\ BackedBy(l, r)
    PROVE  IsChain(Published(c, replay)) /\ BackedBy(l, Published(c, replay))
  BY PublishedIs DEF BackedBy

\* A round that is committed leaves a chain that begins as what was sent.
LEMMA CommittedBacked ==
    ASSUME NEW c, NEW l, NEW m, NEW sent, NEW raw, NEW upto, IsLog(l), IsChain(c),
           \A x \in sent : IsLog(x.items), \A o \in raw : IsLog(o)
    PROVE  LET d == Committed(c, m, sent, raw, upto)
           IN  IsChain(d) /\ (BackedBy(l, c) /\ Goes(l, c, sent) => BackedBy(l, d))
<1> DEFINE d == Committed(c, m, sent, raw, upto)
<1>1. CASE c.st # "active" \/ c.of # m
  BY <1>1 DEF Committed
<1>2. CASE ~(c.st # "active" \/ c.of # m) /\ (sent = {} \/ raw = {})
  <2>1. d = Invalid(m)
    BY <1>2 DEF Committed
  <2> QED BY <2>1, NotInUse
<1>3. CASE ~(c.st # "active" \/ c.of # m) /\ ~(sent = {} \/ raw = {})
  <2>1. PICK s, o : s = (CHOOSE x \in sent : TRUE) /\ o = (CHOOSE x \in raw : TRUE)
    OBVIOUS
  <2>2. s \in sent /\ o \in raw
    BY <1>3, <2>1
  <2>3. d = Active(m, s.sum, s.items \o o, upto)
    BY <1>3, <2>1 DEF Committed
  <2>4. IsLog(s.items \o o) /\ \A w : Leads(s.items, w) => Leads(s.items \o o, w)
    BY <2>2, LeadsOn
  <2>5. IsChain(d) /\ d.of = c.of /\ d.items = s.items \o o
    <3> HIDE DEF d
    <3> QED BY <1>3, <2>3, <2>4 DEF Active, IsChain
  <2>6. Goes(l, c, sent) => Starts(l, d.items)
    <3> HIDE DEF d
    <3> QED BY <1>3, <2>2, <2>4, <2>5 DEF Goes, Starts
  <2> HIDE DEF d
  <2>7. BackedBy(l, c) /\ Goes(l, c, sent) => BackedBy(l, d)
    BY <1>3, <2>5, <2>6, StartsBacked
  <2> QED BY <2>5, <2>7 DEF d
<1> QED BY <1>1, <1>2, <1>3

-----------------------------------------------------------------------------
\* What can be masked is finite, so that the masks can be logged one after the other.
LEMMA SequenceOf ==
    ASSUME NEW S, IsFiniteSet(S)
    PROVE  IsLog(SetToSeq(S))
<1>1. Cardinality(S) \in Nat /\ ExistsBijection(1..Cardinality(S), S)
  BY FS_CardinalityType
<1>2. PICK f : f \in Bijection(1..Cardinality(S), S)
  BY <1>1 DEF ExistsBijection
<1>3. f \in [1..Cardinality(S) -> S] /\ IsInjective(f)
  BY <1>2 DEF Bijection, Injection
<1>4. SetToSeq(S) \in [1..Cardinality(S) -> S]
  BY <1>3 DEF SetToSeq
<1>5. SetToSeq(S) \in Seq(S)
  BY <1>1, <1>4, SeqDef
<1> QED BY <1>5 DEF IsLog

\* The results that can be masked are no more than the events of the log.
LEMMA MaskableFinite ==
    ASSUME NEW l, NEW t, IsLog(l)
    PROVE  IsFiniteSet(Maskable(l, t))
<1> DEFINE D == {j \in Of(l, "result") :
                   /\ j >= KeptFrom(l) /\ l[j].t # t
                   /\ l[j].t \in ToolTurns(l, t)
                   /\ ~\E m \in Of(l, "mask") : l[m].t = l[j].t /\ l[m].r = l[j].r}
           M == {<<l[i].t, l[i].r>> : i \in D}
           f == [i \in D |-> <<l[i].t, l[i].r>>]
<1>1. Len(l) \in Nat /\ DOMAIN l = 1..Len(l)
  BY LenProperties DEF IsLog
<1>2. D \in SUBSET (1..Len(l))
  BY <1>1 DEF Of
<1>3. IsFiniteSet(1..Len(l))
  BY <1>1, FS_Interval
<1>4. IsFiniteSet(D)
  <2> HIDE DEF D
  <2> QED BY <1>2, <1>3, FS_Subset
<1>5. f \in Surjection(D, M)
  <2> HIDE DEF D
  <2> QED BY DEF Surjection
<1>6. IsFiniteSet(M)
  <2> HIDE DEF D, M, f
  <2> QED BY <1>4, <1>5, FS_Surjection
<1>7. Maskable(l, t) = M
  BY DEF Maskable
<1> QED BY <1>6, <1>7

\* The masks of a compaction are a log.
LEMMA MasksAreLogs ==
    ASSUME NEW l, NEW t, IsLog(l), NEW ms \in Masks(l, t)
    PROVE  IsLog(ms)
<1>1. PICK u : ms = SetToSeq({Mask(x[1], x[2]) : x \in {y \in Maskable(l, t) : y[1] <= u}})
  BY DEF Masks
<1> DEFINE P == {y \in Maskable(l, t) : y[1] <= u}
           M == {Mask(x[1], x[2]) : x \in P}
           f == [x \in P |-> Mask(x[1], x[2])]
<1>2. P \in SUBSET Maskable(l, t)
  OBVIOUS
<1>3. IsFiniteSet(P)
  <2> HIDE DEF P
  <2> QED BY <1>2, MaskableFinite, FS_Subset
<1>4. f \in Surjection(P, M)
  <2> HIDE DEF P
  <2> QED BY DEF Surjection
<1>5. IsFiniteSet(M)
  <2> HIDE DEF P, M, f
  <2> QED BY <1>3, <1>4, FS_Surjection
<1>6. IsLog(SetToSeq(M))
  <2> HIDE DEF M
  <2> QED BY <1>5, SequenceOf
<1> QED BY <1>1, <1>6

\* A log whose last event is a checkpoint backs a chain of its model that begins with its
\* window.
LEMMA EndsInCheckpoint ==
    ASSUME NEW l, NEW ms, NEW e, NEW c, IsLog(l), IsLog(ms), e.k = "checkpoint", e.by = c.of,
           Leads(c.items, e.window)
    PROVE  IsLog(ms \o <<e>>) /\ BackedBy(l \o (ms \o <<e>>), c)
<1>1. IsLog(<<e>>) /\ Len(<<e>>) = 1 /\ <<e>>[1] = e
  BY ShortLogs
<1>2. /\ IsLog(ms \o <<e>>) /\ Len(ms) \in Nat /\ Len(ms \o <<e>>) = Len(ms) + 1
      /\ (ms \o <<e>>)[Len(ms) + 1] = e
  BY <1>1, LogsJoined
<1>3. PICK a : a = ms \o <<e>>
  OBVIOUS
<1>4. /\ Len(l) \in Nat /\ Len(l \o a) = Len(l) + Len(a)
      /\ \A i \in 1..Len(a) : (l \o a)[Len(l) + i] = a[i]
  BY <1>2, <1>3, LogsJoined
<1>5. PICK n : n = Len(l) + Len(a)
  OBVIOUS
<1>6. n \in 1..Len(l \o a) /\ Len(l \o a) = n /\ n \in Nat /\ (l \o a)[n] = e
  <2>1. Len(a) = Len(ms) + 1 /\ Len(a) \in 1..Len(a) /\ a[Len(a)] = e
    BY <1>2, <1>3
  <2>2. (l \o a)[Len(l) + Len(a)] = a[Len(a)]
    BY <1>4, <2>1
  <2>3. n \in Nat /\ n >= 1 /\ Len(l \o a) = n
    BY <1>2, <1>4, <1>5, <2>1
  <2>4. n \in 1..Len(l \o a)
    BY <2>3
  <2> QED BY <1>5, <2>1, <2>2, <2>3, <2>4
<1>7. \A i \in 1..Len(l \o a) : ~(i > n)
  BY <1>6
<1>8. BackedAt(l \o a, c.of, n)
  BY <1>6, <1>7 DEF BackedAt
<1> QED BY <1>2, <1>3, <1>6, <1>8 DEF BackedBy

\* What a compaction appends is a log, and the replay it leaves is backed by the log with it.
LEMMA CompactionBacked ==
    ASSUME NEW l, NEW t, NEW p, NEW request, NEW replay, IsLog(l),
           NEW o \in Compactions(l, t, p, request, replay)
    PROVE  /\ IsLog(o.add)
           /\ o.app = "not" => o.add = <<>>
           /\ o.app # "not" => \A r \in o.replay : r.st = "active"
           /\ (\A r \in replay : IsChain(r)) => \A r \in o.replay : IsChain(r)
           /\ (\A r \in replay : BackedBy(l, r)) => \A r \in o.replay : BackedBy(l \o o.add, r)
<1>0. ASSUME NEW ms \in {<<>>} \cup Masks(l, t) PROVE IsLog(ms)
  BY <1>0, MasksAreLogs, ShortLogs
<1>1. ASSUME o = NotApplied(replay)
      PROVE  /\ IsLog(o.add) /\ o.add = <<>> /\ o.replay = replay /\ l \o o.add = l
             /\ o.app = "not"
  <2>1. o.add = <<>> /\ o.replay = replay /\ o.app = "not"
    BY <1>1 DEF NotApplied
  <2>2. l \o <<>> = l
    BY ConcatEmptySeq DEF IsLog
  <2> QED BY <2>1, <2>2, ShortLogs
<1>2. ASSUME NEW ms \in Masks(l, t), o = [app |-> "mask", add |-> ms, replay |-> {}]
      PROVE  IsLog(o.add) /\ o.replay = {} /\ o.app # "not"
  BY <1>2, MasksAreLogs
<1>3. ASSUME NEW ms \in {<<>>} \cup Masks(l, t), NEW e,
             o = [app |-> "summary", add |-> ms \o <<e>>, replay |-> {}]
      PROVE  IsLog(o.add) /\ o.replay = {} /\ o.app # "not"
  BY <1>0, <1>3, ShortLogs, LogsJoined
<1>4. ASSUME NEW ms \in {<<>>} \cup Masks(l, t), NEW cut, NEW w, NEW s, NEW n,
             o = [app |-> "native", add |-> ms \o <<Checkpoint(l, cut, p.model, w)>>,
                  replay |-> {Active(p.model, s, <<w>>, n)}]
      PROVE  /\ IsLog(o.add) /\ o.app # "not"
             /\ \A r \in o.replay : IsChain(r) /\ BackedBy(l \o o.add, r) /\ r.st = "active"
  <2>1. PICK e, c : e = Checkpoint(l, cut, p.model, w) /\ c = Active(p.model, s, <<w>>, n)
    OBVIOUS
  <2>2. /\ e.k = "checkpoint" /\ e.by = c.of /\ e.window = w
        /\ IsChain(c) /\ c.st = "active" /\ Leads(c.items, w)
    BY <2>1, ShortLogs DEF Checkpoint, Active, IsChain, Leads
  <2>3. IsLog(ms \o <<e>>) /\ BackedBy(l \o (ms \o <<e>>), c)
    BY <1>0, <2>2, EndsInCheckpoint
  <2> QED BY <1>4, <2>1, <2>2, <2>3
<1>5. \/ o = NotApplied(replay)
      \/ \E ms \in Masks(l, t) : o = [app |-> "mask", add |-> ms, replay |-> {}]
      \/ \E ms \in {<<>>} \cup Masks(l, t) : \E e : o = [app |-> "summary", add |-> ms \o <<e>>, replay |-> {}]
      \/ \E ms \in {<<>>} \cup Masks(l, t) : \E cut, w, s, n :
           o = [app |-> "native", add |-> ms \o <<Checkpoint(l, cut, p.model, w)>>,
                replay |-> {Active(p.model, s, <<w>>, n)}]
  <2>1. \/ o = NotApplied(replay) \/ o \in Masked(l, t) \/ o \in Summarised(l, t)
        \/ \E r \in request : o \in Windowed(l, t, p, r, Facts(r.items))
    BY DEF Compactions
  <2>2. CASE o \in Masked(l, t)
    BY <2>2 DEF Masked
  <2>3. CASE o \in Summarised(l, t)
    <3>2. PICK ms \in {<<>>} \cup Masks(l, t), cut \in Cuts(l) :
            o = [app |-> "summary", add |-> ms \o <<Portable(l, cut)>>, replay |-> {}]
      BY <2>3 DEF Summarised
    <3> QED BY <3>2, Zenon
  <2>4. ASSUME NEW r \in request, o \in Windowed(l, t, p, r, Facts(r.items))
        PROVE  \E ms \in {<<>>} \cup Masks(l, t) : \E cut, w, s, n :
                 o = [app |-> "native", add |-> ms \o <<Checkpoint(l, cut, p.model, w)>>,
                      replay |-> {Active(p.model, s, <<w>>, n)}]
    <3>1. PICK w : w = Facts(r.items)
      OBVIOUS
    <3>2. PICK ms \in {<<>>} \cup Masks(l, t), cut \in Cuts(l) :
            o = [app |-> "native", add |-> ms \o <<Checkpoint(l, cut, p.model, w)>>,
                 replay |-> {Active(p.model, r.sum, <<w>>, Len(l) + Len(ms) + 1)}]
      BY <2>4, <3>1 DEF Windowed
    <3> QED BY <3>2, Zenon
  <2> QED BY <2>1, <2>2, <2>3, <2>4
<1>6. CASE o = NotApplied(replay)
  BY <1>1, <1>6
<1>7. CASE \E ms \in Masks(l, t) : o = [app |-> "mask", add |-> ms, replay |-> {}]
  BY <1>2, <1>7
<1>8. CASE \E ms \in {<<>>} \cup Masks(l, t) : \E e : o = [app |-> "summary", add |-> ms \o <<e>>, replay |-> {}]
  BY <1>3, <1>8
<1>9. CASE \E ms \in {<<>>} \cup Masks(l, t) : \E cut, w, s, n :
             o = [app |-> "native", add |-> ms \o <<Checkpoint(l, cut, p.model, w)>>,
                  replay |-> {Active(p.model, s, <<w>>, n)}]
  BY <1>4, <1>9
<1> QED BY <1>5, <1>6, <1>7, <1>8, <1>9

-----------------------------------------------------------------------------
\* The log of a task that ends its turn.
LEMMA EndedLog ==
    ASSUME NEW l, NEW es, NEW c, NEW t, NEW o, IsLog(l), IsLog(es)
    PROVE  /\ IsLog(l \o Append(es, Fin(t, o))) /\ IsLog(Append(es, Fin(t, o)))
           /\ BackedBy(l \o es, c) => BackedBy(l \o Append(es, Fin(t, o)), c)
<1>1. PICK f : f = <<Fin(t, o)>>
  OBVIOUS
<1>2. IsLog(f) /\ Plain(f)
  BY <1>1, ShortLogs DEF Plain, Fin
<1>3. Append(es, Fin(t, o)) = es \o f /\ IsLog(es \o f) /\ IsLog(l \o (es \o f)) /\ IsLog(l \o es)
  BY <1>1, <1>2, AppendJoins, LogsJoined
<1>4. l \o (es \o f) = (l \o es) \o f
  <2>1. PICK A, B, C : l \in Seq(A) /\ es \in Seq(B) /\ f \in Seq(C)
    BY <1>2 DEF IsLog
  <2>2. PICK U : U = A \cup B \cup C
    OBVIOUS
  <2>3. A \subseteq U /\ B \subseteq U /\ C \subseteq U
    BY <2>2
  <2>4. l \in Seq(U) /\ es \in Seq(U) /\ f \in Seq(U)
    BY <2>1, <2>3, LargerSet
  <2> QED BY <2>4, ConcatAssociative
<1>5. BackedBy(l \o es, c) => BackedBy((l \o es) \o f, c)
  BY <1>2, <1>3, PlainKeeps
<1> QED BY <1>3, <1>4, <1>5

\* A turn that ends keeps the invariant if the chain it leaves is backed.
LEMMA EndsKeeps ==
    ASSUME ReplayInv, NEW es, NEW o, job.st # "none", IsLog(es), Ends(job.log, es, o),
           slog' = slog, skewed' = skewed, IsChain(chain'),
           ~skewed => BackedBy(job.log \o es, chain')
    PROVE  ReplayInv'
<1>1. IsLog(slog) /\ IsLog(stored) /\ IsLog(job.log) /\ skewed \in BOOLEAN
  BY DEF ReplayInv, ReplayShape
<1>2. PICK more : more = Append(es, Fin(job.t, o))
  OBVIOUS
<1>3. stored' = stored \o more /\ job' = [st |-> "done", t |-> job.t, log |-> job.log \o more]
  BY <1>2 DEF Ends, Logs
<1>4. job'.st = "done" /\ job'.log = job.log \o more
  BY <1>3
<1>5. /\ IsLog(more) /\ IsLog(job.log \o more)
      /\ BackedBy(job.log \o es, chain') => BackedBy(job.log \o more, chain')
  BY <1>1, <1>2, EndedLog
<1>6. IsLog(stored')
  BY <1>1, <1>3, <1>5, LogsJoined
<1>7. ReplayShape'
  BY <1>1, <1>4, <1>5, <1>6 DEF ReplayShape, Requesting
<1>8. ChainsBacked'
  BY <1>4, <1>5 DEF ChainsBacked, Requesting, Followed
<1> QED BY <1>7, <1>8 DEF ReplayInv

\* A request that goes on keeps it if the chain and the replay it keeps are backed.
LEMMA RequestKeeps ==
    ASSUME ReplayInv, slog' = slog, skewed' = skewed, IsLog(stored'), IsChain(chain'),
           job'.st \in {"gate", "sent", "tool"}, IsRequest(job'), IsLog(job'.log),
           HasItems(job'.msgs, job'.native), \A c \in job'.replay : IsChain(c),
           job'.st = "gate" => job'.replay \subseteq Snapshot(chain'),
           ~skewed => /\ BackedBy(job'.log, chain') /\ \A c \in job'.replay : BackedBy(job'.log, c)
                      /\ Goes(job'.log, chain', job'.native)
    PROVE  ReplayInv'
<1>1. IsLog(slog) /\ skewed \in BOOLEAN
  BY DEF ReplayInv, ReplayShape
<1>2. ReplayShape'
  BY <1>1 DEF ReplayShape, Requesting
<1>3. ChainsBacked'
  BY DEF ChainsBacked, Requesting, Followed
<1> QED BY <1>2, <1>3 DEF ReplayInv

\* What the invariant says of a request under way.
LEMMA RequestIs ==
    ASSUME ReplayInv, Requesting
    PROVE  /\ IsLog(slog) /\ IsLog(stored) /\ IsLog(job.log) /\ IsChain(chain) /\ IsRequest(job)
           /\ HasItems(job.msgs, job.native) /\ \A c \in job.replay : IsChain(c)
           /\ job.st = "gate" => job.replay \subseteq Snapshot(chain)
           /\ ~skewed => /\ BackedBy(job.log, chain) /\ \A c \in job.replay : BackedBy(job.log, c)
                         /\ Goes(job.log, chain, job.native)
           /\ job.st # "none"
<1>1. job.st # "none"
  BY DEF Requesting
<1> QED BY <1>1 DEF ReplayInv, ReplayShape, ChainsBacked, Followed

\* No event changes nothing.
LEMMA NoEvents ==
    ASSUME NEW l, IsLog(l)
    PROVE  l \o <<>> = l /\ IsLog(<<>>)
  BY ConcatEmptySeq, ShortLogs DEF IsLog

\* A replay is a chain that was in use.
LEMMA SnapshotIs ==
    ASSUME NEW c
    PROVE  /\ \A r \in Snapshot(c) : r = c /\ r.st = "active"
           /\ Snapshot(c) # {} => c.st = "active"
  BY DEF Snapshot

\* The request made of a replay.
LEMMA EnvelopeIs ==
    ASSUME NEW replay, \A c \in replay : IsChain(c)
    PROVE  \A x \in Envelope(replay) : IsLog(x.items) /\ \E c \in replay : x.items = c.items
  BY DEF Envelope, IsChain

\* It begins with the window if its chains are in use and backed.
LEMMA EnvelopeGoes ==
    ASSUME NEW replay, NEW l, NEW d, \A c \in replay : IsChain(c) /\ BackedBy(l, c) /\ c.st = "active"
    PROVE  Goes(l, d, Envelope(replay))
<1>1. \A c \in replay : Starts(l, c.items)
  BY BackedStarts
<1>2. \A x \in Envelope(replay) : \E c \in replay : x.items = c.items
  BY EnvelopeIs
<1> QED BY <1>1, <1>2 DEF Goes

\* One plain event more.
LEMMA OneMore ==
    ASSUME NEW l, NEW e, IsLog(l), e.k \notin {"checkpoint", "mask"}
    PROVE  /\ IsLog(<<e>>) /\ Append(l, e) = l \o <<e>> /\ IsLog(Append(l, e))
           /\ \A c : BackedBy(l, c) => BackedBy(Append(l, e), c)
           /\ \A c, native : Goes(l, c, native) => Goes(Append(l, e), c, native)
<1>1. IsLog(<<e>>) /\ Len(<<e>>) = 1 /\ <<e>>[1] = e
  BY ShortLogs
<1>2. Plain(<<e>>)
  BY <1>1 DEF Plain
<1>3. Append(l, e) = l \o <<e>> /\ IsLog(l \o <<e>>)
  BY <1>1, AppendJoins, LogsJoined
<1> QED BY <1>1, <1>2, <1>3, PlainKeeps, PlainGoes

-----------------------------------------------------------------------------
(***************************************************************************)
(* The task's steps.                                                        *)
(***************************************************************************)

\* The first request is assembled from a chain that the log backs.
LEMMA BeginKeeps == ASSUME ReplayInv, Begin PROVE ReplayInv'
<1>1. /\ IsLog(slog) /\ IsLog(stored) /\ IsLog(job.log) /\ IsChain(chain) /\ job.st = "new"
      /\ ~skewed => BackedBy(job.log, chain)
  BY DEF Begin, ReplayInv, ReplayShape, ChainsBacked, Followed
<1>2. PICK msgs : msgs = Messages(job.log, job.t)
  OBVIOUS
<1>3. PICK a : a = Assemble(chain, job.log, job.p, msgs, job.t)
  OBVIOUS
<1>4. /\ chain' = a.chain /\ slog' = slog /\ stored' = stored /\ skewed' = skewed
      /\ job' = [st |-> "gate", t |-> job.t, p |-> job.p, log |-> job.log, msgs |-> msgs,
                 replay |-> Snapshot(a.chain), native |-> a.native,
                 first |-> TRUE, over |-> FALSE, nudged |-> FALSE, r |-> 0]
  BY <1>2, <1>3 DEF Begin
<1>5. /\ job'.st = "gate" /\ job'.log = job.log /\ job'.replay = Snapshot(a.chain) /\ IsRequest(job')
      /\ job'.msgs = msgs /\ job'.native = a.native
  BY <1>4 DEF IsRequest
<1>6. "items" \in DOMAIN msgs /\ IsLog(msgs.items)
  BY <1>1, <1>2, KeptIsLog DEF Messages
<1>7. /\ IsChain(a.chain) /\ \A x \in a.native : IsLog(x.items)
      /\ ~skewed => BackedBy(job.log, a.chain) /\ Goes(job.log, a.chain, a.native)
  BY <1>1, <1>3, <1>6, AssembleBacked
<1>8. \A r \in Snapshot(a.chain) : r = a.chain
  BY SnapshotIs
<1>9. HasItems(job'.msgs, job'.native)
  BY <1>5, <1>6, <1>7 DEF HasItems
<1> QED BY <1>1, <1>4, <1>5, <1>7, <1>8, <1>9, RequestKeeps

\* The request as it is sent.
LEMMA SentIs ==
    ASSUME IsRequest(job), job' = Sent
    PROVE  /\ job'.st = "sent" /\ job'.log = job.log /\ job'.replay = job.replay /\ IsRequest(job')
           /\ job'.msgs = job.msgs
           /\ job'.native = Envelope(job.replay) \/ job'.native = job.native
  BY DEF Sent, IsRequest

\* What goes out begins as the chain, which is the replay if there is one.
LEMMA SentGoes ==
    ASSUME ReplayInv, job.st = "gate", job' = Sent
    PROVE  HasItems(job'.msgs, job'.native) /\ (~skewed => Goes(job.log, chain, job'.native))
<1>1. Requesting
  BY DEF Requesting
<1>2. /\ IsRequest(job) /\ HasItems(job.msgs, job.native) /\ \A c \in job.replay : IsChain(c)
      /\ job.replay \subseteq Snapshot(chain)
      /\ ~skewed => BackedBy(job.log, chain) /\ Goes(job.log, chain, job.native)
  BY <1>1, RequestIs
<1>3. \A c \in job.replay : c = chain /\ c.st = "active"
  BY <1>2, SnapshotIs
<1>4. /\ \A x \in Envelope(job.replay) : IsLog(x.items)
      /\ ~skewed => Goes(job.log, chain, Envelope(job.replay))
  BY <1>2, <1>3, EnvelopeIs, EnvelopeGoes
<1>5. job'.msgs = job.msgs /\ (job'.native = Envelope(job.replay) \/ job'.native = job.native)
  BY <1>2, SentIs
<1>6. HasItems(job'.msgs, job'.native)
  BY <1>2, <1>4, <1>5 DEF HasItems
<1> QED BY <1>2, <1>4, <1>5, <1>6

\* A request that is sent changes nothing.
LEMMA ProceedKeeps == ASSUME ReplayInv, Proceed PROVE ReplayInv'
<1>1. /\ Requesting /\ job.st = "gate" /\ job' = Sent /\ chain' = chain
      /\ slog' = slog /\ stored' = stored /\ skewed' = skewed
  BY DEF Proceed, Requesting
<1>2. HasItems(job'.msgs, job'.native) /\ (~skewed => Goes(job.log, chain, job'.native))
  BY <1>1, SentGoes
<1> QED BY <1>1, <1>2, RequestIs, SentIs, RequestKeeps

\* What a compaction in a turn leaves.
LEMMA OutcomeIs ==
    ASSUME ReplayInv, Requesting, NEW o \in Outcomes
    PROVE  /\ IsLog(o.add) /\ IsLog(job.log \o o.add) /\ IsLog(stored \o o.add)
           /\ IsChain(Published(chain, o.replay)) /\ \A c \in o.replay : IsChain(c)
           /\ o.app # "not" => \A c \in o.replay : c.st = "active"
           /\ ~skewed => /\ BackedBy(job.log \o o.add, Published(chain, o.replay))
                         /\ \A c \in o.replay : BackedBy(job.log \o o.add, c)
<1>1. /\ IsLog(stored) /\ IsLog(job.log) /\ IsChain(chain) /\ \A c \in job.replay : IsChain(c)
      /\ ~skewed => \A c \in job.replay : BackedBy(job.log, c)
  BY RequestIs
<1>2. o \in Compactions(job.log, job.t, job.p, CompactRequest, job.replay)
  BY DEF Outcomes
<1>3. /\ IsLog(o.add) /\ \A r \in o.replay : IsChain(r)
      /\ o.app # "not" => \A r \in o.replay : r.st = "active"
      /\ ~skewed => \A r \in o.replay : BackedBy(job.log \o o.add, r)
  BY <1>1, <1>2, CompactionBacked
<1>4. IsLog(job.log \o o.add) /\ IsLog(stored \o o.add)
  BY <1>1, <1>3, LogsJoined
<1>5. IsChain(Published(chain, o.replay))
  BY <1>1, <1>3, PublishedIs
<1>6. ~skewed => BackedBy(job.log \o o.add, Published(chain, o.replay))
  BY <1>1, <1>3, PublishedBacked
<1> QED BY <1>3, <1>4, <1>5, <1>6

\* A request that is rebuilt after a compaction.
LEMMA RebuiltKeeps ==
    ASSUME ReplayInv, Requesting, NEW o \in Outcomes, chain' = Published(chain, o.replay),
           Logs(o.add), slog' = slog, skewed' = skewed,
           job'.st = "sent", IsRequest(job'), job'.log = job.log \o o.add, job'.replay = o.replay,
           o.app # "not", job'.msgs = Messages(job.log \o o.add, job.t),
           job'.native = Envelope(o.replay)
    PROVE  ReplayInv'
<1>1. stored' = stored \o o.add
  BY DEF Logs
<1>2. /\ IsLog(job.log \o o.add) /\ \A c \in o.replay : IsChain(c) /\ c.st = "active"
      /\ ~skewed => \A c \in o.replay : BackedBy(job.log \o o.add, c)
  BY OutcomeIs
<1>3. "items" \in DOMAIN job'.msgs /\ IsLog(job'.msgs.items)
  BY <1>2, KeptIsLog DEF Messages
<1>4. HasItems(job'.msgs, job'.native)
  BY <1>2, <1>3, EnvelopeIs DEF HasItems
<1>5. ~skewed => Goes(job'.log, chain', job'.native)
  BY <1>2, EnvelopeGoes
<1> QED BY <1>1, <1>4, <1>5, OutcomeIs, RequestKeeps

\* The chain is published again, and the log is as it was.
LEMMA AgainIs ==
    ASSUME ReplayInv, Requesting
    PROVE  /\ IsChain(Published(chain, job.replay))
           /\ ~skewed => BackedBy(job.log, Published(chain, job.replay))
           /\ job.st = "gate" => Published(chain, job.replay) = chain
                                 \/ Published(chain, job.replay).st # "active"
<1>1. /\ IsChain(chain) /\ \A c \in job.replay : IsChain(c)
      /\ job.st = "gate" => job.replay \subseteq Snapshot(chain)
      /\ ~skewed => \A c \in job.replay : BackedBy(job.log, c)
  BY RequestIs
<1>2. ~skewed => BackedBy(job.log, Published(chain, job.replay))
  BY <1>1, PublishedBacked
<1>3. \A c \in Snapshot(chain) : c = chain
  BY SnapshotIs
<1> QED BY <1>1, <1>2, <1>3, PublishedIs

\* A compaction at the threshold.
LEMMA CompactKeeps == ASSUME ReplayInv, Compact PROVE ReplayInv'
<1>1. Requesting /\ job.st = "gate"
  BY DEF Compact, Requesting
<1>2. IsRequest(job) /\ IsLog(stored) /\ IsLog(job.log) /\ job.st # "none"
  BY <1>1, RequestIs
<1>3. ASSUME NEW o \in Outcomes, o.app # "not", Compacted(o) PROVE ReplayInv'
  <2>1. chain' = Published(chain, o.replay) /\ slog' = slog /\ skewed' = skewed
    BY <1>3 DEF Compacted
  <2>2. CASE /\ job' = [job EXCEPT !.st = "sent", !.log = job.log \o o.add,
                                    !.msgs = Messages(job.log \o o.add, job.t),
                                    !.replay = o.replay, !.native = Envelope(o.replay)]
             /\ Logs(o.add)
    <3>1. /\ job'.st = "sent" /\ IsRequest(job') /\ job'.log = job.log \o o.add
          /\ job'.replay = o.replay /\ job'.msgs = Messages(job.log \o o.add, job.t)
          /\ job'.native = Envelope(o.replay)
      BY <1>2, <2>2 DEF IsRequest
    <3> QED BY <1>1, <1>3, <2>1, <2>2, <3>1, RebuiltKeeps
  <2>3. CASE Ends(job.log, o.add, "stopped")
    BY <1>1, <1>2, <2>1, <2>3, OutcomeIs, EndsKeeps
  <2> QED BY <1>3, <2>2, <2>3 DEF Compacted
<1>4. CASE /\ chain' = Published(chain, job.replay) /\ job' = Sent
           /\ UNCHANGED <<provider, slog, stored, nextTurn, skewed, upsets>>
  <2>1. slog' = slog /\ stored' = stored /\ skewed' = skewed
    BY <1>4
  <2>2. /\ job'.st = "sent" /\ job'.log = job.log /\ job'.replay = job.replay /\ IsRequest(job')
    BY <1>2, <1>4, SentIs
  <2>3. HasItems(job'.msgs, job'.native) /\ (~skewed => Goes(job.log, chain, job'.native))
    BY <1>1, <1>4, SentGoes
  <2>4. ~skewed => Goes(job'.log, chain', job'.native)
    BY <1>1, <1>4, <2>2, <2>3, AgainIs DEF Goes
  <2> QED BY <1>1, <1>4, <2>1, <2>2, <2>3, <2>4, AgainIs, RequestIs, RequestKeeps
<1> QED BY <1>3, <1>4 DEF Compact

\* A compaction after the provider found the request too long.
LEMMA OverflowKeeps == ASSUME ReplayInv, Overflow PROVE ReplayInv'
<1>1. Requesting /\ job.st = "sent" /\ slog' = slog /\ skewed' = skewed
  BY DEF Overflow, TooLong, Answers, Requesting
<1>2. IsRequest(job) /\ IsLog(stored) /\ IsLog(job.log) /\ job.st # "none"
  BY <1>1, RequestIs
<1>3. ASSUME NEW o \in Outcomes, o.app # "not", chain' = Published(chain, o.replay), Logs(o.add),
             job' = [job EXCEPT !.log = job.log \o o.add, !.msgs = Messages(job.log \o o.add, job.t),
                                !.replay = o.replay, !.over = TRUE,
                                !.native = Envelope(o.replay)]
      PROVE  ReplayInv'
  <2>1. /\ job'.st = "sent" /\ IsRequest(job') /\ job'.log = job.log \o o.add
        /\ job'.replay = o.replay /\ job'.msgs = Messages(job.log \o o.add, job.t)
        /\ job'.native = Envelope(o.replay)
    BY <1>1, <1>2, <1>3 DEF IsRequest
  <2> QED BY <1>1, <1>3, <2>1, RebuiltKeeps
<1>4. CASE chain' = Published(chain, job.replay) /\ Ends(job.log, <<>>, "stopped")
  BY <1>1, <1>2, <1>4, AgainIs, NoEvents, EndsKeeps
<1> QED BY <1>3, <1>4 DEF Overflow

\* A turn that stops and leaves the chain alone.
LEMMA StopKeeps ==
    ASSUME ReplayInv, Requesting, Ends(job.log, <<>>, "stopped"),
           slog' = slog, skewed' = skewed, chain' = chain
    PROVE  ReplayInv'
<1>1. /\ IsLog(job.log) /\ IsChain(chain) /\ job.st # "none"
      /\ ~skewed => BackedBy(job.log, chain)
  BY RequestIs
<1>2. IsChain(chain') /\ (~skewed => BackedBy(job.log \o <<>>, chain')) /\ IsLog(<<>>)
  BY <1>1, NoEvents
<1> QED BY <1>1, <1>2, EndsKeeps

\* A compaction that cannot be written, and a turn given up.
LEMMA StopsKeep == ASSUME ReplayInv, CompactUnwritten \/ GiveUp PROVE ReplayInv'
<1>1. /\ Requesting /\ Ends(job.log, <<>>, "stopped")
      /\ slog' = slog /\ skewed' = skewed /\ chain' = chain
  BY DEF CompactUnwritten, GiveUp, TooLong, Answers, Requesting
<1> QED BY <1>1, StopKeeps

\* What a round leaves of the chain, for the log and for the log with one event more.
LEMMA RoundIs ==
    ASSUME ReplayInv, Requesting, NEW raw, NEW output, NEW upto, IsLog(output)
    PROVE  LET c == Round(raw, output, upto)
           IN  IsChain(c) /\ (~skewed => BackedBy(job.log, c))
<1>1. /\ IsLog(job.log) /\ IsChain(chain) /\ \A x \in job.native : IsLog(x.items)
      /\ ~skewed => BackedBy(job.log, chain) /\ Goes(job.log, chain, job.native)
  BY RequestIs DEF HasItems
<1>2. PICK given : given = IF raw THEN {output} ELSE {}
  OBVIOUS
<1>3. \A o \in given : IsLog(o)
  BY <1>2
<1>4. PICK c : c = Committed(chain, job.p.model, job.native, given, upto)
  OBVIOUS
<1>5. IsChain(c) /\ (BackedBy(job.log, chain) /\ Goes(job.log, chain, job.native) => BackedBy(job.log, c))
  BY <1>1, <1>3, <1>4, CommittedBacked
<1>6. Round(raw, output, upto) = c
  BY <1>2, <1>4 DEF Round
<1> QED BY <1>1, <1>5, <1>6

\* A call is logged.
LEMMA CallToolKeeps == ASSUME ReplayInv, CallTool PROVE ReplayInv'
<1>1. PICK call : call = Call(job.t, job.r + 1)
  OBVIOUS
<1>2. /\ Requesting /\ chain' = chain /\ slog' = slog /\ skewed' = skewed
      /\ job' = [job EXCEPT !.st = "tool", !.r = @ + 1, !.log = Append(@, call)]
      /\ stored' = stored \o <<call>>
  BY <1>1 DEF CallTool, Answers, Requesting, Logs
<1>3. /\ IsLog(stored) /\ IsLog(job.log) /\ IsChain(chain) /\ IsRequest(job)
      /\ \A c \in job.replay : IsChain(c)
      /\ HasItems(job.msgs, job.native)
      /\ ~skewed => /\ BackedBy(job.log, chain) /\ \A c \in job.replay : BackedBy(job.log, c)
                    /\ Goes(job.log, chain, job.native)
  BY <1>2, RequestIs
<1>4. /\ job'.st = "tool" /\ job'.log = Append(job.log, call) /\ job'.replay = job.replay
      /\ IsRequest(job') /\ job'.msgs = job.msgs /\ job'.native = job.native
  BY <1>2, <1>3 DEF IsRequest
<1>5. call.k \notin {"checkpoint", "mask"}
  BY <1>1 DEF Call
<1>6. /\ IsLog(<<call>>) /\ IsLog(Append(job.log, call))
      /\ \A c : BackedBy(job.log, c) => BackedBy(Append(job.log, call), c)
      /\ \A c, native : Goes(job.log, c, native) => Goes(Append(job.log, call), c, native)
  BY <1>3, <1>5, OneMore
<1>7. IsLog(stored')
  BY <1>2, <1>3, <1>6, LogsJoined
<1>8. ~skewed => /\ BackedBy(job'.log, chain') /\ \A c \in job'.replay : BackedBy(job'.log, c)
                 /\ Goes(job'.log, chain', job'.native)
  BY <1>2, <1>3, <1>4, <1>6
<1> QED BY <1>2, <1>3, <1>4, <1>6, <1>7, <1>8, RequestKeeps

\* A result is logged and its round committed.
LEMMA FinishToolKeeps == ASSUME ReplayInv, NEW raw \in BOOLEAN, FinishTool(raw) PROVE ReplayInv'
<1>1. PICK result, log, item :
        result = Result(job.t, job.r) /\ log = Append(job.log, result) /\ item = {Tool(job.t, job.r)}
  OBVIOUS
<1>2. PICK c, msgs : /\ c = Round(raw, <<item>>, Len(log))
                     /\ msgs = [job.msgs EXCEPT !.items = Append(@, item)]
  OBVIOUS
<1>3. PICK a : a = Assemble(c, log, job.p, msgs, job.t)
  OBVIOUS
<1>4. PICK next : next = [job EXCEPT !.st = "gate", !.first = FALSE, !.log = log, !.msgs = msgs]
  OBVIOUS
<1>5. /\ Requesting /\ slog' = slog /\ skewed' = skewed
      /\ \/ /\ chain' = a.chain
            /\ job' = [next EXCEPT !.replay = Snapshot(a.chain),
                                   !.native = IF Snapshot(a.chain) = {} THEN {} ELSE a.native]
            /\ stored' = stored \o <<result>>
         \/ /\ job.replay = {} /\ chain' = c /\ job' = [next EXCEPT !.native = {}]
            /\ stored' = stored \o <<result>>
         \/ chain' = c /\ Ends(job.log, <<result>>, "stopped")
  BY <1>1, <1>2, <1>3, <1>4 DEF FinishTool, Requesting, Logs
<1>6. /\ IsLog(stored) /\ IsLog(job.log) /\ IsRequest(job) /\ job.st # "none"
      /\ "items" \in DOMAIN job.msgs /\ IsLog(job.msgs.items)
  BY <1>5, RequestIs DEF HasItems
<1>7. IsChain(c) /\ (~skewed => BackedBy(job.log, c))
  BY <1>2, <1>5, ShortLogs, RoundIs
<1>7a. "items" \in DOMAIN msgs /\ IsLog(msgs.items)
  <2>1. "items" \in DOMAIN msgs /\ msgs.items = Append(job.msgs.items, item)
    BY <1>2, <1>6
  <2> QED BY <1>6, <2>1, AppendIsLog
<1>8. result.k \notin {"checkpoint", "mask"}
  BY <1>1 DEF Result
<1>9. /\ IsLog(<<result>>) /\ IsLog(log) /\ log = job.log \o <<result>>
      /\ ~skewed => BackedBy(log, c)
  BY <1>1, <1>6, <1>7, <1>8, OneMore
<1>10. /\ IsChain(a.chain) /\ \A x \in a.native : IsLog(x.items)
       /\ ~skewed => BackedBy(log, a.chain) /\ Goes(log, a.chain, a.native)
  BY <1>3, <1>7, <1>9, <1>7a, AssembleBacked
<1>11. /\ next.st = "gate" /\ next.log = log /\ next.replay = job.replay /\ IsRequest(next)
       /\ next.msgs = msgs
  BY <1>4, <1>6 DEF IsRequest
<1>12. CASE /\ chain' = a.chain
            /\ job' = [next EXCEPT !.replay = Snapshot(a.chain),
                                   !.native = IF Snapshot(a.chain) = {} THEN {} ELSE a.native]
            /\ stored' = stored \o <<result>>
  <2>1. /\ job'.st = "gate" /\ job'.log = log /\ job'.replay = Snapshot(a.chain) /\ IsRequest(job')
        /\ job'.msgs = msgs /\ (job'.native = {} \/ job'.native = a.native)
    BY <1>11, <1>12 DEF IsRequest
  <2>2. IsLog(stored')
    BY <1>6, <1>9, <1>12, LogsJoined
  <2>3. \A r \in job'.replay : r = a.chain
    BY <2>1, SnapshotIs
  <2>4. HasItems(job'.msgs, job'.native) /\ (~skewed => Goes(job'.log, chain', job'.native))
    BY <1>10, <1>12, <1>7a, <2>1 DEF HasItems, Goes
  <2> QED BY <1>5, <1>9, <1>10, <1>12, <2>1, <2>2, <2>3, <2>4, RequestKeeps
<1>13. CASE /\ job.replay = {} /\ chain' = c /\ job' = [next EXCEPT !.native = {}]
            /\ stored' = stored \o <<result>>
  <2>1. /\ job'.st = "gate" /\ job'.log = log /\ job'.replay = {} /\ IsRequest(job')
        /\ job'.msgs = msgs /\ job'.native = {}
    BY <1>11, <1>13 DEF IsRequest
  <2>2. IsLog(stored')
    BY <1>6, <1>9, <1>13, LogsJoined
  <2>3. HasItems(job'.msgs, job'.native) /\ Goes(job'.log, chain', job'.native)
    BY <1>7a, <2>1 DEF HasItems, Goes
  <2> QED BY <1>5, <1>7, <1>9, <1>13, <2>1, <2>2, <2>3, RequestKeeps
<1>14. CASE chain' = c /\ Ends(job.log, <<result>>, "stopped")
  BY <1>5, <1>6, <1>7, <1>9, <1>14, EndsKeeps
<1> QED BY <1>5, <1>12, <1>13, <1>14

\* An empty answer is asked for again.
LEMMA AskAgainKeeps == ASSUME ReplayInv, NEW raw \in BOOLEAN, AskAgain(raw) PROVE ReplayInv'
<1>1. PICK c, msgs : /\ c = Round(raw, <<>>, Len(job.log))
                     /\ msgs = [job.msgs EXCEPT !.items = Append(@, {Nudge(job.t)})]
  OBVIOUS
<1>2. PICK a : a = Assemble(c, job.log, job.p, msgs, job.t)
  OBVIOUS
<1>3. /\ Requesting /\ job.st = "sent" /\ slog' = slog /\ skewed' = skewed /\ stored' = stored
      /\ chain' = IF Snapshot(c) # {} THEN a.chain ELSE c
      /\ job' = [job EXCEPT !.first = FALSE, !.msgs = msgs, !.nudged = TRUE,
                            !.replay = Snapshot(c),
                            !.native = IF Snapshot(c) # {} THEN a.native ELSE {}]
  BY <1>1, <1>2 DEF AskAgain, Answers, Requesting
<1>4. /\ IsLog(stored) /\ IsLog(job.log) /\ IsRequest(job)
      /\ "items" \in DOMAIN job.msgs /\ IsLog(job.msgs.items)
  BY <1>3, RequestIs DEF HasItems
<1>5. IsChain(c) /\ (~skewed => BackedBy(job.log, c))
  BY <1>1, <1>3, ShortLogs, RoundIs
<1>5a. "items" \in DOMAIN msgs /\ IsLog(msgs.items)
  <2>1. "items" \in DOMAIN msgs /\ msgs.items = Append(job.msgs.items, {Nudge(job.t)})
    BY <1>1, <1>4
  <2> QED BY <1>4, <2>1, AppendIsLog
<1>6. /\ IsChain(a.chain) /\ \A x \in a.native : IsLog(x.items)
      /\ ~skewed => BackedBy(job.log, a.chain) /\ Goes(job.log, a.chain, a.native)
  BY <1>2, <1>4, <1>5, <1>5a, AssembleBacked
<1>7. /\ job'.st = "sent" /\ job'.log = job.log /\ job'.replay = Snapshot(c) /\ IsRequest(job')
      /\ job'.msgs = msgs /\ job'.native = IF Snapshot(c) # {} THEN a.native ELSE {}
  BY <1>3, <1>4 DEF IsRequest
<1>8. \A r \in job'.replay : r = c
  BY <1>7, SnapshotIs
<1>9. IsChain(chain') /\ (~skewed => BackedBy(job.log, chain'))
  BY <1>3, <1>5, <1>6
<1>10. HasItems(job'.msgs, job'.native) /\ (~skewed => Goes(job'.log, chain', job'.native))
  <2>1. CASE Snapshot(c) # {}
    BY <1>3, <1>6, <1>7, <1>5a, <2>1 DEF HasItems
  <2>2. CASE Snapshot(c) = {}
    BY <1>7, <1>5a, <2>2 DEF HasItems, Goes
  <2> QED BY <2>1, <2>2
<1> QED BY <1>3, <1>4, <1>5, <1>7, <1>8, <1>9, <1>10, RequestKeeps

\* The last round.
LEMMA FinishKeeps == ASSUME ReplayInv, NEW raw \in BOOLEAN, Finish(raw) PROVE ReplayInv'
<1>1. PICK c : c = Round(raw, <<{Answer(job.t)}>>, Len(job.log))
  OBVIOUS
<1>2. /\ Requesting /\ slog' = slog /\ skewed' = skewed
      /\ chain' = IF c.st = "active" /\ c.of = job.p.model
                  THEN [c EXCEPT !.synced = Len(job.log) + 2] ELSE c
      /\ Ends(job.log, <<Assistant(job.t)>>, "completed")
  BY <1>1 DEF Finish, Answers, Requesting
<1>3. IsLog(job.log) /\ job.st # "none"
  BY <1>2, RequestIs
<1>4. IsChain(c) /\ (~skewed => BackedBy(job.log, c))
  BY <1>1, <1>2, ShortLogs, RoundIs
<1>5. PICK e : e = Assistant(job.t)
  OBVIOUS
<1>6. IsChain(chain') /\ chain'.st = c.st /\ chain'.of = c.of /\ chain'.items = c.items
  BY <1>2, <1>4 DEF IsChain
<1>7. e.k \notin {"checkpoint", "mask"}
  BY <1>5 DEF Assistant
<1>8. /\ IsLog(<<e>>) /\ Append(job.log, e) = job.log \o <<e>>
      /\ BackedBy(job.log, c) => BackedBy(Append(job.log, e), c)
  BY <1>3, <1>7, OneMore
<1>9. ~skewed => BackedBy(job.log \o <<e>>, chain')
  BY <1>4, <1>6, <1>8 DEF BackedBy
<1> QED BY <1>2, <1>3, <1>5, <1>6, <1>8, <1>9, EndsKeeps

\* A malformed round.
LEMMA MalformedKeeps == ASSUME ReplayInv, Malformed PROVE ReplayInv'
<1>1. PICK c : c = Round(FALSE, <<>>, Len(job.log))
  OBVIOUS
<1>2. /\ Requesting /\ slog' = slog /\ skewed' = skewed /\ chain' = c
      /\ Ends(job.log, <<>>, "stopped")
  BY <1>1 DEF Malformed, Answers, Requesting
<1>3. IsLog(job.log) /\ job.st # "none"
  BY <1>2, RequestIs
<1>4. IsChain(c) /\ (~skewed => BackedBy(job.log, c))
  BY <1>1, <1>2, ShortLogs, RoundIs
<1>5. job.log \o <<>> = job.log /\ IsLog(<<>>)
  BY <1>3, NoEvents
<1> QED BY <1>2, <1>3, <1>4, <1>5, EndsKeeps

-----------------------------------------------------------------------------
(***************************************************************************)
(* The loop's steps.                                                        *)
(***************************************************************************)

\* Between turns the invariant needs the loop's log to back the chain.
LEMMA BetweenKeeps ==
    ASSUME job'.st = "none", IsLog(slog'), IsLog(stored'), IsChain(chain'), skewed' \in BOOLEAN,
           ~skewed' => BackedBy(slog', chain')
    PROVE  ReplayInv'
<1>1. ReplayShape'
  BY DEF ReplayShape, Requesting
<1>2. ChainsBacked'
  BY DEF ChainsBacked, Requesting, Followed
<1> QED BY <1>1, <1>2 DEF ReplayInv

\* What the invariant says of the loop, and of it between turns.
LEMMA LoopIs ==
    ASSUME ReplayInv
    PROVE  /\ IsLog(slog) /\ IsLog(stored) /\ IsChain(chain) /\ skewed \in BOOLEAN
           /\ job.st = "none" /\ ~skewed => BackedBy(slog, chain)
           /\ job.st # "none" => IsLog(job.log)
           /\ job.st # "none" /\ ~skewed => BackedBy(job.log, chain)
  BY DEF ReplayInv, ReplayShape, ChainsBacked, Followed

\* A task that has not yet asked follows the copy it was given.
LEMMA StartTurnKeeps == ASSUME ReplayInv, StartTurn PROVE ReplayInv'
<1>1. PICK e : e = User(nextTurn)
  OBVIOUS
<1>2. /\ job.st = "none" /\ slog' = Append(slog, e) /\ stored' = stored \o <<e>>
      /\ job' = [st |-> "new", t |-> nextTurn, p |-> provider, log |-> slog']
      /\ chain' = chain /\ skewed' = skewed
  BY <1>1 DEF StartTurn, Logs
<1>3. e.k \notin {"checkpoint", "mask"}
  BY <1>1 DEF User
<1>4. /\ IsLog(slog) /\ IsLog(stored) /\ IsChain(chain) /\ skewed \in BOOLEAN
      /\ ~skewed => BackedBy(slog, chain)
  BY <1>2, LoopIs
<1>5. /\ IsLog(<<e>>) /\ IsLog(Append(slog, e))
      /\ BackedBy(slog, chain) => BackedBy(Append(slog, e), chain)
  BY <1>3, <1>4, OneMore
<1>6. IsLog(stored')
  BY <1>2, <1>4, <1>5, LogsJoined
<1>7. job'.st = "new" /\ job'.log = slog'
  BY <1>2
<1>8. ReplayShape'
  BY <1>2, <1>4, <1>5, <1>6, <1>7 DEF ReplayShape, Requesting
<1>9. ChainsBacked'
  BY <1>2, <1>4, <1>5, <1>7 DEF ChainsBacked, Requesting, Followed
<1> QED BY <1>8, <1>9 DEF ReplayInv

\* The loop takes up the log of the task, none, or the file's.
LEMMA TakeUpKeeps == ASSUME ReplayInv, Collect \/ Lose \/ Reopen PROVE ReplayInv'
<1>1. job'.st = "none" /\ stored' = stored
  BY DEF Collect, Lose, Reopen, NoJob
<1>2. CASE Collect
  <2>1. job.st # "none" /\ slog' = job.log /\ chain' = chain /\ skewed' = skewed
    BY <1>2 DEF Collect
  <2> QED BY <1>1, <2>1, LoopIs, BetweenKeeps
<1>3. CASE Lose
  <2>1. slog' = slog /\ chain' = chain /\ skewed' = TRUE
    BY <1>3 DEF Lose
  <2> QED BY <1>1, <2>1, LoopIs, BetweenKeeps
<1>4. CASE Reopen
  <2>1. slog' = stored /\ chain' = NoChain /\ skewed' = skewed
    BY <1>4 DEF Reopen
  <2> QED BY <1>1, <2>1, LoopIs, NotInUse, BetweenKeeps
<1> QED BY <1>2, <1>3, <1>4

\* After an abort the file is what the task's log was, with the turn's end, or the
\* logs have parted.
LEMMA AbortKeeps == ASSUME ReplayInv, Abort PROVE ReplayInv'
<1>1. PICK e : e = Fin(job.t, "stopped")
  OBVIOUS
<1>2. /\ job.st # "none" /\ stored' = stored \o <<e>> /\ slog' = stored' /\ job'.st = "none"
      /\ skewed' = (skewed \/ stored # job.log) /\ chain' = chain
  BY <1>1 DEF Abort, TaskRuns, Logs, NoJob
<1>3. e.k \notin {"checkpoint", "mask"}
  BY <1>1 DEF Fin
<1>4. /\ IsLog(stored) /\ IsChain(chain) /\ skewed \in BOOLEAN
      /\ ~skewed => BackedBy(job.log, chain)
  BY <1>2, LoopIs
<1>5. /\ Append(stored, e) = stored \o <<e>> /\ IsLog(stored \o <<e>>)
      /\ BackedBy(stored, chain) => BackedBy(stored \o <<e>>, chain)
  <2>1. /\ Append(stored, e) = stored \o <<e>> /\ IsLog(Append(stored, e))
        /\ \A c : BackedBy(stored, c) => BackedBy(Append(stored, e), c)
    BY <1>3, <1>4, OneMore
  <2> QED BY <2>1
<1>6. skewed' \in BOOLEAN
  BY <1>2
<1>7. ~skewed' => BackedBy(slog', chain')
  BY <1>2, <1>4, <1>5
<1> QED BY <1>2, <1>4, <1>5, <1>6, <1>7, BetweenKeeps

\* Events of the loop's own leave the chain backed.
LEMMA NotesKeep ==
    ASSUME ReplayInv, LoopNote \/ \E m \in ReplayModels, c \in BOOLEAN : SelectModel(m, c)
    PROVE  ReplayInv'
<1>1. /\ slog' = Append(slog, Note) /\ stored' = stored \o <<Note>>
      /\ chain' = chain /\ skewed' = skewed /\ job' = job
  BY DEF LoopNote, SelectModel, Logs
<1>2. Note.k \notin {"checkpoint", "mask"}
  BY DEF Note
<1>3. IsLog(slog) /\ IsLog(stored)
  BY LoopIs
<1>4. /\ IsLog(<<Note>>) /\ IsLog(Append(slog, Note))
      /\ BackedBy(slog, chain) => BackedBy(Append(slog, Note), chain)
  BY <1>2, <1>3, OneMore
<1>5. IsLog(stored')
  BY <1>1, <1>3, <1>4, LogsJoined
<1>6. ReplayShape'
  BY <1>1, <1>4, <1>5 DEF ReplayInv, ReplayShape, Requesting
<1>7. ChainsBacked'
  BY <1>1, <1>4 DEF ReplayInv, ChainsBacked, Requesting, Followed
<1> QED BY <1>6, <1>7 DEF ReplayInv

\* A compaction in a turn of its own.
LEMMA ManualCompactKeeps == ASSUME ReplayInv, ManualCompact PROVE ReplayInv'
<1>1. PICK msgs : msgs = Messages(slog, nextTurn)
  OBVIOUS
<1>2. PICK a : a = Assemble(chain, slog, provider, msgs, nextTurn)
  OBVIOUS
<1>3. /\ job.st = "none" /\ job' = job /\ skewed' = skewed
      /\ \/ \E o \in Compactions(slog, nextTurn, provider, a.native, Snapshot(a.chain)) :
              /\ chain' = Published(a.chain, o.replay)
              /\ slog' = slog \o o.add /\ stored' = stored \o o.add
         \/ chain' = a.chain /\ slog' = slog /\ stored' = stored
  BY <1>1, <1>2 DEF ManualCompact, Logs
<1>4. /\ IsLog(slog) /\ IsLog(stored) /\ IsChain(chain) /\ skewed \in BOOLEAN
      /\ ~skewed => BackedBy(slog, chain)
  BY <1>3, LoopIs
<1>4a. IsLog(msgs.items)
  BY <1>1, <1>4, KeptIsLog DEF Messages
<1>5. IsChain(a.chain) /\ (~skewed => BackedBy(slog, a.chain))
  BY <1>2, <1>4, <1>4a, AssembleBacked
<1>6. \A r \in Snapshot(a.chain) : r = a.chain
  BY SnapshotIs
<1>7. ASSUME NEW o \in Compactions(slog, nextTurn, provider, a.native, Snapshot(a.chain)),
             chain' = Published(a.chain, o.replay),
             slog' = slog \o o.add, stored' = stored \o o.add
      PROVE  ReplayInv'
  <2>1. /\ IsLog(o.add) /\ \A r \in o.replay : IsChain(r)
        /\ ~skewed => \A r \in o.replay : BackedBy(slog \o o.add, r)
    BY <1>4, <1>5, <1>6, CompactionBacked
  <2>2. IsLog(slog') /\ IsLog(stored')
    BY <1>4, <1>7, <2>1, LogsJoined
  <2>3. IsChain(chain')
    BY <1>5, <1>7, <2>1, PublishedIs
  <2>4. ~skewed => BackedBy(slog', chain')
    BY <1>5, <1>7, <2>1, PublishedBacked
  <2> QED BY <1>3, <1>4, <2>2, <2>3, <2>4, BetweenKeeps
<1>8. CASE chain' = a.chain /\ slog' = slog /\ stored' = stored
  BY <1>3, <1>4, <1>5, <1>8, BetweenKeeps
<1> QED BY <1>3, <1>7, <1>8

-----------------------------------------------------------------------------
(***************************************************************************)
(* The theorems.                                                            *)
(***************************************************************************)

\* The logs are sequences and the chain, with the replay the task may publish again, is
\* backed by the log it follows, after every step of the loop and of the task.
THEOREM ReplayInvariant == ReplaySpec => []ReplayInv
<1>1. ReplayInit => ReplayInv
  <2> SUFFICES ASSUME ReplayInit PROVE ReplayInv
    OBVIOUS
  <2>1. slog = <<>> /\ stored = <<>> /\ chain = NoChain /\ job.st = "none" /\ skewed = FALSE
    BY DEF ReplayInit, NoJob
  <2>2. ReplayShape
    BY <2>1, ShortLogs, NotInUse DEF ReplayShape, Requesting
  <2>3. ChainsBacked
    BY <2>1, NotInUse DEF ChainsBacked, Requesting, Followed
  <2> QED BY <2>2, <2>3 DEF ReplayInv
<1>2. ReplayInv /\ [ReplayNext]_replayVars => ReplayInv'
  <2> SUFFICES ASSUME ReplayInv, [ReplayNext]_replayVars PROVE ReplayInv'
    OBVIOUS
  <2>1. CASE UNCHANGED replayVars
    BY <2>1 DEF replayVars, ReplayInv, ReplayShape, ChainsBacked, Requesting, Followed
  <2>2. CASE StartTurn \/ Begin \/ Proceed \/ Compact \/ Overflow
    BY <2>2, StartTurnKeeps, BeginKeeps, ProceedKeeps, CompactKeeps, OverflowKeeps
  <2>3. CASE CompactUnwritten \/ CallTool \/ Malformed \/ GiveUp
    BY <2>3, StopsKeep, CallToolKeeps, MalformedKeeps
  <2>4. CASE \E raw \in BOOLEAN : FinishTool(raw) \/ AskAgain(raw) \/ Finish(raw)
    BY <2>4, FinishToolKeeps, AskAgainKeeps, FinishKeeps
  <2>5. CASE Collect \/ Lose \/ Abort \/ Reopen \/ ManualCompact
    BY <2>5, TakeUpKeeps, AbortKeeps, ManualCompactKeeps
  <2>6. CASE LoopNote \/ \E m \in ReplayModels, c \in BOOLEAN : SelectModel(m, c)
    BY <2>6, NotesKeep
  <2> QED BY <2>1, <2>2, <2>3, <2>4, <2>5, <2>6 DEF ReplayNext
<1> QED BY <1>1, <1>2, PTL DEF ReplaySpec

\* What backs a chain is the newest checkpoint.
LEMMA BackedIsNewest ==
    ASSUME NEW l, NEW m, IsLog(l), NEW n \in 1..Len(l), BackedAt(l, m, n)
    PROVE  Newest(l) = n /\ n # 0 /\ l[n].by = m /\ \A i \in Of(l, "mask") : i < n
<1>1. Len(l) \in Nat /\ DOMAIN l = 1..Len(l)
  BY LenProperties DEF IsLog
<1>2. n \in Of(l, "checkpoint") /\ \A i \in Of(l, "checkpoint") : i <= n
  BY <1>1 DEF BackedAt, Of
<1>3. Of(l, "checkpoint") \in SUBSET (1..Len(l)) /\ Of(l, "checkpoint") # {}
  BY <1>1, <1>2 DEF Of
<1>4. Newest(l) \in Of(l, "checkpoint") /\ \A j \in Of(l, "checkpoint") : j <= Newest(l)
  BY <1>1, <1>3, LastIs DEF Newest
<1>5. Newest(l) = n
  BY <1>1, <1>2, <1>3, <1>4
<1>6. \A i \in Of(l, "mask") : i < n
  BY <1>1 DEF BackedAt, Of
<1> QED BY <1>1, <1>5, <1>6 DEF BackedAt

\* A chain in use begins with the window of the newest checkpoint of its log, which its
\* own model made, with no result masked since: whatever compactions, masked results,
\* aborted turns, model switches and restarts came before, a restart would begin the same
\* context.
THEOREM ChainIsBacked == ReplaySpec => []ReplayIsBacked
<1>1. ReplayInv => ReplayIsBacked
  <2> SUFFICES ASSUME ReplayInv, chain.st = "active", ~skewed
               PROVE  LET n == Newest(Followed) IN
                      /\ n # 0 /\ Followed[n].by = chain.of
                      /\ chain.items # <<>> /\ chain.items[1] = Followed[n].window
                      /\ \A i \in Of(Followed, "mask") : i < n
    BY DEF ReplayIsBacked
  <2>1. IsLog(Followed) /\ BackedBy(Followed, chain)
    BY DEF ReplayInv, ReplayShape, ChainsBacked, Followed
  <2>2. PICK n \in 1..Len(Followed) : BackedAt(Followed, chain.of, n)
                                     /\ Leads(chain.items, Followed[n].window)
    BY <2>1 DEF BackedBy
  <2>3. chain.items # <<>> /\ chain.items[1] = Followed[n].window
    BY <2>2, ShortLogs DEF Leads
  <2> QED BY <2>1, <2>2, <2>3, BackedIsNewest
<1> QED BY <1>1, ReplayInvariant, PTL

-----------------------------------------------------------------------------
(***************************************************************************)
(* Proofs about TuiScreens: for any number of prompts, edits, selections,  *)
(* dialogs and faults of the backend, the user's edits go to the loop one  *)
(* by one, and once both channels are empty the screen shows the loop's    *)
(* turn and the model in force.                                            *)
(*                                                                         *)
(* That the two agree at rest is not inductive: it rests on what the       *)
(* messages still under way will do. The invariant reads the screen        *)
(* through the channel: the model and the busy sign that will be there     *)
(* when the last message has been handled (FinalModel, FinalBusy), and the *)
(* one message about an edit that may be under way, in which of the two    *)
(* channels, and what it finds (EditAt).                                   *)
(***************************************************************************)

\* The App, and the messages of the two channels.
App ==
    [mode : Screens, showing : 0..MaxUiEdits, dialog : 0..MaxUiDialogs,
     request : 0..MaxUiEdits, preview : 0..MaxUiEdits, submitted : BOOLEAN,
     stream : {"idle", "streaming", "cancelled"}, model : Models,
     pending : Models \cup {0}, handoff : 0..MaxUiSelects, ready : BOOLEAN]

\* The backend's messages.
UiMsg == [k : {"state", "activated", "refused", "delta", "ended", "finished", "preview",
               "edited", "dialog", "required"}, v : Nat, of : Nat]

\* A message of the backend, with what its kind carries.
UiMsgOk(e) ==
    /\ e \in UiMsg
    /\ e.k \in {"state", "activated"} => e.v \in Models
    /\ e.k \in {"preview", "edited"} => e.of \in 0..MaxUiEdits
    /\ e.k = "dialog" => e.of \in 0..MaxUiDialogs

\* The client's messages.
LoopMsg == [k : {"prompt", "cancel", "select", "prepare", "decide", "connect", "resolved"},
            v : Nat, of : Nat]

\* A message of the client, with what its kind carries.
LoopMsgOk(e) ==
    /\ e \in LoopMsg
    /\ e.k = "select" => e.v \in Models
    /\ e.k \in {"prepare", "decide"} => e.of \in 0..MaxUiEdits

\* The types of the state.
ScreensShape ==
    /\ ui \in App
    /\ toUi \in Seq(UiMsg) /\ \A i \in 1..Len(toUi) : UiMsgOk(toUi[i])
    /\ toLoop \in Seq(LoopMsg) /\ \A i \in 1..Len(toLoop) : LoopMsgOk(toLoop[i])
    /\ turn \in {"none", "running", "finishing"} /\ inForce \in Models \cup {0}
    /\ activating = NoMsg \/ (activating \in LoopMsg /\ activating.v \in Models)
    /\ previews \subseteq 1..MaxUiEdits /\ kept \subseteq 1..MaxUiEdits
    /\ flow \in {"none", "working", "asking"} /\ uiFaults \in 0..MaxUiFaults
    /\ spent \in [prompts : 0..MaxUiPrompts, edits : 0..MaxUiEdits,
                  selects : 0..MaxUiSelects, dialogs : 0..MaxUiDialogs]

-----------------------------------------------------------------------------
\* The model the App shows, or will show once the response is over.
Eff(u) == IF u.pending # 0 THEN u.pending ELSE u.model

\* What a message does to the stream state and to the model.
On(e)  == e.k = "delta"
\* A message that ends the busy sign.
Off(e) == e.k \in {"ended", "finished", "state"}
\* A message that sets the model.
Mod(e) == e.k \in {"state", "activated"}

\* Whether the App will await a response, and which model it will show, once it has
\* read all of s.
FinalBusy(u, s) ==
    \/ Busy(u) /\ \A j \in 1..Len(s) : ~Off(s[j])
    \/ \E i \in 1..Len(s) : On(s[i]) /\ \A j \in 1..Len(s) : j > i => ~Off(s[j])

\* The model shown once every message of s has been handled, if the loop has one.
FinalModel(u, s, m) ==
    m # 0 =>
      /\ (\A j \in 1..Len(s) : ~Mod(s[j])) => Eff(u) = m
      /\ \A i \in 1..Len(s) :
           Mod(s[i]) /\ (\A j \in 1..Len(s) : j > i => ~Mod(s[j])) => s[i].v = m

\* A prompt is on its way to the loop.
PromptIn(l) == \E i \in 1..Len(l) : l[i].k = "prompt"

\* Unless the backend failed, the busy sign will be the loop's turn, or a prompt is
\* on its way.
TurnTold ==
    uiFaults = 0 =>
      /\ turn # "finishing"
      /\ turn = "running" => FinalBusy(ui, toUi) /\ activating = NoMsg
      /\ turn = "none" /\ FinalBusy(ui, toUi) => PromptIn(toLoop)

\* The screen will show the model in force, if one is.
ModelTold ==
    /\ FinalModel(ui, toUi, inForce)
    /\ ui.pending # 0 => Busy(ui)

-----------------------------------------------------------------------------
\* The messages of a local edit.
LoopEdit(e) == e.k \in {"prepare", "decide"}
UiEdit(e)   == e.k \in {"preview", "edited"}
\* No message of an edit waits in the channel.
NoLoopEdit(l) == \A i \in 1..Len(l) : ~LoopEdit(l[i])
NoUiEdit(s)   == \A i \in 1..Len(s) : ~UiEdit(s[i])

\* At most one message of an edit is under way.
OneEditMsg(l, s) ==
    /\ \A i, j \in 1..Len(l) : LoopEdit(l[i]) /\ LoopEdit(l[j]) => i = j
    /\ \A i, j \in 1..Len(s) : UiEdit(s[i]) /\ UiEdit(s[j]) => i = j
    /\ NoLoopEdit(l) \/ NoUiEdit(s)

\* Where the edit is, by the message under way or by there being none.
Asked(u, r, P, Q)   == u.request = r /\ r # 0 /\ u.preview = 0 /\ ~u.submitted /\ P = Q
\* The preview p was decided on, and the loop holds Q.
Decided(u, p, P, Q) == u.preview = p /\ p # 0 /\ u.request = 0 /\ u.submitted /\ P = Q
\* What an edit's message to the loop says of the screen and the held previews.
LoopEditAt(u, e, P) ==
    /\ e.k = "prepare" => Asked(u, e.of, P, {})
    /\ e.k = "decide" => Decided(u, e.of, P, {e.of})

\* What an edit's message to the screen says of it and of the held previews.
UiEditAt(u, e, P) ==
    /\ e.k = "preview" => e.v = e.of /\ Asked(u, e.of, P, {e.of})
    /\ e.k = "edited" => \/ e.of = 0 /\ Asked(u, u.request, P, {})
                         \/ Decided(u, e.of, P, {})

\* No edit is under way: the loop holds the preview that is shown, or none.
EditAtRest(u, P) ==
    /\ u.request = 0 /\ ~u.submitted
    /\ P = IF u.preview = 0 THEN {} ELSE {u.preview}

\* What is on the screen.
ScreenAt(u) ==
    /\ u.mode = "review" => u.preview # 0 /\ u.showing = u.preview
    /\ u.mode = "compose" => u.request = 0 /\ u.preview = 0 /\ ~u.submitted

\* At most one message of an edit is under way, and says this.
EditAt(u, l, s, P) ==
    /\ OneEditMsg(l, s)
    /\ \A i \in 1..Len(l) : LoopEditAt(u, l[i], P)
    /\ \A i \in 1..Len(s) : UiEditAt(u, s[i], P)
    /\ NoLoopEdit(l) /\ NoUiEdit(s) => EditAtRest(u, P)
    /\ ScreenAt(u)

\* EditAt, of the state.
EditTold == EditAt(ui, toLoop, toUi, Held)

\* The inductive invariant.
ScreensInv == ScreensShape /\ TurnTold /\ ModelTold /\ EditTold

-----------------------------------------------------------------------------
\* A message joins or leaves a channel.
LEMMA Joined ==
    ASSUME NEW M, NEW s \in Seq(M), NEW e \in M
    PROVE  /\ Append(s, e) \in Seq(M) /\ Len(s) \in Nat /\ Len(Append(s, e)) = Len(s) + 1
           /\ \A i \in 1..Len(s) : i \in 1..(Len(s) + 1) /\ Append(s, e)[i] = s[i]
           /\ Len(s) + 1 \in 1..(Len(s) + 1) /\ Append(s, e)[Len(s) + 1] = e
           /\ \A i \in 1..(Len(s) + 1) : i \in 1..Len(s) \/ i = Len(s) + 1
<1>1. Len(s) \in Nat
  BY LenProperties
<1> QED BY <1>1

\* The channel after its head is taken.
LEMMA Left ==
    ASSUME NEW M, NEW s \in Seq(M), s # <<>>
    PROVE  /\ Tail(s) \in Seq(M) /\ Head(s) \in M /\ Head(s) = s[1]
           /\ Len(s) \in Nat /\ Len(Tail(s)) \in Nat /\ Len(Tail(s)) = Len(s) - 1
           /\ 1 \in 1..Len(s)
           /\ \A i \in 1..Len(Tail(s)) : i + 1 \in 1..Len(s) /\ Tail(s)[i] = s[i + 1]
           /\ \A i \in 1..Len(s) : i = 1 \/ (i - 1 \in 1..Len(Tail(s)) /\ s[i] = Tail(s)[i - 1])
<1>1. Len(s) \in Nat /\ Len(s) > 0
  BY LenProperties, EmptySeq
<1>2. Tail(s) \in Seq(M) /\ Head(s) \in M /\ Head(s) = s[1] /\ Len(Tail(s)) = Len(s) - 1
  BY <1>1
<1>3. \A i \in 1..Len(Tail(s)) : i + 1 \in 1..Len(s) /\ Tail(s)[i] = s[i + 1]
  BY <1>1, <1>2
<1>4. \A i \in 1..Len(s) : i = 1 \/ (i - 1 \in 1..Len(Tail(s)) /\ s[i] = Tail(s)[i - 1])
  <2> SUFFICES ASSUME NEW i \in 1..Len(s), i # 1
               PROVE  i - 1 \in 1..Len(Tail(s)) /\ s[i] = Tail(s)[i - 1]
    OBVIOUS
  <2>1. i - 1 \in 1..Len(Tail(s)) /\ (i - 1) + 1 = i
    BY <1>1, <1>2
  <2> QED BY <1>3, <2>1
<1> QED BY <1>1, <1>2, <1>3, <1>4

\* A message at the end of the channel has the last word.
LEMMA BusyJoined ==
    ASSUME NEW u, NEW M, NEW s \in Seq(M), NEW e \in M
    PROVE  FinalBusy(u, Append(s, e)) <=> (On(e) /\ ~Off(e)) \/ (FinalBusy(u, s) /\ ~Off(e))
<1>1. PICK t : t = Append(s, e)
  OBVIOUS
<1>2. /\ Len(s) \in Nat /\ Len(t) = Len(s) + 1
      /\ \A i \in 1..Len(s) : i \in 1..(Len(s) + 1) /\ t[i] = s[i]
      /\ Len(s) + 1 \in 1..(Len(s) + 1) /\ t[Len(s) + 1] = e
      /\ \A i \in 1..(Len(s) + 1) : i \in 1..Len(s) \/ i = Len(s) + 1
  BY <1>1, Joined
<1>3. (\A j \in 1..Len(t) : ~Off(t[j])) <=> (\A j \in 1..Len(s) : ~Off(s[j])) /\ ~Off(e)
  BY <1>2
<1>4. ASSUME NEW i \in 1..Len(s)
      PROVE  (\A j \in 1..Len(t) : j > i => ~Off(t[j]))
                <=> (\A j \in 1..Len(s) : j > i => ~Off(s[j])) /\ ~Off(e)
  BY <1>2
<1>5. On(e) /\ ~Off(e) => FinalBusy(u, t)
  <2> SUFFICES ASSUME On(e), ~Off(e) PROVE FinalBusy(u, t)
    OBVIOUS
  <2>1. \A j \in 1..Len(t) : j > Len(s) + 1 => ~Off(t[j])
    BY <1>2
  <2> QED BY <1>2, <2>1 DEF FinalBusy
<1>6. FinalBusy(u, s) /\ ~Off(e) => FinalBusy(u, t)
  BY <1>2, <1>3, <1>4 DEF FinalBusy
<1>7. FinalBusy(u, t) => (On(e) /\ ~Off(e)) \/ (FinalBusy(u, s) /\ ~Off(e))
  <2>1. CASE Busy(u) /\ \A j \in 1..Len(t) : ~Off(t[j])
    BY <1>3, <2>1 DEF FinalBusy
  <2>2. ASSUME NEW i \in 1..Len(t), On(t[i]), \A j \in 1..Len(t) : j > i => ~Off(t[j])
        PROVE  (On(e) /\ ~Off(e)) \/ (FinalBusy(u, s) /\ ~Off(e))
    <3>1. CASE i \in 1..Len(s)
      BY <1>2, <1>4, <2>2, <3>1 DEF FinalBusy
    <3>2. CASE i = Len(s) + 1
      BY <1>2, <2>2, <3>2 DEF On, Off
    <3> QED BY <1>2, <3>1, <3>2
  <2> QED BY <2>1, <2>2 DEF FinalBusy
<1> QED BY <1>1, <1>5, <1>6, <1>7

\* Handling the head of the channel leaves the busy sign to come as it was.
LEMMA BusyLeft ==
    ASSUME NEW u, NEW w, NEW M, NEW s \in Seq(M), s # <<>>,
           Busy(w) <=> On(Head(s)) \/ (Busy(u) /\ ~Off(Head(s)))
    PROVE  FinalBusy(w, Tail(s)) <=> FinalBusy(u, s)
<1>1. PICK t : t = Tail(s)
  OBVIOUS
<1>2. /\ Head(s) = s[1] /\ Len(s) \in Nat /\ Len(t) \in Nat /\ 1 \in 1..Len(s)
      /\ \A i \in 1..Len(t) : i + 1 \in 1..Len(s) /\ t[i] = s[i + 1]
      /\ \A i \in 1..Len(s) : i = 1 \/ (i - 1 \in 1..Len(t) /\ s[i] = t[i - 1])
  BY <1>1, Left
<1>3. (\A j \in 1..Len(s) : ~Off(s[j])) <=> (\A j \in 1..Len(t) : ~Off(t[j])) /\ ~Off(s[1])
  BY <1>2
<1>4. (\A j \in 1..Len(s) : j > 1 => ~Off(s[j])) <=> (\A j \in 1..Len(t) : ~Off(t[j]))
  <2>1. ASSUME \A j \in 1..Len(s) : j > 1 => ~Off(s[j]), NEW j \in 1..Len(t)
        PROVE  ~Off(t[j])
    BY <1>2, <2>1
  <2>2. ASSUME \A j \in 1..Len(t) : ~Off(t[j]), NEW j \in 1..Len(s), j > 1
        PROVE  ~Off(s[j])
    BY <1>2, <2>2
  <2> QED BY <2>1, <2>2
<1>5. ASSUME NEW i \in 1..Len(t)
      PROVE  (\A j \in 1..Len(s) : j > i + 1 => ~Off(s[j]))
                <=> (\A j \in 1..Len(t) : j > i => ~Off(t[j]))
  <2>1. ASSUME \A j \in 1..Len(s) : j > i + 1 => ~Off(s[j]), NEW j \in 1..Len(t), j > i
        PROVE  ~Off(t[j])
    BY <1>2, <2>1
  <2>2. ASSUME \A j \in 1..Len(t) : j > i => ~Off(t[j]), NEW j \in 1..Len(s), j > i + 1
        PROVE  ~Off(s[j])
    <3>1. j - 1 \in 1..Len(t) /\ s[j] = t[j - 1] /\ j - 1 > i
      BY <1>2, <2>2
    <3> QED BY <2>2, <3>1
  <2> QED BY <2>1, <2>2
<1>6. FinalBusy(w, t) => FinalBusy(u, s)
  <2>1. CASE Busy(w) /\ \A j \in 1..Len(t) : ~Off(t[j])
    BY <1>2, <1>3, <1>4, <2>1 DEF FinalBusy
  <2>2. ASSUME NEW i \in 1..Len(t), On(t[i]), \A j \in 1..Len(t) : j > i => ~Off(t[j])
        PROVE  FinalBusy(u, s)
    <3>1. i + 1 \in 1..Len(s) /\ On(s[i + 1]) /\ \A j \in 1..Len(s) : j > i + 1 => ~Off(s[j])
      BY <1>2, <1>5, <2>2
    <3> QED BY <3>1 DEF FinalBusy
  <2> QED BY <2>1, <2>2 DEF FinalBusy
<1>7. FinalBusy(u, s) => FinalBusy(w, t)
  <2>1. CASE Busy(u) /\ \A j \in 1..Len(s) : ~Off(s[j])
    BY <1>2, <1>3, <2>1 DEF FinalBusy
  <2>2. ASSUME NEW i \in 1..Len(s), On(s[i]), \A j \in 1..Len(s) : j > i => ~Off(s[j])
        PROVE  FinalBusy(w, t)
    <3>1. CASE i = 1
      BY <1>2, <1>4, <2>2, <3>1 DEF FinalBusy
    <3>2. CASE i # 1
      <4>1. i - 1 \in 1..Len(t) /\ On(t[i - 1]) /\ i = (i - 1) + 1
        BY <1>2, <2>2, <3>2
      <4>2. \A j \in 1..Len(t) : j > i - 1 => ~Off(t[j])
        BY <1>5, <2>2, <4>1
      <4> QED BY <4>1, <4>2 DEF FinalBusy
    <3> QED BY <3>1, <3>2
  <2> QED BY <2>1, <2>2 DEF FinalBusy
<1> QED BY <1>1, <1>6, <1>7

\* A message that joins the channel sets the model to come, or leaves it.
LEMMA ModelJoined ==
    ASSUME NEW u, NEW M, NEW s \in Seq(M), NEW e \in M, NEW m,
           IF Mod(e) THEN e.v = m ELSE FinalModel(u, s, m)
    PROVE  FinalModel(u, Append(s, e), m)
<1> SUFFICES ASSUME m # 0 PROVE FinalModel(u, Append(s, e), m)
  BY DEF FinalModel
<1>1. PICK t : t = Append(s, e)
  OBVIOUS
<1>2. /\ Len(s) \in Nat /\ Len(t) = Len(s) + 1
      /\ \A i \in 1..Len(s) : i \in 1..(Len(s) + 1) /\ t[i] = s[i]
      /\ Len(s) + 1 \in 1..(Len(s) + 1) /\ t[Len(s) + 1] = e
      /\ \A i \in 1..(Len(s) + 1) : i \in 1..Len(s) \/ i = Len(s) + 1
  BY <1>1, Joined
<1>3. (\A j \in 1..Len(t) : ~Mod(t[j])) => Eff(u) = m
  BY <1>2 DEF FinalModel
<1>4. ASSUME NEW i \in 1..Len(t), Mod(t[i]), \A j \in 1..Len(t) : j > i => ~Mod(t[j])
      PROVE  t[i].v = m
  <2>1. CASE i = Len(s) + 1
    BY <1>2, <1>4, <2>1
  <2>2. CASE i \in 1..Len(s)
    <3>1. ~Mod(e)
      BY <1>2, <1>4, <2>2
    <3>2. \A j \in 1..Len(s) : j > i => ~Mod(s[j])
      BY <1>2, <1>4
    <3> QED BY <1>2, <1>4, <2>2, <3>1, <3>2 DEF FinalModel
  <2> QED BY <1>2, <2>1, <2>2
<1> QED BY <1>1, <1>3, <1>4 DEF FinalModel

\* Handling the head of the channel leaves the model to come as it was.
LEMMA ModelLeft ==
    ASSUME NEW u, NEW w, NEW M, NEW s \in Seq(M), s # <<>>, NEW m,
           Eff(w) = IF Mod(Head(s)) THEN Head(s).v ELSE Eff(u),
           FinalModel(u, s, m)
    PROVE  FinalModel(w, Tail(s), m)
<1> SUFFICES ASSUME m # 0 PROVE FinalModel(w, Tail(s), m)
  BY DEF FinalModel
<1>1. PICK t : t = Tail(s)
  OBVIOUS
<1>2. /\ Head(s) = s[1] /\ Len(s) \in Nat /\ Len(t) \in Nat /\ 1 \in 1..Len(s)
      /\ \A i \in 1..Len(t) : i + 1 \in 1..Len(s) /\ t[i] = s[i + 1]
      /\ \A i \in 1..Len(s) : i = 1 \/ (i - 1 \in 1..Len(t) /\ s[i] = t[i - 1])
  BY <1>1, Left
<1>3. ASSUME \A j \in 1..Len(t) : ~Mod(t[j]) PROVE Eff(w) = m
  <2>1. \A j \in 1..Len(s) : j > 1 => ~Mod(s[j])
    BY <1>2, <1>3
  <2>2. CASE Mod(s[1])
    BY <1>2, <2>1, <2>2 DEF FinalModel
  <2>3. CASE ~Mod(s[1])
    <3>1. \A j \in 1..Len(s) : ~Mod(s[j])
      BY <1>2, <2>1, <2>3
    <3> QED BY <1>2, <2>3, <3>1 DEF FinalModel
  <2> QED BY <2>2, <2>3
<1>4. ASSUME NEW i \in 1..Len(t), Mod(t[i]), \A j \in 1..Len(t) : j > i => ~Mod(t[j])
      PROVE  t[i].v = m
  <2>1. i + 1 \in 1..Len(s) /\ t[i] = s[i + 1]
    BY <1>2
  <2>2. ASSUME NEW j \in 1..Len(s), j > i + 1 PROVE ~Mod(s[j])
    <3>1. j - 1 \in 1..Len(t) /\ s[j] = t[j - 1] /\ j - 1 > i
      BY <1>2, <2>2
    <3> QED BY <1>4, <3>1
  <2> QED BY <1>4, <2>1, <2>2 DEF FinalModel
<1> QED BY <1>1, <1>3, <1>4 DEF FinalModel

-----------------------------------------------------------------------------
\* Nothing is asked for, shown or spent yet.
LEMMA Zeros ==
    0 \in 0..MaxUiEdits /\ 0 \in 0..MaxUiSelects /\ 0 \in 0..MaxUiDialogs /\ 0 \in Nat
  BY ScreensAssumption

\* The helpers of the App.
LEMMA HandOffIs ==
    ASSUME NEW u \in App
    PROVE  /\ HandOff(u) \in App
           /\ HandOff(u).stream = u.stream /\ HandOff(u).model = u.model
           /\ HandOff(u).pending = u.pending /\ HandOff(u).request = u.request
           /\ HandOff(u).preview = u.preview /\ HandOff(u).submitted = u.submitted
           /\ HandOff(u).showing = u.showing
           /\ HandOff(u).mode = u.mode \/ HandOff(u).mode = "select"
<1>1. CASE HandOff(u) = u
  BY <1>1
<1>2. CASE HandOff(u) = [u EXCEPT !.handoff = 0, !.mode = "select"]
  <2>1. PICK w : w = [u EXCEPT !.handoff = 0, !.mode = "select"]
    OBVIOUS
  <2>2. /\ w.stream = u.stream /\ w.model = u.model /\ w.pending = u.pending
        /\ w.request = u.request /\ w.preview = u.preview /\ w.submitted = u.submitted
        /\ w.showing = u.showing /\ w.mode = "select"
    BY <2>1 DEF App
  <2>3. 0 \in 0..MaxUiSelects
    BY ScreensAssumption
  <2>4. w \in App
    BY <2>1, <2>3 DEF App, Screens
  <2> QED BY <1>2, <2>1, <2>2, <2>4
<1> QED BY <1>1, <1>2 DEF HandOff

\* What the end of a response does to the App.
LEMMA ToIdleIs ==
    ASSUME NEW u \in App
    PROVE  /\ ToIdle(u) \in App /\ ToIdle(u).stream = "idle" /\ ToIdle(u).pending = 0
           /\ ToIdle(u).model = Eff(u)
           /\ ToIdle(u).request = u.request /\ ToIdle(u).preview = u.preview
           /\ ToIdle(u).submitted = u.submitted /\ ToIdle(u).showing = u.showing
           /\ ToIdle(u).mode = u.mode
<1>1. Eff(u) \in Models
  BY DEF App, Eff
<1>2. ToIdle(u) = [u EXCEPT !.stream = "idle", !.pending = 0, !.model = Eff(u)]
  BY DEF ToIdle, Eff
<1>3. PICK w : w = [u EXCEPT !.stream = "idle", !.pending = 0, !.model = Eff(u)]
  OBVIOUS
<1>4. /\ w.stream = "idle" /\ w.pending = 0 /\ w.model = Eff(u) /\ w.request = u.request
      /\ w.preview = u.preview /\ w.submitted = u.submitted /\ w.showing = u.showing
      /\ w.mode = u.mode
  BY <1>3 DEF App
<1>5. w \in App
  BY <1>1, <1>3 DEF App
<1> QED BY <1>2, <1>3, <1>4, <1>5

\* What a reported model does to the App.
LEMMA ShowModelIs ==
    ASSUME NEW u \in App, NEW m \in Models
    PROVE  /\ ShowModel(u, m) \in App /\ ShowModel(u, m).stream = u.stream
           /\ ShowModel(u, m).request = u.request /\ ShowModel(u, m).preview = u.preview
           /\ ShowModel(u, m).submitted = u.submitted /\ ShowModel(u, m).showing = u.showing
           /\ ShowModel(u, m).mode = u.mode
           /\ (u.pending # 0 => Busy(u)) =>
                Eff(ShowModel(u, m)) = m /\ (ShowModel(u, m).pending # 0 => Busy(u))
<1>1. m \in Nat /\ m # 0
  BY ScreensAssumption
<1>2. CASE Busy(u)
  <2>1. PICK w : w = [u EXCEPT !.pending = m]
    OBVIOUS
  <2>2. /\ w.stream = u.stream /\ w.pending = m /\ w.request = u.request
        /\ w.preview = u.preview /\ w.submitted = u.submitted /\ w.showing = u.showing
        /\ w.mode = u.mode
    BY <2>1 DEF App
  <2>3. w \in App
    BY <2>1 DEF App
  <2> QED BY <1>1, <1>2, <2>1, <2>2, <2>3 DEF ShowModel, Eff
<1>3. CASE ~Busy(u)
  <2>1. PICK w : w = [u EXCEPT !.model = m]
    OBVIOUS
  <2>2. /\ w.stream = u.stream /\ w.pending = u.pending /\ w.model = m /\ w.request = u.request
        /\ w.preview = u.preview /\ w.submitted = u.submitted /\ w.showing = u.showing
        /\ w.mode = u.mode
    BY <2>1 DEF App
  <2>3. w \in App
    BY <2>1 DEF App
  <2> QED BY <1>1, <1>3, <2>1, <2>2, <2>3 DEF ShowModel, Eff
<1> QED BY <1>2, <1>3

\* The fields of a local edit stay, and the screen does not turn to a review or the
\* composer.
SameEdit(u, w) ==
    /\ w.request = u.request /\ w.preview = u.preview /\ w.submitted = u.submitted
    /\ w.showing = u.showing
    /\ w.mode = u.mode \/ w.mode \notin {"review", "compose"}

\* What an event does to the stream state and the model.
ToldTo(u, w, e) ==
    /\ Busy(w) <=> On(e) \/ (Busy(u) /\ ~Off(e))
    /\ (u.pending # 0 => Busy(u)) =>
         /\ Eff(w) = IF Mod(e) THEN e.v ELSE Eff(u)
         /\ w.pending # 0 => Busy(w)

\* Handling a message is a typed App, and touches an edit only if it is about one.
LEMMA HandledIs ==
    ASSUME NEW u \in App, NEW e, UiMsgOk(e)
    PROVE  /\ Handled(u, e) \in App
           /\ ToldTo(u, Handled(u, e), e)
           /\ ~UiEdit(e) => SameEdit(u, Handled(u, e))
           /\ e.k = "preview" => Handled(u, e) = PreviewReady(u, e)
           /\ e.k = "edited" => Handled(u, e) = EditFinished(u, e.of)
<1>1. /\ e.k \in {"state", "activated", "refused", "delta", "ended", "finished", "preview",
                  "edited", "dialog", "required"}
      /\ e.k \in {"state", "activated"} => e.v \in Models
      /\ e.k \in {"preview", "edited"} => e.of \in 0..MaxUiEdits
      /\ e.k = "dialog" => e.of \in 0..MaxUiDialogs
  BY DEF UiMsgOk, UiMsg
<1>2. 0 \in 0..MaxUiEdits /\ 0 \in 0..MaxUiSelects
  BY ScreensAssumption
<1>3. ASSUME NEW w \in App, w.stream = u.stream, w.pending = u.pending, w.model = u.model,
             ~On(e), ~Off(e), ~Mod(e)
      PROVE  ToldTo(u, w, e)
  BY <1>3 DEF ToldTo, Busy, Eff
<1>4. ASSUME NEW w, w = ToIdle(u), Off(e), ~Mod(e), ~On(e)
      PROVE  w \in App /\ ToldTo(u, w, e) /\ SameEdit(u, w)
  BY <1>4, ToIdleIs DEF ToldTo, SameEdit, Busy, Eff
<1>5. CASE e.k = "state"
  <2>1. PICK m : m = ShowModel(u, e.v)
    OBVIOUS
  <2>2. /\ m \in App /\ m.request = u.request /\ m.preview = u.preview
        /\ m.submitted = u.submitted /\ m.showing = u.showing /\ m.mode = u.mode
        /\ (u.pending # 0 => Busy(u)) => Eff(m) = e.v
    BY <1>1, <1>5, <2>1, ShowModelIs
  <2>3. PICK w : w = ToIdle(m)
    OBVIOUS
  <2>4. /\ w \in App /\ w.stream = "idle" /\ w.pending = 0 /\ w.model = Eff(m)
        /\ w.request = m.request /\ w.preview = m.preview /\ w.submitted = m.submitted
        /\ w.showing = m.showing /\ w.mode = m.mode
    BY <2>2, <2>3, ToIdleIs
  <2>5. ToldTo(u, w, e)
    BY <1>5, <2>2, <2>4 DEF ToldTo, Busy, Eff, On, Off, Mod
  <2>6. SameEdit(u, w)
    BY <2>2, <2>4 DEF SameEdit
  <2>7. Handled(u, e) = w
    BY <1>5, <2>1, <2>3 DEF Handled
  <2> QED BY <1>5, <2>4, <2>5, <2>6, <2>7
<1>6. CASE e.k = "activated"
  <2>1. PICK m : m = ShowModel(u, e.v)
    OBVIOUS
  <2>2. /\ m \in App /\ m.request = u.request /\ m.preview = u.preview /\ m.stream = u.stream
        /\ m.submitted = u.submitted /\ m.showing = u.showing /\ m.mode = u.mode
        /\ (u.pending # 0 => Busy(u)) => Eff(m) = e.v /\ (m.pending # 0 => Busy(u))
    BY <1>1, <1>6, <2>1, ShowModelIs
  <2>3. PICK w : w = [m EXCEPT !.ready = m.ready \/ u.handoff = e.of]
    OBVIOUS
  <2>4. /\ w.stream = m.stream /\ w.pending = m.pending /\ w.model = m.model
        /\ w.request = m.request /\ w.preview = m.preview /\ w.submitted = m.submitted
        /\ w.showing = m.showing /\ w.mode = m.mode
    BY <2>2, <2>3 DEF App
  <2>5. w \in App
    BY <2>2, <2>3 DEF App
  <2>6. ToldTo(u, w, e)
    BY <1>6, <2>2, <2>4 DEF ToldTo, Busy, Eff, On, Off, Mod
  <2>7. SameEdit(u, w)
    BY <2>2, <2>4 DEF SameEdit
  <2>8. Handled(u, e) = w
    BY <1>6, <2>1, <2>3 DEF Handled
  <2> QED BY <1>6, <2>5, <2>6, <2>7, <2>8
<1>7. CASE e.k = "refused"
  <2>1. PICK w : w = [u EXCEPT !.handoff = IF u.handoff = e.of THEN 0 ELSE u.handoff]
    OBVIOUS
  <2>2. /\ w.stream = u.stream /\ w.pending = u.pending /\ w.model = u.model
        /\ w.request = u.request /\ w.preview = u.preview /\ w.submitted = u.submitted
        /\ w.showing = u.showing /\ w.mode = u.mode
    BY <2>1 DEF App
  <2>3. w \in App
    BY <1>2, <2>1 DEF App
  <2>4. Handled(u, e) = w
    BY <1>7, <2>1 DEF Handled
  <2> QED BY <1>3, <1>7, <2>2, <2>3, <2>4 DEF SameEdit, On, Off, Mod
<1>8. CASE e.k = "delta"
  <2>1. CASE Busy(u)
    <3>1. Handled(u, e) = u
      BY <1>8, <2>1 DEF Handled
    <3> QED BY <1>8, <2>1, <3>1 DEF ToldTo, SameEdit, On, Off, Mod
  <2>2. CASE ~Busy(u)
    <3>1. PICK w : w = [u EXCEPT !.stream = "streaming"]
      OBVIOUS
    <3>2. /\ w.stream = "streaming" /\ w.pending = u.pending /\ w.model = u.model
          /\ w.request = u.request /\ w.preview = u.preview /\ w.submitted = u.submitted
          /\ w.showing = u.showing /\ w.mode = u.mode
      BY <3>1 DEF App
    <3>3. w \in App
      BY <3>1 DEF App
    <3>4. Handled(u, e) = w
      BY <1>8, <2>2, <3>1 DEF Handled
    <3> QED BY <1>8, <2>2, <3>2, <3>3, <3>4 DEF ToldTo, SameEdit, On, Off, Mod, Busy, Eff
  <2> QED BY <2>1, <2>2
<1>9. CASE e.k \in {"ended", "finished"}
  <2>1. Handled(u, e) = ToIdle(u)
    BY <1>9 DEF Handled, PromptFinished
  <2> QED BY <1>4, <1>9, <2>1 DEF On, Off, Mod
<1>10. CASE e.k = "preview"
  <2>1. Handled(u, e) = PreviewReady(u, e)
    BY <1>10 DEF Handled
  <2>2. CASE PreviewReady(u, e) = u
    BY <1>3, <1>10, <2>1, <2>2 DEF On, Off, Mod, UiEdit
  <2>3. CASE PreviewReady(u, e) = [u EXCEPT !.request = 0, !.preview = e.of, !.submitted = FALSE,
                                            !.mode = "review", !.showing = e.of]
    <3>1. PICK w : w = [u EXCEPT !.request = 0, !.preview = e.of, !.submitted = FALSE,
                                 !.mode = "review", !.showing = e.of]
      OBVIOUS
    <3>2. w.stream = u.stream /\ w.pending = u.pending /\ w.model = u.model
      BY <3>1 DEF App
    <3>3. w \in App
      BY <1>1, <1>2, <1>10, <3>1 DEF App, Screens
    <3> QED BY <1>3, <1>10, <2>1, <2>3, <3>1, <3>2, <3>3 DEF On, Off, Mod, UiEdit
  <2> QED BY <2>2, <2>3 DEF PreviewReady
<1>11. CASE e.k = "edited"
  <2>1. Handled(u, e) = EditFinished(u, e.of)
    BY <1>11 DEF Handled
  <2>2. CASE EditFinished(u, e.of) = u
    BY <1>3, <1>11, <2>1, <2>2 DEF On, Off, Mod, UiEdit
  <2>3. CASE EditFinished(u, e.of) = [u EXCEPT !.request = 0, !.preview = 0, !.submitted = FALSE,
                                               !.mode = "normal"]
    <3>1. PICK w : w = [u EXCEPT !.request = 0, !.preview = 0, !.submitted = FALSE, !.mode = "normal"]
      OBVIOUS
    <3>2. w.stream = u.stream /\ w.pending = u.pending /\ w.model = u.model
      BY <3>1 DEF App
    <3>3. w \in App
      BY <1>2, <3>1 DEF App, Screens
    <3> QED BY <1>3, <1>11, <2>1, <2>3, <3>1, <3>2, <3>3 DEF On, Off, Mod, UiEdit
  <2> QED BY <2>2, <2>3 DEF EditFinished
<1>12. CASE e.k = "dialog"
  <2>1. PICK w : w = [u EXCEPT !.mode = "dialog", !.dialog = e.of]
    OBVIOUS
  <2>2. /\ w.stream = u.stream /\ w.pending = u.pending /\ w.model = u.model
        /\ w.request = u.request /\ w.preview = u.preview /\ w.submitted = u.submitted
        /\ w.showing = u.showing /\ w.mode = "dialog"
    BY <2>1 DEF App
  <2>3. w \in App
    BY <1>1, <1>12, <2>1 DEF App, Screens
  <2>4. Handled(u, e) = w
    BY <1>12, <2>1 DEF Handled
  <2> QED BY <1>3, <1>12, <2>2, <2>3, <2>4 DEF SameEdit, On, Off, Mod
<1>13. CASE e.k = "required"
  <2>1. PICK w : w = [u EXCEPT !.handoff = 0]
    OBVIOUS
  <2>2. /\ w.stream = u.stream /\ w.pending = u.pending /\ w.model = u.model
        /\ w.request = u.request /\ w.preview = u.preview /\ w.submitted = u.submitted
        /\ w.showing = u.showing /\ w.mode = u.mode
    BY <2>1 DEF App
  <2>3. w \in App
    BY <1>2, <2>1 DEF App, Screens
  <2>4. Handled(u, e) = w
    BY <1>13, <2>1 DEF Handled
  <2> QED BY <1>3, <1>13, <2>2, <2>3, <2>4 DEF SameEdit, On, Off, Mod
<1> QED BY <1>1, <1>5, <1>6, <1>7, <1>8, <1>9, <1>10, <1>11, <1>12, <1>13

-----------------------------------------------------------------------------
\* The state of an edit under steps that are not about it.
LEMMA EditScreen ==
    ASSUME NEW u, NEW w, NEW l, NEW s, NEW P, EditAt(u, l, s, P), SameEdit(u, w)
    PROVE  EditAt(w, l, s, P)
<1>1. /\ \A e : LoopEditAt(u, e, P) => LoopEditAt(w, e, P)
      /\ \A e : UiEditAt(u, e, P) => UiEditAt(w, e, P)
      /\ EditAtRest(u, P) => EditAtRest(w, P)
  BY DEF SameEdit, LoopEditAt, UiEditAt, EditAtRest, Asked, Decided
<1>2. ScreenAt(u) => ScreenAt(w)
  BY DEF ScreenAt, SameEdit
<1> QED BY <1>1, <1>2 DEF EditAt

\* NoLoopEdit of a longer channel.
LEMMA NoLoopEditJoined ==
    ASSUME NEW M, NEW l \in Seq(M), NEW e \in M
    PROVE  NoLoopEdit(Append(l, e)) <=> NoLoopEdit(l) /\ ~LoopEdit(e)
  BY Joined DEF NoLoopEdit

\* NoUiEdit of a longer channel.
LEMMA NoUiEditJoined ==
    ASSUME NEW M, NEW l \in Seq(M), NEW e \in M
    PROVE  NoUiEdit(Append(l, e)) <=> NoUiEdit(l) /\ ~UiEdit(e)
  BY Joined DEF NoUiEdit

\* NoLoopEdit of the channel after its head is taken.
LEMMA NoLoopEditLeft ==
    ASSUME NEW M, NEW l \in Seq(M), l # <<>>
    PROVE  NoLoopEdit(l) <=> NoLoopEdit(Tail(l)) /\ ~LoopEdit(Head(l))
  BY Left DEF NoLoopEdit

\* NoUiEdit of the channel after its head is taken.
LEMMA NoUiEditLeft ==
    ASSUME NEW M, NEW l \in Seq(M), l # <<>>
    PROVE  NoUiEdit(l) <=> NoUiEdit(Tail(l)) /\ ~UiEdit(Head(l))
  BY Left DEF NoUiEdit

\* Another message to the loop leaves the edit where it is.
LEMMA EditLoopJoined ==
    ASSUME NEW u, NEW M, NEW l \in Seq(M), NEW s, NEW P, EditAt(u, l, s, P), NEW e \in M, ~LoopEdit(e)
    PROVE  EditAt(u, Append(l, e), s, P)
<1>1. PICK t : t = Append(l, e)
  OBVIOUS
<1>2. /\ Len(l) \in Nat /\ Len(t) = Len(l) + 1
      /\ \A i \in 1..Len(l) : i \in 1..(Len(l) + 1) /\ t[i] = l[i]
      /\ Len(l) + 1 \in 1..(Len(l) + 1) /\ t[Len(l) + 1] = e
      /\ \A i \in 1..(Len(l) + 1) : i \in 1..Len(l) \/ i = Len(l) + 1
  BY <1>1, Joined
<1>3. NoLoopEdit(t) <=> NoLoopEdit(l)
  BY <1>1, NoLoopEditJoined
<1>4. \A i, j \in 1..Len(t) : LoopEdit(t[i]) /\ LoopEdit(t[j]) => i = j
  BY <1>2 DEF EditAt, OneEditMsg
<1>5. \A i \in 1..Len(t) : LoopEditAt(u, t[i], P)
  BY <1>2 DEF EditAt, LoopEditAt, LoopEdit
<1> QED BY <1>1, <1>3, <1>4, <1>5 DEF EditAt, OneEditMsg

\* Another message to the screen leaves the edit where it is.
LEMMA EditUiJoined ==
    ASSUME NEW u, NEW M, NEW s \in Seq(M), NEW l, NEW P, EditAt(u, l, s, P), NEW e \in M, ~UiEdit(e)
    PROVE  EditAt(u, l, Append(s, e), P)
<1>1. PICK t : t = Append(s, e)
  OBVIOUS
<1>2. /\ Len(s) \in Nat /\ Len(t) = Len(s) + 1
      /\ \A i \in 1..Len(s) : i \in 1..(Len(s) + 1) /\ t[i] = s[i]
      /\ Len(s) + 1 \in 1..(Len(s) + 1) /\ t[Len(s) + 1] = e
      /\ \A i \in 1..(Len(s) + 1) : i \in 1..Len(s) \/ i = Len(s) + 1
  BY <1>1, Joined
<1>3. NoUiEdit(t) <=> NoUiEdit(s)
  BY <1>1, NoUiEditJoined
<1>4. \A i, j \in 1..Len(t) : UiEdit(t[i]) /\ UiEdit(t[j]) => i = j
  BY <1>2 DEF EditAt, OneEditMsg
<1>5. \A i \in 1..Len(t) : UiEditAt(u, t[i], P)
  BY <1>2 DEF EditAt, UiEditAt, UiEdit
<1> QED BY <1>1, <1>3, <1>4, <1>5 DEF EditAt, OneEditMsg

\* Taking another message from the loop's channel leaves the edit where it is.
LEMMA EditLoopLeft ==
    ASSUME NEW u, NEW M, NEW l \in Seq(M), NEW s, NEW P, EditAt(u, l, s, P), l # <<>>, ~LoopEdit(Head(l))
    PROVE  EditAt(u, Tail(l), s, P)
<1>1. PICK t : t = Tail(l)
  OBVIOUS
<1>2. \A i \in 1..Len(t) : i + 1 \in 1..Len(l) /\ t[i] = l[i + 1]
  BY <1>1, Left
<1>3. NoLoopEdit(t) <=> NoLoopEdit(l)
  BY <1>1, NoLoopEditLeft
<1>4. \A i, j \in 1..Len(t) : LoopEdit(t[i]) /\ LoopEdit(t[j]) => i = j
  BY <1>2 DEF EditAt, OneEditMsg
<1>5. \A i \in 1..Len(t) : LoopEditAt(u, t[i], P)
  BY <1>2 DEF EditAt
<1> QED BY <1>1, <1>3, <1>4, <1>5 DEF EditAt, OneEditMsg

\* Taking another message from the screen's channel leaves the edit where it is.
LEMMA EditUiLeft ==
    ASSUME NEW u, NEW M, NEW s \in Seq(M), NEW l, NEW P, EditAt(u, l, s, P), s # <<>>, ~UiEdit(Head(s))
    PROVE  EditAt(u, l, Tail(s), P)
<1>1. PICK t : t = Tail(s)
  OBVIOUS
<1>2. \A i \in 1..Len(t) : i + 1 \in 1..Len(s) /\ t[i] = s[i + 1]
  BY <1>1, Left
<1>3. NoUiEdit(t) <=> NoUiEdit(s)
  BY <1>1, NoUiEditLeft
<1>4. \A i, j \in 1..Len(t) : UiEdit(t[i]) /\ UiEdit(t[j]) => i = j
  BY <1>2 DEF EditAt, OneEditMsg
<1>5. \A i \in 1..Len(t) : UiEditAt(u, t[i], P)
  BY <1>2 DEF EditAt
<1> QED BY <1>1, <1>3, <1>4, <1>5 DEF EditAt, OneEditMsg

\* The message of an edit at the head of a channel is the only one.
LEMMA LoopEditAlone ==
    ASSUME NEW u, NEW M, NEW l \in Seq(M), NEW s, NEW P, EditAt(u, l, s, P), l # <<>>, LoopEdit(Head(l))
    PROVE  NoLoopEdit(Tail(l)) /\ NoUiEdit(s) /\ LoopEditAt(u, Head(l), P) /\ ScreenAt(u)
<1>1. /\ Head(l) = l[1] /\ 1 \in 1..Len(l)
      /\ \A i \in 1..Len(Tail(l)) : i + 1 \in 1..Len(l) /\ Tail(l)[i] = l[i + 1] /\ i + 1 # 1
  BY Left
<1>2. NoLoopEdit(Tail(l))
  BY <1>1 DEF EditAt, OneEditMsg, NoLoopEdit
<1>3. NoUiEdit(s)
  BY <1>1 DEF EditAt, OneEditMsg, NoLoopEdit
<1> QED BY <1>1, <1>2, <1>3 DEF EditAt

\* A message of an edit at the head is the only one under way.
LEMMA UiEditAlone ==
    ASSUME NEW u, NEW M, NEW s \in Seq(M), NEW l, NEW P, EditAt(u, l, s, P), s # <<>>, UiEdit(Head(s))
    PROVE  NoUiEdit(Tail(s)) /\ NoLoopEdit(l) /\ UiEditAt(u, Head(s), P) /\ ScreenAt(u)
<1>1. /\ Head(s) = s[1] /\ 1 \in 1..Len(s)
      /\ \A i \in 1..Len(Tail(s)) : i + 1 \in 1..Len(s) /\ Tail(s)[i] = s[i + 1] /\ i + 1 # 1
  BY Left
<1>2. NoUiEdit(Tail(s))
  BY <1>1 DEF EditAt, OneEditMsg, NoUiEdit
<1>3. NoLoopEdit(l)
  BY <1>1 DEF EditAt, OneEditMsg, NoUiEdit
<1> QED BY <1>1, <1>2, <1>3 DEF EditAt

\* An edit whose only message has just been sent, or has just been answered.
LEMMA EditSentUp ==
    ASSUME NEW u, NEW M, NEW l \in Seq(M), NEW s, NEW P, NEW e \in M,
           NoLoopEdit(l), NoUiEdit(s), LoopEdit(e), LoopEditAt(u, e, P), ScreenAt(u)
    PROVE  EditAt(u, Append(l, e), s, P)
<1>1. PICK t : t = Append(l, e)
  OBVIOUS
<1>2. /\ Len(l) \in Nat /\ Len(t) = Len(l) + 1
      /\ \A i \in 1..Len(l) : i \in 1..(Len(l) + 1) /\ t[i] = l[i]
      /\ Len(l) + 1 \in 1..(Len(l) + 1) /\ t[Len(l) + 1] = e
      /\ \A i \in 1..(Len(l) + 1) : i \in 1..Len(l) \/ i = Len(l) + 1
  BY <1>1, Joined
<1>3. \A i \in 1..Len(t) : LoopEdit(t[i]) => i = Len(l) + 1
  BY <1>2 DEF NoLoopEdit
<1>4. \A i \in 1..Len(t) : LoopEditAt(u, t[i], P)
  BY <1>2 DEF NoLoopEdit, LoopEditAt, LoopEdit
<1>5. \A i \in 1..Len(s) : UiEditAt(u, s[i], P)
  BY DEF NoUiEdit, UiEditAt, UiEdit
<1>6. OneEditMsg(t, s)
  BY <1>3 DEF OneEditMsg, NoUiEdit
<1>7. ~NoLoopEdit(t)
  BY <1>2 DEF NoLoopEdit
<1> QED BY <1>1, <1>4, <1>5, <1>6, <1>7 DEF EditAt

\* The loop's answer about an edit is the only message under way.
LEMMA EditSentDown ==
    ASSUME NEW u, NEW M, NEW s \in Seq(M), NEW l, NEW P, NEW e \in M,
           NoLoopEdit(l), NoUiEdit(s), UiEdit(e), UiEditAt(u, e, P), ScreenAt(u)
    PROVE  EditAt(u, l, Append(s, e), P)
<1>1. PICK t : t = Append(s, e)
  OBVIOUS
<1>2. /\ Len(s) \in Nat /\ Len(t) = Len(s) + 1
      /\ \A i \in 1..Len(s) : i \in 1..(Len(s) + 1) /\ t[i] = s[i]
      /\ Len(s) + 1 \in 1..(Len(s) + 1) /\ t[Len(s) + 1] = e
      /\ \A i \in 1..(Len(s) + 1) : i \in 1..Len(s) \/ i = Len(s) + 1
  BY <1>1, Joined
<1>3. \A i \in 1..Len(t) : UiEdit(t[i]) => i = Len(s) + 1
  BY <1>2 DEF NoUiEdit
<1>4. \A i \in 1..Len(t) : UiEditAt(u, t[i], P)
  <2>1. \A i \in 1..Len(s) : s[i].k # "preview" /\ s[i].k # "edited"
    BY DEF NoUiEdit, UiEdit
  <2>2. \A i \in 1..Len(s) : UiEditAt(u, s[i], P)
    BY <2>1 DEF UiEditAt
  <2> QED BY <1>2, <2>2
<1>5. \A i \in 1..Len(l) : LoopEditAt(u, l[i], P)
  BY DEF NoLoopEdit, LoopEditAt, LoopEdit
<1>6. OneEditMsg(l, t)
  BY <1>3 DEF OneEditMsg, NoLoopEdit
<1>7. ~NoUiEdit(t)
  BY <1>2 DEF NoUiEdit
<1> QED BY <1>1, <1>4, <1>5, <1>6, <1>7 DEF EditAt

\* With no message of an edit under way, the edit is at rest.
LEMMA EditRests ==
    ASSUME NEW u, NEW l, NEW s, NEW P, NoLoopEdit(l), NoUiEdit(s), EditAtRest(u, P), ScreenAt(u)
    PROVE  EditAt(u, l, s, P)
  BY DEF EditAt, OneEditMsg, NoLoopEdit, NoUiEdit, LoopEditAt, UiEditAt, LoopEdit,
     UiEdit

\* While no edit is in flight its messages are not either.
LEMMA EditIdle ==
    ASSUME NEW u, NEW l, NEW s, NEW P, EditAt(u, l, s, P), u.request = 0, ~u.submitted
    PROVE  NoLoopEdit(l) /\ NoUiEdit(s) /\ EditAtRest(u, P) /\ ScreenAt(u)
<1>1. \A i \in 1..Len(l) : ~LoopEdit(l[i])
  BY DEF EditAt, LoopEditAt, LoopEdit, Asked, Decided
<1>2. \A i \in 1..Len(s) : ~UiEdit(s[i])
  BY DEF EditAt, UiEditAt, UiEdit, Asked, Decided
<1> QED BY <1>1, <1>2 DEF EditAt, NoLoopEdit, NoUiEdit

-----------------------------------------------------------------------------
\* Steps.  The turn and the model as they are told, by what a step does to the App
\* and to the channels.
TurnToldOf(f, t, u, s, a, l) ==
    f = 0 =>
      /\ t # "finishing"
      /\ t = "running" => FinalBusy(u, s) /\ a = NoMsg
      /\ t = "none" /\ FinalBusy(u, s) => PromptIn(l)

\* ModelTold, of its parts.
ModelToldOf(u, s, m) == FinalModel(u, s, m) /\ (u.pending # 0 => Busy(u))

\* TurnTold, of its parts.
LEMMA TurnToldIs == TurnTold <=> TurnToldOf(uiFaults, turn, ui, toUi, activating, toLoop)
  BY DEF TurnTold, TurnToldOf

\* ModelTold, of its parts.
LEMMA ModelToldIs == ModelTold <=> ModelToldOf(ui, toUi, inForce)
  BY DEF ModelTold, ModelToldOf

\* An App that is busy where another is will be busy where it will.
LEMMA BusyOf ==
    ASSUME NEW u, NEW w, NEW s, Busy(u) => Busy(w)
    PROVE  FinalBusy(u, s) => FinalBusy(w, s)
  BY DEF FinalBusy

\* Apps that show the same model will.
LEMMA ModelOf ==
    ASSUME NEW u, NEW w, NEW s, NEW m, FinalModel(u, s, m), Eff(u) = Eff(w)
    PROVE  FinalModel(w, s, m)
  BY DEF FinalModel

\* A prompt on its way stays on its way.
LEMMA PromptJoined ==
    ASSUME NEW M, NEW l \in Seq(M), NEW e \in M
    PROVE  /\ PromptIn(l) => PromptIn(Append(l, e))
           /\ e.k = "prompt" => PromptIn(Append(l, e))
  BY Joined DEF PromptIn

\* A prompt behind another message is still on its way.
LEMMA PromptLeft ==
    ASSUME NEW M, NEW l \in Seq(M), l # <<>>, PromptIn(l), Head(l).k # "prompt"
    PROVE  PromptIn(Tail(l))
<1>1. PICK i \in 1..Len(l) : l[i].k = "prompt"
  BY DEF PromptIn
<1>2. i # 1 /\ i - 1 \in 1..Len(Tail(l)) /\ l[i] = Tail(l)[i - 1]
  BY <1>1, Left
<1> QED BY <1>1, <1>2 DEF PromptIn

\* What may be in the channel to the loop after a key.
KeySends(l, e) == LoopMsgOk(e) /\ l = Append(toLoop, e)

\* A key: the App changes and at most one message is sent.
LEMMA KeyKeeps ==
    ASSUME ScreensInv, NEW u \in App, Key(u), u.model = ui.model, u.pending = ui.pending,
           Busy(ui) => Busy(u), Busy(u) /\ ~Busy(ui) => PromptIn(toLoop'),
           toLoop' = toLoop \/ \E e : KeySends(toLoop', e),
           spent' \in [prompts : 0..MaxUiPrompts, edits : 0..MaxUiEdits,
                       selects : 0..MaxUiSelects, dialogs : 0..MaxUiDialogs]
    PROVE  /\ ScreensShape' /\ TurnTold' /\ ModelTold' /\ ui' \in App
           /\ SameEdit(u, ui') /\ toUi' = toUi /\ previews' = previews /\ kept' = kept
<1>1. /\ ui' = HandOff(u) /\ toUi' = toUi /\ turn' = turn /\ inForce' = inForce
      /\ activating' = activating /\ previews' = previews /\ kept' = kept /\ flow' = flow /\ uiFaults' = uiFaults
  BY DEF Key, loopVars
<1>2. /\ ui' \in App /\ ui'.stream = u.stream /\ ui'.model = u.model /\ ui'.pending = u.pending
      /\ ui'.request = u.request /\ ui'.preview = u.preview /\ ui'.submitted = u.submitted
      /\ ui'.showing = u.showing /\ (ui'.mode = u.mode \/ ui'.mode = "select")
  BY <1>1, HandOffIs
<1>3. SameEdit(u, ui')
  BY <1>2 DEF SameEdit
<1>4. toLoop \in Seq(LoopMsg) /\ \A i \in 1..Len(toLoop) : LoopMsgOk(toLoop[i])
  BY DEF ScreensInv, ScreensShape
<1>5. /\ toLoop' \in Seq(LoopMsg) /\ \A i \in 1..Len(toLoop') : LoopMsgOk(toLoop'[i])
      /\ PromptIn(toLoop) => PromptIn(toLoop')
  <2>1. CASE toLoop' = toLoop
    BY <1>4, <2>1
  <2>2. CASE \E e : KeySends(toLoop', e)
    <3>1. PICK e : LoopMsgOk(e) /\ toLoop' = Append(toLoop, e)
      BY <2>2 DEF KeySends
    <3>2. e \in LoopMsg
      BY <3>1 DEF LoopMsgOk
    <3>3. \A i \in 1..Len(toLoop') : LoopMsgOk(toLoop'[i])
      BY <1>4, <3>1, <3>2, Joined
    <3> QED BY <1>4, <3>1, <3>2, <3>3, Joined, PromptJoined
  <2> QED BY <2>1, <2>2
<1>6. ScreensShape'
  <2>1. ScreensShape
    BY DEF ScreensInv
  <2> QED BY <1>1, <1>2, <1>5, <2>1 DEF ScreensShape
<1>7. TurnTold'
  <2>1. TurnToldOf(uiFaults, turn, ui, toUi, activating, toLoop)
    BY TurnToldIs DEF ScreensInv
  <2>2. /\ FinalBusy(ui, toUi) => FinalBusy(ui', toUi)
        /\ (Busy(ui') => Busy(ui)) => (FinalBusy(ui', toUi) => FinalBusy(ui, toUi))
    <3>1. Busy(ui) => Busy(ui')
      BY <1>2 DEF Busy
    <3> QED BY <3>1, BusyOf
  <2>3. Busy(ui') /\ ~Busy(ui) => PromptIn(toLoop')
    BY <1>2 DEF Busy
  <2>4. TurnToldOf(uiFaults, turn, ui', toUi, activating, toLoop')
    BY <1>5, <2>1, <2>2, <2>3 DEF TurnToldOf
  <2> QED BY <1>1, <2>4 DEF TurnTold, TurnToldOf
<1>8. ModelTold'
  <2>1. Eff(ui') = Eff(ui) /\ (ui'.pending # 0 => Busy(ui'))
    BY <1>2 DEF ScreensInv, ModelTold, Eff, Busy
  <2>2. FinalModel(ui', toUi, inForce)
    BY <2>1, ModelOf DEF ScreensInv, ModelTold
  <2> QED BY <1>1, <2>1, <2>2 DEF ModelTold
<1> QED BY <1>1, <1>2, <1>3, <1>6, <1>7, <1>8

\* A key that is not about an edit.
LEMMA PlainKeyKeeps ==
    ASSUME ScreensInv, NEW u \in App, Key(u), u.model = ui.model, u.pending = ui.pending,
           Busy(ui) => Busy(u), Busy(u) /\ ~Busy(ui) => PromptIn(toLoop'), SameEdit(ui, u),
           toLoop' = toLoop \/ \E e : KeySends(toLoop', e) /\ ~LoopEdit(e),
           spent' \in [prompts : 0..MaxUiPrompts, edits : 0..MaxUiEdits,
                       selects : 0..MaxUiSelects, dialogs : 0..MaxUiDialogs]
    PROVE  ScreensInv'
<1>1. /\ ScreensShape' /\ TurnTold' /\ ModelTold' /\ ui' \in App
      /\ SameEdit(u, ui') /\ toUi' = toUi /\ previews' = previews /\ kept' = kept
  BY KeyKeeps
<1>2. SameEdit(ui, ui')
  BY <1>1 DEF SameEdit
<1>3. EditAt(ui', toLoop, toUi, Held)
  BY <1>2, EditScreen DEF ScreensInv, EditTold, Held
<1>4. EditAt(ui', toLoop', toUi, Held)
  <2>1. CASE toLoop' = toLoop
    BY <1>3, <2>1
  <2>2. CASE \E e : KeySends(toLoop', e) /\ ~LoopEdit(e)
    <3>1. PICK e : LoopMsgOk(e) /\ toLoop' = Append(toLoop, e) /\ ~LoopEdit(e)
      BY <2>2 DEF KeySends
    <3>2. e \in LoopMsg /\ toLoop \in Seq(LoopMsg)
      BY <3>1 DEF LoopMsgOk, ScreensInv, ScreensShape
    <3> QED BY <1>3, <3>1, <3>2, EditLoopJoined
  <2> QED BY <2>1, <2>2
<1>5. EditTold'
  BY <1>1, <1>4 DEF EditTold, Held
<1> QED BY <1>1, <1>5 DEF ScreensInv

\* The messages are well formed.
LEMMA LoopMsgIs ==
    ASSUME NEW k \in {"prompt", "cancel", "select", "prepare", "decide", "connect", "resolved"},
           NEW v \in Nat, NEW of \in Nat, k = "select" => v \in Models,
           k \in {"prepare", "decide"} => of \in 0..MaxUiEdits
    PROVE  /\ LoopMsgOk(Msg(k, v, of))
           /\ Msg(k, v, of).k = k /\ Msg(k, v, of).v = v /\ Msg(k, v, of).of = of
  BY DEF Msg, LoopMsgOk, LoopMsg

\* A message of the backend has its type.
LEMMA UiMsgIs ==
    ASSUME NEW k \in {"state", "activated", "refused", "delta", "ended", "finished", "preview",
                      "edited", "dialog"},
           NEW v \in Nat, NEW of \in Nat, k \in {"state", "activated"} => v \in Models,
           k \in {"preview", "edited"} => of \in 0..MaxUiEdits,
           k = "dialog" => of \in 0..MaxUiDialogs
    PROVE  /\ UiMsgOk(Msg(k, v, of)) /\ Msg(k, v, of) \in UiMsg
           /\ Msg(k, v, of).k = k /\ Msg(k, v, of).v = v /\ Msg(k, v, of).of = of
  BY DEF Msg, UiMsgOk, UiMsg

\* What the invariant says of the variables.
LEMMA ScreensAre ==
    ASSUME ScreensInv
    PROVE  /\ ui \in App /\ toLoop \in Seq(LoopMsg) /\ toUi \in Seq(UiMsg)
           /\ spent \in [prompts : 0..MaxUiPrompts, edits : 0..MaxUiEdits,
                         selects : 0..MaxUiSelects, dialogs : 0..MaxUiDialogs]
           /\ spent.edits \in Nat /\ spent.selects \in Nat /\ spent.dialogs \in Nat
           /\ spent.edits <= MaxUiEdits /\ spent.selects <= MaxUiSelects
           /\ spent.dialogs <= MaxUiDialogs
           /\ ui.dialog \in Nat /\ ui.showing \in 0..MaxUiEdits /\ ui.showing \in Nat
           /\ MaxUiEdits \in Nat /\ MaxUiSelects \in Nat /\ MaxUiDialogs \in Nat
           /\ MaxUiPrompts \in Nat
<1>1. ui \in App /\ toLoop \in Seq(LoopMsg) /\ toUi \in Seq(UiMsg)
      /\ spent \in [prompts : 0..MaxUiPrompts, edits : 0..MaxUiEdits,
                    selects : 0..MaxUiSelects, dialogs : 0..MaxUiDialogs]
  BY DEF ScreensInv, ScreensShape
<1> QED BY <1>1, ScreensAssumption DEF App

\* Spending.
LEMMA SpendIs ==
    ASSUME ScreensInv,
           \/ Spend("prompts", MaxUiPrompts)
           \/ Spend("edits", MaxUiEdits)
           \/ Spend("selects", MaxUiSelects)
           \/ Spend("dialogs", MaxUiDialogs)
    PROVE  spent' \in [prompts : 0..MaxUiPrompts, edits : 0..MaxUiEdits,
                       selects : 0..MaxUiSelects, dialogs : 0..MaxUiDialogs]
<1>1. /\ spent.prompts \in 0..MaxUiPrompts /\ spent.edits \in 0..MaxUiEdits
      /\ spent.selects \in 0..MaxUiSelects /\ spent.dialogs \in 0..MaxUiDialogs
      /\ spent = [prompts |-> spent.prompts, edits |-> spent.edits, selects |-> spent.selects,
                  dialogs |-> spent.dialogs]
      /\ MaxUiEdits \in Nat /\ MaxUiSelects \in Nat /\ MaxUiDialogs \in Nat /\ MaxUiPrompts \in Nat
  BY ScreensAre
<1>2. CASE Spend("prompts", MaxUiPrompts)
  <2>1. spent.prompts < MaxUiPrompts /\ spent' = [spent EXCEPT !.prompts = spent.prompts + 1]
    BY <1>2 DEF Spend
  <2>2. spent.prompts + 1 \in 0..MaxUiPrompts
    BY <1>1, <2>1
  <2> QED BY <2>1, <2>2, ScreensAre
<1>3. CASE Spend("edits", MaxUiEdits)
  <2>1. spent.edits < MaxUiEdits /\ spent' = [spent EXCEPT !.edits = spent.edits + 1]
    BY <1>3 DEF Spend
  <2>2. spent.edits + 1 \in 0..MaxUiEdits
    BY <1>1, <2>1
  <2> QED BY <2>1, <2>2, ScreensAre
<1>4. CASE Spend("selects", MaxUiSelects)
  <2>1. spent.selects < MaxUiSelects /\ spent' = [spent EXCEPT !.selects = spent.selects + 1]
    BY <1>4 DEF Spend
  <2>2. spent.selects + 1 \in 0..MaxUiSelects
    BY <1>1, <2>1
  <2> QED BY <2>1, <2>2, ScreensAre
<1>5. CASE Spend("dialogs", MaxUiDialogs)
  <2>1. spent.dialogs < MaxUiDialogs /\ spent' = [spent EXCEPT !.dialogs = spent.dialogs + 1]
    BY <1>5 DEF Spend
  <2>2. spent.dialogs + 1 \in 0..MaxUiDialogs
    BY <1>1, <2>1
  <2> QED BY <2>1, <2>2, ScreensAre
<1> QED BY <1>2, <1>3, <1>4, <1>5

-----------------------------------------------------------------------------
\* Keys.
LEMMA SubmitKeeps == ASSUME ScreensInv, SubmitInput PROVE ScreensInv'
<1>1. PICK u : u = [ui EXCEPT !.stream = "streaming"]
  OBVIOUS
<1>2. /\ Key(u) /\ ~Busy(ui) /\ Spend("prompts", MaxUiPrompts)
      /\ toLoop' = Append(toLoop, Msg("prompt", 0, 0))
  BY <1>1 DEF SubmitInput, Sends
<1>3. /\ u.stream = "streaming" /\ u.model = ui.model /\ u.pending = ui.pending
      /\ u.request = ui.request /\ u.preview = ui.preview /\ u.submitted = ui.submitted
      /\ u.showing = ui.showing /\ u.mode = ui.mode
  BY <1>1, ScreensAre DEF App
<1>4. u \in App
  BY <1>1, ScreensAre DEF App
<1>5. LoopMsgOk(Msg("prompt", 0, 0)) /\ Msg("prompt", 0, 0).k = "prompt"
  BY LoopMsgIs
<1>6. PromptIn(toLoop')
  BY <1>2, <1>5, ScreensAre, PromptJoined DEF LoopMsgOk
<1>7. \E e : KeySends(toLoop', e) /\ ~LoopEdit(e)
  BY <1>2, <1>5 DEF KeySends, LoopEdit
<1>8. Busy(u) /\ SameEdit(ui, u)
  BY <1>3 DEF Busy, SameEdit
<1>9. spent' \in [prompts : 0..MaxUiPrompts, edits : 0..MaxUiEdits,
                  selects : 0..MaxUiSelects, dialogs : 0..MaxUiDialogs]
  BY <1>2, SpendIs
<1> QED BY <1>2, <1>3, <1>4, <1>6, <1>7, <1>8, <1>9, PlainKeyKeeps

\* Cancelling leaves the busy sign until the loop answers.
LEMMA CancelKeeps == ASSUME ScreensInv, CancelStreaming PROVE ScreensInv'
<1>1. PICK u : u = [ui EXCEPT !.stream = "cancelled"]
  OBVIOUS
<1>2. /\ Key(u) /\ ui.stream = "streaming" /\ spent' = spent
      /\ toLoop' = Append(toLoop, Msg("cancel", 0, 0))
  BY <1>1 DEF CancelStreaming, Sends
<1>3. /\ u.stream = "cancelled" /\ u.model = ui.model /\ u.pending = ui.pending
      /\ u.request = ui.request /\ u.preview = ui.preview /\ u.submitted = ui.submitted
      /\ u.showing = ui.showing /\ u.mode = ui.mode
  BY <1>1, ScreensAre DEF App
<1>4. u \in App
  BY <1>1, ScreensAre DEF App
<1>5. LoopMsgOk(Msg("cancel", 0, 0)) /\ Msg("cancel", 0, 0).k = "cancel"
  BY LoopMsgIs
<1>6. \E e : KeySends(toLoop', e) /\ ~LoopEdit(e)
  BY <1>2, <1>5 DEF KeySends, LoopEdit
<1>7. Busy(u) /\ Busy(ui) /\ SameEdit(ui, u)
  BY <1>2, <1>3 DEF Busy, SameEdit
<1> QED BY <1>2, <1>3, <1>4, <1>6, <1>7, ScreensAre, PlainKeyKeeps

\* Opening a selector sends nothing.
LEMMA OpenSelectorKeeps == ASSUME ScreensInv, OpenSelector PROVE ScreensInv'
<1>1. PICK u : u = [ui EXCEPT !.mode = "select"]
  OBVIOUS
<1>2. Key(u) /\ spent' = spent /\ toLoop' = toLoop
  BY <1>1 DEF OpenSelector
<1>3. /\ u.stream = ui.stream /\ u.model = ui.model /\ u.pending = ui.pending
      /\ u.request = ui.request /\ u.preview = ui.preview /\ u.submitted = ui.submitted
      /\ u.showing = ui.showing /\ u.mode = "select"
  BY <1>1, ScreensAre DEF App
<1>4. u \in App
  BY <1>1, ScreensAre DEF App, Screens
<1>5. (Busy(u) <=> Busy(ui)) /\ SameEdit(ui, u)
  BY <1>3 DEF Busy, SameEdit
<1> QED BY <1>2, <1>3, <1>4, <1>5, ScreensAre, PlainKeyKeeps

\* Closing a selector sends at most the selection.
LEMMA CloseSelectorKeeps == ASSUME ScreensInv, CloseSelector PROVE ScreensInv'
<1>1. CASE Key([ui EXCEPT !.mode = "normal"]) /\ UNCHANGED <<toLoop, spent>>
  <2>1. PICK u : u = [ui EXCEPT !.mode = "normal"]
    OBVIOUS
  <2>2. Key(u) /\ spent' = spent /\ toLoop' = toLoop
    BY <1>1, <2>1
  <2>3. /\ u.stream = ui.stream /\ u.model = ui.model /\ u.pending = ui.pending
        /\ u.request = ui.request /\ u.preview = ui.preview /\ u.submitted = ui.submitted
        /\ u.showing = ui.showing /\ u.mode = "normal"
    BY <2>1, ScreensAre DEF App
  <2>4. u \in App
    BY <2>1, ScreensAre DEF App, Screens
  <2>5. (Busy(u) <=> Busy(ui)) /\ SameEdit(ui, u)
    BY <2>3 DEF Busy, SameEdit
  <2> QED BY <2>2, <2>3, <2>4, <2>5, ScreensAre, PlainKeyKeeps
<1>2. CASE /\ ~Busy(ui) /\ Spend("selects", MaxUiSelects)
           /\ \E m \in Models : Sends(Msg("select", m, spent.selects + 1))
           /\ Key([ui EXCEPT !.mode = "normal", !.handoff = spent.selects + 1, !.ready = FALSE])
  <2>1. PICK u : u = [ui EXCEPT !.mode = "normal", !.handoff = spent.selects + 1, !.ready = FALSE]
    OBVIOUS
  <2>2. PICK m \in Models : toLoop' = Append(toLoop, Msg("select", m, spent.selects + 1))
    BY <1>2 DEF Sends
  <2>3. spent.selects + 1 \in Nat /\ spent.selects + 1 \in 0..MaxUiSelects /\ m \in Nat
    BY SMTT(30), <1>2, ScreensAre, ScreensAssumption DEF Spend
  <2>4. /\ u.stream = ui.stream /\ u.model = ui.model /\ u.pending = ui.pending
        /\ u.request = ui.request /\ u.preview = ui.preview /\ u.submitted = ui.submitted
        /\ u.showing = ui.showing /\ u.mode = "normal"
    BY <2>1, ScreensAre DEF App
  <2>5. u \in App
    BY <2>1, <2>3, ScreensAre DEF App, Screens
  <2>6. LoopMsgOk(Msg("select", m, spent.selects + 1)) /\ Msg("select", m, spent.selects + 1).k = "select"
    BY <2>3, LoopMsgIs
  <2>7. \E e : KeySends(toLoop', e) /\ ~LoopEdit(e)
    BY <2>2, <2>6 DEF KeySends, LoopEdit
  <2>8. (Busy(u) <=> Busy(ui)) /\ SameEdit(ui, u)
    BY <2>4 DEF Busy, SameEdit
  <2>9. Key(u)
    BY <1>2, <2>1
  <2>10. spent' \in [prompts : 0..MaxUiPrompts, edits : 0..MaxUiEdits,
                     selects : 0..MaxUiSelects, dialogs : 0..MaxUiDialogs]
    BY <1>2, SpendIs
  <2> QED BY <2>4, <2>5, <2>7, <2>8, <2>9, <2>10, PlainKeyKeeps
<1> QED BY <1>1, <1>2 DEF CloseSelector

\* Opening the connections sends one request.
LEMMA RequestConnectionsKeeps == ASSUME ScreensInv, RequestConnections PROVE ScreensInv'
<1>1. PICK u : u = [ui EXCEPT !.handoff = 0]
  OBVIOUS
<1>2. Key(u) /\ spent' = spent /\ toLoop' = Append(toLoop, Msg("connect", 0, 0))
  BY <1>1 DEF RequestConnections, Sends
<1>3. /\ u.stream = ui.stream /\ u.model = ui.model /\ u.pending = ui.pending
      /\ u.request = ui.request /\ u.preview = ui.preview /\ u.submitted = ui.submitted
      /\ u.showing = ui.showing /\ u.mode = ui.mode
  BY <1>1, ScreensAre DEF App
<1>4. u \in App
  BY <1>1, ScreensAre, Zeros DEF App
<1>5. LoopMsgOk(Msg("connect", 0, 0)) /\ Msg("connect", 0, 0).k = "connect"
  BY LoopMsgIs
<1>6. \E e : KeySends(toLoop', e) /\ ~LoopEdit(e)
  BY <1>2, <1>5 DEF KeySends, LoopEdit
<1>7. (Busy(u) <=> Busy(ui)) /\ SameEdit(ui, u)
  BY <1>3 DEF Busy, SameEdit
<1> QED BY <1>2, <1>3, <1>4, <1>6, <1>7, ScreensAre, PlainKeyKeeps

\* Answering a dialog sends one answer.
LEMMA AnswerDialogKeeps == ASSUME ScreensInv, AnswerDialog PROVE ScreensInv'
<1>1. PICK u : u = [ui EXCEPT !.mode = "normal", !.dialog = 0]
  OBVIOUS
<1>2. Key(u) /\ spent' = spent /\ toLoop' = Append(toLoop, Msg("resolved", 0, ui.dialog))
  BY <1>1 DEF AnswerDialog, Sends
<1>3. /\ u.stream = ui.stream /\ u.model = ui.model /\ u.pending = ui.pending
      /\ u.request = ui.request /\ u.preview = ui.preview /\ u.submitted = ui.submitted
      /\ u.showing = ui.showing /\ u.mode = "normal"
  BY <1>1, ScreensAre DEF App
<1>4. u \in App
  BY <1>1, ScreensAre, Zeros DEF App, Screens
<1>5. LoopMsgOk(Msg("resolved", 0, ui.dialog)) /\ Msg("resolved", 0, ui.dialog).k = "resolved"
  <2>1. PICK d \in Nat : d = ui.dialog
    BY ScreensAre
  <2>2. LoopMsgOk(Msg("resolved", 0, d)) /\ Msg("resolved", 0, d).k = "resolved"
    BY Zeros, LoopMsgIs
  <2> QED BY <2>1, <2>2
<1>6. \E e : KeySends(toLoop', e) /\ ~LoopEdit(e)
  BY <1>2, <1>5 DEF KeySends, LoopEdit
<1>7. (Busy(u) <=> Busy(ui)) /\ SameEdit(ui, u)
  BY <1>3 DEF Busy, SameEdit
<1> QED BY <1>2, <1>3, <1>4, <1>6, <1>7, ScreensAre, PlainKeyKeeps

\* A key that is about an edit: what remains to be shown.
LEMMA EditKeyKeeps ==
    ASSUME ScreensInv, NEW u \in App, Key(u), u.model = ui.model, u.pending = ui.pending,
           u.stream = ui.stream, toLoop' = toLoop \/ \E e : KeySends(toLoop', e),
           spent' \in [prompts : 0..MaxUiPrompts, edits : 0..MaxUiEdits,
                       selects : 0..MaxUiSelects, dialogs : 0..MaxUiDialogs],
           EditAt(u, toLoop', toUi, Held)
    PROVE  ScreensInv'
<1>1. Busy(u) <=> Busy(ui)
  BY DEF Busy
<1>2. /\ ScreensShape' /\ TurnTold' /\ ModelTold' /\ ui' \in App
      /\ SameEdit(u, ui') /\ toUi' = toUi /\ previews' = previews /\ kept' = kept
  BY <1>1, KeyKeeps
<1>3. EditAt(ui', toLoop', toUi, Held)
  BY <1>2, EditScreen
<1>4. EditTold'
  BY <1>2, <1>3 DEF EditTold, Held
<1> QED BY <1>2, <1>4 DEF ScreensInv

\* The composer of an edit sends nothing.
LEMMA ComposeKeeps == ASSUME ScreensInv, Compose PROVE ScreensInv'
<1>1. PICK u : u = [ui EXCEPT !.mode = "compose"]
  OBVIOUS
<1>2. Key(u) /\ spent' = spent /\ toLoop' = toLoop /\ ~EditInFlight(ui)
  BY <1>1 DEF Compose
<1>3. /\ u.stream = ui.stream /\ u.model = ui.model /\ u.pending = ui.pending
      /\ u.request = ui.request /\ u.preview = ui.preview /\ u.submitted = ui.submitted
      /\ u.showing = ui.showing /\ u.mode = "compose"
  BY <1>1, ScreensAre DEF App
<1>4. u \in App
  BY <1>1, ScreensAre DEF App, Screens
<1>5. /\ ui.request = 0 /\ ui.preview = 0 /\ ~ui.submitted
  BY <1>2 DEF EditInFlight
<1>6. NoLoopEdit(toLoop) /\ NoUiEdit(toUi) /\ EditAtRest(ui, Held)
  BY <1>5, EditIdle DEF ScreensInv, EditTold, Held
<1>7. EditAtRest(u, Held) /\ ScreenAt(u)
  BY <1>3, <1>5, <1>6 DEF EditAtRest, ScreenAt
<1>8. EditAt(u, toLoop', toUi, Held)
  BY <1>2, <1>6, <1>7, EditRests
<1> QED BY <1>2, <1>3, <1>4, <1>8, ScreensAre, EditKeyKeeps

\* Leaving the composer sends at most one request, and only where none is under way.
LEMMA LeaveComposerKeeps == ASSUME ScreensInv, LeaveComposer PROVE ScreensInv'
<1>1. CASE Key([ui EXCEPT !.mode = "normal"]) /\ UNCHANGED <<toLoop, spent>>
  <2>1. PICK u : u = [ui EXCEPT !.mode = "normal"]
    OBVIOUS
  <2>2. Key(u) /\ spent' = spent /\ toLoop' = toLoop
    BY <1>1, <2>1
  <2>3. /\ u.stream = ui.stream /\ u.model = ui.model /\ u.pending = ui.pending
        /\ u.request = ui.request /\ u.preview = ui.preview /\ u.submitted = ui.submitted
        /\ u.showing = ui.showing /\ u.mode = "normal"
    BY <2>1, ScreensAre DEF App
  <2>4. u \in App
    BY <2>1, ScreensAre DEF App, Screens
  <2>5. (Busy(u) <=> Busy(ui)) /\ SameEdit(ui, u)
    BY <2>3 DEF Busy, SameEdit
  <2> QED BY <2>2, <2>3, <2>4, <2>5, ScreensAre, PlainKeyKeeps
<1>2. CASE /\ Spend("edits", MaxUiEdits)
           /\ Sends(Msg("prepare", 0, spent.edits + 1))
           /\ Key([ui EXCEPT !.mode = "normal", !.request = spent.edits + 1, !.preview = 0,
                             !.submitted = FALSE])
  <2>1. PICK u : u = [ui EXCEPT !.mode = "normal", !.request = spent.edits + 1, !.preview = 0,
                                !.submitted = FALSE]
    OBVIOUS
  <2>2. PICK e : e = Msg("prepare", 0, spent.edits + 1)
    OBVIOUS
  <2>3. Key(u) /\ toLoop' = Append(toLoop, e) /\ ui.mode = "compose"
    BY <1>2, <2>1, <2>2 DEF Sends, LeaveComposer
  <2>4. spent.edits + 1 \in Nat /\ spent.edits + 1 \in 0..MaxUiEdits /\ spent.edits + 1 # 0
    BY <1>2, ScreensAre DEF Spend
  <2>5. /\ u.stream = ui.stream /\ u.model = ui.model /\ u.pending = ui.pending
        /\ u.request = spent.edits + 1 /\ u.preview = 0 /\ u.submitted = FALSE
        /\ u.mode = "normal"
    BY <2>1, ScreensAre DEF App
  <2>6. u \in App
    BY <2>1, <2>4, ScreensAre, Zeros DEF App, Screens
  <2>7. LoopMsgOk(e) /\ e.k = "prepare" /\ e.of = spent.edits + 1 /\ e \in LoopMsg
    BY <2>2, <2>4, LoopMsgIs DEF LoopMsgOk
  <2>8. ui.request = 0 /\ ui.preview = 0 /\ ~ui.submitted
    BY <2>3 DEF ScreensInv, EditTold, EditAt, ScreenAt
  <2>9. NoLoopEdit(toLoop) /\ NoUiEdit(toUi) /\ EditAtRest(ui, Held)
    BY <2>8, EditIdle DEF ScreensInv, EditTold, Held
  <2>10. LoopEdit(e) /\ LoopEditAt(u, e, Held) /\ ScreenAt(u)
    BY <2>4, <2>5, <2>7, <2>8, <2>9 DEF LoopEdit, LoopEditAt, ScreenAt, Asked,
       EditAtRest
  <2>11. EditAt(u, toLoop', toUi, Held)
    BY <2>3, <2>7, <2>9, <2>10, ScreensAre, EditSentUp
  <2>12. spent' \in [prompts : 0..MaxUiPrompts, edits : 0..MaxUiEdits,
                     selects : 0..MaxUiSelects, dialogs : 0..MaxUiDialogs]
    BY <1>2, SpendIs
  <2>13. \E d : KeySends(toLoop', d)
    BY <2>3, <2>7 DEF KeySends
  <2> QED BY <2>3, <2>5, <2>6, <2>11, <2>12, <2>13, EditKeyKeeps
<1> QED BY <1>1, <1>2 DEF LeaveComposer

\* A decision is sent once for the preview shown.
LEMMA DecideKeeps == ASSUME ScreensInv, Decide PROVE ScreensInv'
<1>1. PICK u : u = [ui EXCEPT !.request = 0, !.submitted = TRUE]
  OBVIOUS
<1>2. PICK e : e = Msg("decide", 0, ui.showing)
  OBVIOUS
<1>3. Key(u) /\ toLoop' = Append(toLoop, e) /\ ui.mode = "review" /\ ~ui.submitted /\ spent' = spent
  BY <1>1, <1>2 DEF Decide, Sends
<1>4. /\ u.stream = ui.stream /\ u.model = ui.model /\ u.pending = ui.pending
      /\ u.request = 0 /\ u.preview = ui.preview /\ u.submitted = TRUE
      /\ u.showing = ui.showing /\ u.mode = ui.mode
  BY <1>1, ScreensAre DEF App
<1>5. u \in App
  BY <1>1, ScreensAre, Zeros DEF App
<1>6. LoopMsgOk(e) /\ e.k = "decide" /\ e.of = ui.showing /\ e \in LoopMsg
  <2>1. PICK d \in Nat : d = ui.showing /\ d \in 0..MaxUiEdits
    BY ScreensAre
  <2>2. /\ LoopMsgOk(Msg("decide", 0, d)) /\ Msg("decide", 0, d).k = "decide"
        /\ Msg("decide", 0, d).of = d
    BY <2>1, Zeros, LoopMsgIs
  <2> QED BY <1>2, <2>1, <2>2 DEF LoopMsgOk
<1>7. EditAt(ui, toLoop, toUi, Held) /\ ui.preview # 0 /\ ui.showing = ui.preview
  BY <1>3 DEF ScreensInv, EditTold, EditAt, ScreenAt
<1>8. ui.request = 0
  <2>1. \A i \in 1..Len(toLoop) : ~LoopEdit(toLoop[i])
    BY <1>3, <1>7 DEF EditAt, LoopEditAt, LoopEdit, Asked, Decided
  <2>2. \A i \in 1..Len(toUi) : ~UiEdit(toUi[i])
    BY <1>3, <1>7 DEF EditAt, UiEditAt, UiEdit, Asked, Decided
  <2> QED BY <1>7, <2>1, <2>2 DEF EditAt, NoLoopEdit, NoUiEdit, EditAtRest
<1>9. NoLoopEdit(toLoop) /\ NoUiEdit(toUi) /\ EditAtRest(ui, Held)
  BY <1>3, <1>7, <1>8, EditIdle
<1>10. LoopEdit(e) /\ LoopEditAt(u, e, Held) /\ ScreenAt(u)
  BY <1>3, <1>4, <1>6, <1>7, <1>9 DEF LoopEdit, LoopEditAt, ScreenAt, Decided,
     EditAtRest
<1>11. EditAt(u, toLoop', toUi, Held)
  BY <1>3, <1>6, <1>9, <1>10, ScreensAre, EditSentUp
<1>12. \E d : KeySends(toLoop', d)
  BY <1>3, <1>6 DEF KeySends
<1> QED BY <1>3, <1>4, <1>5, <1>11, <1>12, ScreensAre, EditKeyKeeps

-----------------------------------------------------------------------------
\* The App reads an event.
LEMMA UiReceivesKeeps == ASSUME ScreensInv, UiReceives PROVE ScreensInv'
<1>1. PICK e : e = Head(toUi)
  OBVIOUS
<1>2. PICK w : w = Handled(ui, e)
  OBVIOUS
<1>3. /\ toUi # <<>> /\ ui' = HandOff(w) /\ toUi' = Tail(toUi) /\ toLoop' = toLoop /\ spent' = spent
      /\ turn' = turn /\ inForce' = inForce /\ activating' = activating /\ previews' = previews /\ kept' = kept
      /\ flow' = flow /\ uiFaults' = uiFaults
  BY <1>1, <1>2 DEF UiReceives, loopVars
<1>4. ScreensShape /\ \A i \in 1..Len(toUi) : UiMsgOk(toUi[i])
  BY DEF ScreensInv, ScreensShape
<1>5. /\ e = toUi[1] /\ 1 \in 1..Len(toUi) /\ toUi' \in Seq(UiMsg)
      /\ \A i \in 1..Len(toUi') : UiMsgOk(toUi'[i])
  BY <1>1, <1>3, <1>4, ScreensAre, Left
<1>6. UiMsgOk(e)
  BY <1>4, <1>5
<1>7. /\ w \in App /\ ToldTo(ui, w, e) /\ (~UiEdit(e) => SameEdit(ui, w))
      /\ e.k = "preview" => w = PreviewReady(ui, e)
      /\ e.k = "edited" => w = EditFinished(ui, e.of)
  BY <1>2, <1>6, ScreensAre, HandledIs
<1>8. /\ ui' \in App /\ ui'.stream = w.stream /\ ui'.model = w.model /\ ui'.pending = w.pending
      /\ ui'.request = w.request /\ ui'.preview = w.preview /\ ui'.submitted = w.submitted
      /\ ui'.showing = w.showing /\ (ui'.mode = w.mode \/ ui'.mode = "select")
  BY <1>3, <1>7, HandOffIs
<1>9. ScreensShape'
  BY <1>3, <1>4, <1>5, <1>8 DEF ScreensShape
<1>10. (Busy(ui') <=> Busy(w)) /\ Eff(ui') = Eff(w)
  BY <1>8 DEF Busy, Eff
<1>11. TurnTold'
  <2>1. FinalBusy(ui', toUi') <=> FinalBusy(ui, toUi)
    <3>1. Busy(ui') <=> On(Head(toUi)) \/ (Busy(ui) /\ ~Off(Head(toUi)))
      BY <1>1, <1>7, <1>10 DEF ToldTo
    <3> QED BY <1>3, <3>1, ScreensAre, BusyLeft
  <2>2. TurnToldOf(uiFaults, turn, ui, toUi, activating, toLoop)
    BY TurnToldIs DEF ScreensInv
  <2>3. TurnToldOf(uiFaults, turn, ui', toUi', activating, toLoop)
    BY <2>1, <2>2 DEF TurnToldOf
  <2> QED BY <1>3, <2>3 DEF TurnTold, TurnToldOf
<1>12. ModelTold'
  <2>1. FinalModel(ui, toUi, inForce) /\ (ui.pending # 0 => Busy(ui))
    BY DEF ScreensInv, ModelTold
  <2>2. /\ Eff(ui') = IF Mod(Head(toUi)) THEN Head(toUi).v ELSE Eff(ui)
        /\ ui'.pending # 0 => Busy(ui')
    BY <1>1, <1>7, <1>8, <1>10, <2>1 DEF ToldTo
  <2>3. FinalModel(ui', Tail(toUi), inForce)
    BY <1>3, <2>1, <2>2, ScreensAre, ModelLeft
  <2> QED BY <1>3, <2>2, <2>3 DEF ModelTold
<1>13. SameEdit(w, ui')
  BY <1>8 DEF SameEdit
<1>14. EditAt(ui, toLoop, toUi, Held)
  BY DEF ScreensInv, EditTold, Held
<1>15. EditAt(w, toLoop, toUi', Held)
  <2>1. CASE ~UiEdit(e)
    <3>1. EditAt(ui, toLoop, toUi', Held)
      BY <1>1, <1>3, <1>14, <2>1, ScreensAre, EditUiLeft
    <3> QED BY <1>7, <2>1, <3>1, EditScreen
  <2>2. CASE UiEdit(e)
    <3>1. NoUiEdit(toUi') /\ NoLoopEdit(toLoop) /\ UiEditAt(ui, e, Held) /\ ScreenAt(ui)
      <4>1. UiEdit(Head(toUi)) /\ toUi # <<>> /\ toUi \in Seq(UiMsg)
        BY <1>1, <1>3, <2>2, ScreensAre
      <4>2. /\ NoUiEdit(Tail(toUi)) /\ NoLoopEdit(toLoop) /\ UiEditAt(ui, Head(toUi), Held)
            /\ ScreenAt(ui)
        BY <1>14, <4>1, UiEditAlone
      <4> QED BY <1>1, <1>3, <4>2
    <3>2. CASE e.k = "preview"
      <4>1. /\ e.v = e.of /\ ui.request = e.of /\ e.of # 0 /\ ui.preview = 0 /\ ~ui.submitted
            /\ Held = {e.of}
        BY <3>1, <3>2 DEF UiEditAt, Asked
      <4>2. w = [ui EXCEPT !.request = 0, !.preview = e.of, !.submitted = FALSE,
                           !.mode = "review", !.showing = e.of]
        BY <1>7, <3>2, <4>1 DEF PreviewReady
      <4>3. /\ w.request = 0 /\ w.preview = e.of /\ w.submitted = FALSE /\ w.mode = "review"
            /\ w.showing = e.of
        BY <4>2, ScreensAre DEF App
      <4>4. EditAtRest(w, Held) /\ ScreenAt(w)
        BY <4>1, <4>3 DEF EditAtRest, ScreenAt
      <4> QED BY <3>1, <4>4, EditRests
    <3>3. CASE e.k = "edited"
      <4>1. /\ Held = {}
            /\ \/ e.of = 0 /\ ui.request # 0 
               \/ e.of # 0 /\ ui.preview = e.of
        BY <3>1, <3>3 DEF UiEditAt, Asked, Decided
      <4>2. w = [ui EXCEPT !.request = 0, !.preview = 0, !.submitted = FALSE, !.mode = "normal"]
        BY <1>7, <3>3, <4>1 DEF EditFinished
      <4>3. w.request = 0 /\ w.preview = 0 /\ w.submitted = FALSE /\ w.mode = "normal"
        BY <4>2, ScreensAre DEF App
      <4>4. EditAtRest(w, Held) /\ ScreenAt(w)
        BY <4>1, <4>3 DEF EditAtRest, ScreenAt
      <4> QED BY <3>1, <4>4, EditRests
    <3> QED BY <2>2, <3>2, <3>3 DEF UiEdit
  <2> QED BY <2>1, <2>2
<1>16. EditTold'
  BY <1>3, <1>13, <1>15, EditScreen DEF EditTold, Held
<1> QED BY <1>9, <1>11, <1>12, <1>16 DEF ScreensInv

-----------------------------------------------------------------------------
\* The backend: what it tells.
LEMMA TellsOne ==
    ASSUME ScreensInv, NEW e, UiMsgOk(e), Tells(<<e>>)
    PROVE  /\ toUi' = Append(toUi, e) /\ e \in UiMsg /\ toUi' \in Seq(UiMsg)
           /\ \A i \in 1..Len(toUi') : UiMsgOk(toUi'[i])
<1>1. e \in UiMsg /\ \A i \in 1..Len(toUi) : UiMsgOk(toUi[i])
  BY DEF UiMsgOk, ScreensInv, ScreensShape
<1>2. toUi' = Append(toUi, e)
  BY <1>1, ScreensAre DEF Tells
<1> QED BY <1>1, <1>2, ScreensAre, Joined

\* Two messages at once are two, one after the other.
LEMMA TwoMore ==
    ASSUME NEW M, NEW s \in Seq(M), NEW d \in M, NEW e \in M
    PROVE  s \o <<d, e>> = Append(Append(s, d), e)
<1>1. PICK t : t = <<d, e>>
  OBVIOUS
<1>2. t \in Seq(M) /\ Len(t) = 2 /\ t[1] = d /\ t[2] = e
  BY <1>1
<1>3. PICK a : a = Append(s, d)
  OBVIOUS
<1>4. a \in Seq(M) /\ Len(s) \in Nat /\ Len(a) = Len(s) + 1 /\ a[Len(s) + 1] = d
      /\ \A i \in 1..Len(s) : a[i] = s[i]
  BY <1>3, Joined
<1>5. PICK b : b = Append(a, e)
  OBVIOUS
<1>6. b \in Seq(M) /\ Len(b) = Len(s) + 2 /\ b[Len(s) + 2] = e
      /\ \A i \in 1..(Len(s) + 1) : b[i] = a[i]
  BY <1>4, <1>5, Joined
<1>7. PICK c : c = s \o t
  OBVIOUS
<1>8. c \in Seq(M) /\ Len(c) = Len(s) + 2
      /\ \A i \in 1..(Len(s) + 2) : c[i] = IF i <= Len(s) THEN s[i] ELSE t[i - Len(s)]
  <2>1. /\ s \o t \in Seq(M) /\ Len(s \o t) = Len(s) + Len(t)
        /\ \A i \in 1..(Len(s) + Len(t)) : (s \o t)[i] = IF i <= Len(s) THEN s[i] ELSE t[i - Len(s)]
    BY <1>2, ConcatProperties
  <2> QED BY <1>2, <1>7, <2>1
<1>9. \A i \in 1..(Len(s) + 2) : c[i] = b[i]
  <2> SUFFICES ASSUME NEW i \in 1..(Len(s) + 2) PROVE c[i] = b[i]
    OBVIOUS
  <2>1. CASE i <= Len(s)
    BY <1>4, <1>6, <1>8, <2>1
  <2>2. CASE i = Len(s) + 1
    BY SMTT(30), <1>2, <1>4, <1>6, <1>8, <2>2
  <2>3. CASE i = Len(s) + 2
    BY SMTT(30), <1>2, <1>4, <1>6, <1>8, <2>3
  <2> QED BY <1>4, <2>1, <2>2, <2>3
<1>10. c = b
  BY <1>4, <1>6, <1>8, <1>9, SeqEqual
<1> QED BY <1>1, <1>3, <1>5, <1>7, <1>10

\* The channel after two messages of the backend.
LEMMA TellsTwo ==
    ASSUME ScreensInv, NEW d, NEW e, UiMsgOk(d), UiMsgOk(e), Tells(<<d, e>>)
    PROVE  /\ toUi' = Append(Append(toUi, d), e) /\ d \in UiMsg /\ e \in UiMsg
           /\ Append(toUi, d) \in Seq(UiMsg) /\ toUi' \in Seq(UiMsg)
           /\ \A i \in 1..Len(toUi') : UiMsgOk(toUi'[i])
<1>1. d \in UiMsg /\ e \in UiMsg /\ \A i \in 1..Len(toUi) : UiMsgOk(toUi[i])
  BY DEF UiMsgOk, ScreensInv, ScreensShape
<1>2. toUi' = Append(Append(toUi, d), e)
  <2>1. toUi' = toUi \o <<d, e>>
    BY DEF Tells
  <2>2. toUi \in Seq(UiMsg)
    BY ScreensAre
  <2>3. toUi \o <<d, e>> = Append(Append(toUi, d), e)
    BY <1>1, <2>2, TwoMore
  <2> QED BY <2>1, <2>3
<1>3. PICK s : s = Append(toUi, d)
  OBVIOUS
<1>4. s \in Seq(UiMsg) /\ \A i \in 1..Len(s) : UiMsgOk(s[i])
  BY <1>1, <1>3, ScreensAre, Joined
<1>5. toUi' \in Seq(UiMsg) /\ \A i \in 1..Len(toUi') : UiMsgOk(toUi'[i])
  BY <1>1, <1>2, <1>3, <1>4, Joined
<1> QED BY <1>1, <1>2, <1>3, <1>4, <1>5

\* The messages that have no payload.
LEMMA PlainMsgs ==
    \A k \in {"delta", "ended", "finished"} :
      UiMsgOk(Msg(k, 0, 0)) /\ Msg(k, 0, 0).k = k /\ Msg(k, 0, 0) \in UiMsg
  BY DEF Msg, UiMsgOk, UiMsg

\* Nothing is told about the model and the edit.
Silent(e) == ~Mod(e) /\ ~UiEdit(e)

\* A message that sets neither model, busy sign nor edit changes nothing to come.
LEMMA SilentOne ==
    ASSUME ScreensInv, ui' = ui, inForce' = inForce, NEW e \in UiMsg, Silent(e),
           toUi' = Append(toUi, e), NEW l, EditAt(ui, l, toUi, Held)
    PROVE  ModelTold' /\ EditAt(ui, l, toUi', Held)
<1>1. FinalModel(ui, toUi, inForce) /\ (ui.pending # 0 => Busy(ui))
  BY DEF ScreensInv, ModelTold
<1>2. FinalModel(ui, Append(toUi, e), inForce)
  BY <1>1, ScreensAre, ModelJoined DEF Silent
<1>3. EditAt(ui, l, Append(toUi, e), Held)
  BY ScreensAre, EditUiJoined DEF Silent
<1> QED BY <1>1, <1>2, <1>3 DEF ModelTold

\* Nothing sent, nothing to come.
LEMMA SilentNone ==
    ASSUME ScreensInv, ui' = ui, inForce' = inForce, toUi' = toUi
    PROVE  ModelTold'
  BY DEF ScreensInv, ModelTold

\* The end of a turn: two messages, after which no response is awaited.
LEMMA EndingTold ==
    ASSUME ScreensInv, ui' = ui, inForce' = inForce, Tells(Ending),
           NEW l, EditAt(ui, l, toUi, Held)
    PROVE  /\ ModelTold' /\ EditAt(ui, l, toUi', Held) /\ ~FinalBusy(ui, toUi')
           /\ toUi' \in Seq(UiMsg) /\ \A i \in 1..Len(toUi') : UiMsgOk(toUi'[i])
<1>1. PICK d : d = Msg("ended", 0, 0)
  OBVIOUS
<1>2. PICK e : e = Msg("finished", 0, 0)
  OBVIOUS
<1>3. UiMsgOk(d) /\ UiMsgOk(e) /\ d.k = "ended" /\ e.k = "finished" /\ Tells(<<d, e>>)
  BY <1>1, <1>2, PlainMsgs DEF Ending
<1>4. PICK s : s = Append(toUi, d)
  OBVIOUS
<1>5. /\ toUi' = Append(s, e) /\ d \in UiMsg /\ e \in UiMsg /\ s \in Seq(UiMsg)
      /\ toUi' \in Seq(UiMsg) /\ \A i \in 1..Len(toUi') : UiMsgOk(toUi'[i])
  BY <1>3, <1>4, TellsTwo
<1>6. /\ ~Mod(d) /\ ~Mod(e) /\ ~UiEdit(d) /\ ~UiEdit(e) /\ Off(e)
  BY <1>3 DEF Mod, UiEdit, Off
<1>7. FinalModel(ui, toUi, inForce) /\ (ui.pending # 0 => Busy(ui))
  BY DEF ScreensInv, ModelTold
<1>8. FinalModel(ui, s, inForce)
  BY <1>4, <1>5, <1>6, <1>7, ScreensAre, ModelJoined
<1>9. FinalModel(ui, toUi', inForce)
  BY <1>5, <1>6, <1>8, ModelJoined
<1>10. EditAt(ui, l, s, Held)
  BY <1>4, <1>5, <1>6, ScreensAre, EditUiJoined
<1>11. EditAt(ui, l, toUi', Held)
  BY <1>5, <1>6, <1>10, EditUiJoined
<1>12. ~FinalBusy(ui, toUi')
  BY <1>5, <1>6, BusyJoined
<1> QED BY <1>5, <1>7, <1>9, <1>11, <1>12 DEF ModelTold

-----------------------------------------------------------------------------
\* The backend takes an event of the client.
Takes(e) == toLoop # <<>> /\ toLoop' = Tail(toLoop) /\ e = Head(toLoop) /\ ui' = ui /\ spent' = spent

\* What the loop takes, and what it leaves.
LEMMA TakesIs ==
    ASSUME ScreensInv, NEW e, Takes(e)
    PROVE  /\ LoopMsgOk(e) /\ e \in LoopMsg
           /\ toLoop' \in Seq(LoopMsg) /\ \A i \in 1..Len(toLoop') : LoopMsgOk(toLoop'[i])
           /\ ~LoopEdit(e) => EditAt(ui, toLoop', toUi, Held)
           /\ LoopEdit(e) => /\ NoLoopEdit(toLoop') /\ NoUiEdit(toUi)
                             /\ LoopEditAt(ui, e, Held) /\ ScreenAt(ui)
           /\ PromptIn(toLoop) /\ e.k # "prompt" => PromptIn(toLoop')
<1>1. toLoop # <<>> /\ toLoop' = Tail(toLoop) /\ e = Head(toLoop)
  BY DEF Takes
<1>2. toLoop \in Seq(LoopMsg) /\ \A i \in 1..Len(toLoop) : LoopMsgOk(toLoop[i])
  BY DEF ScreensInv, ScreensShape
<1>3. /\ toLoop' \in Seq(LoopMsg) /\ e = toLoop[1] /\ 1 \in 1..Len(toLoop)
      /\ \A i \in 1..Len(toLoop') : i + 1 \in 1..Len(toLoop) /\ toLoop'[i] = toLoop[i + 1]
  BY <1>1, <1>2, Left
<1>4. LoopMsgOk(e) /\ e \in LoopMsg /\ \A i \in 1..Len(toLoop') : LoopMsgOk(toLoop'[i])
  BY <1>2, <1>3 DEF LoopMsgOk
<1>5. EditAt(ui, toLoop, toUi, Held)
  BY DEF ScreensInv, EditTold, Held
<1>6. ~LoopEdit(e) => EditAt(ui, toLoop', toUi, Held)
  BY <1>1, <1>2, <1>5, EditLoopLeft
<1>7. LoopEdit(e) => /\ NoLoopEdit(toLoop') /\ NoUiEdit(toUi)
                     /\ LoopEditAt(ui, e, Held) /\ ScreenAt(ui)
  <2> SUFFICES ASSUME LoopEdit(e)
               PROVE  /\ NoLoopEdit(toLoop') /\ NoUiEdit(toUi)
                      /\ LoopEditAt(ui, e, Held) /\ ScreenAt(ui)
    OBVIOUS
  <2>1. LoopEdit(Head(toLoop))
    BY <1>1
  <2>2. /\ NoLoopEdit(Tail(toLoop)) /\ NoUiEdit(toUi)
        /\ LoopEditAt(ui, Head(toLoop), Held) /\ ScreenAt(ui)
    BY <1>1, <1>2, <1>5, <2>1, LoopEditAlone
  <2> QED BY <1>1, <2>2
<1>8. PromptIn(toLoop) /\ e.k # "prompt" => PromptIn(toLoop')
  BY <1>1, <1>2, PromptLeft
<1> QED BY <1>3, <1>4, <1>6, <1>7, <1>8

\* The shape after a step of the backend.
LEMMA BackendShape ==
    ASSUME ScreensInv, ui' = ui,
           spent' \in [prompts : 0..MaxUiPrompts, edits : 0..MaxUiEdits,
                       selects : 0..MaxUiSelects, dialogs : 0..MaxUiDialogs],
           toLoop' \in Seq(LoopMsg), \A i \in 1..Len(toLoop') : LoopMsgOk(toLoop'[i]),
           toUi' \in Seq(UiMsg), \A i \in 1..Len(toUi') : UiMsgOk(toUi'[i]),
           turn' \in {"none", "running", "finishing"}, inForce' \in Models \cup {0},
           activating' = NoMsg \/ (activating' \in LoopMsg /\ activating'.v \in Models),
           previews' \subseteq 1..MaxUiEdits, kept' \subseteq 1..MaxUiEdits, flow' \in {"none", "working", "asking"},
           uiFaults' \in 0..MaxUiFaults
    PROVE  ScreensShape'
  BY ScreensAre DEF ScreensShape

\* The invariant, part by part.
LEMMA BackendIs ==
    ASSUME ScreensInv
    PROVE  /\ turn \in {"none", "running", "finishing"} /\ inForce \in Models \cup {0}
           /\ activating = NoMsg \/ (activating \in LoopMsg /\ activating.v \in Models)
           /\ previews \subseteq 1..MaxUiEdits /\ kept \subseteq 1..MaxUiEdits /\ flow \in {"none", "working", "asking"}
           /\ uiFaults \in 0..MaxUiFaults /\ uiFaults \in Nat
           /\ \A i \in 1..Len(toUi) : UiMsgOk(toUi[i])
           /\ \A i \in 1..Len(toLoop) : LoopMsgOk(toLoop[i])
           /\ TurnToldOf(uiFaults, turn, ui, toUi, activating, toLoop)
           /\ FinalModel(ui, toUi, inForce) /\ (ui.pending # 0 => Busy(ui))
           /\ EditAt(ui, toLoop, toUi, Held)
<1>1. uiFaults \in 0..MaxUiFaults => uiFaults \in Nat
  BY ScreensAssumption
<1> QED BY <1>1, TurnToldIs DEF ScreensInv, ScreensShape, ModelTold, EditTold, Held

\* The loop takes a prompt: it runs it, or refuses it.
LEMMA TakePromptKeeps ==
    ASSUME ScreensInv, NEW e, Takes(e), e.k = "prompt", TakeUiPrompt
    PROVE  ScreensInv'
<1>1. /\ ui' = ui /\ spent' = spent /\ inForce' = inForce /\ activating' = activating
      /\ previews' = previews /\ kept' = kept /\ flow' = flow
  BY DEF Takes, TakeUiPrompt
<1>2. EditAt(ui, toLoop', toUi, Held)
  BY TakesIs DEF LoopEdit
<1>3. /\ toLoop' \in Seq(LoopMsg) /\ \A i \in 1..Len(toLoop') : LoopMsgOk(toLoop'[i])
  BY TakesIs
<1>4. TurnToldOf(uiFaults, turn, ui, toUi, activating, toLoop)
  BY BackendIs
<1>5. CASE /\ activating # NoMsg \/ inForce = 0
           /\ Tells(<<Msg("finished", 0, 0)>>)
           /\ IF activating = NoMsg /\ turn # "none" THEN UiFault ELSE UNCHANGED uiFaults
           /\ UNCHANGED turn
  <2>1. PICK m : m = Msg("finished", 0, 0)
    OBVIOUS
  <2>2. UiMsgOk(m) /\ m.k = "finished" /\ Tells(<<m>>)
    BY <1>5, <2>1, PlainMsgs
  <2>3. /\ toUi' = Append(toUi, m) /\ m \in UiMsg /\ toUi' \in Seq(UiMsg)
        /\ \A i \in 1..Len(toUi') : UiMsgOk(toUi'[i])
    BY <2>2, TellsOne
  <2>4. Silent(m) /\ Off(m)
    BY <2>2 DEF Silent, Mod, UiEdit, Off
  <2>5. ModelTold' /\ EditAt(ui, toLoop', toUi', Held)
    BY <1>1, <1>2, <2>3, <2>4, SilentOne
  <2>6. ~FinalBusy(ui, toUi')
    BY <2>3, <2>4, ScreensAre, BusyJoined
  <2>7. /\ uiFaults' \in 0..MaxUiFaults
        /\ uiFaults' = 0 => uiFaults = 0 /\ (activating # NoMsg \/ turn = "none")
    BY <1>5, BackendIs, ScreensAssumption DEF UiFault
  <2>8. TurnTold'
    BY <1>1, <1>4, <1>5, <2>6, <2>7 DEF TurnTold, TurnToldOf
  <2>9. EditTold'
    BY <1>1, <2>5 DEF EditTold, Held
  <2>10. ScreensShape'
    BY <1>1, <1>3, <1>5, <2>3, <2>7, ScreensAre, BackendIs, BackendShape
  <2> QED BY <2>5, <2>8, <2>9, <2>10 DEF ScreensInv
<1>6. CASE /\ activating = NoMsg /\ inForce # 0 /\ turn # "none"
           /\ UNCHANGED <<toUi, turn, uiFaults>>
  <2>1. ModelTold'
    BY <1>1, <1>6, SilentNone
  <2>2. TurnTold'
    BY <1>1, <1>4, <1>6 DEF TurnTold, TurnToldOf
  <2>3. EditTold'
    BY <1>1, <1>2, <1>6 DEF EditTold, Held
  <2>4. ScreensShape'
    BY <1>1, <1>3, <1>6, ScreensAre, BackendIs, BackendShape
  <2> QED BY <2>1, <2>2, <2>3, <2>4 DEF ScreensInv
<1>7. CASE /\ activating = NoMsg /\ inForce # 0 /\ turn = "none"
           /\ Tells(<<Msg("delta", 0, 0)>>)
           /\ \/ turn' = "running" /\ UNCHANGED uiFaults
              \/ UiFault /\ UNCHANGED turn
  <2>1. PICK m : m = Msg("delta", 0, 0)
    OBVIOUS
  <2>2. UiMsgOk(m) /\ m.k = "delta" /\ Tells(<<m>>)
    BY <1>7, <2>1, PlainMsgs
  <2>3. /\ toUi' = Append(toUi, m) /\ m \in UiMsg /\ toUi' \in Seq(UiMsg)
        /\ \A i \in 1..Len(toUi') : UiMsgOk(toUi'[i])
    BY <2>2, TellsOne
  <2>4. Silent(m) /\ On(m) /\ ~Off(m)
    BY <2>2 DEF Silent, Mod, UiEdit, Off, On
  <2>5. ModelTold' /\ EditAt(ui, toLoop', toUi', Held)
    BY <1>1, <1>2, <2>3, <2>4, SilentOne
  <2>6. FinalBusy(ui, toUi')
    BY <2>3, <2>4, ScreensAre, BusyJoined
  <2>7. /\ turn' \in {"none", "running", "finishing"} /\ uiFaults' \in 0..MaxUiFaults
        /\ uiFaults' = 0 => turn' = "running"
    BY <1>7, BackendIs, ScreensAssumption DEF UiFault
  <2>8. TurnTold'
    BY <1>1, <1>7, <2>6, <2>7 DEF TurnTold
  <2>9. EditTold'
    BY <1>1, <2>5 DEF EditTold, Held
  <2>10. ScreensShape'
    BY <1>1, <1>3, <1>7, <2>3, <2>7, ScreensAre, BackendIs, BackendShape
  <2> QED BY <2>5, <2>8, <2>9, <2>10 DEF ScreensInv
<1> QED BY <1>5, <1>6, <1>7 DEF TakeUiPrompt

\* The loop takes a cancel: it ends the turn that runs, if any.
LEMMA TakeCancelKeeps ==
    ASSUME ScreensInv, NEW e, Takes(e), e.k = "cancel", TakeUiCancel
    PROVE  ScreensInv'
<1>1. /\ ui' = ui /\ spent' = spent /\ inForce' = inForce /\ activating' = activating
      /\ previews' = previews /\ kept' = kept /\ flow' = flow /\ uiFaults' = uiFaults /\ turn' = "none"
  BY DEF Takes, TakeUiCancel
<1>2. EditAt(ui, toLoop', toUi, Held)
  BY TakesIs DEF LoopEdit
<1>3. /\ toLoop' \in Seq(LoopMsg) /\ \A i \in 1..Len(toLoop') : LoopMsgOk(toLoop'[i])
      /\ PromptIn(toLoop) => PromptIn(toLoop')
  BY TakesIs
<1>4. TurnToldOf(uiFaults, turn, ui, toUi, activating, toLoop)
  BY BackendIs
<1>5. CASE turn = "running"
  <2>1. Tells(Ending)
    BY <1>5 DEF TakeUiCancel
  <2>2. /\ ModelTold' /\ EditAt(ui, toLoop', toUi', Held) /\ ~FinalBusy(ui, toUi')
        /\ toUi' \in Seq(UiMsg) /\ \A i \in 1..Len(toUi') : UiMsgOk(toUi'[i])
    BY <1>1, <1>2, <2>1, EndingTold
  <2>3. TurnTold'
    BY <1>1, <2>2 DEF TurnTold
  <2>4. EditTold'
    BY <1>1, <2>2 DEF EditTold, Held
  <2>5. ScreensShape'
    BY <1>1, <1>3, <2>2, ScreensAre, BackendIs, BackendShape
  <2> QED BY <2>2, <2>3, <2>4, <2>5 DEF ScreensInv
<1>6. CASE turn # "running"
  <2>1. toUi' = toUi
    BY <1>6 DEF TakeUiCancel
  <2>2. ModelTold'
    BY <1>1, <2>1, SilentNone
  <2>3. TurnTold'
    <3>1. uiFaults = 0 => turn = "none"
      BY <1>4, <1>6, BackendIs DEF TurnToldOf
    <3> QED BY <1>1, <1>3, <1>4, <2>1, <3>1 DEF TurnTold, TurnToldOf
  <2>4. EditTold'
    BY <1>1, <1>2, <2>1 DEF EditTold, Held
  <2>5. ScreensShape'
    BY <1>1, <1>3, <2>1, ScreensAre, BackendIs, BackendShape
  <2> QED BY <2>2, <2>3, <2>4, <2>5 DEF ScreensInv
<1> QED BY <1>5, <1>6

\* The loop takes a selection: it works on it, or refuses it.
LEMMA TakeSelectKeeps ==
    ASSUME ScreensInv, NEW e, Takes(e), e.k = "select", TakeSelect(e)
    PROVE  ScreensInv'
<1>1. /\ ui' = ui /\ spent' = spent /\ inForce' = inForce /\ turn' = turn
      /\ previews' = previews /\ kept' = kept /\ flow' = flow /\ uiFaults' = uiFaults
  BY DEF Takes, TakeSelect
<1>2. EditAt(ui, toLoop', toUi, Held)
  BY TakesIs DEF LoopEdit
<1>3. /\ toLoop' \in Seq(LoopMsg) /\ \A i \in 1..Len(toLoop') : LoopMsgOk(toLoop'[i])
      /\ PromptIn(toLoop) => PromptIn(toLoop')
      /\ e \in LoopMsg /\ e.v \in Models /\ e.of \in Nat
  BY TakesIs DEF LoopMsgOk, LoopMsg
<1>4. TurnToldOf(uiFaults, turn, ui, toUi, activating, toLoop)
  BY BackendIs
<1>5. CASE Tells(<<Msg("refused", 0, e.of)>>) /\ UNCHANGED activating
  <2>1. PICK m : m = Msg("refused", 0, e.of)
    OBVIOUS
  <2>2. UiMsgOk(m) /\ m.k = "refused" /\ Tells(<<m>>)
    BY <1>3, <1>5, <2>1 DEF Msg, UiMsgOk, UiMsg
  <2>3. /\ toUi' = Append(toUi, m) /\ m \in UiMsg /\ toUi' \in Seq(UiMsg)
        /\ \A i \in 1..Len(toUi') : UiMsgOk(toUi'[i])
    BY <2>2, TellsOne
  <2>4. Silent(m) /\ ~On(m) /\ ~Off(m)
    BY <2>2 DEF Silent, Mod, UiEdit, Off, On
  <2>5. ModelTold' /\ EditAt(ui, toLoop', toUi', Held)
    BY <1>1, <1>2, <2>3, <2>4, SilentOne
  <2>6. FinalBusy(ui, toUi') <=> FinalBusy(ui, toUi)
    BY <2>3, <2>4, ScreensAre, BusyJoined
  <2>7. TurnTold'
    BY <1>1, <1>3, <1>4, <1>5, <2>6 DEF TurnTold, TurnToldOf
  <2>8. EditTold'
    BY <1>1, <2>5 DEF EditTold, Held
  <2>9. ScreensShape'
    BY <1>1, <1>3, <1>5, <2>3, ScreensAre, BackendIs, BackendShape
  <2> QED BY <2>5, <2>7, <2>8, <2>9 DEF ScreensInv
<1>6. CASE turn = "none" /\ activating = NoMsg /\ activating' = e /\ UNCHANGED toUi
  <2>1. ModelTold'
    BY <1>1, <1>6, SilentNone
  <2>2. TurnTold'
    BY <1>1, <1>3, <1>4, <1>6 DEF TurnTold, TurnToldOf
  <2>3. EditTold'
    BY <1>1, <1>2, <1>6 DEF EditTold, Held
  <2>4. ScreensShape'
    BY <1>1, <1>3, <1>6, ScreensAre, BackendIs, BackendShape
  <2> QED BY <2>1, <2>2, <2>3, <2>4 DEF ScreensInv
<1> QED BY <1>5, <1>6 DEF TakeSelect

\* A step that tells the App about its edit.
LEMMA EditToldKeeps ==
    ASSUME ScreensInv, NEW e, Takes(e), LoopEdit(e),
           turn' = turn, inForce' = inForce, activating' = activating, flow' = flow,
           uiFaults' = uiFaults \/ UiFault,
           previews' \subseteq 1..MaxUiEdits, kept' \subseteq 1..MaxUiEdits,
           NEW m, UiMsgOk(m), UiEdit(m), Tells(<<m>>), UiEditAt(ui, m, Held')
    PROVE  ScreensInv'
<1>1. /\ ui' = ui /\ spent' = spent
  BY DEF Takes
<1>2. /\ toLoop' \in Seq(LoopMsg) /\ \A i \in 1..Len(toLoop') : LoopMsgOk(toLoop'[i])
      /\ PromptIn(toLoop) => PromptIn(toLoop')
      /\ NoLoopEdit(toLoop') /\ NoUiEdit(toUi) /\ ScreenAt(ui)
  BY TakesIs DEF LoopEdit
<1>3. /\ toUi' = Append(toUi, m) /\ m \in UiMsg /\ toUi' \in Seq(UiMsg)
      /\ \A i \in 1..Len(toUi') : UiMsgOk(toUi'[i])
  BY TellsOne
<1>4. ~Mod(m) /\ ~On(m) /\ ~Off(m)
  BY DEF Mod, UiEdit, Off, On
<1>5. EditAt(ui, toLoop', toUi', Held')
  BY <1>2, <1>3, ScreensAre, EditSentDown
<1>6. FinalBusy(ui, toUi') <=> FinalBusy(ui, toUi)
  BY <1>3, <1>4, ScreensAre, BusyJoined
<1>11. uiFaults' \in 0..MaxUiFaults /\ (uiFaults' = 0 => uiFaults = 0)
  BY BackendIs, ScreensAssumption DEF UiFault
<1>7. TurnTold'
  <2>1. TurnToldOf(uiFaults, turn, ui, toUi, activating, toLoop)
    BY BackendIs
  <2> QED BY <1>1, <1>2, <1>6, <1>11, <2>1 DEF TurnTold, TurnToldOf
<1>8. ModelTold'
  <2>1. FinalModel(ui, Append(toUi, m), inForce)
    BY <1>3, <1>4, ScreensAre, BackendIs, ModelJoined
  <2> QED BY <1>1, <1>3, <2>1, BackendIs DEF ModelTold
<1>9. EditTold'
  BY <1>1, <1>5 DEF EditTold
<1>10. ScreensShape'
  BY <1>1, <1>2, <1>3, <1>11, ScreensAre, BackendIs, BackendShape
<1> QED BY <1>7, <1>8, <1>9, <1>10 DEF ScreensInv

\* The loop takes an edit: it holds its preview and shows it, or fails.
LEMMA TakePrepareKeeps ==
    ASSUME ScreensInv, NEW e, Takes(e), e.k = "prepare", TakePrepare(e.of)
    PROVE  ScreensInv'
<1>1. /\ turn' = turn /\ inForce' = inForce /\ activating' = activating /\ flow' = flow
      /\ uiFaults' = uiFaults /\ LoopEdit(e)
  BY DEF TakePrepare, LoopEdit
<1>2. /\ ui.request = e.of /\ e.of # 0 /\ ui.preview = 0 /\ ~ui.submitted /\ Held = {}
  BY <1>1, TakesIs DEF LoopEditAt, Asked
<1>3. e.of \in 1..MaxUiEdits /\ e.of \in Nat /\ e.of \in 0..MaxUiEdits
  BY <1>2, TakesIs, ScreensAssumption DEF LoopMsgOk
<1>4. CASE /\ previews' = previews \cup {e.of} /\ kept' = kept \ {e.of}
           /\ Tells(<<Msg("preview", e.of, e.of)>>)
  <2>1. PICK m : m = Msg("preview", e.of, e.of)
    OBVIOUS
  <2>2. UiMsgOk(m) /\ m.k = "preview" /\ m.v = e.of /\ m.of = e.of
    BY <1>3, <2>1 DEF Msg, UiMsgOk, UiMsg
  <2>3. Held' = {e.of} /\ previews' \subseteq 1..MaxUiEdits /\ kept' \subseteq 1..MaxUiEdits
    BY <1>2, <1>3, <1>4, BackendIs DEF Held
  <2>4. UiEdit(m) /\ UiEditAt(ui, m, Held')
    BY <1>2, <2>2, <2>3 DEF UiEdit, UiEditAt, Asked
  <2>5. Tells(<<m>>)
    BY <1>4, <2>1
  <2> QED BY <1>1, <2>2, <2>3, <2>4, <2>5, EditToldKeeps
<1>5. CASE UNCHANGED <<previews, kept>> /\ Tells(<<Msg("edited", 0, 0)>>)
  <2>1. PICK m : m = Msg("edited", 0, 0)
    OBVIOUS
  <2>2. UiMsgOk(m) /\ m.k = "edited" /\ m.of = 0
    BY <2>1, Zeros DEF Msg, UiMsgOk, UiMsg
  <2>3. Held' = {} /\ previews' \subseteq 1..MaxUiEdits /\ kept' \subseteq 1..MaxUiEdits
    BY <1>2, <1>5, BackendIs DEF Held
  <2>4. UiEdit(m) /\ UiEditAt(ui, m, Held')
    BY <1>2, <2>2, <2>3 DEF UiEdit, UiEditAt, Asked
  <2>5. Tells(<<m>>)
    BY <1>5, <2>1
  <2> QED BY <1>1, <2>2, <2>3, <2>4, <2>5, EditToldKeeps
<1> QED BY <1>4, <1>5 DEF TakePrepare

\* The loop takes a decision: the preview is gone or kept for good, and the screen hears
\* of it.
LEMMA TakeDecisionKeeps ==
    ASSUME ScreensInv, NEW e, Takes(e), e.k = "decide", TakeDecision(e.of)
    PROVE  ScreensInv'
<1>1. /\ turn' = turn /\ inForce' = inForce /\ activating' = activating /\ flow' = flow
      /\ LoopEdit(e) /\ Tells(<<Msg("edited", 0, e.of)>>)
      /\ \/ previews' = previews \ {e.of} /\ kept' = kept /\ uiFaults' = uiFaults
         \/ UiFault /\ kept' = kept \cup {e.of} /\ previews' = previews
  BY DEF TakeDecision, LoopEdit
<1>2. /\ ui.preview = e.of /\ e.of # 0 /\ ui.request = 0 /\ ui.submitted /\ Held = {e.of}
  BY <1>1, TakesIs DEF LoopEditAt, Decided
<1>3. e.of \in Nat /\ e.of \in 0..MaxUiEdits
  BY <1>2, TakesIs, ScreensAssumption DEF LoopMsgOk
<1>4. PICK m : m = Msg("edited", 0, e.of)
  OBVIOUS
<1>5. UiMsgOk(m) /\ m.k = "edited" /\ m.of = e.of
  BY <1>3, <1>4 DEF Msg, UiMsgOk, UiMsg
<1>6. Held' = {} /\ previews' \subseteq 1..MaxUiEdits /\ kept' \subseteq 1..MaxUiEdits
  <2>1. e.of \in 1..MaxUiEdits
    BY <1>2, BackendIs DEF Held
  <2> QED BY <1>1, <1>2, <2>1, BackendIs DEF Held
<1>7. UiEdit(m) /\ UiEditAt(ui, m, Held')
  BY <1>2, <1>5, <1>6 DEF UiEdit, UiEditAt, Decided
<1>8. Tells(<<m>>)
  BY <1>1, <1>4
<1> QED BY <1>1, <1>5, <1>6, <1>7, <1>8, EditToldKeeps

\* The connection flow's messages change nothing else.
LEMMA TakeFlowKeeps ==
    ASSUME ScreensInv, NEW e, Takes(e), e.k \in {"connect", "resolved"},
           TakeConnect \/ TakeResolved(e.of)
    PROVE  ScreensInv'
<1>1. /\ ui' = ui /\ spent' = spent /\ toUi' = toUi /\ turn' = turn /\ inForce' = inForce
      /\ activating' = activating /\ previews' = previews /\ kept' = kept /\ uiFaults' = uiFaults
      /\ flow' \in {"none", "working", "asking"}
  BY BackendIs DEF Takes, TakeConnect, TakeResolved
<1>2. EditAt(ui, toLoop', toUi, Held)
  BY TakesIs DEF LoopEdit
<1>3. /\ toLoop' \in Seq(LoopMsg) /\ \A i \in 1..Len(toLoop') : LoopMsgOk(toLoop'[i])
      /\ PromptIn(toLoop) => PromptIn(toLoop')
  BY TakesIs
<1>4. ModelTold'
  BY <1>1, SilentNone
<1>5. TurnTold'
  <2>1. TurnToldOf(uiFaults, turn, ui, toUi, activating, toLoop)
    BY BackendIs
  <2> QED BY <1>1, <1>3, <2>1 DEF TurnTold, TurnToldOf
<1>6. EditTold'
  BY <1>1, <1>2 DEF EditTold, Held
<1>7. ScreensShape'
  BY <1>1, <1>3, ScreensAre, BackendIs, BackendShape
<1> QED BY <1>4, <1>5, <1>6, <1>7 DEF ScreensInv

\* Whatever the loop takes keeps the invariant.
LEMMA LoopTakesKeeps == ASSUME ScreensInv, UiLoopTakes PROVE ScreensInv'
<1>1. PICK e : e = Head(toLoop)
  OBVIOUS
<1>2. Takes(e)
  BY <1>1 DEF UiLoopTakes, Takes
<1>3. \/ e.k = "prompt" /\ TakeUiPrompt
      \/ e.k = "cancel" /\ TakeUiCancel
      \/ e.k = "select" /\ TakeSelect(e)
      \/ e.k = "prepare" /\ TakePrepare(e.of)
      \/ e.k = "decide" /\ TakeDecision(e.of)
      \/ e.k = "connect" /\ TakeConnect
      \/ e.k = "resolved" /\ TakeResolved(e.of)
  BY <1>1 DEF UiLoopTakes
<1> QED BY <1>2, <1>3, TakePromptKeeps, TakeCancelKeeps, TakeSelectKeeps,
   TakePrepareKeeps,
           TakeDecisionKeeps, TakeFlowKeeps

-----------------------------------------------------------------------------
\* The backend's own steps.  An activation ends: the model in force and the model
\* told change together, and no turn runs meanwhile.
LEMMA ActivationEndsKeeps == ASSUME ScreensInv, ActivationEnds PROVE ScreensInv'
<1>1. /\ ui' = ui /\ spent' = spent /\ toLoop' = toLoop /\ turn' = turn /\ previews' = previews /\ kept' = kept
      /\ flow' = flow /\ uiFaults' = uiFaults /\ activating' = NoMsg /\ activating # NoMsg
  BY DEF ActivationEnds
<1>2. PICK v : v = activating.v
  OBVIOUS
<1>3. PICK of : of = activating.of
  OBVIOUS
<1>4. v \in Models /\ v \in Nat /\ of \in Nat
  BY <1>1, <1>2, <1>3, BackendIs, ScreensAssumption DEF LoopMsg
<1>5. /\ TurnToldOf(uiFaults, turn, ui, toUi, activating, toLoop)
      /\ EditAt(ui, toLoop, toUi, Held)
  BY BackendIs
<1>6. uiFaults = 0 => turn = "none"
  BY <1>1, <1>5, BackendIs DEF TurnToldOf
<1>7. CASE /\ inForce' = activating.v
           /\ Tells(<<Msg("activated", activating.v, activating.of),
                      Msg("state", activating.v, 0)>>)
  <2>1. PICK d : d = Msg("activated", v, of)
    OBVIOUS
  <2>2. PICK e : e = Msg("state", v, 0)
    OBVIOUS
  <2>3. UiMsgOk(d) /\ d.k = "activated" /\ d.v = v
    BY <1>4, <2>1, UiMsgIs
  <2>4. UiMsgOk(e) /\ e.k = "state" /\ e.v = v
    BY <1>4, <2>2, UiMsgIs
  <2>5. Tells(<<d, e>>) /\ inForce' = v
    BY <1>2, <1>3, <1>7, <2>1, <2>2
  <2>6. PICK s : s = Append(toUi, d)
    OBVIOUS
  <2>7. /\ toUi' = Append(s, e) /\ d \in UiMsg /\ e \in UiMsg /\ s \in Seq(UiMsg)
        /\ toUi' \in Seq(UiMsg) /\ \A i \in 1..Len(toUi') : UiMsgOk(toUi'[i])
    BY <2>3, <2>4, <2>5, <2>6, TellsTwo
  <2>8. /\ ~UiEdit(d) /\ ~UiEdit(e) /\ Off(e) /\ Mod(e)
    BY <2>3, <2>4 DEF Mod, UiEdit, Off
  <2>9. FinalModel(ui, toUi', v)
    BY <2>4, <2>7, <2>8, ModelJoined
  <2>10. EditAt(ui, toLoop, s, Held)
    BY <1>5, <2>6, <2>7, <2>8, ScreensAre, EditUiJoined
  <2>11. EditAt(ui, toLoop, toUi', Held)
    BY <2>7, <2>8, <2>10, EditUiJoined
  <2>12. ~FinalBusy(ui, toUi')
    BY <2>7, <2>8, BusyJoined
  <2>13. TurnTold'
    BY <1>1, <1>6, <2>12 DEF TurnTold
  <2>14. ModelTold'
    BY <1>1, <2>5, <2>9, BackendIs DEF ModelTold
  <2>15. EditTold'
    BY <1>1, <2>11 DEF EditTold, Held
  <2>16. ScreensShape'
    BY <1>1, <1>4, <2>5, <2>7, ScreensAre, BackendIs, BackendShape
  <2> QED BY <2>13, <2>14, <2>15, <2>16 DEF ScreensInv
<1>8. CASE Tells(<<Msg("refused", 0, activating.of)>>) /\ UNCHANGED inForce
  <2>1. PICK m : m = Msg("refused", 0, of)
    OBVIOUS
  <2>2. UiMsgOk(m) /\ m.k = "refused"
    BY <1>4, <2>1 DEF Msg, UiMsgOk, UiMsg
  <2>3. Tells(<<m>>)
    BY <1>3, <1>8, <2>1
  <2>4. /\ toUi' = Append(toUi, m) /\ m \in UiMsg /\ toUi' \in Seq(UiMsg)
        /\ \A i \in 1..Len(toUi') : UiMsgOk(toUi'[i])
    BY <2>2, <2>3, TellsOne
  <2>5. Silent(m) /\ ~On(m) /\ ~Off(m)
    BY <2>2 DEF Silent, Mod, UiEdit, Off, On
  <2>6. ModelTold' /\ EditAt(ui, toLoop, toUi', Held)
    BY <1>1, <1>5, <1>8, <2>4, <2>5, SilentOne
  <2>7. FinalBusy(ui, toUi') <=> FinalBusy(ui, toUi)
    BY <2>4, <2>5, ScreensAre, BusyJoined
  <2>8. TurnTold'
    BY <1>1, <1>5, <1>6, <2>7 DEF TurnTold, TurnToldOf
  <2>9. EditTold'
    BY <1>1, <2>6 DEF EditTold, Held
  <2>10. ScreensShape'
    BY <1>1, <1>8, <2>4, ScreensAre, BackendIs, BackendShape
  <2> QED BY <2>6, <2>8, <2>9, <2>10 DEF ScreensInv
<1> QED BY <1>7, <1>8 DEF ActivationEnds

\* The connection flow shows a dialog, is done, or takes the provider away.
LEMMA FlowGoesOnKeeps == ASSUME ScreensInv, FlowGoesOn PROVE ScreensInv'
<1>1. /\ ui' = ui /\ toLoop' = toLoop /\ turn' = turn /\ previews' = previews /\ kept' = kept
      /\ uiFaults' = uiFaults /\ activating' = activating
  BY DEF FlowGoesOn
<1>2. /\ TurnToldOf(uiFaults, turn, ui, toUi, activating, toLoop)
      /\ EditAt(ui, toLoop, toUi, Held)
  BY BackendIs
<1>3. CASE /\ Spend("dialogs", MaxUiDialogs) /\ flow' = "asking"
           /\ Tells(<<Msg("dialog", 0, spent.dialogs + 1)>>) /\ UNCHANGED inForce
  <2>1. PICK m : m = Msg("dialog", 0, spent.dialogs + 1)
    OBVIOUS
  <2>2. spent.dialogs + 1 \in 0..MaxUiDialogs /\ spent.dialogs + 1 \in Nat
    BY <1>3, ScreensAre DEF Spend
  <2>3. UiMsgOk(m) /\ m.k = "dialog"
    BY <2>1, <2>2, Zeros DEF Msg, UiMsgOk, UiMsg
  <2>4. Tells(<<m>>)
    BY <1>3, <2>1
  <2>5. /\ toUi' = Append(toUi, m) /\ m \in UiMsg /\ toUi' \in Seq(UiMsg)
        /\ \A i \in 1..Len(toUi') : UiMsgOk(toUi'[i])
    BY <2>3, <2>4, TellsOne
  <2>6. Silent(m) /\ ~On(m) /\ ~Off(m)
    BY <2>3 DEF Silent, Mod, UiEdit, Off, On
  <2>7. ModelTold' /\ EditAt(ui, toLoop, toUi', Held)
    BY <1>1, <1>2, <1>3, <2>5, <2>6, SilentOne
  <2>8. FinalBusy(ui, toUi') <=> FinalBusy(ui, toUi)
    BY <2>5, <2>6, ScreensAre, BusyJoined
  <2>9. TurnTold'
    BY <1>1, <1>2, <2>8 DEF TurnTold, TurnToldOf
  <2>10. EditTold'
    BY <1>1, <2>7 DEF EditTold, Held
  <2>11. spent' \in [prompts : 0..MaxUiPrompts, edits : 0..MaxUiEdits,
                     selects : 0..MaxUiSelects, dialogs : 0..MaxUiDialogs]
    BY <1>3, SpendIs
  <2>12. ScreensShape'
    BY <1>1, <1>3, <2>5, <2>11, ScreensAre, BackendIs, BackendShape
  <2> QED BY <2>7, <2>9, <2>10, <2>12 DEF ScreensInv
<1>4. CASE flow' = "none" /\ UNCHANGED <<toUi, spent, inForce>>
  <2>1. ModelTold'
    BY <1>1, <1>4, SilentNone
  <2>2. TurnTold'
    BY <1>1, <1>2, <1>4 DEF TurnTold, TurnToldOf
  <2>3. EditTold'
    BY <1>1, <1>2, <1>4 DEF EditTold, Held
  <2>4. ScreensShape'
    BY <1>1, <1>4, ScreensAre, BackendIs, BackendShape
  <2> QED BY <2>1, <2>2, <2>3, <2>4 DEF ScreensInv
<1>5. CASE /\ inForce' = 0 /\ Tells(<<Msg("required", 0, 0)>>) /\ UNCHANGED <<flow, spent>>
  <2>1. PICK m : m = Msg("required", 0, 0)
    OBVIOUS
  <2>2. UiMsgOk(m) /\ m.k = "required"
    BY <2>1 DEF Msg, UiMsgOk, UiMsg
  <2>3. Tells(<<m>>)
    BY <1>5, <2>1
  <2>4. /\ toUi' = Append(toUi, m) /\ m \in UiMsg /\ toUi' \in Seq(UiMsg)
        /\ \A i \in 1..Len(toUi') : UiMsgOk(toUi'[i])
    BY <2>2, <2>3, TellsOne
  <2>5. ~UiEdit(m) /\ ~On(m) /\ ~Off(m)
    BY <2>2 DEF UiEdit, Off, On
  <2>6. ModelTold'
    BY <1>1, <1>5, BackendIs DEF ModelTold, FinalModel
  <2>7. EditAt(ui, toLoop, toUi', Held)
    BY <1>2, <2>4, <2>5, ScreensAre, EditUiJoined
  <2>8. FinalBusy(ui, toUi') <=> FinalBusy(ui, toUi)
    BY <2>4, <2>5, ScreensAre, BusyJoined
  <2>9. TurnTold'
    BY <1>1, <1>2, <2>8 DEF TurnTold, TurnToldOf
  <2>10. EditTold'
    BY <1>1, <2>7 DEF EditTold, Held
  <2>11. ScreensShape'
    BY <1>1, <1>5, <2>4, ScreensAre, BackendIs, BackendShape
  <2> QED BY <2>6, <2>9, <2>10, <2>11 DEF ScreensInv
<1> QED BY <1>3, <1>4, <1>5 DEF FlowGoesOn

\* A turn streams, ends, or its task returns.
LEMMA TurnGoesOnKeeps == ASSUME ScreensInv, TurnGoesOn PROVE ScreensInv'
<1>1. /\ ui' = ui /\ toLoop' = toLoop /\ flow' = flow /\ previews' = previews /\ kept' = kept
      /\ inForce' = inForce /\ spent' = spent /\ activating' = activating
  BY DEF TurnGoesOn
<1>2. /\ TurnToldOf(uiFaults, turn, ui, toUi, activating, toLoop)
      /\ EditAt(ui, toLoop, toUi, Held)
  BY BackendIs
<1>3. CASE /\ turn = "running" /\ toUi = <<>> /\ Tells(<<Msg("delta", 0, 0)>>)
           /\ UNCHANGED <<turn, uiFaults>>
  <2>1. PICK m : m = Msg("delta", 0, 0)
    OBVIOUS
  <2>2. UiMsgOk(m) /\ m.k = "delta" /\ Tells(<<m>>)
    BY <1>3, <2>1, PlainMsgs
  <2>3. /\ toUi' = Append(toUi, m) /\ m \in UiMsg /\ toUi' \in Seq(UiMsg)
        /\ \A i \in 1..Len(toUi') : UiMsgOk(toUi'[i])
    BY <2>2, TellsOne
  <2>4. Silent(m) /\ On(m) /\ ~Off(m)
    BY <2>2 DEF Silent, Mod, UiEdit, Off, On
  <2>5. ModelTold' /\ EditAt(ui, toLoop, toUi', Held)
    BY <1>1, <1>2, <2>3, <2>4, SilentOne
  <2>6. FinalBusy(ui, toUi')
    BY <2>3, <2>4, ScreensAre, BusyJoined
  <2>7. TurnTold'
    BY <1>1, <1>2, <1>3, <2>6 DEF TurnTold, TurnToldOf
  <2>8. EditTold'
    BY <1>1, <2>5 DEF EditTold, Held
  <2>9. ScreensShape'
    BY <1>1, <1>3, <2>3, ScreensAre, BackendIs, BackendShape
  <2> QED BY <2>5, <2>7, <2>8, <2>9 DEF ScreensInv
<1>4. CASE /\ turn = "running" /\ Tells(Ending)
           /\ \/ turn' = "none" /\ UNCHANGED uiFaults
              \/ turn' = "finishing" /\ UiFault
  <2>1. /\ ModelTold' /\ EditAt(ui, toLoop, toUi', Held) /\ ~FinalBusy(ui, toUi')
        /\ toUi' \in Seq(UiMsg) /\ \A i \in 1..Len(toUi') : UiMsgOk(toUi'[i])
    BY <1>1, <1>2, <1>4, EndingTold
  <2>2. /\ turn' \in {"none", "running", "finishing"} /\ uiFaults' \in 0..MaxUiFaults
        /\ uiFaults' = 0 => turn' = "none"
    BY <1>4, BackendIs, ScreensAssumption DEF UiFault
  <2>3. TurnTold'
    BY <1>1, <2>1, <2>2 DEF TurnTold
  <2>4. EditTold'
    BY <1>1, <2>1 DEF EditTold, Held
  <2>5. ScreensShape'
    BY <1>1, <2>1, <2>2, ScreensAre, BackendIs, BackendShape
  <2> QED BY <2>1, <2>3, <2>4, <2>5 DEF ScreensInv
<1>5. CASE turn = "finishing" /\ turn' = "none" /\ UNCHANGED <<toUi, uiFaults>>
  <2>1. ModelTold'
    BY <1>1, <1>5, SilentNone
  <2>2. TurnTold'
    BY <1>2, <1>5 DEF TurnTold, TurnToldOf
  <2>3. EditTold'
    BY <1>1, <1>2, <1>5 DEF EditTold, Held
  <2>4. ScreensShape'
    BY <1>1, <1>5, ScreensAre, BackendIs, BackendShape
  <2> QED BY <2>1, <2>2, <2>3, <2>4 DEF ScreensInv
<1> QED BY <1>3, <1>4, <1>5 DEF TurnGoesOn

-----------------------------------------------------------------------------
\* The invariant holds initially and through every step.
LEMMA ScreensInvInit == TuiInit => ScreensInv
<1> SUFFICES ASSUME TuiInit PROVE ScreensInv
  OBVIOUS
<1>1. /\ inForce \in Models /\ ui = UiInit(inForce) /\ toLoop = <<>> /\ toUi = <<>>
      /\ turn = "none" /\ activating = NoMsg /\ previews = {} /\ kept = {} /\ flow = "none" /\ uiFaults = 0
      /\ spent = [prompts |-> 0, edits |-> 0, selects |-> 0, dialogs |-> 0]
  BY DEF TuiInit
<1>2. Len(toLoop) = 0 /\ Len(toUi) = 0 /\ 1..0 = {}
  BY <1>1
<1>3. /\ ui.mode = "normal" /\ ui.request = 0 /\ ui.preview = 0 /\ ~ui.submitted
      /\ ui.stream = "idle" /\ ui.model = inForce /\ ui.pending = 0
  BY <1>1 DEF UiInit
<1>4. ui \in App
  BY <1>1, Zeros DEF UiInit, App, Screens
<1>5. ScreensShape
  <2>1. toUi \in Seq(UiMsg) /\ toLoop \in Seq(LoopMsg)
    BY <1>1
  <2>2. spent \in [prompts : 0..MaxUiPrompts, edits : 0..MaxUiEdits,
                   selects : 0..MaxUiSelects, dialogs : 0..MaxUiDialogs]
    BY <1>1, ScreensAssumption
  <2>3. uiFaults \in 0..MaxUiFaults
    BY <1>1, ScreensAssumption
  <2> QED BY <1>1, <1>2, <1>4, <2>1, <2>2, <2>3 DEF ScreensShape
<1>6. ~FinalBusy(ui, toUi)
  BY <1>2, <1>3 DEF FinalBusy, Busy
<1>7. TurnTold
  BY <1>1, <1>6 DEF TurnTold
<1>8. ModelTold
  BY <1>2, <1>3 DEF ModelTold, FinalModel, Eff
<1>9. EditTold
  <2>1. NoLoopEdit(toLoop) /\ NoUiEdit(toUi)
    BY <1>2 DEF NoLoopEdit, NoUiEdit
  <2>2. EditAtRest(ui, Held) /\ ScreenAt(ui)
    BY <1>1, <1>3 DEF EditAtRest, ScreenAt, Held
  <2> QED BY <2>1, <2>2, EditRests DEF EditTold, Held
<1> QED BY <1>5, <1>7, <1>8, <1>9 DEF ScreensInv

\* Every step keeps the invariant.
LEMMA ScreensInvNext == ScreensInv /\ [TuiNext]_tuiVars => ScreensInv'
<1> SUFFICES ASSUME ScreensInv, [TuiNext]_tuiVars PROVE ScreensInv'
  OBVIOUS
<1>1. CASE SubmitInput
  BY <1>1, SubmitKeeps
<1>2. CASE CancelStreaming
  BY <1>2, CancelKeeps
<1>3. CASE OpenSelector
  BY <1>3, OpenSelectorKeeps
<1>4. CASE CloseSelector
  BY <1>4, CloseSelectorKeeps
<1>5. CASE RequestConnections
  BY <1>5, RequestConnectionsKeeps
<1>6. CASE AnswerDialog
  BY <1>6, AnswerDialogKeeps
<1>7. CASE Compose
  BY <1>7, ComposeKeeps
<1>8. CASE LeaveComposer
  BY <1>8, LeaveComposerKeeps
<1>9. CASE Decide
  BY <1>9, DecideKeeps
<1>10. CASE UiReceives
  BY <1>10, UiReceivesKeeps
<1>11. CASE UiLoopTakes
  BY <1>11, LoopTakesKeeps
<1>12. CASE ActivationEnds
  BY <1>12, ActivationEndsKeeps
<1>13. CASE FlowGoesOn
  BY <1>13, FlowGoesOnKeeps
<1>14. CASE TurnGoesOn
  BY <1>14, TurnGoesOnKeeps
<1>15. CASE UNCHANGED tuiVars
  <2>1. /\ ui' = ui /\ toLoop' = toLoop /\ toUi' = toUi /\ turn' = turn /\ inForce' = inForce
        /\ activating' = activating /\ previews' = previews /\ kept' = kept /\ flow' = flow
        /\ spent' = spent /\ uiFaults' = uiFaults
    BY <1>15 DEF tuiVars
  <2>2. ScreensShape'
    BY <2>1 DEF ScreensInv, ScreensShape
  <2>3. TurnTold'
    BY <2>1 DEF ScreensInv, TurnTold
  <2>4. ModelTold' /\ EditTold'
    BY <2>1 DEF ScreensInv, ModelTold, EditTold, Held
  <2> QED BY <2>2, <2>3, <2>4 DEF ScreensInv
<1> QED BY <1>1, <1>2, <1>3, <1>4, <1>5, <1>6, <1>7, <1>8, <1>9, <1>10, <1>11, <1>12,
           <1>13, <1>14, <1>15 DEF TuiNext

\* The inductive invariant of the TUI and its backend.
THEOREM ScreensInvariant == TuiSpec => []ScreensInv
  BY ScreensInvInit, ScreensInvNext, PTL DEF TuiSpec

\* The invariant gives the types.
LEMMA InvGivesTypes == ScreensInv => ScreensTypeOK
<1> SUFFICES ASSUME ScreensInv PROVE ScreensTypeOK
  OBVIOUS
<1>1. ui \in App
  BY ScreensAre
<1>2. /\ turn \in {"none", "running", "finishing"} /\ inForce \in Models \cup {0}
      /\ activating = NoMsg \/ (activating \in LoopMsg /\ activating.v \in Models)
      /\ previews \subseteq 1..MaxUiEdits /\ kept \subseteq 1..MaxUiEdits
      /\ flow \in {"none", "working", "asking"} /\ uiFaults \in 0..MaxUiFaults
  BY DEF ScreensInv, ScreensShape
<1>3. activating = NoMsg \/ activating.v \in Models
  BY <1>2
<1> QED BY <1>1, <1>2, <1>3 DEF ScreensTypeOK, App

\* The backend holds no preview or one.
LEMMA OnePreview ==
    ASSUME NEW u, NEW l, NEW s, NEW P, EditAt(u, l, s, P)
    PROVE  P = {} \/ \E p : P = {p}
<1>1. CASE \E i \in 1..Len(l) : LoopEdit(l[i])
  BY <1>1 DEF EditAt, LoopEditAt, LoopEdit, Asked, Decided
<1>2. CASE \E i \in 1..Len(s) : UiEdit(s[i])
  BY <1>2 DEF EditAt, UiEditAt, UiEdit, Asked, Decided
<1>3. CASE NoLoopEdit(l) /\ NoUiEdit(s)
  BY <1>3 DEF EditAt, EditAtRest
<1> QED BY <1>1, <1>2, <1>3 DEF NoLoopEdit, NoUiEdit

\* The invariant gives EditsOneByOne.
LEMMA InvGivesEdits == ScreensInv => EditsOneByOne
<1> SUFFICES ASSUME ScreensInv PROVE EditsOneByOne
  OBVIOUS
<1>1. EditAt(ui, toLoop, toUi, Held) /\ toLoop \in Seq(LoopMsg)
  BY BackendIs, ScreensAre
<1>2. Cardinality(Held) <= 1
  <2>1. CASE Held = {}
    <3>1. Cardinality(Held) = 0
      BY <2>1, FS_EmptySet
    <3> QED BY <3>1
  <2>2. CASE \E p : Held = {p}
    <3>1. PICK p : Held = {p}
      BY <2>2
    <3>2. Cardinality(Held) = 1
      BY <3>1, FS_Singleton
    <3> QED BY <3>2
  <2>3. Held = {} \/ \E p : Held = {p}
    <3>1. EditAt(ui, toLoop, toUi, Held)
      BY <1>1
    <3> QED BY ONLY <3>1, OnePreview
  <2> QED BY <2>1, <2>2, <2>3
<1>3. DOMAIN toLoop = 1..Len(toLoop)
  BY <1>1
<1>4. ASSUME NEW i \in DOMAIN toLoop, toLoop[i].k = "decide"
      PROVE  /\ toLoop[i].of \in Held
             /\ \A j \in DOMAIN toLoop : toLoop[j] = toLoop[i] => i = j
  <2>1. Held = {toLoop[i].of}
    BY <1>1, <1>3, <1>4 DEF EditAt, LoopEditAt, Decided
  <2>2. \A j \in 1..Len(toLoop) : toLoop[j] = toLoop[i] => i = j
    BY <1>1, <1>3, <1>4 DEF EditAt, OneEditMsg, LoopEdit
  <2> QED BY <1>3, <2>1, <2>2
<1>5. ui.mode = "review" => ui.showing = ui.preview
  BY <1>1 DEF EditAt, ScreenAt
<1> QED BY <1>2, <1>4, <1>5 DEF EditsOneByOne

\* The App and the backend keep their types.
THEOREM ScreensTyped == TuiSpec => []ScreensTypeOK
  BY ScreensInvariant, InvGivesTypes, PTL

\* Local edits go one by one, whatever dialogs and late answers do to the screen: the
\* backend holds at most one preview, but for those a failed decision left, a decision under way is the only one for a preview
\* it holds, and the review shown is of the preview that waits.
THEOREM EditsGoOneByOne == TuiSpec => []EditsOneByOne
  BY ScreensInvariant, InvGivesEdits, PTL

\* The invariant gives UiSettles.
LEMMA InvGivesSettled == ScreensInv => UiSettles
<1> SUFFICES ASSUME ScreensInv, Quiet PROVE UiSettles
  BY DEF UiSettles, TurnIsShown, ShownIsInForce
<1>1. toLoop = <<>> /\ toUi = <<>>
  BY DEF Quiet
<1>2. Len(toLoop) = 0 /\ Len(toUi) = 0 /\ 1..0 = {}
  BY <1>1
<1>3. FinalBusy(ui, toUi) <=> Busy(ui)
  BY <1>2 DEF FinalBusy
<1>4. ~PromptIn(toLoop)
  BY <1>2 DEF PromptIn
<1>5. TurnIsShown
  <2>1. turn \in {"none", "running", "finishing"}
    BY BackendIs
  <2> QED BY <1>3, <1>4, <2>1 DEF TurnIsShown, ScreensInv, TurnTold
<1>6. ShownIsInForce
  <2>1. FinalModel(ui, toUi, inForce)
    BY BackendIs
  <2>2. inForce # 0 => Eff(ui) = inForce
    BY <1>2, <2>1 DEF FinalModel
  <2> QED BY <2>2 DEF ShownIsInForce, Eff
<1> QED BY <1>5, <1>6 DEF UiSettles

\* Once every message has arrived the screen agrees with the backend: it awaits a
\* response exactly while a turn runs (unless an append failed, a task was late or a
\* prompt was answered for want of a provider while a turn ran), and the model it shows,
\* or has deferred, is the one in force, if one is.
THEOREM ScreenSettles == TuiSpec => []UiSettles
  BY ScreensInvariant, InvGivesSettled, PTL
=============================================================================
