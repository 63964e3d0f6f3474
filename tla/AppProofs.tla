------------------------------ MODULE AppProofs -----------------------------
(***************************************************************************)
(* Crash recovery, proved for every number of crashes, failed writes,      *)
(* restarts and resets.  First the journal as a piece of data: its row     *)
(* format loses nothing, a log that is longer by an event replays to a     *)
(* world that is one Apply further, and a command whose entries are        *)
(* written above all the rows there are is a command carried out on the    *)
(* world they stand for.  Then the server: what it answers from is what    *)
(* its journal stands for, no number on a row is given again, and the      *)
(* journal changes by whole commands and at its end only.  The invariant   *)
(* AppInv relates the memory of the process, the command it has in         *)
(* progress and the journal; it has one lemma for each action.             *)
(***************************************************************************)
EXTENDS MCApp, EngineProofs

-----------------------------------------------------------------------------
(***************************************************************************)
(* The parts of an event.                                                  *)
(***************************************************************************)
LEMMA SidesReadBack ==
  ASSUME NEW side \in Sides
  PROVE  DomainSide[WireSide[side]] = side
  BY DEF Sides, DomainSide, WireSide

LEMMA ReasonsReadBack ==
  ASSUME NEW why \in Reasons
  PROVE  DomainReject[WireReject[why]] = why
  BY DEF Reasons, DomainReject, WireReject

LEMMA TermsReadBack ==
  ASSUME NEW i \in Ids, NEW t \in Terms
  PROVE  /\ WireOrder(i, t).id = i
         /\ OrderReads(WireOrder(i, t))
         /\ DomainTerms(WireOrder(i, t)) = t
  <1>1. OrderReads(WireOrder(i, t))
    BY DEF WireOrder, Terms, OrderReads, IsQty, IsPx, Pxs
  <1>2. DomainSide[WireSide[t.side]] = t.side
    BY SidesReadBack DEF Terms
  <1>3. DomainTerms(WireOrder(i, t)) = t
    BY <1>2 DEF WireOrder, DomainTerms, Terms
  <1> QED BY <1>1, <1>3 DEF WireOrder

(* Each participant has one row of its own, so the rows of a day are the   *)
(* entries it was closed with.                                             *)
LEMMA EntriesReadBack ==
  ASSUME NEW given \in [Participants -> DayInput \cup {None}]
  PROVE  DomainEntries({WireDayInput(p, given[p]) :
                          p \in {p \in Participants : given[p] # None}}) = given
  <1> DEFINE rows == {WireDayInput(p, given[p]) :
                        p \in {p \in Participants : given[p] # None}}
  <1>1. ASSUME NEW p \in Participants
        PROVE  DomainEntries(rows)[p] = given[p]
    <2>1. CASE given[p] = None
      <3>1. ~ \E row \in rows : row.participant = p
        BY <2>1 DEF WireDayInput
      <3> QED BY <2>1, <3>1 DEF DomainEntries
    <2>2. CASE given[p] # None
      <3> DEFINE row == CHOOSE row \in rows : row.participant = p
      <3>1. WireDayInput(p, given[p]) \in rows /\ WireDayInput(p, given[p]).participant = p
        BY <2>2 DEF WireDayInput
      <3>2. row \in rows /\ row.participant = p
        BY <3>1
      <3>3. row = WireDayInput(p, given[p])
        BY <3>2 DEF WireDayInput
      <3>4. given[p] \in DayInput
        BY <2>2
      <3>5. DomainDayInput(WireDayInput(p, given[p])) = given[p]
        BY <3>4 DEF DomainDayInput, WireDayInput, DayInput
      <3>6. DomainEntries(rows)[p] = DomainDayInput(row)
        BY <3>1 DEF DomainEntries
      <3> QED BY <3>3, <3>5, <3>6
    <2> QED BY <2>1, <2>2
  <1>2. DomainEntries(rows) = [p \in Participants |-> DomainEntries(rows)[p]]
    BY DEF DomainEntries
  <1>3. given = [p \in Participants |-> given[p]]
    OBVIOUS
  <1> HIDE DEF rows
  <1>4. DomainEntries(rows) = given
    BY <1>1, <1>2, <1>3
  <1> QED BY <1>4 DEF rows

-----------------------------------------------------------------------------
Readable(e) == e.kind = "DayClosed" => e.day \notin UnreadableDays

(* Every event with the shape the engine gives its events is written to a  *)
(* row that the reader accepts and takes for the same event, so a journal  *)
(* replays to what was committed (wire.rs); a close of a day that parse    *)
(* does not take back is the one exception.                                *)
THEOREM EveryEventReadsBack ==
  ASSUME NEW e \in Event, Readable(e)
  PROVE  RoundTrips(e)
  <1>1. CASE e \in CreatedEvent
    <2>1. Encode(e) = [kind |-> "participant_created", participant |-> e.participant,
                       starting_cash |-> e.starting_cash]
      BY <1>1 DEF CreatedEvent, Encode
    <2> QED BY <1>1, <2>1 DEF CreatedEvent, RoundTrips, Reads, Decode, ParticipantCreated
  <1>2. CASE e \in SubmittedEvent
    <2>1. Encode(e) = [kind |-> "order_submitted", order |-> WireOrder(e.id, e.order)]
      BY <1>2 DEF SubmittedEvent, Encode
    <2>2. /\ WireOrder(e.id, e.order).id = e.id
          /\ OrderReads(WireOrder(e.id, e.order))
          /\ DomainTerms(WireOrder(e.id, e.order)) = e.order
      BY <1>2, TermsReadBack DEF SubmittedEvent
    <2> QED BY <1>2, <2>1, <2>2 DEF SubmittedEvent, RoundTrips, Reads, Decode, OrderSubmitted
  <1>3. CASE e \in AcknowledgedEvent
    <2>1. Encode(e) = [kind |-> "order_acknowledged", id |-> e.id,
                       broker_id |-> e.broker_id]
      BY <1>3 DEF AcknowledgedEvent, Encode
    <2> QED BY <1>3, <2>1 DEF AcknowledgedEvent, RoundTrips, Reads, Decode, OrderAcknowledged
  <1>4. CASE e \in RejectedEvent
    <2>1. DomainReject[WireReject[e.reason]] = e.reason
      BY <1>4, ReasonsReadBack DEF RejectedEvent
    <2> QED BY <1>4, <2>1 DEF RejectedEvent, RoundTrips, Encode, Reads, Decode, OrderRejected
  <1>5. CASE e \in CancelledEvent
    <2>1. Encode(e) = [kind |-> "order_cancelled", id |-> e.id]
      BY <1>5 DEF CancelledEvent, Encode
    <2> QED BY <1>5, <2>1 DEF CancelledEvent, RoundTrips, Reads, Decode, OrderCancelled
  <1>6. CASE e \in ReplacedEvent
    <2>1. Encode(e) = [kind |-> "order_replaced", original |-> e.original,
                       replacement |-> WireOrder(e.id, e.replacement)]
      BY <1>6 DEF ReplacedEvent, Encode
    <2>2. /\ WireOrder(e.id, e.replacement).id = e.id
          /\ OrderReads(WireOrder(e.id, e.replacement))
          /\ DomainTerms(WireOrder(e.id, e.replacement)) = e.replacement
      BY <1>6, TermsReadBack DEF ReplacedEvent
    <2> QED BY <1>6, <2>1, <2>2 DEF ReplacedEvent, RoundTrips, Reads, Decode, OrderReplaced
  <1>7. CASE e \in FilledEvent
    <2>1. Encode(e) = [kind |-> "order_filled", id |-> e.id, exec_id |-> e.exec_id,
                       qty |-> e.qty, px |-> e.px, fee |-> e.fee]
      BY <1>7 DEF FilledEvent, Encode, EncodeFill
    <2>2. IsQty(e.qty) /\ IsPx(e.px)
      BY <1>7 DEF FilledEvent, IsQty, IsPx, Pxs
    <2>3. e = OrderFilled(e.id, e.exec_id, e.qty, e.px, e.fee)
      BY <1>7 DEF FilledEvent, OrderFilled
    <2>4. Decode(Encode(e)) = OrderFilled(e.id, e.exec_id, e.qty, e.px, e.fee)
      BY <2>1 DEF Decode
    <2>5. Reads(Encode(e))
      BY <2>1, <2>2 DEF Reads
    <2> QED BY <2>3, <2>4, <2>5 DEF RoundTrips
  <1>8. CASE e \in MarkEvent
    <2>1. Encode(e) = [kind |-> "mark_updated", symbol |-> e.symbol, px |-> e.px]
      BY <1>8 DEF MarkEvent, Encode
    <2> QED BY <1>8, <2>1 DEF MarkEvent, RoundTrips, Reads, Decode, MarkUpdated, IsPx, Pxs
  <1>9. CASE e \in UpsertedEvent
    <2>1. Encode(e) = [kind |-> "instrument_upserted", symbol |-> e.symbol,
                       tick |-> e.spec.tick, lot |-> e.spec.lot,
                       max_order_qty |-> e.spec.max_order_qty]
      BY <1>9 DEF UpsertedEvent, Encode
    <2>2. /\ IsPx(e.spec.tick) /\ IsQty(e.spec.lot) /\ e.spec.lot # 0
          /\ e.spec.max_order_qty # None => IsQty(e.spec.max_order_qty)
      BY <1>9 DEF UpsertedEvent, InstrumentSpec, IsPx, IsQty, Pxs
    <2>3. [tick |-> e.spec.tick, lot |-> e.spec.lot,
           max_order_qty |-> e.spec.max_order_qty] = e.spec
      BY <1>9 DEF UpsertedEvent, InstrumentSpec
    <2> QED BY <1>9, <2>1, <2>2, <2>3
            DEF UpsertedEvent, RoundTrips, Reads, Decode, InstrumentUpserted
  <1>10. CASE e \in RemovedEvent
    <2>1. Encode(e) = [kind |-> "instrument_removed", symbol |-> e.symbol]
      BY <1>10 DEF RemovedEvent, Encode
    <2> QED BY <1>10, <2>1 DEF RemovedEvent, RoundTrips, Reads, Decode, InstrumentRemoved
  <1>11. CASE e \in ClosedEvent
    <2> DEFINE rows == {WireDayInput(p, e.entries[p]) :
                          p \in {p \in Participants : e.entries[p] # None}}
    <2>1. Encode(e) = [kind |-> "day_closed", day |-> e.day, entries |-> rows]
      BY <1>11 DEF ClosedEvent, Encode
    <2>2. DomainEntries(rows) = e.entries
      BY <1>11, EntriesReadBack DEF ClosedEvent
    <2>3. e.day \notin UnreadableDays
      BY <1>11 DEF ClosedEvent, Readable
    <2> HIDE DEF rows
    <2> QED BY <1>11, <2>1, <2>2, <2>3 DEF ClosedEvent, RoundTrips, Reads, Decode, DayClosed
  <1> QED BY <1>1, <1>2, <1>3, <1>4, <1>5, <1>6, <1>7, <1>8, <1>9, <1>10, <1>11 DEF Event

-----------------------------------------------------------------------------
(***************************************************************************)
(* The rows of the journal in the order of their sequence numbers.  Rows   *)
(* added above all the others come after all the others.                   *)
(***************************************************************************)
(* The rows up to each sequence number.                                    *)
RowAt(j, n) == [seq |-> n, row |-> j[n]]
NextRows(rows, j, n) == IF n \in DOMAIN j THEN Append(rows, RowAt(j, n)) ELSE rows

Gathers(rs, j, n) ==
  /\ rs = [k \in 0..n |-> rs[k]]
  /\ rs[0] = <<>>
  /\ \A k \in 1..n : rs[k] = NextRows(rs[k - 1], j, k)

LEMMA RowsExist ==
  ASSUME NEW n \in Nat, NEW j
  PROVE  \E rs : Gathers(rs, j, n)
  <1> DEFINE Good == {m \in Nat : \E rs : Gathers(rs, j, m)}
  <1>1. 0 \in Good
    <2>1. Gathers([k \in 0..0 |-> <<>>], j, 0)
      BY DEF Gathers
    <2> QED BY <2>1
  <1>2. ASSUME NEW m \in 1..n, m - 1 \in Good
        PROVE  m \in Good
    <2>1. PICK rs : Gathers(rs, j, m - 1)
      BY <1>2
    <2> DEFINE vs == [k \in 0..m |-> IF k = m THEN NextRows(rs[m - 1], j, m) ELSE rs[k]]
    <2>2. vs = [k \in 0..m |-> vs[k]] /\ vs[0] = <<>>
      BY <2>1 DEF Gathers
    <2>3. ASSUME NEW k \in 1..m PROVE vs[k] = NextRows(vs[k - 1], j, k)
      <3>1. k - 1 \in 0..m /\ k - 1 # m /\ k \in 0..m
        OBVIOUS
      <3>2. CASE k = m
        BY <3>1, <3>2
      <3>3. CASE k # m
        <4>1. k \in 1..(m - 1)
          BY <3>3
        <4> QED BY <2>1, <3>1, <3>3, <4>1 DEF Gathers
      <3> QED BY <3>2, <3>3
    <2> HIDE DEF vs
    <2>4. Gathers(vs, j, m)
      BY <2>2, <2>3 DEF Gathers
    <2> QED BY <2>4
  <1> HIDE DEF Good
  <1>3. \A k \in 0..n : k \in Good
    BY <1>1, <1>2, UpTo
  <1> QED BY <1>3 DEF Good

LEMMA EntriesList ==
  ASSUME NEW j
  PROVE  \E rs : Gathers(rs, j, MaxSeq) /\ Entries(j) = rs[MaxSeq]
  <1> DEFINE upto == CHOOSE f : f = [n \in 0..MaxSeq |->
                        IF n = 0 THEN <<>>
                        ELSE IF n \in DOMAIN j THEN Append(f[n - 1], [seq |-> n, row |-> j[n]])
                        ELSE f[n - 1]]
  <1>0. MaxSeq \in Nat
    BY BoundsAssumption
  <1>1. PICK rs : Gathers(rs, j, MaxSeq)
    BY <1>0, RowsExist
  <1>2. rs = [n \in 0..MaxSeq |->
                        IF n = 0 THEN <<>>
                        ELSE IF n \in DOMAIN j THEN Append(rs[n - 1], [seq |-> n, row |-> j[n]])
                        ELSE rs[n - 1]]
    <2>1. \A n \in 0..MaxSeq : rs[n] = IF n = 0 THEN <<>>
                        ELSE IF n \in DOMAIN j THEN Append(rs[n - 1], [seq |-> n, row |-> j[n]])
                        ELSE rs[n - 1]
      <3>1. \A n \in 1..MaxSeq : rs[n] = IF n \in DOMAIN j
                                        THEN Append(rs[n - 1], [seq |-> n, row |-> j[n]])
                                        ELSE rs[n - 1]
        BY <1>1, Zenon DEF Gathers, NextRows, RowAt
      <3>2. rs[0] = <<>>
        BY <1>1 DEF Gathers
      <3>3. \A n \in 0..MaxSeq : n = 0 \/ n \in 1..MaxSeq
        BY <1>0
      <3> QED BY <3>1, <3>2, <3>3
    <2> QED BY <1>1, <2>1 DEF Gathers
  <1>3. upto = [n \in 0..MaxSeq |->
                        IF n = 0 THEN <<>>
                        ELSE IF n \in DOMAIN j THEN Append(upto[n - 1], [seq |-> n, row |-> j[n]])
                        ELSE upto[n - 1]]
    BY <1>2
  <1>4. Entries(j) = upto[MaxSeq]
    BY DEF Entries
  <1> HIDE DEF upto
  <1>5. Gathers(upto, j, MaxSeq)
    <2>1. \A n \in 0..MaxSeq : upto[n] = IF n = 0 THEN <<>>
                        ELSE IF n \in DOMAIN j THEN Append(upto[n - 1], [seq |-> n, row |-> j[n]])
                        ELSE upto[n - 1]
      BY <1>3
    <2>2. upto = [n \in 0..MaxSeq |-> upto[n]]
      BY <1>3
    <2> QED BY <1>0, <2>1, <2>2 DEF Gathers, NextRows, RowAt
  <1> QED BY <1>4, <1>5

RowsOf(j) == {RowAt(j, n) : n \in DOMAIN j}

LEMMA EntriesTyped ==
  ASSUME NEW j
  PROVE  Entries(j) \in Seq(RowsOf(j))
  <1>1. PICK rs : Gathers(rs, j, MaxSeq) /\ Entries(j) = rs[MaxSeq]
    BY EntriesList
  <1> DEFINE Good == {n \in Nat : rs[n] \in Seq(RowsOf(j))}
  <1>2. 0 \in Good
    <2>1. rs[0] = <<>>
      BY <1>1 DEF Gathers
    <2>2. <<>> \in Seq(RowsOf(j))
      OBVIOUS
    <2> QED BY <2>1, <2>2
  <1>3. ASSUME NEW n \in 1..MaxSeq, n - 1 \in Good
        PROVE  n \in Good
    <2>1. rs[n] = NextRows(rs[n - 1], j, n) /\ rs[n - 1] \in Seq(RowsOf(j))
      BY <1>1, <1>3 DEF Gathers
    <2>2. n \in DOMAIN j => RowAt(j, n) \in RowsOf(j)
      BY DEF RowsOf
    <2>3. rs[n] \in Seq(RowsOf(j))
      BY <2>1, <2>2 DEF NextRows
    <2> QED BY <2>3
  <1> HIDE DEF Good
  <1>4. \A n \in 0..MaxSeq : n \in Good
    BY <1>2, <1>3, BoundsAssumption, UpTo
  <1>5. MaxSeq \in Good
    BY <1>4, BoundsAssumption
  <1> QED BY <1>1, <1>5 DEF Good

LEMMA NoEntries == Entries(<<>>) = <<>>
  <1>1. RowsOf(<<>>) = {}
    <2>1. DOMAIN <<>> = {}
      OBVIOUS
    <2> QED BY <2>1 DEF RowsOf
  <1>2. Entries(<<>>) \in Seq({})
    BY <1>1, EntriesTyped
  <1> QED BY <1>2

(* The journal j with a row of its own at n.                               *)
With(j, n, row) == [m \in DOMAIN j \cup {n} |-> IF m \in DOMAIN j THEN j[m] ELSE row]

LEMMA EntriesGrow ==
  ASSUME NEW j, NEW a \in 1..MaxSeq, \A n \in DOMAIN j : n \in Nat /\ n < a, NEW row
  PROVE  Entries(With(j, a, row)) = Append(Entries(j), [seq |-> a, row |-> row])
  <1> DEFINE u == With(j, a, row)
             last == [seq |-> a, row |-> row]
  <1>0. MaxSeq \in Nat
    BY BoundsAssumption
  <1>1. PICK rs : Gathers(rs, j, MaxSeq) /\ Entries(j) = rs[MaxSeq]
    BY EntriesList
  <1>2. PICK us : Gathers(us, u, MaxSeq) /\ Entries(u) = us[MaxSeq]
    BY EntriesList
  <1>3. /\ DOMAIN u = DOMAIN j \cup {a} /\ u[a] = row /\ a \notin DOMAIN j
        /\ \A n \in DOMAIN j : u[n] = j[n]
    <2>1. a \notin DOMAIN j
      OBVIOUS
    <2> QED BY <2>1 DEF With
  <1> HIDE DEF u
  <1> DEFINE Good == {n \in Nat : IF n < a THEN us[n] = rs[n]
                                  ELSE us[n] = Append(rs[n], last)}
  <1>4. 0 \in Good
    <2>1. us[0] = rs[0] /\ 0 < a
      BY <1>1, <1>2 DEF Gathers
    <2> QED BY <2>1
  <1>5. ASSUME NEW n \in 1..MaxSeq, n - 1 \in Good
        PROVE  n \in Good
    <2>1. us[n] = NextRows(us[n - 1], u, n) /\ rs[n] = NextRows(rs[n - 1], j, n)
      BY <1>1, <1>2 DEF Gathers
    <2>2. CASE n < a
      <3>1. us[n - 1] = rs[n - 1]
        BY <1>5, <2>2
      <3>2. (n \in DOMAIN u <=> n \in DOMAIN j) /\ (n \in DOMAIN j => RowAt(u, n) = RowAt(j, n))
        BY <1>3, <2>2 DEF RowAt
      <3>3. us[n] = rs[n]
        BY <2>1, <3>1, <3>2 DEF NextRows
      <3> QED BY <2>2, <3>3
    <2>3. CASE n = a
      <3>1. us[n - 1] = rs[n - 1]
        BY <1>5, <2>3
      <3>2. n \in DOMAIN u /\ n \notin DOMAIN j /\ RowAt(u, n) = last
        BY <1>3, <2>3 DEF RowAt
      <3>3. us[n] = Append(rs[n], last)
        BY <2>1, <3>1, <3>2 DEF NextRows
      <3> QED BY <2>3, <3>3
    <2>4. CASE n > a
      <3>1. us[n - 1] = Append(rs[n - 1], last)
        BY <1>5, <2>4
      <3>2. n \notin DOMAIN u /\ n \notin DOMAIN j
        BY <1>3, <2>4
      <3>3. us[n] = Append(rs[n], last)
        BY <2>1, <3>1, <3>2 DEF NextRows
      <3> QED BY <2>4, <3>3
    <2> QED BY <2>2, <2>3, <2>4
  <1> HIDE DEF Good
  <1>6. \A n \in 0..MaxSeq : n \in Good
    BY <1>0, <1>4, <1>5, UpTo
  <1>7. MaxSeq \in Good
    BY <1>0, <1>6
  <1>8. us[MaxSeq] = Append(rs[MaxSeq], last)
    BY <1>0, <1>7 DEF Good
  <1> QED BY <1>1, <1>2, <1>8 DEF u

-----------------------------------------------------------------------------
(***************************************************************************)
(* What the journal stands for: the log it reads back to, and the world    *)
(* that replays to.                                                        *)
(***************************************************************************)
JournalOK(j) ==
  /\ DOMAIN j \subseteq 1..MaxSeq
  /\ \A n \in DOMAIN j : Reads(j[n]) /\ Decode(j[n]) \in Event

LogOf(j) == [k \in DOMAIN Entries(j) |-> Decode(Entries(j)[k].row)]

LEMMA JournalReads ==
  ASSUME NEW j, JournalOK(j)
  PROVE  ReadAll(j) = {LogOf(j)} /\ LogOf(j) \in Seq(Event) /\ Len(LogOf(j)) = Len(Entries(j))
  <1>1. ReadAll(j) = {LogOf(j)}
    BY DEF ReadAll, LogOf, JournalOK
  <1> DEFINE rows == Entries(j)
  <1>2. rows \in Seq(RowsOf(j))
    BY EntriesTyped
  <1>3. \A r \in RowsOf(j) : Decode(r.row) \in Event
    BY DEF RowsOf, RowAt, JournalOK
  <1>4. LogOf(j) = [k \in DOMAIN rows |-> Decode(rows[k].row)]
    BY DEF LogOf
  <1> HIDE DEF rows
  <1>5. DOMAIN rows = 1..Len(rows) /\ \A k \in DOMAIN rows : rows[k] \in RowsOf(j)
    BY <1>2
  <1>6. LogOf(j) \in Seq(Event) /\ Len(LogOf(j)) = Len(rows)
    <2>1. LogOf(j) \in [1..Len(rows) -> Event]
      BY <1>3, <1>4, <1>5
    <2>2. Len(rows) \in Nat
      BY <1>2
    <2> QED BY <2>1, <2>2
  <1> QED BY <1>1, <1>6 DEF rows

LEMMA NoJournal ==
  JournalOK(<<>>) /\ LogOf(<<>>) = <<>>
  <1>1. DOMAIN <<>> = {}
    OBVIOUS
  <1>2. LogOf(<<>>) = [k \in {} |-> Decode(Entries(<<>>)[k].row)]
    BY <1>1, NoEntries DEF LogOf
  <1>3. LogOf(<<>>) = <<>>
    BY <1>2
  <1> QED BY <1>1, <1>3 DEF JournalOK

(* A row written for an event above all the others adds that event to the  *)
(* log.                                                                    *)
LEMMA LogGrows ==
  ASSUME NEW j, JournalOK(j), NEW a \in 1..MaxSeq, \A n \in DOMAIN j : n < a,
         NEW e \in Event, RoundTrips(e)
  PROVE  /\ JournalOK(With(j, a, Encode(e)))
         /\ LogOf(With(j, a, Encode(e))) = Append(LogOf(j), e)
  <1> DEFINE u == With(j, a, Encode(e))
             rows == Entries(j)
             more == Append(rows, [seq |-> a, row |-> Encode(e)])
  <1>1. Reads(Encode(e)) /\ Decode(Encode(e)) = e
    BY DEF RoundTrips
  <1>2. JournalOK(u)
    BY <1>1 DEF With, JournalOK
  <1>3. Entries(u) = more
    BY EntriesGrow DEF JournalOK
  <1>4. rows \in Seq(RowsOf(j))
    BY EntriesTyped
  <1>5. LogOf(j) = [k \in DOMAIN rows |-> Decode(rows[k].row)]
    BY DEF LogOf
  <1>6. LogOf(u) = [k \in DOMAIN more |-> Decode(more[k].row)]
    BY <1>3 DEF LogOf
  <1> HIDE DEF rows, u
  <1>7. /\ DOMAIN more = 1..(Len(rows) + 1) /\ DOMAIN rows = 1..Len(rows) /\ Len(rows) \in Nat
        /\ \A k \in DOMAIN rows : more[k] = rows[k]
        /\ more[Len(rows) + 1].row = Encode(e)
    BY <1>4
  <1> HIDE DEF more
  <1>8. LogOf(j) \in Seq(Event) /\ Len(LogOf(j)) = Len(rows)
    BY JournalReads DEF rows
  <1> DEFINE longer == Append(LogOf(j), e)
  <1>9. /\ longer \in Seq(Event) /\ Len(longer) = Len(rows) + 1
        /\ \A k \in 1..(Len(rows) + 1) :
             longer[k] = IF k = Len(rows) + 1 THEN e ELSE LogOf(j)[k]
    <2> DEFINE log == LogOf(j)
    <2>1. log \in Seq(Event) /\ Len(log) = Len(rows)
      BY <1>8
    <2> HIDE DEF log
    <2>2. /\ Append(log, e) \in Seq(Event) /\ Len(Append(log, e)) = Len(log) + 1
          /\ \A k \in 1..(Len(log) + 1) :
               Append(log, e)[k] = IF k = Len(log) + 1 THEN e ELSE log[k]
      BY <2>1
    <2> QED BY <2>1, <2>2 DEF log
  <1> HIDE DEF longer
  <1>12. longer \in [1..(Len(rows) + 1) -> Event]
    BY <1>7, <1>9
  <1>10. ASSUME NEW k \in 1..(Len(rows) + 1)
         PROVE  Decode(more[k].row) = IF k = Len(rows) + 1 THEN e ELSE LogOf(j)[k]
    <2>1. CASE k = Len(rows) + 1
      BY <1>1, <1>7, <2>1
    <2>2. CASE k # Len(rows) + 1
      <3>1. k \in DOMAIN rows
        BY <1>7, <2>2
      <3> QED BY <1>5, <1>7, <2>2, <3>1
    <2> QED BY <2>1, <2>2
  <1>11. LogOf(u) = longer
    BY <1>6, <1>7, <1>9, <1>10, <1>12
  <1> QED BY <1>2, <1>11 DEF u, longer

-----------------------------------------------------------------------------
(***************************************************************************)
(* What a command writes.                                                  *)
(***************************************************************************)
Written(j, a, events) ==
  [n \in DOMAIN j \cup {a + k - 1 : k \in 1..Len(events)} |->
     IF n \in DOMAIN j THEN j[n] ELSE Encode(events[n - a + 1])]

LEMMA WrittenInTurn ==
  ASSUME NEW j, NEW a \in Nat, \A n \in DOMAIN j : n \in Nat /\ n < a,
         NEW events \in Seq(Event)
  PROVE  /\ Len(events) = 1 => Written(j, a, events) = With(j, a, Encode(events[1]))
         /\ Len(events) = 2 =>
              Written(j, a, events)
                = With(With(j, a, Encode(events[1])), a + 1, Encode(events[2]))
  <1>1. CASE Len(events) = 1
    <2>1. {a + k - 1 : k \in 1..Len(events)} = {a}
      BY <1>1
    <2>2. a - a + 1 = 1
      OBVIOUS
    <2> QED BY <1>1, <2>1, <2>2 DEF Written, With
  <1>2. CASE Len(events) = 2
    <2>1. {a + k - 1 : k \in 1..Len(events)} = {a} \cup {a + 1}
      BY <1>2
    <2>2. a - a + 1 = 1 /\ (a + 1) - a + 1 = 2 /\ a \notin DOMAIN j /\ a + 1 \notin DOMAIN j
          /\ a # a + 1
      OBVIOUS
    <2> DEFINE one == With(j, a, Encode(events[1]))
               two == With(one, a + 1, Encode(events[2]))
               all == Written(j, a, events)
    <2>3. DOMAIN one = DOMAIN j \cup {a} /\ \A n \in DOMAIN one :
            one[n] = IF n \in DOMAIN j THEN j[n] ELSE Encode(events[1])
      BY DEF With
    <2>4. two = [n \in DOMAIN one \cup {a + 1} |->
                   IF n \in DOMAIN one THEN one[n] ELSE Encode(events[2])]
      BY DEF With
    <2>5. all = [n \in DOMAIN j \cup ({a} \cup {a + 1}) |->
                   IF n \in DOMAIN j THEN j[n] ELSE Encode(events[n - a + 1])]
      BY <2>1 DEF Written
    <2> HIDE DEF one, two, all
    <2>6. DOMAIN j \cup ({a} \cup {a + 1}) = DOMAIN one \cup {a + 1}
      BY <2>3
    <2>7. ASSUME NEW n \in DOMAIN one \cup {a + 1}
          PROVE  (IF n \in DOMAIN one THEN one[n] ELSE Encode(events[2]))
                   = (IF n \in DOMAIN j THEN j[n] ELSE Encode(events[n - a + 1]))
      <3>1. CASE n \in DOMAIN j
        BY <2>3, <3>1
      <3>2. CASE n = a
        BY <2>2, <2>3, <3>2
      <3>3. CASE n = a + 1
        BY <2>2, <2>3, <3>3
      <3> QED BY <2>3, <3>1, <3>2, <3>3
    <2>8. all = two
      BY <2>4, <2>5, <2>6, <2>7
    <2> QED BY <1>2, <2>8 DEF all, two, one
  <1> QED BY <1>1, <1>2

(* The world a journal stands for.                                         *)
StandsFor(j) == Replay(LogOf(j))

(* A command that is written above all the rows there are is a command     *)
(* that is carried out on the world they stand for.                        *)
LEMMA WritingCommits ==
  ASSUME NEW j, JournalOK(j), NEW a \in Nat, a > 0, \A n \in DOMAIN j : n < a,
         NEW events \in Seq(Event), Len(events) \in 1..2, a + Len(events) - 1 <= MaxSeq,
         \A k \in 1..Len(events) : RoundTrips(events[k]),
         Len(events) = 2 => Applies(StandsFor(j), events[1])
  PROVE  /\ JournalOK(Written(j, a, events))
         /\ \A n \in DOMAIN Written(j, a, events) : n <= a + Len(events) - 1
         /\ StandsFor(Written(j, a, events)) = Commit(StandsFor(j), events)
         /\ ReplayOk(LogOf(j)) /\ CommitOk(StandsFor(j), events)
              => ReplayOk(LogOf(Written(j, a, events)))
         /\ LET first == [seq |-> a, row |-> Encode(events[1])]
                second == [seq |-> a + 1, row |-> Encode(events[2])]
            IN  Entries(Written(j, a, events))
                  = IF Len(events) = 1 THEN Append(Entries(j), first)
                    ELSE Append(Append(Entries(j), first), second)
  <1> DEFINE one == With(j, a, Encode(events[1]))
             two == With(one, a + 1, Encode(events[2]))
             first == [seq |-> a, row |-> Encode(events[1])]
             second == [seq |-> a + 1, row |-> Encode(events[2])]
  <1>0. /\ MaxSeq \in Nat /\ a \in 1..MaxSeq
        /\ \A n \in DOMAIN j : n \in Nat /\ n < a
        /\ events[1] \in Event /\ RoundTrips(events[1])
        /\ Len(events) = 1 \/ Len(events) = 2
    BY BoundsAssumption DEF JournalOK
  <1>1. /\ JournalOK(one) /\ LogOf(one) = Append(LogOf(j), events[1])
        /\ Entries(one) = Append(Entries(j), first)
    BY <1>0, LogGrows, EntriesGrow
  <1>2. DOMAIN one = DOMAIN j \cup {a}
    BY DEF With
  <1>3. LogOf(j) \in Seq(Event) /\ LogOf(one) \in Seq(Event)
    BY <1>1, JournalReads
  <1>4. StandsFor(one) = Apply(StandsFor(j), events[1])
    BY <1>0, <1>1, <1>3, ReplayOfOneMore DEF StandsFor
  <1>5. /\ Len(events) = 1 => Written(j, a, events) = one
        /\ Len(events) = 2 => Written(j, a, events) = two
    BY <1>0, WrittenInTurn
  <1>6. ReplayOk(LogOf(j)) /\ Applies(StandsFor(j), events[1]) => ReplayOk(LogOf(one))
    BY <1>0, <1>1, <1>3, ReplayOkOfOneMore DEF StandsFor
  <1> HIDE DEF one
  <1>7. CASE Len(events) = 1
    <2>1. Commit(StandsFor(j), events) = Apply(StandsFor(j), events[1])
      BY <1>7 DEF Commit
    <2>2. CommitOk(StandsFor(j), events) => Applies(StandsFor(j), events[1])
      BY <1>7 DEF CommitOk
    <2>3. \A n \in DOMAIN one : n <= a + Len(events) - 1
      BY <1>0, <1>2, <1>7
    <2> QED BY <1>1, <1>4, <1>5, <1>6, <1>7, <2>1, <2>2, <2>3
  <1>8. CASE Len(events) = 2
    <2>1. /\ a + 1 \in 1..MaxSeq /\ \A n \in DOMAIN one : n \in Nat /\ n < a + 1
          /\ events[2] \in Event /\ RoundTrips(events[2])
      <3>1. a + 1 \in 1..MaxSeq
        BY <1>0, <1>8
      <3>2. \A n \in DOMAIN one : n \in Nat /\ n < a + 1
        BY <1>0, <1>2
      <3>3. events[2] \in Event /\ RoundTrips(events[2])
        <4>1. 2 \in 1..Len(events)
          BY <1>8
        <4> QED BY <4>1
      <3> QED BY <3>1, <3>2, <3>3
    <2>2. /\ JournalOK(two) /\ LogOf(two) = Append(LogOf(one), events[2])
          /\ Entries(two) = Append(Entries(one), second)
      <3>1. JournalOK(two) /\ LogOf(two) = Append(LogOf(one), events[2])
        BY <1>1, <2>1, LogGrows
      <3>2. Entries(two) = Append(Entries(one), second)
        BY <1>1, <2>1, EntriesGrow
      <3> QED BY <3>1, <3>2
    <2>3. DOMAIN two = DOMAIN one \cup {a + 1}
      BY DEF With
    <2>4. StandsFor(two) = Apply(StandsFor(one), events[2])
      BY <1>3, <2>1, <2>2, ReplayOfOneMore DEF StandsFor
    <2>5. ReplayOk(LogOf(one)) /\ Applies(StandsFor(one), events[2]) => ReplayOk(LogOf(two))
      BY <1>3, <2>1, <2>2, ReplayOkOfOneMore DEF StandsFor
    <2> HIDE DEF two
    <2>6. Commit(StandsFor(j), events) = Apply(Apply(StandsFor(j), events[1]), events[2])
      BY <1>8 DEF Commit
    <2>7. CommitOk(StandsFor(j), events) =>
            /\ Applies(StandsFor(j), events[1])
            /\ Applies(Apply(StandsFor(j), events[1]), events[2])
      BY <1>8 DEF CommitOk
    <2>8. \A n \in DOMAIN two : n <= a + Len(events) - 1
      BY <1>0, <1>2, <1>8, <2>3
    <2> QED BY <1>1, <1>4, <1>5, <1>6, <1>8, <2>2, <2>4, <2>5, <2>6, <2>7, <2>8
  <1> QED BY <1>0, <1>7, <1>8

-----------------------------------------------------------------------------
(* The last sequence number is the highest.                                *)
LEMMA LastSeqIsHighest ==
  ASSUME NEW j, JournalOK(j)
  PROVE  /\ LastSeq(j) \in {0} \cup DOMAIN j
         /\ \A n \in DOMAIN j : n <= LastSeq(j)
  <1> DEFINE Held == {0} \cup DOMAIN j
             Above == {n \in 0..MaxSeq : \A m \in DOMAIN j : m <= n}
  <1>0. MaxSeq \in Nat /\ Held \subseteq 0..MaxSeq
    BY BoundsAssumption DEF JournalOK
  <1>1. MaxSeq \in Above
    BY <1>0
  <1>2. PICK n \in Above : \A m \in Above : n <= m
    <2>1. Above \in SUBSET Nat /\ Above # {}
      BY <1>0, <1>1
    <2> HIDE DEF Above
    <2> QED BY <2>1, Least
  <1>3. n \in Held
    <2> SUFFICES ASSUME n \notin Held PROVE FALSE
      OBVIOUS
    <2>1. n \in 0..MaxSeq /\ n # 0 /\ n - 1 \in 0..MaxSeq
      BY <1>0
    <2>2. \A m \in DOMAIN j : m \in 0..MaxSeq /\ m <= n /\ m # n
      BY <1>0
    <2>3. \A m \in DOMAIN j : m <= n - 1
      BY <2>1, <2>2
    <2>4. n - 1 \in Above
      BY <2>1, <2>3
    <2>5. n <= n - 1
      BY <1>2, <2>4
    <2> QED BY <2>1, <2>5
  <1>4. \E m \in Held : \A k \in DOMAIN j : k <= m
    BY <1>2, <1>3
  <1> HIDE DEF Held
  <1>5. LastSeq(j) = CHOOSE m \in Held : \A k \in DOMAIN j : k <= m
    BY DEF LastSeq, Held
  <1> QED BY <1>4, <1>5 DEF Held

-----------------------------------------------------------------------------
(***************************************************************************)
(* What the server may rely on when it plans: the events are well formed,  *)
(* the fold takes them, orders are placed under the ids minted for them    *)
(* only, and the broker's counters move by one at most.                    *)
(***************************************************************************)
Places(events, ids) ==
  \A k \in 1..Len(events) :
    events[k].kind \in {"OrderSubmitted", "OrderReplaced"} => events[k].id \in ids

GoodPlan(w, b, plan, ids, after) ==
  /\ ProperPlan(w, b, plan)
  /\ RoomForTurnover(w, plan.events) => CommitOk(w, plan.events)
  /\ Len(plan.events) = 2 => Applies(w, plan.events[1])
  /\ Places(plan.events, ids)
  /\ plan.broker \in after

Good(w, b, plans, ids, after) == \A plan \in plans : GoodPlan(w, b, plan, ids, after)

LEMMA AnsweredPlanGood ==
  ASSUME NEW w, NEW b, NEW after, NEW e, NEW f \in Answer, NEW i, NEW plan,
         plan.events = <<e, f>>, plan.broker \in after,
         e.kind \in {"OrderSubmitted", "OrderReplaced"}, e.id = i,
         ProperPlan(w, b, plan),
         RoomForTurnover(w, plan.events) => CommitOk(w, plan.events)
  PROVE  GoodPlan(w, b, plan, {i}, after)
  <1>1. f.kind \in {"OrderAcknowledged", "OrderRejected"}
    BY DEF Answer, AcknowledgedEvent, RejectedEvent
  <1>2. Len(plan.events) = 2 /\ plan.events[1] = e /\ plan.events[2] = f
    OBVIOUS
  <1>3. \A k \in 1..Len(plan.events) : k = 1 \/ k = 2
    BY <1>2
  <1>4. RoomForTurnover(w, plan.events)
    BY <1>1, <1>2, <1>3 DEF RoomForTurnover
  <1>5. CommitOk(w, plan.events)
    BY <1>4
  <1>6. Applies(w, plan.events[1])
    BY <1>2, <1>5 DEF CommitOk
  <1>7. Places(plan.events, {i})
    BY <1>1, <1>2, <1>3 DEF Places
  <1> QED BY <1>5, <1>6, <1>7, Zenon DEF GoodPlan

LEMMA OneEventPlanGood ==
  ASSUME NEW w, NEW b, NEW c, NEW e,
         e.kind \notin {"OrderSubmitted", "OrderReplaced"},
         ProperPlan(w, b, Plan(<<e>>, c)),
         RoomForTurnover(w, Plan(<<e>>, c).events) => CommitOk(w, Plan(<<e>>, c).events)
  PROVE  GoodPlan(w, b, Plan(<<e>>, c), {}, {c})
  <1> DEFINE plan == Plan(<<e>>, c)
  <1>1. Len(plan.events) = 1 /\ plan.events[1] = e /\ plan.broker = c
    BY DEF Plan
  <1>2. ProperPlan(w, b, plan) /\ (RoomForTurnover(w, plan.events) => CommitOk(w, plan.events))
    OBVIOUS
  <1> HIDE DEF plan
  <1>3. Places(plan.events, {})
    BY <1>1 DEF Places
  <1>4. GoodPlan(w, b, plan, {}, {c})
    <2>1. Len(plan.events) # 2 /\ plan.broker \in {c}
      BY <1>1
    <2> QED BY <1>2, <1>3, <2>1, Zenon DEF GoodPlan
  <1> QED BY <1>4 DEF plan

LEMMA EmptyPlanGood ==
  ASSUME NEW w, NEW b, NEW c, ProperPlan(w, b, Plan(<<>>, c))
  PROVE  GoodPlan(w, b, Plan(<<>>, c), {}, {c})
  <1> DEFINE plan == Plan(<<>>, c)
  <1>1. Len(plan.events) = 0 /\ plan.broker = c
    BY DEF Plan
  <1> HIDE DEF plan
  <1>2. Places(plan.events, {}) /\ CommitOk(w, plan.events)
    BY <1>1 DEF Places, CommitOk
  <1>3. GoodPlan(w, b, plan, {}, {c})
    <2>1. Len(plan.events) # 2 /\ plan.broker \in {c}
      BY <1>1
    <2>2. ProperPlan(w, b, plan)
      BY DEF plan
    <2> QED BY <1>2, <2>1, <2>2, Zenon DEF GoodPlan
  <1> QED BY <1>3 DEF plan

LEMMA SubmitPlansGood ==
  ASSUME NEW w \in World, NEW b \in Broker, NEW i \in Ids, NEW t \in Terms
  PROVE  Good(w, b, SubmitPlans(w, b, i, t), {i}, {b, MintedId(b)})
  <1> DEFINE why == RejectReason(w, Submitted(t, None))
             e == OrderSubmitted(i, t)
  <1> SUFFICES ASSUME NEW plan \in SubmitPlans(w, b, i, t)
               PROVE  GoodPlan(w, b, plan, {i}, {b, MintedId(b)})
    BY DEF Good
  <1>1. \/ why # None /\ plan = Plan(<<e, OrderRejected(i, why)>>, b)
        \/ plan = Plan(<<e, OrderAcknowledged(i, b.next_id)>>, MintedId(b))
    BY DEF SubmitPlans, When
  <1>2. e.kind = "OrderSubmitted" /\ e.id = i
    BY DEF OrderSubmitted
  <1>3. OrderAcknowledged(i, b.next_id) \in Answer
    BY BrokerTyped DEF OrderAcknowledged, AcknowledgedEvent, Answer
  <1>4. why # None => OrderRejected(i, why) \in Answer
    BY RejectReasonTyped DEF OrderRejected, RejectedEvent, Answer
  <1>5. ProperPlan(w, b, plan) /\ (RoomForTurnover(w, plan.events) => CommitOk(w, plan.events))
    BY SubmitPlansProper, SubmissionIsCertain DEF Certain
  <1> HIDE DEF e, why
  <1>6. ASSUME NEW f \in Answer, NEW c \in {b, MintedId(b)}, plan = Plan(<<e, f>>, c)
        PROVE  GoodPlan(w, b, plan, {i}, {b, MintedId(b)})
    <2>1. plan.events = <<e, f>> /\ plan.broker \in {b, MintedId(b)}
      BY <1>6 DEF Plan
    <2> QED BY <1>2, <1>5, <2>1, AnsweredPlanGood
  <1> QED BY <1>1, <1>3, <1>4, <1>6

LEMMA ReplacePlansGood ==
  ASSUME NEW w \in World, NEW b \in Broker, NEW i \in Ids, NEW j \in Ids,
         NEW qty \in Nat, NEW limit \in Pxs
  PROVE  Good(w, b, ReplacePlans(w, b, i, j, qty, limit), {j}, {b, MintedId(b)})
  <1> DEFINE t == ReplacementTerms(w.orders[i], qty, limit)
             why == RejectReason(w, Submitted(t, i))
             e == OrderReplaced(i, j, t)
  <1> SUFFICES ASSUME NEW plan \in ReplacePlans(w, b, i, j, qty, limit)
               PROVE  GoodPlan(w, b, plan, {j}, {b, MintedId(b)})
    BY DEF Good
  <1>1. /\ w.orders[i] # None
        /\ \/ why # None /\ plan = Plan(<<e, OrderRejected(j, why)>>, b)
           \/ plan = Plan(<<e, OrderAcknowledged(j, b.next_id)>>, MintedId(b))
    BY DEF ReplacePlans, When
  <1>2. e.kind = "OrderReplaced" /\ e.id = j
    BY DEF OrderReplaced
  <1>3. OrderAcknowledged(j, b.next_id) \in Answer
    BY BrokerTyped DEF OrderAcknowledged, AcknowledgedEvent, Answer
  <1>4. t \in Terms
    BY <1>1, WorldFields DEF Order, Terms, ReplacementTerms
  <1> HIDE DEF t
  <1>5. why # None => OrderRejected(j, why) \in Answer
    BY <1>4, RejectReasonTyped DEF OrderRejected, RejectedEvent, Answer
  <1>6. ProperPlan(w, b, plan) /\ (RoomForTurnover(w, plan.events) => CommitOk(w, plan.events))
    BY ReplacePlansProper, ReplacingIsCertain DEF Certain
  <1> HIDE DEF e, why
  <1>7. ASSUME NEW f \in Answer, NEW c \in {b, MintedId(b)}, plan = Plan(<<e, f>>, c)
        PROVE  GoodPlan(w, b, plan, {j}, {b, MintedId(b)})
    <2>1. plan.events = <<e, f>> /\ plan.broker \in {b, MintedId(b)}
      BY <1>7 DEF Plan
    <2> QED BY <1>2, <1>6, <2>1, AnsweredPlanGood
  <1> QED BY <1>1, <1>3, <1>5, <1>7

LEMMA FillPlanGood ==
  ASSUME NEW w \in World, NEW b \in Broker, NEW e \in FilledEvent, e.exec_id = b.next_exec_id
  PROVE  GoodPlan(w, b, FillPlan(w, e, MintedExec(b)), {}, {MintedExec(b)})
  <1>1. ProperPlan(w, b, FillPlan(w, e, MintedExec(b)))
    BY FillPlanProper
  <1>2. RoomForTurnover(w, FillPlan(w, e, MintedExec(b)).events)
          => CommitOk(w, FillPlan(w, e, MintedExec(b)).events)
    BY FillIsSure
  <1>3. e.kind = "OrderFilled"
    BY DEF FilledEvent
  <1>4. FillPlan(w, e, MintedExec(b)) \in {Plan(<<e>>, MintedExec(b)), Plan(<<>>, MintedExec(b))}
    BY DEF FillPlan
  <1> QED BY <1>1, <1>2, <1>3, <1>4, OneEventPlanGood, EmptyPlanGood

LEMMA ExecutionPlansGood ==
  ASSUME NEW w \in World, NEW b \in Broker, NEW i \in Ids
  PROVE  /\ \A qty \in Nat, px \in Pxs : Good(w, b, ExecutePlans(w, b, i, qty, px), {}, {MintedExec(b)})
         /\ Good(w, b, AutoExecutePlans(w, b, i), {}, {MintedExec(b)})
  <1>1. ASSUME NEW qty \in Nat, NEW px \in Pxs
        PROVE  Good(w, b, ExecutePlans(w, b, i, qty, px), {}, {MintedExec(b)})
    <2> DEFINE e == OrderFilled(i, b.next_exec_id, qty, px, FeeOf(Notional(px, qty)))
    <2>1. e \in FilledEvent /\ e.exec_id = b.next_exec_id
      BY BrokerTyped, FeeTyped, EventsTyped DEF OrderFilled
    <2>2. GoodPlan(w, b, FillPlan(w, e, MintedExec(b)), {}, {MintedExec(b)})
      BY <2>1, FillPlanGood
    <2> QED BY <2>2 DEF Good, ExecutePlans, When
  <1>2. Good(w, b, AutoExecutePlans(w, b, i), {}, {MintedExec(b)})
    <2> DEFINE o == w.orders[i]
               e(q) == OrderFilled(i, b.next_exec_id, q, o.limit_px,
                                   FeeOf(Notional(o.limit_px, q)))
    <2>1. SUFFICES ASSUME IsWorking(w, i), ~ (Remaining(o) <= 0), NEW q \in Slices(o)
                   PROVE  GoodPlan(w, b, FillPlan(w, e(q), MintedExec(b)), {}, {MintedExec(b)})
      BY DEF Good, AutoExecutePlans
    <2>2. e(q) \in FilledEvent
      BY <2>1, SlicesFill
    <2>3. e(q).exec_id = b.next_exec_id
      BY DEF OrderFilled
    <2> HIDE DEF e
    <2> QED BY <2>2, <2>3, FillPlanGood
  <1> QED BY <1>1, <1>2

LEMMA OtherPlansGood ==
  ASSUME NEW w \in World, NEW b \in Broker
  PROVE  /\ \A p \in Participants, cash \in Int : Good(w, b, CreateParticipantPlans(w, b, p, cash), {}, {b})
         /\ \A i \in Ids : Good(w, b, CancelPlans(w, b, i), {}, {b})
         /\ \A s \in Symbols, px \in Pxs : Good(w, b, UpdateMarkPlans(w, b, s, px), {}, {b})
         /\ \A s \in Symbols, spec \in InstrumentSpec :
              /\ Good(w, b, CreateInstrumentPlans(w, b, s, spec), {}, {b})
              /\ Good(w, b, UpdateInstrumentPlans(w, b, s, spec), {}, {b})
         /\ \A s \in Symbols : Good(w, b, RemoveInstrumentPlans(w, b, s), {}, {b})
         /\ \A d \in Days : Good(w, b, CloseDayPlans(w, b, d), {}, {b})
  <1>1. ASSUME NEW plans, Certain(w, plans), \A plan \in plans : ProperPlan(w, b, plan),
               \A plan \in plans : \/ plan = Plan(<<>>, b)
                                   \/ \E e : /\ plan = Plan(<<e>>, b)
                                             /\ e.kind \notin {"OrderSubmitted", "OrderReplaced"}
        PROVE  Good(w, b, plans, {}, {b})
    <2> SUFFICES ASSUME NEW plan \in plans PROVE GoodPlan(w, b, plan, {}, {b})
      BY DEF Good
    <2>1. ProperPlan(w, b, plan) /\ (RoomForTurnover(w, plan.events) => CommitOk(w, plan.events))
      BY <1>1 DEF Certain
    <2>2. CASE plan = Plan(<<>>, b)
      BY <2>1, <2>2, EmptyPlanGood
    <2>3. CASE plan # Plan(<<>>, b)
      <3>1. PICK e : plan = Plan(<<e>>, b) /\ e.kind \notin {"OrderSubmitted", "OrderReplaced"}
        BY <1>1, <2>3
      <3> QED BY <2>1, <3>1, OneEventPlanGood
    <2> QED BY <2>2, <2>3
  <1>2. ASSUME NEW p \in Participants, NEW cash \in Int
        PROVE  Good(w, b, CreateParticipantPlans(w, b, p, cash), {}, {b})
    <2>1. ParticipantCreated(p, cash).kind = "ParticipantCreated"
      BY DEF ParticipantCreated
    <2>2. \A plan \in CreateParticipantPlans(w, b, p, cash) :
            plan = Plan(<<ParticipantCreated(p, cash)>>, b)
      BY DEF CreateParticipantPlans, When
    <2> QED BY <1>1, <2>1, <2>2, OthersAreCertain, CreateParticipantPlansProper
  <1>3. ASSUME NEW i \in Ids
        PROVE  Good(w, b, CancelPlans(w, b, i), {}, {b})
    <2>1. OrderCancelled(i).kind = "OrderCancelled"
      BY DEF OrderCancelled
    <2>2. \A plan \in CancelPlans(w, b, i) : plan = Plan(<<OrderCancelled(i)>>, b)
      BY DEF CancelPlans, When
    <2> QED BY <1>1, <2>1, <2>2, OthersAreCertain, CancelPlansProper
  <1>4. ASSUME NEW s \in Symbols, NEW px \in Pxs
        PROVE  Good(w, b, UpdateMarkPlans(w, b, s, px), {}, {b})
    <2>1. MarkUpdated(s, px).kind = "MarkUpdated"
      BY DEF MarkUpdated
    <2>2. \A plan \in UpdateMarkPlans(w, b, s, px) : plan = Plan(<<MarkUpdated(s, px)>>, b)
      BY DEF UpdateMarkPlans, When
    <2> QED BY <1>1, <2>1, <2>2, OthersAreCertain, UpdateMarkPlansProper
  <1>5. ASSUME NEW s \in Symbols, NEW spec \in InstrumentSpec
        PROVE  /\ Good(w, b, CreateInstrumentPlans(w, b, s, spec), {}, {b})
               /\ Good(w, b, UpdateInstrumentPlans(w, b, s, spec), {}, {b})
    <2>1. InstrumentUpserted(s, spec).kind = "InstrumentUpserted"
      BY DEF InstrumentUpserted
    <2>2. /\ \A plan \in CreateInstrumentPlans(w, b, s, spec) :
               plan = Plan(<<InstrumentUpserted(s, spec)>>, b)
          /\ \A plan \in UpdateInstrumentPlans(w, b, s, spec) :
               plan = Plan(<<InstrumentUpserted(s, spec)>>, b)
      BY DEF CreateInstrumentPlans, UpdateInstrumentPlans, When
    <2> QED BY <1>1, <2>1, <2>2, OthersAreCertain, InstrumentPlansProper
  <1>6. ASSUME NEW s \in Symbols
        PROVE  Good(w, b, RemoveInstrumentPlans(w, b, s), {}, {b})
    <2>1. InstrumentRemoved(s).kind = "InstrumentRemoved"
      BY DEF InstrumentRemoved
    <2>2. \A plan \in RemoveInstrumentPlans(w, b, s) : plan = Plan(<<InstrumentRemoved(s)>>, b)
      BY DEF RemoveInstrumentPlans, When
    <2> QED BY <1>1, <2>1, <2>2, OthersAreCertain, RemoveInstrumentPlansProper
  <1>7. ASSUME NEW d \in Days
        PROVE  Good(w, b, CloseDayPlans(w, b, d), {}, {b})
    <2>1. \A given : DayClosed(d, given).kind = "DayClosed"
      BY DEF DayClosed
    <2>2. \A plan \in CloseDayPlans(w, b, d) :
            plan = Plan(<<>>, b) \/ \E given : plan = Plan(<<DayClosed(d, given)>>, b)
      BY DEF CloseDayPlans, When
    <2> QED BY <1>1, <2>1, <2>2, OthersAreCertain, CloseDayPlansProper
  <1> QED BY <1>2, <1>3, <1>4, <1>5, <1>6, <1>7

-----------------------------------------------------------------------------
(***************************************************************************)
(* The steps that plan a command: the routes and the seeds.                *)
(***************************************************************************)
Counted(c, n) == c \in Counts /\ c.next_id <= n

AppTyped ==
  /\ world \in World
  /\ next_order_id \in 1..(MaxOrders + 1)
  /\ Counted(broker, next_order_id)
  /\ todo \in Seq(Symbols)

PlanStep ==
  /\ stage = "idle" /\ Up /\ UNCHANGED <<mode, todo>>
  /\ next_order_id' \in next_order_id..(MaxOrders + 1)
  /\ \E plans, ids, after :
       /\ PlanCommand(plans)
       /\ Good(world, broker, plans, ids, after)
       /\ \A i \in ids : i < next_order_id'
       /\ \A c \in after : Counted(c, next_order_id')
       /\ SeedSpec \in Specs => \E n \in Ids : plans \subseteq OfferedPlans(world, broker, n)

(* A refused command has used the order id it asked for.                   *)
RefusedStep ==
  /\ next_order_id' \in next_order_id..(MaxOrders + 1)
  /\ UNCHANGED <<vars, journal, seq, entries, stage, faults, mode, todo>>

LEMMA CountsAreBrokers ==
  ASSUME NEW c \in Counts
  PROVE  c \in Broker
  BY DEF Counts, Broker

LEMMA IdsStart == 1 \in Ids
  BY KeysAssumption DEF Ids

LEMMA FreeIsUp == Free => stage = "idle" /\ Up
  BY DEF Free, Up

LEMMA ServeIsAPlanStep ==
  ASSUME AppTyped, NEW plans, Serve(plans), Good(world, broker, plans, {}, {broker}),
         NEW n \in Ids, plans \subseteq OfferedPlans(world, broker, n)
  PROVE  PlanStep
  <1>1. next_order_id' = next_order_id /\ next_order_id \in 1..(MaxOrders + 1)
    BY DEF Serve, AppTyped
  <1>2. \A c \in {broker} : Counted(c, next_order_id')
    BY <1>1 DEF AppTyped
  <1>3. PlanCommand(plans) /\ UNCHANGED <<mode, todo>> /\ stage = "idle" /\ Up
    BY FreeIsUp DEF Serve
  <1>4. next_order_id' \in next_order_id..(MaxOrders + 1)
    BY <1>1
  <1> QED BY <1>2, <1>3, <1>4 DEF PlanStep

LEMMA ExecutionIsAPlanStep ==
  ASSUME AppTyped, NEW plans, Serve(plans), broker.next_exec_id <= MaxExecs,
         Good(world, broker, plans, {}, {MintedExec(broker)}),
         NEW n \in Ids, plans \subseteq OfferedPlans(world, broker, n)
  PROVE  PlanStep
  <1>1. next_order_id' = next_order_id /\ next_order_id \in 1..(MaxOrders + 1)
    BY DEF Serve, AppTyped
  <1>2. \A c \in {MintedExec(broker)} : Counted(c, next_order_id')
    <2>1. MaxExecs \in Nat
      BY InputsAssumption
    <2> QED BY <1>1, <2>1 DEF AppTyped, Counted, Counts, MintedExec
  <1>3. PlanCommand(plans) /\ UNCHANGED <<mode, todo>> /\ stage = "idle" /\ Up
    BY FreeIsUp DEF Serve
  <1>4. next_order_id' \in next_order_id..(MaxOrders + 1)
    BY <1>1
  <1> QED BY <1>2, <1>3, <1>4 DEF PlanStep

LEMMA MintingIsAPlanStep ==
  ASSUME AppTyped, NEW plans, ServeMinting(plans),
         Good(world, broker, plans, {next_order_id}, {broker, MintedId(broker)}),
         plans \subseteq OfferedPlans(world, broker, next_order_id)
  PROVE  PlanStep \/ RefusedStep
  <1>1. next_order_id \in Ids /\ next_order_id' = next_order_id + 1
    BY DEF ServeMinting
  <1>2. next_order_id' \in next_order_id..(MaxOrders + 1) /\ next_order_id < next_order_id'
    BY <1>1, KeysAssumption DEF Ids
  <1>3. CASE PlanCommand(plans)
    <2>1. \A c \in {broker, MintedId(broker)} : Counted(c, next_order_id')
      <3>1. MaxOrders \in Nat
        BY KeysAssumption
      <3> QED BY <1>1, <3>1 DEF AppTyped, Counted, Counts, MintedId, Ids
    <2>2. UNCHANGED <<mode, todo>> /\ stage = "idle" /\ Up
      BY FreeIsUp DEF ServeMinting
    <2>3. \A i \in {next_order_id} : i < next_order_id'
      BY <1>2
    <2> QED BY <1>1, <1>2, <1>3, <2>1, <2>2, <2>3 DEF PlanStep
  <1>4. CASE ~ PlanCommand(plans)
    BY <1>2, <1>4 DEF ServeMinting, RefusedStep
  <1> QED BY <1>3, <1>4

LEMMA Offers ==
  ASSUME NEW w, NEW b, NEW n
  PROVE  /\ \A p \in Participants, cash \in StartingCash :
              CreateParticipantPlans(w, b, p, cash) \subseteq OfferedPlans(w, b, n)
         /\ \A t \in OfferedTerms : SubmitPlans(w, b, n, t) \subseteq OfferedPlans(w, b, n)
         /\ \A i \in Ids : CancelPlans(w, b, i) \subseteq OfferedPlans(w, b, n)
         /\ \A i \in Ids, qty \in OrderQtys, limit \in LimitPxs :
              ReplacePlans(w, b, i, n, qty, limit) \subseteq OfferedPlans(w, b, n)
         /\ \A i \in Ids, qty \in FillQtys, px \in FillPxs :
              ExecutePlans(w, b, i, qty, px) \subseteq OfferedPlans(w, b, n)
         /\ \A i \in Ids : AutoExecutePlans(w, b, i) \subseteq OfferedPlans(w, b, n)
         /\ \A s \in Symbols, px \in MarkPxs :
              UpdateMarkPlans(w, b, s, px) \subseteq OfferedPlans(w, b, n)
         /\ \A s \in Symbols, spec \in Specs :
              /\ CreateInstrumentPlans(w, b, s, spec) \subseteq OfferedPlans(w, b, n)
              /\ UpdateInstrumentPlans(w, b, s, spec) \subseteq OfferedPlans(w, b, n)
         /\ \A s \in Symbols : RemoveInstrumentPlans(w, b, s) \subseteq OfferedPlans(w, b, n)
         /\ \A d \in Days : CloseDayPlans(w, b, d) \subseteq OfferedPlans(w, b, n)
  <1> DEFINE joining == {CreateParticipantPlans(w, b, p, cash) : p \in Participants, cash \in StartingCash}
             submitting == {SubmitPlans(w, b, n, t) : t \in OfferedTerms}
             cancelling == {CancelPlans(w, b, i) : i \in Ids}
             replacing == {ReplacePlans(w, b, i, n, qty, limit) : i \in Ids, qty \in OrderQtys, limit \in LimitPxs}
             executing == {ExecutePlans(w, b, i, qty, px) : i \in Ids, qty \in FillQtys, px \in FillPxs}
             autoExecuting == {AutoExecutePlans(w, b, i) : i \in Ids}
             marking == {UpdateMarkPlans(w, b, s, px) : s \in Symbols, px \in MarkPxs}
             listing == {CreateInstrumentPlans(w, b, s, spec) : s \in Symbols, spec \in Specs}
             changing == {UpdateInstrumentPlans(w, b, s, spec) : s \in Symbols, spec \in Specs}
             delisting == {RemoveInstrumentPlans(w, b, s) : s \in Symbols}
             closing == {CloseDayPlans(w, b, d) : d \in Days}
  <1>1. OfferedPlans(w, b, n) =
          UNION (joining \cup submitting \cup cancelling \cup replacing \cup executing \cup autoExecuting
                 \cup marking \cup listing \cup changing \cup delisting \cup closing)
    BY DEF OfferedPlans
  <1>2. \A p \in Participants, cash \in StartingCash : CreateParticipantPlans(w, b, p, cash) \in joining
    OBVIOUS
  <1>3. \A t \in OfferedTerms : SubmitPlans(w, b, n, t) \in submitting
    OBVIOUS
  <1>4. \A i \in Ids : CancelPlans(w, b, i) \in cancelling
    OBVIOUS
  <1>5. \A i \in Ids, qty \in OrderQtys, limit \in LimitPxs : ReplacePlans(w, b, i, n, qty, limit) \in replacing
    OBVIOUS
  <1>6. \A i \in Ids, qty \in FillQtys, px \in FillPxs : ExecutePlans(w, b, i, qty, px) \in executing
    OBVIOUS
  <1>7. \A i \in Ids : AutoExecutePlans(w, b, i) \in autoExecuting
    OBVIOUS
  <1>8. \A s \in Symbols, px \in MarkPxs : UpdateMarkPlans(w, b, s, px) \in marking
    OBVIOUS
  <1>9. \A s \in Symbols, spec \in Specs : CreateInstrumentPlans(w, b, s, spec) \in listing
    OBVIOUS
  <1>10. \A s \in Symbols, spec \in Specs : UpdateInstrumentPlans(w, b, s, spec) \in changing
    OBVIOUS
  <1>11. \A s \in Symbols : RemoveInstrumentPlans(w, b, s) \in delisting
    OBVIOUS
  <1>12. \A d \in Days : CloseDayPlans(w, b, d) \in closing
    OBVIOUS
  <1> HIDE DEF joining, submitting, cancelling, replacing, executing, autoExecuting, marking, listing, changing, delisting, closing
  <1>13. ASSUME NEW plans,
                plans \in joining \cup submitting \cup cancelling \cup replacing \cup executing \cup autoExecuting
                       \cup marking \cup listing \cup changing \cup delisting \cup closing
         PROVE  plans \subseteq OfferedPlans(w, b, n)
    BY <1>1, <1>13, Zenon
  <1> QED
    BY <1>2, <1>3, <1>4, <1>5, <1>6, <1>7, <1>8, <1>9, <1>10, <1>11, <1>12, <1>13

LEMMA EveryCommandIsPlanned ==
  ASSUME AppTyped, Route \/ ApplySeed
  PROVE  PlanStep \/ RefusedStep
  <1> USE InputsAssumption
  <1>0. world \in World /\ broker \in Broker
    BY CountsAreBrokers DEF AppTyped, Counted
  <1>1. CASE PostParticipant
    <2>1. PICK p \in Participants, cash \in StartingCash : Serve(CreateParticipantPlans(world, broker, p, cash))
      BY <1>1 DEF PostParticipant
    <2>2. Good(world, broker, CreateParticipantPlans(world, broker, p, cash), {}, {broker})
      <3>1. cash \in Int
        OBVIOUS
      <3> QED BY <1>0, <3>1, OtherPlansGood
    <2>3. CreateParticipantPlans(world, broker, p, cash) \subseteq OfferedPlans(world, broker, 1)
      BY Offers
    <2> QED BY <2>1, <2>2, <2>3, IdsStart, ServeIsAPlanStep
  <1>2. CASE PostOrder
    <2>1. PICK t \in OfferedTerms : ServeMinting(SubmitPlans(world, broker, next_order_id, t))
      BY <1>2 DEF PostOrder
    <2>2. t \in Terms /\ next_order_id \in Ids
      BY <2>1 DEF OfferedTerms, Terms, ServeMinting
    <2> QED BY <1>0, <2>1, <2>2, Offers, SubmitPlansGood, MintingIsAPlanStep
  <1>3. CASE PutOrder
    <2>1. PICK i \in Ids, qty \in OrderQtys, limit \in LimitPxs :
            ServeMinting(ReplacePlans(world, broker, i, next_order_id, qty, limit))
      BY <1>3 DEF PutOrder
    <2>2. next_order_id \in Ids
      BY <2>1 DEF ServeMinting
    <2> QED BY <1>0, <2>1, <2>2, Offers, ReplacePlansGood, MintingIsAPlanStep
  <1>4. CASE DeleteOrder
    <2>1. PICK i \in Ids : Serve(CancelPlans(world, broker, i))
      BY <1>4 DEF DeleteOrder
    <2>2. Good(world, broker, CancelPlans(world, broker, i), {}, {broker})
      BY <1>0, OtherPlansGood
    <2>3. CancelPlans(world, broker, i) \subseteq OfferedPlans(world, broker, 1)
      BY Offers
    <2> QED BY <2>1, <2>2, <2>3, IdsStart, ServeIsAPlanStep
  <1>5. CASE PostExecution
    <2>1. broker.next_exec_id <= MaxExecs
      BY <1>5 DEF PostExecution
    <2>2. ASSUME NEW i \in Ids, NEW qty \in FillQtys, NEW px \in FillPxs,
                 Serve(ExecutePlans(world, broker, i, qty, px))
          PROVE  PlanStep
      <3>1. Good(world, broker, ExecutePlans(world, broker, i, qty, px), {}, {MintedExec(broker)})
        <4>1. qty \in Nat /\ px \in Pxs
          OBVIOUS
        <4> QED BY <1>0, <4>1, ExecutionPlansGood
      <3>2. ExecutePlans(world, broker, i, qty, px) \subseteq OfferedPlans(world, broker, 1)
        BY Offers
      <3> QED BY <2>1, <2>2, <3>1, <3>2, IdsStart, ExecutionIsAPlanStep
    <2>3. ASSUME NEW i \in Ids, Serve(AutoExecutePlans(world, broker, i))
          PROVE  PlanStep
      <3>1. Good(world, broker, AutoExecutePlans(world, broker, i), {}, {MintedExec(broker)})
        BY <1>0, ExecutionPlansGood
      <3>2. AutoExecutePlans(world, broker, i) \subseteq OfferedPlans(world, broker, 1)
        BY Offers
      <3> QED BY <2>1, <2>3, <3>1, <3>2, IdsStart, ExecutionIsAPlanStep
    <2> QED BY <1>5, <2>2, <2>3 DEF PostExecution
  <1>6. CASE PutMark
    <2>1. PICK s \in Symbols, px \in MarkPxs : Serve(UpdateMarkPlans(world, broker, s, px))
      BY <1>6 DEF PutMark
    <2>2. Good(world, broker, UpdateMarkPlans(world, broker, s, px), {}, {broker})
      BY <1>0, OtherPlansGood
    <2>3. UpdateMarkPlans(world, broker, s, px) \subseteq OfferedPlans(world, broker, 1)
      BY Offers
    <2> QED BY <2>1, <2>2, <2>3, IdsStart, ServeIsAPlanStep
  <1>7. CASE PostInstrument
    <2>1. PICK s \in Symbols, spec \in Specs : Serve(CreateInstrumentPlans(world, broker, s, spec))
      BY <1>7 DEF PostInstrument
    <2>2. Good(world, broker, CreateInstrumentPlans(world, broker, s, spec), {}, {broker})
      BY <1>0, OtherPlansGood
    <2>3. CreateInstrumentPlans(world, broker, s, spec) \subseteq OfferedPlans(world, broker, 1)
      BY Offers
    <2> QED BY <2>1, <2>2, <2>3, IdsStart, ServeIsAPlanStep
  <1>8. CASE PutInstrument
    <2>1. PICK s \in Symbols, spec \in Specs : Serve(UpdateInstrumentPlans(world, broker, s, spec))
      BY <1>8 DEF PutInstrument
    <2>2. Good(world, broker, UpdateInstrumentPlans(world, broker, s, spec), {}, {broker})
      BY <1>0, OtherPlansGood
    <2>3. UpdateInstrumentPlans(world, broker, s, spec) \subseteq OfferedPlans(world, broker, 1)
      BY Offers
    <2> QED BY <2>1, <2>2, <2>3, IdsStart, ServeIsAPlanStep
  <1>9. CASE DeleteInstrument
    <2>1. PICK s \in Symbols : Serve(RemoveInstrumentPlans(world, broker, s))
      BY <1>9 DEF DeleteInstrument
    <2>2. Good(world, broker, RemoveInstrumentPlans(world, broker, s), {}, {broker})
      BY <1>0, OtherPlansGood
    <2>3. RemoveInstrumentPlans(world, broker, s) \subseteq OfferedPlans(world, broker, 1)
      BY Offers
    <2> QED BY <2>1, <2>2, <2>3, IdsStart, ServeIsAPlanStep
  <1>10. CASE PostClose
    <2>1. PICK d \in Days : Serve(CloseDayPlans(world, broker, d))
      BY <1>10 DEF PostClose
    <2>2. Good(world, broker, CloseDayPlans(world, broker, d), {}, {broker})
      BY <1>0, OtherPlansGood
    <2>3. CloseDayPlans(world, broker, d) \subseteq OfferedPlans(world, broker, 1)
      BY Offers
    <2> QED BY <2>1, <2>2, <2>3, IdsStart, ServeIsAPlanStep
  <1>11. CASE ApplySeed
    <2> DEFINE plans == CreateInstrumentPlans(world, broker, Head(todo), SeedSpec)
    <2>1. /\ stage = "idle" /\ Up /\ UNCHANGED <<mode, todo>>
          /\ next_order_id' = next_order_id /\ PlanCommand(plans)
      BY <1>11 DEF ApplySeed, Up
    <2>2. Head(todo) \in Symbols
      BY <1>11 DEF ApplySeed, AppTyped
    <2>3. Good(world, broker, plans, {}, {broker})
      BY <1>0, <2>2, OtherPlansGood, SeedsAssumption
    <2>4. SeedSpec \in Specs => plans \subseteq OfferedPlans(world, broker, 1)
      BY <2>2, Offers
    <2>5. /\ next_order_id' \in next_order_id..(MaxOrders + 1)
          /\ \A c \in {broker} : Counted(c, next_order_id')
      BY <2>1 DEF AppTyped
    <2> HIDE DEF plans
    <2> QED BY <2>1, <2>3, <2>4, <2>5, IdsStart DEF PlanStep
  <1> QED
    BY <1>1, <1>2, <1>3, <1>4, <1>5, <1>6, <1>7, <1>8, <1>9, <1>10, <1>11 DEF Route

-----------------------------------------------------------------------------
(***************************************************************************)
(* A command creates no order but under the ids that were minted for it.   *)
(***************************************************************************)
Creates(e) == e.kind \in {"OrderSubmitted", "OrderReplaced"}

LEMMA NewOrders ==
  ASSUME NEW w \in World, NEW orders
  PROVE  /\ [w EXCEPT !.orders = orders].orders = orders
         /\ \A ids : [w EXCEPT !.orders = orders, !.order_broker_ids = ids].orders = orders
  BY DEF World

LEMMA AdvanceCreatesNothing ==
  ASSUME NEW w \in World, NEW i \in Ids, NEW k \in Ids, w.orders[k] # None,
         w.orders[i] = None, NEW state
  PROVE  Advance(w.orders, k, state)[i] = None
  <1>1. i # k /\ w.orders \in [Ids -> Order \cup {None}]
    BY WorldFields
  <1> QED BY <1>1 DEF Advance

LEMMA ApplyCreatesNothing ==
  ASSUME NEW w \in World, NEW e \in Event, NEW i \in Ids, w.orders[i] = None,
         Creates(e) => e.id # i
  PROVE  Apply(w, e).orders[i] = None
  <1>1. CASE e \in CreatedEvent
    BY <1>1 DEF CreatedEvent, Apply
  <1>2. CASE e \in SubmittedEvent
    <2>1. e.kind = "OrderSubmitted" /\ e.id \in Ids /\ e.id # i
      BY <1>2 DEF SubmittedEvent, Creates
    <2> DEFINE orders == [w.orders EXCEPT ![e.id] = Submitted(e.order, None)]
    <2>2. Apply(w, e) = [w EXCEPT !.orders = orders]
      BY <2>1 DEF Apply
    <2>3. orders[i] = None
      BY <2>1, WorldFields
    <2> HIDE DEF orders
    <2> QED BY <2>2, <2>3, NewOrders
  <1>3. CASE e \in AcknowledgedEvent
    <2>1. e.kind = "OrderAcknowledged" /\ e.id \in Ids
      BY <1>3 DEF AcknowledgedEvent
    <2>2. CASE ~ Applies(w, e)
      BY <2>1, <2>2 DEF Apply
    <2>3. CASE Applies(w, e)
      <3>1. w.orders[e.id] # None
        BY <2>1, <2>3 DEF Applies
      <3> DEFINE orders == Advance(w.orders, e.id, Acknowledge(w.orders[e.id].state, e.broker_id))
                 ids == [w.order_broker_ids EXCEPT ![e.id] = e.broker_id]
      <3>2. Apply(w, e) = [w EXCEPT !.orders = orders, !.order_broker_ids = ids]
        BY <2>1, <2>3 DEF Apply, ApplyAcknowledged
      <3>3. orders[i] = None
        BY <2>1, <3>1, AdvanceCreatesNothing
      <3> HIDE DEF orders, ids
      <3> QED BY <3>2, <3>3, NewOrders
    <2> QED BY <2>2, <2>3
  <1>4. CASE e \in RejectedEvent
    <2>1. e.kind = "OrderRejected" /\ e.id \in Ids
      BY <1>4 DEF RejectedEvent
    <2>2. CASE ~ Applies(w, e)
      BY <2>1, <2>2 DEF Apply
    <2>3. CASE Applies(w, e)
      <3>1. w.orders[e.id] # None
        BY <2>1, <2>3 DEF Applies
      <3> DEFINE orders == Advance(w.orders, e.id, Reject(w.orders[e.id].state, e.reason))
      <3>2. Apply(w, e) = [w EXCEPT !.orders = orders]
        BY <2>1, <2>3 DEF Apply, ApplyRejected
      <3>3. orders[i] = None
        BY <2>1, <3>1, AdvanceCreatesNothing
      <3> HIDE DEF orders
      <3> QED BY <3>2, <3>3, NewOrders
    <2> QED BY <2>2, <2>3
  <1>5. CASE e \in CancelledEvent
    <2>1. e.kind = "OrderCancelled" /\ e.id \in Ids
      BY <1>5 DEF CancelledEvent
    <2>2. CASE ~ Applies(w, e)
      BY <2>1, <2>2 DEF Apply
    <2>3. CASE Applies(w, e)
      <3>1. w.orders[e.id] # None
        BY <2>1, <2>3 DEF Applies
      <3> DEFINE orders == Advance(w.orders, e.id, Cancel(w.orders[e.id].state))
      <3>2. Apply(w, e) = [w EXCEPT !.orders = orders]
        BY <2>1, <2>3 DEF Apply, ApplyCancelled
      <3>3. orders[i] = None
        BY <2>1, <3>1, AdvanceCreatesNothing
      <3> HIDE DEF orders
      <3> QED BY <3>2, <3>3, NewOrders
    <2> QED BY <2>2, <2>3
  <1>6. CASE e \in ReplacedEvent
    <2>1. e.kind = "OrderReplaced" /\ e.id \in Ids /\ e.original \in Ids /\ e.id # i
      BY <1>6 DEF ReplacedEvent, Creates
    <2>2. CASE ~ Applies(w, e)
      BY <2>1, <2>2 DEF Apply
    <2>3. CASE Applies(w, e)
      <3> DEFINE state == Cancel(w.orders[e.original].state)
                 cancelled == Advance(w.orders, e.original, state)
      <3>1. w.orders[e.original] # None
        BY <2>1, <2>3 DEF Applies
      <3> DEFINE orders == [cancelled EXCEPT ![e.id] = Submitted(e.replacement, e.original)]
      <3>2. Apply(w, e) = [w EXCEPT !.orders = orders]
        BY <2>1, <2>3 DEF Apply, ApplyReplaced
      <3>3. cancelled[i] = None
        BY <2>1, <3>1, AdvanceCreatesNothing
      <3>4. DOMAIN cancelled = Ids
        BY WorldFields DEF Advance
      <3> HIDE DEF cancelled
      <3>5. orders[i] = None
        BY <2>1, <3>3, <3>4
      <3> HIDE DEF orders
      <3> QED BY <3>2, <3>5, NewOrders
    <2> QED BY <2>2, <2>3
  <1>7. CASE e \in FilledEvent
    <2>1. e.kind = "OrderFilled" /\ e.id \in Ids
      BY <1>7 DEF FilledEvent
    <2>2. CASE ~ OrderTakes(w, e)
      BY <2>1, <2>2 DEF Apply
    <2>3. CASE OrderTakes(w, e)
      <3>1. w.orders[e.id] # None
        BY <2>3 DEF OrderTakes
      <3>2. FillOrder(w, e).orders[i] = None
        <4> DEFINE o == w.orders[e.id]
                   orders == Advance(w.orders, e.id, Fill(o.state, o.qty, e.qty, e.px))
        <4>1. FillOrder(w, e) = [w EXCEPT !.orders = orders]
          BY DEF FillOrder
        <4>2. orders[i] = None
          BY <2>1, <3>1, AdvanceCreatesNothing
        <4> HIDE DEF orders
        <4> QED BY <4>1, <4>2, NewOrders
      <3>3. Apply(w, e) = ApplyFilled(w, e)
        BY <2>1, <2>3 DEF Apply
      <3>4. \A v : FillBook(v, e).orders = v.orders
        BY DEF FillBook
      <3>5. \A v : FillTape(v, e).orders = v.orders
        BY DEF FillTape
      <3> QED BY <3>2, <3>3, <3>4, <3>5 DEF ApplyFilled
    <2> QED BY <2>2, <2>3
  <1>8. CASE e \in MarkEvent
    BY <1>8 DEF MarkEvent, Apply
  <1>9. CASE e \in UpsertedEvent
    BY <1>9 DEF UpsertedEvent, Apply
  <1>10. CASE e \in RemovedEvent
    BY <1>10 DEF RemovedEvent, Apply
  <1>11. CASE e \in ClosedEvent
    BY <1>11 DEF ClosedEvent, Apply, ApplyDayClosed
  <1> QED BY <1>1, <1>2, <1>3, <1>4, <1>5, <1>6, <1>7, <1>8, <1>9, <1>10, <1>11 DEF Event

LEMMA CommitCreatesNothing ==
  ASSUME NEW w \in World, NEW events \in Seq(Event), Len(events) <= 2, NEW ids,
         Places(events, ids), NEW i \in Ids, i \notin ids, w.orders[i] = None
  PROVE  Commit(w, events).orders[i] = None
  <1>1. ASSUME NEW k \in 1..Len(events)
        PROVE  events[k] \in Event /\ (Creates(events[k]) => events[k].id # i)
    BY DEF Places, Creates
  <1>2. CASE Len(events) = 0
    <2>1. Commit(w, events) = w
      BY <1>2 DEF Commit
    <2> QED BY <2>1
  <1>3. ASSUME 1 \in 1..Len(events)
        PROVE  Apply(w, events[1]) \in World /\ Apply(w, events[1]).orders[i] = None
    BY <1>1, <1>3, ApplyTyped, ApplyCreatesNothing
  <1>4. CASE Len(events) = 1
    <2>1. Commit(w, events) = Apply(w, events[1]) /\ 1 \in 1..Len(events)
      BY <1>4 DEF Commit
    <2> QED BY <1>3, <2>1
  <1>5. CASE Len(events) = 2
    <2>1. 1 \in 1..Len(events) /\ 2 \in 1..Len(events)
      BY <1>5
    <2>2. Apply(w, events[1]) \in World /\ Apply(w, events[1]).orders[i] = None
      BY <1>3, <2>1
    <2>3. Apply(Apply(w, events[1]), events[2]).orders[i] = None
      BY <1>1, <2>1, <2>2, ApplyCreatesNothing
    <2>4. \/ Commit(w, events) = Apply(w, events[1])
          \/ Commit(w, events) = Apply(Apply(w, events[1]), events[2])
      BY <1>5 DEF Commit
    <2> QED BY <2>2, <2>3, <2>4
  <1>6. Len(events) \in Nat
    OBVIOUS
  <1> QED BY <1>2, <1>4, <1>5, <1>6, AtMostTwo

-----------------------------------------------------------------------------
(***************************************************************************)
(* The invariant.  The journal reads back, and stands for the world in     *)
(* memory or for the one that memory is about to become; nothing in it is  *)
(* past seq, and no order it stands for is past the id minter; and a       *)
(* planned command is the one that may follow the world that is served.    *)
(***************************************************************************)
(* Every day can be read back from its printed form (module Calendar says  *)
(* for which years that is so).                                            *)
DaysRead == UnreadableDays = {}

Planned == [k \in DOMAIN entries |-> entries[k].event]

(* The entries of a command, the first of them after seq s.                *)
Numbered(s, events) ==
  [n \in 1..Len(events) |-> [seq |-> s + n, event |-> events[n]]]

(* No order has an id that is still to be minted.                          *)
Unminted(w) == \A i \in Ids : i >= next_order_id => w.orders[i] = None

Shaped ==
  /\ AppTyped
  /\ JournalOK(journal)
  /\ seq \in 0..MaxSeq
  /\ Planned \in Seq(Event)
  /\ stage \in {"idle", "planned", "appended"}
  /\ stage # "idle" => Up
  /\ mode = "clearing" => journal = <<>>

Served ==
  /\ Up => /\ \A n \in DOMAIN journal : n <= seq
           /\ Unminted(StandsFor(journal))
           /\ stage # "appended" => world = StandsFor(journal)
  /\ stage = "appended" => Commit(world, Planned) = StandsFor(journal)

InFlight ==
  /\ Len(Planned) \in 1..2 /\ Len(Planned) <= seq
  /\ entries = Numbered(seq - Len(Planned), Planned)
  /\ \A n \in DOMAIN journal : n <= seq - Len(Planned)
  /\ Unminted(Commit(world, Planned))
  /\ Len(Planned) = 2 => Applies(world, Planned[1])
  /\ RoomForTurnover(world, Planned) => CommitOk(world, Planned)
  /\ SeedSpec \in Specs => Commit(world, Planned) \in Outcomes(world)

AppInv == Shaped /\ Served /\ (stage = "planned" => InFlight)

-----------------------------------------------------------------------------
LEMMA NothingPlanned ==
  ASSUME entries = <<>>
  PROVE  Planned = <<>> /\ Planned \in Seq(Event)
  <1>1. DOMAIN entries = {}
    OBVIOUS
  <1>2. Planned = [k \in {} |-> entries[k].event]
    BY <1>1 DEF Planned
  <1>3. Planned = <<>>
    BY <1>2
  <1> QED BY <1>3

LEMMA NumberedPlan ==
  ASSUME NEW s \in Int, NEW events \in Seq(Event)
  PROVE  /\ DOMAIN Numbered(s, events) = 1..Len(events)
         /\ [k \in DOMAIN Numbered(s, events) |-> Numbered(s, events)[k].event] = events
  <1>1. DOMAIN Numbered(s, events) = 1..Len(events)
    BY DEF Numbered
  <1>2. \A k \in 1..Len(events) : Numbered(s, events)[k].event = events[k]
    BY DEF Numbered
  <1>3. events = [k \in 1..Len(events) |-> events[k]]
    OBVIOUS
  <1> QED BY <1>1, <1>2, <1>3

LEMMA PlannedReads ==
  ASSUME DaysRead, NEW e \in Event
  PROVE  RoundTrips(e)
  BY EveryEventReadsBack DEF DaysRead, Readable

LEMMA JournalStands ==
  ASSUME NEW j, JournalOK(j)
  PROVE  StandsFor(j) \in World
  BY JournalReads, ReplayTyped DEF StandsFor

LEMMA NothingStands ==
  StandsFor(<<>>) = EmptyWorld
  BY NoJournal, ReplayOfNothing DEF StandsFor

(* What is left alone stays as it was.                                     *)
LEMMA LaterIdsUnminted ==
  ASSUME NEW w, Unminted(w), next_order_id \in Int, next_order_id' \in Int,
         next_order_id' >= next_order_id
  PROVE  \A i \in Ids : i >= next_order_id' => w.orders[i] = None
  BY DEF Unminted, Ids

-----------------------------------------------------------------------------
LEMMA OneOrTwo ==
  \A n \in Nat, s \in Nat : n <= 2 /\ n # 0 => n \in 1..2 /\ n <= s + n
  OBVIOUS

LEMMA PlanKeepsInv ==
  ASSUME AppInv, PlanStep
  PROVE  AppInv'
  <1>1. PICK plans, ids, after :
          /\ PlanCommand(plans)
          /\ Good(world, broker, plans, ids, after)
          /\ \A i \in ids : i < next_order_id'
          /\ \A c \in after : Counted(c, next_order_id')
          /\ SeedSpec \in Specs => \E n \in Ids : plans \subseteq OfferedPlans(world, broker, n)
    BY DEF PlanStep
  <1>2. PICK plan \in plans :
          /\ seq + Len(plan.events) <= MaxSeq
          /\ broker' = plan.broker
          /\ seq' = seq + Len(plan.events)
          /\ entries' = Numbered(seq, plan.events)
          /\ stage' = IF Len(plan.events) = 0 THEN "idle" ELSE "planned"
          /\ UNCHANGED <<world, journal, faults>>
    BY <1>1 DEF PlanCommand, Numbered
  <1> DEFINE events == plan.events
             w == world
  <1>3. GoodPlan(world, broker, plan, ids, after)
    BY <1>1 DEF Good
  <1>4. events \in Seq(Event) /\ Len(events) <= 2 /\ Len(events) \in Nat
    BY <1>3 DEF GoodPlan, ProperPlan, PlanOK
  <1>5. /\ stage = "idle" /\ Up /\ mode' = mode /\ todo' = todo
        /\ next_order_id' \in next_order_id..(MaxOrders + 1)
    BY DEF PlanStep
  <1>6. /\ world \in World /\ next_order_id \in 1..(MaxOrders + 1) /\ todo \in Seq(Symbols)
        /\ seq \in 0..MaxSeq /\ JournalOK(journal) /\ MaxOrders \in Nat /\ MaxSeq \in Nat
        /\ Counted(broker, next_order_id)
    BY KeysAssumption, BoundsAssumption DEF AppInv, Shaped, AppTyped
  <1>7. Up' /\ journal' = journal /\ world' = world
    BY <1>2, <1>5 DEF Up
  <1>8. AppTyped'
    <2>1. Counted(broker, next_order_id)'
      BY <1>1, <1>2, <1>3 DEF GoodPlan, Counted, Counts
    <2>2. next_order_id' \in 1..(MaxOrders + 1)
      BY <1>5, <1>6
    <2> QED BY <1>5, <1>6, <1>7, <2>1, <2>2 DEF AppTyped
  <1>9. Planned' = events
    <2>0. seq \in Int
      BY <1>6
    <2>1. [k \in DOMAIN Numbered(seq, events) |-> Numbered(seq, events)[k].event] = events
      <3> HIDE DEF events
      <3> QED BY <1>4, <2>0, NumberedPlan
    <2> QED BY <1>2, <2>1 DEF Planned
  <1>10. seq' \in 0..MaxSeq /\ seq' = seq + Len(events)
    BY <1>2, <1>4, <1>6
  <1>11. Shaped'
    BY <1>2, <1>4, <1>5, <1>6, <1>7, <1>8, <1>9, <1>10 DEF AppInv, Shaped
  <1>12. Served'
    <2>1. Unminted(world) /\ world = StandsFor(journal) /\ \A n \in DOMAIN journal : n <= seq
      BY <1>5 DEF AppInv, Served
    <2>2. Unminted(StandsFor(journal))'
      BY <1>5, <1>6, <1>7, <2>1, LaterIdsUnminted DEF Unminted
    <2>3. \A n \in DOMAIN journal : n <= seq'
      BY <1>4, <1>6, <1>10, <2>1 DEF JournalOK
    <2>4. stage' # "appended"
      BY <1>2
    <2> QED BY <1>7, <2>1, <2>2, <2>3, <2>4 DEF Served
  <1>13. ASSUME stage' = "planned" PROVE InFlight'
    <2>1. Len(events) \in 1..2 /\ Len(events) <= seq'
      <3>1. Len(events) # 0
        BY <1>2, <1>13
      <3> HIDE DEF events
      <3>2. Len(events) \in Nat /\ Len(events) <= 2 /\ seq \in Nat
        BY <1>4, <1>6
      <3>3. seq' = seq + Len(events)
        BY <1>10
      <3> QED BY <3>1, <3>2, <3>3, OneOrTwo
    <2>2. seq' - Len(events) = seq
      BY <1>4, <1>6, <1>10
    <2>3. entries' = Numbered(seq' - Len(events), events)
      BY <1>2, <2>2
    <2>4. \A n \in DOMAIN journal : n <= seq' - Len(events)
      BY <1>5, <2>2 DEF AppInv, Served
    <2>5. ASSUME NEW i \in Ids, i >= next_order_id'
          PROVE  Commit(world, events).orders[i] = None
      <3>1. i \notin ids
        BY <1>1, <1>5, <1>6, <2>5 DEF Ids
      <3>2. world.orders[i] = None
        <4>1. i >= next_order_id
          BY <1>5, <1>6, <2>5 DEF Ids
        <4> QED BY <1>5, <4>1 DEF AppInv, Served, Unminted
      <3> QED BY <1>3, <1>4, <1>6, <3>1, <3>2, CommitCreatesNothing DEF GoodPlan
    <2>6. /\ Len(events) = 2 => Applies(world, events[1])
          /\ RoomForTurnover(world, events) => CommitOk(world, events)
      BY <1>3 DEF GoodPlan
    <2>7. SeedSpec \in Specs => Commit(world, events) \in Outcomes(world)
      <3> SUFFICES ASSUME SeedSpec \in Specs PROVE Commit(world, events) \in Outcomes(world)
        OBVIOUS
      <3>1. PICK n \in Ids : plan \in OfferedPlans(world, broker, n)
        BY <1>1
      <3>2. broker \in Counts
        BY <1>6 DEF Counted
      <3>3. plan \in UNION {OfferedPlans(world, b, k) : b \in Counts, k \in Ids}
        BY <3>1, <3>2
      <3> QED BY <3>3 DEF Outcomes
    <2>8. Unminted(Commit(world, Planned))'
      BY <1>7, <1>9, <2>5 DEF Unminted
    <2> HIDE DEF events
    <2> QED BY <1>7, <1>9, <2>1, <2>3, <2>4, <2>6, <2>7, <2>8 DEF InFlight
  <1> QED BY <1>11, <1>12, <1>13 DEF AppInv

LEMMA RefusalKeepsInv ==
  ASSUME AppInv, RefusedStep
  PROVE  AppInv'
  <1>1. /\ next_order_id' \in next_order_id..(MaxOrders + 1)
        /\ UNCHANGED <<world, broker, journal, seq, entries, stage, mode, todo>>
    BY DEF RefusedStep, vars
  <1>2. /\ next_order_id \in 1..(MaxOrders + 1) /\ MaxOrders \in Nat
        /\ Counted(broker, next_order_id) /\ world \in World /\ todo \in Seq(Symbols)
    BY KeysAssumption DEF AppInv, Shaped, AppTyped
  <1>3. next_order_id' \in 1..(MaxOrders + 1) /\ Counted(broker, next_order_id')
    BY <1>1, <1>2 DEF Counted, Counts
  <1>4. AppTyped'
    BY <1>1, <1>2, <1>3 DEF AppTyped
  <1>5. /\ next_order_id \in Int /\ next_order_id' \in Int /\ next_order_id' >= next_order_id
    BY <1>1, <1>2
  <1>6. ASSUME NEW w, Unminted(w) PROVE \A i \in Ids : i >= next_order_id' => w.orders[i] = None
    BY <1>5, <1>6, LaterIdsUnminted
  <1>7. Up' = Up /\ Planned' = Planned
    BY <1>1 DEF Up, Planned
  <1>8. Shaped'
    BY <1>1, <1>4, <1>7 DEF AppInv, Shaped
  <1>9. Served'
    <2>1. Up => Unminted(StandsFor(journal))'
      BY <1>1, <1>6 DEF AppInv, Served, Unminted
    <2> QED BY <1>1, <1>7, <2>1 DEF AppInv, Served
  <1>10. ASSUME stage' = "planned" PROVE InFlight'
    <2>1. InFlight
      BY <1>1, <1>10 DEF AppInv
    <2>2. Unminted(Commit(world, Planned))'
      BY <1>1, <1>6, <1>7, <2>1 DEF InFlight, Unminted
    <2> QED BY <1>1, <1>7, <2>1, <2>2 DEF InFlight
  <1> QED BY <1>8, <1>9, <1>10 DEF AppInv

(* A step that leaves an idle server with the journal and the world it had *)
(* before.                                                                 *)
LEMMA BootKeepsInv ==
  ASSUME AppInv, Boot
  PROVE  AppInv'
  <1> DEFINE w == StandsFor(journal)
  <1>1. JournalOK(journal) /\ stage = "idle" /\ Planned \in Seq(Event)
    BY DEF Boot, AppInv, Shaped, Up
  <1>2. /\ world' = w /\ broker' = FreshBroker /\ seq' = LastSeq(journal)
        /\ next_order_id' = NextOrderId(w) /\ todo' = SeedsFor(w) /\ mode' = "opening"
        /\ UNCHANGED <<journal, entries, stage>>
    <2>1. ReadAll(journal) = {LogOf(journal)}
      BY <1>1, JournalReads
    <2> QED BY <2>1 DEF Boot, StandsFor
  <1>3. w \in World
    BY <1>1, JournalStands
  <1>4. /\ NextOrderId(w) \in 1..(MaxOrders + 1)
        /\ \A i \in Ids : w.orders[i] # None => i < NextOrderId(w)
    BY <1>3, NextOrderIdIsNew
  <1>5. MaxOrders \in Nat /\ MaxExecs \in Nat /\ MaxSeq \in Nat
    BY KeysAssumption, InputsAssumption, BoundsAssumption
  <1>6. Counted(FreshBroker, NextOrderId(w))
    BY <1>4, <1>5 DEF Counted, Counts, FreshBroker
  <1>7. SeedsFor(w) \in Seq(Symbols)
    BY SeedsAssumption DEF SeedsFor
  <1>8. LastSeq(journal) \in {0} \cup DOMAIN journal /\ \A n \in DOMAIN journal : n <= LastSeq(journal)
    BY <1>1, LastSeqIsHighest
  <1>9. LastSeq(journal) \in 0..MaxSeq
    BY <1>1, <1>5, <1>8 DEF JournalOK
  <1>10. \A i \in Ids : i >= NextOrderId(w) => w.orders[i] = None
    BY <1>4 DEF Ids
  <1> HIDE DEF w
  <1>11. Shaped'
    <2>1. AppTyped'
      BY <1>2, <1>3, <1>4, <1>6, <1>7 DEF AppTyped
    <2> QED BY <1>1, <1>2, <1>9, <2>1 DEF Shaped, Up, Planned
  <1>12. Served'
    BY <1>1, <1>2, <1>8, <1>10 DEF Served, Up, Unminted, w
  <1> QED BY <1>1, <1>2, <1>11, <1>12 DEF AppInv

(* The server forgets the command it had planned, or had none; the world,  *)
(* the journal and their numbers stay.                                     *)
Rests ==
  /\ stage # "appended" /\ stage' = "idle"
  /\ Up /\ Up' /\ mode' # "clearing"
  /\ Planned' \in Seq(Event) /\ todo' \in Seq(Symbols)
  /\ UNCHANGED <<world, broker, journal, seq, next_order_id>>

LEMMA RestKeepsInv ==
  ASSUME AppInv, Rests
  PROVE  AppInv'
  <1>1. AppTyped'
    BY DEF AppInv, Shaped, AppTyped, Rests
  <1>2. Shaped'
    BY <1>1 DEF AppInv, Shaped, Rests
  <1>3. Served'
    BY DEF AppInv, Served, Rests, Unminted
  <1> QED BY <1>2, <1>3 DEF AppInv, Rests

LEMMA ServingKeepsInv ==
  ASSUME AppInv, Serving
  PROVE  AppInv'
  <1>1. Rests
    BY DEF AppInv, Shaped, AppTyped, Serving, Rests, Up, Planned, vars
  <1> QED BY <1>1, RestKeepsInv

LEMMA FailureKeepsInv ==
  ASSUME AppInv, AppendFails
  PROVE  AppInv'
  <1>1. (Planned \in Seq(Event))'
    <2>1. entries' = <<>>
      BY DEF AppendFails
    <2>2. DOMAIN entries' = {}
      BY <2>1
    <2>3. Planned' = [k \in {} |-> entries'[k].event]
      BY <2>2 DEF Planned
    <2>4. Planned' = <<>>
      BY <2>3
    <2> QED BY <2>4
  <1>2. Up
    BY DEF AppInv, Shaped, AppendFails
  <1>3. Rests
    BY <1>1, <1>2 DEF AppendFails, Rests, Up, vars
  <1> QED BY <1>3, RestKeepsInv

LEMMA ClearKeepsInv ==
  ASSUME AppInv, ClearJournal
  PROVE  AppInv'
  <1>1. /\ journal' = <<>> /\ mode' = "clearing" /\ stage' = "idle"
        /\ UNCHANGED <<world, broker, seq, next_order_id, entries, todo>>
    BY DEF ClearJournal, vars
  <1>2. JournalOK(journal')
    BY <1>1, NoJournal
  <1>3. AppTyped' /\ Planned' = Planned /\ ~ Up'
    BY <1>1 DEF AppInv, Shaped, AppTyped, Planned, Up
  <1>4. Shaped'
    BY <1>1, <1>2, <1>3 DEF AppInv, Shaped
  <1> QED BY <1>1, <1>3, <1>4 DEF AppInv, Served

(* The process has nothing of its own: a fresh broker, no command, and the *)
(* world of no journal.                                                    *)
Blank ==
  /\ world' = EmptyWorld /\ broker' = FreshBroker /\ seq' = 0 /\ next_order_id' = 1
  /\ stage' = "idle" /\ Planned' \in Seq(Event) /\ todo' \in Seq(Symbols)
  /\ journal' = journal /\ mode' # "clearing"

LEMMA BlankIsShaped ==
  ASSUME AppInv, Blank
  PROVE  Shaped'
  <1>1. MaxOrders \in Nat /\ MaxExecs \in Nat /\ MaxSeq \in Nat
    BY KeysAssumption, InputsAssumption, BoundsAssumption
  <1>2. Counted(FreshBroker, 1) /\ 1 \in 1..(MaxOrders + 1) /\ 0 \in 0..MaxSeq
    BY <1>1 DEF Counted, Counts, FreshBroker
  <1>3. AppTyped'
    BY <1>2, EmptyWorldTyped DEF Blank, AppTyped
  <1> QED BY <1>2, <1>3 DEF AppInv, Shaped, Blank

LEMMA RebuildKeepsInv ==
  ASSUME AppInv, Rebuild
  PROVE  AppInv'
  <1>1. journal = <<>> /\ stage = "idle"
    BY DEF AppInv, Shaped, Rebuild, Up
  <1>2. SeedsFor(EmptyWorld) \in Seq(Symbols)
    BY SeedsAssumption DEF SeedsFor
  <1>3. Blank
    BY <1>1, <1>2 DEF AppInv, Shaped, Rebuild, Blank, Planned
  <1>4. StandsFor(journal)' = EmptyWorld
    BY <1>1, <1>3, NothingStands DEF Blank
  <1>5. \A i \in Ids : EmptyWorld.orders[i] = None
    BY DEF EmptyWorld
  <1>6. \A n \in DOMAIN journal' : n <= seq'
    <2>1. DOMAIN <<>> = {}
      OBVIOUS
    <2> QED BY <1>1, <1>3, <2>1 DEF Blank
  <1>7. Served'
    BY <1>3, <1>4, <1>5, <1>6 DEF Served, Unminted, Blank
  <1> QED BY <1>3, <1>7, BlankIsShaped DEF AppInv, Blank

LEMMA CrashKeepsInv ==
  ASSUME AppInv, Crash
  PROVE  AppInv'
  <1>1. entries' = <<>> /\ todo' = <<>> /\ mode' = "down" /\ stage' = "idle"
    BY DEF Crash
  <1>2. Planned' \in Seq(Event)
    <2>1. DOMAIN entries' = {}
      BY <1>1
    <2>2. Planned' = [k \in {} |-> entries'[k].event]
      BY <2>1 DEF Planned
    <2>3. Planned' = <<>>
      BY <2>2
    <2> QED BY <2>3
  <1>3. Blank
    BY <1>1, <1>2 DEF Crash, Blank
  <1>4. Served'
    BY <1>1 DEF Served, Up
  <1> QED BY <1>1, <1>3, <1>4, BlankIsShaped DEF AppInv

(* What appending the planned entries does to the journal.                 *)
LEMMA AppendWrites ==
  ASSUME AppInv, AppendEntries
  PROVE  /\ InFlight /\ JournalOK(journal) /\ Planned \in Seq(Event)
         /\ seq \in Int /\ Len(Planned) \in 1..2
         /\ seq - Len(Planned) + 1 \in Nat /\ seq - Len(Planned) + 1 > 0
         /\ \A n \in DOMAIN journal : n < seq - Len(Planned) + 1
         /\ (seq - Len(Planned) + 1) + Len(Planned) - 1 = seq /\ seq <= MaxSeq
         /\ journal' = Written(journal, seq - Len(Planned) + 1, Planned)
         /\ world = StandsFor(journal)
         /\ stage' = "appended" /\ Planned' = Planned /\ Up' = Up /\ Up
         /\ UNCHANGED <<world, broker, seq, next_order_id, mode, todo>>
  <1> DEFINE count == Len(Planned)
             s == seq - count
             a == s + 1
  <1>1. InFlight /\ JournalOK(journal) /\ Planned \in Seq(Event) /\ Up /\ world = StandsFor(journal)
    BY DEF AppInv, Shaped, Served, AppendEntries
  <1>2. seq \in 0..MaxSeq /\ MaxSeq \in Nat /\ count \in 1..2 /\ count <= seq
    BY <1>1, BoundsAssumption DEF AppInv, Shaped, InFlight
  <1>3. entries = Numbered(s, Planned) /\ \A n \in DOMAIN journal : n <= s
    BY <1>1 DEF InFlight
  <1>4. DOMAIN journal \subseteq Nat
    BY <1>1, BoundsAssumption DEF JournalOK
  <1>5. /\ seq \in Int /\ s \in Nat /\ a \in Nat /\ a > 0 /\ a + count - 1 = seq
        /\ \A n \in DOMAIN journal : n < a
    <2> HIDE DEF count
    <2>1. s \in Nat /\ seq \in Int /\ count \in Int
      BY <1>2
    <2>2. a + count - 1 = seq
      BY <2>1
    <2> HIDE DEF s
    <2>3. \A n \in DOMAIN journal : n < s + 1
      BY <1>3, <1>4, <2>1
    <2> QED BY <2>1, <2>2, <2>3
  <1>6. /\ DOMAIN entries = 1..count
        /\ \A k \in 1..count : entries[k].seq = s + k /\ entries[k].event = Planned[k]
    BY <1>3 DEF Numbered
  <1>7. journal' = [n \in DOMAIN journal \cup {entries[k].seq : k \in DOMAIN entries} |->
                      IF n \in DOMAIN journal THEN journal[n]
                      ELSE Encode(entries[n - entries[1].seq + 1].event)]
    BY DEF AppendEntries
  <1>8. entries[1].seq = a
    BY <1>2, <1>6
  <1>9. {entries[k].seq : k \in DOMAIN entries} = {a + k - 1 : k \in 1..Len(Planned)}
    <2>1. \A k \in 1..count : s + k = a + k - 1
      BY <1>5
    <2> HIDE DEF a, s
    <2> QED BY <1>6, <2>1
  <1>10. ASSUME NEW n \in {a + k - 1 : k \in 1..Len(Planned)}
         PROVE  entries[n - a + 1].event = Planned[n - a + 1]
    <2>1. PICK k \in 1..count : n = a + k - 1
      OBVIOUS
    <2>2. n - a + 1 = k
      BY <1>5, <2>1
    <2> HIDE DEF a, s
    <2> QED BY <1>6, <2>1, <2>2
  <1>11. journal' = Written(journal, a, Planned)
    <2> HIDE DEF a, s
    <2> QED BY <1>7, <1>8, <1>9, <1>10 DEF Written
  <1>12. /\ stage' = "appended" /\ Planned' = Planned /\ Up' = Up
         /\ UNCHANGED <<world, broker, seq, next_order_id, mode, todo>>
    BY DEF AppendEntries, Planned, Up, vars
  <1> QED BY <1>1, <1>2, <1>5, <1>11, <1>12

LEMMA AppendCommits ==
  ASSUME DaysRead, AppInv, AppendEntries
  PROVE  /\ JournalOK(journal')
         /\ \A n \in DOMAIN journal' : n <= seq
         /\ StandsFor(journal') = Commit(world, Planned)
         /\ ReplayOk(LogOf(journal)) /\ CommitOk(world, Planned) => ReplayOk(LogOf(journal'))
         /\ LET a == seq - Len(Planned) + 1
                first == [seq |-> a, row |-> Encode(Planned[1])]
                second == [seq |-> a + 1, row |-> Encode(Planned[2])]
            IN  Entries(journal') = IF Len(Planned) = 1 THEN Append(Entries(journal), first)
                                    ELSE Append(Append(Entries(journal), first), second)
  <1> DEFINE a == seq - Len(Planned) + 1
  <1>1. /\ JournalOK(journal) /\ Planned \in Seq(Event) /\ Len(Planned) \in 1..2
        /\ a \in Nat /\ a > 0 /\ \A n \in DOMAIN journal : n < a
        /\ a + Len(Planned) - 1 = seq /\ seq <= MaxSeq
        /\ journal' = Written(journal, a, Planned) /\ world = StandsFor(journal)
    BY AppendWrites
  <1>2. \A k \in 1..Len(Planned) : RoundTrips(Planned[k])
    <2>1. \A k \in 1..Len(Planned) : Planned[k] \in Event
      BY <1>1
    <2> QED BY <2>1, PlannedReads
  <1>3. Len(Planned) = 2 => Applies(StandsFor(journal), Planned[1])
    BY <1>1, AppendWrites DEF InFlight
  <1> HIDE DEF a
  <1>4. a + Len(Planned) - 1 <= MaxSeq
    BY <1>1
  <1>5. /\ JournalOK(Written(journal, a, Planned))
        /\ \A n \in DOMAIN Written(journal, a, Planned) : n <= a + Len(Planned) - 1
        /\ StandsFor(Written(journal, a, Planned)) = Commit(StandsFor(journal), Planned)
        /\ ReplayOk(LogOf(journal)) /\ CommitOk(StandsFor(journal), Planned)
             => ReplayOk(LogOf(Written(journal, a, Planned)))
    BY <1>1, <1>2, <1>3, <1>4, WritingCommits
  <1>6. LET first == [seq |-> a, row |-> Encode(Planned[1])]
            second == [seq |-> a + 1, row |-> Encode(Planned[2])]
        IN  Entries(Written(journal, a, Planned))
              = IF Len(Planned) = 1 THEN Append(Entries(journal), first)
                ELSE Append(Append(Entries(journal), first), second)
    BY <1>1, <1>2, <1>3, <1>4, WritingCommits
  <1> QED BY <1>1, <1>5, <1>6 DEF a

LEMMA AppendKeepsInv ==
  ASSUME DaysRead, AppInv, AppendEntries
  PROVE  AppInv'
  <1>1. /\ InFlight /\ stage' = "appended" /\ Planned' = Planned /\ Up' /\ Up
        /\ Planned \in Seq(Event)
        /\ UNCHANGED <<world, broker, seq, next_order_id, mode, todo>>
    BY AppendWrites
  <1>2. /\ JournalOK(journal') /\ \A n \in DOMAIN journal' : n <= seq
        /\ StandsFor(journal') = Commit(world, Planned)
    BY AppendCommits
  <1>3. AppTyped'
    BY <1>1 DEF AppInv, Shaped, AppTyped
  <1>4. mode' # "clearing"
    BY <1>1 DEF Up
  <1>5. Shaped'
    BY <1>1, <1>2, <1>3, <1>4 DEF AppInv, Shaped
  <1>6. Served'
    <2>1. Unminted(Commit(world, Planned))
      BY <1>1 DEF InFlight
    <2>2. \A i \in Ids : i >= next_order_id => StandsFor(journal').orders[i] = None
      BY <1>2, <2>1, Zenon DEF Unminted
    <2>3. Unminted(StandsFor(journal))'
      BY <1>1, <2>2 DEF Unminted
    <2> QED BY <1>1, <1>2, <2>3 DEF Served
  <1> QED BY <1>1, <1>5, <1>6 DEF AppInv

LEMMA CommitKeepsInv ==
  ASSUME AppInv, CommitEntries
  PROVE  AppInv'
  <1>1. /\ world' = Commit(world, Planned) /\ stage = "appended" /\ stage' = "idle"
        /\ entries' = <<>> /\ todo' = (IF todo = <<>> THEN <<>> ELSE Tail(todo))
        /\ UNCHANGED <<broker, journal, seq, next_order_id, mode>>
    BY DEF CommitEntries, Planned
  <1>2. world' = StandsFor(journal) /\ JournalOK(journal)
    BY <1>1 DEF AppInv, Shaped, Served
  <1>3. world' \in World
    BY <1>2, JournalStands
  <1>4. Planned' \in Seq(Event)
    <2>1. DOMAIN entries' = {}
      BY <1>1
    <2>2. Planned' = [k \in {} |-> entries'[k].event]
      BY <2>1 DEF Planned
    <2>3. Planned' = <<>>
      BY <2>2
    <2> QED BY <2>3
  <1>5. todo' \in Seq(Symbols)
    <2>1. todo \in Seq(Symbols)
      BY DEF AppInv, Shaped, AppTyped
    <2> QED BY <1>1, <2>1
  <1>6. AppTyped'
    BY <1>1, <1>3, <1>5 DEF AppInv, Shaped, AppTyped
  <1>7. Up' = Up /\ Up /\ mode' = mode
    BY <1>1 DEF AppInv, Shaped, Up
  <1>8. Shaped'
    BY <1>1, <1>2, <1>4, <1>6, <1>7 DEF AppInv, Shaped
  <1>9. Served'
    <2>1. Unminted(StandsFor(journal))'
      BY <1>1, <1>7 DEF AppInv, Served, Unminted
    <2> QED BY <1>1, <1>2, <1>7, <2>1 DEF AppInv, Served
  <1> QED BY <1>1, <1>8, <1>9 DEF AppInv

LEMMA StutterKeepsInv ==
  ASSUME AppInv, UNCHANGED app_vars
  PROVE  AppInv'
  <1>1. UNCHANGED <<world, broker, journal, seq, next_order_id, entries, stage, mode, todo>>
    BY DEF app_vars, vars, process
  <1>2. Planned' = Planned /\ Up' = Up
    BY <1>1 DEF Planned, Up
  <1>3. Shaped' /\ Served'
    BY <1>1, <1>2 DEF AppInv, Shaped, AppTyped, Served, Unminted
  <1>4. InFlight => InFlight'
    BY <1>1, <1>2 DEF InFlight, Unminted
  <1> QED BY <1>1, <1>3, <1>4 DEF AppInv

LEMMA InvStarts == AppInit => AppInv
  <1> SUFFICES ASSUME AppInit PROVE AppInv
    OBVIOUS
  <1>1. /\ world = EmptyWorld /\ broker = FreshBroker /\ journal = <<>> /\ seq = 0
        /\ next_order_id = 1 /\ entries = <<>> /\ stage = "idle" /\ mode = "down" /\ todo = <<>>
    BY DEF AppInit, Init
  <1>2. MaxOrders \in Nat /\ MaxExecs \in Nat /\ MaxSeq \in Nat
    BY KeysAssumption, InputsAssumption, BoundsAssumption
  <1>3. Counted(FreshBroker, 1) /\ 1 \in 1..(MaxOrders + 1) /\ 0 \in 0..MaxSeq
    BY <1>2 DEF Counted, Counts, FreshBroker
  <1>4. AppTyped
    BY <1>1, <1>3, EmptyWorldTyped DEF AppTyped
  <1>5. Shaped
    BY <1>1, <1>3, <1>4, NoJournal, NothingPlanned DEF Shaped
  <1> QED BY <1>1, <1>5 DEF AppInv, Served, Up

LEMMA InvKept ==
  ASSUME DaysRead, AppInv, [AppNext]_app_vars
  PROVE  AppInv'
  <1>1. CASE Route \/ ApplySeed
    <2>1. PlanStep \/ RefusedStep
      BY <1>1, EveryCommandIsPlanned DEF AppInv, Shaped
    <2> QED BY <2>1, PlanKeepsInv, RefusalKeepsInv
  <1>2. CASE Boot
    BY <1>2, BootKeepsInv
  <1>3. CASE Serving
    BY <1>3, ServingKeepsInv
  <1>4. CASE ClearJournal
    BY <1>4, ClearKeepsInv
  <1>5. CASE Rebuild
    BY <1>5, RebuildKeepsInv
  <1>6. CASE AppendEntries
    BY <1>6, AppendKeepsInv
  <1>7. CASE AppendFails
    BY <1>7, FailureKeepsInv
  <1>8. CASE CommitEntries
    BY <1>8, CommitKeepsInv
  <1>9. CASE Crash
    BY <1>9, CrashKeepsInv
  <1>10. CASE UNCHANGED app_vars
    BY <1>10, StutterKeepsInv
  <1> QED
    BY <1>1, <1>2, <1>3, <1>4, <1>5, <1>6, <1>7, <1>8, <1>9, <1>10 DEF AppNext

-----------------------------------------------------------------------------
(* Through every crash, failed write, restart and reset, the process and   *)
(* its journal stay in step: memory is what the journal stands for, or one *)
(* appended command behind it (App::execute, App::open_with, App::reset).  *)
THEOREM AppSafety ==
  ASSUME DaysRead
  PROVE  AppSpec => []AppInv
  <1>1. AppInv /\ [AppNext]_app_vars => AppInv'
    BY InvKept
  <1> QED BY InvStarts, <1>1, PTL DEF AppSpec

(* Whatever the server is about to write reads back as what it meant, so   *)
(* no command it answers can stop a later boot (wire.rs, read_all).        *)
THEOREM PlannedEntriesAlwaysReadBack ==
  ASSUME DaysRead
  PROVE  AppSpec => []PlannedEntriesReadBack
  <1>1. AppInv => PlannedEntriesReadBack
    <2> SUFFICES ASSUME AppInv, NEW k \in DOMAIN entries
                 PROVE  RoundTrips(entries[k].event)
      BY DEF PlannedEntriesReadBack
    <2>1. Planned \in Seq(Event) /\ DOMAIN Planned = DOMAIN entries
      BY DEF AppInv, Shaped, Planned
    <2>2. Planned[k] = entries[k].event
      BY DEF Planned
    <2>3. Planned[k] \in Event
      BY <2>1
    <2> QED BY <2>2, <2>3, PlannedReads
  <1> QED BY <1>1, AppSafety, PTL

LEMMA JournalHasAWorld ==
  ASSUME JournalOK(journal)
  PROVE  Durable = StandsFor(journal)
  <1>1. {Replay(log) : log \in ReadAll(journal)} = {StandsFor(journal)}
    BY JournalReads DEF StandsFor
  <1> QED BY <1>1 DEF Durable

(* No sequence number and no order id of a row is given again, whatever    *)
(* failed writes, crashes and resets leave: ON CONFLICT DO NOTHING never   *)
(* swallows an entry, and the minter restarts above every order there is   *)
(* (SqliteLog::append, Engine::replay, App::open_with).                    *)
THEOREM NothingIsEverReissued ==
  ASSUME DaysRead
  PROVE  AppSpec => []NothingIsReissued
  <1>1. AppInv => NothingIsReissued
    <2> SUFFICES ASSUME AppInv PROVE NothingIsReissued
      OBVIOUS
    <2>1. JournalOK(journal) /\ seq \in 0..MaxSeq /\ MaxSeq \in Nat
      BY BoundsAssumption DEF AppInv, Shaped
    <2>2. Durable = StandsFor(journal)
      BY <2>1, JournalHasAWorld
    <2>3. LastSeq(journal) \in {0} \cup DOMAIN journal
      BY <2>1, LastSeqIsHighest
    <2>4. Up => LastSeq(journal) <= seq
      BY <2>1, <2>3 DEF AppInv, Served
    <2>5. ASSUME stage = "planned", NEW k \in DOMAIN entries
          PROVE  LastSeq(journal) < entries[k].seq
      <3> DEFINE count == Len(Planned)
      <3>1. InFlight
        BY <2>5 DEF AppInv
      <3>2. entries = Numbered(seq - count, Planned)
        BY <3>1 DEF InFlight
      <3>3. k \in 1..count /\ entries[k].seq = seq - count + k
        BY <3>2 DEF Numbered
      <3>4. count \in 1..2 /\ count <= seq /\ \A n \in DOMAIN journal : n <= seq - count
        BY <3>1 DEF InFlight
      <3> HIDE DEF count
      <3>5. seq \in Int /\ count \in Int /\ k \in Int /\ k >= 1
        BY <2>1, <3>3, <3>4
      <3>6. LastSeq(journal) <= seq - count /\ LastSeq(journal) \in Int
        BY <2>1, <2>3, <3>4, <3>5 DEF JournalOK
      <3> QED BY <3>3, <3>5, <3>6
    <2>6. OrderIdsAreNew
      BY <2>2 DEF AppInv, Served, Unminted, OrderIdsAreNew
    <2> QED BY <2>4, <2>5, <2>6 DEF NothingIsReissued, AppendsLand
  <1> QED BY <1>1, AppSafety, PTL

(* No planned fill takes the day's turnover past what a Notional holds.    *)
PlannedHasRoom == stage = "planned" => RoomForTurnover(world, Planned)

(* A boot gets through the whole journal.                                  *)
Replays == ReplayOk(LogOf(journal))

LEMMA NothingReplays == ReplayOk(<<>>)
  <1>1. Len(<<>>) = 0
    OBVIOUS
  <1> QED BY <1>1 DEF ReplayOk

LEMMA ReplaysKept ==
  ASSUME DaysRead, AppInv, PlannedHasRoom, Replays, [AppNext]_app_vars
  PROVE  Replays'
  <1>1. CASE AppendEntries
    <2>1. InFlight /\ stage = "planned"
      BY <1>1, AppendWrites DEF AppendEntries
    <2>2. CommitOk(world, Planned)
      BY <2>1 DEF InFlight, PlannedHasRoom
    <2> QED BY <1>1, <2>2, AppendCommits DEF Replays
  <1>2. CASE ClearJournal
    <2>1. journal' = <<>>
      BY <1>2 DEF ClearJournal
    <2> QED BY <2>1, NoJournal, NothingReplays DEF Replays
  <1>3. CASE UNCHANGED journal
    BY <1>3 DEF Replays
  <1>4. Route \/ ApplySeed => UNCHANGED journal
    <2> SUFFICES ASSUME Route \/ ApplySeed PROVE UNCHANGED journal
      OBVIOUS
    <2>1. PlanStep \/ RefusedStep
      BY EveryCommandIsPlanned DEF AppInv, Shaped
    <2> QED BY <2>1 DEF PlanStep, PlanCommand, RefusedStep
  <1> QED
    BY <1>1, <1>2, <1>3, <1>4
       DEF AppNext, Boot, Serving, Rebuild, AppendFails, CommitEntries, Crash, app_vars

(* As long as no planned fill overflows the day's turnover, the journal    *)
(* replays without an error and the server answers from what it replays    *)
(* to.  The one condition is the one under which the code commits a fill   *)
(* that its own replay refuses (Engine::apply's day_turnover).             *)
THEOREM ServedWorldIsAlwaysJournaled ==
  ASSUME DaysRead
  PROVE  AppSpec /\ []PlannedHasRoom => []ServedWorldIsJournaled
  <1>1. AppInit => Replays
    BY NoJournal, NothingReplays DEF AppInit, Replays
  <1>2. AppInv /\ PlannedHasRoom /\ Replays /\ [AppNext]_app_vars => Replays'
    BY ReplaysKept
  <1>3. AppInv /\ Replays => ServedWorldIsJournaled
    <2> SUFFICES ASSUME AppInv, Replays PROVE ServedWorldIsJournaled
      OBVIOUS
    <2>1. JournalOK(journal)
      BY DEF AppInv, Shaped
    <2>2. ReadAll(journal) = {LogOf(journal)} /\ Durable = StandsFor(journal)
      BY <2>1, JournalReads, JournalHasAWorld
    <2>3. \E log \in ReadAll(journal) : ReplayOk(log)
      BY <2>2 DEF Replays
    <2> QED BY <2>2, <2>3 DEF AppInv, Served, ServedWorldIsJournaled, Planned
  <1> QED BY <1>1, <1>2, <1>3, AppSafety, PTL DEF AppSpec

-----------------------------------------------------------------------------
(* What survives a crash changes by one whole command at a time, decided   *)
(* against the very world it changes, or by a reset: the server implements *)
(* the specification Atomic.  The seeds are offered like any other         *)
(* instrument, which is what SeedSpec \in Specs says.                      *)
THEOREM JournalIsAlwaysAtomic ==
  ASSUME DaysRead, SeedSpec \in Specs
  PROVE  AppSpec => JournalIsAtomic
  <1>1. AppInit => Promise!AtomicInit
    <2> SUFFICES ASSUME AppInit PROVE Durable = EmptyWorld
      BY DEF Promise!AtomicInit
    <2>1. journal = <<>>
      BY DEF AppInit
    <2> QED BY <2>1, NoJournal, NothingStands, JournalHasAWorld
  <1>2. AppInv /\ AppInv' /\ [AppNext]_app_vars
          => [Promise!AtomicReset \/ Promise!AtomicCommand]_Durable
    <2> SUFFICES ASSUME AppInv, AppInv', [AppNext]_app_vars, Durable' # Durable
                 PROVE  Durable' = EmptyWorld \/ Durable' \in Outcomes(Durable)
      BY DEF Promise!AtomicReset, Promise!AtomicCommand
    <2>1. JournalOK(journal) /\ JournalOK(journal')
      BY DEF AppInv, Shaped
    <2>2. Durable = StandsFor(journal)
      BY <2>1, JournalHasAWorld
    <2>3. Durable' = StandsFor(journal')
      <3>1. {Replay(log) : log \in ReadAll(journal')} = {StandsFor(journal')}
        BY <2>1, JournalReads DEF StandsFor
      <3> QED BY <3>1 DEF Durable
    <2>4. CASE AppendEntries
      <3>1. Durable' = Commit(world, Planned) /\ world = Durable /\ InFlight
        BY <2>2, <2>3, <2>4, AppendWrites, AppendCommits
      <3> QED BY <3>1 DEF InFlight
    <2>5. CASE ClearJournal
      BY <2>3, <2>5, NothingStands DEF ClearJournal
    <2>6. CASE ~ AppendEntries /\ ~ ClearJournal
      <3>1. Route \/ ApplySeed => UNCHANGED journal
        BY EveryCommandIsPlanned DEF AppInv, Shaped, PlanStep, PlanCommand, RefusedStep
      <3>2. UNCHANGED journal
        BY <2>6, <3>1
           DEF AppNext, Boot, Serving, Rebuild, AppendFails, CommitEntries, Crash, app_vars
      <3> QED BY <2>2, <2>3, <3>2
    <2> QED BY <2>4, <2>5, <2>6
  <1> QED BY <1>1, <1>2, AppSafety, PTL DEF AppSpec, JournalIsAtomic, Promise!AtomicSpec

-----------------------------------------------------------------------------
(* What a reader of the journal sees of one row more, and of two.          *)
LEMMA OneRowMore ==
  ASSUME NEW S, NEW rows \in Seq(S), NEW r \in S
  PROVE  LET more == Append(rows, r)
         IN  /\ more \in Seq(S) /\ Len(more) = Len(rows) + 1 /\ Len(rows) \in Nat
             /\ more[Len(rows) + 1] = r
             /\ SubSeq(more, 1, Len(rows)) = rows
  OBVIOUS

LEMMA ShorterStill ==
  ASSUME NEW S, NEW rows \in Seq(S), NEW m \in 0..Len(rows), NEW n \in 0..m
  PROVE  SubSeq(SubSeq(rows, 1, m), 1, n) = SubSeq(rows, 1, n)
  OBVIOUS

LEMMA OneRowExtends ==
  ASSUME NEW S, NEW rows \in Seq(S), NEW r \in S, Published!Newest(rows) < r.seq
  PROVE  LET more == Append(rows, r)
         IN  \A n \in Len(rows) + 1 .. Len(more) :
               Published!Newest(SubSeq(more, 1, n - 1)) < more[n].seq
  <1> DEFINE more == Append(rows, r)
  <1> SUFFICES ASSUME NEW n \in Len(rows) + 1 .. Len(more)
               PROVE  Published!Newest(SubSeq(more, 1, n - 1)) < more[n].seq
    OBVIOUS
  <1>1. n = Len(rows) + 1 /\ n - 1 = Len(rows) /\ more[n] = r
    BY OneRowMore
  <1>2. SubSeq(more, 1, n - 1) = rows
    BY <1>1, OneRowMore
  <1> QED BY <1>1, <1>2

LEMMA TwoRowsExtend ==
  ASSUME NEW S, NEW rows \in Seq(S), NEW r \in S, NEW s \in S,
         Published!Newest(rows) < r.seq, r.seq < s.seq
  PROVE  LET more == Append(Append(rows, r), s)
         IN  /\ Len(more) = Len(rows) + 2
             /\ SubSeq(more, 1, Len(rows)) = rows
             /\ \A n \in Len(rows) + 1 .. Len(more) :
                  Published!Newest(SubSeq(more, 1, n - 1)) < more[n].seq
  <1> DEFINE mid == Append(rows, r)
             more == Append(mid, s)
  <1>1. /\ mid \in Seq(S) /\ Len(mid) = Len(rows) + 1 /\ Len(rows) \in Nat
        /\ mid[Len(rows) + 1] = r /\ SubSeq(mid, 1, Len(rows)) = rows
    BY OneRowMore
  <1> HIDE DEF mid
  <1>2. /\ more \in Seq(S) /\ Len(more) = Len(mid) + 1 /\ more[Len(mid) + 1] = s
        /\ SubSeq(more, 1, Len(mid)) = mid
    BY <1>1, OneRowMore
  <1>3. \A k \in 1..Len(mid) : more[k] = mid[k]
    BY <1>1
  <1> HIDE DEF more
  <1>4. SubSeq(more, 1, Len(rows)) = rows
    <2>1. Len(mid) \in 0..Len(more) /\ Len(rows) \in 0..Len(mid)
      BY <1>1, <1>2
    <2> QED BY <1>1, <1>2, <2>1, ShorterStill
  <1>5. mid # <<>> /\ Published!Newest(mid) = r.seq
    BY <1>1 DEF Published!Newest
  <1>6. ASSUME NEW n \in Len(rows) + 1 .. Len(more)
        PROVE  Published!Newest(SubSeq(more, 1, n - 1)) < more[n].seq
    <2>1. n = Len(rows) + 1 \/ n = Len(rows) + 2
      BY <1>1, <1>2
    <2>2. CASE n = Len(rows) + 1
      <3>1. n - 1 = Len(rows) /\ more[n] = r
        BY <1>1, <1>3, <2>2
      <3> QED BY <1>4, <3>1
    <2>3. CASE n = Len(rows) + 2
      <3>1. n - 1 = Len(mid) /\ more[n] = s
        BY <1>1, <1>2, <2>3
      <3> QED BY <1>2, <1>5, <3>1
    <2> QED BY <2>1, <2>2, <2>3
  <1>7. Len(more) = Len(rows) + 2
    BY <1>1, <1>2
  <1> QED BY <1>4, <1>6, <1>7 DEF more, mid

(* Nothing the journal holds is newer than its highest number.             *)
LEMMA NewestIsBelow ==
  ASSUME NEW j, NEW a \in Int, a > 0, \A n \in DOMAIN j : n < a
  PROVE  Published!Newest(Entries(j)) < a
  <1> DEFINE rows == Entries(j)
  <1>1. rows \in Seq(RowsOf(j))
    BY EntriesTyped
  <1> HIDE DEF rows
  <1>2. CASE rows = <<>>
    <2>1. Published!Newest(rows) = 0
      BY <1>2 DEF Published!Newest
    <2> QED BY <2>1 DEF rows
  <1>3. CASE rows # <<>>
    <2>1. rows[Len(rows)] \in RowsOf(j)
      BY <1>1, <1>3
    <2>2. rows[Len(rows)].seq < a
      BY <2>1 DEF RowsOf, RowAt
    <2>3. Published!Newest(rows) = rows[Len(rows)].seq
      BY <1>3 DEF Published!Newest
    <2> QED BY <2>2, <2>3 DEF rows
  <1> QED BY <1>2, <1>3

LEMMA AppendExtends ==
  ASSUME DaysRead, AppInv, AppendEntries
  PROVE  Published!Extends
  <1> DEFINE a == seq - Len(Planned) + 1
             first == [seq |-> a, row |-> Encode(Planned[1])]
             second == [seq |-> a + 1, row |-> Encode(Planned[2])]
             rows == Entries(journal)
             more == Entries(journal')
             S == RowsOf(journal) \cup {first, second}
  <1>1. a \in Nat /\ a > 0 /\ (\A n \in DOMAIN journal : n < a) /\ Len(Planned) \in 1..2
    BY AppendWrites
  <1>2. more = IF Len(Planned) = 1 THEN Append(rows, first)
               ELSE Append(Append(rows, first), second)
    BY AppendCommits
  <1> HIDE DEF a
  <1>3. rows \in Seq(S) /\ first \in S /\ second \in S
    <2>1. rows \in Seq(RowsOf(journal))
      BY EntriesTyped
    <2> HIDE DEF rows, first, second
    <2> QED BY <2>1
  <1>4. Published!Newest(rows) < first.seq /\ first.seq < second.seq
    <2>1. Published!Newest(rows) < a
      BY <1>1, NewestIsBelow
    <2> HIDE DEF rows
    <2> QED BY <1>1, <2>1
  <1> HIDE DEF rows, more, first, second, S
  <1>5. /\ Len(more) \in {Len(rows) + 1, Len(rows) + 2}
        /\ SubSeq(more, 1, Len(rows)) = rows
        /\ \A n \in Len(rows) + 1 .. Len(more) :
             Published!Newest(SubSeq(more, 1, n - 1)) < more[n].seq
    <2>1. CASE Len(Planned) = 1
      <3>1. more = Append(rows, first)
        BY <1>2, <2>1
      <3>2. Len(more) = Len(rows) + 1 /\ SubSeq(more, 1, Len(rows)) = rows
        BY <1>3, <3>1, OneRowMore
      <3>3. \A n \in Len(rows) + 1 .. Len(more) :
              Published!Newest(SubSeq(more, 1, n - 1)) < more[n].seq
        BY <1>3, <1>4, <3>1, OneRowExtends
      <3> QED BY <3>2, <3>3
    <2>2. CASE Len(Planned) # 1
      <3>1. more = Append(Append(rows, first), second)
        BY <1>2, <2>2
      <3>2. /\ Len(more) = Len(rows) + 2 /\ SubSeq(more, 1, Len(rows)) = rows
            /\ \A n \in Len(rows) + 1 .. Len(more) :
                 Published!Newest(SubSeq(more, 1, n - 1)) < more[n].seq
        BY <1>3, <1>4, <3>1, TwoRowsExtend
      <3> QED BY <3>2
    <2> QED BY <2>1, <2>2
  <1> QED BY <1>5 DEF rows, more, Published!Extends

(* Whoever polls the journal with a cursor misses nothing: rows are only   *)
(* added past the newest, one or two at a time, until a reset takes them   *)
(* all.  The server implements the specification Feed, on which the        *)
(* cockpit is built (App::events_after).                                   *)
THEOREM JournalIsAlwaysAFeed ==
  ASSUME DaysRead
  PROVE  AppSpec => JournalIsAFeed
  <1>1. AppInit => Entries(journal) = <<>>
    BY NoEntries DEF AppInit
  <1>2. AppInv /\ [AppNext]_app_vars
          => [Published!Extends \/ Published!Clears]_(Entries(journal))
    <2> SUFFICES ASSUME AppInv, [AppNext]_app_vars
                 PROVE  Published!Extends \/ Published!Clears \/ UNCHANGED Entries(journal)
      OBVIOUS
    <2>1. CASE AppendEntries
      BY <2>1, AppendExtends
    <2>2. CASE ClearJournal
      BY <2>2, NoEntries DEF ClearJournal, Published!Clears
    <2>3. CASE ~ AppendEntries /\ ~ ClearJournal
      <3>1. Route \/ ApplySeed => UNCHANGED journal
        BY EveryCommandIsPlanned DEF AppInv, Shaped, PlanStep, PlanCommand, RefusedStep
      <3>2. UNCHANGED journal
        BY <2>3, <3>1
           DEF AppNext, Boot, Serving, Rebuild, AppendFails, CommitEntries, Crash, app_vars
      <3> QED BY <3>2
    <2> QED BY <2>1, <2>2, <2>3
  <1> QED BY <1>1, <1>2, AppSafety, PTL DEF AppSpec, JournalIsAFeed, Published!FeedSpec
=============================================================================
