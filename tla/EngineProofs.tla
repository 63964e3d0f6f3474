---------------------------- MODULE EngineProofs ----------------------------
(***************************************************************************)
(* What TLAPS proves of the engine, for every number of participants,      *)
(* symbols, orders and days and every set of inputs: first that every      *)
(* command keeps the world's shape, then what a command does to the world, *)
(* and that what it plans applies.                                         *)
(***************************************************************************)
EXTENDS EngineProperties, CountingProofs

-----------------------------------------------------------------------------
(***************************************************************************)
(* The fold.  An event of the right shape takes a world to a world.        *)
(***************************************************************************)
CreatedEvent == [kind : {"ParticipantCreated"}, participant : Participants, starting_cash : Int]
SubmittedEvent == [kind : {"OrderSubmitted"}, id : Ids, order : Terms]
AcknowledgedEvent == [kind : {"OrderAcknowledged"}, id : Ids, broker_id : Int]
RejectedEvent == [kind : {"OrderRejected"}, id : Ids, reason : Reasons]
CancelledEvent == [kind : {"OrderCancelled"}, id : Ids]
ReplacedEvent == [kind : {"OrderReplaced"}, original : Ids, id : Ids, replacement : Terms]
FilledEvent == [kind : {"OrderFilled"}, id : Ids, exec_id : Int, qty : Nat, px : Pxs, fee : Int]
MarkEvent == [kind : {"MarkUpdated"}, symbol : Symbols, px : Pxs]
UpsertedEvent == [kind : {"InstrumentUpserted"}, symbol : Symbols, spec : InstrumentSpec]
RemovedEvent == [kind : {"InstrumentRemoved"}, symbol : Symbols]
ClosedEvent == [kind : {"DayClosed"}, day : Days, entries : [Participants -> DayInput \cup {None}]]

Event == UNION {CreatedEvent, SubmittedEvent, AcknowledgedEvent, RejectedEvent,
                CancelledEvent, ReplacedEvent, FilledEvent, MarkEvent,
                UpsertedEvent, RemovedEvent, ClosedEvent}

LEMMA EmptyWorldTyped == EmptyWorld \in World
  BY DEF EmptyWorld, World

LEMMA NewTyped == New \in OrderState
  BY DEF New, OrderState, States, Live, Terminal

LEMMA SubmittedTyped ==
  ASSUME NEW t \in Terms, NEW original \in Ids \cup {None}
  PROVE  Submitted(t, original) \in Order
  BY NewTyped DEF Submitted, Terms, Order

LEMMA TransitionsTyped ==
  ASSUME NEW s \in OrderState
  PROVE  /\ \A id \in Int : Acknowledge(s, id) \in OrderState
         /\ \A why \in Reasons : Reject(s, why) \in OrderState
         /\ Cancel(s) \in OrderState
         /\ \A ordered \in Nat, qty \in Nat, px \in Pxs : Fill(s, ordered, qty, px) \in OrderState
  <1>1. \A id \in Int : Acknowledge(s, id) \in OrderState
    BY DEF OrderState, States, Live, Acknowledge
  <1>2. \A why \in Reasons : Reject(s, why) \in OrderState
    BY DEF OrderState, States, Terminal, Reject
  <1>3. Cancel(s) \in OrderState
    BY DEF OrderState, States, Terminal, Cancel
  <1>4. ASSUME NEW ordered \in Nat, NEW qty \in Nat, NEW px \in Pxs
        PROVE  Fill(s, ordered, qty, px) \in OrderState
    <2>1. s.cost + Notional(px, qty) \in Int
      BY DEF OrderState, Notional, Pxs
    <2>2. s.filled + qty \in Nat
      BY DEF OrderState
    <2> QED BY <2>1, <2>2 DEF OrderState, States, Live, Terminal, Fill
  <1> QED BY <1>1, <1>2, <1>3, <1>4

LEMMA AdvanceTyped ==
  ASSUME NEW w \in World, NEW i \in Ids, w.orders[i] # None, NEW s \in OrderState
  PROVE  /\ w.orders[i] \in Order
         /\ w.orders[i].state \in OrderState
         /\ Advance(w.orders, i, s) \in [Ids -> Order \cup {None}]
  <1>1. w.orders \in [Ids -> Order \cup {None}]
    BY DEF World
  <1>2. w.orders[i] \in Order
    BY <1>1
  <1>3. [w.orders[i] EXCEPT !.state = s] \in Order
    BY <1>2 DEF Order
  <1> QED BY <1>1, <1>2, <1>3 DEF Advance, Order

-----------------------------------------------------------------------------
LEMMA CostRemovedTyped ==
  ASSUME NEW cost \in Int, NEW sold \in Nat, NEW held \in Nat, held > 0
  PROVE  CostRemoved(cost, sold, held) \in Int
  BY DEF CostRemoved

LEMMA BookFillTyped ==
  ASSUME NEW b \in Book, NEW f, f.symbol \in Symbols, f.side \in Sides,
         f.qty \in Nat, f.qty > 0, f.px \in Pxs, f.fee \in Int, BookAccepts(b, f)
  PROVE  BookFill(b, f) \in Book
  <1> DEFINE pos == b.positions[f.symbol]
  <1>1. /\ b.positions \in [Symbols -> Position] /\ pos \in Position
        /\ pos.qty \in Nat /\ pos.cost \in Int
        /\ b.cash \in Int /\ b.realized_pnl \in Int /\ b.fees_paid \in Int
    BY DEF Book, Position
  <1>2. Notional(f.px, f.qty) \in Int
    BY DEF Notional, Pxs
  <1>3. CASE f.side = "Buy"
    <2>1. Outlay(f) \in Int
      BY <1>2 DEF Outlay
    <2>2. Bought(pos, f.qty, Outlay(f)) \in Position
      BY <1>1, <2>1 DEF Bought, Position
    <2>3. [b.positions EXCEPT ![f.symbol] = Bought(pos, f.qty, Outlay(f))]
             \in [Symbols -> Position]
      BY <1>1, <2>2
    <2> DEFINE cash == b.cash - Outlay(f)
               fees == b.fees_paid + f.fee
               positions == [b.positions EXCEPT ![f.symbol] = Bought(pos, f.qty, Outlay(f))]
    <2>4. cash \in Int /\ fees \in Int /\ positions \in [Symbols -> Position]
      BY <1>1, <2>1, <2>3
    <2>5. Buy(b, f) = [b EXCEPT !.cash = cash, !.fees_paid = fees, !.positions = positions]
      BY DEF Buy
    <2> HIDE DEF cash, fees, positions
    <2> QED BY <1>3, <2>4, <2>5 DEF BookFill, Book
  <1>4. CASE f.side = "Sell"
    <2>1. f.qty <= pos.qty
      BY <1>4 DEF BookAccepts, SellAccepts
    <2>2. Removed(b, f) \in Int
      BY <1>1, <2>1, CostRemovedTyped DEF Removed
    <2>3. ProceedsNet(f) \in Int /\ Pnl(b, f) \in Int
      BY <1>2, <2>2 DEF ProceedsNet, Pnl
    <2>4. Sold(pos, f.qty, Removed(b, f)) \in Position
      BY <1>1, <2>1, <2>2 DEF Sold, Position
    <2>5. [b.positions EXCEPT ![f.symbol] = Sold(pos, f.qty, Removed(b, f))]
             \in [Symbols -> Position]
      BY <1>1, <2>4
    <2> DEFINE cash == b.cash + ProceedsNet(f)
               pnl == b.realized_pnl + Pnl(b, f)
               fees == b.fees_paid + f.fee
               positions == [b.positions EXCEPT ![f.symbol] = Sold(pos, f.qty, Removed(b, f))]
    <2>6. /\ cash \in Int /\ pnl \in Int /\ fees \in Int
          /\ positions \in [Symbols -> Position]
      BY <1>1, <2>3, <2>5
    <2>7. Sell(b, f) = [b EXCEPT !.cash = cash, !.realized_pnl = pnl, !.fees_paid = fees,
                                 !.positions = positions]
      BY DEF Sell
    <2> HIDE DEF cash, pnl, fees, positions
    <2> QED BY <1>4, <2>6, <2>7 DEF BookFill, Book
  <1> QED BY <1>3, <1>4 DEF Sides

-----------------------------------------------------------------------------
(* Replacing one map of a world keeps the others.                          *)
LEMMA WorldFields ==
  ASSUME NEW w \in World
  PROVE  /\ w.participants \in [Participants -> Book \cup {None}]
         /\ w.orders \in [Ids -> Order \cup {None}]
         /\ w.marks \in [Symbols -> Pxs \cup {None}]
         /\ w.instruments \in [Symbols -> InstrumentSpec \cup {None}]
         /\ w.order_broker_ids \in [Ids -> Int \cup {None}]
         /\ w.order_executions \in [Ids -> Seq(Execution)]
         /\ w.order_fees \in [Ids -> Int]
         /\ w.day_turnover \in [Participants -> Int]
         /\ w.day_fills \in [Participants -> Nat]
         /\ w.last_close \in [Participants -> Int \cup {None}]
         /\ w.closed \in [Days -> [Participants -> DayInput \cup {None}] \cup {None}]
  BY DEF World

(* What a fill's event says, and the order it is about.                    *)
LEMMA FillFacts ==
  ASSUME NEW w \in World, NEW e \in FilledEvent, w.orders[e.id] # None
  PROVE  /\ e.id \in Ids /\ e.exec_id \in Int /\ e.qty \in Nat /\ e.px \in Pxs /\ e.fee \in Int
         /\ w.orders[e.id] \in Order
         /\ w.orders[e.id].qty \in Nat /\ w.orders[e.id].state \in OrderState
         /\ Trader(w, e.id) \in Participants
         /\ FillOf(w, e).symbol \in Symbols /\ FillOf(w, e).side \in Sides
         /\ FillOf(w, e).qty = e.qty /\ FillOf(w, e).px = e.px /\ FillOf(w, e).fee = e.fee
  <1>1. e.id \in Ids /\ e.exec_id \in Int /\ e.qty \in Nat /\ e.px \in Pxs /\ e.fee \in Int
    BY DEF FilledEvent
  <1>2. w.orders[e.id] \in Order
    BY <1>1, WorldFields
  <1> QED BY <1>1, <1>2 DEF Order, Trader, FillOf

LEMMA FillOrderTyped ==
  ASSUME NEW w \in World, NEW e \in FilledEvent, w.orders[e.id] # None
  PROVE  /\ FillOrder(w, e) \in World
         /\ FillOrder(w, e).orders[e.id] # None
         /\ FillOrder(w, e).participants = w.participants
         /\ Trader(FillOrder(w, e), e.id) = Trader(w, e.id)
         /\ FillOf(FillOrder(w, e), e) = FillOf(w, e)
  <1> DEFINE o == w.orders[e.id]
             state == Fill(o.state, o.qty, e.qty, e.px)
             orders == Advance(w.orders, e.id, state)
             u == FillOrder(w, e)
  <1>1. state \in OrderState
    BY FillFacts, TransitionsTyped
  <1>2. orders \in [Ids -> Order \cup {None}]
    BY <1>1, FillFacts, AdvanceTyped
  <1>3. u = [w EXCEPT !.orders = orders]
    BY DEF FillOrder
  <1>4. orders[e.id] = [o EXCEPT !.state = state]
    BY FillFacts, WorldFields DEF Advance
  <1>5. /\ orders[e.id].participant = o.participant
        /\ orders[e.id].symbol = o.symbol
        /\ orders[e.id].side = o.side
        /\ orders[e.id] \in Order
    BY <1>1, <1>4, FillFacts DEF Order
  <1> HIDE DEF orders, state
  <1>6. u.orders = orders /\ u.participants = w.participants /\ u \in World
    BY <1>2, <1>3 DEF World
  <1>7. orders[e.id] # None
    BY <1>5, NoneAssumption
  <1> QED
    BY <1>5, <1>6, <1>7 DEF Trader, FillOf

LEMMA FillBookTyped ==
  ASSUME NEW w \in World, NEW e \in FilledEvent, w.orders[e.id] # None, e.qty > 0,
         BookTakes(w, e)
  PROVE  /\ FillBook(w, e) \in World
         /\ FillBook(w, e).orders = w.orders
  <1> DEFINE p == Trader(w, e.id)
             participants == [w.participants EXCEPT ![p] =
                                BookFill(w.participants[p], FillOf(w, e))]
  <1>1. w.participants[p] \in Book
    BY FillFacts, WorldFields DEF BookTakes
  <1>2. BookFill(w.participants[p], FillOf(w, e)) \in Book
    BY <1>1, FillFacts, BookFillTyped DEF BookTakes
  <1>3. participants \in [Participants -> Book \cup {None}]
    BY <1>2, FillFacts, WorldFields
  <1>4. FillBook(w, e) = [w EXCEPT !.participants = participants]
    BY DEF FillBook
  <1> HIDE DEF participants
  <1> QED BY <1>3, <1>4 DEF World

LEMMA FillTapeTyped ==
  ASSUME NEW w \in World, NEW e \in FilledEvent, w.orders[e.id] # None
  PROVE  FillTape(w, e) \in World
  <1> DEFINE p == Trader(w, e.id)
             turnover == [w.day_turnover EXCEPT ![p] = Traded(w, e)]
             fills == [w.day_fills EXCEPT ![p] = w.day_fills[p] + 1]
             fees == [w.order_fees EXCEPT ![e.id] = w.order_fees[e.id] + e.fee]
             rows == [w.order_executions EXCEPT ![e.id] =
                        Append(w.order_executions[e.id], Row(e))]
  <1>1. turnover \in [Participants -> Int]
    BY FillFacts, WorldFields DEF Traded, Notional, Pxs
  <1>2. fills \in [Participants -> Nat] /\ fees \in [Ids -> Int]
    BY FillFacts, WorldFields
  <1>3. rows \in [Ids -> Seq(Execution)]
    <2>1. Row(e) \in Execution
      BY FillFacts DEF Row, Execution
    <2>2. Append(w.order_executions[e.id], Row(e)) \in Seq(Execution)
      BY <2>1, FillFacts, WorldFields
    <2> QED BY <2>2, FillFacts, WorldFields
  <1>4. FillTape(w, e) = [w EXCEPT !.day_turnover = turnover, !.day_fills = fills,
                                   !.order_fees = fees, !.order_executions = rows]
    BY DEF FillTape
  <1> HIDE DEF turnover, fills, fees, rows
  <1> QED BY <1>1, <1>2, <1>3, <1>4, ZenonT(30) DEF World

LEMMA FilledTyped ==
  ASSUME NEW w \in World, NEW e \in FilledEvent, OrderTakes(w, e)
  PROVE  ApplyFilled(w, e) \in World
  <1> DEFINE u == FillOrder(w, e)
  <1>1. w.orders[e.id] # None /\ e.qty > 0
    BY DEF OrderTakes, CanFill
  <1>2. u \in World /\ u.orders[e.id] # None
    BY <1>1, FillOrderTyped
  <1>3. ASSUME BookTakes(w, e)
        PROVE  FillBook(u, e) \in World /\ FillBook(u, e).orders[e.id] # None
    <2>1. BookTakes(u, e)
      BY <1>1, <1>3, FillOrderTyped DEF BookTakes
    <2> QED BY <1>1, <1>2, <2>1, FillBookTyped
  <1>4. ASSUME BookTakes(w, e)
        PROVE  FillTape(FillBook(u, e), e) \in World
    BY <1>3, <1>4, FillTapeTyped
  <1> QED BY <1>2, <1>3, <1>4 DEF ApplyFilled

LEMMA ClosedTyped ==
  ASSUME NEW w \in World, NEW e \in ClosedEvent
  PROVE  ApplyDayClosed(w, e) \in World
  <1> DEFINE last == [p \in Participants |->
                        IF e.entries[p] = None THEN w.last_close[p]
                        ELSE e.entries[p].closing_value]
             closed == [w.closed EXCEPT ![e.day] = e.entries]
             zeros == [p \in Participants |-> 0]
  <1>1. e.day \in Days /\ e.entries \in [Participants -> DayInput \cup {None}]
    BY DEF ClosedEvent
  <1>2. last \in [Participants -> Int \cup {None}]
    BY <1>1, WorldFields DEF DayInput
  <1>3. closed \in [Days -> [Participants -> DayInput \cup {None}] \cup {None}]
    BY <1>1, WorldFields
  <1>4. zeros \in [Participants -> Int] /\ zeros \in [Participants -> Nat]
    OBVIOUS
  <1>5. ApplyDayClosed(w, e) = [w EXCEPT !.last_close = last, !.closed = closed,
                                         !.day_turnover = zeros, !.day_fills = zeros]
    BY DEF ApplyDayClosed
  <1> HIDE DEF last, closed, zeros
  <1> QED BY <1>2, <1>3, <1>4, <1>5, ZenonT(30) DEF World

LEMMA ApplyTyped ==
  ASSUME NEW w \in World, NEW e \in Event
  PROVE  Apply(w, e) \in World
  <1>1. CASE e \in CreatedEvent
    <2> DEFINE participants == [w.participants EXCEPT ![e.participant] = Open(e.starting_cash)]
    <2>1. e.kind = "ParticipantCreated" /\ e.participant \in Participants /\ e.starting_cash \in Int
      BY <1>1 DEF CreatedEvent
    <2>2. Open(e.starting_cash) \in Book
      BY <2>1 DEF Open, Book, Flat, Position
    <2>3. participants \in [Participants -> Book \cup {None}]
      BY <2>1, <2>2, WorldFields
    <2>4. Apply(w, e) = [w EXCEPT !.participants = participants]
      BY <2>1 DEF Apply
    <2> HIDE DEF participants
    <2> QED BY <2>3, <2>4 DEF World
  <1>2. CASE e \in SubmittedEvent
    <2> DEFINE orders == [w.orders EXCEPT ![e.id] = Submitted(e.order, None)]
    <2>1. e.kind = "OrderSubmitted" /\ e.id \in Ids /\ e.order \in Terms
      BY <1>2 DEF SubmittedEvent
    <2>2. orders \in [Ids -> Order \cup {None}]
      BY <2>1, SubmittedTyped, WorldFields
    <2>3. Apply(w, e) = [w EXCEPT !.orders = orders]
      BY <2>1 DEF Apply
    <2> HIDE DEF orders
    <2> QED BY <2>2, <2>3 DEF World
  <1>3. CASE e \in AcknowledgedEvent
    <2> DEFINE state == Acknowledge(w.orders[e.id].state, e.broker_id)
               orders == Advance(w.orders, e.id, state)
               ids == [w.order_broker_ids EXCEPT ![e.id] = e.broker_id]
    <2>1. e.kind = "OrderAcknowledged" /\ e.id \in Ids /\ e.broker_id \in Int
      BY <1>3 DEF AcknowledgedEvent
    <2>2. CASE ~ Applies(w, e)
      BY <2>1, <2>2 DEF Apply
    <2>3. CASE Applies(w, e)
      <3>1. w.orders[e.id] # None
        BY <2>1, <2>3 DEF Applies
      <3>2. w.orders[e.id].state \in OrderState
        BY <2>1, <3>1, WorldFields DEF Order
      <3>3. orders \in [Ids -> Order \cup {None}]
        BY <2>1, <3>1, <3>2, TransitionsTyped, AdvanceTyped
      <3>4. ids \in [Ids -> Int \cup {None}]
        BY <2>1, WorldFields
      <3>5. Apply(w, e) = [w EXCEPT !.orders = orders, !.order_broker_ids = ids]
        BY <2>1, <2>3 DEF Apply, ApplyAcknowledged
      <3> HIDE DEF orders, ids
      <3> QED BY <3>3, <3>4, <3>5 DEF World
    <2> QED BY <2>2, <2>3
  <1>4. CASE e \in RejectedEvent
    <2> DEFINE orders == Advance(w.orders, e.id, Reject(w.orders[e.id].state, e.reason))
    <2>1. e.kind = "OrderRejected" /\ e.id \in Ids /\ e.reason \in Reasons
      BY <1>4 DEF RejectedEvent
    <2>2. CASE ~ Applies(w, e)
      BY <2>1, <2>2 DEF Apply
    <2>3. CASE Applies(w, e)
      <3>1. w.orders[e.id] # None
        BY <2>1, <2>3 DEF Applies
      <3>2. w.orders[e.id].state \in OrderState
        BY <2>1, <3>1, WorldFields DEF Order
      <3>3. orders \in [Ids -> Order \cup {None}]
        BY <2>1, <3>1, <3>2, TransitionsTyped, AdvanceTyped
      <3>4. Apply(w, e) = [w EXCEPT !.orders = orders]
        BY <2>1, <2>3 DEF Apply, ApplyRejected
      <3> HIDE DEF orders
      <3> QED BY <3>3, <3>4 DEF World
    <2> QED BY <2>2, <2>3
  <1>5. CASE e \in CancelledEvent
    <2> DEFINE orders == Advance(w.orders, e.id, Cancel(w.orders[e.id].state))
    <2>1. e.kind = "OrderCancelled" /\ e.id \in Ids
      BY <1>5 DEF CancelledEvent
    <2>2. CASE ~ Applies(w, e)
      BY <2>1, <2>2 DEF Apply
    <2>3. CASE Applies(w, e)
      <3>1. w.orders[e.id] # None
        BY <2>1, <2>3 DEF Applies
      <3>2. w.orders[e.id].state \in OrderState
        BY <2>1, <3>1, WorldFields DEF Order
      <3>3. orders \in [Ids -> Order \cup {None}]
        BY <2>1, <3>1, <3>2, TransitionsTyped, AdvanceTyped
      <3>4. Apply(w, e) = [w EXCEPT !.orders = orders]
        BY <2>1, <2>3 DEF Apply, ApplyCancelled
      <3> HIDE DEF orders
      <3> QED BY <3>3, <3>4 DEF World
    <2> QED BY <2>2, <2>3
  <1>6. CASE e \in ReplacedEvent
    <2> DEFINE advanced == Advance(w.orders, e.original, Cancel(w.orders[e.original].state))
               orders == [advanced EXCEPT ![e.id] = Submitted(e.replacement, e.original)]
    <2>1. /\ e.kind = "OrderReplaced" /\ e.original \in Ids /\ e.id \in Ids
          /\ e.replacement \in Terms
      BY <1>6 DEF ReplacedEvent
    <2>2. CASE ~ Applies(w, e)
      BY <2>1, <2>2 DEF Apply
    <2>3. CASE Applies(w, e)
      <3>1. w.orders[e.original] # None
        BY <2>1, <2>3 DEF Applies
      <3>2. w.orders[e.original].state \in OrderState
        BY <2>1, <3>1, WorldFields DEF Order
      <3>3. advanced \in [Ids -> Order \cup {None}]
        BY <2>1, <3>1, <3>2, TransitionsTyped, AdvanceTyped
      <3>4. orders \in [Ids -> Order \cup {None}]
        BY <2>1, <3>3, SubmittedTyped
      <3>5. Apply(w, e) = [w EXCEPT !.orders = orders]
        BY <2>1, <2>3 DEF Apply, ApplyReplaced
      <3> HIDE DEF advanced, orders
      <3> QED BY <3>4, <3>5 DEF World
    <2> QED BY <2>2, <2>3
  <1>7. CASE e \in FilledEvent
    <2>1. e.kind = "OrderFilled"
      BY <1>7 DEF FilledEvent
    <2>2. CASE ~ OrderTakes(w, e)
      BY <2>1, <2>2 DEF Apply
    <2>3. CASE OrderTakes(w, e)
      <3>1. Apply(w, e) = ApplyFilled(w, e)
        BY <2>1, <2>3 DEF Apply
      <3> QED BY <1>7, <2>3, <3>1, FilledTyped
    <2> QED BY <2>2, <2>3
  <1>8. CASE e \in MarkEvent
    <2> DEFINE marks == [w.marks EXCEPT ![e.symbol] = e.px]
    <2>1. e.kind = "MarkUpdated" /\ e.symbol \in Symbols /\ e.px \in Pxs
      BY <1>8 DEF MarkEvent
    <2>2. marks \in [Symbols -> Pxs \cup {None}]
      BY <2>1, WorldFields
    <2>3. Apply(w, e) = [w EXCEPT !.marks = marks]
      BY <2>1 DEF Apply
    <2> HIDE DEF marks
    <2> QED BY <2>2, <2>3 DEF World
  <1>9. CASE e \in UpsertedEvent
    <2> DEFINE instruments == [w.instruments EXCEPT ![e.symbol] = e.spec]
    <2>1. e.kind = "InstrumentUpserted" /\ e.symbol \in Symbols /\ e.spec \in InstrumentSpec
      BY <1>9 DEF UpsertedEvent
    <2>2. instruments \in [Symbols -> InstrumentSpec \cup {None}]
      BY <2>1, WorldFields
    <2>3. Apply(w, e) = [w EXCEPT !.instruments = instruments]
      BY <2>1 DEF Apply
    <2> HIDE DEF instruments
    <2> QED BY <2>2, <2>3 DEF World
  <1>10. CASE e \in RemovedEvent
    <2> DEFINE instruments == [w.instruments EXCEPT ![e.symbol] = None]
    <2>1. e.kind = "InstrumentRemoved" /\ e.symbol \in Symbols
      BY <1>10 DEF RemovedEvent
    <2>2. instruments \in [Symbols -> InstrumentSpec \cup {None}]
      BY <2>1, WorldFields
    <2>3. Apply(w, e) = [w EXCEPT !.instruments = instruments]
      BY <2>1 DEF Apply
    <2> HIDE DEF instruments
    <2> QED BY <2>2, <2>3 DEF World
  <1>11. CASE e \in ClosedEvent
    <2>1. e.kind = "DayClosed"
      BY <1>11 DEF ClosedEvent
    <2>2. Apply(w, e) = ApplyDayClosed(w, e)
      BY <2>1 DEF Apply
    <2> QED BY <1>11, <2>2, ClosedTyped
  <1> QED
    BY <1>1, <1>2, <1>3, <1>4, <1>5, <1>6, <1>7, <1>8, <1>9, <1>10, <1>11 DEF Event

LEMMA AtMostTwo == \A n \in Nat : n <= 2 => n = 0 \/ n = 1 \/ n = 2
  OBVIOUS

LEMMA CommitTyped ==
  ASSUME NEW w \in World, NEW events \in Seq(Event), Len(events) <= 2
  PROVE  Commit(w, events) \in World
  <1>1. CASE Len(events) = 0
    BY <1>1 DEF Commit
  <1>2. CASE Len(events) = 1
    BY <1>2, ApplyTyped DEF Commit
  <1>3. CASE Len(events) = 2
    <2>1. events[1] \in Event /\ events[2] \in Event
      BY <1>3
    <2>2. Apply(w, events[1]) \in World
      BY <2>1, ApplyTyped
    <2>3. Apply(Apply(w, events[1]), events[2]) \in World
      BY <2>1, <2>2, ApplyTyped
    <2>4. Commit(w, events) \in {Apply(w, events[1]), Apply(Apply(w, events[1]), events[2])}
      BY <1>3 DEF Commit
    <2> QED BY <2>2, <2>3, <2>4
  <1>4. Len(events) = 0 \/ Len(events) = 1 \/ Len(events) = 2
    <2>1. Len(events) \in Nat
      OBVIOUS
    <2> QED BY <2>1, AtMostTwo
  <1> QED BY <1>1, <1>2, <1>3, <1>4

-----------------------------------------------------------------------------
(***************************************************************************)
(* The commands.  Every plan holds at most two well-formed events and      *)
(* leaves a well-formed broker.                                            *)
(***************************************************************************)
PlanOK(plan) ==
  /\ plan.events \in Seq(Event)
  /\ Len(plan.events) <= 2
  /\ plan.broker \in Broker

LEMMA EventsTyped ==
  /\ \A p \in Participants, cash \in Int : ParticipantCreated(p, cash) \in Event
  /\ \A i \in Ids, t \in Terms : OrderSubmitted(i, t) \in Event
  /\ \A i \in Ids, b \in Int : OrderAcknowledged(i, b) \in Event
  /\ \A i \in Ids, why \in Reasons : OrderRejected(i, why) \in Event
  /\ \A i \in Ids : OrderCancelled(i) \in Event
  /\ \A i, j \in Ids, t \in Terms : OrderReplaced(i, j, t) \in Event
  /\ \A i \in Ids, x \in Int, q \in Nat, px \in Pxs, fee \in Int :
       OrderFilled(i, x, q, px, fee) \in FilledEvent
  /\ FilledEvent \subseteq Event
  /\ \A s \in Symbols, px \in Pxs : MarkUpdated(s, px) \in Event
  /\ \A s \in Symbols, spec \in InstrumentSpec : InstrumentUpserted(s, spec) \in Event
  /\ \A s \in Symbols : InstrumentRemoved(s) \in Event
  /\ \A d \in Days, entries \in [Participants -> DayInput \cup {None}] :
       DayClosed(d, entries) \in Event
  <1>1. \A p \in Participants, cash \in Int : ParticipantCreated(p, cash) \in CreatedEvent
    BY DEF ParticipantCreated, CreatedEvent
  <1>2. \A i \in Ids, t \in Terms : OrderSubmitted(i, t) \in SubmittedEvent
    BY DEF OrderSubmitted, SubmittedEvent
  <1>3. \A i \in Ids, b \in Int : OrderAcknowledged(i, b) \in AcknowledgedEvent
    BY DEF OrderAcknowledged, AcknowledgedEvent
  <1>4. \A i \in Ids, why \in Reasons : OrderRejected(i, why) \in RejectedEvent
    BY DEF OrderRejected, RejectedEvent
  <1>5. \A i \in Ids : OrderCancelled(i) \in CancelledEvent
    BY DEF OrderCancelled, CancelledEvent
  <1>6. \A i, j \in Ids, t \in Terms : OrderReplaced(i, j, t) \in ReplacedEvent
    BY DEF OrderReplaced, ReplacedEvent
  <1>7. \A i \in Ids, x \in Int, q \in Nat, px \in Pxs, fee \in Int :
          OrderFilled(i, x, q, px, fee) \in FilledEvent
    BY DEF OrderFilled, FilledEvent
  <1>8. \A s \in Symbols, px \in Pxs : MarkUpdated(s, px) \in MarkEvent
    BY DEF MarkUpdated, MarkEvent
  <1>9. \A s \in Symbols, spec \in InstrumentSpec : InstrumentUpserted(s, spec) \in UpsertedEvent
    BY DEF InstrumentUpserted, UpsertedEvent
  <1>10. \A s \in Symbols : InstrumentRemoved(s) \in RemovedEvent
    BY DEF InstrumentRemoved, RemovedEvent
  <1>11. \A d \in Days, entries \in [Participants -> DayInput \cup {None}] :
           DayClosed(d, entries) \in ClosedEvent
    BY DEF DayClosed, ClosedEvent
  <1> QED
    BY <1>1, <1>2, <1>3, <1>4, <1>5, <1>6, <1>7, <1>8, <1>9, <1>10, <1>11, Zenon DEF Event

LEMMA OneEventPlan ==
  ASSUME NEW e \in Event, NEW b \in Broker
  PROVE  PlanOK(Plan(<<e>>, b))
  BY DEF PlanOK, Plan

LEMMA TwoEventPlan ==
  ASSUME NEW e \in Event, NEW f \in Event, NEW b \in Broker
  PROVE  PlanOK(Plan(<<e, f>>, b))
  BY DEF PlanOK, Plan

LEMMA EmptyPlan ==
  ASSUME NEW b \in Broker
  PROVE  PlanOK(Plan(<<>>, b))
  BY DEF PlanOK, Plan

LEMMA BrokerTyped ==
  ASSUME NEW b \in Broker
  PROVE  /\ MintedId(b) \in Broker /\ MintedExec(b) \in Broker
         /\ b.next_id \in Int /\ b.next_exec_id \in Int
  BY DEF Broker, MintedId, MintedExec

LEMMA FeeTyped ==
  ASSUME NEW px \in Pxs, NEW qty \in Nat
  PROVE  FeeOf(Notional(px, qty)) \in Int
  <1>1. Notional(px, qty) \in Int
    BY DEF Notional, Pxs
  <1>2. FeeBps \in Int /\ BpsUnit \in Nat /\ BpsUnit > 0
    BY MoneyAssumption
  <1> QED BY <1>1, <1>2 DEF FeeOf

(* A fee is part of what it is charged on.                                 *)
LEMMA FeeFacts ==
  ASSUME NEW n \in Nat
  PROVE  FeeOf(n) \in Nat /\ FeeOf(n) <= n
  <1> DEFINE m == n * FeeBps
             f == m \div BpsUnit
  <1>1. FeeBps \in Nat /\ BpsUnit \in Nat /\ BpsUnit > 0 /\ FeeBps <= BpsUnit
    BY MoneyAssumption
  <1>2. m \in Nat /\ m <= n * BpsUnit
    BY <1>1
  <1>3. f \in Int /\ BpsUnit * f <= m /\ m < BpsUnit * f + BpsUnit
    <2> HIDE DEF m
    <2> QED BY <1>1, <1>2
  <1>4. FeeOf(n) = f
    BY DEF FeeOf
  <1> HIDE DEF m, f
  <1>5. /\ BpsUnit * f + BpsUnit = BpsUnit * (f + 1)
        /\ BpsUnit * (n + 1) = n * BpsUnit + BpsUnit
    BY <1>1, <1>3
  <1>6. f >= 0
    <2>1. f + 1 <= 0 => BpsUnit * (f + 1) <= 0
      BY <1>1, <1>3
    <2> QED BY <1>1, <1>2, <1>3, <1>5, <2>1
  <1>7. f <= n
    <2>1. ~ (f <= n) => BpsUnit * (n + 1) <= BpsUnit * f
      BY <1>1, <1>3, <1>6
    <2> QED BY <1>1, <1>2, <1>3, <1>5, <2>1
  <1> QED BY <1>3, <1>4, <1>6, <1>7

LEMMA RejectReasonTyped ==
  ASSUME NEW w, NEW o
  PROVE  RejectReason(w, o) \in Reasons \cup {None}
  BY DEF RejectReason, Reasons

LEMMA TotalValueTyped ==
  ASSUME NEW w \in World, NEW p \in Participants, w.participants[p] # None
  PROVE  TotalValue(w.participants[p], w.marks) \in Int
  <1> DEFINE b == w.participants[p]
             value == [s \in Symbols |-> IF Holds(b, s) /\ w.marks[s] # None
                                         THEN Notional(w.marks[s], b.positions[s].qty) ELSE 0]
  <1>1. b \in Book
    BY WorldFields
  <1>2. b.cash \in Int /\ b.positions \in [Symbols -> Position]
    BY <1>1 DEF Book
  <1>3. value \in [1..NumSymbols -> Int]
    <2>1. ASSUME NEW s \in Symbols, w.marks[s] # None
          PROVE  Notional(w.marks[s], b.positions[s].qty) \in Int
      BY <1>2, <2>1, WorldFields DEF Notional, Pxs, Position
    <2> QED BY <2>1 DEF Symbols
  <1>4. Sum(value, NumSymbols) \in Int
    BY <1>3, SumTyped, NumSymbolsAssumption
  <1> QED BY <1>2, <1>4 DEF TotalValue

-----------------------------------------------------------------------------
(***************************************************************************)
(* What decide guarantees of the events it emits in world w with broker b: *)
(* a new order takes an unused id and is for something, a fill carries the *)
(* execution id just minted and is taken by its order, and only a day that *)
(* is still open is closed.  Only a submission or a replacement is         *)
(* followed by a second event, what the venue said to it.                  *)
(***************************************************************************)
Proper(w, b, e) ==
  /\ e.kind = "OrderSubmitted" => w.orders[e.id] = None /\ e.order.qty > 0
  /\ e.kind = "OrderReplaced" => w.orders[e.id] = None /\ e.replacement.qty > 0
  /\ e.kind = "OrderFilled" => e.exec_id = b.next_exec_id
  /\ e.kind = "DayClosed" => ~ IsClosed(w, e.day)

Answer == AcknowledgedEvent \cup RejectedEvent

ProperPlan(w, b, plan) ==
  /\ PlanOK(plan)
  /\ Len(plan.events) >= 1 => Proper(w, b, plan.events[1])
  /\ Len(plan.events) = 2 => plan.events[2] \in Answer
  /\ plan.broker.next_exec_id >= b.next_exec_id
  /\ Len(plan.events) >= 1 /\ plan.events[1].kind = "OrderFilled" =>
       plan.broker.next_exec_id = b.next_exec_id + 1

(* What the venue answers asks nothing of the world.                       *)
LEMMA AnswersAreProper ==
  ASSUME NEW w, NEW b, NEW e \in Answer
  PROVE  e \in Event /\ Proper(w, b, e)
  BY DEF Answer, AcknowledgedEvent, RejectedEvent, Event, Proper

LEMMA EmptyPlanProper ==
  ASSUME NEW w, NEW b \in Broker, NEW c \in Broker, c.next_exec_id >= b.next_exec_id
  PROVE  ProperPlan(w, b, Plan(<<>>, c))
  BY EmptyPlan DEF ProperPlan, Plan

LEMMA OneEventPlanProper ==
  ASSUME NEW w, NEW b \in Broker, NEW e \in Event, e.kind # "OrderFilled", Proper(w, b, e)
  PROVE  ProperPlan(w, b, Plan(<<e>>, b))
  <1>1. b.next_exec_id >= b.next_exec_id
    BY BrokerTyped
  <1> QED BY <1>1, OneEventPlan DEF ProperPlan, Plan

LEMMA AnsweredPlanProper ==
  ASSUME NEW w, NEW b \in Broker, NEW c \in {b, MintedId(b)}, NEW e \in Event,
         e.kind # "OrderFilled", Proper(w, b, e), NEW f \in Answer
  PROVE  ProperPlan(w, b, Plan(<<e, f>>, c))
  <1>1. c \in Broker /\ c.next_exec_id >= b.next_exec_id
    BY BrokerTyped DEF MintedId, Broker
  <1>2. f \in Event
    BY DEF Answer, Event
  <1> QED BY <1>1, <1>2, TwoEventPlan DEF ProperPlan, Plan

LEMMA FillPlanProper ==
  ASSUME NEW w \in World, NEW b \in Broker, NEW e \in FilledEvent, e.exec_id = b.next_exec_id
  PROVE  ProperPlan(w, b, FillPlan(w, e, MintedExec(b)))
  <1>1. /\ MintedExec(b) \in Broker
        /\ MintedExec(b).next_exec_id = b.next_exec_id + 1
        /\ b.next_exec_id \in Int
    BY BrokerTyped DEF MintedExec, Broker
  <1>2. ProperPlan(w, b, Plan(<<>>, MintedExec(b)))
    BY <1>1, EmptyPlanProper
  <1>3. e.kind = "OrderFilled" /\ e \in Event
    BY EventsTyped DEF FilledEvent
  <1>4. Proper(w, b, e)
    BY <1>3 DEF Proper
  <1>5. ProperPlan(w, b, Plan(<<e>>, MintedExec(b)))
    BY <1>1, <1>3, <1>4, OneEventPlan DEF ProperPlan, Plan
  <1> QED BY <1>2, <1>5 DEF FillPlan

(* Events that ask nothing of the world they are emitted in.               *)
LEMMA FreeEvents ==
  ASSUME NEW w, NEW b,
         NEW e \in CreatedEvent \cup CancelledEvent \cup MarkEvent \cup UpsertedEvent \cup RemovedEvent
  PROVE  Proper(w, b, e) /\ e.kind # "OrderFilled" /\ e \in Event
  <1>1. e.kind \in {"ParticipantCreated", "OrderCancelled", "MarkUpdated",
                    "InstrumentUpserted", "InstrumentRemoved"}
    BY DEF CreatedEvent, CancelledEvent, MarkEvent, UpsertedEvent, RemovedEvent
  <1>2. e \in Event
    BY DEF Event
  <1> QED BY <1>1, <1>2 DEF Proper

LEMMA CreateParticipantPlansProper ==
  ASSUME NEW w \in World, NEW b \in Broker, NEW p \in Participants, NEW cash \in Int
  PROVE  \A plan \in CreateParticipantPlans(w, b, p, cash) : ProperPlan(w, b, plan)
  <1>1. ParticipantCreated(p, cash) \in CreatedEvent
    BY DEF ParticipantCreated, CreatedEvent
  <1> QED BY <1>1, FreeEvents, OneEventPlanProper DEF CreateParticipantPlans, When

LEMMA SubmitPlansProper ==
  ASSUME NEW w \in World, NEW b \in Broker, NEW i \in Ids, NEW t \in Terms
  PROVE  \A plan \in SubmitPlans(w, b, i, t) : ProperPlan(w, b, plan)
  <1> DEFINE why == RejectReason(w, Submitted(t, None))
             e == OrderSubmitted(i, t)
  <1> SUFFICES ASSUME NEW plan \in SubmitPlans(w, b, i, t)
               PROVE  ProperPlan(w, b, plan)
    OBVIOUS
  <1>1. /\ w.orders[i] = None /\ t.qty > 0
        /\ \/ why # None /\ plan = Plan(<<e, OrderRejected(i, why)>>, b)
           \/ plan = Plan(<<e, OrderAcknowledged(i, b.next_id)>>, MintedId(b))
    BY DEF SubmitPlans, When
  <1>2. e \in Event /\ e.kind = "OrderSubmitted" /\ e.id = i /\ e.order = t
    BY EventsTyped DEF OrderSubmitted
  <1>3. Proper(w, b, e)
    BY <1>1, <1>2 DEF Proper
  <1>4. OrderAcknowledged(i, b.next_id) \in Answer
    BY BrokerTyped DEF OrderAcknowledged, AcknowledgedEvent, Answer
  <1>5. why # None => OrderRejected(i, why) \in Answer
    BY RejectReasonTyped DEF OrderRejected, RejectedEvent, Answer
  <1> HIDE DEF e, why
  <1> QED BY <1>1, <1>2, <1>3, <1>4, <1>5, AnsweredPlanProper

LEMMA CancelPlansProper ==
  ASSUME NEW w \in World, NEW b \in Broker, NEW i \in Ids
  PROVE  \A plan \in CancelPlans(w, b, i) : ProperPlan(w, b, plan)
  <1>1. OrderCancelled(i) \in CancelledEvent
    BY DEF OrderCancelled, CancelledEvent
  <1> QED BY <1>1, FreeEvents, OneEventPlanProper DEF CancelPlans, When

LEMMA ReplacePlansProper ==
  ASSUME NEW w \in World, NEW b \in Broker, NEW i \in Ids, NEW j \in Ids,
         NEW qty \in Nat, NEW limit \in Pxs
  PROVE  \A plan \in ReplacePlans(w, b, i, j, qty, limit) : ProperPlan(w, b, plan)
  <1> DEFINE t == ReplacementTerms(w.orders[i], qty, limit)
             why == RejectReason(w, Submitted(t, i))
             e == OrderReplaced(i, j, t)
  <1> SUFFICES ASSUME NEW plan \in ReplacePlans(w, b, i, j, qty, limit)
               PROVE  ProperPlan(w, b, plan)
    OBVIOUS
  <1>1. /\ w.orders[j] = None /\ w.orders[i] # None /\ qty > 0
        /\ \/ why # None /\ plan = Plan(<<e, OrderRejected(j, why)>>, b)
           \/ plan = Plan(<<e, OrderAcknowledged(j, b.next_id)>>, MintedId(b))
    BY DEF ReplacePlans, When
  <1>2. w.orders[i] \in Order
    BY <1>1, WorldFields
  <1>3. t \in Terms /\ t.qty = qty
    BY <1>2 DEF Order, Terms, ReplacementTerms
  <1> HIDE DEF t
  <1>4. e \in Event /\ e.kind = "OrderReplaced" /\ e.id = j /\ e.replacement = t
    BY <1>3, EventsTyped DEF OrderReplaced
  <1>5. Proper(w, b, e)
    BY <1>1, <1>3, <1>4 DEF Proper
  <1>6. OrderAcknowledged(j, b.next_id) \in Answer
    BY BrokerTyped DEF OrderAcknowledged, AcknowledgedEvent, Answer
  <1>7. why # None => OrderRejected(j, why) \in Answer
    BY RejectReasonTyped DEF OrderRejected, RejectedEvent, Answer
  <1> HIDE DEF e, why
  <1> QED BY <1>1, <1>4, <1>5, <1>6, <1>7, AnsweredPlanProper

LEMMA ExecutePlansProper ==
  ASSUME NEW w \in World, NEW b \in Broker, NEW i \in Ids, NEW qty \in Nat, NEW px \in Pxs
  PROVE  \A plan \in ExecutePlans(w, b, i, qty, px) : ProperPlan(w, b, plan)
  <1> DEFINE e == OrderFilled(i, b.next_exec_id, qty, px, FeeOf(Notional(px, qty)))
  <1>1. e \in FilledEvent /\ e.exec_id = b.next_exec_id
    BY BrokerTyped, FeeTyped, EventsTyped DEF OrderFilled
  <1>2. ProperPlan(w, b, FillPlan(w, e, MintedExec(b)))
    BY <1>1, FillPlanProper
  <1> QED BY <1>2 DEF ExecutePlans, When

(* Whatever slice the broker draws, the fill it plans is well formed.      *)
LEMMA SlicesFill ==
  ASSUME NEW w \in World, NEW b \in Broker, NEW i \in Ids, IsWorking(w, i),
         ~ (Remaining(w.orders[i]) <= 0), NEW q \in Slices(w.orders[i])
  PROVE  OrderFilled(i, b.next_exec_id, q, w.orders[i].limit_px,
                     FeeOf(Notional(w.orders[i].limit_px, q))) \in FilledEvent
  <1> DEFINE o == w.orders[i]
  <1>1. o \in Order
    BY WorldFields DEF IsWorking
  <1>2. o.limit_px \in Pxs /\ o.qty \in Nat /\ Remaining(o) \in Nat
    BY <1>1 DEF Order, OrderState, Remaining
  <1>3. (o.qty + MaxSlices - 1) \div MaxSlices \in Nat
    BY <1>2, SlicesAssumption
  <1>4. q \in Nat
    BY <1>2, <1>3 DEF Slices
  <1> QED BY <1>2, <1>4, BrokerTyped, FeeTyped, EventsTyped

LEMMA AutoExecutePlansProper ==
  ASSUME NEW w \in World, NEW b \in Broker, NEW i \in Ids
  PROVE  \A plan \in AutoExecutePlans(w, b, i) : ProperPlan(w, b, plan)
  <1> DEFINE o == w.orders[i]
             e(q) == OrderFilled(i, b.next_exec_id, q, o.limit_px,
                                 FeeOf(Notional(o.limit_px, q)))
  <1>1. SUFFICES ASSUME IsWorking(w, i), ~ (Remaining(o) <= 0)
                 PROVE  \A q \in Slices(o) : ProperPlan(w, b, FillPlan(w, e(q), MintedExec(b)))
    BY DEF AutoExecutePlans
  <1>2. \A q \in Slices(o) : e(q) \in FilledEvent
    BY <1>1, SlicesFill
  <1>3. \A q : e(q).exec_id = b.next_exec_id
    BY DEF OrderFilled
  <1> HIDE DEF e
  <1> QED BY <1>2, <1>3, FillPlanProper

LEMMA UpdateMarkPlansProper ==
  ASSUME NEW w \in World, NEW b \in Broker, NEW s \in Symbols, NEW px \in Pxs
  PROVE  \A plan \in UpdateMarkPlans(w, b, s, px) : ProperPlan(w, b, plan)
  <1>1. MarkUpdated(s, px) \in MarkEvent
    BY DEF MarkUpdated, MarkEvent
  <1> QED BY <1>1, FreeEvents, OneEventPlanProper DEF UpdateMarkPlans, When

LEMMA InstrumentPlansProper ==
  ASSUME NEW w \in World, NEW b \in Broker, NEW s \in Symbols, NEW spec \in InstrumentSpec
  PROVE  /\ \A plan \in CreateInstrumentPlans(w, b, s, spec) : ProperPlan(w, b, plan)
         /\ \A plan \in UpdateInstrumentPlans(w, b, s, spec) : ProperPlan(w, b, plan)
  <1>1. InstrumentUpserted(s, spec) \in UpsertedEvent
    BY DEF InstrumentUpserted, UpsertedEvent
  <1> QED BY <1>1, FreeEvents, OneEventPlanProper
         DEF CreateInstrumentPlans, UpdateInstrumentPlans, When

LEMMA RemoveInstrumentPlansProper ==
  ASSUME NEW w \in World, NEW b \in Broker, NEW s \in Symbols
  PROVE  \A plan \in RemoveInstrumentPlans(w, b, s) : ProperPlan(w, b, plan)
  <1>1. InstrumentRemoved(s) \in RemovedEvent
    BY DEF InstrumentRemoved, RemovedEvent
  <1> QED BY <1>1, FreeEvents, OneEventPlanProper DEF RemoveInstrumentPlans, When

LEMMA DayEntriesTyped ==
  ASSUME NEW w \in World
  PROVE  [p \in Participants |-> IF p \in {q \in Participants : w.participants[q] # None}
                                 THEN DayEntry(w, p) ELSE None]
           \in [Participants -> DayInput \cup {None}]
  <1>1. ASSUME NEW p \in Participants, w.participants[p] # None
        PROVE  DayEntry(w, p) \in DayInput
    <2>1. w.participants[p] \in Book
      BY <1>1, WorldFields
    <2>2. /\ w.participants[p].starting_cash \in Int
          /\ w.day_turnover[p] \in Int
          /\ w.last_close[p] \in Int \cup {None}
      BY <2>1, WorldFields DEF Book
    <2>3. TotalValue(w.participants[p], w.marks) \in Int
      BY <1>1, TotalValueTyped
    <2> QED BY <2>2, <2>3 DEF DayEntry, DayInput
  <1> QED BY <1>1

LEMMA CloseDayPlansProper ==
  ASSUME NEW w \in World, NEW b \in Broker, NEW d \in Days
  PROVE  \A plan \in CloseDayPlans(w, b, d) : ProperPlan(w, b, plan)
  <1> SUFFICES ASSUME NEW plan \in CloseDayPlans(w, b, d)
               PROVE  ProperPlan(w, b, plan)
    OBVIOUS
  <1>1. CASE plan = Plan(<<>>, b)
    <2>1. b.next_exec_id >= b.next_exec_id
      BY BrokerTyped
    <2> QED BY <1>1, <2>1, EmptyPlanProper
  <1>2. CASE plan # Plan(<<>>, b)
    <2>1. PICK entries \in [Participants -> DayInput \cup {None}] :
            /\ plan = Plan(<<DayClosed(d, entries)>>, b)
            /\ \A c \in Days : IsClosed(w, c) => c < d
      BY <1>2, DayEntriesTyped DEF CloseDayPlans, When
    <2>2. ~ IsClosed(w, d)
      BY <2>1, KeysAssumption DEF Days
    <2> DEFINE e == DayClosed(d, entries)
    <2>3. e \in Event /\ e.kind = "DayClosed" /\ e.day = d
      BY EventsTyped DEF DayClosed
    <2>4. Proper(w, b, e)
      BY <2>2, <2>3 DEF Proper
    <2> HIDE DEF e
    <2> QED BY <2>1, <2>3, <2>4, OneEventPlanProper DEF e
  <1> QED BY <1>1, <1>2

-----------------------------------------------------------------------------
(***************************************************************************)
(* So every step of the engine commits a proper plan.  The proofs of what  *)
(* the engine's steps preserve start from here.                            *)
(***************************************************************************)
ProperStep ==
  \E plan : /\ ProperPlan(world, broker, plan)
            /\ world' = Commit(world, plan.events)
            /\ broker' = plan.broker

LEMMA PerformIsProper ==
  ASSUME NEW plans, \A plan \in plans : ProperPlan(world, broker, plan), Perform(plans)
  PROVE  ProperStep
  BY DEF Perform, ProperStep

LEMMA EveryStepIsProper ==
  ASSUME TypeOK, Next
  PROVE  ProperStep
  <1>0. world \in World /\ broker \in Broker
    BY DEF TypeOK
  <1> USE InputsAssumption
  <1>1. ASSUME NEW p \in Participants, NEW cash \in StartingCash, CreateParticipant(p, cash)
        PROVE  ProperStep
    BY <1>0, <1>1, CreateParticipantPlansProper, PerformIsProper DEF CreateParticipant
  <1>2. ASSUME NEW t \in OfferedTerms, SubmitOrder(t)
        PROVE  ProperStep
    <2>1. t \in Terms
      BY DEF OfferedTerms, Terms
    <2> QED BY <1>0, <1>2, <2>1, SubmitPlansProper, PerformIsProper DEF SubmitOrder
  <1>3. ASSUME NEW i \in Ids, CancelOrder(i)
        PROVE  ProperStep
    BY <1>0, <1>3, CancelPlansProper, PerformIsProper DEF CancelOrder
  <1>4. ASSUME NEW i \in Ids, NEW qty \in OrderQtys, NEW limit \in LimitPxs,
               ReplaceOrder(i, qty, limit)
        PROVE  ProperStep
    BY <1>0, <1>4, ReplacePlansProper, PerformIsProper DEF ReplaceOrder
  <1>5. ASSUME NEW i \in Ids, NEW qty \in FillQtys, NEW px \in FillPxs, Execute(i, qty, px)
        PROVE  ProperStep
    BY <1>0, <1>5, ExecutePlansProper, PerformIsProper DEF Execute
  <1>6. ASSUME NEW i \in Ids, AutoExecute(i)
        PROVE  ProperStep
    BY <1>0, <1>6, AutoExecutePlansProper, PerformIsProper DEF AutoExecute
  <1>7. ASSUME NEW s \in Symbols, NEW px \in MarkPxs, UpdateMark(s, px)
        PROVE  ProperStep
    BY <1>0, <1>7, UpdateMarkPlansProper, PerformIsProper DEF UpdateMark
  <1>8. ASSUME NEW s \in Symbols, NEW spec \in Specs,
               CreateInstrument(s, spec) \/ UpdateInstrument(s, spec)
        PROVE  ProperStep
    BY <1>0, <1>8, InstrumentPlansProper, PerformIsProper DEF CreateInstrument, UpdateInstrument
  <1>9. ASSUME NEW s \in Symbols, RemoveInstrument(s)
        PROVE  ProperStep
    BY <1>0, <1>9, RemoveInstrumentPlansProper, PerformIsProper DEF RemoveInstrument
  <1>10. ASSUME NEW d \in Days, CloseDay(d)
         PROVE  ProperStep
    BY <1>0, <1>10, CloseDayPlansProper, PerformIsProper DEF CloseDay
  <1> QED
    BY <1>1, <1>2, <1>3, <1>4, <1>5, <1>6, <1>7, <1>8, <1>9, <1>10 DEF Next

LEMMA StepKeepsTypes ==
  ASSUME TypeOK, [Next]_vars
  PROVE  TypeOK'
  <1>1. CASE Next
    <2>1. PICK plan : /\ ProperPlan(world, broker, plan)
                      /\ world' = Commit(world, plan.events) /\ broker' = plan.broker
      BY <1>1, EveryStepIsProper DEF ProperStep
    <2> QED BY <2>1, CommitTyped DEF ProperPlan, PlanOK, TypeOK
  <1>2. CASE UNCHANGED vars
    BY <1>2 DEF vars, TypeOK
  <1> QED BY <1>1, <1>2

(* Every map, order, book and counter of the engine keeps the shape the    *)
(* code declares, whatever commands are executed (Engine::execute).        *)
THEOREM TypeSafety == Spec => []TypeOK
  <1>1. Init => TypeOK
    BY EmptyWorldTyped DEF Init, TypeOK, FreshBroker, Broker
  <1> QED BY <1>1, StepKeepsTypes, PTL DEF Spec

-----------------------------------------------------------------------------
(***************************************************************************)
(* What one command does to the world, decided and applied: the effects    *)
(* that an invariant about orders and books has to survive.  The events    *)
(* and plans of a command are gone here; EveryStepHasAnEffect is where the *)
(* later proofs start.                                                     *)
(***************************************************************************)
InState(o, state) == [o EXCEPT !.state = state]

(* The orders once the one that is replaced is cancelled.                  *)
Withdrawn(orders, original) ==
  IF original = None THEN orders
  ELSE Advance(orders, original, Cancel(orders[original].state))

Placed(orders, i, t, original, state) ==
  [Withdrawn(orders, original) EXCEPT ![i] = [Submitted(t, original) EXCEPT !.state = state]]

(* The world once a new order has had its answer.                          *)
Refused(w, i, t, original, why) ==
  [w EXCEPT !.orders = Placed(w.orders, i, t, original, Reject(New, why))]

Taken(w, i, t, original, id) ==
  [w EXCEPT !.orders = Placed(w.orders, i, t, original, Acknowledge(New, id)),
            !.order_broker_ids = [w.order_broker_ids EXCEPT ![i] = id]]

(* Somebody joins.                                                         *)
Opens(w, u) ==
  \E p \in Participants, cash \in Nat \ {0} :
    /\ w.participants[p] = None /\ Fits(cash)
    /\ u = [w EXCEPT !.participants = [w.participants EXCEPT ![p] = Open(cash)]]

Cancels(w, u) ==
  \E i \in Ids :
    /\ w.orders[i] # None /\ CanCancel(w.orders[i].state)
    /\ u = [w EXCEPT !.orders = Advance(w.orders, i, Cancel(w.orders[i].state))]

(* What may be placed under the id i: an order for something, by someone   *)
(* who has joined or in place of an order of theirs that can be cancelled. *)
CanPlace(w, i, t, original) ==
  /\ \A j \in Ids : w.orders[j] # None => j < i
  /\ t.qty > 0
  /\ IF original = None THEN w.participants[t.participant] # None
     ELSE /\ w.orders[original] # None /\ CanCancel(w.orders[original].state)
          /\ t.participant = w.orders[original].participant
          /\ t.symbol = w.orders[original].symbol
          /\ t.side = w.orders[original].side

(* A new order the venue refuses.                                          *)
Refuses(w, u) ==
  \E i \in Ids, t \in Terms, original \in Ids \cup {None}, why \in Reasons :
    /\ CanPlace(w, i, t, original)
    /\ u = Refused(w, i, t, original, why)

(* A new order the venue takes and its participant can afford.             *)
Accepts(w, b, u) ==
  \E i \in Ids, t \in Terms, original \in Ids \cup {None} :
    /\ CanPlace(w, i, t, original)
    /\ RejectReason(w, Submitted(t, original)) = None
    /\ Affordable(w, Submitted(t, original), original)
    /\ u = Taken(w, i, t, original, b.next_id)

(* A fill's terms are the broker's, or the operator's.                     *)
Drawn(w, e) ==
  /\ e.px = w.orders[e.id].limit_px
  /\ e.qty \in Slices(w.orders[e.id])

Dictated(w, e) ==
  /\ e.qty \in FillQtys /\ e.px \in FillPxs
  /\ HonourLimits /\ w.orders[e.id].side = "Buy" => e.px <= w.orders[e.id].limit_px

CanBook(w, b, e) ==
  /\ OrderTakes(w, e) /\ BookTakes(w, e)
  /\ e.exec_id = b.next_exec_id
  /\ e.fee = FeeOf(Notional(e.px, e.qty))
  /\ Drawn(w, e) \/ Dictated(w, e)

Fills(w, b, u) ==
  \E e \in FilledEvent : CanBook(w, b, e) /\ u = ApplyFilled(w, e)

Quotes(w, u) ==
  \E s \in Symbols, px \in Pxs : u = [w EXCEPT !.marks = [w.marks EXCEPT ![s] = px]]

Lists(w, u) ==
  \E s \in Symbols, spec \in InstrumentSpec :
    u = [w EXCEPT !.instruments = [w.instruments EXCEPT ![s] = spec]]

Delists(w, u) ==
  \E s \in Symbols :
    /\ ~ InUse(w, s)
    /\ u = [w EXCEPT !.instruments = [w.instruments EXCEPT ![s] = None]]

(* What is published of everybody who has joined.                          *)
Publication(w) ==
  [p \in Participants |-> IF w.participants[p] # None THEN DayEntry(w, p) ELSE None]

(* Whose value can be told; the day comes after all that are closed.       *)
CanClose(w, d) ==
  /\ \A c \in Days : IsClosed(w, c) => c < d
  /\ \E p \in Participants : w.participants[p] # None
  /\ \A p \in Participants : w.participants[p] # None => HasValue(w.participants[p], w.marks)

Closes(w, u) ==
  \E d \in Days : CanClose(w, d) /\ u = ApplyDayClosed(w, DayClosed(d, Publication(w)))

Effect(w, b, u) ==
  \/ Opens(w, u) \/ Cancels(w, u) \/ Refuses(w, u) \/ Accepts(w, b, u) \/ Fills(w, b, u)
  \/ Quotes(w, u) \/ Lists(w, u) \/ Delists(w, u) \/ Closes(w, u) \/ u = w

-----------------------------------------------------------------------------
(* The broker draws slices of a chunk or more, never more than is left.    *)
Chunk(o) == (o.qty + MaxSlices - 1) \div MaxSlices

LEMMA ChunkFacts ==
  ASSUME NEW o \in Order
  PROVE  Chunk(o) \in Nat /\ o.qty <= MaxSlices * Chunk(o)
  <1> DEFINE a == o.qty + MaxSlices - 1
             c == a \div MaxSlices
  <1>1. o.qty \in Nat /\ MaxSlices \in Nat /\ MaxSlices > 0
    BY SlicesAssumption DEF Order
  <1>2. a \in Nat /\ a + 1 = o.qty + MaxSlices
    BY <1>1
  <1>3. Chunk(o) = c
    BY DEF Chunk
  <1> HIDE DEF a
  <1>4. c \in Nat /\ a < MaxSlices * c + MaxSlices
    BY <1>1, <1>2
  <1> HIDE DEF c
  <1> QED BY <1>1, <1>2, <1>3, <1>4

LEMMA SliceFacts ==
  ASSUME NEW o \in Order, o.qty > 0, Remaining(o) \in Nat, Remaining(o) > 0
  PROVE  /\ Slices(o) # {}
         /\ \A q \in Slices(o) : q \in Nat /\ 0 < q /\ q <= Remaining(o)
  <1> DEFINE c == Chunk(o)
             r == Remaining(o)
  <1>1. c \in Nat /\ o.qty <= MaxSlices * c /\ o.qty \in Nat /\ MaxSlices \in Nat
    BY ChunkFacts, SlicesAssumption DEF Order
  <1>2. c > 0
    <2>1. c = 0 => MaxSlices * c = 0
      BY <1>1
    <2> HIDE DEF c
    <2> QED BY <1>1, <2>1
  <1>3. Slices(o) = IF r <= c THEN {r} ELSE c..r
    BY DEF Slices, Chunk
  <1> HIDE DEF c, r
  <1>4. r \in Nat /\ r > 0
    BY DEF r
  <1>5. CASE r <= c
    BY <1>3, <1>4, <1>5 DEF r
  <1>6. CASE ~ (r <= c)
    <2>1. r \in c..r
      BY <1>1, <1>4, <1>6
    <2> QED BY <1>1, <1>2, <1>3, <1>4, <1>6, <2>1 DEF r
  <1> QED BY <1>5, <1>6

-----------------------------------------------------------------------------
(* The id that is minted next is above all that are in use.                *)
LEMMA NextOrderIdIsNew ==
  ASSUME NEW w \in World
  PROVE  /\ NextOrderId(w) \in 1..(MaxOrders + 1)
         /\ \A j \in Ids : w.orders[j] # None => j < NextOrderId(w)
  <1> DEFINE Above == {n \in 0..MaxOrders : \A i \in Ids : w.orders[i] # None => i <= n}
             Highest(n) == /\ n = 0 \/ w.orders[n] # None
                           /\ \A i \in Ids : w.orders[i] # None => i <= n
  <1>1. MaxOrders \in Nat /\ MaxOrders \in Above
    BY KeysAssumption DEF Ids
  <1>2. PICK n \in Above : \A m \in Above : n <= m
    <2>1. Above \in SUBSET Nat /\ Above # {}
      BY <1>1
    <2> HIDE DEF Above
    <2> QED BY <2>1, Least
  <1>3. Highest(n)
    <2>1. CASE n # 0 /\ w.orders[n] = None
      <3>1. n \in Ids /\ n - 1 \in 0..MaxOrders /\ n - 1 \notin Above
        BY <1>1, <1>2, <2>1 DEF Ids
      <3>2. PICK i \in Ids : w.orders[i] # None /\ ~ (i <= n - 1)
        BY <3>1
      <3>3. i <= n /\ i \in Int /\ n \in Int
        BY <1>2, <3>2 DEF Ids
      <3>4. i = n
        BY <3>2, <3>3
      <3> QED BY <2>1, <3>2, <3>4
    <2> QED BY <1>2, <2>1
  <1>4. \E m \in 0..MaxOrders : Highest(m)
    BY <1>2, <1>3
  <1> DEFINE h == CHOOSE m \in 0..MaxOrders : Highest(m)
  <1>5. h \in 0..MaxOrders /\ Highest(h)
    <2> HIDE DEF Highest
    <2> QED BY <1>4
  <1>6. NextOrderId(w) = 1 + h
    BY DEF NextOrderId
  <1> HIDE DEF h
  <1> QED BY <1>1, <1>5, <1>6 DEF Ids

(* An order keeps its terms from state to state.                           *)
LEMMA InStateFields ==
  ASSUME NEW o \in Order, NEW state
  PROVE  LET n == InState(o, state)
         IN  /\ n.state = state /\ n.qty = o.qty /\ n.limit_px = o.limit_px
             /\ n.participant = o.participant /\ n.symbol = o.symbol /\ n.side = o.side
             /\ n.replaces = o.replaces
             /\ state \in OrderState => n \in Order /\ n # None
  <1>1. state \in OrderState => InState(o, state) \in Order
    BY DEF InState, Order
  <1> QED BY <1>1, NoneAssumption DEF InState, Order

(* A new order takes an id of its own; apart from it only the order that   *)
(* it replaces is touched.                                                 *)
LEMMA PlacedOrders ==
  ASSUME NEW w \in World, NEW i \in Ids, NEW t \in Terms, NEW original \in Ids \cup {None},
         CanPlace(w, i, t, original), NEW state
  PROVE  LET placed == Placed(w.orders, i, t, original, state)
         IN  /\ w.orders[i] = None /\ i # original
             /\ placed[i] = InState(Submitted(t, original), state)
             /\ \A k \in Ids : k # i /\ k # original => placed[k] = w.orders[k]
             /\ original # None =>
                  /\ original \in Ids /\ w.orders[original] \in Order
                  /\ placed[original]
                       = InState(w.orders[original], Cancel(w.orders[original].state))
  <1>1. w.orders[i] = None
    BY KeysAssumption DEF CanPlace, Ids
  <1>2. i # None /\ (original # None => original \in Ids /\ w.orders[original] # None)
    BY NoneAssumption DEF CanPlace, Ids
  <1>3. i # original
    BY <1>1, <1>2
  <1>4. /\ DOMAIN w.orders = Ids
        /\ original # None => w.orders[original] \in Order
    BY <1>2, WorldFields
  <1> QED BY <1>1, <1>2, <1>3, <1>4 DEF Placed, Withdrawn, Advance, InState

-----------------------------------------------------------------------------
(* A new order and the venue's answer to it, applied one after the other.  *)
LEMMA AnsweredSubmission ==
  ASSUME NEW w \in World, NEW i \in Ids, NEW t \in Terms
  PROVE  /\ \A why \in Reasons :
              Commit(w, <<OrderSubmitted(i, t), OrderRejected(i, why)>>)
                = Refused(w, i, t, None, why)
         /\ \A id \in Int :
              Commit(w, <<OrderSubmitted(i, t), OrderAcknowledged(i, id)>>)
                = Taken(w, i, t, None, id)
  <1> DEFINE e == OrderSubmitted(i, t)
             orders == [w.orders EXCEPT ![i] = Submitted(t, None)]
             v == [w EXCEPT !.orders = orders]
  <1>1. Applies(w, e) /\ Apply(w, e) = v
    BY DEF OrderSubmitted, Applies, Apply
  <1>2. /\ v.orders = orders /\ v.order_broker_ids = w.order_broker_ids
        /\ \A x : [v EXCEPT !.orders = x] = [w EXCEPT !.orders = x]
        /\ \A x, y : [v EXCEPT !.orders = x, !.order_broker_ids = y]
                       = [w EXCEPT !.orders = x, !.order_broker_ids = y]
    BY DEF World
  <1>3. orders[i] = Submitted(t, None) /\ orders[i].state = New /\ orders[i] # None
    BY WorldFields, SubmittedTyped, NoneAssumption DEF Submitted
  <1>4. \A s : Advance(orders, i, s) = Placed(w.orders, i, t, None, s)
    BY <1>3, WorldFields DEF Advance, Placed, Withdrawn
  <1>5. ASSUME NEW why \in Reasons
        PROVE  Apply(v, OrderRejected(i, why)) = Refused(w, i, t, None, why)
    <2>1. Applies(v, OrderRejected(i, why))
      <3> HIDE DEF v, orders
      <3>1. v.orders[i] # None /\ v.orders[i].state = New
        BY <1>2, <1>3
      <3> QED BY <3>1 DEF OrderRejected, Applies, CanReject, New
    <2>2. Apply(v, OrderRejected(i, why)) = [v EXCEPT !.orders = Advance(v.orders, i, Reject(New, why))]
      BY <1>2, <1>3, <2>1 DEF OrderRejected, Apply, ApplyRejected
    <2> HIDE DEF v, orders
    <2> QED BY <1>2, <1>4, <2>2 DEF Refused
  <1>6. ASSUME NEW id \in Int
        PROVE  Apply(v, OrderAcknowledged(i, id)) = Taken(w, i, t, None, id)
    <2>1. Applies(v, OrderAcknowledged(i, id))
      <3> HIDE DEF v, orders
      <3>1. v.orders[i] # None /\ v.orders[i].state = New
        BY <1>2, <1>3
      <3> QED BY <3>1 DEF OrderAcknowledged, Applies, CanAcknowledge, New
    <2>2. Apply(v, OrderAcknowledged(i, id))
            = [v EXCEPT !.orders = Advance(v.orders, i, Acknowledge(New, id)),
                        !.order_broker_ids = [v.order_broker_ids EXCEPT ![i] = id]]
      BY <1>2, <1>3, <2>1 DEF OrderAcknowledged, Apply, ApplyAcknowledged
    <2> HIDE DEF v, orders
    <2> QED BY <1>2, <1>4, <2>2 DEF Taken
  <1>7. \A f : Commit(w, <<e, f>>) = Apply(v, f)
    BY <1>1 DEF Commit
  <1> HIDE DEF v, orders
  <1> QED BY <1>5, <1>6, <1>7

LEMMA AnsweredReplacement ==
  ASSUME NEW w \in World, NEW i \in Ids, NEW j \in Ids, NEW t \in Terms,
         w.orders[i] # None, CanCancel(w.orders[i].state)
  PROVE  /\ \A why \in Reasons :
              Commit(w, <<OrderReplaced(i, j, t), OrderRejected(j, why)>>)
                = Refused(w, j, t, i, why)
         /\ \A id \in Int :
              Commit(w, <<OrderReplaced(i, j, t), OrderAcknowledged(j, id)>>)
                = Taken(w, j, t, i, id)
  <1> DEFINE e == OrderReplaced(i, j, t)
             old == Advance(w.orders, i, Cancel(w.orders[i].state))
             orders == [old EXCEPT ![j] = Submitted(t, i)]
             v == [w EXCEPT !.orders = orders]
  <1>1. Applies(w, e) /\ Apply(w, e) = v
    BY DEF OrderReplaced, Applies, Apply, ApplyReplaced
  <1>2. /\ v.orders = orders /\ v.order_broker_ids = w.order_broker_ids
        /\ \A x : [v EXCEPT !.orders = x] = [w EXCEPT !.orders = x]
        /\ \A x, y : [v EXCEPT !.orders = x, !.order_broker_ids = y]
                       = [w EXCEPT !.orders = x, !.order_broker_ids = y]
    <2> HIDE DEF orders
    <2> QED BY DEF World
  <1>3. old = Withdrawn(w.orders, i) /\ DOMAIN old = Ids
    BY NoneAssumption, WorldFields DEF Withdrawn, Advance, Ids
  <1> HIDE DEF old
  <1>4. orders[j] = Submitted(t, i) /\ orders[j].state = New /\ orders[j] # None
    BY <1>3, SubmittedTyped, NoneAssumption DEF Submitted
  <1>5. \A s : Advance(orders, j, s) = Placed(w.orders, j, t, i, s)
    BY <1>3, <1>4 DEF Advance, Placed
  <1>6. ASSUME NEW why \in Reasons
        PROVE  Apply(v, OrderRejected(j, why)) = Refused(w, j, t, i, why)
    <2> HIDE DEF v, orders
    <2>1. v.orders[j] # None /\ v.orders[j].state = New
      BY <1>2, <1>4
    <2>2. Applies(v, OrderRejected(j, why))
      BY <2>1 DEF OrderRejected, Applies, CanReject, New
    <2>3. Apply(v, OrderRejected(j, why)) = [v EXCEPT !.orders = Advance(v.orders, j, Reject(New, why))]
      BY <2>1, <2>2 DEF OrderRejected, Apply, ApplyRejected
    <2> QED BY <1>2, <1>5, <2>3 DEF Refused
  <1>7. ASSUME NEW id \in Int
        PROVE  Apply(v, OrderAcknowledged(j, id)) = Taken(w, j, t, i, id)
    <2> HIDE DEF v, orders
    <2>1. v.orders[j] # None /\ v.orders[j].state = New
      BY <1>2, <1>4
    <2>2. Applies(v, OrderAcknowledged(j, id))
      BY <2>1 DEF OrderAcknowledged, Applies, CanAcknowledge, New
    <2>3. Apply(v, OrderAcknowledged(j, id))
            = [v EXCEPT !.orders = Advance(v.orders, j, Acknowledge(New, id)),
                        !.order_broker_ids = [v.order_broker_ids EXCEPT ![j] = id]]
      BY <2>1, <2>2 DEF OrderAcknowledged, Apply, ApplyAcknowledged
    <2> QED BY <1>2, <1>5, <2>3 DEF Taken
  <1>8. \A f : Commit(w, <<e, f>>) = Apply(v, f)
    BY <1>1 DEF Commit
  <1> HIDE DEF v, orders
  <1> QED BY <1>6, <1>7, <1>8

-----------------------------------------------------------------------------
(* The effects of the plans of each command.                               *)
Effective(w, b, plans) == \A plan \in plans : Effect(w, b, Commit(w, plan.events))

LEMMA PlanEvents == ASSUME NEW events, NEW b PROVE Plan(events, b).events = events
  BY DEF Plan

LEMMA NothingHappens == ASSUME NEW w, NEW b PROVE Commit(w, Plan(<<>>, b).events) = w
  BY DEF Commit, Plan

LEMMA OneHappens == ASSUME NEW w, NEW b, NEW e PROVE Commit(w, Plan(<<e>>, b).events) = Apply(w, e)
  BY DEF Commit, Plan

LEMMA JoiningHasAnEffect ==
  ASSUME NEW w \in World, NEW b \in Broker, NEW p \in Participants, NEW cash \in Nat \ {0},
         Fits(cash)
  PROVE  Effective(w, b, CreateParticipantPlans(w, b, p, cash))
  <1> SUFFICES ASSUME w.participants[p] = None
               PROVE  Opens(w, Apply(w, ParticipantCreated(p, cash)))
    BY OneHappens DEF Effective, Effect, CreateParticipantPlans, When
  <1> QED BY DEF Opens, Apply, ParticipantCreated

LEMMA SubmissionHasAnEffect ==
  ASSUME NEW w \in World, NEW b \in Broker, NEW t \in Terms, NEW i \in Ids,
         \A j \in Ids : w.orders[j] # None => j < i
  PROVE  Effective(w, b, SubmitPlans(w, b, i, t))
  <1> DEFINE o == Submitted(t, None)
             why == RejectReason(w, o)
  <1> SUFFICES ASSUME NEW plan \in SubmitPlans(w, b, i, t)
               PROVE  Effect(w, b, Commit(w, plan.events))
    BY DEF Effective
  <1>0. b.next_id \in Int
    BY BrokerTyped
  <1>1. /\ w.participants[t.participant] # None /\ t.qty > 0
        /\ \/ why # None /\ plan = Plan(<<OrderSubmitted(i, t), OrderRejected(i, why)>>, b)
           \/ /\ why = None /\ Affordable(w, o, None)
              /\ plan = Plan(<<OrderSubmitted(i, t), OrderAcknowledged(i, b.next_id)>>, MintedId(b))
    BY DEF SubmitPlans, When
  <1>2. CanPlace(w, i, t, None)
    BY <1>1 DEF CanPlace
  <1>3. CASE why # None
    <2>1. why \in Reasons
      BY <1>3, RejectReasonTyped
    <2> HIDE DEF why, o
    <2>2. plan.events = <<OrderSubmitted(i, t), OrderRejected(i, why)>>
      BY <1>1, <1>3, PlanEvents
    <2>3. Commit(w, plan.events) = Refused(w, i, t, None, why)
      <3>1. Commit(w, <<OrderSubmitted(i, t), OrderRejected(i, why)>>)
                = Refused(w, i, t, None, why)
        BY <2>1, AnsweredSubmission, Zenon
      <3> QED BY <2>2, <3>1, Zenon
    <2> QED BY <1>2, <2>1, <2>3 DEF Effect, Refuses
  <1>4. CASE why = None
    <2>1. Commit(w, plan.events) = Taken(w, i, t, None, b.next_id)
      <3>1. plan.events = <<OrderSubmitted(i, t), OrderAcknowledged(i, b.next_id)>>
        BY <1>1, <1>4, PlanEvents
      <3>2. Commit(w, <<OrderSubmitted(i, t), OrderAcknowledged(i, b.next_id)>>)
              = Taken(w, i, t, None, b.next_id)
        BY <1>0, AnsweredSubmission, Zenon
      <3> QED BY <3>1, <3>2, Zenon
    <2> QED BY <1>1, <1>2, <1>4, <2>1 DEF Effect, Accepts
  <1> QED BY <1>3, <1>4

LEMMA CancellingHasAnEffect ==
  ASSUME NEW w \in World, NEW b \in Broker, NEW i \in Ids
  PROVE  Effective(w, b, CancelPlans(w, b, i))
  <1> SUFFICES ASSUME w.orders[i] # None, CanCancel(w.orders[i].state)
               PROVE  Cancels(w, Apply(w, OrderCancelled(i)))
    BY OneHappens DEF Effective, Effect, CancelPlans, When
  <1>1. Applies(w, OrderCancelled(i))
    BY DEF Applies, OrderCancelled
  <1>2. Apply(w, OrderCancelled(i))
          = [w EXCEPT !.orders = Advance(w.orders, i, Cancel(w.orders[i].state))]
    BY <1>1 DEF Apply, ApplyCancelled, OrderCancelled
  <1> QED BY <1>2 DEF Cancels

LEMMA ReplacingHasAnEffect ==
  ASSUME NEW w \in World, NEW b \in Broker, NEW i \in Ids, NEW j \in Ids,
         NEW qty \in Nat, NEW limit \in Pxs,
         \A k \in Ids : w.orders[k] # None => k < j
  PROVE  Effective(w, b, ReplacePlans(w, b, i, j, qty, limit))
  <1> DEFINE t == ReplacementTerms(w.orders[i], qty, limit)
             o == Submitted(t, i)
             why == RejectReason(w, o)
  <1> SUFFICES ASSUME NEW plan \in ReplacePlans(w, b, i, j, qty, limit)
               PROVE  Effect(w, b, Commit(w, plan.events))
    BY DEF Effective
  <1>0. b.next_id \in Int
    BY BrokerTyped
  <1>1. /\ w.orders[i] # None /\ CanCancel(w.orders[i].state) /\ qty > 0
        /\ \/ why # None /\ plan = Plan(<<OrderReplaced(i, j, t), OrderRejected(j, why)>>, b)
           \/ /\ why = None /\ Affordable(w, o, i)
              /\ plan = Plan(<<OrderReplaced(i, j, t), OrderAcknowledged(j, b.next_id)>>, MintedId(b))
    BY DEF ReplacePlans, When
  <1>2. w.orders[i] \in Order
    BY <1>1, WorldFields
  <1>3. /\ t \in Terms /\ t.qty = qty /\ t.participant = w.orders[i].participant
        /\ t.symbol = w.orders[i].symbol /\ t.side = w.orders[i].side
    BY <1>2 DEF Order, Terms, ReplacementTerms
  <1>4. i # None
    BY NoneAssumption DEF Ids
  <1> HIDE DEF t
  <1>5. CanPlace(w, j, t, i)
    BY <1>1, <1>3, <1>4 DEF CanPlace
  <1>6. CASE why # None
    <2>1. why \in Reasons
      BY <1>6, RejectReasonTyped
    <2> HIDE DEF why, o
    <2>2. plan.events = <<OrderReplaced(i, j, t), OrderRejected(j, why)>>
      BY <1>1, <1>6, PlanEvents
    <2>3. Commit(w, plan.events) = Refused(w, j, t, i, why)
      <3>1. Commit(w, <<OrderReplaced(i, j, t), OrderRejected(j, why)>>)
                = Refused(w, j, t, i, why)
        BY <1>1, <1>3, <2>1, AnsweredReplacement, Zenon
      <3> QED BY <2>2, <3>1, Zenon
    <2> QED BY <1>3, <1>5, <2>1, <2>3 DEF Effect, Refuses
  <1>7. CASE why = None
    <2>1. Commit(w, plan.events) = Taken(w, j, t, i, b.next_id)
      <3>1. plan.events = <<OrderReplaced(i, j, t), OrderAcknowledged(j, b.next_id)>>
        BY <1>1, <1>7, PlanEvents
      <3>2. Commit(w, <<OrderReplaced(i, j, t), OrderAcknowledged(j, b.next_id)>>)
              = Taken(w, j, t, i, b.next_id)
        BY <1>0, <1>1, <1>3, AnsweredReplacement, Zenon
      <3> QED BY <3>1, <3>2, Zenon
    <2> QED BY <1>1, <1>3, <1>5, <1>7, <2>1 DEF Effect, Accepts
  <1> QED BY <1>6, <1>7

(* A fill that was validated is applied, as far as the turnover allows.    *)
LEMMA FillHasAnEffect ==
  ASSUME NEW w \in World, NEW b \in Broker, NEW c, NEW e \in FilledEvent,
         e.exec_id = b.next_exec_id, e.fee = FeeOf(Notional(e.px, e.qty)),
         Drawn(w, e) \/ Dictated(w, e)
  PROVE  Effect(w, b, Commit(w, FillPlan(w, e, c).events))
  <1>1. CASE OrderTakes(w, e) /\ BookTakes(w, e)
    <2>1. Commit(w, FillPlan(w, e, c).events) = Apply(w, e)
      BY <1>1, OneHappens DEF FillPlan
    <2>2. Apply(w, e) = ApplyFilled(w, e)
      BY <1>1 DEF Apply, FilledEvent
    <2>3. Fills(w, b, Apply(w, e))
      BY <1>1, <2>2 DEF Fills, CanBook
    <2> QED BY <2>1, <2>3 DEF Effect
  <1>2. CASE ~ (OrderTakes(w, e) /\ BookTakes(w, e))
    <2>1. Commit(w, FillPlan(w, e, c).events) = w
      BY <1>2, NothingHappens DEF FillPlan
    <2> QED BY <2>1 DEF Effect
  <1> QED BY <1>1, <1>2

LEMMA ExecutionHasAnEffect ==
  ASSUME NEW w \in World, NEW b \in Broker, NEW i \in Ids, NEW qty \in Nat, NEW px \in Pxs,
         qty \in FillQtys, px \in FillPxs,
         HonourLimits /\ w.orders[i] # None /\ w.orders[i].side = "Buy"
           => px <= w.orders[i].limit_px
  PROVE  Effective(w, b, ExecutePlans(w, b, i, qty, px))
  <1> DEFINE e == OrderFilled(i, b.next_exec_id, qty, px, FeeOf(Notional(px, qty)))
  <1>1. /\ e \in FilledEvent /\ e.exec_id = b.next_exec_id /\ e.id = i
        /\ e.qty = qty /\ e.px = px /\ e.fee = FeeOf(Notional(px, qty))
    BY BrokerTyped, FeeTyped, EventsTyped DEF OrderFilled
  <1>2. Effect(w, b, Commit(w, FillPlan(w, e, MintedExec(b)).events))
    <2> HIDE DEF e
    <2>1. CASE w.orders[i] = None
      <3>1. Commit(w, FillPlan(w, e, MintedExec(b)).events) = w
        BY <1>1, <2>1, NothingHappens DEF FillPlan, OrderTakes
      <3> QED BY <3>1 DEF Effect
    <2>2. CASE w.orders[i] # None
      <3>1. Dictated(w, e)
        BY <1>1, <2>2 DEF Dictated
      <3> QED BY <1>1, <3>1, FillHasAnEffect
    <2> QED BY <2>1, <2>2
  <1> QED BY <1>2 DEF Effective, ExecutePlans, When

LEMMA AutoExecutionHasAnEffect ==
  ASSUME NEW w \in World, NEW b \in Broker, NEW i \in Ids
  PROVE  Effective(w, b, AutoExecutePlans(w, b, i))
  <1> DEFINE o == w.orders[i]
             e(q) == OrderFilled(i, b.next_exec_id, q, o.limit_px,
                                 FeeOf(Notional(o.limit_px, q)))
  <1>1. SUFFICES ASSUME IsWorking(w, i), ~ (Remaining(o) <= 0)
                 PROVE  \A q \in Slices(o) :
                          Effect(w, b, Commit(w, FillPlan(w, e(q), MintedExec(b)).events))
    BY DEF AutoExecutePlans, Effective
  <1>2. \A q \in Slices(o) : e(q) \in FilledEvent
    BY <1>1, SlicesFill
  <1>3. \A q : /\ e(q).exec_id = b.next_exec_id /\ e(q).id = i /\ e(q).qty = q
               /\ e(q).px = o.limit_px /\ e(q).fee = FeeOf(Notional(o.limit_px, q))
    BY DEF OrderFilled
  <1> HIDE DEF e
  <1>4. \A q \in Slices(o) : Drawn(w, e(q))
    BY <1>3 DEF Drawn
  <1> QED BY <1>2, <1>3, <1>4, FillHasAnEffect

LEMMA VenueHasAnEffect ==
  ASSUME NEW w \in World, NEW b \in Broker, NEW s \in Symbols
  PROVE  /\ \A px \in Pxs : Effective(w, b, UpdateMarkPlans(w, b, s, px))
         /\ \A spec \in InstrumentSpec :
              /\ Effective(w, b, CreateInstrumentPlans(w, b, s, spec))
              /\ Effective(w, b, UpdateInstrumentPlans(w, b, s, spec))
         /\ Effective(w, b, RemoveInstrumentPlans(w, b, s))
  <1>1. \A px \in Pxs : Quotes(w, Apply(w, MarkUpdated(s, px)))
    BY DEF Quotes, Apply, MarkUpdated
  <1>2. \A spec \in InstrumentSpec : Lists(w, Apply(w, InstrumentUpserted(s, spec)))
    BY DEF Lists, Apply, InstrumentUpserted
  <1>3. ~ InUse(w, s) => Delists(w, Apply(w, InstrumentRemoved(s)))
    BY DEF Delists, Apply, InstrumentRemoved
  <1>4. \A px \in Pxs : Effective(w, b, UpdateMarkPlans(w, b, s, px))
    BY <1>1, OneHappens DEF Effective, Effect, UpdateMarkPlans, When
  <1>5. ASSUME NEW spec \in InstrumentSpec
        PROVE  /\ Effective(w, b, CreateInstrumentPlans(w, b, s, spec))
               /\ Effective(w, b, UpdateInstrumentPlans(w, b, s, spec))
    BY <1>2, OneHappens DEF Effective, Effect, CreateInstrumentPlans, UpdateInstrumentPlans, When
  <1>6. Effective(w, b, RemoveInstrumentPlans(w, b, s))
    BY <1>3, OneHappens DEF Effective, Effect, RemoveInstrumentPlans, When
  <1> QED BY <1>4, <1>5, <1>6

LEMMA ClosingHasAnEffect ==
  ASSUME NEW w \in World, NEW b \in Broker, NEW d \in Days
  PROVE  Effective(w, b, CloseDayPlans(w, b, d))
  <1> SUFFICES ASSUME NEW plan \in CloseDayPlans(w, b, d)
               PROVE  Effect(w, b, Commit(w, plan.events))
    BY DEF Effective
  <1>1. CASE plan = Plan(<<>>, b)
    BY <1>1, NothingHappens DEF Effect
  <1>2. CASE plan # Plan(<<>>, b)
    <2> DEFINE present == {p \in Participants : w.participants[p] # None}
               entries == [p \in Participants |-> IF p \in present THEN DayEntry(w, p) ELSE None]
    <2>1. /\ plan = Plan(<<DayClosed(d, entries)>>, b)
          /\ \A c \in Days : IsClosed(w, c) => c < d
          /\ present # {}
          /\ \A p \in present : HasValue(w.participants[p], w.marks)
      BY <1>2 DEF CloseDayPlans, When
    <2>2. entries = Publication(w)
      BY DEF Publication
    <2>3. CanClose(w, d)
      BY <2>1 DEF CanClose
    <2> HIDE DEF present, entries
    <2>4. Apply(w, DayClosed(d, entries)) = ApplyDayClosed(w, DayClosed(d, entries))
      BY DEF Apply, DayClosed
    <2>5. Closes(w, Commit(w, plan.events))
      BY <2>1, <2>2, <2>3, <2>4, OneHappens DEF Closes
    <2> QED BY <2>5 DEF Effect
  <1> QED BY <1>1, <1>2

LEMMA PerformHasAnEffect ==
  ASSUME NEW plans, Effective(world, broker, plans), Perform(plans)
  PROVE  Effect(world, broker, world')
  BY DEF Perform, Effective

LEMMA EveryStepHasAnEffect ==
  ASSUME TypeOK, Next
  PROVE  Effect(world, broker, world')
  <1>0. world \in World /\ broker \in Broker
    BY DEF TypeOK
  <1> USE InputsAssumption
  <1>1. ASSUME NEW p \in Participants, NEW cash \in StartingCash, CreateParticipant(p, cash)
        PROVE  Effect(world, broker, world')
    BY <1>0, <1>1, JoiningHasAnEffect, PerformHasAnEffect DEF CreateParticipant
  <1>2. ASSUME NEW t \in OfferedTerms, SubmitOrder(t)
        PROVE  Effect(world, broker, world')
    <2>1. t \in Terms
      BY DEF OfferedTerms, Terms
    <2> QED
      BY <1>0, <1>2, <2>1, NextOrderIdIsNew, SubmissionHasAnEffect, PerformHasAnEffect
      DEF SubmitOrder
  <1>3. ASSUME NEW i \in Ids, CancelOrder(i)
        PROVE  Effect(world, broker, world')
    BY <1>0, <1>3, CancellingHasAnEffect, PerformHasAnEffect DEF CancelOrder
  <1>4. ASSUME NEW i \in Ids, NEW qty \in OrderQtys, NEW limit \in LimitPxs,
               ReplaceOrder(i, qty, limit)
        PROVE  Effect(world, broker, world')
    BY <1>0, <1>4, NextOrderIdIsNew, ReplacingHasAnEffect, PerformHasAnEffect DEF ReplaceOrder
  <1>5. ASSUME NEW i \in Ids, NEW qty \in FillQtys, NEW px \in FillPxs, Execute(i, qty, px)
        PROVE  Effect(world, broker, world')
    BY <1>0, <1>5, ExecutionHasAnEffect, PerformHasAnEffect DEF Execute, Honoured
  <1>6. ASSUME NEW i \in Ids, AutoExecute(i)
        PROVE  Effect(world, broker, world')
    BY <1>0, <1>6, AutoExecutionHasAnEffect, PerformHasAnEffect DEF AutoExecute
  <1>7. ASSUME NEW s \in Symbols, NEW px \in MarkPxs, UpdateMark(s, px)
        PROVE  Effect(world, broker, world')
    BY <1>0, <1>7, VenueHasAnEffect, PerformHasAnEffect DEF UpdateMark
  <1>8. ASSUME NEW s \in Symbols, NEW spec \in Specs,
               CreateInstrument(s, spec) \/ UpdateInstrument(s, spec)
        PROVE  Effect(world, broker, world')
    BY <1>0, <1>8, VenueHasAnEffect, PerformHasAnEffect DEF CreateInstrument, UpdateInstrument
  <1>9. ASSUME NEW s \in Symbols, RemoveInstrument(s)
        PROVE  Effect(world, broker, world')
    BY <1>0, <1>9, VenueHasAnEffect, PerformHasAnEffect DEF RemoveInstrument
  <1>10. ASSUME NEW d \in Days, CloseDay(d)
         PROVE  Effect(world, broker, world')
    BY <1>0, <1>10, ClosingHasAnEffect, PerformHasAnEffect DEF CloseDay
  <1> QED
    BY <1>1, <1>2, <1>3, <1>4, <1>5, <1>6, <1>7, <1>8, <1>9, <1>10 DEF Next

-----------------------------------------------------------------------------
(***************************************************************************)
(* Replay is the world after the last event of the log, and a log that is  *)
(* longer by one event leads one Apply further.                            *)
(***************************************************************************)
(* The worlds a log leads through.                                         *)
Leads(ws, log, n) ==
  /\ ws = [k \in 0..n |-> ws[k]]
  /\ ws[0] = EmptyWorld
  /\ \A k \in 1..n : ws[k] = Apply(ws[k - 1], log[k])

LEMMA LogsLead ==
  ASSUME NEW n \in Nat, NEW log
  PROVE  \E ws : Leads(ws, log, n)
  <1> DEFINE Good == {m \in Nat : \E ws : Leads(ws, log, m)}
  <1>1. 0 \in Good
    <2>1. Leads([k \in 0..0 |-> EmptyWorld], log, 0)
      BY DEF Leads
    <2> QED BY <2>1
  <1>2. ASSUME NEW m \in 1..n, m - 1 \in Good
        PROVE  m \in Good
    <2>1. PICK ws : Leads(ws, log, m - 1)
      BY <1>2
    <2> DEFINE vs == [k \in 0..m |-> IF k = m THEN Apply(ws[m - 1], log[m]) ELSE ws[k]]
    <2>2. vs = [k \in 0..m |-> vs[k]] /\ vs[0] = EmptyWorld
      BY <2>1 DEF Leads
    <2>3. ASSUME NEW k \in 1..m PROVE vs[k] = Apply(vs[k - 1], log[k])
      <3>1. k - 1 \in 0..m /\ k - 1 # m /\ k \in 0..m
        OBVIOUS
      <3>2. CASE k = m
        BY <3>1, <3>2
      <3>3. CASE k # m
        <4>1. k \in 1..(m - 1)
          BY <3>3
        <4> QED BY <2>1, <3>1, <3>3, <4>1 DEF Leads
      <3> QED BY <3>2, <3>3
    <2> HIDE DEF vs
    <2>4. Leads(vs, log, m)
      BY <2>2, <2>3 DEF Leads
    <2> QED BY <2>4
  <1> HIDE DEF Good
  <1>3. \A k \in 0..n : k \in Good
    BY <1>1, <1>2, UpTo
  <1> QED BY <1>3 DEF Good

LEMMA LeadsAgree ==
  ASSUME NEW m \in Nat, NEW n \in Nat, m <= n, NEW vs, NEW ws, NEW short, NEW log,
         Leads(vs, short, m), Leads(ws, log, n), \A k \in 1..m : short[k] = log[k]
  PROVE  \A k \in 0..m : vs[k] = ws[k]
  <1> DEFINE Same == {k \in Nat : vs[k] = ws[k]}
  <1>1. 0 \in Same
    BY DEF Leads
  <1>2. ASSUME NEW k \in 1..m, k - 1 \in Same
        PROVE  k \in Same
    <2>1. vs[k - 1] = ws[k - 1]
      BY <1>2
    <2>2. k \in 1..n
      OBVIOUS
    <2>3. vs[k] = Apply(vs[k - 1], short[k]) /\ ws[k] = Apply(ws[k - 1], log[k])
      BY <2>2 DEF Leads
    <2>4. vs[k] = ws[k] /\ k \in Nat
      BY <2>1, <2>3
    <2> QED BY <2>4
  <1> HIDE DEF Same
  <1>3. \A k \in 0..m : k \in Same
    BY <1>1, <1>2, UpTo
  <1> QED BY <1>3 DEF Same

LEMMA ReplayLeads ==
  ASSUME NEW log, Len(log) \in Nat
  PROVE  \E ws : Leads(ws, log, Len(log)) /\ Replay(log) = ws[Len(log)]
  <1> DEFINE n == Len(log)
             after == CHOOSE f : f = [k \in 0..n |-> IF k = 0 THEN EmptyWorld
                                                     ELSE Apply(f[k - 1], log[k])]
  <1>1. PICK ws : Leads(ws, log, n)
    BY LogsLead
  <1> HIDE DEF n
  <1>0. n \in Nat
    BY DEF n
  <1>2. ws = [k \in 0..n |-> IF k = 0 THEN EmptyWorld ELSE Apply(ws[k - 1], log[k])]
    <2>1. \A k \in 0..n : ws[k] = IF k = 0 THEN EmptyWorld ELSE Apply(ws[k - 1], log[k])
      BY <1>0, <1>1 DEF Leads
    <2> QED BY <1>1, <2>1 DEF Leads
  <1>3. after = [k \in 0..n |-> IF k = 0 THEN EmptyWorld ELSE Apply(after[k - 1], log[k])]
    BY <1>2
  <1>4. Replay(log) = after[n]
    BY DEF Replay, n
  <1> HIDE DEF after
  <1>5. Leads(after, log, n)
    <2>1. \A k \in 0..n : after[k] = IF k = 0 THEN EmptyWorld ELSE Apply(after[k - 1], log[k])
      BY <1>3
    <2>2. after = [k \in 0..n |-> after[k]]
      BY <1>3
    <2> QED BY <1>0, <2>1, <2>2 DEF Leads
  <1> QED BY <1>4, <1>5 DEF n

LEMMA ReplayOfNothing == Replay(<<>>) = EmptyWorld
  <1>1. Len(<<>>) = 0
    OBVIOUS
  <1> QED BY <1>1, ReplayLeads DEF Leads

LEMMA ReplayOfOneMore ==
  ASSUME NEW log \in Seq(Event), NEW e \in Event
  PROVE  Replay(Append(log, e)) = Apply(Replay(log), e)
  <1> DEFINE n == Len(log)
             more == Append(log, e)
  <1>1. /\ n \in Nat /\ Len(more) = n + 1
        /\ more[n + 1] = e /\ \A k \in 1..n : log[k] = more[k]
    OBVIOUS
  <1>2. PICK vs : Leads(vs, log, n) /\ Replay(log) = vs[n]
    BY <1>1, ReplayLeads
  <1> HIDE DEF more
  <1>3. PICK ws : Leads(ws, more, n + 1) /\ Replay(more) = ws[n + 1]
    BY <1>1, ReplayLeads
  <1> HIDE DEF n
  <1>4. vs[n] = ws[n]
    <2>1. \A k \in 0..n : vs[k] = ws[k]
      BY <1>1, <1>2, <1>3, LeadsAgree
    <2> QED BY <1>1, <2>1
  <1>5. ws[n + 1] = Apply(ws[n], e)
    <2>1. n + 1 \in 1..(n + 1) /\ (n + 1) - 1 = n
      BY <1>1
    <2> QED BY <1>1, <1>3, <2>1 DEF Leads
  <1> QED BY <1>2, <1>3, <1>4, <1>5 DEF more

LEMMA ReplayOkOfOneMore ==
  ASSUME NEW log \in Seq(Event), NEW e \in Event, ReplayOk(log), Applies(Replay(log), e)
  PROVE  ReplayOk(Append(log, e))
  <1> DEFINE more == Append(log, e)
  <1> SUFFICES ASSUME NEW n \in 1..Len(more)
               PROVE  Applies(Replay(SubSeq(more, 1, n - 1)), more[n])
    BY DEF ReplayOk
  <1>1. CASE n <= Len(log)
    <2>1. SubSeq(more, 1, n - 1) = SubSeq(log, 1, n - 1) /\ more[n] = log[n] /\ n \in 1..Len(log)
      BY <1>1
    <2> QED BY <2>1 DEF ReplayOk
  <1>2. CASE ~ (n <= Len(log))
    <2>1. n = Len(log) + 1 /\ n - 1 = Len(log)
      BY <1>2
    <2>2. SubSeq(more, 1, n - 1) = log /\ more[n] = e
      BY <2>1
    <2> QED BY <2>2
  <1> QED BY <1>1, <1>2

LEMMA ReplayTyped ==
  ASSUME NEW log \in Seq(Event)
  PROVE  Replay(log) \in World
  <1>1. PICK ws : Leads(ws, log, Len(log)) /\ Replay(log) = ws[Len(log)]
    BY ReplayLeads
  <1> DEFINE Typed == {n \in Nat : ws[n] \in World}
  <1>2. 0 \in Typed
    BY <1>1, EmptyWorldTyped DEF Leads
  <1>3. ASSUME NEW n \in 1..Len(log), n - 1 \in Typed
        PROVE  n \in Typed
    <2>1. ws[n] = Apply(ws[n - 1], log[n]) /\ log[n] \in Event /\ ws[n - 1] \in World
      BY <1>1, <1>3 DEF Leads
    <2>2. ws[n] \in World
      BY <2>1, ApplyTyped
    <2> QED BY <2>2
  <1> HIDE DEF Typed
  <1>4. Len(log) \in Nat
    OBVIOUS
  <1>5. \A n \in 0..Len(log) : n \in Typed
    BY <1>2, <1>3, <1>4, UpTo
  <1>6. Len(log) \in Typed
    BY <1>4, <1>5
  <1> QED BY <1>1, <1>6 DEF Typed

-----------------------------------------------------------------------------
(* Plans that every fold takes, and ones that it takes exactly when the     *)
(* turnover has room for them.                                              *)
Certain(w, plans) ==
  \A plan \in plans : CommitOk(w, plan.events) /\ RoomForTurnover(w, plan.events)

Sure(w, plans) ==
  \A plan \in plans : CommitOk(w, plan.events) <=> RoomForTurnover(w, plan.events)

LEMMA NothingIsSure ==
  ASSUME NEW w, NEW b
  PROVE  CommitOk(w, Plan(<<>>, b).events) /\ RoomForTurnover(w, Plan(<<>>, b).events)
  BY DEF CommitOk, Plan, RoomForTurnover

LEMMA OneIsSure ==
  ASSUME NEW w, NEW b, NEW e
  PROVE  /\ CommitOk(w, Plan(<<e>>, b).events) <=> Applies(w, e)
         /\ RoomForTurnover(w, Plan(<<e>>, b).events)
              <=> (e.kind = "OrderFilled" /\ w.orders[e.id] # None => Fits(Traded(w, e)))
  <1> DEFINE events == Plan(<<e>>, b).events
  <1>1. events = <<e>>
    BY DEF Plan
  <1>2. Len(events) = 1 /\ events[1] = e
    BY <1>1
  <1> HIDE DEF events
  <1>3. CommitOk(w, events) <=> Applies(w, e)
    BY <1>2 DEF CommitOk
  <1>4. 1..Len(events) = {1}
    BY <1>2
  <1>5. RoomForTurnover(w, events)
          <=> (e.kind = "OrderFilled" /\ w.orders[e.id] # None => Fits(Traded(w, e)))
    BY <1>2, <1>4, Zenon DEF RoomForTurnover
  <1> QED BY <1>3, <1>5 DEF events

LEMMA TwoHaveRoom ==
  ASSUME NEW w, NEW b, NEW e, NEW f, e.kind # "OrderFilled", f.kind # "OrderFilled"
  PROVE  RoomForTurnover(w, Plan(<<e, f>>, b).events)
  <1> DEFINE events == Plan(<<e, f>>, b).events
  <1>1. events = <<e, f>>
    BY DEF Plan
  <1>2. Len(events) = 2 /\ events[1] = e /\ events[2] = f
    BY <1>1
  <1> HIDE DEF events
  <1>3. 1..Len(events) = {1, 2}
    BY <1>2
  <1>4. RoomForTurnover(w, events)
    BY <1>2, <1>3, Zenon DEF RoomForTurnover
  <1> QED BY <1>4 DEF events

LEMMA SubmissionIsCertain ==
  ASSUME NEW w \in World, NEW b \in Broker, NEW t \in Terms, NEW i \in Ids
  PROVE  Certain(w, SubmitPlans(w, b, i, t))
  <1> DEFINE why == RejectReason(w, Submitted(t, None))
             e == OrderSubmitted(i, t)
             v == Apply(w, e)
  <1>1. Applies(w, e)
    BY DEF OrderSubmitted, Applies
  <1>2. v.orders[i] # None /\ v.orders[i].state.name = "NEW"
    <2>1. v.orders = [w.orders EXCEPT ![i] = Submitted(t, None)]
      BY DEF Apply, OrderSubmitted, World
    <2>2. v.orders[i] = Submitted(t, None)
      BY <2>1, WorldFields
    <2> QED BY <2>2, SubmittedTyped, NoneAssumption DEF Submitted, New
  <1> HIDE DEF v
  <1>3. Applies(v, OrderRejected(i, why)) /\ Applies(v, OrderAcknowledged(i, b.next_id))
    BY <1>2 DEF OrderRejected, OrderAcknowledged, Applies, CanReject, CanAcknowledge
  <1>4. ASSUME NEW f, NEW c, Applies(v, f), f.kind # "OrderFilled"
        PROVE  /\ CommitOk(w, Plan(<<e, f>>, c).events)
               /\ RoomForTurnover(w, Plan(<<e, f>>, c).events)
    <2>1. e.kind # "OrderFilled"
      BY DEF OrderSubmitted
    <2> HIDE DEF e
    <2> QED BY <1>1, <1>4, <2>1, TwoHaveRoom DEF CommitOk, Plan, v
  <1>5. OrderRejected(i, why).kind # "OrderFilled"
        /\ OrderAcknowledged(i, b.next_id).kind # "OrderFilled"
    BY DEF OrderRejected, OrderAcknowledged
  <1> QED BY <1>3, <1>4, <1>5 DEF Certain, SubmitPlans, When

LEMMA ReplacingIsCertain ==
  ASSUME NEW w \in World, NEW b \in Broker, NEW i \in Ids, NEW j \in Ids,
         NEW qty \in Nat, NEW limit \in Pxs
  PROVE  Certain(w, ReplacePlans(w, b, i, j, qty, limit))
  <1> DEFINE t == ReplacementTerms(w.orders[i], qty, limit)
             why == RejectReason(w, Submitted(t, i))
             e == OrderReplaced(i, j, t)
             v == Apply(w, e)
  <1> SUFFICES ASSUME w.orders[i] # None, CanCancel(w.orders[i].state)
               PROVE  \A f \in {OrderRejected(j, why), OrderAcknowledged(j, b.next_id)} : \A c :
                        /\ CommitOk(w, Plan(<<e, f>>, c).events)
                        /\ RoomForTurnover(w, Plan(<<e, f>>, c).events)
    BY DEF Certain, ReplacePlans, When
  <1>1. Applies(w, e)
    BY DEF OrderReplaced, Applies
  <1>2. t \in Terms
    BY WorldFields DEF Order, Terms, ReplacementTerms
  <1> HIDE DEF t
  <1>3. v.orders[j] # None /\ v.orders[j].state.name = "NEW"
    <2> DEFINE old == Advance(w.orders, i, Cancel(w.orders[i].state))
    <2>1. v.orders = [old EXCEPT ![j] = Submitted(t, i)]
      BY <1>1 DEF Apply, ApplyReplaced, OrderReplaced, World
    <2>2. j \in DOMAIN old
      BY WorldFields DEF Advance
    <2>3. v.orders[j] = Submitted(t, i)
      <3> HIDE DEF old, v
      <3> QED BY <2>1, <2>2
    <2> QED BY <1>2, <2>3, SubmittedTyped, NoneAssumption DEF Submitted, New
  <1> HIDE DEF v
  <1>4. Applies(v, OrderRejected(j, why)) /\ Applies(v, OrderAcknowledged(j, b.next_id))
    BY <1>3 DEF OrderRejected, OrderAcknowledged, Applies, CanReject, CanAcknowledge
  <1>5. ASSUME NEW f, NEW c, Applies(v, f), f.kind # "OrderFilled"
        PROVE  /\ CommitOk(w, Plan(<<e, f>>, c).events)
               /\ RoomForTurnover(w, Plan(<<e, f>>, c).events)
    <2>1. e.kind # "OrderFilled"
      BY DEF OrderReplaced
    <2> HIDE DEF e
    <2> QED BY <1>1, <1>5, <2>1, TwoHaveRoom DEF CommitOk, Plan, v
  <1>6. OrderRejected(j, why).kind # "OrderFilled"
        /\ OrderAcknowledged(j, b.next_id).kind # "OrderFilled"
    BY DEF OrderRejected, OrderAcknowledged
  <1> QED BY <1>4, <1>5, <1>6

LEMMA FillIsSure ==
  ASSUME NEW w, NEW e \in FilledEvent, NEW c
  PROVE  CommitOk(w, FillPlan(w, e, c).events) <=> RoomForTurnover(w, FillPlan(w, e, c).events)
  <1>1. CASE OrderTakes(w, e) /\ BookTakes(w, e)
    <2>1. FillPlan(w, e, c) = Plan(<<e>>, c)
      BY <1>1 DEF FillPlan
    <2>2. e.kind = "OrderFilled"
      BY DEF FilledEvent
    <2>3. Applies(w, e) <=> Fits(Traded(w, e))
      BY <1>1, <2>2 DEF Applies
    <2>4. w.orders[e.id] # None
      BY <1>1 DEF OrderTakes
    <2> QED BY <2>1, <2>2, <2>3, <2>4, OneIsSure
  <1>2. CASE ~ (OrderTakes(w, e) /\ BookTakes(w, e))
    BY <1>2, NothingIsSure DEF FillPlan
  <1> QED BY <1>1, <1>2

LEMMA ExecutionIsSure ==
  ASSUME NEW w \in World, NEW b \in Broker, NEW i \in Ids
  PROVE  /\ \A qty \in Nat, px \in Pxs : Sure(w, ExecutePlans(w, b, i, qty, px))
         /\ Sure(w, AutoExecutePlans(w, b, i))
  <1>1. ASSUME NEW qty \in Nat, NEW px \in Pxs
        PROVE  Sure(w, ExecutePlans(w, b, i, qty, px))
    <2> DEFINE e == OrderFilled(i, b.next_exec_id, qty, px, FeeOf(Notional(px, qty)))
    <2>1. e \in FilledEvent
      BY BrokerTyped, FeeTyped, EventsTyped
    <2> HIDE DEF e
    <2> QED BY <2>1, FillIsSure DEF Sure, ExecutePlans, When, e
  <1>2. Sure(w, AutoExecutePlans(w, b, i))
    <2> DEFINE o == w.orders[i]
               e(q) == OrderFilled(i, b.next_exec_id, q, o.limit_px,
                                   FeeOf(Notional(o.limit_px, q)))
    <2>1. SUFFICES ASSUME IsWorking(w, i), ~ (Remaining(o) <= 0), NEW q \in Slices(o)
                   PROVE  CommitOk(w, FillPlan(w, e(q), MintedExec(b)).events)
                            <=> RoomForTurnover(w, FillPlan(w, e(q), MintedExec(b)).events)
      BY DEF Sure, AutoExecutePlans
    <2>2. e(q) \in FilledEvent
      BY <2>1, SlicesFill
    <2> HIDE DEF e
    <2> QED BY <2>1, <2>2, FillIsSure
  <1> QED BY <1>1, <1>2

LEMMA OthersAreCertain ==
  ASSUME NEW w \in World, NEW b \in Broker
  PROVE  /\ \A p, cash : Certain(w, CreateParticipantPlans(w, b, p, cash))
         /\ \A i : Certain(w, CancelPlans(w, b, i))
         /\ \A s, px : Certain(w, UpdateMarkPlans(w, b, s, px))
         /\ \A s, spec : /\ Certain(w, CreateInstrumentPlans(w, b, s, spec))
                         /\ Certain(w, UpdateInstrumentPlans(w, b, s, spec))
         /\ \A s : Certain(w, RemoveInstrumentPlans(w, b, s))
         /\ \A d : Certain(w, CloseDayPlans(w, b, d))
  <1> DEFINE Sound(e) == Applies(w, e) /\ e.kind # "OrderFilled"
  <1>1. /\ \A p, cash : Sound(ParticipantCreated(p, cash))
        /\ \A s, px : Sound(MarkUpdated(s, px))
        /\ \A s, spec : Sound(InstrumentUpserted(s, spec))
        /\ \A s : Sound(InstrumentRemoved(s))
        /\ \A d, entries : Sound(DayClosed(d, entries))
    BY DEF Applies, ParticipantCreated, MarkUpdated, InstrumentUpserted, InstrumentRemoved, DayClosed
  <1>2. \A i : w.orders[i] # None /\ CanCancel(w.orders[i].state) => Sound(OrderCancelled(i))
    BY DEF Applies, OrderCancelled
  <1>3. \A e, c : Sound(e) => /\ CommitOk(w, Plan(<<e>>, c).events)
                             /\ RoomForTurnover(w, Plan(<<e>>, c).events)
    BY OneIsSure
  <1> HIDE DEF Sound
  <1> QED
    BY <1>1, <1>2, <1>3, NothingIsSure
    DEF Certain, CreateParticipantPlans, CancelPlans, UpdateMarkPlans, CreateInstrumentPlans,
        UpdateInstrumentPlans, RemoveInstrumentPlans, CloseDayPlans, When

(* What a submission or a replacement under the id n comes to.              *)
LEMMA OffersAreSure ==
  ASSUME TypeOK, NEW n \in Ids, NEW plan \in OfferedPlans(world, broker, n)
  PROVE  CommitOk(world, plan.events) <=> RoomForTurnover(world, plan.events)
  <1>1. world \in World /\ broker \in Broker
    BY DEF TypeOK
  <1>2. OfferedTerms \subseteq Terms /\ OrderQtys \subseteq Nat /\ LimitPxs \subseteq Pxs
        /\ FillQtys \subseteq Nat /\ FillPxs \subseteq Pxs
    BY InputsAssumption DEF OfferedTerms, Terms
  <1>3. PICK plans : plan \in plans /\ plans \in
              {CreateParticipantPlans(world, broker, p, cash) : p \in Participants, cash \in StartingCash}
         \cup {SubmitPlans(world, broker, n, t) : t \in OfferedTerms}
         \cup {CancelPlans(world, broker, i) : i \in Ids}
         \cup {ReplacePlans(world, broker, i, n, qty, limit) :
                  i \in Ids, qty \in OrderQtys, limit \in LimitPxs}
         \cup {ExecutePlans(world, broker, i, qty, px) : i \in Ids, qty \in FillQtys, px \in FillPxs}
         \cup {AutoExecutePlans(world, broker, i) : i \in Ids}
         \cup {UpdateMarkPlans(world, broker, s, px) : s \in Symbols, px \in MarkPxs}
         \cup {CreateInstrumentPlans(world, broker, s, spec) : s \in Symbols, spec \in Specs}
         \cup {UpdateInstrumentPlans(world, broker, s, spec) : s \in Symbols, spec \in Specs}
         \cup {RemoveInstrumentPlans(world, broker, s) : s \in Symbols}
         \cup {CloseDayPlans(world, broker, d) : d \in Days}
    BY DEF OfferedPlans
  <1>4. /\ \A t \in OfferedTerms : Certain(world, SubmitPlans(world, broker, n, t))
        /\ \A i \in Ids, qty \in OrderQtys, limit \in LimitPxs :
             Certain(world, ReplacePlans(world, broker, i, n, qty, limit))
    BY <1>1, <1>2, SubmissionIsCertain, ReplacingIsCertain
  <1>5. /\ \A i \in Ids, qty \in FillQtys, px \in FillPxs :
             Sure(world, ExecutePlans(world, broker, i, qty, px))
        /\ \A i \in Ids : Sure(world, AutoExecutePlans(world, broker, i))
    BY <1>1, <1>2, ExecutionIsSure
  <1>6. Certain(world, plans) \/ Sure(world, plans)
    BY <1>1, <1>3, <1>4, <1>5, OthersAreCertain
  <1> QED BY <1>3, <1>6 DEF Sure, Certain

(* "decide validates everything before any mutation happens": of all that  *)
(* is offered to the engine, it plans nothing that its fold then refuses,  *)
(* but for the fills that the day's turnover, summed in apply only, has no *)
(* room for; and those it always refuses (Engine::decide, Engine::apply).  *)
THEOREM PlansAlwaysApply == Spec => []PlansApply
  <1>1. TypeOK => PlansApply
    BY OffersAreSure DEF PlansApply
  <1> QED BY <1>1, TypeSafety, PTL
=============================================================================
