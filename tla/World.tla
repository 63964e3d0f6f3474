-------------------------------- MODULE World -------------------------------
(***************************************************************************)
(* Everything the engine derives from its journal, and the fold that       *)
(* derives it: the state of engine/src/engine.rs (all but the broker and   *)
(* the sequence number), the events of engine/src/event.rs, and            *)
(* Engine::apply, the single mutator a live commit and a replay share.     *)
(* A map is a total function whose absent entries are None.                *)
(***************************************************************************)
EXTENDS Lifecycle, Portfolio, Sequences

CONSTANTS NumParticipants, MaxOrders, MaxDay

ASSUME KeysAssumption ==
  NumParticipants \in Nat \ {0} /\ MaxOrders \in Nat \ {0} /\ MaxDay \in Nat

Participants == 1..NumParticipants
Ids  == 1..MaxOrders
Days == 1..MaxDay

Order == [participant : Participants, symbol : Symbols, side : Sides,
          qty : Nat, limit_px : Pxs, state : OrderState,
          replaces : Ids \cup {None}]

InstrumentSpec == [tick : Pxs, lot : Nat \ {0}, max_order_qty : Nat \cup {None}]

Execution == [exec_id : Int, qty : Nat, px : Pxs, fee : Int]

DayInput == [closing_value : Int, prior_closing_value : Int,
             turnover : Int, active : BOOLEAN]

World == [participants     : [Participants -> Book \cup {None}],
          orders           : [Ids -> Order \cup {None}],
          marks            : [Symbols -> Pxs \cup {None}],
          instruments      : [Symbols -> InstrumentSpec \cup {None}],
          order_broker_ids : [Ids -> Int \cup {None}],
          order_executions : [Ids -> Seq(Execution)],
          order_fees       : [Ids -> Int],
          day_turnover     : [Participants -> Int],
          day_fills        : [Participants -> Nat],
          last_close       : [Participants -> Int \cup {None}],
          closed           : [Days -> [Participants -> DayInput \cup {None}] \cup {None}]]

(* An absent value is none of the values that can be present.              *)
ASSUME NoneAssumption ==
  /\ None \notin Int /\ None \notin Reasons /\ None \notin InstrumentSpec
  /\ None \notin Order /\ None \notin Book /\ None \notin DayInput
  /\ None \notin [Participants -> DayInput \cup {None}]

EmptyWorld ==
  [participants     |-> [p \in Participants |-> None],
   orders           |-> [i \in Ids |-> None],
   marks            |-> [s \in Symbols |-> None],
   instruments      |-> [s \in Symbols |-> None],
   order_broker_ids |-> [i \in Ids |-> None],
   order_executions |-> [i \in Ids |-> <<>>],
   order_fees       |-> [i \in Ids |-> 0],
   day_turnover     |-> [p \in Participants |-> 0],
   day_fills        |-> [p \in Participants |-> 0],
   last_close       |-> [p \in Participants |-> None],
   closed           |-> [d \in Days |-> None]]

(***************************************************************************)
(* Order::submit: the terms of a new order become a NEW order.             *)
(***************************************************************************)
Terms == [participant : Participants, symbol : Symbols, side : Sides,
          qty : Nat, limit_px : Pxs]

Submitted(t, original) ==
  [participant |-> t.participant, symbol |-> t.symbol, side |-> t.side,
   qty |-> t.qty, limit_px |-> t.limit_px, state |-> New, replaces |-> original]

IsWorking(w, i) == w.orders[i] # None /\ ~ IsTerminal(w.orders[i].state)
Remaining(o) == o.qty - o.state.filled

-----------------------------------------------------------------------------
(***************************************************************************)
(* The journal's events.                                                   *)
(***************************************************************************)
ParticipantCreated(p, cash) ==
  [kind |-> "ParticipantCreated", participant |-> p, starting_cash |-> cash]
OrderSubmitted(i, t) == [kind |-> "OrderSubmitted", id |-> i, order |-> t]
OrderAcknowledged(i, b) == [kind |-> "OrderAcknowledged", id |-> i, broker_id |-> b]
OrderRejected(i, why) == [kind |-> "OrderRejected", id |-> i, reason |-> why]
OrderCancelled(i) == [kind |-> "OrderCancelled", id |-> i]
OrderReplaced(i, j, t) ==
  [kind |-> "OrderReplaced", original |-> i, id |-> j, replacement |-> t]
OrderFilled(i, x, q, px, fee) ==
  [kind |-> "OrderFilled", id |-> i, exec_id |-> x, qty |-> q, px |-> px, fee |-> fee]
MarkUpdated(s, px) == [kind |-> "MarkUpdated", symbol |-> s, px |-> px]
InstrumentUpserted(s, spec) ==
  [kind |-> "InstrumentUpserted", symbol |-> s, spec |-> spec]
InstrumentRemoved(s) == [kind |-> "InstrumentRemoved", symbol |-> s]
DayClosed(d, entries) == [kind |-> "DayClosed", day |-> d, entries |-> entries]

-----------------------------------------------------------------------------
(***************************************************************************)
(* Engine::apply, one operator per event kind.  Applies says the call      *)
(* returns Ok.  When the order machine refuses an event nothing changes;    *)
(* a fill that errs later leaves behind what it had already done.          *)
(***************************************************************************)
FillOf(w, e) ==
  [symbol |-> w.orders[e.id].symbol, side |-> w.orders[e.id].side,
   qty |-> e.qty, px |-> e.px, fee |-> e.fee]

Trader(w, i) == w.orders[i].participant
Traded(w, e) == w.day_turnover[Trader(w, e.id)] + Notional(e.px, e.qty)

OrderTakes(w, e) ==
  /\ w.orders[e.id] # None
  /\ CanFill(w.orders[e.id].state, w.orders[e.id].qty, e.qty, e.px)

BookTakes(w, e) ==
  /\ w.participants[Trader(w, e.id)] # None
  /\ BookAccepts(w.participants[Trader(w, e.id)], FillOf(w, e))

Applies(w, e) ==
  CASE e.kind = "OrderAcknowledged" ->
         w.orders[e.id] # None /\ CanAcknowledge(w.orders[e.id].state)
    [] e.kind = "OrderRejected" ->
         w.orders[e.id] # None /\ CanReject(w.orders[e.id].state)
    [] e.kind = "OrderCancelled" ->
         w.orders[e.id] # None /\ CanCancel(w.orders[e.id].state)
    [] e.kind = "OrderReplaced" ->
         /\ w.orders[e.original] # None
         /\ CanCancel(w.orders[e.original].state)
    [] e.kind = "OrderFilled" -> 
         OrderTakes(w, e) /\ BookTakes(w, e) /\ Fits(Traded(w, e))
    [] OTHER -> TRUE

(* Order::apply on one stored order.                                       *)
Advance(orders, i, state) == [orders EXCEPT ![i] = [@ EXCEPT !.state = state]]

ApplyAcknowledged(w, e) ==
  [w EXCEPT !.orders = Advance(@, e.id, Acknowledge(w.orders[e.id].state, e.broker_id)),
            !.order_broker_ids = [@ EXCEPT ![e.id] = e.broker_id]]

ApplyRejected(w, e) ==
  [w EXCEPT !.orders = Advance(@, e.id, Reject(w.orders[e.id].state, e.reason))]

ApplyCancelled(w, e) ==
  [w EXCEPT !.orders = Advance(@, e.id, Cancel(w.orders[e.id].state))]

ApplyReplaced(w, e) ==
  [w EXCEPT !.orders =
     [Advance(@, e.original, Cancel(w.orders[e.original].state))
        EXCEPT ![e.id] = Submitted(e.replacement, e.original)]]

(* A fill reaches the order, then the book, then the day's turnover and    *)
(* the tape; the code stops where one of them errs.                        *)
FillOrder(w, e) ==
  LET o == w.orders[e.id]
  IN  [w EXCEPT !.orders = Advance(@, e.id, Fill(o.state, o.qty, e.qty, e.px))]

FillBook(w, e) ==
  [w EXCEPT !.participants =
     [@ EXCEPT ![Trader(w, e.id)] =
        BookFill(w.participants[Trader(w, e.id)], FillOf(w, e))]]

Row(e) == [exec_id |-> e.exec_id, qty |-> e.qty, px |-> e.px, fee |-> e.fee]

(* Mutant: the fee is kept in the book and not against its order.          *)
FillTapeNoFee(w, e) ==
  [w EXCEPT !.day_turnover = [@ EXCEPT ![Trader(w, e.id)] = Traded(w, e)],
            !.day_fills = [@ EXCEPT ![Trader(w, e.id)] =
                             w.day_fills[Trader(w, e.id)] + 1],
            !.order_executions = [@ EXCEPT ![e.id] =
                                    Append(w.order_executions[e.id], Row(e))]]

FillTape(w, e) ==
  [w EXCEPT !.day_turnover = [@ EXCEPT ![Trader(w, e.id)] = Traded(w, e)],
            !.day_fills = [@ EXCEPT ![Trader(w, e.id)] =
                             w.day_fills[Trader(w, e.id)] + 1],
            !.order_fees = [@ EXCEPT ![e.id] = w.order_fees[e.id] + e.fee],
            !.order_executions = [@ EXCEPT ![e.id] =
                                    Append(w.order_executions[e.id], Row(e))]]

ApplyFilled(w, e) ==
  IF ~ BookTakes(w, e) THEN FillOrder(w, e)
  ELSE IF ~ Fits(Traded(w, e)) THEN FillBook(FillOrder(w, e), e)
  ELSE FillTape(FillBook(FillOrder(w, e), e), e)

(* Mutant: the day's counters outlive the day.                              *)
ApplyDayClosedNoReset(w, e) ==
  [w EXCEPT
     !.last_close = [p \in Participants |->
                       IF e.entries[p] = None THEN @[p] ELSE e.entries[p].closing_value],
     !.closed = [@ EXCEPT ![e.day] = e.entries]]

ApplyDayClosed(w, e) ==
  [w EXCEPT
     !.last_close = [p \in Participants |->
                       IF e.entries[p] = None THEN @[p] ELSE e.entries[p].closing_value],
     !.closed = [@ EXCEPT ![e.day] = e.entries],
     !.day_turnover = [p \in Participants |-> 0],
     !.day_fills = [p \in Participants |-> 0]]

Apply(w, e) ==
  CASE e.kind = "ParticipantCreated" ->
         [w EXCEPT !.participants =
            [@ EXCEPT ![e.participant] = Open(e.starting_cash)]]
    [] e.kind = "OrderSubmitted" ->
         [w EXCEPT !.orders = [@ EXCEPT ![e.id] = Submitted(e.order, None)]]
    [] e.kind = "OrderAcknowledged" /\ Applies(w, e) -> ApplyAcknowledged(w, e)
    [] e.kind = "OrderRejected" /\ Applies(w, e) -> ApplyRejected(w, e)
    [] e.kind = "OrderCancelled" /\ Applies(w, e) -> ApplyCancelled(w, e)
    [] e.kind = "OrderReplaced" /\ Applies(w, e) -> ApplyReplaced(w, e)
    [] e.kind = "OrderFilled" /\ OrderTakes(w, e) -> ApplyFilled(w, e)
    [] e.kind = "MarkUpdated" ->
         [w EXCEPT !.marks = [@ EXCEPT ![e.symbol] = e.px]]
    [] e.kind = "InstrumentUpserted" ->
         [w EXCEPT !.instruments = [@ EXCEPT ![e.symbol] = e.spec]]
    [] e.kind = "InstrumentRemoved" ->
         [w EXCEPT !.instruments = [@ EXCEPT ![e.symbol] = None]]
    [] e.kind = "DayClosed" -> ApplyDayClosed(w, e)
    [] OTHER -> w

(***************************************************************************)
(* Engine::commit: a command's events, at most two of them, in order.  It  *)
(* stops at the first event that errs.                                     *)
(***************************************************************************)
Commit(w, events) ==
  CASE Len(events) = 0 -> w
    [] Len(events) = 1 -> Apply(w, events[1])
    [] OTHER -> IF Applies(w, events[1])
                THEN Apply(Apply(w, events[1]), events[2])
                ELSE Apply(w, events[1])

CommitOk(w, events) ==
  /\ Len(events) >= 1 => Applies(w, events[1])
  /\ Len(events) >= 2 => Applies(Apply(w, events[1]), events[2])

(***************************************************************************)
(* Engine::replay: the fold of a whole log into an empty engine; the code  *)
(* gives up at the first event that errs.                                  *)
(***************************************************************************)
Replay(log) ==
  LET after[n \in 0..Len(log)] ==
        IF n = 0 THEN EmptyWorld ELSE Apply(after[n - 1], log[n])
  IN  after[Len(log)]

ReplayOk(log) ==
  \A n \in 1..Len(log) : Applies(Replay(SubSeq(log, 1, n - 1)), log[n])

(* One past the highest order id in use.                                   *)
NextOrderId(w) ==
  1 + (CHOOSE n \in 0..MaxOrders :
         /\ n = 0 \/ w.orders[n] # None
         /\ \A i \in Ids : w.orders[i] # None => i <= n)

EffectiveSpec(w, s) ==
  IF \A t \in Symbols : w.instruments[t] = None
  THEN [tick |-> 1, lot |-> 1, max_order_qty |-> None]
  ELSE w.instruments[s]
=============================================================================
