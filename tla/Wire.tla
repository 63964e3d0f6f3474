-------------------------------- MODULE Wire --------------------------------
(***************************************************************************)
(* The journal's row format (store/src/wire.rs): each event is written as  *)
(* a record of bare integers and strings, and checked again by the domain  *)
(* constructors when it is read.  Times are left out, and so is the order  *)
(* of a day's entries, which scoring does not depend on.                   *)
(***************************************************************************)
EXTENDS World

(* The days whose printed form TradingDay::parse does not take back; the   *)
(* module Calendar tells which these are.                                  *)
CONSTANT UnreadableDays

ASSUME DaysAssumption == UnreadableDays \subseteq Days

WireSide == [Buy |-> "buy", Sell |-> "sell"]
DomainSide == [buy |-> "Buy", sell |-> "Sell"]

WireReject ==
  [UnknownSymbol |-> "unknown_symbol", InsufficientCash |-> "insufficient_cash",
   InsufficientPosition |-> "insufficient_position",
   ExceedsSizeLimit |-> "exceeds_size_limit",
   PriceOffTick |-> "price_off_tick", QtyOffLot |-> "qty_off_lot"]

DomainReject ==
  [unknown_symbol |-> "UnknownSymbol", insufficient_cash |-> "InsufficientCash",
   insufficient_position |-> "InsufficientPosition",
   exceeds_size_limit |-> "ExceedsSizeLimit",
   price_off_tick |-> "PriceOffTick", qty_off_lot |-> "QtyOffLot"]

(* The terms of an order: neither its state nor what it replaces.          *)
WireOrder(i, t) ==
  [id |-> i, participant |-> t.participant, symbol |-> t.symbol,
   side |-> WireSide[t.side], qty |-> t.qty, limit_px |-> t.limit_px]

DomainTerms(o) ==
  [participant |-> o.participant, symbol |-> o.symbol,
   side |-> DomainSide[o.side], qty |-> o.qty, limit_px |-> o.limit_px]

WireDayInput(p, d) ==
  [participant |-> p, closing_value |-> d.closing_value,
   prior_closing_value |-> d.prior_closing_value,
   turnover |-> d.turnover, active |-> d.active]

DomainDayInput(row) ==
  [closing_value |-> row.closing_value,
   prior_closing_value |-> row.prior_closing_value,
   turnover |-> row.turnover, active |-> row.active]

-----------------------------------------------------------------------------
(* Mutant: a fill's quantity and price change places.                      *)
EncodeFillSwapped(e) ==
  [kind |-> "order_filled", id |-> e.id, exec_id |-> e.exec_id,
   qty |-> e.px, px |-> e.qty, fee |-> e.fee]

EncodeFill(e) ==
  [kind |-> "order_filled", id |-> e.id, exec_id |-> e.exec_id,
   qty |-> e.qty, px |-> e.px, fee |-> e.fee]

Encode(e) ==
  CASE e.kind = "ParticipantCreated" ->
         [kind |-> "participant_created", participant |-> e.participant,
          starting_cash |-> e.starting_cash]
    [] e.kind = "OrderSubmitted" ->
         [kind |-> "order_submitted", order |-> WireOrder(e.id, e.order)]
    [] e.kind = "OrderAcknowledged" ->
         [kind |-> "order_acknowledged", id |-> e.id, broker_id |-> e.broker_id]
    [] e.kind = "OrderRejected" ->
         [kind |-> "order_rejected", id |-> e.id, reason |-> WireReject[e.reason]]
    [] e.kind = "OrderFilled" -> EncodeFill(e)
    [] e.kind = "OrderCancelled" -> [kind |-> "order_cancelled", id |-> e.id]
    [] e.kind = "OrderReplaced" ->
         [kind |-> "order_replaced", original |-> e.original,
          replacement |-> WireOrder(e.id, e.replacement)]
    [] e.kind = "MarkUpdated" ->
         [kind |-> "mark_updated", symbol |-> e.symbol, px |-> e.px]
    [] e.kind = "InstrumentUpserted" ->
         [kind |-> "instrument_upserted", symbol |-> e.symbol,
          tick |-> e.spec.tick, lot |-> e.spec.lot,
          max_order_qty |-> e.spec.max_order_qty]
    [] e.kind = "InstrumentRemoved" ->
         [kind |-> "instrument_removed", symbol |-> e.symbol]
    [] e.kind = "DayClosed" ->
         [kind |-> "day_closed", day |-> e.day,
          entries |-> {WireDayInput(p, e.entries[p]) :
                         p \in {p \in Participants : e.entries[p] # None}}]

-----------------------------------------------------------------------------
(***************************************************************************)
(* Reading back: what the constructors accept, and the event they give.    *)
(***************************************************************************)
IsQty(n) == n >= 0
IsPx(n) == n > 0

OrderReads(o) == IsQty(o.qty) /\ IsPx(o.limit_px)

Reads(row) ==
  CASE row.kind = "order_submitted" -> OrderReads(row.order)
    [] row.kind = "order_replaced" -> OrderReads(row.replacement)
    [] row.kind = "order_filled" -> IsQty(row.qty) /\ IsPx(row.px)
    [] row.kind = "mark_updated" -> IsPx(row.px)
    [] row.kind = "instrument_upserted" ->
         /\ IsPx(row.tick) /\ IsQty(row.lot) /\ row.lot # 0
         /\ row.max_order_qty # None => IsQty(row.max_order_qty)
    [] row.kind = "day_closed" -> row.day \notin UnreadableDays
    [] OTHER -> TRUE

DomainEntries(rows) ==
  [p \in Participants |->
     IF \E row \in rows : row.participant = p
     THEN DomainDayInput(CHOOSE row \in rows : row.participant = p)
     ELSE None]

Decode(row) ==
  CASE row.kind = "participant_created" ->
         ParticipantCreated(row.participant, row.starting_cash)
    [] row.kind = "order_submitted" ->
         OrderSubmitted(row.order.id, DomainTerms(row.order))
    [] row.kind = "order_acknowledged" -> OrderAcknowledged(row.id, row.broker_id)
    [] row.kind = "order_rejected" -> OrderRejected(row.id, DomainReject[row.reason])
    [] row.kind = "order_filled" ->
         OrderFilled(row.id, row.exec_id, row.qty, row.px, row.fee)
    [] row.kind = "order_cancelled" -> OrderCancelled(row.id)
    [] row.kind = "order_replaced" ->
         OrderReplaced(row.original, row.replacement.id, DomainTerms(row.replacement))
    [] row.kind = "mark_updated" -> MarkUpdated(row.symbol, row.px)
    [] row.kind = "instrument_upserted" ->
         InstrumentUpserted(row.symbol, [tick |-> row.tick, lot |-> row.lot,
                                         max_order_qty |-> row.max_order_qty])
    [] row.kind = "instrument_removed" -> InstrumentRemoved(row.symbol)
    [] row.kind = "day_closed" -> DayClosed(row.day, DomainEntries(row.entries))

-----------------------------------------------------------------------------
(* What is written for an event is accepted by the reader, which makes the *)
(* same event of it.                                                       *)
RoundTrips(e) == Reads(Encode(e)) /\ Decode(Encode(e)) = e
=============================================================================
