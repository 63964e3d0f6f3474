------------------------------- MODULE Commands -----------------------------
(***************************************************************************)
(* Engine::decide: what each command of engine/src/command.rs would do to  *)
(* a world.  A plan is the events the command emits and the broker it      *)
(* leaves behind; the set of plans is empty when the command is refused    *)
(* with no effect, and has several elements only where the broker draws a  *)
(* random slice.  A plan without events is a refusal that used the broker, *)
(* or a command with nothing to do.                                        *)
(***************************************************************************)
EXTENDS World

(* FillPolicy::Partial { max_slices }; 1 is FillPolicy::Complete.          *)
CONSTANT MaxSlices

ASSUME SlicesAssumption == MaxSlices \in Nat \ {0}

Broker == [next_id : Int, next_exec_id : Int]
FreshBroker == [next_id |-> 1, next_exec_id |-> 1]
MintedId(b) == [b EXCEPT !.next_id = @ + 1]
(* Mutant: an execution id is handed out and not moved past.               *)
MintedExecForgets(b) == b

MintedExec(b) == [b EXCEPT !.next_exec_id = @ + 1]

Plan(events, b) == [events |-> events, broker |-> b]
When(condition, plan) == IF condition THEN {plan} ELSE {}

-----------------------------------------------------------------------------
(***************************************************************************)
(* The venue's reference data: why it would reject an order, if it would.  *)
(***************************************************************************)
OnTick(spec, px) == px % spec.tick = 0
OnLot(spec, qty) == qty % spec.lot = 0

(* Mutant: the size cap is never looked at.                                *)
RejectReasonNoCap(w, o) ==
  LET spec == EffectiveSpec(w, o.symbol)
  IN  CASE spec = None -> "UnknownSymbol"
        [] spec # None /\ ~ OnTick(spec, o.limit_px) -> "PriceOffTick"
        [] spec # None /\ OnTick(spec, o.limit_px) /\ ~ OnLot(spec, o.qty) -> "QtyOffLot"
        [] OTHER -> None

RejectReason(w, o) ==
  LET spec == EffectiveSpec(w, o.symbol)
  IN  IF spec = None THEN "UnknownSymbol"
      ELSE IF ~ OnTick(spec, o.limit_px) THEN "PriceOffTick"
      ELSE IF ~ OnLot(spec, o.qty) THEN "QtyOffLot"
      ELSE IF spec.max_order_qty # None /\ o.qty > spec.max_order_qty
           THEN "ExceedsSizeLimit"
      ELSE None

-----------------------------------------------------------------------------
(***************************************************************************)
(* Pre-trade availability: what the working orders have not reserved.      *)
(***************************************************************************)
WorkingOf(w, p, side, excluding) ==
  {i \in Ids : /\ IsWorking(w, i)
               /\ w.orders[i].participant = p
               /\ w.orders[i].side = side
               /\ i # excluding}

(* Limit price times remaining quantity, and the fee on that.              *)
Reserve(o) ==
  LET notional == Notional(o.limit_px, Remaining(o))
  IN  notional + FeeOf(notional)

ReservedCash(w, p, excluding) ==
  Sum([i \in Ids |-> IF i \in WorkingOf(w, p, "Buy", excluding)
                     THEN Reserve(w.orders[i]) ELSE 0], MaxOrders)

ReservedQty(w, p, s, excluding) ==
  Sum([i \in Ids |-> IF /\ i \in WorkingOf(w, p, "Sell", excluding)
                        /\ w.orders[i].symbol = s
                     THEN Remaining(w.orders[i]) ELSE 0], MaxOrders)

AvailableCash(w, p, excluding) ==
  w.participants[p].cash - ReservedCash(w, p, excluding)

AvailableQty(w, p, s, excluding) ==
  w.participants[p].positions[s].qty - ReservedQty(w, p, s, excluding)

(* Mutant: a new buy is checked against the whole cash balance.            *)
AffordableIgnoresReserved(w, o, excluding) ==
  IF o.side = "Buy"
  THEN Reserve(o) <= w.participants[o.participant].cash
  ELSE o.qty <= AvailableQty(w, o.participant, o.symbol, excluding)

(* Mutant: a new sell is checked against the whole position.               *)
AffordableIgnoresOffered(w, o, excluding) ==
  IF o.side = "Buy"
  THEN Reserve(o) <= AvailableCash(w, o.participant, excluding)
  ELSE o.qty <= w.participants[o.participant].positions[o.symbol].qty

(* Mutant: the fee is not part of what a buy needs.                        *)
AffordableBeforeFees(w, o, excluding) ==
  IF o.side = "Buy"
  THEN Notional(o.limit_px, o.qty) <= AvailableCash(w, o.participant, excluding)
  ELSE o.qty <= AvailableQty(w, o.participant, o.symbol, excluding)

(* check_affordable; every sum in it is checked, and Qty's subtraction     *)
(* refuses to go below zero.                                               *)
Affordable(w, o, excluding) ==
  LET p == o.participant
  IN  IF o.side = "Buy"
      THEN /\ Fits(Reserve(o))
           /\ Fits(ReservedCash(w, p, excluding))
           /\ Fits(AvailableCash(w, p, excluding))
           /\ Reserve(o) <= AvailableCash(w, p, excluding)
      ELSE /\ AvailableQty(w, p, o.symbol, excluding) >= 0
           /\ o.qty <= AvailableQty(w, p, o.symbol, excluding)

-----------------------------------------------------------------------------
(***************************************************************************)
(* decide, one operator per command.                                       *)
(***************************************************************************)
CreateParticipantPlans(w, b, p, cash) ==
  When(w.participants[p] = None, Plan(<<ParticipantCreated(p, cash)>>, b))

SubmitPlans(w, b, i, t) ==
  LET o == Submitted(t, None)
      why == RejectReason(w, o)
      known == w.orders[i] = None /\ w.participants[t.participant] # None
  IN  When(known /\ t.qty > 0 /\ why # None,
           Plan(<<OrderSubmitted(i, t), OrderRejected(i, why)>>, b))
      \cup
      When(known /\ t.qty > 0 /\ why = None /\ Affordable(w, o, None),
           Plan(<<OrderSubmitted(i, t), OrderAcknowledged(i, b.next_id)>>, MintedId(b)))

CancelPlans(w, b, i) ==
  When(w.orders[i] # None /\ CanCancel(w.orders[i].state),
       Plan(<<OrderCancelled(i)>>, b))

(* The replacement keeps the original's participant, symbol and side.      *)
ReplacementTerms(o, qty, limit) ==
  [participant |-> o.participant, symbol |-> o.symbol, side |-> o.side,
   qty |-> qty, limit_px |-> limit]

ReplacePlans(w, b, i, j, qty, limit) ==
  LET t == ReplacementTerms(w.orders[i], qty, limit)
      o == Submitted(t, i)
      replaceable == /\ w.orders[j] = None /\ w.orders[i] # None
                     /\ CanCancel(w.orders[i].state)
                     /\ qty > 0
  IN  When(replaceable /\ RejectReason(w, o) # None,
           Plan(<<OrderReplaced(i, j, t), OrderRejected(j, RejectReason(w, o))>>, b))
      \cup
      When(replaceable /\ RejectReason(w, o) = None /\ Affordable(w, o, i),
           Plan(<<OrderReplaced(i, j, t), OrderAcknowledged(j, b.next_id)>>, MintedId(b)))

(* Mutant: the fill is emitted without asking the order or the book.       *)
FillPlanUnchecked(w, e, b) == Plan(<<e>>, b)

(* validated_fill: the order machine and a clone of the book both take it. *)
FillPlan(w, e, b) ==
  IF OrderTakes(w, e) /\ BookTakes(w, e) THEN Plan(<<e>>, b) ELSE Plan(<<>>, b)

(* The operator's own terms.  The execution id is minted before the order  *)
(* is looked up, so a refused execution still uses one.                    *)
ExecutePlans(w, b, i, qty, px) ==
  LET fee == FeeOf(Notional(px, qty))
  IN  When(Fits(Notional(px, qty)) /\ Fits(fee),
           FillPlan(w, OrderFilled(i, b.next_exec_id, qty, px, fee), MintedExec(b)))

(* Mutant: every slice is drawn from 1, so an order can need more than     *)
(* MaxSlices executions.                                                   *)
SlicesFromOne(o) == 1..Remaining(o)

(* What next_execution may take: the rest when it is at most a chunk, else *)
(* any slice of at least a chunk; a chunk is 1/max_slices, rounded up.     *)
Slices(o) ==
  LET chunk == (o.qty + MaxSlices - 1) \div MaxSlices
  IN  IF Remaining(o) <= chunk THEN {Remaining(o)} ELSE chunk..Remaining(o)

AutoExecutePlans(w, b, i) ==
  LET o == w.orders[i]
      fee(q) == FeeOf(Notional(o.limit_px, q))
  IN  IF ~ IsWorking(w, i) \/ Remaining(o) <= 0 THEN {}
      ELSE {FillPlan(w, OrderFilled(i, b.next_exec_id, q, o.limit_px, fee(q)), MintedExec(b)) :
              q \in {q \in Slices(o) : Fits(Notional(o.limit_px, q)) /\ Fits(fee(q))}}

UpdateMarkPlans(w, b, s, px) == When(TRUE, Plan(<<MarkUpdated(s, px)>>, b))

CreateInstrumentPlans(w, b, s, spec) ==
  When(w.instruments[s] = None, Plan(<<InstrumentUpserted(s, spec)>>, b))

UpdateInstrumentPlans(w, b, s, spec) ==
  When(w.instruments[s] # None, Plan(<<InstrumentUpserted(s, spec)>>, b))

(* Mutant: only working orders keep a symbol listed, not holdings.         *)
InUseByOrders(w, s) == \E i \in Ids : IsWorking(w, i) /\ w.orders[i].symbol = s

InUse(w, s) ==
  \/ \E i \in Ids : IsWorking(w, i) /\ w.orders[i].symbol = s
  \/ \E p \in Participants :
       w.participants[p] # None /\ Holds(w.participants[p], s)

RemoveInstrumentPlans(w, b, s) ==
  When(w.instruments[s] # None /\ ~ InUse(w, s), Plan(<<InstrumentRemoved(s)>>, b))

(* Mutant: each day is measured from the starting cash.                    *)
DayEntryFromStart(w, p) ==
  LET book == w.participants[p]
  IN  [closing_value |-> TotalValue(book, w.marks),
       prior_closing_value |-> book.starting_cash,
       turnover |-> w.day_turnover[p],
       active |-> w.day_fills[p] > 0 \/ \E s \in Symbols : Holds(book, s)]

(* Mutant: only those who still hold something count as active.            *)
DayEntryHoldersOnly(w, p) ==
  LET book == w.participants[p]
  IN  [closing_value |-> TotalValue(book, w.marks),
       prior_closing_value |->
         IF w.last_close[p] = None THEN book.starting_cash ELSE w.last_close[p],
       turnover |-> w.day_turnover[p],
       active |-> \E s \in Symbols : Holds(book, s)]

(* The facts a participant closes the day on: active if they traded since  *)
(* the last close, or still hold something.                                *)
DayEntry(w, p) ==
  LET book == w.participants[p]
  IN  [closing_value |-> TotalValue(book, w.marks),
       prior_closing_value |->
         IF w.last_close[p] = None THEN book.starting_cash ELSE w.last_close[p],
       turnover |-> w.day_turnover[p],
       active |-> w.day_fills[p] > 0 \/ \E s \in Symbols : Holds(book, s)]

IsClosed(w, d) == w.closed[d] # None

(* Mutant: closing a closed day publishes it anew.                         *)
CloseDayAgainPlans(w, b, d) ==
  LET present == {p \in Participants : w.participants[p] # None}
  IN  When(/\ \A c \in Days : IsClosed(w, c) => c <= d
           /\ present # {}
           /\ \A p \in present : HasValue(w.participants[p], w.marks),
           Plan(<<DayClosed(d, [p \in Participants |->
                                  IF p \in present THEN DayEntry(w, p) ELSE None])>>, b))

(* A day closes once, after every day already closed, with at least one    *)
(* participant, and with a mark for everything anyone holds.  Closing it   *)
(* again is no error and does nothing.                                     *)
CloseDayPlans(w, b, d) ==
  LET present == {p \in Participants : w.participants[p] # None}
  IN  When(IsClosed(w, d), Plan(<<>>, b))
      \cup
      When(/\ \A c \in Days : IsClosed(w, c) => c < d
           /\ present # {}
           /\ \A p \in present : HasValue(w.participants[p], w.marks),
           Plan(<<DayClosed(d, [p \in Participants |->
                                  IF p \in present THEN DayEntry(w, p) ELSE None])>>, b))
=============================================================================
