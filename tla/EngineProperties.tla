--------------------------- MODULE EngineProperties -------------------------
(***************************************************************************)
(* What the engine promises about its world.                               *)
(***************************************************************************)
EXTENDS Engine

(* Every map, order, book and counter has the shape the code declares.     *)
TypeOK == world \in World /\ broker \in Broker

Known(i) == world.orders[i] # None
Joined(p) == world.participants[p] # None
OrdersOf(p) == {i \in Ids : Known(i) /\ world.orders[i].participant = p}

-----------------------------------------------------------------------------
(* The state name and the quantities of an order tell one story: nothing   *)
(* is filled before the first fill, FILLED is exactly the whole quantity,  *)
(* an overfill never happens, and the id in the state, present only while  *)
(* the order is live, is the one remembered for reporting, which in turn   *)
(* exists exactly for orders the venue ever acknowledged.                  *)
OrderStory(o, id_on_file) ==
  LET s == o.state
  IN  /\ 0 <= s.filled /\ s.filled <= o.qty /\ 0 <= s.cost
      /\ s.name \in {"NEW", "ACKNOWLEDGED", "REJECTED"} => s.filled = 0
      /\ s.name = "PARTIALLY_FILLED" => 0 < s.filled /\ s.filled < o.qty
      /\ s.name = "FILLED" <=> s.filled = o.qty
      /\ s.filled = 0 => s.cost = 0
      /\ s.name \in Live => s.broker_id = id_on_file /\ id_on_file # None
      /\ s.name \notin Live => s.broker_id = None
      /\ s.name = "REJECTED" <=> s.reason # None
      /\ s.name \in {"NEW", "REJECTED"} => id_on_file = None
      /\ s.name = "FILLED" => id_on_file # None

OrdersTellOneStory ==
  \A i \in Ids : Known(i) => OrderStory(world.orders[i], world.order_broker_ids[i])

(* A replacement points back at a cancelled order of the same participant, *)
(* symbol and side, submitted before it, that still had something left to  *)
(* fill; no order is replaced twice (design.md section 5).                 *)
ReplaceChainsHold ==
  \A i \in Ids : Known(i) /\ world.orders[i].replaces # None =>
    LET j == world.orders[i].replaces
    IN  /\ j < i /\ Known(j)
        /\ world.orders[j].state.name = "CANCELLED"
        /\ Remaining(world.orders[j]) > 0
        /\ world.orders[j].participant = world.orders[i].participant
        /\ world.orders[j].symbol = world.orders[i].symbol
        /\ world.orders[j].side = world.orders[i].side
        /\ \A k \in Ids \ {i} : Known(k) => world.orders[k].replaces # j

-----------------------------------------------------------------------------
(* No participant is ever short or overdrawn, no basis is negative, and a  *)
(* flat position has none left (Position::sell's debug_assert).            *)
LongOnly ==
  \A p \in Participants : Joined(p) =>
    LET b == world.participants[p]
    IN  /\ b.cash >= 0
        /\ \A s \in Symbols : /\ b.positions[s].qty >= 0
                              /\ b.positions[s].cost >= 0
                              /\ b.positions[s].qty = 0 => b.positions[s].cost = 0

(* The shares all working sells still offer are shares the participant     *)
(* holds, whatever was filled, replaced or cancelled in between.           *)
SellsCovered ==
  \A p \in Participants : Joined(p) => \A s \in Symbols :
    ReservedQty(world, p, s, None) <= world.participants[p].positions[s].qty

(* The cash every working buy may still need, fees included, is cash the   *)
(* participant has; the fees of partial fills round down separately, so    *)
(* they never add up to more than was set aside for the whole.             *)
BuysCovered ==
  \A p \in Participants : Joined(p) =>
    ReservedCash(world, p, None) <= world.participants[p].cash

(* Every working order is covered, all of them together.                   *)
ReservationsCovered == SellsCovered /\ BuysCovered

(* So no working order is refused by its participant's book when the venue *)
(* fills it: every slice the broker may draw is booked.                    *)
WorkingOrdersCanFill ==
  \A i \in Ids : IsWorking(world, i) =>
    LET plans == AutoExecutePlans(world, broker, i)
    IN  plans # {} /\ \A plan \in plans : plan.events # <<>>

-----------------------------------------------------------------------------
(* The trade blotter accounts for each order: its rows add up to the       *)
(* filled quantity, the cost and the accrued fees of that order.           *)
RowSum(rows, amount(_)) == Sum([n \in 1..Len(rows) |-> amount(rows[n])], Len(rows))

BlotterMatchesOrders ==
  \A i \in Ids :
    LET rows == world.order_executions[i]
        qty(r) == r.qty
        gross(r) == Notional(r.px, r.qty)
        fee(r) == r.fee
    IN  /\ world.order_fees[i] = RowSum(rows, fee)
        /\ ~ Known(i) => rows = <<>>
        /\ Known(i) => /\ world.orders[i].state.filled = RowSum(rows, qty)
                       /\ world.orders[i].state.cost = RowSum(rows, gross)

(* Totals over a participant's orders on one side.                         *)
Executed(p, side, amount(_)) ==
  Sum([i \in Ids |-> IF i \in OrdersOf(p) /\ world.orders[i].side = side
                     THEN amount(i) ELSE 0], MaxOrders)

(* Cash and the basis of what is held always add up to the starting cash   *)
(* and the realized P&L: fees are in the basis or in the P&L exactly once, *)
(* and the rounding of the basis is neither profit nor loss.               *)
ProfitIsAccountedFor ==
  \A p \in Participants : Joined(p) =>
    LET b == world.participants[p]
    IN  b.cash + Sum([s \in Symbols |-> b.positions[s].cost], NumSymbols)
          = b.starting_cash + b.realized_pnl

-----------------------------------------------------------------------------
(* Execution ids are the venue's one sequence: no two executions share     *)
(* one, all were minted, and each order's rows are in the order minted, so *)
(* sorting the tape by id puts it in the order things happened.            *)
TapeIsInMintOrder ==
  \A i, j \in Ids :
    LET r == world.order_executions[i]
        q == world.order_executions[j]
    IN  /\ \A m \in DOMAIN r : 0 < r[m].exec_id /\ r[m].exec_id < broker.next_exec_id
        /\ \A m \in DOMAIN r, n \in DOMAIN q :
             /\ i = j /\ m < n => r[m].exec_id < q[n].exec_id
             /\ i # j => r[m].exec_id # q[n].exec_id

(* With every execution drawn by the broker, an order completes in at most *)
(* max_slices of them, however many orders are worked at once.             *)
SlicesBounded == \A i \in Ids : Len(world.order_executions[i]) <= MaxSlices

(* Whether the fills in a list of events leave the day's turnover within   *)
(* the numbers there are.                                                  *)
RoomForTurnover(w, events) ==
  \A n \in 1..Len(events) :
    events[n].kind = "OrderFilled" /\ w.orders[events[n].id] # None =>
      Fits(Traded(w, events[n]))

(* "decide validates everything before any mutation happens" (engine.rs):  *)
(* the fold takes every event that decide emits, so that none is journaled *)
(* which a replay would choke on, with one exception.  The sum of the      *)
(* day's turnover is made in apply only, and a fill for which it overflows *)
(* is planned, journaled and applied by half.                              *)
PlansApply ==
  NextOrderId(world) \in Ids =>
    \A plan \in OfferedPlans(world, broker, NextOrderId(world)) :
      CommitOk(world, plan.events) <=> RoomForTurnover(world, plan.events)

-----------------------------------------------------------------------------
(* An order that has reached a terminal state never changes again, no      *)
(* order changes its terms, fills are never taken back, and the venue's id *)
(* is never forgotten.                                                     *)
HistoryStands ==
  [][\A i \in Ids : Known(i) =>
       LET o == world.orders[i]
           n == world.orders'[i]
       IN  /\ [n EXCEPT !.state = o.state] = o
           /\ IsTerminal(o.state) => n = o
           /\ n.state.filled >= o.state.filled
           /\ world.order_broker_ids[i] # None =>
                world.order_broker_ids'[i] = world.order_broker_ids[i]]_vars

(* A published day is never rewritten.                                     *)
PublishedDaysStand ==
  [][\A d \in Days : IsClosed(world, d) => world.closed'[d] = world.closed[d]]_vars

(* A submitted order rests in NEW until the broker acknowledges it         *)
(* (README, "an order really does sit in NEW"; design.md section 11).  Not *)
(* so: it is acknowledged by the command that submits it.                  *)
SubmittedOrdersAreNew ==
  [][\A i \in Ids : ~ Known(i) /\ IsWorking(world', i) =>
       world'.orders[i].state.name = "NEW"]_vars

(* Every order the operator keeps asking to execute completes.             *)
OrdersComplete ==
  \A i \in Ids : IsWorking(world, i) ~> ~ IsWorking(world, i)
=============================================================================
