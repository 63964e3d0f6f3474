-------------------------------- MODULE Views -------------------------------
(***************************************************************************)
(* What a reader is shown (api/src/dto.rs and the read routes): orders,    *)
(* positions, a portfolio with its valuation, and the tape.  Every view is *)
(* computed from the world when it is asked for.                           *)
(***************************************************************************)
EXTENDS Engine, Sorting

(* Mutant: the venue's id is taken from the order's state.                 *)
OrderViewLiveId(w, i) ==
  LET o == w.orders[i]
  IN  [client_order_id |-> i, participant |-> o.participant, symbol |-> o.symbol,
       side |-> o.side, qty |-> o.qty, limit_px |-> o.limit_px, state |-> o.state.name,
       filled_qty |-> o.state.filled, filled_cost |-> o.state.cost,
       fees |-> w.order_fees[i], remaining_qty |-> Remaining(o),
       broker_order_id |-> o.state.broker_id, replaces |-> o.replaces]

OrderView(w, i) ==
  LET o == w.orders[i]
  IN  [client_order_id |-> i, participant |-> o.participant, symbol |-> o.symbol,
       side |-> o.side, qty |-> o.qty, limit_px |-> o.limit_px, state |-> o.state.name,
       filled_qty |-> o.state.filled, filled_cost |-> o.state.cost,
       fees |-> w.order_fees[i], remaining_qty |-> Remaining(o),
       broker_order_id |-> w.order_broker_ids[i], replaces |-> o.replaces]

-----------------------------------------------------------------------------
(* A price that is not positive is no price.                               *)
AvgCost(pos) ==
  LET avg == pos.cost \div pos.qty
  IN  IF avg > 0 THEN avg ELSE None

(* Mutant: the profit is taken from the rounded average.                   *)
UnrealizedFromAverage(pos, mark) ==
  LET profit == pos.qty * (mark - pos.cost \div pos.qty)
  IN  IF Fits(profit) THEN profit ELSE None

(* Position::unrealized, None where it errs.                               *)
Unrealized(pos, mark) ==
  LET value == Notional(mark, pos.qty)
  IN  IF Fits(value) /\ Fits(value - pos.cost) THEN value - pos.cost ELSE None

MarketValue(pos, mark) ==
  IF Fits(Notional(mark, pos.qty)) THEN Notional(mark, pos.qty) ELSE None

(* At the mark of its symbol; None without one.                            *)
UnrealizedOf(w, p, s) ==
  IF w.marks[s] = None THEN None
  ELSE Unrealized(w.participants[p].positions[s], w.marks[s])

MarketValueOf(w, p, s) ==
  IF w.marks[s] = None THEN None
  ELSE MarketValue(w.participants[p].positions[s], w.marks[s])

PositionView(w, p, s) ==
  LET pos == w.participants[p].positions[s]
  IN  [symbol |-> s, qty |-> pos.qty, avg_price |-> AvgCost(pos), cost_basis |-> pos.cost,
       mark |-> w.marks[s], market_value |-> MarketValueOf(w, p, s),
       unrealized_pnl |-> UnrealizedOf(w, p, s)]

Held(w, p) == {s \in Symbols : Holds(w.participants[p], s)}

(* Portfolio::fold_positions, in symbol order: an error at the first held  *)
(* symbol that has no amount, or at a sum too large.                       *)
FoldPositions(book, amounts) ==
  LET fold[n \in 0..NumSymbols] ==
        IF n = 0 THEN 0
        ELSE IF fold[n - 1] = None \/ ~ Holds(book, n) THEN fold[n - 1]
        ELSE IF amounts[n] = None \/ ~ Fits(fold[n - 1] + amounts[n]) THEN None
        ELSE fold[n - 1] + amounts[n]
  IN  fold[NumSymbols]

(* Both numbers or neither.                                                *)
Valuation(w, p) ==
  LET book == w.participants[p]
      profit == FoldPositions(book, [s \in Symbols |-> UnrealizedOf(w, p, s)])
      value == FoldPositions(book, [s \in Symbols |-> MarketValueOf(w, p, s)])
  IN  IF profit = None \/ value = None \/ ~ Fits(book.cash + value)
      THEN [unrealized_pnl |-> None, total_value |-> None]
      ELSE [unrealized_pnl |-> profit, total_value |-> book.cash + value]

PortfolioView(w, p) ==
  LET book == w.participants[p]
      valuation == Valuation(w, p)
  IN  [participant |-> p, starting_cash |-> book.starting_cash, cash |-> book.cash,
       realized_pnl |-> book.realized_pnl, fees_paid |-> book.fees_paid,
       unrealized_pnl |-> valuation.unrealized_pnl,
       total_value |-> valuation.total_value,
       positions |-> {PositionView(w, p, s) : s \in Held(w, p)},
       active_orders |-> {OrderView(w, i) :
                            i \in {i \in Ids : /\ IsWorking(w, i)
                                               /\ w.orders[i].participant = p}}]

-----------------------------------------------------------------------------
(* GET /executions: each row carries its order's terms.                    *)
TapeRow(w, i, row) ==
  [exec_id |-> row.exec_id, client_order_id |-> i,
   broker_order_id |-> w.order_broker_ids[i], participant |-> w.orders[i].participant,
   symbol |-> w.orders[i].symbol, side |-> w.orders[i].side,
   qty |-> row.qty, px |-> row.px, fee |-> row.fee]

TapeRows(w) ==
  UNION {{TapeRow(w, i, w.order_executions[i][n]) : n \in DOMAIN w.order_executions[i]} :
           i \in Ids}

(* Mutant: the newest execution comes first.                               *)
TapeNewestFirst(w) == Sorted(TapeRows(w), LAMBDA r, q : r.exec_id > q.exec_id)

(* Sorted by execution id; a world of one server process has no two alike. *)
Tape(w) == Sorted(TapeRows(w), LAMBDA r, q : r.exec_id < q.exec_id)
=============================================================================
