------------------------------ MODULE Portfolio -----------------------------
(***************************************************************************)
(* A participant's book, domain/src/portfolio.rs and position.rs: cash,    *)
(* realized P&L, fees and one position per symbol.  A position the code    *)
(* has never opened is here a flat one, which every reader of the code     *)
(* treats the same way.                                                    *)
(***************************************************************************)
EXTENDS Money, Sums

CONSTANT NumSymbols

ASSUME NumSymbolsAssumption == NumSymbols \in Nat \ {0}

Symbols == 1..NumSymbols
Sides == {"Buy", "Sell"}

Position == [qty : Nat, cost : Int]
Flat == [qty |-> 0, cost |-> 0]

Book == [starting_cash : Int, cash : Int, realized_pnl : Int, fees_paid : Int,
         positions : [Symbols -> Position]]

Open(cash) ==
  [starting_cash |-> cash, cash |-> cash, realized_pnl |-> 0, fees_paid |-> 0,
   positions |-> [s \in Symbols |-> Flat]]

(* What a buy costs in cash, and what a sell brings and realizes.          *)
Outlay(f) == Notional(f.px, f.qty) + f.fee
ProceedsNet(f) == Notional(f.px, f.qty) - f.fee
Removed(b, f) ==
  CostRemoved(b.positions[f.symbol].cost, f.qty, b.positions[f.symbol].qty)
Pnl(b, f) == ProceedsNet(f) - Removed(b, f)

(* Mutant: the book lets a sell go short.                                   *)
SellAcceptsShort(b, f) == b.positions[f.symbol].qty > 0

BuyAccepts(b, f) ==
  /\ Fits(Notional(f.px, f.qty)) /\ Fits(Outlay(f))
  /\ Outlay(f) <= b.cash
  /\ Fits(b.positions[f.symbol].qty + f.qty)
  /\ Fits(b.positions[f.symbol].cost + Outlay(f))
  /\ Fits(b.cash - Outlay(f))

SellAccepts(b, f) ==
  /\ f.qty <= b.positions[f.symbol].qty
  /\ Fits(Notional(f.px, f.qty)) /\ Fits(ProceedsNet(f))
  /\ Fits(Notional(f.px, f.qty) - Removed(b, f)) /\ Fits(Pnl(b, f))
  /\ Fits(b.cash + ProceedsNet(f))
  /\ Fits(b.realized_pnl + Pnl(b, f))

(* Portfolio::apply returns Ok.                                            *)
BookAccepts(b, f) ==
  /\ Fits(b.fees_paid + f.fee)
  /\ f.side = "Buy" => BuyAccepts(b, f)
  /\ f.side = "Sell" => SellAccepts(b, f)

(* Position::buy and Position::sell: shares and basis in, shares and basis  *)
(* out.                                                                    *)
Bought(pos, qty, cost) == [qty |-> pos.qty + qty, cost |-> pos.cost + cost]
Sold(pos, qty, removed) == [qty |-> pos.qty - qty, cost |-> pos.cost - removed]

(* Mutant: a buy's fee is charged to cash but left out of the basis.        *)
BuyFeeOutsideBasis(b, f) ==
  [b EXCEPT !.cash = @ - Outlay(f),
            !.fees_paid = @ + f.fee,
            !.positions = [@ EXCEPT ![f.symbol] =
              Bought(b.positions[f.symbol], f.qty, Notional(f.px, f.qty))]]

Buy(b, f) ==
  [b EXCEPT !.cash = @ - Outlay(f),
            !.fees_paid = @ + f.fee,
            !.positions = [@ EXCEPT ![f.symbol] =
              Bought(b.positions[f.symbol], f.qty, Outlay(f))]]

(* Mutant: a sell's fee reaches the P&L but not the cash.                   *)
SellFeeNotPaid(b, f) ==
  [b EXCEPT !.cash = @ + Notional(f.px, f.qty),
            !.realized_pnl = @ + Pnl(b, f),
            !.fees_paid = @ + f.fee,
            !.positions = [@ EXCEPT ![f.symbol] =
              Sold(b.positions[f.symbol], f.qty, Removed(b, f))]]

(* Mutant: the subtraction of a sale is written the wrong way round.       *)
SellSwapped(b, f) ==
  [b EXCEPT !.cash = @ + ProceedsNet(f),
            !.realized_pnl = @ + Pnl(b, f),
            !.fees_paid = @ + f.fee,
            !.positions = [@ EXCEPT ![f.symbol] =
              [qty |-> f.qty - b.positions[f.symbol].qty,
               cost |-> b.positions[f.symbol].cost - Removed(b, f)]]]

Sell(b, f) ==
  [b EXCEPT !.cash = @ + ProceedsNet(f),
            !.realized_pnl = @ + Pnl(b, f),
            !.fees_paid = @ + f.fee,
            !.positions = [@ EXCEPT ![f.symbol] =
              Sold(b.positions[f.symbol], f.qty, Removed(b, f))]]

BookFill(b, f) == IF f.side = "Buy" THEN Buy(b, f) ELSE Sell(b, f)

Holds(b, s) == b.positions[s].qty # 0

(* Mutant: positions are valued at what they cost.                         *)
TotalValueAtCost(b, marks) ==
  b.cash + Sum([s \in Symbols |-> b.positions[s].cost], NumSymbols)

TotalValue(b, marks) ==
  b.cash + Sum([s \in Symbols |-> IF Holds(b, s) /\ marks[s] # None
                                  THEN Notional(marks[s], b.positions[s].qty)
                                  ELSE 0], NumSymbols)

(* Mutant: a held symbol without a mark is silently worth nothing.         *)
HasValueUnmarked(b, marks) == Fits(TotalValue(b, marks))

(* total_value fails closed: a held symbol without a mark is an error.     *)
HasValue(b, marks) ==
  /\ \A s \in Symbols :
       Holds(b, s) => marks[s] # None /\ Fits(Notional(marks[s], b.positions[s].qty))
  /\ Fits(TotalValue(b, marks))
=============================================================================
