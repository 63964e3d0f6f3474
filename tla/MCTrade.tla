-------------------------------- MODULE MCTrade -----------------------------
(***************************************************************************)
(* One participant trading one symbol: reservations, fees, partial fills,  *)
(* cancels and replaces, with the broker's and the operator's executions.  *)
(***************************************************************************)
EXTENDS EngineProperties, Views

(* What a row of the tape brings a participant, in cash and in shares.     *)
CashFlow(row, p) ==
  IF row.participant # p THEN 0
  ELSE IF row.side = "Buy" THEN - Notional(row.px, row.qty) - row.fee
       ELSE Notional(row.px, row.qty) - row.fee

ShareFlow(row, p, s) ==
  IF row.participant # p \/ row.symbol # s THEN 0
  ELSE IF row.side = "Buy" THEN row.qty ELSE - row.qty

FeeFlow(row, p) == IF row.participant # p THEN 0 ELSE row.fee

(* What the first n rows leave a participant with.                         *)
CashAfter(rows, p, n) ==
  world.participants[p].starting_cash + Sum([k \in 1..n |-> CashFlow(rows[k], p)], n)
SharesAfter(rows, p, s, n) == Sum([k \in 1..n |-> ShareFlow(rows[k], p, s)], n)
FeesAfter(rows, p, n) == Sum([k \in 1..n |-> FeeFlow(rows[k], p)], n)

(* The tape, read from the start, is a history that could have happened:   *)
(* at no row has anyone spent cash or sold shares that the rows before did *)
(* not give them, and at its end it explains every balance and all fees.   *)
TapeIsAHistory ==
  \A rows \in {Tape(world)} : \A p \in Participants : Joined(p) =>
    /\ \A n \in 0..Len(rows) : /\ CashAfter(rows, p, n) >= 0
                               /\ \A s \in Symbols : SharesAfter(rows, p, s, n) >= 0
    /\ CashAfter(rows, p, Len(rows)) = PortfolioView(world, p).cash
    /\ FeesAfter(rows, p, Len(rows)) = PortfolioView(world, p).fees_paid
    /\ \A s \in Symbols :
         SharesAfter(rows, p, s, Len(rows)) = world.participants[p].positions[s].qty
=============================================================================
