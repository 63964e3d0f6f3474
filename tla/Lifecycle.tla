------------------------------ MODULE Lifecycle -----------------------------
(***************************************************************************)
(* The order lifecycle of domain/src/lifecycle.rs: six states and a pure   *)
(* transition function.  An order's state is a record with every field any *)
(* variant carries; a variant that lacks one has its default.  Each event  *)
(* has a guard (the code returns Err when it fails) and a successor.       *)
(***************************************************************************)
EXTENDS Money

Reasons == {"UnknownSymbol", "PriceOffTick", "QtyOffLot", "ExceedsSizeLimit"}

Live     == {"ACKNOWLEDGED", "PARTIALLY_FILLED"}
Terminal == {"FILLED", "CANCELLED", "REJECTED"}
States   == {"NEW"} \cup Live \cup Terminal

OrderState == [name : States, broker_id : Int \cup {None},
               filled : Nat, cost : Int, reason : Reasons \cup {None}]

New == [name |-> "NEW", broker_id |-> None,
        filled |-> 0, cost |-> 0, reason |-> None]

IsTerminal(s) == s.name \in Terminal

CanAcknowledge(s) == s.name = "NEW"
Acknowledge(s, id) == [s EXCEPT !.name = "ACKNOWLEDGED", !.broker_id = id]

CanReject(s) == s.name = "NEW"
Reject(s, why) == [s EXCEPT !.name = "REJECTED", !.reason = why]

(* Mutant: cancelling forgets what had already executed.                    *)
CancelForgets(s) ==
  [s EXCEPT !.name = "CANCELLED", !.broker_id = None, !.filled = 0, !.cost = 0]

(* Mutant: a filled order can still be cancelled, and so replaced.          *)
CanCancelFilled(s) == s.name \in {"NEW", "FILLED"} \cup Live

CanCancel(s) == s.name \in {"NEW"} \cup Live
Cancel(s) == [s EXCEPT !.name = "CANCELLED", !.broker_id = None]

(* Mutant: the overfill check forgets what is already filled.               *)
CanFillBlind(s, ordered, qty, px) ==
  /\ s.name \in Live
  /\ 0 < qty /\ qty <= ordered

CanFill(s, ordered, qty, px) ==
  /\ s.name \in Live
  /\ qty > 0
  /\ s.filled + qty <= ordered
  /\ Fits(Notional(px, qty))
  /\ Fits(s.cost + Notional(px, qty))

(* Mutant: the last fill leaves the order partially filled.                *)
FillNeverCompletes(s, ordered, qty, px) ==
  [s EXCEPT !.name = "PARTIALLY_FILLED", !.filled = @ + qty,
            !.cost = @ + Notional(px, qty)]

Fill(s, ordered, qty, px) ==
  LET total == s.filled + qty
  IN  [s EXCEPT !.name = IF total = ordered THEN "FILLED" ELSE "PARTIALLY_FILLED",
                !.broker_id = IF total = ordered THEN None ELSE @,
                !.filled = total,
                !.cost = @ + Notional(px, qty)]
=============================================================================
