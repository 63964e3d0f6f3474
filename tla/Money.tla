------------------------------- MODULE Money --------------------------------
(***************************************************************************)
(* The fixed-point numbers of crates/domain: Money, Px and Qty are all     *)
(* 64-bit integers of raw units, and every operation on them is checked.   *)
(* MaxRaw stands for i64::MAX, so that a small model can reach the limit.  *)
(* The fee schedule is a rate in basis points, rounded down; BpsUnit is    *)
(* 10 000 in the code and smaller in the models, whose notionals are       *)
(* small, so that the rounding still happens.                              *)
(***************************************************************************)
EXTENDS Integers

CONSTANTS MaxRaw, BpsUnit, FeeBps,
          None          \* Option::None, and the absence of a map's entry

(* The rate is the operator's (PTC_FEE_BPS); a sane one is at most 100%.   *)
ASSUME MoneyAssumption ==
  /\ MaxRaw \in Nat
  /\ BpsUnit \in Nat \ {0}
  /\ FeeBps \in 0..BpsUnit

Pxs == Nat \ {0}        \* Px refuses a price that is not positive

Fits(n) == -MaxRaw - 1 <= n /\ n <= MaxRaw

Notional(px, qty) == px * qty

(* Mutant: the fee rounds up, so the parts of an order can cost more than   *)
(* the whole did when its cash was reserved.                               *)
FeeRoundedUp(notional) == (notional * FeeBps + BpsUnit - 1) \div BpsUnit

FeeOf(notional) == (notional * FeeBps) \div BpsUnit

(* Mutant: the basis removed rounds up by one unit.                         *)
CostRemovedUp(cost, sold, held) ==
  IF sold = 0 THEN 0 ELSE (cost * sold) \div held + 1

(* The basis that leaves with a sale; costs are never negative here, so    *)
(* \div is the code's truncating division.                                 *)
CostRemoved(cost, sold, held) == (cost * sold) \div held
=============================================================================
