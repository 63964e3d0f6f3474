-------------------------------- MODULE Digits ------------------------------
(***************************************************************************)
(* Runs of digits: a run is a number and how many digits it is written     *)
(* with, leading zeros among them, so its value is below that power of     *)
(* ten.                                                                    *)
(***************************************************************************)
EXTENDS Sums

TenTo(n) == Product([k \in 1..n |-> 10], n)

(* How many digits a number is printed with: no leading zero.              *)
Width(n) == CHOOSE w \in 1..(n + 1) : n < TenTo(w) /\ (w = 1 \/ TenTo(w - 1) <= n)
=============================================================================
