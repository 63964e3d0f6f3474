-------------------------------- MODULE Sums --------------------------------
(***************************************************************************)
(* Totals over the numbered keys the other modules use.  The code's        *)
(* BTreeMaps iterate in key order, so order ids, participants and symbols  *)
(* are numbered 1..n here and a loop over a map is a sum over 1..n.  Both  *)
(* are recursive functions, not RECURSIVE operators, so that modules with  *)
(* proofs may use them.                                                    *)
(***************************************************************************)
EXTENDS Integers

Sum(f, n) ==
  LET s[k \in 0..n] == IF k = 0 THEN 0 ELSE s[k - 1] + f[k]
  IN  s[n]

Product(f, n) ==
  LET t[k \in 0..n] == IF k = 0 THEN 1 ELSE t[k - 1] * f[k]
  IN  t[n]
=============================================================================
