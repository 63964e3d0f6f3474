------------------------------- MODULE Sorting -------------------------------
(***************************************************************************)
(* The orders in which the code goes through things: that of a BTreeMap's  *)
(* keys, that which slice::sort_by makes, and that which Vec::retain       *)
(* leaves.  A place is the number of those that come no later, so that one *)
(* can reason about it: the sorting and selecting operators of the library *)
(* rest on ones TLC has built in.                                          *)
(***************************************************************************)
EXTENDS Integers, FiniteSets, Sequences

(* A sequence as it is: TLC then computes each of its elements only once.  *)
Listed(s) == <<>> \o s

(* The members of a set, of any two of which one comes before the other.   *)
Sorted(set, before(_, _)) ==
  LET place == [x \in set |-> Cardinality({y \in set : y = x \/ before(y, x)})]
  IN  Listed([k \in 1..Cardinality(set) |-> CHOOSE x \in set : place[x] = k])

(* Numbers, the least first.                                               *)
InOrder(keys) == Sorted(keys, LAMBDA m, n : m < n)

(* slice::sort_by, which is stable: of two elements neither of which comes *)
(* before the other, the one that came first stays first.  A card has an   *)
(* element and where it was.                                               *)
SortBy(s, before(_, _)) ==
  LET precedes(c, d) == \/ before(c[1], d[1])
                        \/ ~ before(d[1], c[1]) /\ c[2] < d[2]
      cards == Sorted({<<s[n], n>> : n \in DOMAIN s}, precedes)
  IN  [k \in DOMAIN s |-> cards[k][1]]

(* Vec::retain: the elements that pass, in the order they stood in.        *)
Retained(s, keeps(_)) ==
  LET kept == InOrder({n \in DOMAIN s : keeps(s[n])})
  IN  [k \in DOMAIN kept |-> s[kept[k]]]
=============================================================================
