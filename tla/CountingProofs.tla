---------------------------- MODULE CountingProofs --------------------------
(***************************************************************************)
(* What the totals and the orders of Sums and Sorting come to, for every   *)
(* number of keys and of rows: the lemmas that the other proofs cite.      *)
(***************************************************************************)
EXTENDS Sums, Sorting, FiniteSetTheorems, SequenceTheorems, TLAPS

-----------------------------------------------------------------------------
(***************************************************************************)
(* What Sum computes, for every number of terms.  The proofs are by least  *)
(* counterexample: the set of the numbers a statement fails for would have *)
(* a least element, because the order of the naturals is well founded.     *)
(***************************************************************************)
Below == {p \in Nat \X Nat : p[1] < p[2]}

(* Every non-empty set of naturals has a least element.                    *)
LEMMA Least ==
  ASSUME NEW T \in SUBSET Nat, T # {}
  PROVE  \E x \in T : \A y \in T : x <= y
  <1>1. IsWellFoundedOn(Below, Nat)
    BY NatLessThanWellFounded, Zenon DEF OpToRel, Below
  <1>2. PICK x \in T : \A y \in T : <<y, x>> \notin Below
    BY <1>1, WFMin
  <1>3. ASSUME NEW y \in T PROVE x <= y
    <2>1. <<y, x>> \in Nat \X Nat /\ <<y, x>>[1] = y /\ <<y, x>>[2] = x
      OBVIOUS
    <2>2. ~ (y < x)
      BY <1>2, <2>1 DEF Below
    <2> QED BY <2>2
  <1> QED BY <1>3

(* Partial sums: s adds up f as far as n.                                  *)
Adds(s, f, n) ==
  /\ s \in [0..n -> Int]
  /\ s[0] = 0
  /\ \A k \in 1..n : s[k] = s[k - 1] + f[k]

LEMMA PartialSumsExist ==
  ASSUME NEW n \in Nat, NEW f \in [1..n -> Int]
  PROVE  \E s : Adds(s, f, n)
  <1> DEFINE Bad == {m \in 0..n : ~ \E s : Adds(s, f, m)}
  <1>1. SUFFICES ASSUME n \in Bad PROVE FALSE
    BY DEF Adds
  <1>2. PICK m \in Bad : \A k \in Bad : m <= k
    <2>1. Bad \in SUBSET Nat /\ Bad # {}
      BY <1>1
    <2> HIDE DEF Bad
    <2> QED BY <2>1, Least
  <1>3. CASE m = 0
    <2>1. Adds([k \in 0..0 |-> 0], f, 0)
      BY DEF Adds
    <2> QED BY <1>2, <1>3, <2>1
  <1>4. CASE m # 0
    <2>1. m \in 1..n /\ m - 1 \in 0..n /\ m - 1 \notin Bad
      BY <1>2, <1>4
    <2>2. PICK s : Adds(s, f, m - 1)
      BY <2>1
    <2> DEFINE t == [k \in 0..m |-> IF k = m THEN s[m - 1] + f[m] ELSE s[k]]
    <2>3. Adds(t, f, m)
      BY <2>1, <2>2, SMTT(20) DEF Adds
    <2> QED BY <1>2, <2>3
  <1> QED BY <1>3, <1>4

LEMMA PartialSumsAgree ==
  ASSUME NEW n \in Nat, NEW f \in [1..n -> Int], NEW m \in 0..n,
         NEW s, Adds(s, f, n), NEW t, Adds(t, f, m)
  PROVE  \A k \in 0..m : s[k] = t[k]
  <1> DEFINE Bad == {k \in 0..m : s[k] # t[k]}
  <1>1. SUFFICES ASSUME Bad # {} PROVE FALSE
    OBVIOUS
  <1>2. PICK k \in Bad : \A j \in Bad : k <= j
    <2>1. Bad \in SUBSET Nat
      OBVIOUS
    <2> HIDE DEF Bad
    <2> QED BY <1>1, <2>1, Least
  <1>3. k # 0
    BY <1>2 DEF Adds
  <1>4. k - 1 \in 0..m /\ k - 1 \notin Bad /\ k \in 1..m /\ k \in 1..n
    BY <1>2, <1>3
  <1>5. s[k] = s[k - 1] + f[k] /\ t[k] = t[k - 1] + f[k]
    BY <1>4 DEF Adds
  <1> QED BY <1>2, <1>4, <1>5

(* Sum is the last of the partial sums.                                    *)
LEMMA SumAdds ==
  ASSUME NEW n \in Nat, NEW f \in [1..n -> Int]
  PROVE  \E s : Adds(s, f, n) /\ Sum(f, n) = s[n]
  <1> DEFINE s == CHOOSE s : s = [k \in 0..n |-> IF k = 0 THEN 0 ELSE s[k - 1] + f[k]]
  <1>1. PICK t : Adds(t, f, n)
    BY PartialSumsExist
  <1>2. t = [k \in 0..n |-> IF k = 0 THEN 0 ELSE t[k - 1] + f[k]]
    BY <1>1 DEF Adds
  <1>3. s = [k \in 0..n |-> IF k = 0 THEN 0 ELSE s[k - 1] + f[k]]
    BY <1>2
  <1>4. Sum(f, n) = s[n]
    BY DEF Sum
  <1> HIDE DEF s
  <1>5. s \in [0..n -> Int]
    <2> DEFINE Bad == {k \in 0..n : s[k] \notin Int}
    <2>1. SUFFICES ASSUME Bad # {} PROVE FALSE
      BY <1>3
    <2>2. PICK k \in Bad : \A j \in Bad : k <= j
      <3>1. Bad \in SUBSET Nat
        OBVIOUS
      <3> HIDE DEF Bad
      <3> QED BY <2>1, <3>1, Least
    <2>3. k # 0
      BY <1>3, <2>2
    <2>4. k - 1 \in 0..n /\ k - 1 \notin Bad /\ k \in 1..n
      BY <2>2, <2>3
    <2>5. s[k] = s[k - 1] + f[k]
      BY <1>3, <2>4
    <2> QED BY <2>2, <2>4, <2>5
  <1>6. Adds(s, f, n)
    BY <1>3, <1>5 DEF Adds
  <1> QED BY <1>4, <1>6

(* Induction up to n, for sets: what holds of 0 and goes from each number  *)
(* to the next holds of all of them.                                       *)
LEMMA UpTo ==
  ASSUME NEW n \in Nat, NEW T, 0 \in T, \A k \in 1..n : k - 1 \in T => k \in T
  PROVE  \A k \in 0..n : k \in T
  <1> DEFINE Bad == {k \in 0..n : k \notin T}
  <1>1. SUFFICES ASSUME Bad # {} PROVE FALSE
    OBVIOUS
  <1>2. PICK k \in Bad : \A j \in Bad : k <= j
    <2>1. Bad \in SUBSET Nat
      OBVIOUS
    <2> HIDE DEF Bad
    <2> QED BY <1>1, <2>1, Least
  <1>3. k \in 1..n /\ k - 1 \in 0..n /\ k - 1 \notin Bad
    BY <1>2
  <1> QED BY <1>2, <1>3

(* One term more.                                                          *)
LEMMA SumOfOneMore ==
  ASSUME NEW n \in Nat, NEW f \in [1..n -> Int], NEW g \in [1..(n + 1) -> Int],
         \A k \in 1..n : g[k] = f[k]
  PROVE  Sum(g, n + 1) = Sum(f, n) + g[n + 1]
  <1>1. PICK s : Adds(s, f, n) /\ Sum(f, n) = s[n]
    BY SumAdds
  <1>2. PICK t : Adds(t, g, n + 1) /\ Sum(g, n + 1) = t[n + 1]
    BY SumAdds
  <1> DEFINE r == [k \in 0..n |-> t[k]]
  <1>3. Adds(r, f, n)
    BY <1>2 DEF Adds
  <1>4. s[n] = r[n]
    <2>1. n \in 0..n
      OBVIOUS
    <2> HIDE DEF r
    <2> QED BY <1>1, <1>3, <2>1, PartialSumsAgree
  <1>5. t[n + 1] = t[n] + g[n + 1] /\ r[n] = t[n]
    BY <1>2 DEF Adds
  <1> HIDE DEF r
  <1> QED BY <1>1, <1>2, <1>4, <1>5

(* One term changed.                                                       *)
LEMMA SumOfOneChanged ==
  ASSUME NEW n \in Nat, NEW f \in [1..n -> Int], NEW g \in [1..n -> Int],
         NEW i \in 1..n, \A k \in 1..n : k # i => g[k] = f[k]
  PROVE  Sum(g, n) = Sum(f, n) + g[i] - f[i]
  <1>1. PICK s : Adds(s, f, n) /\ Sum(f, n) = s[n]
    BY SumAdds
  <1>2. PICK t : Adds(t, g, n) /\ Sum(g, n) = t[n]
    BY SumAdds
  <1> DEFINE T == {k \in 0..n : t[k] = s[k] + (IF k < i THEN 0 ELSE g[i] - f[i])}
  <1>3. 0 \in T
    BY <1>1, <1>2 DEF Adds
  <1>4. ASSUME NEW k \in 1..n, k - 1 \in T PROVE k \in T
    <2>1. /\ s[k] = s[k - 1] + f[k] /\ t[k] = t[k - 1] + g[k]
          /\ s[k - 1] \in Int /\ s[k] \in Int /\ t[k] \in Int
      BY <1>1, <1>2 DEF Adds
    <2>2. t[k - 1] = s[k - 1] + (IF k - 1 < i THEN 0 ELSE g[i] - f[i])
      BY <1>4
    <2>3. k # i => g[k] = f[k]
      OBVIOUS
    <2> QED BY <2>1, <2>2, <2>3, SMTT(20)
  <1>5. n \in T
    <2>1. \A k \in 1..n : k - 1 \in T => k \in T
      BY <1>4
    <2> HIDE DEF T
    <2>2. \A k \in 0..n : k \in T
      BY <1>3, <2>1, UpTo
    <2> QED BY <2>2
  <1> QED BY <1>1, <1>2, <1>5 DEF Adds

(* No term smaller.                                                        *)
LEMMA SumGrows ==
  ASSUME NEW n \in Nat, NEW f \in [1..n -> Int], NEW g \in [1..n -> Int],
         \A k \in 1..n : f[k] <= g[k]
  PROVE  Sum(f, n) <= Sum(g, n)
  <1>1. PICK s : Adds(s, f, n) /\ Sum(f, n) = s[n]
    BY SumAdds
  <1>2. PICK t : Adds(t, g, n) /\ Sum(g, n) = t[n]
    BY SumAdds
  <1> DEFINE T == {k \in 0..n : s[k] <= t[k]}
  <1>3. 0 \in T
    BY <1>1, <1>2 DEF Adds
  <1>4. ASSUME NEW k \in 1..n, k - 1 \in T PROVE k \in T
    BY <1>1, <1>2, <1>4 DEF Adds
  <1>5. n \in T
    <2>1. \A k \in 1..n : k - 1 \in T => k \in T
      BY <1>4
    <2> HIDE DEF T
    <2>2. \A k \in 0..n : k \in T
      BY <1>3, <2>1, UpTo
    <2> QED BY <2>2
  <1> QED BY <1>1, <1>2, <1>5

(* One term changes and the others at most shrink.                         *)
LEMMA SumMoves ==
  ASSUME NEW n \in Nat, NEW f \in [1..n -> Int], NEW g \in [1..n -> Int],
         NEW i \in 1..n, \A k \in 1..n : k # i => g[k] <= f[k]
  PROVE  Sum(g, n) <= Sum(f, n) + g[i] - f[i]
  <1> DEFINE h == [k \in 1..n |-> IF k = i THEN g[i] ELSE f[k]]
  <1>1. /\ h \in [1..n -> Int] /\ h[i] = g[i]
        /\ \A k \in 1..n : k # i => h[k] = f[k]
        /\ \A k \in 1..n : g[k] <= h[k]
    OBVIOUS
  <1> HIDE DEF h
  <1>2. Sum(h, n) = Sum(f, n) + h[i] - f[i]
    BY <1>1, SumOfOneChanged
  <1>3. Sum(g, n) <= Sum(h, n)
    BY <1>1, SumGrows
  <1> QED BY <1>1, <1>2, <1>3

(* A sum without a term that is not zero.                                  *)
LEMMA SumOfZeros ==
  ASSUME NEW n \in Nat, NEW f \in [1..n -> Int], \A k \in 1..n : f[k] = 0
  PROVE  Sum(f, n) = 0
  <1>1. PICK s : Adds(s, f, n) /\ Sum(f, n) = s[n]
    BY SumAdds
  <1> DEFINE T == {k \in 0..n : s[k] = 0}
  <1>2. 0 \in T /\ \A k \in 1..n : k - 1 \in T => k \in T
    BY <1>1 DEF Adds
  <1>3. n \in T
    <2> HIDE DEF T
    <2> QED BY <1>2, UpTo
  <1> QED BY <1>1, <1>3

(* No term of a sum of naturals is more than the sum.                      *)
LEMMA TermInSum ==
  ASSUME NEW n \in Nat, NEW f \in [1..n -> Nat], NEW i \in 1..n
  PROVE  f[i] <= Sum(f, n)
  <1> DEFINE z == [k \in 1..n |-> 0]
             g == [k \in 1..n |-> IF k = i THEN f[i] ELSE 0]
  <1>1. /\ f \in [1..n -> Int] /\ z \in [1..n -> Int] /\ g \in [1..n -> Int]
        /\ \A k \in 1..n : z[k] = 0
        /\ \A k \in 1..n : k # i => g[k] = z[k]
        /\ \A k \in 1..n : g[k] <= f[k]
        /\ g[i] = f[i]
    OBVIOUS
  <1> HIDE DEF z, g
  <1>2. Sum(z, n) = 0
    BY <1>1, SumOfZeros
  <1>3. Sum(g, n) = Sum(z, n) + g[i] - z[i]
    BY <1>1, SumOfOneChanged, ZenonT(30)
  <1>4. Sum(g, n) <= Sum(f, n)
    BY <1>1, SumGrows
  <1> QED BY <1>1, <1>2, <1>3, <1>4

(* A sum of nothing.                                                       *)
LEMMA SumOfNone ==
  ASSUME NEW f \in [1..0 -> Int]
  PROVE  Sum(f, 0) = 0
  BY SumAdds DEF Adds

(* The differences of two sums are the sums of the differences.            *)
LEMMA DifferencesAdd ==
  ASSUME NEW n \in Nat, NEW f \in [1..n -> Int], NEW g \in [1..n -> Int],
         NEW v, Adds(v, f, n), NEW c, Adds(c, g, n),
         NEW h, \A k \in 1..n : h[k] = f[k] - g[k]
  PROVE  Adds([k \in 0..n |-> v[k] - c[k]], h, n)
  <1> DEFINE d == [k \in 0..n |-> v[k] - c[k]]
  <1>1. v \in [0..n -> Int] /\ c \in [0..n -> Int] /\ v[0] = 0 /\ c[0] = 0 /\ 0 \in 0..n
    BY DEF Adds
  <1>2. d \in [0..n -> Int] /\ d[0] = 0
    BY <1>1
  <1>3. ASSUME NEW k \in 1..n PROVE d[k] = d[k - 1] + h[k]
    <2>1. k \in 0..n /\ k - 1 \in 0..n
      OBVIOUS
    <2>2. v[k] = v[k - 1] + f[k] /\ c[k] = c[k - 1] + g[k]
      BY DEF Adds
    <2>3. d[k] = v[k] - c[k] /\ d[k - 1] = v[k - 1] - c[k - 1] /\ h[k] = f[k] - g[k]
      BY <2>1
    <2>4. v[k - 1] \in Int /\ c[k - 1] \in Int /\ f[k] \in Int /\ g[k] \in Int
      BY <1>1, <2>1
    <2> HIDE DEF d
    <2> QED BY <2>2, <2>3, <2>4
  <1> HIDE DEF d
  <1>4. Adds(d, h, n)
    BY <1>2, <1>3 DEF Adds
  <1> QED BY <1>4 DEF d

LEMMA SumOfDifferences ==
  ASSUME NEW n \in Nat, NEW f \in [1..n -> Int], NEW g \in [1..n -> Int],
         NEW h \in [1..n -> Int], \A k \in 1..n : h[k] = f[k] - g[k]
  PROVE  Sum(h, n) = Sum(f, n) - Sum(g, n)
  <1>1. PICK v : Adds(v, f, n) /\ Sum(f, n) = v[n]
    BY SumAdds
  <1>2. PICK c : Adds(c, g, n) /\ Sum(g, n) = c[n]
    BY SumAdds
  <1>3. PICK s : Adds(s, h, n) /\ Sum(h, n) = s[n]
    BY SumAdds
  <1> DEFINE d == [k \in 0..n |-> v[k] - c[k]]
  <1>4. Adds(d, h, n)
    BY <1>1, <1>2, DifferencesAdd
  <1>5. n \in 0..n
    OBVIOUS
  <1>6. d[n] = v[n] - c[n]
    BY <1>5
  <1> HIDE DEF d
  <1>7. s[n] = d[n]
    BY <1>3, <1>4, <1>5, PartialSumsAgree, SMTT(20)
  <1> QED BY <1>1, <1>2, <1>3, <1>6, <1>7

(* A sum of integers is an integer, however many there are: what a loop    *)
(* over a map of the code adds up to.                                      *)
LEMMA SumTyped ==
  ASSUME NEW n \in Nat, NEW f \in [1..n -> Int]
  PROVE  Sum(f, n) \in Int
  BY SumAdds DEF Adds
-----------------------------------------------------------------------------
(***************************************************************************)
(* What Sorted makes of a set: the sequence that goes through it upwards.  *)
(* An order is given here as a set of pairs, since no lemma can take an    *)
(* operator.                                                               *)
(***************************************************************************)
Strict(R, S) == \A x, y \in S : <<x, y>> \in R => <<y, x>> \notin R

(* Those that come no later than x.                                        *)
UpToHere(S, R, x) == {y \in S : y = x \/ <<y, x>> \in R}
Place(S, R, x) == Cardinality(UpToHere(S, R, x))

(* f goes through all of S, n elements, upwards.                           *)
Ascends(f, n, S, R) ==
  /\ f \in [1..n -> S]
  /\ \A x \in S : \E k \in 1..n : f[k] = x
  /\ \A j, k \in 1..n : j < k => <<f[j], f[k]>> \in R

LEMMA AscendingCounts ==
  ASSUME NEW n \in Nat, NEW S, NEW R, Strict(R, S), NEW f, Ascends(f, n, S, R)
  PROVE  IsFiniteSet(S) /\ Cardinality(S) = n
  <1>1. ASSUME NEW j \in 1..n, NEW k \in 1..n, f[j] = f[k] PROVE j = k
    <2>1. f[j] \in S /\ f[k] \in S
      BY DEF Ascends
    <2>2. j < k \/ k < j \/ j = k
      OBVIOUS
    <2> QED BY <1>1, <2>1, <2>2 DEF Ascends, Strict
  <1>2. f \in Injection(1..n, S)
    BY <1>1 DEF Injection, IsInjective, Ascends
  <1>3. f \in Surjection(1..n, S)
    BY DEF Surjection, Ascends
  <1>4. ExistsBijection(1..n, S)
    BY <1>2, <1>3 DEF ExistsBijection, Bijection
  <1> QED BY <1>4, FS_CountingElements, FS_NatBijection

LEMMA AscendingPlaces ==
  ASSUME NEW n \in Nat, NEW S, NEW R, Strict(R, S), NEW f, Ascends(f, n, S, R),
         NEW k \in 1..n
  PROVE  Place(S, R, f[k]) = k
  <1> DEFINE T == UpToHere(S, R, f[k])
             g == [j \in 1..k |-> f[j]]
  <1>1. \A j \in 1..k : j \in 1..n /\ f[j] \in T
    BY DEF UpToHere, Ascends
  <1>2. \A x \in T : \E j \in 1..k : f[j] = x
    <2> SUFFICES ASSUME NEW x \in T PROVE \E j \in 1..k : f[j] = x
      OBVIOUS
    <2>1. x \in S /\ (x = f[k] \/ <<x, f[k]>> \in R) /\ f[k] \in S
      BY DEF UpToHere, Ascends
    <2>2. PICK j \in 1..n : f[j] = x
      BY <2>1 DEF Ascends
    <2>3. CASE k < j
      <3>1. <<f[k], x>> \in R
        BY <2>2, <2>3 DEF Ascends
      <3> QED BY <2>1, <3>1 DEF Strict
    <2>4. CASE j <= k
      BY <2>2, <2>4
    <2> QED BY <2>3, <2>4
  <1>3. Ascends(g, k, T, R)
    <2>1. g \in [1..k -> T]
      BY <1>1
    <2>2. \A x \in T : \E j \in 1..k : g[j] = x
      BY <1>2
    <2>3. \A i, j \in 1..k : i < j => <<g[i], g[j]>> \in R
      BY <1>1 DEF Ascends
    <2> HIDE DEF g, T
    <2> QED BY <2>1, <2>2, <2>3 DEF Ascends
  <1>4. Strict(R, T)
    BY DEF Strict, UpToHere
  <1> HIDE DEF T, g
  <1>5. Cardinality(T) = k
    BY <1>3, <1>4, AscendingCounts
  <1> QED BY <1>5 DEF Place, T

(* There is but one way to go through a set upwards.                       *)
LEMMA OnlyOneAscends ==
  ASSUME NEW n \in Nat, NEW S, NEW R, Strict(R, S), NEW f, Ascends(f, n, S, R),
         NEW g, \A k \in 1..n : g[k] \in S /\ Place(S, R, g[k]) = k
  PROVE  \A k \in 1..n : g[k] = f[k]
  <1> SUFFICES ASSUME NEW k \in 1..n PROVE g[k] = f[k]
    OBVIOUS
  <1>1. PICK j \in 1..n : f[j] = g[k]
    BY DEF Ascends
  <1>2. Place(S, R, f[j]) = j
    BY AscendingPlaces
  <1> QED BY <1>1, <1>2

(* Of two that differ one comes before the other, and nothing before what  *)
(* came before it.                                                         *)
Orders(R, S) ==
  /\ Strict(R, S)
  /\ \A x, y \in S : x = y \/ <<x, y>> \in R \/ <<y, x>> \in R
  /\ \A x, y, z \in S : <<x, y>> \in R /\ <<y, z>> \in R => <<x, z>> \in R

LEMMA LaterPlacesAreHigher ==
  ASSUME NEW S, IsFiniteSet(S), NEW R, Orders(R, S), NEW x \in S, NEW y \in S, <<x, y>> \in R
  PROVE  Place(S, R, x) < Place(S, R, y)
  <1> DEFINE A == UpToHere(S, R, x)
             B == UpToHere(S, R, y)
  <1>1. A \subseteq B /\ B \subseteq S /\ y \in B /\ y \notin A
    BY DEF UpToHere, Orders, Strict
  <1> HIDE DEF A, B
  <1>2. IsFiniteSet(B)
    BY <1>1, FS_Subset
  <1>3. /\ IsFiniteSet(A) /\ Cardinality(A) <= Cardinality(B)
        /\ Cardinality(A) # Cardinality(B)
    BY <1>1, <1>2, FS_Subset
  <1>4. Cardinality(A) \in Nat /\ Cardinality(B) \in Nat
    BY <1>2, <1>3, FS_CardinalityType
  <1>5. Cardinality(A) < Cardinality(B)
    BY <1>3, <1>4
  <1> QED BY <1>5 DEF Place, A, B

LEMMA PlacesAreInRange ==
  ASSUME NEW S, IsFiniteSet(S), NEW R, NEW x \in S
  PROVE  Place(S, R, x) \in 1..Cardinality(S)
  <1> DEFINE A == UpToHere(S, R, x)
  <1>1. A \in SUBSET S /\ x \in A
    BY DEF UpToHere
  <1> HIDE DEF A
  <1>2. IsFiniteSet(A) /\ Cardinality(A) <= Cardinality(S)
    BY <1>1, FS_Subset
  <1>3. Cardinality(A) \in Nat /\ Cardinality(S) \in Nat /\ Cardinality(A) # 0
    BY <1>1, <1>2, FS_CardinalityType, FS_EmptySet
  <1>4. Cardinality(A) \in 1..Cardinality(S)
    BY <1>2, <1>3
  <1> QED BY <1>4 DEF Place, A

(* Every place is somebody's.                                              *)
LEMMA PlacesAreTaken ==
  ASSUME NEW S, IsFiniteSet(S), NEW R, Orders(R, S)
  PROVE  \A k \in 1..Cardinality(S) : \E x \in S : Place(S, R, x) = k
  <1> DEFINE n == Cardinality(S)
             f == [x \in S |-> Place(S, R, x)]
  <1>1. n \in Nat
    BY FS_CardinalityType
  <1>2. f \in [S -> 1..n]
    BY PlacesAreInRange
  <1>3. ASSUME NEW x \in S, NEW y \in S, x # y PROVE f[x] # f[y]
    <2>1. f[x] = Place(S, R, x) /\ f[y] = Place(S, R, y)
      OBVIOUS
    <2>2. f[x] \in 1..n /\ f[y] \in 1..n
      BY <1>2
    <2>3. <<x, y>> \in R \/ <<y, x>> \in R
      BY <1>3 DEF Orders
    <2>4. f[x] < f[y] \/ f[y] < f[x]
      BY <2>1, <2>3, LaterPlacesAreHigher
    <2> HIDE DEF f, n
    <2> QED BY <1>1, <2>2, <2>4
  <1>4. f \in Injection(S, 1..n)
    <2> HIDE DEF f, n
    <2> QED BY <1>2, <1>3 DEF Injection, IsInjective
  <1>5. IsFiniteSet(1..n) /\ Cardinality(1..n) = n
    BY <1>1, FS_Interval
  <1>6. f \in Surjection(S, 1..n)
    <2> HIDE DEF f
    <2> QED BY <1>4, <1>5, FS_Injection
  <1>7. \A k \in 1..n : \E x \in S : f[x] = k
    <2> HIDE DEF f, n
    <2> QED BY <1>6 DEF Surjection
  <1> QED BY <1>7

(* Whatever has each in its place goes through them upwards.               *)
LEMMA PlacesAscend ==
  ASSUME NEW S, IsFiniteSet(S), NEW R, Orders(R, S), NEW f,
         f \in [1..Cardinality(S) -> S],
         \A k \in 1..Cardinality(S) : Place(S, R, f[k]) = k
  PROVE  Ascends(f, Cardinality(S), S, R)
  <1> DEFINE n == Cardinality(S)
  <1>1. n \in Nat
    BY FS_CardinalityType
  <1>2. ASSUME NEW x \in S, NEW y \in S, Place(S, R, x) = Place(S, R, y) PROVE x = y
    <2>1. Place(S, R, x) \in 1..n /\ Place(S, R, y) \in 1..n
      BY PlacesAreInRange
    <2>2. <<x, y>> \in R => Place(S, R, x) < Place(S, R, y)
      BY LaterPlacesAreHigher
    <2>3. <<y, x>> \in R => Place(S, R, y) < Place(S, R, x)
      BY LaterPlacesAreHigher
    <2> HIDE DEF n
    <2> QED BY <1>1, <1>2, <2>1, <2>2, <2>3 DEF Orders
  <1>3. \A x \in S : \E k \in 1..n : f[k] = x
    <2> SUFFICES ASSUME NEW x \in S PROVE \E k \in 1..n : f[k] = x
      OBVIOUS
    <2>1. Place(S, R, x) \in 1..n
      BY PlacesAreInRange
    <2>2. f[Place(S, R, x)] \in S /\ Place(S, R, f[Place(S, R, x)]) = Place(S, R, x)
      BY <2>1
    <2>3. f[Place(S, R, x)] = x
      BY <1>2, <2>2
    <2> QED BY <2>1, <2>3
  <1>4. ASSUME NEW j \in 1..n, NEW k \in 1..n, j < k PROVE <<f[j], f[k]>> \in R
    <2>1. f[j] \in S /\ f[k] \in S /\ Place(S, R, f[j]) = j /\ Place(S, R, f[k]) = k
      OBVIOUS
    <2>2. <<f[k], f[j]>> \in R => k < j
      BY <2>1, LaterPlacesAreHigher
    <2>3. f[j] # f[k]
      BY <1>4, <2>1
    <2> HIDE DEF n
    <2> QED BY <1>1, <1>4, <2>1, <2>2, <2>3 DEF Orders
  <1> QED BY <1>3, <1>4 DEF Ascends
-----------------------------------------------------------------------------
(***************************************************************************)
(* Sorted and SortBy, of an order given as a set of pairs.                 *)
(***************************************************************************)
Ranked(S, R) ==
  LET place == [x \in S |-> Place(S, R, x)]
  IN  Listed([k \in 1..Cardinality(S) |-> CHOOSE x \in S : place[x] = k])

LEMMA ListedIsTheSame ==
  ASSUME NEW n \in Nat, NEW S, NEW f \in [1..n -> S]
  PROVE  Listed(f) = f
  <1>1. f \in Seq(S)
    BY SeqDef
  <1> QED BY <1>1, ConcatEmptySeq DEF Listed

LEMMA RankedAscends ==
  ASSUME NEW S, IsFiniteSet(S), NEW R, Orders(R, S)
  PROVE  Ascends(Ranked(S, R), Cardinality(S), S, R)
  <1> DEFINE n == Cardinality(S)
             place == [x \in S |-> Place(S, R, x)]
             f == [k \in 1..n |-> CHOOSE x \in S : place[x] = k]
  <1>1. n \in Nat
    BY FS_CardinalityType
  <1>2. \A k \in 1..n : \E x \in S : place[x] = k
    BY PlacesAreTaken
  <1>3. \A k \in 1..n : f[k] \in S /\ place[f[k]] = k
    <2> HIDE DEF place, n
    <2> QED BY <1>2
  <1>4. f \in [1..n -> S]
    <2> HIDE DEF place, n
    <2> QED BY <1>3
  <1>5. \A k \in 1..n : Place(S, R, f[k]) = k
    <2> HIDE DEF f, n
    <2> QED BY <1>3
  <1>6. Ranked(S, R) = Listed(f)
    BY DEF Ranked
  <1> HIDE DEF f
  <1>7. Listed(f) = f
    BY <1>1, <1>4, ListedIsTheSame
  <1> QED BY <1>4, <1>5, <1>6, <1>7, PlacesAscend

(* The keys of a map, in order.                                            *)
Increasing(keys) == {z \in keys \X keys : z[1] < z[2]}

LEMMA InOrderAscends ==
  ASSUME NEW keys \in SUBSET Int, IsFiniteSet(keys)
  PROVE  Ascends(InOrder(keys), Cardinality(keys), keys, Increasing(keys))
  <1> DEFINE R == Increasing(keys)
             place == [x \in keys |-> Cardinality({y \in keys : y = x \/ y < x})]
  <1>1. Orders(R, keys)
    BY DEF Orders, Strict, Increasing
  <1>2. place = [x \in keys |-> Place(keys, R, x)]
    <2> SUFFICES ASSUME NEW x \in keys
                 PROVE  Cardinality({y \in keys : y = x \/ y < x}) = Place(keys, R, x)
      OBVIOUS
    <2>1. {y \in keys : y = x \/ y < x} = UpToHere(keys, R, x)
      BY DEF UpToHere, Increasing
    <2> QED BY <2>1 DEF Place
  <1>3. InOrder(keys) = Listed([k \in 1..Cardinality(keys) |-> CHOOSE x \in keys : place[x] = k])
    BY DEF InOrder, Sorted
  <1>4. InOrder(keys) = Ranked(keys, R)
    <2> HIDE DEF place
    <2> QED BY <1>2, <1>3 DEF Ranked
  <1> HIDE DEF R
  <1> QED BY <1>1, <1>4, RankedAscends DEF R

(* The cards of a sequence, and that they are in order when its elements   *)
(* are different and in order.                                             *)
Cards(s, n) == {<<s[k], k>> : k \in 1..n}
Values(s, n) == {s[k] : k \in 1..n}
CardsBefore(s, n, B) ==
  {z \in Cards(s, n) \X Cards(s, n) :
     \/ <<z[1][1], z[2][1]>> \in B
     \/ <<z[2][1], z[1][1]>> \notin B /\ z[1][2] < z[2][2]}

LEMMA CardsAreCounted ==
  ASSUME NEW n \in Nat, NEW s
  PROVE  IsFiniteSet(Cards(s, n)) /\ Cardinality(Cards(s, n)) = n
  <1> DEFINE f == [k \in 1..n |-> <<s[k], k>>]
  <1>1. f \in Bijection(1..n, Cards(s, n)) /\ ExistsBijection(1..n, Cards(s, n))
    <2>1. f \in [1..n -> Cards(s, n)]
      BY DEF Cards
    <2>2. \A j, k \in 1..n : f[j] = f[k] => j = k
      OBVIOUS
    <2>3. \A c \in Cards(s, n) : \E k \in 1..n : f[k] = c
      BY DEF Cards
    <2> HIDE DEF f
    <2> QED BY <2>1, <2>2, <2>3
            DEF ExistsBijection, Bijection, Injection, Surjection, IsInjective
  <1>2. IsFiniteSet(1..n) /\ Cardinality(1..n) = n
    BY FS_Interval
  <1> HIDE DEF f
  <1> QED BY <1>1, <1>2, FS_Bijection

LEMMA CardsAreOrdered ==
  ASSUME NEW n \in Nat, NEW s, \A j, k \in 1..n : s[j] = s[k] => j = k,
         NEW B, Orders(B, Values(s, n))
  PROVE  Orders(CardsBefore(s, n, B), Cards(s, n))
  <1> DEFINE C == Cards(s, n)
             P == CardsBefore(s, n, B)
  <1>1. \A c \in C : c[1] \in Values(s, n) /\ c[2] \in 1..n /\ s[c[2]] = c[1] /\ c = <<c[1], c[2]>>
    BY DEF Cards, Values
  <1>2. \A c, d \in C : c[1] = d[1] => c = d
    <2> HIDE DEF C
    <2> QED BY <1>1
  <1>3. \A c, d \in C : <<c, d>> \in P <=> <<c[1], d[1]>> \in B
    <2> SUFFICES ASSUME NEW c \in C, NEW d \in C
                 PROVE  <<c, d>> \in P <=> <<c[1], d[1]>> \in B
      OBVIOUS
    <2>1. <<c, d>> \in P <=>
             (<<c[1], d[1]>> \in B \/ (<<d[1], c[1]>> \notin B /\ c[2] < d[2]))
      BY DEF CardsBefore
    <2>2. c[1] = d[1] => ~ c[2] < d[2]
      <3>1. c[1] = d[1] => c[2] = d[2]
        BY <1>2
      <3> HIDE DEF C
      <3> QED BY <1>1, <3>1
    <2>3. c[1] \in Values(s, n) /\ d[1] \in Values(s, n)
      BY <1>1
    <2>4. c[1] = d[1] \/ <<c[1], d[1]>> \in B \/ <<d[1], c[1]>> \in B
      BY <2>3 DEF Orders
    <2>5. c[1] = d[1] => <<c[1], d[1]>> \notin B
      BY <2>3 DEF Orders, Strict
    <2>6. <<c[1], d[1]>> \in B => <<d[1], c[1]>> \notin B
      BY <2>3 DEF Orders, Strict
    <2> HIDE DEF P, C
    <2> QED BY <2>1, <2>2, <2>4, <2>5, <2>6
  <1> HIDE DEF C, P
  <1>4. Strict(P, C)
    BY <1>1, <1>3 DEF Orders, Strict
  <1>5. ASSUME NEW x \in C, NEW y \in C
        PROVE  x = y \/ <<x, y>> \in P \/ <<y, x>> \in P
    <2>1. x[1] \in Values(s, n) /\ y[1] \in Values(s, n)
      BY <1>1
    <2>2. x[1] = y[1] \/ <<x[1], y[1]>> \in B \/ <<y[1], x[1]>> \in B
      BY <2>1 DEF Orders
    <2>3. x[1] = y[1] => x = y
      BY <1>2
    <2> QED BY <1>3, <2>2, <2>3
  <1>6. \A x, y, z \in C : <<x, y>> \in P /\ <<y, z>> \in P => <<x, z>> \in P
    BY <1>1, <1>3 DEF Orders
  <1> QED BY <1>4, <1>5, <1>6 DEF Orders, P, C

(* What slice::sort_by makes of different elements is a sequence of them,  *)
(* each once, going upwards.                                               *)
LEMMA CardsAscend ==
  ASSUME NEW n \in Nat, NEW s, \A j, k \in 1..n : s[j] = s[k] => j = k,
         NEW B, Orders(B, Values(s, n)),
         NEW t, t = [k \in 1..n |-> Ranked(Cards(s, n), CardsBefore(s, n, B))[k][1]]
  PROVE  Ascends(t, n, Values(s, n), B)
  <1> DEFINE C == Cards(s, n)
             P == CardsBefore(s, n, B)
             r == Ranked(C, P)
  <1>1. IsFiniteSet(C) /\ Cardinality(C) = n /\ Orders(P, C)
    BY CardsAreCounted, CardsAreOrdered
  <1>2. \A c \in C : c[1] \in Values(s, n) /\ c[2] \in 1..n /\ s[c[2]] = c[1] /\ c = <<c[1], c[2]>>
    BY DEF Cards, Values
  <1>3. \A k \in 1..n : <<s[k], k>> \in C
    BY DEF Cards
  <1>4. \A c, d \in C : <<c, d>> \in P => <<c[1], d[1]>> \in B
    <2> SUFFICES ASSUME NEW c \in C, NEW d \in C, <<c, d>> \in P
                 PROVE  <<c[1], d[1]>> \in B
      OBVIOUS
    <2>1. \/ <<c[1], d[1]>> \in B
          \/ <<d[1], c[1]>> \notin B /\ c[2] < d[2]
      BY DEF CardsBefore
    <2>2. c[1] = d[1] => c[2] = d[2]
      BY <1>2
    <2>3. c[2] \in Int /\ d[2] \in Int
      BY <1>2
    <2>4. c[1] = d[1] \/ <<c[1], d[1]>> \in B \/ <<d[1], c[1]>> \in B
      BY <1>2 DEF Orders
    <2> HIDE DEF C, P
    <2> QED BY <2>1, <2>2, <2>3, <2>4
  <1> HIDE DEF C, P
  <1>5. Ascends(r, n, C, P)
    BY <1>1, RankedAscends
  <1>6. t = [k \in 1..n |-> r[k][1]]
    BY DEF C, P
  <1> HIDE DEF r
  <1>7. t \in [1..n -> Values(s, n)]
    BY <1>2, <1>5, <1>6 DEF Ascends
  <1>8. \A x \in Values(s, n) : \E k \in 1..n : t[k] = x
    <2> SUFFICES ASSUME NEW j \in 1..n PROVE \E k \in 1..n : t[k] = s[j]
      BY DEF Values
    <2>1. PICK k \in 1..n : r[k] = <<s[j], j>>
      BY <1>3, <1>5 DEF Ascends
    <2>2. t[k] = r[k][1]
      BY <1>6
    <2>3. r[k][1] = s[j]
      BY <2>1
    <2> QED BY <2>2, <2>3
  <1>9. \A j, k \in 1..n : j < k => <<t[j], t[k]>> \in B
    <2> SUFFICES ASSUME NEW j \in 1..n, NEW k \in 1..n, j < k PROVE <<t[j], t[k]>> \in B
      OBVIOUS
    <2>1. r[j] \in C /\ r[k] \in C /\ <<r[j], r[k]>> \in P
      BY <1>5 DEF Ascends
    <2>2. <<r[j][1], r[k][1]>> \in B
      BY <1>4, <2>1
    <2>3. t[j] = r[j][1] /\ t[k] = r[k][1]
      BY <1>6
    <2> QED BY <2>2, <2>3
  <1> QED BY <1>7, <1>8, <1>9 DEF Ascends

-----------------------------------------------------------------------------
(***************************************************************************)
(* Sums that count, sums taken the other way round, and products.          *)
(***************************************************************************)
LEMMA SumOfOneTerm ==
  ASSUME NEW n \in Nat, NEW f \in [1..n -> Int], NEW i \in 1..n,
         \A k \in 1..n : k # i => f[k] = 0
  PROVE  Sum(f, n) = f[i]
  <1> DEFINE z == [k \in 1..n |-> 0]
  <1>1. z \in [1..n -> Int] /\ \A k \in 1..n : z[k] = 0
    OBVIOUS
  <1> HIDE DEF z
  <1>2. Sum(z, n) = 0
    BY <1>1, SumOfZeros
  <1>3. \A k \in 1..n : k # i => f[k] = z[k]
    BY <1>1
  <1>4. Sum(f, n) = Sum(z, n) + f[i] - z[i]
    BY <1>1, <1>3, SumOfOneChanged
  <1> QED BY <1>1, <1>2, <1>4

LEMMA SumOfSums ==
  ASSUME NEW n \in Nat, NEW f \in [1..n -> Int], NEW g \in [1..n -> Int],
         NEW h \in [1..n -> Int], \A k \in 1..n : h[k] = f[k] + g[k]
  PROVE  Sum(h, n) = Sum(f, n) + Sum(g, n)
  <1>1. \A k \in 1..n : f[k] = h[k] - g[k]
    OBVIOUS
  <1>2. Sum(f, n) = Sum(h, n) - Sum(g, n)
    BY <1>1, SumOfDifferences
  <1>3. Sum(f, n) \in Int /\ Sum(g, n) \in Int /\ Sum(h, n) \in Int
    BY SumTyped
  <1> QED BY <1>2, <1>3

LEMMA SumsSwap ==
  ASSUME NEW n \in Nat, NEW m \in Nat, NEW f \in [1..n -> [1..m -> Int]]
  PROVE  Sum([j \in 1..n |-> Sum(f[j], m)], n)
           = Sum([k \in 1..m |-> Sum([j \in 1..n |-> f[j][k]], n)], m)
  <1> DEFINE rows(i) == [j \in 1..i |-> Sum(f[j], m)]
             column(i, k) == [j \in 1..i |-> f[j][k]]
             columns(i) == [k \in 1..m |-> Sum(column(i, k), i)]
             T == {i \in 0..n : Sum(rows(i), i) = Sum(columns(i), m)}
  <1>1. \A i \in 0..n : \A k \in 1..m : column(i, k) \in [1..i -> Int]
    OBVIOUS
  <1>2. \A i \in 0..n : rows(i) \in [1..i -> Int]
    <2>1. \A j \in 1..n : Sum(f[j], m) \in Int
      BY SumTyped
    <2> QED BY <2>1
  <1>3. ASSUME NEW i \in 0..n PROVE columns(i) \in [1..m -> Int]
    <2>1. \A k \in 1..m : Sum(column(i, k), i) \in Int
      <3> HIDE DEF column
      <3> QED BY <1>1, SumTyped
    <2> HIDE DEF column
    <2> QED BY <2>1
  <1>4. 0 \in T
    <2>1. rows(0) \in [1..0 -> Int] /\ 0 \in 0..n
      BY <1>2
    <2>2. Sum(rows(0), 0) = 0
      <3> HIDE DEF rows
      <3> QED BY <2>1, SumOfNone
    <2>3. \A k \in 1..m : columns(0)[k] = 0
      <3> SUFFICES ASSUME NEW k \in 1..m PROVE Sum(column(0, k), 0) = 0
        OBVIOUS
      <3>1. column(0, k) \in [1..0 -> Int]
        BY <1>1, <2>1
      <3> HIDE DEF column
      <3> QED BY <3>1, SumOfNone
    <2>4. Sum(columns(0), m) = 0
      <3>1. columns(0) \in [1..m -> Int]
        BY <1>3, <2>1
      <3> HIDE DEF columns
      <3> QED BY <2>3, <3>1, SumOfZeros
    <2> HIDE DEF rows, columns
    <2> QED BY <2>1, <2>2, <2>4
  <1>5. ASSUME NEW i \in 1..n, i - 1 \in T PROVE i \in T
    <2> DEFINE h == i - 1
    <2>1. h \in Nat /\ h \in 0..n /\ i \in 0..n /\ h + 1 = i /\ i \in 1..i
      OBVIOUS
    <2> HIDE DEF h
    <2>2. Sum(rows(i), i) = Sum(rows(h), h) + Sum(f[i], m)
      <3>1. rows(h) \in [1..h -> Int] /\ rows(h + 1) \in [1..(h + 1) -> Int]
        BY <1>2, <2>1
      <3>4. h + 1 \in 1..(h + 1) /\ \A k \in 1..h : k \in 1..(h + 1)
        BY <2>1
      <3>5. rows(h + 1)[h + 1] = Sum(f[h + 1], m)
        BY <3>4
      <3>2. /\ \A k \in 1..h : rows(h + 1)[k] = rows(h)[k]
            /\ rows(h + 1)[h + 1] = Sum(f[i], m)
        BY <2>1, <3>4, <3>5
      <3> HIDE DEF rows
      <3>3. Sum(rows(h + 1), h + 1) = Sum(rows(h), h) + rows(h + 1)[h + 1]
        BY <2>1, <3>1, <3>2, SumOfOneMore
      <3> QED BY <2>1, <3>2, <3>3
    <2>3. \A k \in 1..m : columns(i)[k] = columns(h)[k] + f[i][k]
      <3> SUFFICES ASSUME NEW k \in 1..m
                   PROVE  Sum(column(i, k), i) = Sum(column(h, k), h) + f[i][k]
        BY <2>1
      <3>1. column(h, k) \in [1..h -> Int] /\ column(h + 1, k) \in [1..(h + 1) -> Int]
        BY <1>1, <2>1
      <3>4. h + 1 \in 1..(h + 1) /\ \A j \in 1..h : j \in 1..(h + 1)
        BY <2>1
      <3>5. column(h + 1, k)[h + 1] = f[h + 1][k]
        BY <3>4
      <3>2. /\ \A j \in 1..h : column(h + 1, k)[j] = column(h, k)[j]
            /\ column(h + 1, k)[h + 1] = f[i][k]
        BY <2>1, <3>4, <3>5
      <3> HIDE DEF column
      <3>3. Sum(column(h + 1, k), h + 1) = Sum(column(h, k), h) + column(h + 1, k)[h + 1]
        BY <2>1, <3>1, <3>2, SumOfOneMore
      <3> QED BY <2>1, <3>2, <3>3
    <2>4. Sum(columns(i), m) = Sum(columns(h), m) + Sum(f[i], m)
      <3>1. columns(i) \in [1..m -> Int] /\ columns(h) \in [1..m -> Int] /\ f[i] \in [1..m -> Int]
        BY <1>3, <2>1
      <3> HIDE DEF columns
      <3> QED BY <2>3, <3>1, SumOfSums
    <2>5. Sum(rows(h), h) = Sum(columns(h), m)
      BY <1>5 DEF h
    <2> HIDE DEF rows, columns
    <2> QED BY <2>1, <2>2, <2>4, <2>5
  <1>6. n \in T
    <2>1. \A k \in 1..n : k - 1 \in T => k \in T
      BY <1>5
    <2> HIDE DEF T
    <2>2. \A k \in 0..n : k \in T
      BY <1>4, <2>1, UpTo
    <2> QED BY <2>2
  <1> QED BY <1>6

LEMMA CountIsASum ==
  ASSUME NEW n \in Nat, NEW X \in SUBSET (1..n)
  PROVE  Sum([k \in 1..n |-> IF k \in X THEN 1 ELSE 0], n) = Cardinality(X)
  <1> DEFINE one(i) == [k \in 1..i |-> IF k \in X THEN 1 ELSE 0]
             part(i) == X \cap 1..i
             T == {i \in 0..n : /\ IsFiniteSet(part(i))
                                /\ Sum(one(i), i) = Cardinality(part(i))}
  <1>1. \A i \in 0..n : one(i) \in [1..i -> Int]
    OBVIOUS
  <1>2. 0 \in T
    <2>1. part(0) = {} /\ one(0) \in [1..0 -> Int] /\ 0 \in 0..n
      OBVIOUS
    <2> HIDE DEF one, part
    <2> QED BY <2>1, SumOfNone, FS_EmptySet
  <1>3. ASSUME NEW i \in 1..n, i - 1 \in T PROVE i \in T
    <2> DEFINE h == i - 1
    <2>1. h \in Nat /\ h \in 0..n /\ i \in 0..n /\ h + 1 = i
      OBVIOUS
    <2> HIDE DEF h
    <2>2. Sum(one(i), i) = Sum(one(h), h) + (IF i \in X THEN 1 ELSE 0)
      <3>1. one(h) \in [1..h -> Int] /\ one(h + 1) \in [1..(h + 1) -> Int]
        BY <1>1, <2>1
      <3>2. /\ \A k \in 1..h : one(h + 1)[k] = one(h)[k]
            /\ one(h + 1)[h + 1] = IF i \in X THEN 1 ELSE 0
        BY <2>1
      <3> HIDE DEF one
      <3>3. Sum(one(h + 1), h + 1) = Sum(one(h), h) + one(h + 1)[h + 1]
        BY <2>1, <3>1, <3>2, SumOfOneMore
      <3> QED BY <2>1, <3>2, <3>3
    <2>3. IsFiniteSet(part(h)) /\ Sum(one(h), h) = Cardinality(part(h))
      BY <1>3 DEF h
    <2>4. CASE i \in X
      <3>1. part(i) = part(h) \cup {i} /\ i \notin part(h)
        BY <2>1, <2>4
      <3> HIDE DEF one, part
      <3>2. IsFiniteSet(part(i)) /\ Cardinality(part(i)) = Cardinality(part(h)) + 1
        BY <2>3, <3>1, FS_AddElement
      <3> QED BY <2>1, <2>2, <2>3, <2>4, <3>2
    <2>5. CASE i \notin X
      <3>1. part(i) = part(h)
        BY <2>1, <2>5
      <3>2. Cardinality(part(h)) \in Nat
        <4> HIDE DEF part
        <4> QED BY <2>3, FS_CardinalityType
      <3> HIDE DEF one, part
      <3> QED BY <2>1, <2>2, <2>3, <2>5, <3>1, <3>2
    <2> QED BY <2>4, <2>5
  <1>4. n \in T
    <2>1. \A k \in 1..n : k - 1 \in T => k \in T
      BY <1>3
    <2> HIDE DEF T
    <2>2. \A k \in 0..n : k \in T
      BY <1>2, <2>1, UpTo
    <2> QED BY <2>2
  <1>5. part(n) = X
    OBVIOUS
  <1> QED BY <1>4, <1>5

(* Two sums with the same terms, paired off by R, up to terms of zero.     *)
PairsOff(R, f, n, g, m) ==
  /\ \A j \in 1..n, k \in 1..m : <<j, k>> \in R => f[j] = g[k]
  /\ \A j \in 1..n : f[j] # 0 => \E k \in 1..m : <<j, k>> \in R
  /\ \A k \in 1..m : g[k] # 0 => \E j \in 1..n : <<j, k>> \in R
  /\ \A j \in 1..n : \A k, l \in 1..m : <<j, k>> \in R /\ <<j, l>> \in R => k = l
  /\ \A k \in 1..m : \A j, i \in 1..n : <<j, k>> \in R /\ <<i, k>> \in R => j = i

LEMMA SumsOfTheSame ==
  ASSUME NEW n \in Nat, NEW m \in Nat, NEW f \in [1..n -> Int], NEW g \in [1..m -> Int],
         NEW R, PairsOff(R, f, n, g, m)
  PROVE  Sum(f, n) = Sum(g, m)
  <1> DEFINE M == [j \in 1..n |-> [k \in 1..m |-> IF <<j, k>> \in R THEN f[j] ELSE 0]]
             column(k) == [j \in 1..n |-> M[j][k]]
             rows == [j \in 1..n |-> Sum(M[j], m)]
             columns == [k \in 1..m |-> Sum(column(k), n)]
  <1>9. /\ \A h \in [1..n -> Int] : \A i \in 1..n :
             (\A k \in 1..n : k # i => h[k] = 0) => Sum(h, n) = h[i]
        /\ \A h \in [1..m -> Int] : \A i \in 1..m :
             (\A k \in 1..m : k # i => h[k] = 0) => Sum(h, m) = h[i]
    BY SumOfOneTerm
  <1>1. M \in [1..n -> [1..m -> Int]]
    OBVIOUS
  <1>2. \A j \in 1..n, k \in 1..m : M[j][k] = IF <<j, k>> \in R THEN f[j] ELSE 0
    OBVIOUS
  <1>3. \A k \in 1..m : column(k) \in [1..n -> Int] /\ \A j \in 1..n : column(k)[j] = M[j][k]
    BY <1>1
  <1> HIDE DEF M
  <1>4. ASSUME NEW j \in 1..n PROVE Sum(M[j], m) = f[j]
    <2>1. CASE \E k \in 1..m : <<j, k>> \in R
      <3>1. PICK k \in 1..m : <<j, k>> \in R
        BY <2>1
      <3>2. M[j][k] = f[j] /\ \A l \in 1..m : l # k => M[j][l] = 0
        BY <1>2, <3>1 DEF PairsOff
      <3>3. M[j] \in [1..m -> Int]
        BY <1>1
      <3> DEFINE r == M[j]
      <3>4. r \in [1..m -> Int] /\ r[k] = f[j] /\ \A l \in 1..m : l # k => r[l] = 0
        BY <3>2, <3>3
      <3> HIDE DEF r
      <3>5. Sum(r, m) = r[k]
        BY <1>9, <3>1, <3>4
      <3> QED BY <3>4, <3>5 DEF r
    <2>2. CASE ~ \E k \in 1..m : <<j, k>> \in R
      <3>1. f[j] = 0 /\ \A l \in 1..m : M[j][l] = 0
        BY <1>2, <2>2 DEF PairsOff
      <3>2. M[j] \in [1..m -> Int]
        BY <1>1
      <3> QED BY <3>1, <3>2, SumOfZeros
    <2> QED BY <2>1, <2>2
  <1>5. ASSUME NEW k \in 1..m PROVE Sum(column(k), n) = g[k]
    <2>0. column(k) \in [1..n -> Int] /\ \A j \in 1..n : column(k)[j] = M[j][k]
      BY <1>3
    <2> DEFINE c == column(k)
    <2> HIDE DEF c
    <2>1. CASE \E j \in 1..n : <<j, k>> \in R
      <3>1. PICK j \in 1..n : <<j, k>> \in R
        BY <2>1
      <3>2. M[j][k] = g[k] /\ \A i \in 1..n : i # j => M[i][k] = 0
        BY <1>2, <3>1 DEF PairsOff
      <3>3. c[j] = g[k] /\ c \in [1..n -> Int] /\ \A i \in 1..n : i # j => c[i] = 0
        BY <2>0, <3>2 DEF c
      <3>4. Sum(c, n) = c[j]
        BY <1>9, <3>1, <3>3
      <3> QED BY <3>3, <3>4 DEF c
    <2>2. CASE ~ \E j \in 1..n : <<j, k>> \in R
      <3>1. g[k] = 0 /\ \A i \in 1..n : M[i][k] = 0
        BY <1>2, <2>2 DEF PairsOff
      <3>2. c \in [1..n -> Int] /\ \A i \in 1..n : c[i] = 0
        BY <2>0, <3>1 DEF c
      <3>3. Sum(c, n) = 0
        BY <3>2, SumOfZeros
      <3> QED BY <3>1, <3>3 DEF c
    <2> QED BY <2>1, <2>2
  <1>6. Sum(rows, n) = Sum(columns, m)
    BY <1>1, SumsSwap
  <1>7. rows = f
    BY <1>4
  <1>8. columns = g
    <2> HIDE DEF column
    <2> QED BY <1>5
  <1> HIDE DEF rows, columns
  <1> QED BY <1>6, <1>7, <1>8

(* The terms of one sum, listed in another order and without zeros.        *)
Picks(h, f, n, g, m) ==
  /\ h \in [1..n -> 1..m]
  /\ \A j, k \in 1..n : h[j] = h[k] => j = k
  /\ \A j \in 1..n : f[j] = g[h[j]]
  /\ \A k \in 1..m : g[k] # 0 => \E j \in 1..n : h[j] = k

LEMMA SumOfListed ==
  ASSUME NEW n \in Nat, NEW m \in Nat, NEW f \in [1..n -> Int], NEW g \in [1..m -> Int],
         NEW h, Picks(h, f, n, g, m)
  PROVE  Sum(f, n) = Sum(g, m)
  <1> DEFINE R == {z \in (1..n) \X (1..m) : h[z[1]] = z[2]}
  <1>1. \A j \in 1..n, k \in 1..m : <<j, k>> \in R <=> h[j] = k
    OBVIOUS
  <1> HIDE DEF R
  <1>2. \A j \in 1..n, k \in 1..m : <<j, k>> \in R => f[j] = g[k]
    BY <1>1 DEF Picks
  <1>3. \A j \in 1..n : \E k \in 1..m : <<j, k>> \in R
    BY <1>1 DEF Picks
  <1>4. \A k \in 1..m : g[k] # 0 => \E j \in 1..n : <<j, k>> \in R
    BY <1>1 DEF Picks
  <1>5. \A j \in 1..n : \A k, l \in 1..m : <<j, k>> \in R /\ <<j, l>> \in R => k = l
    BY <1>1
  <1>6. \A k \in 1..m : \A j, i \in 1..n : <<j, k>> \in R /\ <<i, k>> \in R => j = i
    BY <1>1 DEF Picks
  <1>7. PairsOff(R, f, n, g, m)
    BY <1>2, <1>3, <1>4, <1>5, <1>6 DEF PairsOff
  <1> QED BY <1>7, SumsOfTheSame

(* Partial products: t multiplies f as far as n.                           *)
Multiplies(t, f, n) ==
  /\ t \in [0..n -> Int]
  /\ t[0] = 1
  /\ \A k \in 1..n : t[k] = t[k - 1] * f[k]

LEMMA PartialProductsExist ==
  ASSUME NEW n \in Nat, NEW f \in [1..n -> Int]
  PROVE  \E t : Multiplies(t, f, n)
  <1> DEFINE T == {m \in 0..n : \E t : Multiplies(t, f, m)}
  <1>1. 0 \in T
    <2>1. Multiplies([k \in 0..0 |-> 1], f, 0)
      BY DEF Multiplies
    <2> QED BY <2>1
  <1>2. ASSUME NEW m \in 1..n, m - 1 \in T PROVE m \in T
    <2>1. PICK t : Multiplies(t, f, m - 1)
      BY <1>2
    <2> DEFINE u == [k \in 0..m |-> IF k = m THEN t[m - 1] * f[m] ELSE t[k]]
    <2>2. t \in [0..(m - 1) -> Int] /\ m - 1 \in 0..(m - 1) /\ f[m] \in Int
      BY <2>1 DEF Multiplies
    <2>3. t[m - 1] * f[m] \in Int
      BY <2>2
    <2>4. u \in [0..m -> Int] /\ u[0] = 1
      BY <2>1, <2>2, <2>3 DEF Multiplies
    <2>5. ASSUME NEW k \in 1..m PROVE u[k] = u[k - 1] * f[k]
      <3>1. k - 1 \in 0..m /\ k - 1 # m /\ u[k - 1] = t[k - 1]
        OBVIOUS
      <3>2. k # m => k \in 1..(m - 1) /\ u[k] = t[k]
        OBVIOUS
      <3>3. k = m => u[k] = t[m - 1] * f[m]
        OBVIOUS
      <3> HIDE DEF u
      <3> QED BY <2>1, <3>1, <3>2, <3>3 DEF Multiplies
    <2>6. Multiplies(u, f, m)
      BY <2>4, <2>5 DEF Multiplies
    <2> QED BY <2>6
  <1>3. n \in T
    <2>1. \A k \in 1..n : k - 1 \in T => k \in T
      BY <1>2
    <2> HIDE DEF T
    <2>2. \A k \in 0..n : k \in T
      BY <1>1, <2>1, UpTo
    <2> QED BY <2>2
  <1> QED BY <1>3

LEMMA ProductMultiplies ==
  ASSUME NEW n \in Nat, NEW f \in [1..n -> Int]
  PROVE  \E t : Multiplies(t, f, n) /\ Product(f, n) = t[n]
  <1> DEFINE t == CHOOSE t : t = [k \in 0..n |-> IF k = 0 THEN 1 ELSE t[k - 1] * f[k]]
  <1>1. PICK u : Multiplies(u, f, n)
    BY PartialProductsExist
  <1>2. u = [k \in 0..n |-> IF k = 0 THEN 1 ELSE u[k - 1] * f[k]]
    BY <1>1 DEF Multiplies
  <1>3. t = [k \in 0..n |-> IF k = 0 THEN 1 ELSE t[k - 1] * f[k]]
    BY <1>2
  <1>4. Product(f, n) = t[n]
    BY DEF Product
  <1> HIDE DEF t
  <1> DEFINE T == {k \in 0..n : t[k] \in Int}
  <1>5. 0 \in T
    BY <1>3
  <1>6. ASSUME NEW k \in 1..n, k - 1 \in T PROVE k \in T
    <2>1. t[k] = t[k - 1] * f[k] /\ t[k - 1] \in Int /\ f[k] \in Int
      BY <1>3, <1>6
    <2>2. t[k - 1] * f[k] \in Int
      BY <2>1
    <2> QED BY <2>1, <2>2
  <1>7. \A k \in 0..n : k \in T
    <2>1. \A k \in 1..n : k - 1 \in T => k \in T
      BY <1>6
    <2> HIDE DEF T
    <2> QED BY <1>5, <2>1, UpTo
  <1>8. Multiplies(t, f, n)
    BY <1>3, <1>7 DEF Multiplies
  <1> QED BY <1>4, <1>8

LEMMA ProductTyped ==
  ASSUME NEW n \in Nat, NEW f \in [1..n -> Int]
  PROVE  Product(f, n) \in Int
  BY ProductMultiplies DEF Multiplies

LEMMA ProductOfPositives ==
  ASSUME NEW n \in Nat, NEW f \in [1..n -> Int], \A k \in 1..n : f[k] > 0
  PROVE  Product(f, n) > 0
  <1>1. PICK t : Multiplies(t, f, n) /\ Product(f, n) = t[n]
    BY ProductMultiplies
  <1> DEFINE T == {k \in 0..n : t[k] > 0}
  <1>2. 0 \in T
    BY <1>1 DEF Multiplies
  <1>3. ASSUME NEW k \in 1..n, k - 1 \in T PROVE k \in T
    <2>1. t[k] = t[k - 1] * f[k] /\ t[k - 1] \in Int /\ t[k - 1] > 0 /\ f[k] \in Int /\ f[k] > 0
      BY <1>1, <1>3 DEF Multiplies
    <2>2. t[k - 1] * f[k] > 0
      BY <2>1
    <2> QED BY <2>1, <2>2
  <1>4. n \in T
    <2>1. \A k \in 1..n : k - 1 \in T => k \in T
      BY <1>3
    <2> HIDE DEF T
    <2>2. \A k \in 0..n : k \in T
      BY <1>2, <2>1, UpTo
    <2> QED BY <2>2
  <1> QED BY <1>1, <1>4
=============================================================================
