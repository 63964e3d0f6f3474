----------------------------- MODULE TextsProofs ----------------------------
(***************************************************************************)
(* What travels as text, proved for every scale and every run of digits:   *)
(* that amounts are neither guessed nor changed on their way in and out,   *)
(* that days are kept by their rows, and that percentages are the nearest. *)
(***************************************************************************)
EXTENDS MCTexts, CountingProofs

-----------------------------------------------------------------------------
(***************************************************************************)
(* Powers of ten, and the width of a number.                               *)
(***************************************************************************)
LEMMA PowersOfTen ==
  ASSUME NEW n \in Nat
  PROVE  \E t : /\ t \in [0..n -> Int] /\ t[0] = 1
                /\ \A k \in 1..n : t[k] = 10 * t[k - 1]
                /\ \A m \in 0..n : TenTo(m) = t[m]
  <1> DEFINE f == [k \in 1..n |-> 10]
  <1>1. f \in [1..n -> Int]
    OBVIOUS
  <1>2. PICK t : Multiplies(t, f, n)
    <2> HIDE DEF f
    <2> QED BY <1>1, ProductMultiplies
  <1>3. /\ t \in [0..n -> Int] /\ t[0] = 1
        /\ \A k \in 1..n : t[k] = 10 * t[k - 1]
    BY <1>2 DEF Multiplies
  <1>4. ASSUME NEW m \in 0..n PROVE TenTo(m) = t[m]
    <2> DEFINE g == [k \in 1..m |-> 10]
    <2>1. m \in Nat /\ g \in [1..m -> Int] /\ \A k \in 1..m : g[k] = 10
      OBVIOUS
    <2>2. TenTo(m) = Product(g, m)
      BY DEF TenTo
    <2> HIDE DEF g
    <2>3. PICK u : Multiplies(u, g, m) /\ Product(g, m) = u[m]
      BY <2>1, ProductMultiplies
    <2> DEFINE T == {k \in 0..m : u[k] = t[k]}
    <2>4. 0 \in T
      BY <1>3, <2>3 DEF Multiplies
    <2>5. ASSUME NEW k \in 1..m, k - 1 \in T PROVE k \in T
      <3>1. u[k] = u[k - 1] * 10 /\ u[k - 1] \in Int
        BY <2>1, <2>3 DEF Multiplies
      <3>2. t[k] = 10 * t[k - 1] /\ u[k - 1] = t[k - 1]
        BY <1>3, <2>5
      <3> QED BY <3>1, <3>2
    <2> HIDE DEF T
    <2>6. \A k \in 0..m : k \in T
      BY <2>1, <2>4, <2>5, UpTo
    <2> QED BY <2>2, <2>3, <2>6 DEF T
  <1> QED BY <1>3, <1>4

LEMMA TenToMore ==
  /\ TenTo(0) = 1
  /\ \A n \in Nat : TenTo(n + 1) = 10 * TenTo(n)
  /\ \A n \in Nat : TenTo(n) \in Nat \ {0} /\ n < TenTo(n)
  <1>1. TenTo(0) = 1
    BY PowersOfTen
  <1>2. ASSUME NEW n \in Nat PROVE TenTo(n + 1) = 10 * TenTo(n)
    <2>1. PICK t : /\ \A k \in 1..(n + 1) : t[k] = 10 * t[k - 1]
                   /\ \A m \in 0..(n + 1) : TenTo(m) = t[m]
      <3>1. n + 1 \in Nat
        OBVIOUS
      <3> QED BY <3>1, PowersOfTen
    <2>2. n + 1 \in 1..(n + 1) /\ (n + 1) - 1 = n /\ n \in 0..(n + 1) /\ n + 1 \in 0..(n + 1)
      OBVIOUS
    <2> QED BY <2>1, <2>2
  <1>3. ASSUME NEW n \in Nat PROVE TenTo(n) \in Nat \ {0} /\ n < TenTo(n)
    <2> DEFINE T == {k \in 0..n : TenTo(k) \in Nat \ {0} /\ k < TenTo(k)}
    <2>1. 0 \in T
      BY <1>1
    <2>2. ASSUME NEW k \in 1..n, k - 1 \in T PROVE k \in T
      <3>1. k - 1 \in Nat /\ (k - 1) + 1 = k
        OBVIOUS
      <3>2. TenTo(k) = 10 * TenTo(k - 1)
        BY <1>2, <3>1
      <3> QED BY <2>2, <3>1, <3>2
    <2> HIDE DEF T
    <2>3. \A k \in 0..n : k \in T
      BY <2>1, <2>2, UpTo
    <2> QED BY <2>3 DEF T
  <1> QED BY <1>1, <1>2, <1>3

LEMMA TenToSum ==
  ASSUME NEW a \in Nat, NEW b \in Nat
  PROVE  TenTo(a + b) = TenTo(a) * TenTo(b)
  <1> DEFINE T == {k \in 0..b : TenTo(a + k) = TenTo(a) * TenTo(k)}
  <1>1. TenTo(a) \in Nat /\ a + 0 = a
    BY TenToMore
  <1>2. 0 \in T
    BY <1>1, TenToMore
  <1>3. ASSUME NEW k \in 1..b, k - 1 \in T PROVE k \in T
    <2>1. k - 1 \in Nat /\ (k - 1) + 1 = k /\ a + (k - 1) \in Nat /\ (a + (k - 1)) + 1 = a + k
      OBVIOUS
    <2>2. TenTo(k) = 10 * TenTo(k - 1) /\ TenTo(a + k) = 10 * TenTo(a + (k - 1))
      BY <2>1, TenToMore
    <2>3. TenTo(a + (k - 1)) = TenTo(a) * TenTo(k - 1)
      BY <1>3
    <2>4. TenTo(k - 1) \in Nat
      BY <2>1, TenToMore
    <2> QED BY <1>1, <2>2, <2>3, <2>4
  <1> HIDE DEF T
  <1>4. \A k \in 0..b : k \in T
    BY <1>2, <1>3, UpTo
  <1> QED BY <1>4 DEF T

LEMMA TenToGrows ==
  ASSUME NEW a \in Nat, NEW b \in Nat, a <= b
  PROVE  TenTo(a) <= TenTo(b)
  <1>1. b - a \in Nat /\ a + (b - a) = b
    OBVIOUS
  <1>2. TenTo(b) = TenTo(a) * TenTo(b - a)
    BY <1>1, TenToSum
  <1>3. TenTo(a) \in Nat /\ TenTo(b - a) \in Nat \ {0}
    BY <1>1, TenToMore
  <1> QED BY <1>2, <1>3

LEMMA Widths ==
  ASSUME NEW n \in Nat
  PROVE  /\ Width(n) \in Nat \ {0} /\ n < TenTo(Width(n))
         /\ \A m \in Nat \ {0} : n < TenTo(m) => Width(n) <= m
  <1> DEFINE T == {w \in Nat : w >= 1 /\ n < TenTo(w)}
             P(w) == n < TenTo(w) /\ (w = 1 \/ TenTo(w - 1) <= n)
  <1>1. n + 1 \in T
    BY TenToMore
  <1>2. PICK w \in T : \A v \in T : w <= v
    BY <1>1, Least
  <1>3. w \in 1..(n + 1) /\ P(w)
    <2>1. w \in 1..(n + 1)
      BY <1>1, <1>2
    <2>2. CASE w # 1
      <3>1. w - 1 \notin T /\ w - 1 \in Nat /\ w - 1 >= 1
        BY <1>2, <2>1, <2>2
      <3>2. TenTo(w - 1) \in Nat
        BY <3>1, TenToMore
      <3> QED BY <1>2, <2>1, <3>1, <3>2
    <2> QED BY <1>2, <2>1, <2>2
  <1>4. Width(n) \in 1..(n + 1) /\ P(Width(n))
    <2>1. \E v \in 1..(n + 1) : P(v)
      BY <1>3
    <2> QED BY <2>1 DEF Width
  <1>5. ASSUME NEW m \in Nat \ {0}, n < TenTo(m) PROVE Width(n) <= m
    <2> DEFINE v == Width(n)
    <2>1. v \in Nat /\ v >= 1 /\ (v = 1 \/ TenTo(v - 1) <= n)
      BY <1>4
    <2> HIDE DEF v
    <2>2. CASE v - 1 >= m
      <3>1. TenTo(m) <= TenTo(v - 1)
        BY <2>1, <2>2, TenToGrows
      <3>2. TenTo(m) \in Nat /\ TenTo(v - 1) \in Nat
        BY <2>1, <2>2, TenToMore
      <3> QED BY <1>5, <2>1, <2>2, <3>1, <3>2
    <2>3. CASE ~ (v - 1 >= m)
      <3>1. v <= m
        BY <2>1, <2>3
      <3> QED BY <3>1 DEF v
    <2> QED BY <2>2, <2>3
  <1> QED BY <1>4, <1>5
-----------------------------------------------------------------------------
(***************************************************************************)
(* Amounts: what parse_fixed makes of a text, and what format_fixed makes  *)
(* of that.                                                                *)
(***************************************************************************)
Frac(t) == FractionOf(t)

LEMMA RunsTyped ==
  ASSUME NEW t \in Texts
  PROVE  /\ t.whole.width \in Nat /\ t.whole.value \in Nat
         /\ Frac(t).width \in Nat /\ Frac(t).value \in Nat
         /\ Len(t.dots) = 0 => t.dots = <<>>
         /\ t.dots # <<>> => Frac(t) = t.dots[1]
  <1>1. \A run \in Wholes \cup Fractions \cup {Empty} : run.width \in Nat /\ run.value \in Nat
    <2>1. \A run \in Wholes \cup Fractions : run.width \in Nat /\ run.value \in Nat
      <3> SUFFICES ASSUME NEW run \in Wholes \cup Fractions
                   PROVE  run.width \in Nat /\ run.value \in Nat
        OBVIOUS
      <3>1. run.width \in Nat /\ run.value \in 0..TenTo(run.width) - 1
        BY DecimalsAssumption
      <3>2. TenTo(run.width) \in Nat
        BY <3>1, TenToMore
      <3> QED BY <3>1, <3>2
    <2>2. Empty.width \in Nat /\ Empty.value \in Nat
      BY DEF Empty
    <2> QED BY <2>1, <2>2
  <1>2. t.whole \in Wholes \cup {Empty}
    BY DEF Texts
  <1>3. \/ t.dots = <<>>
        \/ \E f \in Fractions \cup {Empty} : t.dots = <<f>>
        \/ \E f \in Fractions, g \in {Empty} : t.dots = <<f, g>>
    BY DEF Texts
  <1>4. Frac(t) \in Fractions \cup {Empty}
    BY <1>3 DEF Frac, FractionOf
  <1>5. Len(t.dots) = 0 => t.dots = <<>>
    BY <1>3
  <1>6. t.dots # <<>> => Frac(t) = t.dots[1]
    BY DEF Frac, FractionOf
  <1> QED BY <1>1, <1>2, <1>4, <1>5, <1>6

LEMMA ScaleTyped == Scale \in Nat \ {0} /\ ScaleDigits \in Nat \ {0}
  <1>1. ScaleDigits \in Nat \ {0}
    BY DecimalsAssumption
  <1> QED BY <1>1, TenToMore DEF Scale

SizeOf(t) == t.whole.value * Scale + Frac(t).value * TenTo(ScaleDigits - Frac(t).width)

LEMMA TrimmedFields ==
  ASSUME NEW t \in Texts
  PROVE  /\ Trimmed(t).sign = t.sign /\ Trimmed(t).stray = t.stray
         /\ Trimmed(t).whole = t.whole /\ Trimmed(t).dots = t.dots
  BY DEF Trimmed, Texts

LEMMA Parsed ==
  ASSUME NEW t \in Texts, NEW allow_negative \in BOOLEAN,
         ParseFixed(t, allow_negative) # None
  PROVE  /\ IsDecimal(Trimmed(t)) /\ Frac(t).width <= ScaleDigits /\ Fits(SizeOf(t))
         /\ ParseFixed(t, allow_negative) = IF t.sign = "-" THEN - SizeOf(t) ELSE SizeOf(t)
  <1>1. Frac(t).width \in Nat /\ ScaleDigits \in Nat
    BY RunsTyped, ScaleTyped
  <1>2. Admitted(Trimmed(t), allow_negative)
    BY DEF ParseFixed
  <1>3. Frac(t).width <= ScaleDigits /\ Fits(SizeOf(t))
    BY DEF ParseFixed, Frac, SizeOf
  <1>4. ParseFixed(t, allow_negative) = IF t.sign = "-" THEN - SizeOf(t) ELSE SizeOf(t)
    BY DEF ParseFixed, Frac, SizeOf
  <1> QED BY <1>1, <1>2, <1>3, <1>4 DEF Admitted

LEMMA SizesTyped ==
  ASSUME NEW t \in Texts, Frac(t).width <= ScaleDigits
  PROVE  /\ SizeOf(t) \in Nat /\ Over(t) \in Nat \ {0} /\ Digits(t) \in Nat
         /\ SizeOf(t) * Over(t) = Scale * Digits(t)
  <1> DEFINE w == Frac(t).width
             v == Frac(t).value
             u == t.whole.value
             Q == TenTo(w)
             P == TenTo(ScaleDigits - w)
  <1>1. w \in Nat /\ v \in Nat /\ u \in Nat
    BY RunsTyped
  <1>2. ScaleDigits \in Nat /\ ScaleDigits - w \in Nat /\ w + (ScaleDigits - w) = ScaleDigits
    BY <1>1, ScaleTyped
  <1>3. Scale = Q * P
    <2> HIDE DEF w
    <2> QED BY <1>1, <1>2, TenToSum DEF Scale
  <1>4. Q \in Nat \ {0} /\ P \in Nat
    <2> HIDE DEF w
    <2> QED BY <1>1, <1>2, TenToMore
  <1>5. SizeOf(t) = u * Scale + v * P /\ Over(t) = Q /\ Digits(t) = u * Q + v
    BY DEF SizeOf, Over, Digits, Frac
  <1> HIDE DEF u, v, w, P, Q
  <1>6. u * Scale \in Nat /\ v * P \in Nat /\ u * Q \in Nat
    BY <1>1, <1>4, ScaleTyped
  <1>7. (u * (Q * P) + v * P) * Q = (Q * P) * (u * Q + v)
    BY <1>1, <1>4
  <1> QED BY <1>3, <1>4, <1>5, <1>6, <1>7, <1>1

LEMMA NothingGuessed ==
  ASSUME NEW t \in Texts, NEW allow_negative \in BOOLEAN, NEW r,
         r = ParseFixed(t, allow_negative), r # None
  PROVE  /\ ~ t.stray /\ t.sign \in {"none", "+", "-"} /\ t.whole # Empty
         /\ Len(t.dots) <= 1 /\ (t.dots # <<>> => t.dots[1] # Empty)
         /\ r * Over(t) = Scale * (IF t.sign = "-" THEN - Digits(t) ELSE Digits(t))
         /\ r \in Int /\ (r >= 0 => Fits(r)) /\ (r < 0 => Fits(- r))
  <1>1. /\ IsDecimal(Trimmed(t)) /\ Frac(t).width <= ScaleDigits /\ Fits(SizeOf(t))
        /\ r = IF t.sign = "-" THEN - SizeOf(t) ELSE SizeOf(t)
    BY Parsed
  <1>2. /\ SizeOf(t) \in Nat /\ Over(t) \in Nat \ {0} /\ Digits(t) \in Nat
        /\ SizeOf(t) * Over(t) = Scale * Digits(t)
    BY <1>1, SizesTyped
  <1>3. Empty.width = 0
    BY DEF Empty
  <1>4. /\ ~ t.stray /\ t.sign \in {"none", "+", "-"} /\ t.whole # Empty
        /\ Len(t.dots) <= 1 /\ (t.dots # <<>> => t.dots[1] # Empty)
    <2>1. ~ t.stray /\ t.sign \in {"none", "+", "-"} /\ Len(t.dots) <= 1
      BY <1>1, TrimmedFields, Zenon DEF IsDecimal
    <2>2. t.whole.width > 0 /\ (t.dots # <<>> => t.dots[1].width > 0)
      BY <1>1, TrimmedFields, Zenon DEF IsDecimal
    <2>3. t.whole # Empty /\ (t.dots # <<>> => t.dots[1] # Empty)
      BY <1>3, <2>2
    <2> QED BY <2>1, <2>3
  <1> DEFINE s == SizeOf(t)
             o == Over(t)
             d == Digits(t)
  <1>5. s \in Nat /\ o \in Nat /\ d \in Nat /\ Scale \in Nat /\ s * o = Scale * d
    BY <1>2, ScaleTyped
  <1>6. r = (IF t.sign = "-" THEN - s ELSE s) /\ Fits(s)
    BY <1>1
  <1> HIDE DEF s, o, d
  <1>7. (- s) * o = Scale * (- d)
    BY <1>5
  <1>8. r * o = Scale * (IF t.sign = "-" THEN - d ELSE d)
    BY <1>5, <1>6, <1>7
  <1>9. r \in Int /\ (r >= 0 => Fits(r)) /\ (r < 0 => Fits(- r))
    BY <1>5, <1>6, MoneyAssumption DEF Fits
  <1> QED BY <1>4, <1>8, <1>9 DEF s, o, d

LEMMA ShownReadsBack ==
  ASSUME NEW r \in Int, r >= 0 => Fits(r), r < 0 => Fits(- r)
  PROVE  ParseMoney(FormatFixed(r)) = r /\ (r > 0 => ParsePx(FormatFixed(r)) = r)
  <1> DEFINE size == IF r < 0 THEN - r ELSE r
             t == FormatFixed(r)
             q == size \div Scale
             m == size % Scale
  <1>1. size \in Nat /\ Fits(size)
    OBVIOUS
  <1>2. t = [sign |-> IF r < 0 THEN "-" ELSE "none", padded |-> FALSE, stray |-> FALSE,
             whole |-> [value |-> q, width |-> Width(q)],
             dots |-> <<[value |-> m, width |-> ScaleDigits]>>]
    BY DEF FormatFixed
  <1> HIDE DEF size
  <1>3. q \in Nat /\ m \in Nat /\ size = q * Scale + m
    BY <1>1, ScaleTyped
  <1> HIDE DEF q, m, t
  <1>4. Width(q) \in Nat \ {0}
    BY <1>3, Widths
  <1>5. /\ t.sign = (IF r < 0 THEN "-" ELSE "none") /\ t.stray = FALSE
        /\ t.whole.value = q /\ t.whole.width = Width(q)
        /\ t.dots # <<>> /\ Len(t.dots) = 1
        /\ t.dots[1].value = m /\ t.dots[1].width = ScaleDigits
    BY <1>2
  <1>6. FractionOf(t).value = m /\ FractionOf(t).width = ScaleDigits
    BY <1>5 DEF FractionOf
  <1>a. /\ Trimmed(t).sign = t.sign /\ Trimmed(t).stray = FALSE
        /\ Trimmed(t).whole = t.whole /\ Trimmed(t).dots = t.dots
        /\ Trimmed(t).padded = FALSE
    BY <1>2 DEF Trimmed
  <1>7. IsDecimal(Trimmed(t))
    <2>1. ~ Trimmed(t).stray /\ ~ Trimmed(t).padded
      BY <1>a, Zenon
    <2>2. t.sign \in {"none", "+", "-"}
      BY <1>5
    <2>3. t.whole.width > 0 /\ Len(t.dots) <= 1 /\ (t.dots # <<>> => t.dots[1].width > 0)
      <3>1. t.whole.width > 0
        <4>1. Width(q) > 0
          BY <1>4
        <4> QED BY <1>5, <4>1, Zenon
      <3>2. ScaleDigits > 0
        BY ScaleTyped
      <3>3. t.dots[1].width > 0
        BY <1>5, <3>2, Zenon
      <3>4. Len(t.dots) <= 1
        <4>1. 1 <= 1
          OBVIOUS
        <4> QED BY <1>5, <4>1, Zenon
      <3> QED BY <3>1, <3>3, <3>4
    <2> QED BY <1>a, <2>1, <2>2, <2>3, Zenon DEF IsDecimal
  <1>8. TenTo(ScaleDigits - ScaleDigits) = 1 /\ ScaleDigits <= ScaleDigits
    <2>1. ScaleDigits - ScaleDigits = 0
      BY ScaleTyped
    <2> QED BY <2>1, ScaleTyped, TenToMore
  <1>9. t.whole.value * Scale + FractionOf(t).value * TenTo(ScaleDigits - FractionOf(t).width) = size
    <2>1. FractionOf(t).value * TenTo(ScaleDigits - FractionOf(t).width) = m
      BY <1>3, <1>6, <1>8
    <2> QED BY <1>3, <1>5, <2>1
  <1>10. \A allow \in BOOLEAN : (r < 0 => allow) =>
           ParseFixed(t, allow) = IF t.sign = "-" THEN - size ELSE size
    BY <1>1, <1>5, <1>a, <1>6, <1>7, <1>8, <1>9 DEF ParseFixed, Admitted
  <1>11. (IF t.sign = "-" THEN - size ELSE size) = r
    <2>1. CASE r < 0
      BY <1>5, <2>1 DEF size
    <2>2. CASE ~ (r < 0)
      BY <1>5, <2>2 DEF size
    <2> QED BY <2>1, <2>2
  <1>12. ParseMoney(t) = r
    BY <1>10, <1>11 DEF ParseMoney
  <1>13. ASSUME r > 0 PROVE ParsePx(t) = r
    <2>1. ParseFixed(t, FALSE) = r
      <3>1. ~ (r < 0) /\ FALSE \in BOOLEAN
        BY <1>13
      <3> QED BY <1>10, <1>11, <3>1
    <2>2. r \in Pxs
      BY <1>13 DEF Pxs
    <2> QED BY <2>1, <2>2 DEF ParsePx
  <1> QED BY <1>12, <1>13 DEF t
-----------------------------------------------------------------------------
(***************************************************************************)
(* Percentages.                                                            *)
(***************************************************************************)
LEMMA Divides ==
  ASSUME NEW a \in Nat, NEW b \in Nat \ {0}
  PROVE  /\ a \div b \in Nat /\ a % b \in 0..(b - 1)
         /\ a = b * (a \div b) + (a % b)
  OBVIOUS

LEMMA DivIsOnly ==
  ASSUME NEW b \in Nat \ {0}, NEW q \in Nat, NEW r \in 0..(b - 1), NEW a, a = b * q + r
  PROVE  a \div b = q
  <1> DEFINE p == a \div b
             s == a % b
  <1>1. a \in Nat
    <2>1. b * q \in Nat
      OBVIOUS
    <2> QED BY <2>1
  <1>2. p \in Nat /\ s \in 0..(b - 1) /\ a = b * p + s
    BY <1>1, Divides
  <1> HIDE DEF p, s
  <1>3. ~ (p < q)
    <2> SUFFICES ASSUME p < q PROVE FALSE
      OBVIOUS
    <2>1. b * (p + 1) <= b * q
      BY <1>2
    <2>2. b * (p + 1) = b * p + b
      BY <1>2
    <2> QED BY <1>2, <2>1, <2>2
  <1>4. ~ (p > q)
    <2> SUFFICES ASSUME p > q PROVE FALSE
      OBVIOUS
    <2>1. b * (q + 1) <= b * p
      BY <1>2
    <2>2. b * (q + 1) = b * q + b
      OBVIOUS
    <2> QED BY <1>2, <2>1, <2>2
  <1>5. p = q
    BY <1>2, <1>3, <1>4
  <1> QED BY <1>5 DEF p

(* The digit after the ones that fit says on which side of the half the    *)
(* rest is.                                                                *)
LEMMA NextDigit ==
  ASSUME NEW e \in Nat, NEW o \in Nat \ {0}
  PROVE  ((10 * e) \div o) % 10 >= 5 <=> 2 * (e % o) >= o
  <1> DEFINE q == e \div o
             r == e % o
  <1>1. q \in Nat /\ r \in 0..(o - 1) /\ e = o * q + r
    BY Divides
  <1> HIDE DEF q, r
  <1>2. 10 * r \in Nat
    BY <1>1
  <1> DEFINE d == (10 * r) \div o
             s == (10 * r) % o
  <1>3. d \in Nat /\ s \in 0..(o - 1) /\ 10 * r = o * d + s
    BY <1>2, Divides
  <1> HIDE DEF d, s
  <1>4. o * q \in Nat /\ o * d \in Nat
    BY <1>1, <1>3
  <1>5. d <= 9
    <2> SUFFICES ASSUME d >= 10 PROVE FALSE
      BY <1>3
    <2>1. o * d >= o * 10
      BY <1>3
    <2> QED BY <1>1, <1>3, <1>4, <2>1
  <1>6. d >= 5 => 2 * r >= o
    <2> SUFFICES ASSUME d >= 5 PROVE 2 * r >= o
      OBVIOUS
    <2>1. o * d >= o * 5
      BY <1>3
    <2> QED BY <1>1, <1>3, <1>4, <2>1
  <1>7. d < 5 => ~ (2 * r >= o)
    <2> SUFFICES ASSUME d < 5 PROVE 2 * r < o
      BY <1>1
    <2>1. o * d <= o * 4
      BY <1>3
    <2> QED BY <1>1, <1>3, <1>4, <2>1
  <1>8. 10 * e = o * (10 * q + d) + s
    <2>1. 10 * e = 10 * (o * q) + (o * d + s)
      BY <1>1, <1>3, <1>4
    <2>2. o * (10 * q + d) = 10 * (o * q) + o * d
      BY <1>1, <1>3
    <2> QED BY <1>3, <1>4, <2>1, <2>2
  <1>9. (10 * e) \div o = 10 * q + d
    <2>1. 10 * q + d \in Nat
      BY <1>1, <1>3
    <2> QED BY <1>3, <1>8, <2>1, DivIsOnly
  <1>10. (10 * q + d) % 10 = d
    BY <1>1, <1>3, <1>5
  <1> QED BY <1>3, <1>6, <1>7, <1>9, <1>10 DEF r

LEMMA NearestPercent ==
  ASSUME NEW t \in Texts
  PROVE  LET exact == Digits(t) * TenTo(2 + Dp)
             gap == Pct(t).size * Over(t) - exact
         IN  /\ -Over(t) <= 2 * gap /\ 2 * gap <= Over(t)
             /\ Pct(t).sign = "-" => t.sign = "-"
             /\ Pct(t).sign = "+" => t.sign # "-"
             /\ Pct(t).sign = "none" <=> Pct(t).size = 0
  <1> DEFINE o == Over(t)
             e == Digits(t) * TenTo(2 + Dp)
             fit == e \div o
             next == ((Digits(t) * TenTo(3 + Dp)) \div o) % 10
             size == IF next >= 5 THEN fit + 1 ELSE fit
             negative == t.sign = "-"
  <1>1. o \in Nat \ {0} /\ Digits(t) \in Nat
    <2>1. /\ t.whole.value \in Nat /\ FractionOf(t).width \in Nat /\ FractionOf(t).value \in Nat
      BY RunsTyped DEF Frac
    <2>2. TenTo(FractionOf(t).width) \in Nat \ {0}
      BY <2>1, TenToMore
    <2>3. t.whole.value * TenTo(FractionOf(t).width) \in Nat
      BY <2>1, <2>2
    <2> QED BY <2>1, <2>2, <2>3 DEF Over, Digits
  <1>2. Pct(t) = Signed(negative, size)
    BY DEF Pct
  <1>3. 2 + Dp \in Nat /\ 3 + Dp = (2 + Dp) + 1
    <2>1. Dp \in Nat
      BY DecimalsAssumption
    <2> QED BY <2>1
  <1>4. TenTo(2 + Dp) \in Nat /\ TenTo(3 + Dp) = 10 * TenTo(2 + Dp)
    BY <1>3, TenToMore
  <1>5. e \in Nat /\ Digits(t) * TenTo(3 + Dp) = 10 * e
    <2> DEFINE d == Digits(t)
               p == TenTo(2 + Dp)
    <2>1. d \in Nat /\ p \in Nat
      BY <1>1, <1>4
    <2> HIDE DEF d, p
    <2>2. d * p \in Nat /\ d * (10 * p) = 10 * (d * p)
      BY <2>1
    <2> QED BY <1>4, <2>2 DEF d, p
  <1>6. next = ((10 * e) \div o) % 10
    BY <1>5
  <1> HIDE DEF o, e, next
  <1>7. next >= 5 <=> 2 * (e % o) >= o
    BY <1>1, <1>5, <1>6, NextDigit
  <1>8. fit \in Nat /\ e % o \in 0..(o - 1) /\ e = o * fit + (e % o)
    BY <1>1, <1>5, Divides
  <1> HIDE DEF fit
  <1>9. size \in Nat
    BY <1>8
  <1>10. -o <= 2 * (size * o - e) /\ 2 * (size * o - e) <= o
    <2> DEFINE r == e % o
               f == o * fit
    <2>1. o \in Nat /\ r \in 0..(o - 1) /\ f \in Nat /\ e = f + r
      BY <1>1, <1>8
    <2>2. CASE next >= 5
      <3>1. 2 * r >= o
        BY <1>7, <2>2
      <3>2. size = fit + 1
        BY <2>2
      <3>3. (fit + 1) * o = f + o
        BY <1>1, <1>8
      <3> HIDE DEF r, f, size
      <3> QED BY <2>1, <3>1, <3>2, <3>3
    <2>3. CASE ~ (next >= 5)
      <3>1. ~ (2 * r >= o)
        BY <1>7, <2>3
      <3>2. size = fit
        BY <2>3
      <3>3. fit * o = f
        BY <1>1, <1>8
      <3> HIDE DEF r, f, size
      <3> QED BY <2>1, <3>1, <3>2, <3>3
    <2> QED BY <2>2, <2>3
  <1> HIDE DEF size
  <1>11. /\ Pct(t).size = size
         /\ Pct(t).sign = IF size = 0 THEN "none" ELSE IF t.sign = "-" THEN "-" ELSE "+"
    <2> DEFINE sign == IF size = 0 THEN "none" ELSE IF negative THEN "-" ELSE "+"
    <2>1. Pct(t) = [sign |-> sign, size |-> size]
      BY <1>2, Zenon DEF Signed
    <2> HIDE DEF sign
    <2>2. Pct(t).size = size /\ Pct(t).sign = sign
      BY <2>1
    <2> QED BY <2>2, Zenon DEF sign
  <1>12. /\ Pct(t).sign = "-" => t.sign = "-"
         /\ Pct(t).sign = "+" => t.sign # "-"
         /\ Pct(t).sign = "none" <=> Pct(t).size = 0
    BY <1>11
  <1> QED BY <1>10, <1>11, <1>12 DEF o, e
-----------------------------------------------------------------------------
(***************************************************************************)
(* Days.                                                                   *)
(***************************************************************************)
Numeral(f, values) ==
  /\ f = [value |-> f.value, width |-> f.width, blanks |-> f.blanks]
  /\ f.value \in values /\ f.width \in Nat \ {0} /\ f.blanks \in Nat
  /\ f.value \in Nat /\ f.value < TenTo(f.width)

LEMMA NumeralsTyped ==
  ASSUME NEW values, values \subseteq Nat, NEW f \in Numerals(values)
  PROVE  Numeral(f, values)
  <1>1. f \in [value : values, width : 1..MaxWidth, blanks : 0..MaxBlanks]
        /\ f.value < TenTo(f.width)
    BY DEF Numerals
  <1>2. MaxWidth \in Nat /\ MaxBlanks \in Nat
    BY CalendarAssumption
  <1>3. /\ f = [value |-> f.value, width |-> f.width, blanks |-> f.blanks]
        /\ f.value \in values /\ f.width \in 1..MaxWidth /\ f.blanks \in 0..MaxBlanks
    BY <1>1
  <1>4. f.width \in Nat \ {0} /\ f.blanks \in Nat
    <2> DEFINE w == f.width
               b == f.blanks
    <2>1. w \in 1..MaxWidth /\ b \in 0..MaxBlanks
      BY <1>3
    <2> HIDE DEF w, b
    <2>2. w \in Nat \ {0} /\ b \in Nat
      BY <2>1, <1>2
    <2> QED BY <2>2 DEF w, b
  <1>5. f.value \in Nat
    BY <1>3
  <1> QED BY <1>1, <1>3, <1>4, <1>5, Zenon DEF Numeral

LEMMA DayTextsTyped ==
  ASSUME NEW t \in DayTexts
  PROVE  /\ t = [sign |-> t.sign, year |-> t.year, month |-> t.month, day |-> t.day]
         /\ t.sign \in {"none", "+", "-"}
         /\ Numeral(t.year, Years) /\ Numeral(t.month, MonthNumbers) /\ Numeral(t.day, DayNumbers)
  <1>1. Years \subseteq Nat /\ MonthNumbers \subseteq Nat /\ DayNumbers \subseteq Nat
    BY CalendarAssumption
  <1>2. t.year \in Numerals(Years) /\ t.month \in Numerals(MonthNumbers)
        /\ t.day \in Numerals(DayNumbers)
    BY DEF DayTexts
  <1>3. t = [sign |-> t.sign, year |-> t.year, month |-> t.month, day |-> t.day]
        /\ t.sign \in {"none", "+", "-"}
    BY DEF DayTexts
  <1>4. Numeral(t.year, Years) /\ Numeral(t.month, MonthNumbers) /\ Numeral(t.day, DayNumbers)
    BY <1>1, <1>2, NumeralsTyped, Zenon
  <1> QED BY <1>3, <1>4, Zenon

LEMMA SmallPowers == TenTo(1) = 10 /\ TenTo(2) = 100 /\ TenTo(4) = 10000
  <1>1. TenTo(0 + 1) = 10 /\ TenTo(1 + 1) = 10 * TenTo(0 + 1) /\ TenTo(2 + 1) = 10 * TenTo(1 + 1)
        /\ TenTo(3 + 1) = 10 * TenTo(2 + 1)
    BY TenToMore
  <1> QED BY <1>1

LEMMA PadsTo ==
  ASSUME NEW n \in Nat, NEW w \in Nat \ {0}, n < TenTo(w)
  PROVE  Padded(n, w) = [value |-> n, width |-> w, blanks |-> 0]
  <1>1. Width(n) \in Nat /\ Width(n) <= w
    BY Widths
  <1>2. (IF Width(n) < w THEN w ELSE Width(n)) = w
    BY <1>1
  <1> QED BY <1>2 DEF Padded

(* A day, and the form a row has for a day of a year written without sign. *)
Date(y, m, k) == [year |-> y, month |-> m, day |-> k]
Written(n, w) == [value |-> n, width |-> w, blanks |-> 0]
Row(y, m, k) ==
  [sign |-> "none", year |-> Written(y, 4), month |-> Written(m, 2), day |-> Written(k, 2)]

LEMMA WrittenFields ==
  ASSUME NEW n, NEW w
  PROVE  Written(n, w).value = n /\ Written(n, w).width = w /\ Written(n, w).blanks = 0
  BY DEF Written

(* A number of at most w digits is below that power of ten.                *)
LEMMA WidthBounds ==
  ASSUME NEW f, NEW values, Numeral(f, values), NEW w \in Nat, f.width <= w
  PROVE  f.value \in Nat /\ f.value < TenTo(w)
  <1> DEFINE v == f.value
             k == f.width
  <1>1. v \in Nat /\ k \in Nat /\ v < TenTo(k) /\ k <= w
    BY DEF Numeral
  <1> HIDE DEF v, k
  <1>2. TenTo(k) <= TenTo(w) /\ TenTo(k) \in Nat /\ TenTo(w) \in Nat
    BY <1>1, TenToGrows, TenToMore
  <1>3. v \in Nat /\ v < TenTo(w)
    BY <1>1, <1>2
  <1> QED BY <1>3 DEF v

(* The numbers a text spells.                                              *)
Spells(t, y, m, k) == y = t.year.value /\ m = t.month.value /\ k = t.day.value

(* A date whose year is written without a sign.                            *)
Ordinary(y, m, k) ==
  y \in 0..9999 /\ m \in 1..12 /\ k \in Nat /\ k \in 1..DaysIn(y, m) /\ k < 100

LEMMA AcceptedDays ==
  ASSUME NEW t \in DayTexts, Parse(t) # NoDay, t.sign = "none",
         NEW y, NEW m, NEW k, Spells(t, y, m, k)
  PROVE  /\ Parse(t) = Date(y, m, k)
         /\ Length(t) = 10 /\ t.year.width <= 4 /\ t.month.width <= 2 /\ t.day.width <= 2
         /\ Ordinary(y, m, k)
  <1>1. Length(t) = 10 /\ IsDate(t) /\ Parse(t) = DateOf(t)
    BY DEF Parse
  <1>2. YearOf(t) = y
    BY DEF YearOf, Spells
  <1>3. Parse(t) = Date(y, m, k)
    BY <1>1, <1>2 DEF DateOf, Date, Spells
  <1>4. /\ t.year.width <= 4 /\ t.month.width <= 2 /\ t.day.width <= 2
        /\ m \in 1..12 /\ k \in 1..DaysIn(y, m)
    BY <1>1, <1>2, Zenon DEF IsDate, Spells
  <1>5. /\ Numeral(t.year, Years) /\ Numeral(t.day, DayNumbers)
    BY DayTextsTyped
  <1>6. y \in Nat /\ y < TenTo(4) /\ k \in Nat /\ k < TenTo(2)
    BY <1>4, <1>5, WidthBounds DEF Spells
  <1>7. y \in 0..9999 /\ k < 100
    BY <1>6, SmallPowers
  <1> QED BY <1>1, <1>3, <1>4, <1>6, <1>7 DEF Ordinary

LEMMA RowsOfDays ==
  ASSUME NEW y, NEW m, NEW k, Ordinary(y, m, k)
  PROVE  Display(Date(y, m, k)) = Row(y, m, k)
  <1> DEFINE d == Date(y, m, k)
  <1>1. /\ y \in Nat /\ m \in Nat /\ k \in Nat
        /\ y < TenTo(4) /\ m < TenTo(2) /\ k < TenTo(2)
    BY SmallPowers DEF Ordinary
  <1>2. Padded(y, 4) = Written(y, 4) /\ Padded(m, 2) = Written(m, 2)
        /\ Padded(k, 2) = Written(k, 2)
    BY <1>1, PadsTo DEF Written
  <1>3. d.year = y /\ d.month = m /\ d.day = k
    BY DEF Date
  <1> HIDE DEF d
  <1>4. (IF y < 0 THEN - y ELSE y) = y
    BY <1>1
  <1>5. (IF y \in 0..9999 THEN "none" ELSE IF y < 0 THEN "-" ELSE "+") = "none"
    BY DEF Ordinary
  <1> DEFINE size(n) == IF n < 0 THEN - n ELSE n
             sign(n) == IF n \in 0..9999 THEN "none" ELSE IF n < 0 THEN "-" ELSE "+"
  <1>6. Display(d) = [sign |-> sign(d.year), year |-> Padded(size(d.year), 4),
                      month |-> Padded(d.month, 2), day |-> Padded(d.day, 2)]
    BY DEF Display
  <1>7. size(d.year) = y /\ sign(d.year) = "none"
    BY <1>3, <1>4, <1>5
  <1> HIDE DEF size, sign
  <1>8. Display(d) = [sign |-> "none", year |-> Padded(y, 4), month |-> Padded(m, 2),
                      day |-> Padded(k, 2)]
    BY <1>3, <1>6, <1>7
  <1>9. Display(d) = [sign |-> "none", year |-> Written(y, 4), month |-> Written(m, 2),
                      day |-> Written(k, 2)]
    BY <1>2, <1>8
  <1> QED BY <1>9 DEF d, Row

LEMMA RowsReadBack ==
  ASSUME NEW y, NEW m, NEW k, Ordinary(y, m, k)
  PROVE  Parse(Row(y, m, k)) = Date(y, m, k)
  <1> DEFINE r == Row(y, m, k)
  <1>1. r.sign = "none" /\ r.year = Written(y, 4) /\ r.month = Written(m, 2)
        /\ r.day = Written(k, 2)
    BY DEF Row
  <1> HIDE DEF r
  <1>2. r.year.value = y /\ r.month.value = m /\ r.day.value = k
    BY <1>1, WrittenFields
  <1>3. r.year.width = 4 /\ r.month.width = 2 /\ r.day.width = 2
    BY <1>1, WrittenFields
  <1>4. r.year.blanks = 0 /\ r.month.blanks = 0 /\ r.day.blanks = 0
    BY <1>1, WrittenFields
  <1>5. Size(r.year) = 4 /\ Size(r.month) = 2 /\ Size(r.day) = 2
    BY <1>3, <1>4 DEF Size
  <1>6. Length(r) = 10
    BY <1>1, <1>5 DEF Length
  <1>7. YearOf(r) = y
    BY <1>1, <1>2 DEF YearOf
  <1>8. IsDate(r)
    BY <1>2, <1>3, <1>7 DEF IsDate, Ordinary
  <1>9. DateOf(r) = Date(y, m, k)
    BY <1>2, <1>7 DEF DateOf, Date
  <1> QED BY <1>6, <1>8, <1>9 DEF Parse, r

LEMMA PlainDaysAreRows ==
  ASSUME NEW t \in DayTexts, Parse(t) # NoDay, Plain(t)
  PROVE  Row(t.year.value, t.month.value, t.day.value) = t
  <1>1. t.sign = "none" /\ t.year.blanks = 0 /\ t.month.blanks = 0 /\ t.day.blanks = 0
    BY DEF Plain
  <1>2. Length(t) = 10 /\ t.year.width <= 4 /\ t.month.width <= 2 /\ t.day.width <= 2
    BY <1>1, AcceptedDays DEF Spells
  <1>3. /\ Numeral(t.year, Years) /\ Numeral(t.month, MonthNumbers) /\ Numeral(t.day, DayNumbers)
        /\ t = [sign |-> t.sign, year |-> t.year, month |-> t.month, day |-> t.day]
    BY DayTextsTyped
  <1>4. t.year.width = 4 /\ t.month.width = 2 /\ t.day.width = 2
    <2> DEFINE a == t.year.width
               b == t.month.width
               c == t.day.width
    <2>1. a \in Nat /\ b \in Nat /\ c \in Nat
      BY <1>3 DEF Numeral
    <2>2. a <= 4 /\ b <= 2 /\ c <= 2
      BY <1>2
    <2>3. 0 + (0 + a) + 1 + (0 + b) + 1 + (0 + c) = 10
      <3>1. Length(t) = 0 + Size(t.year) + 1 + Size(t.month) + 1 + Size(t.day)
        BY <1>1 DEF Length
      <3>2. Size(t.year) = 0 + a /\ Size(t.month) = 0 + b /\ Size(t.day) = 0 + c
        BY <1>1 DEF Size
      <3> HIDE DEF a, b, c
      <3> QED BY <1>2, <3>1, <3>2
    <2> HIDE DEF a, b, c
    <2>4. a = 4 /\ b = 2 /\ c = 2
      BY <2>1, <2>2, <2>3
    <2> QED BY <2>4 DEF a, b, c
  <1>5. /\ t.year = Written(t.year.value, 4) /\ t.month = Written(t.month.value, 2)
        /\ t.day = Written(t.day.value, 2)
    BY <1>1, <1>3, <1>4 DEF Numeral, Written
  <1>6. Row(t.year.value, t.month.value, t.day.value)
          = [sign |-> "none", year |-> t.year, month |-> t.month, day |-> t.day]
    BY <1>5 DEF Row
  <1> QED BY <1>1, <1>3, <1>6
-----------------------------------------------------------------------------
(***************************************************************************)
(* What holds of the texts at all times: either a day is on its way or a   *)
(* number, and each stage is made of the one before it.                    *)
(***************************************************************************)
DayFacts ==
  /\ asked \in DayTexts
  /\ day # NoDay => day = Parse(asked)
  /\ row # NoDay => day # NoDay /\ row = Display(day)
  /\ back # NoDay => row # NoDay /\ back = Parse(row)

NumberFacts ==
  /\ text \in Texts
  /\ raw # None => raw \in {ParseMoney(text), ParsePx(text)}
  /\ shown # None => raw # None /\ shown = FormatFixed(raw)
  /\ percent # None => percent = Pct(text)

TextsInv == (DayFacts /\ NumberIdle) \/ (NumberFacts /\ DayIdle)

LEMMA DayStepsKeepTheFacts == DayFacts /\ CalendarNext => DayFacts'
  <1> SUFFICES ASSUME DayFacts, CalendarNext
               PROVE  DayFacts'
    OBVIOUS
  <1>1. CASE Ask
    <2>1. day = NoDay /\ row = NoDay /\ back = NoDay
      BY <1>1, Zenon DEF DayFacts, Ask
    <2> QED BY <1>1, <2>1, Zenon DEF DayFacts, Ask
  <1>2. CASE Journal
    <2>1. row = NoDay /\ back = NoDay /\ day # NoDay
      BY <1>2, Zenon DEF DayFacts, Journal
    <2> QED BY <1>2, <2>1, Zenon DEF DayFacts, Journal
  <1>3. CASE Reopen
    BY <1>3, Zenon DEF DayFacts, Reopen
  <1> QED BY <1>1, <1>2, <1>3 DEF CalendarNext

LEMMA NumberStepsKeepTheFacts == NumberFacts /\ DecimalsNext => NumberFacts'
  <1> SUFFICES ASSUME NumberFacts, DecimalsNext
               PROVE  NumberFacts'
    OBVIOUS
  <1>1. CASE Take
    <2>1. raw = None /\ shown = None
      BY <1>1, Zenon DEF NumberFacts, Take
    <2> QED BY <1>1, <2>1, Zenon DEF NumberFacts, Take
  <1>2. CASE Show
    BY <1>2, Zenon DEF NumberFacts, Show
  <1>3. CASE ShowReturn
    BY <1>3, Zenon DEF NumberFacts, ShowReturn
  <1> QED BY <1>1, <1>2, <1>3 DEF DecimalsNext

LEMMA TextsInvariant == TextsSpec => []TextsInv
  <1> DEFINE Step == \/ NumberIdle /\ CalendarNext /\ UNCHANGED decimal_vars
                     \/ DayIdle /\ DecimalsNext /\ UNCHANGED calendar_vars
             Begin == (CalendarInit /\ NumberIdle) \/ (DecimalsInit /\ DayIdle)
             all == <<calendar_vars, decimal_vars>>
  <1>1. Begin => TextsInv
    BY DEF TextsInv, DayFacts, NumberFacts, CalendarInit, DecimalsInit
  <1>2. TextsInv /\ [Step]_all => TextsInv'
    <2> SUFFICES ASSUME TextsInv, [Step]_all
                 PROVE  TextsInv'
      OBVIOUS
    <2>1. DayFacts => ~ DayIdle
      BY NoDayAssumption DEF DayFacts, DayIdle
    <2>2. NumberFacts => ~ NumberIdle
      BY NoTextAssumption DEF NumberFacts, NumberIdle
    <2>3. CASE NumberIdle /\ CalendarNext /\ UNCHANGED decimal_vars
      <3>1. DayFacts
        BY <2>2, <2>3, Zenon DEF TextsInv
      <3>2. DayFacts'
        BY <2>3, <3>1, DayStepsKeepTheFacts, Zenon
      <3>3. NumberIdle'
        BY <2>3, Zenon DEF NumberIdle, decimal_vars
      <3> QED BY <3>2, <3>3, Zenon DEF TextsInv
    <2>4. CASE DayIdle /\ DecimalsNext /\ UNCHANGED calendar_vars
      <3>1. NumberFacts
        BY <2>1, <2>4, Zenon DEF TextsInv
      <3>2. NumberFacts'
        BY <2>4, <3>1, NumberStepsKeepTheFacts, Zenon
      <3>3. DayIdle'
        BY <2>4, Zenon DEF DayIdle, calendar_vars
      <3> QED BY <3>2, <3>3, Zenon DEF TextsInv
    <2>5. CASE UNCHANGED all
      <3>1. UNCHANGED <<asked, day, row, back, text, raw, shown, percent>>
        BY <2>5 DEF calendar_vars, decimal_vars
      <3> QED BY <3>1, Zenon DEF TextsInv, DayFacts, NumberFacts, DayIdle, NumberIdle
    <2> QED BY <2>3, <2>4, <2>5, Zenon
  <1>3. TextsSpec <=> Begin /\ [][Step]_all
    BY DEF TextsSpec
  <1> HIDE DEF Begin, Step, all
  <1> QED BY <1>1, <1>2, <1>3, PTL

LEMMA DaysFollow == TextsInv => DaysAreKept
  <1> SUFFICES ASSUME TextsInv, row # NoDay
               PROVE  DaysAreKept
    BY DEF DaysAreKept, PlainTextIsCanonical, DaysReadBack
  <1>1. DayFacts
    BY Zenon DEF TextsInv, DayIdle
  <1>2. /\ asked \in DayTexts /\ Parse(asked) # NoDay /\ day = Parse(asked)
        /\ row = Display(day) /\ (back # NoDay => back = Parse(row))
    BY <1>1, Zenon DEF DayFacts
  <1>3. PICK y, m, k : Spells(asked, y, m, k)
    BY Zenon DEF Spells
  <1>4. ASSUME asked.sign = "none"
        PROVE  row = Row(y, m, k) /\ Parse(row) = day
    <2>1. day = Date(y, m, k) /\ Ordinary(y, m, k)
      BY <1>2, <1>3, <1>4, AcceptedDays
    <2>2. row = Row(y, m, k)
      BY <1>2, <2>1, RowsOfDays
    <2>3. Parse(Row(y, m, k)) = Date(y, m, k)
      BY <2>1, RowsReadBack
    <2> QED BY <2>1, <2>2, <2>3
  <1>5. PlainTextIsCanonical
    <2> SUFFICES ASSUME Plain(asked) PROVE row = asked
      BY DEF PlainTextIsCanonical
    <2>1. asked.sign = "none"
      BY Zenon DEF Plain
    <2>2. Row(asked.year.value, asked.month.value, asked.day.value) = asked
      BY <1>2, PlainDaysAreRows, Zenon
    <2> QED BY <1>3, <1>4, <2>1, <2>2, Zenon DEF Spells
  <1>6. DaysReadBack
    BY <1>2, <1>4, Zenon DEF DaysReadBack
  <1> QED BY <1>5, <1>6 DEF DaysAreKept

LEMMA AmountsFollow == TextsInv => AmountsAreKept
  <1> SUFFICES ASSUME TextsInv, raw # None
               PROVE  AmountsAreKept
    <2>1. TextsInv /\ raw = None => shown = None
      BY Zenon DEF TextsInv, NumberFacts, NumberIdle
    <2> QED BY <2>1, Zenon DEF AmountsAreKept, NothingIsGuessed, AmountsReadBack
  <1>1. NumberFacts
    BY Zenon DEF TextsInv, NumberIdle
  <1>2. /\ text \in Texts /\ raw \in {ParseMoney(text), ParsePx(text)}
        /\ shown # None => shown = FormatFixed(raw)
    BY <1>1, Zenon DEF NumberFacts
  <1>3. PICK negative \in BOOLEAN : raw = ParseFixed(text, negative)
    BY <1>2, Zenon DEF ParseMoney, ParsePx
  <1>4. /\ NothingIsGuessed
        /\ raw \in Int /\ (raw >= 0 => Fits(raw)) /\ (raw < 0 => Fits(- raw))
    <2>1. /\ ~ text.stray /\ text.sign \in {"none", "+", "-"} /\ text.whole # Empty
          /\ Len(text.dots) <= 1 /\ (text.dots # <<>> => text.dots[1] # Empty)
          /\ raw * Over(text) = Scale * (IF text.sign = "-" THEN - Digits(text) ELSE Digits(text))
          /\ raw \in Int /\ (raw >= 0 => Fits(raw)) /\ (raw < 0 => Fits(- raw))
      BY <1>2, <1>3, NothingGuessed
    <2> QED BY <2>1, Zenon DEF NothingIsGuessed
  <1>5. AmountsReadBack
    BY <1>2, <1>4, ShownReadsBack, Zenon DEF AmountsReadBack
  <1> QED BY <1>4, <1>5 DEF AmountsAreKept

LEMMA PercentsFollow == TextsInv => PercentsAreNearest
  <1> SUFFICES ASSUME TextsInv, percent # None
               PROVE  PercentsAreNearest
    BY DEF PercentsAreNearest
  <1>1. text \in Texts /\ percent = Pct(text)
    BY Zenon DEF TextsInv, NumberFacts, NumberIdle
  <1> QED BY <1>1, NearestPercent, Zenon DEF PercentsAreNearest

(* Of digits and dashes alone only the form the journal writes is taken,   *)
(* and a day accepted with a plain year is read back from its row as the   *)
(* day that was closed (TradingDay::parse and Display, time.rs): for every *)
(* set of spellings.                                                       *)
THEOREM DaysAreAlwaysKept == TextsSpec => []DaysAreKept
  BY TextsInvariant, DaysFollow, PTL

(* A text taken for an amount says exactly that amount, and what the       *)
(* server shows for an amount it takes for the same one again (parse_fixed *)
(* and format_fixed, money.rs): for every scale and every text.            *)
THEOREM AmountsAreAlwaysKept == TextsSpec => []AmountsAreKept
  BY TextsInvariant, AmountsFollow, PTL

(* The percentage the cockpit shows is the nearest one, and its sign is    *)
(* the return's unless it is shown as nothing (pct, api.ts): for every     *)
(* number of decimals.                                                     *)
THEOREM PercentsAreAlwaysNearest == TextsSpec => []PercentsAreNearest
  BY TextsInvariant, PercentsFollow, PTL
=============================================================================
