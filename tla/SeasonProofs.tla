---------------------------- MODULE SeasonProofs ----------------------------
(***************************************************************************)
(* The rankings of every season the engine can publish (Allowed): that a   *)
(* day's places follow its returns and not the order its entries come in,  *)
(* that the ladder's places, wins and points are given once, and that a    *)
(* close takes none of them back.  MarketProofs shows that what the engine *)
(* publishes is such a season.                                             *)
(***************************************************************************)
EXTENDS MCSeason, CountingProofs

-----------------------------------------------------------------------------
(***************************************************************************)
(* Rounding.                                                               *)
(***************************************************************************)
LEMMA Division ==
  ASSUME NEW a \in Int, NEW b \in Nat \ {0}
  PROVE  /\ a \div b \in Int /\ (a % b) \in 0..(b - 1)
         /\ a = b * (a \div b) + (a % b)
  OBVIOUS

LEMMA Factors ==
  ASSUME NEW m \in Nat, NEW q \in Int, NEW n \in Int, m * q < m * n
  PROVE  q < n
  <1> SUFFICES ASSUME q >= n PROVE FALSE
    OBVIOUS
  <1>1. q - n \in Nat
    OBVIOUS
  <1>2. m * (q - n) >= 0
    BY <1>1
  <1>3. m * (q - n) = m * q - m * n
    OBVIOUS
  <1> QED BY <1>2, <1>3

(* What is no larger is not rounded to more.                               *)
LEMMA RoundedIsMonotone ==
  ASSUME NEW a \in Int, NEW b \in Nat \ {0}, NEW c \in Int, NEW d \in Nat \ {0},
         a * d <= c * b
  PROVE  Rounded(a, b) \in Int /\ Rounded(a, b) <= Rounded(c, d)
  <1> DEFINE q == a \div b
             r == a % b
             m == c \div d
             s == c % d
  <1>1. q \in Int /\ r \in 0..(b - 1) /\ a = b * q + r
    BY Division
  <1>2. m \in Int /\ s \in 0..(d - 1) /\ c = d * m + s
    BY Division
  <1>3. /\ Rounded(a, b) = IF 2 * r < b \/ (2 * r = b /\ q % 2 = 0) THEN q ELSE q + 1
        /\ Rounded(c, d) = IF 2 * s < d \/ (2 * s = d /\ m % 2 = 0) THEN m ELSE m + 1
    BY DEF Rounded
  <1> HIDE DEF q, r, m, s
  <1> DEFINE bd == b * d
             rd == r * d
             sb == s * b
  <1>4. bd \in Int /\ rd \in Int /\ sb \in Int
    BY <1>1, <1>2
  <1>5. a * d = bd * q + rd
    BY <1>1
  <1>6. c * b = bd * m + sb
    BY <1>2
  <1>7. rd >= 0
    BY <1>1
  <1>8. sb < bd
    <2>1. (d - s) * b >= 1 * b
      BY <1>2
    <2>2. (d - s) * b = d * b - s * b
      BY <1>2
    <2> QED BY <2>1, <2>2, <1>2
  <1>9. bd \in Nat
    OBVIOUS
  <1> HIDE DEF bd, rd, sb
  <1>10. bd * q < bd * (m + 1)
    <2>1. bd * (m + 1) = bd * m + bd
      BY <1>2, <1>9
    <2>2. bd * q \in Int /\ bd * m \in Int
      BY <1>1, <1>2, <1>9
    <2> QED BY <1>4, <1>5, <1>6, <1>7, <1>8, <2>1, <2>2
  <1>11. q < m + 1
    BY <1>1, <1>2, <1>9, <1>10, Factors
  <1>12. CASE q < m
    BY <1>1, <1>2, <1>3, <1>12
  <1>13. CASE q = m
    <2>1. rd <= sb
      <3>1. bd * q \in Int
        BY <1>1, <1>9
      <3> QED BY <1>4, <1>5, <1>6, <1>13, <3>1
    <2>2. r * d <= s * b
      BY <2>1 DEF rd, sb
    <2>3. 2 * s < d => 2 * r < b
      <3> SUFFICES ASSUME 2 * s < d, 2 * r >= b PROVE FALSE
        BY <1>1
      <3>1. (2 * r) * d >= b * d
        BY <1>1
      <3>2. (2 * s) * b < d * b
        <4>1. (d - 2 * s) * b >= 1 * b
          BY <1>2
        <4>2. (d - 2 * s) * b = d * b - (2 * s) * b
          BY <1>2
        <4> QED BY <4>1, <4>2, <1>2
      <3>3. (2 * r) * d = 2 * (r * d) /\ (2 * s) * b = 2 * (s * b)
        BY <1>1, <1>2
      <3>4. r * d \in Int /\ s * b \in Int /\ b * d = d * b /\ b * d \in Int
        BY <1>1, <1>2
      <3> QED BY <2>2, <3>1, <3>2, <3>3, <3>4
    <2>4. 2 * s = d => 2 * r <= b
      <3> SUFFICES ASSUME 2 * s = d, 2 * r > b PROVE FALSE
        BY <1>1
      <3>1. (2 * r) * d > b * d
        <4>1. (2 * r - b) * d >= 1 * d
          BY <1>1
        <4>2. (2 * r - b) * d = (2 * r) * d - b * d
          BY <1>1
        <4> QED BY <4>1, <4>2, <1>1
      <3>2. (2 * s) * b = d * b
        OBVIOUS
      <3>3. (2 * r) * d = 2 * (r * d) /\ (2 * s) * b = 2 * (s * b)
        BY <1>1, <1>2
      <3>4. r * d \in Int /\ s * b \in Int /\ b * d = d * b /\ b * d \in Int
        BY <1>1, <1>2
      <3> QED BY <2>2, <3>1, <3>2, <3>3, <3>4
    <2> QED BY <1>1, <1>2, <1>3, <1>13, <2>3, <2>4
  <1> QED BY <1>1, <1>2, <1>11, <1>12, <1>13
-----------------------------------------------------------------------------
(***************************************************************************)
(* What every published day is: someone's, and of each of them a plausible *)
(* row that starts from the value an earlier day ended with.               *)
(***************************************************************************)
On(entries) == {p \in Participants : entries[p] # None}

Priced(e) ==
  /\ e \in DayInput /\ Fits(e.closing_value - e.prior_closing_value)
  /\ e.closing_value \in 0..MaxRaw /\ e.prior_closing_value \in 0..MaxRaw
  /\ e.prior_closing_value = 0 => e.closing_value = 0

Ranking(entries) ==
  /\ On(entries) # {}
  /\ \A p \in On(entries) : Priced(entries[p])

SeasonInv ==
  /\ closed = [d \in Days |-> closed[d]]
  /\ \A d \in Published : Ranking(closed[d])

LEMMA LatestIsOneOfThem ==
  ASSUME NEW days \in SUBSET Days, days # {}
  PROVE  LatestDay(days) \in days /\ \A c \in days : c <= LatestDay(days)
  <1> DEFINE T == {MaxDay - c : c \in days}
  <1>1. T \in SUBSET Nat /\ T # {}
    <2>1. ASSUME NEW c \in days PROVE MaxDay - c \in Nat
      <3>1. c \in 1..MaxDay
        BY DEF Days
      <3> QED BY <3>1, KeysAssumption
    <2> QED BY <2>1
  <1>2. PICK x \in T : \A y \in T : x <= y
    BY <1>1, Least
  <1>3. PICK d \in days : x = MaxDay - d
    BY <1>2
  <1>4. \A c \in days : c <= d
    <2> SUFFICES ASSUME NEW c \in days PROVE c <= d
      OBVIOUS
    <2>1. MaxDay - d <= MaxDay - c
      BY <1>2, <1>3
    <2> QED BY <2>1, KeysAssumption DEF Days
  <1> QED BY <1>4 DEF LatestDay

LEMMA PublishKeepsRanking ==
  ASSUME SeasonInv, NEW d \in Days, closed'[d] # None, Publish(d, closed'[d])
  PROVE  SeasonInv'
  <1> DEFINE e == closed'[d]
  <1>1. closed' = [closed EXCEPT ![d] = e]
    BY DEF Publish
  <1>2. closed' = [c \in Days |-> IF c = d THEN e ELSE closed[c]]
    <2> HIDE DEF e
    <2> QED BY <1>1 DEF SeasonInv
  <1> HIDE DEF e
  <1>3. closed' = [c \in Days |-> closed'[c]]
    BY <1>2
  <1>4. \A c \in Days : c # d => closed'[c] = closed[c]
    BY <1>2
  <1>5. On(e) # {}
    BY DEF Publish, On, e
  <1>6. ASSUME NEW p \in On(e) PROVE Priced(e[p])
    <2>1. /\ p \in Participants /\ e[p] # None /\ Plausible(e[p])
          /\ e[p].prior_closing_value = Baseline(p, d, e[p].prior_closing_value)
          /\ Earlier(p, d) = {} => e[p].prior_closing_value \in 1..MaxRaw
      BY <1>6 DEF Publish, On, e
    <2>2. e[p].prior_closing_value \in 0..MaxRaw
      <3>1. CASE Earlier(p, d) = {}
        BY <2>1, <3>1, MoneyAssumption
      <3>2. CASE Earlier(p, d) # {}
        <4> DEFINE l == LatestDay(Earlier(p, d))
        <4>1. Earlier(p, d) \in SUBSET Days
          BY DEF Earlier
        <4>2. l \in Earlier(p, d)
          BY <3>2, <4>1, LatestIsOneOfThem
        <4> HIDE DEF l
        <4>3. l \in Published /\ closed[l][p] # None
          BY <4>2 DEF Earlier, Published
        <4>4. closed[l][p].closing_value \in 0..MaxRaw
          BY <2>1, <4>3 DEF SeasonInv, Ranking, On, Priced
        <4>5. e[p].prior_closing_value = closed[l][p].closing_value
          BY <2>1, <3>2 DEF Baseline, l
        <4> QED BY <4>4, <4>5
      <3> QED BY <3>1, <3>2
    <2>3. /\ e[p].closing_value \in 0..MaxRaw /\ e[p] \in DayInput
          /\ e[p].prior_closing_value = 0 => e[p].closing_value = 0
      BY <2>1 DEF Plausible
    <2>4. Fits(e[p].closing_value - e[p].prior_closing_value)
      BY <2>2, <2>3, MoneyAssumption DEF Fits
    <2> QED BY <2>2, <2>3, <2>4 DEF Priced
  <1>7. Ranking(e)
    BY <1>5, <1>6 DEF Ranking
  <1>8. \A c \in Published' : Ranking(closed'[c])
    <2> SUFFICES ASSUME NEW c \in Days, closed'[c] # None PROVE Ranking(closed'[c])
      BY DEF Published
    <2>1. CASE c = d
      BY <1>7, <2>1 DEF e
    <2>2. CASE c # d
      BY <1>4, <2>2 DEF SeasonInv, Published
    <2> QED BY <2>1, <2>2
  <1> QED BY <1>3, <1>8 DEF SeasonInv

LEMMA SeasonInvariant == Allowed => []SeasonInv
  <1> DEFINE Closes == \E d \in Days : closed'[d] # None /\ Publish(d, closed'[d])
  <1>1. Init => SeasonInv
    BY DEF Init, SeasonInv, Published
  <1>2. SeasonInv /\ [Closes]_closed => SeasonInv'
    <2>1. SeasonInv /\ Closes => SeasonInv'
      BY PublishKeepsRanking
    <2>2. SeasonInv /\ UNCHANGED closed => SeasonInv'
      BY DEF SeasonInv, Published, Ranking
    <2> QED BY <2>1, <2>2
  <1> QED BY <1>1, <1>2, PTL DEF Allowed

(* The seasons the run generates are among those the engine can publish.   *)
LEMMA SeasonsAreAllowed == Spec => Allowed
  <1> DEFINE Closes == \E d \in Days : closed'[d] # None /\ Publish(d, closed'[d])
             Kept == closed = [d \in Days |-> closed[d]]
  <1>1. Init => Kept
    BY DEF Init
  <1>2. Kept /\ Next => Closes /\ Kept'
    <2> SUFFICES ASSUME Kept, Next PROVE Closes /\ Kept'
      OBVIOUS
    <2>1. PICK d \in Days : CloseDay(d)
      BY DEF Next
    <2>12. PICK present \in SUBSET Participants : \E busy \in SUBSET present :
            \E outcome \in [busy -> Outcomes] :
              Publish(d, [p \in Participants |->
                    IF p \notin present THEN None
                    ELSE IF p \in busy THEN Busy(p, d, outcome[p]) ELSE Idle(p, d)])
      BY <2>1 DEF CloseDay
    <2>2. PICK busy \in SUBSET present :
            \E outcome \in [busy -> Outcomes] :
              Publish(d, [p \in Participants |->
                    IF p \notin present THEN None
                    ELSE IF p \in busy THEN Busy(p, d, outcome[p]) ELSE Idle(p, d)])
      BY <2>12
    <2>3. PICK outcome \in [busy -> Outcomes] :
              Publish(d, [p \in Participants |->
                    IF p \notin present THEN None
                    ELSE IF p \in busy THEN Busy(p, d, outcome[p]) ELSE Idle(p, d)])
      BY <2>2
    <2> DEFINE e == [p \in Participants |->
                    IF p \notin present THEN None
                    ELSE IF p \in busy THEN Busy(p, d, outcome[p]) ELSE Idle(p, d)]
    <2>4. Publish(d, e)
      BY <2>3
    <2>5. e = [p \in Participants |-> e[p]]
      OBVIOUS
    <2> HIDE DEF e
    <2>6. closed' = [closed EXCEPT ![d] = e]
      BY <2>4 DEF Publish
    <2>7. closed'[d] = e /\ Kept'
      BY <2>6
    <2>8. \A p \in Participants : e[p] = None \/ e[p] \in DayInput
      BY <2>4 DEF Publish, Plausible
    <2>9. e \in [Participants -> DayInput \cup {None}]
      BY <2>5, <2>8
    <2>10. closed'[d] # None
      BY <2>7, <2>9, NoneAssumption
    <2>11. Publish(d, closed'[d])
      BY <2>4, <2>7
    <2> QED BY <2>7, <2>10, <2>11
  <1>3. Kept /\ [Next]_closed => [Closes]_closed /\ Kept'
    <2>1. Kept /\ UNCHANGED closed => Kept'
      OBVIOUS
    <2> HIDE DEF Kept, Closes
    <2> QED BY <1>2, <2>1
  <1> QED BY <1>1, <1>3, PTL DEF Spec, Allowed
-----------------------------------------------------------------------------
(***************************************************************************)
(* A day's leaderboard is its results, each once, in order; whatever order *)
(* the entries come in.                                                    *)
(***************************************************************************)
ResultOf(entries, p) == DailyResult(InputRow(p, entries[p]))
Results(entries) == {ResultOf(entries, p) : p \in On(entries)}
Precedence(rows) == {z \in rows \X rows : Before(z[1], z[2])}

(* A sequence that has every member of a set once.                         *)
Lists(f, n, S) ==
  /\ f \in [1..n -> S]
  /\ \A x \in S : \E k \in 1..n : f[k] = x
  /\ \A j, k \in 1..n : f[j] = f[k] => j = k

LEMMA AscendingLists ==
  ASSUME NEW n \in Nat, NEW S, NEW R, Strict(R, S), NEW f, Ascends(f, n, S, R)
  PROVE  Lists(f, n, S)
  <1> SUFFICES ASSUME NEW j \in 1..n, NEW k \in 1..n, f[j] = f[k] PROVE j = k
    BY DEF Ascends, Lists
  <1>1. f[j] \in S /\ <<f[j], f[j]>> \notin R
    BY DEF Ascends, Strict
  <1>2. j < k => <<f[j], f[k]>> \in R
    BY DEF Ascends
  <1>3. k < j => <<f[k], f[j]>> \in R
    BY DEF Ascends
  <1> QED BY <1>1, <1>2, <1>3

LEMMA KeysAreListed ==
  ASSUME NEW m \in Nat, NEW keys \in SUBSET (1..m)
  PROVE  /\ IsFiniteSet(keys) /\ Cardinality(keys) \in Nat
         /\ Ascends(InOrder(keys), Cardinality(keys), keys, Increasing(keys))
         /\ Lists(InOrder(keys), Cardinality(keys), keys)
         /\ DOMAIN InOrder(keys) = 1..Cardinality(keys)
  <1>1. IsFiniteSet(keys) /\ Cardinality(keys) \in Nat
    <2>1. IsFiniteSet(1..m)
      BY FS_Interval
    <2>2. IsFiniteSet(keys)
      BY <2>1, FS_Subset
    <2> QED BY <2>2, FS_CardinalityType
  <1>2. Ascends(InOrder(keys), Cardinality(keys), keys, Increasing(keys))
    BY <1>1, InOrderAscends
  <1>3. Strict(Increasing(keys), keys)
    BY DEF Strict, Increasing
  <1>4. Lists(InOrder(keys), Cardinality(keys), keys)
    BY <1>1, <1>2, <1>3, AscendingLists
  <1> QED BY <1>1, <1>2, <1>4 DEF Lists

LEMMA ResultFacts ==
  ASSUME NEW entries, Ranking(entries), NEW p \in On(entries)
  PROVE  LET r == ResultOf(entries, p)
             e == entries[p]
         IN  /\ r.participant = p
             /\ r.daily_return
                  = Return(e.closing_value - e.prior_closing_value, e.prior_closing_value)
             /\ r.daily_return \in Int
             /\ r.turnover = e.turnover /\ r.turnover \in Int
             /\ r.active = e.active /\ r.active \in BOOLEAN
  <1> DEFINE r == ResultOf(entries, p)
             e == entries[p]
             gain == e.closing_value - e.prior_closing_value
  <1>1. e \in DayInput /\ Fits(gain)
    BY DEF Ranking, Priced
  <1>2. gain \in Int /\ e.prior_closing_value \in Int /\ e.turnover \in Int /\ e.active \in BOOLEAN
    BY <1>1 DEF DayInput
  <1>3. Return(gain, e.prior_closing_value) \in Int
    <2> HIDE DEF gain
    <2>1. CASE e.prior_closing_value <= 0
      BY <2>1 DEF Return
    <2>2. CASE ~ e.prior_closing_value <= 0
      <3>1. e.prior_closing_value \in Nat \ {0} /\ gain * ReturnUnit \in Int
        BY <1>2, <2>2, ReturnUnitAssumption
      <3>2. Rounded(gain * ReturnUnit, e.prior_closing_value) \in Int
        BY <3>1, RoundedIsMonotone
      <3> QED BY <2>2, <3>2 DEF Return
    <2> QED BY <2>1, <2>2
  <1>4. /\ r.participant = p
        /\ r.daily_return = Return(gain, e.prior_closing_value)
        /\ r.turnover = e.turnover /\ r.active = e.active
    BY <1>1 DEF ResultOf, DailyResult, InputRow
  <1> QED BY <1>2, <1>3, <1>4

LEMMA PrecedenceOrders ==
  ASSUME NEW entries, Ranking(entries)
  PROVE  Orders(Precedence(Results(entries)), Results(entries))
  <1> DEFINE S == Results(entries)
  <1>1. \A x \in S : x.participant \in Int /\ x.daily_return \in Int /\ x.turnover \in Int
    <2> SUFFICES ASSUME NEW p \in On(entries)
                 PROVE  LET x == ResultOf(entries, p)
                        IN  x.participant \in Int /\ x.daily_return \in Int /\ x.turnover \in Int
      BY DEF Results
    <2>1. p \in Int
      BY DEF On, Participants
    <2> QED BY <2>1, ResultFacts
  <1>2. \A x, y \in S : x.participant = y.participant => x = y
    BY ResultFacts DEF Results
  <1> HIDE DEF S
  <1>3. \A x, y \in S : <<x, y>> \in Precedence(S) <=> Before(x, y)
    BY DEF Precedence
  <1>4. \A x, y \in S : Before(x, y) => ~ Before(y, x)
    BY <1>1 DEF Before
  <1>5. \A x, y \in S : x = y \/ Before(x, y) \/ Before(y, x)
    BY <1>1, <1>2 DEF Before
  <1>6. \A x, y, z \in S : Before(x, y) /\ Before(y, z) => Before(x, z)
    BY <1>1 DEF Before
  <1> QED BY <1>3, <1>4, <1>5, <1>6 DEF Orders, Strict, S

LEMMA InputRowsAreListed ==
  ASSUME NEW entries
  PROVE  LET n == Cardinality(On(entries))
         IN  /\ n \in Nat
             /\ \E ids : /\ Lists(ids, n, On(entries))
                         /\ InputRows(entries) = [k \in 1..n |-> InputRow(ids[k], entries[ids[k]])]
  <1>1. On(entries) \in SUBSET (1..NumParticipants) /\ NumParticipants \in Nat
    BY KeysAssumption DEF On, Participants
  <1> DEFINE ids == InOrder(On(entries))
             n == Cardinality(On(entries))
  <1>2. InputRows(entries) = [k \in DOMAIN ids |-> InputRow(ids[k], entries[ids[k]])]
    BY DEF InputRows, On
  <1>3. n \in Nat /\ Lists(ids, n, On(entries)) /\ DOMAIN ids = 1..n
    BY <1>1, KeysAreListed
  <1> QED BY <1>2, <1>3

LEMMA BoardAscends ==
  ASSUME NEW entries, Ranking(entries), NEW n \in Nat, NEW ids, Lists(ids, n, On(entries)),
         NEW rows, rows = [k \in 1..n |-> InputRow(ids[k], entries[ids[k]])]
  PROVE  Ascends(Leaderboard(rows), n, Results(entries), Precedence(Results(entries)))
  <1> DEFINE s == [k \in 1..n |-> ResultOf(entries, ids[k])]
             B == Precedence(Results(entries))
             C == {<<s[k], k>> : k \in DOMAIN s}
             Precedes(c, d) == Before(c[1], d[1]) \/ (~ Before(d[1], c[1]) /\ c[2] < d[2])
             place == [x \in C |-> Cardinality({y \in C : y = x \/ Precedes(y, x)})]
             cards == Listed([k \in 1..Cardinality(C) |-> CHOOSE x \in C : place[x] = k])
  <1>1. ids \in [1..n -> On(entries)]
    BY DEF Lists
  <1>2. Values(s, n) = Results(entries)
    <2>1. \A k \in 1..n : s[k] = ResultOf(entries, ids[k]) /\ ids[k] \in On(entries)
      BY <1>1
    <2>2. \A p \in On(entries) : \E k \in 1..n : ids[k] = p
      BY DEF Lists
    <2> HIDE DEF s
    <2> QED BY <2>1, <2>2 DEF Values, Results
  <1>3. \A j, k \in 1..n : s[j] = s[k] => j = k
    <2> SUFFICES ASSUME NEW j \in 1..n, NEW k \in 1..n, s[j] = s[k] PROVE j = k
      OBVIOUS
    <2>1. ids[j] \in On(entries) /\ ids[k] \in On(entries)
      BY <1>1
    <2>2. ids[j] = ids[k]
      BY <2>1, ResultFacts
    <2> QED BY <2>2 DEF Lists
  <1>4. Orders(B, Values(s, n))
    BY <1>2, PrecedenceOrders
  <1>5. C = Cards(s, n)
    BY DEF Cards
  <1>6. [k \in DOMAIN rows |-> DailyResult(rows[k])] = s
    BY DEF ResultOf
  <1>7. Leaderboard(rows) = SortBy(s, Before)
    <2> HIDE DEF s
    <2> QED BY <1>6 DEF Leaderboard
  <1>8. DOMAIN s = 1..n
    OBVIOUS
  <1>9. \A x, y \in C : /\ Before(y[1], x[1]) <=> <<y[1], x[1]>> \in B
                        /\ Before(x[1], y[1]) <=> <<x[1], y[1]>> \in B
    <2>1. \A c \in C : c[1] \in Results(entries)
      <3> HIDE DEF s
      <3> HIDE DEF C
      <3> QED BY <1>2, <1>5 DEF Cards, Values
    <2> HIDE DEF s, C
    <2> QED BY <2>1 DEF Precedence
  <1> HIDE DEF s, B
  <1>10. SortBy(s, Before) = [k \in DOMAIN s |-> cards[k][1]]
    BY DEF SortBy, Sorted
  <1>11. place = [x \in C |-> Place(C, CardsBefore(s, n, B), x)]
    <2> SUFFICES ASSUME NEW x \in C
                 PROVE  Cardinality({y \in C : y = x \/ Precedes(y, x)})
                          = Place(C, CardsBefore(s, n, B), x)
      OBVIOUS
    <2> DEFINE U == {y \in C : y = x \/ Precedes(y, x)}
    <2>1. \A y \in C : Precedes(y, x) <=> <<y, x>> \in CardsBefore(s, n, B)
      BY <1>5, <1>9 DEF CardsBefore
    <2> HIDE DEF C
    <2>2. U = UpToHere(C, CardsBefore(s, n, B), x)
      BY <2>1 DEF UpToHere
    <2> HIDE DEF U
    <2> QED BY <2>2 DEF Place, U
  <1>12. cards = Ranked(C, CardsBefore(s, n, B))
    <2> HIDE DEF C, place
    <2> QED BY <1>11 DEF Ranked
  <1> HIDE DEF cards, place
  <1>13. Leaderboard(rows) = [k \in 1..n |-> Ranked(Cards(s, n), CardsBefore(s, n, B))[k][1]]
    BY <1>5, <1>7, <1>8, <1>10, <1>12
  <1>14. Ascends(Leaderboard(rows), n, Values(s, n), B)
    BY <1>3, <1>4, <1>13, CardsAscend
  <1> QED BY <1>2, <1>14 DEF B
LEMMA BoardOf ==
  ASSUME NEW entries, Ranking(entries)
  PROVE  LET n     == Cardinality(On(entries))
             board == Leaderboard(InputRows(entries))
         IN  /\ n \in Nat
             /\ Ascends(board, n, Results(entries), Precedence(Results(entries)))
             /\ DOMAIN board = 1..n /\ Len(board) = n
  <1> DEFINE n == Cardinality(On(entries))
             board == Leaderboard(InputRows(entries))
             S == Results(entries)
  <1>1. n \in Nat
    BY InputRowsAreListed
  <1>2. PICK ids : /\ Lists(ids, n, On(entries))
                   /\ InputRows(entries) = [k \in 1..n |-> InputRow(ids[k], entries[ids[k]])]
    BY InputRowsAreListed
  <1> HIDE DEF n
  <1>3. Ascends(board, n, S, Precedence(S))
    BY <1>1, <1>2, BoardAscends
  <1> HIDE DEF board, S
  <1>4. board \in [1..n -> S]
    BY <1>3 DEF Ascends
  <1>5. DOMAIN board = 1..n /\ Len(board) = n
    BY <1>1, <1>4, SeqDef
  <1> QED BY <1>1, <1>3, <1>5 DEF n, board, S

LEMMA ReturnIsRounded ==
  ASSUME NEW e, Priced(e), NEW gain, gain = e.closing_value - e.prior_closing_value,
         NEW base, base = IF e.prior_closing_value = 0 THEN 1 ELSE e.prior_closing_value
  PROVE  /\ gain \in Int /\ base \in Nat \ {0}
         /\ Return(gain, e.prior_closing_value) = Rounded(gain * ReturnUnit, base)
  <1>1. /\ gain \in Int /\ base \in Nat \ {0}
        /\ e.prior_closing_value \in Nat /\ e.closing_value \in Nat
    BY MoneyAssumption DEF Priced
  <1>2. CASE e.prior_closing_value = 0
    <2>1. gain = 0 /\ base = 1
      BY <1>1, <1>2 DEF Priced
    <2>2. Rounded(0 * ReturnUnit, 1) = 0
      <3>1. 0 * ReturnUnit = 0
        BY ReturnUnitAssumption
      <3>2. Rounded(0, 1) = 0
        BY DEF Rounded
      <3> QED BY <3>1, <3>2
    <2> QED BY <1>1, <1>2, <2>1, <2>2 DEF Return
  <1>3. CASE e.prior_closing_value # 0
    BY <1>1, <1>3 DEF Return
  <1> QED BY <1>1, <1>2, <1>3

(* Who earned no more for what they had is not given the higher return.    *)
LEMMA ReturnIsMonotone ==
  ASSUME NEW g \in Int, NEW b \in Nat \ {0}, NEW h \in Int, NEW c \in Nat \ {0},
         g * c <= h * b
  PROVE  Rounded(g * ReturnUnit, b) <= Rounded(h * ReturnUnit, c)
  <1> DEFINE x == g * c
             y == h * b
  <1>1. x \in Int /\ y \in Int /\ x <= y
    OBVIOUS
  <1>2. (g * ReturnUnit) * c = ReturnUnit * x /\ (h * ReturnUnit) * b = ReturnUnit * y
    BY ReturnUnitAssumption
  <1> HIDE DEF x, y
  <1>3. ReturnUnit * x <= ReturnUnit * y
    <2>1. ReturnUnit * (y - x) >= 0
      BY <1>1, ReturnUnitAssumption
    <2>2. ReturnUnit * (y - x) = ReturnUnit * y - ReturnUnit * x
      BY <1>1, ReturnUnitAssumption
    <2>3. ReturnUnit * x \in Int /\ ReturnUnit * y \in Int
      BY <1>1, ReturnUnitAssumption
    <2> QED BY <2>1, <2>2, <2>3
  <1>4. g * ReturnUnit \in Int /\ h * ReturnUnit \in Int
    BY ReturnUnitAssumption
  <1>5. (g * ReturnUnit) * c <= (h * ReturnUnit) * b
    BY <1>2, <1>3
  <1> QED BY <1>4, <1>5, RoundedIsMonotone

LEMMA RanksFollow ==
  ASSUME SeasonInv, NEW d \in Published
  PROVE  LET board == LeaderboardOf(closed, d)
             gain(p) == Fact(d, p).closing_value - Fact(d, p).prior_closing_value
             base(p) == IF Fact(d, p).prior_closing_value = 0 THEN 1
                        ELSE Fact(d, p).prior_closing_value
             earned(p, q) == gain(p) * base(q) > gain(q) * base(p)
         IN  /\ {board[n].participant : n \in DOMAIN board} = Present(d)
             /\ Len(board) = Cardinality(Present(d))
             /\ \A m, n \in DOMAIN board : m < n =>
                  LET a == board[m]
                      b == board[n]
                  IN  \/ earned(a.participant, b.participant)
                      \/ /\ a.daily_return = b.daily_return
                         /\ \/ a.turnover < b.turnover
                            \/ a.turnover = b.turnover /\ a.participant < b.participant
  <1> DEFINE entries == closed[d]
             n == Cardinality(On(entries))
             board == LeaderboardOf(closed, d)
             S == Results(entries)
             gain(p) == Fact(d, p).closing_value - Fact(d, p).prior_closing_value
             base(p) == IF Fact(d, p).prior_closing_value = 0 THEN 1
                        ELSE Fact(d, p).prior_closing_value
  <1>1. Ranking(entries)
    BY DEF SeasonInv
  <1>2. On(entries) = Present(d)
    BY DEF On, Present
  <1>3. /\ n \in Nat /\ Ascends(board, n, S, Precedence(S))
        /\ DOMAIN board = 1..n /\ Len(board) = n
    BY <1>1, BoardOf DEF LeaderboardOf
  <1> HIDE DEF board, n
  <1>4. ASSUME NEW p \in On(entries)
        PROVE  /\ gain(p) \in Int /\ base(p) \in Nat \ {0}
               /\ ResultOf(entries, p).participant = p
               /\ ResultOf(entries, p).daily_return = Rounded(gain(p) * ReturnUnit, base(p))
               /\ ResultOf(entries, p).daily_return \in Int
    <2>1. Priced(entries[p]) /\ Fact(d, p) = entries[p]
      BY <1>1 DEF Ranking, Fact
    <2>2. /\ gain(p) \in Int /\ base(p) \in Nat \ {0}
          /\ Return(gain(p), entries[p].prior_closing_value) = Rounded(gain(p) * ReturnUnit, base(p))
      BY <2>1, ReturnIsRounded
    <2>3. ResultOf(entries, p).daily_return = Return(gain(p), entries[p].prior_closing_value)
      BY <1>1, <2>1, ResultFacts
    <2> HIDE DEF gain, base
    <2> QED BY <1>1, <2>2, <2>3, ResultFacts
  <1>5. {board[k].participant : k \in DOMAIN board} = On(entries)
    <2>1. \A k \in 1..n : board[k] \in S
      BY <1>3 DEF Ascends
    <2>2. \A x \in S : x.participant \in On(entries)
      BY <1>4 DEF Results
    <2>3. \A p \in On(entries) : \E k \in 1..n : board[k].participant = p
      <3> SUFFICES ASSUME NEW p \in On(entries) PROVE \E k \in 1..n : board[k].participant = p
        OBVIOUS
      <3>1. ResultOf(entries, p) \in S
        BY DEF Results
      <3>2. PICK k \in 1..n : board[k] = ResultOf(entries, p)
        BY <1>3, <3>1 DEF Ascends
      <3> QED BY <1>4, <3>2
    <2> HIDE DEF S, entries
    <2> QED BY <1>3, <2>1, <2>2, <2>3
  <1>6. ASSUME NEW j \in 1..n, NEW k \in 1..n, j < k
        PROVE  LET a == board[j]
                   b == board[k]
               IN  \/ gain(a.participant) * base(b.participant)
                        > gain(b.participant) * base(a.participant)
                   \/ /\ a.daily_return = b.daily_return
                      /\ \/ a.turnover < b.turnover
                         \/ a.turnover = b.turnover /\ a.participant < b.participant
    <2>1. board[j] \in S /\ board[k] \in S /\ Before(board[j], board[k])
      BY <1>3, <1>6 DEF Ascends, Precedence
    <2>2. PICK p \in On(entries) : board[j] = ResultOf(entries, p)
      BY <2>1 DEF Results
    <2>3. PICK q \in On(entries) : board[k] = ResultOf(entries, q)
      BY <2>1 DEF Results
    <2>4. board[j].participant = p /\ board[k].participant = q
      BY <1>4, <2>2, <2>3
    <2>5. CASE board[j].daily_return > board[k].daily_return
      <3> SUFFICES ASSUME gain(p) * base(q) <= gain(q) * base(p) PROVE FALSE
        <4>1. gain(p) \in Int /\ base(p) \in Nat /\ gain(q) \in Int /\ base(q) \in Nat
          BY <1>4
        <4> HIDE DEF gain, base
        <4>2. gain(p) * base(q) \in Int /\ gain(q) * base(p) \in Int
          BY <4>1
        <4> QED BY <2>4, <4>2
      <3>1. gain(p) \in Int /\ base(p) \in Nat \ {0} /\ gain(q) \in Int /\ base(q) \in Nat \ {0}
        BY <1>4
      <3> HIDE DEF gain, base
      <3>2. Rounded(gain(p) * ReturnUnit, base(p)) <= Rounded(gain(q) * ReturnUnit, base(q))
        BY <3>1, ReturnIsMonotone
      <3>3. board[j].daily_return <= board[k].daily_return
        BY <1>4, <2>2, <2>3, <3>2
      <3>4. board[j].daily_return \in Int /\ board[k].daily_return \in Int
        BY <1>4, <2>2, <2>3
      <3> QED BY <2>5, <3>3, <3>4
    <2>6. CASE ~ board[j].daily_return > board[k].daily_return
      BY <2>1, <2>6 DEF Before
    <2> QED BY <2>5, <2>6
  <1> HIDE DEF gain, base, entries
  <1> QED BY <1>2, <1>3, <1>5, <1>6 DEF gain, base, board, n

(* Whatever the engine publishes, nobody is ranked behind someone who      *)
(* earned less on what they had: rounding can only tie two returns, and a  *)
(* tie goes to the lower turnover and then to the lower id.                *)
THEOREM RanksAlwaysFollowReturns == Allowed => []RanksFollowReturns
  <1>1. SeasonInv => RanksFollowReturns
    BY RanksFollow DEF RanksFollowReturns
  <1> QED BY <1>1, SeasonInvariant, PTL

-----------------------------------------------------------------------------
LEMMA ShufflesAreInjective ==
  ASSUME NEW n \in Nat, NEW f \in Shuffles(1..n)
  PROVE  f \in [1..n -> 1..n] /\ \A j, k \in 1..n : f[j] = f[k] => j = k
  <1>1. IsFiniteSet(1..n)
    BY FS_Interval
  <1>2. f \in Surjection(1..n, 1..n)
    BY DEF Shuffles, Surjection
  <1>3. f \in Injection(1..n, 1..n)
    BY <1>1, <1>2, FS_SurjSameCardinalityImpliesInj
  <1> QED BY <1>3 DEF Injection, IsInjective

LEMMA OrderOfInputs ==
  ASSUME NEW entries, Ranking(entries), NEW order \in Shuffles(DOMAIN InputRows(entries))
  PROVE  Leaderboard([k \in DOMAIN InputRows(entries) |-> InputRows(entries)[order[k]]])
           = Leaderboard(InputRows(entries))
  <1> DEFINE rows == InputRows(entries)
             n == Cardinality(On(entries))
             S == Results(entries)
             P == Precedence(S)
  <1>1. n \in Nat
    BY InputRowsAreListed
  <1>2. PICK ids : /\ Lists(ids, n, On(entries))
                   /\ rows = [k \in 1..n |-> InputRow(ids[k], entries[ids[k]])]
    BY InputRowsAreListed
  <1> DEFINE other == [k \in 1..n |-> ids[order[k]]]
             shuffled == [k \in DOMAIN rows |-> rows[order[k]]]
  <1> HIDE DEF n, rows
  <1>3. DOMAIN rows = 1..n
    BY <1>2
  <1>4. /\ order \in [1..n -> 1..n] /\ \A j, k \in 1..n : order[j] = order[k] => j = k
        /\ \A x \in 1..n : \E y \in 1..n : order[y] = x
    <2>1. order \in Shuffles(1..n)
      BY <1>3 DEF rows
    <2> QED BY <1>1, <2>1, ShufflesAreInjective DEF Shuffles
  <1>5. Lists(other, n, On(entries))
    <2>1. other \in [1..n -> On(entries)]
      BY <1>2, <1>4 DEF Lists
    <2>2. \A j, k \in 1..n : other[j] = other[k] => j = k
      BY <1>2, <1>4 DEF Lists
    <2>3. ASSUME NEW p \in On(entries) PROVE \E k \in 1..n : other[k] = p
      <3>1. PICK j \in 1..n : ids[j] = p
        BY <1>2 DEF Lists
      <3>2. PICK k \in 1..n : order[k] = j
        BY <1>4
      <3> QED BY <3>1, <3>2
    <2> HIDE DEF other
    <2> QED BY <2>1, <2>2, <2>3 DEF Lists
  <1>6. shuffled = [k \in 1..n |-> InputRow(other[k], entries[other[k]])]
    BY <1>2, <1>3, <1>4
  <1> HIDE DEF shuffled, other
  <1>7. Ascends(Leaderboard(shuffled), n, S, P)
    BY <1>1, <1>5, <1>6, BoardAscends
  <1>8. Ascends(Leaderboard(rows), n, S, P)
    BY <1>1, <1>2, BoardAscends
  <1>9. Strict(P, S)
    BY PrecedenceOrders DEF Orders
  <1> HIDE DEF S, P
  <1> DEFINE f == Leaderboard(shuffled)
             g == Leaderboard(rows)
  <1> HIDE DEF f, g
  <1>10. Ascends(f, n, S, P) /\ Ascends(g, n, S, P)
    BY <1>7, <1>8 DEF f, g
  <1>11. ASSUME NEW k \in 1..n PROVE f[k] \in S /\ Place(S, P, f[k]) = k
    <2>1. Place(S, P, f[k]) = k
      BY <1>1, <1>9, <1>10, AscendingPlaces
    <2> QED BY <1>10, <2>1 DEF Ascends
  <1>12. \A k \in 1..n : f[k] = g[k]
    BY <1>1, <1>9, <1>10, <1>11, OnlyOneAscends
  <1>13. f \in [1..n -> S] /\ g \in [1..n -> S]
    BY <1>10 DEF Ascends
  <1>14. f = g
    <2>1. f = [k \in 1..n |-> f[k]] /\ g = [k \in 1..n |-> g[k]]
      BY <1>13
    <2>2. [k \in 1..n |-> f[k]] = [k \in 1..n |-> g[k]]
      BY <1>12
    <2> QED BY <2>1, <2>2
  <1> QED BY <1>14 DEF f, g, shuffled, rows

(* Whatever order a day's entries come in, its leaderboard is the same.    *)
THEOREM InputOrderNeverMatters == Allowed => []InputOrderIsIrrelevant
  <1>1. SeasonInv => InputOrderIsIrrelevant
    BY OrderOfInputs DEF InputOrderIsIrrelevant, SeasonInv
  <1> QED BY <1>1, SeasonInvariant, PTL
-----------------------------------------------------------------------------
(***************************************************************************)
(* Where someone is placed on a day, and what a ladder row says, told from *)
(* the days themselves instead of from the sequence of their boards.       *)
(***************************************************************************)
HasDay(c) == {d \in Days : c[d] # None}
Sound(c) == \A d \in HasDay(c) : Ranking(c[d])
PlaceOn(c, d, p) == RankIn(LeaderboardOf(c, d), p)
WonDays(c, p) == {d \in HasDay(c) : p \in On(c[d]) /\ PlaceOn(c, d, p) = 1}
TradedDays(c, p) == {d \in HasDay(c) : p \in On(c[d]) /\ c[d][p].active}
PointsOn(c, p) ==
  [d \in Days |-> IF d \in HasDay(c) /\ p \in On(c[d]) THEN PointsFor(PlaceOn(c, d, p)) ELSE 0]
BoardsOf(c) ==
  LET days == ClosedDays(c)
  IN  Listed([n \in DOMAIN days |-> LeaderboardOf(c, days[n])])

LEMMA PlaceOnBoard ==
  ASSUME NEW entries, Ranking(entries), NEW board, board = Leaderboard(InputRows(entries)),
         NEW n, n = Cardinality(On(entries))
  PROVE  /\ n \in Nat /\ DOMAIN board = 1..n
         /\ \A p : RanksIn(board, p) # {} <=> p \in On(entries)
         /\ \A p \in On(entries) : /\ RankIn(board, p) \in 1..n
                                   /\ board[RankIn(board, p)] = ResultOf(entries, p)
         /\ \A k \in 1..n : /\ board[k].participant \in On(entries)
                            /\ RankIn(board, board[k].participant) = k
  <1> DEFINE S == Results(entries)
  <1>1. /\ n \in Nat /\ DOMAIN board = 1..n
        /\ Ascends(board, n, S, Precedence(S))
    BY BoardOf
  <1>2. Strict(Precedence(S), S)
    BY PrecedenceOrders DEF Orders
  <1>3. Lists(board, n, S)
    <2> HIDE DEF S
    <2> QED BY <1>1, <1>2, AscendingLists
  <1>4. \A k \in 1..n : \E p \in On(entries) : board[k] = ResultOf(entries, p)
    BY <1>3 DEF Lists, Results
  <1>5. \A p \in On(entries) : \E k \in 1..n : board[k] = ResultOf(entries, p)
    BY <1>3 DEF Lists, Results
  <1>6. \A p \in On(entries) : ResultOf(entries, p).participant = p
    BY ResultFacts
  <1>7. \A k \in 1..n : /\ board[k].participant \in On(entries)
                        /\ board[k] = ResultOf(entries, board[k].participant)
    BY <1>4, <1>6
  <1>8. \A j, k \in 1..n : board[j].participant = board[k].participant => j = k
    <2>1. \A j, k \in 1..n : board[j] = board[k] => j = k
      BY <1>3 DEF Lists
    <2> QED BY <1>7, <2>1
  <1>9. ASSUME NEW p \in On(entries)
        PROVE  /\ RankIn(board, p) \in 1..n /\ board[RankIn(board, p)] = ResultOf(entries, p)
               /\ RanksIn(board, p) # {}
    <2>1. PICK k \in 1..n : board[k] = ResultOf(entries, p)
      BY <1>5
    <2>2. k \in RanksIn(board, p)
      BY <1>1, <1>6, <2>1 DEF RanksIn
    <2>3. RankIn(board, p) \in RanksIn(board, p)
      BY <2>2 DEF RankIn
    <2>4. RankIn(board, p) \in 1..n /\ board[RankIn(board, p)].participant = p
      BY <1>1, <2>3 DEF RanksIn
    <2> QED BY <1>7, <2>2, <2>4
  <1>10. ASSUME NEW p, RanksIn(board, p) # {} PROVE p \in On(entries)
    BY <1>1, <1>7, <1>10 DEF RanksIn
  <1>11. ASSUME NEW k \in 1..n PROVE RankIn(board, board[k].participant) = k
    <2> DEFINE p == board[k].participant
               j == RankIn(board, p)
    <2>1. p \in On(entries)
      BY <1>7
    <2>2. j \in 1..n /\ board[j] = ResultOf(entries, p)
      BY <1>9, <2>1
    <2>3. board[j].participant = p
      BY <1>6, <2>1, <2>2
    <2> HIDE DEF j
    <2>4. j = k
      BY <1>8, <2>2, <2>3
    <2> QED BY <2>4 DEF j
  <1> QED BY <1>1, <1>7, <1>9, <1>10, <1>11

LEMMA DaysAreListed ==
  ASSUME NEW c
  PROVE  \E m \in Nat : \E days :
           /\ Lists(days, m, HasDay(c)) /\ m = Cardinality(HasDay(c))
           /\ BoardsOf(c) = [k \in 1..m |-> LeaderboardOf(c, days[k])]
           /\ Len(BoardsOf(c)) = m
  <1> DEFINE keys == HasDay(c)
             m == Cardinality(keys)
             days == ClosedDays(c)
             boards == [k \in 1..m |-> LeaderboardOf(c, days[k])]
             S == {LeaderboardOf(c, days[k]) : k \in 1..m}
  <1>1. keys \in SUBSET (1..MaxDay) /\ MaxDay \in Nat
    BY KeysAssumption DEF HasDay, Days
  <1>2. days = InOrder(keys)
    BY DEF ClosedDays, HasDay
  <1>3. m \in Nat /\ Lists(days, m, keys) /\ DOMAIN days = 1..m
    BY <1>1, <1>2, KeysAreListed
  <1>4. BoardsOf(c) = Listed(boards)
    BY <1>3 DEF BoardsOf
  <1>5. boards \in [1..m -> S]
    OBVIOUS
  <1> HIDE DEF boards, S, days, m
  <1>6. Listed(boards) = boards
    BY <1>3, <1>5, ListedIsTheSame
  <1>7. Len(boards) = m
    BY <1>3, <1>5, SeqDef
  <1> QED BY <1>3, <1>4, <1>6, <1>7 DEF boards, m

LEMMA ListedPart ==
  ASSUME NEW n \in Nat, NEW S, NEW f, Lists(f, n, S), NEW X \in SUBSET S
  PROVE  /\ IsFiniteSet(X)
         /\ Cardinality({k \in 1..n : f[k] \in X}) = Cardinality(X)
         /\ {k \in 1..n : f[k] \in X} = {} <=> X = {}
  <1> DEFINE K == {k \in 1..n : f[k] \in X}
             g == [k \in K |-> f[k]]
  <1>1. IsFiniteSet(1..n)
    BY FS_Interval
  <1>2. IsFiniteSet(K)
    BY <1>1, FS_Subset
  <1>3. \A x \in X : \E k \in K : g[k] = x
    BY DEF Lists
  <1>4. \A j, k \in K : g[j] = g[k] => j = k
    BY DEF Lists
  <1>5. g \in [K -> X]
    OBVIOUS
  <1>6. K = {} <=> X = {}
    BY <1>3
  <1> HIDE DEF K, g
  <1>7. g \in Surjection(K, X) /\ g \in Injection(K, X)
    BY <1>3, <1>4, <1>5 DEF Surjection, Injection, IsInjective
  <1>8. IsFiniteSet(X) /\ Cardinality(X) = Cardinality(K)
    BY <1>2, <1>7, FS_Surjection
  <1> QED BY <1>6, <1>8 DEF K
LEMMA PointsTyped ==
  ASSUME NEW k
  PROVE  PointsFor(k) \in Nat /\ (PointsFor(k) # 0 => k \in 1..10)
  <1>1. DOMAIN POINTS = 1..10 /\ \A j \in 1..10 : POINTS[j] \in Nat
    BY DEF POINTS
  <1> QED BY <1>1 DEF PointsFor

LEMMA PointsOnTyped ==
  ASSUME NEW c, NEW p
  PROVE  PointsOn(c, p) \in [1..MaxDay -> Nat] /\ MaxDay \in Nat
  BY PointsTyped, KeysAssumption DEF PointsOn, Days

LEMMA BoardOnDay ==
  ASSUME NEW c, Sound(c), NEW d \in HasDay(c), NEW p
  PROVE  LET board == LeaderboardOf(c, d)
         IN  /\ RanksIn(board, p) # {} <=> p \in On(c[d])
             /\ p \in On(c[d]) =>
                  /\ board[RankIn(board, p)].active = c[d][p].active
                  /\ board[RankIn(board, p)].daily_return \in Int
  <1> DEFINE board == LeaderboardOf(c, d)
  <1>1. Ranking(c[d]) /\ board = Leaderboard(InputRows(c[d]))
    BY DEF Sound, LeaderboardOf
  <1> HIDE DEF board
  <1>2. /\ RanksIn(board, p) # {} <=> p \in On(c[d])
        /\ p \in On(c[d]) => board[RankIn(board, p)] = ResultOf(c[d], p)
    BY <1>1, PlaceOnBoard
  <1>3. p \in On(c[d]) => /\ ResultOf(c[d], p).active = c[d][p].active
                          /\ ResultOf(c[d], p).daily_return \in Int
    BY <1>1, ResultFacts
  <1> QED BY <1>2, <1>3 DEF board

LEMMA ScoreInDays ==
  ASSUME NEW c, Sound(c), NEW p \in Participants,
         NEW boards, boards = BoardsOf(c)
  PROVE  LET s == Score(boards, p)
         IN  /\ s.rank = None /\ s.participant = p /\ s.cumulative_return \in Int
             /\ s.eligible = (TradedDays(c, p) # {})
             /\ s.active_days = Cardinality(TradedDays(c, p)) /\ s.active_days \in Nat
             /\ s.daily_wins = Cardinality(WonDays(c, p)) /\ s.daily_wins \in Nat
             /\ s.points = Sum(PointsOn(c, p), MaxDay) /\ s.points \in Int
             /\ DaysOf(boards, p) # {} <=> \E d \in HasDay(c) : p \in On(c[d])
  <1>1. PICK m \in Nat : \E days :
           /\ Lists(days, m, HasDay(c)) /\ m = Cardinality(HasDay(c))
           /\ boards = [k \in 1..m |-> LeaderboardOf(c, days[k])]
           /\ Len(boards) = m
    BY DaysAreListed
  <1>2. PICK days :
           /\ Lists(days, m, HasDay(c)) /\ m = Cardinality(HasDay(c))
           /\ boards = [k \in 1..m |-> LeaderboardOf(c, days[k])]
           /\ Len(boards) = m
    BY <1>1
  <1> DEFINE s == Score(boards, p)
  <1>3. \A k \in 1..m : days[k] \in HasDay(c) /\ boards[k] = LeaderboardOf(c, days[k])
    BY <1>2 DEF Lists
  <1>4. DOMAIN boards = 1..m
    BY <1>2
  <1>5. DaysOf(boards, p) = {k \in 1..m : p \in On(c[days[k]])}
    BY <1>3, <1>4, BoardOnDay DEF DaysOf
  <1>6. ActiveDays(boards, p) = {k \in 1..m : days[k] \in TradedDays(c, p)}
    <2>1. \A k \in 1..m : p \in On(c[days[k]]) =>
             boards[k][RankIn(boards[k], p)].active = c[days[k]][p].active
      BY <1>3, BoardOnDay
    <2> QED BY <1>3, <1>5, <2>1 DEF ActiveDays, TradedDays
  <1>7. {k \in DaysOf(boards, p) : RankIn(boards[k], p) = 1}
          = {k \in 1..m : days[k] \in WonDays(c, p)}
    BY <1>3, <1>5 DEF WonDays, PlaceOn
  <1>8. /\ Cardinality(ActiveDays(boards, p)) = Cardinality(TradedDays(c, p))
        /\ ActiveDays(boards, p) = {} <=> TradedDays(c, p) = {}
        /\ Cardinality(TradedDays(c, p)) \in Nat
    <2>1. TradedDays(c, p) \in SUBSET HasDay(c)
      BY DEF TradedDays
    <2>2. /\ IsFiniteSet(TradedDays(c, p))
          /\ Cardinality({k \in 1..m : days[k] \in TradedDays(c, p)}) = Cardinality(TradedDays(c, p))
          /\ {k \in 1..m : days[k] \in TradedDays(c, p)} = {} <=> TradedDays(c, p) = {}
      BY <1>2, <2>1, ListedPart
    <2> QED BY <1>6, <2>2, FS_CardinalityType
  <1>9. /\ Cardinality({k \in DaysOf(boards, p) : RankIn(boards[k], p) = 1})
             = Cardinality(WonDays(c, p))
        /\ Cardinality(WonDays(c, p)) \in Nat
    <2>1. WonDays(c, p) \in SUBSET HasDay(c)
      BY DEF WonDays
    <2>2. /\ IsFiniteSet(WonDays(c, p))
          /\ Cardinality({k \in 1..m : days[k] \in WonDays(c, p)}) = Cardinality(WonDays(c, p))
          /\ {k \in 1..m : days[k] \in WonDays(c, p)} = {} <=> WonDays(c, p) = {}
      BY <1>2, <2>1, ListedPart
    <2> QED BY <1>7, <2>2, FS_CardinalityType
  <1>10. s.cumulative_return \in Int
    <2> DEFINE gs == [k \in 1..Len(boards) |-> ReturnUnit + ReturnOn(boards, p, k)]
               us == [k \in 1..Len(boards) |-> ReturnUnit]
               whole == Whole(boards)
    <2>1. \A k \in 1..m : ReturnOn(boards, p, k) \in Int
      <3> SUFFICES ASSUME NEW k \in 1..m PROVE ReturnOn(boards, p, k) \in Int
        OBVIOUS
      <3>1. CASE k \in DaysOf(boards, p)
        <4>1. boards[k][RankIn(boards[k], p)].daily_return \in Int
          BY <1>3, <1>5, <3>1, BoardOnDay
        <4> QED BY <3>1, <4>1 DEF ReturnOn
      <3>2. CASE k \notin DaysOf(boards, p)
        BY <3>2 DEF ReturnOn
      <3> QED BY <3>1, <3>2
    <2>2. gs \in [1..m -> Int] /\ us \in [1..m -> Int] /\ \A k \in 1..m : us[k] > 0
      BY <1>2, <2>1, ReturnUnitAssumption
    <2>3. Growth(boards, p) = Product(gs, m) /\ whole = Product(us, m)
      BY <1>2 DEF Growth, Whole
    <2> HIDE DEF gs, us, whole
    <2>4. Growth(boards, p) \in Int /\ whole \in Nat \ {0}
      BY <2>2, <2>3, ProductTyped, ProductOfPositives
    <2>5. (Growth(boards, p) - whole) * ReturnUnit \in Int
      BY <2>4, ReturnUnitAssumption
    <2>6. Rounded((Growth(boards, p) - whole) * ReturnUnit, whole) \in Int
      BY <2>4, <2>5, RoundedIsMonotone
    <2>7. s.cumulative_return = Rounded((Growth(boards, p) - whole) * ReturnUnit, whole)
      BY DEF Score, whole
    <2> QED BY <2>6, <2>7
  <1>11. s.points = Sum(PointsOn(c, p), MaxDay) /\ s.points \in Int
    <2> DEFINE points(k) == IF k \in DaysOf(boards, p) THEN PointsFor(RankIn(boards[k], p)) ELSE 0
               f == [k \in 1..m |-> points(k)]
               g == PointsOn(c, p)
    <2>1. s.points = Sum(f, m)
      BY <1>2 DEF Score
    <2>2. f \in [1..m -> Int]
      BY PointsTyped
    <2>3. g \in [1..MaxDay -> Int] /\ MaxDay \in Nat
      BY PointsOnTyped
    <2>4. \A d \in Days : g[d] = IF d \in HasDay(c) /\ p \in On(c[d])
                                 THEN PointsFor(PlaceOn(c, d, p)) ELSE 0
      BY DEF PointsOn
    <2>5. HasDay(c) \subseteq Days /\ Days = 1..MaxDay
      BY DEF HasDay, Days
    <2>6. \A k \in 1..m : f[k] = g[days[k]]
      <3> SUFFICES ASSUME NEW k \in 1..m PROVE f[k] = g[days[k]]
        OBVIOUS
      <3>1. days[k] \in Days /\ days[k] \in HasDay(c) /\ boards[k] = LeaderboardOf(c, days[k])
        BY <1>3, <2>5
      <3>2. k \in DaysOf(boards, p) <=> p \in On(c[days[k]])
        BY <1>5
      <3> HIDE DEF g
      <3> QED BY <2>4, <3>1, <3>2 DEF PlaceOn
    <2> HIDE DEF f, g
    <2>7. days \in [1..m -> 1..MaxDay]
      BY <1>2, <2>5 DEF Lists
    <2>8. \A d \in 1..MaxDay : g[d] # 0 => \E j \in 1..m : days[j] = d
      BY <1>2, <2>4, <2>5 DEF Lists
    <2>9. \A i, j \in 1..m : days[i] = days[j] => i = j
      BY <1>2 DEF Lists
    <2>10. Picks(days, f, m, g, MaxDay)
      BY <2>6, <2>7, <2>8, <2>9 DEF Picks
    <2>11. Sum(f, m) = Sum(g, MaxDay)
      BY <2>2, <2>3, <2>10, SumOfListed
    <2>12. Sum(f, m) \in Int
      BY <2>2, SumTyped
    <2> QED BY <2>1, <2>11, <2>12 DEF g
  <1>12. DaysOf(boards, p) # {} <=> \E d \in HasDay(c) : p \in On(c[d])
    <2>1. \A d \in HasDay(c) : \E k \in 1..m : days[k] = d
      BY <1>2 DEF Lists
    <2> QED BY <1>3, <1>5, <2>1
  <1>13. /\ s.rank = None /\ s.participant = p
         /\ s.eligible = (ActiveDays(boards, p) # {})
         /\ s.active_days = Cardinality(ActiveDays(boards, p))
         /\ s.daily_wins = Cardinality({k \in DaysOf(boards, p) : RankIn(boards[k], p) = 1})
    BY DEF Score
  <1> HIDE DEF s
  <1>14. s.eligible = (TradedDays(c, p) # {})
    BY <1>8, <1>13
  <1> QED BY <1>8, <1>9, <1>10, <1>11, <1>12, <1>13, <1>14 DEF s
-----------------------------------------------------------------------------
(***************************************************************************)
(* The ladder is everybody's score, each once, in order.                   *)
(***************************************************************************)
Entrants(c) == {p \in Participants : \E d \in HasDay(c) : p \in On(c[d])}
Scores(c) == {Score(BoardsOf(c), p) : p \in Entrants(c)}
AheadOf(rows) == {z \in rows \X rows : Ahead(z[1], z[2])}

LEMMA AheadOrders ==
  ASSUME NEW S,
         \A x \in S : /\ x.participant \in Int /\ x.cumulative_return \in Int
                      /\ x.daily_wins \in Int /\ x.active_days \in Int
                      /\ x.eligible \in BOOLEAN,
         \A x, y \in S : x.participant = y.participant => x = y
  PROVE  Orders(AheadOf(S), S)
  <1>1. \A x, y \in S : <<x, y>> \in AheadOf(S) <=> Ahead(x, y)
    BY DEF AheadOf
  <1>2. \A x, y \in S : AheadOnScore(x, y) => ~ AheadOnScore(y, x)
    BY DEF AheadOnScore
  <1>3. \A x, y \in S : x = y \/ AheadOnScore(x, y) \/ AheadOnScore(y, x)
    BY DEF AheadOnScore
  <1>4. \A x, y, z \in S : AheadOnScore(x, y) /\ AheadOnScore(y, z) => AheadOnScore(x, z)
    BY DEF AheadOnScore
  <1>5. \A x \in S : x.eligible = TRUE \/ x.eligible = FALSE
    OBVIOUS
  <1>6. \A x, y \in S : Ahead(x, y) => ~ Ahead(y, x)
    BY <1>2, <1>5 DEF Ahead
  <1>7. \A x, y \in S : x = y \/ Ahead(x, y) \/ Ahead(y, x)
    BY <1>3, <1>5 DEF Ahead
  <1>8. \A x, y, z \in S : Ahead(x, y) /\ Ahead(y, z) => Ahead(x, z)
    BY <1>4, <1>5 DEF Ahead
  <1> QED BY <1>1, <1>6, <1>7, <1>8 DEF Orders, Strict

LEMMA ScoresAreOrdered ==
  ASSUME NEW c, Sound(c)
  PROVE  /\ Orders(AheadOf(Scores(c)), Scores(c))
         /\ \A p \in Entrants(c) : Score(BoardsOf(c), p).participant = p
  <1>1. ASSUME NEW p \in Entrants(c)
        PROVE  LET x == Score(BoardsOf(c), p)
               IN  /\ x.participant = p /\ x.participant \in Int /\ x.cumulative_return \in Int
                   /\ x.daily_wins \in Int /\ x.active_days \in Int
                   /\ x.eligible \in BOOLEAN
    <2>1. p \in Participants /\ p \in Int
      BY DEF Entrants, Participants
    <2> DEFINE x == Score(BoardsOf(c), p)
    <2>2. /\ x.participant = p /\ x.cumulative_return \in Int
          /\ x.eligible = (TradedDays(c, p) # {})
          /\ x.active_days \in Nat /\ x.daily_wins \in Nat
      BY <2>1, ScoreInDays
    <2> HIDE DEF x
    <2> QED BY <2>1, <2>2 DEF x
  <1>2. \A x \in Scores(c) : /\ x.participant \in Int /\ x.cumulative_return \in Int
                             /\ x.daily_wins \in Int /\ x.active_days \in Int
                             /\ x.eligible \in BOOLEAN
    BY <1>1 DEF Scores
  <1>3. \A x, y \in Scores(c) : x.participant = y.participant => x = y
    BY <1>1 DEF Scores
  <1>4. Orders(AheadOf(Scores(c)), Scores(c))
    BY <1>2, <1>3, AheadOrders
  <1> QED BY <1>1, <1>4

PlacedIn(rows, N) ==
  [n \in 1..N |-> IF rows[n].eligible
                  THEN [rows[n] EXCEPT !.rank = Cardinality({m \in 1..n : rows[m].eligible})]
                  ELSE rows[n]]

LEMMA LadderAscends ==
  ASSUME NEW c, Sound(c), NEW N, N = Cardinality(Entrants(c))
  PROVE  /\ N \in Nat
         /\ \E rows : /\ Ascends(rows, N, Scores(c), AheadOf(Scores(c)))
                      /\ LadderOf(c) = PlacedIn(rows, N)
  <1> DEFINE boards == BoardsOf(c)
             E == Entrants(c)
             ids == InOrder(E)
             s == [k \in 1..N |-> Score(boards, ids[k])]
             B == AheadOf(Scores(c))
             C == {<<s[k], k>> : k \in DOMAIN s}
             Precedes(x, y) == Ahead(x[1], y[1]) \/ (~ Ahead(y[1], x[1]) /\ x[2] < y[2])
             place == [x \in C |-> Cardinality({y \in C : y = x \/ Precedes(y, x)})]
             cards == Listed([k \in 1..Cardinality(C) |-> CHOOSE x \in C : place[x] = k])
             rows == [k \in DOMAIN s |-> cards[k][1]]
  <1>1. E \in SUBSET (1..NumParticipants) /\ NumParticipants \in Nat
    BY KeysAssumption DEF Entrants, Participants
  <1>2. N \in Nat /\ Lists(ids, N, E) /\ DOMAIN ids = 1..N
    BY <1>1, KeysAreListed
  <1>3. {p \in Participants : DaysOf(boards, p) # {}} = E
    <2>1. \A p \in Participants : DaysOf(boards, p) # {} <=> \E d \in HasDay(c) : p \in On(c[d])
      BY ScoreInDays
    <2> HIDE DEF boards
    <2> QED BY <2>1 DEF Entrants
  <1>4. Values(s, N) = Scores(c)
    <2>1. \A k \in 1..N : s[k] = Score(boards, ids[k]) /\ ids[k] \in E
      BY <1>2 DEF Lists
    <2>2. \A p \in E : \E k \in 1..N : ids[k] = p
      BY <1>2 DEF Lists
    <2> HIDE DEF s
    <2> QED BY <2>1, <2>2 DEF Values, Scores
  <1>5. \A j, k \in 1..N : s[j] = s[k] => j = k
    <2> SUFFICES ASSUME NEW j \in 1..N, NEW k \in 1..N, s[j] = s[k] PROVE j = k
      OBVIOUS
    <2>1. ids[j] \in E /\ ids[k] \in E
      BY <1>2 DEF Lists
    <2>2. s[j].participant = ids[j] /\ s[k].participant = ids[k]
      BY <2>1, ScoresAreOrdered
    <2>3. ids[j] = ids[k]
      BY <2>2
    <2> QED BY <1>2, <2>3 DEF Lists
  <1>6. Orders(B, Values(s, N))
    BY <1>4, ScoresAreOrdered
  <1>7. LadderOf(c) = Ladder(boards)
    BY DEF LadderOf, BoardsOf
  <1>8. DOMAIN s = 1..N /\ DOMAIN rows = 1..N
    OBVIOUS
  <1>9. C = Cards(s, N)
    BY DEF Cards
  <1>10. SortBy(s, Ahead) = rows
    <2> HIDE DEF s
    <2> QED BY DEF SortBy, Sorted
  <1>11. Ladder(boards) = PlacedIn(SortBy(s, Ahead), N)
    <2>1. [n \in DOMAIN ids |-> Score(boards, ids[n])] = s
      BY <1>2
    <2>2. DOMAIN SortBy(s, Ahead) = 1..N
      <3> HIDE DEF rows
      <3> QED BY <1>8, <1>10
    <2> HIDE DEF boards, ids, s
    <2> QED BY <1>3, <2>1, <2>2 DEF Ladder, PlacedIn, ids
  <1>12. \A x, y \in C : /\ Ahead(y[1], x[1]) <=> <<y[1], x[1]>> \in B
                         /\ Ahead(x[1], y[1]) <=> <<x[1], y[1]>> \in B
    <2>1. \A x \in C : x[1] \in Scores(c)
      <3> HIDE DEF s, C
      <3> QED BY <1>4, <1>9 DEF Cards, Values
    <2> HIDE DEF s, C
    <2> QED BY <2>1 DEF AheadOf
  <1> HIDE DEF s, B
  <1>13. place = [x \in C |-> Place(C, CardsBefore(s, N, B), x)]
    <2> SUFFICES ASSUME NEW x \in C
                 PROVE  Cardinality({y \in C : y = x \/ Precedes(y, x)})
                          = Place(C, CardsBefore(s, N, B), x)
      OBVIOUS
    <2> DEFINE U == {y \in C : y = x \/ Precedes(y, x)}
    <2>1. \A y \in C : Precedes(y, x) <=> <<y, x>> \in CardsBefore(s, N, B)
      BY <1>9, <1>12 DEF CardsBefore
    <2> HIDE DEF C
    <2>2. U = UpToHere(C, CardsBefore(s, N, B), x)
      BY <2>1 DEF UpToHere
    <2> HIDE DEF U
    <2> QED BY <2>2 DEF Place, U
  <1>14. cards = Ranked(C, CardsBefore(s, N, B))
    <2> HIDE DEF C, place
    <2> QED BY <1>13 DEF Ranked
  <1> HIDE DEF cards, place
  <1>15. rows = [k \in 1..N |-> Ranked(Cards(s, N), CardsBefore(s, N, B))[k][1]]
    BY <1>8, <1>9, <1>14
  <1> HIDE DEF rows
  <1>16. Ascends(rows, N, Values(s, N), B)
    BY <1>2, <1>5, <1>6, <1>15, CardsAscend
  <1>17. LadderOf(c) = PlacedIn(rows, N)
    BY <1>7, <1>10, <1>11
  <1>18. Ascends(rows, N, Scores(c), AheadOf(Scores(c)))
    BY <1>4, <1>16 DEF B
  <1> QED BY <1>2, <1>17, <1>18
LEMMA InitialSegment ==
  ASSUME NEW N \in Nat, NEW E \in SUBSET (1..N),
         \A j, k \in 1..N : j < k /\ k \in E => j \in E
  PROVE  Cardinality(E) \in Nat /\ E = 1..Cardinality(E)
  <1> DEFINE T == (1..(N + 1)) \ E
  <1>1. T \in SUBSET Nat /\ N + 1 \in T
    OBVIOUS
  <1>2. PICK x \in T : \A y \in T : x <= y
    BY <1>1, Least
  <1>3. x \in 1..(N + 1) /\ x \notin E
    BY <1>2
  <1>4. \A k \in 1..N : k < x => k \in E
    BY <1>2
  <1>5. \A k \in E : k < x
    BY <1>3
  <1>6. E = 1..(x - 1)
    <2>1. ASSUME NEW k \in E PROVE k \in 1..(x - 1)
      <3>1. k \in 1..N /\ k < x
        BY <1>5
      <3> QED BY <1>3, <3>1
    <2>2. ASSUME NEW k \in 1..(x - 1) PROVE k \in E
      <3>1. k \in 1..N /\ k < x
        BY <1>3
      <3> QED BY <1>4, <3>1
    <2> QED BY <2>1, <2>2
  <1>7. Cardinality(1..(x - 1)) = x - 1
    BY <1>3, FS_Interval
  <1> QED BY <1>3, <1>6, <1>7

Traders(c) == {p \in Participants : TradedDays(c, p) # {}}

(* A row of the ladder, told from the days.                                *)
RowTold(c, row, n) ==
  LET p == row.participant
  IN  /\ p \in Participants
      /\ row.eligible = (p \in Traders(c))
      /\ row.active_days = Cardinality(TradedDays(c, p))
      /\ row.daily_wins = Cardinality(WonDays(c, p))
      /\ row.points = Sum(PointsOn(c, p), MaxDay)
      /\ p \in Traders(c) <=> n <= Cardinality(Traders(c))
      /\ row.rank = IF n <= Cardinality(Traders(c)) THEN n ELSE None

LEMMA LadderRows ==
  ASSUME NEW c, Sound(c), NEW N, N = Cardinality(Entrants(c)),
         NEW ladder, ladder = LadderOf(c)
  PROVE  /\ N \in Nat /\ DOMAIN ladder = 1..N /\ Len(ladder) = N
         /\ Lists([n \in 1..N |-> ladder[n].participant], N, Entrants(c))
         /\ \A n \in 1..N : RowTold(c, ladder[n], n)
  <1>1. N \in Nat
    BY LadderAscends
  <1>2. PICK rows : /\ Ascends(rows, N, Scores(c), AheadOf(Scores(c)))
                    /\ ladder = PlacedIn(rows, N)
    BY LadderAscends
  <1> DEFINE S == Scores(c)
             pl == [n \in 1..N |-> ladder[n].participant]
             E == {n \in 1..N : rows[n].eligible}
  <1>3. ASSUME NEW p \in Entrants(c)
        PROVE  LET s == Score(BoardsOf(c), p)
               IN  /\ s.participant = p /\ p \in Participants /\ s.rank = None
                   /\ s.eligible = (p \in Traders(c))
                   /\ s.active_days = Cardinality(TradedDays(c, p))
                   /\ s.daily_wins = Cardinality(WonDays(c, p))
                   /\ s.points = Sum(PointsOn(c, p), MaxDay)
                   /\ DOMAIN s = {"rank", "participant", "cumulative_return", "daily_wins",
                                  "active_days", "points", "eligible"}
    <2> DEFINE s == Score(BoardsOf(c), p)
    <2>1. p \in Participants
      BY DEF Entrants
    <2>2. /\ s.participant = p /\ s.rank = None
          /\ s.eligible = (TradedDays(c, p) # {})
          /\ s.active_days = Cardinality(TradedDays(c, p))
          /\ s.daily_wins = Cardinality(WonDays(c, p))
          /\ s.points = Sum(PointsOn(c, p), MaxDay)
      BY <2>1, ScoreInDays
    <2>3. DOMAIN s = {"rank", "participant", "cumulative_return", "daily_wins",
                      "active_days", "points", "eligible"}
      BY DEF Score
    <2>4. (p \in Traders(c)) = (TradedDays(c, p) # {})
      BY <2>1 DEF Traders
    <2> HIDE DEF s
    <2> QED BY <2>1, <2>2, <2>3, <2>4 DEF s
  <1>4. \A n \in 1..N : \E p \in Entrants(c) : rows[n] = Score(BoardsOf(c), p)
    BY <1>2 DEF Ascends, Scores
  <1>5. \A n \in 1..N :
           ladder[n] = IF rows[n].eligible
                       THEN [rows[n] EXCEPT !.rank = Cardinality({m \in 1..n : rows[m].eligible})]
                       ELSE rows[n]
    BY <1>2 DEF PlacedIn
  <1>6. DOMAIN ladder = 1..N /\ ladder = [n \in 1..N |-> ladder[n]]
    BY <1>2 DEF PlacedIn
  <1>7. Len(ladder) = N
    <2> DEFINE V == {ladder[n] : n \in 1..N}
    <2>1. ladder \in [1..N -> V]
      BY <1>6
    <2> HIDE DEF V
    <2> QED BY <1>1, <2>1, SeqDef
  <1>8. ASSUME NEW n \in 1..N
        PROVE  LET p == ladder[n].participant
               IN  /\ p \in Entrants(c) /\ rows[n] = Score(BoardsOf(c), p)
                   /\ ladder[n].eligible = (p \in Traders(c))
                   /\ rows[n].eligible = (p \in Traders(c))
                   /\ ladder[n].active_days = Cardinality(TradedDays(c, p))
                   /\ ladder[n].daily_wins = Cardinality(WonDays(c, p))
                   /\ ladder[n].points = Sum(PointsOn(c, p), MaxDay)
                   /\ ladder[n].rank = IF p \in Traders(c)
                                       THEN Cardinality({m \in 1..n : rows[m].eligible})
                                       ELSE None
    <2>1. PICK p \in Entrants(c) : rows[n] = Score(BoardsOf(c), p)
      BY <1>4
    <2>2. /\ rows[n].participant = p /\ p \in Participants /\ rows[n].rank = None
          /\ rows[n].eligible = (p \in Traders(c))
          /\ rows[n].active_days = Cardinality(TradedDays(c, p))
          /\ rows[n].daily_wins = Cardinality(WonDays(c, p))
          /\ rows[n].points = Sum(PointsOn(c, p), MaxDay)
          /\ DOMAIN rows[n] = {"rank", "participant", "cumulative_return", "daily_wins",
                               "active_days", "points", "eligible"}
      BY <1>3, <2>1
    <2> DEFINE v == Cardinality({m \in 1..n : rows[m].eligible})
    <2>3. ladder[n] = IF rows[n].eligible THEN [rows[n] EXCEPT !.rank = v] ELSE rows[n]
      BY <1>5
    <2> HIDE DEF v
    <2>4. /\ ladder[n].participant = p
          /\ ladder[n].eligible = rows[n].eligible
          /\ ladder[n].active_days = rows[n].active_days
          /\ ladder[n].daily_wins = rows[n].daily_wins
          /\ ladder[n].points = rows[n].points
          /\ ladder[n].rank = IF rows[n].eligible THEN v ELSE None
      BY <2>2, <2>3
    <2> QED BY <2>1, <2>2, <2>4 DEF v
  <1>9. pl \in [1..N -> Entrants(c)]
    BY <1>8
  <1>10. Lists(pl, N, Entrants(c))
    <2>1. Strict(AheadOf(S), S)
      BY ScoresAreOrdered DEF Orders
    <2>2. Lists(rows, N, S)
      BY <1>1, <1>2, <2>1, AscendingLists
    <2>3. ASSUME NEW p \in Entrants(c) PROVE \E n \in 1..N : pl[n] = p
      <3>1. Score(BoardsOf(c), p) \in S
        BY DEF Scores
      <3>2. PICK n \in 1..N : rows[n] = Score(BoardsOf(c), p)
        BY <2>2, <3>1 DEF Lists
      <3>3. rows[n] = Score(BoardsOf(c), pl[n]) /\ pl[n] \in Entrants(c)
        BY <1>8
      <3>4. rows[n].participant = p /\ rows[n].participant = pl[n]
        BY <1>3, <3>2, <3>3
      <3> QED BY <3>4
    <2>4. \A j, k \in 1..N : pl[j] = pl[k] => j = k
      <3>1. \A j \in 1..N : rows[j] = Score(BoardsOf(c), pl[j])
        BY <1>8
      <3> HIDE DEF pl
      <3> QED BY <2>2, <3>1 DEF Lists
    <2> HIDE DEF pl
    <2> QED BY <1>9, <2>3, <2>4 DEF Lists
  <1>11. E = {n \in 1..N : pl[n] \in Traders(c)}
    BY <1>8
  <1>12. Cardinality(E) = Cardinality(Traders(c))
    <2>1. Traders(c) \in SUBSET Entrants(c)
      BY DEF Traders, Entrants, TradedDays
    <2> HIDE DEF E, pl
    <2>2. /\ IsFiniteSet(Traders(c))
          /\ Cardinality({n \in 1..N : pl[n] \in Traders(c)}) = Cardinality(Traders(c))
          /\ {n \in 1..N : pl[n] \in Traders(c)} = {} <=> Traders(c) = {}
      BY <1>1, <1>10, <2>1, ListedPart
    <2> QED BY <1>11, <2>2
  <1>13. ASSUME NEW j \in 1..N, NEW k \in 1..N, j < k, k \in E PROVE j \in E
    <2>1. Ahead(rows[j], rows[k])
      BY <1>2, <1>13 DEF Ascends, AheadOf
    <2>2. rows[k].eligible
      BY <1>13
    <2>3. rows[j].eligible
      BY <2>1, <2>2 DEF Ahead
    <2> QED BY <2>3
  <1>14. Cardinality(E) \in Nat /\ E = 1..Cardinality(E)
    <2>1. E \in SUBSET (1..N)
      OBVIOUS
    <2> HIDE DEF E
    <2> QED BY <1>1, <1>13, <2>1, InitialSegment
  <1> DEFINE K == Cardinality(Traders(c))
  <1>15. K \in Nat /\ E = 1..K
    BY <1>12, <1>14
  <1> HIDE DEF K
  <1>16. ASSUME NEW n \in 1..N PROVE RowTold(c, ladder[n], n)
    <2> DEFINE p == ladder[n].participant
               v == Cardinality({m \in 1..n : rows[m].eligible})
    <2>1. p \in Traders(c) <=> n <= K
      <3>1. n \in E <=> n \in 1..K
        BY <1>15
      <3>2. n \in E <=> p \in Traders(c)
        BY <1>11
      <3> HIDE DEF p
      <3> QED BY <1>1, <1>15, <3>1, <3>2
    <2>2. n <= K => v = n
      <3> SUFFICES ASSUME n <= K PROVE v = n
        OBVIOUS
      <3>1. \A m \in 1..n : m \in E
        BY <1>1, <1>15
      <3>2. {m \in 1..n : rows[m].eligible} = 1..n
        BY <3>1
      <3>3. Cardinality(1..n) = n
        BY <1>1, FS_Interval
      <3> QED BY <3>2, <3>3
    <2> HIDE DEF v
    <2>3. /\ p \in Entrants(c)
          /\ ladder[n].eligible = (p \in Traders(c))
          /\ ladder[n].active_days = Cardinality(TradedDays(c, p))
          /\ ladder[n].daily_wins = Cardinality(WonDays(c, p))
          /\ ladder[n].points = Sum(PointsOn(c, p), MaxDay)
          /\ ladder[n].rank = IF p \in Traders(c) THEN v ELSE None
      BY <1>8 DEF v
    <2>4. p \in Participants
      BY <2>3 DEF Entrants
    <2> QED BY <2>1, <2>2, <2>3, <2>4 DEF RowTold, K
  <1> QED BY <1>1, <1>6, <1>7, <1>10, <1>16
-----------------------------------------------------------------------------
(***************************************************************************)
(* What a day gives out, over everybody: one win and its places' points.   *)
(***************************************************************************)
LEMMA OneWinner ==
  ASSUME NEW c, Sound(c), NEW N \in Nat, NEW pl, Lists(pl, N, Entrants(c)),
         NEW d \in HasDay(c),
         NEW g, g = [n \in 1..N |-> IF d \in WonDays(c, pl[n]) THEN 1 ELSE 0]
  PROVE  Sum(g, N) = 1
  <1> DEFINE board == LeaderboardOf(c, d)
             S == On(c[d])
             m == Cardinality(S)
  <1>1. Ranking(c[d]) /\ board = Leaderboard(InputRows(c[d]))
    BY DEF Sound, LeaderboardOf
  <1> HIDE DEF board
  <1>2. /\ m \in Nat
        /\ \A p \in S : RankIn(board, p) \in 1..m
        /\ \A p \in S : board[RankIn(board, p)] = ResultOf(c[d], p)
        /\ \A k \in 1..m : /\ board[k].participant \in S
                           /\ RankIn(board, board[k].participant) = k
    BY <1>1, PlaceOnBoard
  <1>3. \A p \in S : ResultOf(c[d], p).participant = p
    BY <1>1, ResultFacts
  <1>4. S # {} /\ S \subseteq Entrants(c)
    BY <1>1 DEF Ranking, Entrants, On
  <1>5. \A p : d \in WonDays(c, p) <=> p \in S /\ RankIn(board, p) = 1
    BY DEF WonDays, PlaceOn, board
  <1> HIDE DEF m, S
  <1>6. 1 \in 1..m
    BY <1>2, <1>4
  <1> DEFINE first == board[1].participant
  <1>7. first \in S /\ d \in WonDays(c, first)
    BY <1>2, <1>5, <1>6
  <1>8. \A p : d \in WonDays(c, p) => p = first
    BY <1>2, <1>3, <1>5
  <1> HIDE DEF first
  <1>9. PICK i \in 1..N : pl[i] = first
    BY <1>4, <1>7 DEF Lists
  <1>10. \A k \in 1..N : k # i => pl[k] # first
    BY <1>9 DEF Lists
  <1>11. g \in [1..N -> Int] /\ g[i] = 1 /\ \A k \in 1..N : k # i => g[k] = 0
    BY <1>7, <1>8, <1>9, <1>10
  <1>12. Sum(g, N) = g[i]
    BY <1>11, SumOfOneTerm
  <1> QED BY <1>11, <1>12

LEMMA WinsAddUp ==
  ASSUME NEW c, Sound(c), NEW N \in Nat, NEW pl, Lists(pl, N, Entrants(c)),
         NEW wins, wins = [n \in 1..N |-> Cardinality(WonDays(c, pl[n]))]
  PROVE  Sum(wins, N) = Cardinality(HasDay(c))
  <1> DEFINE f == [n \in 1..N |-> [d \in 1..MaxDay |-> IF d \in WonDays(c, pl[n]) THEN 1 ELSE 0]]
             column(d) == [n \in 1..N |-> f[n][d]]
             one == [d \in 1..MaxDay |-> IF d \in HasDay(c) THEN 1 ELSE 0]
  <1>1. MaxDay \in Nat /\ HasDay(c) \in SUBSET (1..MaxDay)
    BY KeysAssumption DEF HasDay, Days
  <1>2. \A p : WonDays(c, p) \in SUBSET HasDay(c)
    BY DEF WonDays
  <1>3. f \in [1..N -> [1..MaxDay -> Int]]
    OBVIOUS
  <1>4. wins = [n \in 1..N |-> Sum(f[n], MaxDay)]
    <2> SUFFICES ASSUME NEW n \in 1..N
                 PROVE  Sum(f[n], MaxDay) = Cardinality(WonDays(c, pl[n]))
      OBVIOUS
    <2>1. f[n] = [d \in 1..MaxDay |-> IF d \in WonDays(c, pl[n]) THEN 1 ELSE 0]
      OBVIOUS
    <2>2. WonDays(c, pl[n]) \in SUBSET (1..MaxDay)
      BY <1>1, <1>2
    <2> HIDE DEF f
    <2> QED BY <1>1, <2>1, <2>2, CountIsASum
  <1>5. ASSUME NEW d \in 1..MaxDay PROVE Sum(column(d), N) = one[d]
    <2>1. column(d) = [n \in 1..N |-> IF d \in WonDays(c, pl[n]) THEN 1 ELSE 0]
      OBVIOUS
    <2> HIDE DEF column
    <2>2. CASE d \in HasDay(c)
      <3>1. Sum(column(d), N) = 1
        BY <2>1, <2>2, OneWinner
      <3> QED BY <2>2, <3>1
    <2>3. CASE d \notin HasDay(c)
      <3>1. column(d) \in [1..N -> Int] /\ \A n \in 1..N : column(d)[n] = 0
        BY <1>2, <2>1, <2>3
      <3>2. Sum(column(d), N) = 0
        BY <3>1, SumOfZeros
      <3> QED BY <2>3, <3>2
    <2> QED BY <2>2, <2>3
  <1>6. Sum(one, MaxDay) = Cardinality(HasDay(c))
    BY <1>1, CountIsASum
  <1>7. [d \in 1..MaxDay |-> Sum(column(d), N)] = one
    <2> HIDE DEF column
    <2> QED BY <1>5
  <1> HIDE DEF f
  <1>8. Sum([n \in 1..N |-> Sum(f[n], MaxDay)], N)
          = Sum([d \in 1..MaxDay |-> Sum(column(d), N)], MaxDay)
    BY <1>1, <1>3, SumsSwap
  <1> HIDE DEF column, one
  <1> QED BY <1>4, <1>6, <1>7, <1>8

GivenFor(count) ==
  Sum([k \in 1..Len(POINTS) |-> IF k <= count THEN POINTS[k] ELSE 0], Len(POINTS))

LEMMA PointsOfADay ==
  ASSUME NEW c, Sound(c), NEW N \in Nat, NEW pl, Lists(pl, N, Entrants(c)),
         NEW d \in HasDay(c),
         NEW g, g = [n \in 1..N |-> PointsOn(c, pl[n])[d]]
  PROVE  Sum(g, N) = GivenFor(Cardinality(On(c[d])))
  <1> DEFINE board == LeaderboardOf(c, d)
             S == On(c[d])
             m == Cardinality(S)
             h == [k \in 1..10 |-> IF k <= m THEN POINTS[k] ELSE 0]
             R == {z \in (1..N) \X (1..10) :
                     pl[z[1]] \in S /\ RankIn(board, pl[z[1]]) = z[2]}
  <1>1. Ranking(c[d]) /\ board = Leaderboard(InputRows(c[d]))
    BY DEF Sound, LeaderboardOf
  <1>2. d \in Days
    BY DEF HasDay
  <1>3. \A n \in 1..N : g[n] = IF pl[n] \in S THEN PointsFor(RankIn(board, pl[n])) ELSE 0
    BY <1>2 DEF PointsOn, PlaceOn
  <1> HIDE DEF board
  <1>4. /\ m \in Nat
        /\ \A p \in S : RankIn(board, p) \in 1..m
        /\ \A p \in S : board[RankIn(board, p)] = ResultOf(c[d], p)
        /\ \A k \in 1..m : /\ board[k].participant \in S
                           /\ RankIn(board, board[k].participant) = k
    BY <1>1, PlaceOnBoard
  <1>5. \A p \in S : ResultOf(c[d], p).participant = p
    BY <1>1, ResultFacts
  <1>6. \A p, q \in S : RankIn(board, p) = RankIn(board, q) => p = q
    BY <1>4, <1>5
  <1>7. S \subseteq Entrants(c)
    BY DEF Entrants, On
  <1>8. Len(POINTS) = 10 /\ DOMAIN POINTS = 1..10 /\ \A k \in 1..10 : POINTS[k] \in Int
    BY DEF POINTS
  <1>9. h \in [1..10 -> Int] /\ \A k \in 1..10 : h[k] = IF k <= m THEN POINTS[k] ELSE 0
    BY <1>8
  <1>10. GivenFor(m) = Sum(h, 10)
    BY <1>8 DEF GivenFor
  <1> HIDE DEF h, m, S
  <1>11. g \in [1..N -> Int]
    BY <1>3, PointsTyped
  <1>12. \A n \in 1..N, k \in 1..10 :
            <<n, k>> \in R <=> pl[n] \in S /\ RankIn(board, pl[n]) = k
    OBVIOUS
  <1> HIDE DEF R
  <1>13. \A n \in 1..N, k \in 1..10 : <<n, k>> \in R => g[n] = h[k]
    <2> SUFFICES ASSUME NEW n \in 1..N, NEW k \in 1..10, <<n, k>> \in R PROVE g[n] = h[k]
      OBVIOUS
    <2>1. pl[n] \in S /\ RankIn(board, pl[n]) = k
      BY <1>12
    <2>2. g[n] = PointsFor(k) /\ k <= m
      BY <1>3, <1>4, <2>1
    <2>3. PointsFor(k) = POINTS[k]
      BY <1>8 DEF PointsFor
    <2> QED BY <1>9, <2>2, <2>3
  <1>14. \A n \in 1..N : g[n] # 0 => \E k \in 1..10 : <<n, k>> \in R
    <2> SUFFICES ASSUME NEW n \in 1..N, g[n] # 0 PROVE \E k \in 1..10 : <<n, k>> \in R
      OBVIOUS
    <2>1. pl[n] \in S /\ RankIn(board, pl[n]) \in 1..10
      BY <1>3, PointsTyped
    <2> QED BY <1>12, <2>1
  <1>15. \A k \in 1..10 : h[k] # 0 => \E n \in 1..N : <<n, k>> \in R
    <2> SUFFICES ASSUME NEW k \in 1..10, h[k] # 0 PROVE \E n \in 1..N : <<n, k>> \in R
      OBVIOUS
    <2>1. k \in 1..m
      <3>1. k <= m
        BY <1>9
      <3>2. m \in Nat
        BY <1>4
      <3> QED BY <3>1, <3>2
    <2>2. board[k].participant \in S /\ RankIn(board, board[k].participant) = k
      BY <1>4, <2>1
    <2>3. PICK n \in 1..N : pl[n] = board[k].participant
      BY <1>7, <2>2 DEF Lists
    <2> QED BY <1>12, <2>2, <2>3
  <1>16. \A n \in 1..N : \A k, l \in 1..10 : <<n, k>> \in R /\ <<n, l>> \in R => k = l
    BY <1>12
  <1>17. \A k \in 1..10 : \A n, i \in 1..N : <<n, k>> \in R /\ <<i, k>> \in R => n = i
    <2> SUFFICES ASSUME NEW k \in 1..10, NEW n \in 1..N, NEW i \in 1..N,
                        <<n, k>> \in R, <<i, k>> \in R
                 PROVE  n = i
      OBVIOUS
    <2>1. pl[n] \in S /\ pl[i] \in S /\ RankIn(board, pl[n]) = RankIn(board, pl[i])
      BY <1>12
    <2>2. pl[n] = pl[i]
      BY <1>6, <2>1
    <2> QED BY <2>2 DEF Lists
  <1>18. PairsOff(R, g, N, h, 10)
    BY <1>13, <1>14, <1>15, <1>16, <1>17 DEF PairsOff
  <1>19. Sum(g, N) = Sum(h, 10)
    BY <1>9, <1>11, <1>18, SumsOfTheSame
  <1> QED BY <1>10, <1>19 DEF m, S

LEMMA PointsAddUp ==
  ASSUME NEW c, Sound(c), NEW N \in Nat, NEW pl, Lists(pl, N, Entrants(c)),
         NEW points, points = [n \in 1..N |-> Sum(PointsOn(c, pl[n]), MaxDay)]
  PROVE  Sum(points, N)
           = Sum([d \in Days |-> IF d \in HasDay(c) THEN GivenFor(Cardinality(On(c[d]))) ELSE 0],
                 MaxDay)
  <1> DEFINE f == [n \in 1..N |-> PointsOn(c, pl[n])]
             column(d) == [n \in 1..N |-> f[n][d]]
             given == [d \in Days |-> IF d \in HasDay(c) THEN GivenFor(Cardinality(On(c[d]))) ELSE 0]
  <1>1. MaxDay \in Nat /\ Days = 1..MaxDay
    BY KeysAssumption DEF Days
  <1>2. f \in [1..N -> [1..MaxDay -> Int]]
    BY PointsOnTyped
  <1>3. points = [n \in 1..N |-> Sum(f[n], MaxDay)]
    OBVIOUS
  <1>4. ASSUME NEW d \in 1..MaxDay PROVE Sum(column(d), N) = given[d]
    <2>1. column(d) = [n \in 1..N |-> PointsOn(c, pl[n])[d]]
      OBVIOUS
    <2> HIDE DEF column
    <2>2. CASE d \in HasDay(c)
      <3>1. Sum(column(d), N) = GivenFor(Cardinality(On(c[d])))
        BY <2>1, <2>2, PointsOfADay
      <3> QED BY <1>1, <2>2, <3>1
    <2>3. CASE d \notin HasDay(c)
      <3>1. column(d) \in [1..N -> Int] /\ \A n \in 1..N : column(d)[n] = 0
        BY <1>1, <2>1, <2>3 DEF PointsOn
      <3>2. Sum(column(d), N) = 0
        BY <3>1, SumOfZeros
      <3> QED BY <1>1, <2>3, <3>2
    <2> QED BY <2>2, <2>3
  <1>5. [d \in 1..MaxDay |-> Sum(column(d), N)] = given
    <2>1. given = [d \in 1..MaxDay |-> given[d]]
      BY <1>1
    <2> HIDE DEF column, given
    <2> QED BY <1>4, <2>1
  <1> HIDE DEF f
  <1>6. Sum([n \in 1..N |-> Sum(f[n], MaxDay)], N)
          = Sum([d \in 1..MaxDay |-> Sum(column(d), N)], MaxDay)
    BY <1>1, <1>2, SumsSwap
  <1> HIDE DEF column
  <1> QED BY <1>3, <1>5, <1>6

LEMMA PrizesDue ==
  ASSUME SeasonInv
  PROVE  PrizesAreDue
  <1> DEFINE c == closed
             ladder == LadderOf(c)
             N == Cardinality(Entrants(c))
             pl == [n \in 1..N |-> ladder[n].participant]
             traded(p) == \E d \in Published : Fact(d, p) # None /\ Fact(d, p).active
             traders == {p \in Participants : traded(p)}
  <1>1. Sound(c) /\ HasDay(c) = Published
    BY DEF SeasonInv, Sound, HasDay, Published
  <1>2. /\ N \in Nat /\ DOMAIN ladder = 1..N /\ Len(ladder) = N
        /\ Lists(pl, N, Entrants(c))
        /\ \A n \in 1..N : RowTold(c, ladder[n], n)
    BY <1>1, LadderRows
  <1>3. \A p \in Participants : traded(p) <=> p \in Traders(c)
    BY <1>1 DEF Traders, TradedDays, On, Fact
  <1>4. traders = Traders(c)
    <2> HIDE DEF traded
    <2> QED BY <1>3 DEF Traders
  <1>5. PlacesGoToTraders
    <2>1. \A n \in DOMAIN ladder :
             /\ ladder[n].rank = (IF n <= Cardinality(traders) THEN n ELSE None)
             /\ traded(ladder[n].participant) <=> n <= Cardinality(traders)
      <3> HIDE DEF ladder, N, pl, traded, traders
      <3> QED BY <1>2, <1>3, <1>4 DEF RowTold
    <2> QED BY <2>1 DEF PlacesGoToTraders
  <1>6. WinsAndPointsAddUp
    <2> DEFINE wins == [n \in DOMAIN ladder |-> ladder[n].daily_wins]
               points == [n \in DOMAIN ladder |-> ladder[n].points]
               given(d) == IF d \in Published
                           THEN Sum([k \in 1..Len(POINTS) |->
                                      IF k <= Cardinality(Present(d)) THEN POINTS[k] ELSE 0],
                                    Len(POINTS))
                           ELSE 0
    <2>1. wins = [n \in 1..N |-> Cardinality(WonDays(c, pl[n]))]
      <3> HIDE DEF ladder, N
      <3> QED BY <1>2 DEF RowTold
    <2>2. points = [n \in 1..N |-> Sum(PointsOn(c, pl[n]), MaxDay)]
      <3> HIDE DEF ladder, N
      <3> QED BY <1>2 DEF RowTold
    <2>3. [d \in Days |-> given(d)]
            = [d \in Days |-> IF d \in HasDay(c) THEN GivenFor(Cardinality(On(c[d]))) ELSE 0]
      <3>1. \A d \in Days : Present(d) = On(c[d])
        BY DEF Present, On
      <3> QED BY <1>1, <3>1 DEF GivenFor
    <2> HIDE DEF ladder, N, pl, wins, points, given
    <2>4. Sum(wins, N) = Cardinality(Published)
      BY <1>1, <1>2, <2>1, WinsAddUp
    <2>5. Sum(points, N) = Sum([d \in Days |-> given(d)], MaxDay)
      BY <1>1, <1>2, <2>2, <2>3, PointsAddUp
    <2>6. Sum(wins, Len(ladder)) = Cardinality(Published)
          /\ Sum(points, Len(ladder)) = Sum([d \in Days |-> given(d)], MaxDay)
      BY <1>2, <2>4, <2>5
    <2> QED BY <2>6 DEF WinsAndPointsAddUp, wins, points, given, ladder
  <1> QED BY <1>5, <1>6 DEF PrizesAreDue

(* Whatever the engine publishes, the ladder places exactly those who ever *)
(* traded, from 1 without a gap and before all others; each day has one    *)
(* winner, and the points of its places are given out once.                *)
THEOREM PrizesAreAlwaysDue == Allowed => []PrizesAreDue
  <1>1. SeasonInv => PrizesAreDue
    BY PrizesDue
  <1> QED BY <1>1, SeasonInvariant, PTL
-----------------------------------------------------------------------------
(***************************************************************************)
(* A close leaves the days before it as they were.                         *)
(***************************************************************************)
LEMMA LaterLadder ==
  ASSUME NEW c, Sound(c), NEW e, Sound(e),
         HasDay(c) \subseteq HasDay(e), \A d \in HasDay(c) : e[d] = c[d],
         NEW x \in Rows(LadderOf(c))
  PROVE  \E y \in Rows(LadderOf(e)) :
           /\ y.participant = x.participant
           /\ x.eligible => y.eligible
           /\ y.daily_wins >= x.daily_wins
           /\ y.active_days >= x.active_days
           /\ y.points >= x.points
  <1> DEFINE N == Cardinality(Entrants(c))
             M == Cardinality(Entrants(e))
             now == LadderOf(c)
             then == LadderOf(e)
             pl == [n \in 1..N |-> now[n].participant]
             ql == [n \in 1..M |-> then[n].participant]
  <1>1. /\ DOMAIN now = 1..N /\ Lists(pl, N, Entrants(c))
        /\ \A n \in 1..N : RowTold(c, now[n], n)
    BY LadderRows
  <1>2. /\ DOMAIN then = 1..M /\ Lists(ql, M, Entrants(e))
        /\ \A n \in 1..M : RowTold(e, then[n], n)
    BY LadderRows
  <1> HIDE DEF now, then, N, M
  <1>3. PICK n \in 1..N : x = now[n]
    BY <1>1 DEF Rows, now
  <1> DEFINE p == x.participant
  <1>4. p \in Entrants(c)
    BY <1>1, <1>3 DEF Lists
  <1>5. p \in Entrants(e) /\ p \in Participants
    BY <1>4 DEF Entrants
  <1>6. PICK k \in 1..M : then[k].participant = p
    <2> HIDE DEF p
    <2>1. PICK k \in 1..M : ql[k] = p
      BY <1>2, <1>5 DEF Lists
    <2> QED BY <2>1
  <1> DEFINE y == then[k]
  <1>7. /\ x.eligible = (p \in Traders(c))
        /\ x.active_days = Cardinality(TradedDays(c, p))
        /\ x.daily_wins = Cardinality(WonDays(c, p))
        /\ x.points = Sum(PointsOn(c, p), MaxDay)
    BY <1>1, <1>3 DEF RowTold
  <1>8. /\ y.participant = p
        /\ y.eligible = (p \in Traders(e))
        /\ y.active_days = Cardinality(TradedDays(e, p))
        /\ y.daily_wins = Cardinality(WonDays(e, p))
        /\ y.points = Sum(PointsOn(e, p), MaxDay)
    BY <1>2, <1>6 DEF RowTold
  <1>9. y \in Rows(LadderOf(e))
    BY <1>2 DEF Rows, then
  <1> HIDE DEF p, y
  <1>10. \A d \in HasDay(c) : d \in HasDay(e) /\ PlaceOn(e, d, p) = PlaceOn(c, d, p)
    BY DEF PlaceOn, LeaderboardOf
  <1>11. TradedDays(c, p) \subseteq TradedDays(e, p)
    BY DEF TradedDays
  <1>12. WonDays(c, p) \subseteq WonDays(e, p)
    BY <1>10 DEF WonDays
  <1>13. /\ IsFiniteSet(HasDay(e))
         /\ IsFiniteSet(TradedDays(e, p)) /\ IsFiniteSet(WonDays(e, p))
    <2>1. HasDay(e) \in SUBSET (1..MaxDay)
      BY DEF HasDay, Days
    <2>2. IsFiniteSet(1..MaxDay)
      BY FS_Interval, KeysAssumption
    <2>3. IsFiniteSet(HasDay(e))
      BY <2>1, <2>2, FS_Subset
    <2>4. TradedDays(e, p) \in SUBSET HasDay(e) /\ WonDays(e, p) \in SUBSET HasDay(e)
      BY DEF TradedDays, WonDays
    <2> QED BY <2>3, <2>4, FS_Subset
  <1>14. /\ Cardinality(TradedDays(c, p)) <= Cardinality(TradedDays(e, p))
         /\ Cardinality(TradedDays(c, p)) \in Nat /\ Cardinality(TradedDays(e, p)) \in Nat
    BY <1>11, <1>13, FS_Subset, FS_CardinalityType
  <1>15. /\ Cardinality(WonDays(c, p)) <= Cardinality(WonDays(e, p))
         /\ Cardinality(WonDays(c, p)) \in Nat /\ Cardinality(WonDays(e, p)) \in Nat
    BY <1>12, <1>13, FS_Subset, FS_CardinalityType
  <1>16. Sum(PointsOn(c, p), MaxDay) <= Sum(PointsOn(e, p), MaxDay)
    <2> DEFINE f == PointsOn(c, p)
               g == PointsOn(e, p)
    <2>1. f \in [1..MaxDay -> Nat] /\ g \in [1..MaxDay -> Nat] /\ MaxDay \in Nat
      BY PointsOnTyped
    <2>2. \A d \in 1..MaxDay : f[d] <= g[d]
      <3> SUFFICES ASSUME NEW d \in 1..MaxDay PROVE f[d] <= g[d]
        OBVIOUS
      <3>1. d \in Days
        BY DEF Days
      <3>2. CASE d \in HasDay(c)
        <4>1. f[d] = g[d]
          BY <1>10, <3>1, <3>2 DEF PointsOn
        <4> HIDE DEF f, g
        <4> QED BY <2>1, <4>1
      <3>3. CASE d \notin HasDay(c)
        <4>1. f[d] = 0
          BY <3>1, <3>3 DEF PointsOn
        <4> HIDE DEF f, g
        <4> QED BY <2>1, <4>1
      <3> QED BY <3>2, <3>3
    <2> HIDE DEF f, g
    <2>3. f \in [1..MaxDay -> Int] /\ g \in [1..MaxDay -> Int]
      BY <2>1
    <2>4. Sum(f, MaxDay) <= Sum(g, MaxDay)
      BY <2>1, <2>2, <2>3, SumGrows
    <2> QED BY <2>4 DEF f, g
  <1>17. Sum(PointsOn(c, p), MaxDay) \in Int /\ Sum(PointsOn(e, p), MaxDay) \in Int
    <2>1. /\ PointsOn(c, p) \in [1..MaxDay -> Int] /\ PointsOn(e, p) \in [1..MaxDay -> Int]
          /\ MaxDay \in Nat
      BY PointsOnTyped
    <2> QED BY <2>1, SumTyped
  <1>18. x.eligible => y.eligible
    BY <1>7, <1>8, <1>11 DEF Traders
  <1>19. /\ y.daily_wins >= x.daily_wins
         /\ y.active_days >= x.active_days
         /\ y.points >= x.points
    BY <1>7, <1>8, <1>14, <1>15, <1>16, <1>17
  <1> QED BY <1>8, <1>9, <1>18, <1>19 DEF p

(* Whatever the engine publishes next, nobody loses their eligibility, a   *)
(* win, an active day or a point.                                          *)
THEOREM StandingIsAlwaysKept == Allowed => StandingIsKept
  <1> DEFINE Closes == \E d \in Days : closed'[d] # None /\ Publish(d, closed'[d])
             Keeps == \A later \in {Rows(LadderOf(closed'))} :
                        \A x \in Rows(LadderOf(closed)) : \E y \in later :
                          /\ y.participant = x.participant
                          /\ x.eligible => y.eligible
                          /\ y.daily_wins >= x.daily_wins
                          /\ y.active_days >= x.active_days
                          /\ y.points >= x.points
  <1>1. SeasonInv /\ [Closes]_closed => [Keeps]_closed
    <2> SUFFICES ASSUME SeasonInv, Closes PROVE Keeps
      OBVIOUS
    <2>1. PICK d \in Days : closed'[d] # None /\ Publish(d, closed'[d])
      OBVIOUS
    <2>2. SeasonInv'
      BY <2>1, PublishKeepsRanking
    <2>3. \A k \in HasDay(closed) : k \in Days /\ k # d
      BY <2>1 DEF Publish, HasDay, Days
    <2>4. \A k \in Days : k # d => closed'[k] = closed[k]
      BY <2>1 DEF Publish, SeasonInv
    <2>5. /\ HasDay(closed) \subseteq HasDay(closed')
          /\ \A k \in HasDay(closed) : closed'[k] = closed[k]
      BY <2>3, <2>4 DEF HasDay
    <2>6. Sound(closed) /\ Sound(closed')
      BY <2>2 DEF SeasonInv, Sound, HasDay, Published
    <2> SUFFICES ASSUME NEW x \in Rows(LadderOf(closed))
                 PROVE  \E y \in Rows(LadderOf(closed')) :
                          /\ y.participant = x.participant
                          /\ x.eligible => y.eligible
                          /\ y.daily_wins >= x.daily_wins
                          /\ y.active_days >= x.active_days
                          /\ y.points >= x.points
      OBVIOUS
    <2> QED BY <2>5, <2>6, LaterLadder
  <1>2. [][Keeps]_closed => StandingIsKept
    BY DEF StandingIsKept
  <1> QED BY <1>1, <1>2, SeasonInvariant, PTL DEF Allowed
=============================================================================
