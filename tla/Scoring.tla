------------------------------- MODULE Scoring ------------------------------
(***************************************************************************)
(* Daily results, the leaderboard and the ladder (scoring/src/lib.rs).  A  *)
(* return is a whole number of 1/ReturnUnit; the code's unit is 10^10.     *)
(* The 28 digits of a Decimal are taken as exact before the code rounds.   *)
(***************************************************************************)
EXTENDS World, Sorting

CONSTANT ReturnUnit

ASSUME ReturnUnitAssumption == ReturnUnit \in Nat \ {0}

(* round_dp: the nearest whole number to a / b, a tie to the even one.     *)
Rounded(a, b) ==
  LET q == a \div b
      r == a % b
  IN  IF 2 * r < b \/ (2 * r = b /\ q % 2 = 0) THEN q ELSE q + 1

Return(pnl, base) == IF base <= 0 THEN 0 ELSE Rounded(pnl * ReturnUnit, base)

DailyResult(row) ==
  LET gain == row.closing_value - row.prior_closing_value
      pnl  == IF Fits(gain) THEN gain ELSE 0
  IN  [participant |-> row.participant, closing_value |-> row.closing_value,
       daily_pnl |-> pnl, daily_return |-> Return(pnl, row.prior_closing_value),
       turnover |-> row.turnover, active |-> row.active,
       bust |-> row.prior_closing_value <= 0]

-----------------------------------------------------------------------------
(* Mutant: the day is ranked on money made.                                *)
BeforeOnPnl(a, b) ==
  \/ a.daily_pnl > b.daily_pnl
  \/ a.daily_pnl = b.daily_pnl /\ a.turnover < b.turnover
  \/ a.daily_pnl = b.daily_pnl /\ a.turnover = b.turnover /\ a.participant < b.participant

(* Mutant: equal returns on equal turnover stay in the order they came in. *)
BeforeUntilTied(a, b) ==
  \/ a.daily_return > b.daily_return
  \/ a.daily_return = b.daily_return /\ a.turnover < b.turnover

Before(a, b) ==
  \/ a.daily_return > b.daily_return
  \/ a.daily_return = b.daily_return /\ a.turnover < b.turnover
  \/ /\ a.daily_return = b.daily_return /\ a.turnover = b.turnover
     /\ a.participant < b.participant

(* The rows of a leaderboard, the first of them ranked 1.                  *)
Leaderboard(rows) == SortBy([n \in DOMAIN rows |-> DailyResult(rows[n])], Before)

-----------------------------------------------------------------------------
POINTS == <<25, 18, 15, 12, 10, 8, 6, 4, 2, 1>>

(* Mutant: ranks are taken for places in the array.                        *)
PointsFromZero(rank) == IF rank + 1 \in DOMAIN POINTS THEN POINTS[rank + 1] ELSE 0

PointsFor(rank) == IF rank \in DOMAIN POINTS THEN POINTS[rank] ELSE 0

RanksIn(board, p) == {n \in DOMAIN board : board[n].participant = p}
RankIn(board, p) == CHOOSE n \in RanksIn(board, p) : TRUE
DaysOf(boards, p) == {d \in DOMAIN boards : RanksIn(boards[d], p) # {}}
ReturnOn(boards, p, d) ==
  IF d \in DaysOf(boards, p) THEN boards[d][RankIn(boards[d], p)].daily_return ELSE 0

(* Mutant: the ladder sums the daily returns.                              *)
GrowthAdds(boards, p) ==
  ReturnUnit ^ Len(boards)
    + Sum([d \in 1..Len(boards) |-> ReturnOn(boards, p, d)], Len(boards))
        * ReturnUnit ^ (Len(boards) - 1)

(* The product of 1 + r over the boards, in parts of a whole.              *)
Growth(boards, p) ==
  Product([d \in 1..Len(boards) |-> ReturnUnit + ReturnOn(boards, p, d)], Len(boards))
Whole(boards) == Product([d \in 1..Len(boards) |-> ReturnUnit], Len(boards))

(* Mutant: only the latest board's activity counts.                        *)
ActiveLately(boards, p) ==
  {d \in DaysOf(boards, p) : d = Len(boards) /\ boards[d][RankIn(boards[d], p)].active}

ActiveDays(boards, p) ==
  {d \in DaysOf(boards, p) : boards[d][RankIn(boards[d], p)].active}

Score(boards, p) ==
  LET whole == Whole(boards)
      points(d) == IF d \in DaysOf(boards, p) THEN PointsFor(RankIn(boards[d], p)) ELSE 0
  IN  [rank              |-> None,
       participant       |-> p,
       cumulative_return |-> Rounded((Growth(boards, p) - whole) * ReturnUnit, whole),
       daily_wins        |-> Cardinality({d \in DaysOf(boards, p) : RankIn(boards[d], p) = 1}),
       active_days       |-> Cardinality(ActiveDays(boards, p)),
       points            |-> Sum([d \in 1..Len(boards) |-> points(d)], Len(boards)),
       eligible          |-> ActiveDays(boards, p) # {}]

AheadOnScore(x, y) ==
  \/ x.cumulative_return > y.cumulative_return
  \/ /\ x.cumulative_return = y.cumulative_return
     /\ \/ x.daily_wins > y.daily_wins
        \/ x.daily_wins = y.daily_wins /\ x.active_days > y.active_days
        \/ /\ x.daily_wins = y.daily_wins /\ x.active_days = y.active_days
           /\ x.participant < y.participant

Ahead(x, y) ==
  \/ x.eligible /\ ~ y.eligible
  \/ x.eligible = y.eligible /\ AheadOnScore(x, y)

(* Every participant of any board, the eligible ones first and placed.     *)
Ladder(boards) ==
  LET ids  == InOrder({p \in Participants : DaysOf(boards, p) # {}})
      rows == SortBy([n \in DOMAIN ids |-> Score(boards, ids[n])], Ahead)
      placed(n) == {m \in 1..n : rows[m].eligible}
  IN  [n \in DOMAIN rows |->
         IF rows[n].eligible THEN [rows[n] EXCEPT !.rank = Cardinality(placed(n))]
         ELSE rows[n]]

-----------------------------------------------------------------------------
(***************************************************************************)
(* Engine::leaderboard and Engine::ladder, recomputed at each request from *)
(* the closed days.                                                        *)
(***************************************************************************)
InputRow(p, entry) ==
  [participant |-> p, closing_value |-> entry.closing_value,
   prior_closing_value |-> entry.prior_closing_value,
   turnover |-> entry.turnover, active |-> entry.active]

InputRows(entries) ==
  LET ids == InOrder({p \in Participants : entries[p] # None})
  IN  [n \in DOMAIN ids |-> InputRow(ids[n], entries[ids[n]])]

LeaderboardOf(closed, d) == Leaderboard(InputRows(closed[d]))

ClosedDays(closed) == InOrder({d \in Days : closed[d] # None})

LadderOf(closed) ==
  LET days == ClosedDays(closed)
  IN  Ladder(Listed([n \in DOMAIN days |-> LeaderboardOf(closed, days[n])]))
=============================================================================
