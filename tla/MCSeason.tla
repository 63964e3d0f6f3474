------------------------------- MODULE MCSeason -----------------------------
(***************************************************************************)
(* Three participants who may join late, lose everything, tie or never     *)
(* trade, ranked after each of up to two days.                             *)
(***************************************************************************)
EXTENDS Season

MCOutcomes == {[closing_value |-> 0, turnover |-> 1],
               [closing_value |-> 5, turnover |-> 1],
               [closing_value |-> 5, turnover |-> 2],
               [closing_value |-> 8, turnover |-> 1]}

Published == {d \in Days : closed[d] # None}
Fact(d, p) == closed[d][p]
Present(d) == {p \in Participants : closed[d][p] # None}
Rows(board) == {board[n] : n \in DOMAIN board}

-----------------------------------------------------------------------------
(* Nobody is ranked behind someone whose return was smaller, computed      *)
(* without rounding; where rounding makes two returns equal, less turnover *)
(* and then the id decide (ranking.md, the daily tiebreak chain).          *)
RanksFollowReturns ==
  \A d \in Published :
    LET board == LeaderboardOf(closed, d)
        gain(p) == Fact(d, p).closing_value - Fact(d, p).prior_closing_value
        base(p) == IF Fact(d, p).prior_closing_value = 0 THEN 1
                   ELSE Fact(d, p).prior_closing_value
        earned(p, q) == gain(p) * base(q) > gain(q) * base(p)
    IN  /\ {board[n].participant : n \in DOMAIN board} = Present(d)
        /\ Len(board) = Cardinality(Present(d))
        /\ \A m, n \in DOMAIN board : m < n =>
             LET a == board[m]
                 b == board[n]
             IN  \/ earned(a.participant, b.participant)
                 \/ /\ a.daily_return = b.daily_return
                    /\ \/ a.turnover < b.turnover
                       \/ a.turnover = b.turnover /\ a.participant < b.participant

Shuffles(set) == {f \in [set -> set] : \A x \in set : \E y \in set : f[y] = x}

(* The order in which the day's entries come does not matter (ranking.md   *)
(* section 5: shuffle the input, assert the ranking is identical).         *)
InputOrderIsIrrelevant ==
  \A d \in Published :
    LET rows == InputRows(closed[d])
    IN  \A order \in Shuffles(DOMAIN rows) :
          Leaderboard([n \in DOMAIN rows |-> rows[order[n]]]) = Leaderboard(rows)

(* The ladder's return is what happened to the money: compounded from the  *)
(* rounded daily returns, it is the growth from the first baseline to the  *)
(* last close, up to the rounding of each day and of the result, carried   *)
(* through the days after it (ranking.md, the geometric ladder).           *)
LadderTellsTheGrowth ==
  \A row \in Rows(LadderOf(closed)) :
    LET p     == row.participant
        days  == {d \in Published : Fact(d, p) # None}
        first == Fact(CHOOSE d \in days : \A c \in days : d <= c, p).prior_closing_value
        last  == Fact(LatestDay(days), p).closing_value
        error == row.cumulative_return * first - ReturnUnit * (last - first)
        slack == (Cardinality(days) + 1) * (IF first > last THEN first ELSE last)
    IN  -slack <= error /\ error <= slack

(* Placed are exactly those who were ever active, from 1 without a gap and *)
(* before all others; so whoever never traded cannot win, and takes nobody *)
(* else's place (ranking.md section 4).                                    *)
PlacesGoToTraders ==
  LET ladder    == LadderOf(closed)
      traded(p) == \E d \in Published : Fact(d, p) # None /\ Fact(d, p).active
      traders == {p \in Participants : traded(p)}
  IN  \A n \in DOMAIN ladder :
        /\ ladder[n].rank = (IF n <= Cardinality(traders) THEN n ELSE None)
        /\ traded(ladder[n].participant) <=> n <= Cardinality(traders)

(* Each day has one winner and gives out the points of its places once.    *)
WinsAndPointsAddUp ==
  LET ladder == LadderOf(closed)
      wins   == [n \in DOMAIN ladder |-> ladder[n].daily_wins]
      points == [n \in DOMAIN ladder |-> ladder[n].points]
      given(d) == IF d \in Published
                  THEN Sum([k \in 1..Len(POINTS) |->
                              IF k <= Cardinality(Present(d)) THEN POINTS[k] ELSE 0],
                           Len(POINTS))
                  ELSE 0
  IN  /\ Sum(wins, Len(ladder)) = Cardinality(Published)
      /\ Sum(points, Len(ladder)) = Sum([d \in Days |-> given(d)], MaxDay)

(* Places, wins and points are given once, and to those they are due.      *)
PrizesAreDue == PlacesGoToTraders /\ WinsAndPointsAddUp

(* Closing a day takes nothing from the days before: who was eligible      *)
(* stays so, and wins, points and active days only grow (scoring's test    *)
(* one_active_day_is_enough_to_be_eligible_forever_after).                 *)
StandingIsKept ==
  [][\A later \in {Rows(LadderOf(closed'))} :
       \A x \in Rows(LadderOf(closed)) : \E y \in later :
         /\ y.participant = x.participant
         /\ x.eligible => y.eligible
         /\ y.daily_wins >= x.daily_wins
         /\ y.active_days >= x.active_days
         /\ y.points >= x.points]_closed
=============================================================================
