-------------------------------- MODULE MCDays ------------------------------
(***************************************************************************)
(* A competition: participants who join, trade and close days, with a      *)
(* history variable that remembers who was exposed during the day.         *)
(***************************************************************************)
EXTENDS EngineProperties

VARIABLE exposed       \* who traded or held something since the last close

HoldsAny(w, p) ==
  w.participants[p] # None /\ \E s \in Symbols : Holds(w.participants[p], s)

TradedInStep(p) ==
  \E i \in OrdersOf(p) : world'.orders[i].state.filled > world.orders[i].state.filled

DayClosedInStep == \E d \in Days : ~ IsClosed(world, d) /\ IsClosed(world', d)

DaysInit == Init /\ exposed = [p \in Participants |-> FALSE]

DaysNext ==
  /\ Next
  /\ exposed' = [p \in Participants |->
                   \/ HoldsAny(world', p)
                   \/ ~ DayClosedInStep /\ (exposed[p] \/ TradedInStep(p))]

DaysSpec == DaysInit /\ [][DaysNext]_<<vars, exposed>>

-----------------------------------------------------------------------------
(* The day's entry calls a participant active exactly when they traded or  *)
(* held anything at any moment since the last close, including those who   *)
(* held at the open and sold out (day_entries' comment).                   *)
ActiveMeansExposed ==
  \A p \in Participants : Joined(p) => (DayEntry(world, p).active <=> exposed[p])

EntriesOf(p) == {d \in Days : IsClosed(world, d) /\ world.closed[d][p] # None}
LatestOf(p, days) == CHOOSE d \in days : \A c \in days : c <= d

(* Every published day starts from the value the participant closed the    *)
(* previous one on, or from the starting cash: the returns a ladder        *)
(* compounds were computed against each other.                             *)
DaysChain ==
  \A p \in Participants :
    LET baseline(days) == IF days = {} THEN world.participants[p].starting_cash
                          ELSE world.closed[LatestOf(p, days)][p].closing_value
    IN  /\ \A d \in EntriesOf(p) :
             world.closed[d][p].prior_closing_value
               = baseline({c \in EntriesOf(p) : c < d})
        /\ Joined(p) => DayEntry(world, p).prior_closing_value = baseline(EntriesOf(p))

(* The turnover of the published days and of the running one is all the    *)
(* participant ever executed: a close neither drops nor repeats a fill.    *)
TurnoverIsAccountedFor ==
  \A p \in Participants : Joined(p) =>
    LET cost(i) == world.orders[i].state.cost
        published(d) == IF d \in EntriesOf(p) THEN world.closed[d][p].turnover ELSE 0
    IN  Sum([d \in Days |-> published(d)], MaxDay) + world.day_turnover[p]
          = Executed(p, "Buy", cost) + Executed(p, "Sell", cost)

(* What is published of the days adds up over the days.                    *)
DaysAddUp == DaysChain /\ TurnoverIsAccountedFor

(* A published closing value is the participant's equity at that moment,   *)
(* starting cash plus realized plus unrealized P&L at the marks, with a    *)
(* mark for everything held; days are published in order and never again.  *)
ClosesPublishEquity ==
  [][\A d \in Days : ~ IsClosed(world, d) /\ IsClosed(world', d) =>
       /\ \A c \in Days : IsClosed(world, c) => c < d
       /\ \A p \in Participants : Joined(p) =>
            LET b == world.participants[p]
                gain(s) == IF Holds(b, s)
                           THEN Notional(world.marks[s], b.positions[s].qty)
                                  - b.positions[s].cost
                           ELSE 0
            IN  /\ \A s \in Symbols : Holds(b, s) => world.marks[s] # None
                /\ world'.closed[d][p].closing_value
                     = b.starting_cash + b.realized_pnl
                         + Sum([s \in Symbols |-> gain(s)], NumSymbols)]_vars

-----------------------------------------------------------------------------
(* The days the engine publishes make a season: whatever is traded between *)
(* the closes, scoring is only ever given what Season allows.              *)
S == INSTANCE Season WITH closed <- world.closed,
                          ReturnUnit <- 1, Start <- 1, Outcomes <- {}

ClosesMakeASeason == S!Allowed
=============================================================================
