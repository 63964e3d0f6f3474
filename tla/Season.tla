------------------------------- MODULE Season -------------------------------
(***************************************************************************)
(* What scoring is given: the days as the engine publishes them, whatever  *)
(* happened between.  The engine implements Allowed (a run checks it), so  *)
(* what holds of every season holds of what the server ranks.              *)
(***************************************************************************)
EXTENDS Scoring

CONSTANTS Start,        \* what the participants of the generated seasons start with
          Outcomes      \* a participant's day: closing value, turnover

VARIABLE closed

Earlier(p, d) == {c \in Days : c < d /\ closed[c] # None /\ closed[c][p] # None}
LatestDay(days) == CHOOSE d \in days : \A c \in days : c <= d

(* The value a participant starts day d from, or first.                    *)
Baseline(p, d, first) ==
  IF Earlier(p, d) = {} THEN first ELSE closed[LatestDay(Earlier(p, d))][p].closing_value

(* A book is worth what it was unless something was traded or held, and    *)
(* one that is worth nothing holds nothing and can buy nothing.            *)
Plausible(e) ==
  /\ e \in DayInput /\ e.closing_value \in 0..MaxRaw /\ e.turnover >= 0
  /\ e.prior_closing_value = 0 => e.closing_value = 0
  /\ ~ e.active => e.closing_value = e.prior_closing_value /\ e.turnover = 0

Publish(d, entries) ==
  /\ \A c \in Days : closed[c] # None => c < d
  /\ \E p \in Participants : entries[p] # None
  /\ \A p \in Participants :
       IF entries[p] = None THEN Earlier(p, d) = {}
       ELSE /\ Plausible(entries[p])
            /\ entries[p].prior_closing_value = Baseline(p, d, entries[p].prior_closing_value)
            /\ Earlier(p, d) = {} => entries[p].prior_closing_value \in 1..MaxRaw
  /\ closed' = [closed EXCEPT ![d] = entries]

Init == closed = [d \in Days |-> None]

Allowed == Init /\ [][\E d \in Days : closed'[d] # None /\ Publish(d, closed'[d])]_closed

(* The seasons TLC generates: who has joined, and who of them was busy.    *)
Busy(p, d, o) ==
  [closing_value |-> o.closing_value, prior_closing_value |-> Baseline(p, d, Start),
   turnover |-> o.turnover, active |-> TRUE]

Idle(p, d) ==
  [closing_value |-> Baseline(p, d, Start), prior_closing_value |-> Baseline(p, d, Start),
   turnover |-> 0, active |-> FALSE]

CloseDay(d) ==
  \E present \in SUBSET Participants : \E busy \in SUBSET present :
    \E outcome \in [busy -> Outcomes] :
      Publish(d, [p \in Participants |->
                    IF p \notin present THEN None
                    ELSE IF p \in busy THEN Busy(p, d, outcome[p]) ELSE Idle(p, d)])

Next == \E d \in Days : CloseDay(d)

Spec == Init /\ [][Next]_closed
=============================================================================
