------------------------------ MODULE MCCockpit -----------------------------
(***************************************************************************)
(* A cockpit watching a small competition while it trades, closes days and *)
(* is reset.                                                               *)
(***************************************************************************)
EXTENDS Cockpit

(* The journal panel is the journal: every row up to the cursor, none      *)
(* twice, none out of order, newest first, cut at what the panel keeps (up *)
(* to the first reset, and for polls that do not overlap).                 *)
JournalIsTheLog ==
  LET seen == Reverse(Retained(log, LAMBDA row : row.seq <= ui.journalSeq))
  IN  world = 1 =>
        ui.journal = SubSeq(seen, 1, IF Len(seen) < KEEP THEN Len(seen) ELSE KEEP)

(* Whatever happens in the world "narrates in the Journal within a poll"   *)
(* (docs/decision-log.md): each row comes to be shown, unless a reset      *)
(* takes it away first or it is no longer among the newest that fit.       *)
Appears(w, n) ==
  \/ world # w
  \/ Len(log) >= n + KEEP
  \/ Len(log) >= n /\ \E m \in DOMAIN ui.journal : ui.journal[m] = log[n]

(* So it is with every row of a world that has not been reset yet.         *)
EventsAppear == \A n \in 1..MaxRows : world = 1 /\ Len(log) >= n ~> Appears(1, n)

(* Everything but the journal panel shows the present state of the server. *)
ScreenIsCurrent ==
  /\ ui.connected
  /\ ui.participants = Joined /\ ui.days = Closed
  /\ ui.portfolios = [p \in Joined |-> Version]
  /\ Closed = {} => ui.board = None /\ ui.ladder = None
  /\ Closed # {} =>
       /\ ui.selectedDay \in Closed
       /\ ui.board = [world |-> world, day |-> ui.selectedDay]
       /\ ui.ladder = [world |-> world, days |-> Cardinality(Closed)]

(* Once nothing changes any more, the screen becomes current and stays so, *)
(* whatever resets, lost requests and clicks came before, also while a     *)
(* refresh was half way.                                                   *)
ScreenSettles == <>[]ScreenIsCurrent

-----------------------------------------------------------------------------
(* And, as that sentence has it, with every row of every world.            *)
EventsAppearAfterReset ==
  \A w \in 1..MaxTurns + 1, n \in 1..MaxRows :
    world = w /\ Len(log) >= n ~> Appears(w, n)

(* No row is shown twice: a poll brings "only what happened since we last  *)
(* looked" (src/ui/src/store.ts).  Not so with two timers: see the README. *)
NoRowTwice ==
  \A m, n \in DOMAIN ui.journal : ui.journal[m] = ui.journal[n] => m = n
=============================================================================
