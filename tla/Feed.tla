-------------------------------- MODULE Feed --------------------------------
(***************************************************************************)
(* What the server promises to whoever reads its journal (GET /events):    *)
(* rows in the order of their sequence numbers, to which a command adds at *)
(* the end, and which only a reset takes away, all of them at once.  The   *)
(* server implements it (MCApp), and the cockpit is built upon it.         *)
(***************************************************************************)
EXTENDS Sorting

VARIABLE log    \* the rows, oldest first; each has at least a seq

Newest(rows) == IF rows = <<>> THEN 0 ELSE rows[Len(rows)].seq

(* Mutant: the cursor is taken for the first row wanted.                   *)
AfterOrAt(rows, seq) ==
  LET newer(row) == row.seq >= seq
  IN  Retained(rows, newer)

(* App::events_after.                                                      *)
After(rows, seq) ==
  LET newer(row) == row.seq > seq
  IN  Retained(rows, newer)

(* A command journals one row or two.                                      *)
Extends ==
  /\ Len(log') \in {Len(log) + 1, Len(log) + 2}
  /\ SubSeq(log', 1, Len(log)) = log
  /\ \A n \in Len(log) + 1 .. Len(log') : Newest(SubSeq(log', 1, n - 1)) < log'[n].seq

Clears == log' = <<>>

FeedSpec == log = <<>> /\ [][Extends \/ Clears]_log
=============================================================================
