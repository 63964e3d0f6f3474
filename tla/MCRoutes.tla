------------------------------ MODULE MCRoutes ------------------------------
(***************************************************************************)
(* Every request, well-formed and not, against every world of a small      *)
(* competition, with writes that fail, answers that get lost, resets, and  *)
(* amounts that overflow.                                                  *)
(***************************************************************************)
EXTENDS Routes, EngineProperties

PairsOnly == [tick |-> 1, lot |-> 2, max_order_qty |-> None]
OneSpec == {PairsOnly}
OneSeed == <<1>>

(* A request answered without an error has been carried out, all of it:    *)
(* its events are in the journal and in the world.  Only the repeated      *)
(* close of a day, which is none, has no events.                           *)
CarriedOut(w, r, outcome) ==
  IF r.route = "reset" THEN outcome.cleared /\ outcome.journaled = SeedEvents
  ELSE /\ ~ outcome.cleared /\ CommitOk(w, outcome.journaled)
       /\ r.route = "update_marks" => Len(outcome.journaled) = Len(r.marks)
       /\ outcome.journaled = <<>> =>
            \/ r.route = "close_day" /\ IsClosed(w, r.day)
            \/ r.route = "update_marks"

(* One that the journal failed under may have been cut short between two   *)
(* of its commands: some of a batch's marks, or of a reset's seeds, are    *)
(* missing.                                                                *)
CutShort(r, outcome) ==
  /\ outcome.error = "Store"
  /\ \/ /\ r.route = "update_marks" /\ ~ outcome.cleared
        /\ Len(outcome.journaled) < Len(r.marks)
     \/ /\ r.route = "reset" /\ outcome.cleared
        /\ Len(outcome.journaled) < Len(SeedEvents)

(* A fill whose turnover does not fit is journaled before commit errs.     *)
HalfApplied(w, r, outcome) ==
  /\ Executes(r) /\ outcome.error = "Domain" /\ ~ outcome.cleared
  /\ ~ RoomForTurnover(w, outcome.journaled)

(* Every answer tells the truth.  Without an error all that was asked for  *)
(* is done; with one nothing is, the journal and the world are as they     *)
(* were, but for a batch or a reset cut short by the journal and for the   *)
(* fill that decide takes and the fold refuses.  Each of these exceptions  *)
(* is answered as the server's fault, never as the client's.               *)
AnswersTellTheTruth ==
  \A r \in Servable :
    \A outcome \in Answers(r) :
      IF outcome.error = None THEN CarriedOut(world, r, outcome)
      ELSE \/ ~ outcome.cleared /\ outcome.journaled = <<>>
           \/ /\ StatusOf(outcome.error) = 500
              /\ CutShort(r, outcome) \/ HalfApplied(world, r, outcome)

(* Until the server is reset, a client that never saw the answer to a      *)
(* joining, a cancelling, a replacing or a close may ask again, whatever   *)
(* others have done in between: it is never done twice.  Nothing is        *)
(* claimed of an order or an execution sent again, which is another one.   *)
RetriesAreHarmless == [][Retry => world' = world]_route_vars

-----------------------------------------------------------------------------
(* Three claims the code does not keep; the README describes how.  Decide  *)
(* validates everything before any mutation happens (engine.rs).           *)
NothingIsHalfApplied ==
  \A r \in Servable :
    \A outcome \in Answers(r) :
      outcome.journaled # <<>> => ~ HalfApplied(world, r, outcome)

(* The client is never told that the server is at fault for what the       *)
(* client asked (error.rs: anything left is a bug or a disk problem).      *)
NoRequestIsABug ==
  \A r \in Servable :
    \A outcome \in Answers(r) :
      outcome.error \notin {None, "Store"} => StatusOf(outcome.error) # 500

(* An execution is refused with 409 when its order is terminal, and with   *)
(* 422 when the order is overfilled, the fill is empty or the book refuses *)
(* it (openapi.json, POST /broker/executions).                             *)
ExecutionsAnswerAsDocumented ==
  \A r \in Servable \cap PostExecutions : \A outcome \in Answers(r) :
    outcome.error \notin {None, "BadRequest", "Store"} /\ world.orders[r.id] # None =>
      StatusOf(outcome.error) =
        IF IsTerminal(world.orders[r.id].state) THEN 409 ELSE 422
=============================================================================
