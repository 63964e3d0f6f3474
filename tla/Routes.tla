------------------------------- MODULE Routes -------------------------------
(***************************************************************************)
(* The HTTP face (api/src/routes.rs and error.rs) over the engine: every   *)
(* route parses its request, mints an order id if it needs one, performs   *)
(* its commands and answers; Engine::decide's refusals are here with the   *)
(* reason each gives, in the order in which the code looks for them.  A    *)
(* field that does not parse is Malformed, a negative quantity or a zero   *)
(* price.  The journal may fail to be written, between two commands of one *)
(* request too, and a client may lose an answer and send the request again.*)
(***************************************************************************)
EXTENDS Engine

CONSTANTS
  Malformed,      \* a field that does not parse
  Seeds,          \* the symbols of PTC_SYMBOLS, in order and each once
  SeedSpec        \* the spec they are seeded with

ASSUME SeedingAssumption ==
  /\ Seeds \in Seq(Symbols) /\ SeedSpec \in InstrumentSpec
  /\ \A m, n \in DOMAIN Seeds : Seeds[m] = Seeds[n] => m = n

VARIABLES
  next_order_id,   \* App::next_order_id
  pending          \* a performed request whose answer was lost, or None

route_vars == <<vars, next_order_id, pending>>

-----------------------------------------------------------------------------
(***************************************************************************)
(* Requests.                                                               *)
(***************************************************************************)
SomeParticipants == Participants \cup {Malformed}
SomeSymbols == Symbols \cup {Malformed}
SomeQtys == OrderQtys \cup {-1, 0}
SomePxs == LimitPxs \cup {0}
SpecBodies == Specs \cup {[tick |-> 0, lot |-> 1, max_order_qty |-> None],
                          [tick |-> 1, lot |-> 0, max_order_qty |-> None],
                          [tick |-> 1, lot |-> 1, max_order_qty |-> -1]}

PostParticipants == [route : {"create_participant"}, participant : SomeParticipants,
                     cash : StartingCash \cup {0, Malformed}]
PostOrders == [route : {"submit_order"}, participant : SomeParticipants,
               symbol : SomeSymbols, side : TradedSides \cup {Malformed},
               qty : SomeQtys, limit_px : SomePxs]
DeleteOrders == [route : {"cancel_order"}, id : Ids]
PutOrders == [route : {"replace_order"}, id : Ids, qty : SomeQtys, limit_px : SomePxs]
PostExecutions == [route : {"execute_order"}, id : Ids,
                   qty : FillQtys \cup {None, -1, 0}, px : FillPxs \cup {None, 0}]
PostInstruments == [route : {"create_instrument", "update_instrument"},
                    symbol : SomeSymbols, spec : SpecBodies]
DeleteInstruments == [route : {"remove_instrument"}, symbol : SomeSymbols]
Marks == [symbol : SomeSymbols, px : MarkPxs \cup {0}]
Batches == {<<>>} \cup {<<x>> : x \in Marks} \cup {<<x, y>> : x, y \in Marks}
PostMarks == [route : {"update_marks"}, marks : Batches]
PostCloses == [route : {"close_day"}, day : Days \cup {Malformed}]
PostResets == [route : {"reset"}]

Executes(r) == r.route = "execute_order"

Requests == UNION {PostParticipants, PostOrders, DeleteOrders, PutOrders, PostExecutions,
                   PostInstruments, DeleteInstruments, PostMarks, PostCloses, PostResets}

(* Every error a route can answer with, by the status it is given.         *)
Missing == {"UnknownParticipant", "UnknownOrder", "UnknownInstrument"}
Conflicts == {"DuplicateParticipant", "DuplicateInstrument", "DuplicateOrder",
              "InstrumentInUse", "IllegalTransition", "DayOutOfOrder",
              "MissingMark", "NothingToExecute", "Scoring"}
Unprocessable == {"Overfill", "InvalidTransition", "InsufficientAvailableCash",
                  "InsufficientAvailablePosition", "BookPosition"}
Internal == {"Domain", "BookCash", "BookOverflow", "NotWorking", "Store"}
Errors == {"BadRequest"} \cup Missing \cup Conflicts \cup Unprocessable \cup Internal

(* No answer lost, and no error given, are neither a request nor an error. *)
ASSUME AbsenceAssumption == None \notin Requests /\ None \notin Errors

BadSpec(spec) ==
  \/ spec.tick = 0 \/ spec.lot <= 0
  \/ spec.max_order_qty # None /\ spec.max_order_qty < 0

(* Parsing at the edge, before the mutex is taken.                         *)
BadRequest(r) ==
  CASE r.route = "create_participant" ->
         r.participant = Malformed \/ r.cash \in {0, Malformed}
    [] r.route = "submit_order" ->
         \/ Malformed \in {r.participant, r.symbol, r.side}
         \/ r.qty < 0 \/ r.limit_px = 0
    [] r.route = "cancel_order" -> FALSE
    [] r.route = "replace_order" -> r.qty < 0 \/ r.limit_px = 0
    [] r.route = "execute_order" ->
         \/ (r.qty = None) # (r.px = None)
         \/ r.qty # None /\ r.px # None /\ (r.qty < 0 \/ r.px = 0)
    [] r.route \in {"create_instrument", "update_instrument"} ->
         r.symbol = Malformed \/ BadSpec(r.spec)
    [] r.route = "remove_instrument" -> r.symbol = Malformed
    [] r.route = "update_marks" ->
         \E n \in DOMAIN r.marks : r.marks[n].symbol = Malformed \/ r.marks[n].px = 0
    [] r.route = "close_day" -> r.day = Malformed
    [] r.route = "reset" -> FALSE

-----------------------------------------------------------------------------
(***************************************************************************)
(* Why the engine refuses a command, or None.                              *)
(***************************************************************************)
AffordError(w, o, excluding) ==
  LET p == o.participant
      cash == AvailableCash(w, p, excluding)
      shares == AvailableQty(w, p, o.symbol, excluding)
  IN  IF o.side = "Buy"
      THEN IF ~ (Fits(Reserve(o)) /\ Fits(ReservedCash(w, p, excluding)) /\ Fits(cash))
           THEN "Domain"
           ELSE IF Reserve(o) > cash THEN "InsufficientAvailableCash" ELSE None
      ELSE IF shares < 0 THEN "Domain"
           ELSE IF o.qty > shares THEN "InsufficientAvailablePosition" ELSE None

SubmitError(w, i, t) ==
  LET o == Submitted(t, None)
  IN  IF w.orders[i] # None THEN "DuplicateOrder"
      ELSE IF w.participants[t.participant] = None THEN "UnknownParticipant"
      ELSE IF t.qty = 0 THEN "Domain"
      ELSE IF RejectReason(w, o) # None THEN None
      ELSE AffordError(w, o, None)

CancelError(w, i) ==
  IF w.orders[i] = None THEN "UnknownOrder"
  ELSE IF ~ CanCancel(w.orders[i].state) THEN "IllegalTransition"
  ELSE None

ReplaceError(w, i, j, qty, limit) ==
  LET o == Submitted(ReplacementTerms(w.orders[i], qty, limit), i)
  IN  IF w.orders[j] # None THEN "DuplicateOrder"
      ELSE IF CancelError(w, i) # None THEN CancelError(w, i)
      ELSE IF qty = 0 THEN "InvalidTransition"
      ELSE IF RejectReason(w, o) # None THEN None
      ELSE AffordError(w, o, i)

(* lifecycle::fill, then Portfolio::apply on a clone of the book.          *)
BookError(b, f) ==
  IF BookAccepts(b, f) THEN None
  ELSE IF f.side = "Buy" /\ Outlay(f) > b.cash THEN "BookCash"
  ELSE IF f.side = "Sell" /\ f.qty > b.positions[f.symbol].qty THEN "BookPosition"
  ELSE "BookOverflow"

FillError(w, e) ==
  LET o == w.orders[e.id]
  IN  IF o = None THEN "UnknownOrder"
      ELSE IF o.state.name \notin Live THEN "IllegalTransition"
      ELSE IF e.qty = 0 THEN "InvalidTransition"
      ELSE IF o.state.filled + e.qty > o.qty THEN "Overfill"
      ELSE IF ~ OrderTakes(w, e) THEN "InvalidTransition"
      ELSE BookError(w.participants[o.participant], FillOf(w, e))

ExecuteError(w, b, i, qty, px) ==
  LET fee == FeeOf(Notional(px, qty))
  IN  IF ~ (Fits(Notional(px, qty)) /\ Fits(fee)) THEN "Domain"
      ELSE FillError(w, OrderFilled(i, b.next_exec_id, qty, px, fee))

(* What stops the broker, and then what stops a slice it has drawn.        *)
BrokerError(w, i) ==
  IF w.orders[i] = None THEN "UnknownOrder"
  ELSE IF IsTerminal(w.orders[i].state) THEN "NotWorking"
  ELSE IF Remaining(w.orders[i]) = 0 THEN "NothingToExecute"
  ELSE None

CloseError(w, d) ==
  LET present == {p \in Participants : w.participants[p] # None}
      unmarked(p) == \E s \in Symbols : /\ Holds(w.participants[p], s)
                                        /\ w.marks[s] = None
  IN  IF IsClosed(w, d) THEN None
      ELSE IF \E c \in Days : IsClosed(w, c) /\ d < c THEN "DayOutOfOrder"
      ELSE IF \E p \in present : unmarked(p) THEN "MissingMark"
      ELSE IF \E p \in present : ~ HasValue(w.participants[p], w.marks) THEN "BookOverflow"
      ELSE IF present = {} THEN "Scoring"
      ELSE None

Unless(refused, error) == IF refused THEN error ELSE None

(* The order that a POST /orders asks for.                                 *)
TermsOf(r) == [participant |-> r.participant, symbol |-> r.symbol, side |-> r.side,
               qty |-> r.qty, limit_px |-> r.limit_px]

(* n is the order id minted for the request.                               *)
Refusal(w, b, n, r) ==
  CASE r.route = "create_participant" ->
         Unless(w.participants[r.participant] # None, "DuplicateParticipant")
    [] r.route = "submit_order" -> SubmitError(w, n, TermsOf(r))
    [] r.route = "cancel_order" -> CancelError(w, r.id)
    [] r.route = "replace_order" -> ReplaceError(w, r.id, n, r.qty, r.limit_px)
    [] r.route = "execute_order" ->
         ExecuteError(w, b, r.id, r.qty, r.px)
    [] r.route = "create_instrument" ->
         Unless(w.instruments[r.symbol] # None, "DuplicateInstrument")
    [] r.route = "update_instrument" ->
         Unless(w.instruments[r.symbol] = None, "UnknownInstrument")
    [] r.route = "remove_instrument" ->
         IF w.instruments[r.symbol] = None THEN "UnknownInstrument"
         ELSE Unless(InUse(w, r.symbol), "InstrumentInUse")
    [] r.route = "close_day" -> CloseError(w, r.day)

(* AppError::classify.                                                     *)
StatusOf(error) ==
  CASE error = "BadRequest" -> 400
    [] error \in Missing -> 404
    [] error \in Conflicts -> 409
    [] error \in Unprocessable -> 422
    [] error \in Internal -> 500

-----------------------------------------------------------------------------
(***************************************************************************)
(* What the engine decides of a request that is one command: its plan, and *)
(* why it is refused.  A refused command that reached the broker leaves it *)
(* changed.                                                                *)
(***************************************************************************)
PlansOf(w, b, n, r) ==
  CASE r.route = "create_participant" -> CreateParticipantPlans(w, b, r.participant, r.cash)
    [] r.route = "submit_order" -> SubmitPlans(w, b, n, TermsOf(r))
    [] r.route = "cancel_order" -> CancelPlans(w, b, r.id)
    [] r.route = "replace_order" -> ReplacePlans(w, b, r.id, n, r.qty, r.limit_px)
    [] r.route = "execute_order" ->
         ExecutePlans(w, b, r.id, r.qty, r.px)
    [] r.route = "create_instrument" -> CreateInstrumentPlans(w, b, r.symbol, r.spec)
    [] r.route = "update_instrument" -> UpdateInstrumentPlans(w, b, r.symbol, r.spec)
    [] r.route = "remove_instrument" -> RemoveInstrumentPlans(w, b, r.symbol)
    [] r.route = "close_day" -> CloseDayPlans(w, b, r.day)

Decision(error, plan) == [error |-> error, plan |-> plan]

(* An execution on the broker's terms: one decision for each slice.        *)
AutoDecisions(w, b, i) ==
  LET o == w.orders[i]
      notional(q) == Notional(o.limit_px, q)
      fill(q) == OrderFilled(i, b.next_exec_id, q, o.limit_px, FeeOf(notional(q)))
      priced(q) == Fits(notional(q)) /\ Fits(FeeOf(notional(q)))
  IN  IF BrokerError(w, i) # None THEN {Decision(BrokerError(w, i), Plan(<<>>, b))}
      ELSE {IF priced(q)
            THEN Decision(FillError(w, fill(q)), FillPlan(w, fill(q), MintedExec(b)))
            ELSE Decision("Domain", Plan(<<>>, b)) : q \in Slices(o)}

Decisions(w, b, n, r) ==
  IF Executes(r) /\ r.qty = None THEN AutoDecisions(w, b, r.id)
  ELSE LET plans == PlansOf(w, b, n, r)
           error == Refusal(w, b, n, r)
       IN  IF plans = {} THEN {Decision(error, Plan(<<>>, b))}
           ELSE {Decision(error, plan) : plan \in plans}

-----------------------------------------------------------------------------
(***************************************************************************)
(* What becomes of a request: the error answered, whether the journal was  *)
(* cleared, the events then written to it, and the broker left behind.     *)
(***************************************************************************)
Outcome(error, cleared, journaled, b) ==
  [error |-> error, cleared |-> cleared, journaled |-> journaled, broker |-> b]

(* App::execute: the plan is appended in one transaction, which may fail   *)
(* with nothing written, and is then committed, which may err with all of  *)
(* it written.                                                             *)
Performed(w, decision) ==
  LET events == decision.plan.events
      minted == decision.plan.broker
      error == IF decision.error = None /\ ~ CommitOk(w, events) THEN "Domain"
               ELSE decision.error
  IN  {Outcome(error, FALSE, events, minted)}
        \cup When(decision.error = None, Outcome("Store", FALSE, <<>>, minted))

(* Commands that the engine never refuses, carried out one by one: an      *)
(* append that fails leaves those before it done.                          *)
DoneInTurn(cleared, events, b) ==
  {Outcome(IF n < Len(events) THEN "Store" ELSE None, cleared, SubSeq(events, 1, n), b) :
     n \in 0..Len(events)}

(* Mutant: a batch goes on past a mark that could not be written.          *)
BatchOutcomesUnchecked(b, marks) ==
  LET updates == [n \in DOMAIN marks |-> MarkUpdated(marks[n].symbol, marks[n].px)]
  IN  {Outcome(None, FALSE, SubSeq(updates, 1, n), b) : n \in 0..Len(marks)}

(* A batch of marks, all of them parsed: each is a command of its own.     *)
BatchOutcomes(b, marks) ==
  DoneInTurn(FALSE, [n \in DOMAIN marks |-> MarkUpdated(marks[n].symbol, marks[n].px)], b)

(* App::reset: the journal is cleared or it is not; then the engine and    *)
(* the broker are made anew, and each seed is a command of its own.        *)
SeedEvents == [n \in DOMAIN Seeds |-> InstrumentUpserted(Seeds[n], SeedSpec)]

ResetOutcomes(b) ==
  {Outcome("Store", FALSE, <<>>, b)} \cup DoneInTurn(TRUE, SeedEvents, FreshBroker)

Outcomes(w, b, n, r) ==
  IF BadRequest(r) THEN {Outcome("BadRequest", FALSE, <<>>, b)}
  ELSE IF r.route = "update_marks" THEN BatchOutcomes(b, r.marks)
  ELSE IF r.route = "reset" THEN ResetOutcomes(b)
  ELSE UNION {Performed(w, decision) : decision \in Decisions(w, b, n, r)}

Mints(r) == r.route \in {"submit_order", "replace_order"} /\ ~ BadRequest(r)

(* The routes whose effect cannot be had twice, however late the second    *)
(* request is: until a reset their keys are never free again.              *)
OnceOnly(r) == r.route \in {"create_participant", "cancel_order", "replace_order",
                            "close_day"}

(* Bounds: the ids a model has.                                            *)
Servable ==
  {r \in Requests : /\ Mints(r) => next_order_id \in Ids
                    /\ Executes(r) => broker.next_exec_id <= MaxExecs}

Answers(r) == Outcomes(world, broker, next_order_id, r)

Handle(r, outcome) ==
  /\ world' = IF outcome.cleared THEN Replay(outcome.journaled)
              ELSE Commit(world, outcome.journaled)
  /\ broker' = outcome.broker
  /\ next_order_id' = IF outcome.cleared THEN 1
                      ELSE IF Mints(r) THEN next_order_id + 1 ELSE next_order_id

(* A reset also ends what is told of a lost answer: asking again is then a *)
(* request like any other, on a server where every key is free again.      *)
Send ==
  \E r \in Servable : \E outcome \in Answers(r) :
    /\ Handle(r, outcome)
    /\ pending' = IF outcome.cleared THEN None ELSE pending

(* The answer to a performed request is lost.                              *)
SendUnanswered ==
  /\ pending = None
  /\ \E r \in {r \in Servable : OnceOnly(r)} : \E outcome \in Answers(r) :
       /\ outcome.error = None
       /\ Handle(r, outcome)
       /\ pending' = r

(* The client asks again.                                                  *)
Retry ==
  /\ pending \in Servable
  /\ \E outcome \in Answers(pending) : Handle(pending, outcome)
  /\ UNCHANGED pending

(* The server as it comes up on an empty journal, its seeds landed.        *)
RoutesInit ==
  /\ world = Replay(SeedEvents) /\ broker = FreshBroker
  /\ next_order_id = 1 /\ pending = None

RoutesNext == Send \/ SendUnanswered \/ Retry
RoutesSpec == RoutesInit /\ [][RoutesNext]_route_vars
=============================================================================
