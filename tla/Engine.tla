-------------------------------- MODULE Engine ------------------------------
(***************************************************************************)
(* The engine as a state machine: one action per command, each of which    *)
(* decides against the current world and commits the events at once        *)
(* (Engine::execute; the server holds one mutex across a command).  A      *)
(* refused command that leaves no trace is no step.  The sets below are    *)
(* the inputs a model offers; an empty one switches its command off.       *)
(***************************************************************************)
EXTENDS Commands

CONSTANTS
  StartingCash,          \* CreateParticipant's cash
  OrderQtys, LimitPxs,   \* the terms of submitted and replacing orders
  TradedSides,           \* the sides orders are submitted on
  FillQtys, FillPxs,     \* the operator's terms in Execute
  AutoFills,             \* BOOLEAN: whether AutoExecute is used
  MarkPxs,               \* UpdateMark's prices
  Specs,                 \* CreateInstrument and UpdateInstrument
  MaxExecs,              \* bound: execution ids the broker may mint
  HonourLimits           \* BOOLEAN: the operator never fills a buy above its limit

ASSUME InputsAssumption ==
  /\ StartingCash \subseteq Nat \ {0} /\ \A cash \in StartingCash : Fits(cash)
  /\ OrderQtys \subseteq Nat \ {0} /\ FillQtys \subseteq Nat
  /\ LimitPxs \subseteq Pxs /\ FillPxs \subseteq Pxs /\ MarkPxs \subseteq Pxs
  /\ TradedSides \subseteq Sides
  /\ Specs \subseteq InstrumentSpec
  /\ MaxExecs \in Nat
  /\ AutoFills \in BOOLEAN /\ HonourLimits \in BOOLEAN

OfferedTerms == [participant : Participants, symbol : Symbols, side : TradedSides,
                 qty : OrderQtys, limit_px : LimitPxs]

(* Every plan the offered inputs can lead to in world w with broker b, a   *)
(* new order taking id n.                                                  *)
OfferedPlans(w, b, n) ==
  UNION (   {CreateParticipantPlans(w, b, p, cash) : p \in Participants, cash \in StartingCash}
       \cup {SubmitPlans(w, b, n, t) : t \in OfferedTerms}
       \cup {CancelPlans(w, b, i) : i \in Ids}
       \cup {ReplacePlans(w, b, i, n, qty, limit) :
                i \in Ids, qty \in OrderQtys, limit \in LimitPxs}
       \cup {ExecutePlans(w, b, i, qty, px) : i \in Ids, qty \in FillQtys, px \in FillPxs}
       \cup {AutoExecutePlans(w, b, i) : i \in Ids}
       \cup {UpdateMarkPlans(w, b, s, px) : s \in Symbols, px \in MarkPxs}
       \cup {CreateInstrumentPlans(w, b, s, spec) : s \in Symbols, spec \in Specs}
       \cup {UpdateInstrumentPlans(w, b, s, spec) : s \in Symbols, spec \in Specs}
       \cup {RemoveInstrumentPlans(w, b, s) : s \in Symbols}
       \cup {CloseDayPlans(w, b, d) : d \in Days})

VARIABLES world, broker

vars == <<world, broker>>

Perform(plans) ==
  \E plan \in plans : /\ world' = Commit(world, plan.events)
                      /\ broker' = plan.broker

CreateParticipant(p, cash) == Perform(CreateParticipantPlans(world, broker, p, cash))

(* The caller mints the id, one past the highest in use.                   *)
SubmitOrder(t) ==
  /\ NextOrderId(world) \in Ids
  /\ Perform(SubmitPlans(world, broker, NextOrderId(world), t))

CancelOrder(i) == Perform(CancelPlans(world, broker, i))

ReplaceOrder(i, qty, limit) ==
  /\ NextOrderId(world) \in Ids
  /\ Perform(ReplacePlans(world, broker, i, NextOrderId(world), qty, limit))

(* An operator who honours limits fills no buy above its limit price.      *)
Honoured(i, px) ==
  (HonourLimits /\ world.orders[i] # None /\ world.orders[i].side = "Buy")
     => px <= world.orders[i].limit_px

Execute(i, qty, px) ==
  /\ broker.next_exec_id <= MaxExecs
  /\ Honoured(i, px)
  /\ Perform(ExecutePlans(world, broker, i, qty, px))

AutoExecute(i) ==
  /\ AutoFills
  /\ broker.next_exec_id <= MaxExecs
  /\ Perform(AutoExecutePlans(world, broker, i))

UpdateMark(s, px) == Perform(UpdateMarkPlans(world, broker, s, px))

CreateInstrument(s, spec) == Perform(CreateInstrumentPlans(world, broker, s, spec))
UpdateInstrument(s, spec) == Perform(UpdateInstrumentPlans(world, broker, s, spec))
RemoveInstrument(s) == Perform(RemoveInstrumentPlans(world, broker, s))

CloseDay(d) == Perform(CloseDayPlans(world, broker, d))

Init == world = EmptyWorld /\ broker = FreshBroker

Next ==
  \/ \E p \in Participants, cash \in StartingCash : CreateParticipant(p, cash)
  \/ \E t \in OfferedTerms : SubmitOrder(t)
  \/ \E i \in Ids : CancelOrder(i)
  \/ \E i \in Ids, qty \in OrderQtys, limit \in LimitPxs : ReplaceOrder(i, qty, limit)
  \/ \E i \in Ids, qty \in FillQtys, px \in FillPxs : Execute(i, qty, px)
  \/ \E i \in Ids : AutoExecute(i)
  \/ \E s \in Symbols, px \in MarkPxs : UpdateMark(s, px)
  \/ \E s \in Symbols, spec \in Specs : CreateInstrument(s, spec)
  \/ \E s \in Symbols, spec \in Specs : UpdateInstrument(s, spec)
  \/ \E s \in Symbols : RemoveInstrument(s)
  \/ \E d \in Days : CloseDay(d)

Spec == Init /\ [][Next]_vars

(* The operator keeps asking for executions of every order: nothing in the *)
(* code schedules them, so this is an assumption about its user.           *)
FairSpec == Spec /\ \A i \in Ids : WF_vars(AutoExecute(i))
=============================================================================
