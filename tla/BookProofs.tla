----------------------------- MODULE BookProofs ----------------------------
(***************************************************************************)
(* The orders and the books, proved of every reachable world.  First the   *)
(* order lifecycle: the state name, the quantities and the venue's id      *)
(* always tell one story.  The invariant is made inductive by two facts    *)
(* the story rests on: an id nobody submitted has no venue id on file, and *)
(* no order is for nothing.  And what follows from it: no order ever rests *)
(* in NEW, every replacement points back at the one order it took over     *)
(* from, no step takes back what it made of an order, and the fills are on *)
(* record once, in the order of the venue's ids.  Then the books of        *)
(* every participant: no overdraft, no short position, no basis without    *)
(* shares, and a profit that is exactly the cash and the basis gained.     *)
(* Last what the working orders have set aside: shares and cash the        *)
(* participant still has, so that the venue can fill every one of them.    *)
(***************************************************************************)
EXTENDS EngineProofs

StoryAt(order, id_on_file) ==
  /\ order = None => id_on_file = None
  /\ order # None => order.qty > 0 /\ OrderStory(order, id_on_file)

Story(w) == \A i \in Ids : StoryAt(w.orders[i], w.order_broker_ids[i])

-----------------------------------------------------------------------------
(* Each transition of the lifecycle takes one story to the next.           *)
LEMMA SubmittedStory ==
  ASSUME NEW t \in Terms, t.qty > 0, NEW original
  PROVE  StoryAt(Submitted(t, original), None)
  BY NoneAssumption DEF Submitted, StoryAt, OrderStory, New, Live, Terms

LEMMA OrderFields ==
  ASSUME NEW o \in Order
  PROVE  o # None /\ o.qty \in Nat /\ o.state \in OrderState
  BY NoneAssumption DEF Order

LEMMA StateFields ==
  ASSUME NEW o \in Order, NEW s \in OrderState
  PROVE  /\ [o EXCEPT !.state = s] \in Order
         /\ [o EXCEPT !.state = s].state = s
         /\ [o EXCEPT !.state = s].qty = o.qty
         /\ [o EXCEPT !.state = s] # None
  <1>1. [o EXCEPT !.state = s] \in Order
    BY DEF Order
  <1> QED BY <1>1, NoneAssumption DEF Order

LEMMA AcknowledgeStory ==
  ASSUME NEW o \in Order, NEW file, StoryAt(o, file), CanAcknowledge(o.state), NEW id \in Int
  PROVE  StoryAt([o EXCEPT !.state = Acknowledge(o.state, id)], id)
  <1> DEFINE s == o.state
             t == Acknowledge(s, id)
  <1>1. s \in OrderState /\ t \in OrderState /\ o # None
    BY OrderFields, TransitionsTyped
  <1>2. OrderStory(o, file) /\ o.qty > 0 /\ s.name = "NEW"
    BY <1>1 DEF StoryAt, CanAcknowledge
  <1>3. /\ t.name = "ACKNOWLEDGED" /\ t.broker_id = id
        /\ t.filled = s.filled /\ t.cost = s.cost /\ t.reason = s.reason
    BY <1>1 DEF Acknowledge, OrderState
  <1>4. s.filled = 0 /\ s.cost = 0 /\ s.reason = None
    BY <1>2 DEF OrderStory
  <1> HIDE DEF t
  <1>5. OrderStory([o EXCEPT !.state = t], id)
    BY <1>1, <1>2, <1>3, <1>4, StateFields, NoneAssumption DEF OrderStory, Live
  <1> QED BY <1>1, <1>2, <1>5, StateFields DEF StoryAt, t

LEMMA RejectStory ==
  ASSUME NEW o \in Order, NEW file, StoryAt(o, file), CanReject(o.state), NEW why \in Reasons
  PROVE  StoryAt([o EXCEPT !.state = Reject(o.state, why)], file)
  <1> DEFINE s == o.state
             t == Reject(s, why)
  <1>1. s \in OrderState /\ t \in OrderState /\ o # None
    BY OrderFields, TransitionsTyped
  <1>2. OrderStory(o, file) /\ o.qty > 0 /\ s.name = "NEW"
    BY <1>1 DEF StoryAt, CanReject
  <1>3. /\ t.name = "REJECTED" /\ t.broker_id = s.broker_id
        /\ t.filled = s.filled /\ t.cost = s.cost /\ t.reason = why
    BY <1>1 DEF Reject, OrderState
  <1>4. s.filled = 0 /\ s.cost = 0 /\ s.broker_id = None /\ file = None
    BY <1>2 DEF OrderStory, Live
  <1> HIDE DEF t
  <1>5. OrderStory([o EXCEPT !.state = t], file)
    BY <1>1, <1>2, <1>3, <1>4, StateFields, NoneAssumption DEF OrderStory, Live
  <1> QED BY <1>1, <1>2, <1>5, StateFields DEF StoryAt, t

LEMMA CancelStory ==
  ASSUME NEW o \in Order, NEW file, StoryAt(o, file), CanCancel(o.state)
  PROVE  StoryAt([o EXCEPT !.state = Cancel(o.state)], file)
  <1> DEFINE s == o.state
             t == Cancel(s)
  <1>1. s \in OrderState /\ t \in OrderState /\ o # None
    BY OrderFields, TransitionsTyped
  <1>2. OrderStory(o, file) /\ o.qty > 0 /\ s.name \in {"NEW", "ACKNOWLEDGED", "PARTIALLY_FILLED"}
    BY <1>1 DEF StoryAt, CanCancel, Live
  <1>3. /\ t.name = "CANCELLED" /\ t.broker_id = None
        /\ t.filled = s.filled /\ t.cost = s.cost /\ t.reason = s.reason
    BY <1>1 DEF Cancel, OrderState
  <1>4. s.filled < o.qty /\ s.reason = None
    BY <1>1, <1>2, StateFields DEF OrderStory, OrderState
  <1> HIDE DEF t
  <1>5. OrderStory([o EXCEPT !.state = t], file)
    BY <1>1, <1>2, <1>3, <1>4, StateFields, NoneAssumption DEF OrderStory, Live
  <1> QED BY <1>1, <1>2, <1>5, StateFields DEF StoryAt, t

LEMMA NotionalNat ==
  ASSUME NEW px \in Pxs, NEW qty \in Nat
  PROVE  Notional(px, qty) \in Nat /\ (qty > 0 => Notional(px, qty) > 0)
  BY DEF Notional, Pxs

LEMMA FillStory ==
  ASSUME NEW o \in Order, NEW file, StoryAt(o, file), NEW qty \in Nat, NEW px \in Pxs,
         CanFill(o.state, o.qty, qty, px)
  PROVE  StoryAt([o EXCEPT !.state = Fill(o.state, o.qty, qty, px)], file)
  <1> DEFINE s == o.state
             t == Fill(s, o.qty, qty, px)
             n == Notional(px, qty)
  <1>1. s \in OrderState /\ t \in OrderState /\ o # None /\ o.qty \in Nat
    BY OrderFields, TransitionsTyped
  <1>2. /\ OrderStory(o, file) /\ o.qty > 0 /\ s.name \in Live
        /\ qty > 0 /\ s.filled + qty <= o.qty
    BY <1>1 DEF StoryAt, CanFill
  <1>3. n \in Nat
    BY NotionalNat
  <1>4. s.filled \in Nat /\ s.cost \in Int /\ s.cost >= 0
    BY <1>1, <1>2 DEF OrderStory, OrderState
  <1>5. /\ t.filled = s.filled + qty /\ t.cost = s.cost + n /\ t.reason = s.reason
        /\ t.filled = o.qty => t.name = "FILLED" /\ t.broker_id = None
        /\ t.filled # o.qty => t.name = "PARTIALLY_FILLED" /\ t.broker_id = s.broker_id
    BY <1>1, <1>4 DEF Fill, OrderState
  <1>6. s.reason = None /\ s.broker_id = file /\ file # None
    BY <1>2 DEF OrderStory, Live
  <1> HIDE DEF t, n
  <1>7. OrderStory([o EXCEPT !.state = t], file)
    BY <1>1, <1>2, <1>3, <1>4, <1>5, <1>6, StateFields DEF OrderStory, Live
  <1> QED BY <1>1, <1>2, <1>7, StateFields DEF StoryAt, t

-----------------------------------------------------------------------------
(* A world whose orders differ from w's in the state of one of them.       *)
LEMMA AdvanceStory ==
  ASSUME NEW w \in World, Story(w), NEW i \in Ids, w.orders[i] # None,
         NEW s \in OrderState, NEW file \in Int \cup {None},
         StoryAt([w.orders[i] EXCEPT !.state = s], file),
         NEW u, u.orders = Advance(w.orders, i, s),
         u.order_broker_ids = [w.order_broker_ids EXCEPT ![i] = file]
  PROVE  Story(u)
  <1> SUFFICES ASSUME NEW j \in Ids
               PROVE  StoryAt(u.orders[j], u.order_broker_ids[j])
    BY DEF Story
  <1>1. CASE j = i
    <2>1. u.orders[j] = [w.orders[i] EXCEPT !.state = s] /\ u.order_broker_ids[j] = file
      BY <1>1, WorldFields DEF Advance
    <2> QED BY <2>1
  <1>2. CASE j # i
    <2>1. u.orders[j] = w.orders[j] /\ u.order_broker_ids[j] = w.order_broker_ids[j]
      BY <1>2, WorldFields DEF Advance
    <2> QED BY <2>1 DEF Story
  <1> QED BY <1>1, <1>2

(* The same, when the venue's ids stay as they are.                        *)
LEMMA AdvanceStoryKeepingIds ==
  ASSUME NEW w \in World, Story(w), NEW i \in Ids, w.orders[i] # None,
         NEW s \in OrderState,
         StoryAt([w.orders[i] EXCEPT !.state = s], w.order_broker_ids[i]),
         NEW u, u.orders = Advance(w.orders, i, s),
         u.order_broker_ids = w.order_broker_ids
  PROVE  Story(u)
  <1>1. w.order_broker_ids[i] \in Int \cup {None}
    BY WorldFields
  <1>2. u.order_broker_ids = [w.order_broker_ids EXCEPT ![i] = w.order_broker_ids[i]]
    BY WorldFields
  <1> QED BY <1>1, <1>2, AdvanceStory

LEMMA SameOrdersStory ==
  ASSUME NEW w, Story(w), NEW u, u.orders = w.orders, u.order_broker_ids = w.order_broker_ids
  PROVE  Story(u)
  BY DEF Story

(* A new order under an id nobody has used.                                *)
LEMMA NewOrderStory ==
  ASSUME NEW w \in World, Story(w), NEW i \in Ids, w.orders[i] = None,
         NEW t \in Terms, t.qty > 0, NEW original,
         NEW u, u.orders[i] = Submitted(t, original),
         \A j \in Ids \ {i} : u.orders[j] = w.orders[j],
         u.order_broker_ids = w.order_broker_ids
  PROVE  Story(u)
  <1> SUFFICES ASSUME NEW j \in Ids
               PROVE  StoryAt(u.orders[j], u.order_broker_ids[j])
    BY DEF Story
  <1>1. CASE j = i
    <2>1. u.orders[j] = Submitted(t, original) /\ u.order_broker_ids[j] = None
      BY <1>1, WorldFields DEF Story, StoryAt
    <2> QED BY <2>1, SubmittedStory
  <1>2. CASE j # i
    <2>1. u.orders[j] = w.orders[j] /\ u.order_broker_ids[j] = w.order_broker_ids[j]
      BY <1>2, WorldFields
    <2> QED BY <2>1 DEF Story
  <1> QED BY <1>1, <1>2

LEMMA FilledPartsTyped ==
  ASSUME NEW w \in World, NEW e \in FilledEvent, OrderTakes(w, e)
  PROVE  /\ FillOrder(w, e) \in World
         /\ BookTakes(w, e) => FillBook(FillOrder(w, e), e) \in World
  <1>1. w.orders[e.id] # None /\ e.qty > 0
    BY DEF OrderTakes, CanFill
  <1>2. BookTakes(w, e) => BookTakes(FillOrder(w, e), e)
    BY <1>1, FillOrderTyped DEF BookTakes
  <1> QED BY <1>1, <1>2, FillOrderTyped, FillBookTyped

(* A fill touches its order and nothing else that the story is about.      *)
LEMMA FilledOrders ==
  ASSUME NEW w \in World, NEW e \in FilledEvent, OrderTakes(w, e)
  PROVE  /\ ApplyFilled(w, e).orders =
              Advance(w.orders, e.id,
                      Fill(w.orders[e.id].state, w.orders[e.id].qty, e.qty, e.px))
         /\ ApplyFilled(w, e).order_broker_ids = w.order_broker_ids
  <1>1. \A u \in World : /\ FillBook(u, e).orders = u.orders
                         /\ FillBook(u, e).order_broker_ids = u.order_broker_ids
    BY DEF FillBook, World
  <1>2. \A u \in World : /\ FillTape(u, e).orders = u.orders
                         /\ FillTape(u, e).order_broker_ids = u.order_broker_ids
    BY DEF FillTape, World
  <1>3. /\ FillOrder(w, e) \in World
        /\ BookTakes(w, e) => FillBook(FillOrder(w, e), e) \in World
    BY FilledPartsTyped
  <1>4. ApplyFilled(w, e).orders = FillOrder(w, e).orders
    BY <1>1, <1>2, <1>3 DEF ApplyFilled
  <1>5. ApplyFilled(w, e).order_broker_ids = FillOrder(w, e).order_broker_ids
    BY <1>1, <1>2, <1>3 DEF ApplyFilled
  <1>6. /\ FillOrder(w, e).orders =
             Advance(w.orders, e.id,
                     Fill(w.orders[e.id].state, w.orders[e.id].qty, e.qty, e.px))
        /\ FillOrder(w, e).order_broker_ids = w.order_broker_ids
    BY DEF FillOrder, World
  <1> QED BY <1>4, <1>5, <1>6

-----------------------------------------------------------------------------
LEMMA ApplyStory ==
  ASSUME NEW w \in World, NEW b, Story(w), NEW e \in Event, Proper(w, b, e)
  PROVE  Story(Apply(w, e))
  <1> DEFINE u == Apply(w, e)
  <1> SUFFICES Story(u)
    OBVIOUS
  <1>1. CASE e \in CreatedEvent
    <2>1. u.orders = w.orders /\ u.order_broker_ids = w.order_broker_ids
      BY <1>1 DEF Apply, CreatedEvent, World
    <2> QED BY <2>1, SameOrdersStory
  <1>2. CASE e \in SubmittedEvent
    <2>1. e.kind = "OrderSubmitted" /\ e.id \in Ids /\ e.order \in Terms
      BY <1>2 DEF SubmittedEvent
    <2>2. /\ u.orders[e.id] = Submitted(e.order, None)
          /\ \A j \in Ids \ {e.id} : u.orders[j] = w.orders[j]
          /\ u.order_broker_ids = w.order_broker_ids
      BY <2>1 DEF Apply, World
    <2>3. w.orders[e.id] = None /\ e.order.qty > 0
      BY <2>1 DEF Proper
    <2> HIDE DEF u
    <2> QED BY <2>1, <2>2, <2>3, NewOrderStory
  <1>3. CASE e \in AcknowledgedEvent
    <2>1. e.kind = "OrderAcknowledged" /\ e.id \in Ids /\ e.broker_id \in Int
      BY <1>3 DEF AcknowledgedEvent
    <2>2. CASE ~ Applies(w, e)
      BY <2>1, <2>2 DEF Apply
    <2>3. CASE Applies(w, e)
      <3> DEFINE o == w.orders[e.id]
                 s == Acknowledge(o.state, e.broker_id)
      <3>1. o # None /\ CanAcknowledge(o.state)
        BY <2>1, <2>3 DEF Applies
      <3>2. o \in Order /\ s \in OrderState
        BY <2>1, <3>1, WorldFields, OrderFields, TransitionsTyped, ZenonT(30)
      <3>3. StoryAt([o EXCEPT !.state = s], e.broker_id)
        BY <2>1, <3>1, <3>2, AcknowledgeStory DEF Story
      <3>4. /\ u.orders = Advance(w.orders, e.id, s)
            /\ u.order_broker_ids = [w.order_broker_ids EXCEPT ![e.id] = e.broker_id]
        BY <2>1, <2>3 DEF Apply, ApplyAcknowledged, World
      <3> HIDE DEF u, s
      <3> QED BY <2>1, <3>1, <3>2, <3>3, <3>4, AdvanceStory
    <2> QED BY <2>2, <2>3
  <1>4. CASE e \in RejectedEvent
    <2>1. e.kind = "OrderRejected" /\ e.id \in Ids /\ e.reason \in Reasons
      BY <1>4 DEF RejectedEvent
    <2>2. CASE ~ Applies(w, e)
      BY <2>1, <2>2 DEF Apply
    <2>3. CASE Applies(w, e)
      <3> DEFINE o == w.orders[e.id]
                 s == Reject(o.state, e.reason)
      <3>1. o # None /\ CanReject(o.state)
        BY <2>1, <2>3 DEF Applies
      <3>2. o \in Order /\ s \in OrderState
        BY <2>1, <3>1, WorldFields, OrderFields, TransitionsTyped, ZenonT(30)
      <3>3. StoryAt([o EXCEPT !.state = s], w.order_broker_ids[e.id])
        BY <2>1, <3>1, <3>2, RejectStory DEF Story
      <3>4. u.orders = Advance(w.orders, e.id, s) /\ u.order_broker_ids = w.order_broker_ids
        BY <2>1, <2>3 DEF Apply, ApplyRejected, World
      <3> HIDE DEF u, s
      <3> QED BY <2>1, <3>1, <3>2, <3>3, <3>4, AdvanceStoryKeepingIds
    <2> QED BY <2>2, <2>3
  <1>5. CASE e \in CancelledEvent
    <2>1. e.kind = "OrderCancelled" /\ e.id \in Ids
      BY <1>5 DEF CancelledEvent
    <2>2. CASE ~ Applies(w, e)
      BY <2>1, <2>2 DEF Apply
    <2>3. CASE Applies(w, e)
      <3> DEFINE o == w.orders[e.id]
                 s == Cancel(o.state)
      <3>1. o # None /\ CanCancel(o.state)
        BY <2>1, <2>3 DEF Applies
      <3>2. o \in Order /\ s \in OrderState
        BY <2>1, <3>1, WorldFields, OrderFields, TransitionsTyped
      <3>3. StoryAt([o EXCEPT !.state = s], w.order_broker_ids[e.id])
        BY <2>1, <3>1, <3>2, CancelStory DEF Story
      <3>4. u.orders = Advance(w.orders, e.id, s) /\ u.order_broker_ids = w.order_broker_ids
        BY <2>1, <2>3 DEF Apply, ApplyCancelled, World
      <3> HIDE DEF u, s
      <3> QED BY <2>1, <3>1, <3>2, <3>3, <3>4, AdvanceStoryKeepingIds
    <2> QED BY <2>2, <2>3
  <1>6. CASE e \in ReplacedEvent
    <2>1. /\ e.kind = "OrderReplaced" /\ e.original \in Ids /\ e.id \in Ids
          /\ e.replacement \in Terms
      BY <1>6 DEF ReplacedEvent
    <2>2. CASE ~ Applies(w, e)
      BY <2>1, <2>2 DEF Apply
    <2>3. CASE Applies(w, e)
      <3> DEFINE o == w.orders[e.original]
                 s == Cancel(o.state)
                 orders == Advance(w.orders, e.original, s)
                 v == [w EXCEPT !.orders = orders]
      <3>1. o # None /\ CanCancel(o.state)
        BY <2>1, <2>3 DEF Applies
      <3>2. o \in Order /\ s \in OrderState
        BY <2>1, <3>1, WorldFields, OrderFields, TransitionsTyped
      <3>3. StoryAt([o EXCEPT !.state = s], w.order_broker_ids[e.original])
        BY <2>1, <3>1, <3>2, CancelStory DEF Story
      <3>4. orders \in [Ids -> Order \cup {None}]
        BY <2>1, <3>1, <3>2, AdvanceTyped
      <3>5. w.orders[e.id] = None /\ e.replacement.qty > 0
        BY <2>1 DEF Proper
      <3>6. orders[e.id] = None
        BY <2>1, <3>1, <3>5, WorldFields DEF Advance
      <3>7. u = [w EXCEPT !.orders =
                   [orders EXCEPT ![e.id] = Submitted(e.replacement, e.original)]]
        BY <2>1, <2>3 DEF Apply, ApplyReplaced
      <3>8. v \in World /\ v.orders = orders /\ v.order_broker_ids = w.order_broker_ids
        <4> HIDE DEF orders
        <4> QED BY <3>4 DEF World
      <3>9. /\ u.orders[e.id] = Submitted(e.replacement, e.original)
            /\ \A j \in Ids \ {e.id} : u.orders[j] = v.orders[j]
            /\ u.order_broker_ids = v.order_broker_ids
        <4> HIDE DEF orders, u
        <4> QED BY <2>1, <3>4, <3>7, <3>8 DEF World
      <3>10. Story(v)
        <4> HIDE DEF v, s
        <4> QED BY <2>1, <3>1, <3>2, <3>3, <3>8, AdvanceStoryKeepingIds
      <3> HIDE DEF u, v, orders
      <3> QED BY <2>1, <3>5, <3>6, <3>8, <3>9, <3>10, NewOrderStory
    <2> QED BY <2>2, <2>3
  <1>7. CASE e \in FilledEvent
    <2>1. e.kind = "OrderFilled" /\ e.id \in Ids /\ e.qty \in Nat /\ e.px \in Pxs
      BY <1>7 DEF FilledEvent
    <2>2. CASE ~ OrderTakes(w, e)
      BY <2>1, <2>2 DEF Apply
    <2>3. CASE OrderTakes(w, e)
      <3> DEFINE o == w.orders[e.id]
                 s == Fill(o.state, o.qty, e.qty, e.px)
      <3>1. o # None /\ CanFill(o.state, o.qty, e.qty, e.px)
        BY <2>3 DEF OrderTakes
      <3>2. o \in Order /\ s \in OrderState
        BY <2>1, <3>1, WorldFields, OrderFields, TransitionsTyped, ZenonT(30)
      <3>3. StoryAt([o EXCEPT !.state = s], w.order_broker_ids[e.id])
        BY <2>1, <3>1, <3>2, FillStory DEF Story
      <3>4. u = ApplyFilled(w, e)
        BY <2>1, <2>3 DEF Apply
      <3>5. u.orders = Advance(w.orders, e.id, s) /\ u.order_broker_ids = w.order_broker_ids
        BY <1>7, <2>3, <3>4, FilledOrders
      <3> HIDE DEF u, s
      <3> QED BY <2>1, <3>1, <3>2, <3>3, <3>5, AdvanceStoryKeepingIds
    <2> QED BY <2>2, <2>3
  <1>8. CASE e \in MarkEvent
    <2>1. u.orders = w.orders /\ u.order_broker_ids = w.order_broker_ids
      BY <1>8 DEF Apply, MarkEvent, World
    <2> QED BY <2>1, SameOrdersStory
  <1>9. CASE e \in UpsertedEvent
    <2>1. u.orders = w.orders /\ u.order_broker_ids = w.order_broker_ids
      BY <1>9 DEF Apply, UpsertedEvent, World
    <2> QED BY <2>1, SameOrdersStory
  <1>10. CASE e \in RemovedEvent
    <2>1. u.orders = w.orders /\ u.order_broker_ids = w.order_broker_ids
      BY <1>10 DEF Apply, RemovedEvent, World
    <2> QED BY <2>1, SameOrdersStory
  <1>11. CASE e \in ClosedEvent
    <2>1. u.orders = w.orders /\ u.order_broker_ids = w.order_broker_ids
      BY <1>11 DEF Apply, ApplyDayClosed, ClosedEvent, World
    <2> QED BY <2>1, SameOrdersStory
  <1> QED
    BY <1>1, <1>2, <1>3, <1>4, <1>5, <1>6, <1>7, <1>8, <1>9, <1>10, <1>11 DEF Event

LEMMA CommitStory ==
  ASSUME NEW w \in World, NEW b, Story(w), NEW plan, ProperPlan(w, b, plan)
  PROVE  Story(Commit(w, plan.events))
  <1> DEFINE events == plan.events
             u == Apply(w, events[1])
  <1>1. events \in Seq(Event) /\ Len(events) \in Nat /\ Len(events) <= 2
    BY DEF ProperPlan, PlanOK
  <1>2. Len(events) = 0 \/ Len(events) = 1 \/ Len(events) = 2
    <2> HIDE DEF events
    <2> QED BY <1>1, AtMostTwo
  <1>3. CASE Len(events) = 0
    BY <1>3 DEF Commit
  <1>4. ASSUME Len(events) = 1 \/ Len(events) = 2
        PROVE  Story(u) /\ u \in World
    <2>1. events[1] \in Event /\ Proper(w, b, events[1])
      BY <1>1, <1>4 DEF ProperPlan
    <2> QED BY <2>1, ApplyStory, ApplyTyped
  <1>5. CASE Len(events) = 1
    BY <1>4, <1>5 DEF Commit
  <1>6. CASE Len(events) = 2
    <2>1. events[2] \in Answer
      BY <1>6 DEF ProperPlan
    <2>2. events[2] \in Event /\ Proper(u, b, events[2])
      BY <2>1, AnswersAreProper
    <2>3. Story(Apply(u, events[2]))
      BY <1>4, <1>6, <2>2, ApplyStory
    <2>4. Commit(w, events) \in {u, Apply(u, events[2])}
      BY <1>6 DEF Commit
    <2> QED BY <1>4, <1>6, <2>3, <2>4
  <1> QED BY <1>2, <1>3, <1>5, <1>6

-----------------------------------------------------------------------------
(* The inductive invariant.                                                *)
StoryInv == TypeOK /\ Story(world)

LEMMA StepKeepsStory ==
  ASSUME StoryInv, [Next]_vars
  PROVE  Story(world)'
  <1>1. CASE Next
    <2>1. PICK plan : ProperPlan(world, broker, plan) /\ world' = Commit(world, plan.events)
      BY <1>1, EveryStepIsProper DEF ProperStep, StoryInv
    <2> QED BY <2>1, CommitStory DEF StoryInv, TypeOK
  <1>2. CASE UNCHANGED vars
    BY <1>2 DEF vars, StoryInv
  <1> QED BY <1>1, <1>2

LEMMA StoryInvariant == Spec => []StoryInv
  <1>1. Init => Story(world)
    BY DEF Init, EmptyWorld, Story, StoryAt
  <1>2. StoryInv /\ [Next]_vars => Story(world)'
    BY StepKeepsStory
  <1> QED BY <1>1, <1>2, TypeSafety, PTL DEF Spec, StoryInv

(* No order is ever overfilled, filled after it ended, or known to the     *)
(* venue under another id than the one on file, and its state says exactly *)
(* how much of it is done (domain/src/lifecycle.rs, Engine::apply).        *)
THEOREM OrdersAlwaysTellOneStory == Spec => []OrdersTellOneStory
  <1>1. StoryInv => OrdersTellOneStory
    BY DEF StoryInv, Story, StoryAt, OrdersTellOneStory, Known
  <1> QED BY <1>1, StoryInvariant, PTL

-----------------------------------------------------------------------------
(* What an effect may do to one order: leave it, start it, cancel it, or   *)
(* fill it.                                                                *)
Born(w, u, k) ==
  /\ w.orders[k] = None /\ u.orders[k] # None
  /\ u.orders[k].state.name \in {"ACKNOWLEDGED", "REJECTED"}
  /\ u.orders[k].state.filled = 0 /\ u.orders[k].state.cost = 0

Gone(w, u, k) ==
  /\ w.orders[k] # None /\ CanCancel(w.orders[k].state)
  /\ u.orders[k] = InState(w.orders[k], Cancel(w.orders[k].state))

Rested(w, u, k) ==
  /\ u.orders[k] = w.orders[k] \/ Born(w, u, k) \/ Gone(w, u, k)
  /\ u.order_executions[k] = w.order_executions[k]
  /\ u.order_fees[k] = w.order_fees[k]

(* A fill reaches the tape unless the day's turnover overflows.            *)
Booked(w, b, u, e) ==
  LET o == w.orders[e.id]
  IN  /\ CanBook(w, b, e)
      /\ u.orders[e.id] = InState(o, Fill(o.state, o.qty, e.qty, e.px))
      /\ IF Fits(Traded(w, e))
         THEN /\ u.order_executions[e.id] = Append(w.order_executions[e.id], Row(e))
              /\ u.order_fees[e.id] = w.order_fees[e.id] + e.fee
         ELSE /\ u.order_executions[e.id] = w.order_executions[e.id]
              /\ u.order_fees[e.id] = w.order_fees[e.id]

Changed(w, b, u, k) ==
  Rested(w, u, k) \/ \E e \in FilledEvent : e.id = k /\ Booked(w, b, u, e)

(* A fill of another order leaves this one alone.                          *)
LEMMA FillChanges ==
  ASSUME NEW w \in World, NEW b, NEW e \in FilledEvent, CanBook(w, b, e)
  PROVE  \A k \in Ids : Changed(w, b, ApplyFilled(w, e), k)
  <1> DEFINE u == ApplyFilled(w, e)
             o == w.orders[e.id]
             v == FillBook(FillOrder(w, e), e)
  <1>1. OrderTakes(w, e) /\ BookTakes(w, e) /\ o # None
    BY DEF CanBook, OrderTakes
  <1>2. /\ e.id \in Ids
        /\ u.orders = Advance(w.orders, e.id, Fill(o.state, o.qty, e.qty, e.px))
    BY <1>1, FilledOrders, FillFacts
  <1>3. /\ u.orders[e.id] = InState(o, Fill(o.state, o.qty, e.qty, e.px))
        /\ \A k \in Ids \ {e.id} : u.orders[k] = w.orders[k]
    BY <1>2, WorldFields DEF Advance, InState
  <1>4. /\ v \in World
        /\ v.order_executions = w.order_executions /\ v.order_fees = w.order_fees
        /\ v.day_turnover = w.day_turnover /\ v.day_fills = w.day_fills
    <2>1. FillOrder(w, e) \in World /\ v \in World
      BY <1>1, FilledPartsTyped
    <2>2. \A x \in World : /\ FillBook(x, e).order_executions = x.order_executions
                           /\ FillBook(x, e).order_fees = x.order_fees
                           /\ FillBook(x, e).day_turnover = x.day_turnover
                           /\ FillBook(x, e).day_fills = x.day_fills
      BY DEF FillBook, World
    <2>3. /\ FillOrder(w, e).order_executions = w.order_executions
          /\ FillOrder(w, e).order_fees = w.order_fees
          /\ FillOrder(w, e).day_turnover = w.day_turnover
          /\ FillOrder(w, e).day_fills = w.day_fills
      BY DEF FillOrder, World
    <2> QED BY <2>1, <2>2, <2>3
  <1>5. \A k \in Ids \ {e.id} : /\ u.order_executions[k] = w.order_executions[k]
                                /\ u.order_fees[k] = w.order_fees[k]
    <2>1. \A x \in World : \A k \in Ids \ {e.id} :
            /\ FillTape(x, e).order_executions[k] = x.order_executions[k]
            /\ FillTape(x, e).order_fees[k] = x.order_fees[k]
      BY DEF FillTape, World
    <2> HIDE DEF v
    <2> QED BY <1>1, <1>4, <2>1 DEF ApplyFilled, v
  <1>6. IF Fits(Traded(w, e))
        THEN /\ u.order_executions[e.id] = Append(w.order_executions[e.id], Row(e))
             /\ u.order_fees[e.id] = w.order_fees[e.id] + e.fee
        ELSE /\ u.order_executions[e.id] = w.order_executions[e.id]
             /\ u.order_fees[e.id] = w.order_fees[e.id]
    <2>1. \A x \in World :
            /\ FillTape(x, e).order_executions[e.id] = Append(x.order_executions[e.id], Row(e))
            /\ FillTape(x, e).order_fees[e.id] = x.order_fees[e.id] + e.fee
      BY <1>2 DEF FillTape, World
    <2> HIDE DEF v
    <2> QED BY <1>1, <1>4, <2>1 DEF ApplyFilled, v
  <1>7. Booked(w, b, u, e)
    <2> HIDE DEF u
    <2> QED BY <1>3, <1>6 DEF Booked
  <1>8. \A k \in Ids \ {e.id} : Rested(w, u, k)
    <2> HIDE DEF u
    <2> QED BY <1>3, <1>5 DEF Rested
  <1> HIDE DEF u
  <1> QED BY <1>7, <1>8 DEF Changed, u

LEMMA PlacingChanges ==
  ASSUME NEW w \in World, NEW i \in Ids, NEW t \in Terms, NEW original \in Ids \cup {None},
         CanPlace(w, i, t, original),
         NEW state \in OrderState, state.name \in {"ACKNOWLEDGED", "REJECTED"},
         state.filled = 0, state.cost = 0,
         NEW u, u.orders = Placed(w.orders, i, t, original, state),
         u.order_executions = w.order_executions, u.order_fees = w.order_fees
  PROVE  \A k \in Ids : Rested(w, u, k)
  <1>1. /\ w.orders[i] = None /\ i # original
        /\ u.orders[i] = InState(Submitted(t, original), state)
        /\ \A k \in Ids : k # i /\ k # original => u.orders[k] = w.orders[k]
        /\ original # None => u.orders[original]
                                = InState(w.orders[original], Cancel(w.orders[original].state))
    BY PlacedOrders
  <1>2. u.orders[i] # None /\ u.orders[i].state = state
    <2> DEFINE n == Submitted(t, original)
    <2>1. n \in Order
      BY SubmittedTyped
    <2> HIDE DEF n
    <2> QED BY <1>1, <2>1, InStateFields DEF n
  <1>3. Rested(w, u, i)
    BY <1>1, <1>2 DEF Rested, Born
  <1>4. original # None => Rested(w, u, original)
    BY <1>1 DEF Rested, Gone, CanPlace
  <1>5. ASSUME NEW k \in Ids, k # i, k # original PROVE Rested(w, u, k)
    BY <1>1, <1>5 DEF Rested
  <1> QED
    <2>1. \A k \in Ids : k # None
      BY NoneAssumption DEF Ids
    <2> QED BY <1>3, <1>4, <1>5, <2>1

(* An effect that is no fill leaves every order's cost and executions.     *)
LEMMA OtherEffectsRest ==
  ASSUME NEW w \in World, NEW b \in Broker, NEW u, Effect(w, b, u), ~ Fills(w, b, u)
  PROVE  \A k \in Ids : Rested(w, u, k)
  <1>1. CASE Cancels(w, u)
    <2>1. PICK i \in Ids : /\ w.orders[i] # None /\ CanCancel(w.orders[i].state)
                           /\ u = [w EXCEPT !.orders = Advance(w.orders, i, Cancel(w.orders[i].state))]
      BY <1>1 DEF Cancels
    <2>2. /\ u.orders = Advance(w.orders, i, Cancel(w.orders[i].state))
          /\ u.order_executions = w.order_executions /\ u.order_fees = w.order_fees
      BY <2>1 DEF World
    <2>3. /\ u.orders[i] = InState(w.orders[i], Cancel(w.orders[i].state))
          /\ \A k \in Ids \ {i} : u.orders[k] = w.orders[k]
      BY <2>2, WorldFields DEF Advance, InState
    <2> QED
      BY <2>1, <2>2, <2>3 DEF Rested, Gone
  <1>2. CASE Refuses(w, u)
    <2>1. PICK i \in Ids, t \in Terms, original \in Ids \cup {None}, why \in Reasons :
            CanPlace(w, i, t, original) /\ u = Refused(w, i, t, original, why)
      BY <1>2 DEF Refuses
    <2> DEFINE state == Reject(New, why)
    <2>2. /\ u.orders = Placed(w.orders, i, t, original, state)
          /\ u.order_executions = w.order_executions /\ u.order_fees = w.order_fees
      BY <2>1 DEF Refused, World
    <2>3. /\ state \in OrderState /\ state.name \in {"ACKNOWLEDGED", "REJECTED"}
          /\ state.filled = 0 /\ state.cost = 0
      BY NewTyped, TransitionsTyped DEF Reject, New
    <2> HIDE DEF state
    <2> QED
      BY <2>1, <2>2, <2>3, PlacingChanges
  <1>3. CASE Accepts(w, b, u)
    <2>1. PICK i \in Ids, t \in Terms, original \in Ids \cup {None} :
            CanPlace(w, i, t, original) /\ u = Taken(w, i, t, original, b.next_id)
      BY <1>3 DEF Accepts
    <2> DEFINE state == Acknowledge(New, b.next_id)
    <2>2. /\ u.orders = Placed(w.orders, i, t, original, state)
          /\ u.order_executions = w.order_executions /\ u.order_fees = w.order_fees
      BY <2>1 DEF Taken, World
    <2>3. /\ state \in OrderState /\ state.name \in {"ACKNOWLEDGED", "REJECTED"}
          /\ state.filled = 0 /\ state.cost = 0
      BY NewTyped, TransitionsTyped, BrokerTyped DEF Acknowledge, New
    <2> HIDE DEF state
    <2> QED
      BY <2>1, <2>2, <2>3, PlacingChanges
  <1>4. Opens(w, u) \/ Quotes(w, u) \/ Lists(w, u) \/ Delists(w, u) \/ Closes(w, u) \/ u = w
          => /\ u.orders = w.orders
             /\ u.order_executions = w.order_executions /\ u.order_fees = w.order_fees
    BY DEF Opens, Quotes, Lists, Delists, Closes, ApplyDayClosed, World
  <1>5. CASE /\ u.orders = w.orders
             /\ u.order_executions = w.order_executions /\ u.order_fees = w.order_fees
    BY <1>5 DEF Rested
  <1> QED BY <1>1, <1>2, <1>3, <1>4, <1>5 DEF Effect

(* So an order rests or is filled.                                         *)
LEMMA EffectChanges ==
  ASSUME NEW w \in World, NEW b \in Broker, NEW u, Effect(w, b, u)
  PROVE  \A k \in Ids : Changed(w, b, u, k)
  <1>1. CASE Fills(w, b, u)
    BY <1>1, FillChanges DEF Fills
  <1>2. CASE ~ Fills(w, b, u)
    BY <1>2, OtherEffectsRest DEF Changed
  <1> QED BY <1>1, <1>2

(* No order is at rest between its submission and the venue's answer.      *)
Settled(w) == \A i \in Ids : w.orders[i] # None => w.orders[i].state.name # "NEW"

LEMMA EffectKeepsSettled ==
  ASSUME NEW w \in World, NEW b \in Broker, Settled(w), NEW u, Effect(w, b, u)
  PROVE  Settled(u)
  <1> SUFFICES ASSUME NEW k \in Ids, u.orders[k] # None
               PROVE  u.orders[k].state.name # "NEW"
    BY DEF Settled
  <1> DEFINE o == w.orders[k]
             n == u.orders[k]
  <1>1. Changed(w, b, u, k)
    BY EffectChanges
  <1>2. CASE n = o
    BY <1>2 DEF Settled
  <1>3. CASE Born(w, u, k)
    BY <1>3 DEF Born
  <1>4. CASE Gone(w, u, k)
    <2> DEFINE t == Cancel(o.state)
    <2>1. o \in Order /\ n = InState(o, t)
      BY <1>4, WorldFields DEF Gone
    <2>2. t.name = "CANCELLED"
      BY <2>1, OrderFields DEF Cancel, OrderState
    <2> HIDE DEF t, o, n
    <2>3. n.state = t
      BY <2>1, InStateFields
    <2> QED BY <2>2, <2>3 DEF n
  <1>5. ASSUME NEW e \in FilledEvent, e.id = k, Booked(w, b, u, e)
        PROVE  n.state.name # "NEW"
    <2> DEFINE t == Fill(o.state, o.qty, e.qty, e.px)
    <2>1. o # None /\ o \in Order /\ n = InState(o, t)
      BY <1>5, WorldFields DEF Booked, CanBook, OrderTakes
    <2>2. t.name \in {"FILLED", "PARTIALLY_FILLED"}
      BY <2>1, OrderFields DEF Fill, OrderState
    <2> HIDE DEF t, o, n
    <2>3. n.state = t
      BY <2>1, InStateFields
    <2> QED BY <2>2, <2>3
  <1> QED BY <1>1, <1>2, <1>3, <1>4, <1>5 DEF Changed, Rested

LEMMA StepKeepsSettled ==
  ASSUME TypeOK, Settled(world), [Next]_vars
  PROVE  Settled(world)'
  <1>1. CASE Next
    BY <1>1, EveryStepHasAnEffect, EffectKeepsSettled DEF TypeOK
  <1>2. CASE UNCHANGED vars
    BY <1>2 DEF vars
  <1> QED BY <1>1, <1>2

(* No order is ever seen in NEW: the command that submits it also carries  *)
(* the venue's answer, whatever that is (Engine::decide, SubmitOrder and   *)
(* ReplaceOrder).                                                          *)
THEOREM OrdersNeverRestInNew == Spec => []Settled(world)
  <1>1. Init => Settled(world)
    BY DEF Init, EmptyWorld, Settled
  <1>2. TypeOK /\ Settled(world) /\ [Next]_vars => Settled(world)'
    BY StepKeepsSettled
  <1> QED BY <1>1, <1>2, TypeSafety, PTL DEF Spec

-----------------------------------------------------------------------------
(* What a replacement owes to the order it replaces.                       *)
Succeeds(o, p) ==
  /\ p # None /\ p.state.name = "CANCELLED" /\ Remaining(p) > 0
  /\ p.participant = o.participant /\ p.symbol = o.symbol /\ p.side = o.side

Chains(orders) ==
  \A i \in Ids : orders[i] # None /\ orders[i].replaces # None =>
    /\ orders[i].replaces < i
    /\ Succeeds(orders[i], orders[orders[i].replaces])
    /\ \A k \in Ids \ {i} : orders[k] # None => orders[k].replaces # orders[i].replaces

(* Nothing that happens to an order that is not cancelled breaks a chain.  *)
LEMMA ChangedChains ==
  ASSUME NEW before, NEW after, Chains(before),
         \A k \in Ids : before[k] \in Order \cup {None},
         \A k \in Ids : \/ after[k] = before[k]
                       \/ /\ before[k] # None /\ before[k].state.name # "CANCELLED"
                          /\ \E state : after[k] = InState(before[k], state)
  PROVE  Chains(after)
  <1>1. \A k \in Ids : after[k] # None =>
          /\ before[k] # None /\ before[k] \in Order
          /\ after[k].participant = before[k].participant /\ after[k].symbol = before[k].symbol
          /\ after[k].side = before[k].side /\ after[k].replaces = before[k].replaces
    <2> SUFFICES ASSUME NEW k \in Ids, after[k] # None
                 PROVE  /\ before[k] # None /\ before[k] \in Order
                        /\ after[k].participant = before[k].participant
                        /\ after[k].symbol = before[k].symbol
                        /\ after[k].side = before[k].side
                        /\ after[k].replaces = before[k].replaces
      OBVIOUS
    <2>1. before[k] # None /\ before[k] \in Order
      OBVIOUS
    <2>2. ASSUME NEW state, after[k] = InState(before[k], state)
          PROVE  /\ after[k].participant = before[k].participant
                 /\ after[k].symbol = before[k].symbol
                 /\ after[k].side = before[k].side
                 /\ after[k].replaces = before[k].replaces
      BY <2>1, <2>2, InStateFields
    <2> QED BY <2>1, <2>2
  <1> SUFFICES ASSUME NEW i \in Ids, after[i] # None, after[i].replaces # None
               PROVE  /\ after[i].replaces < i
                      /\ Succeeds(after[i], after[after[i].replaces])
                      /\ \A k \in Ids \ {i} :
                           after[k] # None => after[k].replaces # after[i].replaces
    BY DEF Chains
  <1>2. before[i] \in Order /\ before[i] # None /\ before[i].replaces = after[i].replaces
    BY <1>1
  <1> DEFINE j == before[i].replaces
  <1>3. j \in Ids
    BY <1>2 DEF Order
  <1>4. j < i /\ Succeeds(before[i], before[j])
    BY <1>2 DEF Chains
  <1>5. after[j] = before[j]
    BY <1>3, <1>4 DEF Succeeds
  <1>6. Succeeds(after[i], after[j])
    BY <1>1, <1>4, <1>5 DEF Succeeds
  <1>7. \A k \in Ids \ {i} : after[k] # None => after[k].replaces # j
    BY <1>1, <1>2 DEF Chains
  <1> QED BY <1>2, <1>4, <1>6, <1>7

(* A new order ends one chain or starts another.                           *)
LEMMA PlacedChains ==
  ASSUME NEW w \in World, Story(w), Chains(w.orders), NEW i \in Ids, NEW t \in Terms,
         NEW original \in Ids \cup {None}, CanPlace(w, i, t, original), NEW state \in OrderState
  PROVE  Chains(Placed(w.orders, i, t, original, state))
  <1> DEFINE placed == Placed(w.orders, i, t, original, state)
             n == InState(Submitted(t, original), state)
             o == w.orders[original]
             m == [k \in Ids |-> IF k = original THEN placed[original] ELSE w.orders[k]]
  <1>1. /\ w.orders[i] = None /\ i # original
        /\ placed[i] = n
        /\ \A k \in Ids : k # i /\ k # original => placed[k] = w.orders[k]
        /\ original # None => /\ original \in Ids /\ o \in Order
                             /\ placed[original] = InState(o, Cancel(o.state))
    BY PlacedOrders, SMTT(20)
  <1>2. Submitted(t, original) \in Order
    BY SubmittedTyped
  <1>3. /\ n # None /\ n.participant = t.participant /\ n.symbol = t.symbol /\ n.side = t.side
        /\ n.replaces = original
    <2>1. /\ n # None /\ n.replaces = Submitted(t, original).replaces
          /\ n.participant = Submitted(t, original).participant
          /\ n.symbol = Submitted(t, original).symbol /\ n.side = Submitted(t, original).side
      <3> DEFINE b == Submitted(t, original)
      <3> HIDE DEF b
      <3> QED BY <1>2, InStateFields DEF b
    <2> QED BY <2>1 DEF Submitted
  <1>4. \A k \in Ids : w.orders[k] \in Order \cup {None}
    BY WorldFields
  <1>5. original # None => o # None /\ o.state.name # "CANCELLED" /\ CanCancel(o.state)
    BY DEF CanPlace, CanCancel, Live
  <1> HIDE DEF placed, n
  <1>6. Chains(m)
    <2>1. ASSUME NEW k \in Ids
          PROVE  \/ m[k] = w.orders[k]
                 \/ /\ w.orders[k] # None /\ w.orders[k].state.name # "CANCELLED"
                    /\ \E s : m[k] = InState(w.orders[k], s)
      <3>1. CASE k # original
        BY <3>1
      <3>2. CASE k = original
        <4>1. original # None
          BY <3>2, NoneAssumption DEF Ids
        <4>2. m[k] = InState(w.orders[k], Cancel(o.state))
          BY <1>1, <3>2, <4>1
        <4> QED BY <1>5, <3>2, <4>1, <4>2
      <3> QED BY <3>1, <3>2
    <2> HIDE DEF m
    <2> QED BY <1>4, <2>1, ChangedChains
  <1>7. /\ \A k \in Ids \ {i} : placed[k] = m[k]
        /\ \A k \in Ids : m[k] # None => k < i
    <2>1. \A k \in Ids : m[k] # None => w.orders[k] # None
      <3>1. \A k \in Ids : k = original => w.orders[k] # None
        BY <1>5, NoneAssumption DEF Ids
      <3> QED BY <3>1
    <2>2. \A k \in Ids : w.orders[k] # None => k < i
      BY DEF CanPlace
    <2> QED BY <1>1, <2>1, <2>2
  <1>8. ASSUME original # None
        PROVE  /\ original < i /\ Succeeds(n, placed[original])
               /\ \A k \in Ids : m[k] # None => m[k].replaces # original
    <2>1. original \in Ids /\ o \in Order /\ o # None
      BY <1>1, <1>5, <1>8
    <2>2. original < i
      BY <1>8, <2>1 DEF CanPlace
    <2>3. o.qty \in Nat /\ o.state.filled \in Nat /\ o.state.filled < o.qty /\ o.state \in OrderState
      <3>1. OrderStory(o, w.order_broker_ids[original]) /\ o.qty > 0
        BY <2>1 DEF Story, StoryAt
      <3>2. o.qty \in Nat /\ o.state \in OrderState
        BY <2>1 DEF Order
      <3>3. o.state.name \in {"NEW", "ACKNOWLEDGED", "PARTIALLY_FILLED"}
        BY <1>5, <1>8 DEF CanCancel, Live
      <3> QED BY <3>1, <3>2, <3>3 DEF OrderStory, OrderState
    <2>4. /\ Cancel(o.state) \in OrderState /\ Cancel(o.state).name = "CANCELLED"
          /\ Cancel(o.state).filled = o.state.filled
      BY <2>3, TransitionsTyped DEF Cancel, OrderState
    <2>5. /\ placed[original] # None /\ placed[original].state = Cancel(o.state)
          /\ placed[original].qty = o.qty /\ placed[original].participant = o.participant
          /\ placed[original].symbol = o.symbol /\ placed[original].side = o.side
      <3> DEFINE s == Cancel(o.state)
      <3> HIDE DEF s, o
      <3>1. s \in OrderState /\ placed[original] = InState(o, s)
        BY <1>1, <1>8, <2>4 DEF s
      <3> QED BY <2>1, <3>1, InStateFields DEF s
    <2>6. t.participant = o.participant /\ t.symbol = o.symbol /\ t.side = o.side
      BY <1>8 DEF CanPlace
    <2>7. Succeeds(n, placed[original])
      BY <1>3, <2>3, <2>4, <2>5, <2>6 DEF Succeeds, Remaining
    <2>8. ASSUME NEW k \in Ids, m[k] # None, m[k].replaces = original
          PROVE  FALSE
      <3>1. w.orders[k] # None /\ w.orders[k].replaces = original
        <4>1. CASE k = original
          <5>1. m[k] = InState(o, Cancel(o.state))
            BY <1>1, <1>8, <4>1
          <5>2. m[k].replaces = o.replaces
            <6> DEFINE s == Cancel(o.state)
            <6> HIDE DEF s, o, m
            <6>1. m[k] = InState(o, s)
              BY <5>1 DEF s
            <6> QED BY <2>1, <6>1, InStateFields
          <5> QED BY <2>1, <2>8, <4>1, <5>2
        <4>2. CASE k # original
          BY <2>8, <4>2
        <4> QED BY <4>1, <4>2
      <3>2. Succeeds(w.orders[k], o)
        BY <1>8, <3>1 DEF Chains
      <3> QED BY <1>5, <1>8, <3>2 DEF Succeeds
    <2> QED BY <2>2, <2>7, <2>8
  <1>9. ASSUME NEW k \in Ids \ {i}, m[k] # None, m[k].replaces # None
        PROVE  /\ m[k].replaces \in Ids /\ m[k].replaces < k /\ m[k].replaces # i
               /\ Succeeds(m[k], m[m[k].replaces]) /\ m[k].replaces # original
    <2>1. m[k].replaces < k /\ Succeeds(m[k], m[m[k].replaces])
      BY <1>6, <1>9 DEF Chains
    <2>2. m[k].replaces \in Ids
      <3>1. CASE k # original
        BY <1>4, <1>9, <3>1 DEF Order
      <3>2. CASE k = original
        <4> DEFINE s == Cancel(o.state)
        <4>1. original # None
          BY <3>2, NoneAssumption DEF Ids
        <4>2. m[k] = InState(o, s) /\ o \in Order
          BY <1>1, <3>2, <4>1
        <4> HIDE DEF m, s, o
        <4>3. m[k].replaces = o.replaces
          BY <4>2, InStateFields
        <4> QED BY <1>9, <4>2, <4>3 DEF Order
      <3> QED BY <3>1, <3>2
    <2>3. k < i
      BY <1>7, <1>9
    <2>4. m[k].replaces # i
      BY <2>1, <2>2, <2>3 DEF Ids
    <2>5. m[k].replaces # original
      BY <1>8, <1>9
    <2> QED BY <2>1, <2>2, <2>4, <2>5
  <1>10. \A k \in Ids \ {i} : m[k] # None /\ m[k].replaces # None =>
           \A l \in Ids \ {k} : m[l] # None => m[l].replaces # m[k].replaces
    BY <1>6 DEF Chains
  <1>11. original # None => placed[original] = m[original]
    BY <1>1
  <1> HIDE DEF m
  <1> SUFFICES ASSUME NEW k \in Ids, placed[k] # None, placed[k].replaces # None
               PROVE  /\ placed[k].replaces < k
                      /\ Succeeds(placed[k], placed[placed[k].replaces])
                      /\ \A l \in Ids \ {k} :
                           placed[l] # None => placed[l].replaces # placed[k].replaces
    BY DEF Chains, placed
  <1>12. CASE k = i
    BY <1>1, <1>3, <1>7, <1>8, <1>12
  <1>13. CASE k # i
    BY <1>1, <1>3, <1>7, <1>9, <1>10, <1>13
  <1> QED BY <1>12, <1>13

LEMMA EffectKeepsChains ==
  ASSUME NEW w \in World, Story(w), Chains(w.orders), NEW b \in Broker, NEW u, Effect(w, b, u)
  PROVE  Chains(u.orders)
  <1>1. CASE u.orders = w.orders
    BY <1>1
  <1>2. ASSUME NEW i \in Ids, w.orders[i] # None, w.orders[i].state.name # "CANCELLED",
               NEW state, u.orders = Advance(w.orders, i, state)
        PROVE  Chains(u.orders)
    <2>1. /\ u.orders[i] = InState(w.orders[i], state)
          /\ \A k \in Ids \ {i} : u.orders[k] = w.orders[k]
      BY <1>2, WorldFields DEF Advance, InState
    <2>2. \A k \in Ids : w.orders[k] \in Order \cup {None}
      BY WorldFields
    <2>3. \A k \in Ids : \/ u.orders[k] = w.orders[k]
                         \/ /\ w.orders[k] # None /\ w.orders[k].state.name # "CANCELLED"
                            /\ \E s : u.orders[k] = InState(w.orders[k], s)
      BY <1>2, <2>1
    <2> QED BY <2>2, <2>3, ChangedChains
  <1>3. CASE Cancels(w, u)
    <2>1. PICK i \in Ids : /\ w.orders[i] # None /\ CanCancel(w.orders[i].state)
                           /\ u = [w EXCEPT !.orders = Advance(w.orders, i, Cancel(w.orders[i].state))]
      BY <1>3 DEF Cancels
    <2>2. u.orders = Advance(w.orders, i, Cancel(w.orders[i].state))
      BY <2>1 DEF World
    <2> QED BY <1>2, <2>1, <2>2 DEF CanCancel, Live
  <1>4. CASE Fills(w, b, u)
    <2>1. PICK e \in FilledEvent : CanBook(w, b, e) /\ u = ApplyFilled(w, e)
      BY <1>4 DEF Fills
    <2>2. OrderTakes(w, e) /\ e.id \in Ids
      BY <2>1 DEF CanBook, FilledEvent
    <2>3. w.orders[e.id] # None /\ w.orders[e.id].state.name # "CANCELLED"
      BY <2>2 DEF OrderTakes, CanFill, Live
    <2>4. u.orders = Advance(w.orders, e.id,
                       Fill(w.orders[e.id].state, w.orders[e.id].qty, e.qty, e.px))
      BY <2>1, <2>2, FilledOrders
    <2> QED BY <1>2, <2>2, <2>3, <2>4
  <1>5. CASE Refuses(w, u)
    <2>1. PICK i \in Ids, t \in Terms, original \in Ids \cup {None}, why \in Reasons :
            CanPlace(w, i, t, original) /\ u = Refused(w, i, t, original, why)
      BY <1>5 DEF Refuses
    <2>2. u.orders = Placed(w.orders, i, t, original, Reject(New, why))
      BY <2>1 DEF Refused, World
    <2>3. Reject(New, why) \in OrderState
      BY NewTyped, TransitionsTyped
    <2> QED BY <2>1, <2>2, <2>3, PlacedChains
  <1>6. CASE Accepts(w, b, u)
    <2>1. PICK i \in Ids, t \in Terms, original \in Ids \cup {None} :
            CanPlace(w, i, t, original) /\ u = Taken(w, i, t, original, b.next_id)
      BY <1>6 DEF Accepts
    <2>2. u.orders = Placed(w.orders, i, t, original, Acknowledge(New, b.next_id))
      BY <2>1 DEF Taken, World
    <2>3. Acknowledge(New, b.next_id) \in OrderState
      BY NewTyped, TransitionsTyped, BrokerTyped
    <2> QED BY <2>1, <2>2, <2>3, PlacedChains
  <1>7. Opens(w, u) \/ Quotes(w, u) \/ Lists(w, u) \/ Delists(w, u) \/ Closes(w, u) \/ u = w
          => u.orders = w.orders
    BY DEF Opens, Quotes, Lists, Delists, Closes, ApplyDayClosed, World
  <1> QED BY <1>1, <1>3, <1>4, <1>5, <1>6, <1>7 DEF Effect

ChainInv == StoryInv /\ Chains(world.orders)

LEMMA ChainInvariant == Spec => []ChainInv
  <1>1. Init => Chains(world.orders)
    BY DEF Init, EmptyWorld, Chains
  <1>2. ChainInv /\ [Next]_vars => Chains(world.orders)'
    <2> SUFFICES ASSUME ChainInv, [Next]_vars PROVE Chains(world'.orders)
      OBVIOUS
    <2>0. world \in World /\ broker \in Broker /\ Story(world) /\ Chains(world.orders)
      BY DEF ChainInv, StoryInv, TypeOK
    <2>1. CASE Next
      <3>1. Effect(world, broker, world')
        BY <2>1, EveryStepHasAnEffect DEF ChainInv, StoryInv
      <3> QED BY <2>0, <3>1, EffectKeepsChains
    <2>2. CASE UNCHANGED vars
      BY <2>0, <2>2 DEF vars
    <2> QED BY <2>1, <2>2
  <1> QED BY <1>1, <1>2, StoryInvariant, PTL DEF Spec, ChainInv

(* A replacement always points back at an earlier order of the same        *)
(* participant, symbol and side that was cancelled with something left to  *)
(* fill, and at one no other order replaces: chains never branch, loop or  *)
(* revive an order (Command::ReplaceOrder in Engine::decide and apply).    *)
THEOREM ReplaceChainsAlwaysHold == Spec => []ReplaceChainsHold
  <1>1. ChainInv => ReplaceChainsHold
    <2> SUFFICES ASSUME ChainInv PROVE ReplaceChainsHold
      OBVIOUS
    <2> QED BY DEF ChainInv, Chains, Succeeds, ReplaceChainsHold, Known
  <1> QED BY <1>1, ChainInvariant, PTL
-----------------------------------------------------------------------------
(***************************************************************************)
(* What no step of the engine ever takes back: a finished order, an        *)
(* order's terms, its fills, the venue's id for it, and a published day.   *)
(* Both action properties come from the order story, which says that an    *)
(* order the venue knows is past NEW, and from EveryStepIsProper.  The     *)
(* second half is the tape those fills are recorded on.                    *)
(***************************************************************************)
(* The order o became n.                                                   *)
Continues(o, n) ==
  /\ n # None
  /\ [n EXCEPT !.state = o.state] = o
  /\ IsTerminal(o.state) => n = o
  /\ n.state.filled >= o.state.filled

History(w, u) ==
  \A i \in Ids : w.orders[i] # None =>
    /\ Continues(w.orders[i], u.orders[i])
    /\ w.order_broker_ids[i] # None => u.order_broker_ids[i] = w.order_broker_ids[i]

LEMMA OrderUnchanged ==
  ASSUME NEW o \in Order
  PROVE  Continues(o, o)
  <1>1. o # None /\ o.state.filled \in Nat
    BY OrderFields DEF OrderState
  <1>2. [o EXCEPT !.state = o.state] = o
    BY DEF Order
  <1> QED BY <1>1, <1>2 DEF Continues

LEMMA OrderAdvanced ==
  ASSUME NEW o \in Order, NEW s \in OrderState, ~ IsTerminal(o.state),
         s.filled >= o.state.filled
  PROVE  Continues(o, [o EXCEPT !.state = s])
  <1>1. [[o EXCEPT !.state = s] EXCEPT !.state = o.state] = o
    BY DEF Order
  <1> QED BY <1>1, StateFields DEF Continues

LEMMA OrderContinuesTwice ==
  ASSUME NEW o \in Order, NEW n \in Order, NEW m \in Order, Continues(o, n), Continues(n, m)
  PROVE  Continues(o, m)
  <1>1. /\ o.state.filled \in Nat /\ n.state.filled \in Nat /\ m.state.filled \in Nat
    BY OrderFields DEF OrderState
  <1>2. [m EXCEPT !.state = o.state] = [[m EXCEPT !.state = n.state] EXCEPT !.state = o.state]
    BY DEF Order
  <1>3. [m EXCEPT !.state = o.state] = o
    BY <1>2 DEF Continues
  <1> QED BY <1>1, <1>3 DEF Continues

LEMMA NothingChanges ==
  ASSUME NEW w \in World, NEW u, u.orders = w.orders,
         u.order_broker_ids = w.order_broker_ids
  PROVE  History(w, u)
  BY OrderUnchanged, WorldFields DEF History

LEMMA HistoryContinues ==
  ASSUME NEW w \in World, NEW u \in World, NEW v \in World, History(w, u), History(u, v)
  PROVE  History(w, v)
  <1> SUFFICES ASSUME NEW i \in Ids, w.orders[i] # None
               PROVE  /\ Continues(w.orders[i], v.orders[i])
                      /\ w.order_broker_ids[i] # None =>
                           v.order_broker_ids[i] = w.order_broker_ids[i]
    BY DEF History
  <1>1. /\ Continues(w.orders[i], u.orders[i])
        /\ w.order_broker_ids[i] # None => u.order_broker_ids[i] = w.order_broker_ids[i]
    BY DEF History
  <1>2. u.orders[i] # None
    BY <1>1 DEF Continues
  <1>3. /\ Continues(u.orders[i], v.orders[i])
        /\ u.order_broker_ids[i] # None => v.order_broker_ids[i] = u.order_broker_ids[i]
    BY <1>2 DEF History
  <1>4. v.orders[i] # None
    BY <1>3 DEF Continues
  <1>5. w.orders[i] \in Order /\ u.orders[i] \in Order /\ v.orders[i] \in Order
    BY <1>2, <1>4, WorldFields
  <1> QED BY <1>1, <1>3, <1>5, OrderContinuesTwice

(* One order moves on, and no id on file changes.                          *)
LEMMA AdvanceHistory ==
  ASSUME NEW w \in World, NEW i \in Ids, w.orders[i] # None, ~ IsTerminal(w.orders[i].state),
         NEW s \in OrderState, s.filled >= w.orders[i].state.filled,
         NEW u, u.orders = Advance(w.orders, i, s),
         \A j \in Ids : w.order_broker_ids[j] # None =>
           u.order_broker_ids[j] = w.order_broker_ids[j]
  PROVE  History(w, u)
  <1> SUFFICES ASSUME NEW j \in Ids, w.orders[j] # None
               PROVE  Continues(w.orders[j], u.orders[j])
    BY DEF History
  <1>1. w.orders[j] \in Order
    BY WorldFields
  <1>2. CASE j = i
    <2>1. u.orders[j] = [w.orders[j] EXCEPT !.state = s]
      BY <1>2, WorldFields DEF Advance
    <2> QED BY <1>1, <1>2, <2>1, OrderAdvanced
  <1>3. CASE j # i
    <2>1. u.orders[j] = w.orders[j]
      BY <1>3, WorldFields DEF Advance
    <2> QED BY <1>1, <2>1, OrderUnchanged
  <1> QED BY <1>2, <1>3

(* A new order under an id nobody has used.                                *)
LEMMA NewOrderHistory ==
  ASSUME NEW w \in World, NEW i \in Ids, w.orders[i] = None,
         NEW o, NEW u, u.orders = [w.orders EXCEPT ![i] = o],
         u.order_broker_ids = w.order_broker_ids
  PROVE  History(w, u)
  <1> SUFFICES ASSUME NEW j \in Ids, w.orders[j] # None
               PROVE  Continues(w.orders[j], u.orders[j])
    BY DEF History
  <1>1. w.orders[j] \in Order /\ u.orders[j] = w.orders[j]
    BY WorldFields
  <1> QED BY <1>1, OrderUnchanged

(* None of the lifecycle's transitions leaves a terminal state or takes a  *)
(* fill back.                                                              *)
LEMMA TransitionsMoveOn ==
  ASSUME NEW s \in OrderState
  PROVE  /\ CanAcknowledge(s) => /\ ~ IsTerminal(s)
                                 /\ \A id : Acknowledge(s, id).filled >= s.filled
         /\ CanReject(s) => /\ ~ IsTerminal(s)
                            /\ \A why : Reject(s, why).filled >= s.filled
         /\ CanCancel(s) => ~ IsTerminal(s) /\ Cancel(s).filled >= s.filled
         /\ \A ordered, qty \in Nat : \A px :
              CanFill(s, ordered, qty, px) =>
                ~ IsTerminal(s) /\ Fill(s, ordered, qty, px).filled >= s.filled
  <1>1. s.filled \in Nat
    BY DEF OrderState
  <1>2. s.name \in {"NEW"} \cup Live => ~ IsTerminal(s)
    BY DEF IsTerminal, Live, Terminal
  <1>3. /\ \A id : Acknowledge(s, id).filled = s.filled
        /\ \A why : Reject(s, why).filled = s.filled
        /\ Cancel(s).filled = s.filled
    BY DEF Acknowledge, Reject, Cancel, OrderState
  <1>4. \A ordered, qty \in Nat : \A px : Fill(s, ordered, qty, px).filled = s.filled + qty
    BY DEF Fill, OrderState
  <1> QED BY <1>1, <1>2, <1>3, <1>4 DEF CanAcknowledge, CanReject, CanCancel, CanFill

LEMMA ApplyHistory ==
  ASSUME NEW w \in World, NEW b, Story(w), NEW e \in Event, Proper(w, b, e)
  PROVE  History(w, Apply(w, e))
  <1> DEFINE u == Apply(w, e)
  <1> SUFFICES History(w, u)
    OBVIOUS
  <1>1. CASE e \in CreatedEvent \cup MarkEvent \cup UpsertedEvent \cup RemovedEvent \cup ClosedEvent
    <2>1. u.orders = w.orders /\ u.order_broker_ids = w.order_broker_ids
      BY <1>1 DEF Apply, ApplyDayClosed, CreatedEvent, MarkEvent, UpsertedEvent,
                  RemovedEvent, ClosedEvent, World
    <2> QED BY <2>1, NothingChanges
  <1>2. CASE e \in SubmittedEvent
    <2>1. e.kind = "OrderSubmitted" /\ e.id \in Ids
      BY <1>2 DEF SubmittedEvent
    <2>2. /\ u.orders = [w.orders EXCEPT ![e.id] = Submitted(e.order, None)]
          /\ u.order_broker_ids = w.order_broker_ids
      BY <2>1 DEF Apply, World
    <2>3. w.orders[e.id] = None
      BY <2>1 DEF Proper
    <2> HIDE DEF u
    <2> QED BY <2>1, <2>2, <2>3, NewOrderHistory
  <1>3. CASE e \in AcknowledgedEvent
    <2>1. e.kind = "OrderAcknowledged" /\ e.id \in Ids /\ e.broker_id \in Int
      BY <1>3 DEF AcknowledgedEvent
    <2>2. CASE ~ Applies(w, e)
      BY <2>1, <2>2, NothingChanges DEF Apply
    <2>3. CASE Applies(w, e)
      <3> DEFINE o == w.orders[e.id]
                 s == Acknowledge(o.state, e.broker_id)
      <3>1. o # None /\ CanAcknowledge(o.state)
        BY <2>1, <2>3 DEF Applies
      <3>2. o \in Order /\ s \in OrderState /\ ~ IsTerminal(o.state) /\ s.filled >= o.state.filled
        BY <2>1, <3>1, WorldFields, OrderFields, TransitionsTyped, TransitionsMoveOn, ZenonT(30)
      <3>3. w.order_broker_ids[e.id] = None
        BY <2>1, <3>1 DEF Story, StoryAt, OrderStory, CanAcknowledge
      <3>4. /\ u.orders = Advance(w.orders, e.id, s)
            /\ u.order_broker_ids = [w.order_broker_ids EXCEPT ![e.id] = e.broker_id]
        BY <2>1, <2>3 DEF Apply, ApplyAcknowledged, World
      <3>5. \A j \in Ids : w.order_broker_ids[j] # None =>
              u.order_broker_ids[j] = w.order_broker_ids[j]
        BY <3>3, <3>4, WorldFields
      <3>6. /\ e.id \in Ids /\ o # None /\ ~ IsTerminal(o.state)
            /\ s \in OrderState /\ s.filled >= o.state.filled
            /\ u.orders = Advance(w.orders, e.id, s)
        BY <2>1, <3>1, <3>2, <3>4
      <3> HIDE DEF u, s
      <3> QED BY <3>5, <3>6, AdvanceHistory
    <2> QED BY <2>2, <2>3
  <1>4. CASE e \in RejectedEvent
    <2>1. e.kind = "OrderRejected" /\ e.id \in Ids /\ e.reason \in Reasons
      BY <1>4 DEF RejectedEvent
    <2>2. CASE ~ Applies(w, e)
      BY <2>1, <2>2, NothingChanges DEF Apply
    <2>3. CASE Applies(w, e)
      <3> DEFINE o == w.orders[e.id]
                 s == Reject(o.state, e.reason)
      <3>1. o # None /\ CanReject(o.state)
        BY <2>1, <2>3 DEF Applies
      <3>2. o \in Order /\ s \in OrderState /\ ~ IsTerminal(o.state) /\ s.filled >= o.state.filled
        BY <2>1, <3>1, WorldFields, OrderFields, TransitionsTyped, TransitionsMoveOn, ZenonT(30)
      <3>3. u.orders = Advance(w.orders, e.id, s) /\ u.order_broker_ids = w.order_broker_ids
        BY <2>1, <2>3 DEF Apply, ApplyRejected, World
      <3> HIDE DEF u, s
      <3> QED BY <2>1, <3>1, <3>2, <3>3, AdvanceHistory
    <2> QED BY <2>2, <2>3
  <1>5. CASE e \in CancelledEvent
    <2>1. e.kind = "OrderCancelled" /\ e.id \in Ids
      BY <1>5 DEF CancelledEvent
    <2>2. CASE ~ Applies(w, e)
      BY <2>1, <2>2, NothingChanges DEF Apply
    <2>3. CASE Applies(w, e)
      <3> DEFINE o == w.orders[e.id]
                 s == Cancel(o.state)
      <3>1. o # None /\ CanCancel(o.state)
        BY <2>1, <2>3 DEF Applies
      <3>2. o \in Order /\ s \in OrderState /\ ~ IsTerminal(o.state) /\ s.filled >= o.state.filled
        BY <2>1, <3>1, WorldFields, OrderFields, TransitionsTyped, TransitionsMoveOn
      <3>3. u.orders = Advance(w.orders, e.id, s) /\ u.order_broker_ids = w.order_broker_ids
        BY <2>1, <2>3 DEF Apply, ApplyCancelled, World
      <3> HIDE DEF u, s
      <3> QED BY <2>1, <3>1, <3>2, <3>3, AdvanceHistory
    <2> QED BY <2>2, <2>3
  <1>6. CASE e \in ReplacedEvent
    <2>1. /\ e.kind = "OrderReplaced" /\ e.original \in Ids /\ e.id \in Ids
          /\ e.replacement \in Terms
      BY <1>6 DEF ReplacedEvent
    <2>2. CASE ~ Applies(w, e)
      BY <2>1, <2>2, NothingChanges DEF Apply
    <2>3. CASE Applies(w, e)
      <3> DEFINE o == w.orders[e.original]
                 s == Cancel(o.state)
                 orders == Advance(w.orders, e.original, s)
                 v == [w EXCEPT !.orders = orders]
      <3>1. o # None /\ CanCancel(o.state)
        BY <2>1, <2>3 DEF Applies
      <3>2. o \in Order /\ s \in OrderState /\ ~ IsTerminal(o.state) /\ s.filled >= o.state.filled
        BY <2>1, <3>1, WorldFields, OrderFields, TransitionsTyped, TransitionsMoveOn
      <3>3. orders \in [Ids -> Order \cup {None}]
        BY <2>1, <3>1, <3>2, AdvanceTyped
      <3>4. w.orders[e.id] = None
        BY <2>1 DEF Proper
      <3>5. orders[e.id] = None
        BY <2>1, <3>1, <3>4, WorldFields DEF Advance
      <3>6. u = [w EXCEPT !.orders =
                   [orders EXCEPT ![e.id] = Submitted(e.replacement, e.original)]]
        BY <2>1, <2>3 DEF Apply, ApplyReplaced
      <3>7. v \in World /\ v.orders = orders /\ v.order_broker_ids = w.order_broker_ids
        <4> HIDE DEF orders
        <4> QED BY <3>3 DEF World
      <3>8. /\ u.orders = [v.orders EXCEPT ![e.id] = Submitted(e.replacement, e.original)]
            /\ u.order_broker_ids = v.order_broker_ids
        <4> HIDE DEF orders, u
        <4> QED BY <3>6, <3>7 DEF World
      <3>9. History(w, v)
        <4> HIDE DEF v, s
        <4> QED BY <2>1, <3>1, <3>2, <3>7, AdvanceHistory
      <3>10. u \in World
        BY ApplyTyped
      <3> HIDE DEF u, v, orders
      <3>11. History(v, u)
        BY <2>1, <3>5, <3>7, <3>8, NewOrderHistory
      <3> QED BY <3>7, <3>9, <3>10, <3>11, HistoryContinues
    <2> QED BY <2>2, <2>3
  <1>7. CASE e \in FilledEvent
    <2>1. e.kind = "OrderFilled" /\ e.id \in Ids /\ e.qty \in Nat /\ e.px \in Pxs
      BY <1>7 DEF FilledEvent
    <2>2. CASE ~ OrderTakes(w, e)
      BY <2>1, <2>2, NothingChanges DEF Apply
    <2>3. CASE OrderTakes(w, e)
      <3> DEFINE o == w.orders[e.id]
                 s == Fill(o.state, o.qty, e.qty, e.px)
      <3>1. o # None /\ CanFill(o.state, o.qty, e.qty, e.px)
        BY <2>3 DEF OrderTakes
      <3>2. o \in Order /\ s \in OrderState /\ ~ IsTerminal(o.state) /\ s.filled >= o.state.filled
        <4>1. o \in Order
          BY <2>1, <3>1, WorldFields
        <4>2. o.state \in OrderState /\ o.qty \in Nat
          BY <4>1, OrderFields
        <4>3. s \in OrderState
          BY <2>1, <4>2, TransitionsTyped
        <4>4. ~ IsTerminal(o.state) /\ s.filled >= o.state.filled
          BY <2>1, <3>1, <4>2, TransitionsMoveOn
        <4> QED BY <4>1, <4>3, <4>4
      <3>3. u = ApplyFilled(w, e)
        BY <2>1, <2>3 DEF Apply
      <3>4. u.orders = Advance(w.orders, e.id, s) /\ u.order_broker_ids = w.order_broker_ids
        BY <1>7, <2>3, <3>3, FilledOrders
      <3> HIDE DEF u, s
      <3> QED BY <2>1, <3>1, <3>2, <3>4, AdvanceHistory
    <2> QED BY <2>2, <2>3
  <1> QED
    BY <1>1, <1>2, <1>3, <1>4, <1>5, <1>6, <1>7 DEF Event

LEMMA CommitHistory ==
  ASSUME NEW w \in World, NEW b, Story(w), NEW plan, ProperPlan(w, b, plan)
  PROVE  History(w, Commit(w, plan.events))
  <1> DEFINE events == plan.events
             u == Apply(w, events[1])
  <1>1. events \in Seq(Event) /\ Len(events) \in Nat /\ Len(events) <= 2
    BY DEF ProperPlan, PlanOK
  <1>2. Len(events) = 0 \/ Len(events) = 1 \/ Len(events) = 2
    <2> HIDE DEF events
    <2> QED BY <1>1, AtMostTwo
  <1>3. CASE Len(events) = 0
    BY <1>3, NothingChanges DEF Commit
  <1>4. ASSUME Len(events) = 1 \/ Len(events) = 2
        PROVE  History(w, u) /\ Story(u) /\ u \in World
    <2>1. events[1] \in Event /\ Proper(w, b, events[1])
      BY <1>1, <1>4 DEF ProperPlan
    <2> QED BY <2>1, ApplyHistory, ApplyStory, ApplyTyped
  <1>5. CASE Len(events) = 1
    BY <1>4, <1>5 DEF Commit
  <1>6. CASE Len(events) = 2
    <2> DEFINE v == Apply(u, events[2])
    <2>1. events[2] \in Answer
      BY <1>6 DEF ProperPlan
    <2>2. events[2] \in Event /\ Proper(u, b, events[2])
      BY <2>1, AnswersAreProper
    <2>3. History(u, v) /\ v \in World
      BY <1>4, <1>6, <2>2, ApplyHistory, ApplyTyped
    <2>4. History(w, v)
      <3> HIDE DEF u, v
      <3> QED BY <1>4, <1>6, <2>3, HistoryContinues
    <2>5. Commit(w, events) \in {u, v}
      BY <1>6 DEF Commit
    <2> QED BY <1>4, <1>6, <2>4, <2>5
  <1> QED BY <1>2, <1>3, <1>5, <1>6

-----------------------------------------------------------------------------
LEMMA StepHistory ==
  ASSUME StoryInv, [Next]_vars
  PROVE  History(world, world')
  <1>1. CASE Next
    <2>1. PICK plan : ProperPlan(world, broker, plan) /\ world' = Commit(world, plan.events)
      BY <1>1, EveryStepIsProper DEF ProperStep, StoryInv
    <2> QED BY <2>1, CommitHistory DEF StoryInv, TypeOK
  <1>2. CASE UNCHANGED vars
    BY <1>2, NothingChanges DEF vars, StoryInv, TypeOK
  <1> QED BY <1>1, <1>2

(* No command changes an order's terms, moves a finished order, takes a    *)
(* fill back or forgets the venue's id for it (domain/src/lifecycle.rs,    *)
(* Engine::apply).                                                         *)
THEOREM HistoryAlwaysStands == Spec => HistoryStands
  <1>1. Spec => []StoryInv
    BY StoryInvariant
  <1>2. StoryInv /\ [Next]_vars =>
          [\A i \in Ids : Known(i) =>
             LET o == world.orders[i]
                 n == world.orders'[i]
             IN  /\ [n EXCEPT !.state = o.state] = o
                 /\ IsTerminal(o.state) => n = o
                 /\ n.state.filled >= o.state.filled
                 /\ world.order_broker_ids[i] # None =>
                      world.order_broker_ids'[i] = world.order_broker_ids[i]]_vars
    BY StepHistory DEF History, Continues, Known
  <1> QED BY <1>1, <1>2, PTL DEF Spec, HistoryStands
-----------------------------------------------------------------------------
(***************************************************************************)
(* Which maps an event leaves alone: only a fill writes the tape, and only *)
(* a close writes the days.                                                *)
(***************************************************************************)
LEMMA FilledKeepsDays ==
  ASSUME NEW w \in World, NEW e \in FilledEvent, OrderTakes(w, e)
  PROVE  ApplyFilled(w, e).closed = w.closed
  <1>1. \A u \in World : FillBook(u, e).closed = u.closed /\ FillTape(u, e).closed = u.closed
    BY DEF FillBook, FillTape, World
  <1>2. FillOrder(w, e).closed = w.closed
    BY DEF FillOrder, World
  <1>3. /\ FillOrder(w, e) \in World
        /\ BookTakes(w, e) => FillBook(FillOrder(w, e), e) \in World
    BY FilledPartsTyped
  <1> QED BY <1>1, <1>2, <1>3 DEF ApplyFilled

LEMMA ApplyElsewhere ==
  ASSUME NEW w \in World, NEW e \in Event
  PROVE  /\ e \notin ClosedEvent => Apply(w, e).closed = w.closed
         /\ e \notin FilledEvent => Apply(w, e).order_executions = w.order_executions
  <1> DEFINE u == Apply(w, e)
  <1>1. CASE e \in CreatedEvent \cup SubmittedEvent \cup MarkEvent \cup UpsertedEvent \cup RemovedEvent
    BY <1>1 DEF Apply, CreatedEvent, SubmittedEvent, MarkEvent, UpsertedEvent, RemovedEvent, World
  <1>2. CASE e \in AcknowledgedEvent \cup RejectedEvent \cup CancelledEvent
    <2>1. e.kind \in {"OrderAcknowledged", "OrderRejected", "OrderCancelled"}
      BY <1>2 DEF AcknowledgedEvent, RejectedEvent, CancelledEvent
    <2> QED BY <2>1 DEF Apply, ApplyAcknowledged, ApplyRejected, ApplyCancelled, World
  <1>3. CASE e \in ReplacedEvent
    <2>1. e.kind = "OrderReplaced"
      BY <1>3 DEF ReplacedEvent
    <2> QED BY <2>1 DEF Apply, ApplyReplaced, World
  <1>4. CASE e \in FilledEvent
    <2>1. e.kind = "OrderFilled"
      BY <1>4 DEF FilledEvent
    <2> QED BY <1>4, <2>1, FilledKeepsDays DEF Apply
  <1>5. CASE e \in ClosedEvent
    <2>1. e.kind = "DayClosed"
      BY <1>5 DEF ClosedEvent
    <2> QED BY <1>5, <2>1 DEF Apply, ApplyDayClosed, World
  <1> QED BY <1>1, <1>2, <1>3, <1>4, <1>5 DEF Event

-----------------------------------------------------------------------------
DaysStand(w, u) == \A d \in Days : IsClosed(w, d) => u.closed[d] = w.closed[d]

LEMMA ApplyDays ==
  ASSUME NEW w \in World, NEW b, NEW e \in Event, Proper(w, b, e)
  PROVE  DaysStand(w, Apply(w, e))
  <1>1. CASE e \in ClosedEvent
    <2>1. e.kind = "DayClosed" /\ e.day \in Days
      BY <1>1 DEF ClosedEvent
    <2>2. Apply(w, e).closed = [w.closed EXCEPT ![e.day] = e.entries]
      BY <2>1 DEF Apply, ApplyDayClosed, World
    <2>3. ~ IsClosed(w, e.day)
      BY <2>1 DEF Proper
    <2> QED BY <2>1, <2>2, <2>3, WorldFields DEF DaysStand
  <1>2. CASE e \notin ClosedEvent
    BY <1>2, ApplyElsewhere DEF DaysStand
  <1> QED BY <1>1, <1>2

LEMMA AnswerIsNoFill ==
  ASSUME NEW e \in Answer
  PROVE  e \in Event /\ e \notin FilledEvent /\ e \notin ClosedEvent
  BY DEF Answer, AcknowledgedEvent, RejectedEvent, FilledEvent, ClosedEvent, Event

(* What a proper plan commits, map by map: the second event is an answer,  *)
(* and writes neither.                                                     *)
LEMMA CommitElsewhere ==
  ASSUME NEW w \in World, NEW b, NEW plan, ProperPlan(w, b, plan)
  PROVE  LET u == Commit(w, plan.events)
             first == Apply(w, plan.events[1])
         IN  \/ plan.events = <<>> /\ u = w
             \/ /\ Len(plan.events) >= 1
                /\ plan.events[1] \in Event /\ Proper(w, b, plan.events[1])
                /\ u.closed = first.closed
                /\ u.order_executions = first.order_executions
  <1> DEFINE events == plan.events
             first == Apply(w, events[1])
  <1>1. events \in Seq(Event) /\ Len(events) \in Nat /\ Len(events) <= 2
    BY DEF ProperPlan, PlanOK
  <1>2. Len(events) = 0 \/ Len(events) = 1 \/ Len(events) = 2
    <2> HIDE DEF events
    <2> QED BY <1>1, AtMostTwo
  <1>3. CASE Len(events) = 0
    BY <1>1, <1>3 DEF Commit
  <1>4. ASSUME Len(events) = 1 \/ Len(events) = 2
        PROVE  events[1] \in Event /\ Proper(w, b, events[1]) /\ first \in World
    BY <1>1, <1>4, ApplyTyped DEF ProperPlan
  <1>5. CASE Len(events) = 1
    BY <1>4, <1>5 DEF Commit
  <1>6. CASE Len(events) = 2
    <2>1. events[2] \in Answer
      BY <1>6 DEF ProperPlan
    <2>2. /\ Apply(first, events[2]).closed = first.closed
          /\ Apply(first, events[2]).order_executions = first.order_executions
      <3> HIDE DEF first
      <3> QED BY <1>4, <1>6, <2>1, AnswerIsNoFill, ApplyElsewhere
    <2>3. Commit(w, events) \in {first, Apply(first, events[2])}
      BY <1>6 DEF Commit
    <2> QED BY <1>4, <1>6, <2>2, <2>3
  <1> QED BY <1>2, <1>3, <1>5, <1>6

(* A day that was closed keeps the entries it was closed with: closing it  *)
(* again plans nothing, and closing an earlier day is refused (close_day). *)
THEOREM PublishedDaysAlwaysStand == Spec => PublishedDaysStand
  <1>1. TypeOK /\ [Next]_vars =>
          [\A d \in Days : IsClosed(world, d) => world.closed'[d] = world.closed[d]]_vars
    <2> SUFFICES ASSUME TypeOK, Next
                 PROVE  \A d \in Days : IsClosed(world, d) => world'.closed[d] = world.closed[d]
      OBVIOUS
    <2>1. PICK plan : ProperPlan(world, broker, plan) /\ world' = Commit(world, plan.events)
      BY EveryStepIsProper DEF ProperStep
    <2>2. world \in World
      BY DEF TypeOK
    <2>3. CASE world' = world
      BY <2>3
    <2>4. CASE /\ plan.events[1] \in Event /\ Proper(world, broker, plan.events[1])
               /\ world'.closed = Apply(world, plan.events[1]).closed
      BY <2>2, <2>4, ApplyDays DEF DaysStand
    <2> QED BY <2>1, <2>2, <2>3, <2>4, CommitElsewhere
  <1> QED BY <1>1, TypeSafety, PTL DEF Spec, PublishedDaysStand
-----------------------------------------------------------------------------
(***************************************************************************)
(* The tape of executions is in the order the venue minted them, and it    *)
(* tells the fills the orders record.  The invariant ties the tape to the  *)
(* broker's counter: every id on it was minted before the next one.        *)
(***************************************************************************)
InMintOrder(tape, next) ==
  /\ 0 < next
  /\ \A i \in Ids : \A m \in DOMAIN tape[i] :
       0 < tape[i][m].exec_id /\ tape[i][m].exec_id < next
  /\ \A i, j \in Ids : \A m \in DOMAIN tape[i], n \in DOMAIN tape[j] :
       /\ i = j /\ m < n => tape[i][m].exec_id < tape[j][n].exec_id
       /\ i # j => tape[i][m].exec_id # tape[j][n].exec_id

Tapes == [Ids -> Seq(Execution)]
Extended(tape, i, row) == [tape EXCEPT ![i] = Append(tape[i], row)]

LEMMA RowsAreNumbered ==
  ASSUME NEW tape \in Tapes, NEW i \in Ids, NEW m \in DOMAIN tape[i]
  PROVE  tape[i][m].exec_id \in Int
  <1>1. tape[i] \in Seq(Execution)
    BY DEF Tapes
  <1>2. tape[i][m] \in Execution
    BY <1>1
  <1> QED BY <1>2 DEF Execution

LEMMA MintingKeepsOrder ==
  ASSUME NEW tape \in Tapes, NEW next \in Int, NEW later \in Int, later >= next,
         InMintOrder(tape, next)
  PROVE  InMintOrder(tape, later)
  <1>1. \A i \in Ids : \A m \in DOMAIN tape[i] : tape[i][m].exec_id \in Int
    BY RowsAreNumbered
  <1> QED BY <1>1 DEF InMintOrder

(* A row bearing the id just minted goes to the end of its order's rows.   *)
LEMMA ExtendingKeepsOrder ==
  ASSUME NEW tape \in Tapes, NEW next \in Int, InMintOrder(tape, next),
         NEW i \in Ids, NEW row \in Execution, row.exec_id = next
  PROVE  InMintOrder(Extended(tape, i, row), next + 1)
  <1> DEFINE longer == Extended(tape, i, row)
             n == Len(tape[i])
             Old(j, m) == j \in Ids /\ m \in DOMAIN tape[j]
             Added(j, m) == j = i /\ m = n + 1
  <1>1. /\ tape[i] \in Seq(Execution) /\ n \in Nat /\ DOMAIN tape[i] = 1..n
        /\ longer[i] = Append(tape[i], row)
        /\ \A j \in Ids : j # i => longer[j] = tape[j]
    BY DEF Tapes, Extended
  <1>2. /\ DOMAIN longer[i] = 1..(n + 1)
        /\ longer[i][n + 1] = row
        /\ \A m \in 1..n : longer[i][m] = tape[i][m]
    BY <1>1
  <1>3. \A j \in Ids : \A m \in DOMAIN longer[j] :
          \/ Old(j, m) /\ longer[j][m] = tape[j][m]
          \/ Added(j, m) /\ longer[j][m] = row
    <2> HIDE DEF longer
    <2> QED BY <1>1, <1>2
  <1>4. \A j, m : Old(j, m) => /\ tape[j][m].exec_id \in Int
                               /\ 0 < tape[j][m].exec_id /\ tape[j][m].exec_id < next
    BY RowsAreNumbered DEF InMintOrder
  <1>5. 0 < next /\ 0 < next + 1
    BY DEF InMintOrder
  <1>6. \A j \in Ids : \A m \in DOMAIN longer[j] :
          0 < longer[j][m].exec_id /\ longer[j][m].exec_id < next + 1
    <2> HIDE DEF longer, Old, Added
    <2> QED BY <1>3, <1>4, <1>5
  <1>7. ASSUME NEW j \in Ids, NEW k \in Ids,
               NEW m \in DOMAIN longer[j], NEW l \in DOMAIN longer[k]
        PROVE  /\ j = k /\ m < l => longer[j][m].exec_id < longer[k][l].exec_id
               /\ j # k => longer[j][m].exec_id # longer[k][l].exec_id
    <2>1. CASE Old(j, m) /\ Old(k, l)
      <3>1. longer[j][m] = tape[j][m] /\ longer[k][l] = tape[k][l]
        BY <1>1, <1>3, <2>1
      <3> HIDE DEF longer
      <3> QED BY <2>1, <3>1 DEF InMintOrder
    <2>2. CASE Old(j, m) /\ Added(k, l)
      <3>1. longer[j][m] = tape[j][m] /\ longer[k][l] = row
        BY <1>1, <1>2, <1>3, <2>2
      <3> QED BY <1>4, <2>2, <3>1
    <2>3. CASE Added(j, m) /\ Old(k, l)
      <3>1. longer[j][m] = row /\ longer[k][l] = tape[k][l]
        BY <1>1, <1>2, <1>3, <2>3
      <3>2. ~ (j = k /\ m < l)
        BY <1>1, <2>3
      <3> QED BY <1>4, <2>3, <3>1, <3>2
    <2>4. CASE Added(j, m) /\ Added(k, l)
      BY <1>1, <2>4
    <2> HIDE DEF longer, Old, Added
    <2> QED BY <1>3, <2>1, <2>2, <2>3, <2>4
  <1> HIDE DEF longer
  <1> QED BY <1>5, <1>6, <1>7 DEF InMintOrder, longer

-----------------------------------------------------------------------------
LEMMA FilledTape ==
  ASSUME NEW w \in World, NEW e \in FilledEvent, OrderTakes(w, e)
  PROVE  ApplyFilled(w, e).order_executions
           \in {w.order_executions, Extended(w.order_executions, e.id, Row(e))}
  <1>1. \A u \in World : FillBook(u, e).order_executions = u.order_executions
    BY DEF FillBook, World
  <1>2. \A u \in World : FillTape(u, e).order_executions =
                           Extended(u.order_executions, e.id, Row(e))
    BY DEF FillTape, World, Extended
  <1>3. FillOrder(w, e).order_executions = w.order_executions
    BY DEF FillOrder, World
  <1> QED BY <1>1, <1>2, <1>3, FilledPartsTyped DEF ApplyFilled

LEMMA ApplyTape ==
  ASSUME NEW w \in World, NEW e \in FilledEvent
  PROVE  Apply(w, e).order_executions
           \in {w.order_executions, Extended(w.order_executions, e.id, Row(e))}
  <1>1. e.kind = "OrderFilled"
    BY DEF FilledEvent
  <1> QED BY <1>1, FilledTape DEF Apply

(* The inductive invariant.                                                *)
TapeInv == TypeOK /\ InMintOrder(world.order_executions, broker.next_exec_id)

LEMMA StepTape ==
  ASSUME TapeInv, Next
  PROVE  InMintOrder(world.order_executions, broker.next_exec_id)'
  <1> DEFINE tape == world.order_executions
             next == broker.next_exec_id
  <1>1. PICK plan : /\ ProperPlan(world, broker, plan)
                    /\ world' = Commit(world, plan.events)
                    /\ broker' = plan.broker
    BY EveryStepIsProper DEF ProperStep, TapeInv
  <1> DEFINE e == plan.events[1]
  <1>2. /\ world \in World /\ tape \in Tapes /\ next \in Int
        /\ plan.broker.next_exec_id \in Int /\ plan.broker.next_exec_id >= next
    BY <1>1, BrokerTyped, WorldFields DEF TapeInv, TypeOK, Tapes, ProperPlan, PlanOK
  <1>3. InMintOrder(tape, next)
    BY DEF TapeInv
  <1>4. CASE world'.order_executions = tape
    BY <1>1, <1>2, <1>3, <1>4, MintingKeepsOrder
  <1>5. CASE world'.order_executions # tape
    <2>1. /\ Len(plan.events) >= 1 /\ e \in Event /\ Proper(world, broker, e)
          /\ world'.order_executions = Apply(world, e).order_executions
      BY <1>1, <1>2, <1>5, CommitElsewhere
    <2>2. e \in FilledEvent
      BY <1>2, <1>5, <2>1, ApplyElsewhere
    <2>3. world'.order_executions = Extended(tape, e.id, Row(e))
      BY <1>2, <1>5, <2>1, <2>2, ApplyTape
    <2>4. e.kind = "OrderFilled" /\ e.id \in Ids /\ Row(e) \in Execution
      BY <2>2 DEF FilledEvent, Row, Execution
    <2>5. Row(e).exec_id = next /\ plan.broker.next_exec_id = next + 1
      BY <1>1, <2>1, <2>4 DEF Proper, ProperPlan, Row
    <2>6. InMintOrder(Extended(tape, e.id, Row(e)), next + 1)
      BY <1>2, <1>3, <2>4, <2>5, ExtendingKeepsOrder
    <2> QED BY <1>1, <2>3, <2>5, <2>6
  <1> QED BY <1>4, <1>5

LEMMA MintOrderInvariant ==
  Spec => []InMintOrder(world.order_executions, broker.next_exec_id)
  <1>1. Init => InMintOrder(world.order_executions, broker.next_exec_id)
    BY DEF Init, EmptyWorld, FreshBroker, InMintOrder
  <1>2. TapeInv /\ [Next]_vars => InMintOrder(world.order_executions, broker.next_exec_id)'
    <2> SUFFICES ASSUME TapeInv, [Next]_vars
                 PROVE  InMintOrder(world.order_executions, broker.next_exec_id)'
      OBVIOUS
    <2>1. CASE Next
      BY <2>1, StepTape
    <2>2. CASE UNCHANGED vars
      BY <2>2 DEF vars, TapeInv
    <2> QED BY <2>1, <2>2
  <1> QED BY <1>1, <1>2, TypeSafety, PTL DEF Spec, TapeInv

(* No two executions share an id, every id on the tape was minted, and     *)
(* each order's rows are in the order the venue minted them, though an id  *)
(* is minted before the fill is known to be booked (mint_exec_id, apply).  *)
THEOREM TapeIsAlwaysInMintOrder == Spec => []TapeIsInMintOrder
  <1>1. InMintOrder(world.order_executions, broker.next_exec_id) => TapeIsInMintOrder
    BY DEF InMintOrder, TapeIsInMintOrder
  <1> QED BY <1>1, MintOrderInvariant, PTL

-----------------------------------------------------------------------------
(* An order that the broker alone fills: each of its executions but the    *)
(* last took a chunk at least.                                             *)
SlicedAt(o, rows) ==
  /\ Len(rows) <= MaxSlices
  /\ o = None => Len(rows) = 0
  /\ o # None /\ o.state.name # "FILLED" => Len(rows) * Chunk(o) <= o.state.filled

Sliced(w) == \A k \in Ids : SlicedAt(w.orders[k], w.order_executions[k])

LEMMA RoomForOneMore ==
  ASSUME NEW n \in Nat, NEW m \in Nat, NEW c \in Nat, NEW filled \in Nat, NEW qty \in Nat,
         n * c <= filled, filled < qty, qty <= m * c
  PROVE  n + 1 <= m
  <1>1. n >= m => m * c <= n * c
    OBVIOUS
  <1>2. n * c \in Nat /\ m * c \in Nat
    OBVIOUS
  <1> QED BY <1>1, <1>2

(* A slice the broker draws completes the order or takes a chunk of it.    *)
LEMMA SliceKeepsSliced ==
  ASSUME NEW w \in World, Story(w), NEW b, NEW u, NEW e \in FilledEvent,
         Booked(w, b, u, e), Drawn(w, e), SlicedAt(w.orders[e.id], w.order_executions[e.id])
  PROVE  SlicedAt(u.orders[e.id], u.order_executions[e.id])
  <1> DEFINE o == w.orders[e.id]
             n == u.orders[e.id]
             t == Fill(o.state, o.qty, e.qty, e.px)
             rows == w.order_executions[e.id]
             c == Chunk(o)
  <1>1. OrderTakes(w, e) /\ o # None /\ CanFill(o.state, o.qty, e.qty, e.px)
    BY DEF Booked, CanBook, OrderTakes
  <1>2. e.id \in Ids /\ o \in Order /\ o.qty \in Nat /\ e.qty \in Nat /\ o.state \in OrderState
    BY <1>1, FillFacts
  <1>3. OrderStory(o, w.order_broker_ids[e.id]) /\ o.qty > 0
    BY <1>1, <1>2 DEF Story, StoryAt
  <1>4. /\ o.state.name \in Live /\ o.state.filled \in Nat /\ o.state.filled < o.qty
        /\ e.qty > 0 /\ o.state.filled + e.qty <= o.qty
    BY <1>1, <1>2, <1>3 DEF CanFill, OrderStory, OrderState, Live
  <1>5. /\ t.filled = o.state.filled + e.qty
        /\ t.filled = o.qty => t.name = "FILLED"
    BY <1>2, <1>4 DEF Fill, OrderState
  <1>6. n = InState(o, t)
    BY DEF Booked
  <1>7. n # None /\ n.state = t /\ n.qty = o.qty
    <2>1. t \in OrderState
      BY <1>1, FillFacts, TransitionsTyped
    <2> HIDE DEF t, o, n
    <2> QED BY <1>2, <1>6, <2>1, InStateFields
  <1>8. Chunk(n) = c
    BY <1>7 DEF Chunk
  <1>9. c \in Nat /\ o.qty <= MaxSlices * c /\ MaxSlices \in Nat
    BY <1>2, ChunkFacts, SlicesAssumption
  <1>10. rows \in Seq(Execution) /\ Len(rows) \in Nat
    BY <1>2, WorldFields
  <1>11. Len(rows) * c <= o.state.filled
    BY <1>1, <1>4 DEF SlicedAt, Live
  <1>12. Len(u.order_executions[e.id]) \in {Len(rows), Len(rows) + 1}
    BY <1>10 DEF Booked
  <1>13. Len(rows) + 1 <= MaxSlices
    <2> DEFINE r == Len(rows)
               f == o.state.filled
               q == o.qty
    <2>1. r \in Nat /\ f \in Nat /\ q \in Nat /\ r * c <= f /\ f < q /\ q <= MaxSlices * c
      BY <1>2, <1>4, <1>9, <1>10, <1>11
    <2> HIDE DEF r, f, q, c
    <2>2. r + 1 <= MaxSlices
      BY <1>9, <2>1, RoomForOneMore
    <2> QED BY <2>2 DEF r
  <1>14. t.name # "FILLED" => e.qty >= c
    <2> SUFFICES ASSUME t.name # "FILLED" PROVE e.qty >= c
      OBVIOUS
    <2>1. o.state.filled + e.qty # o.qty
      BY <1>5
    <2>2. Remaining(o) = o.qty - o.state.filled /\ e.qty # Remaining(o)
      BY <1>2, <1>4, <2>1 DEF Remaining
    <2>3. e.qty \in c..Remaining(o)
      BY <2>2 DEF Drawn, Slices, Chunk
    <2> QED BY <1>2, <1>4, <1>9, <2>2, <2>3
  <1> DEFINE l == Len(u.order_executions[e.id])
  <1>15. l <= MaxSlices /\ l \in Nat /\ l <= Len(rows) + 1
    <2> HIDE DEF rows
    <2> QED BY <1>9, <1>10, <1>12, <1>13
  <1>16. ASSUME t.name # "FILLED" PROVE l * c <= t.filled
    <2>1. l * c <= (Len(rows) + 1) * c
      <3> DEFINE r == Len(rows) + 1
      <3>1. r \in Nat /\ l \in Nat /\ c \in Nat /\ l <= r
        BY <1>9, <1>10, <1>15
      <3> HIDE DEF r, l, c
      <3>2. l * c <= r * c
        BY <3>1
      <3> QED BY <3>2 DEF r
    <2>2. (Len(rows) + 1) * c = Len(rows) * c + c
      BY <1>9, <1>10
    <2>3. l * c \in Nat /\ Len(rows) * c \in Nat
      <3> DEFINE r == Len(rows)
      <3>1. r \in Nat /\ l \in Nat /\ c \in Nat
        BY <1>9, <1>10, <1>15
      <3> HIDE DEF r, l, c
      <3>2. l * c \in Nat /\ r * c \in Nat
        BY <3>1
      <3> QED BY <3>2 DEF r
    <2> HIDE DEF l, c, rows, t, o
    <2> QED BY <1>2, <1>4, <1>5, <1>9, <1>11, <1>14, <1>16, <2>1, <2>2, <2>3
  <1> HIDE DEF n, t, c, rows, o
  <1> QED BY <1>7, <1>8, <1>15, <1>16 DEF SlicedAt, n

LEMMA RestKeepsSliced ==
  ASSUME NEW w \in World, NEW u \in World, NEW k \in Ids, Rested(w, u, k),
         SlicedAt(w.orders[k], w.order_executions[k])
  PROVE  SlicedAt(u.orders[k], u.order_executions[k])
  <1> DEFINE rows == w.order_executions[k]
             o == w.orders[k]
             n == u.orders[k]
  <1>1. u.order_executions[k] = rows
    BY DEF Rested
  <1>2. CASE n = o
    BY <1>1, <1>2
  <1>3. CASE Born(w, u, k)
    <2>1. Len(rows) = 0 /\ n # None /\ n.state.filled = 0 /\ 0 <= MaxSlices
      BY <1>3, SlicesAssumption DEF Born, SlicedAt
    <2>2. Chunk(n) \in Nat
      BY <2>1, WorldFields, ChunkFacts
    <2>3. Len(rows) * Chunk(n) <= n.state.filled
      BY <2>1, <2>2
    <2> QED BY <1>1, <2>1, <2>3 DEF SlicedAt
  <1>4. CASE Gone(w, u, k)
    <2> DEFINE t == Cancel(o.state)
    <2>1. o \in Order /\ o # None /\ o.state \in OrderState /\ CanCancel(o.state)
      BY <1>4, WorldFields, OrderFields DEF Gone
    <2>2. t.filled = o.state.filled /\ t \in OrderState /\ o.state.name # "FILLED"
      BY <2>1, TransitionsTyped DEF Cancel, OrderState, CanCancel, Live
    <2>3. n = InState(o, t)
      BY <1>4 DEF Gone
    <2>4. n # None /\ n.state = t /\ n.qty = o.qty
      <3> HIDE DEF t, o, n
      <3> QED BY <2>1, <2>2, <2>3, InStateFields
    <2>5. Chunk(n) = Chunk(o)
      BY <2>4 DEF Chunk
    <2> QED BY <1>1, <2>1, <2>2, <2>4, <2>5 DEF SlicedAt
  <1> QED BY <1>2, <1>3, <1>4 DEF Rested

SliceInv == StoryInv /\ (FillQtys = {} => Sliced(world))

LEMMA SliceInvariant == Spec => []SliceInv
  <1>1. Init => (FillQtys = {} => Sliced(world))
    BY SlicesAssumption DEF Init, EmptyWorld, Sliced, SlicedAt
  <1>2. SliceInv /\ StoryInv' /\ [Next]_vars => (FillQtys = {} => Sliced(world))'
    <2> SUFFICES ASSUME SliceInv, StoryInv', [Next]_vars, FillQtys = {} PROVE Sliced(world)'
      OBVIOUS
    <2>0. /\ world \in World /\ broker \in Broker /\ Story(world) /\ Sliced(world)
          /\ world' \in World
      BY DEF SliceInv, StoryInv, TypeOK
    <2>1. CASE Next
      <3>1. Effect(world, broker, world')
        BY <2>1, EveryStepHasAnEffect DEF SliceInv, StoryInv
      <3> SUFFICES ASSUME NEW k \in Ids
                   PROVE  SlicedAt(world'.orders[k], world'.order_executions[k])
        BY DEF Sliced
      <3>2. Changed(world, broker, world', k) /\ SlicedAt(world.orders[k], world.order_executions[k])
        BY <2>0, <3>1, EffectChanges DEF Sliced
      <3>3. CASE Rested(world, world', k)
        BY <2>0, <3>2, <3>3, RestKeepsSliced
      <3>4. ASSUME NEW e \in FilledEvent, e.id = k, Booked(world, broker, world', e)
            PROVE  SlicedAt(world'.orders[k], world'.order_executions[k])
        <4>1. Drawn(world, e)
          BY <3>4 DEF Booked, CanBook, Dictated
        <4> QED BY <2>0, <3>2, <3>4, <4>1, SliceKeepsSliced
      <3> QED BY <3>2, <3>3, <3>4 DEF Changed
    <2>2. CASE UNCHANGED vars
      BY <2>0, <2>2 DEF vars
    <2> QED BY <2>1, <2>2
  <1> QED BY <1>1, <1>2, StoryInvariant, PTL DEF Spec, SliceInv

(* An order that the broker alone executes has at most max_slices          *)
(* executions, whatever slices are drawn, for any quantity and any number  *)
(* of orders at once (MockBroker::next_execution).                         *)
THEOREM SlicesAlwaysBounded == Spec => [](FillQtys = {} => SlicesBounded)
  <1>1. SliceInv => (FillQtys = {} => SlicesBounded)
    BY DEF SliceInv, Sliced, SlicedAt, SlicesBounded
  <1> QED BY <1>1, SliceInvariant, PTL

-----------------------------------------------------------------------------
(* What the rows of an order come to.                                      *)
Qtys(rows) == [n \in 1..Len(rows) |-> rows[n].qty]
Grosses(rows) == [n \in 1..Len(rows) |-> Notional(rows[n].px, rows[n].qty)]
Fees(rows) == [n \in 1..Len(rows) |-> rows[n].fee]

TotalQty(rows) == Sum(Qtys(rows), Len(rows))
TotalGross(rows) == Sum(Grosses(rows), Len(rows))
TotalFee(rows) == Sum(Fees(rows), Len(rows))

(* An order, its rows and its accrued fees agree.                          *)
MatchesAt(o, rows, fees) ==
  /\ fees = TotalFee(rows)
  /\ o = None => rows = <<>>
  /\ o # None => o.state.filled = TotalQty(rows) /\ o.state.cost = TotalGross(rows)

Matches(w) == \A k \in Ids : MatchesAt(w.orders[k], w.order_executions[k], w.order_fees[k])

LEMMA RowsTyped ==
  ASSUME NEW rows \in Seq(Execution)
  PROVE  /\ Len(rows) \in Nat
         /\ Qtys(rows) \in [1..Len(rows) -> Int] /\ TotalQty(rows) \in Int
         /\ Grosses(rows) \in [1..Len(rows) -> Int] /\ TotalGross(rows) \in Int
         /\ Fees(rows) \in [1..Len(rows) -> Int] /\ TotalFee(rows) \in Int
  <1>1. Len(rows) \in Nat /\ \A n \in 1..Len(rows) : rows[n] \in Execution
    OBVIOUS
  <1>2. \A n \in 1..Len(rows) : /\ rows[n].qty \in Int /\ rows[n].fee \in Int
                                /\ Notional(rows[n].px, rows[n].qty) \in Int
    <2> SUFFICES ASSUME NEW n \in 1..Len(rows)
                 PROVE  /\ rows[n].qty \in Int /\ rows[n].fee \in Int
                        /\ Notional(rows[n].px, rows[n].qty) \in Int
      OBVIOUS
    <2> DEFINE px == rows[n].px
               qty == rows[n].qty
    <2>1. px \in Pxs /\ qty \in Nat /\ rows[n].fee \in Int
      BY <1>1 DEF Execution
    <2>2. Notional(px, qty) \in Int
      <3> HIDE DEF px, qty
      <3> QED BY <2>1, NotionalNat
    <2> QED BY <2>1, <2>2
  <1>3. /\ Qtys(rows) \in [1..Len(rows) -> Int]
        /\ Grosses(rows) \in [1..Len(rows) -> Int]
        /\ Fees(rows) \in [1..Len(rows) -> Int]
    BY <1>2 DEF Qtys, Grosses, Fees
  <1> QED BY <1>1, <1>3, SumTyped DEF TotalQty, TotalGross, TotalFee

LEMMA NoRows == TotalQty(<<>>) = 0 /\ TotalGross(<<>>) = 0 /\ TotalFee(<<>>) = 0
  <1> DEFINE rows == <<>>
  <1>1. rows \in Seq(Execution) /\ Len(rows) = 0
    OBVIOUS
  <1> HIDE DEF rows
  <1>2. TotalQty(rows) = 0 /\ TotalGross(rows) = 0 /\ TotalFee(rows) = 0
    BY <1>1, RowsTyped, SumOfNone DEF TotalQty, TotalGross, TotalFee
  <1> QED BY <1>2 DEF rows

(* One row more adds its figures to each total.                            *)
LEMMA OneRowMore ==
  ASSUME NEW rows \in Seq(Execution), NEW row \in Execution
  PROVE  /\ TotalQty(Append(rows, row)) = TotalQty(rows) + row.qty
         /\ TotalGross(Append(rows, row)) = TotalGross(rows) + Notional(row.px, row.qty)
         /\ TotalFee(Append(rows, row)) = TotalFee(rows) + row.fee
  <1> DEFINE more == Append(rows, row)
             l == Len(rows)
  <1>1. more \in Seq(Execution) /\ Len(more) = l + 1 /\ l \in Nat
    OBVIOUS
  <1>2. more[l + 1] = row /\ \A n \in 1..l : more[n] = rows[n]
    OBVIOUS
  <1> HIDE DEF more, l
  <1>3. /\ Qtys(more)[l + 1] = row.qty /\ \A n \in 1..l : Qtys(more)[n] = Qtys(rows)[n]
        /\ Grosses(more)[l + 1] = Notional(row.px, row.qty)
        /\ \A n \in 1..l : Grosses(more)[n] = Grosses(rows)[n]
        /\ Fees(more)[l + 1] = row.fee /\ \A n \in 1..l : Fees(more)[n] = Fees(rows)[n]
    BY <1>1, <1>2 DEF Qtys, Grosses, Fees, l
  <1>4. /\ Qtys(rows) \in [1..l -> Int] /\ Qtys(more) \in [1..(l + 1) -> Int]
        /\ Grosses(rows) \in [1..l -> Int] /\ Grosses(more) \in [1..(l + 1) -> Int]
        /\ Fees(rows) \in [1..l -> Int] /\ Fees(more) \in [1..(l + 1) -> Int]
    <2>1. /\ Qtys(rows) \in [1..l -> Int] /\ Grosses(rows) \in [1..l -> Int]
          /\ Fees(rows) \in [1..l -> Int]
      BY RowsTyped DEF l
    <2>2. /\ Qtys(more) \in [1..Len(more) -> Int] /\ Grosses(more) \in [1..Len(more) -> Int]
          /\ Fees(more) \in [1..Len(more) -> Int]
      BY <1>1, RowsTyped
    <2> QED BY <1>1, <2>1, <2>2
  <1>5. /\ Sum(Qtys(more), l + 1) = Sum(Qtys(rows), l) + row.qty
        /\ Sum(Grosses(more), l + 1) = Sum(Grosses(rows), l) + Notional(row.px, row.qty)
        /\ Sum(Fees(more), l + 1) = Sum(Fees(rows), l) + row.fee
    BY <1>1, <1>3, <1>4, SumOfOneMore
  <1>6. /\ TotalQty(more) = TotalQty(rows) + row.qty
        /\ TotalGross(more) = TotalGross(rows) + Notional(row.px, row.qty)
        /\ TotalFee(more) = TotalFee(rows) + row.fee
    BY <1>1, <1>5 DEF TotalQty, TotalGross, TotalFee, l
  <1> QED BY <1>6 DEF more

LEMMA BookingKeepsMatch ==
  ASSUME NEW w \in World, NEW b, NEW u, NEW e \in FilledEvent, Booked(w, b, u, e),
         Fits(Traded(w, e)),
         MatchesAt(w.orders[e.id], w.order_executions[e.id], w.order_fees[e.id])
  PROVE  MatchesAt(u.orders[e.id], u.order_executions[e.id], u.order_fees[e.id])
  <1> DEFINE o == w.orders[e.id]
             n == u.orders[e.id]
             t == Fill(o.state, o.qty, e.qty, e.px)
             rows == w.order_executions[e.id]
  <1>1. OrderTakes(w, e) /\ o # None
    BY DEF Booked, CanBook, OrderTakes
  <1>2. o \in Order /\ e.id \in Ids /\ o.state \in OrderState /\ t \in OrderState
    BY <1>1, FillFacts, TransitionsTyped
  <1>3. t.filled = o.state.filled + e.qty /\ t.cost = o.state.cost + Notional(e.px, e.qty)
    BY <1>2 DEF Fill, OrderState
  <1>4. n = InState(o, t)
    BY DEF Booked
  <1>5. n # None /\ n.state = t
    <2> HIDE DEF t, o, n
    <2> QED BY <1>2, <1>4, InStateFields
  <1>6. /\ u.order_executions[e.id] = Append(rows, Row(e))
        /\ u.order_fees[e.id] = w.order_fees[e.id] + e.fee
    BY DEF Booked
  <1>7. /\ Row(e) \in Execution /\ Row(e).qty = e.qty /\ Row(e).px = e.px /\ Row(e).fee = e.fee
    BY DEF FilledEvent, Row, Execution
  <1>8. rows \in Seq(Execution)
    BY <1>2, WorldFields
  <1>9. /\ TotalQty(Append(rows, Row(e))) = TotalQty(rows) + e.qty
        /\ TotalGross(Append(rows, Row(e))) = TotalGross(rows) + Notional(e.px, e.qty)
        /\ TotalFee(Append(rows, Row(e))) = TotalFee(rows) + e.fee
    <2>1. \A r \in Execution : /\ TotalQty(Append(rows, r)) = TotalQty(rows) + r.qty
                               /\ TotalGross(Append(rows, r)) = TotalGross(rows) + Notional(r.px, r.qty)
                               /\ TotalFee(Append(rows, r)) = TotalFee(rows) + r.fee
      BY <1>8, OneRowMore
    <2> HIDE DEF rows
    <2> QED BY <1>7, <2>1
  <1> HIDE DEF n, t, rows, o
  <1>10. /\ w.order_fees[e.id] = TotalFee(rows)
         /\ o.state.filled = TotalQty(rows) /\ o.state.cost = TotalGross(rows)
    BY <1>1 DEF MatchesAt, o, rows
  <1> QED BY <1>3, <1>5, <1>6, <1>9, <1>10 DEF MatchesAt, n

LEMMA RestKeepsMatch ==
  ASSUME NEW w \in World, NEW u, NEW k \in Ids, Rested(w, u, k),
         MatchesAt(w.orders[k], w.order_executions[k], w.order_fees[k])
  PROVE  MatchesAt(u.orders[k], u.order_executions[k], u.order_fees[k])
  <1> DEFINE rows == w.order_executions[k]
             o == w.orders[k]
             n == u.orders[k]
  <1>1. u.order_executions[k] = rows /\ u.order_fees[k] = w.order_fees[k]
    BY DEF Rested
  <1>2. CASE n = o
    BY <1>1, <1>2
  <1>3. CASE Born(w, u, k)
    BY <1>1, <1>3, NoRows DEF Born, MatchesAt
  <1>4. CASE Gone(w, u, k)
    <2> DEFINE t == Cancel(o.state)
    <2>1. o \in Order /\ o # None /\ o.state \in OrderState
      BY <1>4, WorldFields, OrderFields DEF Gone
    <2>2. t.filled = o.state.filled /\ t.cost = o.state.cost /\ t \in OrderState
      BY <2>1, TransitionsTyped DEF Cancel, OrderState
    <2>3. n = InState(o, t)
      BY <1>4 DEF Gone
    <2>4. n # None /\ n.state = t
      <3> HIDE DEF t, o, n
      <3> QED BY <2>1, <2>2, <2>3, InStateFields
    <2> QED BY <1>1, <2>1, <2>2, <2>4 DEF MatchesAt
  <1> QED BY <1>2, <1>3, <1>4 DEF Rested

(* The fills on offer: the operator's and the broker's.                     *)
FillPlans(w, b) ==
  UNION (   {ExecutePlans(w, b, i, qty, px) : i \in Ids, qty \in FillQtys, px \in FillPxs}
       \cup {AutoExecutePlans(w, b, i) : i \in Ids})

TurnoverHasRoom ==
  \A plan \in FillPlans(world, broker) : RoomForTurnover(world, plan.events)

(* Any fill that can be booked is among the plans on offer.                *)
LEMMA BookableIsOffered ==
  ASSUME NEW w \in World, NEW b, NEW e \in FilledEvent, CanBook(w, b, e)
  PROVE  \E plan \in FillPlans(w, b) : plan.events = <<e>>
  <1> DEFINE i == e.id
             o == w.orders[i]
             fee == FeeOf(Notional(e.px, e.qty))
             plan == Plan(<<e>>, MintedExec(b))
  <1>1. /\ OrderTakes(w, e) /\ BookTakes(w, e) /\ o # None
        /\ e = OrderFilled(i, b.next_exec_id, e.qty, e.px, fee)
    BY DEF CanBook, OrderTakes, FilledEvent, OrderFilled
  <1>2. i \in Ids /\ o \in Order /\ e.qty \in Nat /\ e.px \in Pxs /\ o.state \in OrderState
    BY <1>1, FillFacts
  <1>3. /\ o.state.name \in Live /\ e.qty > 0 /\ o.state.filled + e.qty <= o.qty
        /\ Fits(Notional(e.px, e.qty))
    BY <1>1 DEF OrderTakes, CanFill
  <1>4. Fits(fee)
    <2> DEFINE m == Notional(e.px, e.qty)
    <2>1. m \in Nat
      BY <1>2, NotionalNat
    <2> HIDE DEF m
    <2>2. FeeOf(m) \in Nat /\ FeeOf(m) <= m
      BY <2>1, FeeFacts
    <2>3. Fits(m)
      BY <1>3 DEF m
    <2>4. Fits(FeeOf(m))
      BY <2>1, <2>2, <2>3, MoneyAssumption DEF Fits
    <2> QED BY <2>4 DEF m
  <1>5. FillPlan(w, e, MintedExec(b)) = plan /\ plan.events = <<e>>
    BY <1>1, PlanEvents DEF FillPlan
  <1>6. CASE Dictated(w, e)
    <2>1. plan \in ExecutePlans(w, b, i, e.qty, e.px)
      BY <1>1, <1>3, <1>4, <1>5 DEF ExecutePlans, When
    <2>2. e.qty \in FillQtys /\ e.px \in FillPxs
      BY <1>6 DEF Dictated
    <2>3. plan \in FillPlans(w, b)
      <3> HIDE DEF plan, i
      <3> QED BY <1>2, <2>1, <2>2 DEF FillPlans
    <2> QED BY <1>5, <2>3
  <1>7. CASE Drawn(w, e)
    <2>1. e.px = o.limit_px /\ e.qty \in Slices(o)
      BY <1>7 DEF Drawn
    <2>2. IsWorking(w, i)
      BY <1>1, <1>3 DEF IsWorking, IsTerminal, Live, Terminal
    <2>3. ~ (Remaining(o) <= 0)
      BY <1>2, <1>3 DEF Remaining, Order, OrderState
    <2>4. plan \in AutoExecutePlans(w, b, i)
      <3>1. FillPlan(w, OrderFilled(i, b.next_exec_id, e.qty, o.limit_px,
                                   FeeOf(Notional(o.limit_px, e.qty))), MintedExec(b)) = plan
        BY <1>1, <1>5, <2>1
      <3>2. Fits(Notional(o.limit_px, e.qty)) /\ Fits(FeeOf(Notional(o.limit_px, e.qty)))
        BY <1>3, <1>4, <2>1
      <3> HIDE DEF plan
      <3> QED BY <2>1, <2>2, <2>3, <3>1, <3>2 DEF AutoExecutePlans
    <2>5. plan \in FillPlans(w, b)
      <3> HIDE DEF plan, i
      <3> QED BY <1>2, <2>4 DEF FillPlans
    <2> QED BY <1>5, <2>5
  <1> QED BY <1>6, <1>7 DEF CanBook

LEMMA BookableHasRoom ==
  ASSUME world \in World, TurnoverHasRoom, NEW e \in FilledEvent, CanBook(world, broker, e)
  PROVE  Fits(Traded(world, e))
  <1>1. PICK plan \in FillPlans(world, broker) : plan.events = <<e>>
    BY BookableIsOffered
  <1>2. RoomForTurnover(world, <<e>>)
    BY <1>1 DEF TurnoverHasRoom
  <1>3. world.orders[e.id] # None
    BY DEF CanBook, OrderTakes
  <1> QED BY <1>2, <1>3 DEF RoomForTurnover, FilledEvent

MatchInv == TypeOK /\ Matches(world)

(* While every day's turnover has room for what may be filled, the rows of *)
(* an order always add up to its filled quantity, its cost and its accrued *)
(* fees, through partial fills, cancels and replacements (Engine::apply).  *)
THEOREM BlotterAlwaysMatchesOrders == Spec /\ []TurnoverHasRoom => []BlotterMatchesOrders
  <1>1. Init => Matches(world)
    BY NoRows DEF Init, EmptyWorld, Matches, MatchesAt
  <1>2. MatchInv /\ TurnoverHasRoom /\ [Next]_vars => Matches(world)'
    <2> SUFFICES ASSUME MatchInv, TurnoverHasRoom, [Next]_vars PROVE Matches(world)'
      OBVIOUS
    <2>0. world \in World /\ broker \in Broker /\ Matches(world)
      BY DEF MatchInv, TypeOK
    <2>1. CASE Next
      <3>1. Effect(world, broker, world')
        BY <2>1, EveryStepHasAnEffect DEF MatchInv
      <3> SUFFICES ASSUME NEW k \in Ids
                   PROVE  MatchesAt(world'.orders[k], world'.order_executions[k], world'.order_fees[k])
        BY DEF Matches
      <3>2. /\ Changed(world, broker, world', k)
            /\ MatchesAt(world.orders[k], world.order_executions[k], world.order_fees[k])
        BY <2>0, <3>1, EffectChanges DEF Matches
      <3>3. CASE Rested(world, world', k)
        BY <2>0, <3>2, <3>3, RestKeepsMatch
      <3>4. ASSUME NEW e \in FilledEvent, e.id = k, Booked(world, broker, world', e)
            PROVE  MatchesAt(world'.orders[k], world'.order_executions[k], world'.order_fees[k])
        <4>1. Fits(Traded(world, e))
          BY <2>0, <3>4, BookableHasRoom DEF Booked
        <4> QED BY <2>0, <3>2, <3>4, <4>1, BookingKeepsMatch
      <3> QED BY <3>2, <3>3, <3>4 DEF Changed
    <2>2. CASE UNCHANGED vars
      BY <2>0, <2>2 DEF vars
    <2> QED BY <2>1, <2>2
  <1>3. MatchInv => BlotterMatchesOrders
    <2> SUFFICES ASSUME Matches(world) PROVE BlotterMatchesOrders
      BY DEF MatchInv
    <2> QED BY DEF Matches, MatchesAt, TotalQty, TotalGross, TotalFee, Qtys, Grosses, Fees,
               BlotterMatchesOrders, RowSum, Known
  <1> QED BY <1>1, <1>2, <1>3, TypeSafety, PTL DEF Spec, MatchInv

-----------------------------------------------------------------------------
(* A book whose owner owes nothing, and whose figures add up.              *)
Solvent(b) ==
  /\ b.cash >= 0
  /\ \A s \in Symbols : /\ b.positions[s].qty >= 0
                        /\ b.positions[s].cost >= 0
                        /\ b.positions[s].qty = 0 => b.positions[s].cost = 0

Basis(b) == [s \in Symbols |-> b.positions[s].cost]

Balanced(b) == b.cash + Sum(Basis(b), NumSymbols) = b.starting_cash + b.realized_pnl

Sound(b) == Solvent(b) /\ Balanced(b)

BooksSound(w) ==
  \A p \in Participants : w.participants[p] # None => Sound(w.participants[p])

-----------------------------------------------------------------------------
(* Selling part of a position takes part of its basis, all of it all.      *)
LEMMA RemovedFacts ==
  ASSUME NEW cost \in Nat, NEW sold \in Nat, NEW held \in Nat, sold <= held, held > 0
  PROVE  /\ CostRemoved(cost, sold, held) \in Nat
         /\ CostRemoved(cost, sold, held) <= cost
         /\ sold = held => CostRemoved(cost, sold, held) = cost
  <1> DEFINE m == cost * sold
             r == m \div held
  <1>1. m \in Nat /\ m <= cost * held
    OBVIOUS
  <1>2. r \in Int /\ held * r <= m /\ m < held * r + held
    <2> HIDE DEF m
    <2> QED BY <1>1
  <1>3. held * r + held = held * (r + 1) /\ held * (cost + 1) = held * cost + held
        /\ held * cost = cost * held
    BY <1>2
  <1>4. CostRemoved(cost, sold, held) = r
    BY DEF CostRemoved
  <1>5. sold = held => m = cost * held
    OBVIOUS
  <1> HIDE DEF m, r
  <1>6. r >= 0
    <2>1. r + 1 <= 0 => held * (r + 1) <= 0
      BY <1>2
    <2> QED BY <1>1, <1>2, <1>3, <2>1
  <1>7. r <= cost
    <2>1. ~ (r <= cost) => held * (cost + 1) <= held * r
      BY <1>2, <1>6
    <2> QED BY <1>1, <1>2, <1>3, <2>1
  <1>8. ASSUME sold = held PROVE r >= cost
    <2>1. ~ (r >= cost) => held * (r + 1) <= held * cost
      BY <1>2, <1>6
    <2> QED BY <1>1, <1>2, <1>3, <1>5, <1>8, <2>1
  <1> QED BY <1>2, <1>4, <1>6, <1>7, <1>8

-----------------------------------------------------------------------------
LEMMA OpenIsSound ==
  ASSUME NEW cash \in Nat
  PROVE  Sound(Open(cash))
  <1> DEFINE b == Open(cash)
  <1>1. /\ b.cash = cash /\ b.starting_cash = cash /\ b.realized_pnl = 0
        /\ \A s \in Symbols : b.positions[s].qty = 0 /\ b.positions[s].cost = 0
    BY DEF Open, Flat
  <1> HIDE DEF b
  <1>2. NumSymbols \in Nat /\ Symbols = 1..NumSymbols
    BY NumSymbolsAssumption DEF Symbols
  <1>3. Basis(b) \in [1..NumSymbols -> Int] /\ \A s \in 1..NumSymbols : Basis(b)[s] = 0
    BY <1>1, <1>2 DEF Basis
  <1>4. Sum(Basis(b), NumSymbols) = 0
    BY <1>2, <1>3, SumOfZeros
  <1> QED BY <1>1, <1>4 DEF Sound, Solvent, Balanced, b

(* Two bases that agree on all symbols but one.                            *)
LEMMA OneBasisChanged ==
  ASSUME NEW b, NEW c, NEW s \in Symbols,
         Basis(b) \in [Symbols -> Int], Basis(c) \in [Symbols -> Int],
         \A r \in Symbols : r # s => Basis(c)[r] = Basis(b)[r]
  PROVE  /\ Sum(Basis(c), NumSymbols) = Sum(Basis(b), NumSymbols) + Basis(c)[s] - Basis(b)[s]
         /\ Sum(Basis(b), NumSymbols) \in Int
  BY NumSymbolsAssumption, SumOfOneChanged, SumTyped DEF Symbols

(* A book differs in one position: so does its basis.                      *)
LEMMA BasisOfOneChanged ==
  ASSUME NEW b \in Book, NEW c \in Book, NEW s \in Symbols,
         \A r \in Symbols \ {s} : c.positions[r] = b.positions[r]
  PROVE  /\ Sum(Basis(c), NumSymbols)
              = Sum(Basis(b), NumSymbols) + c.positions[s].cost - b.positions[s].cost
         /\ Sum(Basis(b), NumSymbols) \in Int
  <1>1. b.positions \in [Symbols -> Position] /\ c.positions \in [Symbols -> Position]
    BY DEF Book
  <1>2. /\ Basis(b) \in [Symbols -> Int] /\ Basis(c) \in [Symbols -> Int]
        /\ \A r \in Symbols : Basis(b)[r] = b.positions[r].cost /\ Basis(c)[r] = c.positions[r].cost
    BY <1>1 DEF Basis, Position
  <1>3. \A r \in Symbols : r # s => Basis(c)[r] = Basis(b)[r]
    BY <1>2
  <1>4. /\ Sum(Basis(c), NumSymbols) = Sum(Basis(b), NumSymbols) + Basis(c)[s] - Basis(b)[s]
        /\ Sum(Basis(b), NumSymbols) \in Int
    BY <1>2, <1>3, OneBasisChanged
  <1> QED BY <1>2, <1>4

LEMMA BuyIsSound ==
  ASSUME NEW b \in Book, Sound(b), NEW f, f.symbol \in Symbols, f.side = "Buy",
         f.qty \in Nat, f.qty > 0, f.px \in Pxs, f.fee \in Nat, BookAccepts(b, f)
  PROVE  Sound(Buy(b, f))
  <1> DEFINE pos == b.positions[f.symbol]
             c == Buy(b, f)
             bought == Bought(pos, f.qty, Outlay(f))
  <1>1. /\ pos \in Position /\ pos.qty \in Nat /\ pos.cost \in Int
        /\ b.cash \in Int /\ b.realized_pnl \in Int /\ b.starting_cash \in Int
    BY DEF Book, Position
  <1>2. Outlay(f) \in Nat /\ Outlay(f) <= b.cash
    <2>1. Notional(f.px, f.qty) \in Nat
      BY NotionalNat
    <2> QED BY <2>1 DEF Outlay, BookAccepts, BuyAccepts
  <1>3. bought \in Position /\ bought.qty = pos.qty + f.qty /\ bought.cost = pos.cost + Outlay(f)
    BY <1>1, <1>2 DEF Bought, Position
  <1>4. c \in Book
    BY BookFillTyped DEF BookFill, Sides
  <1>5. /\ c.cash = b.cash - Outlay(f) /\ c.realized_pnl = b.realized_pnl
        /\ c.starting_cash = b.starting_cash
        /\ c.positions[f.symbol] = bought
        /\ \A r \in Symbols \ {f.symbol} : c.positions[r] = b.positions[r]
    BY DEF Buy, Book
  <1> HIDE DEF c, bought
  <1>6. /\ Sum(Basis(c), NumSymbols) = Sum(Basis(b), NumSymbols) + bought.cost - pos.cost
        /\ Sum(Basis(b), NumSymbols) \in Int
    BY <1>3, <1>4, <1>5, BasisOfOneChanged
  <1>7. Balanced(c)
    BY <1>1, <1>2, <1>3, <1>5, <1>6 DEF Balanced, Sound
  <1>8. Solvent(c)
    <2>1. pos.cost >= 0
      BY DEF Sound, Solvent
    <2> QED BY <1>1, <1>2, <1>3, <1>5, <1>6, <2>1 DEF Solvent, Sound
  <1> QED BY <1>7, <1>8 DEF Sound, c

LEMMA SellIsSound ==
  ASSUME NEW b \in Book, Sound(b), NEW f, f.symbol \in Symbols, f.side = "Sell",
         f.qty \in Nat, f.qty > 0, f.px \in Pxs, f.fee \in Nat,
         f.fee <= Notional(f.px, f.qty), BookAccepts(b, f)
  PROVE  Sound(Sell(b, f))
  <1> DEFINE pos == b.positions[f.symbol]
             c == Sell(b, f)
             sold == Sold(pos, f.qty, Removed(b, f))
  <1>1. /\ pos \in Position /\ pos.qty \in Nat /\ pos.cost \in Int
        /\ b.cash \in Int /\ b.realized_pnl \in Int /\ b.starting_cash \in Int
    BY DEF Book, Position
  <1>2. f.qty <= pos.qty /\ pos.qty > 0
    BY <1>1 DEF BookAccepts, SellAccepts
  <1>3. pos.cost \in Nat
    BY <1>1 DEF Sound, Solvent
  <1>4. /\ Removed(b, f) \in Nat /\ Removed(b, f) <= pos.cost
        /\ f.qty = pos.qty => Removed(b, f) = pos.cost
    BY <1>1, <1>2, <1>3, RemovedFacts DEF Removed
  <1>5. ProceedsNet(f) \in Nat
    <2>1. Notional(f.px, f.qty) \in Nat
      BY NotionalNat
    <2> QED BY <2>1 DEF ProceedsNet
  <1>6. sold \in Position /\ sold.qty = pos.qty - f.qty /\ sold.cost = pos.cost - Removed(b, f)
    BY <1>1, <1>2, <1>4 DEF Sold, Position
  <1>7. c \in Book
    BY BookFillTyped DEF BookFill, Sides
  <1>8. /\ c.cash = b.cash + ProceedsNet(f)
        /\ c.realized_pnl = b.realized_pnl + (ProceedsNet(f) - Removed(b, f))
        /\ c.starting_cash = b.starting_cash
        /\ c.positions[f.symbol] = sold
        /\ \A r \in Symbols \ {f.symbol} : c.positions[r] = b.positions[r]
    BY DEF Sell, Book, Pnl
  <1> HIDE DEF c, sold
  <1>9. /\ Sum(Basis(c), NumSymbols) = Sum(Basis(b), NumSymbols) + sold.cost - pos.cost
        /\ Sum(Basis(b), NumSymbols) \in Int
    BY <1>6, <1>7, <1>8, BasisOfOneChanged
  <1>10. Balanced(c)
    BY <1>1, <1>4, <1>5, <1>6, <1>8, <1>9 DEF Balanced, Sound
  <1>11. Solvent(c)
    <2>1. c.cash >= 0
      BY <1>1, <1>5, <1>8 DEF Solvent, Sound
    <2>2. sold.qty >= 0 /\ sold.cost >= 0 /\ (sold.qty = 0 => sold.cost = 0)
      BY <1>1, <1>2, <1>3, <1>4, <1>6
    <2> QED BY <1>8, <2>1, <2>2 DEF Solvent, Sound
  <1> QED BY <1>10, <1>11 DEF Sound, c

-----------------------------------------------------------------------------
(* A fill reaches the book of the order's participant and no other.        *)
LEMMA FilledBooks ==
  ASSUME NEW w \in World, NEW e \in FilledEvent, OrderTakes(w, e), BookTakes(w, e)
  PROVE  /\ ApplyFilled(w, e).participants[Trader(w, e.id)]
              = BookFill(w.participants[Trader(w, e.id)], FillOf(w, e))
         /\ \A p \in Participants \ {Trader(w, e.id)} :
              ApplyFilled(w, e).participants[p] = w.participants[p]
  <1> DEFINE v == FillOrder(w, e)
             p == Trader(w, e.id)
  <1>1. w.orders[e.id] # None
    BY DEF OrderTakes
  <1>2. /\ v \in World /\ v.participants = w.participants
        /\ Trader(v, e.id) = p /\ FillOf(v, e) = FillOf(w, e)
    BY <1>1, FillOrderTyped
  <1>3. FillBook(v, e) \in World
    BY FilledPartsTyped
  <1>4. FillTape(FillBook(v, e), e).participants = FillBook(v, e).participants
    BY <1>3 DEF FillTape, World
  <1>5. ApplyFilled(w, e).participants = FillBook(v, e).participants
    BY <1>4 DEF ApplyFilled
  <1>6. FillBook(v, e).participants
          = [w.participants EXCEPT ![p] = BookFill(w.participants[p], FillOf(w, e))]
    <2> HIDE DEF v, p
    <2> QED BY <1>2 DEF FillBook, World
  <1>7. p \in Participants /\ DOMAIN w.participants = Participants
    BY <1>1, FillFacts, WorldFields
  <1> QED BY <1>5, <1>6, <1>7

LEMMA FillKeepsBooksSound ==
  ASSUME NEW w \in World, NEW b, BooksSound(w), NEW u, Fills(w, b, u)
  PROVE  BooksSound(u)
  <1>1. PICK e \in FilledEvent : CanBook(w, b, e) /\ u = ApplyFilled(w, e)
    BY DEF Fills
  <1> DEFINE p == Trader(w, e.id)
             k == w.participants[p]
             f == FillOf(w, e)
  <1>2. /\ OrderTakes(w, e) /\ BookTakes(w, e) /\ w.orders[e.id] # None /\ e.qty > 0
        /\ k # None /\ BookAccepts(k, f) /\ e.fee = FeeOf(Notional(e.px, e.qty))
    BY <1>1 DEF CanBook, OrderTakes, CanFill, BookTakes
  <1>3. /\ p \in Participants /\ f.symbol \in Symbols /\ f.side \in Sides
        /\ f.qty = e.qty /\ f.px = e.px /\ f.fee = e.fee /\ e.qty \in Nat /\ e.px \in Pxs
    BY <1>2, FillFacts
  <1>4. k \in Book /\ Sound(k)
    BY <1>2, <1>3, WorldFields DEF BooksSound
  <1>5. e.fee \in Nat /\ e.fee <= Notional(e.px, e.qty)
    BY <1>2, <1>3, NotionalNat, FeeFacts
  <1>6. Sound(BookFill(k, f))
    <2> HIDE DEF k, f
    <2> QED BY <1>2, <1>3, <1>4, <1>5, BuyIsSound, SellIsSound DEF BookFill, Sides
  <1>7. /\ u.participants[p] = BookFill(k, f)
        /\ \A q \in Participants \ {p} : u.participants[q] = w.participants[q]
    BY <1>1, <1>2, FilledBooks
  <1> HIDE DEF p, k, f
  <1> QED BY <1>3, <1>6, <1>7 DEF BooksSound

LEMMA EffectKeepsBooksSound ==
  ASSUME NEW w \in World, NEW b, BooksSound(w), NEW u, Effect(w, b, u)
  PROVE  BooksSound(u)
  <1>1. CASE u.participants = w.participants
    BY <1>1 DEF BooksSound
  <1>2. CASE Opens(w, u)
    <2>1. PICK p \in Participants, cash \in Nat :
            u = [w EXCEPT !.participants = [w.participants EXCEPT ![p] = Open(cash)]]
      BY <1>2 DEF Opens
    <2>2. u.participants = [w.participants EXCEPT ![p] = Open(cash)]
      BY <2>1 DEF World
    <2>3. \A q \in Participants :
            u.participants[q] = IF q = p THEN Open(cash) ELSE w.participants[q]
      BY <2>2, WorldFields
    <2> QED BY <2>3, OpenIsSound DEF BooksSound
  <1>3. CASE Fills(w, b, u)
    BY <1>3, FillKeepsBooksSound
  <1>4. Opens(w, u) \/ Fills(w, b, u) \/ u.participants = w.participants
    BY DEF Effect, Cancels, Refuses, Accepts, Refused, Taken, Quotes, Lists, Delists, Closes,
           ApplyDayClosed, World
  <1> QED BY <1>1, <1>2, <1>3, <1>4

-----------------------------------------------------------------------------
BookInv == TypeOK /\ BooksSound(world)

LEMMA StepKeepsBooksSound ==
  ASSUME BookInv, [Next]_vars
  PROVE  BooksSound(world)'
  <1>1. CASE Next
    BY <1>1, EveryStepHasAnEffect, EffectKeepsBooksSound DEF BookInv, TypeOK
  <1>2. CASE UNCHANGED vars
    BY <1>2 DEF vars, BookInv
  <1> QED BY <1>1, <1>2

LEMMA BookInvariant == Spec => []BookInv
  <1>1. Init => BooksSound(world)
    BY DEF Init, EmptyWorld, BooksSound
  <1>2. BookInv /\ [Next]_vars => BooksSound(world)'
    BY StepKeepsBooksSound
  <1> QED BY <1>1, <1>2, TypeSafety, PTL DEF Spec, BookInv

(* No participant is ever overdrawn or short, no basis is negative, and a  *)
(* position sold out keeps none of it (Portfolio::apply, Position::sell).  *)
THEOREM LongOnlyAlways == Spec => []LongOnly
  <1>1. BookInv => LongOnly
    BY DEF BookInv, BooksSound, Sound, Solvent, LongOnly, Joined
  <1> QED BY <1>1, BookInvariant, PTL

(* Cash and the basis of what is held always add up to the starting cash   *)
(* and the realized P&L, whatever was bought and sold, at whatever fees    *)
(* and however the basis was rounded (Portfolio::apply).                   *)
THEOREM ProfitIsAlwaysAccountedFor == Spec => []ProfitIsAccountedFor
  <1>1. BookInv => ProfitIsAccountedFor
    BY DEF BookInv, BooksSound, Sound, Balanced, Basis, ProfitIsAccountedFor, Joined
  <1> QED BY <1>1, BookInvariant, PTL

-----------------------------------------------------------------------------
(* What one order sets aside: shares it offers, cash it may need.          *)
Offer(o, p, s) ==
  IF o # None /\ ~ IsTerminal(o.state) /\ o.participant = p /\ o.side = "Sell" /\ o.symbol = s
  THEN Remaining(o) ELSE 0

Need(o, p) ==
  IF o # None /\ ~ IsTerminal(o.state) /\ o.participant = p /\ o.side = "Buy"
  THEN Reserve(o) ELSE 0

Offers(w, p, s, excluding) ==
  [i \in Ids |-> IF i = excluding THEN 0 ELSE Offer(w.orders[i], p, s)]

Needs(w, p, excluding) ==
  [i \in Ids |-> IF i = excluding THEN 0 ELSE Need(w.orders[i], p)]

LEMMA ReservedIsASum ==
  ASSUME NEW w, NEW p, NEW s, NEW x
  PROVE  /\ ReservedQty(w, p, s, x) = Sum(Offers(w, p, s, x), MaxOrders)
         /\ ReservedCash(w, p, x) = Sum(Needs(w, p, x), MaxOrders)
  <1>1. Offers(w, p, s, x)
          = [i \in Ids |-> IF i \in WorkingOf(w, p, "Sell", x) /\ w.orders[i].symbol = s
                           THEN Remaining(w.orders[i]) ELSE 0]
    BY DEF Offers, Offer, WorkingOf, IsWorking
  <1>2. Needs(w, p, x)
          = [i \in Ids |-> IF i \in WorkingOf(w, p, "Buy", x)
                           THEN Reserve(w.orders[i]) ELSE 0]
    BY DEF Needs, Need, WorkingOf, IsWorking
  <1> QED BY <1>1, <1>2 DEF ReservedQty, ReservedCash

-----------------------------------------------------------------------------
LEMMA FeesAddUpToLess ==
  ASSUME NEW m \in Nat, NEW n \in Nat
  PROVE  FeeOf(m) + FeeOf(n) <= FeeOf(m + n)
  <1> DEFINE a == m * FeeBps
             c == n * FeeBps
             f == a \div BpsUnit
             g == c \div BpsUnit
             h == (a + c) \div BpsUnit
  <1>1. BpsUnit \in Nat /\ BpsUnit > 0 /\ a \in Nat /\ c \in Nat
        /\ (m + n) * FeeBps = a + c
    BY MoneyAssumption
  <1>2. FeeOf(m) = f /\ FeeOf(n) = g
    BY DEF FeeOf
  <1>3. FeeOf(m + n) = h
    <2>1. FeeOf(m + n) = ((m + n) * FeeBps) \div BpsUnit
      BY DEF FeeOf
    <2> HIDE DEF a, c
    <2> QED BY <1>1, <2>1
  <1> HIDE DEF a, c
  <1>4. /\ f \in Int /\ BpsUnit * f <= a
        /\ g \in Int /\ BpsUnit * g <= c
        /\ h \in Int /\ a + c < BpsUnit * h + BpsUnit
    BY <1>1
  <1> HIDE DEF f, g, h
  <1>5. BpsUnit * (f + g) = BpsUnit * f + BpsUnit * g /\ BpsUnit * (h + 1) = BpsUnit * h + BpsUnit
    BY <1>1, <1>4
  <1>6. h + 1 <= f + g => BpsUnit * (h + 1) <= BpsUnit * (f + g)
    BY <1>1, <1>4
  <1> QED BY <1>1, <1>2, <1>3, <1>4, <1>5, <1>6

(* What a fill at or below the limit costs is set aside, and what is left  *)
(* to reserve after it is covered by the rest.                             *)
LEMMA FillFreesItsCost ==
  ASSUME NEW limit \in Nat, NEW px \in Nat, px <= limit,
         NEW left \in Nat, NEW qty \in Nat, qty <= left
  PROVE  px * qty + FeeOf(px * qty) + limit * (left - qty) + FeeOf(limit * (left - qty))
           <= limit * left + FeeOf(limit * left)
  <1> DEFINE cost == px * qty
             rest == limit * (left - qty)
             saved == (limit - px) * qty
  <1>1. /\ cost \in Nat /\ rest \in Nat /\ saved \in Nat
    OBVIOUS
  <1>2. limit * left = cost + rest + saved
    <2>1. limit * left = limit * (left - qty) + limit * qty
      OBVIOUS
    <2>2. limit * qty = px * qty + (limit - px) * qty
      OBVIOUS
    <2>3. limit * left \in Int /\ limit * qty \in Int
      OBVIOUS
    <2> QED BY <1>1, <2>1, <2>2, <2>3
  <1> DEFINE whole == limit * left
  <1> HIDE DEF cost, rest, saved, whole
  <1>3. /\ cost + rest \in Nat
        /\ FeeOf(cost) + FeeOf(rest) <= FeeOf(cost + rest)
        /\ FeeOf(cost + rest) + FeeOf(saved) <= FeeOf(cost + rest + saved)
    BY <1>1, FeesAddUpToLess
  <1>4. /\ FeeOf(cost) \in Nat /\ FeeOf(rest) \in Nat /\ FeeOf(saved) \in Nat
        /\ FeeOf(cost + rest) \in Nat /\ FeeOf(cost + rest + saved) \in Nat
    BY <1>1, FeeFacts
  <1>5. cost + FeeOf(cost) + rest + FeeOf(rest) <= whole + FeeOf(whole)
    <2>1. whole = cost + rest + saved
      BY <1>2 DEF whole
    <2> QED BY <1>1, <1>3, <1>4, <2>1
  <1> QED BY <1>5 DEF cost, rest, whole

LEMMA SetAsideTyped ==
  ASSUME NEW w \in World, Story(w), NEW i \in Ids, NEW p, NEW s
  PROVE  Offer(w.orders[i], p, s) \in Nat /\ Need(w.orders[i], p) \in Nat
  <1> DEFINE o == w.orders[i]
  <1>1. CASE o = None
    BY <1>1 DEF Offer, Need
  <1>2. CASE o # None
    <2>1. o \in Order /\ o.qty \in Nat /\ o.state \in OrderState /\ o.limit_px \in Pxs
      BY <1>2, WorldFields, OrderFields DEF Order
    <2>2. o.state.filled \in Nat /\ o.state.filled <= o.qty
      BY <1>2, <2>1 DEF Story, StoryAt, OrderStory, OrderState
    <2>3. Remaining(o) \in Nat
      BY <2>1, <2>2 DEF Remaining
    <2>4. Reserve(o) \in Nat
      <3>1. Notional(o.limit_px, Remaining(o)) \in Nat
        BY <2>1, <2>3, NotionalNat
      <3> QED BY <3>1, FeeFacts DEF Reserve
    <2> QED BY <2>3, <2>4 DEF Offer, Need
  <1> QED BY <1>1, <1>2

LEMMA CancelledState ==
  ASSUME NEW o \in Order
  PROVE  Cancel(o.state) \in OrderState /\ IsTerminal(Cancel(o.state))
  <1>1. o.state \in OrderState /\ Cancel(o.state) \in OrderState
    BY OrderFields, TransitionsTyped
  <1> QED BY <1>1 DEF Cancel, OrderState, IsTerminal, Terminal

LEMMA EndedSetsNothingAside ==
  ASSUME NEW o \in Order, NEW state \in OrderState, IsTerminal(state)
  PROVE  \A p, s : /\ Offer(InState(o, state), p, s) = 0
                   /\ Need(InState(o, state), p) = 0
  BY InStateFields DEF Offer, Need

LEMMA TakenSetsAside ==
  ASSUME NEW t \in Terms, NEW original \in Ids \cup {None}, NEW id \in Int, NEW p, NEW s
  PROVE  LET o == InState(Submitted(t, original), Acknowledge(New, id))
         IN  /\ Offer(o, p, s) = IF t.participant = p /\ t.side = "Sell" /\ t.symbol = s
                                 THEN t.qty ELSE 0
             /\ Need(o, p) = IF t.participant = p /\ t.side = "Buy"
                             THEN Reserve(Submitted(t, original)) ELSE 0
  <1> DEFINE n == Submitted(t, original)
             o == InState(n, Acknowledge(New, id))
  <1>1. /\ n.participant = t.participant /\ n.side = t.side /\ n.symbol = t.symbol
        /\ n.qty = t.qty /\ n.limit_px = t.limit_px /\ n.state = New /\ t.qty \in Nat
    BY DEF Submitted, Terms
  <1>2. n \in Order /\ Acknowledge(New, id) \in OrderState
    BY SubmittedTyped, NewTyped, TransitionsTyped
  <1>3. Acknowledge(New, id).name = "ACKNOWLEDGED" /\ Acknowledge(New, id).filled = 0
    BY DEF Acknowledge, New
  <1>4. o # None /\ o.state = Acknowledge(New, id) /\ o.qty = n.qty
    BY <1>2, InStateFields
  <1>5. /\ o.participant = n.participant /\ o.side = n.side /\ o.symbol = n.symbol
        /\ o.limit_px = n.limit_px
    BY <1>2, InStateFields
  <1>6. Remaining(o) = t.qty /\ Remaining(n) = t.qty
    <2>1. New.filled = 0
      BY DEF New
    <2> HIDE DEF n, o
    <2> QED BY <1>1, <1>3, <1>4, <2>1 DEF Remaining
  <1>7. ~ IsTerminal(o.state)
    <2> HIDE DEF n, o
    <2> QED BY <1>3, <1>4 DEF IsTerminal, Terminal
  <1> HIDE DEF n, o
  <1>8. Reserve(o) = Reserve(n)
    BY <1>5, <1>6 DEF Reserve
  <1>9. /\ Offer(o, p, s) = IF t.participant = p /\ t.side = "Sell" /\ t.symbol = s
                            THEN t.qty ELSE 0
        /\ Need(o, p) = IF t.participant = p /\ t.side = "Buy" THEN Reserve(n) ELSE 0
    BY <1>1, <1>4, <1>5, <1>6, <1>7, <1>8 DEF Offer, Need
  <1> QED BY <1>9 DEF o, n

LEMMA FilledSetsAside ==
  ASSUME NEW o \in Order, NEW file, StoryAt(o, file), NEW qty \in Nat, NEW px \in Pxs,
         CanFill(o.state, o.qty, qty, px), NEW p, NEW s
  PROVE  LET n == InState(o, Fill(o.state, o.qty, qty, px))
             mine(side) == o.participant = p /\ o.side = side
             cost == Notional(px, qty) + FeeOf(Notional(px, qty))
         IN  /\ Offer(n, p, s)
                  = Offer(o, p, s) - (IF mine("Sell") /\ o.symbol = s THEN qty ELSE 0)
             /\ mine("Buy") /\ px <= o.limit_px => Need(n, p) + cost <= Need(o, p)
             /\ ~ mine("Buy") => Need(n, p) = 0 /\ Need(o, p) = 0
             /\ mine("Sell") /\ o.symbol = s => qty <= Offer(o, p, s)
  <1> DEFINE state == Fill(o.state, o.qty, qty, px)
             n == InState(o, state)
             left == o.qty - o.state.filled
  <1>1. /\ o # None /\ o.qty \in Nat /\ o.state \in OrderState /\ o.limit_px \in Pxs
        /\ state \in OrderState /\ OrderStory(o, file)
    BY OrderFields, TransitionsTyped DEF Order, StoryAt
  <1>2. /\ o.state.name \in Live /\ qty > 0 /\ o.state.filled + qty <= o.qty
        /\ o.state.filled \in Nat
    BY <1>1 DEF CanFill, OrderState
  <1>3. left \in Nat /\ qty <= left /\ Remaining(o) = left
    BY <1>1, <1>2 DEF Remaining
  <1>4. /\ state.filled = o.state.filled + qty
        /\ state.filled = o.qty => state.name = "FILLED"
        /\ state.filled # o.qty => state.name = "PARTIALLY_FILLED"
    BY <1>1, <1>2 DEF Fill, OrderState
  <1> HIDE DEF state
  <1>5. n # None /\ n.state = state /\ n.qty = o.qty
    BY <1>1, InStateFields
  <1>6. n.participant = o.participant /\ n.side = o.side /\ n.symbol = o.symbol
        /\ n.limit_px = o.limit_px
    BY InStateFields
  <1> HIDE DEF n
  <1>7. Remaining(n) = left - qty
    BY <1>1, <1>2, <1>4, <1>5 DEF Remaining
  <1>8. ~ IsTerminal(o.state) /\ (IsTerminal(n.state) <=> left = qty)
    BY <1>1, <1>2, <1>4, <1>5 DEF IsTerminal, Terminal, Live
  <1> HIDE DEF left
  <1>9. /\ Offer(o, p, s) = IF o.participant = p /\ o.side = "Sell" /\ o.symbol = s
                            THEN left ELSE 0
        /\ Offer(n, p, s) = IF o.participant = p /\ o.side = "Sell" /\ o.symbol = s
                            THEN left - qty ELSE 0
    BY <1>1, <1>3, <1>5, <1>6, <1>7, <1>8 DEF Offer
  <1>10. ASSUME o.participant = p, o.side = "Buy", px <= o.limit_px
         PROVE  Need(n, p) + (Notional(px, qty) + FeeOf(Notional(px, qty))) <= Need(o, p)
    <2> DEFINE rest == o.limit_px * (left - qty)
               whole == o.limit_px * left
               cost == px * qty
    <2>1. cost + FeeOf(cost) + rest + FeeOf(rest) <= whole + FeeOf(whole)
      BY <1>1, <1>3, <1>10, FillFreesItsCost DEF Pxs
    <2>2. Need(o, p) = whole + FeeOf(whole)
      BY <1>1, <1>3, <1>8, <1>10 DEF Need, Reserve, Notional
    <2>3. Need(n, p) = rest + FeeOf(rest) \/ Need(n, p) = 0
      BY <1>5, <1>6, <1>7 DEF Need, Reserve, Notional
    <2>4. rest \in Nat /\ whole \in Nat /\ cost \in Nat
      BY <1>1, <1>3 DEF Pxs
    <2>5. cost = Notional(px, qty)
      BY DEF Notional
    <2> HIDE DEF rest, whole, cost
    <2>6. FeeOf(rest) \in Nat /\ FeeOf(whole) \in Nat /\ FeeOf(cost) \in Nat
      BY <2>4, FeeFacts
    <2> QED BY <2>1, <2>2, <2>3, <2>4, <2>5, <2>6
  <1>11. ~ (o.participant = p /\ o.side = "Buy") => Need(n, p) = 0 /\ Need(o, p) = 0
    BY <1>6 DEF Need
  <1>12. /\ Offer(n, p, s) = Offer(o, p, s)
               - (IF o.participant = p /\ o.side = "Sell" /\ o.symbol = s THEN qty ELSE 0)
         /\ o.participant = p /\ o.side = "Sell" /\ o.symbol = s => qty <= Offer(o, p, s)
    BY <1>3, <1>9
  <1> QED BY <1>10, <1>11, <1>12 DEF n, state

-----------------------------------------------------------------------------
(* What the participant's book gains or gives in a fill.                   *)
LEMMA FilledFigures ==
  ASSUME NEW b \in Book, NEW f, f.symbol \in Symbols, f.side \in Sides,
         f.qty \in Nat, f.px \in Pxs, f.fee \in Nat, f.fee <= Notional(f.px, f.qty)
  PROVE  LET c == BookFill(b, f)
         IN  /\ f.side = "Buy" => c.cash = b.cash - (Notional(f.px, f.qty) + f.fee)
             /\ f.side = "Sell" => c.cash >= b.cash
             /\ \A s \in Symbols :
                  c.positions[s].qty = b.positions[s].qty
                    + (IF s = f.symbol THEN IF f.side = "Buy" THEN f.qty ELSE - f.qty ELSE 0)
  <1> DEFINE c == BookFill(b, f)
  <1>1. b.cash \in Int /\ b.positions \in [Symbols -> Position]
    BY DEF Book
  <1>2. Notional(f.px, f.qty) \in Nat
    BY NotionalNat
  <1>3. CASE f.side = "Buy"
    <2>1. /\ c.cash = b.cash - Outlay(f)
          /\ c.positions = [b.positions EXCEPT ![f.symbol] =
                              Bought(b.positions[f.symbol], f.qty, Outlay(f))]
      BY <1>3 DEF BookFill, Buy, Book
    <2> HIDE DEF c
    <2>2. \A s \in Symbols :
            c.positions[s].qty = b.positions[s].qty + (IF s = f.symbol THEN f.qty ELSE 0)
      BY <1>1, <2>1 DEF Bought, Position
    <2> QED BY <1>3, <2>1, <2>2 DEF Outlay, c
  <1>4. CASE f.side = "Sell"
    <2>1. /\ c.cash = b.cash + ProceedsNet(f)
          /\ c.positions = [b.positions EXCEPT ![f.symbol] =
                              Sold(b.positions[f.symbol], f.qty, Removed(b, f))]
      BY <1>4 DEF BookFill, Sell, Book
    <2> HIDE DEF c
    <2>2. \A s \in Symbols :
            c.positions[s].qty = b.positions[s].qty + (IF s = f.symbol THEN - f.qty ELSE 0)
      BY <1>1, <2>1 DEF Sold, Position
    <2>3. c.cash >= b.cash
      BY <1>1, <1>2, <2>1 DEF ProceedsNet
    <2> QED BY <1>4, <2>2, <2>3 DEF c
  <1> QED BY <1>3, <1>4 DEF Sides

(* One order changes and the others set aside no more than before.         *)
LEMMA ReservedMoves ==
  ASSUME NEW w \in World, Story(w), NEW u \in World, Story(u),
         NEW i \in Ids, NEW x \in Ids \cup {None}, i # x, NEW p, NEW s
  PROVE  /\ (\A k \in Ids \ {i} :
                Offer(u.orders[k], p, s) <= IF k = x THEN 0 ELSE Offer(w.orders[k], p, s))
           => ReservedQty(u, p, s, None)
                <= ReservedQty(w, p, s, x) + Offer(u.orders[i], p, s) - Offer(w.orders[i], p, s)
         /\ (\A k \in Ids \ {i} :
                Need(u.orders[k], p) <= IF k = x THEN 0 ELSE Need(w.orders[k], p))
           => ReservedCash(u, p, None)
                <= ReservedCash(w, p, x) + Need(u.orders[i], p) - Need(w.orders[i], p)
         /\ ReservedQty(w, p, s, x) \in Int /\ ReservedCash(w, p, x) \in Int
  <1>1. MaxOrders \in Nat /\ i \in 1..MaxOrders /\ \A k \in 1..MaxOrders : k \in Ids /\ k # None
    BY KeysAssumption, NoneAssumption DEF Ids
  <1>2. /\ Offers(w, p, s, x) \in [1..MaxOrders -> Int]
        /\ Offers(u, p, s, None) \in [1..MaxOrders -> Int]
        /\ Needs(w, p, x) \in [1..MaxOrders -> Int]
        /\ Needs(u, p, None) \in [1..MaxOrders -> Int]
    BY SetAsideTyped DEF Offers, Needs, Ids
  <1>3. \A k \in Ids :
          /\ Offers(u, p, s, None)[k] = Offer(u.orders[k], p, s)
          /\ Needs(u, p, None)[k] = Need(u.orders[k], p)
          /\ Offers(w, p, s, x)[k] = IF k = x THEN 0 ELSE Offer(w.orders[k], p, s)
          /\ Needs(w, p, x)[k] = IF k = x THEN 0 ELSE Need(w.orders[k], p)
    BY <1>1 DEF Offers, Needs, Ids
  <1>4. /\ ReservedQty(w, p, s, x) = Sum(Offers(w, p, s, x), MaxOrders)
        /\ ReservedQty(u, p, s, None) = Sum(Offers(u, p, s, None), MaxOrders)
        /\ ReservedCash(w, p, x) = Sum(Needs(w, p, x), MaxOrders)
        /\ ReservedCash(u, p, None) = Sum(Needs(u, p, None), MaxOrders)
    BY ReservedIsASum
  <1>5. ASSUME \A k \in Ids \ {i} :
                 Offer(u.orders[k], p, s) <= IF k = x THEN 0 ELSE Offer(w.orders[k], p, s)
        PROVE  Sum(Offers(u, p, s, None), MaxOrders)
                 <= Sum(Offers(w, p, s, x), MaxOrders)
                      + Offers(u, p, s, None)[i] - Offers(w, p, s, x)[i]
    <2>1. \A k \in 1..MaxOrders : k # i => Offers(u, p, s, None)[k] <= Offers(w, p, s, x)[k]
      BY <1>1, <1>3, <1>5
    <2> QED BY <1>1, <1>2, <2>1, SumMoves
  <1>6. ASSUME \A k \in Ids \ {i} :
                 Need(u.orders[k], p) <= IF k = x THEN 0 ELSE Need(w.orders[k], p)
        PROVE  Sum(Needs(u, p, None), MaxOrders)
                 <= Sum(Needs(w, p, x), MaxOrders) + Needs(u, p, None)[i] - Needs(w, p, x)[i]
    <2>1. \A k \in 1..MaxOrders : k # i => Needs(u, p, None)[k] <= Needs(w, p, x)[k]
      BY <1>1, <1>3, <1>6
    <2> QED BY <1>1, <1>2, <2>1, SumMoves
  <1>7. ReservedQty(w, p, s, x) \in Int /\ ReservedCash(w, p, x) \in Int
    BY <1>1, <1>2, <1>4, SumTyped
  <1> QED BY <1>3, <1>4, <1>5, <1>6, <1>7

-----------------------------------------------------------------------------
(* Every order belongs to someone who has joined, and what the working     *)
(* orders set aside is there.                                              *)
Owned(w) ==
  \A i \in Ids : w.orders[i] # None => w.participants[w.orders[i].participant] # None

SharesCovered(w) ==
  \A p \in Participants : w.participants[p] # None =>
    \A s \in Symbols : ReservedQty(w, p, s, None) <= w.participants[p].positions[s].qty

CashCovered(w) ==
  \A p \in Participants : w.participants[p] # None =>
    ReservedCash(w, p, None) <= w.participants[p].cash

Covered(w) == Owned(w) /\ SharesCovered(w) /\ (HonourLimits => CashCovered(w))

LEMMA SameOrdersStayCovered ==
  ASSUME NEW w, Covered(w), NEW u, u.orders = w.orders, u.participants = w.participants
  PROVE  Covered(u)
  BY DEF Covered, Owned, SharesCovered, CashCovered, ReservedQty, ReservedCash, WorkingOf, IsWorking

(* When one order ends nothing more is set aside.                          *)
LEMMA EndingStaysCovered ==
  ASSUME NEW w \in World, Story(w), Covered(w), NEW u \in World, Story(u),
         u.participants = w.participants, NEW i \in Ids, Owned(u),
         \A k \in Ids : \A p, s :
           /\ Offer(u.orders[k], p, s) <= Offer(w.orders[k], p, s)
           /\ Need(u.orders[k], p) <= Need(w.orders[k], p)
  PROVE  Covered(u)
  <1>1. i # None
    BY NoneAssumption DEF Ids
  <1>2. ASSUME NEW p \in Participants, NEW s \in Symbols
        PROVE  /\ ReservedQty(u, p, s, None) <= ReservedQty(w, p, s, None)
               /\ ReservedCash(u, p, None) <= ReservedCash(w, p, None)
               /\ ReservedQty(u, p, s, None) \in Int /\ ReservedCash(u, p, None) \in Int
               /\ ReservedQty(w, p, s, None) \in Int /\ ReservedCash(w, p, None) \in Int
    <2>1. \A k \in Ids :
            /\ Offer(u.orders[k], p, s) <= IF k = None THEN 0 ELSE Offer(w.orders[k], p, s)
            /\ Need(u.orders[k], p) <= IF k = None THEN 0 ELSE Need(w.orders[k], p)
      BY NoneAssumption DEF Ids
    <2>2. /\ Offer(u.orders[i], p, s) \in Int /\ Offer(w.orders[i], p, s) \in Int
          /\ Need(u.orders[i], p) \in Int /\ Need(w.orders[i], p) \in Int
      BY SetAsideTyped
    <2>3. /\ ReservedQty(u, p, s, None)
                <= ReservedQty(w, p, s, None) + Offer(u.orders[i], p, s) - Offer(w.orders[i], p, s)
          /\ ReservedCash(u, p, None)
                <= ReservedCash(w, p, None) + Need(u.orders[i], p) - Need(w.orders[i], p)
          /\ ReservedQty(w, p, s, None) \in Int /\ ReservedCash(w, p, None) \in Int
      BY <1>1, <2>1, ReservedMoves
    <2>4. ReservedQty(u, p, s, None) \in Int /\ ReservedCash(u, p, None) \in Int
      BY <1>1, ReservedMoves
    <2>5. /\ Offer(u.orders[i], p, s) <= Offer(w.orders[i], p, s)
          /\ Need(u.orders[i], p) <= Need(w.orders[i], p)
      OBVIOUS
    <2> QED BY <2>2, <2>3, <2>4, <2>5
  <1>3. \A p \in Participants : w.participants[p] # None =>
          /\ w.participants[p].cash \in Int
          /\ \A s \in Symbols : w.participants[p].positions[s].qty \in Int
    BY WorldFields DEF Book, Position
  <1>4. SharesCovered(u)
    <2> SUFFICES ASSUME NEW p \in Participants, w.participants[p] # None, NEW s \in Symbols
                 PROVE  ReservedQty(u, p, s, None) <= w.participants[p].positions[s].qty
      BY DEF SharesCovered
    <2> QED BY <1>2, <1>3 DEF Covered, SharesCovered
  <1>5. ASSUME HonourLimits PROVE CashCovered(u)
    <2> SUFFICES ASSUME NEW p \in Participants, w.participants[p] # None
                 PROVE  ReservedCash(u, p, None) <= w.participants[p].cash
      BY DEF CashCovered
    <2>1. 1 \in Symbols
      BY NumSymbolsAssumption DEF Symbols
    <2> QED BY <1>2, <1>3, <1>5, <2>1 DEF Covered, CashCovered
  <1> QED BY <1>4, <1>5 DEF Covered

LEMMA CancellingStaysCovered ==
  ASSUME NEW w \in World, Story(w), Covered(w), NEW u \in World, Story(u), Cancels(w, u)
  PROVE  Covered(u)
  <1>1. PICK i \in Ids :
          /\ w.orders[i] # None
          /\ u = [w EXCEPT !.orders = Advance(w.orders, i, Cancel(w.orders[i].state))]
    BY DEF Cancels
  <1> DEFINE o == w.orders[i]
             n == InState(o, Cancel(o.state))
  <1>2. /\ o \in Order /\ Cancel(o.state) \in OrderState /\ n.participant = o.participant
        /\ IsTerminal(Cancel(o.state))
    <2>1. o \in Order
      BY <1>1, WorldFields
    <2> HIDE DEF o
    <2> QED BY <2>1, CancelledState, InStateFields
  <1>3. /\ u.participants = w.participants /\ u.orders[i] = n
        /\ \A k \in Ids \ {i} : u.orders[k] = w.orders[k]
    BY <1>1, WorldFields DEF Advance, World, InState
  <1>4. \A p, s : Offer(n, p, s) = 0 /\ Need(n, p) = 0
    <2> HIDE DEF o
    <2> QED BY <1>2, EndedSetsNothingAside
  <1>5. Owned(u)
    BY <1>1, <1>2, <1>3 DEF Covered, Owned
  <1> HIDE DEF o, n
  <1>6. ASSUME NEW k \in Ids, NEW p, NEW s
        PROVE  /\ Offer(u.orders[k], p, s) <= Offer(w.orders[k], p, s)
               /\ Need(u.orders[k], p) <= Need(w.orders[k], p)
    BY <1>3, <1>4, SetAsideTyped
  <1> QED BY <1>3, <1>5, <1>6, EndingStaysCovered

LEMMA PlacedIsOwned ==
  ASSUME NEW w \in World, Owned(w), NEW i \in Ids, NEW t \in Terms,
         NEW original \in Ids \cup {None}, CanPlace(w, i, t, original),
         NEW state, NEW u, u.participants = w.participants,
         u.orders = Placed(w.orders, i, t, original, state)
  PROVE  Owned(u)
  <1> DEFINE n == InState(Submitted(t, original), state)
             old == w.orders[original]
             cancelled == InState(old, Cancel(old.state))
  <1>1. /\ u.orders[i] = n
        /\ \A k \in Ids : k # i /\ k # original => u.orders[k] = w.orders[k]
        /\ original # None => original \in Ids /\ old \in Order /\ u.orders[original] = cancelled
    BY PlacedOrders
  <1>2. original # None => cancelled.participant = old.participant /\ old # None
    BY <1>1, InStateFields, NoneAssumption
  <1>3. n.participant = t.participant
    BY SubmittedTyped, InStateFields DEF Submitted
  <1> HIDE DEF n, cancelled, old
  <1>4. w.participants[t.participant] # None
    BY <1>1, <1>2 DEF CanPlace, Owned, old
  <1>5. original # None => w.participants[old.participant] # None
    BY <1>1, <1>2 DEF Owned, old
  <1>6. ASSUME NEW k \in Ids, u.orders[k] # None
        PROVE  w.participants[u.orders[k].participant] # None
    <2>1. k \in Ids => k # None
      BY NoneAssumption DEF Ids
    <2>2. CASE k = i
      BY <1>1, <1>3, <1>4, <2>2
    <2>3. CASE k # i /\ k = original
      BY <1>1, <1>2, <1>5, <2>1, <2>3
    <2>4. CASE k # i /\ k # original
      BY <1>1, <1>6, <2>4 DEF Owned
    <2> QED BY <2>2, <2>3, <2>4
  <1> QED BY <1>6 DEF Owned

(* What is set aside once an order is placed: nothing for the one it       *)
(* replaces.                                                               *)
LEMMA PlacedSetsAside ==
  ASSUME NEW w \in World, Story(w), NEW i \in Ids, NEW t \in Terms,
         NEW original \in Ids \cup {None}, CanPlace(w, i, t, original),
         NEW state, NEW u, u.orders = Placed(w.orders, i, t, original, state), NEW p, NEW s
  PROVE  /\ i # original /\ Offer(w.orders[i], p, s) = 0 /\ Need(w.orders[i], p) = 0
         /\ u.orders[i] = InState(Submitted(t, original), state)
         /\ \A k \in Ids \ {i} :
              /\ Offer(u.orders[k], p, s) <= IF k = original THEN 0 ELSE Offer(w.orders[k], p, s)
              /\ Need(u.orders[k], p) <= IF k = original THEN 0 ELSE Need(w.orders[k], p)
              /\ Offer(u.orders[k], p, s) <= Offer(w.orders[k], p, s)
              /\ Need(u.orders[k], p) <= Need(w.orders[k], p)
  <1> DEFINE old == w.orders[original]
             cancelled == InState(old, Cancel(old.state))
  <1>1. /\ w.orders[i] = None /\ i # original
        /\ u.orders[i] = InState(Submitted(t, original), state)
        /\ \A k \in Ids : k # i /\ k # original => u.orders[k] = w.orders[k]
        /\ original # None => original \in Ids /\ old \in Order /\ u.orders[original] = cancelled
    BY PlacedOrders
  <1>2. Offer(w.orders[i], p, s) = 0 /\ Need(w.orders[i], p) = 0
    BY <1>1 DEF Offer, Need
  <1>3. original # None => Offer(cancelled, p, s) = 0 /\ Need(cancelled, p) = 0
    BY <1>1, CancelledState, EndedSetsNothingAside
  <1>4. \A k \in Ids : Offer(w.orders[k], p, s) \in Nat /\ Need(w.orders[k], p) \in Nat
    BY SetAsideTyped
  <1> HIDE DEF cancelled, old
  <1>5. ASSUME NEW k \in Ids \ {i}
        PROVE  /\ Offer(u.orders[k], p, s) <= IF k = original THEN 0 ELSE Offer(w.orders[k], p, s)
               /\ Need(u.orders[k], p) <= IF k = original THEN 0 ELSE Need(w.orders[k], p)
               /\ Offer(u.orders[k], p, s) <= Offer(w.orders[k], p, s)
               /\ Need(u.orders[k], p) <= Need(w.orders[k], p)
    <2>1. CASE k = original
      <3>1. k # None
        BY NoneAssumption DEF Ids
      <3>2. Offer(u.orders[k], p, s) = 0 /\ Need(u.orders[k], p) = 0
        BY <1>1, <1>3, <2>1, <3>1
      <3>3. Offer(w.orders[k], p, s) \in Nat /\ Need(w.orders[k], p) \in Nat
        BY <1>4
      <3> QED BY <2>1, <3>2, <3>3
    <2>2. CASE k # original
      <3>1. u.orders[k] = w.orders[k]
        BY <1>1, <2>2
      <3>2. Offer(w.orders[k], p, s) \in Nat /\ Need(w.orders[k], p) \in Nat
        BY <1>4
      <3> QED BY <2>2, <3>1, <3>2
    <2> QED BY <2>1, <2>2
  <1> QED BY <1>1, <1>2, <1>5

LEMMA RefusingStaysCovered ==
  ASSUME NEW w \in World, Story(w), Covered(w), NEW u \in World, Story(u), Refuses(w, u)
  PROVE  Covered(u)
  <1>1. PICK i \in Ids, t \in Terms, original \in Ids \cup {None}, why \in Reasons :
          CanPlace(w, i, t, original) /\ u = Refused(w, i, t, original, why)
    BY DEF Refuses
  <1>2. /\ u.participants = w.participants
        /\ u.orders = Placed(w.orders, i, t, original, Reject(New, why))
    BY <1>1 DEF Refused, World
  <1>3. Owned(u)
    BY <1>1, <1>2, PlacedIsOwned DEF Covered
  <1>4. \A p, s : /\ Offer(InState(Submitted(t, original), Reject(New, why)), p, s) = 0
                  /\ Need(InState(Submitted(t, original), Reject(New, why)), p) = 0
    <2>1. Submitted(t, original) \in Order /\ Reject(New, why) \in OrderState
      BY SubmittedTyped, NewTyped, TransitionsTyped
    <2>2. IsTerminal(Reject(New, why))
      BY DEF Reject, New, IsTerminal, Terminal
    <2> QED BY <2>1, <2>2, EndedSetsNothingAside
  <1>5. ASSUME NEW k \in Ids, NEW p, NEW s
        PROVE  /\ Offer(u.orders[k], p, s) <= Offer(w.orders[k], p, s)
               /\ Need(u.orders[k], p) <= Need(w.orders[k], p)
    <2> DEFINE refused == Reject(New, why)
               n == InState(Submitted(t, original), refused)
    <2>1. /\ Offer(w.orders[i], p, s) = 0 /\ Need(w.orders[i], p) = 0 /\ u.orders[i] = n
          /\ k # i => /\ Offer(u.orders[k], p, s) <= Offer(w.orders[k], p, s)
                      /\ Need(u.orders[k], p) <= Need(w.orders[k], p)
      <3>1. u.orders = Placed(w.orders, i, t, original, refused)
        BY <1>2
      <3> HIDE DEF refused
      <3>2. CanPlace(w, i, t, original) /\ u.orders = Placed(w.orders, i, t, original, refused)
        BY <1>1, <3>1
      <3> QED BY <3>2, PlacedSetsAside, SMTT(20)
    <2>2. Offer(n, p, s) = 0 /\ Need(n, p) = 0
      BY <1>4
    <2> HIDE DEF n
    <2> QED BY <2>1, <2>2
  <1> QED BY <1>2, <1>3, <1>5, EndingStaysCovered

LEMMA AcceptingStaysCovered ==
  ASSUME NEW w \in World, Story(w), Covered(w), NEW u \in World, Story(u),
         NEW b \in Broker, Accepts(w, b, u)
  PROVE  Covered(u)
  <1>1. PICK i \in Ids, t \in Terms, original \in Ids \cup {None} :
          /\ CanPlace(w, i, t, original)
          /\ Affordable(w, Submitted(t, original), original)
          /\ u = Taken(w, i, t, original, b.next_id)
    BY DEF Accepts
  <1> DEFINE n == InState(Submitted(t, original), Acknowledge(New, b.next_id))
             cost == Reserve(Submitted(t, original))
  <1>2. /\ u.participants = w.participants
        /\ u.orders = Placed(w.orders, i, t, original, Acknowledge(New, b.next_id))
    BY <1>1 DEF Taken, World
  <1>3. Owned(u)
    BY <1>1, <1>2, PlacedIsOwned DEF Covered
  <1>4. \A p, s : /\ Offer(n, p, s) = IF t.participant = p /\ t.side = "Sell" /\ t.symbol = s
                                      THEN t.qty ELSE 0
                  /\ Need(n, p) = IF t.participant = p /\ t.side = "Buy" THEN cost ELSE 0
    BY BrokerTyped, TakenSetsAside
  <1>5. /\ t.side = "Buy" => cost <= AvailableCash(w, t.participant, original)
        /\ t.side = "Sell" => t.qty <= AvailableQty(w, t.participant, t.symbol, original)
        /\ t.side \in Sides /\ t.qty \in Nat
    BY <1>1 DEF Affordable, Submitted, Sides, Terms
  <1>6. i # None
    BY NoneAssumption DEF Ids
  <1>7. \A p, s : /\ i # original /\ Offer(w.orders[i], p, s) = 0 /\ Need(w.orders[i], p) = 0
                  /\ u.orders[i] = n
                  /\ \A k \in Ids \ {i} :
                      /\ Offer(u.orders[k], p, s)
                           <= IF k = original THEN 0 ELSE Offer(w.orders[k], p, s)
                      /\ Need(u.orders[k], p) <= IF k = original THEN 0 ELSE Need(w.orders[k], p)
                      /\ Offer(u.orders[k], p, s) <= Offer(w.orders[k], p, s)
                      /\ Need(u.orders[k], p) <= Need(w.orders[k], p)
    BY <1>1, <1>2, PlacedSetsAside, SMTT(30)
  <1> HIDE DEF n, cost
  <1>8. \A p, s : /\ ReservedQty(u, p, s, None) <= ReservedQty(w, p, s, original) + Offer(n, p, s)
                  /\ ReservedQty(u, p, s, None) <= ReservedQty(w, p, s, None) + Offer(n, p, s)
                  /\ ReservedCash(u, p, None) <= ReservedCash(w, p, original) + Need(n, p)
                  /\ ReservedCash(u, p, None) <= ReservedCash(w, p, None) + Need(n, p)
                  /\ ReservedQty(w, p, s, original) \in Int /\ ReservedQty(w, p, s, None) \in Int
                  /\ ReservedCash(w, p, original) \in Int /\ ReservedCash(w, p, None) \in Int
                  /\ ReservedQty(u, p, s, None) \in Int /\ ReservedCash(u, p, None) \in Int
    <2> TAKE p, s
    <2>1. /\ Offer(w.orders[i], p, s) = 0 /\ Need(w.orders[i], p) = 0 /\ u.orders[i] = n
          /\ Offer(n, p, s) \in Nat /\ Need(n, p) \in Nat
      BY <1>7, SetAsideTyped
    <2>2. \A k \in Ids \ {i} : k # None
      BY NoneAssumption DEF Ids
    <2>3. /\ ReservedQty(u, p, s, None)
               <= ReservedQty(w, p, s, original) + Offer(u.orders[i], p, s) - Offer(w.orders[i], p, s)
          /\ ReservedCash(u, p, None)
               <= ReservedCash(w, p, original) + Need(u.orders[i], p) - Need(w.orders[i], p)
          /\ ReservedQty(w, p, s, original) \in Int /\ ReservedCash(w, p, original) \in Int
      BY <1>7, ReservedMoves
    <2>4. /\ ReservedQty(u, p, s, None)
               <= ReservedQty(w, p, s, None) + Offer(u.orders[i], p, s) - Offer(w.orders[i], p, s)
          /\ ReservedCash(u, p, None)
               <= ReservedCash(w, p, None) + Need(u.orders[i], p) - Need(w.orders[i], p)
          /\ ReservedQty(w, p, s, None) \in Int /\ ReservedCash(w, p, None) \in Int
      BY <1>6, <1>7, <2>2, ReservedMoves
    <2>5. ReservedQty(u, p, s, None) \in Int /\ ReservedCash(u, p, None) \in Int
      BY <1>6, ReservedMoves
    <2> QED BY <2>1, <2>3, <2>4, <2>5
  <1>9. \A p \in Participants : w.participants[p] # None =>
          /\ w.participants[p].cash \in Int
          /\ \A s \in Symbols : w.participants[p].positions[s].qty \in Int
    BY WorldFields DEF Book, Position
  <1>10. SharesCovered(u)
    <2> SUFFICES ASSUME NEW p \in Participants, w.participants[p] # None, NEW s \in Symbols
                 PROVE  ReservedQty(u, p, s, None) <= w.participants[p].positions[s].qty
      BY <1>2 DEF SharesCovered
    <2>1. CASE t.participant = p /\ t.side = "Sell" /\ t.symbol = s
      <3>1. Offer(n, p, s) = t.qty
        BY <1>4, <2>1
      <3>2. t.qty <= w.participants[p].positions[s].qty - ReservedQty(w, p, s, original)
        BY <1>5, <2>1 DEF AvailableQty
      <3> QED BY <1>5, <1>8, <1>9, <3>1, <3>2
    <2>2. CASE ~ (t.participant = p /\ t.side = "Sell" /\ t.symbol = s)
      <3>1. Offer(n, p, s) = 0
        BY <1>4, <2>2
      <3>2. ReservedQty(w, p, s, None) <= w.participants[p].positions[s].qty
        BY DEF Covered, SharesCovered
      <3> QED BY <1>8, <1>9, <3>1, <3>2
    <2> QED BY <2>1, <2>2
  <1>11. ASSUME HonourLimits PROVE CashCovered(u)
    <2> SUFFICES ASSUME NEW p \in Participants, w.participants[p] # None
                 PROVE  ReservedCash(u, p, None) <= w.participants[p].cash
      BY <1>2 DEF CashCovered
    <2>1. CASE t.participant = p /\ t.side = "Buy"
      <3>1. Need(n, p) = cost
        BY <1>4, <2>1
      <3>2. cost <= w.participants[p].cash - ReservedCash(w, p, original)
        BY <1>5, <2>1 DEF AvailableCash
      <3>3. cost \in Int
        BY <1>7, <3>1, SetAsideTyped
      <3> QED BY <1>8, <1>9, <3>1, <3>2, <3>3
    <2>2. CASE ~ (t.participant = p /\ t.side = "Buy")
      <3>1. Need(n, p) = 0
        BY <1>4, <2>2
      <3>2. ReservedCash(w, p, None) <= w.participants[p].cash
        BY <1>11 DEF Covered, CashCovered
      <3> QED BY <1>8, <1>9, <3>1, <3>2
    <2> QED BY <2>1, <2>2
  <1> QED BY <1>3, <1>10, <1>11 DEF Covered

LEMMA OpeningStaysCovered ==
  ASSUME NEW w \in World, Story(w), Covered(w), NEW u \in World, Story(u), Opens(w, u)
  PROVE  Covered(u)
  <1>1. PICK p \in Participants, cash \in Nat :
          /\ w.participants[p] = None
          /\ u = [w EXCEPT !.participants = [w.participants EXCEPT ![p] = Open(cash)]]
    BY DEF Opens
  <1>2. /\ u.orders = w.orders /\ u.participants[p] = Open(cash)
        /\ \A q \in Participants \ {p} : u.participants[q] = w.participants[q]
    BY <1>1, WorldFields DEF World
  <1>3. /\ Open(cash) # None /\ Open(cash).cash = cash
        /\ \A s \in Symbols : Open(cash).positions[s].qty = 0
    <2>1. Open(cash) \in Book
      BY DEF Open, Book, Flat, Position
    <2> QED BY <2>1, NoneAssumption DEF Open, Flat
  <1>4. Owned(u)
    <2> SUFFICES ASSUME NEW i \in Ids, w.orders[i] # None
                 PROVE  u.participants[w.orders[i].participant] # None
      BY <1>2 DEF Owned
    <2>1. w.orders[i].participant \in Participants /\ w.participants[w.orders[i].participant] # None
      BY WorldFields DEF Covered, Owned, Order
    <2> QED BY <1>2, <1>3, <2>1
  <1>5. \A q, s : /\ ReservedQty(u, q, s, None) = ReservedQty(w, q, s, None)
                  /\ ReservedCash(u, q, None) = ReservedCash(w, q, None)
    BY <1>2 DEF ReservedQty, ReservedCash, WorkingOf, IsWorking
  <1>6. \A s : ReservedQty(w, p, s, None) = 0 /\ ReservedCash(w, p, None) = 0
    <2> TAKE s
    <2>1. \A i \in Ids : Offer(w.orders[i], p, s) = 0 /\ Need(w.orders[i], p) = 0
      BY <1>1 DEF Covered, Owned, Offer, Need
    <2>2. MaxOrders \in Nat /\ Ids = 1..MaxOrders
      BY KeysAssumption DEF Ids
    <2>3. /\ Offers(w, p, s, None) \in [1..MaxOrders -> Int]
          /\ Needs(w, p, None) \in [1..MaxOrders -> Int]
          /\ \A i \in 1..MaxOrders : Offers(w, p, s, None)[i] = 0 /\ Needs(w, p, None)[i] = 0
      BY <2>1, <2>2 DEF Offers, Needs
    <2>4. Sum(Offers(w, p, s, None), MaxOrders) = 0 /\ Sum(Needs(w, p, None), MaxOrders) = 0
      BY <2>2, <2>3, SumOfZeros
    <2> QED BY <2>4, ReservedIsASum
  <1>7. SharesCovered(u)
    <2> SUFFICES ASSUME NEW q \in Participants, u.participants[q] # None, NEW s \in Symbols
                 PROVE  ReservedQty(w, q, s, None) <= u.participants[q].positions[s].qty
      BY <1>5 DEF SharesCovered
    <2>1. CASE q = p
      BY <1>2, <1>3, <1>6, <2>1
    <2>2. CASE q # p
      BY <1>2, <2>2 DEF Covered, SharesCovered
    <2> QED BY <2>1, <2>2
  <1>8. ASSUME HonourLimits PROVE CashCovered(u)
    <2> SUFFICES ASSUME NEW q \in Participants, u.participants[q] # None
                 PROVE  ReservedCash(w, q, None) <= u.participants[q].cash
      BY <1>5 DEF CashCovered
    <2>1. CASE q = p
      BY <1>2, <1>3, <1>6, <2>1
    <2>2. CASE q # p
      BY <1>2, <1>8, <2>2 DEF Covered, CashCovered
    <2> QED BY <2>1, <2>2
  <1> QED BY <1>4, <1>7, <1>8 DEF Covered

LEMMA FillingStaysCovered ==
  ASSUME NEW w \in World, Story(w), Covered(w), NEW u \in World, Story(u), NEW b, Fills(w, b, u)
  PROVE  Covered(u)
  <1>1. PICK e \in FilledEvent : CanBook(w, b, e) /\ u = ApplyFilled(w, e)
    BY DEF Fills
  <1> DEFINE i == e.id
             o == w.orders[i]
             n == u.orders[i]
             p == Trader(w, i)
             k == w.participants[p]
             f == FillOf(w, e)
             cost == Notional(e.px, e.qty) + FeeOf(Notional(e.px, e.qty))
  <1>2. /\ OrderTakes(w, e) /\ BookTakes(w, e) /\ o # None /\ e.qty > 0
        /\ CanFill(o.state, o.qty, e.qty, e.px)
        /\ k # None /\ BookAccepts(k, f) /\ e.fee = FeeOf(Notional(e.px, e.qty))
    BY <1>1 DEF CanBook, OrderTakes, CanFill, BookTakes
  <1>3. /\ i \in Ids /\ p \in Participants /\ f.symbol \in Symbols /\ f.side \in Sides
        /\ f.qty = e.qty /\ f.px = e.px /\ f.fee = e.fee /\ e.qty \in Nat /\ e.px \in Pxs
        /\ o \in Order
    BY <1>2, FillFacts
  <1>4. f.symbol = o.symbol /\ f.side = o.side /\ p = o.participant
    BY DEF FillOf, Trader
  <1>5. k \in Book /\ e.fee \in Nat /\ e.fee <= Notional(e.px, e.qty)
    <2>1. k \in Book
      BY <1>2, <1>3, WorldFields DEF Trader
    <2>2. Notional(e.px, e.qty) \in Nat
      BY <1>3, NotionalNat
    <2>3. e.fee \in Nat /\ e.fee <= Notional(e.px, e.qty)
      BY <1>2, <2>2, FeeFacts
    <2> QED BY <2>1, <2>3
  <1>6. /\ u.participants[p] = BookFill(k, f) /\ BookFill(k, f) # None
        /\ \A q \in Participants \ {p} : u.participants[q] = w.participants[q]
    <2>1. BookFill(k, f) \in Book
      <3> HIDE DEF k, f
      <3> QED BY <1>2, <1>3, <1>5, BookFillTyped
    <2> QED BY <1>1, <1>2, <2>1, FilledBooks, NoneAssumption
  <1>7. /\ n = InState(o, Fill(o.state, o.qty, e.qty, e.px))
        /\ \A j \in Ids \ {i} : u.orders[j] = w.orders[j]
    <2>1. u.orders = Advance(w.orders, i, Fill(o.state, o.qty, e.qty, e.px))
      BY <1>1, <1>2, FilledOrders
    <2> QED BY <1>3, <2>1, WorldFields DEF Advance, InState
  <1>8. StoryAt(o, w.order_broker_ids[i])
    BY <1>3 DEF Story
  <1>9. \A q, s :
          /\ Offer(n, q, s)
               = Offer(o, q, s) - (IF (p = q /\ o.side = "Sell") /\ o.symbol = s THEN e.qty ELSE 0)
          /\ (p = q /\ o.side = "Buy") /\ e.px <= o.limit_px => Need(n, q) + cost <= Need(o, q)
          /\ ~ (p = q /\ o.side = "Buy") => Need(n, q) = 0 /\ Need(o, q) = 0
    <2> TAKE q, s
    <2> HIDE DEF n, o, p, cost, i
    <2> DEFINE m == InState(o, Fill(o.state, o.qty, e.qty, e.px))
    <2>1. /\ Offer(m, q, s)
               = Offer(o, q, s) - (IF (o.participant = q /\ o.side = "Sell") /\ o.symbol = s
                                   THEN e.qty ELSE 0)
          /\ (o.participant = q /\ o.side = "Buy") /\ e.px <= o.limit_px
               => Need(m, q) + (Notional(e.px, e.qty) + FeeOf(Notional(e.px, e.qty))) <= Need(o, q)
          /\ ~ (o.participant = q /\ o.side = "Buy") => Need(m, q) = 0 /\ Need(o, q) = 0
      BY <1>2, <1>3, <1>8, FilledSetsAside
    <2> QED BY <1>4, <1>7, <2>1 DEF cost
  <1>10. HonourLimits /\ o.side = "Buy" => e.px <= o.limit_px
    <2>1. o.limit_px \in Nat
      BY <1>3 DEF Order, Pxs
    <2> QED BY <1>1, <2>1 DEF CanBook, Drawn, Dictated
  <1>11. /\ f.side = "Buy" => BookFill(k, f).cash = k.cash - cost
         /\ f.side = "Sell" => BookFill(k, f).cash >= k.cash
         /\ \A s \in Symbols :
              BookFill(k, f).positions[s].qty = k.positions[s].qty
                + (IF s = f.symbol THEN IF f.side = "Buy" THEN e.qty ELSE - e.qty ELSE 0)
    <2> HIDE DEF k, f
    <2>1. LET c == BookFill(k, f)
          IN  /\ f.side = "Buy" => c.cash = k.cash - (Notional(f.px, f.qty) + f.fee)
              /\ f.side = "Sell" => c.cash >= k.cash
              /\ \A s \in Symbols :
                   c.positions[s].qty = k.positions[s].qty
                     + (IF s = f.symbol THEN IF f.side = "Buy" THEN f.qty ELSE - f.qty ELSE 0)
      BY <1>3, <1>5, FilledFigures
    <2> QED BY <1>2, <1>3, <2>1
  <1>12. cost \in Nat
    BY <1>3, NotionalNat, FeeFacts
  <1>13. \A q \in Participants : w.participants[q] # None =>
           /\ w.participants[q].cash \in Int
           /\ \A s \in Symbols : w.participants[q].positions[s].qty \in Int
    BY WorldFields DEF Book, Position
  <1>14. k.cash \in Int /\ \A s \in Symbols : k.positions[s].qty \in Int
    BY <1>2, <1>3, <1>13
  <1> HIDE DEF i, o, n, p, k, f, cost
  <1>15. \A q, s : /\ ReservedQty(u, q, s, None) <= ReservedQty(w, q, s, None) + Offer(n, q, s) - Offer(o, q, s)
                   /\ ReservedCash(u, q, None) <= ReservedCash(w, q, None) + Need(n, q) - Need(o, q)
                   /\ ReservedQty(w, q, s, None) \in Int /\ ReservedCash(w, q, None) \in Int
                   /\ ReservedQty(u, q, s, None) \in Int /\ ReservedCash(u, q, None) \in Int
                   /\ Offer(n, q, s) \in Int /\ Offer(o, q, s) \in Int
                   /\ Need(n, q) \in Int /\ Need(o, q) \in Int
    <2> TAKE q, s
    <2>1. i # None /\ \A j \in Ids \ {i} : j # None
      BY <1>3, NoneAssumption DEF Ids
    <2>2. \A j \in Ids : Offer(w.orders[j], q, s) \in Nat /\ Need(w.orders[j], q) \in Nat
      BY SetAsideTyped
    <2>3. \A j \in Ids \ {i} :
            /\ Offer(u.orders[j], q, s) <= IF j = None THEN 0 ELSE Offer(w.orders[j], q, s)
            /\ Need(u.orders[j], q) <= IF j = None THEN 0 ELSE Need(w.orders[j], q)
      BY <1>7, <2>1, <2>2
    <2>4. /\ Offer(u.orders[i], q, s) \in Int /\ Need(u.orders[i], q) \in Int
          /\ Offer(w.orders[i], q, s) \in Int /\ Need(w.orders[i], q) \in Int
      BY <1>3, SetAsideTyped
    <2>5. /\ ReservedQty(u, q, s, None)
               <= ReservedQty(w, q, s, None) + Offer(u.orders[i], q, s) - Offer(w.orders[i], q, s)
          /\ ReservedCash(u, q, None)
               <= ReservedCash(w, q, None) + Need(u.orders[i], q) - Need(w.orders[i], q)
          /\ ReservedQty(w, q, s, None) \in Int /\ ReservedCash(w, q, None) \in Int
      BY <1>3, <2>1, <2>3, ReservedMoves
    <2>6. ReservedQty(u, q, s, None) \in Int /\ ReservedCash(u, q, None) \in Int
      BY <1>3, <2>1, ReservedMoves
    <2> QED BY <2>4, <2>5, <2>6 DEF n, o
  <1>16. SharesCovered(u)
    <2> SUFFICES ASSUME NEW q \in Participants, u.participants[q] # None, NEW s \in Symbols
                 PROVE  ReservedQty(u, q, s, None) <= u.participants[q].positions[s].qty
      BY DEF SharesCovered
    <2>1. w.participants[q] # None
      BY <1>2, <1>6 DEF k
    <2>2. ReservedQty(w, q, s, None) <= w.participants[q].positions[s].qty
      BY <2>1 DEF Covered, SharesCovered
    <2>3. CASE q = p
      <3>1. u.participants[q].positions[s].qty = k.positions[s].qty
              + (IF s = f.symbol THEN IF f.side = "Buy" THEN e.qty ELSE - e.qty ELSE 0)
        BY <1>6, <1>11, <2>3
      <3>2. w.participants[q] = k
        BY <2>3 DEF k
      <3>3. Offer(n, q, s)
              = Offer(o, q, s) - (IF f.side = "Sell" /\ f.symbol = s THEN e.qty ELSE 0)
        BY <1>4, <1>9, <2>3
      <3> QED BY <1>3, <1>14, <1>15, <2>2, <3>1, <3>2, <3>3 DEF Sides
    <2>4. CASE q # p
      <3>1. Offer(n, q, s) = Offer(o, q, s)
        BY <1>9, <1>15, <2>4
      <3>2. u.participants[q] = w.participants[q]
        BY <1>6, <2>4
      <3>3. w.participants[q].positions[s].qty \in Int
        BY <1>13, <2>1
      <3> QED BY <1>15, <2>2, <3>1, <3>2, <3>3
    <2> QED BY <2>3, <2>4
  <1>17. ASSUME HonourLimits PROVE CashCovered(u)
    <2> SUFFICES ASSUME NEW q \in Participants, u.participants[q] # None
                 PROVE  ReservedCash(u, q, None) <= u.participants[q].cash
      BY DEF CashCovered
    <2>1. w.participants[q] # None
      BY <1>2, <1>6 DEF k
    <2>2. ReservedCash(w, q, None) <= w.participants[q].cash
      BY <1>17, <2>1 DEF Covered, CashCovered
    <2>3. CASE q = p /\ f.side = "Buy"
      <3>1. u.participants[q].cash = k.cash - cost /\ w.participants[q] = k
        BY <1>6, <1>11, <2>3 DEF k
      <3>2. Need(n, q) + cost <= Need(o, q)
        BY <1>4, <1>9, <1>10, <1>17, <2>3
      <3> QED BY <1>12, <1>14, <1>15, <2>2, <3>1, <3>2
    <2>4. CASE ~ (q = p /\ f.side = "Buy")
      <3>1. Need(n, q) = 0 /\ Need(o, q) = 0
        BY <1>4, <1>9, <2>4
      <3>2. u.participants[q].cash >= w.participants[q].cash /\ u.participants[q].cash \in Int
        <4>1. w.participants[q].cash \in Int
          BY <1>13, <2>1
        <4>2. u.participants[q] \in Book
          BY WorldFields
        <4>3. CASE q = p
          BY <1>3, <1>6, <1>11, <2>4, <4>2, <4>3 DEF k, Sides, Book
        <4>4. CASE q # p
          BY <1>6, <4>1, <4>4
        <4> QED BY <4>3, <4>4
      <3>3. w.participants[q].cash \in Int
        BY <1>13, <2>1
      <3> QED BY <1>15, <2>2, <3>1, <3>2, <3>3, SMTT(20)
    <2> QED BY <2>3, <2>4
  <1>18. Owned(u)
    <2> SUFFICES ASSUME NEW j \in Ids, u.orders[j] # None
                 PROVE  u.participants[u.orders[j].participant] # None
      BY DEF Owned
    <2>1. w.orders[j] # None /\ u.orders[j].participant = w.orders[j].participant
      <3>1. n.participant = o.participant
        BY <1>3, <1>7, InStateFields
      <3> QED BY <1>2, <1>7, <3>1 DEF n, o
    <2>2. w.orders[j].participant \in Participants
      BY <2>1, WorldFields DEF Order
    <2>3. w.participants[w.orders[j].participant] # None
      BY <2>1 DEF Covered, Owned
    <2> QED BY <1>6, <2>1, <2>2, <2>3
  <1> QED BY <1>16, <1>17, <1>18 DEF Covered

LEMMA EffectStaysCovered ==
  ASSUME NEW w \in World, Story(w), Covered(w), NEW u \in World, Story(u),
         NEW b \in Broker, Effect(w, b, u)
  PROVE  Covered(u)
  <1>1. CASE u.orders = w.orders /\ u.participants = w.participants
    BY <1>1, SameOrdersStayCovered
  <1>2. CASE Opens(w, u) \/ Cancels(w, u) \/ Refuses(w, u) \/ Accepts(w, b, u) \/ Fills(w, b, u)
    BY <1>2, OpeningStaysCovered, CancellingStaysCovered, RefusingStaysCovered,
       AcceptingStaysCovered, FillingStaysCovered
  <1>3. Quotes(w, u) \/ Lists(w, u) \/ Delists(w, u) \/ Closes(w, u) \/ u = w
          => u.orders = w.orders /\ u.participants = w.participants
    BY DEF Quotes, Lists, Delists, Closes, ApplyDayClosed, World
  <1> QED BY <1>1, <1>2, <1>3 DEF Effect

(* Covered is inductive on top of the order story.                         *)
CoverInv == StoryInv /\ Covered(world)

LEMMA CoverInvariant == Spec => []CoverInv
  <1>1. Init => Covered(world)
    BY DEF Init, EmptyWorld, Covered, Owned, SharesCovered, CashCovered
  <1>2. CoverInv /\ StoryInv' /\ [Next]_vars => Covered(world)'
    <2> SUFFICES ASSUME CoverInv, StoryInv', [Next]_vars PROVE Covered(world)'
      OBVIOUS
    <2>0. /\ world \in World /\ broker \in Broker /\ Story(world) /\ Covered(world)
          /\ world' \in World /\ Story(world')
      BY DEF CoverInv, StoryInv, TypeOK
    <2>1. CASE Next
      <3>1. Effect(world, broker, world')
        BY <2>1, EveryStepHasAnEffect DEF CoverInv, StoryInv
      <3> QED BY <2>0, <3>1, EffectStaysCovered
    <2>2. CASE UNCHANGED vars
      BY <2>0, <2>2 DEF vars
    <2> QED BY <2>1, <2>2
  <1> QED BY <1>1, <1>2, StoryInvariant, PTL DEF Spec, CoverInv

(* The shares a participant's working sells still offer, all of them       *)
(* together, are shares that participant holds: no sell the venue took can *)
(* find the position gone, whatever was filled, replaced or cancelled in   *)
(* between (check_affordable, Engine::apply).                              *)
THEOREM SellsAlwaysCovered == Spec => []SellsCovered
  <1>1. CoverInv => SellsCovered
    BY DEF CoverInv, Covered, SharesCovered, SellsCovered, Joined
  <1> QED BY <1>1, CoverInvariant, PTL

(* While the operator fills no buy above its limit, the same holds of      *)
(* cash: what all working buys may still cost, fees included, is there,    *)
(* however the fees of partial fills are rounded (check_affordable).       *)
THEOREM ReservationsAlwaysCovered == Spec => [](HonourLimits => ReservationsCovered)
  <1>1. CoverInv => (HonourLimits => ReservationsCovered)
    BY DEF CoverInv, Covered, SharesCovered, CashCovered, ReservationsCovered, SellsCovered,
           BuysCovered, Joined
  <1> QED BY <1>1, CoverInvariant, PTL

-----------------------------------------------------------------------------
(* The fill of a slice of an order, as the broker would plan it.           *)
SliceFill(w, b, i, q) ==
  OrderFilled(i, b.next_exec_id, q, w.orders[i].limit_px, FeeOf(Notional(w.orders[i].limit_px, q)))

(* Nothing that a fill adds or multiplies is beyond the numbers there are. *)
FillFits(w, e) ==
  LET f == FillOf(w, e)
      k == w.participants[Trader(w, e.id)]
      pos == k.positions[f.symbol]
      gross == Notional(e.px, e.qty)
  IN  /\ Fits(gross) /\ Fits(e.fee) /\ Fits(w.orders[e.id].state.cost + gross)
      /\ Fits(k.fees_paid + e.fee)
      /\ f.side = "Buy" => /\ Fits(Outlay(f)) /\ Fits(k.cash - Outlay(f))
                           /\ Fits(pos.qty + f.qty) /\ Fits(pos.cost + Outlay(f))
      /\ f.side = "Sell" => /\ Fits(ProceedsNet(f)) /\ Fits(gross - Removed(k, f))
                            /\ Fits(Pnl(k, f)) /\ Fits(k.cash + ProceedsNet(f))
                            /\ Fits(k.realized_pnl + Pnl(k, f))

NumbersFit ==
  \A i \in Ids : IsWorking(world, i) =>
    \A q \in Slices(world.orders[i]) : FillFits(world, SliceFill(world, broker, i, q))

(* What one order sets aside is part of what is set aside in all.          *)
LEMMA AsideInReserved ==
  ASSUME NEW w \in World, Story(w), NEW i \in Ids, NEW p, NEW s
  PROVE  /\ Offer(w.orders[i], p, s) <= ReservedQty(w, p, s, None)
         /\ Need(w.orders[i], p) <= ReservedCash(w, p, None)
         /\ ReservedQty(w, p, s, None) \in Int /\ ReservedCash(w, p, None) \in Int
  <1> DEFINE offers == Offers(w, p, s, None)
             needs == Needs(w, p, None)
  <1>1. \A j \in Ids : /\ j # None
                       /\ Offer(w.orders[j], p, s) \in Nat /\ Need(w.orders[j], p) \in Nat
    BY SetAsideTyped, NoneAssumption DEF Ids
  <1>2. /\ offers \in [1..MaxOrders -> Nat] /\ offers[i] = Offer(w.orders[i], p, s)
        /\ needs \in [1..MaxOrders -> Nat] /\ needs[i] = Need(w.orders[i], p)
    BY <1>1 DEF Offers, Needs, Ids
  <1>3. /\ ReservedQty(w, p, s, None) = Sum(offers, MaxOrders)
        /\ ReservedCash(w, p, None) = Sum(needs, MaxOrders)
    BY ReservedIsASum
  <1>4. MaxOrders \in Nat /\ i \in 1..MaxOrders
    BY KeysAssumption DEF Ids
  <1> HIDE DEF offers, needs
  <1>5. /\ offers[i] <= Sum(offers, MaxOrders) /\ needs[i] <= Sum(needs, MaxOrders)
    BY <1>2, <1>4, TermInSum
  <1>6. offers \in [1..MaxOrders -> Int] /\ needs \in [1..MaxOrders -> Int]
    BY <1>2
  <1>7. Sum(offers, MaxOrders) \in Int /\ Sum(needs, MaxOrders) \in Int
    BY <1>4, <1>6, SumTyped
  <1> QED BY <1>2, <1>3, <1>5, <1>7

(* Whatever slice of a working order the broker draws, the order and the   *)
(* book take it.                                                           *)
LEMMA SliceIsTaken ==
  ASSUME NEW w \in World, NEW b \in Broker, Story(w), Settled(w), Owned(w),
         SharesCovered(w), CashCovered(w),
         NEW i \in Ids, IsWorking(w, i), NEW q \in Slices(w.orders[i]),
         FillFits(w, SliceFill(w, b, i, q))
  PROVE  LET e == SliceFill(w, b, i, q) IN OrderTakes(w, e) /\ BookTakes(w, e)
  <1> DEFINE o == w.orders[i]
             e == SliceFill(w, b, i, q)
             p == Trader(w, e.id)
             k == w.participants[p]
             f == FillOf(w, e)
             r == Remaining(o)
             gross == Notional(o.limit_px, q)
  <1>1. /\ o # None /\ ~ IsTerminal(o.state) /\ o \in Order /\ o.qty \in Nat
        /\ o.state \in OrderState /\ o.limit_px \in Pxs /\ o.limit_px \in Nat
        /\ o.participant \in Participants /\ o.symbol \in Symbols /\ o.side \in Sides
    BY WorldFields DEF IsWorking, Order, Pxs
  <1>2. o.qty > 0 /\ OrderStory(o, w.order_broker_ids[i])
    BY <1>1 DEF Story, StoryAt
  <1>3. o.state.name \in Live
    BY <1>1 DEF Settled, OrderState, States, IsTerminal
  <1>4. o.state.filled \in Nat /\ o.state.filled < o.qty
    BY <1>1, <1>2, <1>3 DEF OrderStory, OrderState, Live
  <1>5. r \in Nat /\ r > 0 /\ r = o.qty - o.state.filled
    BY <1>1, <1>4 DEF Remaining
  <1>6. q \in Nat /\ 0 < q /\ q <= r
    BY <1>1, <1>2, <1>5, SliceFacts
  <1>7. /\ e.id = i /\ e.qty = q /\ e.px = o.limit_px /\ e.fee = FeeOf(gross)
        /\ p = o.participant
        /\ f.symbol = o.symbol /\ f.side = o.side /\ f.qty = q
        /\ f.px = o.limit_px /\ f.fee = FeeOf(gross)
    BY DEF SliceFill, OrderFilled, FillOf, Trader
  <1>8. gross \in Nat /\ FeeOf(gross) \in Nat
    BY <1>1, <1>6, NotionalNat, FeeFacts
  <1>9. k # None /\ k \in Book /\ k.cash \in Int /\ k.positions[f.symbol].qty \in Int
    <2>1. k # None /\ p \in Participants /\ f.symbol \in Symbols
      BY <1>1, <1>7 DEF Owned
    <2>2. k \in Book
      BY <2>1, WorldFields
    <2> HIDE DEF k, f
    <2> QED BY <2>1, <2>2 DEF Book, Position
  <1>10. OrderTakes(w, e)
    <2>1. Fits(gross) /\ Fits(o.state.cost + gross)
      BY <1>7 DEF FillFits
    <2>2. CanFill(o.state, o.qty, q, o.limit_px)
      <3> HIDE DEF o, r
      <3> QED BY <1>1, <1>3, <1>4, <1>5, <1>6, <2>1 DEF CanFill
    <2> QED BY <1>1, <1>7, <2>2 DEF OrderTakes
  <1>11. ASSUME o.side = "Buy" PROVE Outlay(f) <= k.cash
    <2>1. Need(o, p) = Reserve(o)
      BY <1>1, <1>7, <1>11 DEF Need
    <2>2. Need(o, p) <= ReservedCash(w, p, None) /\ ReservedCash(w, p, None) \in Int
      BY AsideInReserved
    <2>3. ReservedCash(w, p, None) <= k.cash
      BY <1>1, <1>7, <1>9 DEF CashCovered
    <2>4. Outlay(f) = gross + FeeOf(gross)
      BY <1>7 DEF Outlay
    <2>5. gross + FeeOf(gross) <= Reserve(o)
      <3> DEFINE l == o.limit_px
                 rest == l * (r - q)
      <3>1. l * q + FeeOf(l * q) + rest + FeeOf(rest) <= l * r + FeeOf(l * r)
        <4> HIDE DEF r, l
        <4>1. l \in Nat /\ l <= l
          BY <1>1 DEF l
        <4> QED BY <1>5, <1>6, <4>1, FillFreesItsCost
      <3>2. rest \in Nat
        <4> HIDE DEF r
        <4> QED BY <1>1, <1>5, <1>6
      <3>3. FeeOf(rest) \in Nat
        BY <3>2, FeeFacts
      <3>4. Reserve(o) = l * r + FeeOf(l * r) /\ gross = l * q
        BY DEF Reserve, Notional
      <3>5. l * r \in Nat
        <4> HIDE DEF r
        <4> QED BY <1>1, <1>5
      <3>6. FeeOf(l * r) \in Nat
        BY <3>5, FeeFacts
      <3> HIDE DEF rest, gross, r, l
      <3> QED BY <1>8, <3>1, <3>2, <3>3, <3>4, <3>5, <3>6
    <2>6. Reserve(o) \in Nat
      BY <2>1, SetAsideTyped
    <2> HIDE DEF o, p, k, f, gross
    <2> QED BY <1>8, <1>9, <2>1, <2>2, <2>3, <2>4, <2>5, <2>6
  <1>12. ASSUME o.side = "Sell" PROVE f.qty <= k.positions[f.symbol].qty
    <2>1. Offer(o, p, f.symbol) = r
      BY <1>1, <1>7, <1>12 DEF Offer
    <2>2. /\ Offer(o, p, f.symbol) <= ReservedQty(w, p, f.symbol, None)
          /\ ReservedQty(w, p, f.symbol, None) \in Int
      BY AsideInReserved
    <2>3. ReservedQty(w, p, f.symbol, None) <= k.positions[f.symbol].qty
      BY <1>1, <1>7, <1>9 DEF SharesCovered
    <2> HIDE DEF o, p, k, f, r
    <2> QED BY <1>5, <1>6, <1>7, <1>9, <2>1, <2>2, <2>3
  <1>13. BookAccepts(k, f)
    <2> DEFINE pos == k.positions[f.symbol]
    <2>1. /\ Fits(gross) /\ Fits(k.fees_paid + f.fee)
          /\ f.side = "Buy" => /\ Fits(Outlay(f)) /\ Fits(k.cash - Outlay(f))
                               /\ Fits(pos.qty + f.qty) /\ Fits(pos.cost + Outlay(f))
          /\ f.side = "Sell" => /\ Fits(ProceedsNet(f)) /\ Fits(gross - Removed(k, f))
                                /\ Fits(Pnl(k, f)) /\ Fits(k.cash + ProceedsNet(f))
                                /\ Fits(k.realized_pnl + Pnl(k, f))
      BY <1>7 DEF FillFits
    <2>2. Notional(f.px, f.qty) = gross
      BY <1>7
    <2>3. /\ f.side = "Buy" => Outlay(f) <= k.cash
          /\ f.side = "Sell" => f.qty <= k.positions[f.symbol].qty
      BY <1>7, <1>11, <1>12
    <2> HIDE DEF k, f, gross
    <2> QED BY <2>1, <2>2, <2>3 DEF BookAccepts, BuyAccepts, SellAccepts
  <1>14. BookTakes(w, e)
    <2> HIDE DEF e
    <2> QED BY <1>9, <1>13 DEF BookTakes
  <1> QED BY <1>10, <1>14

(* Every order at work can be filled: while the operator fills no buy      *)
(* above its limit, whatever slice the broker draws of whatever working    *)
(* order is booked, unless a number overflows; no order waits for cash or  *)
(* shares that another has used up (check_affordable, validated_fill).     *)
THEOREM WorkingOrdersCanAlwaysFill ==
  Spec => [](HonourLimits /\ NumbersFit => WorkingOrdersCanFill)
  <1>1. CoverInv /\ Settled(world) => (HonourLimits /\ NumbersFit => WorkingOrdersCanFill)
    <2> SUFFICES ASSUME CoverInv, Settled(world), HonourLimits, NumbersFit,
                        NEW i \in Ids, IsWorking(world, i)
                 PROVE  /\ AutoExecutePlans(world, broker, i) # {}
                        /\ \A plan \in AutoExecutePlans(world, broker, i) : plan.events # <<>>
      BY DEF WorkingOrdersCanFill
    <2> DEFINE o == world.orders[i]
               e(q) == SliceFill(world, broker, i, q)
               plan(q) == FillPlan(world, e(q), MintedExec(broker))
    <2>1. /\ world \in World /\ broker \in Broker /\ Story(world) /\ Owned(world)
          /\ SharesCovered(world) /\ CashCovered(world)
      BY DEF CoverInv, StoryInv, TypeOK, Covered
    <2>2. ASSUME NEW q \in Slices(o)
          PROVE  /\ plan(q).events = <<e(q)>>
                 /\ Fits(Notional(o.limit_px, q)) /\ Fits(FeeOf(Notional(o.limit_px, q)))
      <3>1. FillFits(world, e(q))
        BY DEF NumbersFit
      <3>2. OrderTakes(world, e(q)) /\ BookTakes(world, e(q))
        <4>1. LET x == SliceFill(world, broker, i, q) IN OrderTakes(world, x) /\ BookTakes(world, x)
          BY <2>1, <3>1, SliceIsTaken
        <4> QED BY <4>1
      <3>3. plan(q).events = <<e(q)>>
        <4> HIDE DEF e
        <4> QED BY <3>2, PlanEvents DEF FillPlan
      <3>4. Fits(Notional(e(q).px, e(q).qty)) /\ Fits(e(q).fee)
        BY <3>1 DEF FillFits
      <3>5. e(q).px = o.limit_px /\ e(q).qty = q /\ e(q).fee = FeeOf(Notional(o.limit_px, q))
        BY DEF SliceFill, OrderFilled
      <3> HIDE DEF e, plan
      <3> QED BY <3>3, <3>4, <3>5
    <2>3. /\ o \in Order /\ o.qty \in Nat /\ o.qty > 0 /\ Remaining(o) \in Nat /\ Remaining(o) > 0
      <3>1. o # None /\ o \in Order /\ o.state.name \in Live
        BY <2>1, WorldFields DEF IsWorking, IsTerminal, Settled, Order, OrderState, States
      <3>2. o.qty \in Nat /\ o.state \in OrderState
        BY <3>1 DEF Order
      <3>3. o.qty > 0 /\ OrderStory(o, world.order_broker_ids[i])
        BY <2>1, <3>1 DEF Story, StoryAt
      <3>4. o.state.filled \in Nat /\ o.state.filled < o.qty
        BY <3>1, <3>2, <3>3 DEF OrderStory, OrderState, Live
      <3> QED BY <3>1, <3>2, <3>3, <3>4 DEF Remaining
    <2>4. Slices(o) # {}
      BY <2>3, SliceFacts
    <2>5. AutoExecutePlans(world, broker, i) = {plan(q) : q \in Slices(o)}
      <3>1. {q \in Slices(o) : /\ Fits(Notional(o.limit_px, q))
                               /\ Fits(FeeOf(Notional(o.limit_px, q)))} = Slices(o)
        BY <2>2
      <3>2. IsWorking(world, i) /\ ~ (Remaining(o) <= 0)
        BY <2>3
      <3> QED BY <3>1, <3>2 DEF AutoExecutePlans, SliceFill
    <2> HIDE DEF plan, o, e
    <2>6. \A x : <<x>> # <<>>
      OBVIOUS
    <2> QED BY <2>2, <2>4, <2>5, <2>6
  <1> QED BY <1>1, CoverInvariant, OrdersNeverRestInNew, PTL
=============================================================================
