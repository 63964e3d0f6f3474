----------------------------- MODULE MarketProofs ---------------------------
(***************************************************************************)
(* The engine as those who use it meet it, proved of every one with any    *)
(* participants, symbols, orders, days and inputs: the security master,    *)
(* the pages and the tape the readers are shown, the days and the seasons  *)
(* they add up to, and the answers of the HTTP face.                       *)
(***************************************************************************)
EXTENDS MCVenue, MCTrade, MCDays, MCRoutes, BookProofs

-----------------------------------------------------------------------------
(***************************************************************************)
(* The security master, of every venue in allowlist mode: nothing unlisted *)
(* is worked or held, whatever is listed, changed and removed, and what    *)
(* rests was admissible when it was accepted.  Then the pages the readers  *)
(* of any venue are shown: that they agree with the world, and that the    *)
(* tape is a history that could have happened.                             *)
(***************************************************************************)
Unlisted(w, s) == w.instruments[s] = None

UnusedWhereUnlisted(w) ==
  \A s \in Symbols : Unlisted(w, s) =>
    /\ \A i \in Ids : IsWorking(w, i) => w.orders[i].symbol # s
    /\ \A p \in Participants :
         w.participants[p] # None => w.participants[p].positions[s].qty = 0

-----------------------------------------------------------------------------
(* With a listing in the registry a symbol has the spec it is listed with. *)
LEMMA SpecInAllowlist ==
  ASSUME NEW w, ListedIn(w) # {}, NEW s \in Symbols
  PROVE  EffectiveSpec(w, s) = w.instruments[s]
  BY DEF ListedIn, EffectiveSpec

(* The order k has come to work: the venue found nothing to refuse in it.  *)
Admitted(w, b, u, k) ==
  \E t \in Terms, original \in Ids \cup {None} :
    /\ RejectReason(w, Submitted(t, original)) = None
    /\ u.orders[k] = InState(Submitted(t, original), Acknowledge(New, b.next_id))
    /\ u.order_broker_ids[k] = b.next_id

LEMMA NewOrdersAreAdmitted ==
  ASSUME NEW w \in World, NEW b \in Broker, NEW u, Effect(w, b, u),
         NEW k \in Ids, w.orders[k] = None, IsWorking(u, k)
  PROVE  Admitted(w, b, u, k)
  <1>0. u.orders[k] # None /\ ~ IsTerminal(u.orders[k].state)
    BY DEF IsWorking
  <1>1. CASE Accepts(w, b, u)
    <2>1. PICK i \in Ids, t \in Terms, original \in Ids \cup {None} :
            /\ CanPlace(w, i, t, original)
            /\ RejectReason(w, Submitted(t, original)) = None
            /\ u = Taken(w, i, t, original, b.next_id)
      BY <1>1 DEF Accepts
    <2> DEFINE state == Acknowledge(New, b.next_id)
    <2>2. /\ u.orders = Placed(w.orders, i, t, original, state)
          /\ u.order_broker_ids = [w.order_broker_ids EXCEPT ![i] = b.next_id]
      BY <2>1 DEF Taken, World
    <2>3. /\ u.orders[i] = InState(Submitted(t, original), state)
          /\ \A j \in Ids : j # i /\ j # original => u.orders[j] = w.orders[j]
          /\ original # None => original \in Ids /\ w.orders[original] \in Order
      <3> HIDE DEF state
      <3> QED BY <2>1, <2>2, PlacedOrders
    <2>4. k # original
      BY <2>3, NoneAssumption DEF Ids
    <2>5. k = i
      BY <1>0, <2>3, <2>4
    <2>6. u.order_broker_ids[i] = b.next_id
      BY <2>2, WorldFields
    <2> QED BY <2>1, <2>3, <2>5, <2>6 DEF Admitted
  <1>2. CASE Refuses(w, u)
    <2>1. PICK i \in Ids, t \in Terms, original \in Ids \cup {None}, why \in Reasons :
            /\ CanPlace(w, i, t, original)
            /\ u = Refused(w, i, t, original, why)
      BY <1>2 DEF Refuses
    <2> DEFINE state == Reject(New, why)
               o == Submitted(t, original)
    <2>2. u.orders = Placed(w.orders, i, t, original, state)
      BY <2>1 DEF Refused, World
    <2>3. /\ u.orders[i] = InState(o, state)
          /\ \A j \in Ids : j # i /\ j # original => u.orders[j] = w.orders[j]
          /\ original # None => w.orders[original] \in Order
      <3> HIDE DEF state
      <3> QED BY <2>1, <2>2, PlacedOrders
    <2>4. k # original
      BY <2>3, NoneAssumption DEF Ids
    <2>5. k = i
      BY <1>0, <2>3, <2>4
    <2>6. o \in Order /\ IsTerminal(state)
      BY SubmittedTyped DEF Reject, New, IsTerminal, Terminal
    <2> HIDE DEF state, o
    <2>7. u.orders[k].state = state
      BY <2>3, <2>5, <2>6, InStateFields
    <2> QED BY <1>0, <2>6, <2>7
  <1>3. ASSUME ~ Accepts(w, b, u), ~ Refuses(w, u)
        PROVE  FALSE
    <2>1. CASE Fills(w, b, u)
      <3>1. PICK e \in FilledEvent : CanBook(w, b, e) /\ u = ApplyFilled(w, e)
        BY <2>1 DEF Fills
      <3>2. Changed(w, b, u, k)
        BY <3>1, FillChanges
      <3>3. OrderTakes(w, e)
        BY <3>1 DEF CanBook
      <3>4. e.id \in Ids /\ e.id # k
        BY <3>3, FillFacts DEF OrderTakes
      <3>5. u.orders = Advance(w.orders, e.id,
                               Fill(w.orders[e.id].state, w.orders[e.id].qty, e.qty, e.px))
        BY <3>1, <3>3, FilledOrders DEF CanBook
      <3> QED BY <1>0, <3>4, <3>5, WorldFields DEF Advance
    <2>2. CASE Cancels(w, u)
      <3>1. PICK i \in Ids : /\ w.orders[i] # None
                             /\ u = [w EXCEPT !.orders = Advance(w.orders, i, Cancel(w.orders[i].state))]
        BY <2>2 DEF Cancels
      <3>2. u.orders = Advance(w.orders, i, Cancel(w.orders[i].state))
        BY <3>1 DEF World
      <3> QED BY <1>0, <3>1, <3>2, WorldFields DEF Advance
    <2>3. CASE u.orders = w.orders
      BY <1>0, <2>3
    <2>4. Fills(w, b, u) \/ Cancels(w, u) \/ u.orders = w.orders
      BY <1>3 DEF Effect, Opens, Quotes, Lists, Delists, Closes, ApplyDayClosed, World
    <2> QED BY <2>1, <2>2, <2>3, <2>4
  <1> QED BY <1>1, <1>2, <1>3

(* An order that works and is not new worked before, on the same symbol.   *)
LEMMA OldOrdersWorkedBefore ==
  ASSUME NEW w \in World, NEW b \in Broker, NEW u, Effect(w, b, u),
         NEW k \in Ids, w.orders[k] # None, IsWorking(u, k)
  PROVE  IsWorking(w, k) /\ u.orders[k].symbol = w.orders[k].symbol
  <1> DEFINE o == w.orders[k]
             n == u.orders[k]
  <1>0. n # None /\ ~ IsTerminal(n.state) /\ o \in Order /\ o.state \in OrderState
    BY WorldFields, OrderFields DEF IsWorking
  <1>1. Changed(w, b, u, k)
    BY EffectChanges
  <1>2. CASE n = o
    BY <1>2 DEF IsWorking
  <1>3. ~ Born(w, u, k)
    BY DEF Born
  <1>4. ~ Gone(w, u, k)
    <2> SUFFICES ASSUME Gone(w, u, k) PROVE FALSE
      OBVIOUS
    <2> DEFINE state == Cancel(o.state)
    <2>1. n = InState(o, state)
      BY DEF Gone
    <2>2. IsTerminal(state)
      BY <1>0 DEF Cancel, OrderState, IsTerminal, Terminal
    <2> HIDE DEF o, n, state
    <2>3. n.state = state
      BY <1>0, <2>1, InStateFields
    <2> QED BY <1>0, <2>2, <2>3
  <1>5. ASSUME NEW e \in FilledEvent, e.id = k, Booked(w, b, u, e)
        PROVE  IsWorking(w, k) /\ n.symbol = o.symbol
    <2> DEFINE state == Fill(o.state, o.qty, e.qty, e.px)
    <2>1. n = InState(o, state) /\ CanFill(o.state, o.qty, e.qty, e.px)
      BY <1>5 DEF Booked, CanBook, OrderTakes
    <2>2. ~ IsTerminal(o.state)
      BY <1>0, <2>1 DEF CanFill, Live, IsTerminal, Terminal
    <2> HIDE DEF state
    <2>3. n.symbol = o.symbol
      BY <1>0, <2>1, InStateFields
    <2> QED BY <2>2, <2>3 DEF IsWorking
  <1> QED BY <1>1, <1>2, <1>3, <1>4, <1>5 DEF Changed, Rested

-----------------------------------------------------------------------------
(* What an effect does to the books: nobody comes to hold what was not     *)
(* worked.                                                                 *)
LEMMA OpensHoldingNothing ==
  ASSUME NEW w \in World, NEW u, Opens(w, u), NEW p \in Participants, NEW s \in Symbols,
         u.participants[p] # None
  PROVE  \/ u.participants[p] = w.participants[p]
         \/ u.participants[p].positions[s].qty = 0
  <1>1. PICK q \in Participants, cash \in Nat :
          u = [w EXCEPT !.participants = [w.participants EXCEPT ![q] = Open(cash)]]
    BY DEF Opens
  <1>2. u.participants = [w.participants EXCEPT ![q] = Open(cash)]
    BY <1>1 DEF World
  <1>3. Open(cash).positions[s].qty = 0
    BY DEF Open, Flat
  <1> QED BY <1>2, <1>3, WorldFields

LEMMA FillsWhatWorks ==
  ASSUME NEW w \in World, NEW b, NEW u, Fills(w, b, u), NEW p \in Participants,
         NEW s \in Symbols, u.participants[p] # None,
         \A i \in Ids : IsWorking(w, i) => w.orders[i].symbol # s
  PROVE  /\ w.participants[p] # None
         /\ u.participants[p].positions[s] = w.participants[p].positions[s]
  <1>1. PICK e \in FilledEvent : CanBook(w, b, e) /\ u = ApplyFilled(w, e)
    BY DEF Fills
  <1> DEFINE q == Trader(w, e.id)
             k == w.participants[q]
             f == FillOf(w, e)
             o == w.orders[e.id]
  <1>2. OrderTakes(w, e) /\ BookTakes(w, e) /\ o # None /\ CanFill(o.state, o.qty, e.qty, e.px)
    BY <1>1 DEF CanBook, OrderTakes
  <1>3. /\ e.id \in Ids /\ o \in Order /\ q \in Participants /\ f.symbol \in Symbols
        /\ f.symbol = o.symbol
    BY <1>2, FillFacts DEF FillOf
  <1>4. IsWorking(w, e.id)
    <2>1. ~ IsTerminal(o.state)
      BY <1>2, <1>3, OrderFields DEF CanFill, Live, IsTerminal, Terminal
    <2> QED BY <1>2, <2>1 DEF IsWorking
  <1>5. f.symbol # s
    BY <1>3, <1>4
  <1>6. /\ u.participants[q] = BookFill(k, f)
        /\ \A x \in Participants \ {q} : u.participants[x] = w.participants[x]
    BY <1>1, <1>2, FilledBooks
  <1>7. k # None /\ k \in Book
    BY <1>2, <1>3, WorldFields DEF BookTakes
  <1>8. BookFill(k, f).positions[s] = k.positions[s]
    <2> HIDE DEF k, f
    <2> QED BY <1>5, <1>7 DEF BookFill, Buy, Sell, Book
  <1> QED BY <1>6, <1>7, <1>8

LEMMA RegistryChanges ==
  ASSUME NEW w \in World, NEW b, NEW u, Effect(w, b, u)
  PROVE  \/ u.instruments = w.instruments
         \/ /\ u.orders = w.orders /\ u.participants = w.participants
            /\ \A s \in Symbols : Unlisted(u, s) => Unlisted(w, s) \/ ~ InUse(w, s)
  <1>1. CASE Lists(w, u)
    <2>1. PICK s \in Symbols, spec \in InstrumentSpec :
            u = [w EXCEPT !.instruments = [w.instruments EXCEPT ![s] = spec]]
      BY <1>1 DEF Lists
    <2>2. u.instruments = [w.instruments EXCEPT ![s] = spec]
          /\ u.orders = w.orders /\ u.participants = w.participants
      BY <2>1 DEF World
    <2> QED BY <2>2, WorldFields, NoneAssumption DEF Unlisted
  <1>2. CASE Delists(w, u)
    <2>1. PICK s \in Symbols :
            /\ ~ InUse(w, s)
            /\ u = [w EXCEPT !.instruments = [w.instruments EXCEPT ![s] = None]]
      BY <1>2 DEF Delists
    <2>2. u.instruments = [w.instruments EXCEPT ![s] = None]
          /\ u.orders = w.orders /\ u.participants = w.participants
      BY <2>1 DEF World
    <2> QED BY <2>1, <2>2, WorldFields DEF Unlisted
  <1>3. CASE Fills(w, b, u)
    <2>1. \A x \in World : \A e : /\ FillBook(x, e).instruments = x.instruments
                             /\ FillTape(x, e).instruments = x.instruments
                             /\ FillOrder(x, e).instruments = x.instruments
      BY DEF FillBook, FillTape, FillOrder, World
    <2>2. PICK e \in FilledEvent : CanBook(w, b, e) /\ u = ApplyFilled(w, e)
      BY <1>3 DEF Fills
    <2>3. w.orders[e.id] # None /\ BookTakes(w, e)
      BY <2>2 DEF CanBook, OrderTakes
    <2>4. FillOrder(w, e) \in World /\ FillBook(FillOrder(w, e), e) \in World
      BY <2>2, <2>3, FilledPartsTyped DEF CanBook
    <2> QED BY <2>1, <2>2, <2>4 DEF ApplyFilled
  <1>4. Lists(w, u) \/ Delists(w, u) \/ Fills(w, b, u) \/ u.instruments = w.instruments
    BY DEF Effect, Opens, Cancels, Refuses, Accepts, Refused, Taken, Quotes, Closes,
           ApplyDayClosed, World
  <1> QED BY <1>1, <1>2, <1>3, <1>4
LEMMA EffectKeepsUnused ==
  ASSUME NEW w \in World, NEW b \in Broker, ListedIn(w) # {}, UnusedWhereUnlisted(w),
         NEW u, Effect(w, b, u)
  PROVE  UnusedWhereUnlisted(u)
  <1> SUFFICES ASSUME NEW s \in Symbols, Unlisted(u, s)
               PROVE  /\ \A i \in Ids : IsWorking(u, i) => u.orders[i].symbol # s
                      /\ \A p \in Participants : u.participants[p] # None =>
                           u.participants[p].positions[s].qty = 0
    BY DEF UnusedWhereUnlisted
  <1>1. CASE u.instruments # w.instruments
    <2>1. /\ u.orders = w.orders /\ u.participants = w.participants
          /\ Unlisted(w, s) \/ ~ InUse(w, s)
      BY <1>1, RegistryChanges
    <2>2. CASE Unlisted(w, s)
      BY <2>1, <2>2 DEF UnusedWhereUnlisted, IsWorking
    <2>3. CASE ~ InUse(w, s)
      BY <2>1, <2>3 DEF InUse, Holds, IsWorking
    <2> QED BY <2>1, <2>2, <2>3
  <1>2. CASE u.instruments = w.instruments
    <2>1. /\ \A i \in Ids : IsWorking(w, i) => w.orders[i].symbol # s
          /\ \A p \in Participants : w.participants[p] # None =>
               w.participants[p].positions[s].qty = 0
      BY <1>2 DEF UnusedWhereUnlisted, Unlisted
    <2>2. ASSUME NEW i \in Ids, IsWorking(u, i)
          PROVE  u.orders[i].symbol # s
      <3>1. CASE w.orders[i] # None
        BY <2>1, <2>2, <3>1, OldOrdersWorkedBefore
      <3>2. CASE w.orders[i] = None
        <4>1. PICK t \in Terms, original \in Ids \cup {None} :
                /\ RejectReason(w, Submitted(t, original)) = None
                /\ u.orders[i] = InState(Submitted(t, original), Acknowledge(New, b.next_id))
          BY <2>2, <3>2, NewOrdersAreAdmitted DEF Admitted
        <4> DEFINE o == Submitted(t, original)
                   state == Acknowledge(New, b.next_id)
        <4>2. o \in Order /\ o.symbol \in Symbols
          BY SubmittedTyped DEF Order
        <4>3. EffectiveSpec(w, o.symbol) # None
          <5> HIDE DEF o
          <5> QED BY <4>1, NoneAssumption DEF RejectReason, Reasons, o
        <4>4. ~ Unlisted(w, o.symbol)
          BY <4>2, <4>3, SpecInAllowlist DEF Unlisted
        <4> HIDE DEF o, state
        <4>5. u.orders[i].symbol = o.symbol
          BY <4>1, <4>2, InStateFields DEF o, state
        <4> QED BY <1>2, <4>4, <4>5 DEF Unlisted
      <3> QED BY <3>1, <3>2
    <2>3. ASSUME NEW p \in Participants, u.participants[p] # None
          PROVE  u.participants[p].positions[s].qty = 0
      <3>1. CASE Opens(w, u)
        BY <2>1, <2>3, <3>1, OpensHoldingNothing
      <3>2. CASE Fills(w, b, u)
        BY <2>1, <2>3, <3>2, FillsWhatWorks
      <3>3. CASE u.participants = w.participants
        BY <2>1, <2>3, <3>3
      <3>4. Opens(w, u) \/ Fills(w, b, u) \/ u.participants = w.participants
        BY DEF Effect, Cancels, Refuses, Accepts, Refused, Taken, Quotes, Lists, Delists, Closes,
               ApplyDayClosed, World
      <3> QED BY <3>1, <3>2, <3>3, <3>4
    <2> QED BY <2>2, <2>3
  <1> QED BY <1>1, <1>2

-----------------------------------------------------------------------------
(* A seeded venue.  Its participants have all joined, and one symbol is    *)
(* listed.                                                                 *)
VenueInv ==
  /\ BookInv /\ Story(world) /\ Settled(world)
  /\ ListedIn(world) # {} /\ UnusedWhereUnlisted(world)

KeepingSpec == SeededSpec /\ [][KeepsAListing]_vars

LEMMA SeededVenue ==
  ASSUME StartingCash # {}, SeededInit
  PROVE  VenueInv
  <1> DEFINE cash == CHOOSE c \in StartingCash : TRUE
  <1>1. cash \in Nat
    BY InputsAssumption
  <1>2. PICK spec \in Specs :
          world = [EmptyWorld EXCEPT
                     !.participants = [p \in Participants |-> Open(cash)],
                     !.instruments = [s \in Symbols |-> IF s = 1 THEN spec ELSE None]]
    BY DEF SeededInit
  <1> HIDE DEF cash
  <1>3. Open(cash) \in Book /\ Sound(Open(cash)) /\ Open(cash) # None
    <2>1. Open(cash) \in Book
      BY <1>1 DEF Open, Book, Flat, Position
    <2> QED BY <1>1, <2>1, OpenIsSound, NoneAssumption
  <1>4. spec \in InstrumentSpec /\ spec # None
    BY InputsAssumption, NoneAssumption
  <1>5. /\ world.participants = [p \in Participants |-> Open(cash)]
        /\ world.instruments = [s \in Symbols |-> IF s = 1 THEN spec ELSE None]
        /\ world.orders = [i \in Ids |-> None]
        /\ world.order_broker_ids = [i \in Ids |-> None]
    BY <1>2 DEF EmptyWorld
  <1>6. world \in World
    <2> DEFINE joined == [p \in Participants |-> Open(cash)]
               listed == [s \in Symbols |-> IF s = 1 THEN spec ELSE None]
    <2>1. /\ joined \in [Participants -> Book \cup {None}]
          /\ listed \in [Symbols -> InstrumentSpec \cup {None}]
      BY <1>3, <1>4
    <2>2. world = [EmptyWorld EXCEPT !.participants = joined, !.instruments = listed]
      BY <1>2
    <2> HIDE DEF joined, listed
    <2> QED BY <2>1, <2>2, EmptyWorldTyped DEF World
  <1>7. broker \in Broker
    BY DEF SeededInit, FreshBroker, Broker
  <1>8. BooksSound(world)
    BY <1>3, <1>5 DEF BooksSound
  <1>9. Story(world) /\ Settled(world)
    BY <1>5 DEF Story, StoryAt, Settled
  <1>10. ListedIn(world) # {}
    <2>1. 1 \in Symbols
      BY NumSymbolsAssumption DEF Symbols
    <2> QED BY <1>4, <1>5, <2>1 DEF ListedIn
  <1>11. UnusedWhereUnlisted(world)
    BY <1>5 DEF UnusedWhereUnlisted, IsWorking, Open, Flat
  <1> QED BY <1>6, <1>7, <1>8, <1>9, <1>10, <1>11 DEF VenueInv, BookInv, TypeOK

LEMMA VenueStep ==
  ASSUME VenueInv, [Next]_vars, [KeepsAListing]_vars
  PROVE  VenueInv'
  <1>1. BookInv /\ StoryInv /\ TypeOK
    BY DEF VenueInv, BookInv, StoryInv
  <1>2. BookInv'
    BY <1>1, StepKeepsTypes, StepKeepsBooksSound DEF BookInv
  <1>3. Story(world)' /\ Settled(world)'
    BY <1>1, StepKeepsStory, StepKeepsSettled DEF VenueInv
  <1>4. ListedIn(world)' # {}
    BY DEF VenueInv, KeepsAListing, vars
  <1>5. UnusedWhereUnlisted(world)'
    <2>1. CASE Next
      BY <1>1, <2>1, EveryStepHasAnEffect, EffectKeepsUnused DEF VenueInv, TypeOK
    <2>2. CASE UNCHANGED vars
      BY <2>2 DEF vars, VenueInv
    <2> QED BY <2>1, <2>2
  <1> QED BY <1>2, <1>3, <1>4, <1>5 DEF VenueInv

LEMMA VenueInvariant ==
  ASSUME StartingCash # {}
  PROVE  KeepingSpec => []VenueInv
  <1>1. SeededInit => VenueInv
    BY SeededVenue
  <1> QED BY <1>1, VenueStep, PTL DEF KeepingSpec, SeededSpec

(* In an allowlist venue nothing unlisted is ever worked or held, so every *)
(* position can be unwound: the venue refuses what is unlisted, and delists *)
(* only what nobody works or holds (Engine::decide, RemoveInstrument).     *)
THEOREM UnlistedIsNeverUsed ==
  ASSUME StartingCash # {}
  PROVE  KeepingSpec => []UnlistedIsUnused
  <1>1. VenueInv => UnlistedIsUnused
    BY DEF VenueInv, UnusedWhereUnlisted, Unlisted, UnlistedIsUnused, ListedIn, Joined
  <1> QED BY <1>1, VenueInvariant, PTL
(* Whatever rests at the venue was on the grid and under the cap of the    *)
(* symbol's spec when it was accepted, submitted or replacing              *)
(* (Engine::decide, SubmitOrder and ReplaceOrder).                         *)
THEOREM OnlyAdmissibleOrdersEverRest ==
  ASSUME StartingCash # {}
  PROVE  KeepingSpec => OnlyAdmissibleOrdersRest
  <1>1. ASSUME VenueInv, Next, NEW i \in Ids, world.orders[i] = None, IsWorking(world', i)
        PROVE  LET o == world'.orders[i]
                   spec == world.instruments[o.symbol]
               IN  /\ spec # None
                   /\ o.limit_px % spec.tick = 0 /\ o.qty % spec.lot = 0
                   /\ spec.max_order_qty # None => o.qty <= spec.max_order_qty
                   /\ world'.order_broker_ids[i] = broker.next_id
    <2>1. TypeOK /\ world \in World /\ broker \in Broker /\ ListedIn(world) # {}
      BY <1>1 DEF VenueInv, BookInv, TypeOK
    <2>2. Admitted(world, broker, world', i)
      BY <1>1, <2>1, EveryStepHasAnEffect, NewOrdersAreAdmitted
    <2>3. PICK t \in Terms, original \in Ids \cup {None} :
            /\ RejectReason(world, Submitted(t, original)) = None
            /\ world'.orders[i] = InState(Submitted(t, original), Acknowledge(New, broker.next_id))
            /\ world'.order_broker_ids[i] = broker.next_id
      BY <2>2 DEF Admitted
    <2> DEFINE o == Submitted(t, original)
               state == Acknowledge(New, broker.next_id)
               n == world'.orders[i]
               spec == EffectiveSpec(world, o.symbol)
    <2>4. o \in Order /\ o.symbol \in Symbols
      BY SubmittedTyped DEF Order
    <2>5. n.symbol = o.symbol /\ n.qty = o.qty /\ n.limit_px = o.limit_px
      <3> HIDE DEF o, state
      <3> QED BY <2>3, <2>4, InStateFields DEF o, state
    <2>6. spec = world.instruments[o.symbol]
      BY <2>1, <2>4, SpecInAllowlist
    <2>7. /\ spec # None /\ OnTick(spec, o.limit_px) /\ OnLot(spec, o.qty)
          /\ ~ (spec.max_order_qty # None /\ o.qty > spec.max_order_qty)
      <3> HIDE DEF o
      <3> QED BY <2>3, NoneAssumption DEF RejectReason, Reasons, o
    <2>8. spec.max_order_qty # None => o.qty <= spec.max_order_qty
      <3>1. spec \in InstrumentSpec /\ o.qty \in Nat
        BY <2>1, <2>4, <2>6, <2>7, WorldFields DEF Order
      <3> HIDE DEF spec, o
      <3> QED BY <2>7, <3>1 DEF InstrumentSpec
    <2> HIDE DEF o, n, spec
    <2> QED BY <2>3, <2>5, <2>6, <2>7, <2>8 DEF n, OnTick, OnLot
  <1>2. VenueInv /\ [Next]_vars =>
          [\A i \in Ids : ~ Known(i) /\ IsWorking(world', i) =>
             LET o == world'.orders[i]
                 spec == world.instruments[o.symbol]
             IN  /\ spec # None
                 /\ o.limit_px % spec.tick = 0 /\ o.qty % spec.lot = 0
                 /\ spec.max_order_qty # None => o.qty <= spec.max_order_qty
                 /\ world'.order_broker_ids[i] = broker.next_id]_vars
    BY <1>1 DEF Known
  <1> QED
    BY <1>2, VenueInvariant, PTL DEF KeepingSpec, SeededSpec, OnlyAdmissibleOrdersRest
-----------------------------------------------------------------------------
(***************************************************************************)
(* The pages.  An order without a venue id on its page never reached the   *)
(* venue.                                                                  *)
(***************************************************************************)
Quoted(w) ==
  \A i \in Ids : w.orders[i] # None /\ w.order_broker_ids[i] = None =>
    w.orders[i].state.name \in {"NEW", "REJECTED"}

LEMMA EffectKeepsQuoted ==
  ASSUME NEW w \in World, NEW b \in Broker, NEW u, Effect(w, b, u),
         Story(w), Settled(w), Quoted(w), Story(u), History(w, u)
  PROVE  Quoted(u)
  <1> SUFFICES ASSUME NEW i \in Ids, u.orders[i] # None, u.order_broker_ids[i] = None
               PROVE  u.orders[i].state.name \in {"NEW", "REJECTED"}
    BY DEF Quoted
  <1> DEFINE o == w.orders[i]
  <1>1. o # None => w.order_broker_ids[i] = None
    BY DEF History
  <1>2. o # None /\ CanCancel(o.state) => FALSE
    BY <1>1 DEF CanCancel, Story, StoryAt, OrderStory, Settled
  <1>3. Changed(w, b, u, i)
    BY EffectChanges
  <1>4. CASE u.orders[i] = o
    BY <1>1, <1>4 DEF Quoted
  <1>5. CASE Born(w, u, i)
    <2>1. u.orders[i].state.name # "ACKNOWLEDGED"
      BY DEF Story, StoryAt, OrderStory, Live
    <2> QED BY <1>5, <2>1 DEF Born
  <1>6. ~ Gone(w, u, i)
    BY <1>2 DEF Gone
  <1>7. ASSUME NEW e \in FilledEvent, e.id = i, Booked(w, b, u, e)
        PROVE  FALSE
    <2>1. o # None /\ o.state.name \in Live
      BY <1>7 DEF Booked, CanBook, OrderTakes, CanFill
    <2> QED BY <1>1, <2>1 DEF Story, StoryAt, OrderStory
  <1> QED BY <1>3, <1>4, <1>5, <1>6, <1>7 DEF Changed, Rested

LEMMA QuotedInvariant ==
  ASSUME StartingCash # {}
  PROVE  KeepingSpec => []Quoted(world)
  <1>1. SeededInit => Quoted(world)
    BY DEF SeededInit, EmptyWorld, Quoted
  <1>2. VenueInv /\ VenueInv' /\ Quoted(world) /\ [Next]_vars => Quoted(world)'
    <2> SUFFICES ASSUME VenueInv, VenueInv', Quoted(world), [Next]_vars PROVE Quoted(world)'
      OBVIOUS
    <2>1. StoryInv /\ TypeOK /\ Settled(world) /\ Story(world)'
      BY DEF VenueInv, BookInv, StoryInv
    <2>2. History(world, world')
      BY <2>1, StepHistory
    <2>3. CASE Next
      BY <2>1, <2>2, <2>3, EveryStepHasAnEffect, EffectKeepsQuoted DEF TypeOK, StoryInv
    <2>4. CASE UNCHANGED vars
      BY <2>4 DEF vars
    <2> QED BY <2>3, <2>4
  <1> QED BY <1>1, <1>2, VenueInvariant, PTL DEF KeepingSpec, SeededSpec

(* The page of an order shows no venue id exactly when the venue never     *)
(* took the order, in NEW and REJECTED (dto.rs, broker_order_id).          *)
THEOREM BrokerIdsAreAlwaysQuoted ==
  ASSUME StartingCash # {}
  PROVE  KeepingSpec => []BrokerIdsAreQuoted
  <1>1. Story(world) /\ Quoted(world) => BrokerIdsAreQuoted
    BY DEF Story, StoryAt, OrderStory, Quoted, BrokerIdsAreQuoted, OrderView
  <1>2. VenueInv => Story(world)
    BY DEF VenueInv
  <1> QED BY <1>1, <1>2, VenueInvariant, QuotedInvariant, PTL
-----------------------------------------------------------------------------
(***************************************************************************)
(* A valuation is a fold that stops at an error.  It adds up what is held, *)
(* or shows nothing.                                                       *)
(***************************************************************************)
Counted(book, amounts) ==
  [s \in Symbols |-> IF Holds(book, s) /\ amounts[s] # None THEN amounts[s] ELSE 0]

Stuck(book, amounts, sums, s) ==
  Holds(book, s) /\ (amounts[s] = None \/ ~ Fits(sums[s]))

LEMMA FoldIsASum ==
  ASSUME NEW book, NEW amounts,
         \A s \in Symbols : amounts[s] # None => amounts[s] \in Int,
         NEW t, Adds(t, Counted(book, amounts), NumSymbols)
  PROVE  FoldPositions(book, amounts)
           = IF \E s \in Symbols : Stuck(book, amounts, t, s) THEN None ELSE t[NumSymbols]
  <1> DEFINE g == [n \in 0..NumSymbols |->
                     IF \E s \in 1..n : Stuck(book, amounts, t, s) THEN None ELSE t[n]]
             next(f, n) == IF n = 0 THEN 0
                           ELSE IF f[n - 1] = None \/ ~ Holds(book, n) THEN f[n - 1]
                           ELSE IF amounts[n] = None \/ ~ Fits(f[n - 1] + amounts[n]) THEN None
                           ELSE f[n - 1] + amounts[n]
             fold == CHOOSE f : f = [n \in 0..NumSymbols |-> next(f, n)]
  <1>0. NumSymbols \in Nat /\ NumSymbols > 0
    BY NumSymbolsAssumption
  <1>1. /\ \A n \in 0..NumSymbols : t[n] \in Int /\ t[n] # None
        /\ t[0] = 0
        /\ \A n \in 1..NumSymbols :
             t[n] = t[n - 1] + (IF Holds(book, n) /\ amounts[n] # None THEN amounts[n] ELSE 0)
    BY NoneAssumption DEF Adds, Counted, Symbols
  <1>2. ASSUME NEW n \in 0..NumSymbols PROVE g[n] = next(g, n)
    <2>1. CASE n = 0
      BY <1>1, <2>1
    <2>2. CASE n # 0
      <3>1. n \in 1..NumSymbols /\ n - 1 \in 0..NumSymbols
        <4> HIDE DEF g
        <4> QED BY <1>0, <2>2
      <3>2. (\E s \in 1..n : Stuck(book, amounts, t, s))
              <=> (\E s \in 1..(n - 1) : Stuck(book, amounts, t, s)) \/ Stuck(book, amounts, t, n)
        <4>1. \A s : s \in 1..n <=> s \in 1..(n - 1) \/ s = n
          BY <3>1
        <4> QED BY <4>1
      <3>3. /\ g[n] = IF \E s \in 1..n : Stuck(book, amounts, t, s) THEN None ELSE t[n]
            /\ g[n - 1] = IF \E s \in 1..(n - 1) : Stuck(book, amounts, t, s)
                          THEN None ELSE t[n - 1]
        BY <3>1
      <3> HIDE DEF g
      <3>4. CASE \E s \in 1..(n - 1) : Stuck(book, amounts, t, s)
        BY <2>2, <3>2, <3>3, <3>4
      <3>5. CASE ~ \E s \in 1..(n - 1) : Stuck(book, amounts, t, s)
        <4>1. g[n - 1] = t[n - 1] /\ t[n - 1] # None /\ t[n - 1] \in Int /\ t[n] \in Int
          BY <1>1, <3>1, <3>3, <3>5
        <4>2. g[n] = IF Stuck(book, amounts, t, n) THEN None ELSE t[n]
          BY <3>2, <3>3, <3>5
        <4>3. CASE Holds(book, n) /\ amounts[n] # None
          <5>1. t[n] = t[n - 1] + amounts[n]
            BY <1>1, <3>1, <4>3
          <5> QED BY <2>2, <4>1, <4>2, <4>3, <5>1 DEF Stuck
        <4>4. CASE ~ Holds(book, n)
          <5>1. t[n] = t[n - 1]
            BY <1>1, <3>1, <4>1, <4>4
          <5> QED BY <2>2, <4>1, <4>2, <4>4, <5>1 DEF Stuck
        <4>5. CASE Holds(book, n) /\ amounts[n] = None
          BY <2>2, <4>1, <4>2, <4>5 DEF Stuck
        <4> QED BY <4>3, <4>4, <4>5
      <3> QED BY <3>4, <3>5
    <2> QED BY <2>1, <2>2
  <1>3. g = [n \in 0..NumSymbols |-> next(g, n)]
    <2> DEFINE h == [n \in 0..NumSymbols |-> next(g, n)]
    <2>1. \A n \in 0..NumSymbols : g[n] = h[n]
      BY <1>2
    <2> HIDE DEF next
    <2> QED BY <2>1
  <1>4. fold = [n \in 0..NumSymbols |-> next(fold, n)]
    <2> HIDE DEF g, next
    <2> QED BY <1>3
  <1>5. FoldPositions(book, amounts) = fold[NumSymbols]
    BY DEF FoldPositions
  <1> HIDE DEF fold
  <1>6. \A n \in 0..NumSymbols : fold[n] = next(fold, n)
    <2> HIDE DEF next
    <2> QED BY <1>4
  <1>7. \A n \in 0..NumSymbols : fold[n] = g[n]
    <2> DEFINE T == {n \in 0..NumSymbols : fold[n] = g[n]}
    <2>1. 0 \in T
      <3>1. 0 \in 0..NumSymbols
        BY <1>0
      <3>2. fold[0] = 0 /\ g[0] = 0
        <4>1. next(fold, 0) = 0 /\ next(g, 0) = 0
          OBVIOUS
        <4> HIDE DEF next, g
        <4> QED BY <1>2, <1>6, <3>1, <4>1
      <3> QED BY <3>1, <3>2
    <2>2. ASSUME NEW n \in 1..NumSymbols, n - 1 \in T PROVE n \in T
      <3>1. n \in 0..NumSymbols /\ fold[n - 1] = g[n - 1]
        BY <2>2
      <3>2. next(fold, n) = next(g, n)
        <4> HIDE DEF g
        <4> QED BY <3>1
      <3> HIDE DEF next, g
      <3> QED BY <1>2, <1>6, <3>1, <3>2
    <2> HIDE DEF T
    <2>3. \A n \in 0..NumSymbols : n \in T
      BY <1>0, <2>1, <2>2, UpTo
    <2> QED BY <2>3 DEF T
  <1>8. fold[NumSymbols] = IF \E s \in Symbols : Stuck(book, amounts, t, s)
                           THEN None ELSE t[NumSymbols]
    <2>1. NumSymbols \in 0..NumSymbols
      BY <1>0
    <2> QED BY <1>7, <2>1 DEF Symbols
  <1> QED BY <1>5, <1>8

(* Partial sums of naturals never shrink.                                  *)
LEMMA PartialSumsGrow ==
  ASSUME NEW n \in Nat, NEW f \in [1..n -> Nat], NEW s, Adds(s, f, n)
  PROVE  \A k \in 0..n : s[k] \in Nat /\ s[k] <= s[n]
  <1> DEFINE T == {k \in 0..n : \A j \in 0..k : 0 <= s[j] /\ s[j] <= s[k]}
  <1>1. s \in [0..n -> Int] /\ s[0] = 0 /\ \A k \in 1..n : s[k] = s[k - 1] + f[k]
    BY DEF Adds
  <1>2. 0 \in T
    BY <1>1
  <1>3. ASSUME NEW k \in 1..n, k - 1 \in T PROVE k \in T
    <2>1. s[k] >= s[k - 1] /\ s[k] \in Int /\ s[k - 1] \in Int /\ 0 <= s[k - 1]
      BY <1>1, <1>3
    <2>2. ASSUME NEW j \in 0..k PROVE 0 <= s[j] /\ s[j] <= s[k]
      <3>1. CASE j = k
        BY <2>1, <3>1
      <3>2. CASE j # k
        <4>1. j \in 0..(k - 1) /\ j \in 0..n
          BY <3>2
        <4>2. 0 <= s[j] /\ s[j] <= s[k - 1] /\ s[j] \in Int
          BY <1>1, <1>3, <4>1
        <4> QED BY <2>1, <4>2
      <3> QED BY <3>1, <3>2
    <2> QED BY <2>2
  <1> HIDE DEF T
  <1>4. \A k \in 0..n : k \in T
    BY <1>2, <1>3, UpTo
  <1>5. n \in T
    BY <1>4
  <1> QED BY <1>1, <1>5 DEF T

(* What the position in s is worth at its mark, as far as it has one.      *)
Worth(w, p) ==
  [s \in Symbols |-> IF Holds(w.participants[p], s) /\ w.marks[s] # None
                     THEN Notional(w.marks[s], w.participants[p].positions[s].qty) ELSE 0]

(* All that a participant has and all it cost is within the numbers.       *)
WorthFits(w) ==
  \A p \in Participants : w.participants[p] # None =>
    TotalValue(w.participants[p], w.marks) + Sum(Basis(w.participants[p]), NumSymbols) <= MaxRaw

AllMarked(w, p) ==
  \A s \in Symbols : Holds(w.participants[p], s) => w.marks[s] # None

LEMMA WorthTyped ==
  ASSUME NEW w \in World, NEW p \in Participants, w.participants[p] # None,
         Solvent(w.participants[p])
  PROVE  /\ Worth(w, p) \in [1..NumSymbols -> Nat]
         /\ Basis(w.participants[p]) \in [1..NumSymbols -> Nat]
  <1> DEFINE b == w.participants[p]
  <1>1. b \in Book
    BY WorldFields
  <1>2. \A s \in Symbols : b.positions[s].qty \in Nat /\ b.positions[s].cost \in Nat
    BY <1>1 DEF Book, Position, Solvent
  <1>3. \A s \in Symbols : w.marks[s] # None => w.marks[s] \in Pxs
    BY WorldFields
  <1> HIDE DEF b
  <1>4. Basis(b) \in [1..NumSymbols -> Nat]
    BY <1>2 DEF Basis, Symbols
  <1>5. \A s \in Symbols : w.marks[s] # None => Notional(w.marks[s], b.positions[s].qty) \in Nat
    BY <1>2, <1>3, NotionalNat
  <1>6. Worth(w, p) \in [1..NumSymbols -> Nat]
    BY <1>5 DEF Worth, Symbols, b
  <1> QED BY <1>4, <1>6 DEF b

(* One position of a valuation: no number on its row is out of range.      *)
LEMMA RowsFit ==
  ASSUME NEW w \in World, NEW p \in Participants, w.participants[p] # None,
         Solvent(w.participants[p]), AllMarked(w, p),
         NEW total \in Int, total <= MaxRaw, NEW s \in Symbols,
         Holds(w.participants[p], s),
         Worth(w, p)[s] + Basis(w.participants[p])[s] <= total
  PROVE  /\ MarketValueOf(w, p, s) = Worth(w, p)[s]
         /\ UnrealizedOf(w, p, s) = Worth(w, p)[s] - Basis(w.participants[p])[s]
  <1> DEFINE b == w.participants[p]
             value == Notional(w.marks[s], b.positions[s].qty)
             cost == b.positions[s].cost
  <1>1. w.marks[s] # None
    BY DEF AllMarked
  <1>2. Worth(w, p)[s] = value /\ Basis(b)[s] = cost
    BY <1>1 DEF Worth, Basis
  <1>3. value \in Nat /\ cost \in Nat
    <2>1. s \in 1..NumSymbols
      BY DEF Symbols
    <2>2. Worth(w, p)[s] \in Nat /\ Basis(b)[s] \in Nat
      BY <2>1, WorthTyped
    <2> HIDE DEF value, cost
    <2> QED BY <1>2, <2>2
  <1>4. MaxRaw \in Nat
    BY MoneyAssumption
  <1>5. Fits(value) /\ Fits(value - cost)
    <2> HIDE DEF value, cost
    <2> QED BY <1>2, <1>3, <1>4 DEF Fits
  <1>6. /\ MarketValueOf(w, p, s) = MarketValue(b.positions[s], w.marks[s])
        /\ UnrealizedOf(w, p, s) = Unrealized(b.positions[s], w.marks[s])
    BY <1>1 DEF MarketValueOf, UnrealizedOf
  <1> QED BY <1>2, <1>5, <1>6 DEF MarketValue, Unrealized

LEMMA ViewsTyped ==
  ASSUME NEW w \in World, NEW p \in Participants, w.participants[p] # None
  PROVE  \A s \in Symbols :
           /\ MarketValueOf(w, p, s) # None => MarketValueOf(w, p, s) \in Int
           /\ UnrealizedOf(w, p, s) # None => UnrealizedOf(w, p, s) \in Int
  <1> TAKE s \in Symbols
  <1> DEFINE pos == w.participants[p].positions[s]
  <1>1. pos.qty \in Nat /\ pos.cost \in Int
    BY WorldFields DEF Book, Position
  <1>2. w.marks[s] # None => w.marks[s] \in Pxs
    BY WorldFields
  <1> HIDE DEF pos
  <1>3. w.marks[s] # None => Notional(w.marks[s], pos.qty) \in Nat
    BY <1>1, <1>2, NotionalNat
  <1> QED BY <1>1, <1>3 DEF MarketValueOf, UnrealizedOf, MarketValue, Unrealized, pos

(* A portfolio with a mark for everything held shows what it is worth and  *)
(* what it has gained.                                                     *)
LEMMA ValuationAddsUp ==
  ASSUME NEW w \in World, NEW p \in Participants, w.participants[p] # None,
         Solvent(w.participants[p]), AllMarked(w, p), WorthFits(w)
  PROVE  /\ Valuation(w, p).unrealized_pnl
              = Sum(Worth(w, p), NumSymbols) - Sum(Basis(w.participants[p]), NumSymbols)
         /\ Valuation(w, p).total_value
              = w.participants[p].cash + Sum(Worth(w, p), NumSymbols)
         /\ \A s \in Symbols : Holds(w.participants[p], s) =>
              /\ MarketValueOf(w, p, s) = Worth(w, p)[s]
              /\ UnrealizedOf(w, p, s) = Worth(w, p)[s] - Basis(w.participants[p])[s]
  <1> DEFINE b == w.participants[p]
             f == Worth(w, p)
             g == Basis(b)
             n == NumSymbols
             values == [s \in Symbols |-> MarketValueOf(w, p, s)]
             profits == [s \in Symbols |-> UnrealizedOf(w, p, s)]
  <1>1. f \in [1..n -> Nat] /\ g \in [1..n -> Nat] /\ n \in Nat /\ Symbols = 1..n
    BY WorthTyped, NumSymbolsAssumption DEF Symbols
  <1>2. f \in [1..n -> Int] /\ g \in [1..n -> Int]
    BY <1>1
  <1>3. b.cash \in Nat
    BY WorldFields DEF Book, Solvent
  <1>4. \A s \in Symbols : ~ Holds(b, s) => f[s] = 0 /\ g[s] = 0
    BY DEF Worth, Basis, Solvent, Holds
  <1>5. b.cash + Sum(f, n) + Sum(g, n) <= MaxRaw
    BY DEF WorthFits, TotalValue, Worth
  <1>6. MaxRaw \in Nat
    BY MoneyAssumption
  <1> HIDE DEF f, g, n
  <1>7. PICK v : Adds(v, f, n) /\ Sum(f, n) = v[n]
    BY <1>1, <1>2, SumAdds
  <1>8. PICK c : Adds(c, g, n) /\ Sum(g, n) = c[n]
    BY <1>1, <1>2, SumAdds
  <1>9. \A k \in 0..n : v[k] \in Nat /\ v[k] <= v[n] /\ c[k] \in Nat /\ c[k] <= c[n]
    BY <1>1, <1>7, <1>8, PartialSumsGrow
  <1>10. v[n] \in Nat /\ c[n] \in Nat
    <2>1. n \in 0..n
      BY <1>1
    <2> QED BY <1>9, <2>1
  <1>11. ASSUME NEW s \in Symbols, Holds(b, s)
         PROVE  MarketValueOf(w, p, s) = f[s] /\ UnrealizedOf(w, p, s) = f[s] - g[s]
    <2>1. f[s] <= v[n] /\ g[s] <= c[n] /\ f[s] \in Nat /\ g[s] \in Nat
      BY <1>1, <1>7, <1>8, TermInSum
    <2>2. f[s] + g[s] <= v[n] + c[n] /\ v[n] + c[n] \in Int /\ v[n] + c[n] <= MaxRaw
      BY <1>3, <1>5, <1>6, <1>7, <1>8, <1>10, <2>1
    <2> HIDE DEF b
    <2> QED BY <1>11, <2>2, RowsFit DEF f, g, b
  <1>12. FoldPositions(b, values) = v[n]
    <2>1. Counted(b, values) = f
      <3>1. \A s \in Symbols : Counted(b, values)[s] = f[s]
        <4>1. \A s \in Symbols : f[s] # None
          BY <1>1, NoneAssumption
        <4> QED BY <1>4, <1>11, <4>1 DEF Counted
      <3>2. Counted(b, values) = [s \in Symbols |-> Counted(b, values)[s]]
        BY DEF Counted
      <3> QED BY <1>1, <3>1, <3>2
    <2>2. ASSUME NEW s \in Symbols PROVE ~ Stuck(b, values, v, s)
      <3>1. Holds(b, s) => values[s] = f[s] /\ f[s] # None
        <4>1. values[s] = MarketValueOf(w, p, s)
          BY DEF values
        <4>2. f[s] \in Int /\ f[s] # None
          BY <1>1, NoneAssumption
        <4> HIDE DEF values, b
        <4> QED BY <1>11, <4>1, <4>2
      <3>2. Fits(v[s])
        <4>1. s \in 0..n
          BY <1>1
        <4>2. v[s] \in Nat /\ v[s] <= MaxRaw
          BY <1>3, <1>5, <1>6, <1>7, <1>8, <1>9, <1>10, <4>1
        <4> QED BY <1>6, <4>2 DEF Fits
      <3> QED BY <3>1, <3>2 DEF Stuck
    <2>3. \A s \in Symbols : values[s] # None => values[s] \in Int
      BY ViewsTyped
    <2> HIDE DEF values, b
    <2> QED BY <1>7, <2>1, <2>2, <2>3, FoldIsASum DEF n
  <1>13. FoldPositions(b, profits) = v[n] - c[n]
    <2> DEFINE d == [k \in 0..n |-> v[k] - c[k]]
               h == Counted(b, profits)
    <2>1. \A s \in Symbols : h[s] = f[s] - g[s]
      <3>1. \A s \in Symbols : f[s] - g[s] # None /\ f[s] - g[s] \in Int
        BY <1>1, NoneAssumption
      <3>2. \A s \in Symbols : ~ Holds(b, s) => f[s] - g[s] = 0
        BY <1>4
      <3> QED BY <1>11, <3>1, <3>2 DEF Counted
    <2>2. Adds(d, h, n)
      <3> HIDE DEF h
      <3> QED BY <1>1, <1>2, <1>7, <1>8, <2>1, DifferencesAdd
    <2>3. ASSUME NEW s \in Symbols PROVE ~ Stuck(b, profits, d, s)
      <3>1. Holds(b, s) => profits[s] = f[s] - g[s] /\ f[s] - g[s] # None
        <4>1. profits[s] = UnrealizedOf(w, p, s)
          BY DEF profits
        <4>2. f[s] - g[s] \in Int /\ f[s] - g[s] # None
          BY <1>1, NoneAssumption
        <4> HIDE DEF profits, b
        <4> QED BY <1>11, <4>1, <4>2
      <3>2. Fits(d[s])
        <4>1. s \in 0..n
          BY <1>1
        <4>2. /\ d[s] = v[s] - c[s] /\ v[s] \in Nat /\ c[s] \in Nat
              /\ v[s] <= MaxRaw /\ c[s] <= MaxRaw
          BY <1>3, <1>5, <1>6, <1>7, <1>8, <1>9, <1>10, <4>1
        <4> HIDE DEF d
        <4> QED BY <1>6, <4>2 DEF Fits
      <3> QED BY <3>1, <3>2 DEF Stuck
    <2>4. \A s \in Symbols : profits[s] # None => profits[s] \in Int
      BY ViewsTyped
    <2>5. d[n] = v[n] - c[n]
      BY <1>1
    <2> HIDE DEF profits, b, d
    <2> QED BY <2>2, <2>3, <2>4, <2>5, FoldIsASum DEF n
  <1>14. Fits(b.cash + v[n])
    <2>1. b.cash + v[n] <= MaxRaw /\ b.cash + v[n] \in Nat
      BY <1>3, <1>5, <1>6, <1>7, <1>8, <1>10
    <2> QED BY <1>6, <2>1 DEF Fits
  <1>15. /\ Valuation(w, p).unrealized_pnl = v[n] - c[n]
         /\ Valuation(w, p).total_value = b.cash + v[n]
    <2>1. v[n] # None /\ v[n] - c[n] # None
      BY <1>10, NoneAssumption
    <2> QED BY <1>12, <1>13, <1>14, <2>1 DEF Valuation
  <1> QED BY <1>7, <1>8, <1>11, <1>15 DEF f, g, n
(* There is one row for each symbol held.                                  *)
LEMMA RowOfSymbol ==
  ASSUME NEW w, NEW p, NEW s \in Symbols
  PROVE  LET rows == PortfolioView(w, p).positions
         IN  /\ (\E row \in rows : row.symbol = s) <=> Holds(w.participants[p], s)
             /\ Holds(w.participants[p], s) =>
                  (CHOOSE row \in rows : row.symbol = s) = PositionView(w, p, s)
  <1> DEFINE rows == PortfolioView(w, p).positions
  <1>1. rows = {PositionView(w, p, r) : r \in Held(w, p)}
    BY DEF PortfolioView
  <1>2. \A r : PositionView(w, p, r).symbol = r
    BY DEF PositionView
  <1>3. \A r : r \in Held(w, p) <=> r \in Symbols /\ Holds(w.participants[p], r)
    BY DEF Held
  <1> HIDE DEF rows
  <1>4. \A row : row \in rows /\ row.symbol = s <=>
                   row = PositionView(w, p, s) /\ Holds(w.participants[p], s)
    BY <1>1, <1>2, <1>3
  <1> QED BY <1>4 DEF rows

LEMMA UnmarkedShowsNothing ==
  ASSUME NEW w \in World, NEW p \in Participants, w.participants[p] # None, ~ AllMarked(w, p)
  PROVE  Valuation(w, p).unrealized_pnl = None /\ Valuation(w, p).total_value = None
  <1> DEFINE b == w.participants[p]
             profits == [s \in Symbols |-> UnrealizedOf(w, p, s)]
             h == Counted(b, profits)
  <1>1. PICK s \in Symbols : Holds(b, s) /\ w.marks[s] = None
    BY DEF AllMarked
  <1>2. \A r \in Symbols : profits[r] # None => profits[r] \in Int
    BY ViewsTyped
  <1>3. profits[s] = None
    BY <1>1 DEF UnrealizedOf
  <1> HIDE DEF profits
  <1>4. h \in [1..NumSymbols -> Int] /\ NumSymbols \in Nat
    BY <1>2, NumSymbolsAssumption DEF Counted, Symbols
  <1> HIDE DEF h
  <1>5. PICK t : Adds(t, h, NumSymbols)
    BY <1>4, SumAdds
  <1>6. Stuck(b, profits, t, s)
    BY <1>1, <1>3 DEF Stuck
  <1> HIDE DEF b
  <1>7. FoldPositions(b, profits) = None
    BY <1>2, <1>5, <1>6, FoldIsASum DEF h
  <1> QED BY <1>7 DEF Valuation, profits, b

LEMMA PortfolioAddsUp ==
  ASSUME NEW w \in World, NEW p \in Participants, w.participants[p] # None,
         Sound(w.participants[p]), AllMarked(w, p), WorthFits(w)
  PROVE  LET v == PortfolioView(w, p)
             value(row) == row.market_value
             profit(row) == row.unrealized_pnl
         IN  /\ v.total_value = v.cash + Total(v.positions, value)
             /\ v.unrealized_pnl = Total(v.positions, profit)
             /\ v.total_value = v.starting_cash + v.realized_pnl + v.unrealized_pnl
  <1> DEFINE b == w.participants[p]
             f == Worth(w, p)
             g == Basis(b)
             rows == PortfolioView(w, p).positions
             values == [s \in Symbols |->
                          IF \E row \in rows : row.symbol = s
                          THEN (CHOOSE row \in rows : row.symbol = s).market_value ELSE 0]
             profits == [s \in Symbols |->
                           IF \E row \in rows : row.symbol = s
                           THEN (CHOOSE row \in rows : row.symbol = s).unrealized_pnl ELSE 0]
  <1>1. Solvent(b) /\ Balanced(b) /\ b \in Book
    BY WorldFields DEF Sound
  <1>2. /\ f \in [1..NumSymbols -> Int] /\ g \in [1..NumSymbols -> Int]
        /\ NumSymbols \in Nat /\ Symbols = 1..NumSymbols
    BY <1>1, WorthTyped, NumSymbolsAssumption DEF Symbols
  <1>3. \A s \in Symbols : ~ Holds(b, s) => f[s] = 0 /\ g[s] = 0
    BY <1>1 DEF Worth, Basis, Solvent, Holds
  <1>4. /\ Valuation(w, p).unrealized_pnl = Sum(f, NumSymbols) - Sum(g, NumSymbols)
        /\ Valuation(w, p).total_value = b.cash + Sum(f, NumSymbols)
        /\ \A s \in Symbols : Holds(b, s) =>
             MarketValueOf(w, p, s) = f[s] /\ UnrealizedOf(w, p, s) = f[s] - g[s]
    BY <1>1, ValuationAddsUp
  <1>5. \A s \in Symbols :
          /\ (\E row \in rows : row.symbol = s) <=> Holds(b, s)
          /\ Holds(b, s) => (CHOOSE row \in rows : row.symbol = s) = PositionView(w, p, s)
    BY RowOfSymbol
  <1>6. \A s : /\ PositionView(w, p, s).market_value = MarketValueOf(w, p, s)
               /\ PositionView(w, p, s).unrealized_pnl = UnrealizedOf(w, p, s)
    BY DEF PositionView
  <1> HIDE DEF b, f, g, rows
  <1>7. values = f
    <2>1. \A s \in Symbols : values[s] = f[s]
      BY <1>3, <1>4, <1>5, <1>6
    <2> QED BY <1>2, <2>1
  <1>8. profits \in [1..NumSymbols -> Int] /\ \A s \in Symbols : profits[s] = f[s] - g[s]
    <2>1. \A s \in Symbols : f[s] - g[s] \in Int /\ (~ Holds(b, s) => f[s] - g[s] = 0)
      BY <1>2, <1>3
    <2>2. \A s \in Symbols : profits[s] = f[s] - g[s]
      BY <1>4, <1>5, <1>6, <2>1
    <2> QED BY <1>2, <2>1, <2>2, SMTT(20)
  <1>9. Sum(profits, NumSymbols) = Sum(f, NumSymbols) - Sum(g, NumSymbols)
    <2> HIDE DEF profits
    <2> QED BY <1>2, <1>8, SumOfDifferences
  <1>10. Sum(f, NumSymbols) \in Int /\ Sum(g, NumSymbols) \in Int
    BY <1>2, SumTyped
  <1>11. /\ b.cash + Sum(g, NumSymbols) = b.starting_cash + b.realized_pnl
         /\ b.cash \in Int /\ b.starting_cash \in Int /\ b.realized_pnl \in Int
    BY <1>1 DEF Balanced, Book, g
  <1>12. /\ PortfolioView(w, p).total_value = Valuation(w, p).total_value
         /\ PortfolioView(w, p).unrealized_pnl = Valuation(w, p).unrealized_pnl
         /\ PortfolioView(w, p).cash = b.cash
         /\ PortfolioView(w, p).starting_cash = b.starting_cash
         /\ PortfolioView(w, p).realized_pnl = b.realized_pnl
    BY DEF PortfolioView, b
  <1>13. b.cash + Sum(f, NumSymbols)
           = b.starting_cash + b.realized_pnl + (Sum(f, NumSymbols) - Sum(g, NumSymbols))
    BY <1>10, <1>11
  <1>14. /\ Valuation(w, p).total_value = b.cash + Sum(values, NumSymbols)
         /\ Valuation(w, p).unrealized_pnl = Sum(profits, NumSymbols)
         /\ Valuation(w, p).total_value
              = b.starting_cash + b.realized_pnl + Valuation(w, p).unrealized_pnl
    <2> HIDE DEF values, profits
    <2> QED BY <1>4, <1>7, <1>9, <1>13
  <1> QED BY <1>12, <1>14 DEF Total, rows

(* Whenever a portfolio's page shows a valuation, its rows make up its     *)
(* totals, and what it is worth is what it started with and both profits;  *)
(* it shows none exactly when a row has no mark (dto.rs, portfolio_view).  *)
(* An order's page shows the venue's id if the venue ever gave one.        *)
THEOREM PagesAlwaysAgree ==
  ASSUME StartingCash # {}
  PROVE  KeepingSpec /\ []WorthFits(world) => []PagesAgree
  <1>1. VenueInv /\ WorthFits(world) => PortfoliosAddUp
    <2> SUFFICES ASSUME VenueInv, WorthFits(world), NEW p \in Participants, Joined(p)
                 PROVE  LET v == PortfolioView(world, p)
                            value(row) == row.market_value
                            profit(row) == row.unrealized_pnl
                        IN  IF \E row \in v.positions : row.mark = None
                            THEN v.total_value = None /\ v.unrealized_pnl = None
                            ELSE /\ v.total_value = v.cash + Total(v.positions, value)
                                 /\ v.unrealized_pnl = Total(v.positions, profit)
                                 /\ v.total_value
                                      = v.starting_cash + v.realized_pnl + v.unrealized_pnl
      BY DEF PortfoliosAddUp
    <2>1. world \in World /\ world.participants[p] # None /\ Sound(world.participants[p])
      BY DEF VenueInv, BookInv, TypeOK, BooksSound, Joined
    <2>2. (\E row \in PortfolioView(world, p).positions : row.mark = None)
            <=> ~ AllMarked(world, p)
      <3>1. PortfolioView(world, p).positions
              = {PositionView(world, p, s) : s \in Held(world, p)}
        BY DEF PortfolioView
      <3>2. \A s : PositionView(world, p, s).mark = world.marks[s]
        BY DEF PositionView
      <3>3. \A s : s \in Held(world, p) <=> s \in Symbols /\ Holds(world.participants[p], s)
        BY DEF Held
      <3> QED BY <3>1, <3>2, <3>3 DEF AllMarked
    <2>3. CASE ~ AllMarked(world, p)
      <3>1. /\ PortfolioView(world, p).total_value = None
            /\ PortfolioView(world, p).unrealized_pnl = None
        BY <2>1, <2>3, UnmarkedShowsNothing DEF PortfolioView
      <3> QED BY <2>2, <2>3, <3>1
    <2>4. CASE AllMarked(world, p)
      BY <2>1, <2>2, <2>4, PortfolioAddsUp
    <2> QED BY <2>3, <2>4
  <1>2. PortfoliosAddUp /\ BrokerIdsAreQuoted => PagesAgree
    BY DEF PagesAgree
  <1> QED BY <1>1, <1>2, VenueInvariant, BrokerIdsAreAlwaysQuoted, PTL
-----------------------------------------------------------------------------
(***************************************************************************)
(* What the rows of a tape bring each participant.  The invariant is that  *)
(* there is a sequence that goes through the rows in the order of their    *)
(* ids and explains every book; the tape can be no other sequence.         *)
(***************************************************************************)
TapeRowType ==
  [exec_id : Int, client_order_id : Ids, broker_order_id : Int \cup {None},
   participant : Participants, symbol : Symbols, side : Sides,
   qty : Nat, px : Pxs, fee : Int]

ById(rows) == {z \in rows \X rows : z[1].exec_id < z[2].exec_id}

CashFlows(h, p, n) == [k \in 1..n |-> CashFlow(h[k], p)]
ShareFlows(h, p, s, n) == [k \in 1..n |-> ShareFlow(h[k], p, s)]
FeeFlows(h, p, n) == [k \in 1..n |-> FeeFlow(h[k], p)]

(* The n rows of h lead from what p started with to the book.              *)
Explains(h, n, p, book) ==
  /\ \A m \in 0..n : /\ book.starting_cash + Sum(CashFlows(h, p, m), m) >= 0
                     /\ \A s \in Symbols : Sum(ShareFlows(h, p, s, m), m) >= 0
  /\ book.cash = book.starting_cash + Sum(CashFlows(h, p, n), n)
  /\ book.fees_paid = Sum(FeeFlows(h, p, n), n)
  /\ \A s \in Symbols : book.positions[s].qty = Sum(ShareFlows(h, p, s, n), n)

Tells(h, n, rows, books) ==
  /\ Ascends(h, n, rows, ById(rows))
  /\ \A p \in Participants : books[p] # None => Explains(h, n, p, books[p])

Told(w) == \E n \in Nat : \E h : Tells(h, n, TapeRows(w), w.participants)

LEMMA FlowsTyped ==
  ASSUME NEW row \in TapeRowType, NEW p, NEW s
  PROVE  CashFlow(row, p) \in Int /\ ShareFlow(row, p, s) \in Int /\ FeeFlow(row, p) \in Int
  <1>1. Notional(row.px, row.qty) \in Int
    BY DEF TapeRowType, Notional, Pxs
  <1> QED BY <1>1 DEF TapeRowType, CashFlow, ShareFlow, FeeFlow

LEMMA FlowSumsTyped ==
  ASSUME NEW n \in Nat, NEW h \in [1..n -> TapeRowType], NEW p, NEW s, NEW m \in 0..n
  PROVE  /\ CashFlows(h, p, m) \in [1..m -> Int]
         /\ ShareFlows(h, p, s, m) \in [1..m -> Int]
         /\ FeeFlows(h, p, m) \in [1..m -> Int]
  <1>1. \A k \in 1..m : h[k] \in TapeRowType
    OBVIOUS
  <1> QED BY <1>1, FlowsTyped DEF CashFlows, ShareFlows, FeeFlows

(* One row more adds what it brings, and the sums before stay.             *)
LEMMA OneFlowMore ==
  ASSUME NEW n \in Nat, NEW h \in [1..n -> TapeRowType],
         NEW g \in [1..(n + 1) -> TapeRowType], \A k \in 1..n : g[k] = h[k], NEW p, NEW s
  PROVE  /\ \A m \in 0..n : /\ CashFlows(g, p, m) = CashFlows(h, p, m)
                            /\ ShareFlows(g, p, s, m) = ShareFlows(h, p, s, m)
         /\ Sum(CashFlows(g, p, n + 1), n + 1)
              = Sum(CashFlows(h, p, n), n) + CashFlow(g[n + 1], p)
         /\ Sum(ShareFlows(g, p, s, n + 1), n + 1)
              = Sum(ShareFlows(h, p, s, n), n) + ShareFlow(g[n + 1], p, s)
         /\ Sum(FeeFlows(g, p, n + 1), n + 1)
              = Sum(FeeFlows(h, p, n), n) + FeeFlow(g[n + 1], p)
  <1>1. \A m \in 0..n : /\ CashFlows(g, p, m) = CashFlows(h, p, m)
                        /\ ShareFlows(g, p, s, m) = ShareFlows(h, p, s, m)
    BY DEF CashFlows, ShareFlows
  <1>2. n \in 0..n /\ n + 1 \in 0..(n + 1) /\ n + 1 \in Nat /\ n + 1 \in 1..(n + 1)
    OBVIOUS
  <1>3. /\ CashFlows(h, p, n) \in [1..n -> Int] /\ CashFlows(g, p, n + 1) \in [1..(n + 1) -> Int]
        /\ ShareFlows(h, p, s, n) \in [1..n -> Int]
        /\ ShareFlows(g, p, s, n + 1) \in [1..(n + 1) -> Int]
        /\ FeeFlows(h, p, n) \in [1..n -> Int] /\ FeeFlows(g, p, n + 1) \in [1..(n + 1) -> Int]
    BY <1>2, FlowSumsTyped
  <1>4. /\ \A k \in 1..n : CashFlows(g, p, n + 1)[k] = CashFlows(h, p, n)[k]
        /\ \A k \in 1..n : ShareFlows(g, p, s, n + 1)[k] = ShareFlows(h, p, s, n)[k]
        /\ \A k \in 1..n : FeeFlows(g, p, n + 1)[k] = FeeFlows(h, p, n)[k]
    BY DEF CashFlows, ShareFlows, FeeFlows
  <1>5. /\ CashFlows(g, p, n + 1)[n + 1] = CashFlow(g[n + 1], p)
        /\ ShareFlows(g, p, s, n + 1)[n + 1] = ShareFlow(g[n + 1], p, s)
        /\ FeeFlows(g, p, n + 1)[n + 1] = FeeFlow(g[n + 1], p)
    BY <1>2 DEF CashFlows, ShareFlows, FeeFlows
  <1>6. /\ Sum(CashFlows(g, p, n + 1), n + 1)
             = Sum(CashFlows(h, p, n), n) + CashFlows(g, p, n + 1)[n + 1]
        /\ Sum(ShareFlows(g, p, s, n + 1), n + 1)
             = Sum(ShareFlows(h, p, s, n), n) + ShareFlows(g, p, s, n + 1)[n + 1]
        /\ Sum(FeeFlows(g, p, n + 1), n + 1)
             = Sum(FeeFlows(h, p, n), n) + FeeFlows(g, p, n + 1)[n + 1]
    <2>1. \A f \in [1..n -> Int], e \in [1..(n + 1) -> Int] :
            (\A k \in 1..n : e[k] = f[k]) => Sum(e, n + 1) = Sum(f, n) + e[n + 1]
      BY SumOfOneMore
    <2> QED BY <1>3, <1>4, <2>1
  <1> QED BY <1>1, <1>5, <1>6

(* Rows that are somebody else's bring nothing.                            *)
LEMMA NoFlows ==
  ASSUME NEW n \in Nat, NEW h \in [1..n -> TapeRowType], NEW p,
         \A k \in 1..n : h[k].participant # p, NEW s, NEW m \in 0..n
  PROVE  /\ Sum(CashFlows(h, p, m), m) = 0 /\ Sum(ShareFlows(h, p, s, m), m) = 0
         /\ Sum(FeeFlows(h, p, m), m) = 0
  <1>1. /\ \A k \in 1..m : CashFlows(h, p, m)[k] = 0
        /\ \A k \in 1..m : ShareFlows(h, p, s, m)[k] = 0
        /\ \A k \in 1..m : FeeFlows(h, p, m)[k] = 0
    BY DEF CashFlows, ShareFlows, FeeFlows, CashFlow, ShareFlow, FeeFlow
  <1>2. \A f \in [1..m -> Int] : (\A k \in 1..m : f[k] = 0) => Sum(f, m) = 0
    BY SumOfZeros
  <1> QED BY <1>1, <1>2, FlowSumsTyped
-----------------------------------------------------------------------------
(* A fill moves a book by what its row brings.                             *)
LEMMA FilledBookFigures ==
  ASSUME NEW b \in Book, NEW f, f.symbol \in Symbols, f.side \in Sides,
         f.qty \in Nat, f.px \in Pxs, f.fee \in Nat
  PROVE  LET c == BookFill(b, f)
             gross == Notional(f.px, f.qty)
         IN  /\ c.starting_cash = b.starting_cash
             /\ c.cash = b.cash + (IF f.side = "Buy" THEN - gross - f.fee ELSE gross - f.fee)
             /\ c.fees_paid = b.fees_paid + f.fee
             /\ \A s \in Symbols :
                  c.positions[s].qty = b.positions[s].qty
                    + (IF s = f.symbol THEN IF f.side = "Buy" THEN f.qty ELSE - f.qty ELSE 0)
  <1> DEFINE gross == Notional(f.px, f.qty)
             pos == b.positions[f.symbol]
  <1>1. gross \in Nat /\ f.fee \in Nat
    BY NotionalNat
  <1>2. /\ b.positions \in [Symbols -> Position] /\ pos \in Position /\ pos.qty \in Nat
        /\ b.cash \in Int
    BY DEF Book, Position
  <1>3. CASE f.side = "Buy"
    <2>1. BookFill(b, f) = Buy(b, f)
      BY <1>3 DEF BookFill
    <2>2. /\ Buy(b, f).starting_cash = b.starting_cash
          /\ Buy(b, f).cash = b.cash - (gross + f.fee)
          /\ Buy(b, f).fees_paid = b.fees_paid + f.fee
          /\ \A s \in Symbols :
               Buy(b, f).positions[s].qty = IF s = f.symbol THEN pos.qty + f.qty
                                            ELSE b.positions[s].qty
      <3> HIDE DEF gross, pos
      <3> QED BY <1>2 DEF Buy, Book, Bought, Outlay, gross, pos
    <2>3. b.cash - (gross + f.fee) = b.cash + (- gross - f.fee)
      <3> HIDE DEF gross
      <3> QED BY <1>1, <1>2
    <2>4. \A s \in Symbols : b.positions[s].qty \in Int
      BY <1>2 DEF Position
    <2> HIDE DEF gross
    <2> QED BY <1>2, <1>3, <2>1, <2>2, <2>3, <2>4 DEF gross
  <1>4. CASE f.side = "Sell"
    <2>1. BookFill(b, f) = Sell(b, f) /\ f.side # "Buy"
      BY <1>4 DEF BookFill
    <2>2. /\ Sell(b, f).starting_cash = b.starting_cash
          /\ Sell(b, f).cash = b.cash + (gross - f.fee)
          /\ Sell(b, f).fees_paid = b.fees_paid + f.fee
          /\ \A s \in Symbols :
               Sell(b, f).positions[s].qty = IF s = f.symbol THEN pos.qty - f.qty
                                             ELSE b.positions[s].qty
      <3> HIDE DEF gross, pos
      <3> QED BY <1>2 DEF Sell, Book, Sold, ProceedsNet, gross, pos
    <2>3. \A s \in Symbols : b.positions[s].qty \in Int
      BY <1>2 DEF Position
    <2>4. pos.qty - f.qty = pos.qty + (- f.qty)
      BY <1>2
    <2> HIDE DEF gross
    <2> QED BY <1>2, <2>1, <2>2, <2>3, <2>4 DEF gross
  <1> QED BY <1>3, <1>4 DEF Sides

(* The orders that have rows on the tape are known.                        *)
Recorded(w) == \A i \in Ids : w.orders[i] = None => w.order_executions[i] = <<>>

(* The terms of a known order and its id at the venue stay what they are.  *)
LEMMA TermsStay ==
  ASSUME NEW w \in World, NEW b \in Broker, NEW u, Effect(w, b, u), NEW k \in Ids,
         w.orders[k] # None
  PROVE  /\ u.orders[k].participant = w.orders[k].participant
         /\ u.orders[k].symbol = w.orders[k].symbol /\ u.orders[k].side = w.orders[k].side
  <1>1. Changed(w, b, u, k) /\ w.orders[k] \in Order
    BY EffectChanges, WorldFields
  <1>2. u.orders[k] = w.orders[k] \/ \E state : u.orders[k] = InState(w.orders[k], state)
    BY <1>1 DEF Changed, Rested, Born, Gone, Booked
  <1> QED BY <1>1, <1>2, InStateFields

LEMMA VenueIdsStay ==
  ASSUME NEW w \in World, NEW b \in Broker, NEW u, Effect(w, b, u), NEW k \in Ids,
         w.orders[k] # None
  PROVE  u.order_broker_ids[k] = w.order_broker_ids[k]
  <1>1. CASE Accepts(w, b, u)
    <2>1. PICK i \in Ids, t \in Terms, original \in Ids \cup {None} :
            CanPlace(w, i, t, original) /\ u = Taken(w, i, t, original, b.next_id)
      BY <1>1 DEF Accepts
    <2>2. k # i
      BY <2>1 DEF CanPlace, Ids
    <2>3. u.order_broker_ids = [w.order_broker_ids EXCEPT ![i] = b.next_id]
      BY <2>1 DEF Taken, World
    <2> QED BY <2>2, <2>3
  <1>2. CASE Fills(w, b, u)
    BY <1>2, FilledOrders DEF Fills, CanBook
  <1>3. CASE ~ Accepts(w, b, u) /\ ~ Fills(w, b, u)
    BY <1>3 DEF Effect, Opens, Cancels, Refuses, Refused, Quotes, Lists, Delists, Closes,
                ApplyDayClosed, World
  <1> QED BY <1>1, <1>2, <1>3

LEMMA TapeRowTyped ==
  ASSUME NEW w \in World, NEW i \in Ids, w.orders[i] # None, NEW row \in Execution
  PROVE  TapeRow(w, i, row) \in TapeRowType
  <1>1. w.orders[i] \in Order /\ w.order_broker_ids[i] \in Int \cup {None}
    BY WorldFields
  <1> QED BY <1>1 DEF TapeRow, TapeRowType, Order, Execution

LEMMA TapeRowsTyped ==
  ASSUME NEW w \in World, Recorded(w)
  PROVE  TapeRows(w) \subseteq TapeRowType
  <1> SUFFICES ASSUME NEW i \in Ids, NEW n \in DOMAIN w.order_executions[i]
               PROVE  TapeRow(w, i, w.order_executions[i][n]) \in TapeRowType
    BY DEF TapeRows
  <1>1. w.order_executions[i] \in Seq(Execution)
    BY WorldFields
  <1>2. w.order_executions[i][n] \in Execution
    BY <1>1
  <1>3. w.orders[i] # None
    BY DEF Recorded
  <1> QED BY <1>2, <1>3, TapeRowTyped
(* Whatever is no fill leaves the tape.                                    *)
LEMMA RowsStay ==
  ASSUME NEW w \in World, NEW b \in Broker, NEW u, Effect(w, b, u), Recorded(w),
         \A k \in Ids : u.order_executions[k] = w.order_executions[k]
  PROVE  TapeRows(u) = TapeRows(w)
  <1>1. ASSUME NEW i \in Ids
        PROVE  {TapeRow(u, i, u.order_executions[i][n]) : n \in DOMAIN u.order_executions[i]}
                 = {TapeRow(w, i, w.order_executions[i][n]) : n \in DOMAIN w.order_executions[i]}
    <2>1. CASE w.orders[i] = None
      <3>1. u.order_executions[i] = <<>> /\ w.order_executions[i] = <<>>
        BY <2>1 DEF Recorded
      <3> QED BY <3>1
    <2>2. CASE w.orders[i] # None
      <3>1. \A row : TapeRow(u, i, row) = TapeRow(w, i, row)
        BY <2>2, TermsStay, VenueIdsStay DEF TapeRow
      <3> QED BY <3>1
    <2> QED BY <2>1, <2>2
  <1> QED BY <1>1 DEF TapeRows

LEMMA BookedTape ==
  ASSUME NEW w \in World, NEW e \in FilledEvent, OrderTakes(w, e), BookTakes(w, e),
         Fits(Traded(w, e))
  PROVE  ApplyFilled(w, e).order_executions = Extended(w.order_executions, e.id, Row(e))
  <1>1. \A u \in World : FillBook(u, e).order_executions = u.order_executions
    BY DEF FillBook, World
  <1>2. \A u \in World : FillTape(u, e).order_executions =
                           Extended(u.order_executions, e.id, Row(e))
    BY DEF FillTape, World, Extended
  <1>3. FillOrder(w, e).order_executions = w.order_executions
    BY DEF FillOrder, World
  <1>4. ApplyFilled(w, e) = FillTape(FillBook(FillOrder(w, e), e), e)
    BY DEF ApplyFilled
  <1> QED BY <1>1, <1>2, <1>3, <1>4, FilledPartsTyped

(* A fill adds its row.                                                    *)
LEMMA RowsGrow ==
  ASSUME NEW w \in World, NEW b \in Broker, Recorded(w), NEW e \in FilledEvent,
         CanBook(w, b, e), Fits(Traded(w, e))
  PROVE  TapeRows(ApplyFilled(w, e)) = TapeRows(w) \cup {TapeRow(w, e.id, Row(e))}
  <1> DEFINE u == ApplyFilled(w, e)
             row == Row(e)
             Of(v, i) == {TapeRow(v, i, v.order_executions[i][n]) :
                            n \in DOMAIN v.order_executions[i]}
  <1>1. OrderTakes(w, e) /\ BookTakes(w, e) /\ w.orders[e.id] # None /\ e.id \in Ids
    BY DEF CanBook, OrderTakes, FilledEvent
  <1>2. u.order_executions = Extended(w.order_executions, e.id, row)
    BY <1>1, BookedTape
  <1>3. /\ w.order_executions \in [Ids -> Seq(Execution)]
        /\ row \in Execution
    BY WorldFields DEF FilledEvent, Row, Execution
  <1>4. Effect(w, b, u)
    BY DEF Effect, Fills
  <1> HIDE DEF u, row
  <1>5. ASSUME NEW i \in Ids, w.orders[i] # None, NEW r PROVE TapeRow(u, i, r) = TapeRow(w, i, r)
    BY <1>4, <1>5, TermsStay, VenueIdsStay DEF TapeRow
  <1>6. ASSUME NEW i \in Ids, i # e.id PROVE Of(u, i) = Of(w, i)
    <2>1. u.order_executions[i] = w.order_executions[i]
      BY <1>2, <1>3, <1>6 DEF Extended
    <2>2. CASE w.orders[i] = None
      <3>1. w.order_executions[i] = <<>>
        BY <2>2 DEF Recorded
      <3> QED BY <2>1, <3>1
    <2>3. CASE w.orders[i] # None
      BY <1>5, <2>1, <2>3
    <2> QED BY <2>2, <2>3
  <1>7. Of(u, e.id) = Of(w, e.id) \cup {TapeRow(w, e.id, row)}
    <2> DEFINE old == w.order_executions[e.id]
               new == u.order_executions[e.id]
    <2>1. old \in Seq(Execution) /\ new = Append(old, row)
      BY <1>1, <1>2, <1>3 DEF Extended
    <2> HIDE DEF old, new
    <2>2. /\ DOMAIN old = 1..Len(old) /\ DOMAIN new = 1..(Len(old) + 1) /\ Len(old) \in Nat
          /\ \A n \in 1..Len(old) : new[n] = old[n]
          /\ new[Len(old) + 1] = row
      BY <1>3, <2>1
    <2>3. {TapeRow(w, e.id, new[n]) : n \in DOMAIN new}
            = {TapeRow(w, e.id, old[n]) : n \in DOMAIN old} \cup {TapeRow(w, e.id, row)}
      <3>1. DOMAIN new = DOMAIN old \cup {Len(old) + 1}
        BY <2>2
      <3> QED BY <2>2, <3>1
    <2>4. {TapeRow(u, e.id, new[n]) : n \in DOMAIN new}
            = {TapeRow(w, e.id, new[n]) : n \in DOMAIN new}
      BY <1>1, <1>5
    <2> QED BY <2>3, <2>4 DEF old, new
  <1>8. /\ TapeRows(u) = UNION {Of(u, i) : i \in Ids}
        /\ TapeRows(w) = UNION {Of(w, i) : i \in Ids}
    BY DEF TapeRows
  <1> HIDE DEF Of
  <1>9. TapeRows(u) = TapeRows(w) \cup {TapeRow(w, e.id, row)}
    BY <1>1, <1>6, <1>7, <1>8
  <1> QED BY <1>9 DEF u, row

(* Every id on the tape was minted before the next one.                    *)
LEMMA RowsAreOlder ==
  ASSUME NEW w \in World, NEW next \in Int, InMintOrder(w.order_executions, next),
         NEW r \in TapeRows(w)
  PROVE  r.exec_id < next
  <1>1. PICK i \in Ids : \E n \in DOMAIN w.order_executions[i] :
                            r = TapeRow(w, i, w.order_executions[i][n])
    BY DEF TapeRows
  <1>2. PICK n \in DOMAIN w.order_executions[i] : r = TapeRow(w, i, w.order_executions[i][n])
    BY <1>1
  <1>3. r.exec_id = w.order_executions[i][n].exec_id
    BY <1>2 DEF TapeRow
  <1> QED BY <1>3 DEF InMintOrder

(* A row later than all others comes last.                                 *)
LEMMA OneMoreAscends ==
  ASSUME NEW rows, rows \subseteq TapeRowType, NEW n \in Nat, NEW h,
         Ascends(h, n, rows, ById(rows)), NEW r \in TapeRowType,
         \A q \in rows : q.exec_id < r.exec_id
  PROVE  LET g == [k \in 1..(n + 1) |-> IF k = n + 1 THEN r ELSE h[k]]
         IN  Ascends(g, n + 1, rows \cup {r}, ById(rows \cup {r}))
  <1> DEFINE g == [k \in 1..(n + 1) |-> IF k = n + 1 THEN r ELSE h[k]]
             more == rows \cup {r}
  <1>1. \A k \in 1..n : k \in 1..(n + 1) /\ g[k] = h[k] /\ h[k] \in rows
    BY DEF Ascends
  <1>2. g[n + 1] = r /\ n + 1 \in 1..(n + 1)
    OBVIOUS
  <1>3. \A k \in 1..(n + 1) : k \in 1..n \/ k = n + 1
    OBVIOUS
  <1>4. g \in [1..(n + 1) -> more]
    <2>1. DOMAIN g = 1..(n + 1) /\ \A k \in 1..(n + 1) : g[k] \in more
      <3> HIDE DEF g
      <3> QED BY <1>1, <1>2, <1>3 DEF g
    <2> QED BY <2>1
  <1>5. \A x \in more : \E k \in 1..(n + 1) : g[k] = x
    <2> HIDE DEF g
    <2> QED BY <1>1, <1>2 DEF Ascends
  <1>6. ASSUME NEW j \in 1..(n + 1), NEW k \in 1..(n + 1), j < k
        PROVE  <<g[j], g[k]>> \in ById(more)
    <2>1. j \in 1..n
      BY <1>6
    <2>2. g[j] = h[j] /\ h[j] \in rows
      BY <1>1, <2>1
    <2>3. CASE k = n + 1
      <3>1. g[k] = r /\ h[j].exec_id < r.exec_id
        BY <1>2, <2>2, <2>3
      <3> HIDE DEF g
      <3> QED BY <2>2, <3>1 DEF ById
    <2>4. CASE k \in 1..n
      <3>1. g[k] = h[k] /\ h[k] \in rows /\ <<h[j], h[k]>> \in ById(rows)
        BY <1>1, <1>6, <2>1, <2>4 DEF Ascends
      <3> HIDE DEF g
      <3> QED BY <2>2, <3>1 DEF ById
    <2> QED BY <1>3, <2>3, <2>4
  <1> HIDE DEF g
  <1> QED BY <1>4, <1>5, <1>6 DEF Ascends, g
-----------------------------------------------------------------------------
(* A row more explains a book moved by what it brings.                     *)
LEMMA OneMoreExplains ==
  ASSUME NEW n \in Nat, NEW h \in [1..n -> TapeRowType],
         NEW g \in [1..(n + 1) -> TapeRowType], \A k \in 1..n : g[k] = h[k],
         NEW p, NEW b \in Book, Explains(h, n, p, b), NEW c \in Book,
         c.starting_cash = b.starting_cash, c.cash = b.cash + CashFlow(g[n + 1], p),
         c.fees_paid = b.fees_paid + FeeFlow(g[n + 1], p),
         \A s \in Symbols :
           c.positions[s].qty = b.positions[s].qty + ShareFlow(g[n + 1], p, s),
         c.cash >= 0, \A s \in Symbols : c.positions[s].qty >= 0
  PROVE  Explains(g, n + 1, p, c)
  <1> DEFINE row == g[n + 1]
  <1>1. row \in TapeRowType
    OBVIOUS
  <1>2. /\ CashFlow(row, p) \in Int /\ FeeFlow(row, p) \in Int
        /\ \A s : ShareFlow(row, p, s) \in Int
    BY <1>1, FlowsTyped
  <1> HIDE DEF row
  <1>3. /\ Sum(CashFlows(h, p, n), n) \in Int /\ Sum(FeeFlows(h, p, n), n) \in Int
        /\ \A s : Sum(ShareFlows(h, p, s, n), n) \in Int
    <2>1. n \in 0..n
      OBVIOUS
    <2> QED BY <2>1, FlowSumsTyped, SumTyped
  <1>4. /\ b.starting_cash \in Int /\ b.cash \in Int /\ b.fees_paid \in Int
        /\ \A s \in Symbols : b.positions[s].qty \in Int
    BY DEF Book, Position
  <1>5. /\ b.cash = b.starting_cash + Sum(CashFlows(h, p, n), n)
        /\ b.fees_paid = Sum(FeeFlows(h, p, n), n)
        /\ \A s \in Symbols : b.positions[s].qty = Sum(ShareFlows(h, p, s, n), n)
    BY DEF Explains
  <1>6. /\ Sum(CashFlows(g, p, n + 1), n + 1)
             = Sum(CashFlows(h, p, n), n) + CashFlow(row, p)
        /\ Sum(FeeFlows(g, p, n + 1), n + 1) = Sum(FeeFlows(h, p, n), n) + FeeFlow(row, p)
        /\ \A s : Sum(ShareFlows(g, p, s, n + 1), n + 1)
                    = Sum(ShareFlows(h, p, s, n), n) + ShareFlow(row, p, s)
    BY OneFlowMore DEF row
  <1>7. c.cash = c.starting_cash + Sum(CashFlows(g, p, n + 1), n + 1)
    BY <1>2, <1>3, <1>4, <1>5, <1>6 DEF row
  <1>8. /\ c.fees_paid = Sum(FeeFlows(g, p, n + 1), n + 1)
        /\ \A s \in Symbols : c.positions[s].qty = Sum(ShareFlows(g, p, s, n + 1), n + 1)
    BY <1>5, <1>6 DEF row
  <1>9. \A s : \A m \in 0..n :
          CashFlows(g, p, m) = CashFlows(h, p, m) /\ ShareFlows(g, p, s, m) = ShareFlows(h, p, s, m)
    BY DEF CashFlows, ShareFlows
  <1>10. ASSUME NEW m \in 0..(n + 1)
        PROVE  /\ c.starting_cash + Sum(CashFlows(g, p, m), m) >= 0
               /\ \A s \in Symbols : Sum(ShareFlows(g, p, s, m), m) >= 0
    <2>1. CASE m = n + 1
      BY <1>7, <1>8, <2>1
    <2>2. CASE m \in 0..n
      <3>1. /\ CashFlows(g, p, m) = CashFlows(h, p, m)
            /\ \A s : ShareFlows(g, p, s, m) = ShareFlows(h, p, s, m)
        BY <1>9, <2>2
      <3> QED BY <2>2, <3>1 DEF Explains
    <2> QED BY <2>1, <2>2
  <1> QED BY <1>7, <1>8, <1>10 DEF Explains

LEMMA FillStaysTold ==
  ASSUME NEW w \in World, NEW b \in Broker, Recorded(w), Told(w),
         InMintOrder(w.order_executions, b.next_exec_id),
         NEW e \in FilledEvent, CanBook(w, b, e), Fits(Traded(w, e)),
         ApplyFilled(w, e) \in World, BooksSound(ApplyFilled(w, e))
  PROVE  Told(ApplyFilled(w, e))
  <1> DEFINE u == ApplyFilled(w, e)
             rows == TapeRows(w)
             i == e.id
             t == Trader(w, i)
             f == FillOf(w, e)
             r == TapeRow(w, i, Row(e))
             books == w.participants
  <1>1. PICK n \in Nat : \E h : Tells(h, n, rows, books)
    BY DEF Told
  <1>2. PICK h : Tells(h, n, rows, books)
    BY <1>1
  <1> DEFINE g == [k \in 1..(n + 1) |-> IF k = n + 1 THEN r ELSE h[k]]
  <1>3. /\ OrderTakes(w, e) /\ BookTakes(w, e) /\ w.orders[i] # None /\ i \in Ids
        /\ e.exec_id = b.next_exec_id /\ e.fee = FeeOf(Notional(e.px, e.qty))
    BY DEF CanBook, OrderTakes, FilledEvent
  <1>4. /\ e.qty \in Nat /\ e.px \in Pxs /\ t \in Participants
        /\ f.symbol \in Symbols /\ f.side \in Sides
        /\ f.qty = e.qty /\ f.px = e.px /\ f.fee = e.fee
    BY <1>3, FillFacts
  <1>5. e.fee \in Nat
    BY <1>3, <1>4, NotionalNat, FeeFacts
  <1>6. /\ rows \subseteq TapeRowType /\ r \in TapeRowType
    <2>1. Row(e) \in Execution
      BY DEF FilledEvent, Row, Execution
    <2> QED BY <1>3, <2>1, TapeRowsTyped, TapeRowTyped
  <1>7. /\ r.exec_id = b.next_exec_id /\ r.participant = t /\ r.symbol = f.symbol
        /\ r.side = f.side /\ r.qty = f.qty /\ r.px = f.px /\ r.fee = f.fee
    BY <1>3, <1>4 DEF TapeRow, Row, FillOf, Trader
  <1>8. TapeRows(u) = rows \cup {r}
    BY RowsGrow
  <1>9. Ascends(g, n + 1, TapeRows(u), ById(TapeRows(u)))
    <2>1. \A q \in rows : q.exec_id < r.exec_id
      BY <1>7, RowsAreOlder, BrokerTyped
    <2>2. Ascends(h, n, rows, ById(rows))
      BY <1>2 DEF Tells
    <2> HIDE DEF r, rows
    <2> QED BY <1>6, <1>8, <2>1, <2>2, OneMoreAscends
  <1>10. /\ h \in [1..n -> TapeRowType] /\ g \in [1..(n + 1) -> TapeRowType]
         /\ g[n + 1] = r /\ \A k \in 1..n : g[k] = h[k]
    <2>1. h \in [1..n -> rows]
      BY <1>2 DEF Tells, Ascends
    <2> HIDE DEF r, rows
    <2>2. h \in [1..n -> TapeRowType]
      BY <1>6, <2>1
    <2> QED BY <1>6, <2>2
  <1>11. ASSUME NEW p \in Participants, u.participants[p] # None
         PROVE  Explains(g, n + 1, p, u.participants[p])
    <2> DEFINE k == books[p]
               c == u.participants[p]
    <2>1. c \in Book /\ c.cash >= 0 /\ \A s \in Symbols : c.positions[s].qty >= 0
      BY <1>11, WorldFields DEF BooksSound, Sound, Solvent
    <2>2. /\ u.participants[t] = BookFill(books[t], f)
          /\ p # t => c = k
      BY <1>3, FilledBooks
    <2>3. k # None
      BY <1>3, <1>11, <2>2 DEF BookTakes
    <2>4. k \in Book /\ Explains(h, n, p, k)
      BY <1>2, <2>3, WorldFields DEF Tells
    <2>5. /\ c.starting_cash = k.starting_cash
          /\ c.cash = k.cash + CashFlow(r, p) /\ c.fees_paid = k.fees_paid + FeeFlow(r, p)
          /\ \A s \in Symbols :
               c.positions[s].qty = k.positions[s].qty + ShareFlow(r, p, s)
      <3> HIDE DEF k, c, r, f, t, u
      <3>1. CASE p # t
        <4>1. CashFlow(r, p) = 0 /\ FeeFlow(r, p) = 0 /\ \A s : ShareFlow(r, p, s) = 0
          BY <1>7, <3>1 DEF CashFlow, FeeFlow, ShareFlow
        <4>2. /\ k.cash \in Int /\ k.fees_paid \in Int
              /\ \A s \in Symbols : k.positions[s].qty \in Int
          BY <2>4 DEF Book, Position
        <4> QED BY <2>2, <3>1, <4>1, <4>2
      <3>2. CASE p = t
        <4>1. c = BookFill(k, f)
          BY <2>2, <3>2 DEF k, c
        <4>2. /\ c.starting_cash = k.starting_cash
              /\ c.cash = k.cash + (IF f.side = "Buy" THEN - Notional(f.px, f.qty) - f.fee
                                    ELSE Notional(f.px, f.qty) - f.fee)
              /\ c.fees_paid = k.fees_paid + f.fee
              /\ \A s \in Symbols :
                   c.positions[s].qty = k.positions[s].qty
                     + (IF s = f.symbol THEN IF f.side = "Buy" THEN f.qty ELSE - f.qty ELSE 0)
          <5>1. f.qty \in Nat /\ f.px \in Pxs /\ f.fee \in Nat
            BY <1>4, <1>5
          <5> QED BY <1>4, <2>4, <4>1, <5>1, FilledBookFigures
        <4>3. /\ CashFlow(r, p) = IF f.side = "Buy" THEN - Notional(f.px, f.qty) - f.fee
                                  ELSE Notional(f.px, f.qty) - f.fee
              /\ FeeFlow(r, p) = f.fee
              /\ \A s : ShareFlow(r, p, s)
                          = IF s = f.symbol THEN IF f.side = "Buy" THEN f.qty ELSE - f.qty ELSE 0
          BY <1>7, <3>2 DEF CashFlow, FeeFlow, ShareFlow
        <4> QED BY <4>2, <4>3
      <3> QED BY <3>1, <3>2
    <2> HIDE DEF k, c, r, g, u
    <2>6. Explains(g, n + 1, p, c)
      BY <1>10, <2>1, <2>4, <2>5, OneMoreExplains
    <2> QED BY <2>6 DEF c
  <1> HIDE DEF g, u
  <1>12. Tells(g, n + 1, TapeRows(u), u.participants)
    BY <1>9, <1>11 DEF Tells
  <1> QED BY <1>12 DEF Told, u
(* What is no fill leaves the tape, and all books but that of whoever      *)
(* joins, who has no row on it.                                            *)
LEMMA OthersStayTold ==
  ASSUME NEW w \in World, NEW b \in Broker, Recorded(w), Owned(w), Told(w),
         NEW u, Effect(w, b, u), ~ Fills(w, b, u)
  PROVE  Told(u)
  <1> DEFINE rows == TapeRows(w)
             books == w.participants
  <1>1. TapeRows(u) = rows
    BY OtherEffectsRest, RowsStay DEF Rested
  <1>2. PICK n \in Nat : \E h : Tells(h, n, rows, books)
    BY DEF Told
  <1>3. PICK h : Tells(h, n, rows, books)
    BY <1>2
  <1>4. CASE u.participants = books
    <2>1. Tells(h, n, TapeRows(u), u.participants)
      BY <1>1, <1>3, <1>4
    <2> QED BY <2>1 DEF Told
  <1>5. CASE Opens(w, u)
    <2>1. PICK p \in Participants, cash \in Nat \ {0} :
            /\ books[p] = None
            /\ u = [w EXCEPT !.participants = [books EXCEPT ![p] = Open(cash)]]
      BY <1>5 DEF Opens
    <2>2. u.participants = [books EXCEPT ![p] = Open(cash)]
      BY <2>1 DEF World
    <2>3. \A r \in rows : r.participant # p
      <3> SUFFICES ASSUME NEW r \in rows PROVE r.participant # p
        OBVIOUS
      <3>1. PICK i \in Ids : \E m \in DOMAIN w.order_executions[i] :
                                r = TapeRow(w, i, w.order_executions[i][m])
        BY DEF TapeRows
      <3>2. w.orders[i] # None /\ r.participant = w.orders[i].participant
        BY <3>1 DEF Recorded, TapeRow
      <3> QED BY <2>1, <3>2 DEF Owned
    <2>4. h \in [1..n -> TapeRowType] /\ \A k \in 1..n : h[k].participant # p
      <3>1. h \in [1..n -> rows]
        BY <1>3 DEF Tells, Ascends
      <3> HIDE DEF rows
      <3> QED BY <2>3, <3>1, TapeRowsTyped DEF rows
    <2>5. Explains(h, n, p, Open(cash))
      <3>1. /\ Open(cash).cash = cash /\ Open(cash).starting_cash = cash
            /\ Open(cash).fees_paid = 0
            /\ \A s \in Symbols : Open(cash).positions[s].qty = 0
        BY DEF Open, Flat
      <3>2. n \in 0..n
        OBVIOUS
      <3>3. cash \in Nat
        OBVIOUS
      <3>4. \A s : \A m \in 0..n : /\ Sum(CashFlows(h, p, m), m) = 0
                                  /\ Sum(ShareFlows(h, p, s, m), m) = 0
                                  /\ Sum(FeeFlows(h, p, m), m) = 0
        BY <2>4, NoFlows
      <3> HIDE DEF rows, books
      <3> QED BY <3>1, <3>2, <3>3, <3>4 DEF Explains
    <2>6. \A q \in Participants : u.participants[q] # None
             => Explains(h, n, q, u.participants[q])
      <3> SUFFICES ASSUME NEW q \in Participants, u.participants[q] # None
                   PROVE  Explains(h, n, q, u.participants[q])
        OBVIOUS
      <3>1. CASE q = p
        BY <2>2, <2>5, <3>1, WorldFields
      <3>2. CASE q # p
        BY <1>3, <2>2, <3>2 DEF Tells
      <3> QED BY <3>1, <3>2
    <2>7. Tells(h, n, TapeRows(u), u.participants)
      BY <1>1, <1>3, <2>6 DEF Tells
    <2> QED BY <2>7 DEF Told
  <1>6. ~ Opens(w, u) => u.participants = books
    BY DEF Effect, Cancels, Refuses, Refused, Accepts, Taken, Quotes, Lists, Delists, Closes,
           ApplyDayClosed, World
  <1> QED BY <1>4, <1>5, <1>6

(* The tape can only be the sequence the invariant speaks of.              *)
LEMMA TapeIsTold ==
  ASSUME NEW w \in World, Recorded(w), NEW n \in Nat, NEW h,
         Ascends(h, n, TapeRows(w), ById(TapeRows(w)))
  PROVE  Tape(w) = [k \in 1..n |-> h[k]]
  <1> DEFINE rows == TapeRows(w)
             R == ById(rows)
             place == [x \in rows |-> Cardinality({y \in rows : y = x \/ y.exec_id < x.exec_id})]
  <1>1. rows \subseteq TapeRowType
    BY TapeRowsTyped
  <1>2. \A x, y \in rows : <<x, y>> \in R => x.exec_id < y.exec_id
    BY DEF ById
  <1>3. \A x \in rows : x.exec_id \in Int
    <2> HIDE DEF rows
    <2> QED BY <1>1 DEF TapeRowType
  <1>4. Orders(R, rows)
    <2>1. Strict(R, rows)
      <3> HIDE DEF rows, R
      <3> QED BY <1>2, <1>3 DEF Strict
    <2>2. ASSUME NEW x \in rows, NEW y \in rows
          PROVE  x = y \/ <<x, y>> \in R \/ <<y, x>> \in R
      <3>1. PICK j \in 1..n : h[j] = x
        BY DEF Ascends
      <3>2. PICK k \in 1..n : h[k] = y
        BY DEF Ascends
      <3>3. j < k \/ j = k \/ k < j
        OBVIOUS
      <3> HIDE DEF rows, R
      <3> QED BY <3>1, <3>2, <3>3 DEF Ascends, rows, R
    <2>3. ASSUME NEW x \in rows, NEW y \in rows, NEW z \in rows, <<x, y>> \in R, <<y, z>> \in R
          PROVE  <<x, z>> \in R
      <3>1. x.exec_id < z.exec_id
        <4> HIDE DEF rows, R
        <4> QED BY <1>2, <1>3, <2>3
      <3> QED BY <3>1 DEF ById
    <2> HIDE DEF rows, R
    <2> QED BY <2>1, <2>2, <2>3 DEF Orders
  <1>5. place = [x \in rows |-> Place(rows, R, x)]
    <2> SUFFICES ASSUME NEW x \in rows
                 PROVE  Cardinality({y \in rows : y = x \/ y.exec_id < x.exec_id})
                          = Place(rows, R, x)
      OBVIOUS
    <2>1. {y \in rows : y = x \/ y.exec_id < x.exec_id} = UpToHere(rows, R, x)
      BY DEF UpToHere, ById
    <2> QED BY <2>1 DEF Place
  <1>6. Tape(w) = Listed([k \in 1..Cardinality(rows) |-> CHOOSE x \in rows : place[x] = k])
    BY DEF Tape, Sorted
  <1>7. Tape(w) = Ranked(rows, R)
    <2> HIDE DEF place, rows, R
    <2> QED BY <1>5, <1>6 DEF Ranked
  <1> HIDE DEF place, rows, R
  <1>8. Ascends(h, n, rows, R) /\ Strict(R, rows)
    BY <1>4 DEF Orders, rows, R
  <1>9. IsFiniteSet(rows) /\ Cardinality(rows) = n
    BY <1>8, AscendingCounts
  <1>10. Ascends(Tape(w), n, rows, R)
    BY <1>4, <1>7, <1>9, RankedAscends
  <1>11. \A k \in 1..n : Tape(w)[k] \in rows /\ Place(rows, R, Tape(w)[k]) = k
    <2> SUFFICES ASSUME NEW k \in 1..n
                 PROVE  Tape(w)[k] \in rows /\ Place(rows, R, Tape(w)[k]) = k
      OBVIOUS
    <2>1. Place(rows, R, Tape(w)[k]) = k
      BY <1>8, <1>10, AscendingPlaces
    <2> QED BY <1>10, <2>1 DEF Ascends
  <1>12. \A k \in 1..n : Tape(w)[k] = h[k]
    BY <1>8, <1>11, OnlyOneAscends
  <1>13. Tape(w) \in [1..n -> rows]
    BY <1>10 DEF Ascends
  <1> QED BY <1>12, <1>13
-----------------------------------------------------------------------------
(* The inductive invariant, and what the other proofs give it to rest on.  *)
TapeGround ==
  /\ CoverInv /\ BookInv /\ BlotterMatchesOrders
  /\ InMintOrder(world.order_executions, broker.next_exec_id)

LEMMA StepStaysTold ==
  ASSUME TapeGround, TurnoverHasRoom, Told(world), [Next]_vars, BookInv'
  PROVE  Told(world)'
  <1>1. /\ world \in World /\ broker \in Broker /\ Owned(world)
        /\ InMintOrder(world.order_executions, broker.next_exec_id)
        /\ world' \in World /\ BooksSound(world')
    BY DEF TapeGround, CoverInv, StoryInv, BookInv, TypeOK, Covered
  <1>2. Recorded(world)
    BY DEF TapeGround, BlotterMatchesOrders, Known, Recorded
  <1>3. CASE Next
    <2>1. Effect(world, broker, world')
      BY <1>3, EveryStepHasAnEffect DEF TapeGround, BookInv
    <2>2. CASE Fills(world, broker, world')
      <3>1. PICK e \in FilledEvent : /\ CanBook(world, broker, e)
                                     /\ world' = ApplyFilled(world, e)
        BY <2>2 DEF Fills
      <3>2. Fits(Traded(world, e))
        BY <1>1, <3>1, BookableHasRoom
      <3> QED BY <1>1, <1>2, <3>1, <3>2, FillStaysTold
    <2>3. CASE ~ Fills(world, broker, world')
      BY <1>1, <1>2, <2>1, <2>3, OthersStayTold
    <2> QED BY <2>2, <2>3
  <1>4. CASE UNCHANGED vars
    BY <1>4 DEF vars, Told
  <1> QED BY <1>3, <1>4

LEMMA ToldTapeIsAHistory ==
  ASSUME Told(world), world \in World, Recorded(world)
  PROVE  TapeIsAHistory
  <1>1. PICK n \in Nat : \E h : Tells(h, n, TapeRows(world), world.participants)
    BY DEF Told
  <1>2. PICK h : Tells(h, n, TapeRows(world), world.participants)
    BY <1>1
  <1> DEFINE rows == Tape(world)
  <1>3. rows = [k \in 1..n |-> h[k]]
    BY <1>2, TapeIsTold DEF Tells
  <1> HIDE DEF rows
  <1>4. Len(rows) = n /\ \A k \in 1..n : rows[k] = h[k]
    BY <1>3
  <1>5. ASSUME NEW p \in Participants, NEW s, NEW m \in 0..n
        PROVE  /\ [k \in 1..m |-> CashFlow(rows[k], p)] = CashFlows(h, p, m)
               /\ [k \in 1..m |-> ShareFlow(rows[k], p, s)] = ShareFlows(h, p, s, m)
               /\ [k \in 1..m |-> FeeFlow(rows[k], p)] = FeeFlows(h, p, m)
    BY <1>4 DEF CashFlows, ShareFlows, FeeFlows
  <1>6. ASSUME NEW p \in Participants, NEW s, NEW m \in 0..n
        PROVE  /\ CashAfter(rows, p, m)
                    = world.participants[p].starting_cash + Sum(CashFlows(h, p, m), m)
               /\ SharesAfter(rows, p, s, m) = Sum(ShareFlows(h, p, s, m), m)
               /\ FeesAfter(rows, p, m) = Sum(FeeFlows(h, p, m), m)
    BY <1>5 DEF CashAfter, SharesAfter, FeesAfter
  <1>7. ASSUME NEW p \in Participants, Joined(p)
        PROVE  Explains(h, n, p, world.participants[p])
    BY <1>2, <1>7 DEF Tells, Joined
  <1>8. n \in 0..n
    OBVIOUS
  <1>9. ASSUME NEW p \in Participants, Joined(p)
        PROVE  /\ \A m \in 0..n : /\ CashAfter(rows, p, m) >= 0
                                  /\ \A s \in Symbols : SharesAfter(rows, p, s, m) >= 0
               /\ CashAfter(rows, p, n) = PortfolioView(world, p).cash
               /\ FeesAfter(rows, p, n) = PortfolioView(world, p).fees_paid
               /\ \A s \in Symbols :
                    SharesAfter(rows, p, s, n) = world.participants[p].positions[s].qty
    <2>1. /\ PortfolioView(world, p).cash = world.participants[p].cash
          /\ PortfolioView(world, p).fees_paid = world.participants[p].fees_paid
      BY DEF PortfolioView
    <2>2. Explains(h, n, p, world.participants[p])
      BY <1>7, <1>9
    <2> QED BY <1>6, <1>8, <2>1, <2>2 DEF Explains
  <1> QED BY <1>4, <1>9 DEF TapeIsAHistory, rows

(* While every day's turnover has room for what may be filled, the tape    *)
(* read from its start is a history that could have happened: nobody ever  *)
(* spends cash or sells shares that the rows before did not give them, and *)
(* at its end it explains every balance, holding and fee (GET /executions, *)
(* Engine::executions against Engine::portfolio).                          *)
THEOREM TapeIsAlwaysAHistory == Spec /\ []TurnoverHasRoom => []TapeIsAHistory
  <1>1. Init => Told(world)
    <2> SUFFICES ASSUME Init PROVE Told(world)
      OBVIOUS
    <2> DEFINE h == [k \in 1..0 |-> 0]
    <2>1. TapeRows(world) = {}
      BY DEF Init, EmptyWorld, TapeRows
    <2>2. Ascends(h, 0, TapeRows(world), ById(TapeRows(world)))
      BY <2>1 DEF Ascends
    <2>3. \A p \in Participants : world.participants[p] = None
      BY DEF Init, EmptyWorld
    <2> HIDE DEF h
    <2>4. Tells(h, 0, TapeRows(world), world.participants)
      BY <2>2, <2>3 DEF Tells
    <2> QED BY <2>4 DEF Told
  <1>2. TapeGround /\ TurnoverHasRoom /\ Told(world) /\ [Next]_vars /\ BookInv' => Told(world)'
    BY StepStaysTold
  <1>3. TapeGround /\ Told(world) => TapeIsAHistory
    BY ToldTapeIsAHistory DEF TapeGround, BookInv, TypeOK, BlotterMatchesOrders, Known, Recorded
  <1>4. Spec => []InMintOrder(world.order_executions, broker.next_exec_id)
    BY MintOrderInvariant
  <1> QED BY <1>1, <1>2, <1>3, <1>4, CoverInvariant, BookInvariant,
             BlotterAlwaysMatchesOrders, PTL DEF Spec, TapeGround

-----------------------------------------------------------------------------
(***************************************************************************)
(* The days: who is active, what a published day starts from and ends on,  *)
(* that nothing traded is dropped between two of them, and that what the   *)
(* engine publishes is a season that scoring can rank.                     *)
(***************************************************************************)

(***************************************************************************)
(* What an effect does to the books and the days.                          *)
(***************************************************************************)
SameDays(w, u) ==
  /\ u.day_turnover = w.day_turnover /\ u.day_fills = w.day_fills
  /\ u.last_close = w.last_close /\ u.closed = w.closed

Uneventful(w, u) == u.participants = w.participants /\ SameDays(w, u)

LEMMA OtherEffects ==
  ASSUME NEW w \in World, NEW b \in Broker, NEW u, Effect(w, b, u)
  PROVE  Opens(w, u) \/ Fills(w, b, u) \/ Closes(w, u) \/ Uneventful(w, u)
  <1>1. Cancels(w, u) => Uneventful(w, u)
    BY DEF Cancels, Uneventful, SameDays, World
  <1>2. Refuses(w, u) => Uneventful(w, u)
    BY DEF Refuses, Refused, Uneventful, SameDays, World
  <1>3. Accepts(w, b, u) => Uneventful(w, u)
    BY DEF Accepts, Taken, Uneventful, SameDays, World
  <1>4. Quotes(w, u) \/ Lists(w, u) \/ Delists(w, u) \/ u = w => Uneventful(w, u)
    BY DEF Quotes, Lists, Delists, Uneventful, SameDays, World
  <1> QED BY <1>1, <1>2, <1>3, <1>4 DEF Effect

(* Who joins has cash, holds nothing, and nobody else is touched.          *)
LEMMA OpeningFacts ==
  ASSUME NEW w \in World, NEW u, Opens(w, u)
  PROVE  \E p \in Participants, cash \in Nat \ {0} :
           /\ Fits(cash)
           /\ w.participants[p] = None /\ u.participants[p] = Open(cash) /\ Open(cash) # None
           /\ \A q \in Participants \ {p} : u.participants[q] = w.participants[q]
           /\ SameDays(w, u)
  <1>1. PICK p \in Participants, cash \in Nat \ {0} :
          /\ w.participants[p] = None /\ Fits(cash)
          /\ u = [w EXCEPT !.participants = [w.participants EXCEPT ![p] = Open(cash)]]
    BY DEF Opens
  <1>2. u.participants = [w.participants EXCEPT ![p] = Open(cash)] /\ SameDays(w, u)
    BY <1>1 DEF SameDays, World
  <1>3. /\ u.participants[p] = Open(cash)
        /\ \A q \in Participants \ {p} : u.participants[q] = w.participants[q]
    BY <1>2, WorldFields
  <1>4. Open(cash) # None
    <2>1. Open(cash) \in Book
      BY DEF Open, Book, Flat, Position
    <2> QED BY <2>1, NoneAssumption
  <1> QED BY <1>1, <1>2, <1>3, <1>4

(* What a close does: a day after all those closed gets its entries, which *)
(* become the closes to measure the next from, and the counters restart.   *)
ClosesOn(w, u, d) ==
  /\ CanClose(w, d)
  /\ \A q \in Participants : w.participants[q] # None =>
       DayEntry(w, q) \in DayInput /\ DayEntry(w, q) # None
  /\ u.participants = w.participants /\ u.orders = w.orders
  /\ u.closed[d] = Publication(w) /\ Publication(w) # None
  /\ \A c \in Days \ {d} : u.closed[c] = w.closed[c]
  /\ \A q \in Participants :
       /\ u.day_turnover[q] = 0 /\ u.day_fills[q] = 0
       /\ u.last_close[q] = IF w.participants[q] # None THEN DayEntry(w, q).closing_value
                            ELSE w.last_close[q]

LEMMA ClosingFacts ==
  ASSUME NEW w \in World, NEW u, Closes(w, u)
  PROVE  \E d \in Days : ClosesOn(w, u, d) /\ u.closed = [w.closed EXCEPT ![d] = Publication(w)]
  <1>1. PICK d \in Days : CanClose(w, d) /\ u = ApplyDayClosed(w, DayClosed(d, Publication(w)))
    BY DEF Closes
  <1> DEFINE entries == Publication(w)
  <1>2. entries \in [Participants -> DayInput \cup {None}] /\ entries # None
    <2>1. entries \in [Participants -> DayInput \cup {None}]
      BY DayEntriesTyped DEF Publication
    <2> QED BY <2>1, NoneAssumption
  <1>3. \A q \in Participants :
          entries[q] = IF w.participants[q] # None THEN DayEntry(w, q) ELSE None
    BY DEF Publication
  <1>4. \A q \in Participants : w.participants[q] # None =>
          DayEntry(w, q) \in DayInput /\ DayEntry(w, q) # None
    <2> SUFFICES ASSUME NEW q \in Participants, w.participants[q] # None
                 PROVE  DayEntry(w, q) \in DayInput
      BY NoneAssumption
    <2>1. w.participants[q] \in Book
      BY WorldFields
    <2>2. /\ w.participants[q].starting_cash \in Int
          /\ w.day_turnover[q] \in Int /\ w.last_close[q] \in Int \cup {None}
      BY <2>1, WorldFields DEF Book
    <2>3. TotalValue(w.participants[q], w.marks) \in Int
      BY TotalValueTyped
    <2> QED BY <2>2, <2>3 DEF DayEntry, DayInput
  <1> HIDE DEF entries
  <1>5. /\ u.participants = w.participants /\ u.orders = w.orders
        /\ u.closed = [w.closed EXCEPT ![d] = entries]
        /\ \A q \in Participants :
             /\ u.day_turnover[q] = 0 /\ u.day_fills[q] = 0
             /\ u.last_close[q] = IF entries[q] = None THEN w.last_close[q]
                                  ELSE entries[q].closing_value
    BY <1>1 DEF ApplyDayClosed, DayClosed, World, entries
  <1>6. u.closed[d] = entries /\ \A c \in Days \ {d} : u.closed[c] = w.closed[c]
    BY <1>5, WorldFields
  <1>7. ClosesOn(w, u, d)
    BY <1>1, <1>2, <1>3, <1>4, <1>5, <1>6 DEF ClosesOn, entries
  <1> QED BY <1>5, <1>7 DEF entries

(* A fill is counted for the one who traded, unless their turnover of the  *)
(* day is out of room.                                                     *)
Counts(w, u, e) ==
  LET p == Trader(w, e.id)
  IN  /\ u.last_close = w.last_close /\ u.closed = w.closed
      /\ \A q \in Participants \ {p} :
           u.day_turnover[q] = w.day_turnover[q] /\ u.day_fills[q] = w.day_fills[q]
      /\ IF Fits(Traded(w, e))
         THEN u.day_turnover[p] = Traded(w, e) /\ u.day_fills[p] = w.day_fills[p] + 1
         ELSE u.day_turnover[p] = w.day_turnover[p] /\ u.day_fills[p] = w.day_fills[p]

LEMMA FillCounts ==
  ASSUME NEW w \in World, NEW b, NEW e \in FilledEvent, CanBook(w, b, e)
  PROVE  Counts(w, ApplyFilled(w, e), e)
  <1> DEFINE u == ApplyFilled(w, e)
             v == FillBook(FillOrder(w, e), e)
             p == Trader(w, e.id)
  <1>1. OrderTakes(w, e) /\ BookTakes(w, e) /\ w.orders[e.id] # None
    BY DEF CanBook, OrderTakes
  <1>2. p \in Participants
    BY <1>1, FillFacts
  <1>3. v \in World /\ SameDays(w, v) /\ Trader(v, e.id) = p /\ Traded(v, e) = Traded(w, e)
    <2>1. /\ FillOrder(w, e) \in World /\ v \in World
          /\ Trader(FillOrder(w, e), e.id) = p
      BY <1>1, FilledPartsTyped, FillOrderTyped
    <2>2. \A x \in World : SameDays(x, FillBook(x, e)) /\ FillBook(x, e).orders = x.orders
      BY DEF FillBook, SameDays, World
    <2>3. SameDays(w, FillOrder(w, e))
      BY DEF FillOrder, SameDays, World
    <2>4. SameDays(w, v) /\ v.orders = FillOrder(w, e).orders
      BY <2>1, <2>2, <2>3 DEF SameDays
    <2>5. Trader(v, e.id) = p
      BY <2>1, <2>4 DEF Trader
    <2> HIDE DEF v, p
    <2> QED BY <2>1, <2>4, <2>5 DEF Traded, SameDays, p
  <1>4. u = IF Fits(Traded(w, e)) THEN FillTape(v, e) ELSE v
    BY <1>1 DEF ApplyFilled
  <1>5. \A x \in World : Trader(x, e.id) = p =>
          LET t == FillTape(x, e)
          IN  /\ t.last_close = x.last_close /\ t.closed = x.closed
              /\ \A q \in Participants \ {p} :
                   t.day_turnover[q] = x.day_turnover[q] /\ t.day_fills[q] = x.day_fills[q]
              /\ t.day_turnover[p] = Traded(x, e) /\ t.day_fills[p] = x.day_fills[p] + 1
    <2> HIDE DEF p
    <2> QED BY <1>2 DEF FillTape, World
  <1> HIDE DEF u, v, p
  <1>6. Counts(w, u, e)
    BY <1>3, <1>4, <1>5 DEF Counts, SameDays, p
  <1> QED BY <1>6 DEF u

(* Everything a booked fill is and does, as far as the days go.            *)
FillsIn(w, b, u, e) ==
  LET p == Trader(w, e.id)
  IN  /\ CanBook(w, b, e) /\ p \in Participants
      /\ e.id \in Ids /\ w.orders[e.id] # None /\ w.orders[e.id].side \in Sides
      /\ e.qty \in Nat \ {0} /\ e.px \in Nat \ {0}
      /\ Notional(e.px, e.qty) \in Nat \ {0} /\ Fits(Notional(e.px, e.qty))
      /\ e.fee \in Nat /\ e.fee <= Notional(e.px, e.qty)
      /\ w.participants[p] # None /\ u.participants[p] # None
      /\ u.participants[p] = BookFill(w.participants[p], FillOf(w, e))
      /\ \A q \in Participants \ {p} : u.participants[q] = w.participants[q]
      /\ u.orders[e.id] # None
      /\ u.orders[e.id] = InState(w.orders[e.id], u.orders[e.id].state)
      /\ u.orders[e.id].state.filled = w.orders[e.id].state.filled + e.qty
      /\ u.orders[e.id].state.cost = w.orders[e.id].state.cost + Notional(e.px, e.qty)
      /\ \A k \in Ids \ {e.id} : u.orders[k] = w.orders[k]
      /\ Counts(w, u, e)

LEMMA FillingFacts ==
  ASSUME NEW w \in World, NEW b, NEW u, Fills(w, b, u)
  PROVE  \E e \in FilledEvent : FillsIn(w, b, u, e)
  <1>1. PICK e \in FilledEvent : CanBook(w, b, e) /\ u = ApplyFilled(w, e)
    BY DEF Fills
  <1> DEFINE p == Trader(w, e.id)
             o == w.orders[e.id]
             state == Fill(o.state, o.qty, e.qty, e.px)
  <1>2. /\ OrderTakes(w, e) /\ BookTakes(w, e) /\ o # None /\ w.participants[p] # None
        /\ e.qty > 0 /\ Fits(Notional(e.px, e.qty)) /\ e.fee = FeeOf(Notional(e.px, e.qty))
    BY <1>1 DEF CanBook, OrderTakes, CanFill, BookTakes
  <1>3. /\ e.id \in Ids /\ e.qty \in Nat /\ e.px \in Pxs /\ p \in Participants
        /\ o \in Order /\ o.side \in Sides /\ o.state \in OrderState
    BY <1>2, FillFacts DEF FillOf
  <1>4. /\ e.qty \in Nat \ {0} /\ e.px \in Nat \ {0} /\ Notional(e.px, e.qty) \in Nat \ {0}
        /\ e.fee \in Nat /\ e.fee <= Notional(e.px, e.qty)
    <2> DEFINE m == Notional(e.px, e.qty)
    <2>1. e.qty \in Nat \ {0} /\ e.px \in Nat \ {0}
      BY <1>2, <1>3 DEF Pxs
    <2>2. m \in Nat \ {0}
      BY <2>1 DEF Notional
    <2> HIDE DEF m
    <2>3. FeeOf(m) \in Nat /\ FeeOf(m) <= m
      BY <2>2, FeeFacts
    <2> QED BY <1>2, <2>1, <2>2, <2>3 DEF m
  <1>5. /\ u.participants[p] = BookFill(w.participants[p], FillOf(w, e))
        /\ \A q \in Participants \ {p} : u.participants[q] = w.participants[q]
    BY <1>1, <1>2, FilledBooks
  <1>6. u.participants[p] # None
    <2>1. BookFill(w.participants[p], FillOf(w, e)) \in Book
      <3>1. w.participants[p] \in Book
        BY <1>2, <1>3, WorldFields
      <3> QED BY <1>2, <3>1, FillFacts, BookFillTyped DEF BookTakes
    <2> QED BY <1>5, <2>1, NoneAssumption
  <1>7. u.orders = Advance(w.orders, e.id, state)
    BY <1>1, <1>2, FilledOrders
  <1>8. /\ u.orders[e.id] = InState(o, state)
        /\ \A k \in Ids \ {e.id} : u.orders[k] = w.orders[k]
    BY <1>3, <1>7, WorldFields DEF Advance, InState
  <1>9. u.orders[e.id].state = state /\ u.orders[e.id] # None
    <2>1. state \in OrderState
      BY <1>3, TransitionsTyped DEF Order
    <2> HIDE DEF state
    <2>2. InState(o, state) \in Order /\ InState(o, state).state = state
      BY <1>3, <2>1 DEF InState, Order
    <2> QED BY <1>8, <2>2, NoneAssumption
  <1>10. state.filled = o.state.filled + e.qty /\ state.cost = o.state.cost + Notional(e.px, e.qty)
    BY <1>3 DEF Fill, OrderState
  <1>11. Counts(w, u, e)
    BY <1>1, FillCounts
  <1> HIDE DEF p, o, state
  <1>12. FillsIn(w, b, u, e)
    BY <1>1, <1>2, <1>3, <1>4, <1>5, <1>6, <1>8, <1>9, <1>10, <1>11 DEF FillsIn, p, o
  <1> QED BY <1>12

-----------------------------------------------------------------------------
(***************************************************************************)
(* Who is active.                                                          *)
(***************************************************************************)
IsExposed(w, p) == w.day_fills[p] > 0 \/ HoldsAny(w, p)

(* A day without a fill has no turnover, and there is none of it for those *)
(* who have not joined: so the first fill of a day always has room.        *)
Tallied(w, p) ==
  /\ w.day_turnover[p] >= 0
  /\ w.day_fills[p] = 0 => w.day_turnover[p] = 0
  /\ w.participants[p] = None => w.day_fills[p] = 0 /\ w.last_close[p] = None

LEMMA FirstFillIsCounted ==
  ASSUME NEW w \in World, NEW b, NEW u, NEW e \in FilledEvent, FillsIn(w, b, u, e),
         Tallied(w, Trader(w, e.id))
  PROVE  /\ u.day_fills[Trader(w, e.id)] > 0
         /\ u.day_turnover[Trader(w, e.id)] >= w.day_turnover[Trader(w, e.id)]
  <1> DEFINE p == Trader(w, e.id)
             m == Notional(e.px, e.qty)
  <1>1. /\ p \in Participants /\ m \in Nat \ {0} /\ Fits(m)
        /\ w.day_fills[p] = 0 => w.day_turnover[p] = 0
        /\ Traded(w, e) = w.day_turnover[p] + m
    BY DEF FillsIn, Tallied, Traded
  <1>2. w.day_fills[p] \in Nat /\ w.day_turnover[p] \in Int
    BY <1>1, WorldFields
  <1>3. IF Fits(Traded(w, e))
        THEN u.day_turnover[p] = Traded(w, e) /\ u.day_fills[p] = w.day_fills[p] + 1
        ELSE u.day_turnover[p] = w.day_turnover[p] /\ u.day_fills[p] = w.day_fills[p]
    BY DEF FillsIn, Counts
  <1> HIDE DEF p, m
  <1>4. w.day_fills[p] = 0 => Fits(Traded(w, e))
    BY <1>1, <1>2
  <1>5. u.day_fills[p] > 0 /\ u.day_turnover[p] >= w.day_turnover[p]
    BY <1>1, <1>2, <1>3, <1>4
  <1> QED BY <1>5 DEF p

LEMMA EffectKeepsTallied ==
  ASSUME NEW w \in World, NEW b \in Broker, NEW u, Effect(w, b, u),
         \A p \in Participants : Tallied(w, p),
         NEW p \in Participants
  PROVE  Tallied(u, p)
  <1>1. CASE Opens(w, u)
    <2>1. SameDays(w, u) /\ (u.participants[p] = None => w.participants[p] = None)
      BY <1>1, OpeningFacts
    <2> QED BY <2>1 DEF SameDays, Tallied
  <1>2. CASE Closes(w, u)
    <2>1. PICK d \in Days : ClosesOn(w, u, d)
      BY <1>2, ClosingFacts
    <2> QED BY <2>1 DEF ClosesOn, Tallied
  <1>3. CASE Uneventful(w, u)
    BY <1>3 DEF Uneventful, SameDays, Tallied
  <1>4. CASE Fills(w, b, u)
    <2>1. PICK e \in FilledEvent : FillsIn(w, b, u, e)
      BY <1>4, FillingFacts
    <2>2. CASE p = Trader(w, e.id)
      <3>1. u.day_fills[p] > 0 /\ u.day_turnover[p] >= w.day_turnover[p] /\ w.day_turnover[p] >= 0
        BY <2>1, <2>2, FirstFillIsCounted DEF Tallied
      <3>2. u.participants[p] # None
        BY <2>1, <2>2 DEF FillsIn
      <3>3. w.day_turnover[p] \in Int /\ (u.day_turnover[p] = w.day_turnover[p]
                                         \/ u.day_turnover[p] = Traded(w, e)) /\ Traded(w, e) \in Int
        BY <2>1, <2>2, WorldFields DEF FillsIn, Counts, Traded
      <3>4. u.day_turnover[p] >= 0
        BY <3>1, <3>3
      <3>5. u.day_fills[p] # 0
        BY <3>1
      <3> QED BY <3>2, <3>4, <3>5 DEF Tallied
    <2>3. CASE p # Trader(w, e.id)
      BY <2>1, <2>3 DEF FillsIn, Counts, Tallied
    <2> QED BY <2>2, <2>3
  <1> QED BY <1>1, <1>2, <1>3, <1>4, OtherEffects

LEMMA RestingIsNoTrade ==
  ASSUME NEW w \in World, NEW u, NEW k \in Ids, Rested(w, u, k), w.orders[k] # None
  PROVE  /\ u.orders[k] = InState(w.orders[k], u.orders[k].state)
         /\ u.orders[k].state.filled = w.orders[k].state.filled
         /\ u.orders[k].state.cost = w.orders[k].state.cost
  <1>1. w.orders[k] \in Order /\ w.orders[k].state \in OrderState
    BY WorldFields DEF Order
  <1>2. CASE u.orders[k] = w.orders[k]
    BY <1>1, <1>2 DEF InState, Order
  <1>3. CASE Gone(w, u, k)
    <2> DEFINE state == Cancel(w.orders[k].state)
    <2>1. u.orders[k] = InState(w.orders[k], state)
      BY <1>3 DEF Gone
    <2>2. state.filled = w.orders[k].state.filled /\ state.cost = w.orders[k].state.cost
      BY <1>1 DEF Cancel, OrderState
    <2>3. InState(w.orders[k], state).state = state
      BY <1>1 DEF InState, Order
    <2> HIDE DEF state
    <2> QED BY <2>1, <2>2, <2>3
  <1> QED BY <1>2, <1>3 DEF Rested, Born

LEMMA WhoTrades ==
  ASSUME TypeOK, Effect(world, broker, world'), NEW p \in Participants
  PROVE  /\ ~ Fills(world, broker, world') => ~ TradedInStep(p)
         /\ \A e \in FilledEvent : FillsIn(world, broker, world', e) =>
              (TradedInStep(p) <=> p = Trader(world, e.id))
  <1>0. world \in World /\ broker \in Broker
    BY DEF TypeOK
  <1>1. ASSUME NEW i \in OrdersOf(p)
        PROVE  /\ i \in Ids /\ world.orders[i] # None /\ world.orders[i].participant = p
               /\ world.orders[i].state.filled \in Nat
    <2>1. i \in Ids /\ world.orders[i] # None /\ world.orders[i].participant = p
      BY DEF OrdersOf, Known
    <2>2. world.orders[i] \in Order
      BY <1>0, <2>1, WorldFields
    <2> QED BY <2>1, <2>2 DEF Order, OrderState
  <1>2. ASSUME ~ Fills(world, broker, world') PROVE ~ TradedInStep(p)
    <2>1. ASSUME NEW i \in OrdersOf(p)
          PROVE  world'.orders[i].state.filled = world.orders[i].state.filled
      BY <1>0, <1>1, <1>2, OtherEffectsRest, RestingIsNoTrade
    <2> QED BY <1>1, <2>1 DEF TradedInStep
  <1>3. ASSUME NEW e \in FilledEvent, FillsIn(world, broker, world', e)
        PROVE  TradedInStep(p) <=> p = Trader(world, e.id)
    <2>1. CASE p = Trader(world, e.id)
      <3>1. e.id \in OrdersOf(p)
        BY <1>3, <2>1 DEF FillsIn, OrdersOf, Known, Trader
      <3>2. /\ world'.orders[e.id].state.filled = world.orders[e.id].state.filled + e.qty
            /\ e.qty \in Nat \ {0}
        BY <1>3 DEF FillsIn
      <3>3. world'.orders[e.id].state.filled > world.orders[e.id].state.filled
        BY <1>1, <3>1, <3>2
      <3> QED BY <2>1, <3>1, <3>3 DEF TradedInStep
    <2>2. CASE p # Trader(world, e.id)
      <3>1. ASSUME NEW i \in OrdersOf(p)
            PROVE  world'.orders[i] = world.orders[i]
        <4>1. i # e.id
          BY <1>1, <2>2 DEF Trader
        <4> QED BY <1>1, <1>3, <4>1 DEF FillsIn
      <3> QED BY <1>1, <2>2, <3>1 DEF TradedInStep
    <2> QED BY <2>1, <2>2
  <1> QED BY <1>2, <1>3

LEMMA WhenADayCloses ==
  ASSUME TypeOK, Effect(world, broker, world')
  PROVE  DayClosedInStep <=> Closes(world, world')
  <1>0. world \in World /\ broker \in Broker
    BY DEF TypeOK
  <1>1. ASSUME Closes(world, world') PROVE DayClosedInStep
    <2>1. PICK d \in Days : ClosesOn(world, world', d)
      BY <1>0, <1>1, ClosingFacts
    <2>2. ~ IsClosed(world, d)
      <3>1. \A c \in Days : IsClosed(world, c) => c < d
        BY <2>1 DEF ClosesOn, CanClose
      <3>2. d \in Int
        BY KeysAssumption DEF Days
      <3> QED BY <3>1, <3>2
    <2>3. IsClosed(world', d)
      BY <2>1 DEF ClosesOn, IsClosed
    <2> QED BY <2>2, <2>3 DEF DayClosedInStep
  <1>2. ASSUME ~ Closes(world, world') PROVE ~ DayClosedInStep
    <2>1. world'.closed = world.closed
      <3>1. Opens(world, world') => SameDays(world, world')
        BY <1>0, OpeningFacts
      <3>2. Fills(world, broker, world') => world'.closed = world.closed
        BY <1>0, FillingFacts DEF FillsIn, Counts
      <3> QED BY <1>0, <1>2, <3>1, <3>2, OtherEffects DEF SameDays, Uneventful
    <2> QED BY <2>1 DEF DayClosedInStep, IsClosed
  <1> QED BY <1>1, <1>2

ExposedInv ==
  /\ TypeOK
  /\ \A p \in Participants : Tallied(world, p)
  /\ \A p \in Participants : exposed[p] <=> IsExposed(world, p)

LEMMA StepKeepsExposed ==
  ASSUME ExposedInv, DaysNext, NEW p \in Participants
  PROVE  exposed'[p] <=> IsExposed(world', p)
  <1>0. world \in World /\ broker \in Broker /\ TypeOK
    BY DEF ExposedInv, TypeOK
  <1>1. Effect(world, broker, world')
    BY <1>0, EveryStepHasAnEffect DEF DaysNext
  <1>2. exposed'[p] <=> \/ HoldsAny(world', p)
                        \/ ~ Closes(world, world') /\ (exposed[p] \/ TradedInStep(p))
    BY <1>0, <1>1, WhenADayCloses, Zenon DEF DaysNext
  <1>3. exposed[p] <=> IsExposed(world, p)
    BY DEF ExposedInv
  <1>4. CASE Closes(world, world')
    <2>1. world'.day_fills[p] = 0
      <3>1. PICK d \in Days : ClosesOn(world, world', d)
        BY <1>0, <1>4, ClosingFacts
      <3> QED BY <3>1 DEF ClosesOn
    <2> QED BY <1>2, <1>4, <2>1 DEF IsExposed
  <1>5. CASE Uneventful(world, world') /\ ~ Closes(world, world') /\ ~ Fills(world, broker, world')
    <2>1. /\ world'.day_fills = world.day_fills
          /\ HoldsAny(world', p) <=> HoldsAny(world, p)
      BY <1>5 DEF Uneventful, SameDays, HoldsAny
    <2>2. ~ TradedInStep(p)
      BY <1>0, <1>1, <1>5, WhoTrades
    <2> QED BY <1>2, <1>3, <1>5, <2>1, <2>2 DEF IsExposed
  <1>6. CASE Opens(world, world') /\ ~ Closes(world, world') /\ ~ Fills(world, broker, world')
    <2>1. /\ world'.day_fills = world.day_fills
          /\ HoldsAny(world', p) <=> HoldsAny(world, p)
      <3>1. PICK q \in Participants, cash \in Nat \ {0} :
              /\ world.participants[q] = None /\ world'.participants[q] = Open(cash)
              /\ \A r \in Participants \ {q} : world'.participants[r] = world.participants[r]
              /\ SameDays(world, world')
        BY <1>0, <1>6, OpeningFacts
      <3>2. \A s \in Symbols : ~ Holds(Open(cash), s)
        BY DEF Holds, Open, Flat
      <3> QED BY <3>1, <3>2 DEF HoldsAny, SameDays
    <2>2. ~ TradedInStep(p)
      BY <1>0, <1>1, <1>6, WhoTrades
    <2> QED BY <1>2, <1>3, <1>6, <2>1, <2>2 DEF IsExposed
  <1>7. CASE Fills(world, broker, world') /\ ~ Closes(world, world')
    <2>1. PICK e \in FilledEvent : FillsIn(world, broker, world', e)
      BY <1>0, <1>7, FillingFacts
    <2>2. TradedInStep(p) <=> p = Trader(world, e.id)
      BY <1>0, <1>1, <2>1, WhoTrades
    <2>3. CASE p = Trader(world, e.id)
      <3>1. world'.day_fills[p] > 0
        BY <1>0, <2>1, <2>3, FirstFillIsCounted DEF ExposedInv
      <3> QED BY <1>2, <1>7, <2>2, <2>3, <3>1 DEF IsExposed
    <2>4. CASE p # Trader(world, e.id)
      <3>1. /\ world'.day_fills[p] = world.day_fills[p]
            /\ HoldsAny(world', p) <=> HoldsAny(world, p)
        BY <2>1, <2>4 DEF FillsIn, Counts, HoldsAny
      <3> QED BY <1>2, <1>3, <1>7, <2>2, <2>4, <3>1 DEF IsExposed
    <2> QED BY <2>3, <2>4
  <1> QED BY <1>0, <1>1, <1>4, <1>5, <1>6, <1>7, OtherEffects

LEMMA TalliedInvariant == Spec => [](TypeOK /\ \A p \in Participants : Tallied(world, p))
  <1>1. Init => \A p \in Participants : Tallied(world, p)
    BY DEF Init, EmptyWorld, Tallied
  <1>2. TypeOK /\ (\A p \in Participants : Tallied(world, p)) /\ [Next]_vars
          => (\A p \in Participants : Tallied(world, p))'
    <2> SUFFICES ASSUME TypeOK, \A p \in Participants : Tallied(world, p), [Next]_vars
                 PROVE  \A p \in Participants : Tallied(world', p)
      OBVIOUS
    <2>1. CASE Next
      BY <2>1, EveryStepHasAnEffect, EffectKeepsTallied DEF TypeOK
    <2>2. CASE UNCHANGED vars
      BY <2>2 DEF vars
    <2> QED BY <2>1, <2>2
  <1> QED BY <1>1, <1>2, TypeSafety, PTL DEF Spec

LEMMA DaysRefine == DaysSpec => Spec
  <1>1. DaysInit => Init
    BY DEF DaysInit
  <1>2. [DaysNext]_<<vars, exposed>> => [Next]_vars
    BY DEF DaysNext
  <1> QED BY <1>1, <1>2, PTL DEF DaysSpec, Spec

(* An entry calls active exactly those who traded or held anything since   *)
(* the last close, those who held at the open and sold out, and those      *)
(* whose turnover ran out of room, included (Engine::day_entries).         *)
THEOREM ActiveAlwaysMeansExposed == DaysSpec => []ActiveMeansExposed
  <1> DEFINE Right == \A p \in Participants : exposed[p] <=> IsExposed(world, p)
             Counters == \A p \in Participants : Tallied(world, p)
  <1>1. DaysInit => Right
    BY DEF DaysInit, Init, EmptyWorld, IsExposed, HoldsAny
  <1>2. TypeOK /\ Counters /\ Right /\ [DaysNext]_<<vars, exposed>> => Right'
    <2> SUFFICES ASSUME TypeOK, Counters, Right, [DaysNext]_<<vars, exposed>>
                 PROVE  \A p \in Participants : exposed'[p] <=> IsExposed(world', p)
      OBVIOUS
    <2>1. CASE DaysNext
      <3>1. ExposedInv
        BY DEF ExposedInv
      <3> HIDE DEF Right, Counters
      <3> QED BY <2>1, <3>1, StepKeepsExposed
    <2>2. CASE UNCHANGED <<vars, exposed>>
      BY <2>2 DEF vars
    <2> QED BY <2>1, <2>2
  <1>3. Right => ActiveMeansExposed
    BY DEF ActiveMeansExposed, Joined, DayEntry, IsExposed, HoldsAny
  <1> QED BY <1>1, <1>2, <1>3, DaysRefine, TalliedInvariant, PTL DEF DaysSpec

-----------------------------------------------------------------------------
(***************************************************************************)
(* What a day starts from.                                                 *)
(***************************************************************************)
EntriesIn(w, p) == {d \in Days : IsClosed(w, d) /\ w.closed[d][p] # None}

(* What the last of some days closed on, or the start.                     *)
BaseAfter(w, p, days) ==
  IF days = {} THEN w.participants[p].starting_cash
  ELSE w.closed[LatestOf(p, days)][p].closing_value

Prior(w, p) ==
  IF w.last_close[p] = None THEN w.participants[p].starting_cash ELSE w.last_close[p]

Chained(w, p) ==
  IF w.participants[p] = None THEN EntriesIn(w, p) = {} /\ w.last_close[p] = None
  ELSE /\ Prior(w, p) = BaseAfter(w, p, EntriesIn(w, p))
       /\ \A d \in EntriesIn(w, p) :
            w.closed[d][p].prior_closing_value
              = BaseAfter(w, p, {c \in EntriesIn(w, p) : c < d})

LEMMA LatestIs ==
  ASSUME NEW p, NEW days \in SUBSET Days, NEW d \in days, \A c \in days : c <= d
  PROVE  LatestOf(p, days) = d
  <1>1. days \subseteq Int
    BY KeysAssumption DEF Days
  <1>2. \A e \in days : (\A c \in days : c <= e) => e = d
    BY <1>1
  <1> QED BY <1>2 DEF LatestOf

LEMMA LatestIsOneOf ==
  ASSUME NEW p, NEW days \in SUBSET Days, days # {}
  PROVE  LatestOf(p, days) \in days /\ \A c \in days : c <= LatestOf(p, days)
  <1> DEFINE back == {MaxDay - c : c \in days}
  <1>1. MaxDay \in Nat /\ days \subseteq 1..MaxDay
    BY KeysAssumption DEF Days
  <1>2. back \in SUBSET Nat /\ back # {}
    <2>1. \A c \in days : MaxDay - c \in Nat
      BY <1>1
    <2>2. \E c : c \in days
      OBVIOUS
    <2> QED BY <2>1, <2>2
  <1>3. PICK m \in back : \A n \in back : m <= n
    <2> HIDE DEF back
    <2> QED BY <1>2, Least
  <1>4. PICK d \in days : m = MaxDay - d
    BY <1>3
  <1>5. \A c \in days : MaxDay - d <= MaxDay - c
    BY <1>3, <1>4
  <1>6. \A c \in days : c <= d
    BY <1>1, <1>5
  <1> QED BY <1>6 DEF LatestOf

(* Entries that stay leave every base they give.                           *)
LEMMA SameBase ==
  ASSUME NEW w, NEW u, NEW p \in Participants, NEW days \in SUBSET Days,
         u.participants[p].starting_cash = w.participants[p].starting_cash,
         \A d \in days : u.closed[d] = w.closed[d]
  PROVE  BaseAfter(u, p, days) = BaseAfter(w, p, days)
  <1>1. CASE days = {}
    BY <1>1 DEF BaseAfter
  <1>2. CASE days # {}
    BY <1>2, LatestIsOneOf DEF BaseAfter
  <1> QED BY <1>1, <1>2

LEMMA SameChain ==
  ASSUME NEW w \in World, NEW u, NEW p \in Participants, Chained(w, p),
         u.closed = w.closed, u.last_close[p] = w.last_close[p],
         w.participants[p] = None <=> u.participants[p] = None,
         w.participants[p] # None =>
           u.participants[p].starting_cash = w.participants[p].starting_cash
  PROVE  Chained(u, p)
  <1>1. EntriesIn(u, p) = EntriesIn(w, p) /\ EntriesIn(w, p) \in SUBSET Days
    BY DEF EntriesIn, IsClosed
  <1>2. CASE w.participants[p] = None
    BY <1>1, <1>2 DEF Chained
  <1>3. CASE w.participants[p] # None
    <2>1. \A days \in SUBSET Days : BaseAfter(u, p, days) = BaseAfter(w, p, days)
      BY <1>3, SameBase
    <2>2. Prior(u, p) = Prior(w, p)
      BY <1>3 DEF Prior
    <2>3. \A d : {c \in EntriesIn(w, p) : c < d} \in SUBSET Days
      BY <1>1
    <2> QED BY <1>1, <1>3, <2>1, <2>2, <2>3 DEF Chained
  <1> QED BY <1>2, <1>3

LEMMA CloseKeepsChain ==
  ASSUME NEW w \in World, NEW u, NEW d \in Days, ClosesOn(w, u, d),
         NEW p \in Participants, Chained(w, p)
  PROVE  Chained(u, p)
  <1> DEFINE E == EntriesIn(w, p)
             F == EntriesIn(u, p)
  <1>0. /\ \A c \in Days : IsClosed(w, c) => c < d
        /\ u.participants = w.participants
        /\ u.closed[d] = Publication(w) /\ IsClosed(u, d)
        /\ \A c \in Days \ {d} : u.closed[c] = w.closed[c]
        /\ Publication(w)[p] = IF w.participants[p] # None THEN DayEntry(w, p) ELSE None
    BY DEF ClosesOn, CanClose, IsClosed, Publication
  <1>1. Days \subseteq Int /\ E \in SUBSET Days /\ F \in SUBSET Days /\ d \notin E
        /\ \A c \in E : c < d
    <2>1. Days \subseteq Int
      BY KeysAssumption DEF Days
    <2> QED BY <1>0, <2>1 DEF EntriesIn
  <1>2. \A c \in E : u.closed[c] = w.closed[c]
    BY <1>0, <1>1
  <1>3. CASE w.participants[p] = None
    <2>1. F = E
      BY <1>0, <1>1, <1>3 DEF EntriesIn, IsClosed
    <2>2. u.last_close[p] = w.last_close[p]
      BY <1>3 DEF ClosesOn
    <2> QED BY <1>0, <1>3, <2>1, <2>2 DEF Chained
  <1>4. CASE w.participants[p] # None
    <2>1. /\ DayEntry(w, p) \in DayInput /\ DayEntry(w, p) # None
          /\ u.last_close[p] = DayEntry(w, p).closing_value
          /\ u.closed[d][p] = DayEntry(w, p)
      BY <1>0, <1>4 DEF ClosesOn
    <2>2. F = E \cup {d}
      BY <1>0, <1>1, <2>1 DEF EntriesIn, IsClosed
    <2>3. u.last_close[p] # None
      BY <2>1, NoneAssumption DEF DayInput
    <2>4. /\ Prior(w, p) = BaseAfter(w, p, E)
          /\ \A c \in E : w.closed[c][p].prior_closing_value
                             = BaseAfter(w, p, {a \in E : a < c})
      BY <1>4 DEF Chained
    <2>5. \A days \in SUBSET E : BaseAfter(u, p, days) = BaseAfter(w, p, days)
      BY <1>0, <1>1, <1>2, SameBase
    <2> HIDE DEF E, F
    <2>6. LatestOf(p, F) = d
      <3>1. \A c \in F : c <= d
        BY <1>1, <2>2
      <3> QED BY <1>1, <2>2, <3>1, LatestIs
    <2>7. Prior(u, p) = BaseAfter(u, p, F)
      BY <2>1, <2>2, <2>3, <2>6 DEF Prior, BaseAfter
    <2>8. ASSUME NEW c \in F
          PROVE  u.closed[c][p].prior_closing_value = BaseAfter(u, p, {a \in F : a < c})
      <3>1. CASE c = d
        <4>1. {a \in F : a < c} = E
          <5>1. ~ (d < d) /\ \A a \in E : a < d
            BY <1>1
          <5> QED BY <2>2, <3>1, <5>1
        <4>2. BaseAfter(u, p, E) = Prior(w, p)
          BY <2>4, <2>5
        <4>3. u.closed[d][p].prior_closing_value = Prior(w, p)
          BY <2>1 DEF DayEntry, Prior
        <4> QED BY <3>1, <4>1, <4>2, <4>3
      <3>2. CASE c # d
        <4>1. c \in E
          BY <2>2, <3>2
        <4>2. {a \in F : a < c} = {a \in E : a < c}
          BY <1>1, <2>2, <4>1
        <4>3. BaseAfter(u, p, {a \in E : a < c}) = BaseAfter(w, p, {a \in E : a < c})
          BY <2>5
        <4> QED BY <1>2, <2>4, <4>1, <4>2, <4>3
      <3> QED BY <3>1, <3>2
    <2> QED BY <1>0, <1>4, <2>7, <2>8 DEF Chained, F
  <1> QED BY <1>3, <1>4

LEMMA OpeningKeepsChain ==
  ASSUME NEW w \in World, NEW u, Opens(w, u), NEW p \in Participants, Chained(w, p)
  PROVE  Chained(u, p)
  <1>1. PICK q \in Participants, cash \in Nat \ {0} :
          /\ w.participants[q] = None /\ u.participants[q] = Open(cash) /\ Open(cash) # None
          /\ \A r \in Participants \ {q} : u.participants[r] = w.participants[r]
          /\ SameDays(w, u)
    BY OpeningFacts
  <1>2. u.closed = w.closed /\ u.last_close = w.last_close
    BY <1>1 DEF SameDays
  <1>3. CASE p = q
    <2>1. EntriesIn(u, p) = {} /\ u.last_close[p] = None /\ u.participants[p] # None
      BY <1>1, <1>2, <1>3 DEF Chained, EntriesIn, IsClosed
    <2> QED BY <2>1 DEF Chained, Prior, BaseAfter
  <1>4. CASE p # q
    BY <1>1, <1>2, <1>4, SameChain
  <1> QED BY <1>3, <1>4

LEMMA FillsKeepChain ==
  ASSUME NEW w \in World, NEW b, NEW u, NEW e \in FilledEvent, FillsIn(w, b, u, e),
         NEW p \in Participants, Chained(w, p)
  PROVE  Chained(u, p)
  <1>1. /\ u.closed = w.closed /\ u.last_close = w.last_close
        /\ w.participants[p] = None <=> u.participants[p] = None
    BY DEF FillsIn, Counts
  <1>2. ASSUME w.participants[p] # None
        PROVE  u.participants[p].starting_cash = w.participants[p].starting_cash
    <2>1. w.participants[p] \in Book
      BY <1>2, WorldFields
    <2>2. \A k \in Book : \A f : BookFill(k, f).starting_cash = k.starting_cash
      BY DEF BookFill, Buy, Sell, Book
    <2> QED BY <2>1, <2>2 DEF FillsIn
  <1> QED BY <1>1, <1>2, SameChain

LEMMA EffectKeepsChain ==
  ASSUME NEW w \in World, NEW b \in Broker, NEW u, Effect(w, b, u),
         NEW p \in Participants, Chained(w, p)
  PROVE  Chained(u, p)
  <1>1. CASE Opens(w, u)
    BY <1>1, OpeningKeepsChain
  <1>2. CASE Closes(w, u)
    BY <1>2, ClosingFacts, CloseKeepsChain
  <1>3. CASE Uneventful(w, u)
    BY <1>3, SameChain DEF Uneventful, SameDays
  <1>4. CASE Fills(w, b, u)
    BY <1>4, FillingFacts, FillsKeepChain
  <1> QED BY <1>1, <1>2, <1>3, <1>4, OtherEffects

ChainsHold == \A p \in Participants : Chained(world, p)

LEMMA ChainsInvariant == Spec => [](TypeOK /\ ChainsHold)
  <1>1. Init => ChainsHold
    BY DEF Init, EmptyWorld, ChainsHold, Chained, EntriesIn, IsClosed
  <1>2. TypeOK /\ ChainsHold /\ [Next]_vars => ChainsHold'
    <2> SUFFICES ASSUME TypeOK, ChainsHold, [Next]_vars PROVE ChainsHold'
      OBVIOUS
    <2>1. CASE Next
      BY <2>1, EveryStepHasAnEffect, EffectKeepsChain DEF TypeOK, ChainsHold
    <2>2. CASE UNCHANGED vars
      BY <2>2 DEF vars, ChainsHold
    <2> QED BY <2>1, <2>2
  <1> QED BY <1>1, <1>2, TypeSafety, PTL DEF Spec

(* Every published day, and the one that is running, starts from the value *)
(* the participant closed their last day on, or from their starting cash,  *)
(* whatever days were skipped and whoever joined between them              *)
(* (Engine::day_entries, Engine::apply of DayClosed).                      *)
THEOREM DaysAlwaysChain == Spec => []DaysChain
  <1>1. ChainsHold => DaysChain
    <2> SUFFICES ASSUME ChainsHold, NEW p \in Participants
                 PROVE  LET baseline(days) ==
                              IF days = {} THEN world.participants[p].starting_cash
                              ELSE world.closed[LatestOf(p, days)][p].closing_value
                        IN  /\ \A d \in EntriesOf(p) :
                                 world.closed[d][p].prior_closing_value
                                   = baseline({c \in EntriesOf(p) : c < d})
                            /\ Joined(p) => DayEntry(world, p).prior_closing_value
                                              = baseline(EntriesOf(p))
      BY DEF DaysChain
    <2>1. EntriesOf(p) = EntriesIn(world, p) /\ Chained(world, p)
      BY DEF EntriesOf, EntriesIn, ChainsHold
    <2>2. DayEntry(world, p).prior_closing_value = Prior(world, p)
      BY DEF DayEntry, Prior
    <2> QED BY <2>1, <2>2 DEF Chained, BaseAfter, Joined
  <1> QED BY <1>1, ChainsInvariant, PTL

-----------------------------------------------------------------------------
(***************************************************************************)
(* What the days' turnovers add up to.                                     *)
(***************************************************************************)
Turnovers(w, p) ==
  [d \in Days |-> IF d \in EntriesIn(w, p) THEN w.closed[d][p].turnover ELSE 0]

IsOn(o, p, side) == o # None /\ o.participant = p /\ o.side = side

Costs(w, p, side) ==
  [i \in Ids |-> IF IsOn(w.orders[i], p, side) THEN w.orders[i].state.cost ELSE 0]

Accounted(w, p) ==
  Sum(Turnovers(w, p), MaxDay) + w.day_turnover[p]
    = Sum(Costs(w, p, "Buy"), MaxOrders) + Sum(Costs(w, p, "Sell"), MaxOrders)

LEMMA AccountsTyped ==
  ASSUME NEW w \in World, NEW p \in Participants
  PROVE  /\ Turnovers(w, p) \in [1..MaxDay -> Int] /\ Sum(Turnovers(w, p), MaxDay) \in Int
         /\ \A side : /\ Costs(w, p, side) \in [1..MaxOrders -> Int]
                      /\ Sum(Costs(w, p, side), MaxOrders) \in Int
  <1>1. MaxDay \in Nat /\ MaxOrders \in Nat /\ Days = 1..MaxDay /\ Ids = 1..MaxOrders
    BY KeysAssumption DEF Days, Ids
  <1>2. ASSUME NEW d \in EntriesIn(w, p) PROVE w.closed[d][p].turnover \in Int
    <2>1. d \in Days /\ w.closed[d] # None /\ w.closed[d][p] # None
      BY DEF EntriesIn, IsClosed
    <2>2. w.closed[d] \in [Participants -> DayInput \cup {None}]
      BY <2>1, WorldFields
    <2>3. w.closed[d][p] \in DayInput
      BY <2>1, <2>2
    <2> QED BY <2>3 DEF DayInput
  <1>3. Turnovers(w, p) \in [1..MaxDay -> Int]
    BY <1>1, <1>2 DEF Turnovers
  <1>4. ASSUME NEW i \in Ids, w.orders[i] # None PROVE w.orders[i].state.cost \in Int
    <2>1. w.orders[i] \in Order
      BY <1>4, WorldFields
    <2> QED BY <2>1 DEF Order, OrderState
  <1>5. ASSUME NEW side PROVE Costs(w, p, side) \in [1..MaxOrders -> Int]
    BY <1>1, <1>4 DEF Costs, IsOn
  <1> QED BY <1>1, <1>3, <1>5, SumTyped

LEMMA RestKeepsAccounts ==
  ASSUME NEW w \in World, NEW u, NEW p \in Participants, Accounted(w, p),
         SameDays(w, u), \A k \in Ids : Rested(w, u, k)
  PROVE  Accounted(u, p)
  <1>1. Turnovers(u, p) = Turnovers(w, p) /\ u.day_turnover[p] = w.day_turnover[p]
    BY DEF SameDays, Turnovers, EntriesIn, IsClosed
  <1>2. ASSUME NEW side PROVE Costs(u, p, side) = Costs(w, p, side)
    <2> SUFFICES ASSUME NEW k \in Ids PROVE Costs(u, p, side)[k] = Costs(w, p, side)[k]
      BY DEF Costs
    <2>1. CASE w.orders[k] = None
      <3>1. u.orders[k] = None \/ u.orders[k].state.cost = 0
        BY <2>1 DEF Rested, Born, Gone
      <3> QED BY <2>1, <3>1 DEF Costs, IsOn
    <2>2. CASE w.orders[k] # None
      <3>1. /\ u.orders[k] = InState(w.orders[k], u.orders[k].state)
            /\ u.orders[k].state.cost = w.orders[k].state.cost
        BY <2>2, RestingIsNoTrade
      <3>2. w.orders[k] \in Order
        BY <2>2, WorldFields
      <3>3. /\ u.orders[k].participant = w.orders[k].participant
            /\ u.orders[k].side = w.orders[k].side
        BY <3>1, <3>2 DEF InState, Order
      <3>4. u.orders[k] # None
        <4>1. u.orders[k] = w.orders[k] \/ Gone(w, u, k)
          BY <2>2 DEF Rested, Born
        <4>2. Gone(w, u, k) => u.orders[k] \in Order
          <5>1. Cancel(w.orders[k].state) \in OrderState
            BY <3>2, TransitionsTyped DEF Order
          <5> QED BY <3>2, <5>1 DEF Gone, InState, Order
        <4> QED BY <2>2, <4>1, <4>2, NoneAssumption
      <3> QED BY <2>2, <3>1, <3>3, <3>4 DEF Costs, IsOn
    <2> QED BY <2>1, <2>2
  <1> QED BY <1>1, <1>2 DEF Accounted

(* A close publishes what the counter says and starts it again.            *)
LEMMA CloseKeepsAccounts ==
  ASSUME NEW w \in World, NEW u \in World, NEW d \in Days, ClosesOn(w, u, d),
         NEW p \in Participants, Tallied(w, p), Accounted(w, p)
  PROVE  Accounted(u, p)
  <1> DEFINE f == Turnovers(w, p)
             g == Turnovers(u, p)
  <1>1. /\ \A c \in Days : IsClosed(w, c) => c < d
        /\ IsClosed(u, d) /\ u.closed[d] = Publication(w)
        /\ \A c \in Days \ {d} : u.closed[c] = w.closed[c]
        /\ u.orders = w.orders /\ u.day_turnover[p] = 0
    BY DEF ClosesOn, CanClose, IsClosed
  <1>2. MaxDay \in Nat /\ Days = 1..MaxDay /\ Days \subseteq Int
    BY KeysAssumption DEF Days
  <1>3. d \notin EntriesIn(w, p)
    BY <1>1, <1>2 DEF EntriesIn
  <1>4. f[d] = 0
    BY <1>3 DEF Turnovers
  <1>5. g[d] = w.day_turnover[p]
    <2>1. CASE w.participants[p] = None
      <3>1. d \notin EntriesIn(u, p)
        BY <1>1, <2>1 DEF EntriesIn, Publication
      <3>2. w.day_turnover[p] = 0
        BY <2>1 DEF Tallied
      <3> QED BY <3>1, <3>2 DEF Turnovers
    <2>2. CASE w.participants[p] # None
      <3>1. u.closed[d][p] = DayEntry(w, p) /\ DayEntry(w, p) # None
        BY <1>1, <2>2 DEF Publication, ClosesOn
      <3>2. d \in EntriesIn(u, p)
        BY <1>1, <3>1 DEF EntriesIn
      <3> QED BY <3>1, <3>2 DEF Turnovers, DayEntry
    <2> QED BY <2>1, <2>2
  <1>6. \A c \in Days : c # d => g[c] = f[c]
    BY <1>1 DEF Turnovers, EntriesIn, IsClosed
  <1>7. f \in [1..MaxDay -> Int] /\ g \in [1..MaxDay -> Int] /\ Sum(f, MaxDay) \in Int
    BY AccountsTyped
  <1>8. \A side : Costs(u, p, side) = Costs(w, p, side)
    BY <1>1 DEF Costs
  <1>9. w.day_turnover[p] \in Int
    BY WorldFields
  <1> HIDE DEF f, g
  <1>10. Sum(g, MaxDay) = Sum(f, MaxDay) + g[d] - f[d]
    BY <1>2, <1>6, <1>7, SumOfOneChanged
  <1>11. Sum(g, MaxDay) + u.day_turnover[p] = Sum(f, MaxDay) + w.day_turnover[p]
    BY <1>1, <1>4, <1>5, <1>7, <1>9, <1>10
  <1> QED BY <1>8, <1>11 DEF Accounted, f, g

LEMMA FillKeepsAccounts ==
  ASSUME NEW w \in World, NEW u \in World, NEW b, NEW e \in FilledEvent, FillsIn(w, b, u, e),
         Fits(Traded(w, e)), NEW p \in Participants, Accounted(w, p)
  PROVE  Accounted(u, p)
  <1> DEFINE o == w.orders[e.id]
             m == Notional(e.px, e.qty)
             t == Trader(w, e.id)
  <1>1. /\ e.id \in Ids /\ o # None /\ o.side \in Sides /\ m \in Nat
        /\ o.participant = t /\ u.orders[e.id] # None
        /\ u.orders[e.id].participant = o.participant /\ u.orders[e.id].side = o.side
        /\ u.orders[e.id].state.cost = o.state.cost + m /\ o.state.cost \in Int
    <2>1. e.id \in Ids /\ o # None /\ o.side \in Sides /\ m \in Nat /\ o.participant = t
      BY DEF FillsIn, Trader
    <2>2. o \in Order
      BY <2>1, WorldFields
    <2>3. o.state.cost \in Int
      BY <2>2 DEF Order, OrderState
    <2>4. /\ u.orders[e.id] = InState(o, u.orders[e.id].state)
          /\ u.orders[e.id].state.cost = o.state.cost + m
      BY DEF FillsIn
    <2>5. u.orders[e.id].participant = o.participant /\ u.orders[e.id].side = o.side
      BY <2>2, <2>4 DEF InState, Order
    <2> QED BY <2>1, <2>3, <2>4, <2>5 DEF FillsIn
  <1>2. /\ u.closed = w.closed
        /\ u.day_turnover[p] = w.day_turnover[p] + (IF p = t THEN m ELSE 0)
        /\ \A k \in Ids \ {e.id} : u.orders[k] = w.orders[k]
    <2>1. w.day_turnover[p] \in Int
      BY WorldFields
    <2> QED BY <1>1, <2>1 DEF FillsIn, Counts, Traded
  <1>3. Turnovers(u, p) = Turnovers(w, p)
    BY <1>2 DEF Turnovers, EntriesIn, IsClosed
  <1>4. ASSUME NEW side
        PROVE  Sum(Costs(u, p, side), MaxOrders)
                 = Sum(Costs(w, p, side), MaxOrders) + (IF p = t /\ side = o.side THEN m ELSE 0)
    <2> DEFINE f == Costs(w, p, side)
               g == Costs(u, p, side)
    <2>1. f \in [1..MaxOrders -> Int] /\ g \in [1..MaxOrders -> Int] /\ Sum(f, MaxOrders) \in Int
      BY AccountsTyped
    <2>2. g[e.id] = f[e.id] + (IF p = t /\ side = o.side THEN m ELSE 0)
      BY <1>1 DEF Costs, IsOn
    <2>3. \A k \in Ids : k # e.id => g[k] = f[k]
      BY <1>2 DEF Costs
    <2>4. MaxOrders \in Nat /\ Ids = 1..MaxOrders
      BY KeysAssumption DEF Ids
    <2>5. f[e.id] \in Int /\ g[e.id] \in Int
      BY <1>1, <2>1, <2>4
    <2> HIDE DEF f, g, m
    <2>6. Sum(g, MaxOrders) = Sum(f, MaxOrders) + g[e.id] - f[e.id]
      BY <1>1, <2>1, <2>3, <2>4, SumOfOneChanged
    <2>7. Sum(g, MaxOrders) = Sum(f, MaxOrders) + (IF p = t /\ side = o.side THEN m ELSE 0)
      BY <1>1, <2>1, <2>2, <2>5, <2>6
    <2> QED BY <2>7 DEF f, g
  <1>5. /\ Sum(Turnovers(w, p), MaxDay) \in Int /\ w.day_turnover[p] \in Int
        /\ Sum(Costs(w, p, "Buy"), MaxOrders) \in Int /\ Sum(Costs(w, p, "Sell"), MaxOrders) \in Int
    BY AccountsTyped, WorldFields
  <1>6. /\ Sum(Costs(u, p, "Buy"), MaxOrders)
             = Sum(Costs(w, p, "Buy"), MaxOrders) + (IF p = t /\ "Buy" = o.side THEN m ELSE 0)
        /\ Sum(Costs(u, p, "Sell"), MaxOrders)
             = Sum(Costs(w, p, "Sell"), MaxOrders) + (IF p = t /\ "Sell" = o.side THEN m ELSE 0)
    BY <1>4
  <1>7. o.side = "Buy" \/ o.side = "Sell"
    BY <1>1 DEF Sides
  <1> HIDE DEF m, o, t
  <1> QED BY <1>1, <1>2, <1>3, <1>5, <1>6, <1>7 DEF Accounted

AccountsHold == \A p \in Participants : Accounted(world, p)

LEMMA StepKeepsAccounts ==
  ASSUME TypeOK, \A p \in Participants : Tallied(world, p), AccountsHold,
         TurnoverHasRoom, Next, TypeOK', NEW p \in Participants
  PROVE  Accounted(world', p)
  <1>0. world \in World /\ broker \in Broker /\ world' \in World
    BY DEF TypeOK
  <1>1. Effect(world, broker, world') /\ Accounted(world, p) /\ Tallied(world, p)
    BY EveryStepHasAnEffect DEF AccountsHold
  <1>2. CASE Closes(world, world')
    BY <1>0, <1>1, <1>2, ClosingFacts, CloseKeepsAccounts
  <1>3. CASE Fills(world, broker, world')
    <2>1. PICK e \in FilledEvent : FillsIn(world, broker, world', e)
      BY <1>0, <1>3, FillingFacts
    <2>2. Fits(Traded(world, e))
      BY <1>0, <2>1, BookableHasRoom DEF FillsIn
    <2> QED BY <1>0, <1>1, <2>1, <2>2, FillKeepsAccounts
  <1>4. CASE ~ Fills(world, broker, world') /\ ~ Closes(world, world')
    <2>1. \A k \in Ids : Rested(world, world', k)
      BY <1>0, <1>1, <1>4, OtherEffectsRest
    <2>2. SameDays(world, world')
      <3>1. Opens(world, world') => SameDays(world, world')
        BY <1>0, OpeningFacts
      <3> QED BY <1>0, <1>1, <1>4, <3>1, OtherEffects DEF Uneventful
    <2> QED BY <1>0, <1>1, <2>1, <2>2, RestKeepsAccounts
  <1> QED BY <1>2, <1>3, <1>4

(* While the day's turnover has room for what may be filled, the turnover  *)
(* of all published days and of the running one is exactly what the        *)
(* participant's orders executed: a close neither drops nor repeats a fill *)
(* (Engine::apply).  And the days chain.                                   *)
THEOREM DaysAlwaysAddUp == Spec /\ []TurnoverHasRoom => []DaysAddUp
  <1> DEFINE Counters == \A p \in Participants : Tallied(world, p)
  <1>1. Init => AccountsHold
    <2> SUFFICES ASSUME Init, NEW p \in Participants PROVE Accounted(world, p)
      BY DEF AccountsHold
    <2>1. world = EmptyWorld
      BY DEF Init
    <2>2. /\ \A d \in Days : Turnovers(world, p)[d] = 0
          /\ \A side : \A i \in Ids : Costs(world, p, side)[i] = 0
          /\ world.day_turnover[p] = 0
      BY <2>1 DEF EmptyWorld, Turnovers, EntriesIn, IsClosed, Costs, IsOn
    <2>3. MaxDay \in Nat /\ MaxOrders \in Nat /\ Days = 1..MaxDay /\ Ids = 1..MaxOrders
      BY KeysAssumption DEF Days, Ids
    <2>4. world \in World
      BY <2>1, EmptyWorldTyped
    <2>5. Sum(Turnovers(world, p), MaxDay) = 0
      BY <2>2, <2>3, <2>4, AccountsTyped, SumOfZeros
    <2>6. ASSUME NEW side PROVE Sum(Costs(world, p, side), MaxOrders) = 0
      <3>1. Costs(world, p, side) \in [1..MaxOrders -> Int]
        BY <2>4, AccountsTyped
      <3> QED BY <2>2, <2>3, <3>1, SumOfZeros
    <2> QED BY <2>2, <2>5, <2>6 DEF Accounted
  <1>2. TypeOK /\ Counters /\ AccountsHold /\ TurnoverHasRoom /\ [Next]_vars /\ TypeOK'
          => AccountsHold'
    <2> SUFFICES ASSUME TypeOK, Counters, AccountsHold, TurnoverHasRoom, [Next]_vars, TypeOK'
                 PROVE  \A p \in Participants : Accounted(world', p)
      BY DEF AccountsHold
    <2>1. CASE Next
      BY <2>1, StepKeepsAccounts
    <2>2. CASE UNCHANGED vars
      BY <2>2 DEF vars, AccountsHold
    <2> QED BY <2>1, <2>2
  <1>3. AccountsHold => TurnoverIsAccountedFor
    <2> SUFFICES ASSUME AccountsHold, NEW p \in Participants
                 PROVE  LET cost(i) == world.orders[i].state.cost
                            published(d) == IF d \in EntriesOf(p)
                                            THEN world.closed[d][p].turnover ELSE 0
                        IN  Sum([d \in Days |-> published(d)], MaxDay) + world.day_turnover[p]
                              = Executed(p, "Buy", cost) + Executed(p, "Sell", cost)
      BY DEF TurnoverIsAccountedFor
    <2>1. Sum(Turnovers(world, p), MaxDay) + world.day_turnover[p]
            = Sum(Costs(world, p, "Buy"), MaxOrders) + Sum(Costs(world, p, "Sell"), MaxOrders)
      BY DEF AccountsHold, Accounted
    <2>2. Turnovers(world, p) = [d \in Days |-> IF d \in EntriesOf(p)
                                                THEN world.closed[d][p].turnover ELSE 0]
      BY DEF Turnovers, EntriesOf, EntriesIn
    <2>3. ASSUME NEW side
          PROVE  [i \in Ids |-> IF i \in OrdersOf(p) /\ world.orders[i].side = side
                                THEN world.orders[i].state.cost ELSE 0]
                   = Costs(world, p, side)
      <3>1. \A i \in Ids : i \in OrdersOf(p) /\ world.orders[i].side = side
                             <=> IsOn(world.orders[i], p, side)
        BY DEF OrdersOf, Known, IsOn
      <3> QED BY <3>1 DEF Costs
    <2> QED BY <2>1, <2>2, <2>3, Zenon DEF Executed
  <1>4. DaysChain /\ TurnoverIsAccountedFor => DaysAddUp
    BY DEF DaysAddUp
  <1> QED BY <1>1, <1>2, <1>3, <1>4, TypeSafety, TalliedInvariant, DaysAlwaysChain, PTL DEF Spec

-----------------------------------------------------------------------------
(***************************************************************************)
(* What a day ends on.                                                     *)
(***************************************************************************)
Value(b, marks) ==
  [s \in Symbols |-> IF Holds(b, s) /\ marks[s] # None
                     THEN Notional(marks[s], b.positions[s].qty) ELSE 0]

Gain(b, marks) ==
  [s \in Symbols |-> IF Holds(b, s)
                     THEN Notional(marks[s], b.positions[s].qty) - b.positions[s].cost ELSE 0]

Marked(b, marks) == \A s \in Symbols : Holds(b, s) => marks[s] # None

LEMMA ValueTyped ==
  ASSUME NEW w \in World, NEW b \in Book
  PROVE  /\ Value(b, w.marks) \in [1..NumSymbols -> Nat]
         /\ Basis(b) \in [1..NumSymbols -> Int]
         /\ b.cash \in Int /\ b.starting_cash \in Int /\ b.realized_pnl \in Int
         /\ NumSymbols \in Nat /\ Symbols = 1..NumSymbols
         /\ TotalValue(b, w.marks) = b.cash + Sum(Value(b, w.marks), NumSymbols)
  <1>1. /\ b.cash \in Int /\ b.starting_cash \in Int /\ b.realized_pnl \in Int
        /\ b.positions \in [Symbols -> Position]
    BY DEF Book
  <1>2. NumSymbols \in Nat /\ Symbols = 1..NumSymbols
    BY NumSymbolsAssumption DEF Symbols
  <1>3. ASSUME NEW s \in Symbols
        PROVE  b.positions[s].qty \in Nat /\ b.positions[s].cost \in Int
    BY <1>1 DEF Position
  <1>4. ASSUME NEW s \in Symbols, w.marks[s] # None
        PROVE  Notional(w.marks[s], b.positions[s].qty) \in Nat
    <2>1. w.marks[s] \in Pxs
      BY <1>4, WorldFields
    <2> QED BY <1>3, <2>1, NotionalNat
  <1>5. Value(b, w.marks) \in [1..NumSymbols -> Nat]
    BY <1>2, <1>4 DEF Value
  <1>6. Basis(b) \in [1..NumSymbols -> Int]
    BY <1>2, <1>3 DEF Basis
  <1> QED BY <1>1, <1>2, <1>5, <1>6 DEF TotalValue, Value

LEMMA ValueIsEquity ==
  ASSUME NEW w \in World, NEW b \in Book, Sound(b), Marked(b, w.marks)
  PROVE  TotalValue(b, w.marks) = b.starting_cash + b.realized_pnl
                                    + Sum(Gain(b, w.marks), NumSymbols)
  <1> DEFINE v == Value(b, w.marks)
             c == Basis(b)
             g == Gain(b, w.marks)
  <1>1. /\ v \in [1..NumSymbols -> Nat] /\ v \in [1..NumSymbols -> Int]
        /\ c \in [1..NumSymbols -> Int]
        /\ b.cash \in Int /\ b.starting_cash \in Int /\ b.realized_pnl \in Int
        /\ NumSymbols \in Nat /\ Symbols = 1..NumSymbols
        /\ TotalValue(b, w.marks) = b.cash + Sum(v, NumSymbols)
    <2>1. v \in [1..NumSymbols -> Nat] => v \in [1..NumSymbols -> Int]
      <3> HIDE DEF v
      <3> QED OBVIOUS
    <2> QED BY <2>1, ValueTyped
  <1>2. ASSUME NEW s \in Symbols PROVE g[s] = v[s] - c[s]
    <2>1. v[s] \in Int /\ c[s] \in Int
      BY <1>1
    <2>2. CASE Holds(b, s)
      BY <2>2 DEF Marked, Value, Gain, Basis
    <2>3. CASE ~ Holds(b, s)
      <3>1. v[s] = 0 /\ g[s] = 0 /\ c[s] = b.positions[s].cost
        BY <2>3 DEF Value, Gain, Basis
      <3>2. b.positions[s].cost = 0
        BY <2>3 DEF Sound, Solvent, Holds
      <3> QED BY <3>1, <3>2
    <2> QED BY <2>2, <2>3
  <1>3. g = [s \in Symbols |-> g[s]]
    BY DEF Gain
  <1>4. b.cash + Sum(c, NumSymbols) = b.starting_cash + b.realized_pnl
    BY DEF Sound, Balanced
  <1> HIDE DEF v, c, g
  <1>5. g \in [1..NumSymbols -> Int]
    <2>1. \A s \in 1..NumSymbols : g[s] \in Int
      <3>1. \A s \in 1..NumSymbols : v[s] \in Int /\ c[s] \in Int
        BY <1>1
      <3> QED BY <1>1, <1>2, <3>1
    <2> QED BY <1>1, <1>3, <2>1
  <1>6. Sum(g, NumSymbols) = Sum(v, NumSymbols) - Sum(c, NumSymbols)
    BY <1>1, <1>2, <1>5, SumOfDifferences
  <1>7. Sum(v, NumSymbols) \in Int /\ Sum(c, NumSymbols) \in Int
    BY <1>1, SumTyped
  <1>8. TotalValue(b, w.marks) = b.starting_cash + b.realized_pnl + Sum(g, NumSymbols)
    BY <1>1, <1>4, <1>6, <1>7
  <1> QED BY <1>8 DEF g

(* A published closing value is the starting cash plus realized and        *)
(* unrealized P&L, with a mark for everything held, and it comes after all *)
(* that was published: two ways the code has of valuing a book agree at    *)
(* every close (Engine::decide of CloseDay, Portfolio::total_value).       *)
THEOREM ClosesAlwaysPublishEquity == Spec => ClosesPublishEquity
  <1> DEFINE Published ==
        \A d \in Days : ~ IsClosed(world, d) /\ IsClosed(world', d) =>
          /\ \A c \in Days : IsClosed(world, c) => c < d
          /\ \A p \in Participants : Joined(p) =>
               LET b == world.participants[p]
                   gain(s) == IF Holds(b, s)
                              THEN Notional(world.marks[s], b.positions[s].qty)
                                     - b.positions[s].cost
                              ELSE 0
               IN  /\ \A s \in Symbols : Holds(b, s) => world.marks[s] # None
                   /\ world'.closed[d][p].closing_value
                        = b.starting_cash + b.realized_pnl
                            + Sum([s \in Symbols |-> gain(s)], NumSymbols)
  <1>1. BookInv /\ [Next]_vars => [Published]_vars
    <2> SUFFICES ASSUME BookInv, Next PROVE Published
      OBVIOUS
    <2>0. world \in World /\ broker \in Broker /\ TypeOK /\ Effect(world, broker, world')
      BY EveryStepHasAnEffect DEF BookInv, TypeOK
    <2>1. CASE ~ Closes(world, world')
      BY <2>0, <2>1, WhenADayCloses DEF DayClosedInStep
    <2>2. CASE Closes(world, world')
      <3>1. PICK o \in Days : ClosesOn(world, world', o)
        BY <2>0, <2>2, ClosingFacts
      <3> SUFFICES ASSUME NEW d \in Days, ~ IsClosed(world, d), IsClosed(world', d),
                          NEW p \in Participants, Joined(p)
                   PROVE  /\ \A c \in Days : IsClosed(world, c) => c < d
                          /\ Marked(world.participants[p], world.marks)
                          /\ world'.closed[d][p].closing_value
                               = world.participants[p].starting_cash
                                   + world.participants[p].realized_pnl
                                   + Sum(Gain(world.participants[p], world.marks), NumSymbols)
        BY <3>1 DEF Marked, Gain, ClosesOn, CanClose, IsClosed
      <3>2. d = o
        BY <3>1 DEF ClosesOn, IsClosed
      <3>3. Marked(world.participants[p], world.marks)
        BY <3>1 DEF ClosesOn, CanClose, HasValue, Marked, Joined
      <3>4. world'.closed[d][p].closing_value = TotalValue(world.participants[p], world.marks)
        BY <3>1, <3>2 DEF ClosesOn, Publication, DayEntry, Joined
      <3>5. world.participants[p] \in Book /\ Sound(world.participants[p])
        BY <2>0, WorldFields DEF BookInv, BooksSound, Joined
      <3> QED BY <2>0, <3>1, <3>2, <3>3, <3>4, <3>5, ValueIsEquity DEF ClosesOn, CanClose
    <2> QED BY <2>1, <2>2
  <1>2. [][Published]_vars => ClosesPublishEquity
    BY PTL DEF ClosesPublishEquity
  <1> QED BY <1>1, <1>2, BookInvariant, PTL DEF Spec

-----------------------------------------------------------------------------
(***************************************************************************)
(* The season.                                                             *)
(***************************************************************************)
LEMMA NothingHeld ==
  ASSUME NEW w \in World, NEW b \in Book, \A s \in Symbols : ~ Holds(b, s)
  PROVE  TotalValue(b, w.marks) = b.cash
  <1> DEFINE v == Value(b, w.marks)
  <1>1. \A s \in Symbols : v[s] = 0
    BY DEF Value
  <1>2. /\ v \in [1..NumSymbols -> Nat] /\ v \in [1..NumSymbols -> Int] /\ b.cash \in Int
        /\ NumSymbols \in Nat /\ Symbols = 1..NumSymbols
        /\ TotalValue(b, w.marks) = b.cash + Sum(v, NumSymbols)
    <2>1. v \in [1..NumSymbols -> Nat] => v \in [1..NumSymbols -> Int]
      <3> HIDE DEF v
      <3> QED OBVIOUS
    <2> QED BY <2>1, ValueTyped
  <1> HIDE DEF v
  <1>3. Sum(v, NumSymbols) = 0
    BY <1>1, <1>2, SumOfZeros
  <1> QED BY <1>2, <1>3

(* A value is never negative, and where it is nothing there is nothing.    *)
LEMMA ValueFacts ==
  ASSUME NEW w \in World, NEW b \in Book, Solvent(b), Marked(b, w.marks)
  PROVE  /\ TotalValue(b, w.marks) >= 0
         /\ TotalValue(b, w.marks) = 0 => b.cash = 0 /\ \A s \in Symbols : ~ Holds(b, s)
  <1> DEFINE v == Value(b, w.marks)
             total == Sum(v, NumSymbols)
  <1>1. /\ v \in [1..NumSymbols -> Nat] /\ v \in [1..NumSymbols -> Int] /\ b.cash \in Int
        /\ NumSymbols \in Nat /\ Symbols = 1..NumSymbols
        /\ TotalValue(b, w.marks) = b.cash + total
    <2>1. v \in [1..NumSymbols -> Nat] => v \in [1..NumSymbols -> Int]
      <3> HIDE DEF v
      <3> QED OBVIOUS
    <2> QED BY <2>1, ValueTyped
  <1>2. \A s \in Symbols : Holds(b, s) => v[s] > 0
    <2> SUFFICES ASSUME NEW s \in Symbols, Holds(b, s) PROVE v[s] > 0
      OBVIOUS
    <2>1. w.marks[s] \in Nat /\ w.marks[s] > 0
      BY WorldFields DEF Marked, Pxs
    <2>2. b.positions[s].qty \in Nat /\ b.positions[s].qty > 0
      BY DEF Holds, Book, Position
    <2>3. w.marks[s] * b.positions[s].qty > 0
      BY <2>1, <2>2
    <2>4. v[s] = w.marks[s] * b.positions[s].qty
      BY DEF Marked, Value, Notional
    <2> QED BY <2>3, <2>4
  <1>3. b.cash >= 0
    BY DEF Solvent
  <1> HIDE DEF v
  <1>4. total \in Int
    BY <1>1, SumTyped
  <1>5. \A s \in Symbols : v[s] \in Nat /\ v[s] <= total
    BY <1>1, TermInSum
  <1>6. total >= 0
    <2>1. 1 \in Symbols
      BY NumSymbolsAssumption DEF Symbols
    <2> HIDE DEF total
    <2> QED BY <1>4, <1>5, <2>1
  <1> HIDE DEF total
  <1>7. ASSUME b.cash + total = 0
        PROVE  b.cash = 0 /\ \A s \in Symbols : ~ Holds(b, s)
    <2>1. b.cash = 0 /\ total = 0
      BY <1>1, <1>3, <1>4, <1>6, <1>7
    <2> QED BY <1>2, <1>5, <2>1
  <1> QED BY <1>1, <1>3, <1>4, <1>6, <1>7

(* Who joined had cash; who neither traded nor holds anything has what     *)
(* they started the day with; who closed with nothing has nothing left to  *)
(* trade with.                                                             *)
Idle(w, p) == \A s \in Symbols : ~ Holds(w.participants[p], s)

Plain(w, p) ==
  w.participants[p] # None =>
    /\ w.participants[p].starting_cash > 0 /\ Fits(w.participants[p].starting_cash)
    /\ w.day_fills[p] = 0 /\ Idle(w, p) => w.participants[p].cash = Prior(w, p)
    /\ w.last_close[p] = 0 => w.participants[p].cash = 0 /\ Idle(w, p)

LEMMA OpeningKeepsPlain ==
  ASSUME NEW w \in World, NEW u, Opens(w, u), NEW p \in Participants,
         Plain(w, p), Tallied(w, p)
  PROVE  Plain(u, p)
  <1>1. PICK q \in Participants, cash \in Nat \ {0} :
          /\ Fits(cash)
          /\ w.participants[q] = None /\ u.participants[q] = Open(cash) /\ Open(cash) # None
          /\ \A r \in Participants \ {q} : u.participants[r] = w.participants[r]
          /\ SameDays(w, u)
    BY OpeningFacts
  <1>2. CASE p = q
    <2>1. u.last_close[p] = None
      BY <1>1, <1>2 DEF SameDays, Tallied
    <2>2. Open(cash).cash = cash /\ Open(cash).starting_cash = cash /\ cash > 0
      BY DEF Open
    <2>3. None # 0
      BY NoneAssumption
    <2> QED BY <1>1, <1>2, <2>1, <2>2, <2>3 DEF Plain, Prior
  <1>3. CASE p # q
    BY <1>1, <1>3 DEF SameDays, Plain, Prior, Idle
  <1> QED BY <1>2, <1>3

LEMMA CloseKeepsPlain ==
  ASSUME NEW w \in World, NEW u, NEW d \in Days, ClosesOn(w, u, d), BooksSound(w),
         NEW p \in Participants, Plain(w, p)
  PROVE  Plain(u, p)
  <1> DEFINE b == w.participants[p]
  <1> SUFFICES ASSUME b # None PROVE Plain(u, p)
    BY DEF Plain, ClosesOn
  <1>1. b \in Book /\ Solvent(b) /\ Marked(b, w.marks) /\ u.participants[p] = b
    BY WorldFields DEF BooksSound, Sound, ClosesOn, CanClose, HasValue, Marked
  <1>2. u.last_close[p] = TotalValue(b, w.marks) /\ u.last_close[p] # None
    <2>1. TotalValue(b, w.marks) \in Int
      BY TotalValueTyped
    <2> QED BY <2>1, NoneAssumption DEF ClosesOn, DayEntry
  <1>3. Prior(u, p) = TotalValue(b, w.marks)
    BY <1>2 DEF Prior
  <1>4. (\A s \in Symbols : ~ Holds(b, s)) => TotalValue(b, w.marks) = b.cash
    BY <1>1, NothingHeld
  <1>5. TotalValue(b, w.marks) = 0 => b.cash = 0 /\ \A s \in Symbols : ~ Holds(b, s)
    BY <1>1, ValueFacts
  <1>6. b.starting_cash > 0 /\ Fits(b.starting_cash)
    BY DEF Plain
  <1> HIDE DEF b
  <1> QED BY <1>1, <1>2, <1>3, <1>4, <1>5, <1>6 DEF Plain, Idle

(* With no cash and no shares there is no fill.                            *)
LEMMA FillNeedsMeans ==
  ASSUME NEW w \in World, NEW b, NEW u, NEW e \in FilledEvent, FillsIn(w, b, u, e),
         w.participants[Trader(w, e.id)].cash = 0
  PROVE  ~ Idle(w, Trader(w, e.id))
  <1> DEFINE k == w.participants[Trader(w, e.id)]
             f == FillOf(w, e)
  <1>1. /\ BookAccepts(k, f) /\ w.orders[e.id] # None
        /\ e.qty \in Nat \ {0} /\ e.fee \in Nat /\ Notional(e.px, e.qty) \in Nat \ {0}
    BY DEF FillsIn, CanBook, BookTakes
  <1>2. /\ f.qty = e.qty /\ f.px = e.px /\ f.fee = e.fee /\ f.symbol \in Symbols
        /\ f.side \in Sides
    BY <1>1, FillFacts
  <1> HIDE DEF f, k
  <1>3. f.side # "Buy"
    <2>1. Outlay(f) > 0
      BY <1>1, <1>2 DEF Outlay
    <2>2. k.cash = 0
      BY DEF k
    <2>3. f.side = "Buy" => Outlay(f) <= k.cash
      BY <1>1 DEF BookAccepts, BuyAccepts
    <2>4. Outlay(f) \in Int
      BY <1>1, <1>2 DEF Outlay
    <2> QED BY <2>1, <2>2, <2>3, <2>4
  <1>4. f.qty <= k.positions[f.symbol].qty
    BY <1>1, <1>2, <1>3 DEF BookAccepts, SellAccepts, Sides
  <1>5. Holds(k, f.symbol)
    BY <1>1, <1>2, <1>4 DEF Holds
  <1> QED BY <1>2, <1>5 DEF Idle, k

LEMMA FillKeepsPlain ==
  ASSUME NEW w \in World, NEW b, NEW u, NEW e \in FilledEvent, FillsIn(w, b, u, e),
         NEW p \in Participants, Plain(w, p), Tallied(w, p)
  PROVE  Plain(u, p)
  <1>1. CASE p # Trader(w, e.id)
    BY <1>1 DEF FillsIn, Counts, Plain, Prior, Idle
  <1>2. CASE p = Trader(w, e.id)
    <2>1. u.day_fills[p] > 0
      BY <1>2, FirstFillIsCounted
    <2>2. w.last_close[p] # 0 /\ u.last_close[p] = w.last_close[p]
      BY <1>2, FillNeedsMeans DEF FillsIn, Counts, Plain
    <2>3. u.participants[p].starting_cash = w.participants[p].starting_cash
      <3>1. w.participants[p] \in Book
        BY <1>2, WorldFields DEF FillsIn
      <3>2. \A k \in Book : \A f : BookFill(k, f).starting_cash = k.starting_cash
        BY DEF BookFill, Buy, Sell, Book
      <3> QED BY <1>2, <3>1, <3>2 DEF FillsIn
    <2>4. w.participants[p] # None
      BY <1>2 DEF FillsIn
    <2>5. u.day_fills[p] # 0
      BY <2>1
    <2> QED BY <2>2, <2>3, <2>4, <2>5 DEF Plain
  <1> QED BY <1>1, <1>2

LEMMA EffectKeepsPlain ==
  ASSUME NEW w \in World, NEW b \in Broker, NEW u, Effect(w, b, u), BooksSound(w),
         NEW p \in Participants, Plain(w, p), Tallied(w, p)
  PROVE  Plain(u, p)
  <1>1. CASE Opens(w, u)
    BY <1>1, OpeningKeepsPlain
  <1>2. CASE Closes(w, u)
    BY <1>2, ClosingFacts, CloseKeepsPlain
  <1>3. CASE Uneventful(w, u)
    BY <1>3 DEF Uneventful, SameDays, Plain, Prior, Idle
  <1>4. CASE Fills(w, b, u)
    BY <1>4, FillingFacts, FillKeepsPlain
  <1> QED BY <1>1, <1>2, <1>3, <1>4, OtherEffects

PlainInv == BookInv /\ \A p \in Participants : Tallied(world, p) /\ Plain(world, p)

LEMMA PlainInvariant == Spec => []PlainInv
  <1> DEFINE Counters == \A p \in Participants : Tallied(world, p)
             Books == \A p \in Participants : Plain(world, p)
  <1>1. Init => Books
    BY DEF Init, EmptyWorld, Plain
  <1>2. BookInv /\ Counters /\ Books /\ [Next]_vars => Books'
    <2> SUFFICES ASSUME BookInv, Counters, Books, [Next]_vars
                 PROVE  \A p \in Participants : Plain(world', p)
      OBVIOUS
    <2>1. CASE Next
      <3>1. Effect(world, broker, world') /\ BooksSound(world)
            /\ world \in World /\ broker \in Broker
        BY <2>1, EveryStepHasAnEffect DEF BookInv, TypeOK
      <3> QED BY <3>1, EffectKeepsPlain
    <2>2. CASE UNCHANGED vars
      BY <2>2 DEF vars
    <2> QED BY <2>1, <2>2
  <1>3. BookInv /\ Counters /\ Books => PlainInv
    BY DEF PlainInv
  <1> QED BY <1>1, <1>2, <1>3, BookInvariant, TalliedInvariant, PTL DEF Spec

(* An entry that is published is one a day can end on.                     *)
LEMMA EntriesArePlausible ==
  ASSUME NEW w \in World, BooksSound(w), NEW p \in Participants, w.participants[p] # None,
         HasValue(w.participants[p], w.marks), DayEntry(w, p) \in DayInput,
         Tallied(w, p), Plain(w, p)
  PROVE  S!Plausible(DayEntry(w, p))
  <1> DEFINE b == w.participants[p]
             e == DayEntry(w, p)
  <1>1. b \in Book /\ Solvent(b) /\ Marked(b, w.marks)
    BY WorldFields DEF BooksSound, Sound, HasValue, Marked
  <1>2. /\ e.closing_value = TotalValue(b, w.marks) /\ e.prior_closing_value = Prior(w, p)
        /\ e.turnover = w.day_turnover[p]
        /\ e.active <=> w.day_fills[p] > 0 \/ ~ Idle(w, p)
    BY DEF DayEntry, Prior, Idle
  <1>3. e.closing_value >= 0 /\ e.turnover >= 0
    BY <1>1, <1>2, ValueFacts DEF Tallied
  <1>7. e \in DayInput
    OBVIOUS
  <1>8. e.closing_value \in 0..MaxRaw
    <2>1. Fits(e.closing_value)
      BY <1>2 DEF HasValue
    <2>2. e.closing_value \in Int
      BY <1>7 DEF DayInput
    <2> QED BY <1>3, <2>1, <2>2, MoneyAssumption DEF Fits
  <1>4. Idle(w, p) => TotalValue(b, w.marks) = b.cash
    BY <1>1, NothingHeld DEF Idle
  <1>5. ASSUME Prior(w, p) = 0 PROVE e.closing_value = 0
    <2>1. w.last_close[p] = 0
      BY <1>5 DEF Prior, Plain
    <2>2. b.cash = 0 /\ Idle(w, p)
      BY <2>1 DEF Plain
    <2> QED BY <1>2, <1>4, <2>2
  <1>6. ASSUME ~ e.active PROVE e.closing_value = e.prior_closing_value /\ e.turnover = 0
    <2>1. w.day_fills[p] = 0 /\ Idle(w, p)
      BY <1>2, <1>6, WorldFields
    <2> QED BY <1>2, <1>4, <2>1 DEF Plain, Tallied
  <1> HIDE DEF e
  <1> QED BY <1>2, <1>3, <1>5, <1>6, <1>7, <1>8 DEF S!Plausible, S!DayInput, DayInput, e

LEMMA ClosesPublish ==
  ASSUME NEW w \in World, NEW u, NEW d \in Days, ClosesOn(w, u, d),
         u.closed = [w.closed EXCEPT ![d] = Publication(w)],
         world = w, world' = u, BooksSound(w),
         \A p \in Participants : Tallied(w, p) /\ Plain(w, p) /\ Chained(w, p)
  PROVE  S!Publish(d, Publication(w))
  <1>0. S!Days = Days /\ S!Participants = Participants
    BY DEF S!Days, Days, S!Participants, Participants
  <1>1. /\ \A c \in Days : w.closed[c] # None => c < d
        /\ \E p \in Participants : w.participants[p] # None
        /\ \A p \in Participants : w.participants[p] # None =>
             /\ HasValue(w.participants[p], w.marks)
             /\ DayEntry(w, p) # None /\ DayEntry(w, p) \in DayInput
        /\ \A p \in Participants :
             Publication(w)[p] = IF w.participants[p] # None THEN DayEntry(w, p) ELSE None
    BY DEF ClosesOn, CanClose, IsClosed, Publication
  <1>2. ASSUME NEW p \in Participants
        PROVE  S!Earlier(p, d) = EntriesIn(w, p)
    BY <1>0, <1>1 DEF S!Earlier, EntriesIn, IsClosed
  <1>3. ASSUME NEW p \in Participants, w.participants[p] = None
        PROVE  Publication(w)[p] = None /\ S!Earlier(p, d) = {}
    BY <1>1, <1>2, <1>3 DEF Chained
  <1>4. ASSUME NEW p \in Participants, w.participants[p] # None
        PROVE  LET e == Publication(w)[p]
               IN  /\ e # None /\ S!Plausible(e)
                   /\ e.prior_closing_value = S!Baseline(p, d, e.prior_closing_value)
                   /\ S!Earlier(p, d) = {} => e.prior_closing_value \in 1..MaxRaw
    <2> DEFINE e == Publication(w)[p]
    <2>1. e = DayEntry(w, p) /\ e # None /\ S!Plausible(e)
      BY <1>1, <1>4, EntriesArePlausible
    <2>2. e.prior_closing_value = BaseAfter(w, p, EntriesIn(w, p))
      BY <1>4, <2>1 DEF Chained, DayEntry, Prior
    <2>3. S!Earlier(p, d) = {} => e.prior_closing_value \in 1..MaxRaw
      <3>1. w.participants[p].starting_cash \in Int
        BY <1>4, WorldFields DEF Book
      <3> QED BY <1>2, <1>4, <2>2, <3>1, MoneyAssumption DEF BaseAfter, Plain, Fits
    <2>4. S!LatestDay(EntriesIn(w, p)) = LatestOf(p, EntriesIn(w, p))
      BY DEF S!LatestDay, LatestOf
    <2> HIDE DEF e
    <2>5. e.prior_closing_value = S!Baseline(p, d, e.prior_closing_value)
      BY <1>2, <2>2, <2>4 DEF S!Baseline, BaseAfter
    <2> QED BY <2>1, <2>3, <2>5 DEF e
  <1> QED BY <1>0, <1>1, <1>3, <1>4 DEF S!Publish

(* The days the engine publishes make a season: in order, each participant *)
(* from the day they are first in, starting from what they closed on,      *)
(* first from something, with what was worth nothing staying so and who    *)
(* was not active keeping what they had.  What holds of every season holds *)
(* of what Engine::leaderboard and Engine::ladder rank.                    *)
THEOREM ClosesAlwaysMakeASeason == Spec => ClosesMakeASeason
  <1> DEFINE Published == \E d \in S!Days : world.closed'[d] # None
                                            /\ S!Publish(d, world.closed'[d])
             Counters == \A p \in Participants : Tallied(world, p) /\ Plain(world, p)
  <1>1. Init => S!Init
    BY DEF Init, S!Init, EmptyWorld, S!Days, Days
  <1>2. BookInv /\ Counters /\ ChainsHold /\ [Next]_vars => [Published]_(world.closed)
    <2> SUFFICES ASSUME BookInv, Counters, ChainsHold, [Next]_vars,
                        world'.closed # world.closed
                 PROVE  Published
      OBVIOUS
    <2>0. world \in World /\ broker \in Broker /\ BooksSound(world) /\ S!Days = Days
      BY DEF BookInv, TypeOK, S!Days, Days
    <2>1. CASE Next
      <3>1. Effect(world, broker, world')
        BY <2>1, EveryStepHasAnEffect DEF BookInv
      <3>2. Closes(world, world')
        <4>1. Opens(world, world') => world'.closed = world.closed
          BY <2>0, OpeningFacts DEF SameDays
        <4>2. Fills(world, broker, world') => world'.closed = world.closed
          BY <2>0, FillingFacts DEF FillsIn, Counts
        <4> QED BY <2>0, <3>1, <4>1, <4>2, OtherEffects DEF SameDays, Uneventful
      <3>3. PICK d \in Days : /\ ClosesOn(world, world', d)
                              /\ world'.closed = [world.closed EXCEPT ![d] = Publication(world)]
        BY <2>0, <3>2, ClosingFacts
      <3>4. S!Publish(d, Publication(world))
        BY <2>0, <3>3, ClosesPublish DEF ChainsHold
      <3>5. world'.closed[d] = Publication(world) /\ Publication(world) # None
        BY <3>3 DEF ClosesOn
      <3> QED BY <2>0, <3>4, <3>5
    <2>2. CASE UNCHANGED vars
      BY <2>2 DEF vars
    <2> QED BY <2>1, <2>2
  <1>3. PlainInv => BookInv /\ Counters
    BY DEF PlainInv
  <1> QED
    BY <1>1, <1>2, <1>3, PlainInvariant, ChainsInvariant, PTL
    DEF Spec, ClosesMakeASeason, S!Allowed

-----------------------------------------------------------------------------
(***************************************************************************)
(* The HTTP face: no answer lies about what became of its request, and no  *)
(* request whose answer was lost can be carried out twice.  The operator's *)
(* executions are not assumed to honour any limit here, so the proof rests *)
(* on what every well-formed plan does to a world, not on what the engine's*)
(* own Next allows.                                                        *)
(***************************************************************************)

(***************************************************************************)
(* What parsing leaves of a request.                                       *)
(***************************************************************************)
LEMMA Routed ==
  ASSUME NEW r \in Requests
  PROVE  \/ r \in PostParticipants \/ r \in PostOrders \/ r \in DeleteOrders
         \/ r \in PutOrders \/ r \in PostExecutions \/ r \in PostInstruments
         \/ r \in DeleteInstruments \/ r \in PostMarks \/ r \in PostCloses
         \/ r \in PostResets
  BY DEF Requests

LEMMA InputsTyped ==
  /\ \A q \in OrderQtys \cup FillQtys : q \in Nat
  /\ \A px \in LimitPxs \cup FillPxs \cup MarkPxs : px \in Pxs
  /\ \A side \in TradedSides : side \in Sides
  /\ \A cash \in StartingCash : cash \in Int
  /\ \A spec \in Specs : spec \in InstrumentSpec
  BY InputsAssumption

(* A quantity that is not negative is one of those on offer, or zero.      *)
LEMMA QtysParse ==
  ASSUME NEW qtys, \A q \in qtys : q \in Nat, NEW qty \in qtys \cup {-1, 0}, ~ (qty < 0)
  PROVE  qty \in Nat
  <1>1. CASE qty = -1
    BY <1>1
  <1>2. CASE qty = 0
    BY <1>2
  <1> QED BY <1>1, <1>2

LEMMA ParticipantsParse ==
  ASSUME NEW r \in PostParticipants
  PROVE  /\ r.route = "create_participant"
         /\ ~ BadRequest(r) => r.participant \in Participants /\ r.cash \in Int
  <1>1. /\ r.route = "create_participant" /\ r.participant \in SomeParticipants
        /\ r.cash \in StartingCash \cup {0, Malformed}
    BY DEF PostParticipants
  <1>2. ~ BadRequest(r) => r.participant # Malformed /\ r.cash \notin {0, Malformed}
    BY <1>1 DEF BadRequest
  <1> QED BY <1>1, <1>2, InputsTyped DEF SomeParticipants

LEMMA OrdersParse ==
  ASSUME NEW r \in PostOrders
  PROVE  /\ r.route = "submit_order"
         /\ ~ BadRequest(r) => TermsOf(r) \in Terms
  <1>1. /\ r.route = "submit_order" /\ r.participant \in SomeParticipants
        /\ r.symbol \in SomeSymbols /\ r.side \in TradedSides \cup {Malformed}
        /\ r.qty \in SomeQtys /\ r.limit_px \in SomePxs
    BY DEF PostOrders
  <1> SUFFICES ASSUME ~ BadRequest(r) PROVE TermsOf(r) \in Terms
    BY <1>1
  <1>2. /\ Malformed \notin {r.participant, r.symbol, r.side}
        /\ ~ (r.qty < 0) /\ r.limit_px # 0
    BY <1>1 DEF BadRequest
  <1>3. r.participant \in Participants /\ r.symbol \in Symbols /\ r.side \in Sides
    BY <1>1, <1>2, InputsTyped DEF SomeParticipants, SomeSymbols
  <1>4. r.qty \in Nat
    BY <1>1, <1>2, InputsTyped, QtysParse DEF SomeQtys
  <1>5. r.limit_px \in Pxs
    BY <1>1, <1>2, InputsTyped DEF SomePxs
  <1> QED BY <1>3, <1>4, <1>5 DEF TermsOf, Terms

LEMMA CancelsParse ==
  ASSUME NEW r \in DeleteOrders
  PROVE  r.route = "cancel_order" /\ r.id \in Ids
  BY DEF DeleteOrders

LEMMA ReplacementsParse ==
  ASSUME NEW r \in PutOrders
  PROVE  /\ r.route = "replace_order" /\ r.id \in Ids
         /\ ~ BadRequest(r) => r.qty \in Nat /\ r.limit_px \in Pxs
  <1>1. /\ r.route = "replace_order" /\ r.id \in Ids
        /\ r.qty \in SomeQtys /\ r.limit_px \in SomePxs
    BY DEF PutOrders
  <1>2. ~ BadRequest(r) => ~ (r.qty < 0) /\ r.limit_px # 0
    BY <1>1 DEF BadRequest
  <1>3. ~ BadRequest(r) => r.qty \in Nat
    BY <1>1, <1>2, InputsTyped, QtysParse DEF SomeQtys
  <1>4. ~ BadRequest(r) => r.limit_px \in Pxs
    BY <1>1, <1>2, InputsTyped DEF SomePxs
  <1> QED BY <1>1, <1>3, <1>4

LEMMA ExecutionsParse ==
  ASSUME NEW r \in PostExecutions
  PROVE  /\ r.route = "execute_order" /\ r.id \in Ids
         /\ ~ BadRequest(r) /\ r.qty # None => r.qty \in Nat /\ r.px \in Pxs
  <1>1. /\ r.route = "execute_order" /\ r.id \in Ids
        /\ r.qty \in FillQtys \cup {None, -1, 0} /\ r.px \in FillPxs \cup {None, 0}
    BY DEF PostExecutions
  <1> SUFFICES ASSUME ~ BadRequest(r), r.qty # None PROVE r.qty \in Nat /\ r.px \in Pxs
    BY <1>1
  <1>2. r.px # None /\ ~ (r.qty < 0) /\ r.px # 0
    BY <1>1 DEF BadRequest
  <1>3. r.qty \in Nat
    BY <1>1, <1>2, InputsTyped, QtysParse
  <1>4. r.px \in Pxs
    BY <1>1, <1>2, InputsTyped
  <1> QED BY <1>3, <1>4

LEMMA InstrumentsParse ==
  ASSUME NEW r \in PostInstruments
  PROVE  /\ r.route \in {"create_instrument", "update_instrument"}
         /\ ~ BadRequest(r) => r.symbol \in Symbols /\ r.spec \in InstrumentSpec
  <1>1. /\ r.route \in {"create_instrument", "update_instrument"}
        /\ r.symbol \in SomeSymbols /\ r.spec \in SpecBodies
    BY DEF PostInstruments
  <1> SUFFICES ASSUME ~ BadRequest(r) PROVE r.symbol \in Symbols /\ r.spec \in InstrumentSpec
    BY <1>1
  <1>2. r.symbol # Malformed /\ ~ BadSpec(r.spec)
    BY <1>1 DEF BadRequest
  <1>3. BadSpec([tick |-> 0, lot |-> 1, max_order_qty |-> None])
    BY DEF BadSpec
  <1>4. BadSpec([tick |-> 1, lot |-> 0, max_order_qty |-> None])
    BY DEF BadSpec
  <1>5. BadSpec([tick |-> 1, lot |-> 1, max_order_qty |-> -1])
    BY NoneAssumption DEF BadSpec
  <1>6. r.spec \in Specs
    BY <1>1, <1>2, <1>3, <1>4, <1>5 DEF SpecBodies
  <1> QED BY <1>1, <1>2, <1>6, InputsTyped DEF SomeSymbols

LEMMA DelistingsParse ==
  ASSUME NEW r \in DeleteInstruments
  PROVE  /\ r.route = "remove_instrument"
         /\ ~ BadRequest(r) => r.symbol \in Symbols
  BY DEF BadRequest, DeleteInstruments, SomeSymbols

LEMMA ClosesParse ==
  ASSUME NEW r \in PostCloses
  PROVE  /\ r.route = "close_day"
         /\ ~ BadRequest(r) => r.day \in Days
  BY DEF BadRequest, PostCloses

LEMMA ResetsParse ==
  ASSUME NEW r \in PostResets
  PROVE  r.route = "reset"
  BY DEF PostResets

(* The events of a batch of marks.                                         *)
MarksOf(marks) == [n \in DOMAIN marks |-> MarkUpdated(marks[n].symbol, marks[n].px)]

LEMMA BatchesParse ==
  ASSUME NEW r \in PostMarks
  PROVE  /\ r.route = "update_marks"
         /\ ~ BadRequest(r) => /\ MarksOf(r.marks) \in Seq(MarkEvent)
                               /\ Len(MarksOf(r.marks)) <= 2
                               /\ Len(MarksOf(r.marks)) = Len(r.marks)
  <1>1. r.route = "update_marks" /\ r.marks \in Batches
    BY DEF PostMarks
  <1>2. \E l \in 0..2 : /\ DOMAIN r.marks = 1..l
                        /\ \A n \in 1..l : r.marks[n] \in Marks
                        /\ Len(r.marks) = l
    <2> DEFINE marks == r.marks
    <2> SUFFICES ASSUME marks \in Batches
                 PROVE  \E l \in 0..2 : /\ DOMAIN marks = 1..l
                                        /\ \A n \in 1..l : marks[n] \in Marks
                                        /\ Len(marks) = l
      BY <1>1
    <2> HIDE DEF marks
    <2>1. CASE marks = <<>>
      BY <2>1
    <2>2. ASSUME NEW x \in Marks, marks = <<x>>
          PROVE  DOMAIN marks = 1..1 /\ Len(marks) = 1 /\ \A n \in 1..1 : marks[n] \in Marks
      BY <2>2
    <2>3. ASSUME NEW x \in Marks, NEW y \in Marks, marks = <<x, y>>
          PROVE  DOMAIN marks = 1..2 /\ Len(marks) = 2 /\ \A n \in 1..2 : marks[n] \in Marks
      BY <2>3
    <2> QED BY <2>1, <2>2, <2>3 DEF Batches
  <1> PICK l \in 0..2 : /\ DOMAIN r.marks = 1..l
                        /\ \A n \in 1..l : r.marks[n] \in Marks
                        /\ Len(r.marks) = l
    BY <1>2
  <1>3. MarksOf(r.marks) = [n \in 1..l |-> MarkUpdated(r.marks[n].symbol, r.marks[n].px)]
    BY DEF MarksOf
  <1>4. ASSUME ~ BadRequest(r)
        PROVE  \A n \in 1..l : MarkUpdated(r.marks[n].symbol, r.marks[n].px) \in MarkEvent
    <2> TAKE n \in 1..l
    <2> DEFINE x == r.marks[n]
    <2>1. x.symbol # Malformed /\ x.px # 0
      BY <1>1, <1>4 DEF BadRequest
    <2>2. x.symbol \in SomeSymbols /\ x.px \in MarkPxs \cup {0}
      BY DEF Marks
    <2>3. x.symbol \in Symbols /\ x.px \in Pxs
      BY <2>1, <2>2, InputsTyped DEF SomeSymbols
    <2> HIDE DEF x
    <2>4. MarkUpdated(x.symbol, x.px) \in MarkEvent
      BY <2>3 DEF MarkUpdated, MarkEvent
    <2> QED BY <2>4 DEF x
  <1>5. ~ BadRequest(r) => /\ MarksOf(r.marks) \in Seq(MarkEvent)
                           /\ Len(MarksOf(r.marks)) = l
    BY <1>3, <1>4
  <1> QED BY <1>1, <1>5
-----------------------------------------------------------------------------
(***************************************************************************)
(* An error for exactly the plans that come to nothing.                    *)
(***************************************************************************)
AnswersTold(error, plans) ==
  /\ plans = {} => error # None
  /\ \A plan \in plans : error = None <=> plan.events # <<>>

(* The error strings are none of them the absent value.                    *)
LEMMA ErrorsArePresent == \A error \in Errors : error # None
  BY AbsenceAssumption

LEMMA SomeEvents ==
  ASSUME NEW b
  PROVE  /\ Plan(<<>>, b).events = <<>>
         /\ \A e : Plan(<<e>>, b).events # <<>>
         /\ \A e, f : Plan(<<e, f>>, b).events # <<>>
  BY DEF Plan

LEMMA JoiningIsTold ==
  ASSUME NEW w, NEW b, NEW p, NEW cash
  PROVE  AnswersTold(Unless(w.participants[p] # None, "DuplicateParticipant"),
              CreateParticipantPlans(w, b, p, cash))
  <1>1. "DuplicateParticipant" # None
    BY ErrorsArePresent DEF Errors, Conflicts
  <1> QED BY <1>1, SomeEvents DEF CreateParticipantPlans, When, AnswersTold, Unless

LEMMA ListingIsTold ==
  ASSUME NEW w, NEW b, NEW s, NEW spec
  PROVE  /\ AnswersTold(Unless(w.instruments[s] # None, "DuplicateInstrument"),
                 CreateInstrumentPlans(w, b, s, spec))
         /\ AnswersTold(Unless(w.instruments[s] = None, "UnknownInstrument"),
                 UpdateInstrumentPlans(w, b, s, spec))
  <1>1. "DuplicateInstrument" # None /\ "UnknownInstrument" # None
    BY ErrorsArePresent DEF Errors, Conflicts, Missing
  <1>2. AnswersTold(Unless(w.instruments[s] # None, "DuplicateInstrument"),
             CreateInstrumentPlans(w, b, s, spec))
    BY <1>1, SomeEvents DEF CreateInstrumentPlans, When, AnswersTold, Unless
  <1>3. AnswersTold(Unless(w.instruments[s] = None, "UnknownInstrument"),
             UpdateInstrumentPlans(w, b, s, spec))
    BY <1>1, SomeEvents DEF UpdateInstrumentPlans, When, AnswersTold, Unless
  <1> QED BY <1>2, <1>3

LEMMA DelistingIsTold ==
  ASSUME NEW w, NEW b, NEW s
  PROVE  AnswersTold(IF w.instruments[s] = None THEN "UnknownInstrument"
              ELSE Unless(InUse(w, s), "InstrumentInUse"),
              RemoveInstrumentPlans(w, b, s))
  <1>1. "UnknownInstrument" # None /\ "InstrumentInUse" # None
    BY ErrorsArePresent DEF Errors, Conflicts, Missing
  <1> QED BY <1>1, SomeEvents DEF RemoveInstrumentPlans, When, AnswersTold, Unless

LEMMA CancellingIsTold ==
  ASSUME NEW w, NEW b, NEW i
  PROVE  AnswersTold(CancelError(w, i), CancelPlans(w, b, i))
  <1>1. "UnknownOrder" # None /\ "IllegalTransition" # None
    BY ErrorsArePresent DEF Errors, Conflicts, Missing
  <1> QED BY <1>1, SomeEvents DEF CancelPlans, CancelError, When, AnswersTold

(* What a portfolio check has to add up are integers.                      *)
LEMMA SharesTyped ==
  ASSUME NEW w \in World, Story(w), NEW p \in Participants, w.participants[p] # None,
         NEW s \in Symbols, NEW x
  PROVE  AvailableQty(w, p, s, x) \in Int /\ AvailableCash(w, p, x) \in Int
  <1>1. /\ Offers(w, p, s, x) \in [1..MaxOrders -> Int]
        /\ Needs(w, p, x) \in [1..MaxOrders -> Int]
    BY SetAsideTyped DEF Offers, Needs, Ids
  <1>2. ReservedQty(w, p, s, x) \in Int /\ ReservedCash(w, p, x) \in Int
    BY <1>1, ReservedIsASum, SumTyped, KeysAssumption
  <1>3. w.participants[p] \in Book
    BY WorldFields
  <1>4. w.participants[p].positions[s].qty \in Int /\ w.participants[p].cash \in Int
    BY <1>3 DEF Book, Position
  <1> QED BY <1>2, <1>4 DEF AvailableQty, AvailableCash

LEMMA AffordingIsTold ==
  ASSUME NEW w \in World, Story(w), NEW o, NEW x, NEW t \in Terms, NEW original,
         o = Submitted(t, original), w.participants[t.participant] # None
  PROVE  AffordError(w, o, x) = None <=> Affordable(w, o, x)
  <1> DEFINE shares == AvailableQty(w, o.participant, o.symbol, x)
             cash == AvailableCash(w, o.participant, x)
  <1>1. /\ t.participant \in Participants /\ t.symbol \in Symbols /\ t.side \in Sides
        /\ t.qty \in Nat /\ t.limit_px \in Pxs
    BY DEF Terms
  <1>2. /\ o.participant = t.participant /\ o.symbol = t.symbol /\ o.side = t.side
        /\ o.qty = t.qty /\ o.limit_px = t.limit_px /\ o.state = New
    BY DEF Submitted
  <1>3. shares \in Int /\ cash \in Int
    BY <1>1, <1>2, SharesTyped
  <1>4. Reserve(o) \in Int
    <2>1. Remaining(o) \in Nat
      BY <1>1, <1>2 DEF Remaining, New
    <2>2. \A n \in Nat : FeeOf(n) \in Nat
      BY FeeFacts
    <2> QED BY <1>1, <1>2, <2>1, <2>2, NotionalNat DEF Reserve
  <1>5. /\ "Domain" # None /\ "InsufficientAvailableCash" # None
        /\ "InsufficientAvailablePosition" # None
    BY ErrorsArePresent DEF Errors, Internal, Unprocessable
  <1>6. CASE o.side = "Buy"
    <2>1. Reserve(o) > cash <=> ~ (Reserve(o) <= cash)
      BY <1>3, <1>4
    <2> QED BY <1>5, <1>6, <2>1 DEF AffordError, Affordable
  <1>7. CASE o.side # "Buy"
    <2>1. /\ shares < 0 <=> ~ (shares >= 0)
          /\ o.qty > shares <=> ~ (o.qty <= shares)
      BY <1>1, <1>2, <1>3
    <2> QED BY <1>5, <1>7, <2>1 DEF AffordError, Affordable
  <1> QED BY <1>6, <1>7

LEMMA SubmissionIsTold ==
  ASSUME NEW w \in World, Story(w), NEW b, NEW i, NEW t \in Terms
  PROVE  AnswersTold(SubmitError(w, i, t), SubmitPlans(w, b, i, t))
  <1> DEFINE o == Submitted(t, None)
             why == RejectReason(w, o)
             known == w.orders[i] = None /\ w.participants[t.participant] # None
             refused == Plan(<<OrderSubmitted(i, t), OrderRejected(i, why)>>, b)
             taken == Plan(<<OrderSubmitted(i, t), OrderAcknowledged(i, b.next_id)>>, MintedId(b))
  <1>1. /\ "DuplicateOrder" # None /\ "UnknownParticipant" # None /\ "Domain" # None
    BY ErrorsArePresent DEF Errors, Internal, Conflicts, Missing
  <1>2. SubmitPlans(w, b, i, t)
          = When(known /\ t.qty > 0 /\ why # None, refused)
            \cup When(known /\ t.qty > 0 /\ why = None /\ Affordable(w, o, None), taken)
    BY DEF SubmitPlans
  <1>3. SubmitError(w, i, t)
          = IF w.orders[i] # None THEN "DuplicateOrder"
            ELSE IF w.participants[t.participant] = None THEN "UnknownParticipant"
            ELSE IF t.qty = 0 THEN "Domain"
            ELSE IF why # None THEN None
            ELSE AffordError(w, o, None)
    BY DEF SubmitError
  <1>4. t.qty = 0 <=> ~ (t.qty > 0)
    BY DEF Terms
  <1>5. known => (AffordError(w, o, None) = None <=> Affordable(w, o, None))
    BY AffordingIsTold
  <1>6. refused.events # <<>> /\ taken.events # <<>>
    BY SomeEvents
  <1> HIDE DEF o, why, refused, taken
  <1> QED BY <1>1, <1>2, <1>3, <1>4, <1>5, <1>6 DEF When, AnswersTold

LEMMA ReplacingIsTold ==
  ASSUME NEW w \in World, Story(w), Owned(w), NEW b, NEW i \in Ids, NEW j,
         NEW qty \in Nat, NEW limit \in Pxs
  PROVE  AnswersTold(ReplaceError(w, i, j, qty, limit), ReplacePlans(w, b, i, j, qty, limit))
  <1> DEFINE t == ReplacementTerms(w.orders[i], qty, limit)
             o == Submitted(t, i)
             why == RejectReason(w, o)
             replaceable == /\ w.orders[j] = None /\ w.orders[i] # None
                            /\ CanCancel(w.orders[i].state)
                            /\ qty > 0
             refused == Plan(<<OrderReplaced(i, j, t), OrderRejected(j, why)>>, b)
             taken == Plan(<<OrderReplaced(i, j, t), OrderAcknowledged(j, b.next_id)>>, MintedId(b))
  <1>1. /\ "DuplicateOrder" # None /\ "InvalidTransition" # None
        /\ "UnknownOrder" # None /\ "IllegalTransition" # None
    BY ErrorsArePresent DEF Errors, Unprocessable, Conflicts, Missing
  <1>2. ReplacePlans(w, b, i, j, qty, limit)
          = When(replaceable /\ why # None, refused)
            \cup When(replaceable /\ why = None /\ Affordable(w, o, i), taken)
    BY DEF ReplacePlans
  <1>3. ReplaceError(w, i, j, qty, limit)
          = IF w.orders[j] # None THEN "DuplicateOrder"
            ELSE IF CancelError(w, i) # None THEN CancelError(w, i)
            ELSE IF qty = 0 THEN "InvalidTransition"
            ELSE IF why # None THEN None
            ELSE AffordError(w, o, i)
    BY DEF ReplaceError
  <1>4. qty = 0 <=> ~ (qty > 0)
    OBVIOUS
  <1>5. CancelError(w, i) = None <=> w.orders[i] # None /\ CanCancel(w.orders[i].state)
    BY <1>1 DEF CancelError
  <1>6. ASSUME replaceable PROVE AffordError(w, o, i) = None <=> Affordable(w, o, i)
    <2>1. w.orders[i] \in Order /\ w.participants[w.orders[i].participant] # None
      BY <1>6, WorldFields DEF Owned
    <2>2. t \in Terms /\ t.participant = w.orders[i].participant
      BY <2>1 DEF ReplacementTerms, Terms, Order
    <2> HIDE DEF t
    <2> QED BY <2>1, <2>2, AffordingIsTold
  <1>7. refused.events # <<>> /\ taken.events # <<>>
    BY SomeEvents
  <1> HIDE DEF t, o, why, refused, taken
  <1> QED BY <1>1, <1>2, <1>3, <1>4, <1>5, <1>6, <1>7 DEF When, AnswersTold
(* A fill comes with an error exactly when the order or the book refuses.  *)
LEMMA FillIsTold ==
  ASSUME NEW w \in World, Owned(w), NEW b, NEW e \in FilledEvent
  PROVE  FillError(w, e) = None <=> FillPlan(w, e, b).events # <<>>
  <1> DEFINE o == w.orders[e.id]
             book == w.participants[o.participant]
  <1>1. /\ "UnknownOrder" # None /\ "IllegalTransition" # None /\ "InvalidTransition" # None
        /\ "Overfill" # None /\ "BookCash" # None /\ "BookPosition" # None
        /\ "BookOverflow" # None
    BY ErrorsArePresent DEF Errors, Unprocessable, Conflicts, Missing, Internal
  <1>2. FillPlan(w, e, b).events # <<>> <=> OrderTakes(w, e) /\ BookTakes(w, e)
    BY SomeEvents DEF FillPlan
  <1>3. CASE o = None
    BY <1>1, <1>2, <1>3 DEF FillError, OrderTakes
  <1>4. CASE o # None
    <2>1. /\ e.id \in Ids /\ e.qty \in Nat /\ o.qty \in Nat /\ o.state.filled \in Nat
      BY <1>4, FillFacts DEF OrderState
    <2>2. book # None /\ Trader(w, e.id) = o.participant
      BY <1>4, <2>1 DEF Owned, Trader
    <2>3. BookTakes(w, e) <=> BookAccepts(book, FillOf(w, e))
      BY <2>2 DEF BookTakes
    <2>4. BookError(book, FillOf(w, e)) = None <=> BookAccepts(book, FillOf(w, e))
      BY <1>1 DEF BookError
    <2>5. OrderTakes(w, e) =>
            /\ o.state.name \in Live /\ e.qty # 0
            /\ ~ (o.state.filled + e.qty > o.qty)
      BY <1>4, <2>1 DEF OrderTakes, CanFill
    <2>6. FillError(w, e)
            = IF o.state.name \notin Live THEN "IllegalTransition"
              ELSE IF e.qty = 0 THEN "InvalidTransition"
              ELSE IF o.state.filled + e.qty > o.qty THEN "Overfill"
              ELSE IF ~ OrderTakes(w, e) THEN "InvalidTransition"
              ELSE BookError(book, FillOf(w, e))
      BY <1>4 DEF FillError
    <2> HIDE DEF o, book
    <2> QED BY <1>1, <1>2, <2>3, <2>4, <2>5, <2>6
  <1> QED BY <1>3, <1>4

LEMMA ExecutionIsTold ==
  ASSUME NEW w \in World, Owned(w), NEW b \in Broker, NEW i \in Ids,
         NEW qty \in Nat, NEW px \in Pxs
  PROVE  AnswersTold(ExecuteError(w, b, i, qty, px), ExecutePlans(w, b, i, qty, px))
  <1> DEFINE fee == FeeOf(Notional(px, qty))
             e == OrderFilled(i, b.next_exec_id, qty, px, fee)
             priced == Fits(Notional(px, qty)) /\ Fits(fee)
             plan == FillPlan(w, e, MintedExec(b))
  <1>1. "Domain" # None
    BY ErrorsArePresent DEF Errors, Internal
  <1>2. e \in FilledEvent
    BY EventsTyped, BrokerTyped, FeeTyped
  <1>3. FillError(w, e) = None <=> plan.events # <<>>
    <2> HIDE DEF e
    <2> QED BY <1>2, FillIsTold
  <1>4. ExecuteError(w, b, i, qty, px) = IF ~ priced THEN "Domain" ELSE FillError(w, e)
    BY DEF ExecuteError
  <1>5. ExecutePlans(w, b, i, qty, px) = When(priced, plan)
    BY DEF ExecutePlans
  <1> HIDE DEF e, priced, plan
  <1> QED BY <1>1, <1>3, <1>4, <1>5 DEF When, AnswersTold

(* An execution on the broker's terms.                                     *)
LEMMA SlicesAreTold ==
  ASSUME NEW w \in World, Story(w), Owned(w), NEW b \in Broker, NEW i \in Ids,
         NEW decision \in AutoDecisions(w, b, i)
  PROVE  /\ decision.error = None <=> decision.plan.events # <<>>
         /\ decision.plan.events # <<>> =>
              IsWorking(w, i) /\ decision.plan \in AutoExecutePlans(w, b, i)
         /\ decision.plan.events = <<>> =>
              decision.plan.broker \in {b, MintedExec(b)}
  <1> DEFINE o == w.orders[i]
             notional(q) == Notional(o.limit_px, q)
             fill(q) == OrderFilled(i, b.next_exec_id, q, o.limit_px, FeeOf(notional(q)))
             priced(q) == Fits(notional(q)) /\ Fits(FeeOf(notional(q)))
  <1>1. /\ "Domain" # None /\ "UnknownOrder" # None /\ "NotWorking" # None
        /\ "NothingToExecute" # None
    BY ErrorsArePresent DEF Errors, Conflicts, Missing, Internal
  <1>2. CASE BrokerError(w, i) # None
    <2>1. decision = Decision(BrokerError(w, i), Plan(<<>>, b))
      BY <1>2 DEF AutoDecisions
    <2> QED BY <1>2, <2>1 DEF Decision, Plan
  <1>3. CASE BrokerError(w, i) = None
    <2>1. IsWorking(w, i) /\ Remaining(o) # 0
      BY <1>1, <1>3 DEF BrokerError, IsWorking
    <2>2. o \in Order /\ o # None
      BY <2>1, WorldFields DEF IsWorking
    <2>3. ~ (Remaining(o) <= 0)
      <3>1. o.qty \in Nat /\ o.state.filled \in Nat
        BY <2>2 DEF Order, OrderState
      <3>2. o.state.filled <= o.qty
        BY <2>2 DEF Story, StoryAt, OrderStory
      <3> QED BY <2>1, <3>1, <3>2 DEF Remaining
    <2>4. PICK q \in Slices(o) :
            decision = IF priced(q)
                      THEN Decision(FillError(w, fill(q)), FillPlan(w, fill(q), MintedExec(b)))
                      ELSE Decision("Domain", Plan(<<>>, b))
      BY <1>3 DEF AutoDecisions
    <2>5. fill(q) \in FilledEvent
      BY <2>1, <2>3, SlicesFill
    <2>6. CASE ~ priced(q)
      <3>1. decision = Decision("Domain", Plan(<<>>, b))
        BY <2>4, <2>6
      <3> QED BY <1>1, <3>1 DEF Decision, Plan
    <2>7. CASE priced(q)
      <3>1. decision = Decision(FillError(w, fill(q)), FillPlan(w, fill(q), MintedExec(b)))
        BY <2>4, <2>7
      <3>2. /\ decision.error = FillError(w, fill(q))
            /\ decision.plan = FillPlan(w, fill(q), MintedExec(b))
        <4> HIDE DEF fill
        <4> QED BY <3>1 DEF Decision
      <3>3. decision.error = None <=> decision.plan.events # <<>>
        <4> HIDE DEF fill
        <4> QED BY <2>5, <3>2, FillIsTold
      <3>4. decision.plan \in AutoExecutePlans(w, b, i)
        BY <2>1, <2>3, <2>7, <3>2 DEF AutoExecutePlans
      <3>5. decision.plan.broker = MintedExec(b)
        <4> HIDE DEF fill
        <4> QED BY <3>2 DEF FillPlan, Plan
      <3> QED BY <2>1, <3>3, <3>4, <3>5
    <2> QED BY <2>6, <2>7
  <1> QED BY <1>2, <1>3

(* The close of a day.  Only the close of a day that is closed already is  *)
(* no error and comes to nothing.                                          *)
LEMMA ClosingIsTold ==
  ASSUME NEW w, NEW b, NEW d \in Days
  PROVE  /\ IsClosed(w, d) => /\ CloseError(w, d) = None
                              /\ CloseDayPlans(w, b, d) = {Plan(<<>>, b)}
         /\ ~ IsClosed(w, d) => /\ AnswersTold(CloseError(w, d), CloseDayPlans(w, b, d))
                                /\ \A plan \in CloseDayPlans(w, b, d) :
                                     \E entries : plan.events = <<DayClosed(d, entries)>>
  <1> DEFINE present == {p \in Participants : w.participants[p] # None}
             unmarked(p) == \E s \in Symbols : Holds(w.participants[p], s) /\ w.marks[s] = None
             first == \A c \in Days : IsClosed(w, c) => c < d
             valued == \A p \in present : HasValue(w.participants[p], w.marks)
             entries == [p \in Participants |-> IF p \in present THEN DayEntry(w, p) ELSE None]
             plan == Plan(<<DayClosed(d, entries)>>, b)
  <1>1. /\ "DayOutOfOrder" # None /\ "MissingMark" # None /\ "BookOverflow" # None
        /\ "Scoring" # None
    BY ErrorsArePresent DEF Errors, Conflicts, Internal
  <1>2. CloseDayPlans(w, b, d)
          = When(IsClosed(w, d), Plan(<<>>, b)) \cup When(first /\ present # {} /\ valued, plan)
    BY DEF CloseDayPlans
  <1>3. CloseError(w, d)
          = IF IsClosed(w, d) THEN None
            ELSE IF \E c \in Days : IsClosed(w, c) /\ d < c THEN "DayOutOfOrder"
            ELSE IF \E p \in present : unmarked(p) THEN "MissingMark"
            ELSE IF \E p \in present : ~ HasValue(w.participants[p], w.marks) THEN "BookOverflow"
            ELSE IF present = {} THEN "Scoring"
            ELSE None
    BY DEF CloseError
  <1>4. Days \subseteq Int
    BY KeysAssumption DEF Days
  <1>5. CASE IsClosed(w, d)
    <2>1. ~ first
      BY <1>4, <1>5
    <2> QED BY <1>2, <1>3, <1>5, <2>1 DEF When
  <1>6. CASE ~ IsClosed(w, d)
    <2>1. first <=> ~ \E c \in Days : IsClosed(w, c) /\ d < c
      BY <1>4, <1>6
    <2>2. valued => \A p \in present : ~ unmarked(p)
      BY DEF HasValue
    <2>3. plan.events = <<DayClosed(d, entries)>> /\ plan.events # <<>>
      BY SomeEvents DEF Plan
    <2> HIDE DEF first, unmarked, plan, entries, present
    <2>4. AnswersTold(CloseError(w, d), CloseDayPlans(w, b, d))
      BY <1>1, <1>2, <1>3, <1>6, <2>1, <2>2, <2>3 DEF When, AnswersTold
    <2>5. \A other \in CloseDayPlans(w, b, d) : other = plan
      BY <1>2, <1>6 DEF When
    <2> QED BY <1>6, <2>3, <2>4, <2>5
  <1> QED BY <1>5, <1>6
-----------------------------------------------------------------------------
(***************************************************************************)
(* Every decision, route by route.                                         *)
(***************************************************************************)
LEMMA DecisionFields ==
  ASSUME NEW error, NEW plan
  PROVE  Decision(error, plan).error = error /\ Decision(error, plan).plan = plan
  BY DEF Decision

(* The first close of a day.                                               *)
LEMMA FirstCloseIsTold ==
  ASSUME NEW w, NEW b, NEW d \in Days, ~ IsClosed(w, d)
  PROVE  /\ AnswersTold(CloseError(w, d), CloseDayPlans(w, b, d))
         /\ \A plan \in CloseDayPlans(w, b, d) :
              \E entries : plan.events = <<DayClosed(d, entries)>>
  BY ClosingIsTold

(* A request that is no execution on the broker's terms.                   *)
LEMMA PlannedDecisions ==
  ASSUME NEW w, NEW b, NEW n, NEW r, ~ (Executes(r) /\ r.qty = None),
         NEW decision \in Decisions(w, b, n, r)
  PROVE  /\ decision.error = Refusal(w, b, n, r)
         /\ \/ PlansOf(w, b, n, r) = {} /\ decision.plan = Plan(<<>>, b)
            \/ decision.plan \in PlansOf(w, b, n, r)
  BY DecisionFields DEF Decisions

LEMMA ToldDecisions ==
  ASSUME NEW w, NEW b, NEW n, NEW r, ~ (Executes(r) /\ r.qty = None),
         AnswersTold(Refusal(w, b, n, r), PlansOf(w, b, n, r)),
         NEW decision \in Decisions(w, b, n, r)
  PROVE  decision.error = None <=> decision.plan.events # <<>>
  BY PlannedDecisions, SomeEvents DEF AnswersTold

(* The commands whose answer is an error exactly when they come to         *)
(* nothing: all but the close of a day.                                    *)
LEMMA RequestsAreTold ==
  ASSUME NEW w \in World, Story(w), Owned(w), NEW b \in Broker, NEW n, NEW r \in Requests,
         ~ BadRequest(r), ~ (Executes(r) /\ r.qty = None), r \notin PostMarks,
         r \notin PostResets, r \notin PostCloses
  PROVE  AnswersTold(Refusal(w, b, n, r), PlansOf(w, b, n, r))
  <1>1. CASE r \in PostParticipants
    <2>1. r.route = "create_participant"
      BY <1>1, ParticipantsParse
    <2> QED BY <2>1, JoiningIsTold DEF Refusal, PlansOf
  <1>2. CASE r \in PostOrders
    <2>1. r.route = "submit_order" /\ TermsOf(r) \in Terms
      BY <1>2, OrdersParse
    <2> QED BY <2>1, SubmissionIsTold DEF Refusal, PlansOf
  <1>3. CASE r \in DeleteOrders
    <2>1. r.route = "cancel_order"
      BY <1>3, CancelsParse
    <2> QED BY <2>1, CancellingIsTold DEF Refusal, PlansOf
  <1>4. CASE r \in PutOrders
    <2>1. r.route = "replace_order" /\ r.id \in Ids /\ r.qty \in Nat /\ r.limit_px \in Pxs
      BY <1>4, ReplacementsParse
    <2> QED BY <2>1, ReplacingIsTold DEF Refusal, PlansOf
  <1>5. CASE r \in PostExecutions
    <2>1. r.route = "execute_order" /\ r.id \in Ids
      BY <1>5, ExecutionsParse
    <2>2. r.qty # None
      BY <2>1 DEF Executes
    <2>3. r.qty \in Nat /\ r.px \in Pxs
      BY <1>5, <2>2, ExecutionsParse
    <2> QED BY <2>1, <2>3, ExecutionIsTold DEF Refusal, PlansOf
  <1>6. CASE r \in PostInstruments
    <2>1. CASE r.route = "create_instrument"
      BY <2>1, ListingIsTold DEF Refusal, PlansOf
    <2>2. CASE r.route = "update_instrument"
      BY <2>2, ListingIsTold DEF Refusal, PlansOf
    <2> QED BY <1>6, <2>1, <2>2, InstrumentsParse
  <1>7. CASE r \in DeleteInstruments
    <2>1. r.route = "remove_instrument"
      BY <1>7, DelistingsParse
    <2> QED BY <2>1, DelistingIsTold DEF Refusal, PlansOf
  <1> QED BY <1>1, <1>2, <1>3, <1>4, <1>5, <1>6, <1>7, Routed

LEMMA CloseDecisions ==
  ASSUME NEW w, NEW b, NEW n, NEW r \in PostCloses, ~ BadRequest(r),
         NEW decision \in Decisions(w, b, n, r)
  PROVE  /\ IsClosed(w, r.day) => decision.error = None /\ decision.plan.events = <<>>
         /\ ~ IsClosed(w, r.day) =>
              /\ decision.error = None <=> decision.plan.events # <<>>
              /\ decision.error = None =>
                   \E entries : decision.plan.events = <<DayClosed(r.day, entries)>>
         /\ decision.plan.events = <<>> \/ decision.plan \in CloseDayPlans(w, b, r.day)
  <1>1. r.route = "close_day" /\ r.day \in Days /\ ~ Executes(r)
    BY ClosesParse DEF Executes
  <1>2. /\ Refusal(w, b, n, r) = CloseError(w, r.day)
        /\ PlansOf(w, b, n, r) = CloseDayPlans(w, b, r.day)
    BY <1>1 DEF Refusal, PlansOf
  <1>3. /\ decision.error = CloseError(w, r.day)
        /\ \/ CloseDayPlans(w, b, r.day) = {} /\ decision.plan = Plan(<<>>, b)
           \/ decision.plan \in CloseDayPlans(w, b, r.day)
    <2>1. ~ (Executes(r) /\ r.qty = None)
      BY <1>1
    <2>2. /\ decision.error = Refusal(w, b, n, r)
          /\ \/ PlansOf(w, b, n, r) = {} /\ decision.plan = Plan(<<>>, b)
             \/ decision.plan \in PlansOf(w, b, n, r)
      BY <2>1, PlannedDecisions
    <2> QED BY <1>2, <2>2
  <1>4. CASE IsClosed(w, r.day)
    <2>1. CloseError(w, r.day) = None /\ CloseDayPlans(w, b, r.day) = {Plan(<<>>, b)}
      BY <1>1, <1>4, ClosingIsTold
    <2>2. decision.error = None /\ decision.plan = Plan(<<>>, b)
      BY <1>3, <2>1
    <2>3. decision.plan.events = <<>>
      BY <2>2, SomeEvents
    <2> QED BY <1>4, <2>2, <2>3
  <1>5. CASE ~ IsClosed(w, r.day)
    <2> DEFINE error == CloseError(w, r.day)
               plans == CloseDayPlans(w, b, r.day)
    <2>1. r.day \in Days
      BY <1>1
    <2>2. AnswersTold(error, plans)
      BY <2>1, <1>5, FirstCloseIsTold
    <2>3. \A plan \in plans : \E entries : plan.events = <<DayClosed(r.day, entries)>>
      BY <2>1, <1>5, FirstCloseIsTold
    <2>4. /\ plans = {} => error # None
          /\ \A plan \in plans : error = None <=> plan.events # <<>>
      <3> HIDE DEF error, plans
      <3> QED BY <2>2, <2>3 DEF AnswersTold
    <2>5. decision.plan = Plan(<<>>, b) => decision.plan.events = <<>>
      BY SomeEvents
    <2>6. decision.error = error /\ ((plans = {} /\ decision.plan = Plan(<<>>, b)) \/ decision.plan \in plans)
      BY <1>3
    <2> HIDE DEF error
    <2>7. CASE plans = {} /\ decision.plan = Plan(<<>>, b)
      BY <1>5, <2>4, <2>5, <2>6, <2>7
    <2>8. CASE decision.plan \in plans
      <3>1. decision.error = None <=> decision.plan.events # <<>>
        BY <2>4, <2>6, <2>8
      <3>2. \E entries : decision.plan.events = <<DayClosed(r.day, entries)>>
        BY <2>2, <2>3, <2>8
      <3> QED BY <1>5, <2>8, <3>1, <3>2
    <2> QED BY <2>6, <2>7, <2>8
  <1> QED BY <1>4, <1>5

(* A request that executes parses as one.                                  *)
LEMMA ExecutesIsExecution ==
  ASSUME NEW r \in Requests, Executes(r)
  PROVE  r \in PostExecutions /\ r.id \in Ids
  <1>1. r.route = "execute_order"
    BY DEF Executes
  <1>2. r \in PostExecutions
    BY <1>1, Routed, ParticipantsParse, OrdersParse, CancelsParse, ReplacementsParse,
       InstrumentsParse, DelistingsParse, BatchesParse, ClosesParse, ResetsParse
  <1> QED BY <1>2, ExecutionsParse

(* A request that is one command: neither a batch of marks nor a reset.    *)
Single(r) == r \in Requests /\ ~ BadRequest(r) /\ r \notin PostMarks /\ r \notin PostResets

LEMMA SingleRoutes ==
  ASSUME NEW r, Single(r)
  PROVE  r.route # "update_marks" /\ r.route # "reset"
  BY Routed, ParticipantsParse, OrdersParse, CancelsParse, ReplacementsParse, ExecutionsParse,
     InstrumentsParse, DelistingsParse, ClosesParse DEF Single

LEMMA DecisionsAreTold ==
  ASSUME NEW w \in World, Story(w), Owned(w), NEW b \in Broker, NEW n, NEW r, Single(r),
         NEW decision \in Decisions(w, b, n, r)
  PROVE  /\ decision.error # None => decision.plan.events = <<>>
         /\ decision.error = None /\ decision.plan.events = <<>> =>
              r.route = "close_day" /\ IsClosed(w, r.day)
  <1>1. CASE Executes(r) /\ r.qty = None
    <2>1. decision \in AutoDecisions(w, b, r.id)
      BY <1>1 DEF Decisions
    <2>2. r.id \in Ids
      BY <1>1, ExecutesIsExecution DEF Single
    <2> QED BY <2>1, <2>2, SlicesAreTold
  <1>2. CASE ~ (Executes(r) /\ r.qty = None)
    <2>1. CASE r \in PostCloses
      BY <2>1, CloseDecisions, ClosesParse DEF Single
    <2>2. CASE r \notin PostCloses
      BY <1>2, <2>2, RequestsAreTold, ToldDecisions DEF Single
    <2> QED BY <2>1, <2>2
  <1> QED BY <1>1, <1>2

(* What is decided can be carried out, but for fills without room.         *)
Carries(w, r, events) ==
  /\ CommitOk(w, events) <=> RoomForTurnover(w, events)
  /\ ~ Executes(r) => CommitOk(w, events)

LEMMA NothingCarries == ASSUME NEW w, NEW b, NEW r PROVE Carries(w, r, Plan(<<>>, b).events)
  BY NothingIsSure DEF Carries

LEMMA CertainCarry ==
  ASSUME NEW w, NEW plans, Certain(w, plans), NEW plan \in plans, NEW r
  PROVE  Carries(w, r, plan.events)
  BY DEF Certain, Carries

LEMMA PlansCarry ==
  ASSUME NEW w \in World, NEW b \in Broker, NEW n, NEW r, Single(r),
         Mints(r) => n \in Ids, ~ (Executes(r) /\ r.qty = None),
         NEW plan \in PlansOf(w, b, n, r)
  PROVE  Carries(w, r, plan.events)
  <1>1. CASE r \in PostParticipants
    <2>1. PlansOf(w, b, n, r) = CreateParticipantPlans(w, b, r.participant, r.cash)
      BY <1>1, ParticipantsParse DEF PlansOf
    <2>2. Certain(w, PlansOf(w, b, n, r))
      BY <2>1, OthersAreCertain
    <2> QED BY <2>2, CertainCarry
  <1>2. CASE r \in PostOrders
    <2>1. r.route = "submit_order" /\ TermsOf(r) \in Terms
      BY <1>2, OrdersParse DEF Single
    <2>2. PlansOf(w, b, n, r) = SubmitPlans(w, b, n, TermsOf(r)) /\ n \in Ids
      BY <2>1 DEF PlansOf, Mints, Single
    <2>3. Certain(w, PlansOf(w, b, n, r))
      BY <2>1, <2>2, SubmissionIsCertain
    <2> QED BY <2>3, CertainCarry
  <1>3. CASE r \in DeleteOrders
    <2>1. PlansOf(w, b, n, r) = CancelPlans(w, b, r.id)
      BY <1>3, CancelsParse DEF PlansOf
    <2>2. Certain(w, PlansOf(w, b, n, r))
      BY <2>1, OthersAreCertain
    <2> QED BY <2>2, CertainCarry
  <1>4. CASE r \in PutOrders
    <2>1. r.route = "replace_order" /\ r.id \in Ids /\ r.qty \in Nat /\ r.limit_px \in Pxs
      BY <1>4, ReplacementsParse DEF Single
    <2>2. PlansOf(w, b, n, r) = ReplacePlans(w, b, r.id, n, r.qty, r.limit_px) /\ n \in Ids
      BY <2>1 DEF PlansOf, Mints, Single
    <2>3. Certain(w, PlansOf(w, b, n, r))
      BY <2>1, <2>2, ReplacingIsCertain
    <2> QED BY <2>3, CertainCarry
  <1>5. CASE r \in PostExecutions
    <2>1. r.route = "execute_order" /\ r.id \in Ids
      BY <1>5, ExecutionsParse
    <2>2. Executes(r) /\ r.qty # None
      BY <2>1 DEF Executes
    <2>3. r.qty \in Nat /\ r.px \in Pxs
      BY <1>5, <2>2, ExecutionsParse DEF Single
    <2>4. plan \in ExecutePlans(w, b, r.id, r.qty, r.px)
      BY <2>1 DEF PlansOf
    <2>5. CommitOk(w, plan.events) <=> RoomForTurnover(w, plan.events)
      BY <2>1, <2>3, <2>4, ExecutionIsSure DEF Sure
    <2> QED BY <2>2, <2>5 DEF Carries
  <1>6. CASE r \in PostInstruments
    <2>1. PlansOf(w, b, n, r) \in {CreateInstrumentPlans(w, b, r.symbol, r.spec),
                                   UpdateInstrumentPlans(w, b, r.symbol, r.spec)}
      BY <1>6, InstrumentsParse DEF PlansOf
    <2>2. Certain(w, PlansOf(w, b, n, r))
      BY <2>1, OthersAreCertain
    <2> QED BY <2>2, CertainCarry
  <1>7. CASE r \in DeleteInstruments
    <2>1. PlansOf(w, b, n, r) = RemoveInstrumentPlans(w, b, r.symbol)
      BY <1>7, DelistingsParse DEF PlansOf
    <2>2. Certain(w, PlansOf(w, b, n, r))
      BY <2>1, OthersAreCertain
    <2> QED BY <2>2, CertainCarry
  <1>8. CASE r \in PostCloses
    <2>1. PlansOf(w, b, n, r) = CloseDayPlans(w, b, r.day)
      BY <1>8, ClosesParse DEF PlansOf
    <2>2. Certain(w, PlansOf(w, b, n, r))
      BY <2>1, OthersAreCertain
    <2> QED BY <2>2, CertainCarry
  <1> QED BY <1>1, <1>2, <1>3, <1>4, <1>5, <1>6, <1>7, <1>8, Routed DEF Single

LEMMA DecisionsCarry ==
  ASSUME NEW w \in World, Story(w), Owned(w), NEW b \in Broker, NEW n, NEW r, Single(r),
         Mints(r) => n \in Ids, NEW decision \in Decisions(w, b, n, r)
  PROVE  Carries(w, r, decision.plan.events)
  <1>1. CASE Executes(r) /\ r.qty = None
    <2>1. decision \in AutoDecisions(w, b, r.id)
      BY <1>1 DEF Decisions
    <2>2. r.id \in Ids
      BY <1>1, ExecutesIsExecution DEF Single
    <2>3. CASE decision.plan.events = <<>>
      <3>1. Carries(w, r, <<>>)
        BY NothingCarries, SomeEvents
      <3> QED BY <2>3, <3>1
    <2>4. CASE decision.plan.events # <<>>
      <3>1. decision.plan \in AutoExecutePlans(w, b, r.id)
        BY <2>1, <2>2, <2>4, SlicesAreTold
      <3>2. CommitOk(w, decision.plan.events) <=> RoomForTurnover(w, decision.plan.events)
        BY <2>2, <3>1, ExecutionIsSure DEF Sure
      <3> QED BY <1>1, <3>2 DEF Carries
    <2> QED BY <2>3, <2>4
  <1>2. CASE ~ (Executes(r) /\ r.qty = None)
    <2>1. decision.plan = Plan(<<>>, b) \/ decision.plan \in PlansOf(w, b, n, r)
      BY <1>2, PlannedDecisions
    <2> QED BY <1>2, <2>1, NothingCarries, PlansCarry
  <1> QED BY <1>1, <1>2

-----------------------------------------------------------------------------
(***************************************************************************)
(* Every answer.                                                           *)
(***************************************************************************)
(* What becomes of a request that is one command.                          *)
LEMMA SingleOutcomes ==
  ASSUME NEW w, NEW b, NEW n, NEW r, Single(r), NEW outcome \in Outcomes(w, b, n, r)
  PROVE  \E decision \in Decisions(w, b, n, r) :
           /\ ~ outcome.cleared /\ outcome.broker = decision.plan.broker
           /\ \/ /\ outcome.journaled = decision.plan.events
                 /\ outcome.error = IF decision.error = None /\ ~ CommitOk(w, decision.plan.events)
                                    THEN "Domain" ELSE decision.error
              \/ outcome.journaled = <<>> /\ outcome.error = "Store"
  <1>1. PICK decision \in Decisions(w, b, n, r) : outcome \in Performed(w, decision)
    BY SingleRoutes DEF Outcomes, Single
  <1> DEFINE events == decision.plan.events
             minted == decision.plan.broker
             error == IF decision.error = None /\ ~ CommitOk(w, events) THEN "Domain"
                      ELSE decision.error
  <1>2. outcome \in {Outcome(error, FALSE, events, minted), Outcome("Store", FALSE, <<>>, minted)}
    BY <1>1 DEF Performed, When
  <1> HIDE DEF events, minted, error
  <1>3. CASE outcome = Outcome(error, FALSE, events, minted)
    <2>1. /\ outcome.error = error /\ outcome.cleared = FALSE
          /\ outcome.journaled = events /\ outcome.broker = minted
      BY <1>3 DEF Outcome
    <2> QED BY <2>1 DEF events, minted, error
  <1>4. CASE outcome = Outcome("Store", FALSE, <<>>, minted)
    <2>1. /\ outcome.error = "Store" /\ outcome.cleared = FALSE
          /\ outcome.journaled = <<>> /\ outcome.broker = minted
      BY <1>4 DEF Outcome
    <2> QED BY <2>1 DEF minted
  <1> QED BY <1>2, <1>3, <1>4

(* What was done when n of the commands were.                              *)
CutAfter(outcome, events, b, n) ==
  /\ outcome.broker = b /\ outcome.journaled = SubSeq(events, 1, n)
  /\ outcome.error = IF n < Len(events) THEN "Store" ELSE None

LEMMA InTurn ==
  ASSUME NEW cleared, NEW events, NEW b, NEW outcome \in DoneInTurn(cleared, events, b)
  PROVE  /\ outcome.cleared = cleared
         /\ \E n \in 0..Len(events) : CutAfter(outcome, events, b, n)
  <1> DEFINE error(n) == IF n < Len(events) THEN "Store" ELSE None
  <1>1. PICK n \in 0..Len(events) :
           outcome = Outcome(error(n), cleared, SubSeq(events, 1, n), b)
    BY DEF DoneInTurn
  <1> HIDE DEF error
  <1>2. /\ outcome.cleared = cleared /\ outcome.broker = b
        /\ outcome.journaled = SubSeq(events, 1, n) /\ outcome.error = error(n)
    BY <1>1 DEF Outcome
  <1>3. CutAfter(outcome, events, b, n)
    BY <1>2 DEF CutAfter, error
  <1> QED BY <1>2, <1>3, Zenon

(* What a batch of marks comes to.                                         *)
LEMMA BatchesInTurn ==
  ASSUME NEW w, NEW b, NEW n, NEW r \in PostMarks, ~ BadRequest(r),
         NEW outcome \in Outcomes(w, b, n, r)
  PROVE  outcome \in DoneInTurn(FALSE, MarksOf(r.marks), b)
  <1>1. r.route = "update_marks"
    BY BatchesParse
  <1> QED BY <1>1 DEF Outcomes, BatchOutcomes, MarksOf

(* What a reset comes to.                                                  *)
LEMMA ResetsInTurn ==
  ASSUME NEW w, NEW b, NEW n, NEW r \in PostResets, NEW outcome \in Outcomes(w, b, n, r)
  PROVE  \/ /\ ~ outcome.cleared /\ outcome.journaled = <<>>
            /\ outcome.broker = b /\ outcome.error = "Store"
         \/ outcome \in DoneInTurn(TRUE, SeedEvents, FreshBroker)
  <1>1. r.route = "reset"
    BY ResetsParse
  <1>2. ~ BadRequest(r)
    BY <1>1 DEF BadRequest
  <1>3. outcome \in ResetOutcomes(b)
    BY <1>1, <1>2 DEF Outcomes
  <1>4. CASE outcome = Outcome("Store", FALSE, <<>>, b)
    <2>1. /\ outcome.error = "Store" /\ outcome.cleared = FALSE
          /\ outcome.journaled = <<>> /\ outcome.broker = b
      BY <1>4 DEF Outcome
    <2> QED BY <2>1
  <1> QED BY <1>3, <1>4 DEF ResetOutcomes

LEMMA BadOutcomes ==
  ASSUME NEW w, NEW b, NEW n, NEW r, BadRequest(r), NEW outcome \in Outcomes(w, b, n, r)
  PROVE  /\ outcome.error # None /\ ~ outcome.cleared
         /\ outcome.journaled = <<>> /\ outcome.broker = b
  <1>1. "BadRequest" # None
    BY ErrorsArePresent DEF Errors
  <1>2. outcome = Outcome("BadRequest", FALSE, <<>>, b)
    BY DEF Outcomes
  <1>3. /\ outcome.error = "BadRequest" /\ outcome.cleared = FALSE
        /\ outcome.journaled = <<>> /\ outcome.broker = b
    BY <1>2 DEF Outcome
  <1> QED BY <1>1, <1>3

(* What the answer says and what was done agree.                           *)
TrueOf(w, r, outcome) ==
  IF outcome.error = None THEN CarriedOut(w, r, outcome)
  ELSE \/ ~ outcome.cleared /\ outcome.journaled = <<>>
       \/ /\ StatusOf(outcome.error) = 500
          /\ CutShort(r, outcome) \/ HalfApplied(w, r, outcome)

LEMMA ServersFault == StatusOf("Domain") = 500 /\ StatusOf("Store") = 500
  BY DEF StatusOf, Missing, Conflicts, Unprocessable, Internal

LEMMA SinglesAreTrue ==
  ASSUME NEW w \in World, Story(w), Owned(w), NEW b \in Broker, NEW n, NEW r, Single(r),
         Mints(r) => n \in Ids, NEW outcome \in Outcomes(w, b, n, r)
  PROVE  TrueOf(w, r, outcome)
  <1>1. PICK decision \in Decisions(w, b, n, r) :
           /\ ~ outcome.cleared /\ outcome.broker = decision.plan.broker
           /\ \/ /\ outcome.journaled = decision.plan.events
                 /\ outcome.error = IF decision.error = None /\ ~ CommitOk(w, decision.plan.events)
                                    THEN "Domain" ELSE decision.error
              \/ outcome.journaled = <<>> /\ outcome.error = "Store"
    BY SingleOutcomes
  <1>2. "Domain" # None /\ "Store" # None
    BY ErrorsArePresent DEF Errors, Internal
  <1>3. CASE outcome.error = "Store" /\ outcome.journaled = <<>>
    BY <1>1, <1>2, <1>3 DEF TrueOf
  <1>4. CASE outcome.journaled = decision.plan.events /\ decision.error # None
             /\ outcome.error = decision.error
    BY <1>1, <1>4, DecisionsAreTold DEF TrueOf
  <1>5. CASE /\ outcome.journaled = decision.plan.events /\ decision.error = None
             /\ ~ CommitOk(w, decision.plan.events) /\ outcome.error = "Domain"
    <2>1. Executes(r) /\ ~ RoomForTurnover(w, outcome.journaled)
      BY <1>5, DecisionsCarry DEF Carries
    <2>2. HalfApplied(w, r, outcome)
      BY <1>1, <1>5, <2>1 DEF HalfApplied
    <2> QED BY <1>2, <1>5, <2>2, ServersFault DEF TrueOf
  <1>6. CASE /\ outcome.journaled = decision.plan.events /\ decision.error = None
             /\ CommitOk(w, decision.plan.events) /\ outcome.error = None
    <2>1. outcome.journaled = <<>> => r.route = "close_day" /\ IsClosed(w, r.day)
      BY <1>6, DecisionsAreTold
    <2>2. CarriedOut(w, r, outcome)
      BY <1>1, <1>6, <2>1, SingleRoutes DEF CarriedOut
    <2> QED BY <1>6, <2>2 DEF TrueOf
  <1> QED BY <1>1, <1>3, <1>4, <1>5, <1>6

LEMMA BatchesAreTrue ==
  ASSUME NEW w, NEW b, NEW n, NEW r \in PostMarks, ~ BadRequest(r),
         NEW outcome \in Outcomes(w, b, n, r)
  PROVE  TrueOf(w, r, outcome)
  <1> DEFINE events == MarksOf(r.marks)
  <1>1. /\ r.route = "update_marks" /\ events \in Seq(MarkEvent)
        /\ Len(events) <= 2 /\ Len(events) = Len(r.marks)
    BY BatchesParse
  <1>2. \A e \in MarkEvent : \A v : Applies(v, e)
    BY DEF MarkEvent, Applies
  <1> HIDE DEF events
  <1>0. outcome \in DoneInTurn(FALSE, events, b)
    BY BatchesInTurn DEF events
  <1>a. PICK k \in 0..Len(events) : CutAfter(outcome, events, b, k)
    BY <1>0, InTurn
  <1>b. outcome.cleared = FALSE
    BY <1>0, InTurn
  <1>3. /\ outcome.cleared = FALSE /\ outcome.journaled = SubSeq(events, 1, k)
        /\ outcome.error = IF k < Len(events) THEN "Store" ELSE None
    BY <1>a, <1>b DEF CutAfter
  <1>4. "Store" # None
    BY ErrorsArePresent DEF Errors, Internal
  <1>5. Len(SubSeq(events, 1, k)) = k
    BY <1>1
  <1>6. CASE k < Len(events)
    <2>1. CutShort(r, outcome)
      BY <1>1, <1>3, <1>5, <1>6 DEF CutShort
    <2> QED BY <1>3, <1>4, <1>6, <2>1, ServersFault DEF TrueOf
  <1>7. CASE k = Len(events)
    <2>1. outcome.journaled = events
      BY <1>1, <1>3, <1>7
    <2>2. CommitOk(w, events)
      BY <1>1, <1>2 DEF CommitOk
    <2>3. CarriedOut(w, r, outcome)
      BY <1>1, <1>3, <2>1, <2>2 DEF CarriedOut
    <2> QED BY <1>3, <1>7, <2>3 DEF TrueOf
  <1> QED BY <1>1, <1>6, <1>7

LEMMA SeedsTyped ==
  /\ SeedEvents \in Seq(UpsertedEvent)
  /\ Len(SeedEvents) \in Nat
  <1>1. Len(Seeds) \in Nat /\ DOMAIN Seeds = 1..Len(Seeds)
        /\ \A n \in 1..Len(Seeds) : Seeds[n] \in Symbols
    BY SeedingAssumption
  <1>2. \A s \in Symbols : InstrumentUpserted(s, SeedSpec) \in UpsertedEvent
    BY SeedingAssumption DEF InstrumentUpserted, UpsertedEvent
  <1>3. SeedEvents = [n \in 1..Len(Seeds) |-> InstrumentUpserted(Seeds[n], SeedSpec)]
    BY <1>1 DEF SeedEvents
  <1> QED BY <1>1, <1>2, <1>3

LEMMA ResetsAreTrue ==
  ASSUME NEW w, NEW b, NEW n, NEW r \in PostResets, NEW outcome \in Outcomes(w, b, n, r)
  PROVE  TrueOf(w, r, outcome)
  <1>1. "Store" # None
    BY ErrorsArePresent DEF Errors, Internal
  <1>2. CASE ~ outcome.cleared /\ outcome.journaled = <<>> /\ outcome.error = "Store"
    BY <1>1, <1>2 DEF TrueOf
  <1>3. CASE outcome \in DoneInTurn(TRUE, SeedEvents, FreshBroker)
    <2>a. PICK k \in 0..Len(SeedEvents) : CutAfter(outcome, SeedEvents, FreshBroker, k)
      BY <1>3, InTurn
    <2>b. outcome.cleared = TRUE
      BY <1>3, InTurn
    <2>1. /\ outcome.cleared = TRUE /\ outcome.journaled = SubSeq(SeedEvents, 1, k)
          /\ outcome.error = IF k < Len(SeedEvents) THEN "Store" ELSE None
      BY <2>a, <2>b DEF CutAfter
    <2>2. r.route = "reset"
      BY ResetsParse
    <2>3. Len(SubSeq(SeedEvents, 1, k)) = k
      BY SeedsTyped
    <2>4. CASE k < Len(SeedEvents)
      <3>1. CutShort(r, outcome)
        BY <2>1, <2>2, <2>3, <2>4 DEF CutShort
      <3> QED BY <1>1, <2>1, <2>4, <3>1, ServersFault DEF TrueOf
    <2>5. CASE k = Len(SeedEvents)
      <3>1. outcome.journaled = SeedEvents
        BY <2>1, <2>5, SeedsTyped
      <3>2. CarriedOut(w, r, outcome)
        BY <2>1, <2>2, <3>1 DEF CarriedOut
      <3> QED BY <2>1, <2>5, <3>2 DEF TrueOf
    <2> QED BY <2>4, <2>5, SeedsTyped
  <1> QED BY <1>2, <1>3, ResetsInTurn

LEMMA OutcomesAreTrue ==
  ASSUME NEW w \in World, Story(w), Owned(w), NEW b \in Broker, NEW n, NEW r \in Requests,
         Mints(r) => n \in Ids, NEW outcome \in Outcomes(w, b, n, r)
  PROVE  TrueOf(w, r, outcome)
  <1>1. CASE BadRequest(r)
    BY <1>1, BadOutcomes DEF TrueOf
  <1>2. CASE ~ BadRequest(r) /\ r \in PostMarks
    BY <1>2, BatchesAreTrue
  <1>3. CASE r \in PostResets
    BY <1>3, ResetsAreTrue
  <1>4. CASE Single(r)
    BY <1>4, SinglesAreTrue
  <1> QED BY <1>1, <1>2, <1>3, <1>4 DEF Single
-----------------------------------------------------------------------------
(***************************************************************************)
(* What no well-formed plan takes back: a participant stays, an order that *)
(* ended stays as it ended, a closed day stays closed, and every order     *)
(* keeps an owner the engine knows.                                        *)
(***************************************************************************)
AllStay(w, u) ==
  \A p \in Participants : w.participants[p] # None => u.participants[p] # None

(* An event that enters an order names a participant who has joined.       *)
Vouched(w, e) ==
  /\ e.kind = "OrderSubmitted" => w.participants[e.order.participant] # None
  /\ e.kind = "OrderReplaced" => w.participants[e.replacement.participant] # None

LEMMA OpenTyped ==
  ASSUME NEW cash \in Int
  PROVE  Open(cash) \in Book /\ Open(cash) # None
  <1>1. Open(cash) \in Book
    BY DEF Open, Book, Flat, Position
  <1> QED BY <1>1, NoneAssumption

LEMMA FilledStay ==
  ASSUME NEW w \in World, NEW e \in FilledEvent, OrderTakes(w, e)
  PROVE  AllStay(w, ApplyFilled(w, e))
  <1> DEFINE u == ApplyFilled(w, e)
  <1>1. w.orders[e.id] # None /\ e.qty > 0
    BY DEF OrderTakes, CanFill
  <1>2. CASE BookTakes(w, e)
    <2> DEFINE b == w.participants[Trader(w, e.id)]
               f == FillOf(w, e)
    <2>1. /\ u.participants[Trader(w, e.id)] = BookFill(b, f)
          /\ \A p \in Participants \ {Trader(w, e.id)} : u.participants[p] = w.participants[p]
      BY <1>2, FilledBooks
    <2>2. /\ Trader(w, e.id) \in Participants /\ f.symbol \in Symbols /\ f.side \in Sides
          /\ f.qty \in Nat /\ f.qty > 0 /\ f.px \in Pxs /\ f.fee \in Int
      BY <1>1, FillFacts
    <2>3. b \in Book /\ BookAccepts(b, f)
      BY <1>2, <2>2, WorldFields DEF BookTakes
    <2>4. BookFill(b, f) \in Book
      <3> HIDE DEF b, f
      <3> QED BY <2>2, <2>3, BookFillTyped
    <2>5. BookFill(b, f) # None
      BY <2>4, NoneAssumption
    <2> HIDE DEF u, b, f
    <2> QED BY <2>1, <2>5 DEF AllStay, u
  <1>3. CASE ~ BookTakes(w, e)
    <2>1. u.participants = w.participants
      BY <1>1, <1>3, FillOrderTyped DEF ApplyFilled
    <2> QED BY <2>1 DEF AllStay
  <1> QED BY <1>2, <1>3

LEMMA ApplyStay ==
  ASSUME NEW w \in World, NEW e \in Event
  PROVE  AllStay(w, Apply(w, e))
  <1> DEFINE u == Apply(w, e)
  <1>1. CASE e \in CreatedEvent
    <2>1. /\ e.participant \in Participants
          /\ u.participants = [w.participants EXCEPT ![e.participant] = Open(e.starting_cash)]
      BY <1>1 DEF Apply, CreatedEvent, World
    <2>2. Open(e.starting_cash) # None
      BY <1>1, OpenTyped DEF CreatedEvent
    <2> HIDE DEF u
    <2> QED BY <2>1, <2>2, WorldFields DEF AllStay, u
  <1>2. CASE e \in FilledEvent
    <2>1. e.kind = "OrderFilled"
      BY <1>2 DEF FilledEvent
    <2>2. CASE OrderTakes(w, e)
      <3>1. u = ApplyFilled(w, e)
        BY <2>1, <2>2 DEF Apply
      <3> QED BY <1>2, <2>2, <3>1, FilledStay
    <2>3. CASE ~ OrderTakes(w, e)
      <3>1. u = w
        BY <2>1, <2>3 DEF Apply
      <3> QED BY <3>1 DEF AllStay
    <2> QED BY <2>2, <2>3
  <1>3. CASE e \in SubmittedEvent \cup AcknowledgedEvent \cup RejectedEvent
    <2>1. u.participants = w.participants
      BY <1>3 DEF Apply, ApplyAcknowledged, ApplyRejected, World,
                  SubmittedEvent, AcknowledgedEvent, RejectedEvent
    <2> QED BY <2>1 DEF AllStay
  <1>4. CASE e \in CancelledEvent \cup ReplacedEvent
    <2>1. u.participants = w.participants
      BY <1>4 DEF Apply, ApplyCancelled, ApplyReplaced, World, CancelledEvent, ReplacedEvent
    <2> QED BY <2>1 DEF AllStay
  <1>5. CASE e \in MarkEvent \cup UpsertedEvent \cup RemovedEvent
    <2>1. u.participants = w.participants
      BY <1>5 DEF Apply, World, MarkEvent, UpsertedEvent, RemovedEvent
    <2> QED BY <2>1 DEF AllStay
  <1>6. CASE e \in ClosedEvent
    <2>1. u.participants = w.participants
      BY <1>6 DEF Apply, ApplyDayClosed, World, ClosedEvent
    <2> QED BY <2>1 DEF AllStay
  <1> QED BY <1>1, <1>2, <1>3, <1>4, <1>5, <1>6 DEF Event

(* Only a submission or a replacement enters an order.                     *)
LEMMA EnteredOrders ==
  ASSUME NEW w \in World, NEW e \in Event, NEW i \in Ids, w.orders[i] = None,
         Apply(w, e).orders[i] # None
  PROVE  \/ e \in SubmittedEvent /\ Apply(w, e).orders[i] = Submitted(e.order, None)
         \/ /\ e \in ReplacedEvent
            /\ Apply(w, e).orders[i] = Submitted(e.replacement, e.original)
  <1> DEFINE u == Apply(w, e)
  <1>1. CASE e \in SubmittedEvent
    <2>1. e.id \in Ids /\ u.orders = [w.orders EXCEPT ![e.id] = Submitted(e.order, None)]
      BY <1>1 DEF Apply, SubmittedEvent, World
    <2> HIDE DEF u
    <2> QED BY <1>1, <2>1, WorldFields DEF u
  <1>2. CASE e \in ReplacedEvent
    <2>1. e.kind = "OrderReplaced" /\ e.id \in Ids /\ e.original \in Ids
      BY <1>2 DEF ReplacedEvent
    <2>2. CASE Applies(w, e)
      <3> DEFINE orders == Advance(w.orders, e.original, Cancel(w.orders[e.original].state))
      <3>1. w.orders[e.original] # None
        BY <2>1, <2>2 DEF Applies
      <3>2. u.orders = [orders EXCEPT ![e.id] = Submitted(e.replacement, e.original)]
        BY <2>1, <2>2 DEF Apply, ApplyReplaced, World
      <3>3. DOMAIN orders = Ids /\ (i # e.original => orders[i] = w.orders[i])
        BY WorldFields DEF Advance
      <3> HIDE DEF u, orders
      <3> QED BY <1>2, <2>1, <3>1, <3>2, <3>3 DEF u
    <2>3. CASE ~ Applies(w, e)
      BY <2>1, <2>3 DEF Apply
    <2> QED BY <2>2, <2>3
  <1>3. CASE e \in AcknowledgedEvent \cup RejectedEvent \cup CancelledEvent
    <2>1. CASE Applies(w, e)
      <3>1. /\ e.id \in Ids /\ w.orders[e.id] # None
            /\ \E state : u.orders = Advance(w.orders, e.id, state)
        <4>1. CASE e \in AcknowledgedEvent
          BY <2>1, <4>1 DEF Applies, Apply, ApplyAcknowledged, World, AcknowledgedEvent
        <4>2. CASE e \in RejectedEvent
          BY <2>1, <4>2 DEF Applies, Apply, ApplyRejected, World, RejectedEvent
        <4>3. CASE e \in CancelledEvent
          BY <2>1, <4>3 DEF Applies, Apply, ApplyCancelled, World, CancelledEvent
        <4> QED BY <1>3, <4>1, <4>2, <4>3
      <3> HIDE DEF u
      <3> QED BY <3>1, WorldFields DEF Advance, u
    <2>2. CASE ~ Applies(w, e)
      BY <1>3, <2>2 DEF Apply, AcknowledgedEvent, RejectedEvent, CancelledEvent
    <2> QED BY <2>1, <2>2
  <1>4. CASE e \in FilledEvent
    <2>1. e.kind = "OrderFilled" /\ e.id \in Ids
      BY <1>4 DEF FilledEvent
    <2>2. CASE OrderTakes(w, e)
      <3>1. u = ApplyFilled(w, e)
        BY <2>1, <2>2 DEF Apply
      <3>2. w.orders[e.id] # None /\ \E state : u.orders = Advance(w.orders, e.id, state)
        BY <1>4, <2>2, <3>1, FilledOrders DEF OrderTakes
      <3> HIDE DEF u
      <3> QED BY <2>1, <3>2, WorldFields DEF Advance, u
    <2>3. CASE ~ OrderTakes(w, e)
      BY <2>1, <2>3 DEF Apply
    <2> QED BY <2>2, <2>3
  <1>5. CASE e \in CreatedEvent \cup MarkEvent \cup UpsertedEvent \cup RemovedEvent \cup ClosedEvent
    <2>1. u.orders = w.orders
      BY <1>5 DEF Apply, ApplyDayClosed, World, CreatedEvent, MarkEvent, UpsertedEvent,
                  RemovedEvent, ClosedEvent
    <2> QED BY <2>1
  <1> QED BY <1>1, <1>2, <1>3, <1>4, <1>5 DEF Event
LEMMA ApplyOwned ==
  ASSUME NEW w \in World, NEW b, Story(w), Owned(w), NEW e \in Event, Proper(w, b, e),
         Vouched(w, e)
  PROVE  Owned(Apply(w, e))
  <1> DEFINE u == Apply(w, e)
  <1>1. u \in World /\ AllStay(w, u) /\ History(w, u)
    BY ApplyTyped, ApplyStay, ApplyHistory
  <1> SUFFICES ASSUME NEW i \in Ids, u.orders[i] # None
               PROVE  u.participants[u.orders[i].participant] # None
    BY DEF Owned
  <1>2. CASE w.orders[i] # None
    <2> DEFINE o == w.orders[i]
               n == u.orders[i]
    <2>1. o \in Order /\ n \in Order
      <3> HIDE DEF u
      <3> QED BY <1>1, <1>2, WorldFields
    <2>2. [n EXCEPT !.state = o.state] = o
      BY <1>1, <1>2 DEF History, Continues
    <2>3. n.participant = o.participant /\ o.participant \in Participants
      <3> HIDE DEF n, o
      <3> QED BY <2>1, <2>2 DEF Order
    <2>4. w.participants[o.participant] # None
      BY <1>2 DEF Owned
    <2> HIDE DEF u
    <2> QED BY <1>1, <2>3, <2>4 DEF AllStay
  <1>3. CASE w.orders[i] = None /\ e \in SubmittedEvent /\ u.orders[i] = Submitted(e.order, None)
    <2>1. /\ e.order.participant \in Participants
          /\ w.participants[e.order.participant] # None
      BY <1>3 DEF SubmittedEvent, Terms, Vouched
    <2>2. u.orders[i].participant = e.order.participant
      <3> HIDE DEF u
      <3> QED BY <1>3 DEF Submitted
    <2> HIDE DEF u
    <2> QED BY <1>1, <2>1, <2>2 DEF AllStay
  <1>4. CASE w.orders[i] = None /\ e \in ReplacedEvent
             /\ u.orders[i] = Submitted(e.replacement, e.original)
    <2>1. /\ e.replacement.participant \in Participants
          /\ w.participants[e.replacement.participant] # None
      BY <1>4 DEF ReplacedEvent, Terms, Vouched
    <2>2. u.orders[i].participant = e.replacement.participant
      <3> HIDE DEF u
      <3> QED BY <1>4 DEF Submitted
    <2> HIDE DEF u
    <2> QED BY <1>1, <2>1, <2>2 DEF AllStay
  <1> QED BY <1>2, <1>3, <1>4, EnteredOrders

(* Everything the proof needs to know of how one world follows another.    *)
Follows(w, u) ==
  /\ u \in World /\ Story(u) /\ Owned(u)
  /\ AllStay(w, u) /\ History(w, u) /\ DaysStand(w, u)

LEMMA NothingFollows ==
  ASSUME NEW w \in World, Story(w), Owned(w)
  PROVE  Follows(w, w)
  BY NothingChanges DEF Follows, AllStay, DaysStand

LEMMA ApplyFollows ==
  ASSUME NEW w \in World, NEW b, Story(w), Owned(w), NEW e \in Event, Proper(w, b, e),
         Vouched(w, e)
  PROVE  Follows(w, Apply(w, e))
  BY ApplyTyped, ApplyStory, ApplyOwned, ApplyStay, ApplyHistory, ApplyDays DEF Follows

LEMMA FollowsTwice ==
  ASSUME NEW w \in World, NEW u, NEW v, Follows(w, u), Follows(u, v)
  PROVE  Follows(w, v)
  <1>1. History(w, v)
    BY HistoryContinues DEF Follows
  <1>2. AllStay(w, v)
    BY DEF Follows, AllStay
  <1>3. DaysStand(w, v)
    BY NoneAssumption DEF Follows, DaysStand, IsClosed
  <1> QED BY <1>1, <1>2, <1>3 DEF Follows

LEMMA AnswersVouched ==
  ASSUME NEW w, NEW e \in Answer
  PROVE  Vouched(w, e)
  BY DEF Vouched, Answer, AcknowledgedEvent, RejectedEvent

(* A plan that enters no order for a stranger.                             *)
VouchedPlan(w, b, plan) ==
  /\ ProperPlan(w, b, plan)
  /\ Len(plan.events) >= 1 => Vouched(w, plan.events[1])

LEMMA CommitFollows ==
  ASSUME NEW w \in World, NEW b, Story(w), Owned(w), NEW plan, VouchedPlan(w, b, plan)
  PROVE  Follows(w, Commit(w, plan.events)) /\ plan.broker \in Broker
  <1> DEFINE events == plan.events
             first == Apply(w, events[1])
  <1>1. /\ events \in Seq(Event) /\ Len(events) \in Nat /\ Len(events) <= 2
        /\ plan.broker \in Broker
    BY DEF VouchedPlan, ProperPlan, PlanOK
  <1>2. CASE Len(events) = 0
    <2>1. Commit(w, events) = w
      BY <1>2 DEF Commit
    <2> QED BY <1>1, <2>1, NothingFollows
  <1>3. Len(events) >= 1 => Follows(w, first)
    <2> SUFFICES ASSUME Len(events) >= 1 PROVE Follows(w, first)
      OBVIOUS
    <2>1. events[1] \in Event /\ Proper(w, b, events[1]) /\ Vouched(w, events[1])
      BY <1>1 DEF VouchedPlan, ProperPlan
    <2> QED BY <2>1, ApplyFollows
  <1>4. CASE Len(events) = 1
    <2>1. Commit(w, events) = first
      BY <1>4 DEF Commit
    <2> QED BY <1>1, <1>3, <1>4, <2>1
  <1>5. CASE Len(events) = 2
    <2>1. events[2] \in Answer
      BY <1>5 DEF VouchedPlan, ProperPlan
    <2>2. events[2] \in Event /\ Proper(first, b, events[2]) /\ Vouched(first, events[2])
      BY <2>1, AnswersAreProper, AnswersVouched
    <2>3. first \in World /\ Story(first) /\ Owned(first) /\ Follows(w, first)
      BY <1>3, <1>5 DEF Follows
    <2>4. Follows(w, Apply(first, events[2]))
      <3> HIDE DEF first, events
      <3>1. Follows(first, Apply(first, events[2]))
        BY <2>2, <2>3, ApplyFollows
      <3> QED BY <2>3, <3>1, FollowsTwice
    <2>5. Commit(w, events) \in {first, Apply(first, events[2])}
      BY <1>5 DEF Commit
    <2> QED BY <1>1, <2>3, <2>4, <2>5
  <1> QED BY <1>1, <1>2, <1>4, <1>5, AtMostTwo
(* Plans that enter no order.                                              *)
LEMMA OtherPlansVouched ==
  ASSUME NEW w, NEW b, NEW plan, ProperPlan(w, b, plan),
         Len(plan.events) >= 1 =>
           plan.events[1].kind \notin {"OrderSubmitted", "OrderReplaced"}
  PROVE  VouchedPlan(w, b, plan)
  BY DEF VouchedPlan, Vouched

LEMMA OneEvent ==
  ASSUME NEW e, NEW b
  PROVE  Plan(<<e>>, b).events[1] = e
  BY DEF Plan

LEMMA SubmissionVouched ==
  ASSUME NEW w \in World, NEW b \in Broker, NEW i \in Ids, NEW t \in Terms
  PROVE  \A plan \in SubmitPlans(w, b, i, t) : VouchedPlan(w, b, plan)
  <1> SUFFICES ASSUME NEW plan \in SubmitPlans(w, b, i, t) PROVE VouchedPlan(w, b, plan)
    OBVIOUS
  <1>1. /\ plan.events[1] = OrderSubmitted(i, t)
        /\ w.participants[t.participant] # None
    BY DEF SubmitPlans, When, Plan
  <1>2. Vouched(w, plan.events[1])
    BY <1>1 DEF Vouched, OrderSubmitted
  <1> QED BY <1>2, SubmitPlansProper DEF VouchedPlan

LEMMA ReplacingVouched ==
  ASSUME NEW w \in World, Owned(w), NEW b \in Broker, NEW i \in Ids, NEW j \in Ids,
         NEW qty \in Nat, NEW limit \in Pxs
  PROVE  \A plan \in ReplacePlans(w, b, i, j, qty, limit) : VouchedPlan(w, b, plan)
  <1> SUFFICES ASSUME NEW plan \in ReplacePlans(w, b, i, j, qty, limit)
               PROVE  VouchedPlan(w, b, plan)
    OBVIOUS
  <1> DEFINE t == ReplacementTerms(w.orders[i], qty, limit)
  <1>1. plan.events[1] = OrderReplaced(i, j, t) /\ w.orders[i] # None
    BY DEF ReplacePlans, When, Plan
  <1>2. w.participants[t.participant] # None
    BY <1>1 DEF Owned, ReplacementTerms
  <1>3. Vouched(w, plan.events[1])
    <2> HIDE DEF t
    <2> QED BY <1>1, <1>2 DEF Vouched, OrderReplaced
  <1> QED BY <1>3, ReplacePlansProper DEF VouchedPlan

LEMMA FillVouched ==
  ASSUME NEW w, NEW b, NEW e, e.kind = "OrderFilled", NEW c,
         NEW v, NEW a, ProperPlan(v, a, FillPlan(w, e, c))
  PROVE  VouchedPlan(v, a, FillPlan(w, e, c))
  <1> DEFINE plan == FillPlan(w, e, c)
  <1>1. plan.events = <<e>> \/ plan.events = <<>>
    BY DEF FillPlan, Plan
  <1> HIDE DEF plan
  <1>2. Len(plan.events) >= 1 => plan.events[1].kind \notin {"OrderSubmitted", "OrderReplaced"}
    BY <1>1
  <1> QED BY <1>2, OtherPlansVouched DEF plan

LEMMA ExecutionsVouched ==
  ASSUME NEW w \in World, NEW b \in Broker, NEW i \in Ids
  PROVE  /\ \A qty \in Nat, px \in Pxs :
              \A plan \in ExecutePlans(w, b, i, qty, px) : VouchedPlan(w, b, plan)
         /\ \A plan \in AutoExecutePlans(w, b, i) : VouchedPlan(w, b, plan)
  <1>1. \A q, px, fee : OrderFilled(i, b.next_exec_id, q, px, fee).kind = "OrderFilled"
    BY DEF OrderFilled
  <1>2. ASSUME NEW qty \in Nat, NEW px \in Pxs, NEW plan \in ExecutePlans(w, b, i, qty, px)
        PROVE  VouchedPlan(w, b, plan)
    <2>1. \E e : e.kind = "OrderFilled" /\ plan = FillPlan(w, e, MintedExec(b))
      BY <1>1, <1>2 DEF ExecutePlans, When
    <2>2. ProperPlan(w, b, plan)
      BY <1>2, ExecutePlansProper
    <2> QED BY <2>1, <2>2, FillVouched
  <1>3. ASSUME NEW plan \in AutoExecutePlans(w, b, i)
        PROVE  VouchedPlan(w, b, plan)
    <2>1. \E e : e.kind = "OrderFilled" /\ plan = FillPlan(w, e, MintedExec(b))
      BY <1>1, <1>3 DEF AutoExecutePlans
    <2>2. ProperPlan(w, b, plan)
      BY <1>3, AutoExecutePlansProper
    <2> QED BY <2>1, <2>2, FillVouched
  <1> QED BY <1>2, <1>3

LEMMA OthersVouched ==
  ASSUME NEW w \in World, NEW b \in Broker
  PROVE  /\ \A p \in Participants, cash \in Int :
              \A plan \in CreateParticipantPlans(w, b, p, cash) : VouchedPlan(w, b, plan)
         /\ \A i \in Ids : \A plan \in CancelPlans(w, b, i) : VouchedPlan(w, b, plan)
         /\ \A s \in Symbols, spec \in InstrumentSpec :
              /\ \A plan \in CreateInstrumentPlans(w, b, s, spec) : VouchedPlan(w, b, plan)
              /\ \A plan \in UpdateInstrumentPlans(w, b, s, spec) : VouchedPlan(w, b, plan)
         /\ \A s \in Symbols :
              \A plan \in RemoveInstrumentPlans(w, b, s) : VouchedPlan(w, b, plan)
         /\ \A d \in Days : \A plan \in CloseDayPlans(w, b, d) : VouchedPlan(w, b, plan)
  <1> DEFINE Others(plans) ==
               \A plan \in plans : Len(plan.events) >= 1 =>
                 plan.events[1].kind \notin {"OrderSubmitted", "OrderReplaced"}
  <1>1. \A e, c : e.kind \notin {"OrderSubmitted", "OrderReplaced"} =>
          \A condition : Others(When(condition, Plan(<<e>>, c)))
    BY OneEvent DEF When
  <1>2. \A plans : Others(plans) /\ (\A plan \in plans : ProperPlan(w, b, plan))
          => \A plan \in plans : VouchedPlan(w, b, plan)
    BY OtherPlansVouched
  <1>3. \A p, cash : Others(CreateParticipantPlans(w, b, p, cash))
    <2> TAKE p, cash
    <2> DEFINE e == ParticipantCreated(p, cash)
    <2>1. e.kind \notin {"OrderSubmitted", "OrderReplaced"}
      BY DEF ParticipantCreated
    <2> HIDE DEF e, Others
    <2> QED BY <1>1, <2>1 DEF CreateParticipantPlans, e
  <1>4. \A i : Others(CancelPlans(w, b, i))
    <2> TAKE i
    <2> DEFINE e == OrderCancelled(i)
    <2>1. e.kind \notin {"OrderSubmitted", "OrderReplaced"}
      BY DEF OrderCancelled
    <2> HIDE DEF e, Others
    <2> QED BY <1>1, <2>1 DEF CancelPlans, e
  <1>5. \A s, spec : /\ Others(CreateInstrumentPlans(w, b, s, spec))
                     /\ Others(UpdateInstrumentPlans(w, b, s, spec))
    <2> TAKE s, spec
    <2> DEFINE e == InstrumentUpserted(s, spec)
    <2>1. e.kind \notin {"OrderSubmitted", "OrderReplaced"}
      BY DEF InstrumentUpserted
    <2> HIDE DEF e, Others
    <2> QED BY <1>1, <2>1 DEF CreateInstrumentPlans, UpdateInstrumentPlans, e
  <1>6. \A s : Others(RemoveInstrumentPlans(w, b, s))
    <2> TAKE s
    <2> DEFINE e == InstrumentRemoved(s)
    <2>1. e.kind \notin {"OrderSubmitted", "OrderReplaced"}
      BY DEF InstrumentRemoved
    <2> HIDE DEF e, Others
    <2> QED BY <1>1, <2>1 DEF RemoveInstrumentPlans, e
  <1>7. \A d \in Days : Others(CloseDayPlans(w, b, d))
    <2> SUFFICES ASSUME NEW d \in Days, NEW plan \in CloseDayPlans(w, b, d)
                 PROVE  Len(plan.events) >= 1 =>
                          plan.events[1].kind \notin {"OrderSubmitted", "OrderReplaced"}
      OBVIOUS
    <2>1. plan.events = <<>> \/ \E entries : plan.events = <<DayClosed(d, entries)>>
      <3>1. CASE IsClosed(w, d)
        <4>1. plan = Plan(<<>>, b)
          BY <3>1, ClosingIsTold
        <4> QED BY <4>1, SomeEvents
      <3>2. CASE ~ IsClosed(w, d)
        BY <3>2, FirstCloseIsTold
      <3> QED BY <3>1, <3>2
    <2>2. \A entries : DayClosed(d, entries).kind \notin {"OrderSubmitted", "OrderReplaced"}
      BY DEF DayClosed
    <2>3. ASSUME NEW e, plan.events = <<e>> PROVE plan.events[1] = e
      BY <2>3
    <2>4. plan.events = <<>> => ~ (Len(plan.events) >= 1)
      OBVIOUS
    <2> QED BY <2>1, <2>2, <2>3, <2>4
  <1> HIDE DEF Others
  <1>8. \A d \in Days : \A plan \in CloseDayPlans(w, b, d) : VouchedPlan(w, b, plan)
    BY <1>2, <1>7, CloseDayPlansProper
  <1>9. \A i \in Ids : \A plan \in CancelPlans(w, b, i) : VouchedPlan(w, b, plan)
    BY <1>2, <1>4, CancelPlansProper
  <1>10. \A p \in Participants, cash \in Int :
           \A plan \in CreateParticipantPlans(w, b, p, cash) : VouchedPlan(w, b, plan)
    BY <1>2, <1>3, CreateParticipantPlansProper
  <1>11. \A s \in Symbols, spec \in InstrumentSpec :
           /\ \A plan \in CreateInstrumentPlans(w, b, s, spec) : VouchedPlan(w, b, plan)
           /\ \A plan \in UpdateInstrumentPlans(w, b, s, spec) : VouchedPlan(w, b, plan)
    BY <1>2, <1>5, InstrumentPlansProper
  <1>12. \A s \in Symbols :
           \A plan \in RemoveInstrumentPlans(w, b, s) : VouchedPlan(w, b, plan)
    BY <1>2, <1>6, RemoveInstrumentPlansProper
  <1> QED BY <1>8, <1>9, <1>10, <1>11, <1>12
(* A mark moves nothing else.                                              *)
LEMMA MarksFollow ==
  ASSUME NEW w \in World, Story(w), Owned(w),
         NEW events \in Seq(MarkEvent), Len(events) <= 2
  PROVE  Follows(w, Commit(w, events))
  <1> DEFINE first == Apply(w, events[1])
  <1>1. Len(events) \in Nat /\ \A n \in 1..Len(events) : events[n] \in MarkEvent
    OBVIOUS
  <1>2. ASSUME NEW v \in World, Story(v), Owned(v), NEW e \in MarkEvent
        PROVE  Follows(v, Apply(v, e))
    <2>1. e \in Event /\ Proper(v, FreshBroker, e)
      BY <1>2, FreeEvents
    <2>2. Vouched(v, e)
      BY DEF Vouched, MarkEvent
    <2> QED BY <1>2, <2>1, <2>2, ApplyFollows
  <1>3. CASE Len(events) = 0
    <2>1. Commit(w, events) = w
      BY <1>3 DEF Commit
    <2> QED BY <2>1, NothingFollows
  <1>4. CASE Len(events) = 1
    <2>1. Commit(w, events) = first /\ events[1] \in MarkEvent
      BY <1>1, <1>4 DEF Commit
    <2> QED BY <1>2, <2>1
  <1>5. CASE Len(events) = 2
    <2>1. Commit(w, events) \in {first, Apply(first, events[2])}
      BY <1>5 DEF Commit
    <2>2. events[1] \in MarkEvent /\ events[2] \in MarkEvent
      BY <1>1, <1>5
    <2>3. Follows(w, first)
      BY <1>2, <2>2
    <2> HIDE DEF first
    <2>4. Follows(first, Apply(first, events[2]))
      BY <1>2, <2>2, <2>3 DEF Follows
    <2> QED BY <2>1, <2>3, <2>4, FollowsTwice
  <1> QED BY <1>1, <1>3, <1>4, <1>5, AtMostTwo

LEMMA PlansVouched ==
  ASSUME NEW w \in World, Owned(w), NEW b \in Broker, NEW n, NEW r \in Requests,
         ~ BadRequest(r), ~ (Executes(r) /\ r.qty = None), r \notin PostMarks,
         r \notin PostResets, Mints(r) => n \in Ids
  PROVE  \A plan \in PlansOf(w, b, n, r) : VouchedPlan(w, b, plan)
  <1>1. CASE r \in PostParticipants
    <2>1. r.route = "create_participant" /\ r.participant \in Participants /\ r.cash \in Int
      BY <1>1, ParticipantsParse
    <2>2. PlansOf(w, b, n, r) = CreateParticipantPlans(w, b, r.participant, r.cash)
      BY <2>1 DEF PlansOf
    <2> QED BY <2>1, <2>2, OthersVouched
  <1>2. CASE r \in PostOrders
    <2>1. r.route = "submit_order" /\ TermsOf(r) \in Terms
      BY <1>2, OrdersParse
    <2>2. PlansOf(w, b, n, r) = SubmitPlans(w, b, n, TermsOf(r)) /\ n \in Ids
      BY <2>1 DEF PlansOf, Mints
    <2> QED BY <2>1, <2>2, SubmissionVouched
  <1>3. CASE r \in DeleteOrders
    <2>1. r.route = "cancel_order" /\ r.id \in Ids
      BY <1>3, CancelsParse
    <2>2. PlansOf(w, b, n, r) = CancelPlans(w, b, r.id)
      BY <2>1 DEF PlansOf
    <2> QED BY <2>1, <2>2, OthersVouched
  <1>4. CASE r \in PutOrders
    <2>1. r.route = "replace_order" /\ r.id \in Ids /\ r.qty \in Nat /\ r.limit_px \in Pxs
      BY <1>4, ReplacementsParse
    <2>2. PlansOf(w, b, n, r) = ReplacePlans(w, b, r.id, n, r.qty, r.limit_px) /\ n \in Ids
      BY <2>1 DEF PlansOf, Mints
    <2> QED BY <2>1, <2>2, ReplacingVouched
  <1>5. CASE r \in PostExecutions
    <2>1. r.route = "execute_order" /\ r.id \in Ids
      BY <1>5, ExecutionsParse
    <2>2. r.qty # None
      BY <2>1 DEF Executes
    <2>3. r.qty \in Nat /\ r.px \in Pxs
      BY <1>5, <2>2, ExecutionsParse
    <2>4. PlansOf(w, b, n, r) = ExecutePlans(w, b, r.id, r.qty, r.px)
      BY <2>1 DEF PlansOf
    <2> QED BY <2>1, <2>3, <2>4, ExecutionsVouched
  <1>6. CASE r \in PostInstruments
    <2>1. /\ r.route \in {"create_instrument", "update_instrument"}
          /\ r.symbol \in Symbols /\ r.spec \in InstrumentSpec
      BY <1>6, InstrumentsParse
    <2>2. PlansOf(w, b, n, r) \in {CreateInstrumentPlans(w, b, r.symbol, r.spec),
                                   UpdateInstrumentPlans(w, b, r.symbol, r.spec)}
      BY <2>1 DEF PlansOf
    <2> QED BY <2>1, <2>2, OthersVouched
  <1>7. CASE r \in DeleteInstruments
    <2>1. r.route = "remove_instrument" /\ r.symbol \in Symbols
      BY <1>7, DelistingsParse
    <2>2. PlansOf(w, b, n, r) = RemoveInstrumentPlans(w, b, r.symbol)
      BY <2>1 DEF PlansOf
    <2> QED BY <2>1, <2>2, OthersVouched
  <1>8. CASE r \in PostCloses
    <2>1. r.route = "close_day" /\ r.day \in Days
      BY <1>8, ClosesParse
    <2>2. PlansOf(w, b, n, r) = CloseDayPlans(w, b, r.day)
      BY <2>1 DEF PlansOf
    <2> QED BY <2>1, <2>2, OthersVouched
  <1> QED BY <1>1, <1>2, <1>3, <1>4, <1>5, <1>6, <1>7, <1>8, Routed

LEMMA DecisionsFollow ==
  ASSUME NEW w \in World, Story(w), Owned(w), NEW b \in Broker, NEW n, NEW r, Single(r),
         Mints(r) => n \in Ids, NEW decision \in Decisions(w, b, n, r)
  PROVE  Follows(w, Commit(w, decision.plan.events)) /\ decision.plan.broker \in Broker
  <1>1. ASSUME NEW c \in Broker, NEW plan, plan = Plan(<<>>, c)
        PROVE  Follows(w, Commit(w, plan.events)) /\ plan.broker \in Broker
    BY <1>1, NothingFollows, NothingHappens DEF Plan
  <1>2. CASE Executes(r) /\ r.qty = None
    <2>1. decision \in AutoDecisions(w, b, r.id) /\ r.id \in Ids
      BY <1>2, ExecutesIsExecution DEF Decisions, Single
    <2>2. CASE decision.plan.events = <<>>
      <3>1. decision.plan.broker \in Broker
        BY <2>1, <2>2, SlicesAreTold, BrokerTyped
      <3>2. Commit(w, decision.plan.events) = w
        BY <2>2 DEF Commit
      <3> QED BY <3>1, <3>2, NothingFollows
    <2>3. CASE decision.plan.events # <<>>
      <3>1. decision.plan \in AutoExecutePlans(w, b, r.id)
        BY <2>1, <2>3, SlicesAreTold
      <3> QED BY <2>1, <3>1, ExecutionsVouched, CommitFollows
    <2> QED BY <2>2, <2>3
  <1>3. CASE ~ (Executes(r) /\ r.qty = None)
    <2>1. decision.plan = Plan(<<>>, b) \/ decision.plan \in PlansOf(w, b, n, r)
      BY <1>3, PlannedDecisions
    <2>2. ASSUME decision.plan \in PlansOf(w, b, n, r)
          PROVE  VouchedPlan(w, b, decision.plan)
      BY <1>3, <2>2, PlansVouched DEF Single
    <2> QED BY <1>1, <2>1, <2>2, CommitFollows
  <1> QED BY <1>2, <1>3

(* Whatever is journaled without the journal being cleared leads on from   *)
(* the world there was.                                                    *)
LEMMA AnswersFollow ==
  ASSUME NEW w \in World, Story(w), Owned(w), NEW b \in Broker, NEW n, NEW r \in Requests,
         Mints(r) => n \in Ids, NEW outcome \in Outcomes(w, b, n, r), ~ outcome.cleared
  PROVE  Follows(w, Commit(w, outcome.journaled)) /\ outcome.broker \in Broker
  <1>1. Commit(w, <<>>) = w /\ Follows(w, w)
    BY NothingFollows DEF Commit
  <1>2. CASE BadRequest(r)
    BY <1>1, <1>2, BadOutcomes
  <1>3. CASE ~ BadRequest(r) /\ r \in PostMarks
    <2> DEFINE events == MarksOf(r.marks)
    <2>1. events \in Seq(MarkEvent) /\ Len(events) <= 2
      BY <1>3, BatchesParse
    <2> HIDE DEF events
    <2>2. outcome \in DoneInTurn(FALSE, events, b)
      BY <1>3, BatchesInTurn DEF events
    <2>a. PICK k \in 0..Len(events) : CutAfter(outcome, events, b, k)
      BY <2>2, InTurn
    <2>3. outcome.broker = b /\ outcome.journaled = SubSeq(events, 1, k)
      BY <2>a DEF CutAfter
    <2>4. SubSeq(events, 1, k) \in Seq(MarkEvent) /\ Len(SubSeq(events, 1, k)) <= 2
      BY <2>1
    <2> QED BY <2>3, <2>4, MarksFollow
  <1>4. CASE r \in PostResets
    <2>1. outcome \notin DoneInTurn(TRUE, SeedEvents, FreshBroker)
      BY InTurn
    <2>2. outcome.journaled = <<>> /\ outcome.broker = b
      BY <1>4, <2>1, ResetsInTurn
    <2> QED BY <1>1, <2>2
  <1>5. CASE Single(r)
    <2>1. PICK decision \in Decisions(w, b, n, r) :
             /\ outcome.broker = decision.plan.broker
             /\ outcome.journaled \in {decision.plan.events, <<>>}
      BY <1>5, SingleOutcomes
    <2>2. Follows(w, Commit(w, decision.plan.events)) /\ decision.plan.broker \in Broker
      BY <1>5, DecisionsFollow
    <2> QED BY <1>1, <2>1, <2>2
  <1> QED BY <1>2, <1>3, <1>4, <1>5 DEF Single

(* A world to start from: what a reset leaves, cut short or not.           *)
Stands(w) == w \in World /\ Story(w) /\ Owned(w)

LEMMA EmptyStands == Stands(EmptyWorld)
  BY EmptyWorldTyped, NoneAssumption DEF Stands, Story, StoryAt, Owned, EmptyWorld

LEMMA ListingsStand ==
  ASSUME NEW log \in Seq(UpsertedEvent)
  PROVE  Stands(Replay(log))
  <1>1. Len(log) \in Nat /\ \A k \in 1..Len(log) : log[k] \in UpsertedEvent
    OBVIOUS
  <1>2. PICK ws : Leads(ws, log, Len(log)) /\ Replay(log) = ws[Len(log)]
    BY <1>1, ReplayLeads
  <1> DEFINE Standing == {k \in Nat : Stands(ws[k])}
  <1>3. 0 \in Standing
    BY <1>2, EmptyStands DEF Leads
  <1>4. ASSUME NEW k \in 1..Len(log), k - 1 \in Standing
        PROVE  k \in Standing
    <2>1. Stands(ws[k - 1]) /\ ws[k] = Apply(ws[k - 1], log[k]) /\ log[k] \in UpsertedEvent
      BY <1>1, <1>2, <1>4 DEF Leads
    <2>2. log[k] \in Event /\ Proper(ws[k - 1], FreshBroker, log[k])
      BY <2>1, FreeEvents
    <2>3. Vouched(ws[k - 1], log[k])
      BY <2>1 DEF Vouched, UpsertedEvent
    <2>4. Stands(ws[k])
      BY <2>1, <2>2, <2>3, ApplyFollows DEF Stands, Follows
    <2> QED BY <2>4
  <1> HIDE DEF Standing
  <1>5. \A k \in 0..Len(log) : k \in Standing
    BY <1>1, <1>3, <1>4, UpTo
  <1>6. Len(log) \in Standing
    BY <1>1, <1>5
  <1> QED BY <1>2, <1>6 DEF Standing

LEMMA FreshTyped == FreshBroker \in Broker
  BY DEF FreshBroker, Broker

(* Only a reset clears the journal, and what it leaves can be built on.    *)
LEMMA ClearedStands ==
  ASSUME NEW w, NEW b, NEW n, NEW r \in Requests,
         NEW outcome \in Outcomes(w, b, n, r), outcome.cleared
  PROVE  Stands(Replay(outcome.journaled)) /\ outcome.broker \in Broker /\ ~ OnceOnly(r)
  <1>1. r \in PostResets
    <2>1. ~ BadRequest(r)
      BY BadOutcomes
    <2>2. r \notin PostMarks
      <3>1. outcome \notin DoneInTurn(FALSE, MarksOf(r.marks), b)
        BY InTurn
      <3> QED BY <2>1, <3>1, BatchesInTurn
    <2> QED BY <2>1, <2>2, SingleOutcomes DEF Single
  <1>0. outcome \in DoneInTurn(TRUE, SeedEvents, FreshBroker)
    BY <1>1, ResetsInTurn
  <1>a. PICK k \in 0..Len(SeedEvents) : CutAfter(outcome, SeedEvents, FreshBroker, k)
    BY <1>0, InTurn
  <1>2. outcome.broker = FreshBroker /\ outcome.journaled = SubSeq(SeedEvents, 1, k)
    BY <1>a DEF CutAfter
  <1>3. SubSeq(SeedEvents, 1, k) \in Seq(UpsertedEvent)
    BY SeedsTyped
  <1>4. ~ OnceOnly(r)
    BY <1>1, ResetsParse DEF OnceOnly
  <1> QED BY <1>2, <1>3, <1>4, ListingsStand, FreshTyped
-----------------------------------------------------------------------------
(***************************************************************************)
(* What can be had once only.  A request that was performed has left a     *)
(* mark on the world that nothing removes and that makes the same request  *)
(* come to nothing.                                                        *)
(***************************************************************************)
Ended(o) == o # None /\ IsTerminal(o.state)

Done(w, r) ==
  \/ r \in PostParticipants /\ w.participants[r.participant] # None
  \/ r \in DeleteOrders \cup PutOrders /\ Ended(w.orders[r.id])
  \/ r \in PostCloses /\ IsClosed(w, r.day)

LEMMA OnlyOne ==
  ASSUME NEW Kind, NEW seq \in Seq(Kind), Len(seq) = 1
  PROVE  seq[1] \in Kind
  <1>1. \A i \in 1..Len(seq) : seq[i] \in Kind
    OBVIOUS
  <1>2. 1 \in 1..Len(seq)
    OBVIOUS
  <1> QED BY <1>1, <1>2

LEMMA OnceOnlyRequests ==
  ASSUME NEW r \in Requests, OnceOnly(r)
  PROVE  /\ r \in PostParticipants \cup DeleteOrders \cup PutOrders \cup PostCloses
         /\ r \notin PostMarks /\ r \notin PostResets /\ ~ Executes(r)
  <1>1. r.route \in {"create_participant", "cancel_order", "replace_order",
                     "close_day"}
    BY DEF OnceOnly
  <1>2. /\ r \notin PostOrders /\ r \notin PostExecutions /\ r \notin PostInstruments
        /\ r \notin DeleteInstruments /\ r \notin PostMarks /\ r \notin PostResets
    BY <1>1, OrdersParse, ExecutionsParse, InstrumentsParse, DelistingsParse, BatchesParse,
       ResetsParse
  <1> QED BY <1>1, <1>2, Routed DEF Executes

LEMMA DoneStays ==
  ASSUME NEW w \in World, NEW u, Follows(w, u), NEW r \in Requests, ~ BadRequest(r),
         Done(w, r)
  PROVE  Done(u, r)
  <1>1. CASE r \in PostParticipants /\ w.participants[r.participant] # None
    BY <1>1, ParticipantsParse DEF Follows, AllStay, Done
  <1>2. CASE r \in DeleteOrders \cup PutOrders /\ Ended(w.orders[r.id])
    <2>1. r.id \in Ids
      BY <1>2, CancelsParse, ReplacementsParse
    <2>2. u.orders[r.id] = w.orders[r.id]
      BY <1>2, <2>1 DEF Follows, History, Continues, Ended
    <2> QED BY <1>2, <2>2 DEF Done
  <1>3. CASE r \in PostCloses /\ IsClosed(w, r.day)
    <2>1. r.day \in Days
      BY <1>3, ClosesParse
    <2>2. u.closed[r.day] = w.closed[r.day]
      BY <1>3, <2>1 DEF Follows, DaysStand
    <2> QED BY <1>3, <2>2 DEF Done, IsClosed
  <1> QED BY <1>1, <1>2, <1>3 DEF Done

(* The same request again comes to nothing.                                *)
LEMMA DoneDecidesNothing ==
  ASSUME NEW w, NEW b, NEW n, NEW r \in Requests, OnceOnly(r), ~ BadRequest(r), Done(w, r),
         NEW decision \in Decisions(w, b, n, r)
  PROVE  decision.plan.events = <<>>
  <1>1. ~ (Executes(r) /\ r.qty = None)
    BY OnceOnlyRequests
  <1>2. CASE r \in PostParticipants
    <2>1. r.route = "create_participant"
      BY <1>2, ParticipantsParse
    <2>2. w.participants[r.participant] # None
      BY <2>1, CancelsParse, ReplacementsParse, ClosesParse DEF Done
    <2>3. PlansOf(w, b, n, r) = {}
      BY <2>1, <2>2 DEF PlansOf, CreateParticipantPlans, When
    <2> QED BY <1>1, <2>3, PlannedDecisions, SomeEvents
  <1>3. CASE r \in DeleteOrders
    <2>1. r.route = "cancel_order"
      BY <1>3, CancelsParse
    <2>2. w.orders[r.id] # None /\ IsTerminal(w.orders[r.id].state)
      BY <2>1, ParticipantsParse, ClosesParse DEF Done, Ended
    <2>3. ~ CanCancel(w.orders[r.id].state)
      BY <2>2 DEF CanCancel, IsTerminal, Terminal, Live
    <2>4. PlansOf(w, b, n, r) = {}
      BY <2>1, <2>3 DEF PlansOf, CancelPlans, When
    <2> QED BY <1>1, <2>4, PlannedDecisions, SomeEvents
  <1>4. CASE r \in PutOrders
    <2>1. r.route = "replace_order"
      BY <1>4, ReplacementsParse
    <2>2. w.orders[r.id] # None /\ IsTerminal(w.orders[r.id].state)
      BY <2>1, ParticipantsParse, ClosesParse DEF Done, Ended
    <2>3. ~ CanCancel(w.orders[r.id].state)
      BY <2>2 DEF CanCancel, IsTerminal, Terminal, Live
    <2>4. ReplacePlans(w, b, r.id, n, r.qty, r.limit_px) = {}
      BY <2>3 DEF ReplacePlans, When
    <2>5. PlansOf(w, b, n, r) = {}
      BY <2>1, <2>4 DEF PlansOf
    <2> QED BY <1>1, <2>5, PlannedDecisions, SomeEvents
  <1>5. CASE r \in PostCloses
    <2>1. IsClosed(w, r.day)
      BY <1>5, ClosesParse, ParticipantsParse, CancelsParse, ReplacementsParse DEF Done
    <2> QED BY <1>5, <2>1, CloseDecisions
  <1> QED BY <1>2, <1>3, <1>4, <1>5, OnceOnlyRequests

LEMMA DoneIsDone ==
  ASSUME NEW w, NEW b, NEW n, NEW r \in Requests, OnceOnly(r), ~ BadRequest(r), Done(w, r),
         NEW outcome \in Outcomes(w, b, n, r)
  PROVE  outcome.journaled = <<>> /\ ~ outcome.cleared
  <1>1. Single(r)
    BY OnceOnlyRequests DEF Single
  <1> QED BY <1>1, SingleOutcomes, DoneDecidesNothing

(* A replaced order has been cancelled, whatever became of its successor.  *)
LEMMA ReplacedIsEnded ==
  ASSUME NEW w \in World, NEW b \in Broker, NEW i \in Ids, NEW j \in Ids,
         NEW qty \in Nat, NEW limit \in Pxs, NEW plan \in ReplacePlans(w, b, i, j, qty, limit)
  PROVE  Ended(Commit(w, plan.events).orders[i])
  <1> DEFINE t == ReplacementTerms(w.orders[i], qty, limit)
             why == RejectReason(w, Submitted(t, i))
             o == w.orders[i]
             s == Cancel(o.state)
             u == Commit(w, plan.events)
  <1>1. w.orders[j] = None /\ o # None /\ CanCancel(o.state)
    BY DEF ReplacePlans, When
  <1>2. /\ o \in Order /\ i # j /\ o.state \in OrderState
        /\ s \in OrderState /\ IsTerminal(s)
    BY <1>1, WorldFields, OrderFields, CancelledState, TransitionsTyped
  <1>3. t \in Terms
    BY <1>2 DEF ReplacementTerms, Terms, Order
  <1>4. u = Refused(w, j, t, i, why) \/ u = Taken(w, j, t, i, b.next_id)
    <2>1. CASE why # None /\ plan = Plan(<<OrderReplaced(i, j, t), OrderRejected(j, why)>>, b)
      <3>1. why \in Reasons
        BY <2>1, RejectReasonTyped
      <3>2. plan.events = <<OrderReplaced(i, j, t), OrderRejected(j, why)>>
        BY <2>1, PlanEvents
      <3> HIDE DEF t, why
      <3> QED BY <1>1, <1>3, <3>1, <3>2, AnsweredReplacement
    <2>2. CASE plan = Plan(<<OrderReplaced(i, j, t), OrderAcknowledged(j, b.next_id)>>, MintedId(b))
      <3>1. b.next_id \in Int
        BY BrokerTyped
      <3>2. plan.events = <<OrderReplaced(i, j, t), OrderAcknowledged(j, b.next_id)>>
        BY <2>2, PlanEvents
      <3> HIDE DEF t
      <3> QED BY <1>1, <1>3, <3>1, <3>2, AnsweredReplacement
    <2> QED BY <2>1, <2>2 DEF ReplacePlans, When
  <1>5. \E state : u.orders = Placed(w.orders, j, t, i, state)
    <2> HIDE DEF t, why, u
    <2>1. CASE u = Refused(w, j, t, i, why)
      <3>1. u.orders = Placed(w.orders, j, t, i, Reject(New, why))
        BY <2>1 DEF Refused, World
      <3> QED BY <3>1
    <2>2. CASE u = Taken(w, j, t, i, b.next_id)
      <3>1. u.orders = Placed(w.orders, j, t, i, Acknowledge(New, b.next_id))
        BY <2>2 DEF Taken, World
      <3> QED BY <3>1
    <2> QED BY <1>4, <2>1, <2>2
  <1>6. u.orders[i] = InState(o, s)
    <2>1. PICK state : u.orders = Placed(w.orders, j, t, i, state)
      BY <1>5
    <2>2. i # None
      BY NoneAssumption DEF Ids
    <2>3. u.orders = [Advance(w.orders, i, s) EXCEPT ![j] = [Submitted(t, i) EXCEPT !.state = state]]
      <3> HIDE DEF u, t
      <3> QED BY <2>1, <2>2 DEF Placed, Withdrawn
    <2> HIDE DEF u, t, s
    <2> QED BY <1>2, <2>3, WorldFields DEF Advance, InState
  <1> HIDE DEF u, s, o
  <1> QED BY <1>2, <1>6, InStateFields DEF Ended, u

(* A request that can be had once only, and was not refused, is done when  *)
(* its plan is committed.                                                  *)
LEMMA DecidedIsDone ==
  ASSUME NEW w \in World, Story(w), Owned(w), NEW b \in Broker, NEW n, NEW r \in Requests,
         OnceOnly(r), ~ BadRequest(r), Mints(r) => n \in Ids,
         NEW decision \in Decisions(w, b, n, r), decision.error = None
  PROVE  Done(Commit(w, decision.plan.events), r)
  <1> DEFINE events == decision.plan.events
             u == Commit(w, events)
  <1>1. ~ BadRequest(r) /\ ~ (Executes(r) /\ r.qty = None)
    BY OnceOnlyRequests
  <1>2. ASSUME r \notin PostCloses
        PROVE  events # <<>> /\ decision.plan \in PlansOf(w, b, n, r)
    <2>1. events # <<>>
      BY <1>1, <1>2, OnceOnlyRequests, RequestsAreTold, ToldDecisions
    <2> QED BY <1>1, <2>1, PlannedDecisions, SomeEvents
  <1>3. CASE r \in PostParticipants
    <2> DEFINE p == r.participant
               e == ParticipantCreated(p, r.cash)
    <2>1. r.route = "create_participant" /\ p \in Participants /\ r.cash \in Int
      BY <1>1, <1>3, ParticipantsParse
    <2>2. r \notin PostCloses
      BY <2>1, ClosesParse
    <2>3. decision.plan = Plan(<<e>>, b)
      BY <1>2, <2>1, <2>2 DEF PlansOf, CreateParticipantPlans, When
    <2>4. u = Apply(w, e)
      BY <2>3, OneHappens
    <2>5. Apply(w, e).participants = [w.participants EXCEPT ![p] = Open(r.cash)]
      BY <2>1 DEF Apply, ParticipantCreated, World
    <2>6. u.participants[p] # None
      <3>1. p \in Participants
        BY <2>1
      <3>2. u.participants = [w.participants EXCEPT ![p] = Open(r.cash)]
        BY <2>4, <2>5
      <3>3. DOMAIN w.participants = Participants
        BY WorldFields
      <3>4. Open(r.cash) # None
        BY <2>1, OpenTyped
      <3> HIDE DEF u, e
      <3> QED BY <3>1, <3>2, <3>3, <3>4
    <2> QED BY <1>1, <1>3, <2>6 DEF Done
  <1>4. CASE r \in DeleteOrders
    <2> DEFINE i == r.id
               o == w.orders[i]
               e == OrderCancelled(i)
               s == Cancel(o.state)
    <2>1. r.route = "cancel_order" /\ i \in Ids
      BY <1>4, CancelsParse
    <2>2. r \notin PostCloses
      BY <2>1, ClosesParse
    <2>3. decision.plan = Plan(<<e>>, b) /\ o # None /\ CanCancel(o.state)
      BY <1>2, <2>1, <2>2 DEF PlansOf, CancelPlans, When
    <2>4. u = Apply(w, e)
      BY <2>3, OneHappens
    <2>5. Apply(w, e).orders = Advance(w.orders, i, s)
      BY <2>1, <2>3 DEF Apply, Applies, ApplyCancelled, OrderCancelled, World
    <2>6. u.orders[i] = InState(o, s)
      <3>1. u.orders = Advance(w.orders, i, s)
        BY <2>4, <2>5
      <3>2. DOMAIN w.orders = Ids
        BY WorldFields
      <3> HIDE DEF u, e, s
      <3> QED BY <2>1, <3>1, <3>2 DEF Advance, InState
    <2>7. o \in Order /\ s \in OrderState /\ IsTerminal(s)
      BY <2>1, <2>3, WorldFields, CancelledState
    <2>8. Ended(u.orders[i])
      <3> HIDE DEF u, o, s
      <3> QED BY <2>6, <2>7, InStateFields DEF Ended
    <2> QED BY <1>1, <1>4, <2>8 DEF Done
  <1>5. CASE r \in PutOrders
    <2>1. r.route = "replace_order" /\ r.id \in Ids /\ r.qty \in Nat /\ r.limit_px \in Pxs
      BY <1>1, <1>5, ReplacementsParse
    <2>2. r \notin PostCloses /\ n \in Ids
      BY <1>1, <2>1, ClosesParse DEF Mints
    <2>3. decision.plan \in ReplacePlans(w, b, r.id, n, r.qty, r.limit_px)
      BY <1>2, <2>1, <2>2 DEF PlansOf
    <2>4. Ended(u.orders[r.id])
      BY <2>1, <2>2, <2>3, ReplacedIsEnded
    <2> QED BY <1>1, <1>5, <2>4 DEF Done
  <1>6. CASE r \in PostCloses
    <2>1. r.day \in Days
      BY <1>1, <1>6, ClosesParse
    <2>2. CASE IsClosed(w, r.day)
      <3>1. events = <<>>
        BY <1>1, <1>6, <2>2, CloseDecisions
      <3>2. u = w
        BY <3>1 DEF Commit
      <3> QED BY <1>1, <1>6, <2>2, <3>2 DEF Done
    <2>3. CASE ~ IsClosed(w, r.day)
      <3>1. events # <<>> /\ \E entries : events = <<DayClosed(r.day, entries)>>
        BY <1>1, <1>6, <2>3, CloseDecisions
      <3>2. decision.plan \in CloseDayPlans(w, b, r.day)
        BY <1>1, <1>6, <3>1, CloseDecisions
      <3>3. PICK entries : events = <<DayClosed(r.day, entries)>>
        BY <3>1
      <3> DEFINE e == DayClosed(r.day, entries)
      <3>4. e \in Event
        <4>0. ProperPlan(w, b, decision.plan)
          BY <2>1, <3>2, CloseDayPlansProper
        <4>1. events \in Seq(Event) /\ Len(events) = 1 /\ events[1] = e
          BY <3>3, <4>0 DEF ProperPlan, PlanOK
        <4> HIDE DEF e, events
        <4>2. events[1] \in Event
          BY <4>1, OnlyOne
        <4> QED BY <4>1, <4>2
      <3>5. entries \in [Participants -> DayInput \cup {None}]
        BY <3>4 DEF DayClosed, Event, CreatedEvent, SubmittedEvent, AcknowledgedEvent,
                    RejectedEvent, CancelledEvent, ReplacedEvent, FilledEvent, MarkEvent,
                    UpsertedEvent, RemovedEvent, ClosedEvent
      <3>6. u = Apply(w, e)
        <4>1. events = <<e>>
          BY <3>3
        <4>2. \A x : Commit(w, <<x>>) = Apply(w, x)
          BY DEF Commit
        <4> HIDE DEF e, events
        <4> QED BY <4>1, <4>2
      <3>7. Apply(w, e).closed = [w.closed EXCEPT ![r.day] = entries]
        BY DEF Apply, ApplyDayClosed, DayClosed, World
      <3>8. u.closed[r.day] = entries
        <4> HIDE DEF u, e
        <4> QED BY <2>1, <3>6, <3>7, WorldFields
      <3>9. IsClosed(u, r.day)
        BY <3>5, <3>8, NoneAssumption DEF IsClosed
      <3> QED BY <1>1, <1>6, <3>9 DEF Done
    <2> QED BY <2>2, <2>3
  <1> QED BY <1>3, <1>4, <1>5, <1>6, OnceOnlyRequests

LEMMA PerformedIsDone ==
  ASSUME NEW w \in World, Story(w), Owned(w), NEW b \in Broker, NEW n, NEW r \in Requests,
         OnceOnly(r), Mints(r) => n \in Ids, NEW outcome \in Outcomes(w, b, n, r),
         outcome.error = None
  PROVE  ~ BadRequest(r) /\ Done(Commit(w, outcome.journaled), r)
  <1>1. ~ BadRequest(r) /\ Single(r)
    BY BadOutcomes, OnceOnlyRequests DEF Single
  <1>2. PICK decision \in Decisions(w, b, n, r) :
           \/ /\ outcome.journaled = decision.plan.events
              /\ outcome.error = IF decision.error = None /\ ~ CommitOk(w, decision.plan.events)
                                 THEN "Domain" ELSE decision.error
           \/ outcome.journaled = <<>> /\ outcome.error = "Store"
    BY <1>1, SingleOutcomes
  <1>3. "Domain" # None /\ "Store" # None
    BY ErrorsArePresent DEF Errors, Internal
  <1>4. outcome.journaled = decision.plan.events /\ decision.error = None
    BY <1>2, <1>3
  <1> QED BY <1>1, <1>4, DecidedIsDone
-----------------------------------------------------------------------------
(***************************************************************************)
(* The HTTP face itself: a request whose answer was lost is done, and      *)
(* stays done whatever anybody asks for afterwards.                        *)
(***************************************************************************)
LostIsDone ==
  pending # None =>
    pending \in Requests /\ OnceOnly(pending) /\ ~ BadRequest(pending) /\ Done(world, pending)

RoutesInv == TypeOK /\ Story(world) /\ Owned(world) /\ LostIsDone

LEMMA RoutesInvStarts == RoutesInit => RoutesInv
  <1> SUFFICES ASSUME RoutesInit PROVE RoutesInv
    OBVIOUS
  <1>1. world = Replay(SeedEvents) /\ broker = FreshBroker /\ pending = None
    BY DEF RoutesInit
  <1>2. Stands(Replay(SeedEvents))
    BY SeedsTyped, ListingsStand
  <1> QED BY <1>1, <1>2, FreshTyped DEF RoutesInv, TypeOK, Stands, LostIsDone

(* What an answered request leaves behind, whoever sent it.                *)
LEMMA HandlingFollows ==
  ASSUME RoutesInv, NEW r \in Servable, NEW outcome \in Answers(r), Handle(r, outcome)
  PROVE  /\ Stands(world') /\ broker' \in Broker
         /\ ~ outcome.cleared => Follows(world, world')
         /\ OnceOnly(r) => ~ outcome.cleared
         /\ outcome.error = None /\ OnceOnly(r) => ~ BadRequest(r) /\ Done(world, r)'
  <1>1. world \in World /\ broker \in Broker /\ Story(world) /\ Owned(world)
    BY DEF RoutesInv, TypeOK
  <1>2. /\ r \in Requests /\ (Mints(r) => next_order_id \in Ids)
        /\ outcome \in Outcomes(world, broker, next_order_id, r)
    BY DEF Servable, Answers
  <1>3. CASE outcome.cleared
    <2>1. world' = Replay(outcome.journaled) /\ broker' = outcome.broker
      BY <1>3 DEF Handle
    <2> QED BY <1>2, <1>3, <2>1, ClearedStands
  <1>4. CASE ~ outcome.cleared
    <2>1. world' = Commit(world, outcome.journaled) /\ broker' = outcome.broker
      BY <1>4 DEF Handle
    <2>2. Follows(world, world') /\ broker' \in Broker
      BY <1>1, <1>2, <1>4, <2>1, AnswersFollow
    <2>3. ASSUME outcome.error = None, OnceOnly(r)
          PROVE  ~ BadRequest(r) /\ Done(world', r)
      BY <1>1, <1>2, <2>1, <2>3, PerformedIsDone
    <2> QED BY <1>4, <2>2, <2>3 DEF Done, Stands, Follows
  <1> QED BY <1>3, <1>4

LEMMA LostStaysDone ==
  ASSUME RoutesInv, Follows(world, world'), UNCHANGED pending
  PROVE  LostIsDone'
  <1> SUFFICES ASSUME pending # None
               PROVE  /\ pending \in Requests /\ OnceOnly(pending) /\ ~ BadRequest(pending)
                      /\ Done(world', pending)
    BY DEF LostIsDone, Done
  <1>1. world \in World
    BY DEF RoutesInv, TypeOK
  <1>2. /\ pending \in Requests /\ OnceOnly(pending) /\ ~ BadRequest(pending)
        /\ Done(world, pending)
    BY DEF RoutesInv, LostIsDone
  <1> QED BY <1>1, <1>2, DoneStays

LEMMA RoutesInvHolds ==
  ASSUME RoutesInv, [RoutesNext]_route_vars
  PROVE  RoutesInv'
  <1>1. ASSUME Stands(world'), broker' \in Broker, LostIsDone'
        PROVE  RoutesInv'
    BY <1>1 DEF RoutesInv, Stands, TypeOK
  <1>2. CASE Send
    <2>1. PICK r \in Servable : \E outcome \in Answers(r) :
            Handle(r, outcome) /\ pending' = IF outcome.cleared THEN None ELSE pending
      BY <1>2 DEF Send
    <2>2. PICK outcome \in Answers(r) :
            Handle(r, outcome) /\ pending' = IF outcome.cleared THEN None ELSE pending
      BY <2>1
    <2>3. Stands(world') /\ broker' \in Broker /\ (~ outcome.cleared => Follows(world, world'))
      BY <2>1, <2>2, HandlingFollows
    <2>4. CASE outcome.cleared
      BY <1>1, <2>2, <2>3, <2>4 DEF LostIsDone
    <2>5. CASE ~ outcome.cleared
      BY <1>1, <2>2, <2>3, <2>5, LostStaysDone
    <2> QED BY <2>4, <2>5
  <1>3. CASE SendUnanswered
    <2>1. PICK r \in Servable :
            /\ OnceOnly(r) /\ pending' = r
            /\ \E outcome \in Answers(r) : outcome.error = None /\ Handle(r, outcome)
      BY <1>3 DEF SendUnanswered
    <2>2. /\ Stands(world') /\ broker' \in Broker
          /\ ~ BadRequest(r) /\ Done(world, r)'
      BY <2>1, HandlingFollows
    <2>3. LostIsDone'
      BY <2>1, <2>2 DEF LostIsDone, Servable, Done
    <2> QED BY <1>1, <2>2, <2>3
  <1>4. CASE Retry
    <2>1. /\ pending \in Servable /\ UNCHANGED pending
          /\ \E outcome \in Answers(pending) : Handle(pending, outcome)
      BY <1>4 DEF Retry
    <2>2. OnceOnly(pending)
      BY <2>1, AbsenceAssumption DEF RoutesInv, LostIsDone, Servable
    <2>3. Stands(world') /\ broker' \in Broker /\ Follows(world, world')
      BY <2>1, <2>2, HandlingFollows
    <2>4. LostIsDone'
      BY <2>1, <2>3, LostStaysDone
    <2> QED BY <1>1, <2>3, <2>4
  <1>5. CASE UNCHANGED route_vars
    <2>1. UNCHANGED <<world, broker, pending>>
      BY <1>5 DEF route_vars, vars
    <2>2. Stands(world) /\ broker \in Broker
      BY DEF RoutesInv, TypeOK, Stands
    <2>3. Follows(world, world')
      BY <2>1, <2>2, NothingFollows DEF Stands
    <2>4. LostIsDone'
      BY <2>1, <2>3, LostStaysDone
    <2> QED BY <1>1, <2>1, <2>2, <2>4
  <1> QED BY <1>2, <1>3, <1>4, <1>5 DEF RoutesNext

LEMMA RoutesInvariant == RoutesSpec => []RoutesInv
  <1>1. RoutesInv /\ [RoutesNext]_route_vars => RoutesInv'
    BY RoutesInvHolds
  <1> QED BY <1>1, RoutesInvStarts, PTL DEF RoutesSpec

(* Whatever a client asks for, well-formed or not, whichever writes of the *)
(* journal fail, and however the book, the broker and the days stand:      *)
(* without an error all that was asked for has been carried out, and with  *)
(* one nothing has, but for a batch of marks or a reset that the journal   *)
(* cut short and for a fill that the day's turnover has no room for.       *)
THEOREM AnswersAlwaysTellTheTruth == RoutesSpec => []AnswersTellTheTruth
  <1>1. RoutesInv => AnswersTellTheTruth
    <2> SUFFICES ASSUME RoutesInv, NEW r \in Servable, NEW outcome \in Answers(r)
                 PROVE  TrueOf(world, r, outcome)
      BY DEF AnswersTellTheTruth, TrueOf
    <2>1. world \in World /\ broker \in Broker /\ Story(world) /\ Owned(world)
      BY DEF RoutesInv, TypeOK
    <2>2. /\ r \in Requests /\ (Mints(r) => next_order_id \in Ids)
          /\ outcome \in Outcomes(world, broker, next_order_id, r)
      BY DEF Servable, Answers
    <2> QED BY <2>1, <2>2, OutcomesAreTrue
  <1> QED BY <1>1, RoutesInvariant, PTL

(* Until the server is reset, a request to join, cancel, replace or close  *)
(* that was carried out while its answer was lost changes nothing when it  *)
(* is sent again, whatever other requests were carried out in between and  *)
(* however often it is sent.                                               *)
THEOREM RetriesAreAlwaysHarmless == RoutesSpec => RetriesAreHarmless
  <1>1. RoutesInv /\ [RoutesNext]_route_vars => [Retry => world' = world]_route_vars
    <2> SUFFICES ASSUME RoutesInv, Retry
                 PROVE  world' = world
      OBVIOUS
    <2>1. PICK outcome \in Answers(pending) : Handle(pending, outcome)
      BY DEF Retry
    <2>2. pending \in Requests /\ pending # None
      BY AbsenceAssumption DEF Retry, Servable
    <2>3. OnceOnly(pending) /\ ~ BadRequest(pending) /\ Done(world, pending)
      BY <2>2 DEF RoutesInv, LostIsDone
    <2>4. outcome.journaled = <<>> /\ ~ outcome.cleared
      BY <2>1, <2>2, <2>3, DoneIsDone DEF Answers
    <2>5. Commit(world, <<>>) = world
      BY DEF Commit
    <2> QED BY <2>1, <2>4, <2>5 DEF Handle
  <1> QED BY <1>1, RoutesInvariant, PTL DEF RoutesSpec, RetriesAreHarmless

(* In every world the HTTP face reaches, a reset one too, and under any id *)
(* it could mint next, the engine plans what its fold takes, but for the   *)
(* fills that the day's turnover has no room for.                          *)
THEOREM ServedPlansApply == RoutesSpec => []PlansApply
  <1>1. RoutesInv => PlansApply
    BY OffersAreSure DEF RoutesInv, PlansApply
  <1> QED BY <1>1, RoutesInvariant, PTL
=============================================================================
