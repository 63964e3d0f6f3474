-------------------------------- MODULE MCVenue -----------------------------
(***************************************************************************)
(* The security master: instruments listed, changed and removed while      *)
(* orders work and positions are held.  The venue starts in allowlist      *)
(* mode, as a seeded server does, and its operator never empties the       *)
(* registry, since an empty one trades every symbol.  And what the readers *)
(* of such a competition are shown.                                        *)
(***************************************************************************)
EXTENDS EngineProperties, Views

(* The finest grid without a cap, and a coarse one with a cap.             *)
VenueSpecs == {[tick |-> 1, lot |-> 1, max_order_qty |-> None],
               [tick |-> 2, lot |-> 2, max_order_qty |-> 2]}

ListedIn(w) == {s \in Symbols : w.instruments[s] # None}

SeededInit ==
  /\ \E spec \in Specs :
       world = [EmptyWorld EXCEPT
                  !.participants = [p \in Participants |->
                                      Open(CHOOSE c \in StartingCash : TRUE)],
                  !.instruments = [s \in Symbols |-> IF s = 1 THEN spec ELSE None]]
  /\ broker = FreshBroker

SeededSpec == SeededInit /\ [][Next]_vars

(* The operator's half of the bargain, an ACTION_CONSTRAINT of the run.     *)
KeepsAListing == ListedIn(world') # {}

-----------------------------------------------------------------------------
(* In an allowlist venue nothing unlisted is ever worked or held, so every *)
(* position can be unwound: the guards on submission, on replacement and   *)
(* on removal close every way in (command.rs: delisting must not strand    *)
(* what it cannot unwind).                                                 *)
UnlistedIsUnused ==
  ListedIn(world) # {} => \A s \in Symbols \ ListedIn(world) :
    /\ \A i \in Ids : IsWorking(world, i) => world.orders[i].symbol # s
    /\ \A p \in Participants : Joined(p) => world.participants[p].positions[s].qty = 0

(* Whatever rests at the venue, submitted or replacing, was on the grid    *)
(* and under the cap when it was accepted; a changed spec is not applied   *)
(* to it afterwards, and a refused one never reaches the broker.           *)
OnlyAdmissibleOrdersRest ==
  [][\A i \in Ids : ~ Known(i) /\ IsWorking(world', i) =>
       LET o == world'.orders[i]
           spec == world.instruments[o.symbol]
       IN  /\ spec # None
           /\ o.limit_px % spec.tick = 0 /\ o.qty % spec.lot = 0
           /\ spec.max_order_qty # None => o.qty <= spec.max_order_qty
           /\ world'.order_broker_ids[i] = broker.next_id]_vars

-----------------------------------------------------------------------------
Total(rows, amount(_)) ==
  Sum([s \in Symbols |->
         IF \E row \in rows : row.symbol = s
         THEN amount(CHOOSE row \in rows : row.symbol = s) ELSE 0], NumSymbols)

(* A portfolio's page adds up whenever it shows a valuation: its rows make *)
(* up its totals, and what it is worth is what it started with and both    *)
(* profits, to the last unit although averages are rounded.  It shows none *)
(* exactly when a row has no mark, and then neither number (dto.rs).       *)
PortfoliosAddUp ==
  \A p \in Participants : Joined(p) =>
    LET v == PortfolioView(world, p)
        value(row) == row.market_value
        profit(row) == row.unrealized_pnl
    IN  IF \E row \in v.positions : row.mark = None
        THEN v.total_value = None /\ v.unrealized_pnl = None
        ELSE /\ v.total_value = v.cash + Total(v.positions, value)
             /\ v.unrealized_pnl = Total(v.positions, profit)
             /\ v.total_value = v.starting_cash + v.realized_pnl + v.unrealized_pnl

(* The venue's id of an order is missing only if the venue never gave one: *)
(* in NEW and REJECTED, never after (dto.rs, broker_order_id).             *)
BrokerIdsAreQuoted ==
  \A i \in Ids : world.orders[i] # None =>
    LET v == OrderView(world, i)
    IN  v.broker_order_id = None <=> v.state \in {"NEW", "REJECTED"}

(* The pages agree with the world and with themselves.                     *)
PagesAgree == PortfoliosAddUp /\ BrokerIdsAreQuoted

-----------------------------------------------------------------------------
(* The venue never strands what it cannot unwind: whoever holds shares can *)
(* offer them under the rules of the moment (docs/decision-log.md, on      *)
(* delisting).  Not so when the registry starts empty: see the README.     *)
HoldingsCanBeOffered ==
  \A p \in Participants, s \in Symbols :
    Joined(p) /\ Holds(world.participants[p], s) => EffectiveSpec(world, s) # None
=============================================================================
