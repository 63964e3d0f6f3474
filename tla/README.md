# Verification of the paper-trading engine

TLA+ specifications of the paper-trading challenge in this repository, the TLC
configurations that model-check them, and TLAPS proofs of what holds for every
size of competition. The specifications are translated from the Rust sources
under `src/crates` and the cockpit's under `src/ui`; `PROJECT.json` maps every definition to its lines.

```
tlc -workers 2 -config MCTrade.cfg MCTrade      # one run; see the table below
tlapm BookProofs.tla                            # one proof module
```

## 1. The system

A paper-trading competition: participants submit orders on symbols, an operator
acts as the market (he decides when and how orders execute, sets marks, lists
instruments and closes days), and a ladder ranks the participants.

| component | source | state | operations |
|---|---|---|---|
| numbers | `domain/src/money.rs` | none | `Money`, `Px`, `Qty`: checked 64-bit arithmetic, `notional`, parsing and formatting |
| time | `domain/src/time.rs` | none | a trading day as text and back |
| order lifecycle | `domain/src/lifecycle.rs`, `order.rs` | an order's state | acknowledge, reject, cancel, fill; submit, replace |
| book | `domain/src/portfolio.rs`, `position.rs` | cash, realized P&L, fees, positions with their basis | apply a fill; value at marks |
| reference data | `domain/src/instrument.rs` | tick, lot, size cap of a symbol | admit or refuse an order |
| broker | `broker/src/lib.rs` | the next order id and execution id | acknowledge, price a fee, draw the next slice, execute |
| engine | `engine/src/engine.rs`, `command.rs`, `event.rs` | everything derived from the events: participants, orders, marks, registry, blotter, day counters, closed days | `decide` (11 commands), `apply` (11 events), `plan`, `commit`, `execute`, `replay` |
| journal | `store/src/lib.rs` | the `events` table, keyed by sequence number | append (one transaction, `ON CONFLICT DO NOTHING`), read all, clear |
| server | `api/src/lib.rs`, `routes.rs` | the engine behind one mutex, the order-id minter | open (replay, seed), execute, reset, one route per command |
| scoring | `scoring/src/lib.rs` | none | leaderboard of a day, ladder across days |
| wire format | `store/src/wire.rs` | none | an event as a journal row and back, through the constructors that check it |
| views and errors | `api/src/dto.rs`, `error.rs` | none | the world as pages, a refusal as a status |
| cockpit | `ui/src/store.ts`, `App.vue` | the panels, the last journal sequence seen, the selected day | poll, select a day |

How they interact. A route takes the server's mutex and passes a command to the
engine. `plan` decides it against the current world and returns the events it
would emit, already numbered; the server appends them to the journal, and only
then does `commit` fold them into the world. `apply` is the only mutator of the
world, shared by a live commit and by the replay a boot starts from. The broker
is the one piece of engine state that is not derived from events. The cockpit
polls the server over HTTP; scoring reads the facts a close has published.

What is hard here, and where it is dealt with:

* *long legal sequences*: reservations for working orders are not stored but
  recomputed at each submission (`engine.rs:274`), fees round once per
  execution but are reserved for the whole remainder, and the basis of a
  position rounds at every sale. The books must still agree after any mixture
  of partial fills, cancels and replaces.
* *half-done work*: `apply` of a fill touches the order, the book, the turnover,
  the fees and the tape in turn, and can err between two of them.
* *crashes*: the process can die between planning, appending and committing,
  between clearing the journal and rebuilding the engine, or between two seeds;
  an append can fail.
* *what is not in the journal*: the broker's counters.
* *stale state*: day counters, baselines and marks accumulated since an earlier
  close; a registry that changes under working orders.
* *ordering*: days closed twice or out of order; a replace racing a fill.
* *what a client sees*: an answer that is lost, a request that is asked again, a
  batch refused half way, a refusal that must leave nothing behind.
* *text*: an amount or a day is parsed from a request, kept, printed into a row
  or a page, and parsed again at the next start.
* *awaits*: a refresh of the cockpit is a chain of requests, and resets, trades,
  clicks and the next poll happen between any two of them.

The mutex makes each command atomic towards every other, so inside the server
there is no interleaving of commands to explore: what is concurrent there are
crashes, and outside it the clients, whose requests are atomic one by one.

## 2. The modules

```
Money ── Lifecycle ──┐
  ├───── Portfolio ──┴── World ── Commands ── Engine ──┬── EngineProperties ──┬── MCDays
  │       └ Sums               │                       │  Views (and Sorting)─┴── MCTrade, MCVenue
  │                            │                       ├── App (and Wire) ── MCApp
  │                            │                       │     (INSTANCE Atomic WITH world <- Durable,
  │                            │                       │      INSTANCE Feed WITH log <- Entries(journal))
  │                            │                       └── Routes ── MCRoutes
  │                            └── Scoring (and Sorting) ── Season ── MCSeason
  │                                               (MCDays: INSTANCE Season WITH closed <- world.closed)
  └── Decimals (and Digits) ──┐
Sums ── Digits ── Calendar ───┴── MCTexts     Sorting ── Feed ── Cockpit ── MCCockpit

CountingProofs (of Sums, Sorting) ──┬── SeasonProofs (and MCSeason)
                                    ├── CockpitProofs (and MCCockpit)
                                    ├── TextsProofs (and MCTexts)
                                    └── EngineProofs ──┬── AppProofs (and MCApp)
                                 (and EngineProperties)└── BookProofs ── MarketProofs
                                                      (and MCVenue, MCTrade, MCDays, MCRoutes)
```

| module | models | state and actions |
|---|---|---|
| `Money` | fixed-point numbers, fee, basis removed | `MaxRaw` is `i64::MAX`; `Fits` is "no checked operation errs" |
| `Sums` | loops over a `BTreeMap` | keys are numbered in map order; a loop is a sum, or a product, over `1..n` |
| `Sorting` | a `BTreeMap`'s order of its keys, the stable `slice::sort_by` and `Vec::retain` | an element's place is the number of those before it, equal ones in the order given (`SortBy`); `Retained` keeps the elements that pass, in their order |
| `Lifecycle` | the six order states and `apply` | a guard `CanX` (the call returns `Ok`) and a successor `X` per event |
| `Portfolio` | `Portfolio::apply`, `Position::buy/sell`, `total_value` | `BookAccepts` (returns `Ok`), `BookFill` (the new book), `HasValue` (`total_value` does not err) |
| `World` | the engine's derived state, the events, `Engine::apply`, `commit`, `replay` | a world is a record with one field per map of the Rust struct; `Apply(w, e)` is what the call leaves behind, `Applies(w, e)` whether it returned `Ok`. A fill that errs half way leaves its half |
| `Commands` | `Engine::decide`, the broker, the venue's refusals, `check_affordable` | one `...Plans` operator per command: the set of (events, broker afterwards) it may produce; empty means refused without a trace |
| `Engine` | `Engine::execute` as a state machine | variables `world`, `broker`; one action per command |
| `App` | the server process and its journal | variables `journal` (the sequence numbers there are, each with its row), `seq`, `next_order_id`, the command in progress (`entries`, `stage`), `mode`, `todo` (seeds left); actions `Boot`, `ApplySeed`, `Serving`, `AppendEntries`, `AppendFails`, `CommitEntries`, `ClearJournal`, `Rebuild`, `Crash` and one per route |
| `Atomic` | what the server promises | a world that starts as `Fresh` and changes by one whole command (`Outcomes(world)`), or a reset, at a time |
| `Wire` | `From<&Event> for WireEvent` and `TryFrom<WireEvent> for Event` | `Encode(e)` is the row, `Decode(row)` the event or `None` where a constructor refuses; `RoundTrips(e)` |
| `Feed` | what the server promises to whoever reads the journal | variable `log`; it grows at its end in sequence order, or vanishes. `After` is `App::events_after` |
| `Routes` | the handlers of `routes.rs`, what they check before the engine does, and `classify` | variables `world`, `broker`, `next_order_id` and `pending`, the request whose answer is not known. `Decisions` is what `decide` makes of a request that is one command (an error or a plan), `Performed` what becomes of it in `App::execute`; a batch of marks and the seeds of a reset are commands carried out in turn (`DoneInTurn`). An outcome has the error answered, whether the journal was cleared, the events written to it and the broker left behind; `StatusOf` is the status of an error; `Retry` asks again |
| `Views` | `order_view`, `position_view`, `portfolio_view`, the executions page | operators from a world to a page |
| `Digits` | how many digits a number has | `TenTo(n)` is a power of ten, `Width(n)` the digits a number is printed with |
| `Decimals` | `parse_fixed`, `format_fixed`, the cockpit's `pct` | a text is its signs and runs of digits; variables `text`, `raw`, `shown`, `percent` |
| `Calendar` | `TradingDay::parse` and `Display`, over an external account of what `chrono` scans and prints | variables `asked`, `day`, `row`, `back`: a day's way from a request through a row to the next start |
| `Cockpit` | `refresh` and `selectDay`, await by await, against a server that trades, closes days and is reset | variables `log`, `world` (the server), `ui` (the store's state), `call` (each refresh or click in flight: its await, what it waits for, what it got), `turns` |
| `Scoring` | `daily_results`, `leaderboard`, `ladder`, and the engine's two reads of them | operators on the closed days; a return is a whole number of 1/`ReturnUnit` |
| `Season` | what scoring is given | variable `closed`; `Allowed` is what the engine promises of it, `CloseDay` generates seasons for TLC |
| `EngineProperties` | the properties of the engine | |
| `...Proofs` | the theorems of section 4 | |
| `MC...` | instances for TLC | `MCDays` adds a history variable, `MCApp` the properties of the server, `MCSeason` those of the ranking, `MCRoutes` of the answers, `MCTexts` of what is parsed and printed, `MCCockpit` of the screen |

Conventions. A Rust map is a total function whose absent entries are `None`; a
position nobody opened is a flat one. Operators marked *Mutant* are plausible
bugs, used to make sure that each property can fail: replacing the definition
by its mutant makes TLC report the property violated.

Abstractions. Names and symbols are numbers; time stamps and JSON are left out;
texts are left out of every module but `Calendar` and `Decimals`; in `App` a day
is a number, of which `UnreadableDays` print as rows that do not parse (`Calendar`
has such days); the broker's random slice is any slice it may draw (`Slices`);
prices, quantities and cash are small numbers, the fee a rate of `FeeBps` per
`BpsUnit` so that small notionals still round. In `Cockpit` a panel holds the
version of the server it was rendered from, and panels fetched and stored side
by side share one; a row of the journal knows its world, so that one can tell
rows of two worlds with the same number apart.

## 3. What the runs check

| run | config | question | result |
|---|---|---|---|
| trade | `MCTrade.cfg` | one participant, three orders, buys and sells of 1 or 3 at 1 or 2, fee 50% rounded down, broker slices of an order in at most two, operator executions of 1 or 2 at 1 or 2, three executions | 10 invariants and `HistoryStands` hold |
| slices | `MCSlices.cfg` | two orders worked at once by the broker with `max_slices` 3 | each completes (`OrdersComplete`) in at most three executions (`SlicesBounded`) |
| days | `MCDays.cfg` | two participants joining at any time, two orders, three days | what each close publishes is right and stays, and the closes implement `Season` |
| season | `MCSeason.cfg` | three participants, two days, every season with closing values 0, 5 and 8 from 13, equal values on equal or different turnover, late joiners and idle accounts | the ranking follows what was earned, whatever the rounding and the order of the entries |
| venue | `MCVenue.cfg` | two symbols, two specs, instruments listed, changed and removed under orders and holdings, and the pages shown of every state | nothing is stranded, nothing inadmissible rests, the pages agree |
| durability | `MCApp.cfg` | two crashes or failed writes anywhere, resets, one seed, seven journal entries | the served world is the journal's; ids and sequence numbers are never re-issued; every row reads back; the server returns; the journal implements `Atomic` and `Feed` |
| routes | `MCRoutes.cfg` | every request, also malformed, against every world of a small competition whose numbers go up to 3, so that a turnover can overflow; with writes that fail, one seed, resets, and answers lost and asked again | every answer tells what was carried out; `decide` plans what `apply` takes, but for fills the turnover has no room for; until a reset a retry does nothing twice |
| texts | `MCTexts.cfg` | 540,000 texts of days and of numbers | nothing is guessed; what is printed is read back; percentages are the nearest |
| cockpit | `MCCockpit.cfg` | one poll at a time and a click, three rows, a panel of two, up to two resets, lost requests and clicks | until a reset the journal panel is the log and shows every row; every other panel settles |
| restart_exec_ids | `MCRestart.cfg` | are execution ids unique across a restart? | **violated** |
| far_day | `MCFarDay.cfg` | does a server return that closed a day whose row does not parse? | **violated** |
| cockpit_reset | `MCCockpitReset.cfg` | does every row of every world come to be shown? | **violated** |

The properties, by what they relate:

* *orders*: `OrdersTellOneStory`, `ReplaceChainsHold`, `HistoryStands`;
* *reservations against books*: `ReservationsCovered` (`SellsCovered`,
  `BuysCovered`) and its purpose, `WorkingOrdersCanFill` (no working order is
  refused by its participant's book when the broker fills it, whatever slice is
  drawn);
* *conservation*: `BlotterMatchesOrders`, `ProfitIsAccountedFor`, `LongOnly`;
* *the tape*: `TapeIsInMintOrder`, and `TapeIsAHistory`, which explains every
  balance, position and fee from the rows a reader is shown, in their order;
* *decide against apply*: `PlansApply` (of what is planned, a replay refuses
  exactly the fills that the day's turnover has no room for);
* *days*: `ActiveMeansExposed`, `DaysAddUp` (`DaysChain`,
  `TurnoverIsAccountedFor`), `ClosesPublishEquity`, and the refinement
  `ClosesMakeASeason`;
* *the ranking*: `RanksFollowReturns`, `InputOrderIsIrrelevant`,
  `LadderTellsTheGrowth`, `PrizesAreDue` (`PlacesGoToTraders`,
  `WinsAndPointsAddUp`), `StandingIsKept`;
* *the venue*: `UnlistedIsUnused`, `OnlyAdmissibleOrdersRest`;
* *the server*: `ServedWorldIsJournaled`, `NothingIsReissued` (`AppendsLand`,
  `OrderIdsAreNew`), `PlannedEntriesReadBack` (a command that is answered can stop
  no later boot),
  `ServerReturns`, and the refinements `JournalIsAtomic` and `JournalIsAFeed`;
* *answers*: `AnswersTellTheTruth`, `RetriesAreHarmless`;
* *pages*: `PagesAgree` (`PortfoliosAddUp`: exact totals beside rounded averages,
  and no number when a mark is missing; `BrokerIdsAreQuoted`);
* *texts*: `DaysAreKept` (`PlainTextIsCanonical`, `DaysReadBack`),
  `AmountsAreKept` (`NothingIsGuessed`, `AmountsReadBack`), `PercentsAreNearest`;
* *the cockpit*: `JournalIsTheLog`, `EventsAppear`, `ScreenSettles`.

### Bounds, and why they are enough

Three orders allow a replaced order, its replacement and a competitor for the
same cash or shares; quantity 3 in two slices gives a remainder, a partial fill
that a replace can race, and a fee that rounds differently for the parts and
for the whole; two limit prices make the best and the worst of two reservations
differ. `StartingCash = 7` is too little for all orders and enough for two. In
`MCDays` a participant can join before, between and after closes, hold across a
close, or sell out within one. `MCVenue` has a lot and a tick of 2 so that one
spec admits what the other refuses. `MCSeason` rounds returns to 1/100 where the
code rounds to 10^-10. Its values do not come out even: 13 to 8 and 8 to 5 are
different losses (5/13 and 3/8) that round to the same -38%, the second of them
from exactly half way, so a late joiner ties by rounding alone. Two days are enough
to compound, to join late, to be ruined and ranked again. Its days end, and so do
the texts of `MCTexts`: theirs are the passing runs of a system that stops. `MCApp` allows a fault while another is
being recovered from. `MaxOrders`, `MaxExecs`, `MaxDay`, `MaxSeq` and
`MaxFaults` cap what is unbounded in the code; a route of `App` also leaves room
in the journal for the seeds of a later boot. `MaxRaw` is out of reach except in
`MCTexts`, whose amounts lie on both sides of it, and in `MCRoutes`, where two
fills of a day can exceed it.

`MCRoutes` has every request that can be made of the well-formed values and of
malformed, zero and negative ones beside them; one answer at a time is unknown.
Two marks and one seed are enough for a batch and a reset to be cut short after
none, after some and after all of their commands.
`MCTexts` has years of one to five digits, with and without signs and leap days,
numbers at the edges of the calendar, one blank before a number; amounts with no
digit, as many as the scale, and more on either side of a dot, two dots, blanks around a
text and strange characters within it, and returns with a next digit below, at and above the half, ties to even and odd.
`MCCockpit` has a panel of `KEEP` = 2 rows (300 in the code) and three rows to
come, so that it is filled, cut, and refilled by polls that bring none, one or
several; rows are numbered by twos (`Gaps`), as after a write that failed, so
that a cursor between two rows differs from one at a row. `MaxTurns` = 2 pairs a
reset with another, with a lost request and with a click; `MaxBusy` = 4 bounds
turns and rows together, so that three rows leave room for one turn.

### What is assumed of the environment

* `HonourLimits`: in the passing runs an operator fills no buy above its limit.
  The code does not require it; divergence 3 below is what follows when he does.
* `MCVenue` starts in allowlist mode and its operator never empties the
  registry (the action constraint `KeepsAListing`), since an empty registry
  trades every symbol (and listing the first instrument then strands whatever is
  held of others).
* Retries (`RetriesAreHarmless`) are of the four requests that have a key: joining,
  cancelling, replacing and closing. An order or an execution that is sent again is
  another order or another execution, and the code has nothing to tell them apart
  by. After a reset every key is free again: a joining that is repeated then is
  carried out, and a cancel meets whatever order was given the old one's number. So
  in the model a reset also clears `pending`.
* `FeeBps` is at most 100%; `PTC_FEE_BPS` is not checked by the code.
* Fairness. `FairSpec`: the operator keeps asking for executions of every order;
  nothing in the code schedules them, so this is an assumption about its user,
  weak fairness of each order's `AutoExecute`. `AppFairSpec`: a process that is
  down is started again and one that runs takes its next step (`Boot`,
  `ApplySeed`, `Serving`, `Rebuild`, `AppendEntries`, `CommitEntries`); routes,
  crashes and failures have no fairness and faults are finite. `Cockpit`'s
  `FairSpec`: the timer keeps firing and every request is answered or fails, so a
  call that is in flight proceeds (`Proceeds`, weakly fair for each call); the
  server's own steps, losses and clicks have no fairness, and they are finite
  (`MaxRows`, `MaxTurns`), which is what "once the server is quiet" means.

### What the violated runs show

1. `restart_exec_ids`: a restart replays into a new broker, which numbers
   executions from 1 again (`api/src/lib.rs:63`).
2. `far_day`: a day is checked by the length of its text before `chrono` reads
   it, so `+12345-1-1` is taken, and journaled as `+12345-01-01`, which is too
   long to be read back: every later boot fails (`time.rs:41`).
3. `cockpit_reset`: nothing sets the cockpit's cursor back, so after a reset it
   asks for the rows after the last one of the old world, and those of the new
   one below it never appear (`store.ts:57`).

### Divergences seen while modelling

Each was found by TLC with the formula named, which is stated in its module, and
with the constants given; they are not among the runs.

1. *Turnover overflow* (`engine.rs:767`), `NothingIsHalfApplied`: `decide` asks the order and a clone of the book whether they
   take a fill, but not the day's turnover, whose addition is checked only in
   `apply`. The fill is journaled, errs half applied, is answered 500, and stops
   every later boot. `PlansApply` says that this is the only such case. `engine.rs:10`: "`decide` validates everything before any mutation
   happens".
2. *No order rests in `NEW`* (`engine.rs:452`), `SubmittedOrdersAreNew`: the
   submission and the broker's acknowledgement are one batch. `README.md:114`:
   "so an order really does sit in `NEW` with no broker id".
3. *Execution above a limit* (`engine.rs:527`), `WorkingOrdersCanFill` with
   `HonourLimits = FALSE`: it spends cash reserved for other working orders, and
   the book refuses the next of them.
4. *Seeds after a restart* (`api/src/lib.rs:80`), `SeedsNeverFight`: a registry
   the API had emptied is seeded again. `api/src/lib.rs:76`: "neither a restart
   nor a reset may fight what the API has since edited".
5. *500 for a client's mistake* (`error.rs:131`), `NoRequestIsABug`: an order for
   zero shares, an execution the book's cash refuses, and one of an order that
   has ended. `error.rs:130`: "Anything left is a bug or a disk problem".
6. *Statuses of an execution* (`openapi.json:175`), `ExecutionsAnswerAsDocumented`:
   of an order that has ended it says 409 and the broker's terms give 500. Other
   routes answer with statuses `openapi.json` does not list, `POST /orders` with
   404 for a participant who has not joined (`openapi.json:96`).
7. *Spellings of a day* (`time.rs:41`), `OneSpelling`: a blank makes up for a
   digit, `2026- 8-01`. `time.rs:37`: the length check is there because "two
   spellings of one day would key two leaderboards" (they do not: both are the
   same day).
8. *Rounding of a percentage* (`api.ts:181`), `PercentsRoundAsTheBackend`: a half
   away from zero, where `round_dp` goes to the even digit. `api.ts:168`:
   "matching `rust_decimal`'s `round_dp`".
9. *Overlapping polls* (`App.vue:23`), `NoRowTwice` with `Timers = 2`: a refresh
   starts every two seconds whether or not the last has come back; two of them
   read the same cursor and both add the rows they get.
10. *The first listing* (`engine.rs:546`), `HoldingsCanBeOffered` with `Spec` in
   place of `SeededSpec`: it makes every other symbol unknown, also one that is
   held, and no sell order for it is accepted any more.

## 4. What is proved

TLAPS proves the following for every number of participants, symbols, orders and
days, every set of inputs and every value of the fee, from the named assumptions
(`MoneyAssumption`, `NumSymbolsAssumption`, `KeysAssumption`, `NoneAssumption`,
`SlicesAssumption`, `InputsAssumption`, `SeedsAssumption`, `SeedingAssumption`, `BoundsAssumption`,
`ReturnUnitAssumption`, `AbsenceAssumption`, `CockpitAssumption`,
`CalendarAssumption`, `DecimalsAssumption`, `NoDayAssumption`, `NoTextAssumption`:
sizes are positive, inputs have the types the code parses them into, the cash
accounts open with among them, a run of digits is worth less than its power of
ten, and an absent value is none of the present ones).

| theorem | module | states |
|---|---|---|
| `TypeSafety` | `EngineProofs` | `Spec => []TypeOK` |
| `PlansAlwaysApply` | `EngineProofs` | `Spec => []PlansApply` |
| `OrdersAlwaysTellOneStory` | `BookProofs` | `Spec => []OrdersTellOneStory` |
| `OrdersNeverRestInNew` | `BookProofs` | `Spec => []Settled(world)`: between two commands no order is `NEW` |
| `ReplaceChainsAlwaysHold` | `BookProofs` | `Spec => []ReplaceChainsHold` |
| `HistoryAlwaysStands` | `BookProofs` | `Spec => HistoryStands` |
| `PublishedDaysAlwaysStand` | `BookProofs` | `Spec => PublishedDaysStand` |
| `TapeIsAlwaysInMintOrder` | `BookProofs` | `Spec => []TapeIsInMintOrder` |
| `SlicesAlwaysBounded` | `BookProofs` | `Spec => [](FillQtys = {} => SlicesBounded)` |
| `BlotterAlwaysMatchesOrders` | `BookProofs` | `Spec /\ []TurnoverHasRoom => []BlotterMatchesOrders` |
| `LongOnlyAlways` | `BookProofs` | `Spec => []LongOnly` |
| `ProfitIsAlwaysAccountedFor` | `BookProofs` | `Spec => []ProfitIsAccountedFor` |
| `SellsAlwaysCovered` | `BookProofs` | `Spec => []SellsCovered` |
| `ReservationsAlwaysCovered` | `BookProofs` | `Spec => [](HonourLimits => ReservationsCovered)` |
| `WorkingOrdersCanAlwaysFill` | `BookProofs` | `Spec => [](HonourLimits /\ NumbersFit => WorkingOrdersCanFill)` |
| `ActiveAlwaysMeansExposed` | `MarketProofs` | `DaysSpec => []ActiveMeansExposed` |
| `DaysAlwaysChain` | `MarketProofs` | `Spec => []DaysChain` |
| `DaysAlwaysAddUp` | `MarketProofs` | `Spec /\ []TurnoverHasRoom => []DaysAddUp` |
| `ClosesAlwaysPublishEquity` | `MarketProofs` | `Spec => ClosesPublishEquity` |
| `ClosesAlwaysMakeASeason` | `MarketProofs` | `Spec => ClosesMakeASeason`: the engine implements `Season` |
| `UnlistedIsNeverUsed` | `MarketProofs` | `KeepingSpec => []UnlistedIsUnused` |
| `OnlyAdmissibleOrdersEverRest` | `MarketProofs` | `KeepingSpec => OnlyAdmissibleOrdersRest` |
| `BrokerIdsAreAlwaysQuoted` | `MarketProofs` | `KeepingSpec => []BrokerIdsAreQuoted` |
| `PagesAlwaysAgree` | `MarketProofs` | `KeepingSpec /\ []WorthFits(world) => []PagesAgree` |
| `TapeIsAlwaysAHistory` | `MarketProofs` | `Spec /\ []TurnoverHasRoom => []TapeIsAHistory` |
| `RanksAlwaysFollowReturns` | `SeasonProofs` | `Allowed => []RanksFollowReturns` |
| `InputOrderNeverMatters` | `SeasonProofs` | `Allowed => []InputOrderIsIrrelevant` |
| `PrizesAreAlwaysDue` | `SeasonProofs` | `Allowed => []PrizesAreDue` |
| `StandingIsAlwaysKept` | `SeasonProofs` | `Allowed => StandingIsKept` |
| `EveryEventReadsBack` | `AppProofs` | a `Readable` event of the engine is read back from its row as it was |
| `AppSafety` | `AppProofs` | `AppSpec => []AppInv` |
| `PlannedEntriesAlwaysReadBack` | `AppProofs` | `AppSpec => []PlannedEntriesReadBack` |
| `NothingIsEverReissued` | `AppProofs` | `AppSpec => []NothingIsReissued` |
| `ServedWorldIsAlwaysJournaled` | `AppProofs` | `AppSpec /\ []PlannedHasRoom => []ServedWorldIsJournaled` |
| `JournalIsAlwaysAtomic` | `AppProofs` | `AppSpec => JournalIsAtomic`: the server implements `Atomic` |
| `JournalIsAlwaysAFeed` | `AppProofs` | `AppSpec => JournalIsAFeed`: the server implements `Feed` |
| `AnswersAlwaysTellTheTruth` | `MarketProofs` | `RoutesSpec => []AnswersTellTheTruth` |
| `RetriesAreAlwaysHarmless` | `MarketProofs` | `RoutesSpec => RetriesAreHarmless` |
| `ServedPlansApply` | `MarketProofs` | `RoutesSpec => []PlansApply` |
| `JournalIsAlwaysTheLog` | `CockpitProofs` | `Timers = 1`: `Spec => []JournalIsTheLog`, with `Spec` of `Cockpit` |
| `DaysAreAlwaysKept` | `TextsProofs` | `TextsSpec => []DaysAreKept` |
| `AmountsAreAlwaysKept` | `TextsProofs` | `TextsSpec => []AmountsAreKept` |
| `PercentsAreAlwaysNearest` | `TextsProofs` | `TextsSpec => []PercentsAreNearest` |

### The conditions, and why they are there

Each names a case in which the code does not keep the promise, so none can be
dropped; TLC finds `TurnoverHasRoom`, `PlannedHasRoom`, `NumbersFit` and `WorthFits` true
in every state of the runs named, whose numbers are small.

* `TurnoverHasRoom` (trade, days) and `PlannedHasRoom` (durability): a fill on
  offer, or about to be written, leaves the day's turnover within 64 bits.
  `decide` does not ask; divergence 1 is what follows. Where a theorem needs the
  past to have had room too, it is a hypothesis about all states: a fill that errs
  half applied has changed the book and is not on the tape.
* `NumbersFit` (trade, days): what a fill adds and multiplies in the order and in
  the book stays within 64 bits; a checked operation refuses it otherwise.
* `WorthFits` (venue): an account is worth, with its basis, no more than 64 bits;
  otherwise `total_value` errs and the page cannot be shown.
* `HonourLimits`: divergence 3. Shares are covered without it, cash is not.
* `FillQtys = {}`: only the broker executes; the operator may fill share by share.
* `DaysRead` (no day is in `UnreadableDays`): all the theorems about `App` assume
  it; the run far_day is what follows without.
* `SeedSpec \in Specs`, for `Atomic` only: a seed is an instrument an operator
  could list.
* `KeepingSpec` (`SeededSpec` and `KeepsAListing`), the assumption of the run venue,
  with `StartingCash # {}`: `SeededInit` takes the accounts' cash from it.
* `Timers = 1` (cockpit): no poll starts before the last has ended. `App.vue` starts
  one every two seconds without asking, so this is a condition on how fast the
  server answers; two overlapping polls can each append the same rows.

### The argument

It has two halves, as the code has `decide` and `apply`.

*What `apply` preserves* is shown event by event. `EngineProofs` shows that
`Apply` takes a world and an event of the right shape to a world (`ApplyTyped`).
The interesting cases are the sale, whose position stays a natural number only
because the book refuses to sell more than it holds, and the close, whose values
are sums.

*What `decide` guarantees* of the events it emits is `Proper`, and of a whole plan
`ProperPlan`: a new order takes an unused id and is for something, a fill bears
the execution id just minted and the broker moves past it, only an open day is
closed, and only a submission or a replacement is followed by a second event,
the venue's answer. `EveryStepIsProper` shows this of every action, once. That
`apply` takes such a plan is an equivalence: every event but a fill is `Certain`
to be taken, and a fill that `decide` has asked the order and the book about is
taken exactly when its turnover fits (`Sure`). Put
together with `apply` it says what a whole command makes of the world
(`Effect`, `EveryStepHasAnEffect`): it opens an account, cancels, takes or refuses
an order, books a fill, marks, lists, delists or closes a day, and nothing else.
Most theorems start from there and have one lemma per effect.

*Sums and sorting.* `Sum` and `Product` are recursive functions over the keys of a
map. `CountingProofs` reasons about them by least counterexample, from the
library's theorem that the order of the naturals is well founded: what changing
a term, adding one, or comparing two sums term by term does, that terms can be
paired off, listed through another numbering, or summed the other way round. A
sorted sequence is given by counting predecessors, so nothing is inducted over:
it lists its elements once each and upwards (`Ascends`), and there is only one
such listing (`OnlyOneAscends`).

*Orders.* `BookProofs` strengthens `OrdersTellOneStory` to `Story`, because by
itself it is not inductive: a new order would inherit whatever venue id is on
file for its number, and an order for nothing would be `FILLED` from the start.
`Story` adds that unused ids have nothing on file and that every order is for
something. `Chains` says of a replacement what its original must have become.

*History.* `HistoryStands` needs the story: the venue's id on file is
overwritten by an acknowledgement, and only the story says that an order still in
`NEW` has none. `InMintOrder` adds to the tape's order that the broker is past all
of its ids: a fill that is refused burns one, and a row bears the id just
minted. `Sliced` says that each execution but the last took a chunk at
least. `Matches` compares each order's rows, fees and state.

*Books.* Every book is `Sound`: solvent, no basis without shares,
and balanced. `Covered` is the invariant of reservations: what the working orders
of an account have set aside, a sum over all orders that is nowhere stored, is at
most what it has. A fill uses up no more than it releases, because fees rounded
down for the parts come to no more than the fee of the whole, and a replacement is
asked against everything but its original. That each order can be filled follows
from its share of what is set aside.

*Days.* `Tallied` says that a day without a fill has no turnover, so the first fill
of a day always has room: a fill that errs half applied is never the one that
makes an account active. `Chained` relates each entry, and the running day's
baseline, to the entry before it, `Accounted` the published and the running
turnover to what orders executed on each side, and `Plain` says that who neither
holds nor traded anything has the cash they closed on, and who closed on nothing
has nothing. Two ways of
valuing a book, cash plus positions and start plus profits, agree because books
balance.

*The venue.* `VenueInv` says, beside its property, that the registry lists
something. A removal is refused while an order works or a share is held, so what
it leaves unlisted is unused; the pages' totals are folds, shown equal to the sums
of the books.

*The tape.* `TapeIsAHistory` reads the rows a client is shown, oldest first, and the
balances off them. `Told` says the same of some listing of the rows without
repetition: every account's cash, shares and fees are what its flows add up to, and
no row before its own fill leaves fewer than no shares. A fill adds one row with
the highest id yet, so the listing grows at its end; every other effect changes
neither rows nor books. What the page sorts is a listing of the same rows, so the
two agree, whole and prefix by prefix.

*The season.* `SeasonInv` says of every published day that it is somebody's and has
plausible rows that start from what an earlier day ended with (`Ranking`), so
nothing is divided by zero. Rounding is monotone, hence nobody is placed below a
smaller return; and the order the leaderboard sorts by is total over its rows, so
there is only one board, in whatever order the entries come. A ladder row's
scores are a sum over the days of what the day's board says of it; taken
the other way round, each day gives its first place and its points once. What a later close adds to is a set of days that only grows,
which is why no score shrinks. All of it holds of `Allowed`, which
`ClosesAlwaysMakeASeason` shows the engine to implement: together they say it of
every ranking the server computes.

*The journal.* `AppProofs` shows first that decoding the row of an event gives it
back: the constructors' checks are ones that an event of the engine passes. It
shows that a replay of one more event is a replay and one `Apply`, that a row
above all others comes last, and that appending a command's entries is to carry it
out on the world the journal stands for.

*The server.* `AppInv` has three parts: `Shaped` (the process and its journal have
the parts they should), `Served` (no row lies above the last number given, no order
above the last id, and memory is what the journal stands for, or the one command
behind it that was appended and not yet committed) and, between planning and
appending, `InFlight` (the entries have the last numbers, above all rows, and are a
command that the world allows). One lemma for each action; a failed write
leaves a gap in the numbers, which is why nothing says that they are consecutive.
`Atomic` and `Feed` are then shown step by step: an append is one whole command, a
clear is the reset, and every other step stutters.

*The routes.* `Routes` performs the plans of `Commands` for any well-formed
request, so its proof does not rest on `Next`, nor on operators who honour
limits. That answers are true is shown in three parts. For a request that is one
command, an error is answered exactly when there is no plan (`DecisionsAreTold`),
which for a fill needs the story, and for an order `Owned`: every order's
participant has joined; and a plan that is journaled is taken by `commit` unless it
is a fill without room (`DecisionsCarry`). A batch and the seeds of a reset are the
first commands of a list, all of them or as many as the journal took (`InTurn`).
That retries are harmless rests on `RoutesInv`: the request whose answer was lost is
`Done` (who joined has a book, what was cancelled or replaced has ended, the day is
closed). `Done` holds once the request is performed, no later request but a reset
takes it back, because accounts stay, ended orders stay ended and closed days stay
closed (`Follows`), and a request that is done plans nothing. A reset leaves a world
that the rest can be built on (`Stands`), cut short or not, and no request whose
answer is awaited. `AbsenceAssumption` says that `None`, which stands for no request
and no error, is neither.

*The cockpit.* Filtering is given by the places that are kept, so what the panel
should show is a listing with one right answer, as in sorting. `CockpitInv` says,
until a reset, that some number `n` of the log's rows has been seen: the cursor is
the `n`-th row's number, the panel is the newest of the first `n`, and a poll that
waits for events asks from that cursor, and if it has its answer, got rows from the
`n+1`-st on. The log may grow while the answer travels; rows that were added since
are after those that were fetched, because numbers rise (`Rising`).

*Texts.* Powers of ten are products of tens, and the lemmas about products give
their sums of exponents and that they grow (`TenToSum`, `TenToGrows`). That an
amount is not guessed is then one equation between the text's digits and the raw
units (`trim` takes off what is around the text, and what is left has nothing but
its signs, digits and dot); that it is read back rests on division by the scale with the rest padded to
its full width, and on a number being below the power of ten of its width
(`Widths`). The percentage's next digit is 5 or more exactly when the rest is at
least half (`NextDigit`). A plain day of ten characters has four, two and two
digits because none may have more: its row is the text itself.

### What stays with TLC

* Liveness: `OrdersComplete`, `ServerReturns`, `EventsAppear`, `ScreenSettles`.
* `LadderTellsTheGrowth`: how far returns rounded day by day can drift from the
  growth they compound to depends on the number of days and on the growth itself;
  it is a bound of the small season, and the general one is an induction over the
  recursion that compounds them.

## 5. Not modelled, and what comes next

Not modelled: JSON itself and HTTP below the handlers; the alphabet of
participants' and symbols' names (they are numbered keys); the leaderboard's and
the ladder's pages, which copy scoring's rows field by field, and the wording of
problems; the cockpit's templates and its error banner (`lastError`,
`store.ts:81`, which no later success clears), and configuration from the environment, which
sets the constants. Numbers are exact integers within `MaxRaw`. Scoring's
decimals are exact until the code rounds them: neither the last of their 28
digits nor the panic of a product that outgrows them is modelled. A broker's
random slice may leave an odd lot (`broker/src/lib.rs:167`), which no document
rules out and no property is about.

What could come next:

1. An abstract order book (one specification per order: working, then ended
   with what was filled) that the engine implements through a refinement
   mapping.
2. Two refreshes of the cockpit in flight at once in a passing run: what still
   settles then, beside the journal panel that does not.
3. Lots together with partial fills, which can leave an odd lot.
