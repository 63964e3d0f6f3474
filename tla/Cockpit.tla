------------------------------- MODULE Cockpit ------------------------------
(***************************************************************************)
(* The cockpit (src/ui): a read-only client that polls the server every    *)
(* two seconds, whether or not the previous poll has come back, and lets   *)
(* its user pick the day whose leaderboard is shown.  A refresh is a chain *)
(* of awaits: at each one the code runs up to the next request, and any    *)
(* other poll or click may run in between.  The server answers a request   *)
(* from its state at that moment, under its mutex.                         *)
(*                                                                         *)
(* What a panel shows is kept as the version of the server's state it was  *)
(* rendered from.  The participants stand for the orders and executions as *)
(* well, and the days for the instruments and the marks: fetched and       *)
(* stored side by side.                                                    *)
(***************************************************************************)
EXTENDS Feed, FiniteSets, SequencesExt

CONSTANTS
  None, NotFound,        \* no value; the answer 404
  NumTraders, LastDay,   \* the participants and days there can be
  KEEP,                  \* the rows the journal panel keeps (300)
  Timers,                \* bound: refreshes in flight at once
  Gaps,                  \* how far a row's number may be from the one before
  MaxRows,               \* bound: the rows of a journal
  MaxTurns,              \* bound: resets, lost requests and clicks, together
  MaxBusy                \* bound: turns and rows of the present journal, together

ASSUME CockpitAssumption ==
  KEEP \in Nat /\ Timers \in Nat /\ Gaps \subseteq Nat \ {0}

Traders == 1..NumTraders
Click == 0
Calls == {Click} \cup 1..Timers

VARIABLES
  world,          \* how many resets there have been
  turns,          \* resets, lost requests and clicks so far
  ui,             \* the store's state
  call            \* per refresh or click: which await it is at, what it waits for

vars == <<log, world, turns, ui, call>>

-----------------------------------------------------------------------------
(***************************************************************************)
(* The server, as its readers see it.  Failed writes leave gaps in the     *)
(* sequence numbers.                                                       *)
(***************************************************************************)
Named(kind) == {log[n].of : n \in {n \in DOMAIN log : log[n].kind = kind}}
Joined == Named("join")
Closed == Named("close")
Version == [world |-> world, rows |-> Len(log)]

Room == Len(log) + turns < MaxBusy

Turns == Room /\ turns < MaxTurns /\ turns' = turns + 1

Journals(kind, of) ==
  /\ Room /\ Len(log) < MaxRows
  /\ \E gap \in Gaps :
       log' = Append(log, [seq |-> Newest(log) + gap, world |-> world,
                           kind |-> kind, of |-> of])
  /\ UNCHANGED <<world, turns, ui, call>>

Trade == Joined # {} /\ Journals("trade", None)
Join(p) == p \notin Joined /\ Journals("join", p)
Close(d) == Joined # {} /\ (\A c \in Closed : c < d) /\ Journals("close", d)

Reset ==
  /\ Turns
  /\ world' = world + 1 /\ log' = <<>>
  /\ UNCHANGED <<ui, call>>

Answer(request) ==
  CASE request.path = "health"       -> None
    [] request.path = "participants" -> Joined
    [] request.path = "days"         -> Closed
    [] request.path = "events"       -> After(log, request.of)
    [] request.path = "portfolio"    ->
         IF request.of \in Joined THEN Version ELSE NotFound
    [] request.path = "leaderboard"  ->
         IF request.of \in Closed THEN [world |-> world, day |-> request.of] ELSE NotFound
    [] request.path = "ladder"       -> [world |-> world, days |-> Cardinality(Closed)]

-----------------------------------------------------------------------------
Get(path, of) == [path |-> path, of |-> of]

InitialState ==
  [connected |-> FALSE, participants |-> {}, portfolios |-> [p \in {} |-> None],
   journal |-> <<>>, journalSeq |-> 0, days |-> {},
   board |-> None, selectedDay |-> None, ladder |-> None]

(* A call at an await: the requests not answered yet, the answers so far,  *)
(* and the locals of refresh that are used later.                          *)
Awaiting(at, requests, participants, days) ==
  [at |-> at, wants |-> requests, got |-> [r \in {} |-> None],
   participants |-> participants, days |-> days]

Done == Awaiting("idle", {}, {}, {})

Init ==
  /\ log = <<>> /\ world = 1 /\ turns = 0
  /\ ui = InitialState
  /\ call = [c \in Calls |-> Done]

Becomes(c, next) == call' = [call EXCEPT ![c] = next]
Got(c, path, of) == call[c].got[Get(path, of)]
Refused(c) == \E r \in DOMAIN call[c].got : call[c].got[r] = NotFound
Answered(c, at) == call[c].at = at /\ call[c].wants = {} /\ ~ Refused(c)

(* The server answers one of the requests of a call.                       *)
Serve(c, r) ==
  /\ r \in call[c].wants
  /\ Becomes(c, [call[c] EXCEPT !.wants = @ \ {r},
                                !.got = [q \in {r} \cup DOMAIN @ |->
                                           IF q = r THEN Answer(r) ELSE @[q]]])
  /\ UNCHANGED <<log, world, turns, ui>>

(* The catch of refresh; a click has none, and its error changes nothing.  *)
GivesUp(c) ==
  /\ Becomes(c, Done)
  /\ ui' = IF c = Click THEN ui ELSE [ui EXCEPT !.connected = FALSE]
  /\ UNCHANGED <<log, world>>

Rejected(c) == Refused(c) /\ GivesUp(c) /\ UNCHANGED turns

Lost(c) ==
  /\ call[c].wants # {} /\ Turns
  /\ GivesUp(c)

-----------------------------------------------------------------------------
(***************************************************************************)
(* refresh, from one await to the next.                                    *)
(***************************************************************************)
client_only == <<log, world, turns>>

Refresh(c) ==
  /\ c # Click /\ call[c].at = "idle"
  /\ Becomes(c, Awaiting("health", {Get("health", None)}, {}, {}))
  /\ UNCHANGED <<client_only, ui>>

AfterHealth(c) ==
  /\ Answered(c, "health")
  /\ ui' = [ui EXCEPT !.connected = TRUE]
  /\ Becomes(c, Awaiting("lists", {Get(path, None) : path \in {"participants", "days"}}, {}, {}))
  /\ UNCHANGED client_only

(* The cursor is read here, before the rows after it are awaited.          *)
AfterLists(c) ==
  /\ Answered(c, "lists")
  /\ ui' = [ui EXCEPT !.participants = Got(c, "participants", None)]
  /\ Becomes(c, Awaiting("events", {Get("events", ui.journalSeq)},
                         Got(c, "participants", None), Got(c, "days", None)))
  /\ UNCHANGED client_only

(* Mutant: the panel is not cut.                                           *)
NarratedWhole(journal, rows) == Reverse(rows) \o journal

(* Newest first, and no more than the panel keeps.                         *)
Narrated(journal, rows) ==
  LET all == Reverse(rows) \o journal
  IN  SubSeq(all, 1, IF Len(all) < KEEP THEN Len(all) ELSE KEEP)

(* Mutant: the panel is filled while it is empty and never again.          *)
AfterEventsOnce(c) ==
  /\ Answered(c, "events")
  /\ \E r \in DOMAIN call[c].got : LET rows == call[c].got[r] IN
       ui' = [ui EXCEPT
                !.journal = IF @ # <<>> THEN @ ELSE Narrated(@, rows),
                !.journalSeq = IF ui.journal # <<>> THEN @ ELSE Newest(rows),
                !.days = call[c].days]
  /\ Becomes(c, Awaiting("books", {Get("portfolio", p) : p \in call[c].participants},
                         call[c].participants, call[c].days))
  /\ UNCHANGED client_only

AfterEvents(c) ==
  /\ Answered(c, "events")
  /\ \E r \in DOMAIN call[c].got : LET rows == call[c].got[r] IN
       ui' = [ui EXCEPT
                !.journal = IF rows = <<>> THEN @ ELSE Narrated(@, rows),
                !.journalSeq = IF rows = <<>> THEN @ ELSE Newest(rows),
                !.days = call[c].days]
  /\ Becomes(c, Awaiting("books", {Get("portfolio", p) : p \in call[c].participants},
                         call[c].participants, call[c].days))
  /\ UNCHANGED client_only

LatestOf(days) == CHOOSE d \in days : \A c \in days : c <= d

(* Mutant: a selected day stays selected when it is no longer listed.      *)
SelectionStays(selected, days) ==
  IF selected = None THEN LatestOf(days) ELSE selected

Selection(selected, days) ==
  IF selected = None \/ selected \notin days THEN LatestOf(days) ELSE selected

AfterBooks(c) ==
  LET days == call[c].days
      books == [p \in call[c].participants |-> Got(c, "portfolio", p)]
      day == Selection(ui.selectedDay, days)
  IN  /\ Answered(c, "books")
      /\ \/ /\ days # {}
            /\ ui' = [ui EXCEPT !.portfolios = books, !.selectedDay = day]
            /\ Becomes(c, Awaiting("board", {Get("leaderboard", day)}, {}, days))
         \/ /\ days = {}
            /\ ui' = [ui EXCEPT !.portfolios = books, !.board = None, !.ladder = None]
            /\ Becomes(c, Done)
      /\ UNCHANGED client_only

AfterBoard(c) ==
  /\ Answered(c, "board")
  /\ \E r \in DOMAIN call[c].got : ui' = [ui EXCEPT !.board = call[c].got[r]]
  /\ Becomes(c, IF c = Click THEN Done
                ELSE Awaiting("ladder", {Get("ladder", None)}, {}, {}))
  /\ UNCHANGED client_only

AfterLadder(c) ==
  /\ Answered(c, "ladder")
  /\ ui' = [ui EXCEPT !.ladder = Got(c, "ladder", None)]
  /\ Becomes(c, Done)
  /\ UNCHANGED client_only

(* selectDay: the user picks one of the listed days.                       *)
SelectDay(d) ==
  /\ Turns
  /\ call[Click].at = "idle" /\ d \in ui.days
  /\ ui' = [ui EXCEPT !.selectedDay = d]
  /\ Becomes(Click, Awaiting("board", {Get("leaderboard", d)}, {}, {}))
  /\ UNCHANGED <<log, world>>

-----------------------------------------------------------------------------
Resumes(c) ==
  \/ AfterHealth(c) \/ AfterLists(c) \/ AfterEvents(c)
  \/ AfterBooks(c) \/ AfterBoard(c) \/ AfterLadder(c)

Proceeds(c) == Refresh(c) \/ (\E r \in call[c].wants : Serve(c, r)) \/ Resumes(c) \/ Rejected(c)

Next ==
  \/ Trade \/ Reset
  \/ \E p \in Traders : Join(p)
  \/ \E d \in 1..LastDay : Close(d) \/ SelectDay(d)
  \/ \E c \in Calls : Proceeds(c) \/ Lost(c)

Spec == Init /\ [][Next]_vars

(* The timer keeps firing, and every request is answered or fails.         *)
FairSpec == Spec /\ \A c \in Calls : WF_vars(Proceeds(c))
=============================================================================
