---------------------------- MODULE CockpitProofs ---------------------------
(***************************************************************************)
(* The cockpit's journal panel, proved for every length of the journal and *)
(* of the panel: until a reset, and for polls that do not overlap, it is   *)
(* the log as far as the cursor, newest first, cut at what the panel keeps.*)
(***************************************************************************)
EXTENDS MCCockpit, CountingProofs

-----------------------------------------------------------------------------
(***************************************************************************)
(* A journal whose numbers rise has the rows after a cursor at its end.    *)
(***************************************************************************)
JournalRow == [seq : Nat \ {0}, world : Nat, kind : {"trade", "join", "close"},
               of : {None} \cup Traders \cup 1..LastDay]

Rising(rows) ==
  /\ rows \in Seq(JournalRow)
  /\ \A m, n \in 1..Len(rows) : m < n => rows[m].seq < rows[n].seq

(* The number of the last of the first n rows.                             *)
SeqAt(rows, n) == IF n = 0 THEN 0 ELSE rows[n].seq

LEMMA IntervalsInOrder ==
  ASSUME NEW a \in Nat, NEW b \in Nat, a <= b, NEW keys, keys = (a + 1)..b
  PROVE  /\ InOrder(keys) = [k \in 1..(b - a) |-> a + k]
         /\ DOMAIN InOrder(keys) = 1..(b - a)
  <1> DEFINE n == b - a
             f == [k \in 1..n |-> a + k]
             R == Increasing(keys)
  <1>1. n \in Nat /\ keys \in SUBSET Int
    OBVIOUS
  <1>2. Ascends(f, n, keys, R)
    <2>1. f \in [1..n -> keys]
      BY <1>1
    <2>2. ASSUME NEW x \in keys PROVE \E k \in 1..n : f[k] = x
      <3>1. x - a \in 1..n /\ f[x - a] = x
        OBVIOUS
      <3> QED BY <3>1
    <2>3. ASSUME NEW j \in 1..n, NEW k \in 1..n, j < k PROVE <<f[j], f[k]>> \in R
      <3>1. f[j] \in keys /\ f[k] \in keys /\ f[j] < f[k]
        BY <2>1, <2>3
      <3> QED BY <3>1 DEF Increasing
    <2> QED BY <2>1, <2>2, <2>3 DEF Ascends
  <1>3. Strict(R, keys)
    BY <1>1 DEF Strict, Increasing
  <1>4. IsFiniteSet(keys) /\ Cardinality(keys) = n
    <2> HIDE DEF f, n, R
    <2> QED BY <1>1, <1>2, <1>3, AscendingCounts
  <1>5. Ascends(InOrder(keys), n, keys, R)
    BY <1>1, <1>4, InOrderAscends
  <1> DEFINE g == InOrder(keys)
  <1>6. \A k \in 1..n : g[k] \in keys /\ Place(keys, R, g[k]) = k
    <2> SUFFICES ASSUME NEW k \in 1..n PROVE g[k] \in keys /\ Place(keys, R, g[k]) = k
      OBVIOUS
    <2>1. g[k] \in keys
      BY <1>5 DEF Ascends
    <2> HIDE DEF g, f, n, R
    <2>2. Place(keys, R, g[k]) = k
      BY <1>1, <1>3, <1>5, AscendingPlaces DEF g
    <2> QED BY <2>1, <2>2
  <1>7. \A k \in 1..n : g[k] = f[k]
    <2> HIDE DEF g, f, n, R
    <2> QED BY <1>1, <1>2, <1>3, <1>6, OnlyOneAscends
  <1>8. g \in [1..n -> keys]
    BY <1>5 DEF Ascends
  <1> HIDE DEF g
  <1>9. g = f /\ DOMAIN g = 1..n
    BY <1>7, <1>8
  <1> QED BY <1>9 DEF g

LEMMA RisingTyped ==
  ASSUME NEW rows, Rising(rows)
  PROVE  \A m \in 1..Len(rows) : rows[m] \in JournalRow /\ rows[m].seq \in Nat \ {0}
  <1> SUFFICES ASSUME NEW m \in 1..Len(rows)
               PROVE  rows[m] \in JournalRow /\ rows[m].seq \in Nat \ {0}
    OBVIOUS
  <1>1. rows[m] \in JournalRow
    BY DEF Rising
  <1> QED BY <1>1 DEF JournalRow

(* What the server answers when it is asked for the rows after the n-th.   *)
LEMMA RowsAfter ==
  ASSUME NEW rows, Rising(rows), NEW n \in 0..Len(rows)
  PROVE  After(rows, SeqAt(rows, n)) = [k \in 1..(Len(rows) - n) |-> rows[n + k]]
  <1> DEFINE keys == {m \in DOMAIN rows : rows[m].seq > SeqAt(rows, n)}
  <1>1. Len(rows) \in Nat /\ DOMAIN rows = 1..Len(rows)
    BY DEF Rising
  <1>2. \A m \in 1..Len(rows) : rows[m].seq \in Nat \ {0}
    BY RisingTyped
  <1>3. keys = (n + 1)..Len(rows)
    <2>1. ASSUME NEW m \in 1..Len(rows) PROVE rows[m].seq > SeqAt(rows, n) <=> m > n
      <3>1. CASE n = 0
        BY <1>2, <3>1 DEF SeqAt
      <3>2. CASE n # 0
        BY <1>1, <1>2, <3>2 DEF SeqAt, Rising
      <3> QED BY <3>1, <3>2
    <2> QED BY <1>1, <2>1
  <1>4. InOrder(keys) = [k \in 1..(Len(rows) - n) |-> n + k]
        /\ DOMAIN InOrder(keys) = 1..(Len(rows) - n)
    <2> HIDE DEF keys
    <2> QED BY <1>1, <1>3, IntervalsInOrder
  <1>5. After(rows, SeqAt(rows, n)) = [k \in DOMAIN InOrder(keys) |-> rows[InOrder(keys)[k]]]
    BY DEF After, Retained
  <1> HIDE DEF keys
  <1> QED BY <1>4, <1>5

Until(rows, seq) == Retained(rows, LAMBDA row : row.seq <= seq)

LEMMA RowsUpTo ==
  ASSUME NEW rows, Rising(rows), NEW n \in 0..Len(rows)
  PROVE  Until(rows, SeqAt(rows, n)) = [k \in 1..n |-> rows[k]]
  <1> DEFINE keys == {m \in DOMAIN rows : rows[m].seq <= SeqAt(rows, n)}
  <1>1. Len(rows) \in Nat /\ DOMAIN rows = 1..Len(rows)
    BY DEF Rising
  <1>2. \A m \in 1..Len(rows) : rows[m].seq \in Nat \ {0}
    BY RisingTyped
  <1>3. keys = (0 + 1)..n
    <2>1. ASSUME NEW m \in 1..Len(rows) PROVE rows[m].seq <= SeqAt(rows, n) <=> m <= n
      <3>1. CASE n = 0
        BY <1>2, <3>1 DEF SeqAt
      <3>2. CASE n # 0
        BY <1>1, <1>2, <3>2 DEF SeqAt, Rising
      <3> QED BY <3>1, <3>2
    <2> QED BY <1>1, <2>1
  <1>4. InOrder(keys) = [k \in 1..(n - 0) |-> 0 + k]
        /\ DOMAIN InOrder(keys) = 1..(n - 0)
    <2> HIDE DEF keys
    <2> QED BY <1>1, <1>3, IntervalsInOrder
  <1>5. Until(rows, SeqAt(rows, n)) = [k \in DOMAIN InOrder(keys) |-> rows[InOrder(keys)[k]]]
    BY DEF Until, Retained
  <1> HIDE DEF keys
  <1> QED BY <1>4, <1>5
-----------------------------------------------------------------------------
(***************************************************************************)
(* The poll.  The panel shows the first n rows; a poll that waits for the  *)
(* rows after them has asked with the cursor of the n-th, and what it got  *)
(* are the rows after it, up to some m-th.                                 *)
(***************************************************************************)
Cut(n) == IF n < KEEP THEN n ELSE KEEP
Panel(rows, n) == [k \in 1..Cut(n) |-> rows[n + 1 - k]]
Between(rows, n, m) == [k \in 1..(m - n) |-> rows[n + k]]

Shows(rows, u, n) ==
  /\ n \in 0..Len(rows)
  /\ u.journalSeq = SeqAt(rows, n)
  /\ u.journal = Panel(rows, n)

Fetched(rows, n, got) ==
  \E m \in n..Len(rows) : got = Between(rows, n, m)

Fetches(rows, u, x, n) ==
  x.at = "events" =>
    LET r == Get("events", u.journalSeq)
    IN  /\ x.wants \cup DOMAIN x.got = {r}
        /\ r \in DOMAIN x.got => Fetched(rows, n, x.got[r])

(* A call and the store have the parts they should.                        *)
IsCall(x) ==
  x = [at |-> x.at, wants |-> x.wants, got |-> [r \in DOMAIN x.got |-> x.got[r]],
       participants |-> x.participants, days |-> x.days]

IsStore(u) ==
  u = [connected |-> u.connected, participants |-> u.participants,
       portfolios |-> u.portfolios, journal |-> u.journal, journalSeq |-> u.journalSeq,
       days |-> u.days, board |-> u.board, selectedDay |-> u.selectedDay,
       ladder |-> u.ladder]

Parts ==
  /\ Rising(log) /\ world \in Nat \ {0}
  /\ IsStore(ui)
  /\ call = [c \in Calls |-> call[c]]
  /\ \A c \in Calls : IsCall(call[c])
  /\ call[Click].at \in {"idle", "board"}

Polls(rows, u, x) == \E n \in 0..Len(rows) : Shows(rows, u, n) /\ Fetches(rows, u, x, n)

CockpitInv == Parts /\ (world = 1 => Polls(log, ui, call[1]))

-----------------------------------------------------------------------------
(***************************************************************************)
(* The server's steps.                                                     *)
(***************************************************************************)
LEMMA OneMoreRow ==
  ASSUME NEW rows, Rising(rows), NEW row \in JournalRow, row.seq > Newest(rows)
  PROVE  /\ Rising(Append(rows, row))
         /\ Len(Append(rows, row)) = Len(rows) + 1
         /\ \A m \in 1..Len(rows) : Append(rows, row)[m] = rows[m]
  <1> DEFINE more == Append(rows, row)
  <1>1. /\ Len(rows) \in Nat /\ rows \in Seq(JournalRow)
        /\ more \in Seq(JournalRow) /\ Len(more) = Len(rows) + 1
        /\ more[Len(rows) + 1] = row
        /\ \A m \in 1..Len(rows) : more[m] = rows[m]
    BY DEF Rising
  <1>2. \A m \in 1..Len(rows) : rows[m].seq \in Nat
    BY RisingTyped
  <1>3. \A m \in 1..Len(rows) : rows[m].seq < row.seq
    <2> SUFFICES ASSUME NEW m \in 1..Len(rows) PROVE rows[m].seq < row.seq
      OBVIOUS
    <2>1. rows # <<>>
      BY <1>1
    <2>2. Newest(rows) = rows[Len(rows)].seq
      BY <2>1 DEF Newest
    <2>3. m < Len(rows) => rows[m].seq < rows[Len(rows)].seq
      BY <1>1 DEF Rising
    <2>4. Len(rows) \in 1..Len(rows) /\ row.seq \in Nat
      BY <1>1 DEF JournalRow
    <2>5. rows[m].seq \in Nat /\ rows[Len(rows)].seq \in Nat
      BY <1>2, <2>4
    <2> QED BY <1>1, <2>2, <2>3, <2>4, <2>5
  <1> HIDE DEF more
  <1>4. ASSUME NEW m \in 1..Len(more), NEW n \in 1..Len(more), m < n
        PROVE  more[m].seq < more[n].seq
    <2>1. m \in 1..Len(rows) /\ more[m] = rows[m]
      BY <1>1, <1>4
    <2>2. CASE n = Len(rows) + 1
      BY <1>1, <1>3, <2>1, <2>2
    <2>3. CASE n # Len(rows) + 1
      <3>1. n \in 1..Len(rows) /\ more[n] = rows[n]
        BY <1>1, <2>3
      <3> QED BY <1>4, <2>1, <3>1 DEF Rising
    <2> QED BY <2>2, <2>3
  <1>5. Rising(more)
    BY <1>1, <1>4 DEF Rising
  <1> QED BY <1>1, <1>5 DEF more

LEMMA PollsGoOn ==
  ASSUME NEW rows, Len(rows) \in Nat, NEW more, Len(more) \in Nat, Len(rows) <= Len(more),
         \A m \in 1..Len(rows) : more[m] = rows[m],
         NEW u, NEW x, Polls(rows, u, x)
  PROVE  Polls(more, u, x)
  <1>1. PICK n \in 0..Len(rows) : Shows(rows, u, n) /\ Fetches(rows, u, x, n)
    BY DEF Polls
  <1>2. n \in 0..Len(more) /\ SeqAt(more, n) = SeqAt(rows, n)
    BY DEF SeqAt
  <1>3. \A k \in 1..Cut(n) : more[n + 1 - k] = rows[n + 1 - k]
    <2> SUFFICES ASSUME NEW k \in 1..Cut(n) PROVE more[n + 1 - k] = rows[n + 1 - k]
      OBVIOUS
    <2>1. n + 1 - k \in 1..Len(rows)
      BY CockpitAssumption DEF Cut
    <2> QED BY <2>1
  <1>4. Shows(more, u, n)
    BY <1>1, <1>2, <1>3 DEF Shows, Panel
  <1>5. \A got : Fetched(rows, n, got) => Fetched(more, n, got)
    <2> SUFFICES ASSUME NEW got, NEW m \in n..Len(rows), got = Between(rows, n, m)
                 PROVE  Fetched(more, n, got)
      BY DEF Fetched
    <2>1. \A k \in 1..(m - n) : more[n + k] = rows[n + k]
      <3> SUFFICES ASSUME NEW k \in 1..(m - n) PROVE more[n + k] = rows[n + k]
        OBVIOUS
      <3>1. n + k \in 1..Len(rows)
        OBVIOUS
      <3> QED BY <3>1
    <2>2. m \in n..Len(more) /\ got = Between(more, n, m)
      BY <2>1 DEF Between
    <2> QED BY <2>2 DEF Fetched
  <1>6. Fetches(more, u, x, n)
    BY <1>1, <1>5 DEF Fetches
  <1> QED BY <1>2, <1>4, <1>6 DEF Polls

LEMMA NewestIsARow ==
  ASSUME NEW rows, Rising(rows)
  PROVE  Newest(rows) = SeqAt(rows, Len(rows)) /\ Newest(rows) \in Nat
  <1>1. Len(rows) \in Nat /\ (rows = <<>> <=> Len(rows) = 0)
    BY DEF Rising
  <1>2. rows # <<>> => rows[Len(rows)].seq \in Nat
    BY <1>1, RisingTyped
  <1> QED BY <1>1, <1>2 DEF Newest, SeqAt

LEMMA JournalsKeeps ==
  ASSUME CockpitInv, NEW kind \in {"trade", "join", "close"},
         NEW of \in {None} \cup Traders \cup 1..LastDay, Journals(kind, of)
  PROVE  CockpitInv'
  <1>1. PICK gap \in Gaps :
          log' = Append(log, [seq |-> Newest(log) + gap, world |-> world,
                              kind |-> kind, of |-> of])
    BY DEF Journals
  <1> DEFINE row == [seq |-> Newest(log) + gap, world |-> world, kind |-> kind, of |-> of]
  <1>2. UNCHANGED <<world, ui, call>> /\ Rising(log) /\ world \in Nat
    BY DEF Journals, CockpitInv, Parts
  <1>3. Newest(log) \in Nat /\ gap \in Nat \ {0}
    BY <1>2, NewestIsARow, CockpitAssumption
  <1>4. row \in JournalRow /\ row.seq > Newest(log)
    BY <1>2, <1>3 DEF JournalRow
  <1> HIDE DEF row
  <1>5. /\ Rising(log') /\ Len(log') = Len(log) + 1
        /\ \A m \in 1..Len(log) : log'[m] = log[m]
    BY <1>1, <1>2, <1>4, OneMoreRow DEF row
  <1>6. Len(log) \in Nat
    BY <1>2 DEF Rising
  <1>7. Parts'
    BY <1>2, <1>5 DEF CockpitInv, Parts, Calls
  <1>8. ASSUME world' = 1 PROVE Polls(log', ui', call'[1])
    <2>1. Polls(log, ui, call[1])
      BY <1>2, <1>8 DEF CockpitInv
    <2>2. Polls(log', ui, call[1])
      BY <1>5, <1>6, <2>1, PollsGoOn
    <2> QED BY <1>2, <2>2
  <1> QED BY <1>7, <1>8 DEF CockpitInv

LEMMA ResetKeeps ==
  ASSUME CockpitInv, Reset
  PROVE  CockpitInv'
  <1>1. world \in Nat \ {0} /\ world' = world + 1 /\ log' = <<>> /\ UNCHANGED <<ui, call>>
    BY DEF Reset, CockpitInv, Parts
  <1>2. world' \in Nat \ {0} /\ world' # 1
    BY <1>1
  <1>3. Rising(log')
    BY <1>1 DEF Rising
  <1>4. Parts'
    BY <1>1, <1>2, <1>3 DEF CockpitInv, Parts, Calls
  <1> QED BY <1>2, <1>4 DEF CockpitInv
-----------------------------------------------------------------------------
(***************************************************************************)
(* The cockpit's steps.  Most leave the panel and its cursor alone, and    *)
(* leave no poll waiting for rows that was not.                            *)
(***************************************************************************)
LEMMA CallsBecome ==
  ASSUME Parts, NEW c \in Calls, NEW x, Becomes(c, x), IsCall(x),
         c = Click => x.at \in {"idle", "board"}
  PROVE  /\ call' = [d \in Calls |-> call'[d]]
         /\ \A d \in Calls : IsCall(call'[d])
         /\ call'[Click].at \in {"idle", "board"}
         /\ call'[c] = x
         /\ \A d \in Calls : d # c => call'[d] = call[d]
  <1>1. call = [d \in Calls |-> call[d]] /\ \A d \in Calls : IsCall(call[d])
    BY DEF Parts
  <1>2. call' = [d \in Calls |-> IF d = c THEN x ELSE call[d]]
    BY <1>1 DEF Becomes
  <1>3. Click \in Calls /\ call[Click].at \in {"idle", "board"}
    BY DEF Parts, Calls
  <1>4. \A d \in Calls : call'[d] = IF d = c THEN x ELSE call[d]
    BY <1>2
  <1>5. \A d \in Calls : IsCall(call'[d])
    <2> SUFFICES ASSUME NEW d \in Calls PROVE IsCall(call'[d])
      OBVIOUS
    <2> QED BY <1>1, <1>4
  <1> QED BY <1>2, <1>3, <1>4, <1>5

SamePanel(u, v) == v.journal = u.journal /\ v.journalSeq = u.journalSeq

LEMMA QuietSteps ==
  ASSUME Timers = 1, CockpitInv, UNCHANGED <<log, world>>,
         IsStore(ui'), SamePanel(ui, ui'),
         NEW c \in Calls, NEW x, Becomes(c, x), IsCall(x),
         c = Click => x.at \in {"idle", "board"}, x.at # "events"
  PROVE  CockpitInv'
  <1>1. Parts
    BY DEF CockpitInv
  <1>2. /\ call' = [d \in Calls |-> call'[d]]
        /\ \A d \in Calls : IsCall(call'[d])
        /\ call'[Click].at \in {"idle", "board"}
        /\ call'[c] = x
        /\ \A d \in Calls : d # c => call'[d] = call[d]
    BY <1>1, CallsBecome
  <1>3. Parts'
    BY <1>1, <1>2 DEF Parts, Calls
  <1>4. ASSUME world = 1 PROVE Polls(log, ui', call'[1])
    <2>1. PICK n \in 0..Len(log) : Shows(log, ui, n) /\ Fetches(log, ui, call[1], n)
      BY <1>4 DEF CockpitInv, Polls
    <2>2. Shows(log, ui', n)
      BY <2>1 DEF Shows, SamePanel
    <2>3. 1 \in Calls
      BY DEF Calls
    <2>4. Fetches(log, ui', call'[1], n)
      <3>1. CASE c = 1
        BY <1>2, <3>1 DEF Fetches
      <3>2. CASE c # 1
        <4>1. call'[1] = call[1]
          BY <1>2, <2>3, <3>2
        <4> QED BY <2>1, <4>1 DEF Fetches, SamePanel
      <3> QED BY <3>1, <3>2
    <2> QED BY <2>2, <2>4 DEF Polls
  <1> QED BY <1>3, <1>4 DEF CockpitInv

LEMMA CallsAwait ==
  ASSUME NEW at, NEW wants, NEW participants, NEW days
  PROVE  IsCall(Awaiting(at, wants, participants, days))
  BY DEF IsCall, Awaiting

LEMMA QuietlyAwaits ==
  ASSUME Timers = 1, CockpitInv, UNCHANGED <<log, world>>,
         IsStore(ui'), SamePanel(ui, ui'),
         NEW c \in Calls, NEW at, NEW wants, NEW participants, NEW days,
         Becomes(c, Awaiting(at, wants, participants, days)),
         c = Click => at \in {"idle", "board"}, at # "events"
  PROVE  CockpitInv'
  <1> DEFINE x == Awaiting(at, wants, participants, days)
  <1>1. IsCall(x)
    BY CallsAwait
  <1>2. x.at = at
    BY DEF Awaiting
  <1> HIDE DEF x
  <1>3. Becomes(c, x)
    BY DEF x
  <1> QED BY <1>1, <1>2, <1>3, QuietSteps

LEMMA GivesUpKeeps ==
  ASSUME Timers = 1, CockpitInv, NEW c \in Calls, GivesUp(c)
  PROVE  CockpitInv'
  <1>1. IsStore(ui') /\ SamePanel(ui, ui') /\ UNCHANGED <<log, world>>
    BY DEF CockpitInv, Parts, GivesUp, IsStore, SamePanel
  <1>2. Becomes(c, Awaiting("idle", {}, {}, {}))
    BY DEF GivesUp, Done
  <1> QED BY <1>1, <1>2, QuietlyAwaits

LEMMA RefreshKeeps ==
  ASSUME Timers = 1, CockpitInv, NEW c \in Calls, Refresh(c)
  PROVE  CockpitInv'
  <1>1. IsStore(ui') /\ SamePanel(ui, ui') /\ UNCHANGED <<log, world>> /\ c # Click
    BY DEF CockpitInv, Parts, Refresh, client_only, SamePanel
  <1>2. Becomes(c, Awaiting("health", {Get("health", None)}, {}, {}))
    BY DEF Refresh
  <1> QED BY <1>1, <1>2, QuietlyAwaits

LEMMA ClicksAwaitBoards ==
  ASSUME CockpitInv, NEW c \in Calls, NEW at, call[c].at = at, at \notin {"idle", "board"}
  PROVE  c # Click
  BY DEF CockpitInv, Parts

LEMMA AfterHealthKeeps ==
  ASSUME Timers = 1, CockpitInv, NEW c \in Calls, AfterHealth(c)
  PROVE  CockpitInv'
  <1>1. c # Click
    BY ClicksAwaitBoards DEF AfterHealth, Answered
  <1>2. IsStore(ui') /\ SamePanel(ui, ui') /\ UNCHANGED <<log, world>>
    BY DEF CockpitInv, Parts, AfterHealth, IsStore, SamePanel, client_only
  <1>3. PICK wants : Becomes(c, Awaiting("lists", wants, {}, {}))
    BY DEF AfterHealth
  <1> QED BY <1>1, <1>2, <1>3, QuietlyAwaits

LEMMA AfterBooksKeeps ==
  ASSUME Timers = 1, CockpitInv, NEW c \in Calls, AfterBooks(c)
  PROVE  CockpitInv'
  <1>1. c # Click
    BY ClicksAwaitBoards DEF AfterBooks, Answered
  <1>2. IsStore(ui') /\ SamePanel(ui, ui') /\ UNCHANGED <<log, world>>
    BY DEF CockpitInv, Parts, AfterBooks, IsStore, SamePanel, client_only
  <1>3. \/ \E wants, days : Becomes(c, Awaiting("board", wants, {}, days))
        \/ Becomes(c, Awaiting("idle", {}, {}, {}))
    BY DEF AfterBooks, Done
  <1> QED BY <1>1, <1>2, <1>3, QuietlyAwaits

LEMMA AfterBoardKeeps ==
  ASSUME Timers = 1, CockpitInv, NEW c \in Calls, AfterBoard(c)
  PROVE  CockpitInv'
  <1>1. IsStore(ui') /\ SamePanel(ui, ui') /\ UNCHANGED <<log, world>>
    BY DEF CockpitInv, Parts, AfterBoard, IsStore, SamePanel, client_only
  <1>2. CASE c = Click
    <2>1. Becomes(c, Awaiting("idle", {}, {}, {}))
      BY <1>2 DEF AfterBoard, Done
    <2> QED BY <1>1, <2>1, QuietlyAwaits
  <1>3. CASE c # Click
    <2>1. Becomes(c, Awaiting("ladder", {Get("ladder", None)}, {}, {}))
      BY <1>3 DEF AfterBoard
    <2> QED BY <1>1, <1>3, <2>1, QuietlyAwaits
  <1> QED BY <1>2, <1>3

LEMMA AfterLadderKeeps ==
  ASSUME Timers = 1, CockpitInv, NEW c \in Calls, AfterLadder(c)
  PROVE  CockpitInv'
  <1>1. IsStore(ui') /\ SamePanel(ui, ui') /\ UNCHANGED <<log, world>>
    BY DEF CockpitInv, Parts, AfterLadder, IsStore, SamePanel, client_only
  <1>2. Becomes(c, Awaiting("idle", {}, {}, {}))
    BY DEF AfterLadder, Done
  <1> QED BY <1>1, <1>2, QuietlyAwaits

LEMMA SelectDayKeeps ==
  ASSUME Timers = 1, CockpitInv, NEW d, SelectDay(d)
  PROVE  CockpitInv'
  <1>1. IsStore(ui') /\ SamePanel(ui, ui') /\ UNCHANGED <<log, world>> /\ Click \in Calls
    BY DEF CockpitInv, Parts, SelectDay, IsStore, SamePanel, Calls
  <1>2. Becomes(Click, Awaiting("board", {Get("leaderboard", d)}, {}, {}))
    BY DEF SelectDay
  <1> QED BY <1>1, <1>2, QuietlyAwaits
-----------------------------------------------------------------------------
(***************************************************************************)
(* The three steps that fetch rows: the poll asks with the cursor, the     *)
(* server answers, and the panel is filled.                                *)
(***************************************************************************)
LEMMA OneRefresh ==
  ASSUME Timers = 1, CockpitInv, NEW c \in Calls, c # Click
  PROVE  c = 1
  BY DEF Calls, Click

(* What the three of them have in common.                                  *)
LEMMA PollSteps ==
  ASSUME Timers = 1, CockpitInv, UNCHANGED <<log, world>>, IsStore(ui'),
         NEW x, Becomes(1, x), IsCall(x),
         world = 1 => Polls(log, ui', x)
  PROVE  CockpitInv'
  <1>1. Parts /\ 1 \in Calls /\ 1 # Click
    BY DEF CockpitInv, Calls, Click
  <1>2. /\ call' = [d \in Calls |-> call'[d]]
        /\ \A d \in Calls : IsCall(call'[d])
        /\ call'[Click].at \in {"idle", "board"}
        /\ call'[1] = x
    BY <1>1, CallsBecome
  <1>3. Parts'
    BY <1>1, <1>2 DEF Parts, Calls
  <1> QED BY <1>2, <1>3 DEF CockpitInv

LEMMA AfterListsKeeps ==
  ASSUME Timers = 1, CockpitInv, NEW c \in Calls, AfterLists(c)
  PROVE  CockpitInv'
  <1>1. c # Click
    BY ClicksAwaitBoards DEF AfterLists, Answered
  <1>2. c = 1
    BY <1>1, OneRefresh
  <1>3. IsStore(ui') /\ SamePanel(ui, ui') /\ UNCHANGED <<log, world>>
    BY DEF CockpitInv, Parts, AfterLists, IsStore, SamePanel, client_only
  <1> DEFINE r == Get("events", ui.journalSeq)
             x == Awaiting("events", {r}, Got(c, "participants", None), Got(c, "days", None))
  <1>4. Becomes(1, x) /\ IsCall(x)
    BY <1>2, CallsAwait DEF AfterLists
  <1>5. x.at = "events" /\ x.wants = {r} /\ DOMAIN x.got = {}
    BY DEF Awaiting
  <1> HIDE DEF x
  <1>6. ASSUME world = 1 PROVE Polls(log, ui', x)
    <2>1. PICK n \in 0..Len(log) : Shows(log, ui, n)
      BY <1>6 DEF CockpitInv, Polls
    <2>2. Shows(log, ui', n)
      BY <1>3, <2>1 DEF Shows, SamePanel
    <2>3. Fetches(log, ui', x, n)
      BY <1>3, <1>5 DEF Fetches, SamePanel
    <2> QED BY <2>2, <2>3 DEF Polls
  <1> QED BY <1>3, <1>4, <1>6, PollSteps

LEMMA ServeKeeps ==
  ASSUME Timers = 1, CockpitInv, NEW c \in Calls, NEW r \in call[c].wants, Serve(c, r)
  PROVE  CockpitInv'
  <1> DEFINE got == [q \in {r} \cup DOMAIN call[c].got |->
                       IF q = r THEN Answer(r) ELSE call[c].got[q]]
             x == [call[c] EXCEPT !.wants = @ \ {r}, !.got = got]
  <1>1. /\ UNCHANGED <<log, world, turns, ui>> /\ Becomes(c, x)
    BY DEF Serve
  <1>2. IsCall(call[c]) /\ IsStore(ui')
    BY <1>1 DEF CockpitInv, Parts
  <1>3. /\ IsCall(x) /\ x.at = call[c].at /\ x.wants = call[c].wants \ {r}
        /\ x.got = got /\ DOMAIN x.got = {r} \cup DOMAIN call[c].got
    <2> DEFINE y == call[c]
    <2>1. /\ y = [at |-> y.at, wants |-> y.wants, got |-> [q \in DOMAIN y.got |-> y.got[q]],
                  participants |-> y.participants, days |-> y.days]
          /\ x = [y EXCEPT !.wants = y.wants \ {r}, !.got = got]
      BY <1>2 DEF IsCall
    <2>2. DOMAIN got = {r} \cup DOMAIN y.got /\ got = [q \in DOMAIN got |-> got[q]]
      OBVIOUS
    <2> HIDE DEF y, got, x
    <2>3. x = [at |-> y.at, wants |-> y.wants \ {r}, got |-> got,
               participants |-> y.participants, days |-> y.days]
      BY <2>1
    <2>4. /\ x.at = y.at /\ x.wants = y.wants \ {r} /\ x.got = got
          /\ x.participants = y.participants /\ x.days = y.days
      BY <2>3
    <2>5. IsCall(x)
      BY <2>2, <2>3, <2>4 DEF IsCall
    <2> QED BY <2>2, <2>4, <2>5 DEF y
  <1> HIDE DEF x
  <1>4. CASE x.at # "events"
    <2>1. c = Click => x.at \in {"idle", "board"}
      BY <1>3 DEF CockpitInv, Parts
    <2> QED BY <1>1, <1>2, <1>3, <1>4, <2>1, QuietSteps DEF SamePanel
  <1>5. CASE x.at = "events"
    <2>1. c = 1
      BY <1>3, <1>5, ClicksAwaitBoards, OneRefresh
    <2>2. ASSUME world = 1 PROVE Polls(log, ui', x)
      <3>1. PICK n \in 0..Len(log) : Shows(log, ui, n) /\ Fetches(log, ui, call[1], n)
        BY <2>2 DEF CockpitInv, Polls
      <3>2. call[1].wants \cup DOMAIN call[1].got = {Get("events", ui.journalSeq)}
        BY <1>3, <1>5, <2>1, <3>1 DEF Fetches
      <3>3. r = Get("events", ui.journalSeq)
        BY <2>1, <3>2
      <3>4. Answer(r) = After(log, ui.journalSeq)
        BY <3>3 DEF Answer, Get
      <3>5. ui.journalSeq = SeqAt(log, n)
        BY <3>1 DEF Shows
      <3>6. Rising(log)
        BY DEF CockpitInv, Parts
      <3>7. Answer(r) = [k \in 1..(Len(log) - n) |-> log[n + k]]
        BY <3>4, <3>5, <3>6, RowsAfter
      <3>8. Len(log) \in n..Len(log)
        BY <3>6 DEF Rising
      <3>9. Fetched(log, n, Answer(r))
        BY <3>7, <3>8 DEF Fetched, Between
      <3>10. x.got[r] = Answer(r)
        BY <1>3
      <3>11. x.wants \cup DOMAIN x.got = {r}
        BY <1>3, <2>1, <3>2, <3>3
      <3>12. Fetches(log, ui, x, n)
        BY <3>3, <3>9, <3>10, <3>11 DEF Fetches
      <3> QED BY <1>1, <3>1, <3>12 DEF Polls
    <2> QED BY <1>1, <1>2, <1>3, <2>1, <2>2, PollSteps
  <1> QED BY <1>4, <1>5

(* The panel after the rows from the n-th to the m-th: the newest of all.  *)
LEMMA NarratedShows ==
  ASSUME NEW rows, Rising(rows), NEW n \in 0..Len(rows), NEW m \in n..Len(rows),
         NEW got, got = Between(rows, n, m), NEW journal, journal = Panel(rows, n)
  PROVE  /\ Narrated(journal, got) = Panel(rows, m)
         /\ Newest(got) = IF n = m THEN 0 ELSE SeqAt(rows, m)
         /\ got = <<>> <=> n = m
  <1>1. Len(rows) \in Nat /\ n \in Nat /\ m \in Nat /\ n <= m /\ Cut(n) \in 0..n
    BY CockpitAssumption DEF Rising, Cut
  <1>2. \A k \in 1..Len(rows) : rows[k] \in JournalRow
    BY RisingTyped
  <1>0. /\ got = [k \in 1..(m - n) |-> rows[n + k]]
        /\ journal = [k \in 1..Cut(n) |-> rows[n + 1 - k]]
    BY DEF Between, Panel
  <1>3. got \in Seq(JournalRow) /\ Len(got) = m - n /\ \A k \in 1..(m - n) : got[k] = rows[n + k]
    <2>1. \A k \in 1..(m - n) : rows[n + k] \in JournalRow
      BY <1>1, <1>2
    <2>2. got \in [1..(m - n) -> JournalRow]
      BY <1>0, <2>1
    <2>3. m - n \in Nat
      BY <1>1
    <2>4. got \in Seq(JournalRow)
      BY <2>2, <2>3, SeqDef
    <2> QED BY <1>0, <2>2, <2>3, <2>4
  <1>4. journal \in Seq(JournalRow) /\ Len(journal) = Cut(n)
        /\ \A k \in 1..Cut(n) : journal[k] = rows[n + 1 - k]
    <2>1. \A k \in 1..Cut(n) : rows[n + 1 - k] \in JournalRow
      BY <1>1, <1>2
    <2>2. journal \in [1..Cut(n) -> JournalRow]
      BY <1>0, <2>1
    <2>3. Cut(n) \in Nat
      BY <1>1
    <2>4. journal \in Seq(JournalRow)
      BY <2>2, <2>3, SeqDef
    <2> QED BY <1>0, <2>2, <2>3, <2>4
  <1> DEFINE back == Reverse(got)
             all == back \o journal
             l == IF Len(all) < KEEP THEN Len(all) ELSE KEEP
  <1>5. /\ back \in Seq(JournalRow) /\ Len(back) = m - n
        /\ \A k \in 1..(m - n) : back[k] = rows[m + 1 - k]
    <2>1. back = [k \in 1..(m - n) |-> got[(m - n) - k + 1]]
      BY <1>3 DEF Reverse
    <2> HIDE DEF back
    <2>2. \A k \in 1..(m - n) : got[(m - n) - k + 1] = rows[m + 1 - k]
      <3> SUFFICES ASSUME NEW k \in 1..(m - n) PROVE got[(m - n) - k + 1] = rows[m + 1 - k]
        OBVIOUS
      <3>1. (m - n) - k + 1 \in 1..(m - n) /\ n + ((m - n) - k + 1) = m + 1 - k
        BY <1>1
      <3> QED BY <1>3, <3>1
    <2>3. \A k \in 1..(m - n) : back[k] = rows[m + 1 - k] /\ back[k] \in JournalRow
      <3> SUFFICES ASSUME NEW k \in 1..(m - n)
                   PROVE  back[k] = rows[m + 1 - k] /\ back[k] \in JournalRow
        OBVIOUS
      <3>1. m + 1 - k \in 1..Len(rows)
        BY <1>1
      <3>2. back[k] = rows[m + 1 - k]
        BY <2>1, <2>2
      <3> QED BY <1>2, <3>1, <3>2
    <2>4. DOMAIN back = 1..(m - n) /\ back = [k \in 1..(m - n) |-> back[k]]
      BY <2>1
    <2>5. back \in [1..(m - n) -> JournalRow]
      BY <2>3, <2>4
    <2>6. m - n \in Nat
      BY <1>1
    <2>7. back \in Seq(JournalRow)
      BY <2>5, <2>6, SeqDef
    <2> QED BY <2>3, <2>5, <2>6, <2>7
  <1>6. /\ all \in Seq(JournalRow) /\ Len(all) = (m - n) + Cut(n)
        /\ \A k \in 1..Len(all) : all[k] = rows[m + 1 - k]
    <2>1. all = back \o journal
      OBVIOUS
    <2> HIDE DEF back, all
    <2>2. /\ all \in Seq(JournalRow) /\ Len(all) = (m - n) + Cut(n)
          /\ \A k \in 1..Len(all) :
               all[k] = IF k <= m - n THEN back[k] ELSE journal[k - (m - n)]
      <3>1. /\ all \in Seq(JournalRow) /\ Len(all) = Len(back) + Len(journal)
            /\ \A k \in 1..(Len(back) + Len(journal)) :
                 all[k] = IF k <= Len(back) THEN back[k] ELSE journal[k - Len(back)]
        <4>1. journal \in Seq(JournalRow) /\ back \in Seq(JournalRow)
          BY <1>4, <1>5
        <4> QED BY <2>1, <4>1, ConcatProperties
      <3>2. Len(back) = m - n /\ Len(journal) = Cut(n)
        BY <1>4, <1>5
      <3> QED BY <3>1, <3>2
    <2>3. ASSUME NEW k \in 1..((m - n) + Cut(n)) PROVE all[k] = rows[m + 1 - k]
      <3>1. CASE k <= m - n
        <4>1. k \in 1..(m - n) /\ all[k] = back[k]
          BY <1>1, <2>2, <3>1
        <4> QED BY <1>5, <4>1
      <3>2. CASE k > m - n
        <4>1. k - (m - n) \in 1..Cut(n) /\ n + 1 - (k - (m - n)) = m + 1 - k
          BY <1>1, <3>2
        <4>2. k \in 1..Len(all) /\ ~ (k <= m - n)
          BY <1>1, <2>2, <3>2
        <4>3. all[k] = journal[k - (m - n)]
          BY <2>2, <4>2
        <4> QED BY <1>4, <4>1, <4>3
      <3> QED BY <1>1, <3>1, <3>2
    <2> QED BY <2>2, <2>3
  <1>7. l = Cut(m) /\ l \in 0..Len(all)
    BY <1>1, <1>6, CockpitAssumption DEF Cut
  <1>8. Narrated(journal, got) = SubSeq(all, 1, l)
    BY DEF Narrated
  <1> HIDE DEF all, l, back
  <1>9. SubSeq(all, 1, l) = [k \in 1..l |-> all[k]]
    BY <1>6, <1>7
  <1>10. \A k \in 1..l : all[k] = rows[m + 1 - k]
    BY <1>6, <1>7
  <1>11. Narrated(journal, got) = Panel(rows, m)
    BY <1>7, <1>8, <1>9, <1>10 DEF Panel
  <1>12. got = <<>> <=> n = m
    BY <1>1, <1>3
  <1>13. n # m => got[Len(got)] = rows[m]
    BY <1>1, <1>3
  <1>14. Newest(got) = IF n = m THEN 0 ELSE SeqAt(rows, m)
    BY <1>1, <1>12, <1>13 DEF Newest, SeqAt
  <1> QED BY <1>11, <1>12, <1>14

LEMMA AfterEventsKeeps ==
  ASSUME Timers = 1, CockpitInv, NEW c \in Calls, AfterEvents(c)
  PROVE  CockpitInv'
  <1>1. c # Click
    BY ClicksAwaitBoards DEF AfterEvents, Answered
  <1>2. c = 1
    BY <1>1, OneRefresh
  <1>3. PICK r \in DOMAIN call[c].got :
          ui' = [ui EXCEPT
                   !.journal = IF call[c].got[r] = <<>> THEN @
                               ELSE Narrated(@, call[c].got[r]),
                   !.journalSeq = IF call[c].got[r] = <<>> THEN @
                                  ELSE Newest(call[c].got[r]),
                   !.days = call[c].days]
    BY DEF AfterEvents
  <1> DEFINE got == call[c].got[r]
  <1>4. /\ IsStore(ui')
        /\ ui'.journal = IF got = <<>> THEN ui.journal ELSE Narrated(ui.journal, got)
        /\ ui'.journalSeq = IF got = <<>> THEN ui.journalSeq ELSE Newest(got)
    BY <1>3 DEF CockpitInv, Parts, IsStore
  <1>5. UNCHANGED <<log, world>> /\ Rising(log)
    BY DEF CockpitInv, Parts, AfterEvents, client_only
  <1>6. PICK wants : Becomes(1, Awaiting("books", wants, call[c].participants, call[c].days))
    BY <1>2 DEF AfterEvents
  <1> DEFINE x == Awaiting("books", wants, call[c].participants, call[c].days)
  <1>7. IsCall(x) /\ x.at = "books" /\ Becomes(1, x)
    BY <1>6, CallsAwait DEF Awaiting
  <1> HIDE DEF x
  <1>8. ASSUME world = 1 PROVE Polls(log, ui', x)
    <2>1. PICK n \in 0..Len(log) : Shows(log, ui, n) /\ Fetches(log, ui, call[1], n)
      BY <1>8 DEF CockpitInv, Polls
    <2>2. r = Get("events", ui.journalSeq) /\ Fetched(log, n, got)
      BY <1>2, <2>1 DEF Fetches, AfterEvents, Answered
    <2> HIDE DEF got
    <2>3. PICK m \in n..Len(log) : got = Between(log, n, m)
      BY <2>2 DEF Fetched
    <2> DEFINE journal == ui.journal
    <2>4. journal = Panel(log, n) /\ ui.journalSeq = SeqAt(log, n)
      BY <2>1 DEF Shows
    <2> HIDE DEF journal
    <2>5. /\ Narrated(journal, got) = Panel(log, m)
          /\ Newest(got) = IF n = m THEN 0 ELSE SeqAt(log, m)
          /\ got = <<>> <=> n = m
      BY <1>5, <2>3, <2>4, NarratedShows
    <2>6. m \in 0..Len(log)
      BY <1>5 DEF Rising
    <2>7. Shows(log, ui', m)
      <3>1. CASE n = m
        BY <1>4, <2>4, <2>5, <2>6, <3>1 DEF Shows, journal, got
      <3>2. CASE n # m
        BY <1>4, <2>4, <2>5, <2>6, <3>2 DEF Shows, journal, got
      <3> QED BY <3>1, <3>2
    <2>8. Fetches(log, ui', x, m)
      BY <1>7 DEF Fetches
    <2> QED BY <2>6, <2>7, <2>8 DEF Polls
  <1> QED BY <1>4, <1>5, <1>7, <1>8, PollSteps

-----------------------------------------------------------------------------
LEMMA InitiallyPolls ==
  ASSUME Timers = 1, Init
  PROVE  CockpitInv
  <1>1. log = <<>> /\ world = 1 /\ ui = InitialState /\ call = [c \in Calls |-> Done]
    BY DEF Init
  <1>2. Rising(log) /\ Len(log) = 0
    BY <1>1 DEF Rising
  <1>3. IsStore(ui) /\ ui.journal = <<>> /\ ui.journalSeq = 0
    BY <1>1 DEF IsStore, InitialState
  <1>4. IsCall(Done) /\ Done.at = "idle"
    BY CallsAwait DEF Done, Awaiting
  <1>5. Parts
    BY <1>1, <1>2, <1>3, <1>4 DEF Parts, Calls
  <1>6. Shows(log, ui, 0)
    <2>1. Cut(0) = 0
      BY CockpitAssumption DEF Cut
    <2> DEFINE p == Panel(log, 0)
    <2>2. p \in [1..0 -> JournalRow]
      BY <2>1 DEF Panel
    <2>3. p \in Seq(JournalRow)
      BY <2>2, SeqDef
    <2>4. p = <<>>
      BY <2>2, <2>3
    <2> HIDE DEF p
    <2> QED BY <1>2, <1>3, <2>4 DEF Shows, SeqAt, p
  <1>7. 0 \in 0..Len(log)
    BY <1>2
  <1>8. Polls(log, ui, Done)
    BY <1>4, <1>6, <1>7 DEF Polls, Fetches
  <1>9. call[1] = Done
    BY <1>1 DEF Calls
  <1> QED BY <1>5, <1>8, <1>9 DEF CockpitInv
LEMMA NextKeeps ==
  ASSUME Timers = 1, CockpitInv, Next
  PROVE  CockpitInv'
  <1>1. CASE Trade
    BY <1>1, JournalsKeeps DEF Trade
  <1>2. CASE Reset
    BY <1>2, ResetKeeps
  <1>3. ASSUME NEW p \in Traders, Join(p) PROVE CockpitInv'
    BY <1>3, JournalsKeeps DEF Join
  <1>4. ASSUME NEW d \in 1..LastDay, Close(d) PROVE CockpitInv'
    BY <1>4, JournalsKeeps DEF Close
  <1>5. ASSUME NEW d \in 1..LastDay, SelectDay(d) PROVE CockpitInv'
    BY <1>5, SelectDayKeeps
  <1>6. ASSUME NEW c \in Calls, Proceeds(c) PROVE CockpitInv'
    <2>1. CASE Refresh(c)
      BY <2>1, RefreshKeeps
    <2>2. ASSUME NEW r \in call[c].wants, Serve(c, r) PROVE CockpitInv'
      BY <2>2, ServeKeeps
    <2>3. CASE Resumes(c)
      BY <2>3, AfterHealthKeeps, AfterListsKeeps, AfterEventsKeeps, AfterBooksKeeps,
         AfterBoardKeeps, AfterLadderKeeps DEF Resumes
    <2>4. CASE Rejected(c)
      BY <2>4, GivesUpKeeps DEF Rejected
    <2> QED BY <1>6, <2>1, <2>2, <2>3, <2>4 DEF Proceeds
  <1>7. ASSUME NEW c \in Calls, Lost(c) PROVE CockpitInv'
    BY <1>7, GivesUpKeeps DEF Lost
  <1> QED BY <1>1, <1>2, <1>3, <1>4, <1>5, <1>6, <1>7 DEF Next

LEMMA CockpitInvariant ==
  ASSUME Timers = 1
  PROVE  Spec => []CockpitInv
  <1>1. Init => CockpitInv
    BY InitiallyPolls
  <1>2. CockpitInv /\ [Next]_vars => CockpitInv'
    <2>1. CASE Next
      BY <2>1, NextKeeps
    <2>2. ASSUME UNCHANGED vars, CockpitInv PROVE CockpitInv'
      BY <2>2 DEF vars, CockpitInv, Parts, Polls, Shows, Fetches, Fetched, Rising
    <2> QED BY <2>1, <2>2
  <1> QED BY <1>1, <1>2, PTL DEF Spec

LEMMA TheLogIsShown ==
  ASSUME CockpitInv
  PROVE  JournalIsTheLog
  <1> SUFFICES ASSUME world = 1
               PROVE  LET seen == Reverse(Retained(log, LAMBDA row : row.seq <= ui.journalSeq))
                      IN  ui.journal =
                            SubSeq(seen, 1, IF Len(seen) < KEEP THEN Len(seen) ELSE KEEP)
    BY DEF JournalIsTheLog
  <1>1. PICK n \in 0..Len(log) : Shows(log, ui, n)
    BY DEF CockpitInv, Polls
  <1>2. Rising(log) /\ Len(log) \in Nat /\ n \in Nat /\ Cut(n) \in 0..n
    BY CockpitAssumption DEF CockpitInv, Parts, Rising, Cut
  <1>3. ui.journalSeq = SeqAt(log, n) /\ ui.journal = Panel(log, n)
    BY <1>1 DEF Shows
  <1> DEFINE kept == Retained(log, LAMBDA row : row.seq <= ui.journalSeq)
             seen == Reverse(kept)
             l == IF Len(seen) < KEEP THEN Len(seen) ELSE KEEP
  <1>4. kept = [k \in 1..n |-> log[k]]
    <2>1. kept = Until(log, ui.journalSeq)
      BY DEF Until
    <2> QED BY <1>2, <1>3, <2>1, RowsUpTo
  <1> HIDE DEF kept
  <1>5. \A k \in 1..n : log[k] \in JournalRow
    BY <1>2, RisingTyped
  <1>6. kept \in [1..n -> JournalRow]
    BY <1>4, <1>5
  <1>7. kept \in Seq(JournalRow)
    BY <1>2, <1>6, SeqDef
  <1>8. Len(kept) = n
    BY <1>2, <1>6, <1>7
  <1>9. seen = [k \in 1..n |-> kept[(n - k) + 1]]
    BY <1>8 DEF Reverse
  <1> HIDE DEF seen
  <1>10. \A k \in 1..n : seen[k] = log[n + 1 - k] /\ seen[k] \in JournalRow
    <2> SUFFICES ASSUME NEW k \in 1..n PROVE seen[k] = log[n + 1 - k] /\ seen[k] \in JournalRow
      OBVIOUS
    <2>1. (n - k) + 1 \in 1..n /\ (n - k) + 1 = n + 1 - k
      BY <1>2
    <2>2. seen[k] = log[n + 1 - k]
      BY <1>4, <1>9, <2>1
    <2> QED BY <1>5, <2>1, <2>2
  <1>11. seen \in [1..n -> JournalRow]
    BY <1>9, <1>10
  <1>12. seen \in Seq(JournalRow)
    BY <1>2, <1>11, SeqDef
  <1>13. Len(seen) = n
    BY <1>2, <1>11, <1>12
  <1>14. l = Cut(n)
    BY <1>13 DEF Cut
  <1> HIDE DEF l
  <1>15. SubSeq(seen, 1, l) = [k \in 1..l |-> seen[k]]
    BY <1>2, <1>12, <1>13, <1>14
  <1>16. \A k \in 1..l : seen[k] = log[n + 1 - k]
    BY <1>2, <1>10, <1>14
  <1>17. SubSeq(seen, 1, l) = Panel(log, n)
    BY <1>14, <1>15, <1>16 DEF Panel
  <1> QED BY <1>3, <1>17 DEF l, seen, kept

(* A client that polls for what is new (ui/src/store.ts, refresh) and whose *)
(* polls do not overlap shows the journal of the first world: every row up *)
(* to its cursor, none twice, none out of order, the newest of them if the *)
(* panel has no room for all.                                              *)
THEOREM JournalIsAlwaysTheLog ==
  ASSUME Timers = 1
  PROVE  Spec => []JournalIsTheLog
  <1>1. CockpitInv => JournalIsTheLog
    BY TheLogIsShown
  <1> QED BY <1>1, CockpitInvariant, PTL
=============================================================================
