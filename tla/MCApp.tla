-------------------------------- MODULE MCApp -------------------------------
(***************************************************************************)
(* A server that crashes, fails to write, restarts and is reset while it   *)
(* serves a small competition.                                             *)
(***************************************************************************)
EXTENDS App

Permissive == [tick |-> 1, lot |-> 1, max_order_qty |-> None]
PermissiveOnly == {Permissive}
NoSeeds == <<>>
OneSeed == <<1>>

Up == mode \in {"opening", "serving", "resetting"}

-----------------------------------------------------------------------------
(* What the server answers from is what the journal replays to: whenever   *)
(* the process is up and no command is half way, the world in memory is    *)
(* the journal's, and one that has been appended but not yet applied       *)
(* leads to it.                                                            *)
ServedWorldIsJournaled ==
  /\ \E log \in ReadAll(journal) : ReplayOk(log)
  /\ Up /\ stage # "appended" => world = Durable
  /\ Up /\ stage = "appended" =>
       Commit(world, [k \in DOMAIN entries |-> entries[k].event]) = Durable

(* What the server is about to write is what a restart will read: every    *)
(* planned entry passes the reader's checks and decodes to the same event, *)
(* so no command it answers can stop a later boot (wire.rs).               *)
PlannedEntriesReadBack == \A k \in DOMAIN entries : RoundTrips(entries[k].event)

(* ON CONFLICT DO NOTHING never swallows an entry: whatever gaps failed    *)
(* writes, restarts and resets have left, a planned entry is past          *)
(* everything in the journal.                                              *)
AppendsLand ==
  /\ Up => LastSeq(journal) <= seq
  /\ stage = "planned" => \A k \in DOMAIN entries : LastSeq(journal) < entries[k].seq

(* An order id the server is about to mint has never been given to an      *)
(* order of this world, not even before a restart.                         *)
OrderIdsAreNew ==
  Up => \A i \in Ids : i >= next_order_id => Durable.orders[i] = None

(* No number that is on a row of the journal is given again.  One that was *)
(* lost before its append may be.                                          *)
NothingIsReissued == AppendsLand /\ OrderIdsAreNew

(* What a command can make of a world, the broker's counters having come   *)
(* however far: its ids are one per order and one per execution.           *)
Counts == [next_id : 1..MaxOrders + 1, next_exec_id : 1..MaxExecs + 1]

Outcomes(w) ==
  {Commit(w, plan.events) : plan \in UNION {OfferedPlans(w, b, n) : b \in Counts, n \in Ids}}

(* The journal stands for a world that changes by whole commands only.     *)
Promise == INSTANCE Atomic WITH world <- Durable, Fresh <- EmptyWorld, Outcomes <- Outcomes

JournalIsAtomic == Promise!AtomicSpec

(* Whoever reads the journal sees it grow at its end, in the order of its  *)
(* sequence numbers, or vanish: no crash, gap or restart puts a row before *)
(* a cursor that has passed it.                                            *)
Published == INSTANCE Feed WITH log <- Entries(journal)

JournalIsAFeed == Published!FeedSpec

(* A server that went down serves again.                                   *)
ServerReturns == mode = "down" ~> mode = "serving"

-----------------------------------------------------------------------------
(* No two executions of a world carry the same venue id.                   *)
ExecIdsAreUnique ==
  \A i, j \in Ids :
    \A m \in DOMAIN world.order_executions[i], n \in DOMAIN world.order_executions[j] :
      world.order_executions[i][m].exec_id = world.order_executions[j][n].exec_id
        => i = j /\ m = n

(* A restart never lands a seed in a registry whose instruments were       *)
(* removed through the API.  Not so: see the README.                       *)
SeedsNeverFight ==
  mode = "opening" /\ stage = "planned" =>
    \A n \in DOMAIN journal : journal[n].kind # "instrument_removed"
=============================================================================
