--------------------------------- MODULE App --------------------------------
(***************************************************************************)
(* The server process, api/src/lib.rs over store/src/lib.rs: a command is  *)
(* planned, appended to the journal and only then committed, all under one *)
(* mutex; the process may die between any two of these steps and boots by  *)
(* replaying the journal.  Only the journal survives it.                   *)
(***************************************************************************)
EXTENDS Engine, Wire

CONSTANTS
  Seeds,          \* the symbols of PTC_SYMBOLS, in order
  SeedSpec,       \* the spec they are seeded with
  MaxSeq,         \* bound: journal sequence numbers
  MaxFaults       \* bound: crashes and failed writes

ASSUME SeedsAssumption == Seeds \in Seq(Symbols) /\ SeedSpec \in InstrumentSpec
ASSUME BoundsAssumption == MaxSeq \in Nat /\ MaxFaults \in Nat

VARIABLES
  journal,        \* the events table: the seqs it holds -> rows, as Wire writes them
  seq,            \* Engine::seq
  next_order_id,  \* App::next_order_id
  entries,        \* the planned entries of the command in progress
  stage,          \* how far that command is: "idle", "planned", "appended"
  mode,           \* what the process is doing
  todo,           \* the seeds apply_seeds has still to land
  faults

process == <<seq, next_order_id, entries, stage, mode, todo>>
app_vars == <<vars, journal, process, faults>>

Modes == {"down", "opening", "serving", "clearing", "resetting"}

(* The rows in the order of their sequence numbers.                        *)
Entries(j) ==
  LET upto[n \in 0..MaxSeq] ==
        IF n = 0 THEN <<>>
        ELSE IF n \in DOMAIN j THEN Append(upto[n - 1], [seq |-> n, row |-> j[n]])
        ELSE upto[n - 1]
  IN  upto[MaxSeq]

(* SqliteLog::read_all: the one log it returns, or none at all when some   *)
(* row does not read.                                                      *)
ReadAll(j) ==
  {log \in {[k \in DOMAIN Entries(j) |-> Decode(Entries(j)[k].row)]} :
     \A n \in DOMAIN j : Reads(j[n])}

(* The world the journal stands for.                                       *)
Durable == CHOOSE w \in {Replay(log) : log \in ReadAll(journal)} : TRUE

LastSeq(j) == CHOOSE n \in {0} \cup DOMAIN j : \A m \in DOMAIN j : m <= n

SeedsFor(w) == IF \E s \in Symbols : w.instruments[s] # None THEN <<>> ELSE Seeds

AppInit ==
  /\ Init
  /\ journal = <<>>
  /\ seq = 0 /\ next_order_id = 1 /\ entries = <<>> /\ stage = "idle"
  /\ mode = "down" /\ todo = <<>> /\ faults = 0

-----------------------------------------------------------------------------
(***************************************************************************)
(* App::execute in three steps.  A command refused by plan is over at      *)
(* once; the broker keeps what it minted for it.                           *)
(***************************************************************************)
PlanCommand(plans) ==
  \E plan \in plans :
    LET count == Len(plan.events)
    IN  /\ seq + count <= MaxSeq
        /\ broker' = plan.broker
        /\ seq' = seq + count
        /\ entries' = [n \in 1..count |-> [seq |-> seq + n, event |-> plan.events[n]]]
        /\ stage' = IF count = 0 THEN "idle" ELSE "planned"
        /\ UNCHANGED <<world, journal, faults>>

(* Mutant: the two entries of a command are written one by one.            *)
AppendFirstOrAll ==
  /\ stage = "planned"
  /\ \E count \in {1, Len(entries)} :
       journal' = [n \in DOMAIN journal \cup {entries[k].seq : k \in 1..count} |->
                     IF n \in DOMAIN journal THEN journal[n]
                     ELSE Encode(entries[n - entries[1].seq + 1].event)]
  /\ stage' = "appended"
  /\ UNCHANGED <<vars, seq, next_order_id, entries, mode, todo, faults>>

(* EventLog::append: one transaction, ON CONFLICT(seq) DO NOTHING.         *)
AppendEntries ==
  /\ stage = "planned"
  /\ journal' = [n \in DOMAIN journal \cup {entries[k].seq : k \in DOMAIN entries} |->
                   IF n \in DOMAIN journal THEN journal[n]
                   ELSE Encode(entries[n - entries[1].seq + 1].event)]
  /\ stage' = "appended"
  /\ UNCHANGED <<vars, seq, next_order_id, entries, mode, todo, faults>>

(* A failed write: the plan is dropped, its sequence numbers are a gap.  A *)
(* reset then returns with the other seeds missing; a process that is only *)
(* opening gives up and exits, which is the step Crash.                    *)
AppendFails ==
  /\ stage = "planned" /\ mode # "opening"
  /\ faults < MaxFaults /\ faults' = faults + 1
  /\ entries' = <<>> /\ stage' = "idle" /\ todo' = <<>>
  /\ mode' = "serving"
  /\ UNCHANGED <<vars, journal, seq, next_order_id>>

(* Mutant: apply_seeds forgets which seeds have landed.                    *)
CommitKeepsTodo ==
  /\ stage = "appended"
  /\ world' = Commit(world, [k \in DOMAIN entries |-> entries[k].event])
  /\ entries' = <<>> /\ stage' = "idle"
  /\ UNCHANGED <<broker, journal, seq, next_order_id, mode, todo, faults>>

CommitEntries ==
  /\ stage = "appended"
  /\ world' = Commit(world, [k \in DOMAIN entries |-> entries[k].event])
  /\ entries' = <<>> /\ stage' = "idle"
  /\ todo' = IF todo = <<>> THEN <<>> ELSE Tail(todo)
  /\ UNCHANGED <<broker, journal, seq, next_order_id, mode, faults>>

-----------------------------------------------------------------------------
(***************************************************************************)
(* Opening: replay the journal with a fresh broker, then seed the registry *)
(* if it is empty, each seed a command of its own.                         *)
(***************************************************************************)
(* Mutant: the sequence resumes at the number of entries, not at the last. *)
BootCountsEntries ==
  /\ mode = "down" /\ mode' = "opening"
  /\ \E log \in ReadAll(journal) :
       /\ ReplayOk(log)
       /\ world' = Replay(log) /\ broker' = FreshBroker
       /\ seq' = Len(log)
       /\ next_order_id' = NextOrderId(Replay(log))
       /\ todo' = SeedsFor(Replay(log))
  /\ UNCHANGED <<journal, entries, stage, faults>>

(* Mutant: the id minter starts from 1 again.                              *)
BootForgetsIds ==
  /\ mode = "down" /\ mode' = "opening"
  /\ \E log \in ReadAll(journal) :
       /\ ReplayOk(log)
       /\ world' = Replay(log) /\ broker' = FreshBroker
       /\ seq' = LastSeq(journal)
       /\ next_order_id' = 1
       /\ todo' = SeedsFor(Replay(log))
  /\ UNCHANGED <<journal, entries, stage, faults>>

Boot ==
  /\ mode = "down" /\ mode' = "opening"
  /\ \E log \in ReadAll(journal) :
       /\ ReplayOk(log)
       /\ world' = Replay(log) /\ broker' = FreshBroker
       /\ seq' = LastSeq(journal)
       /\ next_order_id' = NextOrderId(Replay(log))
       /\ todo' = SeedsFor(Replay(log))
  /\ UNCHANGED <<journal, entries, stage, faults>>

ApplySeed ==
  /\ mode \in {"opening", "resetting"} /\ stage = "idle" /\ todo # <<>>
  /\ PlanCommand(CreateInstrumentPlans(world, broker, Head(todo), SeedSpec))
  /\ UNCHANGED <<next_order_id, mode, todo>>

Serving ==
  /\ mode \in {"opening", "resetting"} /\ stage = "idle" /\ todo = <<>>
  /\ mode' = "serving"
  /\ UNCHANGED <<vars, journal, seq, next_order_id, entries, stage, todo, faults>>

(* App::reset: the journal is cleared, then the engine and the broker are  *)
(* made anew and the seeds land again.                                     *)
(* Mutant: the first row survives the reset.                               *)
ClearJournalButOne ==
  /\ mode = "serving" /\ stage = "idle"
  /\ journal' = [n \in DOMAIN journal \cap {1} |-> journal[n]]
  /\ mode' = "clearing"
  /\ UNCHANGED <<vars, seq, next_order_id, entries, stage, todo, faults>>

ClearJournal ==
  /\ mode = "serving" /\ stage = "idle"
  /\ journal' = <<>>
  /\ mode' = "clearing"
  /\ UNCHANGED <<vars, seq, next_order_id, entries, stage, todo, faults>>

(* Mutant: the reset keeps the old world's sequence and world in memory.   *)
RebuildKeepsWorld ==
  /\ mode = "clearing"
  /\ broker' = FreshBroker /\ next_order_id' = 1
  /\ todo' = SeedsFor(EmptyWorld) /\ mode' = "resetting"
  /\ UNCHANGED <<world, seq, journal, entries, stage, faults>>

Rebuild ==
  /\ mode = "clearing"
  /\ world' = EmptyWorld /\ broker' = FreshBroker
  /\ seq' = 0 /\ next_order_id' = 1
  /\ todo' = SeedsFor(EmptyWorld) /\ mode' = "resetting"
  /\ UNCHANGED <<journal, entries, stage, faults>>

(* The process dies at any point: only the journal is left.                *)
Crash ==
  /\ mode # "down"
  /\ faults < MaxFaults /\ faults' = faults + 1
  /\ world' = EmptyWorld /\ broker' = FreshBroker
  /\ seq' = 0 /\ next_order_id' = 1 /\ entries' = <<>> /\ stage' = "idle"
  /\ todo' = <<>> /\ mode' = "down"
  /\ UNCHANGED journal

-----------------------------------------------------------------------------
(***************************************************************************)
(* The routes: each holds the mutex from its first step to its last.  The  *)
(* two that need a new order id mint it before they know whether the       *)
(* command will be refused.                                                *)
(***************************************************************************)
(* The bound leaves room for the seeds of a later boot.                    *)
Free == mode = "serving" /\ stage = "idle" /\ seq + 2 + Len(Seeds) <= MaxSeq

Serve(plans) ==
  /\ Free
  /\ PlanCommand(plans)
  /\ UNCHANGED <<next_order_id, mode, todo>>

ServeMinting(plans) ==
  /\ Free
  /\ next_order_id \in Ids
  /\ next_order_id' = next_order_id + 1
  /\ \/ PlanCommand(plans)
     \/ plans = {} /\ UNCHANGED <<vars, journal, seq, entries, stage, faults>>
  /\ UNCHANGED <<mode, todo>>

PostParticipant == \E p \in Participants, cash \in StartingCash :
  Serve(CreateParticipantPlans(world, broker, p, cash))

PostOrder == \E t \in OfferedTerms :
  ServeMinting(SubmitPlans(world, broker, next_order_id, t))

PutOrder == \E i \in Ids, qty \in OrderQtys, limit \in LimitPxs :
  ServeMinting(ReplacePlans(world, broker, i, next_order_id, qty, limit))

DeleteOrder == \E i \in Ids : Serve(CancelPlans(world, broker, i))

PostExecution ==
  /\ broker.next_exec_id <= MaxExecs
  /\ \/ \E i \in Ids, qty \in FillQtys, px \in FillPxs :
          Serve(ExecutePlans(world, broker, i, qty, px))
     \/ \E i \in Ids : AutoFills /\ Serve(AutoExecutePlans(world, broker, i))

PutMark == \E s \in Symbols, px \in MarkPxs : Serve(UpdateMarkPlans(world, broker, s, px))

PostInstrument == \E s \in Symbols, spec \in Specs :
  Serve(CreateInstrumentPlans(world, broker, s, spec))

PutInstrument == \E s \in Symbols, spec \in Specs :
  Serve(UpdateInstrumentPlans(world, broker, s, spec))

DeleteInstrument == \E s \in Symbols : Serve(RemoveInstrumentPlans(world, broker, s))

PostClose == \E d \in Days : Serve(CloseDayPlans(world, broker, d))

Route ==
  \/ PostParticipant \/ PostOrder \/ PutOrder \/ DeleteOrder \/ PostExecution
  \/ PutMark \/ PostInstrument \/ PutInstrument \/ DeleteInstrument \/ PostClose

AppNext ==
  \/ Boot \/ ApplySeed \/ Serving \/ ClearJournal \/ Rebuild
  \/ AppendEntries \/ AppendFails \/ CommitEntries
  \/ Crash \/ Route

AppSpec == AppInit /\ [][AppNext]_app_vars

(* A process that runs keeps running, and one that is down is restarted.   *)
AppFairSpec ==
  /\ AppSpec
  /\ WF_app_vars(Boot \/ ApplySeed \/ Serving \/ Rebuild)
  /\ WF_app_vars(AppendEntries \/ CommitEntries)
=============================================================================
