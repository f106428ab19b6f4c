------------------------------ MODULE EventPump ------------------------------
(***************************************************************************)
(* Delivery from the event log to its consumers.  Sources:                 *)
(* oxplow-app/src/event_pump.rs, oxplow-db/src/event_log_store.rs and the  *)
(* payload sweep of oxplow-db/src/event_retention.rs.                      *)
(*                                                                         *)
(* Sync consumers handle an event, and move their checkpoint, in one       *)
(* transaction; one run at a time delivers to all of them.  Each async     *)
(* consumer has a slot: a lock, and a run that calls the handler outside   *)
(* any transaction and moves the checkpoint afterwards.  A failing event   *)
(* becomes a dead letter, which a person retries or discards.              *)
(*                                                                         *)
(* One action is one transaction, one read, or one handler call; taking a  *)
(* lock is one step with the read that follows it.  The log has no gaps:   *)
(* the database has one writer, so `seq` is the commit order, and rows are *)
(* never deleted.  Who runs a slot (its loop, run_once or a settle)        *)
(* matters only to the settle that waits for it.                           *)
(***************************************************************************)
EXTENDS Integers, Sequences, FiniteSets

CONSTANTS Types,        \* event types
          SyncOrder,    \* the sync consumers, as registered
          Async,        \* the async consumers
          Handles,      \* Handles[c]: the types consumer c handles
          AfterFor,     \* AfterFor[c][t]: whom c waits for on an event of type t
          Expiring,     \* types in a namespace retention expires
          Settles,      \* the sets of async consumers that callers settle
          Retriers,     \* retries of dead letters that may overlap
          BatchSize,    \* EventPump::batch
          MaxEvents,    \* bound: events appended
          MaxFaults,    \* bound: crashes, runs that fail on a storage error and
                        \* handler calls that end with Busy
          MaxDiscards   \* bound: letters discarded by a person

Sync == {SyncOrder[i] : i \in 1..Len(SyncOrder)}
Consumers == Sync \cup Async
Seqs == 1..MaxEvents

ASSUME BatchPositive == BatchSize \in Nat \ {0}
ASSUME ConsumersDiffer == Sync \cap Async = {}
ASSUME HandlesTypes == Handles \in [Consumers -> SUBSET Types]
ASSUME AfterConsumers == AfterFor \in [Async -> [Types -> SUBSET Consumers]]
ASSUME SettlesAsync == Settles \subseteq SUBSET Async
ASSUME EventsBounded == MaxEvents \in Nat \ {0}
ASSUME SyncRegistered == SyncOrder \in Seq(Sync) /\ Len(SyncOrder) > 0
ASSUME RetriersNamed == Retriers \cap {"free", "loop", "settle"} = {}

VARIABLES
    log,         \* event_log: type, and whether retention took the payload
    checkpoint,  \* event_consumer_checkpoint
    letter,      \* event_dead_letter: the state of each letter
    effects,     \* history: handler calls that succeeded (for a sync
                 \* consumer, that committed)
    syncRun,     \* run_sync
    slot,        \* run_slot, per async consumer
    lock,        \* AsyncSlot::lock
    retry,       \* retry_dead_letter, per retrier
    settle,      \* EventPump::settle
    failures, busies, discards   \* what the bounds count

dbVars == <<log, checkpoint, letter, effects>>
pumpVars == <<syncRun, slot, lock, retry, settle>>
boundVars == <<failures, busies, discards>>
vars == <<log, checkpoint, letter, effects, syncRun, slot, lock, retry, settle,
          failures, busies, discards>>

-----------------------------------------------------------------------------
(* Types and small operators.                                              *)

Event == [type : Types, expired : BOOLEAN]

\* An event as a run read it: the payload it holds may expire meanwhile.
Read == [seq : Seqs, type : Types, expired : BOOLEAN]

LetterStates == {"none", "pending", "retried", "discarded"}
HandlerResults == {"ok", "busy", "fails"}

After(c) == UNION {AfterFor[c][t] : t \in Types}

\* Mutant: the batch starts at the checkpoint instead of after it.
ReadFrom(seq) ==
    LET left == Len(log) - seq
    IN  [i \in 1..(IF left < BatchSize THEN left ELSE BatchSize) |->
            LET s == IF seq = 0 THEN i ELSE seq + i - 1
            IN  [seq |-> s, type |-> log[s].type, expired |-> log[s].expired]]

\* read_after_tx
ReadAfter(seq) ==
    LET left == Len(log) - seq
    IN  [i \in 1..(IF left < BatchSize THEN left ELSE BatchSize) |->
            [seq |-> seq + i, type |-> log[seq + i].type, expired |-> log[seq + i].expired]]

\* delivers: an event it handles whose payload retention has not replaced.
Delivers(c, event) == event.type \in Handles[c] /\ ~event.expired

\* Mutant: a predecessor still working on the event counts as past it.
PredecessorsReached(c, event) ==
    \A d \in AfterFor[c][event.type] : checkpoint[d] >= event.seq - 1

\* predecessors_past
PredecessorsPast(c, event) ==
    \A d \in AfterFor[c][event.type] : checkpoint[d] >= event.seq

\* set_checkpoint_tx
SetCheckpoint(c, seq) == checkpoint' = [checkpoint EXCEPT ![c] = seq]

SetLetter(c, seq, state) == letter' = [letter EXCEPT ![c][seq] = state]

\* Mutant: the failure is logged and the event forgotten.
ParkNothing(c, seq) == UNCHANGED letter

\* dead_letter_tx: also reopens a letter that was retried or discarded.
Park(c, seq) == SetLetter(c, seq, "pending")

Effect(c, seq) == effects' = [effects EXCEPT ![c][seq] = @ + 1]

\* checkpoint_skipped: 0 is None.
CheckpointSkipped(c, seq) ==
    IF seq = 0 THEN UNCHANGED checkpoint ELSE SetCheckpoint(c, seq)

IdleSync == [pc |-> "idle", at |-> 1, batch |-> <<>>]
IdleSlot == [pc |-> "idle", batch |-> <<>>, skipped |-> 0]
IdleRetry == [pc |-> "idle", consumer |-> SyncOrder[1], seq |-> 1]
IdleSettle == [pc |-> "idle", names |-> {}, remaining |-> {}, level |-> {},
               deferred |-> FALSE, failed |-> FALSE, target |-> 0]

-----------------------------------------------------------------------------
(* Producers, and run_sync.                                                *)

AppendEvent(t) ==
    /\ Len(log) < MaxEvents
    /\ log' = Append(log, [type |-> t, expired |-> FALSE])
    /\ UNCHANGED <<checkpoint, letter, effects, pumpVars, boundVars>>

\* Checkpoint and batch of the current consumer; on to the next one when it
\* has caught up.  The run starts, taking run_lock, with the first read.
SyncRead ==
    /\ syncRun.pc \in {"idle", "read"}
    /\ LET events == ReadAfter(checkpoint[SyncOrder[syncRun.at]])
       IN  syncRun' = IF events # <<>>
                      THEN [syncRun EXCEPT !.pc = "deliver", !.batch = events]
                      ELSE IF syncRun.at < Len(SyncOrder)
                           THEN [syncRun EXCEPT !.pc = "read", !.at = @ + 1]
                           ELSE IdleSync
    /\ UNCHANGED <<dbVars, slot, lock, retry, settle, boundVars>>

SyncAdvance ==
    LET rest == Tail(syncRun.batch)
    IN  syncRun' = [syncRun EXCEPT !.pc = IF rest = <<>> THEN "read" ELSE "deliver",
                                   !.batch = rest]

\* Mutant: the handler's writes commit before the checkpoint's transaction.
SyncDeliverUnsaved(result) ==
    LET c == SyncOrder[syncRun.at]
        event == Head(syncRun.batch)
    IN  /\ syncRun.pc = "deliver"
        /\ Delivers(c, event) /\ result = "busy" /\ failures + busies < MaxFaults
        /\ busies' = busies + 1
        /\ Effect(c, event.seq)
        /\ syncRun' = IdleSync
        /\ UNCHANGED <<log, checkpoint, letter, slot, lock, retry, settle, failures, discards>>

\* deliver: one transaction per event.
SyncDeliver(result) ==
    LET c == SyncOrder[syncRun.at]
        event == Head(syncRun.batch)
    IN  /\ syncRun.pc = "deliver"
        /\ \/ /\ ~Delivers(c, event)
              /\ SetCheckpoint(c, event.seq)
              /\ SyncAdvance
              /\ UNCHANGED <<letter, effects, busies>>
           \/ /\ Delivers(c, event) /\ result = "ok"
              /\ Effect(c, event.seq)
              /\ SetCheckpoint(c, event.seq)
              /\ SyncAdvance
              /\ UNCHANGED <<letter, busies>>
           \/ /\ Delivers(c, event) /\ result = "fails"
              /\ Park(c, event.seq)
              /\ SetCheckpoint(c, event.seq)
              /\ SyncAdvance
              /\ UNCHANGED <<effects, busies>>
           \/ /\ Delivers(c, event) /\ result = "busy"
              /\ failures + busies < MaxFaults
              /\ busies' = busies + 1
              /\ syncRun' = IdleSync   \* rolled back; the run returns the error
              /\ UNCHANGED <<checkpoint, letter, effects>>
        /\ UNCHANGED <<log, slot, lock, retry, settle, failures, discards>>

-----------------------------------------------------------------------------
(* run_slot.                                                               *)

\* A batch, as the loop over it finds it: events the consumer does not
\* deliver are passed over up to the next one it does.
Undelivered(c, events) ==
    CHOOSE n \in 0..Len(events) :
        /\ \A i \in 1..n : ~Delivers(c, events[i])
        /\ n < Len(events) => Delivers(c, events[n + 1])

PassOver(c, events, skipped) ==
    LET n == Undelivered(c, events)
    IN  [pc |-> "next",
         batch |-> SubSeq(events, n + 1, Len(events)),
         skipped |-> IF n = 0 THEN skipped ELSE events[n].seq]

\* The slot's lock is taken by its loop, or by a settle waiting for it, and
\* the first batch is read; with nothing to read the run is over.
SlotStart(c, by) ==
    /\ lock[c] = "free"
    /\ by = "settle" => settle.pc = "level" /\ c \in settle.level
    /\ LET events == ReadAfter(checkpoint[c])
       IN  IF events = <<>>
           THEN /\ settle' = IF by = "settle" THEN [settle EXCEPT !.level = @ \ {c}] ELSE settle
                /\ UNCHANGED <<slot, lock>>
           ELSE /\ slot' = [slot EXCEPT ![c] = PassOver(c, events, 0)]
                /\ lock' = [lock EXCEPT ![c] = by]
                /\ UNCHANGED settle
    /\ UNCHANGED <<dbVars, syncRun, retry, boundVars>>

\* The run ends and drops the lock; a settle counts what it reported.
SlotEnd(c, deferred) ==
    /\ slot' = [slot EXCEPT ![c] = IdleSlot]
    /\ lock' = [lock EXCEPT ![c] = "free"]
    /\ settle' = IF lock[c] = "settle"
                 THEN [settle EXCEPT !.level = @ \ {c}, !.deferred = @ \/ deferred]
                 ELSE settle

\* Mutant: a deferred event is passed over and later ones go ahead.
SlotDeferPassesOver(c) ==
    /\ slot' = [slot EXCEPT ![c] = PassOver(c, Tail(slot[c].batch), slot[c].skipped)]
    /\ UNCHANGED <<checkpoint, lock, settle>>

\* Mutant: the report does not count the deferral.
SlotDeferUnreported(c) == CheckpointSkipped(c, slot[c].skipped) /\ SlotEnd(c, FALSE)

\* A deferred delivery: later events wait behind it, the run is over.
SlotDefer(c) == CheckpointSkipped(c, slot[c].skipped) /\ SlotEnd(c, TRUE)

SlotRead(c) ==
    /\ slot[c].pc = "read"
    /\ LET events == ReadAfter(checkpoint[c])
       IN  IF events = <<>>
           THEN SlotEnd(c, FALSE)
           ELSE /\ slot' = [slot EXCEPT ![c] = PassOver(c, events, 0)]
                /\ UNCHANGED <<lock, settle>>
    /\ UNCHANGED <<dbVars, syncRun, retry, boundVars>>

\* The batch is done, and what it passed over is checkpointed; or its next
\* event is one to deliver, unless a predecessor is behind it.
SlotNext(c) ==
    /\ slot[c].pc = "next"
    /\ IF slot[c].batch = <<>>
       THEN /\ CheckpointSkipped(c, slot[c].skipped)
            /\ slot' = [slot EXCEPT ![c].pc = "read"]
            /\ UNCHANGED <<lock, settle>>
       ELSE IF PredecessorsPast(c, Head(slot[c].batch))
            THEN /\ slot' = [slot EXCEPT ![c].pc = "handle"]
                 /\ UNCHANGED <<checkpoint, lock, settle>>
            ELSE SlotDefer(c)
    /\ UNCHANGED <<log, letter, effects, syncRun, retry, boundVars>>

\* run_async_handler, outside any transaction.
SlotHandle(c, result) ==
    /\ slot[c].pc = "handle"
    /\ \/ /\ result = "ok"
          /\ Effect(c, Head(slot[c].batch).seq)
          /\ slot' = [slot EXCEPT ![c].pc = "commit"]
          /\ UNCHANGED <<checkpoint, lock, settle, busies, discards>>
       \/ /\ result = "fails"
          /\ slot' = [slot EXCEPT ![c].pc = "park"]
          /\ UNCHANGED <<checkpoint, effects, lock, settle, busies, discards>>
       \/ /\ result = "busy"
          /\ failures + busies < MaxFaults
          /\ busies' = busies + 1
          /\ SlotDefer(c)
          /\ UNCHANGED effects
    /\ UNCHANGED <<log, letter, syncRun, retry, failures, discards>>

SlotAdvance(c) == slot' = [slot EXCEPT ![c] = PassOver(c, Tail(slot[c].batch), 0)]

\* The transaction after the handler: the checkpoint, and the dead letter
\* when it failed for good.
SlotCommit(c) ==
    /\ slot[c].pc \in {"commit", "park"}
    /\ SetCheckpoint(c, Head(slot[c].batch).seq)
    /\ IF slot[c].pc = "park" THEN Park(c, Head(slot[c].batch).seq) ELSE UNCHANGED letter
    /\ SlotAdvance(c)
    /\ UNCHANGED <<log, effects, syncRun, lock, retry, settle, boundVars>>

-----------------------------------------------------------------------------
(* Dead letters.                                                           *)

\* find_letter, and the state check: before any lock or transaction.
RetryCheck(r, c, seq) ==
    /\ retry[r].pc = "idle"
    /\ letter[c][seq] = "pending"
    /\ retry' = [retry EXCEPT ![r] = [pc |-> IF c \in Async THEN "lock" ELSE "sync",
                                      consumer |-> c, seq |-> seq]]
    /\ UNCHANGED <<dbVars, syncRun, slot, lock, settle, boundVars>>

\* A sync consumer's retry is one transaction; an expired payload refuses it.
RetrySync(r, result) ==
    LET c == retry[r].consumer
        seq == retry[r].seq
    IN  /\ retry[r].pc = "sync"
        /\ IF log[seq].expired
           THEN UNCHANGED <<letter, effects>>
           ELSE IF result = "ok"
                THEN Effect(c, seq) /\ SetLetter(c, seq, "retried")
                ELSE Park(c, seq) /\ UNCHANGED effects
        /\ retry' = [retry EXCEPT ![r] = IdleRetry]
        /\ UNCHANGED <<log, checkpoint, syncRun, slot, lock, settle, boundVars>>

RetryEnd(r) ==
    /\ retry' = [retry EXCEPT ![r] = IdleRetry]
    /\ lock' = [lock EXCEPT ![retry[r].consumer] = "free"]

\* An async consumer's retry takes the slot's lock and reads the event; an
\* expired one is refused.
RetryLock(r) ==
    /\ retry[r].pc = "lock"
    /\ lock[retry[r].consumer] = "free"
    /\ IF log[retry[r].seq].expired
       THEN RetryEnd(r)
       ELSE /\ lock' = [lock EXCEPT ![retry[r].consumer] = r]
            /\ retry' = [retry EXCEPT ![r].pc = "handle"]
    /\ UNCHANGED <<dbVars, syncRun, slot, settle, boundVars>>

\* Any failure, Busy too, goes back to the letter.
RetryHandle(r, result) ==
    /\ retry[r].pc = "handle"
    /\ IF result = "ok"
       THEN /\ Effect(retry[r].consumer, retry[r].seq)
            /\ retry' = [retry EXCEPT ![r].pc = "resolve"]
       ELSE /\ retry' = [retry EXCEPT ![r].pc = "park"]
            /\ UNCHANGED effects
    /\ UNCHANGED <<log, checkpoint, letter, syncRun, slot, lock, settle, boundVars>>

RetryResolve(r) ==
    /\ retry[r].pc \in {"resolve", "park"}
    /\ IF retry[r].pc = "resolve"
       THEN SetLetter(retry[r].consumer, retry[r].seq, "retried")
       ELSE Park(retry[r].consumer, retry[r].seq)
    /\ RetryEnd(r)
    /\ UNCHANGED <<log, checkpoint, effects, syncRun, slot, settle, boundVars>>

\* discard_dead_letter asks nothing of the letter's state.
Discard(c, seq) ==
    /\ letter[c][seq] \notin {"none", "discarded"}
    /\ discards < MaxDiscards
    /\ discards' = discards + 1
    /\ SetLetter(c, seq, "discarded")
    /\ UNCHANGED <<log, checkpoint, effects, pumpVars, failures, busies>>

-----------------------------------------------------------------------------
(* The retention sweep: payloads expire, batch by batch, whoever has read  *)
(* them; the letters of expired events are discarded in a transaction of   *)
(* its own at the end of every sweep, one that expired nothing too.        *)

SweepExpire(seq) ==
    /\ seq <= Len(log)
    /\ log[seq].type \in Expiring
    /\ ~log[seq].expired
    /\ log' = [log EXCEPT ![seq].expired = TRUE]
    /\ UNCHANGED <<checkpoint, letter, effects, pumpVars, boundVars>>

SweepLetters ==
    /\ letter' = [c \in Consumers |-> [s \in Seqs |->
                    IF letter[c][s] = "pending" /\ s <= Len(log) /\ log[s].expired
                    THEN "discarded" ELSE letter[c][s]]]
    /\ UNCHANGED <<log, checkpoint, effects, syncRun, slot, lock, retry, settle, boundVars>>

-----------------------------------------------------------------------------
(* settle: catch up the named consumers, level by level.                   *)

SettleCall(names) ==
    /\ settle.pc \in {"idle", "caughtUp", "notCaughtUp"}
    /\ settle' = [pc |-> "plan", names |-> names, remaining |-> names, level |-> {},
                  deferred |-> FALSE, failed |-> FALSE, target |-> Len(log)]
    /\ UNCHANGED <<dbVars, syncRun, slot, lock, retry, boundVars>>

\* Mutant: a consumer outside the set is waited for too.
NextLevelWaitsForAll(remaining) == {c \in remaining : After(c) = {}}

\* settle_levels, one level at a time: the slots that wait for nobody left;
\* those of a cycle together.
NextLevel(remaining) ==
    LET ready == {c \in remaining : After(c) \cap remaining = {}}
    IN  IF ready = {} THEN remaining ELSE ready

SettlePlan ==
    /\ settle.pc = "plan"
    /\ settle' =
         IF settle.remaining = {}
         THEN [settle EXCEPT !.pc = IF settle.deferred THEN "notCaughtUp" ELSE "caughtUp"]
         ELSE [settle EXCEPT !.pc = "level",
                             !.level = NextLevel(settle.remaining),
                             !.remaining = settle.remaining \ NextLevel(settle.remaining)]
    /\ UNCHANGED <<dbVars, syncRun, slot, lock, retry, boundVars>>

SettleJoin ==
    /\ settle.pc = "level"
    /\ settle.level = {}
    /\ settle' = [settle EXCEPT !.pc = IF settle.failed THEN "notCaughtUp" ELSE "plan"]
    /\ UNCHANGED <<dbVars, syncRun, slot, lock, retry, boundVars>>

\* The timeout abandons the wait, never the work: the spawned run goes on,
\* and no caller is there to tell it from the loops.
SettleTimeout ==
    /\ settle.pc \in {"plan", "level"}
    /\ settle' = [settle EXCEPT !.pc = "notCaughtUp", !.level = {}, !.remaining = {}]
    /\ lock' = [c \in Async |-> IF lock[c] = "settle" THEN "loop" ELSE lock[c]]
    /\ UNCHANGED <<dbVars, syncRun, slot, retry, boundVars>>

-----------------------------------------------------------------------------
(* Failures.                                                               *)

\* A storage error ends a sync run, or the retry of a letter.
SyncFails ==
    /\ syncRun.pc # "idle"
    /\ failures + busies < MaxFaults
    /\ failures' = failures + 1
    /\ syncRun' = IdleSync
    /\ UNCHANGED <<dbVars, slot, lock, retry, settle, busies, discards>>

RetryFails(r) ==
    /\ retry[r].pc # "idle"
    /\ failures + busies < MaxFaults
    /\ failures' = failures + 1
    /\ IF retry[r].pc \in {"sync", "lock"}
       THEN retry' = [retry EXCEPT ![r] = IdleRetry] /\ UNCHANGED lock
       ELSE RetryEnd(r)
    /\ UNCHANGED <<dbVars, syncRun, slot, settle, busies, discards>>

\* Mutant: an error leaves the slot's lock held.
SlotFailsLocked(c) ==
    /\ slot[c].pc # "idle"
    /\ failures + busies < MaxFaults
    /\ failures' = failures + 1
    /\ slot' = [slot EXCEPT ![c] = IdleSlot]
    /\ UNCHANGED <<dbVars, syncRun, lock, retry, settle, busies, discards>>

\* A storage error ends a slot's run; a settle that waits for it has failed.
SlotFails(c) ==
    /\ slot[c].pc # "idle"
    /\ failures + busies < MaxFaults
    /\ failures' = failures + 1
    /\ slot' = [slot EXCEPT ![c] = IdleSlot]
    /\ lock' = [lock EXCEPT ![c] = "free"]
    /\ settle' = IF lock[c] = "settle"
                 THEN [settle EXCEPT !.level = @ \ {c}, !.failed = TRUE]
                 ELSE settle
    /\ UNCHANGED <<dbVars, syncRun, retry, busies, discards>>

\* The process dies: every run, lock, retry and wait is gone.
Crash ==
    /\ \/ syncRun.pc # "idle" \/ settle.pc # "idle"
       \/ \E c \in Async : slot[c].pc # "idle"
       \/ \E r \in Retriers : retry[r].pc # "idle"
    /\ failures + busies < MaxFaults
    /\ failures' = failures + 1
    /\ syncRun' = IdleSync
    /\ slot' = [c \in Async |-> IdleSlot]
    /\ lock' = [c \in Async |-> "free"]
    /\ retry' = [r \in Retriers |-> IdleRetry]
    /\ settle' = IdleSettle
    /\ UNCHANGED <<dbVars, busies, discards>>

-----------------------------------------------------------------------------
Init ==
    /\ log = <<>>
    /\ checkpoint = [c \in Consumers |-> 0]
    /\ letter = [c \in Consumers |-> [s \in Seqs |-> "none"]]
    /\ effects = [c \in Consumers |-> [s \in Seqs |-> 0]]
    /\ syncRun = IdleSync
    /\ slot = [c \in Async |-> IdleSlot]
    /\ lock = [c \in Async |-> "free"]
    /\ retry = [r \in Retriers |-> IdleRetry]
    /\ settle = IdleSettle
    /\ failures = 0
    /\ busies = 0
    /\ discards = 0

SyncStep ==
    \/ SyncRead
    \/ \E result \in HandlerResults : SyncDeliver(result)

SlotStep(c) ==
    \/ SlotRead(c)
    \/ SlotNext(c)
    \/ \E result \in HandlerResults : SlotHandle(c, result)
    \/ SlotCommit(c)

RetryStep(r) ==
    \/ \E result \in HandlerResults : RetrySync(r, result) \/ RetryHandle(r, result)
    \/ RetryLock(r)
    \/ RetryResolve(r)

SettleStep == SettlePlan \/ SettleJoin

Next ==
    \/ \E t \in Types : AppendEvent(t)
    \/ SyncStep
    \/ \E c \in Async :
          \/ \E by \in {"loop", "settle"} : SlotStart(c, by)
          \/ SlotStep(c)
          \/ SlotFails(c)
    \/ \E r \in Retriers :
          \/ \E c \in Consumers, s \in Seqs : RetryCheck(r, c, s)
          \/ RetryStep(r)
          \/ RetryFails(r)
    \/ \E c \in Consumers, s \in Seqs : Discard(c, s)
    \/ \E s \in Seqs : SweepExpire(s)
    \/ SweepLetters
    \/ \E names \in Settles : SettleCall(names)
    \/ SettleStep
    \/ SettleTimeout
    \/ SyncFails
    \/ Crash

Spec == Init /\ [][Next]_vars

\* Every loop runs again after IDLE_INTERVAL at the latest, the slot locks
\* are first come first served, and the sweep runs again and again.
Fairness ==
    /\ WF_vars(SyncStep)
    /\ \A c \in Async :
          /\ WF_vars(SlotStep(c))
          /\ SF_vars(SlotStart(c, "loop"))
          /\ SF_vars(SlotStart(c, "settle"))
    /\ \A r \in Retriers : WF_vars(RetryStep(r))
    /\ WF_vars(SettleStep)
    /\ WF_vars(SweepLetters)

FairSpec == Spec /\ Fairness

-----------------------------------------------------------------------------
(***************************************************************************)
(* Properties.                                                             *)
(***************************************************************************)

\* Every variable stays in its type.
TypeOK ==
    /\ log \in Seq(Event) /\ Len(log) <= MaxEvents
    /\ checkpoint \in [Consumers -> 0..MaxEvents]
    /\ letter \in [Consumers -> [Seqs -> LetterStates]]
    /\ effects \in [Consumers -> [Seqs -> Nat]]
    /\ syncRun \in [pc : {"idle", "read", "deliver"}, at : 1..Len(SyncOrder), batch : Seq(Read)]
    /\ slot \in [Async -> [pc : {"idle", "read", "next", "handle", "commit", "park"},
                           batch : Seq(Read), skipped : 0..MaxEvents]]
    /\ lock \in [Async -> {"free", "loop", "settle"} \cup Retriers]
    /\ retry \in [Retriers -> [pc : {"idle", "sync", "lock", "handle", "resolve", "park"},
                               consumer : Consumers, seq : 1..MaxEvents]]
    /\ settle \in [pc : {"idle", "plan", "level", "caughtUp", "notCaughtUp"},
                   names : SUBSET Async, remaining : SUBSET Async, level : SUBSET Async,
                   deferred : BOOLEAN, failed : BOOLEAN, target : 0..MaxEvents]
    /\ failures \in Nat /\ busies \in Nat /\ discards \in Nat

\* An event is dealt with: not for this consumer, handled, parked, or
\* history only.
Settled(c, s) ==
    \/ log[s].type \notin Handles[c]
    \/ effects[c][s] > 0
    \/ letter[c][s] # "none"
    \/ log[s].expired

\* Nothing is skipped silently: whatever crashes, defers or fails, an event
\* behind a consumer's checkpoint was handled, is in the dead-letter table,
\* or lost its payload to retention; and a letter somebody takes for settled,
\* being `retried`, is one whose handler succeeded.
NothingLost ==
    /\ \A c \in Consumers : \A s \in 1..checkpoint[c] : Settled(c, s)
    /\ \A c \in Consumers, s \in Seqs : letter[c][s] = "retried" => effects[c][s] > 0

\* A sync consumer's writes and its position never disagree: nothing ahead
\* of the checkpoint has an effect or a letter, and an event with a pending
\* letter has left no effect.
WritesMatchPosition ==
    \A c \in Sync, s \in Seqs :
        /\ s > checkpoint[c] => effects[c][s] = 0 /\ letter[c][s] = "none"
        /\ letter[c][s] = "pending" => effects[c][s] = 0

\* A sync consumer's writes for an event commit once; an async handler
\* succeeds again on the same event only after a crash or a failed run cut
\* it off from its checkpoint.
HandledOnce ==
    \A c \in Consumers, s \in Seqs :
        effects[c][s] <= IF c \in Sync THEN 1 ELSE 1 + failures

\* Per-consumer order: an async handler is called with an event only when
\* every earlier one is dealt with; a deferred event holds the later ones up.
DeliveredInOrder ==
    \A c \in Async :
        slot[c].pc = "handle" => \A s \in 1..(Head(slot[c].batch).seq - 1) : Settled(c, s)

\* `after`: a delivery reaches a consumer only once each consumer it waits
\* for has dealt with the event.
PredecessorsFirst ==
    \A c \in Async :
        slot[c].pc = "handle" =>
            LET event == Head(slot[c].batch)
            IN  \A d \in AfterFor[c][event.type] : Settled(d, event.seq)

\* A settle that answers true has caught its consumers up with everything
\* logged when it was called.
SettleMeansDelivered ==
    settle.pc = "caughtUp" =>
        \A c \in settle.names : \A s \in 1..settle.target : Settled(c, s)

\* Every event reaches every consumer: one poison event, one busy handler
\* or one slow predecessor never stalls the pump for good.
EveryEventDelivered ==
    \A s \in Seqs : Len(log) >= s ~> \A c \in Consumers : checkpoint[c] >= s

\* A settle answers by itself, though it waits for locks and levels: it
\* takes no timeout to end it, also when a predecessor is behind.
SettleReturns == settle.pc = "plan" ~> settle.pc \notin {"plan", "level"}

Unretriable(s) == {c \in Consumers : letter[c][s] = "pending" /\ log[s].expired}

\* A pending letter nobody can retry any more, its payload expired, is
\* discarded in the end, also one parked after the sweep had passed.
ExpiredLetterCleared ==
    \A s \in Seqs :
        (Unretriable(s) # {}) ~> Unretriable(s) = {}

\* Neither the log nor the dead letters stand still: what is logged passes every
\* consumer, and what can no longer be retried is cleared.
LogSettles == EveryEventDelivered /\ ExpiredLetterCleared

=============================================================================
