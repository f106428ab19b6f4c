--------------------------- MODULE EventPumpProofs ---------------------------
(***************************************************************************)
(* Theorems about EventPump, for any consumers, order of registration,     *)
(* `after` relation, batch size, number of events, faults and discards.    *)
(***************************************************************************)
EXTENDS EventPump, SequenceTheorems, NaturalsInduction, WellFoundedInduction, TLAPS

-----------------------------------------------------------------------------
(* The invariant.                                                          *)

\* The batch is what the log holds right after seq; a payload read as expired
\* is, but one may have expired since.
Follows(batch, seq) ==
    \A i \in 1..Len(batch) :
        /\ batch[i].seq = seq + i
        /\ seq + i <= Len(log)
        /\ batch[i].type = log[seq + i].type
        /\ batch[i].expired => log[seq + i].expired

\* Everything up to seq is dealt with.
SettledTo(c, seq) == \A s \in 1..seq : Settled(c, s)

\* How far a slot's run has got, which its checkpoint may not say yet.
Reached(c) == IF slot[c].skipped = 0 THEN checkpoint[c] ELSE slot[c].skipped

CheckpointOK(c) == checkpoint[c] <= Len(log) /\ SettledTo(c, checkpoint[c])

SyncRunOK ==
    syncRun.pc = "deliver" =>
        /\ syncRun.batch # <<>>
        /\ Follows(syncRun.batch, checkpoint[SyncOrder[syncRun.at]])

\* In a batch: what was passed over is dealt with, and the rest follows it; an
\* event whose handler is called has its predecessors past it, and one about to
\* be committed was handled.
SlotOK(c) ==
    slot[c].pc \in {"next", "handle", "commit", "park"} =>
        /\ checkpoint[c] <= Reached(c) /\ Reached(c) <= Len(log)
        /\ SettledTo(c, Reached(c))
        /\ Follows(slot[c].batch, Reached(c))
        /\ slot[c].pc # "next" => slot[c].batch # <<>>
        /\ slot[c].pc = "handle" => PredecessorsPast(c, Head(slot[c].batch))
        /\ slot[c].pc = "commit" => effects[c][Head(slot[c].batch).seq] > 0

\* A retry that resolves its letter has called the handler.
RetryOK(r) ==
    retry[r].pc = "resolve" => effects[retry[r].consumer][retry[r].seq] > 0

\* A letter taken for settled is one whose handler succeeded.
LettersOK == \A c \in Consumers, s \in Seqs : letter[c][s] = "retried" => effects[c][s] > 0

PumpInv ==
    /\ \A c \in Consumers : CheckpointOK(c)
    /\ SyncRunOK
    /\ \A c \in Async : SlotOK(c)
    /\ \A r \in Retriers : RetryOK(r)
    /\ LettersOK

-----------------------------------------------------------------------------
(* What the operators of the model return.                                 *)

\* read_after_tx reads what follows the position, and nothing only at the end.
LEMMA ReadAfterFollows ==
    ASSUME log \in Seq(Event), Len(log) <= MaxEvents, NEW seq \in 0..Len(log)
    PROVE  /\ ReadAfter(seq) \in Seq(Read)
           /\ Follows(ReadAfter(seq), seq)
           /\ ReadAfter(seq) = <<>> => seq = Len(log)
<1> DEFINE left == Len(log) - seq
           n == IF left < BatchSize THEN left ELSE BatchSize
           e(i) == [seq |-> seq + i, type |-> log[seq + i].type, expired |-> log[seq + i].expired]
<1>1. n \in Nat /\ seq \in Nat /\ Len(log) \in Nat /\ seq + n <= Len(log)
      /\ (n = 0 => seq = Len(log))
  BY BatchPositive
<1>2. ReadAfter(seq) = [i \in 1..n |-> e(i)]
  BY DEF ReadAfter
<1> HIDE DEF n
<1>3. \A i \in 1..n : seq + i \in 1..Len(log) /\ seq + i \in Seqs
  BY <1>1, EventsBounded DEF Seqs
<1>4. \A i \in 1..n : log[seq + i] \in Event
  BY <1>3
<1>5. \A i \in 1..n : e(i) \in Read
  BY <1>3, <1>4 DEF Read, Event
<1>6. ReadAfter(seq) \in [1..n -> Read]
  BY <1>2, <1>5
<1>7. ReadAfter(seq) \in Seq(Read)
  BY <1>1, <1>6, SeqDef
<1>8. Len(ReadAfter(seq)) = n
  BY <1>1, <1>6, <1>7
<1>9. Follows(ReadAfter(seq), seq)
  BY <1>1, <1>2, <1>3, <1>8 DEF Follows
<1> QED
  BY <1>1, <1>7, <1>8, <1>9

\* The loop over a batch stops at the first event the consumer delivers.
LEMMA UndeliveredRight ==
    ASSUME NEW c, NEW events \in Seq(Read)
    PROVE  /\ Undelivered(c, events) \in 0..Len(events)
           /\ \A i \in 1..Undelivered(c, events) : ~Delivers(c, events[i])
           /\ Undelivered(c, events) < Len(events) =>
                Delivers(c, events[Undelivered(c, events) + 1])
<1> DEFINE Stops(n) == n < Len(events) => Delivers(c, events[n + 1])
           T == {n \in 0..Len(events) : Stops(n)}
<1>1. Len(events) \in Nat /\ Len(events) \in T
  OBVIOUS
<1>2. PICK n \in T : \A m \in T : ~(<<m, n>> \in OpToRel(<, Nat))
  <2>1. T \subseteq Nat /\ T # {}
    BY <1>1
  <2> HIDE DEF T
  <2> QED
    BY <2>1, NatLessThanWellFounded, WFMin
<1>3. n \in 0..Len(events) /\ Stops(n)
  OBVIOUS
<1>4. ASSUME NEW i \in 1..n
      PROVE  ~Delivers(c, events[i])
  <2>1. i - 1 \in 0..Len(events) /\ i - 1 < n /\ (i - 1) + 1 = i /\ i - 1 \in Nat /\ n \in Nat
    BY <1>1, <1>3
  <2>2. <<i - 1, n>> \in OpToRel(<, Nat)
    BY <2>1 DEF OpToRel
  <2>3. i - 1 \notin T
    BY <1>2, <2>2
  <2> QED
    BY <2>1, <2>3
<1> QED
  BY <1>3, <1>4 DEF Undelivered

SlotStates == [pc : {"idle", "read", "next", "handle", "commit", "park"},
               batch : Seq(Read), skipped : 0..MaxEvents]

\* What the loop passes over is dealt with, and what is left of the batch
\* follows it.
LEMMA PassOverFollows ==
    ASSUME TypeOK, NEW c \in Async, NEW events \in Seq(Read), NEW seq \in 0..Len(log),
           Follows(events, seq),
           NEW run, run = PassOver(c, events, 0),
           NEW reached, reached = IF run.skipped = 0 THEN seq ELSE run.skipped
    PROVE  /\ run \in SlotStates /\ run.pc = "next"
           /\ reached \in seq..Len(log)
           /\ Follows(run.batch, reached)
           /\ \A s \in (seq + 1)..reached : Settled(c, s)
<1> DEFINE n == Undelivered(c, events)
           left == SubSeq(events, n + 1, Len(events))
<1>1. /\ n \in 0..Len(events)
      /\ \A i \in 1..n : ~Delivers(c, events[i])
  BY UndeliveredRight
<1>2. run = [pc |-> "next", batch |-> left, skipped |-> IF n = 0 THEN 0 ELSE events[n].seq]
  BY DEF PassOver
<1> HIDE DEF n
<1>3. Len(log) \in Nat /\ Len(log) <= MaxEvents /\ Len(events) \in Nat /\ MaxEvents \in Nat
  BY EventsBounded DEF TypeOK
<1>4. /\ left \in Seq(Read)
      /\ Len(left) = Len(events) - n
      /\ \A i \in 1..Len(left) : left[i] = events[n + i]
  <2>1. \A i \in (n + 1)..Len(events) : events[i] \in Read
    BY <1>1, <1>3
  <2> QED
    BY <1>1, <1>3, <2>1, SubSeqProperties
<1>5. n # 0 => events[n].seq = seq + n /\ seq + n <= Len(log)
  BY <1>1, <1>3 DEF Follows
<1>6. run.skipped = IF n = 0 THEN 0 ELSE seq + n
  BY <1>2, <1>5
<1>7. reached = seq + n /\ seq + n \in seq..Len(log)
  BY <1>1, <1>3, <1>5, <1>6
<1>8. Follows(left, seq + n)
  <2> HIDE DEF left
  <2>1. ASSUME NEW i \in 1..Len(left)
        PROVE  n + i \in 1..Len(events) /\ left[i] = events[n + i] /\ seq + (n + i) = (seq + n) + i
    BY <1>1, <1>3, <1>4
  <2> QED
    BY <2>1 DEF Follows
<1>9. ASSUME NEW s \in (seq + 1)..(seq + n)
      PROVE  Settled(c, s)
  <2>1. s - seq \in 1..n /\ s - seq \in 1..Len(events) /\ seq + (s - seq) = s
    BY <1>1, <1>3
  <2>2. ~Delivers(c, events[s - seq])
    BY <1>1, <2>1
  <2>3. events[s - seq].type = log[s].type /\ (events[s - seq].expired => log[s].expired)
    BY <2>1 DEF Follows
  <2> QED
    BY <2>2, <2>3 DEF Delivers, Settled
<1>10. run \in SlotStates
  <2>1. run.skipped \in 0..MaxEvents
    BY <1>1, <1>3, <1>6, <1>7
  <2>2. run = [pc |-> "next", batch |-> left, skipped |-> run.skipped]
    BY <1>2
  <2> HIDE DEF left
  <2> QED
    BY <1>4, <2>1, <2>2 DEF SlotStates
<1>11. run.pc = "next" /\ run.batch = left
  BY <1>2
<1> HIDE DEF left
<1> QED
  BY <1>7, <1>8, <1>9, <1>10, <1>11

\* The rest of a batch follows its first event.
LEMMA TailFollows ==
    ASSUME NEW batch \in Seq(Read), batch # <<>>, NEW seq \in Nat, Follows(batch, seq)
    PROVE  /\ Head(batch) \in Read /\ Head(batch).seq = seq + 1 /\ seq + 1 <= Len(log)
           /\ Head(batch).type = log[seq + 1].type
           /\ Head(batch).expired => log[seq + 1].expired
           /\ Tail(batch) \in Seq(Read)
           /\ Follows(Tail(batch), seq + 1)
<1>1. Len(batch) \in Nat /\ Len(batch) >= 1 /\ Head(batch) = batch[1] /\ 1 \in 1..Len(batch)
  OBVIOUS
<1>2. /\ Head(batch) \in Read /\ Tail(batch) \in Seq(Read) /\ Len(Tail(batch)) = Len(batch) - 1
      /\ \A i \in 1..Len(Tail(batch)) : Tail(batch)[i] = batch[i + 1]
  BY HeadTailProperties
<1>3. Follows(Tail(batch), seq + 1)
  BY <1>1, <1>2 DEF Follows
<1> QED
  BY <1>1, <1>2, <1>3 DEF Follows

-----------------------------------------------------------------------------
(* What every step keeps.                                                  *)

SyncStates == [pc : {"idle", "read", "deliver"}, at : 1..Len(SyncOrder), batch : Seq(Read)]
RetryStates == [pc : {"idle", "sync", "lock", "handle", "resolve", "park"},
                consumer : Consumers, seq : Seqs]
SettleStates == [pc : {"idle", "plan", "level", "caughtUp", "notCaughtUp"},
                 names : SUBSET Async, remaining : SUBSET Async, level : SUBSET Async,
                 deferred : BOOLEAN, failed : BOOLEAN, target : 0..MaxEvents]

DbTypes ==
    /\ log \in Seq(Event) /\ Len(log) <= MaxEvents
    /\ checkpoint \in [Consumers -> 0..MaxEvents]
    /\ letter \in [Consumers -> [Seqs -> LetterStates]]
    /\ effects \in [Consumers -> [Seqs -> Nat]]

RunTypes ==
    /\ syncRun \in SyncStates
    /\ slot \in [Async -> SlotStates]
    /\ lock \in [Async -> {"free", "loop", "settle"} \cup Retriers]
    /\ retry \in [Retriers -> RetryStates]
    /\ settle \in SettleStates

CountTypes == failures \in Nat /\ busies \in Nat /\ discards \in Nat

LEMMA TypesAre == TypeOK <=> DbTypes /\ RunTypes /\ CountTypes
BY DEF TypeOK, DbTypes, RunTypes, CountTypes, SyncStates, SlotStates, RetryStates, SettleStates, Seqs

\* The constants and the idle states have their types.
LEMMA IdleTypes ==
    /\ Sync \subseteq Consumers /\ Async \subseteq Consumers
    /\ \A i \in 1..Len(SyncOrder) : SyncOrder[i] \in Sync
    /\ MaxEvents \in Nat /\ Len(SyncOrder) \in Nat /\ 1 \in 1..Len(SyncOrder) /\ 1 \in Seqs
    /\ IdleSync \in SyncStates
    /\ IdleSlot \in SlotStates
    /\ IdleRetry \in RetryStates
    /\ IdleSettle \in SettleStates
<1>1. Sync \subseteq Consumers /\ Async \subseteq Consumers
  BY DEF Consumers
<1>2. /\ MaxEvents \in Nat /\ Len(SyncOrder) \in Nat /\ 1 \in 1..Len(SyncOrder) /\ 1 \in Seqs
      /\ 0 \in 0..MaxEvents
  BY EventsBounded, SyncRegistered DEF Seqs
<1>3. \A i \in 1..Len(SyncOrder) : SyncOrder[i] \in Sync
  BY DEF Sync
<1>4. <<>> \in Seq(Read)
  OBVIOUS
<1>5. IdleSync \in SyncStates
  BY <1>2, <1>4, Zenon DEF IdleSync, SyncStates
<1>6. IdleSlot \in SlotStates
  BY <1>2, <1>4, Zenon DEF IdleSlot, SlotStates
<1>7. IdleRetry \in RetryStates
  BY <1>1, <1>2, <1>3, Zenon DEF IdleRetry, RetryStates
<1>8. IdleSettle \in SettleStates
  BY <1>2, Zenon DEF IdleSettle, SettleStates
<1> QED
  BY <1>1, <1>2, <1>3, <1>5, <1>6, <1>7, <1>8

\* The log, the checkpoints and the record of what was handled only grow; a
\* letter changes its state but never goes.
Grows ==
    /\ Len(log) <= Len(log')
    /\ \A s \in 1..Len(log) :
        log'[s].type = log[s].type /\ (log[s].expired => log'[s].expired)
    /\ \A c \in Consumers, s \in Seqs :
        /\ effects[c][s] > 0 => effects'[c][s] > 0
        /\ letter[c][s] # "none" => letter'[c][s] # "none"
    /\ \A c \in Consumers : checkpoint[c] <= checkpoint'[c]

\* What is dealt with stays so.
LEMMA SettledStays ==
    ASSUME TypeOK, Grows
    PROVE  \A c \in Consumers, seq \in 0..Len(log) :
                SettledTo(c, seq) => \A s \in 1..seq : Settled(c, s)'
<1>1. Len(log) \in Nat /\ Len(log) <= MaxEvents /\ MaxEvents \in Nat
  BY EventsBounded DEF TypeOK
<1> SUFFICES ASSUME NEW c \in Consumers, NEW seq \in 0..Len(log), SettledTo(c, seq),
                    NEW s \in 1..seq
             PROVE  Settled(c, s)'
  OBVIOUS
<1>2. s \in 1..Len(log) /\ s \in Seqs
  BY <1>1 DEF Seqs
<1>3. Settled(c, s)
  BY DEF SettledTo
<1> QED
  BY <1>2, <1>3 DEF Settled, Grows

\* A batch still follows its position in a log that has grown.
LEMMA FollowsStays ==
    ASSUME TypeOK, TypeOK', Grows
    PROVE  \A batch \in Seq(Read), seq \in Nat :
                Follows(batch, seq) =>
                    \A i \in 1..Len(batch) :
                        /\ batch[i].seq = seq + i
                        /\ seq + i <= Len(log')
                        /\ batch[i].type = log'[seq + i].type
                        /\ batch[i].expired => log'[seq + i].expired
<1> SUFFICES ASSUME NEW batch \in Seq(Read), NEW seq \in Nat, Follows(batch, seq)
             PROVE  \A i \in 1..Len(batch) :
                        /\ batch[i].seq = seq + i
                        /\ seq + i <= Len(log')
                        /\ batch[i].type = log'[seq + i].type
                        /\ batch[i].expired => log'[seq + i].expired
  OBVIOUS
<1>1. Len(log) \in Nat /\ Len(log') \in Nat /\ Len(batch) \in Nat
  BY DEF TypeOK
<1>2. \A i \in 1..Len(batch) : seq + i \in 1..Len(log)
  BY <1>1 DEF Follows
<1>3. Len(log) <= Len(log') /\ \A s \in 1..Len(log) :
        log'[s].type = log[s].type /\ (log[s].expired => log'[s].expired)
  BY DEF Grows
<1> QED
  BY <1>1, <1>2, <1>3 DEF Follows

\* A part of the invariant holds after a step that leaves alone what it is about.
LEMMA Frames ==
    ASSUME TypeOK, TypeOK', PumpInv, Grows
    PROVE  /\ \A c \in Consumers : checkpoint'[c] = checkpoint[c] => CheckpointOK(c)'
           /\ UNCHANGED syncRun /\ (\A c \in Sync : checkpoint'[c] = checkpoint[c]) => SyncRunOK'
           /\ \A c \in Async :
                slot'[c] = slot[c] /\ checkpoint'[c] = checkpoint[c] => SlotOK(c)'
           /\ \A r \in Retriers : retry'[r] = retry[r] => RetryOK(r)'
<1>1. /\ Len(log) \in Nat /\ Len(log') \in Nat /\ Len(log) <= Len(log')
      /\ \A c \in Consumers : checkpoint[c] \in Nat /\ checkpoint'[c] \in Nat
                              /\ checkpoint[c] <= checkpoint'[c]
      /\ MaxEvents \in Nat
  BY EventsBounded DEF TypeOK, Grows
<1>2. ASSUME NEW c \in Consumers, checkpoint'[c] = checkpoint[c]
      PROVE  CheckpointOK(c)'
  <2>1. checkpoint[c] <= Len(log) /\ SettledTo(c, checkpoint[c])
    BY DEF PumpInv, CheckpointOK
  <2>2. checkpoint[c] \in 0..Len(log)
    BY <1>1, <2>1
  <2>3. \A s \in 1..checkpoint[c] : Settled(c, s)'
    BY <2>1, <2>2, SettledStays
  <2> QED
    BY <1>1, <1>2, <2>1, <2>3 DEF CheckpointOK, SettledTo
<1>3. ASSUME UNCHANGED syncRun, \A c \in Sync : checkpoint'[c] = checkpoint[c]
      PROVE  SyncRunOK'
  <2>1. SUFFICES ASSUME syncRun.pc = "deliver"
                 PROVE  SyncRunOK'
    BY <1>3 DEF SyncRunOK
  <2> DEFINE seq == checkpoint[SyncOrder[syncRun.at]]
  <2>2. syncRun.at \in 1..Len(SyncOrder) /\ syncRun.batch \in Seq(Read)
    BY TypesAre DEF RunTypes, SyncStates
  <2>3. SyncOrder[syncRun.at] \in Sync /\ seq \in Nat
    BY <1>1, <2>2, IdleTypes
  <2>4. syncRun.batch # <<>> /\ Follows(syncRun.batch, seq)
    BY <2>1 DEF PumpInv, SyncRunOK
  <2>5. seq' = seq
    BY <1>3, <2>3
  <2> HIDE DEF seq
  <2>6. \A i \in 1..Len(syncRun.batch) :
            /\ syncRun.batch[i].seq = seq + i
            /\ seq + i <= Len(log')
            /\ syncRun.batch[i].type = log'[seq + i].type
            /\ syncRun.batch[i].expired => log'[seq + i].expired
    BY <2>2, <2>3, <2>4, FollowsStays
  <2>7. Follows(syncRun.batch, seq)'
    BY <1>3, <2>5, <2>6 DEF Follows
  <2> QED
    BY <1>3, <2>4, <2>7 DEF SyncRunOK, seq
<1>4. ASSUME NEW c \in Async, slot'[c] = slot[c], checkpoint'[c] = checkpoint[c]
      PROVE  SlotOK(c)'
  <2>1. SUFFICES ASSUME slot[c].pc \in {"next", "handle", "commit", "park"}
                 PROVE  SlotOK(c)'
    BY <1>4 DEF SlotOK
  <2>2. /\ checkpoint[c] <= Reached(c) /\ Reached(c) <= Len(log)
        /\ SettledTo(c, Reached(c))
        /\ Follows(slot[c].batch, Reached(c))
        /\ slot[c].pc # "next" => slot[c].batch # <<>>
        /\ slot[c].pc = "handle" => PredecessorsPast(c, Head(slot[c].batch))
        /\ slot[c].pc = "commit" => effects[c][Head(slot[c].batch).seq] > 0
    BY <2>1 DEF PumpInv, SlotOK
  <2>3. slot[c] \in SlotStates /\ c \in Consumers
    BY TypesAre, IdleTypes DEF RunTypes
  <2>4. slot[c].batch \in Seq(Read) /\ slot[c].skipped \in 0..MaxEvents
    BY <2>3 DEF SlotStates
  <2>5. Reached(c)' = Reached(c)
    BY <1>4 DEF Reached
  <2>6. Reached(c) \in 0..Len(log)
    BY <1>1, <2>2, <2>3, <2>4 DEF Reached
  <2>7. \A s \in 1..Reached(c) : Settled(c, s)'
    BY <2>2, <2>3, <2>6, SettledStays
  <2>8. \A i \in 1..Len(slot[c].batch) :
            /\ slot[c].batch[i].seq = Reached(c) + i
            /\ Reached(c) + i <= Len(log')
            /\ slot[c].batch[i].type = log'[Reached(c) + i].type
            /\ slot[c].batch[i].expired => log'[Reached(c) + i].expired
    BY SMTT(30), <1>1, <2>2, <2>4, <2>6, FollowsStays
  <2>9. SettledTo(c, Reached(c))'
    BY <2>5, <2>7 DEF SettledTo
  <2>10. Follows(slot[c].batch, Reached(c))'
    BY <1>4, <2>5, <2>8 DEF Follows
  <2>11. ASSUME slot[c].pc = "handle" PROVE PredecessorsPast(c, Head(slot[c].batch))'
    <3>1. Head(slot[c].batch) \in Read
      BY <2>2, <2>4, <2>11, HeadTailProperties
    <3>2. Head(slot[c].batch).type \in Types /\ Head(slot[c].batch).seq \in Nat
      BY <1>1, <3>1 DEF Read, Seqs
    <3>3. AfterFor[c][Head(slot[c].batch).type] \subseteq Consumers
      BY <3>2, AfterConsumers
    <3> QED
      BY <1>1, <1>4, <2>2, <2>11, <3>2, <3>3 DEF PredecessorsPast
  <2>12. ASSUME slot[c].pc = "commit" PROVE effects'[c][Head(slot[c].batch).seq] > 0
    <3>1. Head(slot[c].batch) \in Read
      BY <2>2, <2>4, <2>12, HeadTailProperties
    <3>2. Head(slot[c].batch).seq \in Seqs
      BY <3>1 DEF Read
    <3> QED
      BY <2>2, <2>3, <2>12, <3>2 DEF Grows
  <2> QED
    BY <1>1, <1>4, <2>2, <2>5, <2>6, <2>9, <2>10, <2>11, <2>12 DEF SlotOK
<1>5. ASSUME NEW r \in Retriers, retry'[r] = retry[r]
      PROVE  RetryOK(r)'
  <2>1. retry[r].consumer \in Consumers /\ retry[r].seq \in Seqs
    BY TypesAre DEF RunTypes, RetryStates
  <2> QED
    BY <1>5, <2>1 DEF PumpInv, RetryOK, Grows
<1> QED
  BY <1>2, <1>3, <1>4, <1>5

\* The types, after a step.
LEMMA TypesNext == TypeOK' <=> DbTypes' /\ RunTypes' /\ CountTypes'
BY DEF TypeOK, DbTypes, RunTypes, CountTypes, SyncStates, SlotStates, RetryStates, SettleStates, Seqs

\* A step that does not write the database leaves it as it is.
LEMMA NothingWritten ==
    ASSUME TypeOK, UNCHANGED dbVars
    PROVE  Grows /\ DbTypes' /\ (PumpInv => LettersOK')
<1>1. UNCHANGED log /\ UNCHANGED checkpoint /\ UNCHANGED letter /\ UNCHANGED effects
  BY DEF dbVars
<1>2. DbTypes'
  BY <1>1, TypesAre DEF DbTypes
<1>3. Len(log) \in Nat /\ \A c \in Consumers : checkpoint[c] \in Nat
  BY EventsBounded DEF TypeOK
<1>4. Grows
  BY <1>1, <1>3 DEF Grows
<1> QED
  BY <1>1, <1>2, <1>4 DEF PumpInv, LettersOK

\* A slot's run that has just passed over the head of a batch.
LEMMA PassedOverOK ==
    ASSUME TypeOK, UNCHANGED log, NEW c \in Async,
           checkpoint'[c] \in 0..Len(log),
           \A s \in 1..checkpoint'[c] : Settled(c, s)',
           \A s \in 1..Len(log) : Settled(c, s) => Settled(c, s)',
           \E events \in Seq(Read) :
                /\ Follows(events, checkpoint'[c])
                /\ slot' = [slot EXCEPT ![c] = PassOver(c, events, 0)]
    PROVE  slot' \in [Async -> SlotStates] /\ SlotOK(c)'
<1>1. PICK events \in Seq(Read) :
                /\ Follows(events, checkpoint'[c])
                /\ slot' = [slot EXCEPT ![c] = PassOver(c, events, 0)]
  OBVIOUS
<1> DEFINE seq == checkpoint'[c]
           run == PassOver(c, events, 0)
           reached == IF run.skipped = 0 THEN seq ELSE run.skipped
<1>2. /\ run \in SlotStates /\ run.pc = "next"
      /\ reached \in seq..Len(log)
      /\ Follows(run.batch, reached)
      /\ \A s \in (seq + 1)..reached : Settled(c, s)
  <2> HIDE DEF seq, run, reached
  <2>1. seq \in 0..Len(log) /\ Follows(events, seq)
    BY <1>1 DEF seq
  <2>2. run = PassOver(c, events, 0) /\ reached = IF run.skipped = 0 THEN seq ELSE run.skipped
    BY DEF run, reached
  <2> QED
    BY <2>1, <2>2, PassOverFollows
<1>3. slot \in [Async -> SlotStates] /\ Len(log) \in Nat
  BY TypesAre DEF RunTypes, DbTypes
<1> HIDE DEF run
<1>4. slot'[c] = run /\ slot' \in [Async -> SlotStates]
  BY <1>1, <1>2, <1>3 DEF run
<1>5. Reached(c)' = reached
  BY <1>4 DEF Reached
<1>6. \A s \in 1..reached : Settled(c, s)'
  BY <1>2, <1>3
<1> HIDE DEF reached
<1>7. Follows(slot[c].batch, Reached(c))'
  BY <1>2, <1>4, <1>5 DEF Follows
<1>8. SettledTo(c, Reached(c))'
  BY <1>5, <1>6 DEF SettledTo
<1>9. seq <= reached /\ reached <= Len(log)
  BY <1>2, <1>3
<1>10. slot'[c].pc = "next"
  BY <1>2, <1>4
<1> QED
  BY <1>4, <1>5, <1>7, <1>8, <1>9, <1>10 DEF SlotOK

-----------------------------------------------------------------------------
(* One lemma per operation, or per family of operations.                   *)

PumpKept == TypeOK' /\ Grows /\ PumpInv'

\* What is shown of a step that leaves the slots' runs and the retries alone.
LEMMA OthersKept ==
    ASSUME TypeOK, TypeOK', PumpInv, Grows
    PROVE  /\ UNCHANGED slot /\ (\A c \in Async : checkpoint'[c] = checkpoint[c]) =>
                \A c \in Async : SlotOK(c)'
           /\ UNCHANGED retry => \A r \in Retriers : RetryOK(r)'
           /\ UNCHANGED checkpoint => \A c \in Consumers : CheckpointOK(c)'
           /\ UNCHANGED <<syncRun, checkpoint>> => SyncRunOK'
           /\ UNCHANGED <<letter>> => LettersOK'
<1>1. UNCHANGED letter => LettersOK'
  BY DEF PumpInv, LettersOK, Grows
<1>2. Sync \subseteq Consumers
  BY IdleTypes
<1> QED
  BY <1>1, <1>2, Frames

\* An event is appended.
LEMMA AppendKept ==
    ASSUME TypeOK, PumpInv, NEW t \in Types, AppendEvent(t)
    PROVE  PumpKept
<1> DEFINE event == [type |-> t, expired |-> FALSE]
<1>1. /\ log' = Append(log, event) /\ Len(log) < MaxEvents
      /\ UNCHANGED checkpoint /\ UNCHANGED letter /\ UNCHANGED effects /\ UNCHANGED syncRun
      /\ UNCHANGED slot /\ UNCHANGED lock /\ UNCHANGED retry /\ UNCHANGED settle
      /\ UNCHANGED failures /\ UNCHANGED busies /\ UNCHANGED discards
  BY DEF AppendEvent, pumpVars, boundVars
<1>2. event \in Event
  BY DEF Event
<1> HIDE DEF event
<1>3. log \in Seq(Event) /\ Len(log) \in Nat /\ MaxEvents \in Nat
      /\ \A c \in Consumers : checkpoint[c] \in Nat
  BY EventsBounded DEF TypeOK
<1>4. /\ log' \in Seq(Event) /\ Len(log') = Len(log) + 1
      /\ \A s \in 1..Len(log) : log'[s] = log[s]
  BY <1>1, <1>2, <1>3
<1>5. TypeOK'
  <2>1. Len(log') <= MaxEvents
    BY <1>1, <1>3, <1>4
  <2> QED
    BY <1>1, <1>4, <2>1, TypesAre, TypesNext DEF DbTypes, RunTypes, CountTypes
<1>6. Grows
  BY <1>1, <1>3, <1>4 DEF Grows
<1> QED
  BY <1>1, <1>5, <1>6, OthersKept DEF PumpKept, PumpInv

\* The sync run reads the next batch, goes on to the next consumer or ends.
LEMMA SyncReadKept ==
    ASSUME TypeOK, PumpInv, SyncRead
    PROVE  PumpKept
<1> DEFINE c == SyncOrder[syncRun.at]
           events == ReadAfter(checkpoint[c])
<1>1. /\ UNCHANGED dbVars /\ UNCHANGED slot /\ UNCHANGED lock /\ UNCHANGED retry
      /\ UNCHANGED settle /\ UNCHANGED boundVars
      /\ syncRun' = IF events # <<>>
                    THEN [syncRun EXCEPT !.pc = "deliver", !.batch = events]
                    ELSE IF syncRun.at < Len(SyncOrder)
                         THEN [syncRun EXCEPT !.pc = "read", !.at = @ + 1]
                         ELSE IdleSync
  BY DEF SyncRead
<1>2. syncRun \in SyncStates
  BY TypesAre DEF RunTypes
<1>3. c \in Sync /\ c \in Consumers /\ syncRun.at \in 1..Len(SyncOrder)
  BY <1>2, IdleTypes DEF SyncStates
<1>4. checkpoint[c] \in 0..Len(log) /\ log \in Seq(Event) /\ Len(log) <= MaxEvents
  <2>1. checkpoint[c] \in Nat /\ checkpoint[c] <= Len(log) /\ Len(log) \in Nat
    BY <1>3, IdleTypes DEF TypeOK, PumpInv, CheckpointOK
  <2> QED
    BY <2>1 DEF TypeOK
<1>5. events \in Seq(Read) /\ Follows(events, checkpoint[c])
  BY <1>4, ReadAfterFollows
<1> HIDE DEF events
<1>6. syncRun' \in SyncStates
  <2>1. syncRun.at < Len(SyncOrder) => syncRun.at + 1 \in 1..Len(SyncOrder)
    BY <1>3, IdleTypes
  <2> QED
    BY <1>1, <1>2, <1>5, <2>1, IdleTypes DEF SyncStates
<1>7. TypeOK' /\ Grows
  <2>1. DbTypes' /\ Grows
    BY <1>1, NothingWritten
  <2>2. RunTypes' /\ CountTypes'
    BY <1>1, <1>6, TypesAre DEF RunTypes, CountTypes, boundVars
  <2> QED
    BY <2>1, <2>2, TypesNext
<1>8. SyncRunOK'
  <2>1. SUFFICES ASSUME syncRun'.pc = "deliver"
                 PROVE  SyncRunOK'
    BY DEF SyncRunOK
  <2>2. events # <<>>
    BY <1>1, <1>2, <2>1 DEF SyncStates, IdleSync
  <2>3. syncRun'.batch = events /\ syncRun'.at = syncRun.at
    BY <1>1, <1>2, <2>2 DEF SyncStates
  <2> QED
    BY <1>1, <1>5, <2>2, <2>3 DEF SyncRunOK, Follows, dbVars
<1>9. UNCHANGED checkpoint /\ UNCHANGED letter
  BY <1>1 DEF dbVars
<1> QED
  BY <1>1, <1>7, <1>8, <1>9, OthersKept DEF PumpKept, PumpInv

\* A handler's success and a letter, recorded for one event.
LEMMA WritesGrow ==
    ASSUME TypeOK, NEW c \in Consumers, NEW s \in Seqs
    PROVE  /\ Effect(c, s) =>
                /\ effects' \in [Consumers -> [Seqs -> Nat]]
                /\ effects'[c][s] = effects[c][s] + 1 /\ effects'[c][s] > 0
                /\ \A d \in Consumers, z \in Seqs :
                    /\ effects[d][z] > 0 => effects'[d][z] > 0
                    /\ d # c \/ z # s => effects'[d][z] = effects[d][z]
           /\ \A state \in LetterStates : SetLetter(c, s, state) =>
                /\ letter' \in [Consumers -> [Seqs -> LetterStates]]
                /\ letter'[c][s] = state
                /\ \A d \in Consumers, z \in Seqs :
                    /\ d # c \/ z # s => letter'[d][z] = letter[d][z]
<1>1. ASSUME Effect(c, s)
      PROVE  /\ effects' \in [Consumers -> [Seqs -> Nat]]
             /\ effects'[c][s] = effects[c][s] + 1 /\ effects'[c][s] > 0
             /\ \A d \in Consumers, z \in Seqs :
                 /\ effects[d][z] > 0 => effects'[d][z] > 0
                 /\ d # c \/ z # s => effects'[d][z] = effects[d][z]
  <2>1. effects \in [Consumers -> [Seqs -> Nat]] /\ effects[c][s] \in Nat
    BY DEF TypeOK
  <2>2. effects' = [effects EXCEPT ![c][s] = effects[c][s] + 1]
    BY <1>1 DEF Effect
  <2>3. effects[c][s] + 1 \in Nat /\ effects[c][s] + 1 > 0
    BY <2>1
  <2>4. /\ effects' \in [Consumers -> [Seqs -> Nat]]
        /\ effects'[c][s] = effects[c][s] + 1
        /\ \A d \in Consumers, z \in Seqs :
            d # c \/ z # s => effects'[d][z] = effects[d][z]
    BY <2>1, <2>2, <2>3
  <2> QED
    BY <2>3, <2>4
<1>2. ASSUME NEW state \in LetterStates, SetLetter(c, s, state)
      PROVE  /\ letter' \in [Consumers -> [Seqs -> LetterStates]]
             /\ letter'[c][s] = state
             /\ \A d \in Consumers, z \in Seqs :
                 /\ d # c \/ z # s => letter'[d][z] = letter[d][z]
  BY <1>2 DEF TypeOK, SetLetter
<1> QED
  BY <1>1, <1>2

\* A run that has just read what it delivers, at its checkpoint.
LEMMA SyncDeliverKept ==
    ASSUME TypeOK, PumpInv, NEW result \in HandlerResults, SyncDeliver(result)
    PROVE  PumpKept
<1>a. syncRun \in SyncStates /\ syncRun.at \in 1..Len(SyncOrder) /\ syncRun.batch \in Seq(Read)
  BY TypesAre DEF SyncStates, RunTypes
<1>b. PICK c \in Sync : c = SyncOrder[syncRun.at]
  BY <1>a, IdleTypes
<1>c. PICK seq : seq = checkpoint[c] + 1
  OBVIOUS
<1> DEFINE event == Head(syncRun.batch)
<1>1. /\ UNCHANGED log /\ UNCHANGED slot /\ UNCHANGED lock /\ UNCHANGED retry /\ UNCHANGED settle
      /\ UNCHANGED failures /\ UNCHANGED discards
      /\ syncRun.pc = "deliver"
  BY DEF SyncDeliver
<1>2. /\ syncRun \in SyncStates /\ syncRun.batch \in Seq(Read)
      /\ c \in Sync /\ c \in Consumers /\ c \notin Async /\ syncRun.at \in 1..Len(SyncOrder)
  BY <1>a, IdleTypes, ConsumersDiffer
<1>3. syncRun.batch # <<>> /\ Follows(syncRun.batch, checkpoint[c])
  BY <1>b, <1>1 DEF PumpInv, SyncRunOK
<1>4. /\ log \in Seq(Event) /\ Len(log) \in Nat /\ Len(log) <= MaxEvents
      /\ \A d \in Consumers : checkpoint[d] \in Nat
      /\ checkpoint \in [Consumers -> 0..MaxEvents]
      /\ MaxEvents \in Nat
  BY EventsBounded DEF TypeOK
<1>5. /\ event \in Read /\ event.seq = seq /\ seq <= Len(log)
      /\ event.type = log[seq].type
      /\ event.expired => log[seq].expired
      /\ Tail(syncRun.batch) \in Seq(Read)
      /\ Follows(Tail(syncRun.batch), seq)
  BY <1>c, <1>2, <1>3, <1>4, TailFollows
<1>6. seq \in Seqs /\ seq \in 0..MaxEvents
  BY <1>c, <1>2, <1>4, <1>5 DEF Seqs
<1>7. CASE /\ Delivers(c, event) /\ result = "busy"
           /\ busies' = busies + 1
           /\ syncRun' = IdleSync
           /\ UNCHANGED <<checkpoint, letter, effects>>
  <2>1. UNCHANGED dbVars /\ UNCHANGED checkpoint /\ UNCHANGED letter
    BY <1>1, <1>7 DEF dbVars
  <2>2. Grows /\ DbTypes'
    BY <2>1, NothingWritten
  <2>3. TypeOK'
    BY <1>1, <1>7, <2>2, TypesAre, TypesNext, IdleTypes DEF RunTypes, CountTypes
  <2>4. SyncRunOK'
    BY <1>7 DEF SyncRunOK, IdleSync
  <2> QED
    BY <1>1, <2>1, <2>2, <2>3, <2>4, OthersKept DEF PumpKept, PumpInv
<1>8. CASE /\ SetCheckpoint(c, event.seq)
           /\ SyncAdvance
           /\ UNCHANGED busies
           /\ \/ ~Delivers(c, event) /\ UNCHANGED letter /\ UNCHANGED effects
              \/ Effect(c, event.seq) /\ UNCHANGED letter
              \/ Park(c, event.seq) /\ UNCHANGED effects
  <2>1. /\ letter' \in [Consumers -> [Seqs -> LetterStates]]
        /\ effects' \in [Consumers -> [Seqs -> Nat]]
        /\ \A d \in Consumers, z \in Seqs :
            /\ effects[d][z] > 0 => effects'[d][z] > 0
            /\ letter[d][z] # "none" => letter'[d][z] # "none"
            /\ letter'[d][z] = "retried" => letter[d][z] = "retried"
        /\ ~Delivers(c, event) \/ effects'[c][seq] > 0 \/ letter'[c][seq] # "none"
    <3>1. CASE ~Delivers(c, event) /\ UNCHANGED letter /\ UNCHANGED effects
      BY <3>1 DEF TypeOK
    <3>2. CASE Effect(c, event.seq) /\ UNCHANGED letter
      <4>1. letter' \in [Consumers -> [Seqs -> LetterStates]]
        BY <3>2 DEF TypeOK
      <4> QED
        BY <1>2, <1>5, <1>6, <3>2, <4>1, WritesGrow
    <3>3. CASE Park(c, event.seq) /\ UNCHANGED effects
      <4>1. SetLetter(c, seq, "pending") /\ "pending" \in LetterStates
        BY <1>5, <3>3 DEF Park, LetterStates
      <4>2. /\ letter' \in [Consumers -> [Seqs -> LetterStates]]
            /\ letter'[c][seq] = "pending"
            /\ \A d \in Consumers, z \in Seqs : d # c \/ z # seq => letter'[d][z] = letter[d][z]
        BY <1>2, <1>6, <4>1, WritesGrow
      <4>3. effects' \in [Consumers -> [Seqs -> Nat]]
        BY <3>3 DEF TypeOK
      <4> QED
        BY <3>3, <4>2, <4>3
    <3> QED
      BY <1>8, <3>1, <3>2, <3>3
  <2>2. /\ checkpoint' = [checkpoint EXCEPT ![c] = seq]
        /\ checkpoint' \in [Consumers -> 0..MaxEvents]
        /\ checkpoint'[c] = seq
        /\ \A d \in Consumers : d # c => checkpoint'[d] = checkpoint[d]
    BY <1>2, <1>4, <1>5, <1>6, <1>8 DEF SetCheckpoint
  <2>3. Grows
    BY <1>c, <1>1, <1>2, <1>4, <2>1, <2>2 DEF Grows
  <2>4. /\ syncRun'.pc \in {"read", "deliver"}
        /\ syncRun'.pc = "deliver" => Tail(syncRun.batch) # <<>>
        /\ syncRun'.batch = Tail(syncRun.batch) /\ syncRun'.at = syncRun.at
        /\ syncRun' \in SyncStates
    BY <1>2, <1>5, <1>8 DEF SyncAdvance, SyncStates
  <2>5. TypeOK'
    <3>1. DbTypes'
      BY <1>1, <1>4, <2>1, <2>2 DEF DbTypes
    <3>2. RunTypes' /\ CountTypes'
      BY <1>1, <1>8, <2>4, TypesAre DEF RunTypes, CountTypes
    <3> QED
      BY <3>1, <3>2, TypesNext
  <2>6. CheckpointOK(c)'
    <3>1. SettledTo(c, checkpoint[c]) /\ checkpoint[c] \in 0..Len(log)
      BY <1>c, <1>2, <1>4, <1>5 DEF PumpInv, CheckpointOK
    <3>2. \A s \in 1..checkpoint[c] : Settled(c, s)'
      BY <1>2, <2>3, <3>1, SettledStays
    <3>3. Settled(c, seq)'
      BY <1>1, <1>5, <2>1 DEF Settled, Delivers
    <3>4. \A s \in 1..checkpoint'[c] : s \in 1..checkpoint[c] \/ s = seq
      BY <1>c, <1>2, <1>4, <2>2
    <3>5. \A s \in 1..checkpoint'[c] : Settled(c, s)'
      BY <3>2, <3>3, <3>4
    <3> QED
      BY <1>1, <1>5, <2>2, <2>4, <3>5 DEF CheckpointOK, SettledTo
  <2>7. SyncRunOK'
    <3>1. checkpoint'[SyncOrder[syncRun'.at]] = seq
      BY <1>b, <2>2, <2>4
    <3>2. Follows(syncRun.batch, checkpoint[SyncOrder[syncRun.at]])'
      BY <1>1, <1>5, <2>4, <3>1 DEF Follows
    <3> QED
      BY <2>4, <3>2 DEF SyncRunOK
  <2>8. LettersOK'
    BY <2>1 DEF LettersOK, PumpInv
  <2>9. (\A d \in Async : checkpoint'[d] = checkpoint[d]) /\ \A d \in Consumers : CheckpointOK(d)'
    BY <1>2, <2>2, <2>3, <2>5, <2>6, Frames, IdleTypes
  <2> QED
    BY <1>1, <2>3, <2>5, <2>7, <2>8, <2>9, OthersKept DEF PumpKept, PumpInv
<1> QED
  BY <1>b, <1>7, <1>8 DEF SyncDeliver

\* A step of one slot's run that keeps its own part keeps the rest.
LEMMA SlotStepKept ==
    ASSUME TypeOK, TypeOK', PumpInv, Grows, NEW c \in Async,
           UNCHANGED syncRun, UNCHANGED retry,
           \A d \in Async : d # c => slot'[d] = slot[d],
           \A d \in Consumers : d # c => checkpoint'[d] = checkpoint[d],
           CheckpointOK(c)', SlotOK(c)', LettersOK'
    PROVE  PumpKept
<1>1. Sync \subseteq Consumers /\ Async \subseteq Consumers /\ \A d \in Sync : d # c
  BY IdleTypes, ConsumersDiffer
<1>2. SyncRunOK'
  BY <1>1, Frames
<1>3. \A d \in Consumers : CheckpointOK(d)'
  BY Frames
<1>4. \A d \in Async : SlotOK(d)'
  BY <1>1, Frames
<1> QED
  BY <1>2, <1>3, <1>4, Frames DEF PumpKept, PumpInv

\* The end of a run: the slot is idle, and the lock free.
LEMMA SlotEndTypes ==
    ASSUME TypeOK, NEW c \in Async, NEW deferred \in BOOLEAN, SlotEnd(c, deferred)
    PROVE  /\ slot' \in [Async -> SlotStates]
           /\ lock' \in [Async -> {"free", "loop", "settle"} \cup Retriers]
           /\ settle' \in SettleStates
           /\ slot'[c] = IdleSlot
           /\ \A d \in Async : d # c => slot'[d] = slot[d]
<1>1. /\ slot \in [Async -> SlotStates]
      /\ lock \in [Async -> {"free", "loop", "settle"} \cup Retriers]
      /\ settle \in SettleStates
  BY TypesAre DEF RunTypes
<1>2. IdleSlot \in SlotStates
  BY IdleTypes
<1>3. settle' \in SettleStates
  <2>1. settle' = settle \/ settle' = [settle EXCEPT !.level = @ \ {c}, !.deferred = @ \/ deferred]
    BY DEF SlotEnd
  <2>2. settle.level \ {c} \in SUBSET Async /\ (settle.deferred \/ deferred) \in BOOLEAN
    BY <1>1, Zenon DEF SettleStates
  <2> QED
    BY <1>1, <2>1, <2>2, Zenon DEF SettleStates
<1> QED
  BY <1>1, <1>2, <1>3 DEF SlotEnd

\* checkpoint_skipped brings the checkpoint to where the run has got.
LEMMA SkippedCheckpointed ==
    ASSUME TypeOK, PumpInv, NEW c \in Async,
           slot[c].pc \in {"next", "handle", "commit", "park"},
           CheckpointSkipped(c, slot[c].skipped),
           UNCHANGED log, UNCHANGED letter, UNCHANGED effects
    PROVE  /\ DbTypes' /\ Grows /\ CheckpointOK(c)' /\ LettersOK'
           /\ \A d \in Consumers : d # c => checkpoint'[d] = checkpoint[d]
           /\ checkpoint'[c] = Reached(c)
<1>1. /\ checkpoint[c] <= Reached(c) /\ Reached(c) <= Len(log)
      /\ SettledTo(c, Reached(c))
  BY DEF PumpInv, SlotOK
<1>2. slot[c] \in SlotStates /\ c \in Consumers
  BY TypesAre, IdleTypes DEF RunTypes
<1>3. /\ Len(log) \in Nat /\ Len(log) <= MaxEvents /\ MaxEvents \in Nat
      /\ checkpoint \in [Consumers -> 0..MaxEvents]
      /\ \A d \in Consumers : checkpoint[d] \in Nat
      /\ slot[c].skipped \in 0..MaxEvents
  BY <1>2, EventsBounded DEF TypeOK, SlotStates
<1>4. /\ checkpoint'[c] = Reached(c)
      /\ \A d \in Consumers : d # c => checkpoint'[d] = checkpoint[d]
      /\ checkpoint' \in [Consumers -> 0..MaxEvents]
  BY <1>2, <1>3 DEF CheckpointSkipped, SetCheckpoint, Reached
<1>5. DbTypes'
  BY <1>4, TypesAre DEF DbTypes
<1>6. Grows
  BY <1>1, <1>2, <1>3, <1>4 DEF Grows
<1>7. Reached(c) \in 0..Len(log)
  BY <1>1, <1>2, <1>3 DEF Reached
<1>8. \A s \in 1..checkpoint'[c] : Settled(c, s)'
  BY <1>1, <1>2, <1>4, <1>6, <1>7, SettledStays
<1>9. CheckpointOK(c)'
  BY <1>1, <1>4, <1>8 DEF CheckpointOK, SettledTo
<1>10. LettersOK'
  BY DEF PumpInv, LettersOK
<1> QED
  BY <1>4, <1>5, <1>6, <1>9, <1>10

\* A deferred event ends the run, behind what it passed over.
LEMMA SlotDeferKept ==
    ASSUME TypeOK, PumpInv, NEW c \in Async,
           slot[c].pc \in {"next", "handle"}, SlotDefer(c),
           UNCHANGED log, UNCHANGED letter, UNCHANGED effects, UNCHANGED syncRun, UNCHANGED retry,
           CountTypes'
    PROVE  PumpKept
<1>1. CheckpointSkipped(c, slot[c].skipped) /\ SlotEnd(c, TRUE)
  BY DEF SlotDefer
<1>2. /\ DbTypes' /\ Grows /\ CheckpointOK(c)' /\ LettersOK'
      /\ \A d \in Consumers : d # c => checkpoint'[d] = checkpoint[d]
  BY <1>1, SkippedCheckpointed
<1>3. /\ slot' \in [Async -> SlotStates]
      /\ lock' \in [Async -> {"free", "loop", "settle"} \cup Retriers]
      /\ settle' \in SettleStates
      /\ slot'[c] = IdleSlot
      /\ \A d \in Async : d # c => slot'[d] = slot[d]
  BY <1>1, SlotEndTypes
<1>4. TypeOK'
  BY <1>2, <1>3, TypesAre, TypesNext DEF RunTypes
<1>5. SlotOK(c)'
  BY <1>3 DEF SlotOK, IdleSlot
<1> QED
  BY <1>2, <1>3, <1>4, <1>5, SlotStepKept

\* A run reads its next batch and passes over what it does not deliver.
LEMMA SlotTakesKept ==
    ASSUME TypeOK, PumpInv, NEW c \in Async,
           slot' = [slot EXCEPT ![c] = PassOver(c, ReadAfter(checkpoint[c]), 0)],
           lock' \in [Async -> {"free", "loop", "settle"} \cup Retriers],
           settle' \in SettleStates,
           UNCHANGED dbVars, UNCHANGED syncRun, UNCHANGED retry, UNCHANGED boundVars
    PROVE  PumpKept
<1>1. UNCHANGED log /\ UNCHANGED checkpoint /\ UNCHANGED letter /\ UNCHANGED effects
  BY DEF dbVars
<1>2. c \in Consumers /\ MaxEvents \in Nat
  BY IdleTypes
<1>3. /\ log \in Seq(Event) /\ Len(log) \in Nat /\ Len(log) <= MaxEvents
      /\ checkpoint[c] \in 0..Len(log) /\ SettledTo(c, checkpoint[c])
  BY <1>2 DEF TypeOK, PumpInv, CheckpointOK
<1>4. ReadAfter(checkpoint[c]) \in Seq(Read) /\ Follows(ReadAfter(checkpoint[c]), checkpoint[c])
  BY <1>3, ReadAfterFollows
<1>5. Grows /\ DbTypes' /\ LettersOK'
  BY NothingWritten
<1>6. \A s \in 1..Len(log) : Settled(c, s) <=> Settled(c, s)'
  BY <1>1 DEF Settled
<1>7. \A s \in 1..checkpoint'[c] : Settled(c, s)'
  BY <1>1, <1>3, <1>6 DEF SettledTo
<1>8. slot' \in [Async -> SlotStates] /\ SlotOK(c)'
  BY <1>1, <1>3, <1>4, <1>6, <1>7, PassedOverOK
<1>9. TypeOK'
  BY <1>5, <1>8, TypesAre, TypesNext DEF RunTypes, CountTypes, boundVars
<1>10. \A d \in Async : d # c => slot'[d] = slot[d]
  BY TypesAre DEF RunTypes
<1>11. CheckpointOK(c)'
  BY <1>1, <1>2, <1>5, <1>9, Frames
<1> QED
  BY <1>1, <1>5, <1>8, <1>9, <1>10, <1>11, SlotStepKept

\* A run begins.
LEMMA SlotStartKept ==
    ASSUME TypeOK, PumpInv, NEW c \in Async, NEW by \in {"loop", "settle"}, SlotStart(c, by)
    PROVE  PumpKept
<1>1. /\ lock \in [Async -> {"free", "loop", "settle"} \cup Retriers]
      /\ settle \in SettleStates
  BY TypesAre DEF RunTypes
<1>2. /\ UNCHANGED dbVars /\ UNCHANGED syncRun /\ UNCHANGED retry /\ UNCHANGED boundVars
  BY DEF SlotStart
<1>3. CASE /\ settle' = IF by = "settle" THEN [settle EXCEPT !.level = @ \ {c}] ELSE settle
           /\ UNCHANGED <<slot, lock>>
  <2>1. settle' \in SettleStates
    BY <1>1, <1>3 DEF SettleStates
  <2>2. Grows /\ DbTypes' /\ LettersOK'
    BY <1>2, NothingWritten
  <2>3. TypeOK'
    BY <1>2, <1>3, <2>1, <2>2, TypesAre, TypesNext DEF RunTypes, CountTypes, boundVars
  <2>4. UNCHANGED checkpoint
    BY <1>2 DEF dbVars
  <2> QED
    BY <1>2, <1>3, <2>2, <2>3, <2>4, OthersKept DEF PumpKept, PumpInv
<1>4. CASE /\ slot' = [slot EXCEPT ![c] = PassOver(c, ReadAfter(checkpoint[c]), 0)]
           /\ lock' = [lock EXCEPT ![c] = by]
           /\ UNCHANGED settle
  <2>1. lock' \in [Async -> {"free", "loop", "settle"} \cup Retriers] /\ settle' \in SettleStates
    BY <1>1, <1>4
  <2> QED
    BY <1>2, <1>4, <2>1, SlotTakesKept
<1> QED
  BY <1>3, <1>4 DEF SlotStart

\* A run reads on, or is over.
LEMMA SlotReadKept ==
    ASSUME TypeOK, PumpInv, NEW c \in Async, SlotRead(c)
    PROVE  PumpKept
<1>1. /\ UNCHANGED dbVars /\ UNCHANGED syncRun /\ UNCHANGED retry /\ UNCHANGED boundVars
  BY DEF SlotRead
<1>2. CASE SlotEnd(c, FALSE)
  <2>1. /\ slot' \in [Async -> SlotStates]
        /\ lock' \in [Async -> {"free", "loop", "settle"} \cup Retriers]
        /\ settle' \in SettleStates
        /\ slot'[c] = IdleSlot
        /\ \A d \in Async : d # c => slot'[d] = slot[d]
    BY <1>2, SlotEndTypes
  <2>2. Grows /\ DbTypes' /\ LettersOK'
    BY <1>1, NothingWritten
  <2>3. TypeOK'
    BY <1>1, <2>1, <2>2, TypesAre, TypesNext DEF RunTypes, CountTypes, boundVars
  <2>4. SlotOK(c)'
    BY <2>1 DEF SlotOK, IdleSlot
  <2>5. UNCHANGED checkpoint /\ c \in Consumers
    BY <1>1, IdleTypes DEF dbVars
  <2>6. CheckpointOK(c)'
    BY <2>2, <2>3, <2>5, Frames
  <2> QED
    BY <1>1, <2>1, <2>2, <2>3, <2>4, <2>5, <2>6, SlotStepKept
<1>3. CASE /\ slot' = [slot EXCEPT ![c] = PassOver(c, ReadAfter(checkpoint[c]), 0)]
           /\ UNCHANGED <<lock, settle>>
  <2>1. lock' \in [Async -> {"free", "loop", "settle"} \cup Retriers] /\ settle' \in SettleStates
    BY <1>3, TypesAre DEF RunTypes
  <2> QED
    BY <1>1, <1>3, <2>1, SlotTakesKept
<1> QED
  BY <1>2, <1>3 DEF SlotRead

\* A storage error ends a run.
LEMMA SlotFailsKept ==
    ASSUME TypeOK, PumpInv, NEW c \in Async, SlotFails(c)
    PROVE  PumpKept
<1>1. /\ UNCHANGED dbVars /\ UNCHANGED syncRun /\ UNCHANGED retry
      /\ UNCHANGED busies /\ UNCHANGED discards /\ failures' = failures + 1
      /\ slot' = [slot EXCEPT ![c] = IdleSlot]
      /\ lock' = [lock EXCEPT ![c] = "free"]
      /\ settle' = settle \/ settle' = [settle EXCEPT !.level = @ \ {c}, !.failed = TRUE]
  BY DEF SlotFails
<1>2. /\ slot' \in [Async -> SlotStates]
      /\ lock' \in [Async -> {"free", "loop", "settle"} \cup Retriers]
      /\ slot'[c] = IdleSlot
      /\ \A d \in Async : d # c => slot'[d] = slot[d]
  BY <1>1, TypesAre, IdleTypes DEF RunTypes
<1>3. settle' \in SettleStates
  BY <1>1, TypesAre DEF RunTypes, SettleStates
<1>4. Grows /\ DbTypes' /\ LettersOK'
  BY <1>1, NothingWritten
<1>5. TypeOK'
  BY <1>1, <1>2, <1>3, <1>4, TypesAre, TypesNext DEF RunTypes, CountTypes
<1>6. SlotOK(c)'
  BY <1>2 DEF SlotOK, IdleSlot
<1>7. UNCHANGED checkpoint /\ c \in Consumers
  BY <1>1, IdleTypes DEF dbVars
<1>8. CheckpointOK(c)'
  BY <1>4, <1>5, <1>7, Frames
<1> QED
  BY <1>1, <1>2, <1>4, <1>5, <1>6, <1>7, <1>8, SlotStepKept

\* A run goes on with the head of its batch.
LEMMA SlotGoesOn ==
    ASSUME TypeOK, PumpInv, Grows, NEW c \in Async, NEW pc \in {"handle", "commit", "park"},
           slot[c].pc \in {"next", "handle", "commit", "park"}, slot[c].batch # <<>>,
           slot' = [slot EXCEPT ![c].pc = pc],
           pc = "handle" => PredecessorsPast(c, Head(slot[c].batch)),
           pc = "commit" => effects'[c][Head(slot[c].batch).seq] > 0,
           UNCHANGED log, UNCHANGED checkpoint
    PROVE  slot' \in [Async -> SlotStates] /\ SlotOK(c)'
<1>1. /\ checkpoint[c] <= Reached(c) /\ Reached(c) <= Len(log)
      /\ SettledTo(c, Reached(c))
      /\ Follows(slot[c].batch, Reached(c))
  BY DEF PumpInv, SlotOK
<1>2. slot \in [Async -> SlotStates] /\ slot[c] \in SlotStates /\ c \in Consumers
  BY TypesAre, IdleTypes DEF RunTypes
<1>3. /\ slot' \in [Async -> SlotStates]
      /\ slot'[c].pc = pc /\ slot'[c].batch = slot[c].batch /\ slot'[c].skipped = slot[c].skipped
  BY <1>2 DEF SlotStates
<1>4. Reached(c)' = Reached(c)
  BY <1>3 DEF Reached
<1>5. Reached(c) \in 0..Len(log)
  <2>1. Reached(c) \in Nat /\ Len(log) \in Nat
    BY <1>2, EventsBounded DEF Reached, TypeOK, SlotStates
  <2> QED
    BY <1>1, <2>1
<1>6. SettledTo(c, Reached(c))'
  <2>1. \A s \in 1..Reached(c) : Settled(c, s)'
    BY <1>1, <1>2, <1>5, SettledStays
  <2> QED
    BY <1>4, <2>1 DEF SettledTo
<1>7. Follows(slot[c].batch, Reached(c))'
  BY <1>1, <1>3, <1>4 DEF Follows
<1>8. pc = "handle" => PredecessorsPast(c, Head(slot[c].batch))'
  BY <1>3 DEF PredecessorsPast
<1> QED
  BY <1>1, <1>3, <1>4, <1>6, <1>7, <1>8 DEF SlotOK

\* A run looks at what is left of its batch.
LEMMA SlotNextKept ==
    ASSUME TypeOK, PumpInv, NEW c \in Async, SlotNext(c)
    PROVE  PumpKept
<1>1. /\ UNCHANGED log /\ UNCHANGED letter /\ UNCHANGED effects /\ UNCHANGED syncRun
      /\ UNCHANGED retry /\ UNCHANGED boundVars /\ slot[c].pc = "next"
  BY DEF SlotNext
<1>2. CountTypes'
  BY <1>1, TypesAre DEF CountTypes, boundVars
<1>3. slot \in [Async -> SlotStates] /\ slot[c] \in SlotStates /\ c \in Consumers
  BY TypesAre, IdleTypes DEF RunTypes
<1>4. CASE /\ CheckpointSkipped(c, slot[c].skipped)
           /\ slot' = [slot EXCEPT ![c].pc = "read"]
           /\ UNCHANGED <<lock, settle>>
  <2>1. /\ DbTypes' /\ Grows /\ CheckpointOK(c)' /\ LettersOK'
        /\ \A d \in Consumers : d # c => checkpoint'[d] = checkpoint[d]
    BY <1>1, <1>4, SkippedCheckpointed
  <2>2. /\ slot' \in [Async -> SlotStates] /\ slot'[c].pc = "read"
        /\ \A d \in Async : d # c => slot'[d] = slot[d]
    BY <1>3, <1>4 DEF SlotStates
  <2>3. TypeOK'
    BY <1>1, <1>2, <1>4, <2>1, <2>2, TypesAre, TypesNext DEF RunTypes
  <2>4. SlotOK(c)'
    BY <2>2 DEF SlotOK
  <2> QED
    BY <1>1, <2>1, <2>2, <2>3, <2>4, SlotStepKept
<1>5. CASE /\ slot[c].batch # <<>> /\ PredecessorsPast(c, Head(slot[c].batch))
           /\ slot' = [slot EXCEPT ![c].pc = "handle"]
           /\ UNCHANGED <<checkpoint, lock, settle>>
  <2>1. UNCHANGED dbVars
    BY <1>1, <1>5 DEF dbVars
  <2>2. Grows /\ DbTypes' /\ LettersOK'
    BY <2>1, NothingWritten
  <2>3. slot' \in [Async -> SlotStates] /\ SlotOK(c)'
    BY <1>1, <1>5, <2>2, SlotGoesOn
  <2>4. TypeOK'
    BY <1>1, <1>2, <1>5, <2>2, <2>3, TypesAre, TypesNext DEF RunTypes
  <2>5. CheckpointOK(c)'
    BY <1>3, <1>5, <2>2, <2>4, Frames
  <2> QED
    BY <1>1, <1>3, <1>5, <2>2, <2>3, <2>4, <2>5, SlotStepKept
<1>6. CASE SlotDefer(c)
  BY <1>1, <1>2, <1>6, SlotDeferKept
<1> QED
  BY <1>4, <1>5, <1>6 DEF SlotNext

\* The handler is called: it succeeds, fails for good, or is busy.
LEMMA SlotHandleKept ==
    ASSUME TypeOK, PumpInv, NEW c \in Async, NEW result \in HandlerResults, SlotHandle(c, result)
    PROVE  PumpKept
<1>1. /\ UNCHANGED log /\ UNCHANGED letter /\ UNCHANGED syncRun
      /\ UNCHANGED retry /\ UNCHANGED failures /\ UNCHANGED discards /\ slot[c].pc = "handle"
  BY DEF SlotHandle
<1>2. slot[c] \in SlotStates /\ slot \in [Async -> SlotStates] /\ c \in Consumers
  BY TypesAre, IdleTypes DEF RunTypes
<1>3. slot[c].batch # <<>> /\ slot[c].batch \in Seq(Read)
  BY <1>1, <1>2 DEF PumpInv, SlotOK, SlotStates
<1>4. Head(slot[c].batch) \in Read
  BY <1>3, HeadTailProperties
<1>5. Head(slot[c].batch).seq \in Seqs
  BY <1>4 DEF Read
<1>6. CASE /\ Effect(c, Head(slot[c].batch).seq)
           /\ slot' = [slot EXCEPT ![c].pc = "commit"]
           /\ UNCHANGED <<checkpoint, lock, settle, busies, discards>>
  <2>1. /\ effects' \in [Consumers -> [Seqs -> Nat]]
        /\ effects'[c][Head(slot[c].batch).seq] > 0
        /\ \A d \in Consumers, z \in Seqs : effects[d][z] > 0 => effects'[d][z] > 0
    BY <1>2, <1>5, <1>6, WritesGrow
  <2>2. Len(log) \in Nat /\ \A d \in Consumers : checkpoint[d] \in Nat
    BY EventsBounded DEF TypeOK
  <2>3. Grows
    BY <1>1, <1>6, <2>1, <2>2 DEF Grows
  <2>4. slot' \in [Async -> SlotStates] /\ SlotOK(c)'
    BY <1>1, <1>3, <1>6, <2>1, <2>3, SlotGoesOn
  <2>5. TypeOK'
    <3>1. DbTypes'
      BY <1>1, <1>6, <2>1, TypesAre DEF DbTypes
    <3> QED
      BY <1>1, <1>6, <2>4, <3>1, TypesAre, TypesNext DEF RunTypes, CountTypes
  <2>6. CheckpointOK(c)'
    BY <1>2, <1>6, <2>3, <2>5, Frames
  <2>7. LettersOK'
    BY <1>1, <2>1 DEF PumpInv, LettersOK
  <2> QED
    BY <1>1, <1>2, <1>6, <2>3, <2>4, <2>5, <2>6, <2>7, SlotStepKept
<1>7. CASE /\ slot' = [slot EXCEPT ![c].pc = "park"]
           /\ UNCHANGED <<checkpoint, effects, lock, settle, busies, discards>>
  <2>1. UNCHANGED dbVars
    BY <1>1, <1>7 DEF dbVars
  <2>2. Grows /\ DbTypes' /\ LettersOK'
    BY <2>1, NothingWritten
  <2>3. slot' \in [Async -> SlotStates] /\ SlotOK(c)'
    BY <1>1, <1>3, <1>7, <2>2, SlotGoesOn
  <2>4. TypeOK'
    BY <1>1, <1>7, <2>2, <2>3, TypesAre, TypesNext DEF RunTypes, CountTypes
  <2>5. CheckpointOK(c)'
    BY <1>2, <1>7, <2>2, <2>4, Frames
  <2> QED
    BY <1>1, <1>2, <1>7, <2>2, <2>3, <2>4, <2>5, SlotStepKept
<1>8. CASE busies' = busies + 1 /\ SlotDefer(c) /\ UNCHANGED effects
  <2>1. CountTypes'
    BY <1>1, <1>8, TypesAre DEF CountTypes
  <2> QED
    BY <1>1, <1>8, <2>1, SlotDeferKept
<1> QED
  BY <1>6, <1>7, <1>8 DEF SlotHandle

\* The transaction after the handler moves the checkpoint past the event.
LEMMA SlotCommitKept ==
    ASSUME TypeOK, PumpInv, NEW c \in Async, SlotCommit(c)
    PROVE  PumpKept
<1>a. PICK seq : seq = Reached(c) + 1
  OBVIOUS
<1>1. /\ UNCHANGED log /\ UNCHANGED effects /\ UNCHANGED syncRun /\ UNCHANGED lock
      /\ UNCHANGED retry /\ UNCHANGED settle /\ UNCHANGED boundVars
      /\ slot[c].pc \in {"commit", "park"}
      /\ SetCheckpoint(c, Head(slot[c].batch).seq)
      /\ IF slot[c].pc = "park" THEN Park(c, Head(slot[c].batch).seq) ELSE UNCHANGED letter
      /\ slot' = [slot EXCEPT ![c] = PassOver(c, Tail(slot[c].batch), 0)]
  BY DEF SlotCommit, SlotAdvance
<1>2. slot[c] \in SlotStates /\ slot \in [Async -> SlotStates] /\ c \in Consumers
  BY TypesAre, IdleTypes DEF RunTypes
<1>3. /\ checkpoint[c] <= Reached(c) /\ Reached(c) <= Len(log)
      /\ SettledTo(c, Reached(c))
      /\ Follows(slot[c].batch, Reached(c))
      /\ slot[c].batch # <<>> /\ slot[c].batch \in Seq(Read)
      /\ slot[c].pc = "commit" => effects[c][Head(slot[c].batch).seq] > 0
  BY <1>1, <1>2 DEF PumpInv, SlotOK, SlotStates
<1>4. /\ Len(log) \in Nat /\ Len(log) <= MaxEvents /\ MaxEvents \in Nat
      /\ checkpoint \in [Consumers -> 0..MaxEvents]
      /\ \A d \in Consumers : checkpoint[d] \in Nat
      /\ slot[c].skipped \in 0..MaxEvents
  BY <1>2, EventsBounded DEF TypeOK, SlotStates
<1>5. Reached(c) \in Nat /\ Reached(c) \in 0..Len(log)
  BY <1>2, <1>3, <1>4 DEF Reached
<1>6. /\ Head(slot[c].batch).seq = seq /\ seq <= Len(log)
      /\ Tail(slot[c].batch) \in Seq(Read)
      /\ Follows(Tail(slot[c].batch), seq)
  BY <1>a, <1>3, <1>5, TailFollows
<1>7. seq \in Seqs /\ seq \in 0..Len(log) /\ seq \in 0..MaxEvents /\ checkpoint[c] <= seq
  BY <1>a, <1>2, <1>3, <1>4, <1>5, <1>6 DEF Seqs
<1>8. /\ checkpoint'[c] = seq
      /\ \A d \in Consumers : d # c => checkpoint'[d] = checkpoint[d]
      /\ checkpoint' \in [Consumers -> 0..MaxEvents]
  BY <1>1, <1>2, <1>4, <1>6, <1>7 DEF SetCheckpoint
<1>9. /\ letter' \in [Consumers -> [Seqs -> LetterStates]]
      /\ \A d \in Consumers, z \in Seqs :
          /\ letter[d][z] # "none" => letter'[d][z] # "none"
          /\ letter'[d][z] = "retried" => letter[d][z] = "retried"
      /\ slot[c].pc = "park" => letter'[c][seq] # "none"
  <2>1. CASE slot[c].pc = "park"
    <3>1. SetLetter(c, seq, "pending") /\ "pending" \in LetterStates
      BY <1>1, <1>6, <2>1 DEF Park, LetterStates
    <3>2. /\ letter' \in [Consumers -> [Seqs -> LetterStates]]
          /\ letter'[c][seq] = "pending"
          /\ \A d \in Consumers, z \in Seqs : d # c \/ z # seq => letter'[d][z] = letter[d][z]
      BY <1>2, <1>7, <3>1, WritesGrow
    <3> QED
      BY <3>2
  <2>2. CASE slot[c].pc # "park"
    BY <1>1, <2>2 DEF TypeOK
  <2> QED
    BY <2>1, <2>2
<1>10. Grows
  BY SMTT(30), <1>1, <1>2, <1>4, <1>7, <1>8, <1>9 DEF Grows
<1>11. DbTypes'
  BY <1>1, <1>8, <1>9, TypesAre DEF DbTypes
<1>12. \A s \in 1..checkpoint'[c] : Settled(c, s)'
  <2>1. \A s \in 1..Reached(c) : Settled(c, s)'
    BY <1>2, <1>3, <1>5, <1>10, SettledStays
  <2>2. Settled(c, seq)'
    BY <1>1, <1>3, <1>6, <1>9 DEF Settled
  <2>3. \A s \in 1..checkpoint'[c] : s \in 1..Reached(c) \/ s = seq
    BY <1>a, <1>5, <1>8
  <2> QED
    BY <2>1, <2>2, <2>3
<1>13. CheckpointOK(c)'
  BY <1>1, <1>6, <1>8, <1>12 DEF CheckpointOK, SettledTo
<1>14. \A s \in 1..Len(log) : Settled(c, s) => Settled(c, s)'
  <2>1. \A s \in 1..Len(log) : s \in Seqs
    BY <1>4 DEF Seqs
  <2> QED
    BY <1>2, <1>10, <2>1 DEF Settled, Grows
<1>15. slot' \in [Async -> SlotStates] /\ SlotOK(c)'
  <2>1. checkpoint'[c] \in 0..Len(log) /\ Follows(Tail(slot[c].batch), checkpoint'[c])
    BY <1>6, <1>7, <1>8
  <2> QED
    BY <1>1, <1>6, <1>12, <1>14, <2>1, PassedOverOK
<1>16. TypeOK'
  BY <1>1, <1>11, <1>15, TypesAre, TypesNext DEF RunTypes, CountTypes, boundVars
<1>17. LettersOK'
  BY <1>1, <1>9 DEF PumpInv, LettersOK
<1>18. \A d \in Async : d # c => slot'[d] = slot[d]
  BY <1>1, <1>2
<1> QED
  BY <1>1, <1>8, <1>10, <1>13, <1>15, <1>16, <1>17, <1>18, SlotStepKept

\* A step of one retry that keeps its own part, and the letters', keeps the rest.
LEMMA RetryStepKept ==
    ASSUME TypeOK, PumpInv, DbTypes', Grows, LettersOK', NEW r \in Retriers,
           \E run \in RetryStates :
                retry' = [retry EXCEPT ![r] = run] /\ (run.pc = "resolve" => RetryOK(r)'),
           lock' \in [Async -> {"free", "loop", "settle"} \cup Retriers],
           UNCHANGED checkpoint, UNCHANGED syncRun, UNCHANGED slot, UNCHANGED settle, CountTypes'
    PROVE  PumpKept
<1>1. retry \in [Retriers -> RetryStates]
  BY TypesAre DEF RunTypes
<1>2. PICK run \in RetryStates :
            retry' = [retry EXCEPT ![r] = run] /\ (run.pc = "resolve" => RetryOK(r)')
  OBVIOUS
<1>3. retry' \in [Retriers -> RetryStates] /\ \A q \in Retriers : q # r => retry'[q] = retry[q]
  BY <1>1, <1>2
<1>4. TypeOK'
  BY <1>3, TypesAre, TypesNext DEF RunTypes
<1>5. RetryOK(r)'
  BY <1>1, <1>2 DEF RetryOK
<1>6. \A q \in Retriers : RetryOK(q)'
  BY <1>3, <1>4, <1>5, Frames
<1> QED
  BY <1>4, <1>6, OthersKept DEF PumpKept, PumpInv

\* A letter is set: one that says `retried` only where the handler succeeded.
LEMMA LetterSet ==
    ASSUME TypeOK, PumpInv, NEW c \in Consumers, NEW s \in Seqs,
           NEW state \in LetterStates \ {"none"}, SetLetter(c, s, state),
           \/ UNCHANGED effects
           \/ Effect(c, s),
           state = "retried" => effects'[c][s] > 0,
           UNCHANGED log, UNCHANGED checkpoint
    PROVE  DbTypes' /\ Grows /\ LettersOK'
<1>1. /\ letter' \in [Consumers -> [Seqs -> LetterStates]]
      /\ letter'[c][s] = state
      /\ \A d \in Consumers, z \in Seqs : d # c \/ z # s => letter'[d][z] = letter[d][z]
  BY WritesGrow
<1>2. /\ effects' \in [Consumers -> [Seqs -> Nat]]
      /\ \A d \in Consumers, z \in Seqs : effects[d][z] > 0 => effects'[d][z] > 0
  <2>1. effects \in [Consumers -> [Seqs -> Nat]]
    BY DEF TypeOK
  <2> QED
    BY <2>1, WritesGrow
<1>3. Len(log) \in Nat /\ \A d \in Consumers : checkpoint[d] \in Nat
  BY EventsBounded DEF TypeOK
<1>4. DbTypes'
  BY <1>1, <1>2, TypesAre DEF DbTypes
<1>5. Grows
  <2>1. \A d \in Consumers, z \in Seqs : letter[d][z] # "none" => letter'[d][z] # "none"
    BY <1>1
  <2> QED
    BY <1>2, <1>3, <2>1 DEF Grows
<1>6. LettersOK'
  BY <1>1, <1>2 DEF PumpInv, LettersOK
<1> QED
  BY <1>4, <1>5, <1>6

\* A retry looks its letter up.
LEMMA RetryCheckKept ==
    ASSUME TypeOK, PumpInv, NEW r \in Retriers, NEW c \in Consumers, NEW s \in Seqs,
           RetryCheck(r, c, s)
    PROVE  PumpKept
<1> DEFINE run == [pc |-> IF c \in Async THEN "lock" ELSE "sync", consumer |-> c, seq |-> s]
<1>1. /\ UNCHANGED dbVars /\ UNCHANGED syncRun /\ UNCHANGED slot /\ UNCHANGED lock
      /\ UNCHANGED settle /\ UNCHANGED boundVars
      /\ retry' = [retry EXCEPT ![r] = run]
  BY DEF RetryCheck
<1>2. run \in RetryStates /\ run.pc # "resolve"
  BY DEF RetryStates
<1> HIDE DEF run
<1>3. DbTypes' /\ Grows /\ LettersOK'
  BY <1>1, NothingWritten
<1>4. /\ UNCHANGED checkpoint /\ CountTypes'
      /\ lock' \in [Async -> {"free", "loop", "settle"} \cup Retriers]
  BY <1>1, TypesAre DEF dbVars, boundVars, CountTypes, RunTypes
<1> QED
  BY <1>1, <1>2, <1>3, <1>4, RetryStepKept

\* A sync consumer's retry, in its transaction.
LEMMA RetrySyncKept ==
    ASSUME TypeOK, PumpInv, NEW r \in Retriers, NEW result \in HandlerResults, RetrySync(r, result)
    PROVE  PumpKept
<1>1. /\ UNCHANGED log /\ UNCHANGED checkpoint /\ UNCHANGED syncRun /\ UNCHANGED slot
      /\ UNCHANGED lock /\ UNCHANGED settle /\ UNCHANGED boundVars
      /\ retry' = [retry EXCEPT ![r] = IdleRetry]
  BY DEF RetrySync
<1>2. retry[r].consumer \in Consumers /\ retry[r].seq \in Seqs
  BY TypesAre DEF RunTypes, RetryStates
<1>3. DbTypes' /\ Grows /\ LettersOK'
  <2>1. CASE UNCHANGED <<letter, effects>>
    <3>1. UNCHANGED dbVars
      BY <1>1, <2>1 DEF dbVars
    <3> QED
      BY <3>1, NothingWritten
  <2>2. CASE /\ Effect(retry[r].consumer, retry[r].seq)
             /\ SetLetter(retry[r].consumer, retry[r].seq, "retried")
    <3>1. effects'[retry[r].consumer][retry[r].seq] > 0
      BY <1>2, <2>2, WritesGrow
    <3>2. "retried" \in LetterStates \ {"none"}
      BY DEF LetterStates
    <3> QED
      BY <1>1, <1>2, <2>2, <3>1, <3>2, LetterSet
  <2>3. CASE Park(retry[r].consumer, retry[r].seq) /\ UNCHANGED effects
    <3>1. "pending" \in LetterStates \ {"none"} /\ "pending" # "retried"
      BY DEF LetterStates
    <3>2. SetLetter(retry[r].consumer, retry[r].seq, "pending")
      BY <2>3 DEF Park
    <3> QED
      BY <1>1, <1>2, <2>3, <3>1, <3>2, LetterSet
  <2> QED
    BY <2>1, <2>2, <2>3 DEF RetrySync
<1>4. IdleRetry \in RetryStates /\ IdleRetry.pc # "resolve"
  BY IdleTypes DEF IdleRetry
<1>5. CountTypes' /\ lock' \in [Async -> {"free", "loop", "settle"} \cup Retriers]
  BY <1>1, TypesAre DEF boundVars, CountTypes, RunTypes
<1> QED
  BY <1>1, <1>3, <1>4, <1>5, RetryStepKept

\* An async consumer's retry takes the lock, or is refused.
LEMMA RetryLockKept ==
    ASSUME TypeOK, PumpInv, NEW r \in Retriers, RetryLock(r)
    PROVE  PumpKept
<1>1. /\ UNCHANGED dbVars /\ UNCHANGED syncRun /\ UNCHANGED slot /\ UNCHANGED settle
      /\ UNCHANGED boundVars
      /\ \/ RetryEnd(r)
         \/ /\ lock' = [lock EXCEPT ![retry[r].consumer] = r]
            /\ retry' = [retry EXCEPT ![r].pc = "handle"]
  BY DEF RetryLock
<1>2. /\ retry \in [Retriers -> RetryStates] /\ retry[r] \in RetryStates
      /\ lock \in [Async -> {"free", "loop", "settle"} \cup Retriers]
  BY TypesAre DEF RunTypes
<1>3. lock' \in [Async -> {"free", "loop", "settle"} \cup Retriers]
  BY <1>1, <1>2 DEF RetryEnd
<1>4. \E run \in RetryStates : retry' = [retry EXCEPT ![r] = run] /\ run.pc # "resolve"
  <2>1. CASE RetryEnd(r)
    BY <2>1, IdleTypes DEF RetryEnd, IdleRetry
  <2>2. CASE retry' = [retry EXCEPT ![r].pc = "handle"]
    <3>1. [retry[r] EXCEPT !.pc = "handle"] \in RetryStates
      BY <1>2 DEF RetryStates
    <3>2. [retry[r] EXCEPT !.pc = "handle"].pc = "handle"
      BY <1>2 DEF RetryStates
    <3> QED
      BY <2>2, <3>1, <3>2
  <2> QED
    BY <1>1, <2>1, <2>2
<1>5. DbTypes' /\ Grows /\ LettersOK'
  BY <1>1, NothingWritten
<1>6. UNCHANGED checkpoint /\ CountTypes'
  BY <1>1, TypesAre DEF dbVars, boundVars, CountTypes
<1> QED
  BY <1>1, <1>3, <1>4, <1>5, <1>6, RetryStepKept

\* It calls the handler outside any transaction.
LEMMA RetryHandleKept ==
    ASSUME TypeOK, PumpInv, NEW r \in Retriers, NEW result \in HandlerResults,
           RetryHandle(r, result)
    PROVE  PumpKept
<1>1. /\ UNCHANGED log /\ UNCHANGED checkpoint /\ UNCHANGED letter /\ UNCHANGED syncRun
      /\ UNCHANGED slot /\ UNCHANGED lock /\ UNCHANGED settle /\ UNCHANGED boundVars
      /\ \/ /\ Effect(retry[r].consumer, retry[r].seq)
            /\ retry' = [retry EXCEPT ![r].pc = "resolve"]
         \/ retry' = [retry EXCEPT ![r].pc = "park"] /\ UNCHANGED effects
  BY DEF RetryHandle
<1>2. retry \in [Retriers -> RetryStates] /\ retry[r] \in RetryStates
  BY TypesAre DEF RunTypes
<1>3. retry[r].consumer \in Consumers /\ retry[r].seq \in Seqs
  BY <1>2 DEF RetryStates
<1>4. CountTypes' /\ lock' \in [Async -> {"free", "loop", "settle"} \cup Retriers]
  BY <1>1, TypesAre DEF boundVars, CountTypes, RunTypes
<1>5. \A pc \in {"resolve", "park"} :
        [retry[r] EXCEPT !.pc = pc] \in RetryStates /\ [retry[r] EXCEPT !.pc = pc].pc = pc
  BY <1>2 DEF RetryStates
<1>6. CASE /\ Effect(retry[r].consumer, retry[r].seq)
           /\ retry' = [retry EXCEPT ![r].pc = "resolve"]
  <2>1. /\ effects' \in [Consumers -> [Seqs -> Nat]]
        /\ effects'[retry[r].consumer][retry[r].seq] > 0
        /\ \A d \in Consumers, z \in Seqs : effects[d][z] > 0 => effects'[d][z] > 0
    BY <1>3, <1>6, WritesGrow
  <2>2. DbTypes'
    BY <1>1, <2>1, TypesAre DEF DbTypes
  <2>3. Len(log) \in Nat /\ \A d \in Consumers : checkpoint[d] \in Nat
    BY EventsBounded DEF TypeOK
  <2>4. Grows
    BY <1>1, <2>1, <2>3 DEF Grows
  <2>5. LettersOK'
    BY <1>1, <2>1 DEF PumpInv, LettersOK
  <2>6. retry'[r].consumer = retry[r].consumer /\ retry'[r].seq = retry[r].seq
    BY <1>2, <1>6 DEF RetryStates
  <2>7. RetryOK(r)'
    BY <2>1, <2>6 DEF RetryOK
  <2>8. \E run \in RetryStates :
            retry' = [retry EXCEPT ![r] = run] /\ (run.pc = "resolve" => RetryOK(r)')
    BY <1>5, <1>6, <2>7
  <2> QED
    BY <1>1, <1>4, <2>2, <2>4, <2>5, <2>8, RetryStepKept
<1>7. CASE retry' = [retry EXCEPT ![r].pc = "park"] /\ UNCHANGED effects
  <2>1. UNCHANGED dbVars
    BY <1>1, <1>7 DEF dbVars
  <2>2. DbTypes' /\ Grows /\ LettersOK'
    BY <2>1, NothingWritten
  <2>3. \E run \in RetryStates : retry' = [retry EXCEPT ![r] = run] /\ run.pc # "resolve"
    BY <1>5, <1>7
  <2> QED
    BY <1>1, <1>4, <2>2, <2>3, RetryStepKept
<1> QED
  BY <1>1, <1>6, <1>7

\* It records what came of it, and drops the lock.
LEMMA RetryResolveKept ==
    ASSUME TypeOK, PumpInv, NEW r \in Retriers, RetryResolve(r)
    PROVE  PumpKept
<1>1. /\ UNCHANGED log /\ UNCHANGED checkpoint /\ UNCHANGED effects /\ UNCHANGED syncRun
      /\ UNCHANGED slot /\ UNCHANGED settle /\ UNCHANGED boundVars
      /\ RetryEnd(r)
      /\ \/ retry[r].pc = "resolve" /\ SetLetter(retry[r].consumer, retry[r].seq, "retried")
         \/ SetLetter(retry[r].consumer, retry[r].seq, "pending")
  BY DEF RetryResolve, Park
<1>2. retry[r].consumer \in Consumers /\ retry[r].seq \in Seqs
  BY TypesAre DEF RunTypes, RetryStates
<1>3. DbTypes' /\ Grows /\ LettersOK'
  <2>1. "retried" \in LetterStates \ {"none"} /\ "pending" \in LetterStates \ {"none"}
    BY DEF LetterStates
  <2>2. retry[r].pc = "resolve" => effects'[retry[r].consumer][retry[r].seq] > 0
    BY <1>1 DEF PumpInv, RetryOK
  <2> QED
    BY <1>1, <1>2, <2>1, <2>2, LetterSet
<1>4. /\ CountTypes' /\ lock' \in [Async -> {"free", "loop", "settle"} \cup Retriers]
  BY <1>1, TypesAre DEF boundVars, CountTypes, RunTypes, RetryEnd
<1>5. \E run \in RetryStates : retry' = [retry EXCEPT ![r] = run] /\ run.pc # "resolve"
  BY <1>1, IdleTypes DEF RetryEnd, IdleRetry
<1> QED
  BY <1>1, <1>3, <1>4, <1>5, RetryStepKept

\* A storage error ends a retry.
LEMMA RetryFailsKept ==
    ASSUME TypeOK, PumpInv, NEW r \in Retriers, RetryFails(r)
    PROVE  PumpKept
<1>1. /\ UNCHANGED dbVars /\ UNCHANGED syncRun /\ UNCHANGED slot /\ UNCHANGED settle
      /\ UNCHANGED busies /\ UNCHANGED discards /\ failures' = failures + 1
      /\ retry' = [retry EXCEPT ![r] = IdleRetry]
      /\ lock' = lock \/ lock' = [lock EXCEPT ![retry[r].consumer] = "free"]
  BY DEF RetryFails, RetryEnd
<1>2. CountTypes' /\ lock' \in [Async -> {"free", "loop", "settle"} \cup Retriers]
  BY <1>1, TypesAre DEF CountTypes, RunTypes
<1>3. IdleRetry \in RetryStates /\ IdleRetry.pc # "resolve"
  BY IdleTypes DEF IdleRetry
<1>4. DbTypes' /\ Grows /\ LettersOK' /\ UNCHANGED checkpoint
  BY <1>1, NothingWritten DEF dbVars
<1> QED
  BY <1>1, <1>2, <1>3, <1>4, RetryStepKept

\* A step that leaves every run where it is, or ends it.
LEMMA RunsKept ==
    ASSUME TypeOK, PumpInv, DbTypes', CountTypes', Grows, LettersOK', UNCHANGED checkpoint,
           UNCHANGED syncRun \/ syncRun' = IdleSync,
           UNCHANGED slot \/ slot' = [c \in Async |-> IdleSlot],
           UNCHANGED retry \/ retry' = [r \in Retriers |-> IdleRetry],
           lock' \in [Async -> {"free", "loop", "settle"} \cup Retriers],
           settle' \in SettleStates
    PROVE  PumpKept
<1>1. TypeOK'
  BY TypesAre, TypesNext, IdleTypes DEF RunTypes
<1>2. SyncRunOK'
  BY <1>1, OthersKept DEF SyncRunOK, IdleSync
<1>3. \A c \in Async : SlotOK(c)'
  BY <1>1, OthersKept DEF SlotOK, IdleSlot
<1>4. \A r \in Retriers : RetryOK(r)'
  BY <1>1, OthersKept DEF RetryOK, IdleRetry
<1> QED
  BY <1>1, <1>2, <1>3, <1>4, OthersKept DEF PumpKept, PumpInv

\* A person discards a letter.
LEMMA DiscardKept ==
    ASSUME TypeOK, PumpInv, NEW c \in Consumers, NEW s \in Seqs, Discard(c, s)
    PROVE  PumpKept
<1>1. /\ UNCHANGED log /\ UNCHANGED checkpoint /\ UNCHANGED effects /\ UNCHANGED pumpVars
      /\ UNCHANGED failures /\ UNCHANGED busies /\ discards' = discards + 1
      /\ SetLetter(c, s, "discarded")
  BY DEF Discard
<1>2. "discarded" \in LetterStates \ {"none"} /\ "discarded" # "retried"
  BY DEF LetterStates
<1>3. DbTypes' /\ Grows /\ LettersOK'
  BY <1>1, <1>2, LetterSet
<1>4. /\ CountTypes' /\ UNCHANGED syncRun /\ UNCHANGED slot /\ UNCHANGED retry
      /\ lock' \in [Async -> {"free", "loop", "settle"} \cup Retriers]
      /\ settle' \in SettleStates
  BY <1>1, TypesAre DEF CountTypes, RunTypes, pumpVars
<1> QED
  BY <1>1, <1>3, <1>4, RunsKept

\* Retention takes a payload.
LEMMA SweepExpireKept ==
    ASSUME TypeOK, PumpInv, NEW seq \in Seqs, SweepExpire(seq)
    PROVE  PumpKept
<1>1. /\ UNCHANGED checkpoint /\ UNCHANGED letter /\ UNCHANGED effects /\ UNCHANGED pumpVars
      /\ UNCHANGED boundVars
      /\ log' = [log EXCEPT ![seq].expired = TRUE]
      /\ seq <= Len(log)
  BY DEF SweepExpire
<1>2. /\ log \in Seq(Event) /\ Len(log) \in Nat /\ Len(log) <= MaxEvents /\ MaxEvents \in Nat
      /\ \A d \in Consumers : checkpoint[d] \in Nat
  BY EventsBounded DEF TypeOK
<1>3. seq \in 1..Len(log) /\ log[seq] \in Event
  BY <1>1, <1>2 DEF Seqs
<1> DEFINE event == [log[seq] EXCEPT !.expired = TRUE]
<1>4. event \in Event /\ event.type = log[seq].type /\ event.expired = TRUE
  BY <1>3 DEF Event
<1>5. log' = [log EXCEPT ![seq] = event]
  BY <1>1
<1> HIDE DEF event
<1>6. /\ log' \in Seq(Event) /\ Len(log') = Len(log)
      /\ \A s \in 1..Len(log) : log'[s] = IF s = seq THEN event ELSE log[s]
  BY <1>2, <1>3, <1>4, <1>5, ExceptSeq
<1>7. DbTypes'
  BY <1>1, <1>2, <1>6, TypesAre DEF DbTypes
<1>8. Grows
  BY <1>1, <1>2, <1>4, <1>6 DEF Grows
<1>9. LettersOK'
  BY <1>1 DEF PumpInv, LettersOK
<1>10. /\ CountTypes' /\ UNCHANGED syncRun /\ UNCHANGED slot /\ UNCHANGED retry
      /\ lock' \in [Async -> {"free", "loop", "settle"} \cup Retriers]
      /\ settle' \in SettleStates
  BY <1>1, TypesAre DEF CountTypes, RunTypes, pumpVars, boundVars
<1> QED
  BY <1>1, <1>7, <1>8, <1>9, <1>10, RunsKept

\* The letters of expired events are discarded.
LEMMA SweepLettersKept ==
    ASSUME TypeOK, PumpInv, SweepLetters
    PROVE  PumpKept
<1>1. /\ UNCHANGED log /\ UNCHANGED checkpoint /\ UNCHANGED effects /\ UNCHANGED syncRun
      /\ UNCHANGED slot /\ UNCHANGED lock /\ UNCHANGED retry /\ UNCHANGED settle
      /\ UNCHANGED boundVars
      /\ letter' = [c \in Consumers |-> [s \in Seqs |->
                    IF letter[c][s] = "pending" /\ s <= Len(log) /\ log[s].expired
                    THEN "discarded" ELSE letter[c][s]]]
  BY DEF SweepLetters
<1>2. /\ Len(log) \in Nat /\ \A d \in Consumers : checkpoint[d] \in Nat
      /\ letter \in [Consumers -> [Seqs -> LetterStates]]
  BY EventsBounded DEF TypeOK
<1>3. /\ letter' \in [Consumers -> [Seqs -> LetterStates]]
      /\ \A c \in Consumers, s \in Seqs :
            letter'[c][s] = letter[c][s]
            \/ (letter[c][s] = "pending" /\ letter'[c][s] = "discarded")
  BY <1>1, <1>2 DEF LetterStates
<1>4. DbTypes'
  BY <1>1, <1>3, TypesAre DEF DbTypes
<1>5. Grows
  BY <1>1, <1>2, <1>3 DEF Grows
<1>6. LettersOK'
  BY <1>1, <1>3 DEF PumpInv, LettersOK
<1>7. /\ CountTypes'
      /\ lock' \in [Async -> {"free", "loop", "settle"} \cup Retriers]
      /\ settle' \in SettleStates
  BY <1>1, TypesAre DEF CountTypes, RunTypes, boundVars
<1> QED
  BY <1>1, <1>4, <1>5, <1>6, <1>7, RunsKept

\* What the steps of a settle make of it.
LEMMA SettleTypes ==
    ASSUME TypeOK
    PROVE  /\ \A names \in Settles : SettleCall(names) => settle' \in SettleStates
           /\ SettlePlan \/ SettleJoin \/ SettleTimeout => settle' \in SettleStates
<1>1. settle \in SettleStates /\ Len(log) \in 0..MaxEvents
  BY TypesAre, EventsBounded DEF RunTypes, TypeOK
<1>2. ASSUME NEW names \in Settles, SettleCall(names)
      PROVE  settle' \in SettleStates
  BY <1>1, <1>2, SettlesAsync DEF SettleCall, SettleStates
<1>3. CASE SettlePlan
  <2>1. NextLevel(settle.remaining) \in SUBSET Async /\ settle.remaining \in SUBSET Async
    BY <1>1 DEF SettleStates, NextLevel
  <2> QED
    BY <1>1, <1>3, <2>1 DEF SettlePlan, SettleStates
<1>4. CASE SettleJoin
  BY <1>1, <1>4 DEF SettleJoin, SettleStates
<1>5. CASE SettleTimeout
  BY <1>1, <1>5 DEF SettleTimeout, SettleStates
<1> QED
  BY <1>2, <1>3, <1>4, <1>5

\* A settle moves nothing but itself and the locks it waits for.
LEMMA SettleKept ==
    ASSUME TypeOK, PumpInv,
           (\E names \in Settles : SettleCall(names)) \/ SettlePlan \/ SettleJoin \/ SettleTimeout
    PROVE  PumpKept
<1>1. /\ UNCHANGED dbVars /\ UNCHANGED syncRun /\ UNCHANGED slot /\ UNCHANGED retry
      /\ UNCHANGED boundVars
      /\ \/ UNCHANGED lock
         \/ lock' = [c \in Async |-> IF lock[c] = "settle" THEN "loop" ELSE lock[c]]
  BY DEF SettleCall, SettlePlan, SettleJoin, SettleTimeout
<1>2. settle' \in SettleStates
  BY SettleTypes
<1>3. DbTypes' /\ Grows /\ LettersOK' /\ UNCHANGED checkpoint
  BY <1>1, NothingWritten DEF dbVars
<1>4. CountTypes' /\ lock' \in [Async -> {"free", "loop", "settle"} \cup Retriers]
  BY <1>1, TypesAre DEF CountTypes, RunTypes, boundVars
<1> QED
  BY <1>1, <1>2, <1>3, <1>4, RunsKept

\* A sync run fails, or oxplow dies.
LEMMA FaultsKept ==
    ASSUME TypeOK, PumpInv, SyncFails \/ Crash
    PROVE  PumpKept
<1>1. /\ UNCHANGED dbVars /\ UNCHANGED busies /\ UNCHANGED discards /\ failures' = failures + 1
      /\ syncRun' = IdleSync
      /\ UNCHANGED slot \/ slot' = [c \in Async |-> IdleSlot]
      /\ UNCHANGED retry \/ retry' = [r \in Retriers |-> IdleRetry]
      /\ UNCHANGED lock \/ lock' = [c \in Async |-> "free"]
      /\ UNCHANGED settle \/ settle' = IdleSettle
  BY DEF SyncFails, Crash
<1>2. DbTypes' /\ Grows /\ LettersOK' /\ UNCHANGED checkpoint
  BY <1>1, NothingWritten DEF dbVars
<1>3. /\ CountTypes' /\ lock' \in [Async -> {"free", "loop", "settle"} \cup Retriers]
      /\ settle' \in SettleStates
  BY <1>1, TypesAre, IdleTypes DEF CountTypes, RunTypes
<1> QED
  BY <1>1, <1>2, <1>3, RunsKept

\* Nothing happens.
LEMMA StutterKept ==
    ASSUME TypeOK, PumpInv, UNCHANGED vars
    PROVE  PumpKept
<1>1. /\ UNCHANGED dbVars /\ UNCHANGED checkpoint /\ UNCHANGED syncRun /\ UNCHANGED slot
      /\ UNCHANGED retry /\ UNCHANGED lock /\ UNCHANGED settle /\ UNCHANGED boundVars
  BY DEF vars, dbVars, boundVars
<1>2. /\ CountTypes' /\ lock' \in [Async -> {"free", "loop", "settle"} \cup Retriers]
      /\ settle' \in SettleStates
  BY <1>1, TypesAre DEF CountTypes, RunTypes, boundVars
<1>3. DbTypes' /\ Grows /\ LettersOK'
  BY <1>1, NothingWritten
<1> QED
  BY <1>1, <1>2, <1>3, RunsKept

-----------------------------------------------------------------------------
(* The theorems.                                                           *)

LEMMA PumpInit == Init => TypeOK /\ PumpInv
<1> SUFFICES ASSUME Init PROVE TypeOK /\ PumpInv
  OBVIOUS
<1>1. /\ log = <<>> /\ checkpoint = [c \in Consumers |-> 0]
      /\ letter = [c \in Consumers |-> [s \in Seqs |-> "none"]]
      /\ effects = [c \in Consumers |-> [s \in Seqs |-> 0]]
      /\ syncRun = IdleSync /\ slot = [c \in Async |-> IdleSlot]
      /\ lock = [c \in Async |-> "free"] /\ retry = [r \in Retriers |-> IdleRetry]
      /\ settle = IdleSettle /\ failures = 0 /\ busies = 0 /\ discards = 0
  BY DEF Init
<1>2. DbTypes
  <2>1. log \in Seq(Event) /\ Len(log) = 0 /\ Len(log) <= MaxEvents
    BY <1>1, IdleTypes
  <2> QED
    BY <1>1, <2>1, IdleTypes DEF DbTypes, LetterStates
<1>3. RunTypes /\ CountTypes
  BY <1>1, IdleTypes DEF RunTypes, CountTypes
<1>4. \A c \in Consumers : CheckpointOK(c)
  BY <1>1 DEF CheckpointOK, SettledTo
<1>5. SyncRunOK /\ (\A c \in Async : SlotOK(c)) /\ \A r \in Retriers : RetryOK(r)
  BY <1>1 DEF SyncRunOK, SlotOK, RetryOK, IdleSync, IdleSlot, IdleRetry
<1>6. LettersOK
  BY <1>1 DEF LettersOK
<1> QED
  BY <1>2, <1>3, <1>4, <1>5, <1>6, TypesAre DEF PumpInv

LEMMA PumpInductive == TypeOK /\ PumpInv /\ [Next]_vars => PumpKept
<1> SUFFICES ASSUME TypeOK, PumpInv, [Next]_vars
             PROVE  PumpKept
  OBVIOUS
<1>1. CASE \E t \in Types : AppendEvent(t)
  BY <1>1, AppendKept
<1>2. CASE SyncStep
  BY <1>2, SyncReadKept, SyncDeliverKept DEF SyncStep
<1>3. ASSUME NEW c \in Async,
             \/ \E by \in {"loop", "settle"} : SlotStart(c, by)
             \/ SlotStep(c)
             \/ SlotFails(c)
      PROVE  PumpKept
  BY <1>3, SlotStartKept, SlotReadKept, SlotNextKept, SlotHandleKept, SlotCommitKept,
     SlotFailsKept DEF SlotStep
<1>4. ASSUME NEW r \in Retriers,
             \/ \E c \in Consumers, s \in Seqs : RetryCheck(r, c, s)
             \/ RetryStep(r)
             \/ RetryFails(r)
      PROVE  PumpKept
  BY <1>4, RetryCheckKept, RetrySyncKept, RetryHandleKept, RetryLockKept, RetryResolveKept,
     RetryFailsKept DEF RetryStep
<1>5. CASE \E c \in Consumers, s \in Seqs : Discard(c, s)
  BY <1>5, DiscardKept
<1>6. CASE \E s \in Seqs : SweepExpire(s)
  BY <1>6, SweepExpireKept
<1>7. CASE SweepLetters
  BY <1>7, SweepLettersKept
<1>8. CASE (\E names \in Settles : SettleCall(names)) \/ SettleStep \/ SettleTimeout
  BY <1>8, SettleKept DEF SettleStep
<1>9. CASE SyncFails \/ Crash
  BY <1>9, FaultsKept
<1>10. CASE UNCHANGED vars
  BY <1>10, StutterKept
<1> QED
  BY <1>1, <1>2, <1>3, <1>4, <1>5, <1>6, <1>7, <1>8, <1>9, <1>10 DEF Next

\* The invariant, and what follows from it about the types.
THEOREM PumpTypes == Spec => []TypeOK
<1>1. TypeOK /\ PumpInv /\ [Next]_vars => TypeOK' /\ PumpInv'
  BY PumpInductive DEF PumpKept
<1> QED
  BY <1>1, PumpInit, PTL DEF Spec

LEMMA PumpInvariant == Spec => [](TypeOK /\ PumpInv)
<1>1. TypeOK /\ PumpInv /\ [Next]_vars => TypeOK' /\ PumpInv'
  BY PumpInductive DEF PumpKept
<1> QED
  BY <1>1, PumpInit, PTL DEF Spec

\* Nothing is skipped silently: what is behind a checkpoint was handled, is in
\* the dead-letter table or lost its payload to retention, and a letter that
\* says `retried` has its handler's success behind it.
THEOREM PumpLosesNothing == Spec => []NothingLost
<1>1. PumpInv => NothingLost
  BY DEF PumpInv, CheckpointOK, SettledTo, LettersOK, NothingLost
<1> QED
  BY <1>1, PumpInvariant, PTL

\* An async handler is called with an event only when every earlier one is
\* dealt with.
THEOREM PumpDeliversInOrder == Spec => []DeliveredInOrder
<1>1. TypeOK /\ PumpInv => DeliveredInOrder
  <2> SUFFICES ASSUME TypeOK, PumpInv, NEW c \in Async, slot[c].pc = "handle",
                      NEW s \in 1..(Head(slot[c].batch).seq - 1)
               PROVE  Settled(c, s)
    BY DEF DeliveredInOrder
  <2>1. /\ SettledTo(c, Reached(c)) /\ Follows(slot[c].batch, Reached(c))
        /\ slot[c].batch # <<>> /\ Reached(c) <= Len(log)
    BY DEF PumpInv, SlotOK
  <2>2. slot[c].batch \in Seq(Read) /\ Reached(c) \in Nat
    <3>1. slot[c] \in SlotStates /\ checkpoint[c] \in Nat
      BY TypesAre, IdleTypes DEF RunTypes, DbTypes
    <3> QED
      BY <3>1, IdleTypes DEF SlotStates, Reached
  <2>3. Head(slot[c].batch).seq = Reached(c) + 1
    BY <2>1, <2>2, TailFollows
  <2> QED
    BY <2>1, <2>2, <2>3 DEF SettledTo
<1> QED
  BY <1>1, PumpInvariant, PTL

\* An async handler is called with an event only when each consumer it waits
\* for has dealt with it.
THEOREM PumpRespectsAfter == Spec => []PredecessorsFirst
<1>1. TypeOK /\ PumpInv => PredecessorsFirst
  <2> SUFFICES ASSUME TypeOK, PumpInv, NEW c \in Async, slot[c].pc = "handle",
                      NEW d \in AfterFor[c][Head(slot[c].batch).type]
               PROVE  Settled(d, Head(slot[c].batch).seq)
    BY DEF PredecessorsFirst
  <2>1. slot[c].batch # <<>> /\ PredecessorsPast(c, Head(slot[c].batch))
    BY DEF PumpInv, SlotOK
  <2>2. slot[c].batch \in Seq(Read)
    BY TypesAre DEF RunTypes, SlotStates
  <2>3. Head(slot[c].batch) \in Read
    BY <2>1, <2>2, HeadTailProperties
  <2>4. Head(slot[c].batch).seq \in Seqs /\ Head(slot[c].batch).type \in Types
    BY <2>3 DEF Read
  <2>5. d \in Consumers /\ checkpoint[d] >= Head(slot[c].batch).seq
    BY <2>1, <2>4, AfterConsumers DEF PredecessorsPast
  <2>6. SettledTo(d, checkpoint[d]) /\ checkpoint[d] \in Nat
    BY <2>5, IdleTypes DEF PumpInv, CheckpointOK, TypeOK
  <2>7. Head(slot[c].batch).seq \in 1..checkpoint[d]
    BY <2>4, <2>5, <2>6, IdleTypes DEF Seqs
  <2> QED
    BY <2>6, <2>7 DEF SettledTo
<1> QED
  BY <1>1, PumpInvariant, PTL

\* Whatever crashes, fails or is retried: no checkpoint moves back, no event is
\* taken out of the log or changes its type, no letter goes and no handler's
\* success is forgotten.
THEOREM PumpOnlyGrows == Spec => [][Grows]_vars
<1>1. TypeOK /\ PumpInv /\ [Next]_vars => [Grows]_vars
  BY PumpInductive DEF PumpKept
<1> QED
  BY <1>1, PumpInvariant, PTL DEF Spec

-----------------------------------------------------------------------------
(* What a settle answers.                                                  *)

\* A slot's run belongs to a settle only while that settle waits for it; a
\* consumer it no longer waits for has caught up with what was logged at the
\* call, unless a run was deferred or failed.
SettleInv ==
    /\ \A c \in Async : lock[c] = "settle" => settle.pc = "level" /\ c \in settle.level
    /\ settle.pc = "plan" => settle.level = {} /\ ~settle.failed
    /\ settle.target <= Len(log)
    /\ settle.pc \in {"plan", "level"} /\ ~settle.deferred /\ ~settle.failed =>
        \A c \in settle.names \ (settle.remaining \cup settle.level) :
            checkpoint[c] >= settle.target
    /\ settle.pc = "caughtUp" => \A c \in settle.names : checkpoint[c] >= settle.target

\* The numbers, the names and the locks, for the arithmetic of the steps below.
LEMMA Numbers ==
    ASSUME TypeOK
    PROVE  /\ settle \in SettleStates /\ settle.names \subseteq Consumers /\ settle.target \in Nat
           /\ log \in Seq(Event) /\ Len(log) \in Nat /\ Len(log) <= MaxEvents
           /\ \A c \in Consumers : checkpoint[c] \in Nat
           /\ lock \in [Async -> {"free", "loop", "settle"} \cup Retriers]
<1>1. settle \in SettleStates /\ lock \in [Async -> {"free", "loop", "settle"} \cup Retriers]
  BY TypesAre DEF RunTypes
<1>2. settle.names \subseteq Consumers /\ settle.target \in Nat
  BY <1>1, IdleTypes DEF SettleStates
<1> QED
  BY <1>1, <1>2, IdleTypes DEF TypeOK

LEMMA NumbersNext ==
    ASSUME TypeOK, TypeOK', Grows
    PROVE  /\ Len(log') \in Nat /\ Len(log) <= Len(log')
           /\ \A c \in Consumers : checkpoint'[c] \in Nat /\ checkpoint[c] <= checkpoint'[c]
BY IdleTypes DEF TypeOK, Grows


\* A step that gives no run to a settle, and leaves it where it is.
LEMMA SettleStays ==
    ASSUME TypeOK, TypeOK', Grows, SettleInv, UNCHANGED settle,
           \A c \in Async : lock'[c] = "settle" => lock[c] = "settle"
    PROVE  SettleInv'
<1>1. /\ settle.names \subseteq Consumers /\ settle.target \in Nat
      /\ Len(log) \in Nat /\ Len(log') \in Nat /\ Len(log) <= Len(log')
      /\ \A c \in Consumers : checkpoint[c] \in Nat /\ checkpoint'[c] \in Nat
                              /\ checkpoint[c] <= checkpoint'[c]
  BY Numbers, NumbersNext
<1> QED
  BY <1>1 DEF SettleInv

\* A run ends: one that was not deferred has read to the end of the log.
LEMMA SettleRunEnds ==
    ASSUME TypeOK, TypeOK', Grows, SettleInv, NEW c \in Async, NEW deferred \in BOOLEAN,
           SlotEnd(c, deferred), deferred \/ checkpoint[c] = Len(log)
    PROVE  SettleInv'
<1>1. /\ settle.names \subseteq Consumers /\ settle.target \in Nat /\ c \in Consumers
      /\ Len(log) \in Nat /\ Len(log') \in Nat /\ Len(log) <= Len(log')
      /\ \A d \in Consumers : checkpoint[d] \in Nat /\ checkpoint'[d] \in Nat
                              /\ checkpoint[d] <= checkpoint'[d]
  BY IdleTypes, Numbers, NumbersNext
<1>2. /\ lock' = [lock EXCEPT ![c] = "free"]
      /\ settle' = IF lock[c] = "settle"
                   THEN [settle EXCEPT !.level = @ \ {c}, !.deferred = @ \/ deferred]
                   ELSE settle
  BY DEF SlotEnd
<1>3. lock'[c] = "free" /\ \A d \in Async : d # c => lock'[d] = lock[d]
  BY <1>2 DEF TypeOK
<1>4. CASE lock[c] # "settle"
  BY <1>2, <1>3, <1>4, SettleStays
<1>5. CASE lock[c] = "settle"
  <2>1. settle.pc = "level" /\ c \in settle.level
    BY <1>5 DEF SettleInv
  <2>2. /\ settle'.pc = settle.pc /\ settle'.names = settle.names
        /\ settle'.remaining = settle.remaining /\ settle'.level = settle.level \ {c}
        /\ settle'.failed = settle.failed /\ settle'.target = settle.target
        /\ settle'.deferred = (settle.deferred \/ deferred)
    BY <1>2, <1>5, TypesAre DEF RunTypes, SettleStates
  <2>3. \A d \in Async : lock'[d] = "settle" => settle'.pc = "level" /\ d \in settle'.level
    BY <1>3, <2>1, <2>2 DEF SettleInv
  <2>4. settle'.target <= Len(log') /\ settle'.pc = "level"
    BY <1>1, <2>1, <2>2 DEF SettleInv
  <2>5. ASSUME ~settle'.deferred, ~settle'.failed,
               NEW d \in settle'.names \ (settle'.remaining \cup settle'.level)
        PROVE  checkpoint'[d] >= settle'.target
    <3>1. ~settle.deferred /\ ~settle.failed /\ checkpoint[c] = Len(log)
      BY <2>2, <2>5
    <3>2. CASE d = c
      BY <1>1, <2>2, <3>1, <3>2 DEF SettleInv
    <3>3. CASE d # c
      <4>1. d \in settle.names \ (settle.remaining \cup settle.level) /\ d \in Consumers
        BY <1>1, <2>2, <2>5, <3>3
      <4>2. checkpoint[d] >= settle.target
        BY <2>1, <3>1, <4>1 DEF SettleInv
      <4> QED
        BY <1>1, <2>2, <4>1, <4>2
    <3> QED
      BY <3>2, <3>3
  <2> QED
    BY <2>3, <2>4, <2>5 DEF SettleInv
<1> QED
  BY <1>4, <1>5

\* A run begins, for its loop or for a settle, or finds nothing to read.
LEMMA SettleSlotStarts ==
    ASSUME TypeOK, TypeOK', PumpInv, Grows, SettleInv, NEW c \in Async,
           NEW by \in {"loop", "settle"}, SlotStart(c, by)
    PROVE  SettleInv'
<1>1. /\ settle.names \subseteq Consumers /\ settle.target \in Nat /\ c \in Consumers
      /\ log \in Seq(Event) /\ Len(log) \in Nat /\ Len(log) <= MaxEvents
      /\ \A d \in Consumers : checkpoint[d] \in Nat
      /\ settle \in SettleStates
      /\ lock \in [Async -> {"free", "loop", "settle"} \cup Retriers]
  BY IdleTypes, Numbers
<1>2. UNCHANGED checkpoint /\ UNCHANGED log /\ (by = "settle" => settle.pc = "level" /\ c \in settle.level)
  BY DEF SlotStart, dbVars
<1>3. CASE /\ ReadAfter(checkpoint[c]) = <<>>
           /\ settle' = IF by = "settle" THEN [settle EXCEPT !.level = @ \ {c}] ELSE settle
           /\ UNCHANGED <<slot, lock>> /\ lock[c] = "free"
  <2>1. CASE by = "loop"
    BY <1>3, <2>1, SettleStays
  <2>2. CASE by = "settle"
    <3>1. checkpoint[c] \in 0..Len(log)
      BY <1>1 DEF PumpInv, CheckpointOK
    <3>2. checkpoint[c] = Len(log)
      BY <1>1, <1>3, <3>1, ReadAfterFollows
    <3>3. /\ settle'.pc = settle.pc /\ settle'.names = settle.names
          /\ settle'.remaining = settle.remaining /\ settle'.level = settle.level \ {c}
          /\ settle'.failed = settle.failed /\ settle'.target = settle.target
          /\ settle'.deferred = settle.deferred
      BY <1>1, <1>3, <2>2 DEF SettleStates
    <3>4. settle.target <= Len(log) /\ settle.pc = "level"
      BY <1>2, <2>2 DEF SettleInv
    <3>5. \A d \in Async : lock'[d] = "settle" => d \in settle'.level
      BY <1>3, <3>3 DEF SettleInv
    <3>6. ASSUME ~settle'.deferred, ~settle'.failed,
                 NEW d \in settle'.names \ (settle'.remaining \cup settle'.level)
          PROVE  checkpoint'[d] >= settle'.target
      <4>1. CASE d = c
        BY <1>1, <1>2, <3>2, <3>3, <3>4, <4>1
      <4>2. CASE d # c
        BY <1>2, <3>3, <3>4, <3>6, <4>2 DEF SettleInv
      <4> QED
        BY <4>1, <4>2
    <3> QED
      BY <1>2, <3>3, <3>4, <3>5, <3>6 DEF SettleInv
  <2> QED
    BY <2>1, <2>2
<1>4. CASE lock' = [lock EXCEPT ![c] = by] /\ UNCHANGED settle
  <2>1. lock'[c] = by /\ \A d \in Async : d # c => lock'[d] = lock[d]
    BY <1>1, <1>4
  <2> QED
    BY <1>2, <1>4, <2>1 DEF SettleInv
<1> QED
  BY <1>3, <1>4 DEF SlotStart

\* A run fails.
LEMMA SettleRunFails ==
    ASSUME TypeOK, TypeOK', Grows, SettleInv, NEW c \in Async, SlotFails(c)
    PROVE  SettleInv'
<1>1. /\ lock' = [lock EXCEPT ![c] = "free"]
      /\ settle' = IF lock[c] = "settle"
                   THEN [settle EXCEPT !.level = @ \ {c}, !.failed = TRUE] ELSE settle
      /\ UNCHANGED log /\ UNCHANGED checkpoint
  BY DEF SlotFails, dbVars
<1>2. lock'[c] = "free" /\ \A d \in Async : d # c => lock'[d] = lock[d]
  BY <1>1, Numbers
<1>3. CASE lock[c] # "settle"
  BY <1>1, <1>2, <1>3, SettleStays
<1>4. CASE lock[c] = "settle"
  <2>1. settle.pc = "level"
    BY <1>4 DEF SettleInv
  <2>2. /\ settle'.pc = "level" /\ settle'.level = settle.level \ {c}
        /\ settle'.failed = TRUE /\ settle'.target = settle.target
    BY <1>1, <1>4, <2>1, Numbers DEF SettleStates
  <2> QED
    BY <1>1, <1>2, <2>1, <2>2 DEF SettleInv
<1> QED
  BY <1>3, <1>4

\* A settle is called.
LEMMA SettleIsCalled ==
    ASSUME TypeOK, SettleInv, NEW names \in Settles, SettleCall(names)
    PROVE  SettleInv'
<1>1. /\ settle.pc \in {"idle", "caughtUp", "notCaughtUp"}
      /\ settle' = [pc |-> "plan", names |-> names, remaining |-> names, level |-> {},
                    deferred |-> FALSE, failed |-> FALSE, target |-> Len(log)]
      /\ UNCHANGED log /\ UNCHANGED checkpoint /\ UNCHANGED lock
  BY DEF SettleCall, dbVars
<1>2. \A c \in Async : lock'[c] # "settle"
  BY <1>1 DEF SettleInv
<1> QED
  BY <1>1, <1>2, Numbers DEF SettleInv

\* It goes on to its next level, or answers.
LEMMA SettleGoesOn ==
    ASSUME TypeOK, SettleInv, SettlePlan \/ SettleJoin \/ SettleTimeout
    PROVE  SettleInv'
<1>1. UNCHANGED log /\ UNCHANGED checkpoint /\ settle \in SettleStates
  BY Numbers DEF SettlePlan, SettleJoin, SettleTimeout, dbVars
<1>2. CASE SettlePlan /\ settle.remaining = {}
  <2>1. settle' = [settle EXCEPT !.pc = IF settle.deferred THEN "notCaughtUp" ELSE "caughtUp"]
    BY <1>2 DEF SettlePlan
  <2>2. /\ settle'.names = settle.names /\ settle'.target = settle.target
        /\ settle'.pc = IF settle.deferred THEN "notCaughtUp" ELSE "caughtUp"
    BY <1>1, <2>1 DEF SettleStates
  <2>3. settle.pc = "plan" /\ UNCHANGED lock /\ settle.level = {} /\ ~settle.failed
    BY <1>2 DEF SettlePlan, SettleInv
  <2>4. ~settle.deferred => \A c \in settle.names : checkpoint[c] >= settle.target
    BY <1>2, <2>3 DEF SettleInv
  <2> QED
    BY <1>1, <2>2, <2>3, <2>4 DEF SettleInv
<1>3. CASE SettlePlan /\ settle.remaining # {}
  <2> DEFINE next == NextLevel(settle.remaining)
  <2>1. /\ settle' = [settle EXCEPT !.pc = "level", !.level = next,
                                    !.remaining = settle.remaining \ next]
        /\ settle.pc = "plan" /\ UNCHANGED lock
    BY <1>3 DEF SettlePlan
  <2>2. next \subseteq settle.remaining
    BY DEF NextLevel
  <2> HIDE DEF next
  <2>3. /\ settle'.pc = "level" /\ settle'.level = next
        /\ settle'.remaining = settle.remaining \ next
        /\ settle'.names = settle.names /\ settle'.target = settle.target
        /\ settle'.deferred = settle.deferred /\ settle'.failed = settle.failed
    BY <1>1, <2>1 DEF SettleStates
  <2>4. settle.level = {} /\ \A c \in Async : lock'[c] # "settle"
    BY <2>1 DEF SettleInv
  <2>5. settle'.remaining \cup settle'.level = settle.remaining \cup settle.level
    BY <2>2, <2>3, <2>4
  <2> QED
    BY <1>1, <2>1, <2>3, <2>4, <2>5 DEF SettleInv
<1>4. CASE SettleJoin
  <2>1. /\ settle' = [settle EXCEPT !.pc = IF settle.failed THEN "notCaughtUp" ELSE "plan"]
        /\ settle.pc = "level" /\ settle.level = {} /\ UNCHANGED lock
    BY <1>4 DEF SettleJoin
  <2>2. /\ settle'.pc = IF settle.failed THEN "notCaughtUp" ELSE "plan"
        /\ settle'.remaining = settle.remaining /\ settle'.level = settle.level
        /\ settle'.names = settle.names /\ settle'.target = settle.target
        /\ settle'.deferred = settle.deferred /\ settle'.failed = settle.failed
    BY <1>1, <2>1 DEF SettleStates
  <2> QED
    BY <1>1, <2>1, <2>2 DEF SettleInv
<1>5. CASE SettleTimeout
  <2>1. /\ settle' = [settle EXCEPT !.pc = "notCaughtUp", !.level = {}, !.remaining = {}]
        /\ lock' = [c \in Async |-> IF lock[c] = "settle" THEN "loop" ELSE lock[c]]
    BY <1>5 DEF SettleTimeout
  <2>2. settle'.pc = "notCaughtUp" /\ settle'.target = settle.target
    BY <1>1, <2>1 DEF SettleStates
  <2>3. \A c \in Async : lock'[c] # "settle"
    BY <2>1
  <2> QED
    BY <1>1, <2>2, <2>3 DEF SettleInv
<1> QED
  BY <1>2, <1>3, <1>4, <1>5

LEMMA SettleInductive ==
    ASSUME TypeOK, PumpInv, SettleInv, [Next]_vars
    PROVE  SettleInv'
<1>0. TypeOK' /\ Grows
  BY PumpInductive DEF PumpKept
<1>a. \A r \in Retriers : r # "settle"
  BY RetriersNamed
<1>1. CASE /\ UNCHANGED settle
           /\ \/ UNCHANGED lock
              \/ \E c : \E r \in Retriers : lock' = [lock EXCEPT ![c] = r]
              \/ \E c : lock' = [lock EXCEPT ![c] = "free"]
  BY <1>0, <1>1, <1>a, Numbers, SettleStays
<1>2. CASE \E t \in Types : AppendEvent(t)
  BY <1>1, <1>2 DEF AppendEvent, pumpVars
<1>3. CASE SyncStep \/ SyncFails
  BY <1>1, <1>3 DEF SyncStep, SyncRead, SyncDeliver, SyncFails
<1>4. ASSUME NEW c \in Async, NEW by \in {"loop", "settle"}, SlotStart(c, by)
      PROVE  SettleInv'
  BY <1>0, <1>4, SettleSlotStarts
<1>5. ASSUME NEW c \in Async, SlotRead(c)
      PROVE  SettleInv'
  <2>1. CASE ReadAfter(checkpoint[c]) = <<>> /\ SlotEnd(c, FALSE)
    <3>1. checkpoint[c] \in 0..Len(log)
      BY Numbers, IdleTypes DEF PumpInv, CheckpointOK
    <3>2. checkpoint[c] = Len(log)
      BY <2>1, <3>1, Numbers, ReadAfterFollows
    <3> QED
      BY <1>0, <2>1, <3>2, SettleRunEnds
  <2>2. CASE UNCHANGED <<lock, settle>>
    BY <1>1, <2>2
  <2> QED
    BY <1>5, <2>1, <2>2 DEF SlotRead
<1>6. ASSUME NEW c \in Async, SlotNext(c) \/ \E result \in HandlerResults : SlotHandle(c, result)
      PROVE  SettleInv'
  <2>1. SlotEnd(c, TRUE) \/ UNCHANGED <<lock, settle>>
    BY <1>6 DEF SlotNext, SlotHandle, SlotDefer
  <2> QED
    BY <1>0, <1>1, <2>1, SettleRunEnds
<1>7. ASSUME NEW c \in Async, SlotCommit(c)
      PROVE  SettleInv'
  BY <1>1, <1>7 DEF SlotCommit
<1>8. ASSUME NEW c \in Async, SlotFails(c)
      PROVE  SettleInv'
  BY <1>0, <1>8, SettleRunFails
<1>9. ASSUME NEW r \in Retriers,
             \/ \E c \in Consumers, s \in Seqs : RetryCheck(r, c, s)
             \/ RetryStep(r)
             \/ RetryFails(r)
      PROVE  SettleInv'
  BY <1>1, <1>9 DEF RetryCheck, RetryStep, RetrySync, RetryHandle, RetryLock, RetryResolve,
     RetryFails, RetryEnd
<1>10. CASE \/ \E c \in Consumers, s \in Seqs : Discard(c, s)
            \/ \E s \in Seqs : SweepExpire(s)
            \/ SweepLetters
  BY <1>1, <1>10 DEF Discard, SweepExpire, SweepLetters, pumpVars
<1>11. CASE \E names \in Settles : SettleCall(names)
  BY <1>11, SettleIsCalled
<1>12. CASE SettleStep \/ SettleTimeout
  BY <1>12, SettleGoesOn DEF SettleStep
<1>13. CASE Crash
  BY <1>13, Numbers DEF Crash, IdleSettle, SettleInv, dbVars
<1>14. CASE UNCHANGED vars
  BY <1>1, <1>14 DEF vars
<1> QED
  BY <1>2, <1>3, <1>4, <1>5, <1>6, <1>7, <1>8, <1>9, <1>10, <1>11, <1>12, <1>13, <1>14
     DEF Next, SlotStep

\* A settle that answers true has caught its consumers up with everything that
\* was logged when it was called.
THEOREM SettleAnswersTrue == Spec => []SettleMeansDelivered
<1>1. Init => SettleInv
  BY DEF Init, SettleInv, IdleSettle
<1>2. TypeOK /\ PumpInv /\ SettleInv /\ [Next]_vars => SettleInv'
  BY SettleInductive
<1>3. TypeOK /\ PumpInv /\ SettleInv => SettleMeansDelivered
  <2> SUFFICES ASSUME TypeOK, PumpInv, SettleInv, settle.pc = "caughtUp",
                      NEW c \in settle.names, NEW s \in 1..settle.target
               PROVE  Settled(c, s)
    BY DEF SettleMeansDelivered
  <2>1. checkpoint[c] >= settle.target /\ c \in Consumers
    BY Numbers DEF SettleInv
  <2>2. s \in 1..checkpoint[c]
    BY <2>1, Numbers
  <2> QED
    BY <2>1, <2>2 DEF PumpInv, CheckpointOK, SettledTo
<1> QED
  BY <1>1, <1>2, <1>3, PumpInvariant, PTL DEF Spec

-----------------------------------------------------------------------------
(* How often a handler succeeds.                                           *)

\* Nobody retries a letter while another retry is under way.
OneRetrier == \A r, q \in Retriers : r = q

\* A run that is under way has its slot's lock, and so has a retry that calls an
\* async handler.
LockHeld ==
    /\ \A c \in Async : slot[c].pc # "idle" => lock[c] \in {"loop", "settle"}
    /\ \A r \in Retriers :
        retry[r].pc \in {"handle", "resolve", "park"} =>
            retry[r].consumer \in Async /\ lock[retry[r].consumer] = r

\* Letters, and the retries of them, are behind their consumer's checkpoint; a
\* sync consumer's retry is one transaction, an async one's takes the lock.
LettersBehind ==
    /\ \A c \in Consumers, s \in Seqs : letter[c][s] # "none" => s <= checkpoint[c]
    /\ \A r \in Retriers :
        retry[r].pc # "idle" =>
            /\ retry[r].seq <= checkpoint[retry[r].consumer]
            /\ retry[r].pc = "sync" <=> retry[r].consumer \in Sync

\* A sync consumer's event has no effect before it is passed, nor while its
\* letter is pending or being retried, and never more than one.
SyncOnce ==
    /\ \A c \in Sync, s \in Seqs :
        /\ s > checkpoint[c] => effects[c][s] = 0
        /\ letter[c][s] = "pending" => effects[c][s] = 0
        /\ effects[c][s] <= 1
    /\ \A r \in Retriers : retry[r].pc = "sync" => effects[retry[r].consumer][retry[r].seq] = 0

\* An async consumer's event ahead of the checkpoint, with a pending letter or
\* being retried has at most one effect per failure; a success that is about to
\* be recorded is one more.
Committing(c, s) == slot[c].pc = "commit" /\ Head(slot[c].batch).seq = s
Resolving(c, s) ==
    \E r \in Retriers : retry[r].pc = "resolve" /\ retry[r].consumer = c /\ retry[r].seq = s

AsyncOnce ==
    /\ \A c \in Async, s \in Seqs :
        /\ s > checkpoint[c] /\ ~Committing(c, s) => effects[c][s] <= failures
        /\ letter[c][s] = "pending" /\ ~Resolving(c, s) => effects[c][s] <= failures
        /\ effects[c][s] <= 1 + failures
    /\ \A r \in Retriers :
        retry[r].pc \in {"lock", "handle", "park"} =>
            effects[retry[r].consumer][retry[r].seq] <= failures

LEMMA LockHeldInductive ==
    ASSUME TypeOK, LettersBehind, LockHeld, [Next]_vars
    PROVE  LockHeld'
<1>0. /\ lock \in [Async -> {"free", "loop", "settle"} \cup Retriers]
      /\ slot \in [Async -> SlotStates] /\ retry \in [Retriers -> RetryStates]
      /\ \A r \in Retriers : r # "free" /\ r # "loop" /\ r # "settle"
  BY TypesAre, RetriersNamed DEF RunTypes
<1>1. CASE UNCHANGED lock /\ UNCHANGED slot /\ UNCHANGED retry
  BY <1>1 DEF LockHeld
<1>2. CASE \E t \in Types : AppendEvent(t)
  BY <1>1, <1>2 DEF AppendEvent, pumpVars
<1>3. CASE SyncStep \/ SyncFails
  BY <1>1, <1>3 DEF SyncStep, SyncRead, SyncDeliver, SyncFails
<1>4. ASSUME NEW c \in Async, UNCHANGED retry,
             \A d \in Async : d # c => lock'[d] = lock[d] /\ slot'[d] = slot[d],
             slot'[c].pc # "idle" => lock'[c] \in {"loop", "settle"},
             \A r \in Retriers : lock[c] # r \/ lock'[c] = r
      PROVE  LockHeld'
  BY <1>0, <1>4 DEF LockHeld
<1>5. ASSUME NEW c \in Async, UNCHANGED retry, slot[c].pc # "idle",
             \/ UNCHANGED lock /\ \E run : slot' = [slot EXCEPT ![c] = run]
             \/ lock' = [lock EXCEPT ![c] = "free"] /\ slot' = [slot EXCEPT ![c] = IdleSlot]
      PROVE  LockHeld'
  <2>1. lock[c] \in {"loop", "settle"} /\ \A r \in Retriers : lock[c] # r
    BY <1>0, <1>5 DEF LockHeld
  <2>2. \A d \in Async : d # c => lock'[d] = lock[d] /\ slot'[d] = slot[d]
    BY <1>0, <1>5
  <2>3. slot'[c].pc # "idle" => lock'[c] \in {"loop", "settle"}
    BY <1>0, <1>5, <2>1 DEF IdleSlot
  <2> QED
    BY <1>4, <1>5, <2>1, <2>2, <2>3
<1>6. ASSUME NEW c \in Async, NEW by \in {"loop", "settle"}, SlotStart(c, by)
      PROVE  LockHeld'
  <2>1. lock[c] = "free" /\ UNCHANGED retry
    BY <1>6 DEF SlotStart
  <2>2. CASE UNCHANGED <<slot, lock>>
    BY <1>1, <2>1, <2>2
  <2>3. CASE lock' = [lock EXCEPT ![c] = by] /\ \E run : slot' = [slot EXCEPT ![c] = run]
    <3>1. lock'[c] = by /\ \A d \in Async : d # c => lock'[d] = lock[d] /\ slot'[d] = slot[d]
      BY <1>0, <2>3
    <3> QED
      BY <1>0, <1>4, <2>1, <3>1
  <2> QED
    BY <1>6, <2>2, <2>3 DEF SlotStart
<1>7. ASSUME NEW c \in Async, SlotStep(c) \/ SlotFails(c)
      PROVE  LockHeld'
  <2>1. slot[c].pc # "idle" /\ UNCHANGED retry
    BY <1>7 DEF SlotStep, SlotRead, SlotNext, SlotHandle, SlotCommit, SlotFails
  <2>2. \/ UNCHANGED lock /\ \E run : slot' = [slot EXCEPT ![c] = run]
        \/ lock' = [lock EXCEPT ![c] = "free"] /\ slot' = [slot EXCEPT ![c] = IdleSlot]
    <3>1. CASE SlotRead(c)
      BY <3>1 DEF SlotRead, SlotEnd
    <3>2. CASE SlotNext(c)
      BY <3>2 DEF SlotNext, SlotDefer, SlotEnd
    <3>3. ASSUME NEW result \in HandlerResults, SlotHandle(c, result)
          PROVE  \/ UNCHANGED lock /\ \E run : slot' = [slot EXCEPT ![c] = run]
                 \/ lock' = [lock EXCEPT ![c] = "free"] /\ slot' = [slot EXCEPT ![c] = IdleSlot]
      BY <3>3 DEF SlotHandle, SlotDefer, SlotEnd
    <3>4. CASE SlotCommit(c)
      BY <3>4 DEF SlotCommit, SlotAdvance
    <3>5. CASE SlotFails(c)
      BY <3>5 DEF SlotFails
    <3> QED
      BY <1>7, <3>1, <3>2, <3>3, <3>4, <3>5 DEF SlotStep
  <2> QED
    BY <1>5, <2>1, <2>2
<1>8. ASSUME NEW r \in Retriers, UNCHANGED slot, UNCHANGED lock,
             \A q \in Retriers : q # r => retry'[q] = retry[q],
             \/ retry'[r].pc \notin {"handle", "resolve", "park"}
             \/ /\ retry[r].pc \in {"handle", "resolve", "park"}
                /\ retry'[r].consumer = retry[r].consumer
      PROVE  LockHeld'
  BY <1>8 DEF LockHeld
<1>9. ASSUME NEW r \in Retriers,
             \/ \E c \in Consumers, s \in Seqs : RetryCheck(r, c, s)
             \/ \E result \in HandlerResults : RetrySync(r, result) \/ RetryHandle(r, result)
      PROVE  LockHeld'
  <2>1. UNCHANGED slot /\ UNCHANGED lock
    BY <1>9 DEF RetryCheck, RetrySync, RetryHandle
  <2>2. \A q \in Retriers : q # r => retry'[q] = retry[q]
    BY <1>0, <1>9 DEF RetryCheck, RetrySync, RetryHandle
  <2>3. CASE \E c \in Consumers, s \in Seqs : RetryCheck(r, c, s)
    BY <1>0, <1>8, <2>1, <2>2, <2>3 DEF RetryCheck
  <2>4. CASE \E result \in HandlerResults : RetrySync(r, result)
    BY <1>0, <1>8, <2>1, <2>2, <2>4 DEF RetrySync, IdleRetry
  <2>5. CASE \E result \in HandlerResults : RetryHandle(r, result)
    <3>1. retry[r].pc = "handle" /\ retry'[r].consumer = retry[r].consumer
      BY <1>0, <2>5 DEF RetryHandle, RetryStates
    <3> QED
      BY <1>8, <2>1, <2>2, <3>1
  <2> QED
    BY <1>9, <2>3, <2>4, <2>5
<1>10. ASSUME NEW r \in Retriers, RetryEnd(r), UNCHANGED slot,
              lock[retry[r].consumer] \in {r, "free"}
       PROVE  LockHeld'
  <2>1. /\ lock' = [lock EXCEPT ![retry[r].consumer] = "free"]
        /\ retry'[r].pc = "idle" /\ \A q \in Retriers : q # r => retry'[q] = retry[q]
    BY <1>0, <1>10 DEF RetryEnd, IdleRetry
  <2>2. \A c \in Async : slot'[c].pc # "idle" => lock'[c] \in {"loop", "settle"}
    BY <1>0, <1>10, <2>1 DEF LockHeld
  <2>3. \A q \in Retriers :
            retry'[q].pc \in {"handle", "resolve", "park"} =>
                retry'[q].consumer \in Async /\ lock'[retry'[q].consumer] = q
    BY <1>0, <1>10, <2>1 DEF LockHeld
  <2> QED
    BY <2>2, <2>3 DEF LockHeld
<1>11. ASSUME NEW r \in Retriers, RetryLock(r)
       PROVE  LockHeld'
  <2>1. retry[r].pc = "lock" /\ lock[retry[r].consumer] = "free" /\ UNCHANGED slot
    BY <1>11 DEF RetryLock
  <2>2. CASE RetryEnd(r)
    BY <1>10, <2>1, <2>2
  <2>3. CASE /\ lock' = [lock EXCEPT ![retry[r].consumer] = r]
             /\ retry' = [retry EXCEPT ![r].pc = "handle"]
    <3>1. retry[r].consumer \in Async
      <4>1. retry[r].consumer \in Consumers /\ retry[r].consumer \notin Sync
        BY <1>0, <2>1 DEF LettersBehind, RetryStates
      <4> QED
        BY <4>1 DEF Consumers
    <3>2. /\ retry'[r].consumer = retry[r].consumer
          /\ \A q \in Retriers : q # r => retry'[q] = retry[q]
      BY <1>0, <2>3 DEF RetryStates
    <3>3. /\ lock'[retry[r].consumer] = r
          /\ \A d \in Async : d # retry[r].consumer => lock'[d] = lock[d]
      BY <1>0, <2>3, <3>1
    <3> QED
      BY <1>0, <2>1, <3>1, <3>2, <3>3 DEF LockHeld
  <2> QED
    BY <1>11, <2>2, <2>3 DEF RetryLock
<1>12. ASSUME NEW r \in Retriers, RetryResolve(r)
       PROVE  LockHeld'
  BY <1>10, <1>12 DEF RetryResolve, LockHeld
<1>13. ASSUME NEW r \in Retriers, RetryFails(r)
       PROVE  LockHeld'
  <2>1. UNCHANGED slot /\ retry[r].pc # "idle"
    BY <1>13 DEF RetryFails
  <2>2. CASE retry' = [retry EXCEPT ![r] = IdleRetry] /\ UNCHANGED lock
    BY <1>0, <1>8, <2>1, <2>2 DEF IdleRetry
  <2>3. CASE retry[r].pc \notin {"sync", "lock"} /\ RetryEnd(r)
    <3>1. retry[r].pc \in {"handle", "resolve", "park"}
      BY <1>0, <2>1, <2>3 DEF RetryStates
    <3> QED
      BY <1>10, <2>1, <2>3, <3>1 DEF LockHeld
  <2> QED
    BY <1>13, <2>2, <2>3 DEF RetryFails
<1>14. CASE \/ \E c \in Consumers, s \in Seqs : Discard(c, s)
            \/ \E s \in Seqs : SweepExpire(s)
            \/ SweepLetters
  BY <1>1, <1>14 DEF Discard, SweepExpire, SweepLetters, pumpVars
<1>15. CASE (\E names \in Settles : SettleCall(names)) \/ SettleStep
  BY <1>1, <1>15 DEF SettleCall, SettleStep, SettlePlan, SettleJoin
<1>16. CASE SettleTimeout
  <2>1. /\ lock' = [c \in Async |-> IF lock[c] = "settle" THEN "loop" ELSE lock[c]]
        /\ UNCHANGED slot /\ UNCHANGED retry
    BY <1>16 DEF SettleTimeout
  <2> QED
    BY <1>0, <2>1 DEF LockHeld
<1>17. CASE Crash
  BY <1>17 DEF Crash, LockHeld, IdleSlot, IdleRetry
<1>18. CASE UNCHANGED vars
  BY <1>1, <1>18 DEF vars
<1> QED
  BY <1>2, <1>3, <1>6, <1>7, <1>9, <1>11, <1>12, <1>13, <1>14, <1>15, <1>16, <1>17, <1>18
     DEF Next, RetryStep

LEMMA LettersBehindInductive ==
    ASSUME TypeOK, PumpInv, LettersBehind, [Next]_vars
    PROVE  LettersBehind'
<1>0. TypeOK' /\ Grows
  BY PumpInductive DEF PumpKept
<1>a. /\ \A c \in Consumers : checkpoint[c] \in Nat /\ checkpoint'[c] \in Nat
                              /\ checkpoint[c] <= checkpoint'[c]
      /\ Seqs \subseteq Nat
      /\ retry \in [Retriers -> RetryStates] /\ retry' \in [Retriers -> RetryStates]
      /\ letter \in [Consumers -> [Seqs -> LetterStates]]
      /\ slot \in [Async -> SlotStates] /\ syncRun \in SyncStates
  BY <1>0, Numbers, NumbersNext, TypesAre, TypesNext DEF RunTypes, DbTypes, Seqs
<1>b. \A r \in Retriers : retry[r].consumer \in Consumers /\ retry[r].seq \in Seqs
                          /\ retry[r].seq \in Nat
  BY <1>a DEF RetryStates
<1>1. ASSUME \A c \in Consumers, s \in Seqs :
                letter'[c][s] # "none" => letter[c][s] # "none" \/ s <= checkpoint'[c],
             \A r \in Retriers :
                \/ retry'[r].pc = "idle"
                \/ /\ retry[r].pc # "idle"
                   /\ retry'[r].consumer = retry[r].consumer /\ retry'[r].seq = retry[r].seq
                   /\ retry'[r].pc = "sync" <=> retry[r].pc = "sync"
      PROVE  LettersBehind'
  <2>1. \A c \in Consumers, s \in Seqs : letter'[c][s] # "none" => s <= checkpoint'[c]
    BY <1>a, <1>1 DEF LettersBehind
  <2>2. ASSUME NEW r \in Retriers, retry'[r].pc # "idle"
        PROVE  /\ retry'[r].seq <= checkpoint'[retry'[r].consumer]
               /\ retry'[r].pc = "sync" <=> retry'[r].consumer \in Sync
    BY <1>a, <1>b, <1>1, <2>2 DEF LettersBehind
  <2> QED
    BY <2>1, <2>2 DEF LettersBehind
<1>c. UNCHANGED retry => \A r \in Retriers :
                \/ retry'[r].pc = "idle"
                \/ /\ retry[r].pc # "idle"
                   /\ retry'[r].consumer = retry[r].consumer /\ retry'[r].seq = retry[r].seq
                   /\ retry'[r].pc = "sync" <=> retry[r].pc = "sync"
  OBVIOUS
<1>2. CASE UNCHANGED letter /\ UNCHANGED retry
  BY <1>1, <1>2, <1>c
<1>3. CASE \E t \in Types : AppendEvent(t)
  BY <1>2, <1>3 DEF AppendEvent, pumpVars
<1>4. ASSUME NEW c \in Consumers, NEW s \in Seqs, NEW state \in LetterStates,
             SetLetter(c, s, state), s <= checkpoint'[c]
      PROVE  \A d \in Consumers, z \in Seqs :
                letter'[d][z] # "none" => letter[d][z] # "none" \/ z <= checkpoint'[d]
  BY <1>4, WritesGrow
<1>5. ASSUME NEW c \in Consumers, NEW s \in Seqs, Park(c, s), checkpoint'[c] = s, UNCHANGED retry
      PROVE  LettersBehind'
  <2>1. "pending" \in LetterStates /\ SetLetter(c, s, "pending") /\ s <= checkpoint'[c]
    BY <1>a, <1>5 DEF Park, LetterStates
  <2> QED
    BY <1>1, <1>4, <1>5, <1>c, <2>1
<1>6. CASE SyncRead \/ SyncFails
  BY <1>2, <1>6 DEF SyncRead, SyncFails, dbVars
<1>7. ASSUME NEW result \in HandlerResults, SyncDeliver(result)
      PROVE  LettersBehind'
  <2>1. PICK c \in Sync : c = SyncOrder[syncRun.at]
    BY <1>a, IdleTypes DEF SyncStates
  <2>2. PICK s : s = Head(syncRun.batch).seq
    OBVIOUS
  <2>3. s \in Seqs /\ c \in Consumers
    <3>1. syncRun.pc = "deliver" /\ syncRun.batch \in Seq(Read)
      BY <1>a, <1>7 DEF SyncDeliver, SyncStates
    <3>2. syncRun.batch # <<>>
      BY <3>1 DEF PumpInv, SyncRunOK
    <3>3. Head(syncRun.batch) \in Read
      BY <3>1, <3>2, HeadTailProperties
    <3> QED
      BY <2>2, <3>3, IdleTypes DEF Read
  <2>4. CASE UNCHANGED letter
    BY <1>2, <1>7, <2>4 DEF SyncDeliver
  <2>5. CASE Park(c, s) /\ SetCheckpoint(c, s)
    <3>1. checkpoint'[c] = s /\ UNCHANGED retry
      BY <1>7, <2>3, <2>5, TypesAre DEF SetCheckpoint, SyncDeliver, DbTypes
    <3> QED
      BY <1>5, <2>3, <2>5, <3>1
  <2> QED
    BY <1>7, <2>1, <2>2, <2>4, <2>5 DEF SyncDeliver
<1>8. ASSUME NEW c \in Async,
             \/ \E by \in {"loop", "settle"} : SlotStart(c, by)
             \/ SlotRead(c) \/ SlotNext(c)
             \/ \E result \in HandlerResults : SlotHandle(c, result)
             \/ SlotFails(c)
      PROVE  LettersBehind'
  BY <1>2, <1>8 DEF SlotStart, SlotRead, SlotNext, SlotHandle, SlotFails, dbVars
<1>9. ASSUME NEW c \in Async, SlotCommit(c)
      PROVE  LettersBehind'
  <2>1. PICK s : s = Head(slot[c].batch).seq
    OBVIOUS
  <2>2. s \in Seqs /\ c \in Consumers
    <3>1. slot[c].pc \in {"commit", "park"} /\ slot[c].batch \in Seq(Read)
      BY <1>a, <1>9 DEF SlotCommit, SlotStates
    <3>2. slot[c].batch # <<>>
      BY <3>1 DEF PumpInv, SlotOK
    <3>3. Head(slot[c].batch) \in Read
      BY <3>1, <3>2, HeadTailProperties
    <3> QED
      BY <2>1, <3>3, IdleTypes DEF Read
  <2>3. checkpoint'[c] = s /\ UNCHANGED retry /\ (Park(c, s) \/ UNCHANGED letter)
    BY <1>9, <2>1, <2>2, TypesAre DEF SlotCommit, SetCheckpoint, DbTypes
  <2> QED
    BY <1>2, <1>5, <2>2, <2>3
<1>10. ASSUME NEW r \in Retriers, NEW c \in Consumers, NEW s \in Seqs, RetryCheck(r, c, s)
       PROVE  LettersBehind'
  <2>1. /\ UNCHANGED letter /\ UNCHANGED checkpoint /\ letter[c][s] = "pending"
        /\ retry' = [retry EXCEPT ![r] = [pc |-> IF c \in Async THEN "lock" ELSE "sync",
                                      consumer |-> c, seq |-> s]]
    BY <1>10 DEF RetryCheck, dbVars
  <2>2. /\ retry'[r] = [pc |-> IF c \in Async THEN "lock" ELSE "sync", consumer |-> c, seq |-> s]
        /\ \A q \in Retriers : q # r => retry'[q] = retry[q]
    BY <1>a, <2>1
  <2>3. /\ retry'[r].consumer = c /\ retry'[r].seq = s
        /\ retry'[r].pc = IF c \in Async THEN "lock" ELSE "sync"
    BY <2>2
  <2>4. c \in Async <=> c \notin Sync
    BY ConsumersDiffer DEF Consumers
  <2> QED
    BY <2>1, <2>2, <2>3, <2>4 DEF LettersBehind
<1>11. ASSUME NEW r \in Retriers,
              \/ retry' = [retry EXCEPT ![r] = IdleRetry]
              \/ /\ retry[r].pc \notin {"idle", "sync"}
                 /\ \E pc \in {"handle", "resolve", "park"} : retry' = [retry EXCEPT ![r].pc = pc],
              \/ UNCHANGED letter
              \/ /\ retry[r].pc # "idle" /\ UNCHANGED checkpoint
                 /\ \E state \in LetterStates : SetLetter(retry[r].consumer, retry[r].seq, state)
       PROVE  LettersBehind'
  <2>1. \A q \in Retriers :
                \/ retry'[q].pc = "idle"
                \/ /\ retry[q].pc # "idle"
                   /\ retry'[q].consumer = retry[q].consumer /\ retry'[q].seq = retry[q].seq
                   /\ retry'[q].pc = "sync" <=> retry[q].pc = "sync"
    <3>1. CASE retry' = [retry EXCEPT ![r] = IdleRetry]
      <4>1. retry'[r].pc = "idle" /\ \A q \in Retriers : q # r => retry'[q] = retry[q]
        BY <1>a, <3>1 DEF IdleRetry
      <4> QED
        BY <4>1
    <3>2. ASSUME NEW pc \in {"handle", "resolve", "park"}, retry' = [retry EXCEPT ![r].pc = pc],
                 retry[r].pc \notin {"idle", "sync"}
          PROVE  \A q \in Retriers :
                \/ retry'[q].pc = "idle"
                \/ /\ retry[q].pc # "idle"
                   /\ retry'[q].consumer = retry[q].consumer /\ retry'[q].seq = retry[q].seq
                   /\ retry'[q].pc = "sync" <=> retry[q].pc = "sync"
      <4>1. /\ retry'[r].pc = pc /\ retry'[r].consumer = retry[r].consumer
            /\ retry'[r].seq = retry[r].seq
            /\ \A q \in Retriers : q # r => retry'[q] = retry[q]
        BY <1>a, <3>2 DEF RetryStates
      <4> QED
        BY <3>2, <4>1
    <3> QED
      BY <1>11, <3>1, <3>2
  <2>2. \A c \in Consumers, s \in Seqs :
                letter'[c][s] # "none" => letter[c][s] # "none" \/ s <= checkpoint'[c]
    <3>1. CASE UNCHANGED letter
      BY <3>1
    <3>2. ASSUME retry[r].pc # "idle", UNCHANGED checkpoint, NEW state \in LetterStates,
                 SetLetter(retry[r].consumer, retry[r].seq, state)
          PROVE  \A c \in Consumers, s \in Seqs :
                letter'[c][s] # "none" => letter[c][s] # "none" \/ s <= checkpoint'[c]
      <4>1. retry[r].seq <= checkpoint[retry[r].consumer]
        BY <3>2 DEF LettersBehind
      <4> QED
        BY <1>4, <1>b, <3>2, <4>1
    <3> QED
      BY <1>11, <3>1, <3>2
  <2> QED
    BY <1>1, <2>1, <2>2
<1>12. "pending" \in LetterStates /\ "retried" \in LetterStates
  BY DEF LetterStates
<1>13. ASSUME NEW r \in Retriers, RetryStep(r) \/ RetryFails(r)
       PROVE  LettersBehind'
  <2>1. ASSUME NEW result \in HandlerResults, RetrySync(r, result)
        PROVE  LettersBehind'
    BY <1>11, <1>12, <2>1 DEF RetrySync, Park
  <2>2. ASSUME NEW result \in HandlerResults, RetryHandle(r, result)
        PROVE  LettersBehind'
    BY <1>11, <2>2 DEF RetryHandle
  <2>3. CASE RetryLock(r)
    BY <1>11, <2>3 DEF RetryLock, RetryEnd, dbVars
  <2>4. CASE RetryResolve(r)
    BY <1>11, <1>12, <2>4 DEF RetryResolve, RetryEnd, Park
  <2>5. CASE RetryFails(r)
    BY <1>11, <2>5 DEF RetryFails, RetryEnd, dbVars
  <2> QED
    BY <1>13, <2>1, <2>2, <2>3, <2>4, <2>5 DEF RetryStep
<1>14. ASSUME NEW c \in Consumers, NEW s \in Seqs, Discard(c, s)
       PROVE  LettersBehind'
  <2>1. /\ letter[c][s] # "none" /\ UNCHANGED retry
        /\ letter' = [letter EXCEPT ![c][s] = "discarded"]
    BY <1>14 DEF Discard, SetLetter, pumpVars
  <2>2. \A d \in Consumers, z \in Seqs : letter'[d][z] # "none" => letter[d][z] # "none"
    BY <1>a, <2>1
  <2> QED
    BY <1>1, <1>c, <2>1, <2>2
<1>15. CASE \E s \in Seqs : SweepExpire(s)
  BY <1>2, <1>15 DEF SweepExpire, pumpVars
<1>16. CASE SweepLetters
  <2>1. /\ UNCHANGED retry
        /\ letter' = [c \in Consumers |-> [s \in Seqs |->
                    IF letter[c][s] = "pending" /\ s <= Len(log) /\ log[s].expired
                    THEN "discarded" ELSE letter[c][s]]]
    BY <1>16 DEF SweepLetters
  <2>2. \A d \in Consumers, z \in Seqs : letter'[d][z] # "none" => letter[d][z] # "none"
    BY <2>1
  <2> QED
    BY <1>1, <1>c, <2>1, <2>2
<1>17. CASE (\E names \in Settles : SettleCall(names)) \/ SettleStep \/ SettleTimeout
  BY <1>2, <1>17 DEF SettleCall, SettleStep, SettlePlan, SettleJoin, SettleTimeout, dbVars
<1>18. CASE Crash
  BY <1>1, <1>18 DEF Crash, IdleRetry, dbVars
<1>19. CASE UNCHANGED vars
  BY <1>2, <1>19 DEF vars
<1> QED
  BY <1>3, <1>6, <1>7, <1>8, <1>9, <1>10, <1>13, <1>14, <1>15, <1>16, <1>17, <1>18, <1>19
     DEF Next, SyncStep, SlotStep

\* The counts are numbers, before a step and after it.
LEMMA Counts ==
    ASSUME TypeOK, TypeOK'
    PROVE  /\ failures \in Nat /\ failures' \in Nat /\ Seqs \subseteq Nat
           /\ Sync \subseteq Consumers /\ Async \subseteq Consumers
           /\ \A c \in Consumers, s \in Seqs : effects[c][s] \in Nat /\ effects'[c][s] \in Nat
           /\ \A r \in Retriers : retry[r].consumer \in Consumers /\ retry[r].seq \in Seqs
<1>1. \A r \in Retriers : retry[r].consumer \in Consumers /\ retry[r].seq \in Seqs
  BY TypesAre DEF RunTypes, RetryStates
<1>2. \A c \in Consumers, s \in Seqs : effects[c][s] \in Nat /\ effects'[c][s] \in Nat
  BY TypesAre, TypesNext DEF DbTypes
<1>3. failures \in Nat /\ failures' \in Nat /\ Seqs \subseteq Nat
  BY TypesAre, TypesNext DEF CountTypes, Seqs
<1> QED
  BY <1>1, <1>2, <1>3, IdleTypes


\* A step after which nothing has more effects, and what was about to be recorded
\* still is, is recorded, or was lost to a failure.
LEMMA OnceStays ==
    ASSUME TypeOK, TypeOK', Grows, LettersBehind, SyncOnce, AsyncOnce,
           UNCHANGED effects, failures <= failures',
           \A c \in Consumers, s \in Seqs :
                letter'[c][s] = "pending" => letter[c][s] = "pending",
           \A c \in Async, s \in Seqs :
                Committing(c, s) =>
                    Committing(c, s)' \/ failures < failures' \/ s <= checkpoint'[c],
           \A c \in Async, s \in Seqs :
                Resolving(c, s) /\ letter'[c][s] = "pending" =>
                    Resolving(c, s)' \/ failures < failures',
           \A r \in Retriers :
                retry'[r].pc \in {"sync", "lock", "handle", "park"} =>
                    /\ retry'[r].consumer = retry[r].consumer /\ retry'[r].seq = retry[r].seq
                    /\ retry'[r].pc = "sync" => retry[r].pc = "sync"
                    /\ retry'[r].pc # "sync" => retry[r].pc \in {"lock", "handle", "park"}
    PROVE  SyncOnce' /\ AsyncOnce'
<1>1. /\ failures \in Nat /\ failures' \in Nat /\ Seqs \subseteq Nat
      /\ Sync \subseteq Consumers /\ Async \subseteq Consumers
      /\ \A c \in Consumers : checkpoint[c] \in Nat /\ checkpoint'[c] \in Nat
                              /\ checkpoint[c] <= checkpoint'[c]
      /\ \A c \in Consumers, s \in Seqs : effects[c][s] \in Nat
      /\ \A r \in Retriers : retry[r].consumer \in Consumers /\ retry[r].seq \in Seqs
  BY Counts, Numbers, NumbersNext
<1>2. SyncOnce'
  <2>1. ASSUME NEW c \in Sync, NEW s \in Seqs
        PROVE  /\ s > checkpoint'[c] => effects[c][s] = 0
               /\ letter'[c][s] = "pending" => effects[c][s] = 0
               /\ effects[c][s] <= 1
    <3>1. s \in Nat /\ c \in Consumers
      BY <1>1
    <3> QED
      BY <1>1, <3>1 DEF SyncOnce
  <2>2. \A r \in Retriers :
            retry'[r].pc = "sync" => effects[retry'[r].consumer][retry'[r].seq] = 0
    BY DEF SyncOnce
  <2> QED
    BY <2>1, <2>2 DEF SyncOnce
<1>3. AsyncOnce'
  <2>1. ASSUME NEW c \in Async, NEW s \in Seqs
        PROVE  /\ s > checkpoint'[c] /\ ~Committing(c, s)' => effects[c][s] <= failures'
               /\ letter'[c][s] = "pending" /\ ~Resolving(c, s)' => effects[c][s] <= failures'
               /\ effects[c][s] <= 1 + failures'
    <3>1. s \in Nat /\ c \in Consumers /\ effects[c][s] \in Nat
      BY <1>1
    <3>2. /\ s > checkpoint[c] /\ ~Committing(c, s) => effects[c][s] <= failures
          /\ letter[c][s] = "pending" /\ ~Resolving(c, s) => effects[c][s] <= failures
          /\ effects[c][s] <= 1 + failures
      BY DEF AsyncOnce
    <3>3. s > checkpoint'[c] => s > checkpoint[c] /\ ~(s <= checkpoint'[c])
      BY <1>1, <3>1
    <3>4. failures < failures' => effects[c][s] <= failures'
      BY <1>1, <3>1, <3>2
    <3>5. effects[c][s] <= failures => effects[c][s] <= failures'
      BY <1>1, <3>1
    <3>6. effects[c][s] <= 1 + failures'
      BY <1>1, <3>1, <3>2
    <3>7. s > checkpoint'[c] /\ ~Committing(c, s)' => effects[c][s] <= failures'
      BY <3>2, <3>3, <3>4, <3>5 DEF Committing
    <3>8. letter'[c][s] = "pending" /\ ~Resolving(c, s)' => effects[c][s] <= failures'
      <4>1. ASSUME letter'[c][s] = "pending", ~Resolving(c, s)'
            PROVE  ~Resolving(c, s) \/ failures < failures'
        BY <4>1, Zenon
      <4>2. ASSUME letter'[c][s] = "pending"
            PROVE  letter[c][s] = "pending"
        BY <3>1, <4>2
      <4> QED
        BY <3>2, <3>4, <3>5, <4>1, <4>2, Zenon
    <3> QED
      BY <3>6, <3>7, <3>8
  <2>2. ASSUME NEW r \in Retriers, retry'[r].pc \in {"lock", "handle", "park"}
        PROVE  effects[retry'[r].consumer][retry'[r].seq] <= failures'
    <3>1. effects[retry[r].consumer][retry[r].seq] <= failures
      BY <2>2 DEF AsyncOnce
    <3>2. effects[retry[r].consumer][retry[r].seq] \in Nat
      BY <1>1
    <3>3. effects'[retry'[r].consumer][retry'[r].seq] = effects[retry[r].consumer][retry[r].seq]
      BY <2>2
    <3> QED
      BY <1>1, <3>1, <3>2, <3>3
  <2> QED
    BY <2>1, <2>2 DEF AsyncOnce
<1> QED
  BY <1>2, <1>3

\* A handler succeeds, or an event is parked: what the counts are afterwards.
LEMMA OnceWrites ==
    ASSUME TypeOK, TypeOK', Grows, LettersBehind, SyncOnce, AsyncOnce,
           NEW c \in Consumers, NEW s \in Seqs,
           \/ Effect(c, s) /\ (letter' = letter \/ SetLetter(c, s, "retried"))
           \/ UNCHANGED effects /\ SetLetter(c, s, "pending"),
           UNCHANGED failures,
           \A d \in Async, z \in Seqs :
                d # c \/ z # s =>
                    /\ Committing(d, z) => Committing(d, z)'
                    /\ Resolving(d, z) => Resolving(d, z)',
           \A r \in Retriers :
                retry'[r].pc \in {"sync", "lock", "handle", "park"} =>
                    /\ retry'[r] = retry[r]
                    /\ retry'[r].consumer # c \/ retry'[r].seq # s,
           c \in Sync => effects[c][s] = 0 /\ s <= checkpoint'[c]
                         /\ (UNCHANGED effects \/ letter'[c][s] # "pending"),
           c \in Async => /\ effects[c][s] <= failures
                          /\ \/ UNCHANGED effects
                             \/ /\ s > checkpoint'[c] => Committing(c, s)'
                                /\ letter'[c][s] = "pending" => Resolving(c, s)'
    PROVE  SyncOnce' /\ AsyncOnce'
<1>1. /\ failures \in Nat /\ Seqs \subseteq Nat
      /\ Sync \subseteq Consumers /\ Async \subseteq Consumers
      /\ \A d \in Consumers : checkpoint[d] \in Nat /\ checkpoint'[d] \in Nat
                              /\ checkpoint[d] <= checkpoint'[d]
      /\ \A d \in Consumers, z \in Seqs : effects[d][z] \in Nat /\ effects'[d][z] \in Nat
      /\ \A r \in Retriers : retry[r].consumer \in Consumers /\ retry[r].seq \in Seqs
  BY Counts, Numbers, NumbersNext
<1>2. \A d \in Consumers, z \in Seqs :
        d # c \/ z # s => effects'[d][z] = effects[d][z] /\ letter'[d][z] = letter[d][z]
  <2>1. "retried" \in LetterStates /\ "pending" \in LetterStates
    BY DEF LetterStates
  <2> QED
    BY <2>1, WritesGrow
<1>3. effects'[c][s] = effects[c][s] \/ effects'[c][s] = effects[c][s] + 1
  BY WritesGrow
<1>4. SyncOnce'
  <2>1. ASSUME NEW d \in Sync, NEW z \in Seqs
        PROVE  /\ z > checkpoint'[d] => effects'[d][z] = 0
               /\ letter'[d][z] = "pending" => effects'[d][z] = 0
               /\ effects'[d][z] <= 1
    <3>1. z \in Nat /\ d \in Consumers /\ s \in Nat
      BY <1>1
    <3>2. /\ z > checkpoint[d] => effects[d][z] = 0
          /\ letter[d][z] = "pending" => effects[d][z] = 0
          /\ effects[d][z] <= 1
      BY DEF SyncOnce
    <3>3. CASE d # c \/ z # s
      BY <1>1, <1>2, <3>1, <3>2, <3>3
    <3>4. CASE d = c /\ z = s
      BY <1>1, <1>3, <3>1, <3>4
    <3> QED
      BY <3>3, <3>4
  <2>2. ASSUME NEW r \in Retriers, retry'[r].pc = "sync"
        PROVE  effects'[retry'[r].consumer][retry'[r].seq] = 0
    <3>1. retry'[r] = retry[r] /\ (retry'[r].consumer # c \/ retry'[r].seq # s)
      BY <2>2
    <3>2. effects[retry[r].consumer][retry[r].seq] = 0
      BY <2>2, <3>1 DEF SyncOnce
    <3>3. retry[r].consumer # c \/ retry[r].seq # s
      BY <3>1
    <3>4. effects'[retry[r].consumer][retry[r].seq] = effects[retry[r].consumer][retry[r].seq]
      BY <1>1, <1>2, <3>3
    <3> QED
      BY <3>1, <3>2, <3>4
  <2> QED
    BY <2>1, <2>2 DEF SyncOnce
<1>5. AsyncOnce'
  <2>1. ASSUME NEW d \in Async, NEW z \in Seqs
        PROVE  /\ z > checkpoint'[d] /\ ~Committing(d, z)' => effects'[d][z] <= failures
               /\ letter'[d][z] = "pending" /\ ~Resolving(d, z)' => effects'[d][z] <= failures
               /\ effects'[d][z] <= 1 + failures
    <3>1. z \in Nat /\ d \in Consumers
      BY <1>1
    <3>2. CASE d # c \/ z # s
      <4>1. /\ z > checkpoint[d] /\ ~Committing(d, z) => effects[d][z] <= failures
            /\ letter[d][z] = "pending" /\ ~Resolving(d, z) => effects[d][z] <= failures
            /\ effects[d][z] <= 1 + failures
        BY DEF AsyncOnce
      <4>2. z > checkpoint'[d] => z > checkpoint[d]
        BY <1>1, <3>1
      <4>3. effects'[d][z] = effects[d][z] /\ letter'[d][z] = letter[d][z]
        BY <1>2, <3>1, <3>2
      <4> QED
        BY <3>2, <4>1, <4>2, <4>3
    <3>3. CASE d = c /\ z = s
      <4>1. effects[c][s] <= failures /\ effects'[c][s] <= 1 + failures
        BY <1>1, <1>3, <3>3
      <4> QED
        BY <3>3, <4>1
    <3> QED
      BY <3>2, <3>3
  <2>2. ASSUME NEW r \in Retriers, retry'[r].pc \in {"lock", "handle", "park"}
        PROVE  effects'[retry'[r].consumer][retry'[r].seq] <= failures
    <3>1. retry'[r] = retry[r] /\ (retry'[r].consumer # c \/ retry'[r].seq # s)
      BY <2>2
    <3>2. effects[retry[r].consumer][retry[r].seq] <= failures
      BY <2>2, <3>1 DEF AsyncOnce
    <3>3. retry[r].consumer # c \/ retry[r].seq # s
      BY <3>1
    <3>4. effects'[retry[r].consumer][retry[r].seq] = effects[retry[r].consumer][retry[r].seq]
      BY <1>1, <1>2, <3>3
    <3> QED
      BY <3>1, <3>2, <3>4
  <2> QED
    BY <2>1, <2>2 DEF AsyncOnce
<1> QED
  BY <1>4, <1>5

\* Slots run and retries do not: a run may only leave its success unrecorded by
\* failing.
LEMMA OnceSlots ==
    ASSUME TypeOK, TypeOK', Grows, LettersBehind, SyncOnce, AsyncOnce,
           UNCHANGED effects, UNCHANGED retry, failures <= failures',
           \A c \in Consumers, s \in Seqs :
                letter'[c][s] = "pending" => letter[c][s] = "pending",
           \A c \in Async :
                \/ slot'[c] = slot[c] \/ slot[c].pc # "commit" \/ failures < failures'
                \/ checkpoint'[c] = Head(slot[c].batch).seq
    PROVE  SyncOnce' /\ AsyncOnce'
<1>1. /\ Seqs \subseteq Nat /\ Async \subseteq Consumers
      /\ \A c \in Consumers : checkpoint'[c] \in Nat
  BY Counts, NumbersNext
<1>2. \A c \in Async, s \in Seqs :
        Committing(c, s) => Committing(c, s)' \/ failures < failures' \/ s <= checkpoint'[c]
  BY <1>1 DEF Committing
<1>3. \A c \in Async, s \in Seqs : Resolving(c, s) => Resolving(c, s)'
  BY DEF Resolving
<1>4. \A r \in Retriers :
        retry'[r].pc \in {"sync", "lock", "handle", "park"} =>
            /\ retry'[r].consumer = retry[r].consumer /\ retry'[r].seq = retry[r].seq
            /\ retry'[r].pc = "sync" => retry[r].pc = "sync"
            /\ retry'[r].pc # "sync" => retry[r].pc \in {"lock", "handle", "park"}
  OBVIOUS
<1> QED
  BY <1>2, <1>3, <1>4, OnceStays

\* A retry moves on and calls no handler: it leaves its success unrecorded only by
\* failing.
LEMMA OnceRetries ==
    ASSUME TypeOK, TypeOK', Grows, LettersBehind, SyncOnce, AsyncOnce,
           UNCHANGED effects, UNCHANGED slot, failures <= failures',
           \A c \in Consumers, s \in Seqs :
                letter'[c][s] = "pending" => letter[c][s] = "pending",
           NEW r \in Retriers, \A q \in Retriers : q # r => retry'[q] = retry[q],
           \/ /\ retry'[r].pc = "idle"
              /\ \/ retry[r].pc # "resolve" \/ failures < failures'
                 \/ letter'[retry[r].consumer][retry[r].seq] # "pending"
           \/ /\ retry'[r].consumer = retry[r].consumer /\ retry'[r].seq = retry[r].seq
              /\ retry[r].pc \in {"lock", "handle"} /\ retry'[r].pc \in {"handle", "park"}
    PROVE  SyncOnce' /\ AsyncOnce'
<1>1. \A c \in Async, s \in Seqs : Committing(c, s) => Committing(c, s)'
  BY DEF Committing
<1>2. ASSUME NEW c \in Async, NEW s \in Seqs, Resolving(c, s), letter'[c][s] = "pending"
      PROVE  Resolving(c, s)' \/ failures < failures'
  <2>1. PICK q \in Retriers : retry[q].pc = "resolve" /\ retry[q].consumer = c /\ retry[q].seq = s
    BY <1>2 DEF Resolving
  <2>2. CASE q # r
    BY <2>1, <2>2 DEF Resolving
  <2>3. CASE q = r
    BY <1>2, <2>1, <2>3
  <2> QED
    BY <2>2, <2>3
<1>3. \A q \in Retriers :
        retry'[q].pc \in {"sync", "lock", "handle", "park"} =>
            /\ retry'[q].consumer = retry[q].consumer /\ retry'[q].seq = retry[q].seq
            /\ retry'[q].pc = "sync" => retry[q].pc = "sync"
            /\ retry'[q].pc # "sync" => retry[q].pc \in {"lock", "handle", "park"}
  OBVIOUS
<1> QED
  BY <1>1, <1>2, <1>3, OnceStays

\* The event a run is at is ahead of its checkpoint, so it has no letter and nobody
\* retries it.
LEMMA SlotAhead ==
    ASSUME TypeOK, PumpInv, LettersBehind, AsyncOnce, NEW c \in Async, NEW s,
           slot[c].pc \in {"handle", "commit", "park"}, s = Head(slot[c].batch).seq
    PROVE  /\ s \in Seqs /\ s \in Nat /\ c \in Consumers /\ c \notin Sync
           /\ checkpoint[c] < s /\ letter[c][s] = "none"
           /\ \A r \in Retriers : retry[r].pc # "idle" => retry[r].consumer # c \/ retry[r].seq # s
           /\ slot[c].pc # "commit" =>
                effects[c][s] <= failures /\ \A z \in Seqs : ~Committing(c, z)
<1>1. slot[c].batch \in Seq(Read) /\ slot[c].batch # <<>> /\ c \in Consumers
  BY TypesAre DEF RunTypes, SlotStates, PumpInv, SlotOK, Consumers
<1>2. Head(slot[c].batch) \in Read /\ Head(slot[c].batch) = slot[c].batch[1]
      /\ Len(slot[c].batch) \in Nat /\ Len(slot[c].batch) > 0
  BY <1>1
<1>3. s \in Seqs /\ s \in Nat
  BY <1>2 DEF Read, Seqs
<1>4. Follows(slot[c].batch, Reached(c)) /\ checkpoint[c] <= Reached(c)
  BY DEF PumpInv, SlotOK
<1>5. Reached(c) \in Nat /\ checkpoint[c] \in Nat
  BY <1>1, TypesAre, Numbers DEF Reached, RunTypes, SlotStates
<1>6. s = Reached(c) + 1
  BY <1>2, <1>4 DEF Follows
<1>7. checkpoint[c] < s
  BY <1>3, <1>4, <1>5, <1>6
<1>8. letter[c][s] = "none"
  BY <1>1, <1>3, <1>5, <1>7 DEF LettersBehind
<1>9. \A r \in Retriers : retry[r].pc # "idle" => retry[r].consumer # c \/ retry[r].seq # s
  BY <1>3, <1>5, <1>7 DEF LettersBehind
<1>10. slot[c].pc # "commit" => effects[c][s] <= failures /\ \A z \in Seqs : ~Committing(c, z)
  BY <1>3, <1>5, <1>7 DEF AsyncOnce, Committing
<1> QED
  BY <1>1, <1>3, <1>7, <1>8, <1>9, <1>10, ConsumersDiffer

\* A sync consumer's transaction counts the event it passes at most once.
LEMMA OnceSyncDeliver ==
    ASSUME TypeOK, TypeOK', Grows, PumpInv, LettersBehind, SyncOnce, AsyncOnce,
           NEW result \in HandlerResults, SyncDeliver(result)
    PROVE  SyncOnce' /\ AsyncOnce'
<1>1. /\ syncRun.pc = "deliver" /\ UNCHANGED slot /\ UNCHANGED retry /\ UNCHANGED failures
  BY DEF SyncDeliver
<1>2. PICK c \in Sync : c = SyncOrder[syncRun.at]
  BY TypesAre, IdleTypes DEF RunTypes, SyncStates
<1>3. PICK s : s = Head(syncRun.batch).seq
  OBVIOUS
<1>4. /\ s \in Seqs /\ s \in Nat /\ c \in Consumers /\ c \notin Async
      /\ checkpoint[c] \in Nat /\ s = checkpoint[c] + 1
  <2>1. syncRun.batch \in Seq(Read) /\ syncRun.batch # <<>> /\ Follows(syncRun.batch, checkpoint[c])
    BY <1>1, <1>2, TypesAre DEF RunTypes, SyncStates, PumpInv, SyncRunOK
  <2>2. /\ Head(syncRun.batch) \in Read /\ Head(syncRun.batch) = syncRun.batch[1]
        /\ Len(syncRun.batch) \in Nat /\ Len(syncRun.batch) > 0
    BY <2>1
  <2>3. s \in Seqs /\ s \in Nat
    BY <1>3, <2>2 DEF Read, Seqs
  <2>4. s = checkpoint[c] + 1
    BY <1>3, <2>1, <2>2 DEF Follows
  <2> QED
    BY <2>3, <2>4, Numbers, ConsumersDiffer DEF Consumers
<1>5. effects[c][s] = 0 /\ letter[c][s] = "none"
  BY <1>4 DEF SyncOnce, LettersBehind
<1>6. \A r \in Retriers : retry[r].pc # "idle" => retry[r].consumer # c \/ retry[r].seq # s
  BY <1>4 DEF LettersBehind
<1>7. SetCheckpoint(c, s) => checkpoint'[c] = s
  BY <1>4, TypesAre DEF SetCheckpoint, DbTypes
<1>8. CASE UNCHANGED effects /\ UNCHANGED letter
  BY <1>1, <1>8, Counts, OnceSlots
<1>9. ASSUME SetCheckpoint(c, s),
             \/ Effect(c, s) /\ UNCHANGED letter
             \/ UNCHANGED effects /\ SetLetter(c, s, "pending")
      PROVE  SyncOnce' /\ AsyncOnce'
  <2>1. s <= checkpoint'[c]
    BY <1>4, <1>7, <1>9
  <2>2. \A d \in Async, z \in Seqs :
            /\ Committing(d, z) => Committing(d, z)'
            /\ Resolving(d, z) => Resolving(d, z)'
    BY <1>1 DEF Committing, Resolving
  <2>3. \A r \in Retriers :
            retry'[r].pc \in {"sync", "lock", "handle", "park"} =>
                /\ retry'[r] = retry[r]
                /\ retry'[r].consumer # c \/ retry'[r].seq # s
    BY <1>1, <1>6
  <2>4. UNCHANGED effects \/ letter'[c][s] # "pending"
    BY <1>5, <1>9
  <2>5. \/ Effect(c, s) /\ (letter' = letter \/ SetLetter(c, s, "retried"))
        \/ UNCHANGED effects /\ SetLetter(c, s, "pending")
    BY <1>9
  <2> QED
    BY <1>1, <1>4, <1>5, <2>1, <2>2, <2>3, <2>4, <2>5, OnceWrites
<1> QED
  BY <1>2, <1>3, <1>8, <1>9 DEF SyncDeliver, Park

\* An async handler succeeds on an event nothing is known to have handled.
LEMMA OnceSlotHandle ==
    ASSUME TypeOK, TypeOK', Grows, PumpInv, LettersBehind, SyncOnce, AsyncOnce,
           NEW c \in Async, NEW result \in HandlerResults, SlotHandle(c, result)
    PROVE  SyncOnce' /\ AsyncOnce'
<1>1. slot[c].pc = "handle" /\ UNCHANGED letter /\ UNCHANGED retry /\ UNCHANGED failures
  BY DEF SlotHandle
<1>2. PICK s : s = Head(slot[c].batch).seq
  OBVIOUS
<1>3. /\ s \in Seqs /\ s \in Nat /\ c \in Consumers /\ c \notin Sync
      /\ checkpoint[c] < s /\ letter[c][s] = "none"
      /\ \A r \in Retriers : retry[r].pc # "idle" => retry[r].consumer # c \/ retry[r].seq # s
      /\ effects[c][s] <= failures /\ \A z \in Seqs : ~Committing(c, z)
  BY <1>1, <1>2, SlotAhead
<1>4. slot \in [Async -> SlotStates]
  BY TypesAre DEF RunTypes
<1>5. CASE UNCHANGED effects
  <2>1. \A d \in Async : d # c => slot'[d] = slot[d]
    BY <1>4 DEF SlotHandle, SlotDefer, SlotEnd
  <2> QED
    BY <1>1, <1>5, <2>1, Counts, OnceSlots
<1>6. CASE Effect(c, s) /\ slot' = [slot EXCEPT ![c].pc = "commit"]
  <2>1. /\ slot'[c].pc = "commit" /\ slot'[c].batch = slot[c].batch
        /\ \A d \in Async : d # c => slot'[d] = slot[d]
    BY <1>4, <1>6 DEF SlotStates
  <2>2. Committing(c, s)'
    BY <1>2, <2>1 DEF Committing
  <2>3. \A d \in Async, z \in Seqs :
            d # c \/ z # s =>
                /\ Committing(d, z) => Committing(d, z)'
                /\ Resolving(d, z) => Resolving(d, z)'
    BY <1>1, <1>3, <2>1 DEF Committing, Resolving
  <2>4. \A r \in Retriers :
            retry'[r].pc \in {"sync", "lock", "handle", "park"} =>
                /\ retry'[r] = retry[r]
                /\ retry'[r].consumer # c \/ retry'[r].seq # s
    BY <1>1, <1>3
  <2>5. c \in Async => /\ effects[c][s] <= failures
                       /\ \/ UNCHANGED effects
                          \/ /\ s > checkpoint'[c] => Committing(c, s)'
                             /\ letter'[c][s] = "pending" => Resolving(c, s)'
    BY <1>1, <1>3, <2>2
  <2>6. \/ Effect(c, s) /\ (letter' = letter \/ SetLetter(c, s, "retried"))
        \/ UNCHANGED effects /\ SetLetter(c, s, "pending")
    BY <1>1, <1>6
  <2> QED
    BY <1>1, <1>3, <2>3, <2>4, <2>5, <2>6, OnceWrites
<1> QED
  BY <1>2, <1>5, <1>6 DEF SlotHandle

\* The transaction after an async handler records its success, or parks the event.
LEMMA OnceSlotCommit ==
    ASSUME TypeOK, TypeOK', Grows, PumpInv, LettersBehind, SyncOnce, AsyncOnce,
           NEW c \in Async, SlotCommit(c)
    PROVE  SyncOnce' /\ AsyncOnce'
<1>1. /\ slot[c].pc \in {"commit", "park"}
      /\ UNCHANGED effects /\ UNCHANGED retry /\ UNCHANGED failures
  BY DEF SlotCommit, boundVars
<1>2. PICK s : s = Head(slot[c].batch).seq
  OBVIOUS
<1>3. /\ s \in Seqs /\ s \in Nat /\ c \in Consumers /\ c \notin Sync
      /\ \A r \in Retriers : retry[r].pc # "idle" => retry[r].consumer # c \/ retry[r].seq # s
      /\ slot[c].pc # "commit" => effects[c][s] <= failures /\ \A z \in Seqs : ~Committing(c, z)
  BY <1>1, <1>2, SlotAhead
<1>4. /\ \A d \in Async : d # c => slot'[d] = slot[d]
      /\ checkpoint'[c] = s
  <2>1. slot \in [Async -> SlotStates] /\ checkpoint \in [Consumers -> 0..MaxEvents]
    BY TypesAre DEF RunTypes, DbTypes
  <2> QED
    BY <1>2, <1>3, <2>1 DEF SlotCommit, SlotAdvance, SetCheckpoint
<1>5. CASE slot[c].pc = "commit"
  <2>1. UNCHANGED letter
    BY <1>5 DEF SlotCommit
  <2> QED
    BY <1>1, <1>2, <1>4, <2>1, Counts, OnceSlots
<1>6. CASE slot[c].pc = "park"
  <2>1. UNCHANGED effects /\ SetLetter(c, s, "pending")
    BY <1>1, <1>2, <1>6 DEF SlotCommit, Park
  <2>2. \A d \in Async, z \in Seqs :
            d # c \/ z # s =>
                /\ Committing(d, z) => Committing(d, z)'
                /\ Resolving(d, z) => Resolving(d, z)'
    BY <1>1, <1>3, <1>4, <1>6 DEF Committing, Resolving
  <2>3. \A r \in Retriers :
            retry'[r].pc \in {"sync", "lock", "handle", "park"} =>
                /\ retry'[r] = retry[r]
                /\ retry'[r].consumer # c \/ retry'[r].seq # s
    BY <1>1, <1>3
  <2>4. c \in Async => /\ effects[c][s] <= failures
                       /\ \/ UNCHANGED effects
                          \/ /\ s > checkpoint'[c] => Committing(c, s)'
                             /\ letter'[c][s] = "pending" => Resolving(c, s)'
    BY <1>3, <1>6, <2>1
  <2>5. \/ Effect(c, s) /\ (letter' = letter \/ SetLetter(c, s, "retried"))
        \/ UNCHANGED effects /\ SetLetter(c, s, "pending")
    BY <2>1
  <2> QED
    BY <1>1, <1>3, <2>2, <2>3, <2>4, <2>5, OnceWrites
<1> QED
  BY <1>1, <1>5, <1>6

\* The only retry: no other is in the states that count.
LEMMA OnceRetryCheck ==
    ASSUME TypeOK, TypeOK', Grows, LettersBehind, SyncOnce, AsyncOnce, OneRetrier,
           NEW r \in Retriers, NEW c \in Consumers, NEW s \in Seqs, RetryCheck(r, c, s)
    PROVE  SyncOnce' /\ AsyncOnce'
<1>1. /\ retry[r].pc = "idle" /\ letter[c][s] = "pending"
      /\ UNCHANGED letter /\ UNCHANGED effects /\ UNCHANGED checkpoint /\ UNCHANGED slot
      /\ UNCHANGED failures
  BY DEF RetryCheck, dbVars, boundVars
<1>2. /\ retry'[r].consumer = c /\ retry'[r].seq = s
      /\ retry'[r].pc = IF c \in Async THEN "lock" ELSE "sync"
  BY TypesAre DEF RetryCheck, RunTypes
<1>3. \A q \in Retriers : q = r
  BY DEF OneRetrier
<1>4. \A d \in Async, z \in Seqs : ~Resolving(d, z)
  BY <1>1, <1>3 DEF Resolving
<1>5. SyncOnce'
  <2>1. \A d \in Sync, z \in Seqs :
            /\ z > checkpoint'[d] => effects'[d][z] = 0
            /\ letter'[d][z] = "pending" => effects'[d][z] = 0
            /\ effects'[d][z] <= 1
    BY <1>1 DEF SyncOnce
  <2>2. c \notin Async => effects[c][s] = 0
    BY <1>1 DEF SyncOnce, Consumers
  <2>3. \A q \in Retriers :
            retry'[q].pc = "sync" => effects'[retry'[q].consumer][retry'[q].seq] = 0
    BY <1>1, <1>2, <1>3, <2>2
  <2> QED
    BY <2>1, <2>3 DEF SyncOnce
<1>6. AsyncOnce'
  <2>1. \A d \in Async, z \in Seqs :
            /\ z > checkpoint'[d] /\ ~Committing(d, z)' => effects'[d][z] <= failures'
            /\ letter'[d][z] = "pending" => effects'[d][z] <= failures'
            /\ effects'[d][z] <= 1 + failures'
    BY <1>1, <1>4 DEF AsyncOnce, Committing
  <2>2. c \in Async => effects[c][s] <= failures
    BY <1>1, <1>4 DEF AsyncOnce
  <2>3. \A q \in Retriers :
            retry'[q].pc \in {"lock", "handle", "park"} =>
                effects'[retry'[q].consumer][retry'[q].seq] <= failures'
    BY <1>1, <1>2, <1>3, <2>2
  <2> QED
    BY <2>1, <2>3 DEF AsyncOnce
<1> QED
  BY <1>5, <1>6

\* The retry whose letter is written ends, or its handler succeeds.
LEMMA OnceRetryWrites ==
    ASSUME TypeOK, TypeOK', Grows, LettersBehind, SyncOnce, AsyncOnce, OneRetrier,
           NEW r \in Retriers, NEW c, NEW s, c = retry[r].consumer, s = retry[r].seq,
           retry[r].pc \notin {"idle", "resolve"},
           \/ Effect(c, s) /\ (letter' = letter \/ SetLetter(c, s, "retried"))
           \/ UNCHANGED effects /\ SetLetter(c, s, "pending"),
           UNCHANGED failures, UNCHANGED slot, UNCHANGED checkpoint,
           retry'[r].pc \in {"idle", "resolve"},
           c \in Sync => effects[c][s] = 0 /\ (UNCHANGED effects \/ letter'[c][s] = "retried"),
           c \in Async => effects[c][s] <= failures /\ (UNCHANGED effects \/ Resolving(c, s)')
    PROVE  SyncOnce' /\ AsyncOnce'
<1>1. /\ c \in Consumers /\ s \in Seqs /\ s \in Nat /\ checkpoint[c] \in Nat
      /\ s <= checkpoint[c]
  BY Counts, Numbers DEF LettersBehind
<1>2. \A q \in Retriers : q = r
  BY DEF OneRetrier
<1>3. \A d \in Async, z \in Seqs :
        d # c \/ z # s =>
            /\ Committing(d, z) => Committing(d, z)'
            /\ Resolving(d, z) => Resolving(d, z)'
  BY <1>2 DEF Committing, Resolving
<1>4. \A q \in Retriers :
        retry'[q].pc \in {"sync", "lock", "handle", "park"} =>
            /\ retry'[q] = retry[q]
            /\ retry'[q].consumer # c \/ retry'[q].seq # s
  BY <1>2
<1>5. c \in Sync => effects[c][s] = 0 /\ s <= checkpoint'[c]
                    /\ (UNCHANGED effects \/ letter'[c][s] # "pending")
  BY <1>1
<1>6. c \in Async => /\ effects[c][s] <= failures
                     /\ \/ UNCHANGED effects
                        \/ /\ s > checkpoint'[c] => Committing(c, s)'
                           /\ letter'[c][s] = "pending" => Resolving(c, s)'
  BY <1>1
<1> QED
  BY <1>1, <1>3, <1>4, <1>5, <1>6, OnceWrites

\* A retry's own transaction, or its handler and what it does with the letter.
LEMMA OnceRetryStep ==
    ASSUME TypeOK, TypeOK', Grows, LettersBehind, LockHeld, SyncOnce, AsyncOnce, OneRetrier,
           NEW r \in Retriers, RetryStep(r)
    PROVE  SyncOnce' /\ AsyncOnce'
<1>1. PICK c : c = retry[r].consumer
  OBVIOUS
<1>2. PICK s : s = retry[r].seq
  OBVIOUS
<1>3. /\ c \in Consumers /\ s \in Seqs /\ failures \in Nat /\ retry \in [Retriers -> RetryStates]
      /\ letter \in [Consumers -> [Seqs -> LetterStates]]
  BY <1>1, <1>2, Counts, TypesAre DEF RunTypes, DbTypes
<1>4. ASSUME NEW result \in HandlerResults, RetrySync(r, result)
      PROVE  SyncOnce' /\ AsyncOnce'
  <2>1. /\ retry[r].pc = "sync" /\ UNCHANGED slot /\ UNCHANGED checkpoint /\ UNCHANGED failures
        /\ retry'[r].pc = "idle" /\ \A q \in Retriers : q # r => retry'[q] = retry[q]
    BY <1>3, <1>4 DEF RetrySync, boundVars, IdleRetry
  <2>2. c \in Sync /\ c \notin Async /\ effects[c][s] = 0
    BY <1>1, <1>2, <2>1, ConsumersDiffer DEF LettersBehind, SyncOnce
  <2>3. CASE UNCHANGED letter /\ UNCHANGED effects
    BY <1>3, <2>1, <2>3, OnceRetries
  <2>4. CASE Effect(c, s) /\ SetLetter(c, s, "retried")
    <3>1. letter'[c][s] = "retried"
      BY <1>3, <2>4 DEF SetLetter
    <3> QED
      BY <1>1, <1>2, <2>1, <2>2, <2>4, <3>1, OnceRetryWrites
  <2>5. CASE Park(c, s) /\ UNCHANGED effects
    <3>1. SetLetter(c, s, "pending")
      BY <2>5 DEF Park
    <3> QED
      BY <1>1, <1>2, <2>1, <2>2, <2>5, <3>1, OnceRetryWrites
  <2> QED
    BY <1>1, <1>2, <1>4, <2>3, <2>4, <2>5 DEF RetrySync
<1>5. ASSUME NEW result \in HandlerResults, RetryHandle(r, result)
      PROVE  SyncOnce' /\ AsyncOnce'
  <2>1. /\ retry[r].pc = "handle" /\ UNCHANGED slot /\ UNCHANGED letter
        /\ UNCHANGED checkpoint /\ UNCHANGED failures
        /\ \A q \in Retriers : q # r => retry'[q] = retry[q]
    BY <1>3, <1>5 DEF RetryHandle, boundVars
  <2>2. c \in Async /\ c \notin Sync /\ effects[c][s] <= failures
    BY <1>1, <1>2, <2>1, ConsumersDiffer DEF LockHeld, AsyncOnce
  <2>3. CASE Effect(c, s) /\ retry' = [retry EXCEPT ![r].pc = "resolve"]
    <3>1. retry'[r].pc = "resolve" /\ retry'[r].consumer = c /\ retry'[r].seq = s
      BY <1>1, <1>2, <1>3, <2>3 DEF RetryStates
    <3>2. Resolving(c, s)'
      BY <3>1 DEF Resolving
    <3> QED
      BY <1>1, <1>2, <2>1, <2>2, <2>3, <3>1, <3>2, OnceRetryWrites
  <2>4. CASE UNCHANGED effects /\ retry' = [retry EXCEPT ![r].pc = "park"]
    <3>1. /\ retry'[r].pc = "park"
          /\ retry'[r].consumer = retry[r].consumer /\ retry'[r].seq = retry[r].seq
      BY <1>3, <2>4 DEF RetryStates
    <3> QED
      BY <1>3, <2>1, <2>4, <3>1, OnceRetries
  <2> QED
    BY <1>1, <1>2, <1>5, <2>3, <2>4 DEF RetryHandle
<1>6. CASE RetryLock(r)
  <2>1. /\ retry[r].pc = "lock" /\ UNCHANGED slot /\ UNCHANGED letter
        /\ UNCHANGED effects /\ UNCHANGED failures
        /\ \A q \in Retriers : q # r => retry'[q] = retry[q]
    BY <1>3, <1>6 DEF RetryLock, RetryEnd, dbVars, boundVars
  <2>2. \/ retry'[r].pc = "idle"
        \/ /\ retry'[r].consumer = retry[r].consumer /\ retry'[r].seq = retry[r].seq
           /\ retry'[r].pc = "handle"
    BY <1>3, <1>6 DEF RetryLock, RetryEnd, RetryStates, IdleRetry
  <2> QED
    BY <1>3, <2>1, <2>2, OnceRetries
<1>7. CASE RetryResolve(r)
  <2>1. /\ retry[r].pc \in {"resolve", "park"} /\ UNCHANGED slot /\ UNCHANGED checkpoint
        /\ UNCHANGED effects /\ UNCHANGED failures
        /\ retry'[r].pc = "idle" /\ \A q \in Retriers : q # r => retry'[q] = retry[q]
    BY <1>3, <1>7 DEF RetryResolve, RetryEnd, IdleRetry, boundVars
  <2>2. CASE retry[r].pc = "resolve"
    <3>1. SetLetter(c, s, "retried")
      BY <1>1, <1>2, <1>7, <2>2 DEF RetryResolve
    <3>2. /\ letter'[c][s] = "retried"
          /\ \A d \in Consumers, z \in Seqs :
                letter'[d][z] = "pending" => letter[d][z] = "pending"
      BY <1>3, <3>1 DEF SetLetter
    <3> QED
      BY <1>1, <1>2, <1>3, <2>1, <3>2, OnceRetries
  <2>3. CASE retry[r].pc = "park"
    <3>1. SetLetter(c, s, "pending")
      BY <1>1, <1>2, <1>7, <2>3 DEF RetryResolve, Park
    <3>2. c \in Async /\ c \notin Sync /\ effects[c][s] <= failures
      BY <1>1, <1>2, <2>3, ConsumersDiffer DEF LockHeld, AsyncOnce
    <3> QED
      BY <1>1, <1>2, <2>1, <2>3, <3>1, <3>2, OnceRetryWrites
  <2> QED
    BY <2>1, <2>2, <2>3
<1> QED
  BY <1>4, <1>5, <1>6, <1>7 DEF RetryStep

LEMMA OnceInductive ==
    ASSUME TypeOK, PumpInv, LettersBehind, LockHeld, SyncOnce, AsyncOnce, OneRetrier, [Next]_vars
    PROVE  SyncOnce' /\ AsyncOnce'
<1>0. TypeOK' /\ Grows /\ failures \in Nat
  BY PumpInductive, TypesAre DEF PumpKept, CountTypes
<1>1. ASSUME UNCHANGED effects, UNCHANGED slot, UNCHANGED retry, UNCHANGED failures,
             \A c \in Consumers, s \in Seqs :
                letter'[c][s] = "pending" => letter[c][s] = "pending"
      PROVE  SyncOnce' /\ AsyncOnce'
  BY <1>0, <1>1, OnceSlots
<1>2. CASE \/ \E t \in Types : AppendEvent(t)
           \/ SyncRead
           \/ \E s \in Seqs : SweepExpire(s)
           \/ \E names \in Settles : SettleCall(names)
           \/ SettleStep
           \/ SettleTimeout
           \/ UNCHANGED vars
  BY <1>1, <1>2 DEF AppendEvent, SyncRead, SweepExpire, SettleCall, SettleStep, SettlePlan,
                    SettleJoin, SettleTimeout, pumpVars, dbVars, boundVars, vars
<1>3. CASE \E result \in HandlerResults : SyncDeliver(result)
  BY <1>0, <1>3, OnceSyncDeliver
<1>4. CASE SyncFails
  <2>1. /\ UNCHANGED letter /\ UNCHANGED effects /\ UNCHANGED slot /\ UNCHANGED retry
        /\ failures <= failures'
    BY <1>0, <1>4 DEF SyncFails, dbVars
  <2> QED
    BY <1>0, <2>1, OnceSlots
<1>5. ASSUME NEW c \in Async, NEW by \in {"loop", "settle"}, SlotStart(c, by)
      PROVE  SyncOnce' /\ AsyncOnce'
  <2>1. slot[c].pc = "idle"
    BY <1>5 DEF SlotStart, LockHeld
  <2>2. \A d \in Async : slot'[d] = slot[d] \/ slot[d].pc # "commit"
    BY <1>5, <2>1, TypesAre DEF SlotStart, RunTypes
  <2>3. /\ UNCHANGED letter /\ UNCHANGED effects /\ UNCHANGED retry /\ UNCHANGED failures
    BY <1>5 DEF SlotStart, dbVars, boundVars
  <2> QED
    BY <1>0, <2>2, <2>3, OnceSlots
<1>6. ASSUME NEW c \in Async, SlotRead(c) \/ SlotNext(c)
      PROVE  SyncOnce' /\ AsyncOnce'
  <2>1. slot[c].pc # "commit" /\ \A d \in Async : d # c => slot'[d] = slot[d]
    BY <1>6, TypesAre DEF SlotRead, SlotNext, SlotDefer, SlotEnd, RunTypes
  <2>2. /\ UNCHANGED letter /\ UNCHANGED effects /\ UNCHANGED retry /\ UNCHANGED failures
    BY <1>6 DEF SlotRead, SlotNext, dbVars, boundVars
  <2> QED
    BY <1>0, <2>1, <2>2, OnceSlots
<1>7. ASSUME NEW c \in Async, SlotFails(c)
      PROVE  SyncOnce' /\ AsyncOnce'
  <2>1. /\ UNCHANGED letter /\ UNCHANGED effects /\ UNCHANGED retry
        /\ failures < failures' /\ failures <= failures'
    BY <1>0, <1>7 DEF SlotFails, dbVars
  <2> QED
    BY <1>0, <2>1, OnceSlots
<1>8. CASE \E c \in Async : (\E result \in HandlerResults : SlotHandle(c, result)) \/ SlotCommit(c)
  BY <1>0, <1>8, OnceSlotHandle, OnceSlotCommit
<1>9. CASE \E r \in Retriers : (\E c \in Consumers, s \in Seqs : RetryCheck(r, c, s)) \/ RetryStep(r)
  BY <1>0, <1>9, OnceRetryCheck, OnceRetryStep
<1>10. ASSUME NEW r \in Retriers, RetryFails(r)
       PROVE  SyncOnce' /\ AsyncOnce'
  <2>1. /\ UNCHANGED letter /\ UNCHANGED effects /\ UNCHANGED slot
        /\ failures < failures' /\ failures <= failures'
    BY <1>0, <1>10 DEF RetryFails, dbVars
  <2>2. retry'[r].pc = "idle" /\ \A q \in Retriers : q # r => retry'[q] = retry[q]
    BY <1>10, TypesAre DEF RetryFails, RetryEnd, RunTypes, IdleRetry
  <2> QED
    BY <1>0, <2>1, <2>2, OnceRetries
<1>11. ASSUME NEW c \in Consumers, NEW s \in Seqs, Discard(c, s)
       PROVE  SyncOnce' /\ AsyncOnce'
  <2>1. /\ UNCHANGED effects /\ UNCHANGED slot /\ UNCHANGED retry /\ UNCHANGED failures
    BY <1>11 DEF Discard, pumpVars
  <2>2. \A d \in Consumers, z \in Seqs : letter'[d][z] = "pending" => letter[d][z] = "pending"
    BY <1>11, TypesAre DEF Discard, SetLetter, DbTypes
  <2> QED
    BY <1>1, <2>1, <2>2
<1>12. CASE SweepLetters
  BY <1>1, <1>12 DEF SweepLetters, boundVars
<1>13. CASE Crash
  <2>1. /\ UNCHANGED letter /\ UNCHANGED effects
        /\ failures < failures' /\ failures <= failures'
        /\ \A r \in Retriers : retry'[r].pc = "idle"
    BY <1>0, <1>13 DEF Crash, dbVars, IdleRetry
  <2> QED
    BY <1>0, <2>1, OnceStays
<1> QED
  BY <1>2, <1>3, <1>4, <1>5, <1>6, <1>7, <1>8, <1>9, <1>10, <1>11, <1>12, <1>13
     DEF Next, SyncStep, SlotStep

\* With one retry at a time, the counts of successes are as above all the time.
LEMMA OnceInvariant ==
    ASSUME OneRetrier
    PROVE  Spec => [](TypeOK /\ PumpInv /\ LettersBehind /\ LockHeld /\ SyncOnce /\ AsyncOnce)
<1>1. Init => LettersBehind /\ LockHeld /\ SyncOnce /\ AsyncOnce
  <2> SUFFICES ASSUME Init
               PROVE  LettersBehind /\ LockHeld /\ SyncOnce /\ AsyncOnce
    OBVIOUS
  <2>1. /\ \A c \in Consumers, s \in Seqs : letter[c][s] = "none" /\ effects[c][s] = 0
        /\ \A r \in Retriers : retry[r].pc = "idle"
        /\ \A c \in Async : slot[c].pc = "idle"
        /\ failures = 0 /\ Sync \subseteq Consumers /\ Async \subseteq Consumers
    BY DEF Init, IdleRetry, IdleSlot, Consumers
  <2> QED
    BY <2>1 DEF LettersBehind, LockHeld, SyncOnce, AsyncOnce
<1>2. TypeOK /\ PumpInv /\ LettersBehind /\ LockHeld /\ SyncOnce /\ AsyncOnce /\ [Next]_vars
        => LettersBehind' /\ LockHeld' /\ SyncOnce' /\ AsyncOnce'
  BY LettersBehindInductive, LockHeldInductive, OnceInductive
<1> QED
  BY <1>1, <1>2, PumpInvariant, PTL DEF Spec

\* event_pump.rs run_sync and retry_dead_letter: a sync handler's writes and the
\* checkpoint commit together, so nothing ahead of the checkpoint has an effect or
\* a letter, and a pending letter's event has left no effect.  With two retries of
\* one letter at a time the last part fails: both see it pending.
THEOREM SyncWritesMatch == OneRetrier => (Spec => []WritesMatchPosition)
<1> SUFFICES ASSUME OneRetrier
             PROVE  Spec => []WritesMatchPosition
  OBVIOUS
<1>1. TypeOK /\ LettersBehind /\ SyncOnce => WritesMatchPosition
  <2> SUFFICES ASSUME TypeOK, LettersBehind, SyncOnce, NEW c \in Sync, NEW s \in Seqs
               PROVE  /\ s > checkpoint[c] => effects[c][s] = 0 /\ letter[c][s] = "none"
                      /\ letter[c][s] = "pending" => effects[c][s] = 0
    BY DEF WritesMatchPosition
  <2>1. c \in Consumers /\ checkpoint[c] \in Nat /\ s \in Nat
    BY Numbers DEF Consumers, Seqs
  <2> QED
    BY <2>1 DEF LettersBehind, SyncOnce
<1> QED
  BY <1>1, OnceInvariant, PTL

\* event_pump.rs: with one retry at a time, a sync consumer's writes for an event
\* commit once, and an async handler succeeds again on an event only after a crash
\* or a failed run lost the success before it was recorded.
THEOREM PumpHandlesOnce == OneRetrier => (Spec => []HandledOnce)
<1> SUFFICES ASSUME OneRetrier
             PROVE  Spec => []HandledOnce
  OBVIOUS
<1>1. TypeOK /\ SyncOnce /\ AsyncOnce => HandledOnce
  BY DEF SyncOnce, AsyncOnce, HandledOnce, Consumers
<1> QED
  BY <1>1, OnceInvariant, PTL
=============================================================================
