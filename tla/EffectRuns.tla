----------------------------- MODULE EffectRuns -----------------------------
(***************************************************************************)
(* The reactions of one extension effect to the events of the log          *)
(* (oxplow-app/src/effect_triggers.rs, over oxplow-db's                    *)
(* effect_run_store.rs and the command bus).  Three runners attempt them   *)
(* side by side: the event pump (live), a person (retry, backfill) and the *)
(* timer that sends a failed attempt again by itself (auto).  Each reads a *)
(* reaction's latest attempt, composes, and then either runs inside one    *)
(* transaction or claims its attempt, sends its steps outside oxplow and   *)
(* records how they went.  oxplow may stop at any of these points.         *)
(*                                                                         *)
(* Events are their log positions.  The steps of an attempt go to one      *)
(* provider, which keeps idempotent_writes or not, as configured.  Time is *)
(* left out: a scheduled retry may come due, or be too late, at any point. *)
(***************************************************************************)
EXTENDS Integers, Sequences, FiniteSets

CONSTANTS
    LastEvent,      \* the events are 1..LastEvent
    Compositions,   \* what its script may compose
    Inside,         \* those of them that stay inside oxplow's transaction
    MaxRetries,     \* bound: attempts a person makes at one reaction
    MaxFaults       \* bound: how often oxplow stops, a run is turned away Busy or
                    \* the provider's promise changes

ASSUME EffectsAssumption ==
    /\ LastEvent \in Nat
    /\ Inside \subseteq Compositions
    /\ MaxRetries \in Nat /\ MaxFaults \in Nat

Events == 1..LastEvent
RetryDelays == 2            \* how many retries RETRY_DELAYS has delays for
FailuresToDisable == 3

Pump == "pump"
Person == "person"
Timer == "auto"
Runners == {Pump, Person, Timer}
Nothing == "nothing"        \* no composition

Origins == {"live", "retry", "backfill", "auto"}
RunStates == {"started", "ok", "skipped", "proposed", "failed"}
Attempts == [origin : Origins, state : RunStates,
             retry : BOOLEAN,       \* retry_at is set
             resend : Compositions \cup {Nothing}]
IdleRun == [pc |-> "idle", event |-> 0, origin |-> "live", attempt |-> 0,
            what |-> Nothing, safe |-> FALSE, passing |-> FALSE]

VARIABLES
    startAfter,     \* the log's head when the effect started (effect_state)
    reactions,      \* each event's attempts, oldest first (effect_run)
    seen,           \* the pump's checkpoint
    runner,         \* what each runner is doing
    health,         \* the effect's contribution_health row
    idempotent,     \* the provider keeps idempotent_writes
    claims,         \* history: the claims made, each may have sent its steps
    faults          \* how many there were

effectVars == <<startAfter, reactions, seen, runner, health, idempotent, claims, faults>>
\* What most actions leave alone: the position is set once, as the effect starts.
counters == <<startAfter, faults>>
Faults == faults < MaxFaults /\ faults' = faults + 1

-----------------------------------------------------------------------------
(* The rows of effect_run.                                                 *)

Latest(e) == Len(reactions[e])
LatestIs(e, state) == reactions[e] # <<>> /\ reactions[e][Latest(e)].state = state

\* The latest attempts in a row that were automatic, of the attempts s.
AutomaticInARow(s) ==
    Cardinality({i \in DOMAIN s : \A j \in i..Len(s) : s[j].origin = "auto"})

\* finish_tx: attempt n ends as state, whether it was claimed or not.
MayFinish(s, n) == n > Len(s) \/ s[n].state = "started"
Finished(s, n, origin, state) ==
    IF n > Len(s)
    THEN Append(s, [origin |-> origin, state |-> state, retry |-> FALSE, resend |-> Nothing])
    ELSE IF s[n].state = "started"
    THEN [s EXCEPT ![n].state = state, ![n].resend = Nothing]
    ELSE s

\* claim_tx: the attempt's row, and no composition kept by those before it.
Claimed(s, origin, resend) ==
    Append([i \in DOMAIN s |-> [s[i] EXCEPT !.resend = Nothing]],
           [origin |-> origin, state |-> "started", retry |-> FALSE, resend |-> resend])

\* schedule_retry_tx, here and in the store: attempt n is sent again by itself,
\* unless its reaction has had its automatic retries.
RetriesLeft(s) == AutomaticInARow(s) < RetryDelays
Scheduled(s, n, what) ==
    IF s[n].state = "failed"
    THEN [s EXCEPT ![n].retry = TRUE, ![n].resend = what]
    ELSE s

\* drop_retry_tx.
Dropped(s, n) == [s EXCEPT ![n].retry = FALSE, ![n].resend = Nothing]

\* The attempt found started is recorded failed and, when its claim kept what
\* it composed, is sent again by itself.
CutOff(s) ==
    LET n == Len(s)
        failed == Finished(s, n, s[n].origin, "failed")
    IN  IF s[n].resend # Nothing /\ RetriesLeft(failed)
        THEN Scheduled(failed, n, s[n].resend)
        ELSE failed

-----------------------------------------------------------------------------
(* The effect's health, as count counts it.                                *)

Succeeded(h) == [h EXCEPT !.failures = 0]
FailedTimes(h, times) ==
    LET n == IF h.failures + times < FailuresToDisable
             THEN h.failures + times ELSE FailuresToDisable
    IN  [failures |-> n, disabled |-> h.disabled \/ n = FailuresToDisable]
Failed(h) == FailedTimes(h, 1)
CutOffCount(h, s) == IF CutOff(s)[Len(s)].retry THEN h ELSE Failed(h)

\* A person enables it again.
Enable ==
    /\ health.disabled
    /\ health' = [failures |-> 0, disabled |-> FALSE]
    /\ UNCHANGED <<reactions, seen, runner, idempotent, claims, counters>>

-----------------------------------------------------------------------------
(* How an attempt begins.                                                  *)

At(r, pc) == runner[r].pc = pc
Goes(r, pc) == runner' = [runner EXCEPT ![r].pc = pc]
Starts(r, e, origin, n, pc) ==
    runner' = [runner EXCEPT ![r] =
        [IdleRun EXCEPT !.pc = pc, !.event = e, !.origin = origin, !.attempt = n]]

\* The run returns: the pump moves on, unless it was turned away Busy.
Returns(r) ==
    /\ runner' = [runner EXCEPT ![r] = IdleRun]
    /\ seen' = IF r = Pump THEN seen + 1 ELSE seen

\* The pump delivers the next event: a first attempt, nothing for one that has
\* been attempted or is from before the effect started, and for a live attempt
\* left started, its end.
Delivers ==
    /\ At(Pump, "idle") /\ seen < LastEvent
    /\ LET e == seen + 1 IN
       \/ /\ ~health.disabled /\ reactions[e] = <<>> /\ e > startAfter
          /\ Starts(Pump, e, "live", 1, "compose")
          /\ UNCHANGED <<reactions, seen, health>>
       \/ /\ \/ health.disabled
             \/ reactions[e] = <<>> /\ e <= startAfter
             \/ reactions[e] # <<>> /\ ~(LatestIs(e, "started") /\ reactions[e][Latest(e)].origin = "live")
          /\ seen' = e
          /\ UNCHANGED <<reactions, runner, health>>
       \/ /\ ~health.disabled
          /\ LatestIs(e, "started") /\ reactions[e][Latest(e)].origin = "live"
          /\ reactions' = [reactions EXCEPT ![e] = CutOff(@)]
          /\ health' = CutOffCount(health, reactions[e])
          /\ seen' = e
          /\ UNCHANGED runner
    /\ UNCHANGED <<idempotent, claims, counters>>

PersonsAttempts(e) ==
    Cardinality({i \in DOMAIN reactions[e] : reactions[e][i].origin = "retry"})

\* Mutant: a reaction that ended well is retried too.
RetriedByAnyEnded(e) ==
    /\ At(Person, "idle") /\ ~health.disabled
    /\ reactions[e] # <<>> /\ ~LatestIs(e, "started") /\ PersonsAttempts(e) < MaxRetries
    /\ Starts(Person, e, "retry", Latest(e) + 1, "compose")
    /\ UNCHANGED <<reactions, seen, health, idempotent, claims, counters>>

\* oxplow.effect.retry: the next attempt at a failed reaction.
RetriedBy(e) ==
    /\ At(Person, "idle") /\ ~health.disabled
    /\ LatestIs(e, "failed") /\ PersonsAttempts(e) < MaxRetries
    /\ Starts(Person, e, "retry", Latest(e) + 1, "compose")
    /\ UNCHANGED <<reactions, seen, health, idempotent, claims, counters>>

\* oxplow.effect.backfill, one event of it: one from before the effect started.
Backfills(e) ==
    /\ At(Person, "idle") /\ ~health.disabled
    /\ e <= startAfter /\ reactions[e] = <<>>
    /\ Starts(Person, e, "backfill", 1, "compose")
    /\ UNCHANGED <<reactions, seen, health, idempotent, claims, counters>>

\* auto_retry_due lists a failed latest attempt whose retry is due.
ListsDue(e) ==
    /\ At(Timer, "idle")
    /\ LatestIs(e, "failed") /\ reactions[e][Latest(e)].retry
    /\ Starts(Timer, e, "auto", Latest(e), "due")
    /\ UNCHANGED <<reactions, seen, health, idempotent, claims, counters>>

\* Mutant: a retry of an effect that is off is left as it is.
RetryOneLeft ==
    LET run == runner[Timer]
        e == run.event
    IN  /\ At(Timer, "due")
        /\ \/ /\ health.disabled
              /\ Returns(Timer)
              /\ UNCHANGED <<reactions, health>>
           \/ /\ ~health.disabled
              /\ LatestIs(e, "failed") /\ reactions[e][Latest(e)].retry
              /\ runner' = [runner EXCEPT ![Timer].pc = "resend",
                                ![Timer].attempt = Latest(e) + 1,
                                ![Timer].what = reactions[e][Latest(e)].resend]
              /\ UNCHANGED <<reactions, seen, health>>
           \/ /\ ~health.disabled
              /\ ~(LatestIs(e, "failed") /\ reactions[e][Latest(e)].retry)
              /\ Returns(Timer)
              /\ UNCHANGED <<reactions, health>>
        /\ UNCHANGED <<idempotent, claims, counters>>

\* retry_one: dropped when the effect is off or the retry too late; else the
\* latest attempt is read again, and is the one to send if still scheduled.
RetryOne ==
    LET run == runner[Timer]
        e == run.event
    IN  /\ At(Timer, "due")
        /\ \/ /\ reactions' = [reactions EXCEPT ![e] = Dropped(@, run.attempt)]
              /\ health' = Failed(health)
              /\ Returns(Timer)
           \/ /\ ~health.disabled
              /\ LatestIs(e, "failed") /\ reactions[e][Latest(e)].retry
              /\ runner' = [runner EXCEPT ![Timer].pc = "resend",
                                ![Timer].attempt = Latest(e) + 1,
                                ![Timer].what = reactions[e][Latest(e)].resend]
              /\ UNCHANGED <<reactions, seen, health>>
           \/ /\ ~health.disabled
              /\ ~(LatestIs(e, "failed") /\ reactions[e][Latest(e)].retry)
              /\ Returns(Timer)
              /\ UNCHANGED <<reactions, health>>
        /\ UNCHANGED <<idempotent, claims, counters>>

\* Mutant: whether the provider still keeps its promise is not asked.
ResendsUnasked ==
    LET run == runner[Timer] IN
    /\ At(Timer, "resend")
    /\ IF run.what # Nothing
       THEN /\ runner' = [runner EXCEPT ![Timer].pc = "run", ![Timer].safe = idempotent]
            /\ UNCHANGED <<reactions, seen, health>>
       ELSE /\ reactions' = [reactions EXCEPT ![run.event] = Dropped(@, run.attempt - 1)]
            /\ health' = Failed(health)
            /\ Returns(Timer)
    /\ UNCHANGED <<idempotent, claims, counters>>

\* run_reaction, Auto: what the failed attempt composed is sent as it is, or
\* not at all when the provider no longer keeps idempotent writes.
Resends ==
    LET run == runner[Timer] IN
    /\ At(Timer, "resend")
    /\ IF run.what # Nothing /\ idempotent
       THEN /\ runner' = [runner EXCEPT ![Timer].pc = "run", ![Timer].safe = idempotent]
            /\ UNCHANGED <<reactions, seen, health>>
       ELSE /\ reactions' = [reactions EXCEPT ![run.event] = Dropped(@, run.attempt - 1)]
            /\ health' = Failed(health)
            /\ Returns(Timer)
    /\ UNCHANGED <<idempotent, claims, counters>>

\* run_script composes what to run, decides to skip, or fails; a run that was
\* stopped is no failure of the effect's own.
Composes(r) ==
    LET run == runner[r]
        e == run.event
    IN  /\ At(r, "compose")
        /\ \/ \E c \in Compositions :
                /\ runner' = [runner EXCEPT ![r].pc = "run", ![r].what = c,
                                  ![r].safe = idempotent /\ c \notin Inside]
                /\ UNCHANGED <<reactions, seen, health>>
           \/ \E state \in {"skipped", "failed"}, stopped \in BOOLEAN :
                /\ stopped => state = "failed"
                /\ reactions' = [reactions EXCEPT ![e] =
                                    Finished(@, run.attempt, run.origin, state)]
                /\ health' = IF state = "failed" /\ ~stopped /\ MayFinish(reactions[e], run.attempt)
                             THEN Failed(health) ELSE health
                /\ Returns(r)
        /\ UNCHANGED <<idempotent, claims, counters>>

-----------------------------------------------------------------------------
(* How it runs.                                                            *)

\* A composition inside oxplow lands with its row in one transaction, or finds
\* its attempt made and rolls back; one with a command that asks is kept as a
\* proposal the same way.
Lands(r, state) ==
    LET run == runner[r] IN
    /\ At(r, "run") /\ (run.what \in Inside \/ state = "proposed")
    /\ reactions' = [reactions EXCEPT ![run.event] =
                        Finished(@, run.attempt, run.origin, state)]
    /\ health' = IF state = "ok" /\ MayFinish(reactions[run.event], run.attempt)
                 THEN Succeeded(health) ELSE health
    /\ Returns(r)
    /\ UNCHANGED <<idempotent, claims, counters>>

\* Refused before anything ran: the runner records the failure.
RunFails(r) ==
    /\ At(r, "run")
    /\ Goes(r, "failing")
    /\ UNCHANGED <<reactions, seen, health, idempotent, claims, counters>>

\* Steps outside oxplow: the attempt is claimed first, unless it was made.
Claims(r) ==
    LET run == runner[r]
        e == run.event
    IN  /\ At(r, "run") /\ run.what \notin Inside
        /\ IF run.attempt > Latest(e)
           THEN /\ reactions' = [reactions EXCEPT ![e] =
                        Claimed(@, run.origin, IF run.safe THEN run.what ELSE Nothing)]
                /\ claims' = [claims EXCEPT ![e] = Append(@,
                        [attempt |-> run.attempt, origin |-> run.origin,
                         what |-> run.what, safe |-> run.safe])]
                /\ Goes(r, "send")
                /\ UNCHANGED seen
           ELSE /\ Returns(r)
                /\ UNCHANGED <<reactions, claims>>
        /\ UNCHANGED <<health, idempotent, counters>>

\* The steps, in order: all land; or one fails after others landed ("partway")
\* or before any did, in a way that may pass (Unavailable) or not.
Sends(r) ==
    /\ At(r, "send")
    /\ \E pc \in {"landed", "partway", "failing"}, passing \in BOOLEAN :
        /\ pc = "landed" => ~passing
        /\ runner' = [runner EXCEPT ![r].pc = pc, ![r].passing = passing]
    /\ UNCHANGED <<reactions, seen, health, idempotent, claims, counters>>

\* Turned away Busy before anything landed: the pump will deliver it again, and
\* a claim stays as it is.
Busy(r) ==
    /\ runner[r].pc \in {"run", "send"} /\ Faults
    /\ runner' = [runner EXCEPT ![r] = IdleRun]
    /\ UNCHANGED <<reactions, seen, health, idempotent, claims, startAfter>>

\* run_steps records what landed, or that a step failed partway.
Records(r) ==
    LET run == runner[r]
        state == IF At(r, "landed") THEN "ok" ELSE "failed"
    IN  /\ At(r, "landed") \/ At(r, "partway")
        /\ reactions' = [reactions EXCEPT ![run.event] =
                            Finished(@, run.attempt, run.origin, state)]
        /\ IF At(r, "landed")
           THEN health' = Succeeded(health) /\ Returns(r)
           ELSE Goes(r, "failing") /\ UNCHANGED <<seen, health>>
        /\ UNCHANGED <<idempotent, claims, counters>>

\* fail: the failure is recorded unless it was and, when it may pass and is safe
\* to send again, its retry is scheduled - unless its service asked to wait for
\* longer than that is done by itself.
Fails(r) ==
    LET run == runner[r]
        e == run.event
        failed == Finished(reactions[e], run.attempt, run.origin, "failed")
    IN  /\ At(r, "failing")
        /\ \E again \in BOOLEAN :
            /\ again => run.passing /\ run.safe /\ RetriesLeft(failed)
            /\ reactions' = [reactions EXCEPT ![e] =
                                IF again THEN Scheduled(failed, run.attempt, run.what) ELSE failed]
            /\ health' = IF again THEN health ELSE Failed(health)
        /\ Returns(r)
        /\ UNCHANGED <<idempotent, claims, counters>>

-----------------------------------------------------------------------------
(* oxplow stops and starts, and its configuration changes.                 *)

CutOffAtStart(e) == LatestIs(e, "started") /\ reactions[e][Latest(e)].origin # "live"

\* Every run is cut off; at the next start recover_interrupted ends the attempts
\* no delivery will find, before the pump and the timer run.
Stops ==
    LET found == {e \in Events : CutOffAtStart(e)}
        counted == {e \in found : ~CutOff(reactions[e])[Latest(e)].retry}
    IN  /\ Faults
        /\ runner' = [r \in Runners |-> IdleRun]
        /\ reactions' = [e \in Events |->
                            IF e \in found THEN CutOff(reactions[e]) ELSE reactions[e]]
        /\ health' = FailedTimes(health, Cardinality(counted))
        /\ UNCHANGED <<startAfter, seen, idempotent, claims>>

\* The provider starts, or ceases, to keep idempotent writes.
Switches ==
    /\ Faults
    /\ idempotent' = ~idempotent
    /\ UNCHANGED <<startAfter, reactions, seen, runner, health, claims>>

EffectsInit ==
    /\ startAfter \in 0..LastEvent
    /\ reactions = [e \in Events |-> <<>>]
    /\ seen = 0
    /\ runner = [r \in Runners |-> IdleRun]
    /\ health = [failures |-> 0, disabled |-> FALSE]
    /\ idempotent \in BOOLEAN
    /\ claims = [e \in Events |-> <<>>]
    /\ faults = 0

Runs(r) ==
    \/ Composes(r)
    \/ \E state \in {"ok", "proposed"} : Lands(r, state)
    \/ RunFails(r)
    \/ Claims(r)
    \/ Sends(r)
    \/ Records(r)
    \/ Fails(r)

EffectsNext ==
    \/ Delivers
    \/ \E e \in Events : RetriedBy(e) \/ Backfills(e) \/ ListsDue(e)
    \/ RetryOne
    \/ Resends
    \/ \E r \in Runners : Runs(r) \/ Busy(r)
    \/ Enable
    \/ Stops
    \/ Switches

EffectsSpec == EffectsInit /\ [][EffectsNext]_effectVars

\* The timer ticks every five seconds for as long as oxplow runs, and a run once
\* begun goes on.
EffectsFair ==
    /\ WF_effectVars(\E e \in Events : ListsDue(e))
    /\ WF_effectVars(RetryOne)
    /\ WF_effectVars(Resends)
    /\ \A r \in Runners : WF_effectVars(Runs(r))

-----------------------------------------------------------------------------
(* Properties.                                                             *)

\* The types of the state; an attempt that is composing or sending is the next
\* one after those recorded, or one of them.
EffectsTypeOK ==
    /\ startAfter \in 0..LastEvent
    /\ reactions \in [Events -> Seq(Attempts)]
    /\ seen \in 0..LastEvent
    /\ health \in [failures : 0..FailuresToDisable, disabled : BOOLEAN]
    /\ idempotent \in BOOLEAN
    /\ \A r \in Runners : runner[r] # IdleRun => runner[r].attempt \in 1..(Latest(runner[r].event) + 1)

\* An attempt oxplow makes by itself repeats, step for step, the attempt before
\* it, and only one that was safe to send again when it was sent: a write to a
\* provider without idempotent writes is never sent again without a person,
\* whatever was cut off, retried or reconfigured meanwhile (run_reaction, cut_off).
RepeatsWhatWasSafe ==
    \A e \in Events : \A i \in DOMAIN claims[e] :
        LET c == claims[e][i] IN
        c.origin = "auto" =>
            /\ c.safe
            /\ \E j \in 1..(i - 1) :
                claims[e][j].attempt = c.attempt - 1 /\ claims[e][j].what = c.what /\ claims[e][j].safe

\* Only a failed attempt is followed by another: whoever races, a reaction that
\* ran, was skipped or left a proposal is never attempted again.
OnlyFailedAttemptedAgain ==
    \A e \in Events : \A i \in 1..(Latest(e) - 1) : reactions[e][i].state = "failed"

\* At most two automatic attempts are made in a row, also when they are cut off
\* and found at the next start.
AtMostTwoInARow == \A e \in Events : AutomaticInARow(reactions[e]) <= RetryDelays

\* What oxplow does again by itself it may do again: it repeats what was safe,
\* and gives up after two.
RetriesByItselfSafe == RepeatsWhatWasSafe /\ AtMostTwoInARow

\* A failure that waits to be sent again by itself does not wait for ever.
RetryResolved ==
    \A e \in Events :
        (LatestIs(e, "failed") /\ reactions[e][Latest(e)].retry)
            ~> ~(LatestIs(e, "failed") /\ reactions[e][Latest(e)].retry)
=============================================================================
