----------------------------- MODULE JobDispatch -----------------------------
(***************************************************************************)
(* Durable extension jobs: the job and attempt tables, the commands that   *)
(* enqueue and cancel, the scheduler and its dispatches, recovery of       *)
(* expired attempts, and crashes.  Sources: oxplow-app/src/extension/      *)
(* extension_job_dispatch.rs, extension_job_scheduler.rs,                  *)
(* extension_jobs.rs, extension_job_authority.rs and                       *)
(* oxplow-db/src/extension_job_store.rs.                                   *)
(*                                                                         *)
(* One action is one database transaction or one decision taken on what a  *)
(* transaction returned; everything between two awaits of the code is one  *)
(* step, and any other actor may act between two steps.                    *)
(*                                                                         *)
(* Reductions.  `transition_retry`, `transition_result_retry` and          *)
(* `request_cancellation` read the row and update it under its revision,   *)
(* retrying on a conflict: a successful round is the same as one atomic    *)
(* step at the update, which is how they are modelled, and giving up after *)
(* MAX_CAS_RETRIES is one of the errors DispatchFails stands for.  The     *)
(* claim, the rebind and the publication keep the revision they read.      *)
(* The monotonic timers (poll, renewal, runtime, grace, recovery deadline) *)
(* are nondeterministic: they are unrelated to the wall clock the leases   *)
(* are compared with.                                                      *)
(***************************************************************************)
EXTENDS ExtensionJob, FiniteSets

CONSTANTS Jobs,           \* intents: one intent key is one job
          Dispatchers,    \* processes running a scheduler over the database
          Off,            \* no deployment offers the jobs' contribution and contract
          MaxDispatches,  \* MAX_DISPATCHES
          MaxQueued,      \* the queue's capacity (1024)
          MaxCasRetries,  \* MAX_CAS_RETRIES
          Horizon,        \* bound: attempts are renewed, and idle time passes, before it
          MaxStepBacks,   \* bound: how often the wall clock is set back
          MaxActivations, \* bound: how often the extension changes
          MaxFailures     \* bound: crashes and failed dispatches

ASSUME OffIsNoDeployment == Off \notin Deployments
ASSUME CasRetriesPositive == MaxCasRetries \in Nat \ {0}
ASSUME QueueBounded == MaxQueued \in Nat

VARIABLES
    now,         \* the wall clock
    job,         \* extension_job
    attempts,    \* extension_job_attempt: the outcome of each attempt
    current,     \* the deployment the live catalog and registry offer, or Off
    sup,         \* sup[d][j]: the dispatch of j by d, run_one and supervise
    late,        \* extension_job_observation: tokens of late outcomes
    announced,   \* how many contribution.job.completed events name the job
    ran,         \* history: how many workers were started for the job
    asked,       \* history: the job was cancelled by a person, a revocation, a
                 \* timeout or its own worker
    stepBacks, activations, failures   \* what the bounds count

storeVars == <<job, attempts, late, announced>>
boundVars == <<stepBacks, activations, failures>>
vars == <<now, job, attempts, current, sup, late, announced, ran, asked,
          stepBacks, activations, failures>>

-----------------------------------------------------------------------------
(***************************************************************************)
(* A dispatch, by where it stands:                                         *)
(*   idle, read, rebind, authorize, claim   run_one up to its claim        *)
(*   claimed                                claimed, to be reauthorized    *)
(*   run, renew                             supervise's loop               *)
(*   stopThenRun / Confirm / Recover        about to request_cancellation, *)
(*                                          and where it goes on           *)
(*   confirm, recover                       confirm_stopped,               *)
(*                                          recover_after_lease            *)
(*   publish, publishTx                     finish_completion              *)
(***************************************************************************)
BeforeClaim == {"read", "rebind", "authorize", "claim"}
AfterClaim == {"claimed", "run", "renew", "stopThenRun", "stopThenConfirm",
               "stopThenRecover", "confirm", "recover", "publish", "publishTx"}

Completions == {"succeeded", "failed"}
Outcomes == Completions \cup {"cancelled", "interrupted"}

Dispatch == [pc : {"idle"} \cup BeforeClaim \cup AfterClaim,
             token : AttemptFence,
             revision : Nat,             \* of the row it last read
             deployment : Deployments,   \* the owner it runs for
             cancelling : BOOLEAN,       \* cancellation_at is set
             renewed : Nat,              \* when it last renewed
             outcome : Completions,      \* what its worker completed with
             tries : Nat]                \* finish_completion's CAS rounds

Idle == [pc |-> "idle", token |-> NoToken, revision |-> 0,
         deployment |-> FirstDeployment, cancelling |-> FALSE, renewed |-> 0,
         outcome |-> "failed", tries |-> 0]

Live(dep) == current = dep

\* ExtensionJobScheduler::active: a job stays in it until its run_one returns.
Active(d) == {j \in Jobs : sup[d][j].pc # "idle"}

Waiting == {j \in Jobs : job[j].state \in {"queued", "running"}}

-----------------------------------------------------------------------------
(***************************************************************************)
(* Writing a row.  Every update is announced in its own transaction when   *)
(* the row it leaves has ended (transition_announced, announce_tx).        *)
(***************************************************************************)
Transition(j, row) == job' = [job EXCEPT ![j] = row]

\* Mutant: an interrupted job is not announced.
AnnounceClosed(j, row) ==
    announced' = [announced EXCEPT ![j] = IF row.state \in Closed THEN @ + 1 ELSE @]

Announce(j, row) ==
    announced' = [announced EXCEPT ![j] = IF row.state \in Ended THEN @ + 1 ELSE @]

Store(j, row) == Transition(j, row) /\ Announce(j, row)

\* The attempt rows change with the job's, in transition_tx.
OpenAttempt(j) == attempts' = [attempts EXCEPT ![j][job[j].attempt + 1] = "open"]

\* Mutant: the attempt row is left open.
LeaveAttemptOpen(j, outcome) == UNCHANGED attempts

CloseAttempt(j, outcome) ==
    attempts' = [attempts EXCEPT ![j][job[j].attempt] = outcome]

\* RecoverExpired, and requeue_tx in the same transaction.
Recovered(row) ==
    LET cut == RecoverExpired(row, now)
    IN  IF CanRetryInterrupted(cut) THEN RetryInterrupted(cut) ELSE cut

Goto(d, j, pc) == sup' = [sup EXCEPT ![d][j].pc = pc]

Return(d, j) == sup' = [sup EXCEPT ![d][j] = Idle]

RecordLate(d, j) == late' = [late EXCEPT ![j] = @ \cup {sup[d][j].token}]

-----------------------------------------------------------------------------
(* Commands.                                                               *)

\* Mutant: the capacity check is off by one.
EnqueuePastCapacity(j, idempotent) ==
    /\ job[j].state = "absent"
    /\ current # Off
    /\ Cardinality(Waiting) <= MaxQueued
    /\ job' = [job EXCEPT ![j] = QueuedRow(idempotent, current, now)]
    /\ UNCHANGED <<now, attempts, current, sup, late, announced, ran, asked, boundVars>>

Enqueue(j, idempotent) ==
    /\ job[j].state = "absent"
    /\ current # Off
    /\ Cardinality(Waiting) < MaxQueued
    /\ job' = [job EXCEPT ![j] = QueuedRow(idempotent, current, now)]
    /\ UNCHANGED <<now, attempts, current, sup, late, announced, ran, asked, boundVars>>

CancelCommand(j) ==
    /\ job[j].state \in {"queued", "running"}
    /\ ~job[j].cancel
    /\ CanRequestCancellation(job[j], now)
    /\ Store(j, RequestCancellation(job[j], now))
    /\ asked' = [asked EXCEPT ![j] = TRUE]
    /\ UNCHANGED <<now, attempts, current, sup, late, ran, boundVars>>

-----------------------------------------------------------------------------
(* run_one: from the scheduler's scan to the claim.                        *)

\* Mutant: the scan looks for new jobs only.
ScanQueuedNew(d, j) ==
    /\ job[j].state = "queued"
    /\ job[j].attempt = 0
    /\ j \notin Active(d)
    /\ Cardinality(Active(d)) < MaxDispatches
    /\ Goto(d, j, "read")
    /\ UNCHANGED <<now, storeVars, current, ran, asked, boundVars>>

ScanQueued(d, j) ==
    /\ job[j].state = "queued"
    /\ j \notin Active(d)
    /\ Cardinality(Active(d)) < MaxDispatches
    /\ Goto(d, j, "read")
    /\ UNCHANGED <<now, storeVars, current, ran, asked, boundVars>>

\* Read the row and find its operation: its own deployment's, its
\* successor's (rebind), or none.
ReadJob(d, j) ==
    /\ sup[d][j].pc = "read"
    /\ IF job[j].state # "queued" \/ job[j].cancel \/ current = Off
       THEN Return(d, j)
       ELSE sup' = [sup EXCEPT ![d][j] =
                      [@ EXCEPT !.pc = IF Live(job[j].owner) THEN "authorize" ELSE "rebind",
                                !.deployment = current,
                                !.revision = job[j].revision,
                                !.token = ClaimToken(job[j])]]
    /\ UNCHANGED <<now, storeVars, current, ran, asked, boundVars>>

RebindJob(d, j) ==
    /\ sup[d][j].pc = "rebind"
    /\ IF job[j].revision = sup[d][j].revision /\ CanRebind(job[j], now)
       THEN /\ Store(j, Rebind(job[j], sup[d][j].deployment, now))
            /\ sup' = [sup EXCEPT ![d][j] = [@ EXCEPT !.pc = "authorize",
                                                      !.revision = job[j].revision + 1]]
       ELSE Return(d, j) /\ UNCHANGED <<job, announced>>
    /\ UNCHANGED <<now, attempts, current, late, ran, asked, boundVars>>

\* The prospective token is authorized before the claim is written.
Authorize(d, j) ==
    /\ sup[d][j].pc = "authorize"
    /\ IF Live(sup[d][j].deployment) THEN Goto(d, j, "claim") ELSE Return(d, j)
    /\ UNCHANGED <<now, storeVars, current, ran, asked, boundVars>>

ClaimJob(d, j) ==
    /\ sup[d][j].pc = "claim"
    /\ IF job[j].revision = sup[d][j].revision /\ CanClaim(job[j], now)
       THEN /\ Store(j, Claim(job[j], now))
            /\ OpenAttempt(j)
            /\ sup' = [sup EXCEPT ![d][j] = [@ EXCEPT !.pc = "claimed", !.renewed = now]]
       ELSE Return(d, j) /\ UNCHANGED <<job, announced, attempts>>
    /\ UNCHANGED <<now, current, late, ran, asked, boundVars>>

\* The claimed row is authorized again, its lease included; then the worker
\* starts.
Reauthorize(d, j) ==
    /\ sup[d][j].pc = "claimed"
    /\ LET live == Live(sup[d][j].deployment)
       IN  IF live /\ now < sup[d][j].renewed + LeaseTicks
           THEN /\ Goto(d, j, "run")
                /\ ran' = [ran EXCEPT ![j] = @ + 1]
                /\ UNCHANGED asked
           ELSE /\ Goto(d, j, "stopThenConfirm")
                /\ asked' = [asked EXCEPT ![j] = @ \/ ~live]
                /\ UNCHANGED ran
    /\ UNCHANGED <<now, storeVars, current, boundVars>>

-----------------------------------------------------------------------------
(* supervise.                                                              *)

WorkerCompletes(d, j, outcome) ==
    /\ sup[d][j].pc = "run"
    /\ sup' = [sup EXCEPT ![d][j] = [@ EXCEPT !.pc = "publish", !.outcome = outcome]]
    /\ UNCHANGED <<now, storeVars, current, ran, asked, boundVars>>

\* JobWorkOutcome::Stopped; or Uncertain, an error, a panic or a result too
\* large to keep, after which only the lease can settle the attempt.
WorkerStops(d, j, next) ==
    /\ sup[d][j].pc = "run"
    /\ Goto(d, j, next)
    /\ asked' = [asked EXCEPT ![j] = TRUE]
    /\ UNCHANGED <<now, storeVars, current, ran, boundVars>>

\* A poll finds that the row no longer carries this attempt's token.
PollFenced(d, j) ==
    /\ sup[d][j].pc = "run"
    /\ ~HoldsToken(job[j], sup[d][j].token)
    /\ Return(d, j)
    /\ UNCHANGED <<now, storeVars, current, ran, asked, boundVars>>

\* A poll finds a reason to stop: cancelled, revoked, or past max_runtime.
PollStop(d, j) ==
    /\ sup[d][j].pc = "run"
    /\ HoldsToken(job[j], sup[d][j].token)
    /\ ~sup[d][j].cancelling
    /\ Goto(d, j, "stopThenRun")
    /\ asked' = [asked EXCEPT ![j] = TRUE]
    /\ UNCHANGED <<now, storeVars, current, ran, boundVars>>

\* A poll finds a renewal due.
PollRenew(d, j) ==
    /\ sup[d][j].pc = "run"
    /\ HoldsToken(job[j], sup[d][j].token)
    /\ ~job[j].cancel
    /\ Live(sup[d][j].deployment)
    /\ now # sup[d][j].renewed
    /\ now < Horizon
    /\ Goto(d, j, "renew")
    /\ UNCHANGED <<now, storeVars, current, ran, asked, boundVars>>

RenewLease(d, j) ==
    /\ sup[d][j].pc = "renew"
    /\ IF CanRenew(job[j], sup[d][j].token, now)
       THEN /\ Store(j, Renew(job[j], now))
            /\ sup' = [sup EXCEPT ![d][j] = [@ EXCEPT !.pc = "run", !.renewed = now]]
       ELSE /\ sup' = [sup EXCEPT ![d][j] = [@ EXCEPT !.pc = "stopThenRun", !.renewed = now]]
            /\ UNCHANGED <<job, announced>>
    /\ UNCHANGED <<now, attempts, current, late, ran, asked, boundVars>>

AfterStop(s) ==
    CASE s.pc = "stopThenConfirm" -> [s EXCEPT !.pc = "confirm"]
      [] s.pc = "stopThenRecover" -> [s EXCEPT !.pc = "recover"]
      [] OTHER -> [s EXCEPT !.pc = "run", !.cancelling = TRUE]

\* request_cancellation.  It names the job, not the attempt.
StopJob(d, j) ==
    /\ sup[d][j].pc \in {"stopThenRun", "stopThenConfirm", "stopThenRecover"}
    /\ \/ /\ job[j].cancel \/ job[j].state \in Closed
          /\ sup' = [sup EXCEPT ![d][j] = AfterStop(@)]
          /\ UNCHANGED <<job, announced>>
       \/ /\ ~job[j].cancel
          /\ CanRequestCancellation(job[j], now)
          /\ Store(j, RequestCancellation(job[j], now))
          /\ sup' = [sup EXCEPT ![d][j] = AfterStop(@)]
       \/ /\ ~job[j].cancel
          /\ job[j].state \notin Closed
          /\ ~CheckTime(job[j], now)
          /\ Return(d, j)
          /\ UNCHANGED <<job, announced>>
    /\ UNCHANGED <<now, attempts, current, late, ran, asked, boundVars>>

\* CANCEL_GRACE passed and the worker has not returned: it is aborted.
GraceOver(d, j) ==
    /\ sup[d][j].pc = "run"
    /\ sup[d][j].cancelling
    /\ Goto(d, j, "recover")
    /\ UNCHANGED <<now, storeVars, current, ran, asked, boundVars>>

Confirm(d, j) ==
    /\ sup[d][j].pc = "confirm"
    /\ IF CanConfirmStopped(job[j], sup[d][j].token, now)
       THEN /\ Store(j, ConfirmStopped(job[j], now))
            /\ CloseAttempt(j, "cancelled")
            /\ Return(d, j)
       ELSE Goto(d, j, "recover") /\ UNCHANGED <<job, announced, attempts>>
    /\ UNCHANGED <<now, current, late, ran, asked, boundVars>>

\* recover_after_lease: return when the token is gone, recover when the
\* lease is out, or give up at the deadline and leave it to recover_page.
RecoverAfterLease(d, j) ==
    /\ sup[d][j].pc = "recover"
    /\ IF HoldsToken(job[j], sup[d][j].token) /\ CanRecoverExpired(job[j], now)
       THEN Store(j, Recovered(job[j])) /\ CloseAttempt(j, "interrupted")
       ELSE UNCHANGED <<job, announced, attempts>>
    /\ Return(d, j)
    /\ UNCHANGED <<now, current, late, ran, asked, boundVars>>

-----------------------------------------------------------------------------
(* finish_completion.                                                      *)

\* Mutant: the evidence is kept before it is known to be late.
PublishReadKeepsEvidence(d, j) ==
    /\ sup[d][j].pc = "publish"
    /\ RecordLate(d, j)
    /\ IF HoldsToken(job[j], sup[d][j].token)
       THEN sup' = [sup EXCEPT ![d][j] = [@ EXCEPT !.pc = "publishTx",
                                                   !.revision = job[j].revision]]
       ELSE Return(d, j)
    /\ UNCHANGED <<now, job, attempts, announced, current, ran, asked, boundVars>>

PublishRead(d, j) ==
    /\ sup[d][j].pc = "publish"
    /\ IF HoldsToken(job[j], sup[d][j].token)
       THEN /\ sup' = [sup EXCEPT ![d][j] = [@ EXCEPT !.pc = "publishTx",
                                                      !.revision = job[j].revision]]
            /\ UNCHANGED late
       ELSE RecordLate(d, j) /\ Return(d, j)
    /\ UNCHANGED <<now, job, attempts, announced, current, ran, asked, boundVars>>

\* The publication transaction, when it commits.
PublishComplete(d, j) ==
    /\ sup[d][j].pc = "publishTx"
    /\ Live(sup[d][j].deployment)
    /\ job[j].revision = sup[d][j].revision
    /\ CanComplete(job[j], sup[d][j].token, now)
    /\ Store(j, Complete(job[j], sup[d][j].outcome, now))
    /\ CloseAttempt(j, sup[d][j].outcome)
    /\ Return(d, j)
    /\ UNCHANGED <<now, current, late, ran, asked, boundVars>>

\* The publication transaction, when it rolls back: the extension was
\* revoked, the revision moved on, or the lease ran out.
PublishAbort(d, j) ==
    /\ sup[d][j].pc = "publishTx"
    /\ \/ /\ ~Live(sup[d][j].deployment)
          /\ RecordLate(d, j)
          /\ Goto(d, j, "stopThenConfirm")
          /\ asked' = [asked EXCEPT ![j] = TRUE]
       \/ /\ Live(sup[d][j].deployment)
          /\ job[j].revision # sup[d][j].revision
          /\ IF sup[d][j].tries + 1 < MaxCasRetries
             THEN /\ sup' = [sup EXCEPT ![d][j] = [@ EXCEPT !.pc = "publish",
                                                  !.tries = sup[d][j].tries + 1]]
                  /\ UNCHANGED late
             ELSE RecordLate(d, j) /\ Return(d, j)
          /\ UNCHANGED asked
       \/ /\ Live(sup[d][j].deployment)
          /\ job[j].revision = sup[d][j].revision
          /\ ~CanComplete(job[j], sup[d][j].token, now)
          /\ RecordLate(d, j)
          /\ Return(d, j)
          /\ UNCHANGED asked
    /\ UNCHANGED <<now, job, attempts, announced, current, ran, boundVars>>

-----------------------------------------------------------------------------
(* The scheduler's recovery scan, failures and the environment.            *)

\* Mutant: an attempt asked to stop is left to its supervisor.
RecoverPageSkipsCancelled(j) ==
    /\ CanRecoverExpired(job[j], now)
    /\ ~job[j].cancel
    /\ Store(j, Recovered(job[j]))
    /\ CloseAttempt(j, "interrupted")
    /\ UNCHANGED <<now, current, sup, late, ran, asked, boundVars>>

\* recover_page: the expired candidate is fenced, and queued again or ended.
RecoverPage(j) ==
    /\ CanRecoverExpired(job[j], now)
    /\ Store(j, Recovered(job[j]))
    /\ CloseAttempt(j, "interrupted")
    /\ UNCHANGED <<now, current, sup, late, ran, asked, boundVars>>

\* A storage error, or a CAS loop that gives up, ends one dispatch.
DispatchFails(d, j) ==
    /\ sup[d][j].pc # "idle"
    /\ failures < MaxFailures
    /\ failures' = failures + 1
    /\ Return(d, j)
    /\ UNCHANGED <<now, storeVars, current, ran, asked, stepBacks, activations>>

\* The process dies, shuts down, or drains its dispatches after one panicked.
Crash(d) ==
    /\ Active(d) # {}
    /\ failures < MaxFailures
    /\ failures' = failures + 1
    /\ sup' = [sup EXCEPT ![d] = [j \in Jobs |-> Idle]]
    /\ UNCHANGED <<now, storeVars, current, ran, asked, stepBacks, activations>>

\* The extension is redeployed, disabled or enabled again.
Activate(dep) ==
    /\ dep # current
    /\ activations < MaxActivations
    /\ activations' = activations + 1
    /\ current' = dep
    /\ UNCHANGED <<now, storeVars, sup, ran, asked, stepBacks, failures>>

\* Time passes up to the horizon, and as long as something waits for it.
Tick ==
    /\ \/ now < Horizon
       \/ \E j \in Jobs : now < job[j].lease \/ now < job[j].updated
    /\ now' = now + 1
    /\ UNCHANGED <<storeVars, current, sup, ran, asked, boundVars>>

StepBack ==
    /\ now > 0
    /\ stepBacks < MaxStepBacks
    /\ stepBacks' = stepBacks + 1
    /\ now' = now - 1
    /\ UNCHANGED <<storeVars, current, sup, ran, asked, activations, failures>>

-----------------------------------------------------------------------------
Init ==
    /\ now = 0
    /\ job = [j \in Jobs |-> AbsentRow]
    /\ attempts = [j \in Jobs |-> [a \in 1..MaxAttempts |-> "none"]]
    /\ current = FirstDeployment
    /\ sup = [d \in Dispatchers |-> [j \in Jobs |-> Idle]]
    /\ late = [j \in Jobs |-> {}]
    /\ announced = [j \in Jobs |-> 0]
    /\ ran = [j \in Jobs |-> 0]
    /\ asked = [j \in Jobs |-> FALSE]
    /\ stepBacks = 0
    /\ activations = 0
    /\ failures = 0

\* run_one up to its claim.
Claiming(d, j) ==
    \/ ReadJob(d, j)
    \/ RebindJob(d, j)
    \/ Authorize(d, j)
    \/ ClaimJob(d, j)
    \/ Reauthorize(d, j)

\* What the code of a claimed dispatch does by itself.
Supervising(d, j) ==
    \/ PollFenced(d, j)
    \/ PollStop(d, j)
    \/ RenewLease(d, j)
    \/ StopJob(d, j)
    \/ GraceOver(d, j)
    \/ Confirm(d, j)
    \/ RecoverAfterLease(d, j)
    \/ PublishRead(d, j)
    \/ PublishComplete(d, j)
    \/ PublishAbort(d, j)

WorkerReturns(d, j) ==
    \/ \E outcome \in Completions : WorkerCompletes(d, j, outcome)
    \/ \E next \in {"stopThenConfirm", "stopThenRecover"} : WorkerStops(d, j, next)

Next ==
    \/ \E j \in Jobs :
          \/ \E idempotent \in BOOLEAN : Enqueue(j, idempotent)
          \/ CancelCommand(j)
          \/ RecoverPage(j)
    \/ \E d \in Dispatchers, j \in Jobs :
          \/ ScanQueued(d, j)
          \/ Claiming(d, j)
          \/ Supervising(d, j)
          \/ WorkerReturns(d, j)
          \/ PollRenew(d, j)
          \/ DispatchFails(d, j)
    \/ \E d \in Dispatchers : Crash(d)
    \/ \E dep \in Deployments \cup {Off} : Activate(dep)
    \/ Tick
    \/ StepBack

Spec == Init /\ [][Next]_vars

\* The scheduler ticks every second and rescans from the start; a supervisor
\* polls every 250 ms; max_runtime bounds every worker.
Fairness ==
    /\ WF_vars(Tick)
    /\ \A j \in Jobs : WF_vars(RecoverPage(j))
    /\ \A d \in Dispatchers, j \in Jobs :
          /\ WF_vars(ScanQueued(d, j))
          /\ WF_vars(Claiming(d, j))
          /\ WF_vars(Supervising(d, j))

FairSpec == Spec /\ Fairness

-----------------------------------------------------------------------------
(***************************************************************************)
(* Properties.                                                             *)
(***************************************************************************)

\* Every variable stays in its type.
TypeOK ==
    /\ now \in Nat
    /\ job \in [Jobs -> JobRow]
    /\ attempts \in [Jobs -> [1..MaxAttempts -> Outcomes \cup {"none", "open"}]]
    /\ current \in Deployments \cup {Off}
    /\ sup \in [Dispatchers -> [Jobs -> Dispatch]]
    /\ late \in [Jobs -> SUBSET AttemptFence]
    /\ announced \in [Jobs -> Nat]
    /\ ran \in [Jobs -> Nat]
    /\ asked \in [Jobs -> BOOLEAN]
    /\ stepBacks \in Nat /\ activations \in Nat /\ failures \in Nat

\* ExtensionJob::validate and the extension_job CHECK constraints accept
\* every row any sequence of events leaves: `transition` never fails with
\* InvalidState, and no update is aborted by the table.
RowsValid == \A j \in Jobs : job[j].state # "absent" => Validate(job[j])

\* The two tables agree: the attempts before the last were cut off, the last
\* is open exactly while the job runs and otherwise closed with the job's
\* own end, and none exists beyond it.
AttemptRowsAgree ==
    \A j \in Jobs, a \in 1..MaxAttempts :
        /\ a < job[j].attempt => attempts[j][a] = "interrupted"
        /\ a > job[j].attempt => attempts[j][a] = "none"
        /\ a = job[j].attempt =>
              attempts[j][a] = CASE job[j].state = "running" -> "open"
                                 [] job[j].state = "queued" -> "interrupted"
                                 [] OTHER -> job[j].state

\* No two dispatches, of one process or of two, ever hold the same token of
\* a job: the fence that check_running_token compares tells them apart.
TokensUnique ==
    \A c, d \in Dispatchers, j \in Jobs :
        (c # d /\ sup[c][j].pc \in AfterClaim /\ sup[d][j].pc \in AfterClaim)
            => sup[c][j].token # sup[d][j].token

\* A worker is started once for a `never` job and at most MAX_ATTEMPTS times
\* for an `idempotent` one, whatever crashes, expires or races.
RunsBounded ==
    \A j \in Jobs : ran[j] <= IF job[j].idempotent THEN MaxAttempts ELSE 1

\* contribution.job.completed is logged when, and only when, the job has
\* ended: an attempt queued again logs nothing, and no end goes unlogged.
AnnouncedIffEnded ==
    \A j \in Jobs : announced[j] > 0 <=> job[j].state \in Ended

\* An outcome kept as a late observation was not also published: no attempt
\* counts its worker's result twice.
LateNeverPublished ==
    \A j \in Jobs : \A t \in late[j] : attempts[j][t.attempt] \notin Completions

\* finish_completion's retries suffice: a row under one token changes at most
\* twice by other hands (a cancellation, then recovery), so the loop never
\* runs out of MAX_CAS_RETRIES and drops a result that could be published.
CasRoundsSuffice ==
    \A d \in Dispatchers, j \in Jobs : sup[d][j].tries <= 2

\* Queued and running jobs never exceed the queue's capacity, although only
\* enqueue checks it and recovery puts jobs back.
CapacityRespected == Cardinality(Waiting) <= MaxQueued

\* The bounds the code names hold however attempts, cancellations and recovery
\* race: workers started per job, rounds of the publication, jobs in the queue.
BoundsHold == RunsBounded /\ CasRoundsSuffice /\ CapacityRespected

\* A job that has ended stays as it ended.
EndIsFinal ==
    [][\A j \in Jobs : job[j].state \in Ended => job'[j].state = job[j].state]_vars

\* No update the dispatcher makes is one the extension_job and
\* extension_job_attempt triggers would abort: a closed row is never
\* updated, revisions go up by one per event (two when recovery queues the
\* job again), the owner changes only from queued to queued, a cancellation
\* is never taken back and a closed attempt never changes.
RowTriggersHold ==
    [][\A j \in Jobs :
        /\ job'[j] # job[j] =>
              /\ job[j].state \notin Closed
              /\ job'[j].revision \in {job[j].revision + 1, job[j].revision + 2}
              /\ job'[j].updated >= job[j].updated
              /\ job[j].cancel => job'[j].cancel
        /\ job'[j].owner # job[j].owner =>
              \/ job[j].state = "absent"
              \/ job[j].state = "queued" /\ job'[j].state = "queued"
        /\ \A a \in 1..MaxAttempts :
              attempts'[j][a] # attempts[j][a] =>
                  attempts[j][a] = (IF attempts'[j][a] = "open" THEN "none" ELSE "open")
      ]_vars

\* A job asked to stop ends, whoever was running it and whatever crashed.
CancelledJobEnds ==
    \A j \in Jobs : job[j].cancel ~> job[j].state \in Ended

\* A queued job runs and ends, or its extension is not there to run it.
QueuedJobEnds ==
    \A j \in Jobs : job[j].state = "queued" ~> (job[j].state \in Ended \/ current = Off)

\* What a job's row says to whoever enqueued it.
View(row) == [status |-> row.state, tries |-> row.attempt,
              replay |-> row.idempotent, stop |-> row.cancel]

Promise == INSTANCE JobPromise WITH jobs <- [j \in Jobs |-> View(job[j])]

\* The dispatchers, their leases, fences and races implement the promise a job
\* makes: seen from outside, every step of any of them is one of its steps or
\* nothing.
KeepsPromise == Promise!Spec

\* Documented (.context/extensions-jobs.md, "Its end"): the end is logged
\* once.
AnnouncedOnce == \A j \in Jobs : announced[j] <= 1

\* Documented (.context/extensions-jobs.md, "The replay decision"): an
\* idempotent job cut off by a lost lease runs again, up to MAX_ATTEMPTS;
\* it ends interrupted before that only if something asked it to stop.
LostLeaseRunsAgain ==
    \A j \in Jobs :
        (job[j].state = "interrupted" /\ job[j].idempotent /\ job[j].attempt < MaxAttempts)
            => asked[j]

=============================================================================
