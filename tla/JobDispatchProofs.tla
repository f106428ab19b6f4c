-------------------------- MODULE JobDispatchProofs --------------------------
(***************************************************************************)
(* Theorems about JobDispatch, for every set of jobs, dispatchers and      *)
(* deployments and every value of the bounds.                              *)
(***************************************************************************)
EXTENDS JobDispatch, FiniteSetTheorems, TLAPS

-----------------------------------------------------------------------------
(* What the events of ExtensionJob make of a row.                          *)

\* Every event turns a row into a row.
LEMMA EventsKeepRowType ==
    ASSUME NEW r \in JobRow, NEW n \in Nat
    PROVE  /\ Claim(r, n) \in JobRow
           /\ Renew(r, n) \in JobRow
           /\ \A o \in Completions : Complete(r, o, n) \in JobRow
           /\ RequestCancellation(r, n) \in JobRow
           /\ ConfirmStopped(r, n) \in JobRow
           /\ RecoverExpired(r, n) \in JobRow
           /\ RetryInterrupted(r) \in JobRow
           /\ \A o \in Deployments : Rebind(r, o, n) \in JobRow
           /\ ClaimToken(r) \in AttemptFence
<1>1. /\ r.attempt + 1 \in Nat /\ r.fence + 1 \in Nat /\ r.revision + 1 \in Nat
      /\ n + LeaseTicks \in Nat /\ NoLease \in Nat
  BY LeasePositive DEF JobRow, NoLease
<1> HIDE DEF NoLease
<1>2. Claim(r, n) \in JobRow
  BY <1>1, Zenon DEF JobRow, JobStates, Claim
<1>3. Renew(r, n) \in JobRow
  BY <1>1, Zenon DEF JobRow, Renew
<1>4. \A o \in Completions : Complete(r, o, n) \in JobRow
  BY <1>1, Zenon DEF JobRow, JobStates, Completions, Complete
<1>5. RequestCancellation(r, n) \in JobRow
  BY <1>1, Zenon DEF JobRow, JobStates, RequestCancellation
<1>6. ConfirmStopped(r, n) \in JobRow
  BY <1>1, Zenon DEF JobRow, JobStates, ConfirmStopped
<1>7. RecoverExpired(r, n) \in JobRow
  BY <1>1, Zenon DEF JobRow, JobStates, RecoverExpired
<1>8. RetryInterrupted(r) \in JobRow
  BY <1>1, Zenon DEF JobRow, JobStates, RetryInterrupted
<1>9. \A o \in Deployments : Rebind(r, o, n) \in JobRow
  BY <1>1, Zenon DEF JobRow, Rebind
<1>10. ClaimToken(r) \in AttemptFence
  BY <1>1 DEF ClaimToken, AttemptFence
<1> QED
  BY <1>2, <1>3, <1>4, <1>5, <1>6, <1>7, <1>8, <1>9, <1>10

\* So does the recovery of an expired attempt, which may be two events.
LEMMA RecoveredType ==
    ASSUME TypeOK, NEW j \in Jobs
    PROVE  Recovered(job[j]) \in JobRow
<1>1. job[j] \in JobRow /\ now \in Nat
  BY DEF TypeOK
<1>2. RecoverExpired(job[j], now) \in JobRow
  BY <1>1, EventsKeepRowType
<1>3. RetryInterrupted(RecoverExpired(job[j], now)) \in JobRow
  BY <1>1, <1>2, EventsKeepRowType
<1> QED
  BY <1>2, <1>3 DEF Recovered

\* Storing a row keeps the types of the two variables it writes.
LEMMA StoreType ==
    ASSUME TypeOK, NEW j \in Jobs, NEW row \in JobRow, Store(j, row)
    PROVE  job' \in [Jobs -> JobRow] /\ announced' \in [Jobs -> Nat]
BY DEF TypeOK, Store, Transition, Announce

\* Writing one dispatch keeps the type of all of them.
LEMMA SetDispatchType ==
    ASSUME TypeOK, NEW d \in Dispatchers, NEW j \in Jobs, NEW s \in Dispatch,
           sup' = [sup EXCEPT ![d][j] = s]
    PROVE  sup' \in [Dispatchers -> [Jobs -> Dispatch]]
BY DEF TypeOK

\* Goto and Return keep the type of the dispatches.
LEMMA GotoType ==
    ASSUME TypeOK, NEW d \in Dispatchers, NEW j \in Jobs,
           NEW pc \in {"idle"} \cup BeforeClaim \cup AfterClaim, Goto(d, j, pc)
    PROVE  sup' \in [Dispatchers -> [Jobs -> Dispatch]]
<1>1. sup[d][j] \in Dispatch
  BY DEF TypeOK
<1>2. [sup[d][j] EXCEPT !.pc = pc] \in Dispatch
  BY <1>1 DEF Dispatch
<1>3. sup' = [sup EXCEPT ![d][j] = [sup[d][j] EXCEPT !.pc = pc]]
  BY DEF Goto, TypeOK
<1> QED
  BY <1>2, <1>3, SetDispatchType

LEMMA ReturnType ==
    ASSUME TypeOK, NEW d \in Dispatchers, NEW j \in Jobs, Return(d, j)
    PROVE  sup' \in [Dispatchers -> [Jobs -> Dispatch]]
<1>1. Idle \in Dispatch
  BY FirstIsDeployment DEF Idle, Dispatch, NoToken, AttemptFence, Completions
<1> QED
  BY <1>1, SetDispatchType DEF Return

\* A late observation is a token.
LEMMA RecordLateType ==
    ASSUME TypeOK, NEW d \in Dispatchers, NEW j \in Jobs, RecordLate(d, j)
    PROVE  late' \in [Jobs -> SUBSET AttemptFence]
<1>1. sup[d][j].token \in AttemptFence
  BY DEF TypeOK, Dispatch
<1> QED
  BY <1>1 DEF TypeOK, RecordLate

\* Closing an attempt keeps the type of the attempt table.
LEMMA CloseAttemptType ==
    ASSUME TypeOK, NEW j \in Jobs, NEW o \in Outcomes, CloseAttempt(j, o)
    PROVE  attempts' \in [Jobs -> [1..MaxAttempts -> Outcomes \cup {"none", "open"}]]
BY DEF TypeOK, CloseAttempt

\* The dispatches the actions write beyond changing pc are dispatches.
LEMMA DispatchUpdateType ==
    ASSUME NEW s \in Dispatch, NEW n \in Nat, NEW pc \in AfterClaim \cup BeforeClaim,
           NEW token \in AttemptFence, NEW dep \in Deployments
    PROVE  /\ [s EXCEPT !.pc = pc, !.deployment = dep, !.revision = n, !.token = token]
                 \in Dispatch
           /\ [s EXCEPT !.pc = pc, !.revision = n] \in Dispatch
           /\ [s EXCEPT !.pc = pc, !.renewed = n] \in Dispatch
           /\ \A o \in Completions : [s EXCEPT !.pc = pc, !.outcome = o] \in Dispatch
           /\ AfterStop(s) \in Dispatch
<1>1. {"confirm", "recover", "run"} \subseteq AfterClaim
  BY DEF AfterClaim
<1>2. [s EXCEPT !.pc = pc, !.deployment = dep, !.revision = n, !.token = token] \in Dispatch
  BY Zenon DEF Dispatch
<1>3. [s EXCEPT !.pc = pc, !.revision = n] \in Dispatch
  BY Zenon DEF Dispatch
<1>4. [s EXCEPT !.pc = pc, !.renewed = n] \in Dispatch
  BY Zenon DEF Dispatch
<1>5. \A o \in Completions : [s EXCEPT !.pc = pc, !.outcome = o] \in Dispatch
  BY Zenon DEF Dispatch
<1>6. /\ [s EXCEPT !.pc = "confirm"] \in Dispatch
      /\ [s EXCEPT !.pc = "recover"] \in Dispatch
      /\ [s EXCEPT !.pc = "run", !.cancelling = TRUE] \in Dispatch
  BY <1>1, Zenon DEF Dispatch
<1>7. AfterStop(s) \in Dispatch
  BY <1>6 DEF AfterStop
<1> QED
  BY <1>2, <1>3, <1>4, <1>5, <1>7

-----------------------------------------------------------------------------
(* Types.                                                                  *)

\* Every step keeps every variable in its type.
LEMMA StepKeepsType ==
    ASSUME TypeOK, [Next]_vars
    PROVE  TypeOK'
<1> USE DEF storeVars, boundVars
<1>1. ASSUME NEW j \in Jobs, NEW i \in BOOLEAN, Enqueue(j, i) PROVE TypeOK'
  <2>1. QueuedRow(i, current, now) \in JobRow
    BY <1>1 DEF Enqueue, TypeOK, QueuedRow, JobRow, JobStates, NoLease
  <2> QED
    BY <1>1, <2>1 DEF Enqueue, TypeOK
<1>2. ASSUME NEW j \in Jobs, CancelCommand(j) PROVE TypeOK'
  <2>1. RequestCancellation(job[j], now) \in JobRow
    BY EventsKeepRowType DEF TypeOK
  <2> QED
    BY <1>2, <2>1, StoreType DEF CancelCommand, TypeOK
<1>3. ASSUME NEW j \in Jobs, RecoverPage(j) PROVE TypeOK'
  <2>1. Recovered(job[j]) \in JobRow
    BY RecoveredType
  <2> QED
    BY <1>3, <2>1, StoreType, CloseAttemptType DEF RecoverPage, TypeOK, Outcomes
<1>4. ASSUME NEW d \in Dispatchers, NEW j \in Jobs,
             \/ ScanQueued(d, j) \/ PollRenew(d, j) \/ Authorize(d, j)
             \/ Reauthorize(d, j) \/ PollFenced(d, j) \/ PollStop(d, j)
             \/ GraceOver(d, j) \/ DispatchFails(d, j)
             \/ \E next \in {"stopThenConfirm", "stopThenRecover"} : WorkerStops(d, j, next)
      PROVE TypeOK'
  <2> USE GotoType, ReturnType DEF AfterClaim, BeforeClaim
  <2>1. CASE ScanQueued(d, j) \/ PollRenew(d, j) \/ Authorize(d, j)
    BY <2>1 DEF ScanQueued, PollRenew, Authorize, TypeOK
  <2>2. CASE Reauthorize(d, j)
    <3>1. sup' \in [Dispatchers -> [Jobs -> Dispatch]]
      BY <2>2 DEF Reauthorize
    <3>2. ran' \in [Jobs -> Nat]
      <4>1. CASE UNCHANGED ran
        BY <4>1 DEF TypeOK
      <4>2. CASE ran' = [ran EXCEPT ![j] = @ + 1]
        BY <4>2 DEF TypeOK
      <4> QED
        BY <2>2, <4>1, <4>2 DEF Reauthorize
    <3>3. asked' \in [Jobs -> BOOLEAN]
      BY <2>2, Zenon DEF Reauthorize, TypeOK
    <3> QED
      BY <2>2, <3>1, <3>2, <3>3 DEF Reauthorize, TypeOK
  <2>3. CASE PollFenced(d, j) \/ PollStop(d, j) \/ GraceOver(d, j)
    BY <2>3 DEF PollFenced, PollStop, GraceOver, TypeOK
  <2>4. CASE DispatchFails(d, j)
    BY <2>4 DEF DispatchFails, TypeOK
  <2>5. CASE \E next \in {"stopThenConfirm", "stopThenRecover"} : WorkerStops(d, j, next)
    BY <2>5 DEF WorkerStops, TypeOK
  <2> QED
    BY <1>4, <2>1, <2>2, <2>3, <2>4, <2>5
<1>5. ASSUME NEW d \in Dispatchers, NEW j \in Jobs,
             \/ ReadJob(d, j) \/ RebindJob(d, j) \/ ClaimJob(d, j) \/ RenewLease(d, j)
             \/ StopJob(d, j) \/ PublishRead(d, j)
             \/ \E o \in Completions : WorkerCompletes(d, j, o)
      PROVE TypeOK'
  <2>0. /\ job[j] \in JobRow /\ now \in Nat /\ sup[d][j] \in Dispatch
        /\ job[j].revision \in Nat /\ job[j].revision + 1 \in Nat
        /\ sup[d][j].deployment \in Deployments /\ ClaimToken(job[j]) \in AttemptFence
    <3>1. job[j] \in JobRow /\ now \in Nat /\ sup[d][j] \in Dispatch
      BY DEF TypeOK
    <3>2. job[j].revision \in Nat /\ job[j].revision + 1 \in Nat
      BY <3>1 DEF JobRow
    <3>3. sup[d][j].deployment \in Deployments
      BY <3>1 DEF Dispatch
    <3> QED
      BY <3>1, <3>2, <3>3, EventsKeepRowType
  <2> USE <2>0
  <2>1. CASE ReadJob(d, j)
    <3>1. CASE Return(d, j)
      BY <2>1, <3>1, ReturnType DEF ReadJob, TypeOK
    <3>2. CASE ~Return(d, j)
      <4>1. current \in Deployments
        BY <2>1, <3>2 DEF ReadJob, TypeOK
      <4> DEFINE pc == IF Live(job[j].owner) THEN "authorize" ELSE "rebind"
      <4>2. pc \in AfterClaim \cup BeforeClaim
        BY DEF BeforeClaim
      <4>3. sup' = [sup EXCEPT ![d][j] =
                      [sup[d][j] EXCEPT !.pc = pc, !.deployment = current,
                                        !.revision = job[j].revision,
                                        !.token = ClaimToken(job[j])]]
        BY <2>1, <3>2 DEF ReadJob, TypeOK
      <4> HIDE DEF pc
      <4>4. sup' \in [Dispatchers -> [Jobs -> Dispatch]]
        BY <4>1, <4>2, <4>3, DispatchUpdateType, SetDispatchType
      <4> QED
        BY <2>1, <4>4 DEF ReadJob, TypeOK
    <3> QED
      BY <3>1, <3>2
  <2>2. CASE RebindJob(d, j)
    <3>1. Rebind(job[j], sup[d][j].deployment, now) \in JobRow
      BY EventsKeepRowType
    <3>2. [sup[d][j] EXCEPT !.pc = "authorize", !.revision = job[j].revision + 1] \in Dispatch
      BY DispatchUpdateType, FirstIsDeployment DEF BeforeClaim
    <3>3. sup' \in [Dispatchers -> [Jobs -> Dispatch]]
      <4>1. CASE Return(d, j)
        BY <4>1, ReturnType
      <4>2. CASE ~Return(d, j)
        BY <2>2, <3>2, <4>2, SetDispatchType DEF RebindJob, TypeOK
      <4> QED
        BY <4>1, <4>2
    <3>4. job' \in [Jobs -> JobRow] /\ announced' \in [Jobs -> Nat]
      BY <2>2, <3>1, StoreType DEF RebindJob, TypeOK
    <3> QED
      BY <2>2, <3>3, <3>4 DEF RebindJob, TypeOK
  <2>3. CASE ClaimJob(d, j)
    <3>1. Claim(job[j], now) \in JobRow
      BY EventsKeepRowType
    <3>2. [sup[d][j] EXCEPT !.pc = "claimed", !.renewed = now] \in Dispatch
      BY DispatchUpdateType, FirstIsDeployment DEF AfterClaim
    <3>3. sup' \in [Dispatchers -> [Jobs -> Dispatch]]
      <4>1. CASE Return(d, j)
        BY <4>1, ReturnType
      <4>2. CASE ~Return(d, j)
        BY <2>3, <3>2, <4>2, SetDispatchType DEF ClaimJob, TypeOK
      <4> QED
        BY <4>1, <4>2
    <3>4. job' \in [Jobs -> JobRow] /\ announced' \in [Jobs -> Nat]
      BY <2>3, <3>1, StoreType DEF ClaimJob, TypeOK
    <3>5. attempts' \in [Jobs -> [1..MaxAttempts -> Outcomes \cup {"none", "open"}]]
      <4>1. CASE UNCHANGED attempts
        BY <4>1 DEF TypeOK
      <4>2. CASE OpenAttempt(j)
        BY <4>2 DEF TypeOK, OpenAttempt
      <4> QED
        BY <2>3, <4>1, <4>2 DEF ClaimJob
    <3> QED
      BY <2>3, <3>3, <3>4, <3>5 DEF ClaimJob, TypeOK
  <2>4. CASE RenewLease(d, j)
    <3>1. Renew(job[j], now) \in JobRow
      BY EventsKeepRowType
    <3>2. /\ [sup[d][j] EXCEPT !.pc = "run", !.renewed = now] \in Dispatch
          /\ [sup[d][j] EXCEPT !.pc = "stopThenRun", !.renewed = now] \in Dispatch
      BY DispatchUpdateType, FirstIsDeployment DEF AfterClaim
    <3>3. sup' \in [Dispatchers -> [Jobs -> Dispatch]]
      BY <2>4, <3>2, SetDispatchType DEF RenewLease, TypeOK
    <3>4. job' \in [Jobs -> JobRow] /\ announced' \in [Jobs -> Nat]
      BY <2>4, <3>1, StoreType DEF RenewLease, TypeOK
    <3> QED
      BY <2>4, <3>3, <3>4 DEF RenewLease, TypeOK
  <2>5. CASE StopJob(d, j)
    <3>1. RequestCancellation(job[j], now) \in JobRow
      BY EventsKeepRowType
    <3>2. AfterStop(sup[d][j]) \in Dispatch
      BY DispatchUpdateType DEF AfterClaim
    <3>3. sup' \in [Dispatchers -> [Jobs -> Dispatch]]
      <4>1. CASE Return(d, j)
        BY <4>1, ReturnType
      <4>2. CASE sup' = [sup EXCEPT ![d][j] = AfterStop(@)]
        BY <3>2, <4>2, SetDispatchType DEF TypeOK
      <4> QED
        BY <2>5, <4>1, <4>2 DEF StopJob
    <3>4. job' \in [Jobs -> JobRow] /\ announced' \in [Jobs -> Nat]
      BY <2>5, <3>1, StoreType DEF StopJob, TypeOK
    <3> QED
      BY <2>5, <3>3, <3>4 DEF StopJob, TypeOK
  <2>6. CASE PublishRead(d, j)
    <3>1. [sup[d][j] EXCEPT !.pc = "publishTx", !.revision = job[j].revision] \in Dispatch
      BY DispatchUpdateType, FirstIsDeployment DEF AfterClaim
    <3>2. sup' \in [Dispatchers -> [Jobs -> Dispatch]]
      <4>1. CASE Return(d, j)
        BY <4>1, ReturnType
      <4>2. CASE ~Return(d, j)
        BY <2>6, <3>1, <4>2, SetDispatchType DEF PublishRead, TypeOK
      <4> QED
        BY <4>1, <4>2
    <3>3. late' \in [Jobs -> SUBSET AttemptFence]
      BY <2>6, RecordLateType DEF PublishRead, TypeOK
    <3> QED
      BY <2>6, <3>2, <3>3 DEF PublishRead, TypeOK
  <2>7. ASSUME NEW o \in Completions, WorkerCompletes(d, j, o) PROVE TypeOK'
    <3>1. [sup[d][j] EXCEPT !.pc = "publish", !.outcome = o] \in Dispatch
      BY DispatchUpdateType, FirstIsDeployment DEF AfterClaim
    <3>2. sup' \in [Dispatchers -> [Jobs -> Dispatch]]
      BY <2>7, <3>1, SetDispatchType DEF WorkerCompletes, TypeOK
    <3> QED
      BY <2>7, <3>2 DEF WorkerCompletes, TypeOK
  <2> QED
    BY <1>5, <2>1, <2>2, <2>3, <2>4, <2>5, <2>6, <2>7
<1>6. ASSUME NEW d \in Dispatchers, NEW j \in Jobs,
             Confirm(d, j) \/ RecoverAfterLease(d, j) \/ PublishComplete(d, j)
      PROVE TypeOK'
  <2>0. /\ job[j] \in JobRow /\ now \in Nat /\ sup[d][j].outcome \in Completions
    BY DEF TypeOK, Dispatch
  <2>1. CASE Confirm(d, j)
    <3>1. ConfirmStopped(job[j], now) \in JobRow
      BY <2>0, EventsKeepRowType
    <3>2. sup' \in [Dispatchers -> [Jobs -> Dispatch]]
      BY <2>1, ReturnType, GotoType DEF Confirm, AfterClaim
    <3>3. /\ job' \in [Jobs -> JobRow] /\ announced' \in [Jobs -> Nat]
          /\ attempts' \in [Jobs -> [1..MaxAttempts -> Outcomes \cup {"none", "open"}]]
      <4>1. CASE Store(j, ConfirmStopped(job[j], now)) /\ CloseAttempt(j, "cancelled")
        BY <3>1, <4>1, StoreType, CloseAttemptType DEF Outcomes
      <4>2. CASE UNCHANGED <<job, announced, attempts>>
        BY <4>2 DEF TypeOK
      <4> QED
        BY <2>1, <4>1, <4>2 DEF Confirm
    <3> QED
      BY <2>1, <3>2, <3>3 DEF Confirm, TypeOK
  <2>2. CASE RecoverAfterLease(d, j)
    <3>1. Recovered(job[j]) \in JobRow
      BY RecoveredType
    <3>2. sup' \in [Dispatchers -> [Jobs -> Dispatch]]
      BY <2>2, ReturnType DEF RecoverAfterLease
    <3>3. /\ job' \in [Jobs -> JobRow] /\ announced' \in [Jobs -> Nat]
          /\ attempts' \in [Jobs -> [1..MaxAttempts -> Outcomes \cup {"none", "open"}]]
      <4>1. CASE Store(j, Recovered(job[j])) /\ CloseAttempt(j, "interrupted")
        BY <3>1, <4>1, StoreType, CloseAttemptType DEF Outcomes
      <4>2. CASE UNCHANGED <<job, announced, attempts>>
        BY <4>2 DEF TypeOK
      <4> QED
        BY <2>2, <4>1, <4>2 DEF RecoverAfterLease
    <3> QED
      BY <2>2, <3>2, <3>3 DEF RecoverAfterLease, TypeOK
  <2>3. CASE PublishComplete(d, j)
    <3>1. Complete(job[j], sup[d][j].outcome, now) \in JobRow
      BY <2>0, EventsKeepRowType
    <3>2. sup' \in [Dispatchers -> [Jobs -> Dispatch]]
      BY <2>3, ReturnType DEF PublishComplete
    <3>3. /\ job' \in [Jobs -> JobRow] /\ announced' \in [Jobs -> Nat]
          /\ attempts' \in [Jobs -> [1..MaxAttempts -> Outcomes \cup {"none", "open"}]]
      BY <2>0, <2>3, <3>1, StoreType, CloseAttemptType DEF PublishComplete, Outcomes
    <3> QED
      BY <2>3, <3>2, <3>3 DEF PublishComplete, TypeOK
  <2> QED
    BY <1>6, <2>1, <2>2, <2>3
<1>7. ASSUME NEW d \in Dispatchers, NEW j \in Jobs, PublishAbort(d, j) PROVE TypeOK'
  <2>1. [sup[d][j] EXCEPT !.pc = "publish", !.tries = sup[d][j].tries + 1] \in Dispatch
    <3>1. sup[d][j] \in Dispatch
      BY DEF TypeOK
    <3>2. sup[d][j].tries + 1 \in Nat
      BY <3>1 DEF Dispatch
    <3> QED
      BY <3>1, <3>2, Zenon DEF Dispatch, AfterClaim
  <2>2. sup' \in [Dispatchers -> [Jobs -> Dispatch]]
    <3>1. CASE Return(d, j) \/ Goto(d, j, "stopThenConfirm")
      BY <3>1, ReturnType, GotoType DEF AfterClaim
    <3>2. CASE sup' = [sup EXCEPT ![d][j] = [@ EXCEPT !.pc = "publish", !.tries = sup[d][j].tries + 1]]
      BY <2>1, <3>2, SetDispatchType DEF TypeOK
    <3> QED
      BY <1>7, <3>1, <3>2 DEF PublishAbort
  <2>3. late' \in [Jobs -> SUBSET AttemptFence] /\ asked' \in [Jobs -> BOOLEAN]
    <3>1. late' \in [Jobs -> SUBSET AttemptFence]
      BY <1>7, RecordLateType DEF PublishAbort, TypeOK
    <3>2. asked' \in [Jobs -> BOOLEAN]
      BY <1>7 DEF PublishAbort, TypeOK
    <3> QED
      BY <3>1, <3>2
  <2> QED
    BY <1>7, <2>2, <2>3 DEF PublishAbort, TypeOK
<1>8. ASSUME NEW d \in Dispatchers, Crash(d) PROVE TypeOK'
  <2>1. Idle \in Dispatch
    BY FirstIsDeployment DEF Idle, Dispatch, NoToken, AttemptFence, Completions
  <2> QED
    BY <1>8, <2>1 DEF Crash, TypeOK
<1>9. ASSUME NEW dep \in Deployments \cup {Off}, Activate(dep) PROVE TypeOK'
  BY <1>9 DEF Activate, TypeOK
<1>10. CASE Tick \/ StepBack
  BY <1>10 DEF Tick, StepBack, TypeOK
<1>11. CASE UNCHANGED vars
  BY <1>11 DEF vars, TypeOK
<1> QED
  BY <1>1, <1>2, <1>3, <1>4, <1>5, <1>6, <1>7, <1>8, <1>9, <1>10, <1>11
     DEF Next, Claiming, Supervising, WorkerReturns

\* The tables, the dispatches and the logs stay well-typed for ever: a row is
\* a row of the schema and a dispatch is at one of the points of run_one,
\* supervise or finish_completion, for any number of jobs and processes.
THEOREM TypeCorrect == Spec => []TypeOK
<1>1. Init => TypeOK
  <2>1. AbsentRow \in JobRow
    BY FirstIsDeployment DEF AbsentRow, JobRow, NoLease
  <2>2. Idle \in Dispatch
    BY FirstIsDeployment DEF Idle, Dispatch, NoToken, AttemptFence, Completions
  <2> QED
    BY <2>1, <2>2, FirstIsDeployment DEF Init, TypeOK
<1>2. TypeOK /\ [Next]_vars => TypeOK'
  BY StepKeepsType
<1> QED
  BY <1>1, <1>2, PTL DEF Spec

-----------------------------------------------------------------------------
(***************************************************************************)
(* Rows.  Whatever a step is, what it does to one job's rows is nothing or *)
(* one event of ExtensionJob that the row allows (RowEvent).  RowInv is    *)
(* kept by every such event, so the proof that the rows stay right does    *)
(* not look at dispatches again.                                           *)
(***************************************************************************)

\* A dispatch belongs to a job that was enqueued.
Started ==
    \A d \in Dispatchers, j \in Jobs : sup[d][j].pc # "idle" => job[j].state # "absent"

Logged(j, row) ==
    announced'[j] = IF row.state \in Ended THEN announced[j] + 1 ELSE announced[j]

\* The event leaves the attempt rows alone, opens one, or closes the last.
KeepsAttempts(j) == attempts'[j] = attempts[j]
Opens(j) == attempts'[j] = [attempts[j] EXCEPT ![job[j].attempt + 1] = "open"]
Closes(j, o) == attempts'[j] = [attempts[j] EXCEPT ![job[j].attempt] = o]

Writes(j, row) == job'[j] = row /\ Logged(j, row)

NoEvent(j) == job'[j] = job[j] /\ announced'[j] = announced[j] /\ KeepsAttempts(j)

EnqueueEvent(j) ==
    /\ job[j].state = "absent"
    /\ Cardinality(Waiting) < MaxQueued
    /\ \E i \in BOOLEAN, dep \in Deployments : Writes(j, QueuedRow(i, dep, now))
    /\ KeepsAttempts(j)
    /\ \A k \in Jobs \ {j} : job'[k] = job[k]

ClaimEvent(j) ==
    CanClaim(job[j], now) /\ Writes(j, Claim(job[j], now)) /\ Opens(j)

RebindEvent(j) ==
    /\ CanRebind(job[j], now)
    /\ \E dep \in Deployments : Writes(j, Rebind(job[j], dep, now))
    /\ KeepsAttempts(j)

RenewEvent(j) ==
    /\ \E d \in Dispatchers :
          sup[d][j].pc = "renew" /\ CanRenew(job[j], sup[d][j].token, now)
    /\ Writes(j, Renew(job[j], now))
    /\ KeepsAttempts(j)

CompleteEvent(j) ==
    /\ \E d \in Dispatchers :
          /\ sup[d][j].pc = "publishTx" /\ sup'[d][j].pc = "idle"
          /\ CanComplete(job[j], sup[d][j].token, now)
    /\ \E o \in Completions : Writes(j, Complete(job[j], o, now)) /\ Closes(j, o)

CancelEvent(j) ==
    /\ job[j].state # "absent"
    /\ ~job[j].cancel
    /\ CanRequestCancellation(job[j], now)
    /\ Writes(j, RequestCancellation(job[j], now))
    /\ KeepsAttempts(j)

ConfirmEvent(j) ==
    /\ \E d \in Dispatchers :
          sup[d][j].pc = "confirm" /\ CanConfirmStopped(job[j], sup[d][j].token, now)
    /\ Writes(j, ConfirmStopped(job[j], now))
    /\ Closes(j, "cancelled")

RecoverEvent(j) ==
    /\ CanRecoverExpired(job[j], now)
    /\ Writes(j, Recovered(job[j]))
    /\ Closes(j, "interrupted")

RowEvent(j) ==
    \/ NoEvent(j)
    \/ EnqueueEvent(j)
    \/ ClaimEvent(j)
    \/ RebindEvent(j)
    \/ RenewEvent(j)
    \/ CompleteEvent(j)
    \/ CancelEvent(j)
    \/ ConfirmEvent(j)
    \/ RecoverEvent(j)

KeepsToken(d, j) == sup'[d][j].token = sup[d][j].token
KeepsTries(d, j) == sup'[d][j].tries = sup[d][j].tries

\* Writing one dispatch leaves the others alone.
LEMMA SetDispatch ==
    ASSUME TypeOK, NEW d \in Dispatchers, NEW j \in Jobs, NEW s,
           sup' = [sup EXCEPT ![d][j] = s]
    PROVE  /\ sup'[d][j] = s
           /\ \A c \in Dispatchers, k \in Jobs :
                 c # d \/ k # j => sup'[c][k] = sup[c][k]
BY DEF TypeOK

LEMMA GotoWrites ==
    ASSUME TypeOK, NEW d \in Dispatchers, NEW j \in Jobs,
           NEW pc \in BeforeClaim \cup AfterClaim, Goto(d, j, pc)
    PROVE  /\ sup'[d][j].pc = pc /\ KeepsToken(d, j) /\ KeepsTries(d, j)
           /\ sup'[d][j].revision = sup[d][j].revision
           /\ \A c \in Dispatchers, k \in Jobs :
                 c # d \/ k # j => sup'[c][k] = sup[c][k]
<1>1. sup' = [sup EXCEPT ![d][j] = [sup[d][j] EXCEPT !.pc = pc]]
  BY DEF Goto, TypeOK
<1>2. sup[d][j] \in Dispatch
  BY DEF TypeOK
<1> DEFINE s == [sup[d][j] EXCEPT !.pc = pc]
<1>3. /\ s.pc = pc /\ s.token = sup[d][j].token /\ s.revision = sup[d][j].revision
      /\ s.tries = sup[d][j].tries
  BY <1>2 DEF Dispatch
<1> HIDE DEF s
<1>4. /\ sup'[d][j] = s
      /\ \A c \in Dispatchers, k \in Jobs : c # d \/ k # j => sup'[c][k] = sup[c][k]
  BY <1>1 DEF TypeOK, s
<1> QED
  BY <1>3, <1>4 DEF s, KeepsToken, KeepsTries

LEMMA ReturnWrites ==
    ASSUME TypeOK, NEW d \in Dispatchers, NEW j \in Jobs, Return(d, j)
    PROVE  /\ sup'[d][j].pc = "idle" /\ sup'[d][j].tries = 0
           /\ \A c \in Dispatchers, k \in Jobs :
                 c # d \/ k # j => sup'[c][k] = sup[c][k]
<1>1. sup' = [sup EXCEPT ![d][j] = Idle]
  BY DEF Return
<1>2. Idle.pc = "idle" /\ Idle.tries = 0
  BY DEF Idle
<1> HIDE DEF Idle
<1> QED
  BY <1>1, <1>2 DEF TypeOK

\* Storing a row of j writes that row and leaves the other jobs' alone.
LEMMA StoreWrites ==
    ASSUME TypeOK, NEW j \in Jobs, NEW row, Store(j, row)
    PROVE  /\ Writes(j, row)
           /\ \A k \in Jobs \ {j} : job'[k] = job[k] /\ announced'[k] = announced[k]
BY DEF TypeOK, Store, Transition, Announce, Writes, Logged

\* So does closing the last attempt of j.
LEMMA CloseAttemptCloses ==
    ASSUME TypeOK, NEW j \in Jobs, NEW o, CloseAttempt(j, o)
    PROVE  Closes(j, o) /\ \A k \in Jobs \ {j} : KeepsAttempts(k)
BY DEF TypeOK, CloseAttempt, Closes, KeepsAttempts

\* Every step is, for every job, nothing or one event the job's row allows.
LEMMA StepIsRowEvent ==
    ASSUME TypeOK, Started, Next, NEW k \in Jobs
    PROVE  RowEvent(k)
<1> USE DEF storeVars, boundVars
<1>0. ASSUME UNCHANGED <<job, attempts, announced>> PROVE RowEvent(k)
  BY <1>0 DEF RowEvent, NoEvent, KeepsAttempts
<1>1. ASSUME NEW j \in Jobs, UNCHANGED attempts PROVE KeepsAttempts(j)
  BY <1>1 DEF KeepsAttempts
<1>2. ASSUME NEW j \in Jobs, NEW i \in BOOLEAN, Enqueue(j, i) PROVE RowEvent(k)
  <2>1. current \in Deployments /\ QueuedRow(i, current, now).state = "queued"
    BY <1>2 DEF Enqueue, TypeOK, QueuedRow
  <2>2. CASE k = j
    BY <1>2, <2>1, <2>2 DEF Enqueue, TypeOK, RowEvent, EnqueueEvent, Writes, Logged,
                            KeepsAttempts, Ended, Closed
  <2>3. CASE k # j
    BY <1>2, <2>3 DEF Enqueue, TypeOK, RowEvent, NoEvent, KeepsAttempts
  <2> QED
    BY <2>2, <2>3
<1>3. ASSUME NEW j \in Jobs, CancelCommand(j) PROVE RowEvent(k)
  BY <1>1, <1>3, StoreWrites DEF CancelCommand, RowEvent, CancelEvent, NoEvent
<1>4. ASSUME NEW j \in Jobs, RecoverPage(j) PROVE RowEvent(k)
  BY <1>4, StoreWrites, CloseAttemptCloses DEF RecoverPage, RowEvent, RecoverEvent, NoEvent
<1>5. ASSUME NEW d \in Dispatchers, NEW j \in Jobs, Claiming(d, j) PROVE RowEvent(k)
  <2>1. CASE ReadJob(d, j) \/ Authorize(d, j) \/ Reauthorize(d, j)
    BY <1>0, <2>1 DEF ReadJob, Authorize, Reauthorize
  <2>2. CASE RebindJob(d, j)
    <3>1. sup[d][j].deployment \in Deployments
      BY DEF TypeOK, Dispatch
    <3>2. CASE UNCHANGED <<job, announced>>
      BY <1>0, <2>2, <3>2 DEF RebindJob
    <3>3. CASE CanRebind(job[j], now) /\ Store(j, Rebind(job[j], sup[d][j].deployment, now))
      BY <1>1, <2>2, <3>1, <3>3, StoreWrites DEF RebindJob, RowEvent, RebindEvent, NoEvent
    <3> QED
      BY <2>2, <3>2, <3>3 DEF RebindJob
  <2>3. CASE ClaimJob(d, j)
    <3>1. CASE UNCHANGED <<job, announced, attempts>>
      BY <1>0, <3>1
    <3>2. CASE /\ CanClaim(job[j], now) /\ Store(j, Claim(job[j], now))
               /\ OpenAttempt(j)
      <4>1. Opens(j) /\ \A i \in Jobs \ {j} : KeepsAttempts(i)
        BY <3>2 DEF TypeOK, OpenAttempt, Opens, KeepsAttempts
      <4> QED
        BY <3>2, <4>1, StoreWrites DEF RowEvent, ClaimEvent, NoEvent
    <3> QED
      BY <2>3, <3>1, <3>2 DEF ClaimJob
  <2> QED
    BY <1>5, <2>1, <2>2, <2>3 DEF Claiming
<1>6. ASSUME NEW d \in Dispatchers, NEW j \in Jobs, Supervising(d, j) PROVE RowEvent(k)
  <2>0. sup[d][j].outcome \in Completions
    BY DEF TypeOK, Dispatch
  <2>1. CASE PollFenced(d, j) \/ PollStop(d, j) \/ GraceOver(d, j)
             \/ PublishRead(d, j) \/ PublishAbort(d, j)
    BY <1>0, <2>1 DEF PollFenced, PollStop, GraceOver, PublishRead, PublishAbort
  <2>2. CASE RenewLease(d, j)
    <3>1. CASE UNCHANGED <<job, announced>>
      BY <1>0, <2>2, <3>1 DEF RenewLease
    <3>2. CASE CanRenew(job[j], sup[d][j].token, now) /\ Store(j, Renew(job[j], now))
      BY <1>1, <2>2, <3>2, StoreWrites DEF RenewLease, RowEvent, RenewEvent, NoEvent
    <3> QED
      BY <2>2, <3>1, <3>2 DEF RenewLease
  <2>3. CASE StopJob(d, j)
    <3>1. job[j].state # "absent"
      BY <2>3 DEF StopJob, Started
    <3>2. CASE UNCHANGED <<job, announced>>
      BY <1>0, <2>3, <3>2 DEF StopJob
    <3>3. CASE /\ ~job[j].cancel /\ CanRequestCancellation(job[j], now)
               /\ Store(j, RequestCancellation(job[j], now))
      BY <1>1, <2>3, <3>1, <3>3, StoreWrites DEF StopJob, RowEvent, CancelEvent, NoEvent
    <3> QED
      BY <2>3, <3>2, <3>3 DEF StopJob
  <2>4. CASE Confirm(d, j)
    <3>1. CASE UNCHANGED <<job, announced, attempts>>
      BY <1>0, <3>1
    <3>2. CASE /\ CanConfirmStopped(job[j], sup[d][j].token, now)
               /\ Store(j, ConfirmStopped(job[j], now)) /\ CloseAttempt(j, "cancelled")
      BY <2>4, <3>2, StoreWrites, CloseAttemptCloses DEF Confirm, RowEvent, ConfirmEvent, NoEvent
    <3> QED
      BY <2>4, <3>1, <3>2 DEF Confirm
  <2>5. CASE RecoverAfterLease(d, j)
    <3>1. CASE UNCHANGED <<job, announced, attempts>>
      BY <1>0, <3>1
    <3>2. CASE /\ CanRecoverExpired(job[j], now)
               /\ Store(j, Recovered(job[j])) /\ CloseAttempt(j, "interrupted")
      BY <3>2, StoreWrites, CloseAttemptCloses DEF RowEvent, RecoverEvent, NoEvent
    <3> QED
      BY <2>5, <3>1, <3>2 DEF RecoverAfterLease
  <2>6. CASE PublishComplete(d, j)
    <3>1. sup'[d][j].pc = "idle"
      BY <2>6, ReturnWrites DEF PublishComplete
    <3> QED
      BY <2>0, <2>6, <3>1, StoreWrites, CloseAttemptCloses
         DEF PublishComplete, RowEvent, CompleteEvent, NoEvent
  <2> QED
    BY <1>6, <2>1, <2>2, <2>3, <2>4, <2>5, <2>6 DEF Supervising
<1>7. ASSUME NEW d \in Dispatchers, NEW j \in Jobs,
             ScanQueued(d, j) \/ WorkerReturns(d, j) \/ PollRenew(d, j) \/ DispatchFails(d, j)
      PROVE RowEvent(k)
  BY <1>0, <1>7 DEF ScanQueued, WorkerReturns, WorkerCompletes, WorkerStops, PollRenew,
                    DispatchFails
<1>8. CASE \/ \E d \in Dispatchers : Crash(d)
           \/ \E dep \in Deployments \cup {Off} : Activate(dep)
           \/ Tick \/ StepBack
  BY <1>0, <1>8 DEF Crash, Activate, Tick, StepBack
<1> QED
  BY <1>2, <1>3, <1>4, <1>5, <1>6, <1>7, <1>8 DEF Next

\* What holds of one job's rows.  `validate` alone is not inductive: it lets
\* a queued row have used all its attempts, and nothing on the way to the
\* claim checks that again.
AttemptsAgree(j) ==
    \A a \in 1..MaxAttempts :
        /\ a < job[j].attempt => attempts[j][a] = "interrupted"
        /\ a > job[j].attempt => attempts[j][a] = "none"
        /\ a = job[j].attempt =>
              attempts[j][a] = CASE job[j].state = "running" -> "open"
                                 [] job[j].state = "queued" -> "interrupted"
                                 [] OTHER -> job[j].state

RowInv(j) ==
    /\ job[j].state = "absent" => job[j].attempt = 0 /\ job[j].fence = 0 /\ job[j].revision = 0
    /\ job[j].state = "queued" => job[j].attempt < MaxAttempts
    /\ job[j].state # "absent" => Validate(job[j])
    /\ AttemptsAgree(j)
    /\ announced[j] > 0 <=> job[j].state \in Ended

\* `claim` leaves a row `validate` accepts, as long as an attempt is left.
LEMMA ClaimKeepsValid ==
    ASSUME NEW r \in JobRow, NEW t \in Nat, Validate(r), r.state = "queued",
           r.attempt < MaxAttempts
    PROVE  Validate(Claim(r, t))
<1>0. SUFFICES ASSUME NEW c, c = Claim(r, t)
               PROVE  Validate(c)
  OBVIOUS
<1>1. /\ c.state = "running" /\ c.attempt = r.attempt + 1 /\ c.fence = r.fence + 1
      /\ c.lease = t + LeaseTicks /\ c.idempotent = r.idempotent
  BY <1>0 DEF Claim, JobRow
<1>2. /\ r.attempt \in Nat /\ r.fence = 2 * r.attempt
      /\ r.attempt > 0 => r.idempotent
  BY DEF Validate, JobRow
<1>3. c.attempt <= c.fence /\ c.attempt <= MaxAttempts /\ c.attempt > 0
  BY <1>1, <1>2, MaxAttemptsPositive
<1>4. c.fence = 2 * c.attempt - 1 /\ c.lease > NoLease
  BY <1>1, <1>2, LeasePositive DEF NoLease
<1>5. ~c.idempotent => c.attempt <= 1
  BY <1>1, <1>2
<1> QED
  BY <1>1, <1>3, <1>4, <1>5 DEF Validate

\* Every event keeps the rows of its job right.
LEMMA EventKeepsRowInv ==
    ASSUME TypeOK, TypeOK', NEW j \in Jobs, RowInv(j), RowEvent(j)
    PROVE  RowInv(j)'
<1> DEFINE r == job[j]
<1>0. /\ r \in JobRow /\ now \in Nat /\ announced[j] \in Nat
      /\ attempts[j] \in [1..MaxAttempts -> Outcomes \cup {"none", "open"}]
  BY DEF TypeOK
<1> USE <1>0, MaxAttemptsPositive, LeasePositive DEF RowInv
<1>1. CASE NoEvent(j)
  BY <1>1 DEF NoEvent, KeepsAttempts, AttemptsAgree
<1>2. CASE EnqueueEvent(j)
  BY <1>2 DEF EnqueueEvent, Writes, Logged, KeepsAttempts, QueuedRow, AttemptsAgree,
              Validate, NoLease, Ended, Closed
<1>3. CASE ClaimEvent(j)
  <2>1. /\ job'[j].state = "running" /\ job'[j].attempt = r.attempt + 1
        /\ announced'[j] = announced[j]
    BY <1>3 DEF ClaimEvent, Writes, Logged, Claim, JobRow, Ended, Closed
  <2>2. Validate(job'[j])
    <3>1. job'[j] = Claim(r, now) /\ r.state = "queued"
      BY <1>3 DEF ClaimEvent, Writes, CanClaim
    <3> QED
      BY <3>1, ClaimKeepsValid
  <2>3. AttemptsAgree(j)'
    BY SMTT(30), <1>3, <2>1 DEF ClaimEvent, CanClaim, Opens, AttemptsAgree, JobRow
  <2>4. r.state = "queued"
    BY <1>3 DEF ClaimEvent, CanClaim
  <2> QED
    BY <2>1, <2>2, <2>3, <2>4 DEF Ended, Closed
<1>4. CASE RebindEvent(j)
  <2>1. /\ job'[j].state = "queued" /\ r.state = "queued" /\ job'[j].attempt = r.attempt
        /\ announced'[j] = announced[j]
    BY <1>4 DEF RebindEvent, CanRebind, Writes, Logged, Rebind, JobRow, Ended, Closed
  <2>2. Validate(job'[j])
    BY <1>4 DEF RebindEvent, CanRebind, Writes, Rebind, Validate, JobRow
  <2>3. AttemptsAgree(j)'
    BY <1>4, <2>1 DEF RebindEvent, KeepsAttempts, AttemptsAgree
  <2> QED
    BY <2>1, <2>2, <2>3 DEF Ended, Closed
<1>5. CASE RenewEvent(j)
  <2>1. /\ job'[j].state = "running" /\ r.state = "running" /\ job'[j].attempt = r.attempt
        /\ announced'[j] = announced[j]
    BY <1>5 DEF RenewEvent, CanRenew, CheckRunningToken, HoldsToken, Writes, Logged, Renew,
                JobRow, Ended, Closed
  <2>2. Validate(job'[j])
    <3>1. /\ job'[j].fence = r.fence /\ job'[j].lease = now + LeaseTicks
          /\ job'[j].idempotent = r.idempotent
      BY <1>5 DEF RenewEvent, Writes, Renew, JobRow
    <3> QED
      BY <2>1, <3>1 DEF Validate, JobRow, NoLease
  <2>3. AttemptsAgree(j)'
    BY <1>5, <2>1 DEF RenewEvent, KeepsAttempts, AttemptsAgree
  <2> QED
    BY <2>1, <2>2, <2>3 DEF Ended, Closed
<1>6. CASE CompleteEvent(j)
  <2>0. PICK o \in Completions : Writes(j, Complete(r, o, now)) /\ Closes(j, o)
    BY <1>6 DEF CompleteEvent
  <2>1. /\ job'[j].state = o /\ r.state = "running" /\ job'[j].attempt = r.attempt
        /\ announced'[j] = announced[j] + 1
    BY <1>6, <2>0 DEF CompleteEvent, CanComplete, CheckRunningToken, HoldsToken, Writes,
                      Logged, Complete, JobRow, Ended, Closed, Completions
  <2>2. Validate(job'[j])
    BY <2>0, <2>1 DEF Writes, Complete, Completions, Validate, JobRow, NoLease
  <2>3. AttemptsAgree(j)'
    BY <2>0, <2>1 DEF Closes, AttemptsAgree, JobRow, Completions
  <2> QED
    BY <2>1, <2>2, <2>3 DEF Ended, Closed, Completions
<1>7. CASE CancelEvent(j)
  <2>1. /\ job'[j].state = IF r.state # "queued" THEN r.state
                           ELSE IF r.attempt = 0 THEN "cancelled" ELSE "interrupted"
        /\ job'[j].attempt = r.attempt
        /\ announced'[j] = IF job'[j].state \in Ended THEN announced[j] + 1 ELSE announced[j]
    BY <1>7 DEF CancelEvent, Writes, Logged, RequestCancellation, JobRow
  <2>2. r.state \in {"queued", "running", "interrupted"}
    BY <1>7 DEF CancelEvent, CanRequestCancellation, Closed, JobRow, JobStates
  <2>3. Validate(job'[j])
    BY <1>7, <2>2 DEF CancelEvent, Writes, RequestCancellation, Validate, JobRow, NoLease
  <2>4. AttemptsAgree(j)'
    BY <1>7, <2>1, <2>2 DEF CancelEvent, KeepsAttempts, AttemptsAgree, JobRow
  <2> QED
    BY <2>1, <2>2, <2>3, <2>4 DEF Ended, Closed
<1>8. CASE ConfirmEvent(j)
  <2>1. /\ job'[j].state = "cancelled" /\ r.state = "running" /\ job'[j].attempt = r.attempt
        /\ announced'[j] = announced[j] + 1
    BY <1>8 DEF ConfirmEvent, CanConfirmStopped, CheckRunningToken, HoldsToken, Writes,
                Logged, ConfirmStopped, JobRow, Ended, Closed
  <2>2. Validate(job'[j])
    BY <1>8, <2>1 DEF ConfirmEvent, CanConfirmStopped, Writes, ConfirmStopped, Validate,
                      JobRow, NoLease
  <2>3. AttemptsAgree(j)'
    BY <1>8, <2>1 DEF ConfirmEvent, Closes, AttemptsAgree, JobRow
  <2> QED
    BY <2>1, <2>2, <2>3 DEF Ended, Closed
<1>9. CASE RecoverEvent(j)
  <2>1. /\ job'[j].state \in {"queued", "interrupted"} /\ r.state = "running"
        /\ job'[j].attempt = r.attempt
        /\ job'[j].state = "queued" => r.attempt < MaxAttempts
        /\ announced'[j] = IF job'[j].state \in Ended THEN announced[j] + 1 ELSE announced[j]
    BY <1>9 DEF RecoverEvent, CanRecoverExpired, Writes, Logged, Recovered, RecoverExpired,
                RetryInterrupted, CanRetryInterrupted, JobRow
  <2>2. Validate(job'[j])
    BY SMTT(30), <1>9, <2>1 DEF RecoverEvent, Writes, Recovered, RecoverExpired, RetryInterrupted,
                      CanRetryInterrupted, Validate, JobRow, NoLease
  <2>3. AttemptsAgree(j)'
    BY <1>9, <2>1 DEF RecoverEvent, Closes, AttemptsAgree, JobRow
  <2> QED
    BY <2>1, <2>2, <2>3 DEF Ended, Closed
<1> QED
  BY <1>1, <1>2, <1>3, <1>4, <1>5, <1>6, <1>7, <1>8, <1>9 DEF RowEvent

-----------------------------------------------------------------------------
(***************************************************************************)
(* Dispatches.  What a step does to one dispatch of one job.               *)
(***************************************************************************)

ScanStep(d, j) ==
    /\ job[j].state = "queued"
    /\ sup[d][j].pc = "idle"
    /\ sup'[d][j].pc = "read"
    /\ KeepsTries(d, j)

ReadStep(d, j) ==
    /\ sup[d][j].pc = "read"
    /\ sup'[d][j].pc \in {"rebind", "authorize"}
    /\ sup'[d][j].revision = job[j].revision
    /\ sup'[d][j].token = ClaimToken(job[j])
    /\ KeepsTries(d, j)
    /\ job'[j] = job[j]

RebindStep(d, j) ==
    /\ sup[d][j].pc = "rebind"
    /\ sup'[d][j].pc = "authorize"
    /\ sup[d][j].revision = job[j].revision
    /\ sup'[d][j].revision = job[j].revision + 1
    /\ KeepsToken(d, j) /\ KeepsTries(d, j)
    /\ \E dep \in Deployments : job'[j] = Rebind(job[j], dep, now)

AuthorizeStep(d, j) ==
    /\ sup[d][j].pc = "authorize"
    /\ sup'[d][j].pc = "claim"
    /\ sup'[d][j].revision = sup[d][j].revision
    /\ KeepsToken(d, j) /\ KeepsTries(d, j)

ClaimStep(d, j) ==
    /\ sup[d][j].pc = "claim"
    /\ sup'[d][j].pc = "claimed"
    /\ CanClaim(job[j], now)
    /\ sup[d][j].revision = job[j].revision
    /\ KeepsToken(d, j) /\ KeepsTries(d, j)
    /\ job'[j] = Claim(job[j], now)
    /\ Opens(j)
    /\ \A c \in Dispatchers \ {d} : sup'[c][j] = sup[c][j]

Working == {"claimed", "run", "renew", "stopThenRun"}
Stopping == {"stopThenConfirm", "stopThenRecover", "confirm", "recover"}

\* How a claimed dispatch goes on, its publication apart: a worker that no longer
\* works is stopped, and one that is stopped does not publish.
Moves(pc, next) ==
    \/ pc \in Working /\ next \in (Working \ {"claimed"}) \cup Stopping \cup {"publish"}
    \/ pc \in Stopping /\ next \in Stopping
    \/ pc = "publishTx" /\ next = "stopThenConfirm"

MoveStep(d, j) == Moves(sup[d][j].pc, sup'[d][j].pc) /\ KeepsTries(d, j)

PublishReadStep(d, j) ==
    /\ sup[d][j].pc = "publish"
    /\ sup'[d][j].pc = "publishTx"
    /\ HoldsToken(job[j], sup[d][j].token)
    /\ sup'[d][j].revision = job[j].revision
    /\ KeepsTries(d, j)
    /\ job'[j] = job[j]

PublishAgainStep(d, j) ==
    /\ sup[d][j].pc = "publishTx"
    /\ sup'[d][j].pc = "publish"
    /\ sup[d][j].revision # job[j].revision
    /\ sup'[d][j].tries = sup[d][j].tries + 1
    /\ job'[j] = job[j]

OnwardStep(d, j) ==
    /\ sup[d][j].pc \in AfterClaim
    /\ sup'[d][j].pc \in AfterClaim \ {"claimed"}
    /\ KeepsToken(d, j)
    /\ MoveStep(d, j) \/ PublishReadStep(d, j) \/ PublishAgainStep(d, j)

DispatchStep(d, j) ==
    \/ sup'[d][j] = sup[d][j]
    \/ sup'[d][j].pc = "idle" /\ sup'[d][j].tries = 0
    \/ ScanStep(d, j)
    \/ ReadStep(d, j)
    \/ RebindStep(d, j)
    \/ AuthorizeStep(d, j)
    \/ ClaimStep(d, j)
    \/ OnwardStep(d, j)

\* Every step is, for every dispatch, one of these.
LEMMA StepIsDispatchStep ==
    ASSUME TypeOK, Next, NEW c \in Dispatchers, NEW k \in Jobs
    PROVE  DispatchStep(c, k)
<1> USE DEF storeVars, boundVars
<1>0. ASSUME UNCHANGED sup PROVE DispatchStep(c, k)
  BY <1>0 DEF DispatchStep
<1>1. ASSUME NEW d \in Dispatchers, NEW j \in Jobs, Return(d, j) PROVE DispatchStep(c, k)
  BY <1>1, ReturnWrites DEF DispatchStep
<1>2. ASSUME NEW d \in Dispatchers, NEW j \in Jobs, NEW pc, Moves(sup[d][j].pc, pc),
             Goto(d, j, pc)
      PROVE DispatchStep(c, k)
  <2>1. sup[d][j].pc \in AfterClaim /\ pc \in AfterClaim \ {"claimed"}
    BY <1>2 DEF Moves, Working, Stopping, AfterClaim
  <2> QED
    BY <1>2, <2>1, GotoWrites DEF DispatchStep, OnwardStep, MoveStep
<1>3. ASSUME NEW d \in Dispatchers, NEW j \in Jobs, NEW s, Moves(sup[d][j].pc, s.pc),
             s.token = sup[d][j].token, s.tries = sup[d][j].tries,
             sup' = [sup EXCEPT ![d][j] = s]
      PROVE DispatchStep(c, k)
  <2>1. sup[d][j].pc \in AfterClaim /\ s.pc \in AfterClaim \ {"claimed"}
    BY <1>3 DEF Moves, Working, Stopping, AfterClaim
  <2> QED
    BY <1>3, <2>1, SetDispatch DEF DispatchStep, OnwardStep, MoveStep, KeepsToken, KeepsTries
<1>4. ASSUME NEW d \in Dispatchers, NEW j \in Jobs, ScanQueued(d, j) PROVE DispatchStep(c, k)
  BY <1>4, GotoWrites DEF ScanQueued, Active, DispatchStep, ScanStep, BeforeClaim
<1>5. ASSUME NEW d \in Dispatchers, NEW j \in Jobs, Claiming(d, j) PROVE DispatchStep(c, k)
  <2>0. sup[d][j] \in Dispatch /\ job[j] \in JobRow
    BY DEF TypeOK
  <2>1. CASE ReadJob(d, j)
    <3>1. CASE Return(d, j)
      BY <1>1, <3>1
    <3>2. CASE ~Return(d, j)
      <4> DEFINE s == [sup[d][j] EXCEPT
                         !.pc = IF Live(job[j].owner) THEN "authorize" ELSE "rebind",
                         !.deployment = current, !.revision = job[j].revision,
                         !.token = ClaimToken(job[j])]
      <4>1. sup' = [sup EXCEPT ![d][j] = s]
        BY <2>1, <3>2 DEF ReadJob, TypeOK
      <4>2. /\ s.pc \in {"rebind", "authorize"} /\ s.revision = job[j].revision
            /\ s.token = ClaimToken(job[j]) /\ s.tries = sup[d][j].tries
        BY <2>0 DEF Dispatch
      <4> HIDE DEF s
      <4> QED
        BY <2>1, <4>1, <4>2, SetDispatch DEF ReadJob, DispatchStep, ReadStep, KeepsTries
    <3> QED
      BY <3>1, <3>2
  <2>2. CASE RebindJob(d, j)
    <3>1. CASE Return(d, j)
      BY <1>1, <3>1
    <3>2. CASE ~Return(d, j)
      <4> DEFINE s == [sup[d][j] EXCEPT !.pc = "authorize", !.revision = job[j].revision + 1]
      <4>1. /\ sup' = [sup EXCEPT ![d][j] = s] /\ sup[d][j].revision = job[j].revision
            /\ Store(j, Rebind(job[j], sup[d][j].deployment, now))
        BY <2>2, <3>2 DEF RebindJob, TypeOK
      <4>2. /\ s.pc = "authorize" /\ s.revision = job[j].revision + 1
            /\ s.token = sup[d][j].token /\ s.tries = sup[d][j].tries
            /\ sup[d][j].deployment \in Deployments
        BY <2>0 DEF Dispatch
      <4>3. job'[j] = Rebind(job[j], sup[d][j].deployment, now)
        BY <4>1, StoreWrites DEF Writes
      <4> HIDE DEF s
      <4> QED
        BY <2>2, <4>1, <4>2, <4>3, SetDispatch
           DEF RebindJob, DispatchStep, RebindStep, KeepsToken, KeepsTries
    <3> QED
      BY <3>1, <3>2
  <2>3. CASE Authorize(d, j)
    BY <1>1, <2>3, GotoWrites DEF Authorize, DispatchStep, AuthorizeStep, BeforeClaim
  <2>4. CASE ClaimJob(d, j)
    <3>1. CASE Return(d, j)
      BY <1>1, <3>1
    <3>2. CASE ~Return(d, j)
      <4> DEFINE s == [sup[d][j] EXCEPT !.pc = "claimed", !.renewed = now]
      <4>1. /\ sup' = [sup EXCEPT ![d][j] = s] /\ sup[d][j].revision = job[j].revision
            /\ Store(j, Claim(job[j], now)) /\ OpenAttempt(j) /\ CanClaim(job[j], now)
        BY <2>4, <3>2 DEF ClaimJob, TypeOK
      <4>2. /\ s.pc = "claimed" /\ s.token = sup[d][j].token
            /\ s.tries = sup[d][j].tries
        BY <2>0 DEF Dispatch
      <4>3. job'[j] = Claim(job[j], now) /\ Opens(j)
        BY <4>1, StoreWrites DEF Writes, OpenAttempt, Opens, TypeOK
      <4> HIDE DEF s
      <4> QED
        BY <2>4, <4>1, <4>2, <4>3, SetDispatch
           DEF ClaimJob, DispatchStep, ClaimStep, KeepsToken, KeepsTries
    <3> QED
      BY <3>1, <3>2
  <2>5. CASE Reauthorize(d, j)
    BY <1>2, <2>5 DEF Reauthorize, Moves, Working, Stopping
  <2> QED
    BY <1>5, <2>1, <2>2, <2>3, <2>4, <2>5 DEF Claiming
<1>6. ASSUME NEW d \in Dispatchers, NEW j \in Jobs,
             Supervising(d, j) \/ WorkerReturns(d, j) \/ PollRenew(d, j)
      PROVE DispatchStep(c, k)
  <2>0. sup[d][j] \in Dispatch
    BY DEF TypeOK
  <2>1. CASE PollFenced(d, j) \/ PollStop(d, j) \/ GraceOver(d, j) \/ Confirm(d, j)
             \/ RecoverAfterLease(d, j) \/ PublishComplete(d, j) \/ PollRenew(d, j)
    BY <1>1, <1>2, <2>1 DEF PollFenced, PollStop, GraceOver, Confirm, RecoverAfterLease,
                            PublishComplete, PollRenew, Moves, Working, Stopping
  <2>2. CASE RenewLease(d, j)
    <3> DEFINE s(pc) == [sup[d][j] EXCEPT !.pc = pc, !.renewed = now]
    <3>1. \A pc \in {"run", "stopThenRun"} :
            /\ Moves(sup[d][j].pc, s(pc).pc)
            /\ s(pc).token = sup[d][j].token /\ s(pc).tries = sup[d][j].tries
      BY <2>0, <2>2 DEF Dispatch, RenewLease, Moves, Working
    <3>2. \E pc \in {"run", "stopThenRun"} : sup' = [sup EXCEPT ![d][j] = s(pc)]
      BY <2>2 DEF RenewLease, TypeOK
    <3> HIDE DEF s
    <3> QED
      BY <1>3, <3>1, <3>2
  <2>3. CASE StopJob(d, j)
    <3>1. CASE Return(d, j)
      BY <1>1, <3>1
    <3>2. CASE sup' = [sup EXCEPT ![d][j] = AfterStop(@)]
      <4>1. /\ Moves(sup[d][j].pc, AfterStop(sup[d][j]).pc)
            /\ AfterStop(sup[d][j]).token = sup[d][j].token
            /\ AfterStop(sup[d][j]).tries = sup[d][j].tries
        BY <2>0, <2>3 DEF StopJob, AfterStop, Dispatch, Moves, Working, Stopping
      <4>2. sup' = [sup EXCEPT ![d][j] = AfterStop(sup[d][j])]
        BY <3>2 DEF TypeOK
      <4> QED
        BY <1>3, <4>1, <4>2
    <3> QED
      BY <2>3, <3>1, <3>2 DEF StopJob
  <2>4. CASE PublishRead(d, j)
    <3> DEFINE s == [sup[d][j] EXCEPT !.pc = "publishTx", !.revision = job[j].revision]
    <3>1. /\ s.pc = "publishTx" /\ s.token = sup[d][j].token
          /\ s.tries = sup[d][j].tries /\ s.revision = job[j].revision
      BY <2>0 DEF Dispatch
    <3>2. \/ Return(d, j)
          \/ HoldsToken(job[j], sup[d][j].token) /\ sup' = [sup EXCEPT ![d][j] = s]
      BY <2>4 DEF PublishRead, TypeOK
    <3>3. sup[d][j].pc = "publish" /\ job' = job
      BY <2>4 DEF PublishRead
    <3> HIDE DEF s
    <3> QED
      BY <1>1, <3>1, <3>2, <3>3, SetDispatch
         DEF DispatchStep, OnwardStep, PublishReadStep, KeepsToken, KeepsTries, AfterClaim
  <2>5. CASE PublishAbort(d, j)
    <3> DEFINE s == [sup[d][j] EXCEPT !.pc = "publish", !.tries = sup[d][j].tries + 1]
    <3>1. /\ s.pc = "publish" /\ s.token = sup[d][j].token
          /\ s.tries = sup[d][j].tries + 1
      BY <2>0 DEF Dispatch
    <3>2. \/ Return(d, j) \/ Goto(d, j, "stopThenConfirm")
          \/ sup[d][j].revision # job[j].revision /\ sup' = [sup EXCEPT ![d][j] = s]
      BY <2>5 DEF PublishAbort, TypeOK
    <3>3. sup[d][j].pc = "publishTx" /\ job' = job
      BY <2>5 DEF PublishAbort
    <3>4. Moves(sup[d][j].pc, "stopThenConfirm")
      BY <3>3 DEF Moves
    <3>5. sup' = [sup EXCEPT ![d][j] = s] /\ sup[d][j].revision # job[j].revision
            => DispatchStep(c, k)
      <4> HIDE DEF s
      <4> QED
        BY <3>1, <3>3, SetDispatch
           DEF DispatchStep, OnwardStep, PublishAgainStep, KeepsToken, AfterClaim
    <3> HIDE DEF s
    <3> QED
      BY <1>1, <1>2, <3>2, <3>4, <3>5
  <2>6. ASSUME NEW o \in Completions, WorkerCompletes(d, j, o) PROVE DispatchStep(c, k)
    <3> DEFINE s == [sup[d][j] EXCEPT !.pc = "publish", !.outcome = o]
    <3>1. /\ Moves(sup[d][j].pc, s.pc)
          /\ s.token = sup[d][j].token /\ s.tries = sup[d][j].tries
      BY <2>0, <2>6 DEF Dispatch, WorkerCompletes, Moves, Working
    <3>2. sup' = [sup EXCEPT ![d][j] = s]
      BY <2>6 DEF WorkerCompletes, TypeOK
    <3> HIDE DEF s
    <3> QED
      BY <1>3, <3>1, <3>2
  <2>7. ASSUME NEW next \in {"stopThenConfirm", "stopThenRecover"}, WorkerStops(d, j, next)
        PROVE DispatchStep(c, k)
    BY <1>2, <2>7 DEF WorkerStops, Moves, Working, Stopping
  <2> QED
    BY <1>6, <2>1, <2>2, <2>3, <2>4, <2>5, <2>6, <2>7 DEF Supervising, WorkerReturns
<1>7. ASSUME NEW d \in Dispatchers, Crash(d) PROVE DispatchStep(c, k)
  BY <1>7 DEF Crash, DispatchStep, TypeOK, Idle
<1>8. CASE \/ \E j \in Jobs :
                 (\E i \in BOOLEAN : Enqueue(j, i)) \/ CancelCommand(j) \/ RecoverPage(j)
           \/ \E dep \in Deployments \cup {Off} : Activate(dep)
           \/ Tick \/ StepBack
  BY <1>0, <1>8 DEF Enqueue, CancelCommand, RecoverPage, Activate, Tick, StepBack
<1>9. ASSUME NEW d \in Dispatchers, NEW j \in Jobs, DispatchFails(d, j)
      PROVE DispatchStep(c, k)
  BY <1>1, <1>9 DEF DispatchFails
<1> QED
  BY <1>4, <1>5, <1>6, <1>7, <1>8, <1>9 DEF Next

-----------------------------------------------------------------------------
(***************************************************************************)
(* The inductive invariant.                                                *)
(***************************************************************************)

\* Before the claim, a dispatch whose revision is still the row's predicts
\* the token the claim will issue; after it, the row's fence has reached the
\* dispatch's token and never falls behind it again.
TokenInv(d, j) ==
    /\ sup[d][j].pc \in {"rebind", "authorize", "claim"} =>
          /\ sup[d][j].revision <= job[j].revision
          /\ sup[d][j].revision = job[j].revision => sup[d][j].token = ClaimToken(job[j])
    /\ sup[d][j].pc \in AfterClaim => sup[d][j].token.fence <= job[j].fence

Inv ==
    /\ TypeOK
    /\ Started
    /\ \A j \in Jobs : RowInv(j)
    /\ \A d \in Dispatchers, j \in Jobs : TokenInv(d, j)
    /\ TokensUnique

\* An event leaves the row as it is or raises its revision; the fence never
\* goes down, and an enqueued job stays enqueued.
LEMMA EventsGrow ==
    ASSUME TypeOK, NEW j \in Jobs, RowInv(j), RowEvent(j)
    PROVE  /\ job'[j] = job[j] \/ job'[j].revision > job[j].revision
           /\ job'[j].fence >= job[j].fence
           /\ job[j].state # "absent" => job'[j].state # "absent"
<1>0. job[j] \in JobRow
  BY DEF TypeOK
<1> USE <1>0 DEF JobRow
<1>1. CASE NoEvent(j)
  BY <1>1 DEF NoEvent
<1>2. CASE EnqueueEvent(j)
  BY <1>2 DEF EnqueueEvent, Writes, QueuedRow, RowInv
<1>3. CASE ClaimEvent(j)
  BY <1>3 DEF ClaimEvent, Writes, Claim
<1>4. CASE RebindEvent(j)
  BY <1>4 DEF RebindEvent, Writes, Rebind
<1>5. CASE RenewEvent(j)
  BY <1>5 DEF RenewEvent, Writes, Renew
<1>6. CASE CompleteEvent(j)
  BY <1>6 DEF CompleteEvent, Writes, Complete, Completions
<1>7. CASE CancelEvent(j)
  BY <1>7 DEF CancelEvent, Writes, RequestCancellation
<1>8. CASE ConfirmEvent(j)
  BY <1>8 DEF ConfirmEvent, Writes, ConfirmStopped
<1>9. CASE RecoverEvent(j)
  BY <1>9 DEF RecoverEvent, Writes, Recovered, RecoverExpired, RetryInterrupted
<1> QED
  BY <1>1, <1>2, <1>3, <1>4, <1>5, <1>6, <1>7, <1>8, <1>9 DEF RowEvent

\* A dispatch's step keeps its claim on the token honest.
LEMMA StepKeepsTokenInv ==
    ASSUME TypeOK, TypeOK', NEW d \in Dispatchers, NEW j \in Jobs,
           RowInv(j), RowEvent(j), TokenInv(d, j), DispatchStep(d, j)
    PROVE  TokenInv(d, j)'
<1>0. /\ job[j] \in JobRow /\ job'[j] \in JobRow
      /\ sup[d][j] \in Dispatch /\ sup'[d][j] \in Dispatch
  BY DEF TypeOK
<1>1. /\ job[j].revision \in Nat /\ job'[j].revision \in Nat
      /\ job[j].fence \in Nat /\ job'[j].fence \in Nat
      /\ sup[d][j].revision \in Nat /\ sup[d][j].token.fence \in Nat
  BY <1>0 DEF JobRow, Dispatch, AttemptFence
<1>2. /\ job'[j] = job[j] \/ job'[j].revision > job[j].revision
      /\ job'[j].fence >= job[j].fence
  BY EventsGrow
<1> USE <1>1, <1>2 DEF TokenInv
<1>3. CASE sup'[d][j] = sup[d][j]
  BY <1>3
<1>4. CASE sup'[d][j].pc = "idle" \/ ScanStep(d, j)
  BY <1>4 DEF ScanStep, AfterClaim
<1>5. CASE ReadStep(d, j)
  BY <1>5 DEF ReadStep, AfterClaim
<1>6. CASE RebindStep(d, j)
  <2>1. /\ job'[j].attempt = job[j].attempt /\ job'[j].fence = job[j].fence
        /\ job'[j].revision = job[j].revision + 1
    BY <1>0, <1>6 DEF RebindStep, Rebind, JobRow
  <2> QED
    BY <1>6, <2>1 DEF RebindStep, KeepsToken, ClaimToken, AfterClaim
<1>7. CASE AuthorizeStep(d, j)
  BY <1>7 DEF AuthorizeStep, KeepsToken, AfterClaim
<1>8. CASE ClaimStep(d, j)
  <2>1. job'[j].fence = job[j].fence + 1
    BY <1>0, <1>8 DEF ClaimStep, Claim, JobRow
  <2>2. sup[d][j].token.fence = job[j].fence + 1
    BY <1>8 DEF ClaimStep, ClaimToken
  <2> QED
    BY <1>8, <2>1, <2>2 DEF ClaimStep, KeepsToken
<1>9. CASE OnwardStep(d, j)
  BY <1>9 DEF OnwardStep, KeepsToken, AfterClaim
<1> QED
  BY <1>3, <1>4, <1>5, <1>6, <1>7, <1>8, <1>9 DEF DispatchStep

\* The new token of a claim is above every token claimed before.
LEMMA StepKeepsTokensUnique ==
    ASSUME TypeOK, TypeOK', TokensUnique,
           \A d \in Dispatchers, j \in Jobs : TokenInv(d, j) /\ DispatchStep(d, j)
    PROVE  TokensUnique'
<1> SUFFICES ASSUME NEW c \in Dispatchers, NEW d \in Dispatchers, NEW j \in Jobs, c # d,
                    sup'[c][j].pc \in AfterClaim, sup'[d][j].pc \in AfterClaim
             PROVE  sup'[c][j].token # sup'[d][j].token
  BY DEF TokensUnique
<1>1. ASSUME NEW e \in Dispatchers, sup'[e][j].pc \in AfterClaim
      PROVE  \/ sup[e][j].pc \in AfterClaim /\ sup'[e][j].token = sup[e][j].token
             \/ ClaimStep(e, j)
  BY <1>1 DEF DispatchStep, ScanStep, ReadStep, RebindStep, AuthorizeStep, OnwardStep,
              KeepsToken, AfterClaim
<1>2. ASSUME NEW e \in Dispatchers, NEW f \in Dispatchers, e # f, ClaimStep(e, j),
             sup'[f][j].pc \in AfterClaim
      PROVE  sup'[e][j].token # sup'[f][j].token
  <2>0. /\ job[j].fence \in Nat /\ sup[f][j].token.fence \in Nat
    BY ZenonT(60) DEF TypeOK, JobRow, Dispatch, AttemptFence
  <2>1. sup'[e][j].token.fence = job[j].fence + 1
    <3>1. TokenInv(e, j)
      OBVIOUS
    <3>2. sup[e][j].token = ClaimToken(job[j])
      BY <1>2, <3>1 DEF ClaimStep, TokenInv
    <3> QED
      BY <1>2, <3>2 DEF ClaimStep, ClaimToken, KeepsToken
  <2>2. sup'[f][j] = sup[f][j]
    BY <1>2 DEF ClaimStep
  <2>3. sup'[f][j].token.fence <= job[j].fence
    BY <1>2, <2>2 DEF TokenInv
  <2> QED
    BY <2>0, <2>1, <2>2, <2>3
<1>3. CASE ClaimStep(c, j) \/ ClaimStep(d, j)
  BY <1>2, <1>3
<1>4. CASE ~ClaimStep(c, j) /\ ~ClaimStep(d, j)
  BY <1>1, <1>4 DEF TokensUnique
<1> QED
  BY <1>3, <1>4

\* Inv holds at the start and every step keeps it.
LEMMA InvInductive == Spec => []Inv
<1>1. Init => Inv
  <2> SUFFICES ASSUME Init PROVE Inv
    OBVIOUS
  <2>1. TypeOK
    <3>1. AbsentRow \in JobRow
      BY FirstIsDeployment DEF AbsentRow, JobRow, NoLease
    <3>2. Idle \in Dispatch
      BY FirstIsDeployment DEF Idle, Dispatch, NoToken, AttemptFence, Completions
    <3> QED
      BY <3>1, <3>2, FirstIsDeployment DEF Init, TypeOK
  <2>2. \A d \in Dispatchers, j \in Jobs : sup[d][j].pc = "idle"
    BY DEF Init, Idle
  <2>3. \A j \in Jobs : RowInv(j)
    BY MaxAttemptsPositive DEF Init, AbsentRow, RowInv, AttemptsAgree, Ended, Closed
  <2> QED
    BY <2>1, <2>2, <2>3 DEF Inv, Started, TokenInv, TokensUnique, AfterClaim
<1>2. ASSUME Inv, Next PROVE Inv'
  <2>1. TypeOK /\ TypeOK'
    BY <1>2, StepKeepsType DEF Inv
  <2>2. \A j \in Jobs : RowInv(j) /\ RowEvent(j)
    BY <1>2, StepIsRowEvent DEF Inv
  <2>3. \A d \in Dispatchers, j \in Jobs : TokenInv(d, j) /\ DispatchStep(d, j)
    BY <1>2, StepIsDispatchStep DEF Inv
  <2>4. \A j \in Jobs : RowInv(j)'
    BY <2>1, <2>2, EventKeepsRowInv
  <2>5. \A d \in Dispatchers, j \in Jobs : TokenInv(d, j)'
    BY <2>1, <2>2, <2>3, StepKeepsTokenInv
  <2>6. TokensUnique'
    BY <1>2, <2>1, <2>3, StepKeepsTokensUnique DEF Inv
  <2>7. Started'
    <3> SUFFICES ASSUME NEW d \in Dispatchers, NEW j \in Jobs, sup'[d][j].pc # "idle"
                 PROVE  job'[j].state # "absent"
      BY DEF Started
    <3>1. job[j].state # "absent"
      BY <1>2, <2>3 DEF Inv, Started, DispatchStep, ScanStep, ReadStep, RebindStep,
                        AuthorizeStep, ClaimStep, OnwardStep, AfterClaim
    <3> QED
      BY <2>1, <2>2, <3>1, EventsGrow
  <2> QED
    BY <2>1, <2>4, <2>5, <2>6, <2>7 DEF Inv
<1>3. ASSUME Inv, UNCHANGED vars PROVE Inv'
  BY <1>3 DEF vars, Inv, TypeOK, Started, RowInv, AttemptsAgree, TokenInv, TokensUnique
<1> QED
  BY <1>1, <1>2, <1>3, PTL DEF Spec

-----------------------------------------------------------------------------
(* The theorems.                                                           *)

\* ExtensionJob::validate accepts every row any interleaving of dispatchers,
\* commands, recoveries, crashes and clock steps leaves: `transition` never
\* returns InvalidState, for every MAX_ATTEMPTS and every lease.
THEOREM RowsStayValid == Spec => []RowsValid
<1>1. Inv => RowsValid
  BY DEF Inv, RowInv, RowsValid
<1> QED
  BY <1>1, InvInductive, PTL

\* extension_job and extension_job_attempt never disagree about an attempt.
THEOREM TablesAgree == Spec => []AttemptRowsAgree
<1>1. Inv => AttemptRowsAgree
  BY DEF Inv, RowInv, AttemptsAgree, AttemptRowsAgree
<1> QED
  BY <1>1, InvInductive, PTL

\* The end of a job is in the log exactly when the job has ended.
THEOREM EndsAreAnnounced == Spec => []AnnouncedIffEnded
<1>1. Inv => AnnouncedIffEnded
  BY DEF Inv, RowInv, AnnouncedIffEnded
<1> QED
  BY <1>1, InvInductive, PTL

\* Any number of processes racing for a job never share a token: this is
\* what lets check_running_token fence a worker that lost its lease.
THEOREM TokensStayUnique == Spec => []TokensUnique
<1>1. Inv => TokensUnique
  BY DEF Inv
<1> QED
  BY <1>1, InvInductive, PTL

\* A job that has ended never starts again or ends another way.
THEOREM EndsAreFinal == Spec => EndIsFinal
<1>1. ASSUME Inv, Next, NEW j \in Jobs, job[j].state \in Ended
      PROVE  job'[j].state = job[j].state
  <2>1. RowEvent(j) /\ job[j] \in JobRow
    BY <1>1, StepIsRowEvent DEF Inv, TypeOK
  <2>2. \/ NoEvent(j)
        \/ CancelEvent(j)
    BY <1>1, <2>1
       DEF RowEvent, Ended, Closed, EnqueueEvent, ClaimEvent, CanClaim, RebindEvent, CanRebind,
           RenewEvent, CanRenew, CompleteEvent, CanComplete, ConfirmEvent, CanConfirmStopped,
           CheckRunningToken, HoldsToken, RecoverEvent, CanRecoverExpired
  <2> QED
    BY <1>1, <2>1, <2>2
       DEF NoEvent, CancelEvent, Writes, RequestCancellation, JobRow, Ended, Closed
<1>2. ASSUME Inv, [Next]_vars
      PROVE  [\A j \in Jobs : job[j].state \in Ended => job'[j].state = job[j].state]_vars
  BY <1>1, <1>2
<1> QED
  BY <1>2, InvInductive, PTL DEF Spec, EndIsFinal

-----------------------------------------------------------------------------
(***************************************************************************)
(* The promise.  A step writes at most one job's row, so it maps to a step *)
(* of JobPromise for that job, or to none.                                 *)
(***************************************************************************)

\* Storing a row leaves the other jobs' rows alone.
LEMMA StoreTouchesOne ==
    ASSUME TypeOK, NEW j \in Jobs, NEW row, Store(j, row)
    PROVE  \A k \in Jobs \ {j} : job'[k] = job[k]
BY StoreWrites

\* No step writes the rows of two jobs.
LEMMA StepTouchesOneJob ==
    ASSUME TypeOK, Next, job' # job
    PROVE  \E j \in Jobs : \A k \in Jobs \ {j} : job'[k] = job[k]
<1> USE DEF storeVars, boundVars
<1>1. CASE \E j \in Jobs, i \in BOOLEAN : Enqueue(j, i)
  BY <1>1 DEF Enqueue, TypeOK
<1>2. ASSUME NEW j \in Jobs, \E row : Store(j, row)
      PROVE  \E i \in Jobs : \A k \in Jobs \ {i} : job'[k] = job[k]
  BY <1>2, StoreTouchesOne
<1>3. CASE \E j \in Jobs : CancelCommand(j) \/ RecoverPage(j)
  BY <1>2, <1>3 DEF CancelCommand, RecoverPage
<1>4. CASE \E d \in Dispatchers, j \in Jobs : Claiming(d, j)
  BY <1>2, <1>4 DEF Claiming, ReadJob, RebindJob, Authorize, ClaimJob, Reauthorize
<1>5. CASE \E d \in Dispatchers, j \in Jobs : Supervising(d, j)
  <2>1. PICK d \in Dispatchers, j \in Jobs : Supervising(d, j)
    BY <1>5
  <2>2. CASE PollFenced(d, j) \/ PollStop(d, j) \/ GraceOver(d, j)
             \/ PublishRead(d, j) \/ PublishAbort(d, j)
    BY <2>2 DEF PollFenced, PollStop, GraceOver, PublishRead, PublishAbort
  <2>3. CASE RenewLease(d, j) \/ StopJob(d, j)
    BY <1>2, <2>3 DEF RenewLease, StopJob
  <2>4. CASE Confirm(d, j) \/ RecoverAfterLease(d, j) \/ PublishComplete(d, j)
    BY <1>2, <2>4 DEF Confirm, RecoverAfterLease, PublishComplete
  <2> QED
    BY <2>1, <2>2, <2>3, <2>4 DEF Supervising
<1>6. CASE \E d \in Dispatchers, j \in Jobs :
             ScanQueued(d, j) \/ WorkerReturns(d, j) \/ PollRenew(d, j) \/ DispatchFails(d, j)
  BY <1>6 DEF ScanQueued, WorkerReturns, WorkerCompletes, WorkerStops, PollRenew,
              DispatchFails
<1>7. CASE \/ \E d \in Dispatchers : Crash(d)
           \/ \E dep \in Deployments \cup {Off} : Activate(dep)
           \/ Tick \/ StepBack
  BY <1>7 DEF Crash, Activate, Tick, StepBack
<1> QED
  BY <1>1, <1>3, <1>4, <1>5, <1>6, <1>7 DEF Next

\* What a job's row says, as JobPromise has it.
Views == [j \in Jobs |-> View(job[j])]

\* An event of one job's row is a step of its promise, or leaves it alone.
LEMMA RowEventIsPromised ==
    ASSUME TypeOK, TypeOK', NEW j \in Jobs, RowInv(j), RowEvent(j),
           Views' = [Views EXCEPT ![j] = View(job'[j])]
    PROVE  Promise!Next \/ Views' = Views
<1> DEFINE r == job[j]
<1>0. /\ r \in JobRow /\ r.attempt \in Nat /\ Views[j] = View(r)
      /\ r.idempotent \in BOOLEAN /\ r.cancel \in BOOLEAN /\ MaxAttempts \in Nat
  BY MaxAttemptsPositive DEF TypeOK, Views, JobRow
<1>1. ASSUME View(job'[j]) = View(r) PROVE Views' = Views
  BY <1>0, <1>1 DEF Views
<1>2. CASE NoEvent(j) \/ RebindEvent(j) \/ RenewEvent(j)
  <2>1. View(job'[j]) = View(r)
    BY <1>0, <1>2 DEF NoEvent, RebindEvent, RenewEvent, Writes, Rebind, Renew, View, JobRow
  <2> QED
    BY <1>1, <2>1
<1>3. CASE EnqueueEvent(j)
  <2>1. PICK i \in BOOLEAN, dep \in Deployments : job'[j] = QueuedRow(i, dep, now)
    BY <1>3 DEF EnqueueEvent, Writes
  <2>2. View(job'[j]) = Promise!Job("queued", 0, i, FALSE)
    BY <2>1 DEF View, QueuedRow, Promise!Job
  <2>3. Views[j].status = "absent"
    BY <1>0, <1>3 DEF EnqueueEvent, View
  <2>4. Promise!Submit(j, i)
    BY <2>2, <2>3 DEF Views, Promise!Submit, Promise!Becomes
  <2> QED
    BY <2>4 DEF Promise!Next
<1>4. CASE ClaimEvent(j)
  <2>1. /\ r.state = "queued" /\ ~r.cancel /\ r.attempt < MaxAttempts
        /\ r.attempt > 0 => r.idempotent
    BY <1>4 DEF ClaimEvent, CanClaim, RowInv, Validate
  <2>2. /\ job'[j].state = "running" /\ job'[j].attempt = r.attempt + 1
        /\ job'[j].idempotent = r.idempotent /\ job'[j].cancel = r.cancel
    BY <1>0, <1>4 DEF ClaimEvent, Writes, Claim, JobRow
  <2>3. job'[j].cancel = FALSE
    BY <1>0, <2>1, <2>2
  <2>4. View(job'[j]) = Promise!Job("running", r.attempt + 1, r.idempotent, FALSE)
    BY <2>2, <2>3 DEF View, Promise!Job
  <2>5. /\ Views[j].status = "queued" /\ ~Views[j].stop
        /\ Views[j].tries = r.attempt /\ Views[j].replay = r.idempotent
    BY <1>0, <2>1 DEF View
  <2>6. r.attempt < IF r.idempotent THEN MaxAttempts ELSE 1
    BY <1>0, <2>1
  <2>7. Views[j].tries < Promise!Limit(j)
    BY <2>5, <2>6 DEF Views, Promise!Limit
  <2>8. Promise!Begin(j)
    BY <2>4, <2>5, <2>7 DEF Views, Promise!Begin, Promise!Becomes
  <2> QED
    BY <2>8 DEF Promise!Next
<1>5. CASE CompleteEvent(j)
  <2>1. PICK o \in Completions : job'[j] = Complete(r, o, now)
    BY <1>5 DEF CompleteEvent, Writes
  <2>2. r.state = "running" /\ o \in {"succeeded", "failed"}
    BY <1>5 DEF CompleteEvent, CanComplete, CheckRunningToken, HoldsToken, Completions
  <2>3. View(job'[j]) = Promise!Job(o, r.attempt, r.idempotent, r.cancel)
    <3>1. /\ job'[j].state = o /\ job'[j].attempt = r.attempt
          /\ job'[j].idempotent = r.idempotent /\ job'[j].cancel = r.cancel
      BY <1>0, <2>1 DEF Complete, JobRow
    <3> QED
      BY <3>1 DEF View, Promise!Job
  <2>4. Promise!Finish(j, o)
    BY <1>0, <2>2, <2>3 DEF Views, View, Promise!Finish, Promise!Moves, Promise!Becomes
  <2> QED
    BY <2>2, <2>4 DEF Promise!Next
<1>6. CASE ConfirmEvent(j)
  <2>1. r.state = "running" /\ r.cancel
    BY <1>6 DEF ConfirmEvent, CanConfirmStopped, CheckRunningToken, HoldsToken
  <2>2. View(job'[j]) = Promise!Job("cancelled", r.attempt, r.idempotent, r.cancel)
    <3>1. /\ job'[j].state = "cancelled" /\ job'[j].attempt = r.attempt
          /\ job'[j].idempotent = r.idempotent /\ job'[j].cancel = r.cancel
      BY <1>0, <1>6 DEF ConfirmEvent, Writes, ConfirmStopped, JobRow
    <3> QED
      BY <3>1 DEF View, Promise!Job
  <2>3. Promise!Finish(j, "cancelled")
    BY <1>0, <2>1, <2>2 DEF Views, View, Promise!Finish, Promise!Moves, Promise!Becomes
  <2> QED
    BY <2>3 DEF Promise!Next
<1>7. CASE RecoverEvent(j)
  <2>1. r.state = "running"
    BY <1>7 DEF RecoverEvent, CanRecoverExpired
  <2> DEFINE next == IF r.idempotent /\ ~r.cancel /\ r.attempt < MaxAttempts
                     THEN "queued" ELSE "interrupted"
  <2>2. /\ job'[j].state = next /\ job'[j].attempt = r.attempt
        /\ job'[j].idempotent = r.idempotent /\ job'[j].cancel = r.cancel
    BY <1>0, <1>7 DEF RecoverEvent, Writes, Recovered, RecoverExpired, RetryInterrupted,
                      CanRetryInterrupted, JobRow
  <2>3. View(job'[j]) = Promise!Job(next, r.attempt, r.idempotent, r.cancel)
    BY <2>2 DEF View, Promise!Job
  <2>4. Promise!CutOff(j)
    BY <1>0, <2>1, <2>3 DEF Views, View, Promise!CutOff, Promise!Moves, Promise!Becomes
  <2> QED
    BY <2>4 DEF Promise!Next
<1>8. CASE CancelEvent(j)
  <2>1. r.state \in {"queued", "running", "interrupted"} /\ ~r.cancel
    BY <1>0, <1>8 DEF CancelEvent, CanRequestCancellation, Closed, JobRow, JobStates
  <2> DEFINE next == IF r.state # "queued" THEN r.state
                     ELSE IF r.attempt = 0 THEN "cancelled" ELSE "interrupted"
  <2>2. /\ job'[j].state = next /\ job'[j].attempt = r.attempt
        /\ job'[j].idempotent = r.idempotent /\ job'[j].cancel = TRUE
    BY <1>0, <1>8, <2>1 DEF CancelEvent, Writes, RequestCancellation, JobRow
  <2>3. View(job'[j]) = Promise!Job(next, r.attempt, r.idempotent, TRUE)
    BY <2>2 DEF View, Promise!Job
  <2>4. Promise!Ask(j)
    BY <1>0, <2>1, <2>3 DEF Views, View, Promise!Ask, Promise!AfterAsk, Promise!Becomes
  <2> QED
    BY <2>4 DEF Promise!Next
<1> QED
  BY <1>2, <1>3, <1>4, <1>5, <1>6, <1>7, <1>8 DEF RowEvent

\* Dispatchers, leases, fences and races implement what a job promises.
THEOREM PromiseKept == Spec => KeepsPromise
<1>1. Init => Promise!Init
  BY DEF Init, Promise!Init, Promise!Job, View, AbsentRow
<1>2. ASSUME Inv, Inv', [Next]_vars
      PROVE  [Promise!Next]_Views
  <2>1. CASE job' = job
    BY <2>1 DEF Views
  <2>2. CASE job' # job
    <3>1. Next
      BY <1>2, <2>2 DEF vars
    <3>2. PICK j \in Jobs : \A k \in Jobs \ {j} : job'[k] = job[k]
      BY <1>2, <2>2, <3>1, StepTouchesOneJob DEF Inv
    <3>3. Views' = [Views EXCEPT ![j] = View(job'[j])]
      BY <3>2 DEF Views
    <3>4. RowInv(j) /\ RowEvent(j)
      BY <1>2, <3>1, StepIsRowEvent DEF Inv
    <3> QED
      BY <1>2, <3>3, <3>4, RowEventIsPromised DEF Inv
  <2> QED
    BY <2>1, <2>2
<1>3. Inv /\ Inv' /\ [Next]_vars => [Promise!Next]_Views
  BY <1>2
<1> QED
  BY <1>1, <1>3, InvInductive, PTL DEF Spec, KeepsPromise, Promise!Spec, Views


-----------------------------------------------------------------------------
(***************************************************************************)
(* What the table's triggers demand of an update.                          *)
(***************************************************************************)

\* A row nobody has enqueued is the one every job starts with.
AbsentOnly == \A j \in Jobs : job[j].state = "absent" => job[j] = AbsentRow

LEMMA AbsentStays ==
    ASSUME TypeOK, NEW j \in Jobs, RowEvent(j), job'[j].state = "absent"
    PROVE  job'[j] = job[j]
<1>0. job[j] \in JobRow
  BY DEF TypeOK
<1>1. ~EnqueueEvent(j)
  <2>1. \A i, dep : QueuedRow(i, dep, now).state = "queued"
    BY DEF QueuedRow
  <2>2. EnqueueEvent(j) => job'[j].state = "queued"
    BY <2>1 DEF EnqueueEvent, Writes
  <2> QED
    BY <2>2
<1>2. ~ClaimEvent(j) /\ ~RebindEvent(j)
  BY <1>0 DEF ClaimEvent, Claim, RebindEvent, CanRebind, Rebind, Writes, JobRow
<1>3. ~RenewEvent(j)
  BY <1>0 DEF RenewEvent, CanRenew, CheckRunningToken, HoldsToken, Renew, Writes, JobRow
<1>4. ~CompleteEvent(j) /\ ~ConfirmEvent(j)
  BY <1>0 DEF CompleteEvent, Complete, Completions, ConfirmEvent, ConfirmStopped, Writes, JobRow
<1>5. ~CancelEvent(j)
  BY <1>0 DEF CancelEvent, RequestCancellation, Writes, JobRow
<1>6. ~RecoverEvent(j)
  BY <1>0 DEF RecoverEvent, Recovered, RecoverExpired, RetryInterrupted, Writes, JobRow
<1> QED
  BY <1>1, <1>2, <1>3, <1>4, <1>5, <1>6 DEF RowEvent, NoEvent

LEMMA AbsentInvariant == Spec => []AbsentOnly
<1>1. Init => AbsentOnly
  BY DEF Init, AbsentOnly
<1>2. ASSUME Inv, AbsentOnly, [Next]_vars
      PROVE  AbsentOnly'
  <2>1. CASE Next
    <3>1. \A j \in Jobs : job'[j].state = "absent" => job'[j] = job[j]
      BY <1>2, <2>1, StepIsRowEvent, AbsentStays DEF Inv
    <3> QED
      BY <1>2, <3>1 DEF AbsentOnly
  <2>2. CASE UNCHANGED vars
    BY <1>2, <2>2 DEF vars, AbsentOnly
  <2> QED
    BY <1>2, <2>1, <2>2
<1>3. Inv /\ AbsentOnly /\ [Next]_vars => AbsentOnly'
  BY <1>2
<1> QED
  BY <1>1, <1>3, InvInductive, PTL DEF Spec

\* What extension_job's triggers let an update change.
RowAllowed(j) ==
    /\ job'[j] # job[j] =>
          /\ job[j].state \notin Closed
          /\ job'[j].revision \in {job[j].revision + 1, job[j].revision + 2}
          /\ job'[j].updated >= job[j].updated
          /\ job[j].cancel => job'[j].cancel
    /\ job'[j].owner # job[j].owner =>
          \/ job[j].state = "absent"
          \/ job[j].state = "queued" /\ job'[j].state = "queued"

\* What extension_job_attempt's let one change.
AttemptsAllowed(j) ==
    \A a \in 1..MaxAttempts :
        attempts'[j][a] # attempts[j][a] =>
            attempts[j][a] = (IF attempts'[j][a] = "open" THEN "none" ELSE "open")

LEMMA RowEventAllowed ==
    ASSUME TypeOK, AbsentOnly, NEW j \in Jobs, RowInv(j), RowEvent(j)
    PROVE  RowAllowed(j)
<1>0. job[j] \in JobRow /\ now \in Nat /\ job[j].revision \in Nat /\ job[j].updated \in Nat
  BY DEF TypeOK, JobRow
<1>1. CASE NoEvent(j)
  BY <1>1 DEF NoEvent, RowAllowed
<1>2. CASE EnqueueEvent(j)
  <2>1. job[j].revision = 0 /\ job[j].updated = 0 /\ ~job[j].cancel /\ job[j].state = "absent"
    BY <1>2 DEF EnqueueEvent, AbsentOnly, AbsentRow
  <2>2. job'[j].revision = 1 /\ job'[j].updated = now
    BY <1>2 DEF EnqueueEvent, Writes, QueuedRow
  <2> QED
    BY <1>0, <2>1, <2>2 DEF RowAllowed, Closed
<1>3. CASE ClaimEvent(j)
  BY <1>0, <1>3 DEF ClaimEvent, CanClaim, CheckTime, Writes, Claim, RowAllowed, JobRow, Closed
<1>4. CASE RebindEvent(j)
  BY <1>0, <1>4 DEF RebindEvent, CanRebind, CheckTime, Writes, Rebind, RowAllowed, JobRow, Closed
<1>5. CASE RenewEvent(j)
  BY <1>0, <1>5 DEF RenewEvent, CanRenew, CheckTime, CheckRunningToken, HoldsToken, Writes, Renew,
                    RowAllowed, JobRow, Closed
<1>6. CASE CompleteEvent(j)
  BY <1>0, <1>6 DEF CompleteEvent, CanComplete, CheckTime, CheckRunningToken, HoldsToken, Writes,
                    Complete, RowAllowed, JobRow, Closed
<1>7. CASE CancelEvent(j)
  BY <1>0, <1>7 DEF CancelEvent, CanRequestCancellation, CheckTime, Writes, RequestCancellation,
                    RowAllowed, JobRow
<1>8. CASE ConfirmEvent(j)
  BY <1>0, <1>8 DEF ConfirmEvent, CanConfirmStopped, CheckTime, CheckRunningToken, HoldsToken,
                    Writes, ConfirmStopped, RowAllowed, JobRow, Closed
<1>9. CASE RecoverEvent(j)
  BY <1>0, <1>9 DEF RecoverEvent, CanRecoverExpired, CheckTime, Writes, Recovered, RecoverExpired,
                    RetryInterrupted, RowAllowed, JobRow, Closed
<1> QED
  BY <1>1, <1>2, <1>3, <1>4, <1>5, <1>6, <1>7, <1>8, <1>9 DEF RowEvent

LEMMA AttemptEventAllowed ==
    ASSUME TypeOK, NEW j \in Jobs, RowInv(j), RowEvent(j)
    PROVE  AttemptsAllowed(j)
<1>0. /\ job[j] \in JobRow /\ job[j].attempt \in Nat
      /\ attempts[j] \in [1..MaxAttempts -> Outcomes \cup {"none", "open"}]
  BY DEF TypeOK, JobRow
<1>1. CASE KeepsAttempts(j)
  BY <1>1 DEF KeepsAttempts, AttemptsAllowed
<1>2. CASE Opens(j)
  <2>1. \A a \in 1..MaxAttempts : a = job[j].attempt + 1 => attempts[j][a] = "none"
    BY <1>0 DEF RowInv, AttemptsAgree
  <2> QED
    BY <1>0, <1>2, <2>1 DEF Opens, AttemptsAllowed
<1>3. ASSUME NEW o \in Outcomes, job[j].state = "running", Closes(j, o)
      PROVE  AttemptsAllowed(j)
  <2>1. \A a \in 1..MaxAttempts : a = job[j].attempt => attempts[j][a] = "open"
    BY <1>0, <1>3 DEF RowInv, AttemptsAgree
  <2>2. o # "open"
    BY DEF Outcomes, Completions
  <2> QED
    BY <1>0, <1>3, <2>1, <2>2 DEF Closes, AttemptsAllowed
<1>4. CASE CompleteEvent(j) \/ ConfirmEvent(j) \/ RecoverEvent(j)
  BY <1>3, <1>4 DEF CompleteEvent, CanComplete, ConfirmEvent, CanConfirmStopped, RecoverEvent,
                    CanRecoverExpired, CheckRunningToken, HoldsToken, Outcomes
<1> QED
  BY <1>1, <1>2, <1>4 DEF RowEvent, NoEvent, EnqueueEvent, ClaimEvent, RebindEvent, RenewEvent,
                          CancelEvent

\* extension_job_store.rs: no update of the dispatchers, commands and recovery is
\* one the tables' triggers abort, whoever races and wherever the clock stands.
THEOREM TriggersNeverAbort == Spec => RowTriggersHold
<1>1. ASSUME Inv, AbsentOnly, [Next]_vars, NEW j \in Jobs
      PROVE  RowAllowed(j) /\ AttemptsAllowed(j)
  <2>1. CASE Next
    BY <1>1, <2>1, StepIsRowEvent, RowEventAllowed, AttemptEventAllowed DEF Inv
  <2>2. CASE UNCHANGED vars
    BY <2>2 DEF vars, RowAllowed, AttemptsAllowed
  <2> QED
    BY <1>1, <2>1, <2>2
<1>2. Inv /\ AbsentOnly /\ [Next]_vars
        => [\A j \in Jobs :
              /\ job'[j] # job[j] =>
                    /\ job[j].state \notin Closed
                    /\ job'[j].revision \in {job[j].revision + 1, job[j].revision + 2}
                    /\ job'[j].updated >= job[j].updated
                    /\ job[j].cancel => job'[j].cancel
              /\ job'[j].owner # job[j].owner =>
                    \/ job[j].state = "absent"
                    \/ job[j].state = "queued" /\ job'[j].state = "queued"
              /\ \A a \in 1..MaxAttempts :
                    attempts'[j][a] # attempts[j][a] =>
                        attempts[j][a] = (IF attempts'[j][a] = "open" THEN "none" ELSE "open")
            ]_vars
  BY <1>1 DEF RowAllowed, AttemptsAllowed
<1> QED
  BY <1>2, InvInductive, AbsentInvariant, PTL DEF Spec, RowTriggersHold

-----------------------------------------------------------------------------
(***************************************************************************)
(* Rounds of the publication.  While a dispatch publishes, its row changes *)
(* by no other hand than a cancellation and recovery, once each.           *)
(***************************************************************************)

\* The row is about to be read again, or has been.
ToRead(s, row) ==
    /\ s.tries = 1 /\ HoldsToken(row, s.token) => row.cancel
    /\ s.tries = 2 => ~HoldsToken(row, s.token)

HasRead(s, row) ==
    /\ s.revision <= row.revision
    /\ s.tries <= 1
    /\ s.revision = row.revision => HoldsToken(row, s.token)
    /\ s.revision # row.revision /\ HoldsToken(row, s.token) => row.cancel
    /\ s.tries = 1 /\ HoldsToken(row, s.token) => row.cancel /\ s.revision = row.revision

TriesInv(d, j) ==
    /\ sup[d][j].pc \notin Stopping \cup {"publish", "publishTx"} => sup[d][j].tries = 0
    /\ sup[d][j].tries <= 2
    /\ sup[d][j].pc = "publish" => ToRead(sup[d][j], job[j])
    /\ sup[d][j].pc = "publishTx" => HasRead(sup[d][j], job[j])

\* Two dispatches do not hold the same row.
LEMMA OneHolds ==
    ASSUME TypeOK, TokensUnique, NEW c \in Dispatchers, NEW d \in Dispatchers, NEW j \in Jobs,
           sup[c][j].pc \in AfterClaim, sup[d][j].pc \in AfterClaim,
           HoldsToken(job[j], sup[c][j].token), HoldsToken(job[j], sup[d][j].token)
    PROVE  c = d
<1>1. sup[c][j].token \in AttemptFence /\ sup[d][j].token \in AttemptFence
  BY DEF TypeOK, Dispatch
<1>2. sup[c][j].token = sup[d][j].token
  BY <1>1 DEF HoldsToken, AttemptFence
<1> QED
  BY <1>2 DEF TokensUnique

\* What happens to the row of a dispatch that publishes.
LEMMA HeldRow ==
    ASSUME TypeOK, TokensUnique, NEW d \in Dispatchers, NEW j \in Jobs, RowEvent(j),
           sup[d][j].pc \in {"publish", "publishTx"}, sup'[d][j].pc # "idle",
           HoldsToken(job[j], sup[d][j].token)
    PROVE  \/ job'[j] = job[j]
           \/ ~job[j].cancel /\ job'[j].cancel
           \/ ~HoldsToken(job'[j], sup[d][j].token)
<1>0. /\ job[j] \in JobRow /\ job[j].state = "running" /\ job[j].fence \in Nat
      /\ sup[d][j].token.fence = job[j].fence /\ sup[d][j].pc \in AfterClaim
  BY DEF TypeOK, JobRow, HoldsToken, AfterClaim
<1>1. CASE NoEvent(j)
  BY <1>1 DEF NoEvent
<1>2. ~EnqueueEvent(j) /\ ~ClaimEvent(j) /\ ~RebindEvent(j)
  BY <1>0 DEF EnqueueEvent, ClaimEvent, CanClaim, RebindEvent, CanRebind
<1>3. ~RenewEvent(j)
  BY <1>0, OneHolds DEF RenewEvent, CanRenew, CheckRunningToken, AfterClaim
<1>4. ~CompleteEvent(j)
  BY <1>0, OneHolds DEF CompleteEvent, CanComplete, CheckRunningToken, AfterClaim
<1>5. ~ConfirmEvent(j)
  BY <1>0, OneHolds DEF ConfirmEvent, CanConfirmStopped, CheckRunningToken, AfterClaim
<1>6. CASE CancelEvent(j)
  BY <1>0, <1>6 DEF CancelEvent, Writes, RequestCancellation, JobRow
<1>7. CASE RecoverEvent(j)
  <2>1. job'[j].fence = job[j].fence + 1
    BY <1>0, <1>7 DEF RecoverEvent, Writes, Recovered, RecoverExpired, RetryInterrupted, JobRow
  <2> QED
    BY <1>0, <2>1 DEF HoldsToken
<1> QED
  BY <1>1, <1>2, <1>3, <1>4, <1>5, <1>6, <1>7 DEF RowEvent

\* A row that has left a token never comes back to it.
LEMMA LostToken ==
    ASSUME TypeOK, NEW j \in Jobs, RowEvent(j), NEW t \in AttemptFence, t.fence <= job[j].fence,
           HoldsToken(job'[j], t)
    PROVE  HoldsToken(job[j], t)
<1>0. job[j] \in JobRow /\ job[j].fence \in Nat /\ t.fence \in Nat
  BY DEF TypeOK, JobRow, AttemptFence
<1>1. CASE NoEvent(j)
  BY <1>1 DEF NoEvent
<1>2. ~EnqueueEvent(j)
  <2>1. \A i, dep : QueuedRow(i, dep, now).state = "queued"
    BY DEF QueuedRow
  <2> QED
    BY <2>1 DEF EnqueueEvent, Writes, HoldsToken
<1>3. ~ClaimEvent(j)
  <2>1. ClaimEvent(j) => job'[j].fence = job[j].fence + 1
    BY <1>0 DEF ClaimEvent, Writes, Claim, JobRow
  <2> QED
    BY <1>0, <2>1 DEF HoldsToken
<1>4. ~RebindEvent(j)
  BY <1>0 DEF RebindEvent, CanRebind, Writes, Rebind, HoldsToken, JobRow
<1>5. CASE RenewEvent(j)
  BY <1>0, <1>5 DEF RenewEvent, CanRenew, CheckRunningToken, Writes, Renew, HoldsToken, JobRow
<1>6. ~CompleteEvent(j) /\ ~ConfirmEvent(j)
  BY <1>0 DEF CompleteEvent, Complete, Completions, ConfirmEvent, ConfirmStopped, Writes,
              HoldsToken, JobRow
<1>7. CASE CancelEvent(j)
  BY <1>0, <1>7 DEF CancelEvent, Writes, RequestCancellation, HoldsToken, JobRow
<1>8. ~RecoverEvent(j)
  BY <1>0 DEF RecoverEvent, Recovered, RecoverExpired, RetryInterrupted, Writes, HoldsToken, JobRow
<1> QED
  BY <1>1, <1>2, <1>3, <1>4, <1>5, <1>6, <1>7, <1>8 DEF RowEvent

LEMMA StepKeepsTries ==
    ASSUME TypeOK, TypeOK', TokensUnique, NEW d \in Dispatchers, NEW j \in Jobs,
           RowInv(j), RowEvent(j), TokenInv(d, j), TriesInv(d, j), DispatchStep(d, j)
    PROVE  TriesInv(d, j)'
<1>a. /\ sup[d][j] \in Dispatch /\ sup'[d][j] \in Dispatch
      /\ job[j] \in JobRow /\ job'[j] \in JobRow
  BY DEF TypeOK
<1>0. /\ sup[d][j].tries \in Nat /\ sup[d][j].revision \in Nat
      /\ sup[d][j].token \in AttemptFence
      /\ job[j].revision \in Nat /\ job'[j].revision \in Nat
  BY <1>a DEF Dispatch, JobRow
<1>1. job'[j] = job[j] \/ job'[j].revision > job[j].revision
  BY EventsGrow
<1>2. CASE sup'[d][j] = sup[d][j]
  <2>1. sup[d][j].pc \in {"publish", "publishTx"} /\ HoldsToken(job'[j], sup[d][j].token)
            => /\ HoldsToken(job[j], sup[d][j].token)
               /\ job'[j] = job[j] \/ (~job[j].cancel /\ job'[j].cancel)
    <3> SUFFICES ASSUME sup[d][j].pc \in {"publish", "publishTx"},
                        HoldsToken(job'[j], sup[d][j].token)
                 PROVE  /\ HoldsToken(job[j], sup[d][j].token)
                        /\ job'[j] = job[j] \/ (~job[j].cancel /\ job'[j].cancel)
      OBVIOUS
    <3>1. sup[d][j].token.fence <= job[j].fence
      BY DEF TokenInv, AfterClaim
    <3>2. HoldsToken(job[j], sup[d][j].token)
      BY <1>0, <3>1, LostToken
    <3>3. sup'[d][j].pc # "idle"
      BY <1>2
    <3>4. \/ job'[j] = job[j]
          \/ ~job[j].cancel /\ job'[j].cancel
          \/ ~HoldsToken(job'[j], sup[d][j].token)
      BY <3>2, <3>3, HeldRow
    <3> QED
      BY <3>2, <3>4
  <2>2. CASE sup[d][j].pc = "publish"
    <3>1. ToRead(sup[d][j], job'[j])
      BY <2>1, <2>2 DEF TriesInv, ToRead
    <3> QED
      BY <1>2, <2>2, <3>1 DEF TriesInv
  <2>3. CASE sup[d][j].pc = "publishTx"
    <3>1. HasRead(sup[d][j], job[j])
      BY <2>3 DEF TriesInv
    <3>2. HasRead(sup[d][j], job'[j])
      BY <1>0, <1>1, <2>1, <2>3, <3>1 DEF HasRead
    <3> QED
      BY <1>2, <2>3, <3>2 DEF TriesInv
  <2>4. CASE sup[d][j].pc \notin {"publish", "publishTx"}
    BY <1>2, <2>4 DEF TriesInv
  <2> QED
    BY <2>2, <2>3, <2>4
<1>3. CASE sup'[d][j].pc = "idle" /\ sup'[d][j].tries = 0
  BY <1>3 DEF TriesInv
<1>4. CASE ScanStep(d, j) \/ ReadStep(d, j) \/ RebindStep(d, j) \/ AuthorizeStep(d, j)
           \/ ClaimStep(d, j)
  <2>1. /\ sup'[d][j].pc \in {"read", "rebind", "authorize", "claim", "claimed"}
        /\ sup'[d][j].tries = sup[d][j].tries
        /\ sup[d][j].pc \in {"idle", "read", "rebind", "authorize", "claim"}
    BY <1>4 DEF ScanStep, ReadStep, RebindStep, AuthorizeStep, ClaimStep, KeepsTries
  <2>2. sup[d][j].tries = 0
    BY <2>1 DEF TriesInv, Stopping
  <2> QED
    BY <2>1, <2>2 DEF TriesInv
<1>5. CASE OnwardStep(d, j)
  <2>1. CASE MoveStep(d, j)
    <3>1. sup'[d][j].tries = sup[d][j].tries /\ sup[d][j].tries <= 2
      BY <2>1 DEF MoveStep, KeepsTries, TriesInv
    <3>2. CASE sup[d][j].pc \in Working
      <4>1. sup[d][j].tries = 0
        BY <3>2 DEF TriesInv, Working, Stopping
      <4>2. sup'[d][j].pc # "publishTx"
        BY <2>1, <3>2 DEF MoveStep, Moves, Working, Stopping
      <4> QED
        BY <3>1, <4>1, <4>2 DEF TriesInv, ToRead
    <3>3. CASE sup[d][j].pc \notin Working
      <4>1. sup'[d][j].pc \in Stopping
        BY <2>1, <3>3 DEF MoveStep, Moves, Stopping
      <4> QED
        BY <3>1, <4>1 DEF TriesInv, Stopping
    <3> QED
      BY <3>2, <3>3
  <2>2. CASE PublishReadStep(d, j)
    <3>1. /\ sup'[d][j].pc = "publishTx" /\ sup'[d][j].tries = sup[d][j].tries
          /\ sup'[d][j].token = sup[d][j].token /\ sup'[d][j].revision = job[j].revision
          /\ job'[j] = job[j] /\ HoldsToken(job[j], sup[d][j].token)
      BY <1>5, <2>2 DEF PublishReadStep, OnwardStep, KeepsTries, KeepsToken
    <3>2. sup[d][j].tries <= 2 /\ ToRead(sup[d][j], job[j])
      BY <2>2 DEF PublishReadStep, TriesInv
    <3>3. /\ sup[d][j].tries <= 1 /\ (sup[d][j].tries = 1 => job[j].cancel)
      BY <1>0, <3>1, <3>2 DEF ToRead
    <3>4. HasRead(sup'[d][j], job'[j])
      BY <1>0, <3>1, <3>3 DEF HasRead
    <3> QED
      BY <1>0, <3>1, <3>3, <3>4 DEF TriesInv
  <2>3. CASE PublishAgainStep(d, j)
    <3>1. /\ sup'[d][j].pc = "publish" /\ sup'[d][j].tries = sup[d][j].tries + 1
          /\ sup'[d][j].token = sup[d][j].token /\ sup[d][j].revision # job[j].revision
          /\ job'[j] = job[j]
      BY <1>5, <2>3 DEF PublishAgainStep, OnwardStep, KeepsToken
    <3>2. HasRead(sup[d][j], job[j])
      BY <2>3 DEF PublishAgainStep, TriesInv
    <3>3. ToRead(sup'[d][j], job'[j]) /\ sup'[d][j].tries <= 2
      BY <1>0, <3>1, <3>2 DEF HasRead, ToRead
    <3> QED
      BY <3>1, <3>3 DEF TriesInv
  <2> QED
    BY <1>5, <2>1, <2>2, <2>3 DEF OnwardStep
<1> QED
  BY <1>2, <1>3, <1>4, <1>5 DEF DispatchStep

-----------------------------------------------------------------------------
(***************************************************************************)
(* Late outcomes.  An attempt is completed by the one dispatch that holds  *)
(* its token, in the step that ends it; so an outcome kept as late, whose  *)
(* dispatch has ended or only stops its attempt, is never published.       *)
(***************************************************************************)

\* The tokens issued: one per attempt.
Issued(token) ==
    /\ token.attempt \in 1..MaxAttempts
    /\ token.fence = 2 * token.attempt - 1

\* The attempt of a dispatch that has claimed is not completed.
PendingInv(d, j) ==
    sup[d][j].pc \in AfterClaim =>
        /\ Issued(sup[d][j].token)
        /\ attempts[j][sup[d][j].token.attempt] \notin Completions

\* A late outcome's attempt is not completed, and whoever holds its token only
\* stops it.
LateInv(j) ==
    \A t \in late[j] :
        /\ Issued(t) /\ t.fence <= job[j].fence
        /\ attempts[j][t.attempt] \notin Completions
        /\ \A d \in Dispatchers :
            sup[d][j].pc \in AfterClaim /\ sup[d][j].token = t => sup[d][j].pc \in Stopping

\* An attempt is completed by the dispatch that carries its token.
LEMMA OnlyCompletes ==
    ASSUME TypeOK, NEW j \in Jobs, RowInv(j), RowEvent(j), NEW t \in AttemptFence, Issued(t),
           attempts[j][t.attempt] \notin Completions, attempts'[j][t.attempt] \in Completions
    PROVE  \E e \in Dispatchers :
              /\ sup[e][j].pc = "publishTx" /\ sup'[e][j].pc = "idle"
              /\ sup[e][j].token = t
              /\ HoldsToken(job[j], t)
<1>0. /\ job[j] \in JobRow /\ job[j].attempt \in Nat /\ t.attempt \in 1..MaxAttempts
      /\ attempts[j] \in [1..MaxAttempts -> Outcomes \cup {"none", "open"}]
  BY DEF TypeOK, JobRow, Issued
<1>1. ~KeepsAttempts(j) /\ ~Opens(j)
  BY <1>0 DEF KeepsAttempts, Opens, Completions
<1>2. \A o : Closes(j, o) => job[j].attempt = t.attempt /\ o \in Completions
  BY <1>0 DEF Closes
<1>3. ~ConfirmEvent(j) /\ ~RecoverEvent(j)
  BY <1>2 DEF ConfirmEvent, RecoverEvent, Completions
<1>4. CompleteEvent(j)
  BY <1>1, <1>3 DEF RowEvent, NoEvent, EnqueueEvent, ClaimEvent, RebindEvent, RenewEvent,
                    CancelEvent
<1>5. PICK e \in Dispatchers :
         /\ sup[e][j].pc = "publishTx" /\ sup'[e][j].pc = "idle"
         /\ HoldsToken(job[j], sup[e][j].token)
  BY <1>4 DEF CompleteEvent, CanComplete, CheckRunningToken
<1>6. job[j].attempt = t.attempt
  BY <1>2, <1>4 DEF CompleteEvent
<1>7. job[j].fence = 2 * job[j].attempt - 1 /\ job[j].state = "running"
  BY <1>5 DEF HoldsToken, RowInv, Validate
<1>8. sup[e][j].token \in AttemptFence
  BY DEF TypeOK, Dispatch
<1>9. sup[e][j].token.attempt = t.attempt /\ sup[e][j].token.fence = t.fence
  BY <1>5, <1>6, <1>7 DEF HoldsToken, Issued
<1>10. sup[e][j].token = t
  BY <1>8, <1>9 DEF AttemptFence
<1> QED
  BY <1>5, <1>10

\* The token of a claim is the row's next one.
LEMMA ClaimIssues ==
    ASSUME TypeOK, NEW d \in Dispatchers, NEW j \in Jobs, RowInv(j), TokenInv(d, j),
           ClaimStep(d, j)
    PROVE  /\ Issued(sup'[d][j].token)
           /\ sup'[d][j].token.fence = job[j].fence + 1
           /\ attempts'[j][sup'[d][j].token.attempt] = "open"
<1>0. /\ job[j] \in JobRow /\ job[j].attempt \in Nat /\ job[j].fence \in Nat
      /\ attempts[j] \in [1..MaxAttempts -> Outcomes \cup {"none", "open"}]
  BY DEF TypeOK, JobRow
<1>1. sup'[d][j].token = ClaimToken(job[j])
  BY DEF ClaimStep, KeepsToken, TokenInv
<1>2. /\ sup'[d][j].token.attempt = job[j].attempt + 1
      /\ sup'[d][j].token.fence = job[j].fence + 1
  BY <1>1 DEF ClaimToken
<1>3. job[j].state = "queued" /\ job[j].attempt < MaxAttempts /\ job[j].fence = 2 * job[j].attempt
  BY DEF ClaimStep, CanClaim, RowInv, Validate
<1>4. job[j].attempt + 1 \in 1..MaxAttempts
  BY <1>0, <1>3, MaxAttemptsPositive
<1>5. attempts'[j][job[j].attempt + 1] = "open"
  BY <1>0, <1>4 DEF ClaimStep, Opens
<1> QED
  BY <1>0, <1>2, <1>3, <1>4, <1>5 DEF Issued

\* A dispatch that has claimed had claimed before, with the same token, or claims now.
LEMMA HadClaimed ==
    ASSUME NEW d \in Dispatchers, NEW j \in Jobs, DispatchStep(d, j), sup'[d][j].pc \in AfterClaim
    PROVE  \/ sup[d][j].pc \in AfterClaim /\ sup'[d][j].token = sup[d][j].token
           \/ ClaimStep(d, j)
BY DEF DispatchStep, ScanStep, ReadStep, RebindStep, AuthorizeStep, OnwardStep, KeepsToken,
       AfterClaim

LEMMA StepKeepsPending ==
    ASSUME TypeOK, TypeOK', TokensUnique, NEW d \in Dispatchers, NEW j \in Jobs,
           RowInv(j), RowEvent(j), TokenInv(d, j), DispatchStep(d, j), PendingInv(d, j)
    PROVE  PendingInv(d, j)'
<1> SUFFICES ASSUME sup'[d][j].pc \in AfterClaim
             PROVE  /\ Issued(sup'[d][j].token)
                    /\ attempts'[j][sup'[d][j].token.attempt] \notin Completions
  BY DEF PendingInv, Issued
<1>1. CASE ClaimStep(d, j)
  BY <1>1, ClaimIssues DEF Completions
<1>2. CASE sup[d][j].pc \in AfterClaim /\ sup'[d][j].token = sup[d][j].token
  <2>1. PICK t \in AttemptFence : t = sup[d][j].token
    BY DEF TypeOK, Dispatch
  <2>2. Issued(t) /\ attempts[j][t.attempt] \notin Completions
    BY <1>2, <2>1 DEF PendingInv
  <2>3. attempts'[j][t.attempt] \notin Completions
    <3> SUFFICES ASSUME attempts'[j][t.attempt] \in Completions PROVE FALSE
      OBVIOUS
    <3>1. PICK e \in Dispatchers :
             /\ sup[e][j].pc = "publishTx" /\ sup'[e][j].pc = "idle"
             /\ sup[e][j].token = t
      BY <2>2, OnlyCompletes
    <3>2. sup[e][j].pc \in AfterClaim
      BY <3>1 DEF AfterClaim
    <3>3. e = d
      BY <1>2, <2>1, <3>1, <3>2 DEF TokensUnique
    <3> QED
      BY <3>1, <3>3 DEF AfterClaim
  <2> QED
    BY <1>2, <2>1, <2>2, <2>3
<1> QED
  BY <1>1, <1>2, HadClaimed

\* A dispatch gives its outcome up as late when its publication fails.
GivesUp(d, j) ==
    /\ sup[d][j].pc \in {"publish", "publishTx"}
    /\ sup'[d][j].pc \in {"idle", "stopThenConfirm"}
    /\ late'[j] = late[j] \cup {sup[d][j].token}
    /\ job'[j] = job[j]
    /\ KeepsAttempts(j)
    /\ \A c \in Dispatchers \ {d} : sup'[c][j] = sup[c][j]

\* A step keeps at most one outcome of a job as late, and only by giving it up.
LEMMA LateStep ==
    ASSUME TypeOK, Next, NEW k \in Jobs
    PROVE  late'[k] = late[k] \/ \E d \in Dispatchers : GivesUp(d, k)
<1> USE DEF storeVars, boundVars
<1>1. ASSUME NEW d \in Dispatchers, NEW j \in Jobs, RecordLate(d, j),
             UNCHANGED <<job, attempts>>,
             sup[d][j].pc \in {"publish", "publishTx"},
             Return(d, j) \/ Goto(d, j, "stopThenConfirm")
      PROVE  late'[k] = late[k] \/ GivesUp(d, k)
  <2>1. CASE k # j
    BY <1>1, <2>1 DEF RecordLate, TypeOK
  <2>2. CASE k = j
    <3>1. late'[k] = late[k] \cup {sup[d][k].token}
      BY <1>1, <2>2 DEF RecordLate, TypeOK
    <3>2. /\ sup'[d][k].pc \in {"idle", "stopThenConfirm"}
          /\ \A c \in Dispatchers \ {d} : sup'[c][k] = sup[c][k]
      BY <1>1, <2>2, ReturnWrites, GotoWrites DEF AfterClaim
    <3> QED
      BY <1>1, <2>2, <3>1, <3>2 DEF GivesUp, KeepsAttempts
  <2> QED
    BY <2>1, <2>2
<1>2. CASE UNCHANGED late
  BY <1>2
<1>3. ASSUME NEW d \in Dispatchers, NEW j \in Jobs, PublishRead(d, j)
      PROVE  late'[k] = late[k] \/ GivesUp(d, k)
  BY <1>1, <1>3 DEF PublishRead
<1>4. ASSUME NEW d \in Dispatchers, NEW j \in Jobs, PublishAbort(d, j)
      PROVE  late'[k] = late[k] \/ GivesUp(d, k)
  BY <1>1, <1>4 DEF PublishAbort
<1>5. CASE \E j \in Jobs :
              (\E i \in BOOLEAN : Enqueue(j, i)) \/ CancelCommand(j) \/ RecoverPage(j)
  BY <1>2, <1>5 DEF Enqueue, CancelCommand, RecoverPage
<1>6. CASE \E d \in Dispatchers, j \in Jobs : Claiming(d, j)
  BY <1>2, <1>6 DEF Claiming, ReadJob, RebindJob, Authorize, ClaimJob, Reauthorize
<1>7. CASE \E d \in Dispatchers, j \in Jobs : Supervising(d, j)
  <2>1. PICK d \in Dispatchers, j \in Jobs : Supervising(d, j)
    BY <1>7
  <2>2. CASE PublishRead(d, j) \/ PublishAbort(d, j)
    BY <1>3, <1>4, <2>2
  <2>3. CASE PollFenced(d, j) \/ PollStop(d, j) \/ RenewLease(d, j) \/ StopJob(d, j)
             \/ GraceOver(d, j) \/ Confirm(d, j) \/ RecoverAfterLease(d, j)
             \/ PublishComplete(d, j)
    BY <1>2, <2>3 DEF PollFenced, PollStop, RenewLease, StopJob, GraceOver, Confirm,
                      RecoverAfterLease, PublishComplete
  <2> QED
    BY <2>1, <2>2, <2>3 DEF Supervising
<1>8. CASE \E d \in Dispatchers, j \in Jobs :
             ScanQueued(d, j) \/ WorkerReturns(d, j) \/ PollRenew(d, j) \/ DispatchFails(d, j)
  BY <1>2, <1>8 DEF ScanQueued, WorkerReturns, WorkerCompletes, WorkerStops, PollRenew,
                    DispatchFails
<1>9. CASE \/ \E d \in Dispatchers : Crash(d)
           \/ \E dep \in Deployments \cup {Off} : Activate(dep)
           \/ Tick \/ StepBack
  BY <1>2, <1>9 DEF Crash, Activate, Tick, StepBack
<1> QED
  BY <1>5, <1>6, <1>7, <1>8, <1>9 DEF Next

LEMMA StepKeepsLate ==
    ASSUME TypeOK, TypeOK', TokensUnique, Next, NEW j \in Jobs, RowInv(j), RowEvent(j),
           \A d \in Dispatchers : TokenInv(d, j) /\ DispatchStep(d, j) /\ PendingInv(d, j),
           LateInv(j)
    PROVE  LateInv(j)'
<1>0. job[j].fence \in Nat /\ job'[j].fence \in Nat /\ job'[j].fence >= job[j].fence
  BY EventsGrow DEF TypeOK, JobRow
<1>1. \A t \in late'[j] :
         /\ Issued(t) /\ t.fence <= job'[j].fence
         /\ attempts'[j][t.attempt] \notin Completions
         /\ \A d \in Dispatchers :
               sup'[d][j].pc \in AfterClaim /\ sup'[d][j].token = t => sup'[d][j].pc \in Stopping
  <2> SUFFICES ASSUME NEW t \in late'[j]
               PROVE  /\ Issued(t) /\ t.fence <= job'[j].fence
                      /\ attempts'[j][t.attempt] \notin Completions
                      /\ \A d \in Dispatchers :
                            sup'[d][j].pc \in AfterClaim /\ sup'[d][j].token = t
                                => sup'[d][j].pc \in Stopping
    OBVIOUS
  <2>0. t \in AttemptFence /\ t.fence \in Nat
    BY DEF TypeOK, AttemptFence
  <2>1. CASE t \in late[j]
    <3>1. /\ Issued(t) /\ t.fence <= job[j].fence
          /\ attempts[j][t.attempt] \notin Completions
          /\ \A d \in Dispatchers :
                sup[d][j].pc \in AfterClaim /\ sup[d][j].token = t => sup[d][j].pc \in Stopping
      BY <2>1 DEF LateInv
    <3>2. attempts'[j][t.attempt] \notin Completions
      <4> SUFFICES ASSUME attempts'[j][t.attempt] \in Completions PROVE FALSE
        OBVIOUS
      <4>1. PICK e \in Dispatchers : sup[e][j].pc = "publishTx" /\ sup[e][j].token = t
        BY <2>0, <3>1, OnlyCompletes
      <4> QED
        BY <3>1, <4>1 DEF AfterClaim, Stopping
    <3>3. ASSUME NEW d \in Dispatchers, sup'[d][j].pc \in AfterClaim, sup'[d][j].token = t
          PROVE  sup'[d][j].pc \in Stopping
      <4>1. ~ClaimStep(d, j)
        <5>1. ClaimStep(d, j) => sup'[d][j].token.fence = job[j].fence + 1
          BY ClaimIssues
        <5> QED
          BY <1>0, <2>0, <3>1, <3>3, <5>1
      <4>2. sup[d][j].pc \in Stopping
        BY <3>1, <3>3, <4>1, HadClaimed
      <4> QED
        BY <3>3, <4>1, <4>2
           DEF DispatchStep, ScanStep, ReadStep, RebindStep, AuthorizeStep, OnwardStep, MoveStep,
               Moves, PublishReadStep, PublishAgainStep, Stopping, Working, AfterClaim
    <3> QED
      BY <1>0, <2>0, <3>1, <3>2, <3>3
  <2>2. CASE t \notin late[j]
    <3>1. PICK d \in Dispatchers : GivesUp(d, j)
      BY <2>2, LateStep
    <3>2. t = sup[d][j].token /\ sup[d][j].pc \in AfterClaim
      BY <2>2, <3>1 DEF GivesUp, AfterClaim
    <3>3. Issued(t) /\ attempts[j][t.attempt] \notin Completions /\ t.fence <= job[j].fence
      BY <3>2 DEF PendingInv, TokenInv
    <3>4. ASSUME NEW c \in Dispatchers, sup'[c][j].pc \in AfterClaim, sup'[c][j].token = t
          PROVE  sup'[c][j].pc \in Stopping
      <4>1. CASE c = d
        BY <3>1, <3>4, <4>1 DEF GivesUp, AfterClaim, Stopping
      <4>2. CASE c # d
        <5>1. sup'[c][j] = sup[c][j]
          BY <3>1, <4>2 DEF GivesUp
        <5> QED
          BY <3>2, <3>4, <4>2, <5>1 DEF TokensUnique
      <4> QED
        BY <4>1, <4>2
    <3> QED
      BY <1>0, <3>1, <3>3, <3>4 DEF GivesUp, KeepsAttempts
  <2> QED
    BY <2>1, <2>2
<1> QED
  BY <1>1 DEF LateInv, Issued, Stopping

-----------------------------------------------------------------------------
(***************************************************************************)
(* Workers started.  A claim opens the attempt that the worker it starts   *)
(* runs in: the workers started, and the dispatches that are about to      *)
(* start one, are never more than the attempts the row counts.             *)
(***************************************************************************)

Claimed(j) == {d \in Dispatchers : sup[d][j].pc = "claimed"}

RunsInv(j) ==
    IsFiniteSet(Claimed(j)) /\ ran[j] + Cardinality(Claimed(j)) <= job[j].attempt

\* A claimed dispatch starts its worker.
StartsWorker(d, j) ==
    /\ sup[d][j].pc = "claimed" /\ sup'[d][j].pc = "run"
    /\ ran'[j] = ran[j] + 1
    /\ \A c \in Dispatchers \ {d} : sup'[c][j] = sup[c][j]

\* A step starts at most one worker of a job.
LEMMA RanStep ==
    ASSUME TypeOK, Next, NEW k \in Jobs
    PROVE  ran'[k] = ran[k] \/ \E d \in Dispatchers : StartsWorker(d, k)
<1> USE DEF storeVars, boundVars
<1>1. CASE UNCHANGED ran
  BY <1>1
<1>2. ASSUME NEW d \in Dispatchers, NEW j \in Jobs, Reauthorize(d, j)
      PROVE  ran'[k] = ran[k] \/ StartsWorker(d, k)
  <2>1. CASE UNCHANGED ran
    BY <2>1
  <2>2. CASE Goto(d, j, "run") /\ ran' = [ran EXCEPT ![j] = @ + 1]
    <3>1. CASE k # j
      BY <2>2, <3>1 DEF TypeOK
    <3>2. CASE k = j
      <4>1. ran'[k] = ran[k] + 1
        BY <2>2, <3>2 DEF TypeOK
      <4>2. sup'[d][k].pc = "run" /\ \A c \in Dispatchers \ {d} : sup'[c][k] = sup[c][k]
        BY <2>2, <3>2, GotoWrites DEF AfterClaim
      <4> QED
        BY <1>2, <3>2, <4>1, <4>2 DEF Reauthorize, StartsWorker
    <3> QED
      BY <3>1, <3>2
  <2> QED
    BY <1>2, <2>1, <2>2 DEF Reauthorize
<1>3. CASE \E j \in Jobs :
              (\E i \in BOOLEAN : Enqueue(j, i)) \/ CancelCommand(j) \/ RecoverPage(j)
  BY <1>1, <1>3 DEF Enqueue, CancelCommand, RecoverPage
<1>4. CASE \E d \in Dispatchers, j \in Jobs : Claiming(d, j)
  BY <1>1, <1>2, <1>4 DEF Claiming, ReadJob, RebindJob, Authorize, ClaimJob
<1>5. CASE \E d \in Dispatchers, j \in Jobs : Supervising(d, j)
  BY <1>1, <1>5 DEF Supervising, PollFenced, PollStop, RenewLease, StopJob, GraceOver, Confirm,
                    RecoverAfterLease, PublishRead, PublishComplete, PublishAbort
<1>6. CASE \E d \in Dispatchers, j \in Jobs :
             ScanQueued(d, j) \/ WorkerReturns(d, j) \/ PollRenew(d, j) \/ DispatchFails(d, j)
  BY <1>1, <1>6 DEF ScanQueued, WorkerReturns, WorkerCompletes, WorkerStops, PollRenew,
                    DispatchFails
<1>7. CASE \/ \E d \in Dispatchers : Crash(d)
           \/ \E dep \in Deployments \cup {Off} : Activate(dep)
           \/ Tick \/ StepBack
  BY <1>1, <1>7 DEF Crash, Activate, Tick, StepBack
<1> QED
  BY <1>3, <1>4, <1>5, <1>6, <1>7 DEF Next

\* An event never takes an attempt back.
LEMMA AttemptsGrow ==
    ASSUME TypeOK, NEW j \in Jobs, RowInv(j), RowEvent(j)
    PROVE  job'[j].attempt >= job[j].attempt
<1>0. job[j] \in JobRow /\ job[j].attempt \in Nat
  BY DEF TypeOK, JobRow
<1>1. CASE EnqueueEvent(j)
  <2>1. \A i, dep : QueuedRow(i, dep, now).attempt = 0
    BY DEF QueuedRow
  <2> QED
    BY <1>1, <2>1 DEF EnqueueEvent, Writes, RowInv
<1>2. CASE ClaimEvent(j)
  BY <1>0, <1>2 DEF ClaimEvent, Writes, Claim, JobRow
<1>3. CASE NoEvent(j)
  BY <1>0, <1>3 DEF NoEvent
<1>4. ASSUME \/ RebindEvent(j) \/ RenewEvent(j) \/ CancelEvent(j)
             \/ CompleteEvent(j) \/ ConfirmEvent(j) \/ RecoverEvent(j)
      PROVE  job'[j].attempt = job[j].attempt
  <2>1. CASE RebindEvent(j)
    BY <1>0, <2>1 DEF RebindEvent, Rebind, Writes, JobRow
  <2>2. CASE RenewEvent(j)
    BY <1>0, <2>2 DEF RenewEvent, Renew, Writes, JobRow
  <2>3. CASE CancelEvent(j)
    BY <1>0, <2>3 DEF CancelEvent, RequestCancellation, Writes, JobRow
  <2>4. CASE CompleteEvent(j)
    BY <1>0, <2>4 DEF CompleteEvent, Complete, Writes, JobRow
  <2>5. CASE ConfirmEvent(j)
    BY <1>0, <2>5 DEF ConfirmEvent, ConfirmStopped, Writes, JobRow
  <2>6. CASE RecoverEvent(j)
    BY <1>0, <2>6 DEF RecoverEvent, Recovered, RecoverExpired, RetryInterrupted, Writes, JobRow
  <2> QED
    BY <1>4, <2>1, <2>2, <2>3, <2>4, <2>5, <2>6
<1> QED
  BY <1>0, <1>1, <1>2, <1>3, <1>4 DEF RowEvent

LEMMA StepKeepsRuns ==
    ASSUME TypeOK, TypeOK', Next, NEW j \in Jobs, RowInv(j), RowEvent(j),
           \A d \in Dispatchers : DispatchStep(d, j),
           RunsInv(j)
    PROVE  RunsInv(j)'
<1> DEFINE C == Claimed(j)
           D == Claimed(j)'
<1>0. /\ job[j] \in JobRow /\ job[j].attempt \in Nat /\ ran[j] \in Nat /\ ran'[j] \in Nat
      /\ job'[j].attempt \in Nat
  BY DEF TypeOK, JobRow
<1>1. IsFiniteSet(C) /\ Cardinality(C) \in Nat /\ ran[j] + Cardinality(C) <= job[j].attempt
  BY FS_CardinalityType DEF RunsInv
<1>2. ASSUME NEW d \in Dispatchers, sup'[d][j].pc = "claimed"
      PROVE  sup[d][j].pc = "claimed" \/ ClaimStep(d, j)
  BY <1>2 DEF DispatchStep, ScanStep, ReadStep, RebindStep, AuthorizeStep, OnwardStep
<1>3. CASE \E d \in Dispatchers : ClaimStep(d, j)
  <2>1. PICK d \in Dispatchers : ClaimStep(d, j)
    BY <1>3
  <2>2. D = C \cup {d} /\ d \notin C
    BY <2>1 DEF ClaimStep, Claimed
  <2>3. IsFiniteSet(D) /\ Cardinality(D) = Cardinality(C) + 1
    BY <1>1, <2>2, FS_AddElement
  <2>4. ran'[j] = ran[j]
    <3>1. ASSUME NEW e \in Dispatchers, StartsWorker(e, j) PROVE FALSE
      BY <2>1, <3>1 DEF ClaimStep, StartsWorker
    <3> QED
      BY <3>1, RanStep
  <2>5. job'[j].attempt = job[j].attempt + 1
    BY <1>0, <2>1 DEF ClaimStep, Claim, JobRow
  <2>6. PICK n \in Nat : n = Cardinality(C)
    BY <1>1
  <2>7. Cardinality(D) = n + 1 /\ ran[j] + n <= job[j].attempt
    BY <1>1, <2>3, <2>6
  <2>8. ran'[j] + Cardinality(D) <= job'[j].attempt
    BY <1>0, <2>4, <2>5, <2>7
  <2> QED
    BY <2>3, <2>8 DEF RunsInv
<1>4. CASE \A d \in Dispatchers : ~ClaimStep(d, j)
  <2>1. D \subseteq C
    BY <1>2, <1>4 DEF Claimed
  <2>2. job'[j].attempt >= job[j].attempt
    BY AttemptsGrow
  <2>3. IsFiniteSet(D) /\ Cardinality(D) \in Nat /\ Cardinality(D) <= Cardinality(C)
    BY <1>1, <2>1, FS_Subset, FS_CardinalityType
  <2>4. CASE ran'[j] = ran[j]
    <3> HIDE DEF C
    <3>1. ran'[j] + Cardinality(D) <= job'[j].attempt
      BY <1>0, <1>1, <2>2, <2>3, <2>4
    <3> QED
      BY <2>3, <3>1 DEF RunsInv
  <2>5. ASSUME NEW d \in Dispatchers, StartsWorker(d, j) PROVE RunsInv(j)'
    <3>1. d \in C /\ D \subseteq C \ {d}
      BY <2>1, <2>5 DEF StartsWorker, Claimed
    <3>2. IsFiniteSet(C \ {d}) /\ Cardinality(C \ {d}) = Cardinality(C) - 1
      BY <1>1, <3>1, FS_RemoveElement
    <3>3. Cardinality(D) <= Cardinality(C) - 1
      BY <3>1, <3>2, FS_Subset
    <3>4. ran'[j] = ran[j] + 1
      BY <2>5 DEF StartsWorker
    <3> HIDE DEF C
    <3>5. ran'[j] + Cardinality(D) <= job'[j].attempt
      BY <1>0, <1>1, <2>2, <2>3, <3>3, <3>4
    <3> QED
      BY <2>3, <3>5 DEF RunsInv
  <2> QED
    BY <2>4, <2>5, RanStep
<1> QED
  BY <1>3, <1>4

-----------------------------------------------------------------------------
(***************************************************************************)
(* The queue.  Only Enqueue adds a job to those queued or running: a       *)
(* recovery takes one that runs and puts it back.                          *)
(***************************************************************************)

CapInv == IsFiniteSet(Waiting) /\ Cardinality(Waiting) <= MaxQueued

LEMMA WaitingBefore ==
    ASSUME TypeOK, NEW j \in Jobs, RowEvent(j), ~EnqueueEvent(j),
           job'[j].state \in {"queued", "running"}
    PROVE  job[j].state \in {"queued", "running"}
<1>0. job[j] \in JobRow
  BY DEF TypeOK
<1>1. CASE NoEvent(j)
  BY <1>1 DEF NoEvent
<1>2. CASE ClaimEvent(j) \/ RebindEvent(j)
  BY <1>2 DEF ClaimEvent, CanClaim, RebindEvent, CanRebind
<1>3. CASE RenewEvent(j) \/ CompleteEvent(j) \/ ConfirmEvent(j) \/ RecoverEvent(j)
  BY <1>3 DEF RenewEvent, CanRenew, CompleteEvent, CanComplete, ConfirmEvent, CanConfirmStopped,
              RecoverEvent, CanRecoverExpired, CheckRunningToken, HoldsToken
<1>4. CASE CancelEvent(j)
  BY <1>0, <1>4 DEF CancelEvent, RequestCancellation, Writes, JobRow
<1> QED
  BY <1>1, <1>2, <1>3, <1>4 DEF RowEvent

LEMMA StepKeepsCapacity ==
    ASSUME TypeOK, \A j \in Jobs : RowEvent(j), CapInv
    PROVE  CapInv'
<1> DEFINE W == Waiting
           V == Waiting'
<1>1. IsFiniteSet(W) /\ Cardinality(W) \in Nat /\ Cardinality(W) <= MaxQueued
  BY FS_CardinalityType DEF CapInv
<1>2. CASE \E j \in Jobs : EnqueueEvent(j)
  <2>1. PICK j \in Jobs : EnqueueEvent(j)
    BY <1>2
  <2>2. Cardinality(W) < MaxQueued /\ job[j].state = "absent"
    BY <2>1 DEF EnqueueEvent
  <2>3. V \subseteq W \cup {j} /\ j \notin W
    BY <2>1, <2>2 DEF EnqueueEvent, Waiting
  <2>4. IsFiniteSet(W \cup {j}) /\ Cardinality(W \cup {j}) = Cardinality(W) + 1
    BY <1>1, <2>3, FS_AddElement
  <2>5. IsFiniteSet(V) /\ Cardinality(V) \in Nat /\ Cardinality(V) <= Cardinality(W) + 1
    BY <2>3, <2>4, FS_Subset, FS_CardinalityType
  <2>6. PICK n \in Nat : n = Cardinality(W)
    BY <1>1
  <2>7. Cardinality(V) <= n + 1 /\ n < MaxQueued
    BY <2>2, <2>5, <2>6
  <2>8. Cardinality(V) <= MaxQueued
    BY <2>5, <2>7, QueueBounded
  <2> QED
    BY <2>5, <2>8 DEF CapInv
<1>3. CASE \A j \in Jobs : ~EnqueueEvent(j)
  <2>1. V \subseteq W
    BY <1>3, WaitingBefore DEF Waiting
  <2>2. IsFiniteSet(V) /\ Cardinality(V) \in Nat /\ Cardinality(V) <= Cardinality(W)
    BY <1>1, <2>1, FS_Subset, FS_CardinalityType
  <2>3. PICK n \in Nat : n = Cardinality(W)
    BY <1>1
  <2>4. Cardinality(V) <= MaxQueued
    BY <1>1, <2>2, <2>3, QueueBounded
  <2> QED
    BY <2>2, <2>4 DEF CapInv
<1> QED
  BY <1>2, <1>3

-----------------------------------------------------------------------------
(***************************************************************************)
(* The strengthened invariant, and what it gives.                          *)
(***************************************************************************)

Bounds ==
    /\ CapInv
    /\ \A j \in Jobs : RunsInv(j) /\ LateInv(j)
    /\ \A d \in Dispatchers, j \in Jobs : TriesInv(d, j) /\ PendingInv(d, j)

LEMMA BoundsInvariant == Spec => []Bounds
<1>1. Init => Bounds
  <2> SUFFICES ASSUME Init PROVE Bounds
    OBVIOUS
  <2>1. /\ \A d \in Dispatchers, j \in Jobs : sup[d][j].pc = "idle" /\ sup[d][j].tries = 0
        /\ \A j \in Jobs : job[j].state = "absent" /\ job[j].attempt = 0
        /\ \A j \in Jobs : ran[j] = 0 /\ late[j] = {}
    BY DEF Init, Idle, AbsentRow
  <2>2. CapInv
    <3>1. Waiting = {}
      BY <2>1 DEF Waiting
    <3> QED
      BY <3>1, FS_EmptySet, QueueBounded DEF CapInv
  <2>3. ASSUME NEW j \in Jobs PROVE RunsInv(j) /\ LateInv(j)
    <3>1. Claimed(j) = {}
      BY <2>1 DEF Claimed
    <3> QED
      BY <2>1, <3>1, FS_EmptySet DEF RunsInv, LateInv
  <2> QED
    BY <2>1, <2>2, <2>3 DEF Bounds, TriesInv, PendingInv, AfterClaim
<1>2. ASSUME Inv, Inv', Bounds, [Next]_vars PROVE Bounds'
  <2>1. CASE Next
    <3>0. TypeOK /\ TypeOK' /\ TokensUnique
      BY <1>2 DEF Inv
    <3>1. \A j \in Jobs : RowInv(j) /\ RowEvent(j)
      BY <1>2, <2>1, StepIsRowEvent DEF Inv
    <3>2. \A d \in Dispatchers, j \in Jobs : TokenInv(d, j) /\ DispatchStep(d, j)
      BY <1>2, <2>1, StepIsDispatchStep DEF Inv
    <3>3. CapInv'
      BY <1>2, <3>0, <3>1, StepKeepsCapacity DEF Bounds
    <3>4. \A j \in Jobs : RunsInv(j)'
      BY <1>2, <2>1, <3>0, <3>1, <3>2, StepKeepsRuns DEF Bounds
    <3>5. \A j \in Jobs : LateInv(j)'
      BY <1>2, <2>1, <3>0, <3>1, <3>2, StepKeepsLate DEF Bounds
    <3>6. \A d \in Dispatchers, j \in Jobs : TriesInv(d, j)'
      BY <1>2, <3>0, <3>1, <3>2, StepKeepsTries DEF Bounds
    <3>7. \A d \in Dispatchers, j \in Jobs : PendingInv(d, j)'
      BY <1>2, <3>0, <3>1, <3>2, StepKeepsPending DEF Bounds
    <3> QED
      BY <3>3, <3>4, <3>5, <3>6, <3>7 DEF Bounds
  <2>2. CASE UNCHANGED vars
    <3>1. UNCHANGED <<job, attempts, sup, late, ran>>
      BY <2>2 DEF vars
    <3>2. CapInv'
      BY <1>2, <3>1 DEF Bounds, CapInv, Waiting
    <3>3. \A j \in Jobs : RunsInv(j)' /\ LateInv(j)'
      BY <1>2, <3>1 DEF Bounds, RunsInv, Claimed, LateInv
    <3>4. \A d \in Dispatchers, j \in Jobs : TriesInv(d, j)' /\ PendingInv(d, j)'
      BY <1>2, <3>1 DEF Bounds, TriesInv, ToRead, HasRead, PendingInv
    <3> QED
      BY <3>2, <3>3, <3>4 DEF Bounds
  <2> QED
    BY <1>2, <2>1, <2>2
<1>3. Inv /\ Inv' /\ Bounds /\ [Next]_vars => Bounds'
  BY <1>2
<1> QED
  BY <1>1, <1>3, InvInductive, PTL DEF Spec

\* finish_completion, record_late_observation: an outcome a dispatch gave up as
\* late was published by nobody, before or after.
THEOREM LateStaysUnpublished == Spec => []LateNeverPublished
<1>1. Bounds => LateNeverPublished
  BY DEF Bounds, LateInv, LateNeverPublished
<1> QED
  BY <1>1, BoundsInvariant, PTL

\* ExtensionJob::claim, finish_completion and enqueue_tx: a job's workers, the rounds
\* of its publication and the queue stay within their bounds, whatever crashes,
\* expires or races.
THEOREM BoundsAlwaysHold == Spec => []BoundsHold
<1>1. ASSUME Inv, Bounds PROVE BoundsHold
  <2>1. ASSUME NEW j \in Jobs
        PROVE  ran[j] <= IF job[j].idempotent THEN MaxAttempts ELSE 1
    <3>1. /\ job[j].attempt \in Nat /\ ran[j] \in Nat /\ job[j].idempotent \in BOOLEAN
          /\ MaxAttempts \in Nat
      BY <1>1, MaxAttemptsPositive DEF Inv, TypeOK, JobRow
    <3>2. PICK n \in Nat : n = Cardinality(Claimed(j))
      BY <1>1, FS_CardinalityType DEF Bounds, RunsInv
    <3>3. ran[j] + n <= job[j].attempt
      BY <1>1, <3>2 DEF Bounds, RunsInv
    <3>4. job[j].attempt <= MaxAttempts /\ (~job[j].idempotent => job[j].attempt <= 1)
      BY <1>1, <3>1 DEF Inv, RowInv, Validate
    <3> QED
      BY <3>1, <3>3, <3>4
  <2>2. RunsBounded
    BY <2>1 DEF RunsBounded
  <2>3. CasRoundsSuffice
    BY <1>1 DEF Bounds, TriesInv, CasRoundsSuffice
  <2>4. CapacityRespected
    BY <1>1 DEF Bounds, CapInv, CapacityRespected
  <2> QED
    BY <2>2, <2>3, <2>4 DEF BoundsHold
<1>2. Inv /\ Bounds => BoundsHold
  BY <1>1
<1> QED
  BY <1>2, InvInductive, BoundsInvariant, PTL
=============================================================================
