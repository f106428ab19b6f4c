---------------------------- MODULE ExtensionJob ----------------------------
(***************************************************************************)
(* The pure lifecycle of one durable extension job                         *)
(* (crates/oxplow-domain/src/extension_job.rs): the row, what `validate`   *)
(* demands of it, and for every JobEvent the condition under which         *)
(* `transition` accepts it (Can...) and the row it returns.                *)
(*                                                                         *)
(* `transition` also runs `validate` before and after every event.  Those  *)
(* two calls are not conjuncts of the guards here: that they never reject  *)
(* is the invariant RowsValid of JobDispatch, proved in JobDispatchProofs. *)
(*                                                                         *)
(* Times are the wall clock's, in ticks.  The deadline of a lease is a     *)
(* positive time, so 0 stands for `lease_until_ms: None`.  Of a            *)
(* cancellation request only its presence is kept, not its time.           *)
(***************************************************************************)
EXTENDS Integers

CONSTANTS MaxAttempts,    \* MAX_ATTEMPTS (3 in the code)
          LeaseTicks,     \* CLAIM_LEASE_MS
          Deployments,    \* the deployments of the extension that owns the jobs
          FirstDeployment \* the one in place when the project opens

ASSUME MaxAttemptsPositive == MaxAttempts \in Nat \ {0}
ASSUME LeasePositive == LeaseTicks \in Nat \ {0}
ASSUME FirstIsDeployment == FirstDeployment \in Deployments

NoLease == 0

JobStates == {"queued", "running", "interrupted", "succeeded", "failed", "cancelled"}

\* States whose row the table's trigger refuses to update at all.
Closed == {"succeeded", "failed", "cancelled"}

\* States `announce_tx` reports as the end of the job.
Ended == Closed \cup {"interrupted"}

\* The table's row; "absent" is an intent nobody has enqueued yet.
JobRow == [state : JobStates \cup {"absent"},
           attempt : Nat,
           fence : Nat,
           lease : Nat,
           cancel : BOOLEAN,
           idempotent : BOOLEAN,
           owner : Deployments,
           updated : Nat,
           revision : Nat]

AttemptFence == [attempt : Nat, fence : Nat]

NoToken == [attempt |-> 0, fence |-> 0]

AbsentRow == [state |-> "absent", attempt |-> 0, fence |-> 0, lease |-> NoLease,
              cancel |-> FALSE, idempotent |-> FALSE, owner |-> FirstDeployment,
              updated |-> 0, revision |-> 0]

\* ExtensionJob::queued, stored by enqueue_tx at revision 1.
QueuedRow(idempotent, owner, now) ==
    [state |-> "queued", attempt |-> 0, fence |-> 0, lease |-> NoLease,
     cancel |-> FALSE, idempotent |-> idempotent, owner |-> owner,
     updated |-> now, revision |-> 1]

\* ExtensionJob::validate: the counters, lease and cancellation each state allows.
Validate(j) ==
    /\ j.attempt <= j.fence
    /\ ~j.idempotent => j.attempt <= 1
    /\ j.attempt <= MaxAttempts
    /\ j.state = "queued" =>
          /\ j.lease = NoLease
          /\ ~j.cancel
          /\ j.fence = 2 * j.attempt
          /\ j.attempt > 0 => j.idempotent
    /\ j.state = "running" =>
          j.attempt > 0 /\ j.fence = 2 * j.attempt - 1 /\ j.lease > NoLease
    /\ j.state = "interrupted" =>
          j.attempt > 0 /\ j.fence = 2 * j.attempt /\ j.lease = NoLease
    /\ j.state \in {"succeeded", "failed"} =>
          j.attempt > 0 /\ j.fence = 2 * j.attempt - 1 /\ j.lease = NoLease
    /\ j.state = "cancelled" =>
          /\ j.lease = NoLease
          /\ j.cancel
          /\ j.attempt = 0 => j.fence = 0
          /\ j.attempt > 0 => j.fence = 2 * j.attempt - 1

-----------------------------------------------------------------------------
(***************************************************************************)
(* The events.  CheckTime is `check_time`: the wall clock may have been    *)
(* set back below the row's last update, and every event then fails.       *)
(***************************************************************************)

CheckTime(j, now) == now >= j.updated

HoldsToken(j, token) ==
    /\ j.state = "running"
    /\ token.attempt = j.attempt
    /\ token.fence = j.fence

\* check_running_token
CheckRunningToken(j, token, now) == HoldsToken(j, token) /\ now < j.lease

\* Mutant: the token predicts the fence before the claim, not after it.
ClaimTokenBehind(j) == [attempt |-> j.attempt + 1, fence |-> j.fence - 1]

\* The token a claim of this row would issue.
ClaimToken(j) == [attempt |-> j.attempt + 1, fence |-> j.fence + 1]

CanClaim(j, now) ==
    CheckTime(j, now) /\ j.state = "queued" /\ ~j.cancel

Claim(j, now) ==
    [j EXCEPT !.state = "running", !.attempt = j.attempt + 1, !.fence = j.fence + 1,
              !.lease = now + LeaseTicks, !.updated = now, !.revision = j.revision + 1]

CanRenew(j, token, now) ==
    /\ CheckTime(j, now)
    /\ CheckRunningToken(j, token, now)
    /\ now + LeaseTicks >= j.lease

\* Mutant: a renewal forgets the revision.
RenewKeepsRevision(j, now) == [j EXCEPT !.lease = now + LeaseTicks, !.updated = now]

Renew(j, now) ==
    [j EXCEPT !.lease = now + LeaseTicks, !.updated = now, !.revision = j.revision + 1]

CanComplete(j, token, now) == CheckTime(j, now) /\ CheckRunningToken(j, token, now)

Complete(j, outcome, now) ==
    [j EXCEPT !.state = outcome, !.lease = NoLease, !.updated = now,
              !.revision = j.revision + 1]

CanRequestCancellation(j, now) == j.state \notin Closed /\ CheckTime(j, now)

\* A queued row ends at once: cancelled, or interrupted when an earlier
\* attempt may still have an effect in flight.
RequestCancellation(j, now) ==
    [j EXCEPT !.cancel = TRUE,
              !.state = IF j.cancel \/ j.state # "queued" THEN j.state
                        ELSE IF j.attempt = 0 THEN "cancelled" ELSE "interrupted",
              !.updated = now, !.revision = j.revision + 1]

CanConfirmStopped(j, token, now) ==
    CheckTime(j, now) /\ CheckRunningToken(j, token, now) /\ j.cancel

ConfirmStopped(j, now) ==
    [j EXCEPT !.state = "cancelled", !.lease = NoLease, !.updated = now,
              !.revision = j.revision + 1]

CanRecoverExpired(j, now) ==
    CheckTime(j, now) /\ j.state = "running" /\ now >= j.lease

\* Mutant: the cut-off attempt is not fenced.
RecoverUnfenced(j, now) ==
    [j EXCEPT !.state = "interrupted", !.lease = NoLease, !.updated = now,
              !.revision = j.revision + 1]

RecoverExpired(j, now) ==
    [j EXCEPT !.state = "interrupted", !.fence = j.fence + 1, !.lease = NoLease,
              !.updated = now, !.revision = j.revision + 1]

\* Mutant: the limit on attempts is off by one.
CanRetryOneFewer(j) ==
    j.state = "interrupted" /\ j.idempotent /\ ~j.cancel /\ j.attempt + 1 < MaxAttempts

CanRetryInterrupted(j) ==
    j.state = "interrupted" /\ j.idempotent /\ ~j.cancel /\ j.attempt < MaxAttempts

\* Mutant: a retry starts over with fresh counters.
RetryFromZero(j) ==
    [j EXCEPT !.state = "queued", !.attempt = 0, !.fence = 0, !.revision = j.revision + 1]

RetryInterrupted(j) == [j EXCEPT !.state = "queued", !.revision = j.revision + 1]

CanRebind(j, now) == CheckTime(j, now) /\ j.state = "queued" /\ ~j.cancel

Rebind(j, owner, now) ==
    [j EXCEPT !.owner = owner, !.updated = now, !.revision = j.revision + 1]

=============================================================================
