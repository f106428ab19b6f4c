------------------------------ MODULE JobPromise ------------------------------
(***************************************************************************)
(* What a durable job promises whoever enqueued it, with no lease, fence,  *)
(* clock, revision, deployment or dispatcher in sight: it waits, works and *)
(* ends; one attempt at a time, one in all unless replay is safe; a request*)
(* to stop stands; an end is the end.  JobDispatch implements it           *)
(* (KeepsPromise).                                                         *)
(***************************************************************************)
EXTENDS Naturals

CONSTANTS Jobs, MaxAttempts

VARIABLE jobs   \* per job: where it is, attempts begun, its replay policy, a
                \* request to stop

Job(status, tries, replay, stop) ==
    [status |-> status, tries |-> tries, replay |-> replay, stop |-> stop]

Limit(j) == IF jobs[j].replay THEN MaxAttempts ELSE 1

Becomes(j, next) == jobs' = [jobs EXCEPT ![j] = next]

\* Only its status changes.
Moves(j, status) ==
    Becomes(j, Job(status, jobs[j].tries, jobs[j].replay, jobs[j].stop))

Submit(j, replay) ==
    /\ jobs[j].status = "absent"
    /\ Becomes(j, Job("queued", 0, replay, FALSE))

Begin(j) ==
    /\ jobs[j].status = "queued"
    /\ ~jobs[j].stop
    /\ jobs[j].tries < Limit(j)
    /\ Becomes(j, Job("running", jobs[j].tries + 1, jobs[j].replay, FALSE))

Finish(j, status) ==
    /\ jobs[j].status = "running"
    /\ status = "cancelled" => jobs[j].stop
    /\ Moves(j, status)

\* Whoever ran it is gone, and what it did is not known.
CutOff(j) ==
    /\ jobs[j].status = "running"
    /\ Moves(j, IF jobs[j].replay /\ ~jobs[j].stop /\ jobs[j].tries < MaxAttempts
                THEN "queued" ELSE "interrupted")

\* A job that waits ends at once; only one that never began is cancelled.
AfterAsk(j) ==
    IF jobs[j].status # "queued" THEN jobs[j].status
    ELSE IF jobs[j].tries = 0 THEN "cancelled" ELSE "interrupted"

Ask(j) ==
    /\ jobs[j].status \in {"queued", "running", "interrupted"}
    /\ ~jobs[j].stop
    /\ Becomes(j, Job(AfterAsk(j), jobs[j].tries, jobs[j].replay, TRUE))

Init == jobs = [j \in Jobs |-> Job("absent", 0, FALSE, FALSE)]

Next ==
    \E j \in Jobs :
        \/ \E replay \in BOOLEAN : Submit(j, replay)
        \/ Begin(j)
        \/ \E status \in {"succeeded", "failed", "cancelled"} : Finish(j, status)
        \/ CutOff(j)
        \/ Ask(j)

Spec == Init /\ [][Next]_jobs
=============================================================================
