------------------------------- MODULE JobScan -------------------------------
(***************************************************************************)
(* How the scheduler gets round to every queued job                        *)
(* (oxplow-app/src/extension/extension_job_scheduler.rs, over              *)
(* candidates_tx in oxplow-db's extension_job_store.rs).  JobDispatch      *)
(* takes the scan of each job as fair; this is the scan itself: pages of   *)
(* the queue in the order of its rows' last update, a cursor kept from one *)
(* scan to the next, and few slots, while the dispatches it starts skip,   *)
(* move and finish jobs and new ones arrive.                               *)
(*                                                                         *)
(* A job is its id; the time of an update is its number.                   *)
(***************************************************************************)
EXTENDS Integers, Sequences, FiniteSets

CONSTANTS
    LastJob,        \* the jobs are 1..LastJob
    PageSize,
    MaxDispatches,
    MaxTurns        \* bound: moves and cancels of a queued job, changes of `able`, panics

ASSUME ScanAssumption ==
    /\ LastJob \in Nat
    /\ PageSize \in Nat \ {0} /\ MaxDispatches \in Nat \ {0} /\ MaxTurns \in Nat

Jobs == 1..LastJob
NoCursor == [at |-> 0, id |-> 0]

VARIABLES
    jobRow,            \* each job's state and the time of its last update
    able,           \* the jobs whose deployment is live and approved
    active,         \* the jobs the scheduler has dispatched
    cursor,         \* queued_cursor
    clock,
    turns

scanVars == <<jobRow, able, active, cursor, clock, turns>>

Queued == {j \in Jobs : jobRow[j].state = "queued"}
CursorAt(j) == [at |-> jobRow[j].at, id |-> j]
Before(c, d) == c.at < d.at \/ (c.at = d.at /\ c.id < d.id)
After(c) == {j \in Queued : Before(c, CursorAt(j))}

Update(j, state) ==
    /\ clock' = clock + 1
    /\ jobRow' = [jobRow EXCEPT ![j] = [state |-> state, at |-> clock + 1]]

Turn == turns < MaxTurns /\ turns' = turns + 1

-----------------------------------------------------------------------------
\* candidates_tx: the first PageSize rows behind the cursor, in their order.
Page ==
    LET rank(j) == Cardinality({i \in After(cursor) : Before(CursorAt(i), CursorAt(j))})
        size == IF Cardinality(After(cursor)) > PageSize THEN PageSize
                ELSE Cardinality(After(cursor))
    IN  [n \in 1..size |-> CHOOSE j \in After(cursor) : rank(j) = n - 1]
More == Cardinality(After(cursor)) > PageSize

\* How far the loop over the page comes until the slots are full.
Consumed(page) ==
    LET started(n) == {page[i] : i \in 1..n} \ active
        fits(n) == Cardinality(active) + Cardinality(started(n - 1)) < MaxDispatches
    IN  Cardinality({n \in DOMAIN page : \A m \in 1..n : fits(m)})

NextCursor(page, n) ==
    IF n = Len(page) THEN IF More THEN CursorAt(page[n]) ELSE NoCursor
    ELSE CursorAt(page[n])

\* Mutant: the page is read from the start each time.
ScanFromStart ==
    /\ Cardinality(active) < MaxDispatches
    /\ cursor = NoCursor
    /\ LET n == Consumed(Page)
       IN  active' = active \cup {Page[i] : i \in 1..n}
    /\ UNCHANGED <<jobRow, able, cursor, clock, turns>>

\* scan: nothing awaits between the read of the page and the last dispatch.
Scan ==
    /\ Cardinality(active) < MaxDispatches
    /\ LET page == Page
           n == Consumed(page)
       IN  /\ active' = active \cup {page[i] : i \in 1..n}
           /\ cursor' = NextCursor(page, n)
    /\ UNCHANGED <<jobRow, able, clock, turns>>

-----------------------------------------------------------------------------
(* run_one as the scheduler sees it: JobDispatch has its steps.            *)

\* It is not queued any more, or may not run: it stays as it is.
RunSkips(j) ==
    /\ j \in active /\ jobRow[j].state # "running"
    /\ j \in Queued => j \notin able
    /\ active' = active \ {j}
    /\ UNCHANGED <<jobRow, able, cursor, clock, turns>>

\* A newer deployment takes it over, which may not run it either.
RunRebinds(j) ==
    /\ j \in active \cap Queued /\ Turn
    /\ Update(j, "queued")
    /\ UNCHANGED <<able, active, cursor>>

RunClaims(j) ==
    /\ j \in active \cap Queued \cap able
    /\ Update(j, "running")
    /\ UNCHANGED <<able, active, cursor, turns>>

RunEnds(j) ==
    /\ j \in active /\ jobRow[j].state = "running"
    /\ Update(j, "ended")
    /\ active' = active \ {j}
    /\ UNCHANGED <<able, cursor, turns>>

\* joined: a task that panicked takes its siblings with it.
RunPanics ==
    /\ active # {} /\ Turn
    /\ active' = {}
    /\ UNCHANGED <<jobRow, able, cursor, clock>>

\* recover_page: an attempt nobody runs is queued again, or is the end.
RunRecovers(j, state) ==
    /\ jobRow[j].state = "running" /\ j \notin active
    /\ Update(j, state)
    /\ UNCHANGED <<able, active, cursor, turns>>

JobEnqueued(j) ==
    /\ jobRow[j].state = "absent"
    /\ Update(j, "queued")
    /\ UNCHANGED <<able, active, cursor, turns>>

\* A queued job that is cancelled ends now.
JobCancelled(j) ==
    /\ j \in Queued /\ Turn
    /\ Update(j, "ended")
    /\ UNCHANGED <<able, active, cursor>>

\* An activation, or a person's approval.
AbleChanges(j) ==
    /\ Turn
    /\ able' = IF j \in able THEN able \ {j} ELSE able \cup {j}
    /\ UNCHANGED <<jobRow, active, cursor, clock>>

-----------------------------------------------------------------------------
ScanInit ==
    /\ jobRow = [j \in Jobs |-> [state |-> "absent", at |-> 0]]
    /\ able \in SUBSET Jobs
    /\ active = {} /\ cursor = NoCursor /\ clock = 0 /\ turns = 0

Dispatched(j) == RunSkips(j) \/ RunClaims(j) \/ RunEnds(j)

ScanNext ==
    \/ Scan
    \/ RunPanics
    \/ \E j \in Jobs :
          \/ Dispatched(j) \/ RunRebinds(j) \/ JobEnqueued(j) \/ JobCancelled(j) \/ AbleChanges(j)
          \/ \E state \in {"queued", "ended"} : RunRecovers(j, state)

\* The scheduler ticks every second; what it dispatched returns.
ScanFair ==
    /\ WF_scanVars(Scan)
    /\ \A j \in Jobs : WF_scanVars(Dispatched(j))

-----------------------------------------------------------------------------

\* No job that may run waits for ever behind jobs that may not: it is claimed, or
\* stops being one that may.
RunnableRuns == \A j \in Jobs : []<>(j \notin Queued \cap able)
=============================================================================
