------------------------------- MODULE Pacing -------------------------------
(***************************************************************************)
(* A paced collector's runs (oxplow-app/src/pacing.rs, over oxplow-db's    *)
(* collector_store.rs).  The collector.triggers consumer defers the run to *)
(* the event it handles; a pass every few seconds lists what is pending,   *)
(* runs what is due for the latest event it waited on and clears it, while *)
(* events go on arriving.  Time is left out: a run may be due or not at    *)
(* any pass.  Events are their log positions.                              *)
(***************************************************************************)
EXTENDS Integers

CONSTANTS
    MaxDeferrals,   \* bound: the events that trigger it are 1..MaxDeferrals
    MaxSetbacks     \* bound: passes it is not due at, Busy and failed ones, stops,
                    \* redeliveries and deployments

ASSUME PacingAssumption == MaxDeferrals \in Nat /\ MaxSetbacks \in Nat

NoRow == 0

VARIABLES
    handled,        \* the last event the consumer handled
    row,            \* pending_run: the event the run waits on, or NoRow
    paced,          \* the collector runs on events with pacing, as deployed
    pass,           \* the pass that runs it
    answered,       \* history: the last event it ran for, or was dropped with
    setbacks

pacingVars == <<handled, row, paced, pass, answered, setbacks>>

NoPass == [pc |-> "sleeps", seq |-> NoRow]
Later(m, n) == IF m > n THEN m ELSE n

\* mark_pending: the latest event wins.
MarkPending(seq) == row' = Later(row, seq)

\* clear_pending: unless a newer event deferred it again.
ClearPending(seq) == row' = IF row <= seq THEN NoRow ELSE row

\* The consumer handles the next event that triggers the collector, which runs at
\* once when it has no pacing.
Defers ==
    /\ handled < MaxDeferrals
    /\ handled' = handled + 1
    /\ IF paced
       THEN MarkPending(handled + 1) /\ UNCHANGED answered
       ELSE answered' = handled + 1 /\ UNCHANGED row
    /\ UNCHANGED <<paced, pass, setbacks>>

\* Delivered again, after a stop or by a person's retry: an older event.
DefersAgain(seq) ==
    /\ setbacks < MaxSetbacks /\ seq <= handled /\ paced
    /\ setbacks' = setbacks + 1
    /\ MarkPending(seq)
    /\ UNCHANGED <<handled, paced, pass, answered>>

\* run_due_in_generation: what is pending, read once.
ListPending ==
    /\ pass.pc = "sleeps" /\ row # NoRow
    /\ pass' = [pc |-> "found", seq |-> row]
    /\ UNCHANGED <<handled, row, paced, answered, setbacks>>

\* Mutant: skipped, and found again at every pass.
DropsNothing ==
    /\ pass.pc = "found" /\ ~paced
    /\ pass' = NoPass
    /\ UNCHANGED <<handled, row, paced, answered, setbacks>>

\* Gone, or no longer paced: dropped, whatever it waited on.  The pass holds the
\* generation, so that none is published meanwhile.
Drops ==
    /\ pass.pc = "found" /\ ~paced
    /\ row' = NoRow
    /\ answered' = handled
    /\ pass' = NoPass
    /\ UNCHANGED <<handled, paced, setbacks>>

\* run_one: it ran, failed or had nothing to run.
RunOne ==
    /\ pass.pc = "found" /\ paced
    /\ pass' = [pass EXCEPT !.pc = "ran"]
    /\ answered' = Later(answered, pass.seq)
    /\ UNCHANGED <<handled, row, paced, setbacks>>

ClearRow ==
    /\ pass.pc = "ran"
    /\ ClearPending(pass.seq)
    /\ pass' = NoPass
    /\ UNCHANGED <<handled, paced, answered, setbacks>>

\* It is not due yet, a change analysis is running already (Busy), a read fails,
\* or oxplow stops: the row stays for the next pass, also when it ran.
PassEnds ==
    /\ pass.pc # "sleeps" /\ setbacks < MaxSetbacks
    /\ setbacks' = setbacks + 1
    /\ pass' = NoPass
    /\ UNCHANGED <<handled, row, paced, answered>>

\* A deployment changes whether it is paced, between the passes.
Deploys ==
    /\ pass.pc = "sleeps" /\ setbacks < MaxSetbacks
    /\ setbacks' = setbacks + 1
    /\ paced' = ~paced
    /\ UNCHANGED <<handled, row, pass, answered>>

PacingInit ==
    /\ handled = 0 /\ row = NoRow /\ paced = TRUE /\ pass = NoPass
    /\ answered = 0 /\ setbacks = 0

PacedPass == ListPending \/ Drops \/ RunOne \/ ClearRow

PacingNext ==
    \/ Defers
    \/ \E seq \in 1..MaxDeferrals : DefersAgain(seq)
    \/ PacedPass \/ PassEnds \/ Deploys

\* The pass runs every five seconds for as long as oxplow does.
PacingFair == WF_pacingVars(PacedPass)

-----------------------------------------------------------------------------
(* Properties.                                                             *)

\* Once events stop arriving every one is answered, by a run for it or a later one,
\* or dropped with a collector that is paced no more: a pass that is too early,
\* Busy or fails is followed by another (spawn).
DeferralsAnswered == answered < handled ~> answered = handled
=============================================================================
