---------------------------- MODULE CommandClaims ----------------------------
(***************************************************************************)
(* What the command bus does so that a proposal is approved, and an audited *)
(* run undone, once (oxplow-app/src/commands, over oxplow-db's              *)
(* proposal_store.rs and command_audit_store.rs).  A command inside the     *)
(* transaction is marked with its run; one outside is claimed before its    *)
(* handler runs, and the claim is finished, or released when it fails.      *)
(* People approve, decline and undo side by side, agents propose again, and *)
(* oxplow may stop at any point.                                            *)
(*                                                                          *)
(* The proposals all have one key: those with another never meet.           *)
(***************************************************************************)
EXTENDS Integers, Sequences, FiniteSets

CONSTANTS
    Deciders,       \* the people's runs that may overlap
    AuditRows,      \* audited runs with an inverse
    MaxProposals,   \* bound: proposals made
    MaxLosses       \* bound: records and releases the database refuses

ASSUME ClaimsAssumption == MaxProposals \in Nat /\ MaxLosses \in Nat

Proposals == 1..MaxProposals
Items == Proposals \cup AuditRows
NoItem == 0

\* A proposal's decision, or an audit row's undone_by.  A claim is a proposal
\* approved with no audit row yet, or a row undone by UNDO_PENDING; one that is
\* done names its run.
Marks == {"pending", "claimed", "done", "declined", "superseded"}

VARIABLES
    proposed,       \* how many proposals were made
    mark,           \* each item's
    decider,        \* what each decider is doing, with which item
    ran,            \* how often each item's command ran and its change stands
    losses

claimVars == <<proposed, mark, decider, ran, losses>>

Free == [pc |-> "free", item |-> NoItem]
DecidesAt(d, pc) == decider[d].pc = pc
DeciderGoes(d, pc) == decider' = [decider EXCEPT ![d].pc = pc]
DeciderReturns(d) == decider' = [decider EXCEPT ![d] = Free]
Made == {p \in Proposals : p <= proposed}

-----------------------------------------------------------------------------

\* unconfirmed, insert_tx: a proposal is kept, and supersedes the pending ones.
Propose ==
    /\ proposed < MaxProposals
    /\ proposed' = proposed + 1
    /\ mark' = [i \in Items |->
                    IF i \in Made /\ mark[i] = "pending" THEN "superseded" ELSE mark[i]]
    /\ UNCHANGED <<decider, ran, losses>>

\* pending_proposal, undoable: what the decider sees before its run begins.
Looks(d, i, pc) ==
    /\ DecidesAt(d, "free")
    /\ i \in Made \cup AuditRows /\ mark[i] = "pending"
    /\ pc = "decline" => i \in Proposals
    /\ decider' = [decider EXCEPT ![d] = [pc |-> pc, item |-> i]]
    /\ UNCHANGED <<proposed, mark, ran, losses>>

\* decline: nothing runs.
Declines(d) ==
    LET i == decider[d].item IN
    /\ DecidesAt(d, "decline")
    /\ mark' = IF mark[i] = "pending" THEN [mark EXCEPT ![i] = "declined"] ELSE mark
    /\ DeciderReturns(d)
    /\ UNCHANGED <<proposed, ran, losses>>

\* A handler inside the transaction: its change, its record and the item's mark
\* land together, or the run lost its race and nothing does.
RunsInside(d) ==
    LET i == decider[d].item IN
    /\ DecidesAt(d, "run")
    /\ IF mark[i] = "pending"
       THEN /\ mark' = [mark EXCEPT ![i] = "done"]
            /\ ran' = [ran EXCEPT ![i] = @ + 1]
       ELSE UNCHANGED <<mark, ran>>
    /\ DeciderReturns(d)
    /\ UNCHANGED <<proposed, losses>>

\* One outside it: the item is claimed first (claim_tx, mark_undone_tx).
ClaimsItem(d) ==
    LET i == decider[d].item IN
    /\ DecidesAt(d, "run")
    /\ IF mark[i] = "pending"
       THEN mark' = [mark EXCEPT ![i] = "claimed"] /\ DeciderGoes(d, "handler")
       ELSE DeciderReturns(d) /\ UNCHANGED mark
    /\ UNCHANGED <<proposed, ran, losses>>

\* The handler outside runs, or fails.
Handles(d) ==
    LET i == decider[d].item IN
    /\ DecidesAt(d, "handler")
    /\ \/ ran' = [ran EXCEPT ![i] = @ + 1] /\ DeciderGoes(d, "record")
       \/ DeciderGoes(d, "release") /\ UNCHANGED ran
    /\ UNCHANGED <<proposed, mark, losses>>

\* record_external: finish_claim_tx, finish_undo_claim_tx.
RecordsItem(d) ==
    LET i == decider[d].item IN
    /\ DecidesAt(d, "record")
    /\ mark' = IF mark[i] = "claimed" THEN [mark EXCEPT ![i] = "done"] ELSE mark
    /\ DeciderReturns(d)
    /\ UNCHANGED <<proposed, ran, losses>>

\* release: the proposal is pending again, the row undoable again.
Releases(d) ==
    LET i == decider[d].item IN
    /\ DecidesAt(d, "release")
    /\ mark' = IF mark[i] = "claimed" THEN [mark EXCEPT ![i] = "pending"] ELSE mark
    /\ DeciderReturns(d)
    /\ UNCHANGED <<proposed, ran, losses>>

\* Mutant: a run that could not be recorded is released.
LosesAndReleases(d) ==
    /\ DecidesAt(d, "record") \/ DecidesAt(d, "release")
    /\ losses < MaxLosses
    /\ losses' = losses + 1
    /\ mark' = [mark EXCEPT ![decider[d].item] = "pending"]
    /\ DeciderReturns(d)
    /\ UNCHANGED <<proposed, ran>>

\* The record or the release fails: logged, and the claim stays.
Loses(d) ==
    /\ DecidesAt(d, "record") \/ DecidesAt(d, "release")
    /\ losses < MaxLosses
    /\ losses' = losses + 1
    /\ DeciderReturns(d)
    /\ UNCHANGED <<proposed, mark, ran>>

\* oxplow stops: what was under way is gone, claims stay as they are.
StopsDeciding ==
    /\ losses < MaxLosses
    /\ losses' = losses + 1
    /\ decider' = [d \in Deciders |-> Free]
    /\ UNCHANGED <<proposed, mark, ran>>

ClaimsInit ==
    /\ proposed = 0
    /\ mark = [i \in Items |-> "pending"]
    /\ decider = [d \in Deciders |-> Free]
    /\ ran = [i \in Items |-> 0]
    /\ losses = 0

ClaimsNext ==
    \/ Propose
    \/ \E d \in Deciders, i \in Items, pc \in {"run", "decline"} : Looks(d, i, pc)
    \/ \E d \in Deciders :
        \/ Declines(d) \/ RunsInside(d) \/ ClaimsItem(d) \/ Handles(d)
        \/ RecordsItem(d) \/ Releases(d) \/ Loses(d)
    \/ StopsDeciding

ClaimsSpec == ClaimsInit /\ [][ClaimsNext]_claimVars

-----------------------------------------------------------------------------
(* Properties.                                                             *)

\* The types of the state.
ClaimsTypeOK ==
    /\ proposed \in 0..MaxProposals
    /\ mark \in [Items -> Marks]
    /\ ran \in [Items -> Nat]
    /\ decider \in [Deciders -> [pc : {"free", "run", "decline", "handler", "record", "release"},
                                 item : Items \cup {NoItem}]]
    /\ losses \in Nat

\* What a decision says is what happened: a proposal's command, or a run's
\* inverse, runs at most once whoever decides at the same time, and never for a
\* proposal that was declined or superseded - not when oxplow stops, or cannot
\* record the run, either.
DecidedOnce ==
    \A i \in Items :
        /\ ran[i] <= 1
        /\ mark[i] \in {"pending", "declined", "superseded"} => ran[i] = 0
=============================================================================
