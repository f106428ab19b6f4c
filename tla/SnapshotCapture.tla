--------------------------- MODULE SnapshotCapture ---------------------------
(***************************************************************************)
(* How an edit reaches a snapshot (oxplow-app/src/snapshot_capture.rs).    *)
(* The watcher task turns what the watch heard into a dirty set; sweeps    *)
(* walk the disk and put what they find in it already read (staged); a     *)
(* take sends a marker through the watch, waits for it, drains the set     *)
(* under take_lock, reads what is not staged and records the rows.  Takes, *)
(* sweeps, the watcher and the writers of the disk run side by side.       *)
(*                                                                         *)
(* A content is the number of the change that made it, so versions of a    *)
(* file grow; the versions in gone are deletions, and 0 is a file that     *)
(* never was.                                                              *)
(***************************************************************************)
EXTENDS Integers, Sequences, FiniteSets

CONSTANTS
    Files,
    Takes,          \* the takes there will be; a take is also its marker
    Uncovered,      \* the files in directories the watch could not cover
    MaxChanges,     \* bound: writes and deletions
    MaxRescans,     \* bound: rescans the watch asks for
    MaxFailures     \* bound: reads and writes that fail

ASSUME CaptureAssumption ==
    /\ Uncovered \subseteq Files
    /\ MaxChanges \in Nat /\ MaxRescans \in Nat /\ MaxFailures \in Nat

Versions == 0..MaxChanges
None == -1                     \* not staged, not found, no row
RescanAll == "rescan all"      \* a rescan of the root: it swallows markers
RescanDir == "rescan dir"      \* a rescan of the directory that holds the files
Rescans == {RescanAll, RescanDir}
Watcher == "watcher"
Boot == "boot"
Nobody == "nobody"
Sweepers == {Boot, Watcher} \cup Takes

\* Neither a sweep nor a free lock is a take.
ASSUME SweepersNamed == {Boot, Watcher, Nobody} \cap Takes = {}

\* A marker is a file of its own: no path that is captured, and no rescan.
ASSUME MarkersNamed == Takes \cap (Files \cup Rescans) = {}

VARIABLES
    disk,       \* the version of each file on the disk
    gone,       \* the versions of each file that are deletions
    changes, rescanned, failures,   \* how many there were
    osq,        \* files and markers the OS has yet to report, in order
    heard,      \* what the subscription holds for the watcher task
    answers,    \* markers the batch being handled answers at its end
    back,       \* takes whose marker came back
    dirty,      \* the paths of the dirty set
    staging,    \* the version a sweep staged for each of them, or None
    sweep,      \* each sweeper's walk
    pc,         \* where each take is
    timely,     \* takes whose marker came back in time
    since,      \* history: the disk when each take was asked for
    lock,       \* who holds take_lock
    drained,    \* the paths the take under the lock drained
    drainedAs,  \* their staging
    rows,       \* the version it recorded for each path, or None
    recorded,   \* the version of each file's latest row; 0: no row
    slipped     \* history: files a fault, a stale staging or a stale row lost

vars == <<disk, gone, changes, rescanned, failures, osq, heard, answers, back,
          dirty, staging, sweep, pc, timely, since, lock, drained, drainedAs,
          rows, recorded, slipped>>
diskVars == <<disk, gone, changes>>
lockVars == <<lock, drained, drainedAs, rows>>
takeVars == <<pc, timely, since, lockVars, recorded>>
watchVars == <<rescanned, osq, heard, answers, back>>
dirtyVars == <<dirty, staging>>

Staged == Versions \cup {None}
Off == [on |-> FALSE, latest |-> [f \in Files |-> 0], left |-> {},
        found |-> [f \in Files |-> None]]

TypeOK ==
    /\ disk \in [Files -> Versions]
    /\ gone \in [Files -> SUBSET (Versions \ {0})]
    /\ changes \in Versions
    /\ rescanned \in 0..MaxRescans /\ failures \in 0..MaxFailures
    /\ osq \in Seq(Files \cup Takes)
    /\ heard \subseteq Files \cup Takes \cup Rescans
    /\ answers \subseteq Takes /\ back \subseteq Takes
    /\ dirty \subseteq Files
    /\ staging \in [Files -> Staged]
    /\ sweep \in [Sweepers -> [on : BOOLEAN, latest : [Files -> Versions],
                               left : SUBSET Files, found : [Files -> Staged]]]
    /\ pc \in [Takes -> {"new", "marker", "sweeping", "lock",
                         "drained", "captured", "done"}]
    /\ timely \subseteq Takes
    /\ since \in [Takes -> [Files -> Versions]]
    /\ lock \in Takes \cup {Nobody}
    /\ \A t \in Takes : pc[t] \in {"drained", "captured"} <=> lock = t
    /\ drained \subseteq Files
    /\ drainedAs \in [Files -> Staged] /\ rows \in [Files -> Staged]
    /\ recorded \in [Files -> Versions]
    /\ slipped \subseteq Files

-----------------------------------------------------------------------------
Present(f, v) == v # 0 /\ v \notin gone[f]

\* same_content, and a deletion of what is already deleted.
SameContent(f, v, w) == v = w \/ (~Present(f, v) /\ ~Present(f, w))

Fail == failures < MaxFailures /\ failures' = failures + 1

\* mark_dirty: an entry that is staged keeps its staging.
MarkDirty(paths) == dirty' = dirty \cup paths /\ UNCHANGED staging

\* mark_dirty_with_staging: the newer staging wins, whatever was there.
MarkStaged(found) ==
    /\ dirty' = dirty \cup {f \in Files : found[f] # None}
    /\ staging' = [f \in Files |-> IF found[f] # None THEN found[f] ELSE staging[f]]

-----------------------------------------------------------------------------
(* The disk and the watch.                                                 *)

ChangeFile(f) ==
    /\ changes < MaxChanges
    /\ changes' = changes + 1
    /\ disk' = [disk EXCEPT ![f] = changes + 1]
    /\ osq' = IF f \in Uncovered THEN osq ELSE Append(osq, f)
    /\ UNCHANGED <<rescanned, failures, heard, answers, back, dirtyVars, sweep,
                   takeVars, slipped>>

WriteFile(f) == ChangeFile(f) /\ UNCHANGED gone

DeleteFile(f) ==
    /\ Present(f, disk[f])
    /\ ChangeFile(f)
    /\ gone' = [gone EXCEPT ![f] = @ \cup {changes + 1}]

\* The watch (FsWatch): a path under a pending rescan adds nothing to it.
Absorbed(x) ==
    \/ RescanAll \in heard
    \/ RescanDir \in heard /\ x \in Files

Deliver ==
    /\ osq # <<>>
    /\ osq' = Tail(osq)
    /\ heard' = IF Absorbed(Head(osq)) THEN heard ELSE heard \cup {Head(osq)}
    /\ UNCHANGED <<diskVars, rescanned, failures, answers, back, dirtyVars, sweep,
                   takeVars, slipped>>

\* The OS dropped events, or the watch asks for a rescan of its own.
WatchRescan(dir, lost) ==
    /\ rescanned < MaxRescans
    /\ rescanned' = rescanned + 1
    /\ osq' = IF lost THEN <<>> ELSE osq
    /\ heard' = {dir} \cup (IF dir = RescanAll \/ RescanAll \in heard
                            THEN {} ELSE heard \cap Takes)
                      \cup (heard \cap {RescanAll})
    /\ UNCHANGED <<diskVars, failures, answers, back, dirtyVars, sweep, takeVars,
                   slipped>>

-----------------------------------------------------------------------------
(* Sweeps: enqueue_tree_diff, by the boot sweep, by the watcher for a      *)
(* rescan and by a take for what is uncovered.                             *)

Scope(s) == IF s \in Takes THEN Uncovered ELSE Files

\* The rows last recorded, read before the walk.
Walk(s) == [on |-> TRUE, latest |-> recorded, left |-> Scope(s),
            found |-> [f \in Files |-> None]]

\* One file of the walk: what differs from its last row is read and staged.
SweepFile(s, f) ==
    /\ sweep[s].on /\ f \in sweep[s].left
    /\ sweep' = [sweep EXCEPT ![s].left = @ \ {f},
                              ![s].found[f] = IF SameContent(f, disk[f], sweep[s].latest[f])
                                              THEN None ELSE disk[f]]
    /\ UNCHANGED <<diskVars, failures, watchVars, dirtyVars, takeVars, slipped>>

\* It cannot be read, or its blob not written: passed over.
SweepUnread(s, f) ==
    /\ sweep[s].on /\ f \in sweep[s].left
    /\ Present(f, disk[f]) /\ Fail
    /\ sweep' = [sweep EXCEPT ![s].left = @ \ {f}]
    /\ slipped' = slipped \cup {f}
    /\ UNCHANGED <<diskVars, watchVars, dirtyVars, takeVars>>

\* What is staged over a change the sweep did not see.
StaleFound(found) == {f \in Files : found[f] \notin {None, disk[f]}}

\* Older readings held for the next record: by the dirty set, by the drain and by
\* the rows of a take under way. A sweep that finds a file as its last recorded
\* row has it says nothing, though such a reading is about to be recorded.
Outdated == {f \in Files : \E v \in {staging[f], drainedAs[f], rows[f]} :
                                v \notin {None, disk[f]}}

\* Each marker is answered if its take still waits for it.
Waiting(markers) == {t \in markers : pc[t] = "marker"}

\* What a batch's or a take's sweep was for goes on when it ends.
Resume(s) ==
    /\ IF s = Watcher THEN back' = back \cup Waiting(answers) /\ answers' = {}
                      ELSE UNCHANGED <<back, answers>>
    /\ pc' = IF s \in Takes THEN [pc EXCEPT ![s] = "lock"] ELSE pc
    /\ UNCHANGED <<diskVars, rescanned, osq, heard, timely, since, lockVars, recorded>>

SweepEnd(s) ==
    /\ sweep[s].on /\ sweep[s].left = {}
    /\ sweep' = [sweep EXCEPT ![s] = Off]
    /\ MarkStaged(sweep[s].found)
    /\ slipped' = slipped \cup StaleFound(sweep[s].found) \cup Outdated
    /\ Resume(s)
    /\ UNCHANGED failures

\* Loading the last rows fails: the sweep is given up, with a warning.
SweepFails(s) ==
    /\ sweep[s].on /\ sweep[s].left = Scope(s)
    /\ Fail
    /\ sweep' = [sweep EXCEPT ![s] = Off]
    /\ slipped' = slipped \cup Scope(s)
    /\ Resume(s)
    /\ UNCHANGED dirtyVars

\* sweep_stream, once, at the start.
BootSweep ==
    /\ changes = 0 /\ ~sweep[Boot].on
    /\ sweep' = [sweep EXCEPT ![Boot] = Walk(Boot)]
    /\ UNCHANGED <<diskVars, failures, watchVars, dirtyVars, takeVars, slipped>>

-----------------------------------------------------------------------------
(* The watcher task.                                                       *)

\* What is heard of a path whose entry holds an older staging.
StaleHeard(paths) == {f \in paths \cap dirty : staging[f] \notin {None, disk[f]}}

\* Mutant: markers are answered before the rescan they came with.
OnBatchAnswersFirst ==
    /\ ~sweep[Watcher].on
    /\ heard # {}
    /\ heard' = {}
    /\ MarkDirty(heard \cap Files)
    /\ slipped' = slipped \cup StaleHeard(heard \cap Files)
    /\ back' = back \cup Waiting(heard \cap Takes)
    /\ sweep' = IF heard \cap Rescans = {} THEN sweep
                ELSE [sweep EXCEPT ![Watcher] = Walk(Watcher)]
    /\ UNCHANGED <<diskVars, rescanned, failures, osq, answers, takeVars>>

\* run_watcher and on_batch: paths first, then rescans, markers last.
OnBatch ==
    /\ ~sweep[Watcher].on
    /\ heard # {}
    /\ heard' = {}
    /\ MarkDirty(heard \cap Files)
    /\ slipped' = slipped \cup StaleHeard(heard \cap Files)
    /\ IF heard \cap Rescans = {}
       THEN /\ back' = back \cup Waiting(heard \cap Takes)
            /\ UNCHANGED <<answers, sweep>>
       ELSE /\ answers' = heard \cap Takes
            /\ sweep' = [sweep EXCEPT ![Watcher] = Walk(Watcher)]
            /\ UNCHANGED back
    /\ UNCHANGED <<diskVars, rescanned, failures, osq, takeVars>>

-----------------------------------------------------------------------------
(* Takes.                                                                  *)

TakeUnchanged == UNCHANGED <<diskVars, rescanned, heard, answers>>

At(t, from, to) == pc[t] = from /\ pc' = [pc EXCEPT ![t] = to]

\* request_take and predrain: a marker goes through the watch.
TakeAsked(t) ==
    /\ At(t, "new", "marker")
    /\ since' = [since EXCEPT ![t] = disk]
    /\ osq' = Append(osq, t)
    /\ TakeUnchanged
    /\ UNCHANGED <<back, failures, dirtyVars, sweep, timely, lockVars, recorded, slipped>>

\* The rest of predrain: look at what the watch could not cover.
LookUncovered(t) ==
    /\ IF Uncovered = {} THEN At(t, "marker", "lock") /\ UNCHANGED sweep
       ELSE At(t, "marker", "sweeping") /\ sweep' = [sweep EXCEPT ![t] = Walk(t)]
    /\ back' = back \ {t}
    /\ TakeUnchanged
    /\ UNCHANGED <<failures, osq, dirtyVars, since, lockVars, recorded, slipped>>

MarkerBack(t) ==
    /\ t \in back
    /\ LookUncovered(t)
    /\ timely' = timely \cup {t}

\* marker_wait passed: the take goes with what it has.
MarkerLate(t) ==
    /\ LookUncovered(t)
    /\ UNCHANGED timely

\* take_lock, and the drain.
Drain(t) ==
    /\ lock = Nobody
    /\ At(t, "lock", "drained")
    /\ lock' = t
    /\ drained' = dirty
    /\ drainedAs' = staging
    /\ dirty' = {}
    /\ staging' = [f \in Files |-> None]
    /\ TakeUnchanged
    /\ UNCHANGED <<back, failures, osq, sweep, timely, since, rows, recorded, slipped>>

\* The take is over, and take_lock free.
Release(t) ==
    /\ lock' = Nobody
    /\ timely' = timely \ {t}
    /\ since' = [since EXCEPT ![t] = [f \in Files |-> 0]]
    /\ drained' = {}
    /\ drainedAs' = [f \in Files |-> None]
    /\ rows' = [f \in Files |-> None]

\* latest_stat_for_paths fails: the take ends there, and what it drained with it.
StatFails(t) ==
    /\ Fail
    /\ drained # {}
    /\ At(t, "drained", "done")
    /\ Release(t)
    /\ slipped' = slipped \cup drained
    /\ TakeUnchanged
    /\ UNCHANGED <<back, osq, dirtyVars, sweep, recorded>>

\* The classification of what was drained. Staged: its staging. A new file that
\* is younger than the settle gate waits for the next take. Unchanged: no row.
Deferrable == {f \in drained : /\ drainedAs[f] = None
                               /\ Present(f, disk[f]) /\ recorded[f] = 0}

Row(f, waiting, unreadable) ==
    IF f \notin drained \/ f \in waiting \/ f \in unreadable THEN None
    ELSE IF drainedAs[f] # None THEN drainedAs[f]
    ELSE IF SameContent(f, disk[f], recorded[f]) THEN None
    ELSE disk[f]

Capture(t) ==
    /\ At(t, "drained", "captured")
    /\ \E waiting \in SUBSET Deferrable :
       \E unreadable \in SUBSET {f \in drained \ waiting : drainedAs[f] = None} :
          /\ failures' = failures + Cardinality(unreadable)
          /\ failures' <= MaxFailures
          /\ rows' = [f \in Files |-> Row(f, waiting, unreadable)]
          /\ MarkDirty(waiting)
          /\ slipped' = slipped \cup unreadable
    /\ TakeUnchanged
    /\ UNCHANGED <<back, osq, sweep, timely, since, lock, drained, drainedAs, recorded>>

\* record: the rows, in one transaction.
Record(t) ==
    /\ At(t, "captured", "done")
    /\ recorded' = [f \in Files |-> IF rows[f] # None THEN rows[f] ELSE recorded[f]]
    /\ Release(t)
    /\ slipped' = slipped \cup (IF \E s \in Sweepers : sweep[s].on THEN Outdated ELSE {})
    /\ TakeUnchanged
    /\ UNCHANGED <<back, failures, osq, dirtyVars, sweep>>

\* Mutant: what could not be recorded is forgotten.
RecordFailsForgets(t) ==
    /\ Fail
    /\ At(t, "captured", "done")
    /\ Release(t)
    /\ TakeUnchanged
    /\ UNCHANGED <<back, osq, dirtyVars, sweep, recorded, slipped>>

\* The transaction fails: the rows' paths go back in the dirty set.
RecordFails(t) ==
    /\ Fail
    /\ At(t, "captured", "done")
    /\ MarkDirty({f \in Files : rows[f] # None})
    /\ Release(t)
    /\ slipped' = slipped \cup StaleHeard({f \in Files : rows[f] # None})
    /\ TakeUnchanged
    /\ UNCHANGED <<back, osq, sweep, recorded>>

-----------------------------------------------------------------------------
Init ==
    /\ disk = [f \in Files |-> 0] /\ gone = [f \in Files |-> {}]
    /\ changes = 0 /\ rescanned = 0 /\ failures = 0
    /\ osq = <<>> /\ heard = {} /\ answers = {} /\ back = {}
    /\ dirty = {} /\ staging = [f \in Files |-> None]
    /\ sweep = [s \in Sweepers |-> Off]
    /\ pc = [t \in Takes |-> "new"] /\ timely = {}
    /\ since = [t \in Takes |-> disk]
    /\ lock = Nobody /\ drained = {}
    /\ drainedAs = [f \in Files |-> None] /\ rows = [f \in Files |-> None]
    /\ recorded = [f \in Files |-> 0]
    /\ slipped = {}

WatchSteps ==
    \/ \E f \in Files : WriteFile(f) \/ DeleteFile(f)
    \/ Deliver
    \/ \E dir \in Rescans, lost \in BOOLEAN : WatchRescan(dir, lost)
    \/ OnBatch

SweepSteps ==
    \/ BootSweep
    \/ \E s \in Sweepers : SweepEnd(s) \/ SweepFails(s)
    \/ \E s \in Sweepers, f \in Files : SweepFile(s, f) \/ SweepUnread(s, f)

TakeSteps ==
    \E t \in Takes :
        \/ TakeAsked(t) \/ MarkerBack(t) \/ MarkerLate(t) \/ Drain(t)
        \/ StatFails(t) \/ Capture(t) \/ Record(t) \/ RecordFails(t)

Next == WatchSteps \/ SweepSteps \/ TakeSteps

Spec == Init /\ [][Next]_vars

-----------------------------------------------------------------------------
(* Where a change that is not recorded yet may still be.                   *)

InQueue(f) == \E i \in DOMAIN osq : osq[i] = f
InSweep(f) == \E s \in Sweepers : sweep[s].on /\ (f \in sweep[s].left \/ sweep[s].found[f] = disk[f])
InDirty(f) == f \in dirty /\ staging[f] \in {None, disk[f]}
InTake(f)  == \/ \E t \in Takes : pc[t] = "drained" /\ f \in drained
                                  /\ drainedAs[f] \in {None, disk[f]}
              \/ rows[f] = disk[f]

\* request_take, on_batch and record together: an edit that the latest row of
\* its file does not hold is on its way to one (queued, heard, awaiting a rescan,
\* in a sweep, dirty or in a take), whatever else runs and in whatever order. The
\* only exceptions are those slipped names: a read or a write that failed, an entry
\* that keeps the staging of a sweep older than the edit, and a sweep that compared
\* the disk with a row a take under way was about to replace. What is uncovered
\* every take looks at.
EditsAccounted ==
    \A f \in Files \ (Uncovered \cup slipped) :
        SameContent(f, disk[f], recorded[f])
        \/ InQueue(f) \/ f \in heard \/ heard \cap Rescans # {}
        \/ InSweep(f) \/ InDirty(f) \/ InTake(f)

\* A take t ends with its marker heard in time: is what was on the disk when it
\* was asked for in the record, or left dirty by the settle gate?
Ends(t) == Record(t) /\ t \in timely
SeesEdit(t, f) ==
    \/ f \in dirty'
    \/ \E v \in since[t][f]..disk[f] : SameContent(f, v, recorded'[f])

\* wait_for_marker ("once it is back, every change written before now is in the
\* dirty set"): a take whose marker came back records every edit made before it
\* was asked for, but for the exceptions slipped names.
MarkedTakeSeesEdits ==
    [][\A t \in Takes : Ends(t) => \A f \in Files \ slipped : SeesEdit(t, f)]_vars

\* The same with no exception for entries a sweep staged; checked where nothing
\* fails. predrain says an edit that landed on disk before a take is not missed.
TakeMissesNothing ==
    [][\A t \in Takes : Ends(t) => \A f \in Files : SeesEdit(t, f)]_vars
=============================================================================
