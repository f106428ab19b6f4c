-------------------------- MODULE SnapshotProofs --------------------------
(***************************************************************************)
(* Theorems about SnapshotCapture and BlobStore: an edit of a file is      *)
(* recorded or on its way to a record, a take whose marker came back       *)
(* records what was there when it was asked for, and a row that met no     *)
(* cleanup keeps its bytes; for any files, takes, paths, contents and      *)
(* captures, and any number of changes, rescans, failures, rows and stops. *)
(***************************************************************************)
EXTENDS SnapshotCapture, BlobStore, SequenceTheorems, TLAPS

-----------------------------------------------------------------------------
(***************************************************************************)
(* Types, and who may touch what: a take drains and records under the      *)
(* lock, and sweeps only while it is at it.                                *)
(***************************************************************************)

TakePcs == {"new", "marker", "sweeping", "lock", "drained", "captured", "done"}
Walks == [on : BOOLEAN, latest : [Files -> Versions], left : SUBSET Files,
          found : [Files -> Staged]]

DiskTypes ==
    /\ disk \in [Files -> Versions] /\ gone \in [Files -> SUBSET Versions]
    /\ changes \in Versions
    /\ osq \in Seq(Files \cup Takes)
    /\ recorded \in [Files -> Versions]

WorkTypes ==
    /\ sweep \in [Sweepers -> Walks]
    /\ pc \in [Takes -> TakePcs]
    /\ dirty \subseteq Files /\ staging \in [Files -> Staged]
    /\ drained \subseteq Files
    /\ drainedAs \in [Files -> Staged] /\ rows \in [Files -> Staged]

NothingStaged == [x \in Files |-> None]

LocksAgree ==
    /\ \A t \in Takes : pc[t] \in {"drained", "captured"} <=> lock = t
    /\ \A t \in Takes : sweep[t].on => pc[t] = "sweeping"
    /\ lock = Nobody => drained = {} /\ drainedAs = NothingStaged
    /\ (\A t \in Takes : pc[t] # "captured") => rows = NothingStaged
    /\ \A x \in Files : x \notin dirty => staging[x] = None

LEMMA Numbered ==
    /\ Versions \subseteq Nat /\ 0 \in Versions /\ None \in Staged /\ Versions \subseteq Staged
    /\ None \notin Versions
    /\ NothingStaged \in [Files -> Staged]
    /\ Off \in Walks /\ ~Off.on
    /\ \A s : Scope(s) \subseteq Files
BY CaptureAssumption DEF Versions, Staged, None, NothingStaged, Off, Walks, Scope

\* What a change of a file, and the steps of a sweep, write.
LEMMA ChangeWrites ==
    ASSUME DiskTypes, NEW x \in Files, WriteFile(x) \/ DeleteFile(x)
    PROVE  /\ changes' \in Versions /\ changes < changes'
           /\ disk' \in [Files -> Versions] /\ disk'[x] = changes'
           /\ gone' \in [Files -> SUBSET Versions]
           /\ \A y \in Files : y # x => disk'[y] = disk[y] /\ gone'[y] = gone[y]
           /\ osq' \in Seq(Files \cup Takes)
           /\ (x \in Uncovered /\ osq' = osq) \/ osq' = Append(osq, x)
           /\ UNCHANGED <<heard, answers, back, dirty, staging, sweep, pc, timely, since, lock,
                          drained, drainedAs, rows, recorded, slipped>>
<1>1. ChangeFile(x)
  BY DEF WriteFile, DeleteFile
<1>2. /\ changes + 1 \in Versions /\ changes' = changes + 1 /\ changes \in Nat
      /\ disk' = [disk EXCEPT ![x] = changes + 1]
  BY <1>1, CaptureAssumption DEF ChangeFile, DiskTypes, Versions
<1>3. disk' \in [Files -> Versions] /\ disk'[x] = changes' /\ changes < changes'
      /\ \A y \in Files : y # x => disk'[y] = disk[y]
  BY <1>2 DEF DiskTypes
<1>4. gone' = gone \/ gone' = [gone EXCEPT ![x] = @ \cup {changes'}]
  BY <1>2 DEF WriteFile, DeleteFile
<1>5. gone' \in [Files -> SUBSET Versions] /\ \A y \in Files : y # x => gone'[y] = gone[y]
  BY <1>2, <1>4 DEF DiskTypes
<1>6. (x \in Uncovered /\ osq' = osq) \/ osq' = Append(osq, x)
  BY <1>1 DEF ChangeFile
<1>7. osq' \in Seq(Files \cup Takes)
  BY <1>6 DEF DiskTypes
<1>8. UNCHANGED <<heard, answers, back, dirty, staging, sweep, pc, timely, since, lock,
                  drained, drainedAs, rows, recorded, slipped>>
  BY <1>1 DEF ChangeFile, dirtyVars, takeVars, lockVars
<1> QED
  BY <1>2, <1>3, <1>5, <1>6, <1>7, <1>8

LEMMA FileWrites ==
    ASSUME DiskTypes, WorkTypes, NEW s \in Sweepers, NEW x \in Files, SweepFile(s, x)
    PROVE  /\ sweep' \in [Sweepers -> Walks]
           /\ \A w \in Sweepers : w # s => sweep'[w] = sweep[w]
           /\ sweep[s].on /\ sweep'[s].on /\ sweep'[s].latest = sweep[s].latest
           /\ sweep'[s].left = sweep[s].left \ {x}
           /\ sweep'[s].found[x] = IF SameContent(x, disk[x], sweep[s].latest[x])
                                   THEN None ELSE disk[x]
           /\ \A y \in Files : y # x => sweep'[s].found[y] = sweep[s].found[y]
<1> DEFINE v == IF SameContent(x, disk[x], sweep[s].latest[x]) THEN None ELSE disk[x]
           l == sweep[s].left \ {x}
           g == [sweep[s].found EXCEPT ![x] = v]
<1>1. sweep[s] \in Walks /\ v \in Staged
  BY Numbered DEF WorkTypes, DiskTypes
<1>2. sweep' = [sweep EXCEPT ![s] = [sweep[s] EXCEPT !.left = l, !.found = g]] /\ sweep[s].on
  BY Zenon DEF SweepFile
<1>3. /\ l \in SUBSET Files /\ g \in [Files -> Staged]
      /\ g[x] = v /\ \A y \in Files : y # x => g[y] = sweep[s].found[y]
  BY <1>1 DEF Walks
<1> HIDE DEF v, l, g
<1>4. PICK walk : walk = [sweep[s] EXCEPT !.left = l, !.found = g]
  OBVIOUS
<1>5. /\ walk \in Walks
      /\ walk.on = sweep[s].on /\ walk.latest = sweep[s].latest /\ walk.left = l /\ walk.found = g
  BY <1>1, <1>3, <1>4 DEF Walks
<1>6. sweep'[s] = walk /\ sweep' \in [Sweepers -> Walks]
      /\ \A w \in Sweepers : w # s => sweep'[w] = sweep[w]
  BY <1>2, <1>4, <1>5 DEF WorkTypes
<1> QED
  BY <1>2, <1>3, <1>5, <1>6 DEF v, l

LEMMA UnreadWrites ==
    ASSUME WorkTypes, NEW s \in Sweepers, NEW x \in Files, SweepUnread(s, x)
    PROVE  /\ sweep' \in [Sweepers -> Walks]
           /\ \A w \in Sweepers : w # s => sweep'[w] = sweep[w]
           /\ sweep[s].on /\ sweep'[s].on /\ sweep'[s].latest = sweep[s].latest
           /\ sweep'[s].left = sweep[s].left \ {x} /\ sweep'[s].found = sweep[s].found
<1> DEFINE walk == [on |-> sweep[s].on, latest |-> sweep[s].latest,
                    left |-> sweep[s].left \ {x}, found |-> sweep[s].found]
<1>1. sweep[s] \in Walks
  BY DEF WorkTypes
<1>2. sweep' = [sweep EXCEPT ![s] = [sweep[s] EXCEPT !.left = sweep[s].left \ {x}]]
  BY Zenon DEF SweepUnread
<1>3. [sweep[s] EXCEPT !.left = sweep[s].left \ {x}] = walk
  BY <1>1, SMTT(30) DEF Walks
<1>4. walk \in Walks
  BY <1>1 DEF Walks
<1>5. sweep' = [sweep EXCEPT ![s] = walk] /\ sweep[s].on
  BY <1>2, <1>3 DEF SweepUnread
<1>6. /\ walk.on = sweep[s].on /\ walk.latest = sweep[s].latest
      /\ walk.left = sweep[s].left \ {x} /\ walk.found = sweep[s].found
  OBVIOUS
<1> HIDE DEF walk
<1>7. sweep'[s] = walk /\ sweep' \in [Sweepers -> Walks]
      /\ \A w \in Sweepers : w # s => sweep'[w] = sweep[w]
  BY <1>4, <1>5 DEF WorkTypes
<1> QED
  BY <1>5, <1>6, <1>7

\* Steps that change the disk or what is recorded.
LEMMA DiskTypesStep ==
    ASSUME DiskTypes, WorkTypes, [Next]_vars
    PROVE  DiskTypes'
<1>1. ASSUME NEW x \in Files, WriteFile(x) \/ DeleteFile(x) PROVE DiskTypes'
  BY <1>1, ChangeWrites DEF DiskTypes
<1>2. CASE Deliver
  BY <1>2 DEF Deliver, DiskTypes, diskVars, takeVars
<1>3. ASSUME NEW dir \in Rescans, NEW lost \in BOOLEAN, WatchRescan(dir, lost) PROVE DiskTypes'
  BY <1>3 DEF WatchRescan, DiskTypes, diskVars, takeVars
<1>4. CASE OnBatch
  BY <1>4 DEF OnBatch, DiskTypes, diskVars, takeVars
<1>5. CASE BootSweep
  BY <1>5 DEF BootSweep, DiskTypes, diskVars, watchVars, takeVars
<1>6. ASSUME NEW s \in Sweepers, SweepEnd(s) \/ SweepFails(s) PROVE DiskTypes'
  BY <1>6 DEF SweepEnd, SweepFails, Resume, DiskTypes, diskVars
<1>7. ASSUME NEW s \in Sweepers, NEW x \in Files, SweepFile(s, x) \/ SweepUnread(s, x)
      PROVE  DiskTypes'
  BY <1>7 DEF SweepFile, SweepUnread, DiskTypes, diskVars, watchVars, takeVars
<1>8. ASSUME NEW t \in Takes, TakeAsked(t) PROVE DiskTypes'
  <2>1. osq' \in Seq(Files \cup Takes)
    BY <1>8 DEF TakeAsked, DiskTypes
  <2> QED
    BY <1>8, <2>1 DEF TakeAsked, TakeUnchanged, DiskTypes, diskVars
<1>9. ASSUME NEW t \in Takes, MarkerBack(t) \/ MarkerLate(t) \/ Drain(t) \/ StatFails(t)
                              \/ Capture(t) \/ RecordFails(t)
      PROVE  DiskTypes'
  BY <1>9 DEF MarkerBack, MarkerLate, LookUncovered, Drain, StatFails, Capture, RecordFails,
              TakeUnchanged, DiskTypes, diskVars
<1>10. ASSUME NEW t \in Takes, Record(t) PROVE DiskTypes'
  <2>1. recorded' \in [Files -> Versions]
    BY <1>10 DEF Record, DiskTypes, WorkTypes, Staged
  <2> QED
    BY <1>10, <2>1 DEF Record, TakeUnchanged, DiskTypes, diskVars
<1>11. CASE UNCHANGED vars
  BY <1>11 DEF vars, DiskTypes
<1> QED
  BY <1>1, <1>2, <1>3, <1>4, <1>5, <1>6, <1>7, <1>8, <1>9, <1>10, <1>11
     DEF Next, WatchSteps, SweepSteps, TakeSteps


LEMMA AtWrites ==
    ASSUME WorkTypes, NEW t \in Takes, NEW from, NEW to \in TakePcs, At(t, from, to)
    PROVE  /\ pc[t] = from /\ pc'[t] = to /\ pc' \in [Takes -> TakePcs]
           /\ \A u \in Takes : u # t => pc'[u] = pc[u]
BY DEF At, WorkTypes

LEMMA PcsAre ==
    /\ "marker" \in TakePcs /\ "sweeping" \in TakePcs /\ "lock" \in TakePcs
    /\ "drained" \in TakePcs /\ "captured" \in TakePcs /\ "done" \in TakePcs
BY DEF TakePcs

\* A walk begins, and ends.
LEMMA WalkWrites ==
    ASSUME DiskTypes, WorkTypes, NEW s \in Sweepers, sweep' = [sweep EXCEPT ![s] = Walk(s)]
    PROVE  /\ sweep' \in [Sweepers -> Walks]
           /\ \A w \in Sweepers : w # s => sweep'[w] = sweep[w]
           /\ sweep'[s].on /\ sweep'[s].latest = recorded /\ sweep'[s].left = Scope(s)
<1>1. PICK walk : walk = Walk(s)
  OBVIOUS
<1>2. /\ walk \in Walks
      /\ walk.on /\ walk.latest = recorded /\ walk.left = Scope(s)
  BY <1>1, Numbered DEF Walk, Walks, DiskTypes
<1> QED
  BY <1>1, <1>2 DEF WorkTypes

LEMMA EndWrites ==
    ASSUME WorkTypes, NEW s \in Sweepers, SweepEnd(s) \/ SweepFails(s)
    PROVE  /\ sweep' \in [Sweepers -> Walks]
           /\ \A w \in Sweepers : w # s => sweep'[w] = sweep[w]
           /\ sweep[s].on /\ ~sweep'[s].on
           /\ pc' = IF s \in Takes THEN [pc EXCEPT ![s] = "lock"] ELSE pc
           /\ pc' \in [Takes -> TakePcs]
           /\ UNCHANGED <<disk, gone, changes, osq, heard, lock, drained, drainedAs, rows,
                          recorded>>
<1>1. sweep[s].on /\ sweep' = [sweep EXCEPT ![s] = Off] /\ Resume(s)
  BY DEF SweepEnd, SweepFails
<1>2. sweep' \in [Sweepers -> Walks] /\ ~sweep'[s].on
      /\ \A w \in Sweepers : w # s => sweep'[w] = sweep[w]
  BY <1>1, Numbered DEF WorkTypes
<1>3. /\ pc' = IF s \in Takes THEN [pc EXCEPT ![s] = "lock"] ELSE pc
      /\ UNCHANGED <<disk, gone, changes, osq, heard, lock, drained, drainedAs, rows, recorded>>
  BY <1>1 DEF Resume, diskVars, lockVars
<1>4. pc' \in [Takes -> TakePcs]
  BY <1>3, PcsAre DEF WorkTypes
<1> QED
  BY <1>1, <1>2, <1>3, <1>4

LEMMA StagedWrites ==
    ASSUME WorkTypes, NEW found \in [Files -> Staged], MarkStaged(found)
    PROVE  /\ staging' \in [Files -> Staged] /\ dirty' \subseteq Files /\ dirty \subseteq dirty'
           /\ \A x \in Files : found[x] # None => x \in dirty' /\ staging'[x] = found[x]
           /\ \A x \in Files : found[x] = None => staging'[x] = staging[x]
BY DEF MarkStaged, WorkTypes

\* The lock is free again.
LEMMA ReleaseWrites ==
    ASSUME NEW t \in Takes, Release(t)
    PROVE  /\ lock' = Nobody /\ drained' = {}
           /\ drainedAs' = NothingStaged /\ rows' = NothingStaged
BY DEF Release, NothingStaged

LEMMA LookWrites ==
    ASSUME DiskTypes, WorkTypes, NEW t \in Takes, LookUncovered(t)
    PROVE  /\ pc[t] = "marker" /\ pc'[t] \in {"lock", "sweeping"} /\ pc' \in [Takes -> TakePcs]
           /\ \A u \in Takes : u # t => pc'[u] = pc[u]
           /\ sweep' \in [Sweepers -> Walks]
           /\ \A w \in Sweepers : w # t => sweep'[w] = sweep[w]
           /\ sweep'[t] # sweep[t] => pc'[t] = "sweeping"
           /\ UNCHANGED <<disk, gone, changes, osq, heard, dirty, staging, lock, drained,
                          drainedAs, rows, recorded, slipped>>
<1>1. t \in Sweepers
  BY DEF Sweepers
<1>2. UNCHANGED <<disk, gone, changes, osq, heard, dirty, staging, lock, drained,
                  drainedAs, rows, recorded, slipped>>
  BY DEF LookUncovered, TakeUnchanged, diskVars, dirtyVars, lockVars
<1>3. CASE At(t, "marker", "lock") /\ UNCHANGED sweep
  <2>1. /\ pc[t] = "marker" /\ pc'[t] = "lock" /\ pc' \in [Takes -> TakePcs]
        /\ \A u \in Takes : u # t => pc'[u] = pc[u]
    BY <1>3, AtWrites, PcsAre
  <2>2. sweep' = sweep /\ sweep \in [Sweepers -> Walks]
    BY <1>3 DEF WorkTypes
  <2> QED
    BY <1>2, <2>1, <2>2
<1>4. CASE At(t, "marker", "sweeping") /\ sweep' = [sweep EXCEPT ![t] = Walk(t)]
  <2>1. /\ pc[t] = "marker" /\ pc'[t] = "sweeping" /\ pc' \in [Takes -> TakePcs]
        /\ \A u \in Takes : u # t => pc'[u] = pc[u]
    BY <1>4, AtWrites, PcsAre
  <2>2. sweep' \in [Sweepers -> Walks] /\ \A w \in Sweepers : w # t => sweep'[w] = sweep[w]
    BY <1>1, <1>4, WalkWrites
  <2> QED
    BY <1>2, <2>1, <2>2
<1> QED
  BY <1>3, <1>4 DEF LookUncovered

\* What a take reads for its rows.
LEMMA CaptureWrites ==
    ASSUME DiskTypes, WorkTypes, NEW t \in Takes, Capture(t)
    PROVE  /\ pc[t] = "drained" /\ pc'[t] = "captured" /\ pc' \in [Takes -> TakePcs]
           /\ \A u \in Takes : u # t => pc'[u] = pc[u]
           /\ rows' \in [Files -> Staged]
           /\ dirty \subseteq dirty' /\ dirty' \subseteq Files
           /\ UNCHANGED <<disk, gone, changes, osq, heard, staging, sweep, lock, drained,
                          drainedAs, recorded>>
           /\ slipped \subseteq slipped'
           /\ \A x \in Files :
                \/ x \in slipped'
                \/ x \notin drained /\ rows'[x] = None
                \/ x \in drained /\ drainedAs[x] = None /\ x \in dirty' /\ rows'[x] = None
                \/ x \in drained /\ drainedAs[x] # None /\ rows'[x] = drainedAs[x]
                \/ /\ x \in drained /\ drainedAs[x] = None
                   /\ \/ rows'[x] = disk[x]
                      \/ rows'[x] = None /\ SameContent(x, disk[x], recorded[x])
<1>0. PICK waiting \in SUBSET Deferrable :
        \E unreadable \in SUBSET {f \in drained \ waiting : drainedAs[f] = None} :
            /\ rows' = [f \in Files |-> Row(f, waiting, unreadable)]
            /\ MarkDirty(waiting)
            /\ slipped' = slipped \cup unreadable
  BY DEF Capture
<1>1. PICK unreadable :
            /\ rows' = [f \in Files |-> Row(f, waiting, unreadable)]
            /\ MarkDirty(waiting)
            /\ slipped' = slipped \cup unreadable
  BY <1>0
<1>2. waiting \subseteq drained /\ \A x \in waiting : drainedAs[x] = None
  BY DEF Deferrable
<1>3. \A x \in Files : rows'[x] = Row(x, waiting, unreadable)
  BY <1>1
<1>4. dirty' = dirty \cup waiting /\ UNCHANGED staging
  BY <1>1 DEF MarkDirty
<1>5. \A x \in Files : Row(x, waiting, unreadable) \in Staged
  BY Numbered DEF Row, DiskTypes, WorkTypes
<1>6. rows' \in [Files -> Staged]
  BY <1>1, <1>5
<1>7. \A x \in Files :
                \/ x \in slipped'
                \/ x \notin drained /\ rows'[x] = None
                \/ x \in drained /\ drainedAs[x] = None /\ x \in dirty' /\ rows'[x] = None
                \/ x \in drained /\ drainedAs[x] # None /\ rows'[x] = drainedAs[x]
                \/ /\ x \in drained /\ drainedAs[x] = None
                   /\ \/ rows'[x] = disk[x]
                      \/ rows'[x] = None /\ SameContent(x, disk[x], recorded[x])
  BY <1>1, <1>2, <1>3, <1>4 DEF Row
<1>8. UNCHANGED <<disk, gone, changes, osq, heard, sweep, lock, drained, drainedAs, recorded>>
  BY DEF Capture, TakeUnchanged, diskVars
<1>9. At(t, "drained", "captured")
  BY DEF Capture
<1>10. dirty' \subseteq Files
  BY <1>2, <1>4 DEF WorkTypes
<1> QED
  BY <1>1, <1>4, <1>6, <1>7, <1>8, <1>9, <1>10, AtWrites, PcsAre

LEMMA WorkTypesStep ==
    ASSUME DiskTypes, WorkTypes, [Next]_vars
    PROVE  WorkTypes'
<1>1. ASSUME NEW x \in Files, WriteFile(x) \/ DeleteFile(x) PROVE WorkTypes'
  BY <1>1, ChangeWrites DEF WorkTypes
<1>2. ASSUME Deliver \/ \E dir \in Rescans, lost \in BOOLEAN : WatchRescan(dir, lost)
      PROVE  WorkTypes'
  BY <1>2 DEF Deliver, WatchRescan, WorkTypes, takeVars, lockVars, dirtyVars
<1>3. CASE OnBatch
  <2>1. sweep' \in [Sweepers -> Walks]
    BY <1>3, WalkWrites DEF OnBatch, WorkTypes, Sweepers
  <2>2. dirty' \subseteq Files /\ UNCHANGED staging
    BY <1>3 DEF OnBatch, MarkDirty, WorkTypes
  <2> QED
    BY <1>3, <2>1, <2>2 DEF OnBatch, WorkTypes, takeVars, lockVars
<1>4. CASE BootSweep
  <2>1. sweep' \in [Sweepers -> Walks]
    BY <1>4, WalkWrites DEF BootSweep, Sweepers
  <2> QED
    BY <1>4, <2>1 DEF BootSweep, WorkTypes, takeVars, lockVars, dirtyVars
<1>5. ASSUME NEW s \in Sweepers, SweepEnd(s) PROVE WorkTypes'
  <2>1. sweep[s].found \in [Files -> Staged]
    BY DEF WorkTypes, Walks
  <2>2. staging' \in [Files -> Staged] /\ dirty' \subseteq Files
    BY <1>5, <2>1, StagedWrites DEF SweepEnd
  <2> QED
    BY <1>5, <2>2, EndWrites DEF WorkTypes
<1>6. ASSUME NEW s \in Sweepers, SweepFails(s) PROVE WorkTypes'
  BY <1>6, EndWrites DEF SweepFails, dirtyVars, WorkTypes
<1>7. ASSUME NEW s \in Sweepers, NEW x \in Files, SweepFile(s, x) PROVE WorkTypes'
  BY <1>7, FileWrites DEF SweepFile, WorkTypes, takeVars, lockVars, dirtyVars
<1>8. ASSUME NEW s \in Sweepers, NEW x \in Files, SweepUnread(s, x) PROVE WorkTypes'
  BY <1>8, UnreadWrites DEF SweepUnread, WorkTypes, takeVars, lockVars, dirtyVars
<1>9. ASSUME NEW t \in Takes, TakeAsked(t) PROVE WorkTypes'
  BY <1>9, AtWrites, PcsAre DEF TakeAsked, WorkTypes, lockVars, dirtyVars
<1>10. ASSUME NEW t \in Takes, MarkerBack(t) \/ MarkerLate(t) PROVE WorkTypes'
  BY <1>10, LookWrites DEF MarkerBack, MarkerLate, WorkTypes
<1>11. ASSUME NEW t \in Takes, Drain(t) PROVE WorkTypes'
  BY <1>11, AtWrites, PcsAre, Numbered DEF Drain, WorkTypes, NothingStaged
<1>12. ASSUME NEW t \in Takes, Capture(t) PROVE WorkTypes'
  BY <1>12, CaptureWrites DEF WorkTypes
<1>13. ASSUME NEW t \in Takes, StatFails(t) \/ Record(t) \/ RecordFails(t) PROVE WorkTypes'
  <2>1. At(t, pc[t], "done") /\ Release(t) /\ UNCHANGED sweep
    BY <1>13 DEF StatFails, Record, RecordFails, At
  <2>2. dirty' \subseteq Files /\ staging' \in [Files -> Staged]
    BY <1>13 DEF StatFails, Record, RecordFails, MarkDirty, dirtyVars, WorkTypes
  <2> QED
    BY <2>1, <2>2, AtWrites, PcsAre, ReleaseWrites, Numbered DEF WorkTypes
<1>14. CASE UNCHANGED vars
  BY <1>14 DEF vars, WorkTypes
<1> QED
  BY <1>1, <1>2, <1>3, <1>4, <1>5, <1>6, <1>7, <1>8, <1>9, <1>10, <1>11, <1>12, <1>13, <1>14
     DEF Next, WatchSteps, SweepSteps, TakeSteps

\* Nobody's lock is no take's.
LEMMA NamesDiffer ==
    /\ Nobody \notin Takes /\ Boot \notin Takes /\ Watcher \notin Takes /\ Boot # Watcher
    /\ Boot \in Sweepers /\ Watcher \in Sweepers /\ Takes \subseteq Sweepers
BY SweepersNamed DEF Nobody, Boot, Watcher, Sweepers

\* Steps that leave the lock, and what is under it, alone.
LEMMA LocksStay ==
    ASSUME LocksAgree, UNCHANGED <<lock, drained, drainedAs, rows>>,
           \A t \in Takes : pc'[t] \in {"drained", "captured"} \/ pc[t] \in {"drained", "captured"}
                                => pc'[t] = pc[t],
           \A t \in Takes : sweep'[t].on =>
                (sweep[t].on /\ pc'[t] = pc[t]) \/ pc'[t] = "sweeping",
           \A x \in Files : x \notin dirty' => x \notin dirty /\ staging'[x] = staging[x]
    PROVE  LocksAgree'
BY DEF LocksAgree

LEMMA LocksStep ==
    ASSUME DiskTypes, WorkTypes, LocksAgree, [Next]_vars
    PROVE  LocksAgree'
<1>1. ASSUME NEW x \in Files, WriteFile(x) \/ DeleteFile(x) PROVE LocksAgree'
  BY <1>1, ChangeWrites, LocksStay
<1>2. ASSUME Deliver \/ \E dir \in Rescans, lost \in BOOLEAN : WatchRescan(dir, lost)
      PROVE  LocksAgree'
  BY <1>2, LocksStay DEF Deliver, WatchRescan, takeVars, lockVars, dirtyVars
<1>3. CASE OnBatch
  <2>1. \A t \in Takes : sweep'[t] = sweep[t]
    BY <1>3, NamesDiffer, WalkWrites DEF OnBatch
  <2>2. dirty \subseteq dirty' /\ UNCHANGED staging
    BY <1>3 DEF OnBatch, MarkDirty
  <2>3. UNCHANGED <<pc, lock, drained, drainedAs, rows>>
    BY <1>3 DEF OnBatch, takeVars, lockVars
  <2> QED
    BY <2>1, <2>2, <2>3, LocksStay
<1>4. CASE BootSweep
  <2>1. \A t \in Takes : sweep'[t] = sweep[t]
    BY <1>4, NamesDiffer, WalkWrites DEF BootSweep
  <2> QED
    BY <1>4, <2>1, LocksStay DEF BootSweep, takeVars, lockVars, dirtyVars
<1>5. ASSUME NEW s \in Sweepers, SweepEnd(s) \/ SweepFails(s) PROVE LocksAgree'
  <2>1. \A x \in Files : x \notin dirty' => x \notin dirty /\ staging'[x] = staging[x]
    <3>1. CASE SweepEnd(s)
      <4>1. sweep[s].found \in [Files -> Staged]
        BY DEF WorkTypes, Walks
      <4> QED
        BY <3>1, <4>1, StagedWrites DEF SweepEnd
    <3>2. CASE SweepFails(s)
      BY <3>2 DEF SweepFails, dirtyVars
    <3> QED
      BY <1>5, <3>1, <3>2
  <2>2. /\ sweep[s].on /\ ~sweep'[s].on /\ \A w \in Sweepers : w # s => sweep'[w] = sweep[w]
        /\ pc' = IF s \in Takes THEN [pc EXCEPT ![s] = "lock"] ELSE pc
        /\ UNCHANGED <<lock, drained, drainedAs, rows>>
    BY <1>5, EndWrites
  <2>3. \A t \in Takes : IF t = s THEN pc[t] = "sweeping" /\ pc'[t] = "lock" ELSE pc'[t] = pc[t]
    BY <2>2 DEF LocksAgree, WorkTypes
  <2> QED
    BY <2>1, <2>2, <2>3, NamesDiffer, LocksStay
<1>6. ASSUME NEW s \in Sweepers, NEW x \in Files, SweepFile(s, x) PROVE LocksAgree'
  <2>1. \A w \in Sweepers : sweep'[w].on <=> sweep[w].on
    BY <1>6, FileWrites
  <2> QED
    BY <1>6, <2>1, NamesDiffer, LocksStay DEF SweepFile, takeVars, lockVars, dirtyVars
<1>7. ASSUME NEW s \in Sweepers, NEW x \in Files, SweepUnread(s, x) PROVE LocksAgree'
  <2>1. \A w \in Sweepers : sweep'[w].on <=> sweep[w].on
    BY <1>7, UnreadWrites
  <2> QED
    BY <1>7, <2>1, NamesDiffer, LocksStay DEF SweepUnread, takeVars, lockVars, dirtyVars
<1>8. ASSUME NEW t \in Takes, TakeAsked(t) PROVE LocksAgree'
  <2>1. pc[t] = "new" /\ pc'[t] = "marker" /\ \A u \in Takes : u # t => pc'[u] = pc[u]
    BY <1>8, AtWrites, PcsAre DEF TakeAsked
  <2>2. ~sweep[t].on
    BY <2>1 DEF LocksAgree
  <2> QED
    BY <1>8, <2>1, <2>2, LocksStay DEF TakeAsked, lockVars, dirtyVars
<1>9. ASSUME NEW t \in Takes, MarkerBack(t) \/ MarkerLate(t) PROVE LocksAgree'
  <2>1. LookUncovered(t)
    BY <1>9 DEF MarkerBack, MarkerLate
  <2>2. ~sweep[t].on
    BY <2>1, LookWrites DEF LocksAgree
  <2> QED
    BY <2>1, <2>2, LookWrites, NamesDiffer, LocksStay
<1>10. ASSUME NEW t \in Takes, Drain(t) PROVE LocksAgree'
  <2>1. pc[t] = "lock" /\ pc'[t] = "drained" /\ \A u \in Takes : u # t => pc'[u] = pc[u]
    BY <1>10, AtWrites, PcsAre DEF Drain
  <2>2. lock = Nobody /\ lock' = t /\ staging' = NothingStaged /\ UNCHANGED <<rows, sweep>>
    BY <1>10 DEF Drain, NothingStaged
  <2>3. \A x \in Files : staging'[x] = None
    BY <2>2 DEF NothingStaged
  <2>4. \A u \in Takes : pc[u] \notin {"drained", "captured"}
    BY <2>2, NamesDiffer DEF LocksAgree
  <2>5. ~sweep[t].on
    BY <2>1 DEF LocksAgree
  <2> QED
    BY <2>1, <2>2, <2>3, <2>4, <2>5, NamesDiffer DEF LocksAgree
<1>11. ASSUME NEW t \in Takes, Capture(t) PROVE LocksAgree'
  <2>1. lock = t /\ ~sweep[t].on
    BY <1>11, CaptureWrites DEF LocksAgree
  <2> QED
    BY <1>11, <2>1, CaptureWrites, NamesDiffer DEF LocksAgree
<1>12. ASSUME NEW t \in Takes, StatFails(t) \/ Record(t) \/ RecordFails(t) PROVE LocksAgree'
  <2>1. At(t, pc[t], "done") /\ Release(t) /\ pc[t] \in {"drained", "captured"} /\ UNCHANGED sweep
    BY <1>12 DEF StatFails, Record, RecordFails, At
  <2>2. pc'[t] = "done" /\ \A u \in Takes : u # t => pc'[u] = pc[u]
    BY <2>1, AtWrites, PcsAre
  <2>3. lock = t /\ ~sweep[t].on
    BY <2>1 DEF LocksAgree
  <2>4. dirty \subseteq dirty' /\ UNCHANGED staging
    BY <1>12 DEF StatFails, Record, RecordFails, MarkDirty, dirtyVars
  <2> QED
    BY <2>1, <2>2, <2>3, <2>4, ReleaseWrites, NamesDiffer DEF LocksAgree
<1>13. CASE UNCHANGED vars
  BY <1>13 DEF vars, LocksAgree
<1> QED
  BY <1>1, <1>2, <1>3, <1>4, <1>5, <1>6, <1>7, <1>8, <1>9, <1>10, <1>11, <1>12, <1>13
     DEF Next, WatchSteps, SweepSteps, TakeSteps

-----------------------------------------------------------------------------
(***************************************************************************)
(* Where an edit may be.  The readings a sweep or a take holds are no      *)
(* account of a file that changed since: what changed it is on its way     *)
(* behind them.                                                            *)
(***************************************************************************)

\* A sweep of the whole tree will come to the file, has read it, or passed over
\* it as its row has it; the row it compares with is the last one.
SweptBy(x, w) ==
    /\ sweep[w].on
    /\ \/ x \in sweep[w].left /\ sweep[w].latest[x] = recorded[x]
       \/ x \notin sweep[w].left /\ sweep[w].found[x] = disk[x]
       \/ SameContent(x, disk[x], recorded[x])

OnItsWay(x) ==
    \/ InQueue(x) \/ x \in heard \/ heard \cap Rescans # {} \/ InDirty(x)
    \/ SweptBy(x, Watcher)

\* An older reading of a file that is held for the next record.
EditAt(x) ==
    /\ SameContent(x, disk[x], recorded[x]) \/ OnItsWay(x) \/ InTake(x)
    /\ x \in Outdated => OnItsWay(x)

EditsInv == \A x \in Files \ (Uncovered \cup slipped) : EditAt(x)

CaptureInv == DiskTypes /\ WorkTypes /\ LocksAgree /\ EditsInv

\* The last rows and readings of a file stay as they are.
Rests(x) ==
    /\ disk'[x] = disk[x] /\ gone'[x] = gone[x] /\ recorded'[x] = recorded[x]
    /\ staging'[x] = staging[x] /\ (x \in dirty => x \in dirty')

UnderLock == UNCHANGED <<drained, drainedAs, rows>>
                /\ \A t \in Takes : pc[t] = "drained" <=> pc'[t] = "drained"

LEMMA RestsKept ==
    ASSUME NEW x \in Files, Rests(x)
    PROVE  /\ SameContent(x, disk[x], recorded[x]) <=> SameContent(x, disk[x], recorded[x])'
           /\ InDirty(x) => InDirty(x)'
           /\ UnderLock => (InTake(x) => InTake(x)') /\ (x \in Outdated' => x \in Outdated)
BY DEF Rests, UnderLock, SameContent, Present, InDirty, InTake, Outdated

\* Steps of the watch and of sweeps that hold no reading of the file.
LEMMA EditStays ==
    ASSUME NEW x \in Files, EditAt(x), Rests(x), UnderLock,
           OnItsWay(x) => OnItsWay(x)'
    PROVE  EditAt(x)'
BY RestsKept DEF EditAt

\* A sweep that is not disturbed goes on.
LEMMA SweptStays ==
    ASSUME NEW x \in Files, NEW w, SweptBy(x, w), sweep'[w] = sweep[w], Rests(x)
    PROVE  SweptBy(x, w)'
BY RestsKept DEF SweptBy, Rests

LEMMA QueueGrows ==
    ASSUME DiskTypes, NEW y \in Files \cup Takes, NEW q, q = Append(osq, y)
    PROVE  /\ \E i \in DOMAIN q : q[i] = y
           /\ \A i \in DOMAIN osq : i \in DOMAIN q /\ q[i] = osq[i]
<1>1. /\ q \in Seq(Files \cup Takes) /\ Len(q) = Len(osq) + 1 /\ q[Len(q)] = y
      /\ DOMAIN q = 1..Len(q) /\ DOMAIN osq = 1..Len(osq) /\ Len(osq) \in Nat
      /\ \A i \in 1..Len(osq) : q[i] = osq[i]
  BY DEF DiskTypes
<1> QED
  BY <1>1

LEMMA EditChanges ==
    ASSUME DiskTypes, NEW x \in Files \ Uncovered, EditAt(x),
           NEW y \in Files, WriteFile(y) \/ DeleteFile(y)
    PROVE  EditAt(x)'
<1>1. CASE y = x
  <2>1. InQueue(x)'
    BY <1>1, ChangeWrites, QueueGrows DEF InQueue
  <2> QED
    BY <2>1 DEF EditAt, OnItsWay
<1>2. CASE y # x
  <2>1. Rests(x) /\ UnderLock
    BY <1>2, ChangeWrites DEF Rests, UnderLock
  <2>2. InQueue(x) => InQueue(x)'
    BY ChangeWrites, QueueGrows DEF InQueue
  <2>4. SweptBy(x, Watcher) => SweptBy(x, Watcher)'
    BY <2>1, ChangeWrites, SweptStays
  <2>5. heard' = heard /\ (InDirty(x) => InDirty(x)')
    BY <2>1, ChangeWrites, RestsKept
  <2>6. OnItsWay(x) => OnItsWay(x)'
    BY <2>2, <2>4, <2>5 DEF OnItsWay
  <2> QED
    BY <2>1, <2>6, EditStays
<1> QED
  BY <1>1, <1>2

LEMMA EditDelivered ==
    ASSUME DiskTypes, NEW x \in Files, EditAt(x), Deliver
    PROVE  EditAt(x)'
<1>1. Rests(x) /\ UnderLock /\ UNCHANGED sweep
  BY DEF Deliver, Rests, UnderLock, diskVars, dirtyVars, takeVars, lockVars
<1>2. heard \subseteq heard'
  BY DEF Deliver
<1>3. InQueue(x) => InQueue(x)' \/ x \in heard' \/ heard' \cap Rescans # {}
  <2> SUFFICES ASSUME NEW i \in DOMAIN osq, osq[i] = x
               PROVE  InQueue(x)' \/ x \in heard' \/ heard' \cap Rescans # {}
    BY DEF InQueue
  <2>1. osq' = Tail(osq) /\ osq # <<>> /\ osq \in Seq(Files \cup Takes)
    BY DEF Deliver, DiskTypes
  <2>2. CASE i = 1
    <3>1. Head(osq) = x
      BY <2>1, <2>2
    <3>2. heard' = IF Absorbed(x) THEN heard ELSE heard \cup {x}
      BY <3>1 DEF Deliver
    <3> QED
      BY <3>2 DEF Absorbed, Rescans
  <2>3. CASE i # 1
    <3>1. i - 1 \in DOMAIN Tail(osq) /\ Tail(osq)[i - 1] = osq[i]
      BY <2>1, <2>3
    <3> QED
      BY <2>1, <3>1 DEF InQueue
  <2> QED
    BY <2>2, <2>3
<1>4. OnItsWay(x) => OnItsWay(x)'
  BY <1>1, <1>2, <1>3, RestsKept, SweptStays DEF OnItsWay
<1> QED
  BY <1>1, <1>4, EditStays

LEMMA EditRescanned ==
    ASSUME NEW x \in Files, EditAt(x), NEW dir \in Rescans, NEW lost \in BOOLEAN,
           WatchRescan(dir, lost)
    PROVE  EditAt(x)'
<1>1. heard' \cap Rescans # {}
  BY DEF WatchRescan
<1> QED
  BY <1>1 DEF EditAt, OnItsWay

\* run_watcher and on_batch: what was heard is dirty, or its walk has begun.
LEMMA EditHandled ==
    ASSUME DiskTypes, WorkTypes, LocksAgree, NEW x \in Files, EditAt(x), OnBatch, x \notin slipped'
    PROVE  EditAt(x)'
<1>1. Rests(x) /\ UnderLock
  BY DEF OnBatch, MarkDirty, Rests, UnderLock, diskVars, takeVars, lockVars
<1>2. x \in heard => InDirty(x)'
  <2>1. x \in heard => x \in dirty' /\ (x \in dirty => staging[x] \in {None, disk[x]})
    BY DEF OnBatch, MarkDirty, StaleHeard
  <2> QED
    BY <1>1, <2>1 DEF InDirty, Rests, LocksAgree
<1>3. CASE heard \cap Rescans # {}
  <2>1. sweep' = [sweep EXCEPT ![Watcher] = Walk(Watcher)]
    BY <1>3 DEF OnBatch
  <2>2. sweep'[Watcher].on /\ sweep'[Watcher].latest = recorded /\ sweep'[Watcher].left = Files
    BY <2>1, WalkWrites, NamesDiffer DEF Scope
  <2>3. SweptBy(x, Watcher)'
    BY <1>1, <2>2 DEF SweptBy, Rests
  <2> QED
    BY <2>3 DEF EditAt, OnItsWay
<1>4. CASE heard \cap Rescans = {}
  <2>1. UNCHANGED <<sweep, osq>>
    BY <1>4 DEF OnBatch
  <2>2. OnItsWay(x) => OnItsWay(x)'
    BY <1>1, <1>2, <1>4, <2>1, RestsKept, SweptStays DEF OnItsWay, InQueue
  <2> QED
    BY <1>1, <2>2, EditStays
<1> QED
  BY <1>3, <1>4

\* enqueue_tree_diff: the walk begins, reads a file or passes over it.
LEMMA EditWalked ==
    ASSUME DiskTypes, WorkTypes, NEW x \in Files, EditAt(x), x \notin slipped',
           BootSweep \/ \E s \in Sweepers, y \in Files : SweepFile(s, y) \/ SweepUnread(s, y)
    PROVE  EditAt(x)'
<1>1. Rests(x) /\ UnderLock /\ UNCHANGED <<osq, heard>>
  BY DEF BootSweep, SweepFile, SweepUnread, Rests, UnderLock, diskVars, watchVars, takeVars,
         lockVars, dirtyVars
<1>2. ASSUME NEW w \in Sweepers, SweptBy(x, w) PROVE SweptBy(x, w)'
  <2>1. CASE BootSweep
    <3>1. sweep'[w] = sweep[w]
      BY <1>2, <2>1, WalkWrites, NamesDiffer DEF BootSweep, SweptBy
    <3> QED
      BY <1>1, <1>2, <3>1, SweptStays
  <2>2. ASSUME NEW s \in Sweepers, NEW y \in Files, SweepFile(s, y) PROVE SweptBy(x, w)'
    <3>1. CASE s # w \/ y # x
      <4>1. /\ sweep'[w].on /\ sweep'[w].latest = sweep[w].latest
            /\ x \in sweep[w].left <=> x \in sweep'[w].left
            /\ sweep'[w].found[x] = sweep[w].found[x]
        BY <1>2, <2>2, <3>1, FileWrites DEF SweptBy
      <4> QED
        BY <1>1, <1>2, <4>1, RestsKept DEF SweptBy, Rests
    <3>2. CASE s = w /\ y = x
      <4>1. /\ sweep'[w].on /\ x \in sweep[w].left /\ x \notin sweep'[w].left
            /\ sweep'[w].found[x] = IF SameContent(x, disk[x], sweep[w].latest[x])
                                    THEN None ELSE disk[x]
        <5>1. y \in sweep[s].left
          BY <2>2 DEF SweepFile
        <5>2. /\ sweep'[s].on /\ sweep'[s].left = sweep[s].left \ {y}
              /\ sweep'[s].found[y] = IF SameContent(y, disk[y], sweep[s].latest[y])
                                      THEN None ELSE disk[y]
          BY <2>2, FileWrites
        <5> QED
          BY <3>2, <5>1, <5>2
      <4>2. CASE sweep[w].latest[x] = recorded[x]
        <5>1. \/ SameContent(x, disk[x], recorded[x])
              \/ sweep'[w].found[x] = disk[x]
          BY <4>1, <4>2
        <5>2. \/ SameContent(x, disk[x], recorded[x])'
              \/ sweep'[w].found[x] = disk'[x]
          BY <1>1, <5>1, RestsKept DEF Rests
        <5> QED
          BY <4>1, <5>2 DEF SweptBy
      <4>3. CASE SameContent(x, disk[x], recorded[x])
        BY <1>1, <4>1, <4>3, RestsKept DEF SweptBy, Rests
      <4> QED
        BY <1>2, <4>1, <4>2, <4>3 DEF SweptBy
    <3> QED
      BY <3>1, <3>2
  <2>3. ASSUME NEW s \in Sweepers, NEW y \in Files, SweepUnread(s, y) PROVE SweptBy(x, w)'
    <3>1. y # x
      BY <2>3 DEF SweepUnread
    <3>2. /\ sweep'[w].on /\ sweep'[w].latest = sweep[w].latest
          /\ x \in sweep[w].left <=> x \in sweep'[w].left
          /\ sweep'[w].found = sweep[w].found
      BY <1>2, <2>3, <3>1, UnreadWrites DEF SweptBy
    <3> QED
      BY <1>1, <1>2, <3>2, RestsKept DEF SweptBy, Rests
  <2> QED
    BY <2>1, <2>2, <2>3
<1>3. OnItsWay(x) => OnItsWay(x)'
  BY <1>1, <1>2, RestsKept, NamesDiffer DEF OnItsWay, InQueue
<1> QED
  BY <1>1, <1>3, EditStays

\* mark_dirty_with_staging: what the walk read is dirty with its reading.
LEMMA EditSwept ==
    ASSUME DiskTypes, WorkTypes, LocksAgree, NEW x \in Files, EditAt(x), x \notin slipped',
           NEW s \in Sweepers, SweepEnd(s)
    PROVE  EditAt(x)'
<1>1. /\ UNCHANGED <<disk, gone, recorded, osq, heard, drained, drainedAs, rows>>
      /\ \A w \in Sweepers : w # s => sweep'[w] = sweep[w]
      /\ \A t \in Takes : pc[t] = "drained" <=> pc'[t] = "drained"
  <2>1. \A t \in Takes : t # s => pc'[t] = pc[t]
    BY EndWrites DEF WorkTypes
  <2>2. s \in Takes => pc[s] = "sweeping" /\ pc'[s] = "lock"
    BY EndWrites DEF WorkTypes, LocksAgree
  <2> QED
    BY <2>1, <2>2, EndWrites
<1>2. /\ sweep[s].found[x] \in {None, disk[x]}
      /\ x \notin Outdated /\ sweep[s].left = {}
  BY DEF SweepEnd, StaleFound
<1>3. /\ sweep[s].found[x] # None => x \in dirty' /\ staging'[x] = disk[x]
      /\ sweep[s].found[x] = None => staging'[x] = staging[x]
      /\ dirty \subseteq dirty'
  <2>1. sweep[s].found \in [Files -> Staged]
    BY DEF WorkTypes, Walks
  <2> QED
    BY <1>2, <2>1, StagedWrites DEF SweepEnd
<1>4. x \notin Outdated'
  BY <1>1, <1>2, <1>3 DEF Outdated
<1>5. SameContent(x, disk[x], recorded[x]) => SameContent(x, disk[x], recorded[x])'
  BY <1>1 DEF SameContent, Present
<1>6. InDirty(x) => InDirty(x)'
  BY <1>1, <1>2, <1>3 DEF InDirty
<1>7. InTake(x) => InTake(x)'
  BY <1>1 DEF InTake
<1>8. ASSUME NEW w \in Sweepers, SweptBy(x, w)
      PROVE  SweptBy(x, w)' \/ InDirty(x)' \/ SameContent(x, disk[x], recorded[x])'
  <2>1. CASE w # s
    BY <1>1, <1>5, <1>8, <2>1 DEF SweptBy
  <2>2. CASE w = s /\ sweep[s].found[x] = disk[x]
    BY <1>1, <1>3, <2>2, Numbered DEF InDirty, DiskTypes
  <2> QED
    BY <1>2, <1>5, <1>8, <2>1, <2>2 DEF SweptBy
<1>9. InQueue(x) \/ x \in heard \/ heard \cap Rescans # {} => OnItsWay(x)'
  BY <1>1 DEF InQueue, OnItsWay
<1>10. SameContent(x, disk[x], recorded[x])' \/ OnItsWay(x)' \/ InTake(x)'
  BY <1>5, <1>6, <1>7, <1>8, <1>9, NamesDiffer DEF EditAt, OnItsWay
<1> QED
  BY <1>4, <1>10 DEF EditAt

\* A walk that fails is given up: a file of its scope has slipped.
LEMMA EditGivenUp ==
    ASSUME DiskTypes, WorkTypes, LocksAgree, NEW x \in Files, EditAt(x), x \notin slipped',
           NEW s \in Sweepers, SweepFails(s)
    PROVE  EditAt(x)'
<1>1. s \in Takes
  BY DEF SweepFails, Scope
<1>2. Rests(x)
  BY EndWrites DEF SweepFails, Rests, dirtyVars
<1>3. UnderLock
  <2>1. \A t \in Takes : t # s => pc'[t] = pc[t]
    BY EndWrites DEF WorkTypes
  <2>2. pc[s] = "sweeping" /\ pc'[s] = "lock"
    BY <1>1, EndWrites DEF WorkTypes, LocksAgree
  <2> QED
    BY <2>1, <2>2, EndWrites DEF UnderLock
<1>4. sweep'[Watcher] = sweep[Watcher] /\ UNCHANGED <<osq, heard>>
  BY <1>1, NamesDiffer, EndWrites
<1>5. OnItsWay(x) => OnItsWay(x)'
  BY <1>2, <1>4, RestsKept, SweptStays DEF OnItsWay, InQueue
<1> QED
  BY <1>2, <1>3, <1>5, EditStays

\* A take that asks, or goes on without a drain.
LEMMA EditAwaited ==
    ASSUME DiskTypes, WorkTypes, NEW x \in Files, EditAt(x),
           NEW t \in Takes, TakeAsked(t) \/ MarkerBack(t) \/ MarkerLate(t)
    PROVE  EditAt(x)'
<1>1. CASE TakeAsked(t)
  <2>1. Rests(x) /\ UNCHANGED <<heard, sweep, drained, drainedAs, rows>>
    BY <1>1 DEF TakeAsked, TakeUnchanged, Rests, diskVars, dirtyVars, lockVars
  <2>2. UnderLock
    BY <1>1, <2>1, AtWrites, PcsAre DEF TakeAsked, UnderLock
  <2>3. InQueue(x) => InQueue(x)'
    BY <1>1, QueueGrows DEF TakeAsked, InQueue
  <2>4. OnItsWay(x) => OnItsWay(x)'
    BY <2>1, <2>3, RestsKept, SweptStays DEF OnItsWay
  <2> QED
    BY <2>1, <2>2, <2>4, EditStays
<1>2. CASE LookUncovered(t)
  <2>1. Rests(x) /\ UnderLock
    BY <1>2, LookWrites DEF Rests, UnderLock
  <2>2. sweep'[Watcher] = sweep[Watcher] /\ UNCHANGED <<osq, heard>>
    BY <1>2, LookWrites, NamesDiffer
  <2>3. OnItsWay(x) => OnItsWay(x)'
    BY <2>1, <2>2, RestsKept, SweptStays DEF OnItsWay, InQueue
  <2> QED
    BY <2>1, <2>3, EditStays
<1> QED
  BY <1>1, <1>2 DEF MarkerBack, MarkerLate

\* take_lock and the drain: an entry goes with its staging, older ones too.
LEMMA EditDrained ==
    ASSUME DiskTypes, WorkTypes, LocksAgree, NEW x \in Files, EditAt(x),
           NEW t \in Takes, Drain(t)
    PROVE  EditAt(x)'
<1>1. /\ UNCHANGED <<disk, gone, recorded, osq, heard, sweep, rows>>
      /\ pc'[t] = "drained" /\ drained' = dirty /\ drainedAs' = staging
      /\ \A y \in Files : staging'[y] = None
  BY AtWrites, PcsAre DEF Drain, TakeUnchanged, diskVars
<1>2. (\A u \in Takes : pc[u] \notin {"drained", "captured"}) /\ \A y \in Files : rows[y] = None
  BY NamesDiffer DEF Drain, LocksAgree, NothingStaged
<1>3. disk[x] # None
  BY Numbered DEF DiskTypes
<1>4. ~InTake(x)
  BY <1>2, <1>3 DEF InTake
<1>5. x \in Outdated' => x \in Outdated /\ ~InDirty(x)
  BY <1>1, <1>2 DEF Outdated, InDirty
<1>6. InDirty(x) => InTake(x)'
  BY <1>1 DEF InDirty, InTake
<1>7. SameContent(x, disk[x], recorded[x]) => SameContent(x, disk[x], recorded[x])'
  BY <1>1 DEF SameContent, Present
<1>8. OnItsWay(x) => OnItsWay(x)' \/ InDirty(x)
  <2>1. \A w : SweptBy(x, w) => SweptBy(x, w)'
    BY <1>1, <1>7 DEF SweptBy
  <2> QED
    BY <1>1, <2>1 DEF OnItsWay, InQueue
<1> QED
  BY <1>4, <1>5, <1>6, <1>7, <1>8 DEF EditAt

\* The reading of what was drained: staged, put off, or read.
LEMMA EditCaptured ==
    ASSUME DiskTypes, WorkTypes, LocksAgree, NEW x \in Files, EditAt(x), x \notin slipped',
           NEW t \in Takes, Capture(t)
    PROVE  EditAt(x)'
<1>1. /\ UNCHANGED <<disk, gone, recorded, osq, heard, staging, sweep, drained, drainedAs>>
      /\ Rests(x)
  BY CaptureWrites DEF Rests
<1>2. rows[x] = None /\ disk[x] # None
  <2>1. \A u \in Takes : pc[u] # "captured"
    BY CaptureWrites DEF LocksAgree
  <2> QED
    BY <2>1, Numbered DEF LocksAgree, NothingStaged, DiskTypes
<1>3. OnItsWay(x) => OnItsWay(x)'
  BY <1>1, RestsKept, SweptStays DEF OnItsWay, InQueue
<1>4. InTake(x) => x \in drained /\ drainedAs[x] \in {None, disk[x]}
  BY <1>2 DEF InTake
<1>5. rows'[x] = disk[x] => InTake(x)'
  BY <1>1 DEF InTake
<1>6. SameContent(x, disk[x], recorded[x]) => SameContent(x, disk[x], recorded[x])'
  BY <1>1, RestsKept
<1>7. rows'[x] \in {None, disk[x], drainedAs[x]} => (x \in Outdated' => x \in Outdated)
  BY <1>1 DEF Outdated
<1>8. CASE x \notin drained /\ rows'[x] = None
  BY <1>3, <1>4, <1>6, <1>7, <1>8 DEF EditAt
<1>9. CASE x \in drained /\ drainedAs[x] = None /\ x \in dirty' /\ rows'[x] = None
  <2>1. staging[x] \in {None, disk[x]} => OnItsWay(x)'
    BY <1>1, <1>9 DEF InDirty, OnItsWay
  <2>2. staging[x] \notin {None, disk[x]} => x \in Outdated
    BY DEF Outdated
  <2> QED
    BY <1>3, <1>7, <1>9, <2>1, <2>2 DEF EditAt
<1>10. CASE x \in drained /\ drainedAs[x] # None /\ rows'[x] = drainedAs[x]
  BY <1>3, <1>4, <1>5, <1>6, <1>7, <1>10 DEF EditAt
<1>11. CASE rows'[x] = disk[x]
  BY <1>3, <1>5, <1>7, <1>11 DEF EditAt
<1>12. CASE rows'[x] = None /\ SameContent(x, disk[x], recorded[x])
  BY <1>3, <1>6, <1>7, <1>12 DEF EditAt
<1> QED
  BY <1>8, <1>9, <1>10, <1>11, <1>12, CaptureWrites

\* The end of a take: nothing is held under the lock any more.
LEMMA EditReleased ==
    ASSUME DiskTypes, NEW x \in Files, NEW t \in Takes, Release(t), Rests(x)
    PROVE  /\ x \in Outdated' => x \in Outdated
           /\ UNCHANGED <<osq, heard, sweep>> => (OnItsWay(x) => OnItsWay(x)')
<1>1. drainedAs'[x] = None /\ rows'[x] = None
  BY ReleaseWrites DEF NothingStaged
<1>2. x \in Outdated' => x \in Outdated
  BY <1>1 DEF Outdated, Rests
<1>3. UNCHANGED <<osq, heard, sweep>> => (OnItsWay(x) => OnItsWay(x)')
  BY RestsKept, SweptStays DEF OnItsWay, InQueue
<1> QED
  BY <1>2, <1>3

\* latest_stat_for_paths fails: what was drained has slipped.
LEMMA EditStatFails ==
    ASSUME DiskTypes, WorkTypes, LocksAgree, NEW x \in Files, EditAt(x), x \notin slipped',
           NEW t \in Takes, StatFails(t)
    PROVE  EditAt(x)'
<1>1. Rests(x) /\ Release(t) /\ UNCHANGED <<osq, heard, sweep>> /\ x \notin drained
  BY DEF StatFails, TakeUnchanged, Rests, diskVars, dirtyVars
<1>2. rows[x] = None /\ disk[x] # None
  <2>1. \A u \in Takes : pc[u] # "captured"
    BY DEF StatFails, At, LocksAgree
  <2> QED
    BY <2>1, Numbered DEF LocksAgree, NothingStaged, DiskTypes
<1>3. ~InTake(x)
  BY <1>1, <1>2 DEF InTake
<1> QED
  BY <1>1, <1>3, EditReleased, RestsKept DEF EditAt

\* What a take that has its rows still holds of a file.
LEMMA RowHeld ==
    ASSUME DiskTypes, LocksAgree, NEW x \in Files, NEW t \in Takes, pc[t] = "captured"
    PROVE  /\ InTake(x) <=> rows[x] = disk[x]
           /\ disk[x] # None
<1>1. \A u \in Takes : pc[u] # "drained"
  BY DEF LocksAgree
<1> QED
  BY <1>1, Numbered DEF InTake, DiskTypes

\* record: the row is the last one. A walk under way that a reading older than
\* the disk could mislead has been named.
LEMMA EditRecorded ==
    ASSUME DiskTypes, WorkTypes, LocksAgree, NEW x \in Files, EditAt(x), x \notin slipped',
           NEW t \in Takes, Record(t)
    PROVE  EditAt(x)'
<1>1. /\ pc[t] = "captured" /\ Release(t)
      /\ UNCHANGED <<disk, gone, osq, heard, dirty, staging, sweep>>
      /\ recorded'[x] = IF rows[x] # None THEN rows[x] ELSE recorded[x]
  BY DEF Record, At, TakeUnchanged, diskVars, dirtyVars
<1>2. CASE rows[x] = None
  <2>1. Rests(x)
    BY <1>1, <1>2 DEF Rests
  <2>2. ~InTake(x)
    BY <1>1, <1>2, RowHeld
  <2> QED
    BY <1>1, <2>1, <2>2, EditReleased, RestsKept DEF EditAt
<1>3. x \in Outdated' => x \in Outdated
  <2>1. drainedAs'[x] = None /\ rows'[x] = None
    BY <1>1, ReleaseWrites DEF NothingStaged
  <2> QED
    BY <1>1, <2>1 DEF Outdated
<1>4. InDirty(x) => InDirty(x)'
  BY <1>1 DEF InDirty
<1>5. CASE rows[x] = disk[x]
  <2>1. SameContent(x, disk[x], recorded[x])'
    BY <1>1, <1>5, RowHeld DEF SameContent
  <2>2. \A w : SweptBy(x, w) => SweptBy(x, w)'
    BY <1>1, <2>1 DEF SweptBy
  <2>3. OnItsWay(x) => OnItsWay(x)'
    BY <1>1, <1>4, <2>2 DEF OnItsWay, InQueue
  <2> QED
    BY <1>3, <2>1, <2>3 DEF EditAt
<1>6. CASE rows[x] # None /\ rows[x] # disk[x]
  <2>1. x \in Outdated
    BY <1>6 DEF Outdated
  <2>2. ~sweep[Watcher].on
    BY <2>1, NamesDiffer DEF Record
  <2>3. OnItsWay(x)'
    BY <1>1, <1>4, <2>1, <2>2 DEF EditAt, OnItsWay, SweptBy, InQueue
  <2> QED
    BY <2>3 DEF EditAt
<1> QED
  BY <1>2, <1>5, <1>6

\* The transaction fails: the paths of the rows are dirty again.
LEMMA EditPutBack ==
    ASSUME DiskTypes, WorkTypes, LocksAgree, NEW x \in Files, EditAt(x), x \notin slipped',
           NEW t \in Takes, RecordFails(t)
    PROVE  EditAt(x)'
<1>1. /\ pc[t] = "captured" /\ Release(t) /\ Rests(x) /\ UNCHANGED <<osq, heard, sweep>>
      /\ rows[x] # None => x \in dirty' /\ (x \in dirty => staging[x] \in {None, disk[x]})
  BY DEF RecordFails, At, MarkDirty, StaleHeard, TakeUnchanged, Rests, diskVars
<1>2. rows[x] # None => InDirty(x)'
  BY <1>1 DEF LocksAgree, InDirty, Rests
<1>3. rows[x] = None => ~InTake(x)
  BY <1>1, RowHeld
<1> QED
  BY <1>1, <1>2, <1>3, EditReleased, RestsKept DEF EditAt, OnItsWay

LEMMA SlippedGrows ==
    ASSUME [Next]_vars
    PROVE  slipped \subseteq slipped'
<1>1. CASE WatchSteps
  BY <1>1 DEF WatchSteps, WriteFile, DeleteFile, ChangeFile, Deliver, WatchRescan, OnBatch
<1>2. CASE SweepSteps
  BY <1>2 DEF SweepSteps, BootSweep, SweepEnd, SweepFails, SweepFile, SweepUnread
<1>3. CASE TakeSteps
  BY <1>3 DEF TakeSteps, TakeAsked, MarkerBack, MarkerLate, LookUncovered, Drain, StatFails,
              Capture, Record, RecordFails
<1>4. CASE UNCHANGED vars
  BY <1>4 DEF vars
<1> QED
  BY <1>1, <1>2, <1>3, <1>4 DEF Next

LEMMA EditsStep ==
    ASSUME DiskTypes, WorkTypes, LocksAgree, EditsInv, [Next]_vars
    PROVE  EditsInv'
<1> SUFFICES ASSUME NEW x \in Files \ (Uncovered \cup slipped') PROVE EditAt(x)'
  BY DEF EditsInv
<1>1. EditAt(x) /\ x \in Files /\ x \in Files \ Uncovered /\ x \notin slipped'
  BY SlippedGrows DEF EditsInv
<1>2. CASE \E y \in Files : WriteFile(y) \/ DeleteFile(y)
  BY <1>1, <1>2, EditChanges
<1>3. CASE Deliver
  BY <1>1, <1>3, EditDelivered
<1>4. CASE \E dir \in Rescans, lost \in BOOLEAN : WatchRescan(dir, lost)
  BY <1>1, <1>4, EditRescanned
<1>5. CASE OnBatch
  BY <1>1, <1>5, EditHandled
<1>6. CASE BootSweep \/ \E s \in Sweepers, y \in Files : SweepFile(s, y) \/ SweepUnread(s, y)
  BY <1>1, <1>6, EditWalked
<1>7. CASE \E s \in Sweepers : SweepEnd(s) \/ SweepFails(s)
  BY <1>1, <1>7, EditSwept, EditGivenUp
<1>8. ASSUME NEW t \in Takes, TakeAsked(t) \/ MarkerBack(t) \/ MarkerLate(t) \/ Drain(t)
      PROVE  EditAt(x)'
  BY <1>1, <1>8, EditAwaited, EditDrained
<1>9. ASSUME NEW t \in Takes, StatFails(t) \/ Capture(t) \/ Record(t) \/ RecordFails(t)
      PROVE  EditAt(x)'
  BY <1>1, <1>9, EditStatFails, EditCaptured, EditRecorded, EditPutBack
<1>10. CASE UNCHANGED vars
  <2>1. Rests(x) /\ UnderLock /\ UNCHANGED <<osq, heard, sweep>>
    BY <1>10 DEF vars, Rests, UnderLock
  <2>2. OnItsWay(x) => OnItsWay(x)'
    BY <1>1, <2>1, RestsKept, SweptStays DEF OnItsWay, InQueue
  <2> QED
    BY <1>1, <2>1, <2>2, EditStays
<1> QED
  BY <1>2, <1>3, <1>4, <1>5, <1>6, <1>7, <1>8, <1>9, <1>10
     DEF Next, WatchSteps, SweepSteps, TakeSteps

-----------------------------------------------------------------------------

LEMMA CaptureInit == Init => CaptureInv
<1> SUFFICES ASSUME Init PROVE CaptureInv
  OBVIOUS
<1>1. /\ disk \in [Files -> Versions] /\ gone \in [Files -> SUBSET Versions]
      /\ changes \in Versions /\ recorded \in [Files -> Versions]
  BY Numbered DEF Init
<1>2. DiskTypes
  BY <1>1 DEF Init, DiskTypes
<1>3. WorkTypes
  BY Numbered DEF Init, WorkTypes, TakePcs, NothingStaged
<1>4. LocksAgree
  <2>1. \A s \in Sweepers : ~sweep[s].on
    BY Numbered DEF Init
  <2> QED
    BY <2>1, NamesDiffer DEF Init, LocksAgree, NothingStaged
<1>5. EditsInv
  <2> SUFFICES ASSUME NEW x \in Files PROVE EditAt(x)
    BY DEF EditsInv
  <2>1. disk[x] = recorded[x] /\ x \notin Outdated
    BY DEF Init, Outdated
  <2> QED
    BY <2>1 DEF EditAt, SameContent
<1> QED
  BY <1>2, <1>3, <1>4, <1>5 DEF CaptureInv

LEMMA EditPlaced ==
    ASSUME NEW x \in Files, EditAt(x)
    PROVE  \/ SameContent(x, disk[x], recorded[x])
           \/ InQueue(x) \/ x \in heard \/ heard \cap Rescans # {}
           \/ InSweep(x) \/ InDirty(x) \/ InTake(x)
BY NamesDiffer DEF EditAt, OnItsWay, SweptBy, InSweep

\* request_take, on_batch, enqueue_tree_diff and record together: an edit the
\* latest row of its file does not hold is queued, heard, awaiting a rescan, in a
\* sweep, dirty or in a take, for any number of files, takes, changes, rescans and
\* failures. The invariant adds what a sweep and a take compare with: while a
\* reading older than the disk is held for the next record, the edit that made it
\* old must still be on its way, or the record would hide it.
THEOREM EditsReachARecord == Spec => []EditsAccounted
<1>1. CaptureInv /\ [Next]_vars => CaptureInv'
  BY DiskTypesStep, WorkTypesStep, LocksStep, EditsStep DEF CaptureInv
<1>2. CaptureInv => EditsAccounted
  BY EditPlaced DEF CaptureInv, EditsInv, EditsAccounted
<1> QED
  BY CaptureInit, <1>1, <1>2, PTL DEF Spec

-----------------------------------------------------------------------------
(***************************************************************************)
(* What a take whose marker came back knows of a file: that what it will   *)
(* record is no older than the disk was when it was asked for.             *)
(***************************************************************************)

SinceTypes == since \in [Takes -> [Files -> Versions]]

\* Everything that was read is no newer than the disk.
ReadBefore(x) ==
    /\ disk[x] <= changes /\ recorded[x] <= disk[x]
    /\ staging[x] <= disk[x] /\ drainedAs[x] <= disk[x] /\ rows[x] <= disk[x]
    /\ \A t \in Takes : since[t][x] <= disk[x]
    /\ \A w \in Sweepers : sweep[w].found[x] <= disk[x]

MarkersAgree ==
    /\ \A t \in Takes : pc[t] = "new" => t \notin heard \cup answers \cup back /\ ~InQueue(t)
    /\ \A t \in timely \cap Takes : pc[t] \in {"sweeping", "lock", "drained", "captured"}
    /\ ~sweep[Watcher].on => answers = {}

LEMMA ReadingsAreInts == Staged \subseteq Int /\ Versions \subseteq Int
BY Numbered DEF Staged, None

LEMMA SinceStep ==
    ASSUME DiskTypes, SinceTypes, [Next]_vars
    PROVE  SinceTypes'
<1>1. [x \in Files |-> 0] \in [Files -> Versions] /\ disk \in [Files -> Versions]
  BY Numbered DEF DiskTypes
<1>2. ASSUME NEW t \in Takes, since' = [since EXCEPT ![t] = disk] PROVE SinceTypes'
  BY <1>1, <1>2 DEF SinceTypes
<1>3. ASSUME NEW t \in Takes, Release(t) PROVE SinceTypes'
  BY <1>1, <1>3 DEF SinceTypes, Release
<1>4. CASE WatchSteps
  BY <1>4, ChangeWrites DEF WatchSteps, Deliver, WatchRescan, OnBatch, takeVars, SinceTypes
<1>5. CASE SweepSteps
  BY <1>5 DEF SweepSteps, BootSweep, SweepEnd, SweepFails, SweepFile, SweepUnread, Resume,
              takeVars, SinceTypes
<1>6. CASE TakeSteps
  BY <1>2, <1>3, <1>6 DEF TakeSteps, TakeAsked, MarkerBack, MarkerLate, LookUncovered, Drain,
              StatFails, Capture, Record, RecordFails, SinceTypes
<1>7. CASE UNCHANGED vars
  BY <1>7 DEF vars, SinceTypes
<1> QED
  BY <1>4, <1>5, <1>6, <1>7 DEF Next

\* Steps that read nothing of a file, or read it now.
LEMMA ReadsStay ==
    ASSUME DiskTypes, WorkTypes, NEW x \in Files, ReadBefore(x), UNCHANGED <<disk, changes>>,
           \A t \in Takes : since'[t][x] \in {since[t][x], disk[x], 0},
           recorded'[x] \in {recorded[x], rows[x], disk[x]},
           staging'[x] \in {staging[x], None, disk[x]}
                \/ \E s \in Sweepers : staging'[x] = sweep[s].found[x],
           drainedAs'[x] \in {drainedAs[x], staging[x], None},
           rows'[x] \in {rows[x], drainedAs[x], disk[x], None},
           \A w \in Sweepers : sweep'[w].found[x] \in {sweep[w].found[x], None, disk[x]}
    PROVE  ReadBefore(x)'
<1>1. disk[x] \in Nat /\ None <= disk[x] /\ 0 <= disk[x]
  BY Numbered DEF DiskTypes, None
<1>2. recorded'[x] <= disk[x]
  BY <1>1 DEF ReadBefore
<1>3. staging'[x] <= disk[x]
  BY <1>1 DEF ReadBefore
<1>4. drainedAs'[x] <= disk[x] /\ rows'[x] <= disk[x]
  BY <1>1 DEF ReadBefore
<1>5. \A w \in Sweepers : sweep'[w].found[x] <= disk[x]
  BY <1>1 DEF ReadBefore
<1>6. \A t \in Takes : since'[t][x] <= disk[x]
  BY <1>1 DEF ReadBefore
<1> QED
  BY <1>2, <1>3, <1>4, <1>5, <1>6 DEF ReadBefore

\* A walk that begins, or is over, has found nothing.
LEMMA FoundNothing ==
    ASSUME WorkTypes, NEW s \in Sweepers,
           sweep' = [sweep EXCEPT ![s] = Walk(s)] \/ sweep' = [sweep EXCEPT ![s] = Off]
    PROVE  \A w \in Sweepers, x \in Files : sweep'[w].found[x] \in {sweep[w].found[x], None}
<1>1. \A x \in Files : Walk(s).found[x] = None /\ Off.found[x] = None
  BY DEF Walk, Off
<1>2. \A w \in Sweepers : sweep'[w] \in {sweep[w], Walk(s), Off}
  BY DEF WorkTypes
<1> QED
  BY <1>1, <1>2

LEMMA ReadsStep ==
    ASSUME DiskTypes, WorkTypes, SinceTypes, NEW x \in Files, ReadBefore(x), [Next]_vars
    PROVE  ReadBefore(x)'
<1>1. ASSUME NEW y \in Files, WriteFile(y) \/ DeleteFile(y) PROVE ReadBefore(x)'
  <2>1. /\ disk[x] <= disk'[x] /\ disk'[x] <= changes'
        /\ disk[x] \in Nat /\ disk'[x] \in Nat /\ changes' \in Nat
    <3>1. disk[x] \in Nat /\ disk'[x] \in Nat /\ changes \in Nat /\ changes' \in Nat
      BY <1>1, ChangeWrites, Numbered DEF DiskTypes
    <3>2. changes < changes' /\ (y = x => disk'[x] = changes') /\ (y # x => disk'[x] = disk[x])
      BY <1>1, ChangeWrites
    <3> QED
      BY <3>1, <3>2 DEF ReadBefore
  <2>2. UNCHANGED <<staging, sweep, since, drainedAs, rows, recorded>>
    BY <1>1, ChangeWrites
  <2>3. /\ staging[x] \in Int /\ drainedAs[x] \in Int /\ rows[x] \in Int /\ recorded[x] \in Int
        /\ \A t \in Takes : since[t][x] \in Int
        /\ \A w \in Sweepers : sweep[w].found[x] \in Int
    <3>1. Staged \subseteq Int /\ Versions \subseteq Int
      BY ReadingsAreInts
    <3>2. staging[x] \in Staged /\ drainedAs[x] \in Staged /\ rows[x] \in Staged
      BY DEF WorkTypes
    <3>3. recorded[x] \in Versions /\ \A t \in Takes : since[t][x] \in Versions
      BY DEF DiskTypes, SinceTypes
    <3>4. \A w \in Sweepers : sweep[w].found[x] \in Staged
      BY DEF WorkTypes, Walks
    <3> QED
      BY <3>1, <3>2, <3>3, <3>4
  <2> QED
    BY <2>1, <2>2, <2>3 DEF ReadBefore
<1>2. CASE Deliver \/ \E dir \in Rescans, lost \in BOOLEAN : WatchRescan(dir, lost)
  BY <1>2, ReadsStay DEF Deliver, WatchRescan, diskVars, takeVars, lockVars, dirtyVars
<1>3. CASE OnBatch
  <2>1. UNCHANGED <<disk, changes, since, recorded, staging, drainedAs, rows>>
    BY <1>3 DEF OnBatch, MarkDirty, diskVars, takeVars, lockVars
  <2>2. \A w \in Sweepers : sweep'[w].found[x] \in {sweep[w].found[x], None}
    BY <1>3, FoundNothing, NamesDiffer DEF OnBatch
  <2> QED
    BY <2>1, <2>2, ReadsStay
<1>4. CASE BootSweep
  <2>1. UNCHANGED <<disk, changes, since, recorded, staging, drainedAs, rows>>
    BY <1>4 DEF BootSweep, diskVars, takeVars, lockVars, dirtyVars
  <2>2. \A w \in Sweepers : sweep'[w].found[x] \in {sweep[w].found[x], None}
    BY <1>4, FoundNothing, NamesDiffer DEF BootSweep
  <2> QED
    BY <2>1, <2>2, ReadsStay
<1>5. ASSUME NEW s \in Sweepers, SweepEnd(s) \/ SweepFails(s) PROVE ReadBefore(x)'
  <2>1. UNCHANGED <<disk, changes, since, recorded, drainedAs, rows>>
    BY <1>5 DEF SweepEnd, SweepFails, Resume, diskVars, lockVars
  <2>2. \A w \in Sweepers : sweep'[w].found[x] \in {sweep[w].found[x], None}
    BY <1>5, FoundNothing DEF SweepEnd, SweepFails
  <2>3. staging'[x] \in {staging[x], sweep[s].found[x]}
    BY <1>5 DEF SweepEnd, SweepFails, MarkStaged, dirtyVars
  <2> QED
    BY <2>1, <2>2, <2>3, ReadsStay
<1>6. ASSUME NEW s \in Sweepers, NEW y \in Files, SweepFile(s, y) PROVE ReadBefore(x)'
  <2>1. UNCHANGED <<disk, changes, since, recorded, staging, drainedAs, rows>>
    BY <1>6 DEF SweepFile, diskVars, takeVars, lockVars, dirtyVars
  <2>2. \A w \in Sweepers : sweep'[w].found[x] \in {sweep[w].found[x], None, disk[x]}
    BY <1>6, FileWrites
  <2> QED
    BY <2>1, <2>2, ReadsStay
<1>7. ASSUME NEW s \in Sweepers, NEW y \in Files, SweepUnread(s, y) PROVE ReadBefore(x)'
  <2>1. UNCHANGED <<disk, changes, since, recorded, staging, drainedAs, rows>>
    BY <1>7 DEF SweepUnread, diskVars, takeVars, lockVars, dirtyVars
  <2>2. \A w \in Sweepers : sweep'[w].found = sweep[w].found
    BY <1>7, UnreadWrites
  <2> QED
    BY <2>1, <2>2, ReadsStay
<1>8. ASSUME NEW t \in Takes, TakeAsked(t) PROVE ReadBefore(x)'
  <2>1. UNCHANGED <<disk, changes, recorded, staging, drainedAs, rows, sweep>>
    BY <1>8 DEF TakeAsked, TakeUnchanged, diskVars, lockVars, dirtyVars
  <2>2. \A u \in Takes : since'[u][x] \in {since[u][x], disk[x]}
    BY <1>8 DEF TakeAsked, SinceTypes
  <2> QED
    BY <2>1, <2>2, ReadsStay
<1>9. ASSUME NEW t \in Takes, MarkerBack(t) \/ MarkerLate(t) PROVE ReadBefore(x)'
  <2>1. UNCHANGED <<disk, changes, since, recorded, staging, drainedAs, rows>>
    BY <1>9 DEF MarkerBack, MarkerLate, LookUncovered, TakeUnchanged, diskVars, lockVars, dirtyVars
  <2>2. \A w \in Sweepers : sweep'[w].found[x] \in {sweep[w].found[x], None}
    BY <1>9, FoundNothing, NamesDiffer DEF MarkerBack, MarkerLate, LookUncovered
  <2> QED
    BY <2>1, <2>2, ReadsStay
<1>10. ASSUME NEW t \in Takes, Drain(t) PROVE ReadBefore(x)'
  <2>1. UNCHANGED <<disk, changes, since, recorded, rows, sweep>>
    BY <1>10 DEF Drain, TakeUnchanged, diskVars
  <2>2. drainedAs'[x] = staging[x] /\ staging'[x] = None
    BY <1>10 DEF Drain
  <2> QED
    BY <2>1, <2>2, ReadsStay
<1>11. ASSUME NEW t \in Takes, Capture(t) PROVE ReadBefore(x)'
  <2>1. UNCHANGED <<disk, changes, since, recorded, drainedAs, staging, sweep>>
    BY <1>11, CaptureWrites DEF Capture
  <2>2. \E p, q : rows'[x] = Row(x, p, q)
    BY <1>11 DEF Capture
  <2>3. rows'[x] \in {drainedAs[x], disk[x], None}
    BY <2>2 DEF Row
  <2> QED
    BY <2>1, <2>3, ReadsStay
<1>12. ASSUME NEW t \in Takes, StatFails(t) \/ Record(t) \/ RecordFails(t) PROVE ReadBefore(x)'
  <2>1. Release(t) /\ UNCHANGED <<disk, changes, staging, sweep>>
    BY <1>12 DEF StatFails, Record, RecordFails, MarkDirty, TakeUnchanged, diskVars, dirtyVars
  <2>2. recorded'[x] \in {recorded[x], rows[x]}
    BY <1>12 DEF StatFails, Record, RecordFails
  <2>3. drainedAs'[x] = None /\ rows'[x] = None
    BY <2>1, ReleaseWrites DEF NothingStaged
  <2>4. \A u \in Takes : since'[u][x] \in {since[u][x], 0}
    BY <2>1 DEF Release, SinceTypes
  <2> QED
    BY <2>1, <2>2, <2>3, <2>4, ReadsStay
<1>13. CASE UNCHANGED vars
  BY <1>13, ReadsStay DEF vars
<1> QED
  BY <1>1, <1>2, <1>3, <1>4, <1>5, <1>6, <1>7, <1>8, <1>9, <1>10, <1>11, <1>12, <1>13
     DEF Next, WatchSteps, SweepSteps, TakeSteps

LEMMA MarkersStep ==
    ASSUME DiskTypes, WorkTypes, LocksAgree, MarkersAgree, [Next]_vars
    PROVE  MarkersAgree'
<1>0. \A t \in Takes : t \notin Files /\ t \notin Rescans /\ t \in Sweepers /\ t # Watcher
  BY MarkersNamed, NamesDiffer
<1>1. ASSUME NEW y \in Files, WriteFile(y) \/ DeleteFile(y) PROVE MarkersAgree'
  <2>1. \A t \in Takes : InQueue(t)' => InQueue(t)
    <3>1. osq' = osq \/ osq' = Append(osq, y)
      BY <1>1, ChangeWrites
    <3> QED
      BY <1>0, <3>1 DEF InQueue, DiskTypes
  <2> QED
    BY <1>1, <2>1, ChangeWrites DEF MarkersAgree
<1>2. CASE Deliver
  <2>1. \A t \in Takes : (InQueue(t)' => InQueue(t)) /\ (t \in heard' => t \in heard \/ InQueue(t))
    <3>1. osq # <<>> /\ osq' = Tail(osq) /\ osq \in Seq(Files \cup Takes)
          /\ heard' \subseteq heard \cup {Head(osq)}
      BY <1>2 DEF Deliver, DiskTypes
    <3>2. 1 \in DOMAIN osq /\ Head(osq) = osq[1]
      BY <3>1
    <3>3. \A i \in DOMAIN Tail(osq) : i + 1 \in DOMAIN osq /\ Tail(osq)[i] = osq[i + 1]
      BY <3>1
    <3> QED
      BY <3>1, <3>2, <3>3 DEF InQueue
  <2>2. UNCHANGED <<answers, back, pc, timely, sweep>>
    BY <1>2 DEF Deliver, takeVars
  <2> QED
    BY <2>1, <2>2 DEF MarkersAgree
<1>3. ASSUME NEW dir \in Rescans, NEW lost \in BOOLEAN, WatchRescan(dir, lost) PROVE MarkersAgree'
  <2>1. \A t \in Takes : InQueue(t)' => InQueue(t)
    BY <1>3 DEF WatchRescan, InQueue
  <2>2. \A t \in Takes : t \in heard' => t \in heard
    BY <1>0, <1>3 DEF WatchRescan
  <2>3. UNCHANGED <<answers, back, pc, timely, sweep>>
    BY <1>3 DEF WatchRescan, takeVars
  <2> QED
    BY <2>1, <2>2, <2>3 DEF MarkersAgree
<1>4. CASE OnBatch
  <2>1. /\ UNCHANGED <<osq, pc, timely>> /\ heard' = {}
        /\ \A t \in answers' \cup back' : t \in heard \cup answers \cup back
    BY <1>4 DEF OnBatch, takeVars, Waiting
  <2>2. ~sweep'[Watcher].on => answers' = {}
    <3>1. CASE heard \cap Rescans = {}
      BY <1>4, <3>1 DEF OnBatch, MarkersAgree
    <3>2. CASE heard \cap Rescans # {}
      BY <1>4, <3>2, WalkWrites, NamesDiffer DEF OnBatch
    <3> QED
      BY <3>1, <3>2
  <2> QED
    BY <2>1, <2>2 DEF MarkersAgree, InQueue
<1>5. CASE BootSweep
  <2>1. sweep'[Watcher] = sweep[Watcher]
    BY <1>5, WalkWrites, NamesDiffer DEF BootSweep
  <2> QED
    BY <1>5, <2>1 DEF BootSweep, MarkersAgree, InQueue, watchVars, takeVars
<1>6. ASSUME NEW s \in Sweepers, SweepEnd(s) \/ SweepFails(s) PROVE MarkersAgree'
  <2>1. Resume(s) /\ UNCHANGED <<osq, heard, timely>>
    BY <1>6 DEF SweepEnd, SweepFails, Resume
  <2>2. \A t \in answers' \cup back' : t \in answers \cup back
    BY <2>1 DEF Resume, Waiting
  <2>3. ~sweep'[Watcher].on => answers' = {}
    <3>1. CASE s = Watcher
      BY <2>1, <3>1 DEF Resume
    <3>2. CASE s # Watcher
      BY <1>6, <2>1, <3>2, EndWrites, NamesDiffer DEF Resume, MarkersAgree
    <3> QED
      BY <3>1, <3>2
  <2>4. \A t \in Takes : pc'[t] = pc[t] \/ (pc'[t] = "lock" /\ pc[t] = "sweeping")
    <3>1. /\ pc' = IF s \in Takes THEN [pc EXCEPT ![s] = "lock"] ELSE pc
          /\ s \in Takes => pc[s] = "sweeping"
      BY <1>6, EndWrites DEF LocksAgree
    <3>2. CASE s \in Takes
      <4>1. pc' = [pc EXCEPT ![s] = "lock"] /\ pc \in [Takes -> TakePcs]
        BY <3>1, <3>2 DEF WorkTypes
      <4> QED
        BY <3>1, <3>2, <4>1
    <3>3. CASE s \notin Takes
      BY <3>1, <3>3
    <3> QED
      BY <3>2, <3>3
  <2> QED
    BY <2>1, <2>2, <2>3, <2>4 DEF MarkersAgree, InQueue
<1>7. ASSUME NEW s \in Sweepers, NEW y \in Files, SweepFile(s, y) \/ SweepUnread(s, y)
      PROVE  MarkersAgree'
  <2>1. sweep'[Watcher].on <=> sweep[Watcher].on
    BY <1>7, FileWrites, UnreadWrites, NamesDiffer
  <2> QED
    BY <1>7, <2>1 DEF SweepFile, SweepUnread, MarkersAgree, InQueue, watchVars, takeVars
<1>8. ASSUME NEW t \in Takes, TakeAsked(t) PROVE MarkersAgree'
  <2>1. /\ pc[t] = "new" /\ pc'[t] = "marker" /\ \A u \in Takes : u # t => pc'[u] = pc[u]
        /\ UNCHANGED <<heard, answers, back, timely, sweep>> /\ osq' = Append(osq, t)
    BY <1>8, AtWrites, PcsAre DEF TakeAsked, TakeUnchanged
  <2>2. \A u \in Takes : u # t => (InQueue(u)' => InQueue(u))
    BY <2>1 DEF InQueue, DiskTypes
  <2>3. t \notin timely
    BY <2>1 DEF MarkersAgree
  <2> QED
    BY <2>1, <2>2, <2>3 DEF MarkersAgree
<1>9. ASSUME NEW t \in Takes, MarkerBack(t) \/ MarkerLate(t) PROVE MarkersAgree'
  <2>1. /\ pc[t] = "marker" /\ pc'[t] \in {"lock", "sweeping"}
        /\ \A u \in Takes : u # t => pc'[u] = pc[u]
        /\ sweep'[Watcher] = sweep[Watcher] /\ UNCHANGED <<osq, heard>>
    BY <1>9, LookWrites, NamesDiffer DEF MarkerBack, MarkerLate
  <2>2. UNCHANGED answers /\ back' \subseteq back /\ timely' \subseteq timely \cup {t}
    BY <1>9 DEF MarkerBack, MarkerLate, LookUncovered, TakeUnchanged
  <2> QED
    BY <2>1, <2>2 DEF MarkersAgree, InQueue
<1>10. ASSUME NEW t \in Takes, Drain(t) \/ Capture(t) PROVE MarkersAgree'
  <2>1. /\ pc'[t] \in {"drained", "captured"} /\ \A u \in Takes : u # t => pc'[u] = pc[u]
        /\ UNCHANGED <<osq, heard, answers, back, timely, sweep>>
    BY <1>10, AtWrites, PcsAre DEF Drain, Capture, TakeUnchanged
  <2> QED
    BY <2>1 DEF MarkersAgree, InQueue
<1>11. ASSUME NEW t \in Takes, StatFails(t) \/ Record(t) \/ RecordFails(t) PROVE MarkersAgree'
  <2>1. /\ pc'[t] = "done" /\ \A u \in Takes : u # t => pc'[u] = pc[u]
        /\ UNCHANGED <<osq, heard, answers, back, sweep>> /\ timely' = timely \ {t}
    BY <1>11 DEF StatFails, Record, RecordFails, TakeUnchanged, Release, At, WorkTypes
  <2> QED
    BY <2>1 DEF MarkersAgree, InQueue
<1>12. CASE UNCHANGED vars
  BY <1>12 DEF vars, MarkersAgree, InQueue
<1> QED
  BY <1>1, <1>2, <1>3, <1>4, <1>5, <1>6, <1>7, <1>8, <1>9, <1>10, <1>11, <1>12
     DEF Next, WatchSteps, SweepSteps, TakeSteps

-----------------------------------------------------------------------------
\* n is the version a file had when a take was asked for.
NoOlder(v, n) == v = None \/ n <= v

\* The last row of a file is that version or a later one, or is as good.
HasRow(x, n) == \E v \in n..disk[x] : SameContent(x, v, recorded[x])

\* Whatever is recorded of the file next, it is no older: its entry waits for a
\* reading, or what is held under the lock is new enough.
Safe(x, n) ==
    /\ NoOlder(staging[x], n)
    /\ \/ x \in dirty
       \/ /\ NoOlder(drainedAs[x], n) /\ NoOlder(rows[x], n)
          /\ \/ \E t \in Takes : pc[t] = "drained" /\ x \in drained
             \/ rows[x] # None
             \/ HasRow(x, n)

\* A sweep has the file to read, has read it, or has passed it over.
ReadBy(w, x, n) ==
    /\ sweep[w].on
    /\ \/ x \in sweep[w].left /\ sweep[w].latest[x] = recorded[x]
       \/ x \notin sweep[w].left /\ sweep[w].found[x] # None
       \/ HasRow(x, n)

\* Steps that neither drain, read, stage nor record.
Bystander ==
    \/ Deliver \/ \E dir \in Rescans, lost \in BOOLEAN : WatchRescan(dir, lost)
    \/ OnBatch \/ BootSweep
    \/ \E s \in Sweepers : SweepFails(s)
    \/ \E s \in Sweepers, y \in Files : SweepFile(s, y) \/ SweepUnread(s, y)
    \/ \E t \in Takes : TakeAsked(t) \/ MarkerBack(t) \/ MarkerLate(t)
    \/ UNCHANGED vars

LEMMA BystanderRests ==
    ASSUME DiskTypes, WorkTypes, LocksAgree, Bystander, NEW x \in Files
    PROVE  Rests(x) /\ UnderLock
<1>1. CASE Deliver \/ \E dir \in Rescans, lost \in BOOLEAN : WatchRescan(dir, lost)
  BY <1>1 DEF Deliver, WatchRescan, Rests, UnderLock, diskVars, dirtyVars, takeVars, lockVars
<1>2. CASE OnBatch \/ BootSweep
  BY <1>2 DEF OnBatch, MarkDirty, BootSweep, Rests, UnderLock, diskVars, dirtyVars, takeVars,
              lockVars
<1>3. ASSUME NEW s \in Sweepers, SweepFails(s) PROVE Rests(x) /\ UnderLock
  <2>1. Rests(x)
    BY <1>3, EndWrites DEF SweepFails, Rests, dirtyVars
  <2>2. \A t \in Takes : t # s => pc'[t] = pc[t]
    BY <1>3, EndWrites DEF WorkTypes
  <2>3. s \in Takes => pc[s] = "sweeping" /\ pc'[s] = "lock"
    BY <1>3, EndWrites DEF WorkTypes, LocksAgree
  <2> QED
    BY <1>3, <2>1, <2>2, <2>3, EndWrites DEF UnderLock
<1>4. ASSUME NEW s \in Sweepers, NEW y \in Files, SweepFile(s, y) \/ SweepUnread(s, y)
      PROVE  Rests(x) /\ UnderLock
  BY <1>4 DEF SweepFile, SweepUnread, Rests, UnderLock, diskVars, dirtyVars, takeVars, lockVars
<1>5. ASSUME NEW t \in Takes, TakeAsked(t) PROVE Rests(x) /\ UnderLock
  BY <1>5, AtWrites, PcsAre
     DEF TakeAsked, TakeUnchanged, Rests, UnderLock, diskVars, dirtyVars, lockVars
<1>6. ASSUME NEW t \in Takes, MarkerBack(t) \/ MarkerLate(t) PROVE Rests(x) /\ UnderLock
  BY <1>6, LookWrites DEF MarkerBack, MarkerLate, Rests, UnderLock
<1>7. CASE UNCHANGED vars
  BY <1>7 DEF vars, Rests, UnderLock
<1> QED
  BY <1>1, <1>2, <1>3, <1>4, <1>5, <1>6, <1>7 DEF Bystander

LEMMA RowStays ==
    ASSUME NEW x \in Files, NEW n, HasRow(x, n),
           disk'[x] = disk[x], gone'[x] = gone[x], recorded'[x] = recorded[x]
    PROVE  HasRow(x, n)'
BY DEF HasRow, SameContent, Present

\* A later change is not what a version was.
LEMMA RowOutlives ==
    ASSUME DiskTypes, NEW x \in Files, ReadBefore(x), NEW n \in Nat, HasRow(x, n),
           NEW y \in Files, WriteFile(y) \/ DeleteFile(y)
    PROVE  HasRow(x, n)'
<1>1. CASE y # x
  BY <1>1, ChangeWrites, RowStays
<1>2. CASE y = x
  <2>1. PICK v \in n..disk[x] : SameContent(x, v, recorded[x])
    BY DEF HasRow
  <2>2. /\ disk[x] \in Nat /\ changes \in Nat /\ recorded[x] \in Nat /\ disk[x] <= changes
        /\ recorded[x] <= disk[x] /\ disk'[x] = changes + 1 /\ recorded' = recorded
    BY <1>2, ChangeWrites, Numbered DEF DiskTypes, ReadBefore, WriteFile, DeleteFile, ChangeFile
  <2>3. gone'[x] = gone[x] \/ gone'[x] = gone[x] \cup {changes + 1}
    BY <1>2 DEF WriteFile, DeleteFile, DiskTypes
  <2>4. Present(x, v)' <=> Present(x, v)
    BY <2>1, <2>2, <2>3 DEF Present
  <2>5. Present(x, recorded[x])' <=> Present(x, recorded[x])
    BY <2>2, <2>3 DEF Present
  <2>6. SameContent(x, v, recorded[x])'
    BY <2>1, <2>2, <2>4, <2>5 DEF SameContent
  <2>7. v \in n..disk'[x]
    BY <2>1, <2>2
  <2> QED
    BY <2>6, <2>7 DEF HasRow
<1> QED
  BY <1>1, <1>2

LEMMA SafeRests ==
    ASSUME NEW x \in Files, NEW n, Safe(x, n), Rests(x), UnderLock
    PROVE  Safe(x, n)'
<1>1. HasRow(x, n) => HasRow(x, n)'
  BY RowStays DEF Rests
<1> QED
  BY <1>1 DEF Safe, Rests, UnderLock

\* The version on the disk now is late enough.
LEMMA DiskIsNew ==
    ASSUME DiskTypes, NEW x \in Files, NEW n \in Nat, n <= disk[x]
    PROVE  /\ NoOlder(None, n) /\ NoOlder(disk[x], n) /\ disk[x] \in Nat /\ disk[x] # None
           /\ SameContent(x, disk[x], recorded[x]) => HasRow(x, n)
<1>1. disk[x] \in Nat /\ disk[x] # None
  BY Numbered DEF DiskTypes, None
<1>2. disk[x] \in n..disk[x]
  BY <1>1
<1> QED
  BY <1>1, <1>2 DEF HasRow, NoOlder

\* A reading taken now is held: whatever else is held is no older than it.
LEMMA SafeSwept ==
    ASSUME DiskTypes, WorkTypes, LocksAgree, NEW x \in Files, NEW n \in Nat, n <= disk[x],
           NEW s \in Sweepers, SweepEnd(s), x \notin slipped', Safe(x, n)
    PROVE  Safe(x, n)'
<1>1. /\ UNCHANGED <<disk, gone, recorded, drained, drainedAs, rows>>
      /\ \A t \in Takes : pc[t] = "drained" => pc'[t] = "drained"
  <2>1. \A t \in Takes : t # s => pc'[t] = pc[t]
    BY EndWrites DEF WorkTypes
  <2>2. s \in Takes => pc[s] = "sweeping"
    BY EndWrites DEF LocksAgree
  <2> QED
    BY <2>1, <2>2, EndWrites
<1>2. sweep[s].found \in [Files -> Staged] /\ sweep[s].found[x] \in {None, disk[x]}
  BY DEF WorkTypes, Walks, SweepEnd, StaleFound
<1>3. \/ x \in dirty' /\ staging'[x] = disk[x]
      \/ staging'[x] = staging[x] /\ (x \in dirty => x \in dirty')
  BY <1>2, StagedWrites DEF SweepEnd
<1> QED
  BY <1>1, <1>3, DiskIsNew, RowStays DEF Safe

LEMMA SafeStep ==
    ASSUME DiskTypes, WorkTypes, LocksAgree, [Next]_vars, NEW x \in Files, ReadBefore(x),
           NEW n \in Nat, n <= disk[x], x \notin slipped', Safe(x, n)
    PROVE  Safe(x, n)'
<1>1. CASE Bystander
  BY <1>1, BystanderRests, SafeRests
<1>2. ASSUME NEW y \in Files, WriteFile(y) \/ DeleteFile(y) PROVE Safe(x, n)'
  <2>1. UNCHANGED <<dirty, staging, pc, drained, drainedAs, rows>>
    BY <1>2, ChangeWrites
  <2>2. HasRow(x, n) => HasRow(x, n)'
    BY <1>2, RowOutlives
  <2> QED
    BY <2>1, <2>2 DEF Safe
<1>3. ASSUME NEW s \in Sweepers, SweepEnd(s) PROVE Safe(x, n)'
  BY <1>3, SafeSwept
<1>4. ASSUME NEW t \in Takes, Drain(t) PROVE Safe(x, n)'
  <2>1. /\ UNCHANGED <<disk, gone, recorded, rows>>
        /\ pc'[t] = "drained" /\ drained' = dirty /\ drainedAs'[x] = staging[x]
        /\ staging'[x] = None /\ rows[x] = None
        /\ \A u \in Takes : pc[u] # "drained"
    BY <1>4, AtWrites, PcsAre, NamesDiffer
       DEF Drain, TakeUnchanged, diskVars, LocksAgree, NothingStaged
  <2> QED
    BY <2>1, DiskIsNew, RowStays DEF Safe
<1>5. ASSUME NEW t \in Takes, Capture(t) PROVE Safe(x, n)'
  <2>1. /\ UNCHANGED <<disk, gone, recorded, staging, drainedAs>>
        /\ dirty \subseteq dirty'
    BY <1>5, CaptureWrites
  <2>2. rows[x] = None
    <3>1. \A u \in Takes : pc[u] # "captured"
      BY <1>5, CaptureWrites DEF LocksAgree
    <3> QED
      BY <3>1 DEF LocksAgree, NothingStaged
  <2>3. CASE x \in dirty
    BY <2>1, <2>3 DEF Safe
  <2>4. CASE x \notin dirty
    <3>1. NoOlder(staging[x], n) /\ NoOlder(drainedAs[x], n) /\ (x \in drained \/ HasRow(x, n))
      BY <2>2, <2>4 DEF Safe
    <3>2. \/ x \in dirty'
          \/ rows'[x] # None /\ rows'[x] \in {drainedAs[x], disk[x]}
          \/ rows'[x] = None /\ (x \notin drained \/ SameContent(x, disk[x], recorded[x]))
      BY <1>5, CaptureWrites, DiskIsNew
    <3> QED
      BY <2>1, <3>1, <3>2, DiskIsNew, RowStays DEF Safe
  <2> QED
    BY <2>3, <2>4
<1>6. ASSUME NEW t \in Takes, StatFails(t) \/ Record(t) \/ RecordFails(t) PROVE Safe(x, n)'
  <2>1. /\ UNCHANGED <<disk, gone, staging>> /\ dirty \subseteq dirty'
        /\ drainedAs'[x] = None /\ rows'[x] = None
    BY <1>6, ReleaseWrites
       DEF StatFails, Record, RecordFails, MarkDirty, TakeUnchanged, diskVars, dirtyVars,
           NothingStaged
  <2>2. CASE x \in dirty
    BY <2>1, <2>2 DEF Safe
  <2>3. CASE x \notin dirty /\ StatFails(t)
    <3>1. x \notin drained /\ recorded' = recorded
      BY <2>3 DEF StatFails
    <3>2. rows[x] = None
      BY <2>3 DEF StatFails, At, LocksAgree, NothingStaged
    <3> QED
      BY <2>1, <2>3, <3>1, <3>2, DiskIsNew, RowStays DEF Safe
  <2>4. CASE x \notin dirty /\ ~StatFails(t)
    <3>1. pc[t] = "captured" /\ \A u \in Takes : pc[u] # "drained"
      BY <1>6, <2>4 DEF Record, RecordFails, At, LocksAgree
    <3>2. CASE rows[x] = None
      <4>1. recorded'[x] = recorded[x]
        BY <1>6, <2>4, <3>2 DEF Record, RecordFails
      <4> QED
        BY <2>1, <2>4, <3>1, <3>2, <4>1, DiskIsNew, RowStays DEF Safe
    <3>3. CASE rows[x] # None
      <4>1. rows[x] \in Int /\ n <= rows[x] /\ rows[x] <= disk[x]
        <5>1. rows[x] \in Int
          <6>1. rows[x] \in Staged
            BY DEF WorkTypes
          <6> QED
            BY <6>1, ReadingsAreInts
        <5> QED
          BY <2>4, <3>3, <5>1 DEF Safe, NoOlder, ReadBefore
      <4>2. CASE Record(t)
        <5>1. recorded'[x] = rows[x] /\ disk'[x] = disk[x]
          BY <2>1, <3>3, <4>2 DEF Record
        <5>2. PICK v : v = rows[x]
          OBVIOUS
        <5>3. v \in n..disk'[x] /\ SameContent(x, v, recorded[x])'
          BY <4>1, <5>1, <5>2 DEF SameContent
        <5>4. HasRow(x, n)'
          BY <5>3 DEF HasRow
        <5> QED
          BY <2>1, <2>4, <5>4, DiskIsNew DEF Safe
      <4>3. CASE RecordFails(t)
        <5>1. x \in dirty'
          BY <3>3, <4>3 DEF RecordFails, MarkDirty
        <5> QED
          BY <2>1, <5>1 DEF Safe
      <4> QED
        BY <1>6, <2>4, <4>2, <4>3
    <3> QED
      BY <3>2, <3>3
  <2> QED
    BY <2>2, <2>3, <2>4
<1> QED
  BY <1>1, <1>2, <1>3, <1>4, <1>5, <1>6
     DEF Next, WatchSteps, SweepSteps, TakeSteps, Bystander

LEMMA ReadStays ==
    ASSUME NEW x \in Files, NEW n, NEW w, ReadBy(w, x, n), sweep'[w] = sweep[w],
           recorded'[x] = recorded[x], HasRow(x, n) => HasRow(x, n)'
    PROVE  ReadBy(w, x, n)'
BY DEF ReadBy

\* Nothing older is held of a file whose last row is new enough.
LEMMA SafeNow ==
    ASSUME DiskTypes, NEW x \in Files, NEW n \in Nat, n <= disk[x], x \notin Outdated, HasRow(x, n)
    PROVE  Safe(x, n)
BY DiskIsNew DEF Outdated, Safe

\* What a sweep has to say is said as it ends.
LEMMA ReadEnds ==
    ASSUME DiskTypes, WorkTypes, LocksAgree, NEW x \in Files, NEW n \in Nat, n <= disk[x],
           x \notin slipped', NEW w \in Sweepers, ReadBy(w, x, n), SweepEnd(w)
    PROVE  Safe(x, n)'
<1>1. /\ x \notin Outdated /\ x \notin sweep[w].left
      /\ sweep[w].found \in [Files -> Staged] /\ sweep[w].found[x] \in {None, disk[x]}
  BY DEF WorkTypes, Walks, SweepEnd, StaleFound
<1>2. CASE sweep[w].found[x] # None
  <2>1. x \in dirty' /\ staging'[x] = disk[x]
    BY <1>1, <1>2, StagedWrites DEF SweepEnd
  <2> QED
    BY <2>1, DiskIsNew DEF Safe
<1>3. CASE sweep[w].found[x] = None
  <2>1. HasRow(x, n)
    BY <1>1, <1>3 DEF ReadBy
  <2> QED
    BY <1>1, <2>1, SafeNow, SafeSwept
<1> QED
  BY <1>2, <1>3

LEMMA ReadStep ==
    ASSUME DiskTypes, WorkTypes, LocksAgree, [Next]_vars, NEW x \in Files, ReadBefore(x),
           NEW n \in Nat, n <= disk[x], x \notin slipped',
           NEW w \in Sweepers, x \in Scope(w), ReadBy(w, x, n)
    PROVE  ReadBy(w, x, n)' \/ Safe(x, n)'
<1>0. sweep[w].on
  BY DEF ReadBy
<1>1. ASSUME NEW y \in Files, WriteFile(y) \/ DeleteFile(y) PROVE ReadBy(w, x, n)'
  BY <1>1, ChangeWrites, RowOutlives, ReadStays
<1>2. ASSUME sweep'[w] = sweep[w], Bystander PROVE ReadBy(w, x, n)'
  BY <1>2, BystanderRests, RowStays, ReadStays DEF Rests
<1>3. ASSUME Deliver \/ \E dir \in Rescans, lost \in BOOLEAN : WatchRescan(dir, lost)
      PROVE  ReadBy(w, x, n)'
  BY <1>2, <1>3 DEF Bystander, Deliver, WatchRescan
<1>4. CASE OnBatch \/ BootSweep
  <2>1. sweep'[w] = sweep[w]
    BY <1>0, <1>4, WalkWrites, NamesDiffer DEF OnBatch, BootSweep
  <2> QED
    BY <1>2, <1>4, <2>1 DEF Bystander
<1>5. ASSUME NEW s \in Sweepers, SweepFails(s) PROVE ReadBy(w, x, n)'
  <2>1. s # w
    BY <1>5 DEF SweepFails
  <2> QED
    BY <1>2, <1>5, <2>1, EndWrites DEF Bystander
<1>6. ASSUME NEW s \in Sweepers, SweepEnd(s) PROVE ReadBy(w, x, n)' \/ Safe(x, n)'
  <2>1. CASE s = w
    BY <1>6, <2>1, ReadEnds
  <2>2. CASE s # w
    <3>1. sweep'[w] = sweep[w] /\ UNCHANGED <<disk, gone, recorded>>
      BY <1>6, <2>2, EndWrites
    <3> QED
      BY <3>1, RowStays, ReadStays
  <2> QED
    BY <2>1, <2>2
<1>7. ASSUME NEW s \in Sweepers, NEW y \in Files, SweepFile(s, y) PROVE ReadBy(w, x, n)'
  <2>1. UNCHANGED <<disk, gone, recorded>> /\ (HasRow(x, n) => HasRow(x, n)')
    BY <1>7, RowStays DEF SweepFile, diskVars, takeVars
  <2>2. CASE s # w \/ y # x
    <3>1. /\ sweep'[w].on /\ sweep'[w].latest = sweep[w].latest
          /\ x \in sweep[w].left <=> x \in sweep'[w].left
          /\ sweep'[w].found[x] = sweep[w].found[x]
      BY <1>0, <1>7, <2>2, FileWrites
    <3> QED
      BY <2>1, <3>1 DEF ReadBy
  <2>3. CASE s = w /\ y = x
    <3>1. /\ sweep'[w].on /\ x \in sweep[w].left /\ x \notin sweep'[w].left
          /\ sweep'[w].found[x] = IF SameContent(x, disk[x], sweep[w].latest[x])
                                  THEN None ELSE disk[x]
      <4>1. y \in sweep[s].left
        BY <1>7 DEF SweepFile
      <4>2. /\ sweep'[s].on /\ sweep'[s].left = sweep[s].left \ {y}
            /\ sweep'[s].found[y] = IF SameContent(y, disk[y], sweep[s].latest[y])
                                    THEN None ELSE disk[y]
        BY <1>7, FileWrites
      <4> QED
        BY <2>3, <4>1, <4>2
    <3>2. sweep'[w].found[x] # None \/ HasRow(x, n)
      <4>1. CASE HasRow(x, n)
        BY <4>1
      <4>2. CASE sweep[w].latest[x] = recorded[x]
        BY <3>1, <4>2, DiskIsNew
      <4> QED
        BY <3>1, <4>1, <4>2 DEF ReadBy
    <3> QED
      BY <2>1, <3>1, <3>2 DEF ReadBy
  <2> QED
    BY <2>2, <2>3
<1>8. ASSUME NEW s \in Sweepers, NEW y \in Files, SweepUnread(s, y) PROVE ReadBy(w, x, n)'
  <2>1. UNCHANGED <<disk, gone, recorded>> /\ (HasRow(x, n) => HasRow(x, n)') /\ y # x
    BY <1>8, RowStays DEF SweepUnread, diskVars, takeVars
  <2>2. /\ sweep'[w].on /\ sweep'[w].latest = sweep[w].latest
        /\ x \in sweep[w].left <=> x \in sweep'[w].left
        /\ sweep'[w].found = sweep[w].found
    BY <1>0, <1>8, <2>1, UnreadWrites
  <2> QED
    BY <2>1, <2>2 DEF ReadBy
<1>9. ASSUME NEW t \in Takes, TakeAsked(t) \/ MarkerBack(t) \/ MarkerLate(t)
      PROVE  ReadBy(w, x, n)'
  <2>1. sweep'[w] = sweep[w]
    <3>1. CASE TakeAsked(t)
      BY <3>1 DEF TakeAsked
    <3>2. CASE LookUncovered(t)
      BY <1>0, <3>2, LookWrites DEF LocksAgree
    <3> QED
      BY <1>9, <3>1, <3>2 DEF MarkerBack, MarkerLate
  <2> QED
    BY <1>2, <1>9, <2>1 DEF Bystander
<1>10. ASSUME NEW t \in Takes, Drain(t) \/ Capture(t) \/ StatFails(t) \/ RecordFails(t)
       PROVE  ReadBy(w, x, n)'
  <2>1. UNCHANGED <<disk, gone, recorded, sweep>>
    BY <1>10 DEF Drain, Capture, StatFails, RecordFails, TakeUnchanged, diskVars
  <2> QED
    BY <2>1, RowStays, ReadStays
<1>11. ASSUME NEW t \in Takes, Record(t) PROVE ReadBy(w, x, n)' \/ Safe(x, n)'
  <2>1. /\ UNCHANGED <<disk, gone, sweep, staging>> /\ x \notin Outdated
        /\ recorded'[x] = IF rows[x] # None THEN rows[x] ELSE recorded[x]
    BY <1>0, <1>11 DEF Record, TakeUnchanged, diskVars, dirtyVars
  <2>2. CASE rows[x] = None
    BY <2>1, <2>2, RowStays, ReadStays
  <2>3. CASE rows[x] # None
    <3>1. recorded'[x] = disk'[x] /\ disk'[x] = disk[x] /\ staging'[x] \in {None, disk[x]}
      BY <2>1, <2>3 DEF Outdated
    <3>2. disk'[x] \in n..disk'[x]
      BY <3>1, DiskIsNew
    <3>3. HasRow(x, n)'
      BY <3>1, <3>2 DEF HasRow, SameContent
    <3>4. drainedAs'[x] = None /\ rows'[x] = None
      BY <1>11, ReleaseWrites DEF Record, NothingStaged
    <3> QED
      BY <3>1, <3>3, <3>4, DiskIsNew DEF Safe
  <2> QED
    BY <2>2, <2>3
<1>12. CASE UNCHANGED vars
  BY <1>2, <1>12 DEF vars, Bystander
<1> QED
  BY <1>1, <1>3, <1>4, <1>5, <1>6, <1>7, <1>8, <1>9, <1>10, <1>11, <1>12
     DEF Next, WatchSteps, SweepSteps, TakeSteps

-----------------------------------------------------------------------------
\* The watcher's sweep comes to the file, and what it heard of it.
Coming(x, n) == Safe(x, n) \/ ReadBy(Watcher, x, n)
Due(x, n) == Coming(x, n) \/ x \in heard \/ heard \cap Rescans # {}

LEMMA ComingStep ==
    ASSUME DiskTypes, WorkTypes, LocksAgree, [Next]_vars, NEW x \in Files, ReadBefore(x),
           NEW n \in Nat, n <= disk[x], x \notin slipped', Coming(x, n)
    PROVE  Coming(x, n)'
<1>1. Watcher \in Sweepers /\ x \in Scope(Watcher)
  BY NamesDiffer DEF Scope
<1> QED
  BY <1>1, SafeStep, ReadStep DEF Coming

\* run_watcher and on_batch: what was heard is dirty, or its walk has begun.
LEMMA DueHandled ==
    ASSUME DiskTypes, WorkTypes, LocksAgree, [Next]_vars, NEW x \in Files, ReadBefore(x),
           NEW n \in Nat, n <= disk[x], x \notin slipped', Due(x, n), OnBatch
    PROVE  Coming(x, n)'
<1>1. CASE Coming(x, n)
  BY <1>1, ComingStep
<1>2. CASE heard \cap Rescans # {}
  <2>1. sweep' = [sweep EXCEPT ![Watcher] = Walk(Watcher)] /\ UNCHANGED recorded
    BY <1>2 DEF OnBatch, takeVars
  <2>2. sweep'[Watcher].on /\ sweep'[Watcher].latest = recorded /\ sweep'[Watcher].left = Files
    BY <2>1, WalkWrites, NamesDiffer DEF Scope
  <2> QED
    BY <2>1, <2>2 DEF Coming, ReadBy
<1>3. CASE x \in heard
  <2>1. x \in dirty' /\ staging' = staging /\ (x \in dirty => staging[x] \in {None, disk[x]})
    BY <1>3 DEF OnBatch, MarkDirty, StaleHeard
  <2>2. staging'[x] \in {None, disk[x]}
    BY <2>1 DEF LocksAgree
  <2> QED
    BY <2>1, <2>2, DiskIsNew DEF Coming, Safe
<1> QED
  BY <1>1, <1>2, <1>3 DEF Due

\* What the subscription holds grows until it is handled.
LEMMA HeardGrows ==
    ASSUME [Next]_vars, ~OnBatch, NEW x \in Files
    PROVE  x \in heard \/ heard \cap Rescans # {} => x \in heard' \/ heard' \cap Rescans # {}
<1>1. CASE WatchSteps
  BY <1>1 DEF WatchSteps, WriteFile, DeleteFile, ChangeFile, Deliver, WatchRescan
<1>2. CASE SweepSteps
  BY <1>2 DEF SweepSteps, BootSweep, SweepFile, SweepUnread, SweepEnd, SweepFails, Resume, watchVars
<1>3. CASE TakeSteps
  BY <1>3 DEF TakeSteps, TakeAsked, MarkerBack, MarkerLate, LookUncovered, Drain, StatFails,
              Capture, Record, RecordFails, TakeUnchanged
<1>4. CASE UNCHANGED vars
  BY <1>4 DEF vars
<1> QED
  BY <1>1, <1>2, <1>3, <1>4 DEF Next

LEMMA DueStep ==
    ASSUME DiskTypes, WorkTypes, LocksAgree, [Next]_vars, NEW x \in Files, ReadBefore(x),
           NEW n \in Nat, n <= disk[x], x \notin slipped', Due(x, n)
    PROVE  Due(x, n)'
<1>1. CASE OnBatch
  BY <1>1, DueHandled DEF Due
<1>2. CASE ~OnBatch
  BY <1>2, ComingStep, HeardGrows DEF Due
<1> QED
  BY <1>1, <1>2

\* What the OS reports of the file before the marker.
Before(x, i) == \E j \in DOMAIN osq : j < i /\ osq[j] = x

\* Of a file the watch covers, what was there when the marker was sent comes
\* before it, wherever the marker is; at what it does not cover the take looks.
Marked(t, x) ==
    /\ pc[t] = "marker" /\ x \notin Uncovered =>
         /\ t \in back => Safe(x, since[t][x])
         /\ t \in answers => Coming(x, since[t][x])
         /\ t \in heard => Due(x, since[t][x])
         /\ \A i \in DOMAIN osq : osq[i] = t => Due(x, since[t][x]) \/ Before(x, i)
    /\ t \in timely =>
         \/ Safe(x, since[t][x])
         \/ pc[t] = "sweeping" /\ x \in Uncovered /\ ReadBy(t, x, since[t][x])

\* What was known of the file at the marker's place is known still.
LEMMA KnownStep ==
    ASSUME DiskTypes, WorkTypes, LocksAgree, SinceTypes, [Next]_vars, NEW t \in Takes,
           NEW x \in Files, ReadBefore(x), x \notin slipped', NEW n, n = since[t][x]
    PROVE  /\ n \in Nat /\ n <= disk[x]
           /\ Safe(x, n) => Safe(x, n)'
           /\ Coming(x, n) => Coming(x, n)'
           /\ Due(x, n) => Due(x, n)'
           /\ x \in Uncovered /\ ReadBy(t, x, n) => ReadBy(t, x, n)' \/ Safe(x, n)'
<1>1. n \in Nat /\ n <= disk[x]
  BY Numbered DEF SinceTypes, ReadBefore
<1>2. /\ Safe(x, n) => Safe(x, n)'
      /\ Coming(x, n) => Coming(x, n)'
      /\ Due(x, n) => Due(x, n)'
  BY <1>1, SafeStep, ComingStep, DueStep
<1>3. x \in Uncovered /\ ReadBy(t, x, n) => ReadBy(t, x, n)' \/ Safe(x, n)'
  BY <1>1, ReadStep, NamesDiffer DEF Scope
<1> QED
  BY <1>1, <1>2, <1>3

\* A step of another take, or one that leaves the markers where they are.
LEMMA MarkedStays ==
    ASSUME DiskTypes, WorkTypes, LocksAgree, SinceTypes, [Next]_vars, NEW t \in Takes,
           NEW x \in Files, ReadBefore(x), x \notin slipped', Marked(t, x),
           since'[t] = since[t], pc'[t] = pc[t],
           t \in back' => t \in back, t \in answers' => t \in answers,
           t \in heard' => t \in heard, t \in timely' => t \in timely,
           \A i \in DOMAIN osq' : osq'[i] = t =>
                i \in DOMAIN osq /\ osq[i] = t /\ (Before(x, i) => Before(x, i)')
    PROVE  Marked(t, x)'
<1>1. PICK n : n = since[t][x]
  OBVIOUS
<1>2. since'[t][x] = n
  BY <1>1
<1>3. /\ Safe(x, n) => Safe(x, n)'
      /\ Coming(x, n) => Coming(x, n)'
      /\ Due(x, n) => Due(x, n)'
      /\ x \in Uncovered /\ ReadBy(t, x, n) => ReadBy(t, x, n)' \/ Safe(x, n)'
  BY <1>1, KnownStep
<1> QED
  BY <1>1, <1>2, <1>3 DEF Marked

LEMMA QueueFollows ==
    ASSUME DiskTypes, NEW t, NEW x, NEW y \in Files \cup Takes, y # t,
           osq' = osq \/ osq' = Append(osq, y)
    PROVE  \A i \in DOMAIN osq' : osq'[i] = t =>
                i \in DOMAIN osq /\ osq[i] = t /\ (Before(x, i) => Before(x, i)')
<1>1. CASE osq' = osq
  BY <1>1 DEF Before
<1>2. CASE osq' = Append(osq, y)
  <2>1. /\ osq \in Seq(Files \cup Takes) /\ Len(osq) \in Nat /\ DOMAIN osq = 1..Len(osq)
        /\ DOMAIN osq' = 1..(Len(osq) + 1) /\ osq'[Len(osq) + 1] = y
        /\ \A i \in 1..Len(osq) : osq'[i] = osq[i]
    BY <1>2 DEF DiskTypes
  <2> QED
    BY <2>1 DEF Before
<1> QED
  BY <1>1, <1>2

LEMMA MarkedDelivered ==
    ASSUME DiskTypes, WorkTypes, LocksAgree, SinceTypes, [Next]_vars, NEW t \in Takes,
           NEW x \in Files, ReadBefore(x), x \notin slipped', Marked(t, x), Deliver
    PROVE  Marked(t, x)'
<1>1. PICK n : n = since[t][x]
  OBVIOUS
<1>2. UNCHANGED <<since, pc, back, answers, timely>>
  BY DEF Deliver, takeVars
<1>3. /\ Safe(x, n) => Safe(x, n)'
      /\ Coming(x, n) => Coming(x, n)'
      /\ Due(x, n) => Due(x, n)'
      /\ x \in Uncovered /\ ReadBy(t, x, n) => ReadBy(t, x, n)' \/ Safe(x, n)'
  BY <1>1, KnownStep
<1>4. /\ osq # <<>> /\ osq' = Tail(osq) /\ osq \in Seq(Files \cup Takes)
      /\ heard \subseteq heard' /\ heard' \subseteq heard \cup {Head(osq)}
  BY DEF Deliver, DiskTypes
<1>5. /\ 1 \in DOMAIN osq /\ Head(osq) = osq[1] /\ DOMAIN osq \subseteq Nat \ {0}
      /\ \A i \in DOMAIN osq' : i + 1 \in DOMAIN osq /\ osq'[i] = osq[i + 1]
      /\ \A i \in DOMAIN osq : i # 1 => i - 1 \in DOMAIN osq' /\ osq'[i - 1] = osq[i]
  <2>1. Len(osq) \in Nat /\ DOMAIN osq = 1..Len(osq) /\ Len(osq) # 0 /\ Head(osq) = osq[1]
    BY <1>4
  <2>2. DOMAIN osq' = 1..(Len(osq) - 1) /\ \A i \in 1..(Len(osq) - 1) : osq'[i] = osq[i + 1]
    BY <1>4, <2>1
  <2>3. \A i \in DOMAIN osq : i # 1 => i - 1 \in DOMAIN osq' /\ osq'[i - 1] = osq[i]
    BY <2>1, <2>2
  <2> QED
    BY <2>1, <2>2, <2>3
<1>6. osq[1] = x => x \in heard' \/ heard' \cap Rescans # {}
  BY <1>5 DEF Deliver, Absorbed, Rescans
<1>7. ASSUME pc[t] = "marker", x \notin Uncovered, t \in heard'
      PROVE  Due(x, n)'
  <2>1. CASE t \in heard
    BY <1>1, <1>3, <1>7, <2>1 DEF Marked
  <2>2. CASE osq[1] = t
    <3>1. ~Before(x, 1)
      BY <1>5 DEF Before
    <3> QED
      BY <1>1, <1>3, <1>5, <1>7, <2>2, <3>1 DEF Marked
  <2> QED
    BY <1>4, <1>5, <1>7, <2>1, <2>2
<1>8. ASSUME pc[t] = "marker", x \notin Uncovered, NEW i \in DOMAIN osq', osq'[i] = t
      PROVE  Due(x, n)' \/ Before(x, i)'
  <2>1. Due(x, n) \/ Before(x, i + 1)
    BY <1>1, <1>5, <1>8 DEF Marked
  <2>2. ASSUME NEW j \in DOMAIN osq, j < i + 1, osq[j] = x
        PROVE  Due(x, n)' \/ Before(x, i)'
    <3>1. CASE j = 1
      BY <1>6, <2>2, <3>1 DEF Due
    <3>2. CASE j # 1
      <4>1. j - 1 \in DOMAIN osq' /\ osq'[j - 1] = x
        BY <1>5, <2>2, <3>2
      <4>2. j - 1 < i
        <5>1. DOMAIN osq' \subseteq Nat
          BY <1>4
        <5> QED
          BY <1>5, <2>2, <5>1
      <4> QED
        BY <4>1, <4>2 DEF Before
    <3> QED
      BY <3>1, <3>2
  <2> QED
    BY <1>3, <2>1, <2>2 DEF Before
<1> QED
  BY <1>1, <1>2, <1>3, <1>7, <1>8 DEF Marked

LEMMA MarkedRescanned ==
    ASSUME DiskTypes, WorkTypes, LocksAgree, SinceTypes, [Next]_vars, NEW t \in Takes,
           NEW x \in Files, ReadBefore(x), x \notin slipped', Marked(t, x),
           NEW dir \in Rescans, NEW lost \in BOOLEAN, WatchRescan(dir, lost)
    PROVE  Marked(t, x)'
<1>1. PICK n : n = since[t][x]
  OBVIOUS
<1>2. UNCHANGED <<since, pc, back, answers, timely>> /\ heard' \cap Rescans # {}
  BY DEF WatchRescan, takeVars
<1>3. /\ Safe(x, n) => Safe(x, n)'
      /\ Coming(x, n) => Coming(x, n)'
      /\ x \in Uncovered /\ ReadBy(t, x, n) => ReadBy(t, x, n)' \/ Safe(x, n)'
  BY <1>1, KnownStep
<1>4. Due(x, n)'
  BY <1>2 DEF Due
<1> QED
  BY <1>1, <1>2, <1>3, <1>4 DEF Marked

\* on_batch: the markers are answered after what was heard, or after its walk.
LEMMA MarkedHandled ==
    ASSUME DiskTypes, WorkTypes, LocksAgree, SinceTypes, MarkersAgree, [Next]_vars,
           NEW t \in Takes, NEW x \in Files, ReadBefore(x), x \notin slipped', Marked(t, x),
           OnBatch
    PROVE  Marked(t, x)'
<1>1. PICK n : n = since[t][x]
  OBVIOUS
<1>2. /\ UNCHANGED <<since, pc, timely, osq>> /\ heard' = {}
      /\ t \in back' => t \in back \/ (t \in heard /\ heard \cap Rescans = {})
      /\ t \in answers' => t \in heard
  BY DEF OnBatch, takeVars, Waiting, MarkersAgree
<1>3. /\ n \in Nat /\ n <= disk[x]
      /\ Safe(x, n) => Safe(x, n)'
      /\ Due(x, n) => Due(x, n)'
      /\ x \in Uncovered /\ ReadBy(t, x, n) => ReadBy(t, x, n)' \/ Safe(x, n)'
  BY <1>1, KnownStep
<1>4. Due(x, n) => Coming(x, n)'
  BY <1>3, DueHandled
<1>5. heard \cap Rescans = {} => ~sweep'[Watcher].on
  BY DEF OnBatch
<1>6. heard \cap Rescans = {} => (Coming(x, n)' => Safe(x, n)')
  BY <1>5 DEF Coming, ReadBy
<1>7. \A i : Before(x, i) => Before(x, i)'
  BY <1>2 DEF Before
<1> QED
  BY <1>1, <1>2, <1>3, <1>4, <1>6, <1>7 DEF Marked

LEMMA MarkedSwept ==
    ASSUME DiskTypes, WorkTypes, LocksAgree, SinceTypes, [Next]_vars, NEW t \in Takes,
           NEW x \in Files, ReadBefore(x), x \notin slipped', Marked(t, x),
           NEW s \in Sweepers, SweepEnd(s) \/ SweepFails(s)
    PROVE  Marked(t, x)'
<1>1. PICK n : n = since[t][x]
  OBVIOUS
<1>2. UNCHANGED <<since, timely, osq, heard>> /\ Resume(s)
  BY DEF SweepEnd, SweepFails, Resume
<1>3. /\ Safe(x, n) => Safe(x, n)'
      /\ Coming(x, n) => Coming(x, n)'
      /\ Due(x, n) => Due(x, n)'
      /\ x \in Uncovered /\ ReadBy(t, x, n) => ReadBy(t, x, n)' \/ Safe(x, n)'
  BY <1>1, KnownStep
<1>4. ~sweep'[s].on
  BY EndWrites
<1>5. s # t => pc'[t] = pc[t]
  BY EndWrites DEF WorkTypes
<1>6. s = t => pc'[t] = "lock"
  BY EndWrites DEF WorkTypes
<1>7. /\ t \in answers' => t \in answers
      /\ t \in back' => t \in back \/ (t \in answers /\ s = Watcher)
  BY <1>2 DEF Resume, Waiting
<1>8. s = Watcher => (Coming(x, n)' => Safe(x, n)')
  BY <1>4 DEF Coming, ReadBy
<1>9. s = t => ~ReadBy(t, x, n)'
  BY <1>4 DEF ReadBy
<1>10. \A i : Before(x, i) => Before(x, i)'
  BY <1>2 DEF Before
<1>11. CASE s = t
  BY <1>1, <1>2, <1>3, <1>6, <1>9, <1>11 DEF Marked
<1>12. CASE s # t
  BY <1>1, <1>2, <1>3, <1>5, <1>7, <1>8, <1>10, <1>12 DEF Marked
<1> QED
  BY <1>11, <1>12

\* An edit that is accounted for when a take is asked for comes before its marker.
LEMMA AccountedDue ==
    ASSUME DiskTypes, NEW x \in Files, EditAt(x), NEW n \in Nat, n = disk[x]
    PROVE  Due(x, n) \/ InQueue(x)
<1>1. CASE OnItsWay(x)
  <2>1. InDirty(x) => Safe(x, n)
    BY DiskIsNew DEF InDirty, Safe
  <2>2. SweptBy(x, Watcher) => ReadBy(Watcher, x, n)
    BY DiskIsNew DEF SweptBy, ReadBy
  <2> QED
    BY <1>1, <2>1, <2>2 DEF OnItsWay, Due, Coming
<1>2. CASE ~OnItsWay(x)
  <2>1. x \notin Outdated /\ (SameContent(x, disk[x], recorded[x]) \/ InTake(x))
    BY <1>2 DEF EditAt
  <2>2. SameContent(x, disk[x], recorded[x]) => Safe(x, n)
    BY <2>1, DiskIsNew, SafeNow
  <2>3. InTake(x) => Safe(x, n)
    BY <2>1, DiskIsNew DEF Outdated, InTake, Safe
  <2> QED
    BY <2>1, <2>2, <2>3 DEF Due, Coming
<1> QED
  BY <1>1, <1>2

LEMMA MarkedAsked ==
    ASSUME DiskTypes, WorkTypes, LocksAgree, SinceTypes, MarkersAgree, EditsInv, [Next]_vars,
           NEW t \in Takes, NEW x \in Files, ReadBefore(x), x \notin slipped', Marked(t, x),
           TakeAsked(t)
    PROVE  Marked(t, x)'
<1>1. PICK n \in Nat : n = disk[x]
  BY Numbered DEF DiskTypes
<1>2. /\ since'[t][x] = n /\ osq' = Append(osq, t)
      /\ UNCHANGED <<disk, heard, answers, back, timely, slipped>>
  BY <1>1 DEF TakeAsked, TakeUnchanged, SinceTypes, diskVars
<1>3. pc[t] = "new"
  BY DEF TakeAsked, At
<1>4. t \notin heard \cup answers \cup back /\ t \notin timely /\ ~InQueue(t)
  BY <1>3 DEF MarkersAgree
<1>5. ASSUME x \notin Uncovered, NEW i \in DOMAIN osq', osq'[i] = t
      PROVE  Due(x, n)' \/ Before(x, i)'
  <2>1. /\ osq \in Seq(Files \cup Takes) /\ Len(osq) \in Nat /\ DOMAIN osq = 1..Len(osq)
        /\ DOMAIN osq' = 1..(Len(osq) + 1)
        /\ \A j \in 1..Len(osq) : osq'[j] = osq[j]
    BY <1>2 DEF DiskTypes
  <2>2. i = Len(osq) + 1
    BY <1>4, <1>5, <2>1 DEF InQueue
  <2>3. Due(x, n) \/ InQueue(x)
    BY <1>1, <1>2, <1>5, AccountedDue DEF EditsInv
  <2>4. Due(x, n) => Due(x, n)'
    BY <1>1, DueStep
  <2>5. InQueue(x) => Before(x, i)'
    BY <2>1, <2>2 DEF InQueue, Before
  <2> QED
    BY <2>3, <2>4, <2>5
<1> QED
  BY <1>2, <1>4, <1>5 DEF Marked

\* wait_for_marker and the rest of predrain.
LEMMA MarkedLooks ==
    ASSUME DiskTypes, WorkTypes, LocksAgree, SinceTypes, MarkersAgree, [Next]_vars,
           NEW t \in Takes, NEW x \in Files, ReadBefore(x), x \notin slipped', Marked(t, x),
           MarkerBack(t) \/ MarkerLate(t)
    PROVE  Marked(t, x)'
<1>1. PICK n : n = since[t][x]
  OBVIOUS
<1>2. LookUncovered(t) /\ UNCHANGED <<since, recorded>>
  BY DEF MarkerBack, MarkerLate, LookUncovered
<1>3. pc[t] = "marker" /\ pc'[t] \in {"lock", "sweeping"}
  BY <1>2, LookWrites
<1>4. CASE MarkerLate(t)
  <2>1. t \notin timely'
    BY <1>3, <1>4 DEF MarkerLate, MarkersAgree
  <2> QED
    BY <1>3, <2>1 DEF Marked
<1>5. CASE MarkerBack(t) /\ x \notin Uncovered
  <2>1. Safe(x, n)'
    BY <1>1, <1>3, <1>5, KnownStep DEF MarkerBack, Marked
  <2> QED
    BY <1>1, <1>2, <1>3, <2>1 DEF Marked
<1>6. CASE MarkerBack(t) /\ x \in Uncovered
  <2>1. pc'[t] = "sweeping" /\ sweep' = [sweep EXCEPT ![t] = Walk(t)]
    BY <1>2, <1>6 DEF LookUncovered, At, WorkTypes
  <2>2. sweep'[t].on /\ sweep'[t].latest = recorded /\ sweep'[t].left = Uncovered
    BY <2>1, WalkWrites, NamesDiffer DEF Scope
  <2>3. ReadBy(t, x, n)'
    BY <1>2, <1>6, <2>2 DEF ReadBy
  <2> QED
    BY <1>1, <1>2, <1>3, <1>6, <2>1, <2>3 DEF Marked
<1> QED
  BY <1>4, <1>5, <1>6

\* A step that is another take's.
LEMMA MarkedOther ==
    ASSUME DiskTypes, WorkTypes, LocksAgree, SinceTypes, [Next]_vars, NEW t \in Takes,
           NEW x \in Files, ReadBefore(x), x \notin slipped', Marked(t, x),
           NEW u \in Takes, u # t,
           \/ TakeAsked(u) \/ MarkerBack(u) \/ MarkerLate(u) \/ Drain(u)
           \/ StatFails(u) \/ Capture(u) \/ Record(u) \/ RecordFails(u)
    PROVE  Marked(t, x)'
<1>1. pc'[t] = pc[t]
  BY DEF TakeAsked, MarkerBack, MarkerLate, LookUncovered, Drain, StatFails, Capture, Record,
         RecordFails, At, WorkTypes
<1>2. since'[t] = since[t]
  BY DEF TakeAsked, MarkerBack, MarkerLate, LookUncovered, Drain, StatFails, Capture, Record,
         RecordFails, Release, SinceTypes
<1>3. /\ back' \subseteq back /\ UNCHANGED <<answers, heard>>
      /\ t \in timely' => t \in timely
  BY DEF TakeAsked, MarkerBack, MarkerLate, LookUncovered, Drain, StatFails, Capture, Record,
         RecordFails, Release, TakeUnchanged
<1>4. osq' = osq \/ osq' = Append(osq, u)
  BY DEF TakeAsked, MarkerBack, MarkerLate, LookUncovered, Drain, StatFails, Capture, Record,
         RecordFails
<1>5. \A i \in DOMAIN osq' : osq'[i] = t =>
            i \in DOMAIN osq /\ osq[i] = t /\ (Before(x, i) => Before(x, i)')
  BY <1>4, QueueFollows
<1> QED
  BY <1>1, <1>2, <1>3, <1>5, MarkedStays

\* Its own steps under the lock.
LEMMA MarkedLocked ==
    ASSUME DiskTypes, WorkTypes, LocksAgree, SinceTypes, [Next]_vars, NEW t \in Takes,
           NEW x \in Files, ReadBefore(x), x \notin slipped', Marked(t, x),
           Drain(t) \/ Capture(t) \/ StatFails(t) \/ Record(t) \/ RecordFails(t)
    PROVE  Marked(t, x)'
<1>1. PICK n : n = since[t][x]
  OBVIOUS
<1>2. pc[t] # "sweeping" /\ pc'[t] # "marker"
  BY DEF Drain, Capture, StatFails, Record, RecordFails, At, WorkTypes
<1>3. CASE Drain(t) \/ Capture(t)
  <2>1. UNCHANGED <<since, timely>>
    BY <1>3 DEF Drain, Capture
  <2>2. Safe(x, n) => Safe(x, n)'
    BY <1>1, KnownStep
  <2> QED
    BY <1>1, <1>2, <2>1, <2>2 DEF Marked
<1>4. CASE StatFails(t) \/ Record(t) \/ RecordFails(t)
  <2>1. t \notin timely'
    BY <1>4 DEF StatFails, Record, RecordFails, Release
  <2> QED
    BY <1>2, <2>1 DEF Marked
<1> QED
  BY <1>3, <1>4

LEMMA MarkedStep ==
    ASSUME DiskTypes, WorkTypes, LocksAgree, SinceTypes, MarkersAgree, EditsInv, [Next]_vars,
           NEW t \in Takes, NEW x \in Files, ReadBefore(x), x \notin slipped', Marked(t, x)
    PROVE  Marked(t, x)'
<1>1. ASSUME NEW y \in Files, WriteFile(y) \/ DeleteFile(y) PROVE Marked(t, x)'
  <2>1. y # t
    BY MarkersNamed
  <2>2. /\ osq' = osq \/ osq' = Append(osq, y)
        /\ UNCHANGED <<heard, answers, back, pc, timely, since>>
    BY <1>1, ChangeWrites
  <2>3. \A i \in DOMAIN osq' : osq'[i] = t =>
            i \in DOMAIN osq /\ osq[i] = t /\ (Before(x, i) => Before(x, i)')
    BY <2>1, <2>2, QueueFollows
  <2> QED
    BY <2>2, <2>3, MarkedStays
<1>2. ASSUME UNCHANGED <<osq, heard, answers, back, pc, timely, since>> PROVE Marked(t, x)'
  <2>1. \A i \in DOMAIN osq' : osq'[i] = t =>
            i \in DOMAIN osq /\ osq[i] = t /\ (Before(x, i) => Before(x, i)')
    BY <1>2 DEF Before
  <2> QED
    BY <1>2, <2>1, MarkedStays
<1>3. CASE BootSweep \/ \E s \in Sweepers, y \in Files : SweepFile(s, y) \/ SweepUnread(s, y)
  <2>1. UNCHANGED watchVars /\ UNCHANGED takeVars
    BY <1>3 DEF BootSweep, SweepFile, SweepUnread
  <2> QED
    BY <1>2, <2>1 DEF watchVars, takeVars
<1>4. CASE UNCHANGED vars
  BY <1>2, <1>4 DEF vars
<1>5. CASE Deliver
  BY <1>5, MarkedDelivered
<1>6. CASE \E dir \in Rescans, lost \in BOOLEAN : WatchRescan(dir, lost)
  BY <1>6, MarkedRescanned
<1>7. CASE OnBatch
  BY <1>7, MarkedHandled
<1>8. CASE \E s \in Sweepers : SweepEnd(s) \/ SweepFails(s)
  BY <1>8, MarkedSwept
<1>9. ASSUME NEW u \in Takes,
             \/ TakeAsked(u) \/ MarkerBack(u) \/ MarkerLate(u) \/ Drain(u)
             \/ StatFails(u) \/ Capture(u) \/ Record(u) \/ RecordFails(u)
      PROVE  Marked(t, x)'
  BY <1>9, MarkedOther, MarkedAsked, MarkedLooks, MarkedLocked
<1> QED
  BY <1>1, <1>3, <1>4, <1>5, <1>6, <1>7, <1>8, <1>9
     DEF Next, WatchSteps, SweepSteps, TakeSteps

MarkedInv ==
    /\ CaptureInv /\ SinceTypes /\ MarkersAgree
    /\ \A x \in Files : ReadBefore(x)
    /\ \A t \in Takes, x \in Files \ slipped : Marked(t, x)

LEMMA MarkedInit == Init => MarkedInv
<1> SUFFICES ASSUME Init PROVE MarkedInv
  OBVIOUS
<1>1. CaptureInv
  BY CaptureInit
<1>2. SinceTypes
  BY <1>1 DEF Init, SinceTypes, CaptureInv, DiskTypes
<1>3. MarkersAgree
  BY DEF Init, MarkersAgree, InQueue
<1>4. ASSUME NEW x \in Files PROVE ReadBefore(x)
  <2>1. \A w \in Sweepers : sweep[w].found[x] = None
    BY DEF Init, Off
  <2>2. None <= 0
    BY DEF None
  <2> QED
    BY <2>1, <2>2 DEF Init, ReadBefore
<1>5. \A t \in Takes, x \in Files : Marked(t, x)
  BY DEF Init, Marked
<1> QED
  BY <1>1, <1>2, <1>3, <1>4, <1>5 DEF MarkedInv

LEMMA MarkedInductive == MarkedInv /\ [Next]_vars => MarkedInv'
<1> SUFFICES ASSUME MarkedInv, [Next]_vars PROVE MarkedInv'
  OBVIOUS
<1>1. DiskTypes /\ WorkTypes /\ LocksAgree /\ EditsInv
  BY DEF MarkedInv, CaptureInv
<1>2. CaptureInv'
  BY <1>1, DiskTypesStep, WorkTypesStep, LocksStep, EditsStep DEF CaptureInv
<1>3. SinceTypes' /\ MarkersAgree'
  BY <1>1, SinceStep, MarkersStep DEF MarkedInv
<1>4. \A x \in Files : ReadBefore(x)'
  BY <1>1, ReadsStep DEF MarkedInv
<1>5. ASSUME NEW t \in Takes, NEW x \in Files \ slipped' PROVE Marked(t, x)'
  BY <1>1, SlippedGrows, MarkedStep DEF MarkedInv
<1> QED
  BY <1>2, <1>3, <1>4, <1>5 DEF MarkedInv

\* What the take records is the row of that version, or of a later one.
LEMMA MarkedEnds ==
    ASSUME MarkedInv, NEW t \in Takes, Ends(t), NEW x \in Files \ slipped
    PROVE  SeesEdit(t, x)
<1>1. PICK n : n = since[t][x]
  OBVIOUS
<1>2. /\ pc[t] = "captured" /\ dirty' = dirty
      /\ recorded'[x] = IF rows[x] # None THEN rows[x] ELSE recorded[x]
  BY DEF Ends, Record, At, dirtyVars
<1>3. Safe(x, n) /\ \A u \in Takes : pc[u] # "drained"
  BY <1>1, <1>2 DEF MarkedInv, CaptureInv, LocksAgree, Ends, Marked
<1>4. CASE x \in dirty
  BY <1>2, <1>4 DEF SeesEdit
<1>5. CASE x \notin dirty /\ rows[x] = None
  <2>1. HasRow(x, n) /\ recorded'[x] = recorded[x]
    BY <1>2, <1>3, <1>5 DEF Safe
  <2> QED
    BY <1>1, <2>1 DEF HasRow, SeesEdit
<1>6. CASE x \notin dirty /\ rows[x] # None
  <2>1. rows[x] \in Int /\ n \in Int /\ disk[x] \in Int
    <3>1. WorkTypes /\ DiskTypes /\ SinceTypes
      BY DEF MarkedInv, CaptureInv
    <3>2. rows[x] \in Staged /\ disk[x] \in Versions /\ n \in Versions
      BY <1>1, <3>1 DEF WorkTypes, DiskTypes, SinceTypes
    <3> QED
      BY <3>2, ReadingsAreInts
  <2>2. n <= rows[x] /\ rows[x] <= disk[x]
    BY <1>3, <1>6 DEF MarkedInv, ReadBefore, Safe, NoOlder
  <2>3. rows[x] \in n..disk[x]
    BY <2>1, <2>2
  <2> QED
    BY <1>1, <1>2, <1>6, <2>3 DEF SeesEdit, SameContent
<1> QED
  BY <1>4, <1>5, <1>6

\* wait_for_marker with on_batch, enqueue_tree_diff, predrain and record: a take
\* whose marker came back in time records every edit made before it was asked
\* for, or leaves it dirty, for any number of files, takes, changes, rescans and
\* failures. The invariant follows the marker: before it in the queue, or heard
\* with it, is what the watch covers, or a walk is yet to find it; once the marker
\* is back, nothing that is staged, drained or read for the file is older than the
\* disk was then, unless the file is dirty again.
THEOREM MarkerBringsEdits == Spec => MarkedTakeSeesEdits
<1>1. MarkedInv /\ [Next]_vars =>
        [\A t \in Takes : Ends(t) => \A f \in Files \ slipped : SeesEdit(t, f)]_vars
  BY MarkedEnds
<1> QED
  BY MarkedInit, MarkedInductive, <1>1, PTL DEF Spec, MarkedTakeSeesEdits
-----------------------------------------------------------------------------

-----------------------------------------------------------------------------
(***************************************************************************)
(* The blobs behind the rows (BlobStore): a row whose capture met no       *)
(* cleanup keeps its bytes.                                                *)
(***************************************************************************)

Rows == [path : Paths \cup {""}, hash : Hashes \cup {""}]

BlobsTypeOK ==
    /\ capture \in [Captures -> [pc : {"idle", "write", "rename", "record"},
                                 path : Paths \cup {""}, hash : Hashes \cup {""},
                                 quiet : BOOLEAN]]
    /\ history \in Seq(Rows)
    /\ aged \in Nat
    /\ \A i \in quiet : i \in DOMAIN history

\* A capture that has met no cleanup has none under way, and the blob it is
\* about to name is in place; a cleanup under way keeps what the rows that met
\* none refer to.
CleanupSparesQuiet ==
    /\ \A c \in Captures :
        capture[c].pc # "idle" /\ capture[c].quiet =>
            /\ ~cleanup.on
            /\ capture[c].pc = "record" => capture[c].hash \in blobs
    /\ cleanup.on => \A i \in quiet \cap Retained : history[i].hash \in cleanup.keep

BlobsInv == BlobsTypeOK /\ CleanupSparesQuiet /\ QuietRowsReadable

LEMMA BlobsInvInit == BlobsInit => BlobsInv
<1> SUFFICES ASSUME BlobsInit PROVE BlobsInv
  OBVIOUS
<1>1. BlobsTypeOK
  <2>1. capture \in [Captures -> [pc : {"idle", "write", "rename", "record"},
                                 path : Paths \cup {""}, hash : Hashes \cup {""},
                                 quiet : BOOLEAN]]
    BY DEF BlobsInit, NoCapture
  <2>2. history \in Seq(Rows) /\ aged \in Nat /\ \A i \in quiet : i \in DOMAIN history
    BY DEF BlobsInit
  <2> QED
    BY <2>1, <2>2 DEF BlobsTypeOK
<1>2. CleanupSparesQuiet /\ QuietRowsReadable
  BY DEF BlobsInit, CleanupSparesQuiet, QuietRowsReadable, NoCapture, NoCleanup
<1> QED
  BY <1>1, <1>2 DEF BlobsInv

\* What is retained is a matter of the rows and their age alone.
LEMMA RetainedUnchanged == UNCHANGED <<history, aged>> => UNCHANGED Retained
BY DEF Retained, Newest

\* A new row can only end what an older one is retained for.
LEMMA RetainedShrinks ==
    ASSUME NEW T, history \in Seq(T), NEW row \in T,
           history' = Append(history, row), UNCHANGED aged
    PROVE  /\ DOMAIN history' = 1..(Len(history) + 1)
           /\ \A i \in DOMAIN history : history'[i] = history[i] /\ (i \in Retained' => i \in Retained)
           /\ history'[Len(history) + 1] = row
<1>1. /\ DOMAIN history' = 1..(Len(history) + 1)
      /\ \A i \in DOMAIN history : history'[i] = history[i]
      /\ history'[Len(history) + 1] = row
      /\ DOMAIN history \subseteq DOMAIN history'
  OBVIOUS
<1>2. ASSUME NEW i \in DOMAIN history, i \in Retained'
      PROVE  i \in Retained
  BY <1>1, <1>2 DEF Retained, Newest
<1> QED
  BY <1>1, <1>2

LEMMA BlobsInvInductive == BlobsInv /\ [BlobsNext]_blobVars => BlobsInv'
<1> SUFFICES ASSUME BlobsTypeOK, CleanupSparesQuiet, QuietRowsReadable, [BlobsNext]_blobVars
             PROVE  BlobsTypeOK' /\ CleanupSparesQuiet' /\ QuietRowsReadable'
  BY DEF BlobsInv
<1>a. history \in Seq(Rows) /\ aged \in Nat /\ \A i \in quiet : i \in DOMAIN history
  BY DEF BlobsTypeOK
<1>b. Len(history) \in Nat /\ DOMAIN history = 1..Len(history)
  BY <1>a
<1>0. /\ history \in Seq(Rows) /\ Len(history) \in Nat /\ DOMAIN history = 1..Len(history)
      /\ aged \in Nat
      /\ \A i \in quiet : i \in 1..Len(history)
  BY <1>a, <1>b
<1>1. ASSUME NEW c \in Captures, NEW p \in Paths, NEW h \in Hashes, Reads(c, p, h)
      PROVE  BlobsTypeOK' /\ CleanupSparesQuiet' /\ QuietRowsReadable'
  <2>1. /\ capture' = [capture EXCEPT ![c] =
                    [pc |-> "write", path |-> p, hash |-> h, quiet |-> ~cleanup.on]]
        /\ UNCHANGED <<blobs, history, aged, cleanup, quiet, Retained>>
    BY <1>1, RetainedUnchanged DEF Reads
  <2>2. BlobsTypeOK'
    BY <2>1 DEF BlobsTypeOK
  <2>3. CleanupSparesQuiet'
    BY <2>1 DEF BlobsTypeOK, CleanupSparesQuiet
  <2> QED
    BY <2>1, <2>2, <2>3 DEF QuietRowsReadable
<1>2. ASSUME NEW c \in Captures, WriteHashed(c)
      PROVE  BlobsTypeOK' /\ CleanupSparesQuiet' /\ QuietRowsReadable'
  <2>1. /\ CaptureAt(c, "write")
        /\ UNCHANGED <<blobs, history, aged, cleanup, quiet, Retained>>
    BY <1>2, RetainedUnchanged DEF WriteHashed, CaptureGoes
  <2>2. PICK to \in {"rename", "record"} :
           /\ to = "record" => capture[c].hash \in blobs
           /\ capture' = [capture EXCEPT ![c].pc = to]
    BY <1>2 DEF WriteHashed, CaptureGoes
  <2>3. BlobsTypeOK'
    BY <2>1, <2>2 DEF BlobsTypeOK
  <2>4. CleanupSparesQuiet'
    BY <2>1, <2>2 DEF BlobsTypeOK, CleanupSparesQuiet, CaptureAt
  <2> QED
    BY <2>1, <2>3, <2>4 DEF QuietRowsReadable
<1>3. ASSUME NEW c \in Captures, RenameTemp(c)
      PROVE  BlobsTypeOK' /\ CleanupSparesQuiet' /\ QuietRowsReadable'
  <2>1. /\ \/ /\ blobs' = blobs \cup {capture[c].hash}
              /\ capture' = [capture EXCEPT ![c].pc = "record"]
           \/ capture' = [capture EXCEPT ![c] = NoCapture] /\ UNCHANGED blobs
        /\ CaptureAt(c, "rename")
        /\ UNCHANGED <<history, aged, cleanup, quiet, Retained>>
    BY <1>3, RetainedUnchanged DEF RenameTemp, CaptureGoes, CaptureEnds
  <2>2. CASE capture' = [capture EXCEPT ![c] = NoCapture] /\ UNCHANGED blobs
    BY <2>1, <2>2 DEF BlobsTypeOK, CleanupSparesQuiet, QuietRowsReadable, NoCapture
  <2>3. CASE /\ blobs' = blobs \cup {capture[c].hash}
             /\ capture' = [capture EXCEPT ![c].pc = "record"]
    <3>1. BlobsTypeOK'
      <4>1. UNCHANGED <<history, aged, quiet>>
        BY <2>1
      <4> QED
        BY <2>3, <4>1 DEF BlobsTypeOK
    <3>2. CleanupSparesQuiet'
      BY <2>1, <2>3 DEF BlobsTypeOK, CleanupSparesQuiet, CaptureAt
    <3> QED
      BY <2>1, <2>3, <3>1, <3>2 DEF QuietRowsReadable
  <2> QED
    BY <2>1, <2>2, <2>3
<1>4. ASSUME NEW c \in Captures, RecordRow(c)
      PROVE  BlobsTypeOK' /\ CleanupSparesQuiet' /\ QuietRowsReadable'
  <2> DEFINE row == [path |-> capture[c].path, hash |-> capture[c].hash]
  <2>1. row \in Rows
    BY DEF Rows, BlobsTypeOK
  <2>2. /\ history' = Append(history, row)
        /\ UNCHANGED <<aged, blobs, cleanup>>
        /\ capture' = [capture EXCEPT ![c] = NoCapture]
        /\ capture[c].pc = "record"
        /\ quiet' = IF capture[c].quiet THEN quiet \cup {Len(history) + 1} ELSE quiet
    BY <1>4 DEF RecordRow, CaptureAt, CaptureEnds
  <2>3. row.hash = capture[c].hash
    OBVIOUS
  <2> HIDE DEF row
  <2>4. /\ DOMAIN history' = 1..(Len(history) + 1)
        /\ \A i \in DOMAIN history : history'[i] = history[i] /\ (i \in Retained' => i \in Retained)
        /\ history'[Len(history) + 1] = row
    BY <1>0, <2>1, <2>2, RetainedShrinks
  <2>5. capture[c].quiet => ~cleanup.on /\ row.hash \in blobs
    BY <2>2, <2>3 DEF CleanupSparesQuiet
  <2>6. BlobsTypeOK'
    <3>1. history' \in Seq(Rows) /\ Len(history') = Len(history) + 1
      BY <1>0, <2>1, <2>2
    <3>2. \A i \in quiet' : i \in DOMAIN history'
      BY <1>0, <2>2, <2>4
    <3>3. capture' \in [Captures -> [pc : {"idle", "write", "rename", "record"},
                                 path : Paths \cup {""}, hash : Hashes \cup {""},
                                 quiet : BOOLEAN]]
      BY <2>2 DEF BlobsTypeOK, NoCapture
    <3> QED
      BY <1>0, <2>2, <3>1, <3>2, <3>3 DEF BlobsTypeOK
  <2>7. CleanupSparesQuiet'
    <3>1. ASSUME NEW d \in Captures, capture'[d].pc # "idle" /\ capture'[d].quiet
          PROVE  ~cleanup.on /\ (capture'[d].pc = "record" => capture'[d].hash \in blobs)
      BY <2>2, <3>1 DEF BlobsTypeOK, CleanupSparesQuiet, NoCapture
    <3>2. ASSUME cleanup.on, NEW i \in quiet' \cap Retained'
          PROVE  history'[i].hash \in cleanup.keep
      BY <1>0, <2>2, <2>4, <2>5, <3>2 DEF CleanupSparesQuiet
    <3> QED
      BY <2>2, <3>1, <3>2 DEF CleanupSparesQuiet
  <2>8. QuietRowsReadable'
    BY <1>0, <2>2, <2>4, <2>5 DEF QuietRowsReadable
  <2> QED
    BY <2>6, <2>7, <2>8
<1>5. ASSUME NEW c \in Captures, GcTemp(c)
      PROVE  BlobsTypeOK' /\ CleanupSparesQuiet' /\ QuietRowsReadable'
  BY <1>5, RetainedUnchanged DEF GcTemp, BlobsTypeOK, CleanupSparesQuiet, QuietRowsReadable
<1>6. CASE Ages
  <2>1. aged' = aged + 1 /\ UNCHANGED <<blobs, capture, history, cleanup, quiet>>
    BY <1>6 DEF Ages
  <2>2. \A i \in DOMAIN history : Newest(i)' <=> Newest(i)
    BY <2>1 DEF Newest
  <2>3. Retained' \subseteq Retained
    BY <1>0, <2>1, <2>2 DEF Retained
  <2>4. BlobsTypeOK'
    <3>1. aged' \in Nat
      BY <1>0, <2>1
    <3> QED
      BY <2>1, <3>1, Zenon DEF BlobsTypeOK
  <2> QED
    BY <2>1, <2>3, <2>4 DEF CleanupSparesQuiet, QuietRowsReadable
<1>7. CASE CleanupReads
  <2>1. \A i \in Retained : history[i].hash \in RetainedBlobHashes
    BY DEF RetainedBlobHashes
  <2>2. /\ cleanup' = [on |-> TRUE, keep |-> RetainedBlobHashes]
        /\ capture' = [c \in Captures |-> [capture[c] EXCEPT !.quiet = capture[c].pc = "idle"]]
        /\ UNCHANGED <<blobs, history, aged, quiet, Retained>>
    BY <1>7, RetainedUnchanged DEF CleanupReads
  <2>3. BlobsTypeOK'
    BY <2>2 DEF BlobsTypeOK
  <2>4. CleanupSparesQuiet'
    BY <2>1, <2>2 DEF CleanupSparesQuiet, BlobsTypeOK
  <2> QED
    BY <2>2, <2>3, <2>4 DEF QuietRowsReadable
<1>8. ASSUME NEW h \in Hashes, GcFile(h)
      PROVE  BlobsTypeOK' /\ CleanupSparesQuiet' /\ QuietRowsReadable'
  <2>1. /\ cleanup.on /\ h \notin cleanup.keep /\ blobs' = blobs \ {h}
        /\ UNCHANGED <<capture, history, aged, cleanup, quiet, Retained>>
    BY <1>8, RetainedUnchanged DEF GcFile
  <2>2. BlobsTypeOK'
    BY <2>1 DEF BlobsTypeOK
  <2>3. CleanupSparesQuiet'
    BY <2>1 DEF CleanupSparesQuiet
  <2> QED
    BY <2>1, <2>2, <2>3 DEF QuietRowsReadable, CleanupSparesQuiet
<1>9. CASE CleanupEnds
  BY <1>9, RetainedUnchanged
     DEF CleanupEnds, NoCleanup, BlobsTypeOK, CleanupSparesQuiet, QuietRowsReadable
<1>10. CASE StopsCapturing
  BY <1>10, RetainedUnchanged
     DEF StopsCapturing, NoCapture, NoCleanup, BlobsTypeOK, CleanupSparesQuiet, QuietRowsReadable
<1>11. CASE UNCHANGED blobVars
  BY <1>11, RetainedUnchanged DEF blobVars, BlobsTypeOK, CleanupSparesQuiet, QuietRowsReadable
<1> QED
  BY <1>1, <1>2, <1>3, <1>4, <1>5, <1>6, <1>7, <1>8, <1>9, <1>10, <1>11 DEF BlobsNext

\* A row whose capture met no cleanup keeps its bytes while it is retained,
\* through every later cleanup and every capture of the same content.
THEOREM QuietRowsStayReadable == BlobsSpec => []QuietRowsReadable
<1>1. BlobsInv => QuietRowsReadable
  BY DEF BlobsInv
<1> QED
  BY <1>1, BlobsInvInit, BlobsInvInductive, PTL DEF BlobsSpec
=============================================================================
