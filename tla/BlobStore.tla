------------------------------ MODULE BlobStore ------------------------------
(***************************************************************************)
(* The bytes behind the snapshots (oxplow-app/src/blob_store.rs) and the   *)
(* daily cleanup that expires them (run_cleanup in snapshot_capture.rs,    *)
(* retained_blob_hashes in oxplow-db's analytics_stores.rs).  A capture    *)
(* writes a blob and only later, in its take, the row that names it; the   *)
(* captures of every stream and the cleanup run side by side, on one       *)
(* directory, with no lock between them.                                   *)
(*                                                                         *)
(* A hash is its content.  Rows of content kept elsewhere (git, oversize,  *)
(* hashes only) have no blob and are left out.                             *)
(***************************************************************************)
EXTENDS Integers, Sequences, FiniteSets

CONSTANTS
    Paths,          \* the (stream, path)s that are captured
    Hashes,
    Captures,       \* the captures that may overlap
    MaxRows,        \* bound: rows recorded
    MaxShutdowns    \* bound: how often oxplow stops

ASSUME BlobsAssumption == MaxRows \in Nat /\ MaxShutdowns \in Nat

VARIABLES
    blobs,      \* the hashes of the files in place
    temps,      \* the captures whose temporary file is there
    capture,    \* what each capture is doing
    history,    \* file_snapshot, oldest first
    aged,       \* how many of them are older than the retention window
    cleanup,    \* the cleanup, with the set of hashes it keeps
    quiet,      \* history: the rows whose capture met no cleanup
    stopped

blobVars == <<blobs, temps, capture, history, aged, cleanup, quiet, stopped>>

NoCapture == [pc |-> "idle", path |-> "", hash |-> "", quiet |-> TRUE]
NoCleanup == [on |-> FALSE, keep |-> {}]

CaptureAt(c, pc) == capture[c].pc = pc
CaptureGoes(c, pc) == capture' = [capture EXCEPT ![c].pc = pc]
CaptureEnds(c) == capture' = [capture EXCEPT ![c] = NoCapture]

Newest(i) == \A j \in DOMAIN history : j > i => history[j].path # history[i].path

\* retained_blob_hashes: the rows within the window, and the newest of each path.
Retained == {i \in DOMAIN history : i > aged \/ Newest(i)}
\* Mutant: the window alone.
RetainedInWindow == {history[i].hash : i \in {j \in DOMAIN history : j > aged}}
RetainedBlobHashes == {history[i].hash : i \in Retained}

-----------------------------------------------------------------------------
\* A sweep or a take reads a file whose content is not the recorded one.
Reads(c, p, h) ==
    /\ CaptureAt(c, "idle") /\ Len(history) < MaxRows
    /\ \A i \in DOMAIN history : history[i].path = p /\ Newest(i) => history[i].hash # h
    /\ capture' = [capture EXCEPT ![c] =
                    [pc |-> "write", path |-> p, hash |-> h, quiet |-> ~cleanup.on]]
    /\ UNCHANGED <<blobs, temps, history, aged, cleanup, quiet, stopped>>

\* write_hashed: a blob that is there is not written again.
WriteHashed(c) ==
    /\ CaptureAt(c, "write")
    /\ IF capture[c].hash \in blobs
       THEN CaptureGoes(c, "record") /\ UNCHANGED temps
       ELSE CaptureGoes(c, "rename") /\ temps' = temps \cup {c}
    /\ UNCHANGED <<blobs, history, aged, cleanup, quiet, stopped>>

\* The rename, which fails when the cleanup has removed the temporary file: the
\* path is left out of this take.
RenameTemp(c) ==
    /\ CaptureAt(c, "rename")
    /\ IF c \in temps
       THEN /\ blobs' = blobs \cup {capture[c].hash}
            /\ CaptureGoes(c, "record")
       ELSE CaptureEnds(c) /\ UNCHANGED blobs
    /\ temps' = temps \ {c}
    /\ UNCHANGED <<history, aged, cleanup, quiet, stopped>>

\* The take's transaction inserts the row.
RecordRow(c) ==
    LET row == [path |-> capture[c].path, hash |-> capture[c].hash] IN
    /\ CaptureAt(c, "record") /\ Len(history) < MaxRows
    /\ history' = Append(history, row)
    /\ quiet' = IF capture[c].quiet THEN quiet \cup {Len(history) + 1} ELSE quiet
    /\ CaptureEnds(c)
    /\ UNCHANGED <<blobs, temps, aged, cleanup, stopped>>

\* Time passes: the oldest row in the window leaves it.
Ages ==
    /\ aged < Len(history)
    /\ aged' = aged + 1
    /\ UNCHANGED <<blobs, temps, capture, history, cleanup, quiet, stopped>>

-----------------------------------------------------------------------------
\* run_cleanup: what to keep, read once.
CleanupReads ==
    /\ ~cleanup.on
    /\ cleanup' = [on |-> TRUE, keep |-> RetainedBlobHashes]
    /\ capture' = [c \in Captures |-> [capture[c] EXCEPT !.quiet = capture[c].pc = "idle"]]
    /\ UNCHANGED <<blobs, temps, history, aged, quiet, stopped>>

\* gc, one file: whatever it does not keep goes, and so does any temporary file.
GcFile(h) ==
    /\ cleanup.on /\ h \in blobs \ cleanup.keep
    /\ blobs' = blobs \ {h}
    /\ UNCHANGED <<temps, capture, history, aged, cleanup, quiet, stopped>>

GcTemp(c) ==
    /\ cleanup.on /\ c \in temps
    /\ temps' = temps \ {c}
    /\ UNCHANGED <<blobs, capture, history, aged, cleanup, quiet, stopped>>

\* A file it could not remove, or that came behind it, is left for the next one.
CleanupEnds ==
    /\ cleanup.on
    /\ cleanup' = NoCleanup
    /\ UNCHANGED <<blobs, temps, capture, history, aged, quiet, stopped>>

\* oxplow stops: temporary files stay, and so do blobs no row names.
StopsCapturing ==
    /\ stopped < MaxShutdowns
    /\ stopped' = stopped + 1
    /\ capture' = [c \in Captures |-> NoCapture]
    /\ cleanup' = NoCleanup
    /\ UNCHANGED <<blobs, temps, history, aged, quiet>>

BlobsInit ==
    /\ blobs = {} /\ temps = {} /\ history = <<>> /\ aged = 0 /\ quiet = {} /\ stopped = 0
    /\ capture = [c \in Captures |-> NoCapture]
    /\ cleanup = NoCleanup

BlobsNext ==
    \/ \E c \in Captures :
        \/ \E p \in Paths, h \in Hashes : Reads(c, p, h)
        \/ WriteHashed(c) \/ RenameTemp(c) \/ RecordRow(c) \/ GcTemp(c)
    \/ Ages
    \/ CleanupReads
    \/ \E h \in Hashes : GcFile(h)
    \/ CleanupEnds
    \/ StopsCapturing

BlobsSpec == BlobsInit /\ [][BlobsNext]_blobVars

-----------------------------------------------------------------------------
(* Properties.                                                             *)

\* A row whose capture met no cleanup keeps its bytes for as long as it is within
\* the window or its path's newest, through every later cleanup, whatever other
\* captures of the same content do (write_hashed shares one blob).
QuietRowsReadable == \A i \in quiet \cap Retained : history[i].hash \in blobs

\* "every worktree's current tree stays viewable/rollbackable forever": the newest
\* row of each path has its bytes.
CurrentTreeReadable == \A i \in DOMAIN history : Newest(i) => history[i].hash \in blobs
=============================================================================
