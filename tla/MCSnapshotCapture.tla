-------------------------- MODULE MCSnapshotCapture --------------------------
(* Small instances of SnapshotCapture for TLC: a file f the watch covers, u  *)
(* it does not, and takes t and s.                                           *)
EXTENDS SnapshotCapture, TLC

CONSTANTS f, t, u, s

SymT == Permutations(Takes)

\* Once every file has slipped, no property says more.
SomethingToTell == slipped # Files

\* Bound: two takes, or the boot sweep and changes to what the watch does not
\* cover.
TakesOrUncovered ==
    /\ SomethingToTell
    /\ \/ Cardinality({x \in Takes : pc[x] # "new"}) <= 1
       \/ ~sweep[Boot].on /\ \A x \in Uncovered : disk[x] = 0 /\ x \notin slipped
=============================================================================
