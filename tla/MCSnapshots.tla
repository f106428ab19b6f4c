----------------------------- MODULE MCSnapshots -----------------------------
(***************************************************************************)
(* What a take captures and what becomes of its bytes share no state: the  *)
(* part of a behaviour is chosen as it begins, and the other keeps still.  *)
(***************************************************************************)
EXTENDS MCSnapshotCapture, BlobStore

CONSTANTS p, q, h, k, c, d

VARIABLE part

MCInit == part \in {"capture", "blobs"} /\ Init /\ BlobsInit

MCNext ==
    \/ part = "capture" /\ Next /\ UNCHANGED <<part, blobVars>>
    \/ part = "blobs" /\ BlobsNext /\ UNCHANGED <<part, vars>>

MCSpec == MCInit /\ [][MCNext]_<<part, vars, blobVars>>
=============================================================================
