------------------------------- MODULE MCParts -------------------------------
(***************************************************************************)
(* The smaller parts beside the job queue and the event pump: the order of *)
(* contributions, the attempts of an effect, the claims of the commands it *)
(* runs, the collectors that wait, and the scheduler's scan.  They share   *)
(* no state and are checked side by side: the part of a behaviour is       *)
(* chosen as it begins, and the others keep still.                         *)
(***************************************************************************)
EXTENDS EffectRuns, CommandClaims, Pacing, ContributionOrder, JobScan

CONSTANTS inside, out, alt, p1, p2, undo1

VARIABLE part

\* Bound: lists of at most two, the second only of contributions.
MCLists ==
    {<<>>} \cup {<<t>> : t \in Targets}
        \cup {l \in Contributions \X Contributions : l[1] # l[2]}

MCInit ==
    /\ part \in {"order", "effects", "claims", "pacing", "scan"}
    /\ EffectsInit /\ ClaimsInit /\ PacingInit
    /\ part # "effects" => startAfter = 0 /\ ~idempotent
    /\ OrderInit
    /\ part # "order" => \A c \in Contributions : after[c] = <<>> /\ kind[c] = "effect"
    /\ ScanInit
    /\ part # "scan" => able = {}

MCNext ==
    \/ part = "order" /\ OrderNext
          /\ UNCHANGED <<part, effectVars, claimVars, pacingVars, scanVars>>
    \/ part = "effects" /\ EffectsNext
          /\ UNCHANGED <<part, orderVars, claimVars, pacingVars, scanVars>>
    \/ part = "claims" /\ ClaimsNext
          /\ UNCHANGED <<part, orderVars, effectVars, pacingVars, scanVars>>
    \/ part = "pacing" /\ PacingNext
          /\ UNCHANGED <<part, orderVars, effectVars, claimVars, scanVars>>
    \/ part = "scan" /\ ScanNext
          /\ UNCHANGED <<part, orderVars, effectVars, claimVars, pacingVars>>

MCSpec ==
    /\ MCInit
    /\ [][MCNext]_<<part, orderVars, effectVars, claimVars, pacingVars, scanVars>>
    /\ EffectsFair /\ PacingFair /\ ScanFair
=============================================================================
