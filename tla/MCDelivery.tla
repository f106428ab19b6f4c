----------------------------- MODULE MCDelivery -----------------------------
(***************************************************************************)
(* The delivery of events, and the activation of extensions.  The two      *)
(* share no state here (that a setting changed reaches the activation in a *)
(* step of its own, Told) and are checked side by side: which of them a    *)
(* behaviour is about is chosen as it begins.                              *)
(*                                                                         *)
(* Two extensions, of both of which a copy ships: app requires base.       *)
(***************************************************************************)
EXTENDS MCEventPump, ExtensionActivation

CONSTANTS app, base, n1, n2

VARIABLE part

MCRequires == (app :> {base}) @@ (base :> {})

\* Bound: fewer failures where more comes from outside.
FewTogether == turns + setbacks <= MaxTurns

\* The versions of an extension are interchangeable, so n1 is the one recorded.
\* Bound: one deployment does not load; the others may fail to prepare.
MCInit ==
    /\ part \in {"pump", "activation"}
    /\ Init /\ ActivationInit
    /\ \A e \in Extensions : recorded[e] # n2
    /\ Cardinality(broken) <= 1
    /\ part = "pump" => broken = {} /\ recorded = NoneLive

MCNext ==
    \/ part = "pump" /\ Next /\ UNCHANGED <<part, activationVars>>
    \/ part = "activation" /\ ActivationNext /\ UNCHANGED <<part, vars>>

MCSpec == MCInit /\ [][MCNext]_<<part, vars, activationVars>>
=============================================================================
