-------------------------- MODULE ContributionOrder --------------------------
(***************************************************************************)
(* The order in which one event runs the extensions' effects and           *)
(* collectors (oxplow-domain/src/ordering.rs, and order_catalog in         *)
(* oxplow-app/src/extension/extensions/descriptors.rs): each contribution  *)
(* names what it runs after, the catalog compiles levels, and takes out    *)
(* what cannot be ordered until what is left compiles.                     *)
(*                                                                         *)
(* Contributions are numbers, in the order of their refs.  Each of the two *)
(* kinds is run by one consumer of the pump, level by level; what runs     *)
(* after one of the other kind makes its consumer wait for the other.      *)
(***************************************************************************)
EXTENDS Integers, Sequences, FiniteSets

CONSTANTS
    Contributions,      \* the live extensions' effects and collectors
    Lists               \* the after: lists a contribution may have

ASSUME OrderAssumption ==
    /\ IsFiniteSet(Contributions)
    /\ Contributions = 1..Cardinality(Contributions)

\* What else an after: list may name.
Core == 0           \* one of core's consumers
Gone == 0 - 1       \* a ref nothing declares
Idle == 0 - 2       \* a contribution of an extension that is off
Bad == 0 - 3        \* what is no name of anything
Targets == Contributions \cup {Core, Gone, Idle, Bad}

ASSUME ListsAssumption == Lists \subseteq Seq(Targets)

Kinds == {"effect", "collector"}
NoLevel == 0 - 1

VARIABLES
    kind,       \* each contribution's
    after,      \* its list, in the order it was written
    catalog,    \* the contributions that are in
    level,      \* order_level
    step        \* of order_catalog: "resolve", "compile", "done"

orderVars == <<kind, after, catalog, level, step>>

Waits(c) == {after[c][i] : i \in DOMAIN after[c]}
Preds(c) == Waits(c) \cap catalog

-----------------------------------------------------------------------------
(* Order::compile.                                                         *)

\* The contributions that wait for what is neither in nor a core consumer.
Unknown == {c \in catalog : ~(Waits(c) \subseteq catalog \cup {Core})}

\* Mutant: one predecessor placed is enough.
PlacedAfterAny ==
    LET placed[n \in 0..Cardinality(Contributions)] ==
            IF n = 0 THEN {}
            ELSE {c \in catalog : Preds(c) = {} \/ Preds(c) \cap placed[n - 1] # {}}
    IN  placed

\* Kahn's algorithm: those placed before level n.
Placed ==
    LET placed[n \in 0..Cardinality(Contributions)] ==
            IF n = 0 THEN {} ELSE {c \in catalog : Preds(c) \subseteq placed[n - 1]}
    IN  placed
Remaining == catalog \ Placed[Cardinality(Contributions)]
LevelOf(c) == CHOOSE n \in 0..Cardinality(Contributions) :
                c \notin Placed[n] /\ c \in Placed[n + 1]

\* cycles: from each of those left along its first predecessor among them, until
\* one repeats.  (A start that an earlier walk passed leads to the same cycle.)
FirstOf(c, left) ==
    LET i == CHOOSE i \in DOMAIN after[c] :
                after[c][i] \in left /\ \A j \in 1..(i - 1) : after[c][j] \notin left
    IN  after[c][i]
CycleFrom(start, left) ==
    LET n == Cardinality(Contributions)
        walk[i \in 0..(2 * n)] == IF i = 0 THEN start ELSE FirstOf(walk[i - 1], left)
    IN  {walk[i] : i \in n..(2 * n)}
InCycles == LET left == Remaining IN UNION {CycleFrom(c, left) : c \in left}

\* crossings: those that wait for one of the other kind, when both kinds do.
Crossing == {c \in catalog : \E t \in Preds(c) : kind[t] # kind[c]}
Crossings == IF \A k \in Kinds : \E c \in Crossing : kind[c] = k THEN Crossing ELSE {}

-----------------------------------------------------------------------------
(* order_catalog.                                                          *)

\* A list as it resolves: what is off is not waited for.
Resolved(list) ==
    LET resolved[i \in 0..Len(list)] ==
            IF i = 0 THEN <<>>
            ELSE IF list[i] = Idle THEN resolved[i - 1]
            ELSE Append(resolved[i - 1], list[i])
    IN  resolved[Len(list)]

\* Each list resolves, and who names nothing is refused.
Resolve ==
    /\ step = "resolve"
    /\ after' = [c \in Contributions |-> Resolved(after[c])]
    /\ catalog' = {c \in catalog : Bad \notin Waits(c)}
    /\ step' = "compile"
    /\ UNCHANGED <<kind, level>>

\* It does not compile: who waits for nothing declared, or on each other, goes.
RefuseUnordered ==
    /\ step = "compile"
    /\ Unknown # {} \/ Remaining # {}
    /\ catalog' = catalog \ (Unknown \cup InCycles)
    /\ UNCHANGED <<kind, after, level, step>>

\* It does, but the two consumers would wait for each other.
RefuseCrossings ==
    /\ step = "compile"
    /\ Unknown = {} /\ Remaining = {} /\ Crossings # {}
    /\ catalog' = catalog \ Crossings
    /\ UNCHANGED <<kind, after, level, step>>

Ordered ==
    /\ step = "compile"
    /\ Unknown = {} /\ Remaining = {} /\ Crossings = {}
    /\ level' = [c \in Contributions |-> IF c \in catalog THEN LevelOf(c) ELSE NoLevel]
    /\ step' = "done"
    /\ UNCHANGED <<kind, after, catalog>>

OrderInit ==
    /\ kind \in [Contributions -> Kinds]
    /\ after \in [Contributions -> Lists]
    /\ catalog = Contributions
    /\ level = [c \in Contributions |-> NoLevel]
    /\ step = "resolve"

OrderNext == Resolve \/ RefuseUnordered \/ RefuseCrossings \/ Ordered

OrderSpec == OrderInit /\ [][OrderNext]_orderVars

-----------------------------------------------------------------------------
(* Properties.                                                             *)

\* gates: the kinds whose consumer makes the consumer of kind k wait.
Gates(k) == {kind[t] : t \in UNION {Preds(c) : c \in {d \in catalog : kind[d] = k}}} \ {k}

\* What runs after what is honoured: within a consumer by the levels it sorts by
\* (effects_of), across the two by the consumer that waits, and these never wait
\* for each other - on one event they would for ever.
OrderHonoured ==
    step = "done" =>
        /\ \A c \in catalog : \A t \in Waits(c) \ {Core} :
            /\ t \in catalog
            /\ IF kind[t] = kind[c] THEN level[t] < level[c] ELSE kind[t] \in Gates(kind[c])
        /\ ~("effect" \in Gates("collector") /\ "collector" \in Gates("effect"))

\* A set of contributions that wait for nothing outside it and not on each other:
\* any of them that wait, wait for one of them that does not.
CanRun(s) ==
    /\ \A c \in s : Waits(c) \subseteq s \cup {Core}
    /\ \A u \in (SUBSET s) \ {{}} : \E c \in u : Waits(c) \cap u = {}

\* Nobody is refused who could run: whichever cycles are found first, and in
\* however many rounds, what is left is all that can be ordered, less what crosses
\* when effects and collectors wait on each other (order_catalog).
NoneRefusedInVain ==
    step = "done" =>
        LET named == {c \in Contributions : Bad \notin Waits(c)}
            runnable == UNION {s \in SUBSET named : CanRun(s)}
            crosses == {c \in runnable : \E t \in Waits(c) \cap runnable : kind[t] # kind[c]}
        IN  (\E k \in Kinds : \A c \in crosses : kind[c] # k) => catalog = runnable

\* What Kahn's algorithm leaves always has somebody to refuse, and only those who
\* wait on each other: the walks from it never run out, so that each round of
\* order_catalog takes something out and its loop ends.
CyclesFound ==
    step = "compile" /\ Remaining # {} =>
        /\ InCycles # {}
        /\ InCycles \subseteq Remaining
        /\ \A c \in InCycles : Waits(c) \cap InCycles # {}

\* The catalog order_catalog leaves is right: in an order its contributions run
\* in, with all that can be ordered, and found in rounds that come to an end.
CatalogRight == OrderHonoured /\ CyclesFound /\ NoneRefusedInVain
=============================================================================
