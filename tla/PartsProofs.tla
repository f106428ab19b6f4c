----------------------------- MODULE PartsProofs -----------------------------
(***************************************************************************)
(* Theorems about CommandClaims, for any number of deciders, proposals and *)
(* audited runs and any number of losses; and about ContributionOrder, for *)
(* any number of contributions and any lists of what they run after.       *)
(***************************************************************************)
EXTENDS CommandClaims, ContributionOrder, FiniteSetTheorems, TLAPS

-----------------------------------------------------------------------------
(* The claims of a decision.                                               *)

\* A decider between its claim and the claim's end.
HasClaim(d) == decider[d].pc \in {"handler", "record", "release"}

\* A decider that is busy has an item; whoever has a claim has it alone, and
\* the item says so; nothing has run before the handler returns, or when it
\* failed.
ClaimsExclusive ==
    /\ \A d \in Deciders : decider[d].pc # "free" => decider[d].item \in Items
    /\ \A d \in Deciders : HasClaim(d) => mark[decider[d].item] = "claimed"
    /\ \A d \in Deciders : decider[d].pc \in {"handler", "release"} => ran[decider[d].item] = 0
    /\ \A d, e \in Deciders :
        HasClaim(d) /\ HasClaim(e) /\ decider[d].item = decider[e].item => d = e

ClaimsInv == ClaimsTypeOK /\ ClaimsExclusive /\ DecidedOnce

LEMMA ClaimsInvInit == ClaimsInit => ClaimsInv
BY ClaimsAssumption
   DEF ClaimsInit, ClaimsInv, ClaimsTypeOK, ClaimsExclusive, DecidedOnce, HasClaim, Marks, Free,
       Items, Proposals

LEMMA ClaimsInvInductive == ClaimsInv /\ [ClaimsNext]_claimVars => ClaimsInv'
<1> SUFFICES ASSUME ClaimsInv, [ClaimsNext]_claimVars
             PROVE  ClaimsInv'
  OBVIOUS
<1> USE DEF ClaimsInv, ClaimsTypeOK, ClaimsExclusive, DecidedOnce, HasClaim, Marks
<1>1. CASE Propose
  BY <1>1, ClaimsAssumption DEF Propose, Made
<1>2. ASSUME NEW d \in Deciders, NEW i \in Items, NEW pc \in {"run", "decline"}, Looks(d, i, pc)
      PROVE  ClaimsInv'
  BY <1>2 DEF Looks, DecidesAt
<1>3. ASSUME NEW d \in Deciders, Declines(d)
      PROVE  ClaimsInv'
  BY <1>3 DEF Declines, DecidesAt, DeciderReturns, Free
<1>4. ASSUME NEW d \in Deciders, RunsInside(d)
      PROVE  ClaimsInv'
  BY <1>4 DEF RunsInside, DecidesAt, DeciderReturns, Free
<1>5. ASSUME NEW d \in Deciders, ClaimsItem(d)
      PROVE  ClaimsInv'
  <2>1. CASE mark[decider[d].item] # "pending"
    <3>1. decider' = [decider EXCEPT ![d] = Free] /\ UNCHANGED <<proposed, mark, ran, losses>>
      BY <1>5, <2>1 DEF ClaimsItem, DeciderReturns
    <3> QED
      BY <3>1 DEF Free
  <2>2. CASE mark[decider[d].item] = "pending"
    <3> DEFINE i == decider[d].item
    <3>1. /\ mark' = [mark EXCEPT ![i] = "claimed"]
          /\ decider' = [decider EXCEPT ![d].pc = "handler"]
          /\ UNCHANGED <<proposed, ran, losses>>
      BY <1>5, <2>2 DEF ClaimsItem, DeciderGoes
    <3>2. i \in Items /\ ran[i] = 0
      BY <1>5, <2>2 DEF ClaimsItem, DecidesAt
    <3>3. ClaimsTypeOK'
      BY <3>1, <3>2
    <3>4. /\ decider'[d].pc = "handler" /\ decider'[d].item = i
          /\ \A e \in Deciders : e # d => decider'[e] = decider[e]
      BY <3>1
    <3>5. \A e \in Deciders : e # d /\ HasClaim(e) => decider[e].item # i
      BY <2>2
    <3> HIDE DEF i
    <3>6. ClaimsExclusive'
      BY <3>1, <3>2, <3>4, <3>5
    <3>7. DecidedOnce'
      BY <3>1, <3>2
    <3> QED
      BY <3>3, <3>6, <3>7
  <2> QED
    BY <2>1, <2>2
<1>6. ASSUME NEW d \in Deciders, Handles(d)
      PROVE  ClaimsInv'
  <2> DEFINE i == decider[d].item
  <2>1. /\ decider[d].pc = "handler" /\ i \in Items
        /\ mark[i] = "claimed" /\ ran[i] = 0
        /\ UNCHANGED <<proposed, mark, losses>>
    BY <1>6 DEF Handles, DecidesAt
  <2>2. CASE ran' = [ran EXCEPT ![i] = @ + 1] /\ decider' = [decider EXCEPT ![d].pc = "record"]
    <3>1. \A e \in Deciders : HasClaim(e) /\ e # d => decider[e].item # i
      BY <2>1
    <3> HIDE DEF i
    <3>2. /\ decider'[d].pc = "record" /\ decider'[d].item = decider[d].item
          /\ \A e \in Deciders : e # d => decider'[e] = decider[e]
      BY <2>2
    <3>3. ClaimsTypeOK'
      BY <2>1, <2>2
    <3>4. ran'[i] = 1 /\ \A j \in Items : j # i => ran'[j] = ran[j]
      BY <2>1, <2>2
    <3>5. ClaimsExclusive'
      BY <2>1, <3>1, <3>2, <3>4 DEF i
    <3>6. DecidedOnce'
      BY <2>1, <3>4
    <3> QED
      BY <3>3, <3>5, <3>6
  <2>3. CASE decider' = [decider EXCEPT ![d].pc = "release"] /\ UNCHANGED ran
    <3> HIDE DEF i
    <3>1. /\ decider'[d].pc = "release" /\ decider'[d].item = decider[d].item
          /\ \A e \in Deciders : e # d => decider'[e] = decider[e]
      BY <2>3
    <3>2. ClaimsTypeOK'
      BY <2>1, <2>3
    <3>3. ClaimsExclusive'
      BY <2>1, <2>3, <3>1 DEF i
    <3>4. DecidedOnce'
      BY <2>1, <2>3
    <3> QED
      BY <3>2, <3>3, <3>4
  <2> QED
    BY <1>6, <2>2, <2>3 DEF Handles, DeciderGoes
<1>7. ASSUME NEW d \in Deciders, RecordsItem(d)
      PROVE  ClaimsInv'
  BY <1>7 DEF RecordsItem, DecidesAt, DeciderReturns, Free
<1>8. ASSUME NEW d \in Deciders, Releases(d)
      PROVE  ClaimsInv'
  BY <1>8 DEF Releases, DecidesAt, DeciderReturns, Free
<1>9. ASSUME NEW d \in Deciders, Loses(d)
      PROVE  ClaimsInv'
  BY <1>9 DEF Loses, DecidesAt, DeciderReturns, Free
<1>10. CASE StopsDeciding
  BY <1>10 DEF StopsDeciding, Free
<1>11. CASE UNCHANGED claimVars
  BY <1>11 DEF claimVars
<1> QED
  BY <1>1, <1>2, <1>3, <1>4, <1>5, <1>6, <1>7, <1>8, <1>9, <1>10, <1>11 DEF ClaimsNext

\* However many people decide one proposal or undo one run, and wherever oxplow
\* stops, its command runs at most once, and never for one that is not decided.
THEOREM DecisionsRunOnce == ClaimsSpec => []DecidedOnce
<1>1. ClaimsInv => DecidedOnce
  BY DEF ClaimsInv
<1> QED
  BY <1>1, ClaimsInvInit, ClaimsInvInductive, PTL DEF ClaimsSpec

-----------------------------------------------------------------------------
(* Counting.                                                               *)

\* What is true of some number is true of a least one.
LEMMA LeastNumber ==
    ASSUME NEW S, S \subseteq Nat, S # {}
    PROVE  \E n \in S : \A m \in S : n <= m
<1>1. PICK n \in S : \A m \in S : ~(<<m, n>> \in OpToRel(<, Nat))
  BY NatLessThanWellFounded, WFMin
<1>2. ASSUME NEW m \in S
      PROVE  n <= m
  <2>1. m \in Nat /\ n \in Nat
    OBVIOUS
  <2>2. m < n => <<m, n>> \in OpToRel(<, Nat)
    BY <2>1 DEF OpToRel
  <2>3. ~(m < n)
    BY <1>1, <2>2
  <2> QED
    BY <2>1, <2>3
<1> QED
  BY <1>2

\* A set of the numbers up to m with 0 and every successor is all of them.
LEMMA UpTo ==
    ASSUME NEW m \in Nat, NEW S, 0 \in S, \A i \in 1..m : i - 1 \in S => i \in S
    PROVE  0..m \subseteq S
<1> SUFFICES ASSUME (0..m) \ S # {}
             PROVE  FALSE
  OBVIOUS
<1> DEFINE R == (0..m) \ S
<1>1. PICK n \in R : \A k \in R : n <= k
  <2>1. R \subseteq Nat /\ R # {}
    OBVIOUS
  <2> HIDE DEF R
  <2> QED
    BY <2>1, LeastNumber
<1>2. n \in 1..m /\ n - 1 \in 0..m /\ ~(n <= n - 1)
  BY <1>1
<1>3. n - 1 \notin R
  BY <1>1, <1>2
<1> QED
  BY <1>1, <1>2, <1>3

\* Steps taken one after another, g[i] the i-th of them, from x: the values they
\* go through are a function.
LEMMA StepsTaken ==
    ASSUME NEW T, NEW x \in T, NEW m \in Nat, NEW g \in [1..m -> [T -> T]]
    PROVE  \E f \in [0..m -> T] : f[0] = x /\ \A i \in 1..m : f[i] = g[i][f[i - 1]]
<1> DEFINE Taken(k) == \E f \in [0..k -> T] : f[0] = x /\ \A i \in 1..k : f[i] = g[i][f[i - 1]]
           S == {k \in 0..m : Taken(k)}
<1>1. 0 \in S
  <2> DEFINE f == [i \in 0..0 |-> x]
  <2>1. f \in [0..0 -> T] /\ f[0] = x /\ 1..0 = {}
    OBVIOUS
  <2>2. Taken(0)
    BY <2>1
  <2> QED
    BY <2>2
<1>2. ASSUME NEW k \in 1..m, k - 1 \in S
      PROVE  k \in S
  <2>1. PICK f \in [0..(k - 1) -> T] : f[0] = x /\ \A i \in 1..(k - 1) : f[i] = g[i][f[i - 1]]
    BY <1>2
  <2> DEFINE h == [i \in 0..k |-> IF i < k THEN f[i] ELSE g[k][f[k - 1]]]
  <2>2. g[k][f[k - 1]] \in T
    BY <2>1
  <2>3. h \in [0..k -> T]
    BY <2>2
  <2>4. h[0] = x
    BY <2>1
  <2>5. ASSUME NEW i \in 1..k
        PROVE  h[i] = g[i][h[i - 1]]
    <3>1. h[i - 1] = f[i - 1]
      OBVIOUS
    <3>2. CASE i = k
      BY <3>1, <3>2
    <3>3. CASE i # k
      <4>1. i \in 1..(k - 1) /\ i \in 0..k /\ i < k
        BY <3>3
      <4>2. h[i] = f[i]
        BY <4>1
      <4>3. f[i] = g[i][f[i - 1]]
        BY <4>1, <2>1
      <4> QED
        BY <3>1, <4>2, <4>3
    <3> QED
      BY <3>2, <3>3
  <2> HIDE DEF h
  <2>6. Taken(k)
    BY <2>3, <2>4, <2>5
  <2>7. k \in 0..m
    OBVIOUS
  <2> HIDE DEF Taken
  <2> QED
    BY <2>6, <2>7
<1> HIDE DEF S
<1>3. 0..m \subseteq S
  BY <1>1, <1>2, UpTo
<1>4. m \in S
  BY <1>3
<1> QED
  BY <1>4 DEF S

-----------------------------------------------------------------------------
(* The levels.                                                             *)

N == Cardinality(Contributions)

OrderTypeOK ==
    /\ kind \in [Contributions -> Kinds]
    /\ after \in [Contributions -> Seq(Targets)]
    /\ catalog \subseteq Contributions
    /\ step \in {"resolve", "compile", "done"}

LEMMA ManyContributions == N \in Nat /\ Contributions = 1..N /\ IsFiniteSet(Contributions)
BY OrderAssumption, FS_CardinalityType DEF N

\* Those a set placed lets be placed next.
Placeable(s) == {c \in catalog : Preds(c) \subseteq s}

\* Kahn's algorithm places level by level.
LEMMA PlacedSteps ==
    ASSUME OrderTypeOK
    PROVE  /\ Placed \in [0..N -> SUBSET catalog]
           /\ Placed[0] = {}
           /\ \A n \in 1..N : Placed[n] = Placeable(Placed[n - 1])
<1> DEFINE Step(f) == [n \in 0..N |-> IF n = 0 THEN {} ELSE {c \in catalog : Preds(c) \subseteq f[n - 1]}]
           next == [s \in SUBSET catalog |-> Placeable(s)]
           g == [n \in 1..N |-> next]
<1>1. N \in Nat
  BY ManyContributions
<1>2. next \in [SUBSET catalog -> SUBSET catalog] /\ {} \in SUBSET catalog
  BY DEF Placeable
<1>3. g \in [1..N -> [SUBSET catalog -> SUBSET catalog]]
  <2> HIDE DEF next
  <2> QED
    BY <1>2
<1>4. PICK f \in [0..N -> SUBSET catalog] : f[0] = {} /\ \A i \in 1..N : f[i] = g[i][f[i - 1]]
  <2> DEFINE T == SUBSET catalog
  <2>1. {} \in T /\ g \in [1..N -> [T -> T]]
    BY <1>3
  <2> HIDE DEF g, T
  <2>2. \E f \in [0..N -> T] : f[0] = {} /\ \A i \in 1..N : f[i] = g[i][f[i - 1]]
    BY <1>1, <2>1, StepsTaken
  <2> QED
    BY <2>2 DEF T
<1>5. ASSUME NEW i \in 1..N
      PROVE  f[i] = {c \in catalog : Preds(c) \subseteq f[i - 1]}
  <2>1. i - 1 \in 0..N
    BY <1>1
  <2>2. f[i - 1] \in SUBSET catalog
    BY <2>1, <1>4
  <2>3. g[i] = next
    <3> HIDE DEF next
    <3> QED
      OBVIOUS
  <2>4. f[i] = next[f[i - 1]]
    BY <1>4, <2>3
  <2> QED
    BY <2>2, <2>4 DEF Placeable
<1>6. f = Step(f)
  <2>1. ASSUME NEW n \in 0..N
        PROVE  f[n] = Step(f)[n]
    <3>1. CASE n = 0
      BY <3>1, <1>4
    <3>2. CASE n # 0
      <4>1. n \in 1..N
        BY <3>2
      <4> QED
        BY <3>2, <4>1, <1>5
    <3> QED
      BY <3>1, <3>2
  <2> QED
    BY <1>4, <2>1
<1>7. Placed = CHOOSE placed : placed = Step(placed)
  BY DEF Placed, N
<1>8. Placed = Step(Placed)
  <2> HIDE DEF Step
  <2> QED
    BY <1>6, <1>7
<1>9. /\ Placed[0] = {}
      /\ \A n \in 1..N : Placed[n] = {c \in catalog : Preds(c) \subseteq Placed[n - 1]}
      /\ Placed \in [0..N -> SUBSET catalog]
  <2> DEFINE P == Placed
  <2>1. P = Step(P)
    BY <1>8
  <2> HIDE DEF P
  <2>2. P[0] = {}
    BY <2>1, <1>1
  <2>3. ASSUME NEW n \in 1..N
        PROVE  P[n] = {c \in catalog : Preds(c) \subseteq P[n - 1]}
    <3>1. n \in 0..N /\ n # 0
      OBVIOUS
    <3> QED
      BY <2>1, <3>1
  <2>4. \A n \in 0..N : P[n] \in SUBSET catalog
    BY <2>2, <2>3
  <2>5. P \in [0..N -> SUBSET catalog]
    <3>1. P = [n \in 0..N |-> P[n]]
      BY <2>1
    <3> QED
      BY <3>1, <2>4
  <2> QED
    BY <2>2, <2>3, <2>5 DEF P
<1> QED
  BY <1>9 DEF Placeable

\* What is placed before a level is placed before every later one.
LEMMA PlacedGrows ==
    ASSUME OrderTypeOK
    PROVE  \A m \in 0..N : \A n \in 0..m : Placed[n] \subseteq Placed[m]
<1>0. /\ N \in Nat
      /\ Placed \in [0..N -> SUBSET catalog] /\ Placed[0] = {}
      /\ \A n \in 1..N : Placed[n] = Placeable(Placed[n - 1])
  BY ManyContributions, PlacedSteps
<1> DEFINE P == Placed
<1>1. \A n \in 1..N : P[n - 1] \subseteq P[n]
  <2> DEFINE S == {n \in 0..N : n = 0 \/ P[n - 1] \subseteq P[n]}
  <2>1. 0 \in S
    BY <1>0
  <2>2. ASSUME NEW i \in 1..N, i - 1 \in S
        PROVE  i \in S
    <3>1. P[i - 1] \subseteq P[i]
      <4>1. CASE i = 1
        BY <4>1, <1>0
      <4>2. CASE i # 1
        <5>1. i - 1 \in 1..N /\ i - 1 # 0
          BY <4>2, <1>0
        <5>2. P[(i - 1) - 1] \subseteq P[i - 1]
          BY <5>1, <2>2
        <5>3. P[i] = Placeable(P[i - 1]) /\ P[i - 1] = Placeable(P[(i - 1) - 1])
          BY <5>1, <1>0
        <5> QED
          BY <5>2, <5>3 DEF Placeable
      <4> QED
        BY <4>1, <4>2
    <3>2. i \in 0..N
      OBVIOUS
    <3> HIDE DEF P
    <3> QED
      BY <3>1, <3>2
  <2> HIDE DEF S
  <2>3. 0..N \subseteq S
    BY <1>0, <2>1, <2>2, UpTo
  <2> QED
    BY <2>3 DEF S
<1> HIDE DEF P
<1> DEFINE S == {m \in 0..N : \A n \in 0..m : P[n] \subseteq P[m]}
<1>2. 0 \in S
  <2>1. \A n \in 0..0 : n = 0
    OBVIOUS
  <2>2. 0 \in 0..N
    BY <1>0
  <2> QED
    BY <2>1, <2>2
<1>3. ASSUME NEW i \in 1..N, i - 1 \in S
      PROVE  i \in S
  <2>1. \A n \in 0..(i - 1) : P[n] \subseteq P[i - 1]
    BY <1>3
  <2>2. P[i - 1] \subseteq P[i]
    BY <1>1
  <2>3. \A n \in 0..i : n = i \/ n \in 0..(i - 1)
    OBVIOUS
  <2>4. \A n \in 0..i : P[n] \subseteq P[i]
    BY <2>1, <2>2, <2>3
  <2>5. i \in 0..N
    OBVIOUS
  <2> QED
    BY <2>4, <2>5
<1> HIDE DEF S
<1>4. 0..N \subseteq S
  BY <1>0, <1>2, <1>3, UpTo
<1> QED
  BY <1>4 DEF S, P

\* Kahn's algorithm stops by itself within as many levels as there are
\* contributions: who could still be placed is.
LEMMA PlacedAll ==
    ASSUME OrderTypeOK
    PROVE  Placeable(Placed[N]) \subseteq Placed[N]
<1>0. /\ N \in Nat /\ Contributions = 1..N /\ IsFiniteSet(Contributions)
      /\ Placed \in [0..N -> SUBSET catalog] /\ Placed[0] = {}
      /\ \A n \in 1..N : Placed[n] = Placeable(Placed[n - 1])
      /\ \A n \in 1..N : Placed[n - 1] \subseteq Placed[n]
  <2>1. \A n \in 1..N : n \in 0..N /\ n - 1 \in 0..n
    BY ManyContributions
  <2> QED
    BY <2>1, ManyContributions, PlacedSteps, PlacedGrows
<1> DEFINE P == Placed
<1>1. ASSUME NEW k \in 1..N, P[k - 1] = P[k]
      PROVE  Placeable(P[N]) \subseteq P[N]
  <2> DEFINE S == {m \in 0..N : k <= m => P[m] = P[k]}
  <2> HIDE DEF P
  <2>1. 0 \in S
    BY <1>0
  <2>2. ASSUME NEW i \in 1..N, i - 1 \in S
        PROVE  i \in S
    <3>1. i \in 0..N
      OBVIOUS
    <3>2. CASE k <= i - 1
      <4>1. P[i - 1] = P[k]
        BY <2>2, <3>2
      <4>2. P[i] = Placeable(P[k]) /\ P[k] = Placeable(P[k])
        BY <4>1, <1>0, <1>1 DEF P
      <4> QED
        BY <3>1, <4>2
    <3>3. CASE k = i
      BY <3>1, <3>3
    <3>4. CASE ~(k <= i)
      BY <3>1, <3>4
    <3>5. k <= i - 1 \/ k = i \/ ~(k <= i)
      OBVIOUS
    <3> QED
      BY <3>2, <3>3, <3>4, <3>5
  <2> HIDE DEF S
  <2>3. 0..N \subseteq S
    BY <1>0, <2>1, <2>2, UpTo
  <2>4. N \in 0..N /\ k <= N
    BY <1>0
  <2>5. P[N] = P[k]
    BY <2>3, <2>4 DEF S
  <2>6. P[k] = Placeable(P[k])
    BY <1>0, <1>1 DEF P
  <2> QED
    BY <2>5, <2>6
<1>2. ASSUME \A k \in 1..N : P[k - 1] # P[k]
      PROVE  Placeable(P[N]) \subseteq P[N]
  <2>1. ASSUME NEW n \in 0..N
        PROVE  IsFiniteSet(P[n]) /\ Cardinality(P[n]) \in Nat /\ P[n] \subseteq Contributions
    <3>1. P[n] \in SUBSET Contributions
      BY <1>0 DEF OrderTypeOK
    <3> HIDE DEF P
    <3>2. IsFiniteSet(P[n])
      BY <3>1, <1>0, FS_Subset
    <3> QED
      BY <3>1, <3>2, FS_CardinalityType
  <2> DEFINE S == {m \in 0..N : m <= Cardinality(P[m])}
  <2>2. 0 \in S
    <3>1. 0 \in 0..N
      BY <1>0
    <3> QED
      BY <3>1, <2>1
  <2>3. ASSUME NEW i \in 1..N, i - 1 \in S
        PROVE  i \in S
    <3>1. i \in 0..N /\ i - 1 \in 0..N
      <4> HIDE DEF S
      <4> QED
        BY <1>0
    <3>2. P[i - 1] \subseteq P[i] /\ P[i - 1] # P[i]
      BY <1>0, <1>2
    <3>3. i - 1 <= Cardinality(P[i - 1])
      BY <2>3
    <3> HIDE DEF P
    <3>4. /\ Cardinality(P[i - 1]) <= Cardinality(P[i])
          /\ Cardinality(P[i - 1]) # Cardinality(P[i])
      BY <2>1, <3>1, <3>2, FS_Subset
    <3>5. i <= Cardinality(P[i])
      BY <2>1, <3>1, <3>3, <3>4
    <3> QED
      BY <3>1, <3>5
  <2> HIDE DEF S
  <2>4. 0..N \subseteq S
    BY <1>0, <2>2, <2>3, UpTo
  <2>5. N \in 0..N
    BY <1>0
  <2>6. N <= Cardinality(P[N])
    BY <2>4, <2>5 DEF S
  <2> HIDE DEF P
  <2>7. P[N] = Contributions
    <3>1. P[N] \in SUBSET Contributions /\ Cardinality(P[N]) \in Nat
      BY <2>1, <2>5
    <3>2. Cardinality(P[N]) <= N
      BY <3>1, <1>0, FS_Subset DEF N
    <3>3. Cardinality(P[N]) = Cardinality(Contributions)
      BY <3>1, <3>2, <2>6, <1>0 DEF N
    <3> QED
      BY <3>1, <3>3, <1>0, FS_Subset
  <2>8. Placeable(P[N]) \subseteq Contributions
    BY DEF Placeable, OrderTypeOK
  <2> QED
    BY <2>7, <2>8
<1> QED
  BY <1>1, <1>2

\* When all are placed, each is at the level it was placed from.
LEMMA LevelPlaces ==
    ASSUME OrderTypeOK, Remaining = {}, NEW c \in catalog
    PROVE  /\ LevelOf(c) \in 0..N /\ LevelOf(c) + 1 \in 1..N
           /\ c \notin Placed[LevelOf(c)]
           /\ c \in Placed[LevelOf(c) + 1]
<1> DEFINE P == Placed
<1>0. N \in Nat /\ P[0] = {} /\ c \in P[N]
  BY ManyContributions, PlacedSteps DEF Remaining, N
<1> HIDE DEF P
<1> DEFINE S == {n \in 0..N : c \in P[n]}
           AtLevel(n) == c \notin P[n] /\ c \in P[n + 1]
<1>1. PICK n \in S : \A m \in S : n <= m
  <2>1. N \in S /\ S \subseteq Nat
    BY <1>0
  <2> HIDE DEF S
  <2> QED
    BY <2>1, LeastNumber
<1>2. n \in 0..N /\ c \in P[n] /\ n # 0
  BY <1>0, <1>1
<1>3. n - 1 \in 0..N /\ ~(n <= n - 1) /\ (n - 1) + 1 = n
  BY <1>0, <1>2
<1>4. c \notin P[n - 1]
  BY <1>1, <1>3
<1>5. AtLevel(n - 1)
  BY <1>2, <1>3, <1>4
<1> HIDE DEF AtLevel, S
<1>6. LevelOf(c) = CHOOSE l \in 0..N : AtLevel(l)
  BY DEF LevelOf, AtLevel, P, N
<1>7. LevelOf(c) \in 0..N /\ AtLevel(LevelOf(c))
  BY <1>3, <1>5, <1>6
<1>8. LevelOf(c) # N
  BY <1>0, <1>7 DEF AtLevel
<1> QED
  BY <1>0, <1>7, <1>8 DEF AtLevel, P

\* Whom a contribution waits for is at a lower level.
LEMMA LevelsRise ==
    ASSUME OrderTypeOK, Remaining = {}, NEW c \in catalog, NEW t \in Preds(c)
    PROVE  LevelOf(t) < LevelOf(c)
<1> DEFINE lc == LevelOf(c)
           lt == LevelOf(t)
<1>0. N \in Nat /\ t \in catalog
  BY ManyContributions DEF Preds
<1>1. lc \in 0..N /\ lc + 1 \in 1..N /\ c \in Placed[lc + 1]
  BY LevelPlaces
<1>2. lt \in 0..N /\ t \notin Placed[lt]
  BY <1>0, LevelPlaces
<1> HIDE DEF lc, lt
<1>3. Placed[lc + 1] = Placeable(Placed[lc])
  <2>1. (lc + 1) - 1 = lc
    BY <1>0, <1>1
  <2> QED
    BY <1>1, <2>1, PlacedSteps
<1>4. t \in Placed[lc]
  BY <1>1, <1>3 DEF Placeable
<1>5. lc <= lt => Placed[lc] \subseteq Placed[lt]
  <2>1. lc <= lt => lc \in 0..lt
    BY <1>0, <1>1, <1>2
  <2> QED
    BY <1>2, <2>1, PlacedGrows
<1>6. ~(lc <= lt)
  BY <1>2, <1>4, <1>5
<1>7. lt < lc
  BY <1>0, <1>1, <1>2, <1>6
<1> QED
  BY <1>7 DEF lc, lt

\* A catalog that compiles can run.
LEMMA CompiledCanRun ==
    ASSUME OrderTypeOK, Unknown = {}, Remaining = {}
    PROVE  CanRun(catalog)
<1>1. ASSUME NEW c \in catalog
      PROVE  Waits(c) \subseteq catalog \cup {Core}
  BY DEF Unknown
<1>2. ASSUME NEW u \in SUBSET catalog, u # {}
      PROVE  \E c \in u : Waits(c) \cap u = {}
  <2> DEFINE S == {LevelOf(c) : c \in u}
  <2>1. \A c \in u : LevelOf(c) \in Nat
    <3>1. ASSUME NEW c \in u
          PROVE  LevelOf(c) \in 0..N
      <4>1. c \in catalog
        OBVIOUS
      <4> QED
        BY <4>1, LevelPlaces
    <3> QED
      BY <3>1, ManyContributions
  <2>2. S \subseteq Nat /\ S # {}
    BY <1>2, <2>1
  <2>3. PICK n \in S : \A m \in S : n <= m
    <3> HIDE DEF S
    <3> QED
      BY <2>2, LeastNumber
  <2>4. PICK c \in u : n = LevelOf(c)
    BY <2>3
  <2>5. ASSUME NEW t \in Waits(c) \cap u
        PROVE  FALSE
    <3>1. c \in catalog /\ t \in u /\ t \in Preds(c)
      BY DEF Preds
    <3>2. LevelOf(t) < LevelOf(c)
      BY <3>1, LevelsRise
    <3>3. LevelOf(c) <= LevelOf(t)
      BY <2>3, <2>4, <3>1
    <3> QED
      BY <2>1, <3>1, <3>2, <3>3
  <2> QED
    BY <2>5
<1> QED
  BY <1>1, <1>2 DEF CanRun

-----------------------------------------------------------------------------
(* The cycles.                                                             *)

\* Who is left waits for one of those left, the first of whom the walk goes to.
LEMMA LeftWaits ==
    ASSUME OrderTypeOK, NEW c \in Remaining
    PROVE  /\ FirstOf(c, Remaining) \in Remaining
           /\ FirstOf(c, Remaining) \in Waits(c)
<1> DEFINE left == Remaining
           S == {i \in DOMAIN after[c] : after[c][i] \in left}
           First(i) == after[c][i] \in left /\ \A j \in 1..(i - 1) : after[c][j] \notin left
<1>1. c \in catalog /\ c \notin Placed[N]
  BY DEF Remaining, N
<1>2. after[c] \in Seq(Targets)
  BY <1>1 DEF OrderTypeOK
<1>3. DOMAIN after[c] = 1..Len(after[c]) /\ Len(after[c]) \in Nat
  BY <1>2
<1>4. PICK t \in Waits(c) : t \in left
  <2>1. ~(Preds(c) \subseteq Placed[N])
    BY <1>1, PlacedAll DEF Placeable
  <2> QED
    BY <2>1 DEF Preds, Remaining, N
<1> HIDE DEF left
<1>5. S # {} /\ S \subseteq Nat
  BY <1>3, <1>4 DEF Waits
<1>6. PICK i \in S : \A m \in S : i <= m
  <2> HIDE DEF S
  <2> QED
    BY <1>5, LeastNumber
<1>7. ASSUME NEW j \in 1..(i - 1)
      PROVE  after[c][j] \notin left
  <2>1. i \in 1..Len(after[c])
    BY <1>3
  <2>2. j \in DOMAIN after[c] /\ ~(i <= j)
    BY <1>3, <2>1
  <2> QED
    BY <1>6, <2>2
<1>8. i \in DOMAIN after[c] /\ First(i)
  BY <1>6, <1>7
<1> HIDE DEF First
<1>9. FirstOf(c, left) = after[c][CHOOSE k \in DOMAIN after[c] : First(k)]
  BY DEF FirstOf, First
<1>10. PICK k \in DOMAIN after[c] : First(k) /\ FirstOf(c, left) = after[c][k]
  BY <1>8, <1>9
<1>11. FirstOf(c, left) \in left /\ FirstOf(c, left) \in Waits(c)
  BY <1>10 DEF First, Waits
<1> QED
  BY <1>11 DEF left

\* The walk from one of those left never leaves them, and ends in a cycle.
LEMMA WalkGoesOn ==
    ASSUME OrderTypeOK, NEW c \in Remaining
    PROVE  \E f \in [0..(2 * N) -> Remaining] :
             /\ \A i \in 1..(2 * N) : f[i] = FirstOf(f[i - 1], Remaining)
             /\ CycleFrom(c, Remaining) = {f[i] : i \in N..(2 * N)}
<1> DEFINE left == Remaining
           next == [x \in left |-> FirstOf(x, left)]
           g == [i \in 1..(2 * N) |-> next]
           Step(w) == [i \in 0..(2 * N) |-> IF i = 0 THEN c ELSE FirstOf(w[i - 1], left)]
<1>0. 2 * N \in Nat /\ N \in Nat
  BY ManyContributions
<1>1. next \in [left -> left]
  BY LeftWaits
<1>2. PICK f \in [0..(2 * N) -> left] : f[0] = c /\ \A i \in 1..(2 * N) : f[i] = g[i][f[i - 1]]
  <2> DEFINE m == 2 * N
  <2>1. c \in left
    OBVIOUS
  <2>2. g \in [1..m -> [left -> left]]
    <3> HIDE DEF next, m
    <3> QED
      BY <1>1 DEF m
  <2>3. m \in Nat
    BY <1>0
  <2> HIDE DEF g, left, m
  <2>4. \E f \in [0..m -> left] : f[0] = c /\ \A i \in 1..m : f[i] = g[i][f[i - 1]]
    BY <2>1, <2>2, <2>3, StepsTaken
  <2> QED
    BY <2>4 DEF m
<1>3. ASSUME NEW i \in 1..(2 * N)
      PROVE  f[i] = FirstOf(f[i - 1], left)
  <2>1. i - 1 \in 0..(2 * N)
    BY <1>0
  <2>2. f[i - 1] \in left
    BY <2>1, <1>2
  <2>3. g[i] = next
    <3> HIDE DEF next
    <3> QED
      OBVIOUS
  <2>4. f[i] = next[f[i - 1]]
    BY <1>2, <2>3
  <2> QED
    BY <2>2, <2>4
<1> HIDE DEF next, g, left
<1>4. f = Step(f)
  <2>1. ASSUME NEW n \in 0..(2 * N)
        PROVE  f[n] = Step(f)[n]
    <3>1. CASE n = 0
      BY <3>1, <1>2
    <3>2. CASE n # 0
      <4>1. n \in 1..(2 * N)
        BY <3>2, <1>0
      <4> QED
        BY <3>2, <4>1, <1>3
    <3> QED
      BY <3>1, <3>2
  <2> QED
    BY <1>2, <2>1
<1> DEFINE walk == CHOOSE w : w = Step(w)
<1>5. walk = Step(walk)
  <2> HIDE DEF Step
  <2> QED
    BY <1>4
<1>6. CycleFrom(c, left) = {walk[i] : i \in N..(2 * N)}
  BY DEF CycleFrom, N
<1> HIDE DEF walk
<1>7. walk = f
  <2> DEFINE S == {i \in 0..(2 * N) : walk[i] = f[i]}
  <2>1. 0 \in S
    BY <1>0, <1>5, <1>2
  <2>2. ASSUME NEW i \in 1..(2 * N), i - 1 \in S
        PROVE  i \in S
    <3>1. i \in 0..(2 * N) /\ i # 0
      OBVIOUS
    <3>2. walk[i] = FirstOf(walk[i - 1], left)
      BY <3>1, <1>5
    <3>3. walk[i - 1] = f[i - 1]
      BY <2>2
    <3> QED
      BY <3>1, <3>2, <3>3, <1>3
  <2> HIDE DEF S
  <2>3. 0..(2 * N) \subseteq S
    BY <1>0, <2>1, <2>2, UpTo
  <2>4. \A i \in 0..(2 * N) : walk[i] = f[i]
    BY <2>3 DEF S
  <2>5. walk = [i \in 0..(2 * N) |-> walk[i]]
    BY <1>5
  <2> QED
    BY <1>2, <2>4, <2>5
<1>8. CycleFrom(c, left) = {f[i] : i \in N..(2 * N)}
  BY <1>6, <1>7
<1>9. /\ f \in [0..(2 * N) -> left]
      /\ \A i \in 1..(2 * N) : f[i] = FirstOf(f[i - 1], left)
  BY <1>2, <1>3
<1> QED
  BY <1>8, <1>9 DEF left

\* Each of a walk's cycle waits for one of the same cycle.
LEMMA CycleCloses ==
    ASSUME OrderTypeOK, NEW c \in Remaining
    PROVE  /\ CycleFrom(c, Remaining) \subseteq Remaining
           /\ CycleFrom(c, Remaining) # {}
           /\ \A x \in CycleFrom(c, Remaining) : Waits(x) \cap CycleFrom(c, Remaining) # {}
<1> DEFINE left == Remaining
           cycle == CycleFrom(c, left)
           S == N..(2 * N)
<1>0. N \in Nat /\ 2 * N \in Nat /\ IsFiniteSet(Contributions) /\ left \subseteq Contributions
  <2>1. N \in Nat /\ 2 * N \in Nat /\ IsFiniteSet(Contributions)
    BY ManyContributions
  <2>2. left \subseteq Contributions
    BY DEF Remaining, OrderTypeOK
  <2> QED
    BY <2>1, <2>2
<1>1. PICK f \in [0..(2 * N) -> left] :
        /\ \A i \in 1..(2 * N) : f[i] = FirstOf(f[i - 1], left)
        /\ cycle = {f[i] : i \in S}
  BY WalkGoesOn
<1>2. \A x \in left : FirstOf(x, left) \in Waits(x)
  BY LeftWaits
<1> HIDE DEF left, cycle
<1>3. ASSUME NEW i \in S
      PROVE  i \in 0..(2 * N) /\ f[i] \in left
  <2>1. i \in 0..(2 * N)
    BY <1>0
  <2> QED
    BY <2>1, <1>1
<1>4. cycle \subseteq left
  BY <1>1, <1>3
<1>5. cycle # {}
  <2>1. N \in S
    BY <1>0
  <2> QED
    BY <1>1, <2>1
<1>6. PICK a \in S, b \in S : a < b /\ f[a] = f[b]
  <2> DEFINE h == [i \in S |-> f[i]]
  <2>1. h \in [S -> left]
    BY <1>3
  <2>2. IsFiniteSet(S) /\ Cardinality(S) = N + 1
    <3>1. N \in Int /\ 2 * N \in Int /\ ~(N > 2 * N) /\ 2 * N - N + 1 = N + 1
      BY <1>0
    <3> QED
      BY <3>1, FS_Interval
  <2>3. IsFiniteSet(left) /\ Cardinality(left) < Cardinality(S)
    <3>1. IsFiniteSet(left) /\ Cardinality(left) <= N
      BY <1>0, FS_Subset DEF N
    <3>2. Cardinality(left) \in Nat
      BY <3>1, FS_CardinalityType
    <3> QED
      BY <3>1, <3>2, <2>2, <1>0
  <2>4. \E x, y \in S : x # y /\ h[x] = h[y]
    <3> HIDE DEF h, S
    <3> QED
      BY <2>1, <2>2, <2>3, FS_PigeonHole
  <2>5. PICK x \in S, y \in S : x # y /\ f[x] = f[y]
    BY <2>4
  <2>6. x < y \/ y < x
    BY <2>5, <1>0
  <2> QED
    BY <2>5, <2>6
<1>7. a \in Nat /\ b \in Nat /\ N <= a /\ b <= 2 * N /\ a < b
  BY <1>0, <1>6
\* From where it repeats, the walk goes the same way again.
<1>8. f[a + (2 * N - b)] = f[2 * N]
  <2> DEFINE m == 2 * N - b
             R == {k \in 0..m : f[a + k] = f[b + k]}
  <2>1. m \in Nat
    BY <1>0, <1>7
  <2>2. 0 \in R
    <3>1. a + 0 = a /\ b + 0 = b /\ 0 \in 0..m
      BY <1>7, <2>1
    <3> QED
      BY <3>1, <1>6
  <2>3. ASSUME NEW k \in 1..m, k - 1 \in R
        PROVE  k \in R
    <3>1. f[a + (k - 1)] = f[b + (k - 1)]
      BY <2>3
    <3> HIDE DEF R
    <3>2. /\ a + k \in 1..(2 * N) /\ (a + k) - 1 = a + (k - 1)
          /\ b + k \in 1..(2 * N) /\ (b + k) - 1 = b + (k - 1)
          /\ k \in 0..m
      BY <1>0, <1>7, <2>1
    <3>3. /\ f[a + k] = FirstOf(f[(a + k) - 1], left)
          /\ f[b + k] = FirstOf(f[(b + k) - 1], left)
      BY <3>2, <1>1
    <3>4. f[a + k] = f[b + k]
      BY <3>1, <3>2, <3>3
    <3> QED
      BY <3>2, <3>4 DEF R
  <2> HIDE DEF R, m
  <2>4. 0..m \subseteq R
    BY <2>1, <2>2, <2>3, UpTo
  <2>5. m \in 0..m /\ b + m = 2 * N
    BY <2>1, <1>0, <1>7 DEF m
  <2>6. f[a + m] = f[b + m]
    BY <2>4, <2>5 DEF R
  <2> QED
    BY <2>5, <2>6 DEF m
<1>9. ASSUME NEW x \in cycle
      PROVE  Waits(x) \cap cycle # {}
  <2>1. PICK i \in S : x = f[i] /\ i < 2 * N
    <3>1. PICK j \in S : x = f[j]
      BY <1>1
    <3>2. CASE j < 2 * N
      BY <3>1, <3>2
    <3>3. CASE ~(j < 2 * N)
      <4>1. j = 2 * N
        BY <3>3, <1>0
      <4>2. a + (2 * N - b) \in S /\ a + (2 * N - b) < 2 * N
        BY <1>0, <1>7
      <4> QED
        BY <3>1, <4>1, <4>2, <1>8
    <3> QED
      BY <3>2, <3>3
  <2>2. i + 1 \in S /\ i + 1 \in 1..(2 * N) /\ (i + 1) - 1 = i
    BY <2>1, <1>0
  <2>3. f[i + 1] = FirstOf(x, left)
    BY <2>1, <2>2, <1>1
  <2>4. x \in left /\ f[i + 1] \in Waits(x)
    BY <2>1, <2>3, <1>2, <1>3
  <2>5. f[i + 1] \in cycle
    BY <2>2, <1>1
  <2> QED
    BY <2>4, <2>5
<1> QED
  BY <1>4, <1>5, <1>9 DEF left, cycle

LEMMA SomebodyToRefuse == OrderTypeOK => CyclesFound
<1> SUFFICES ASSUME OrderTypeOK, Remaining # {}
             PROVE  /\ InCycles # {}
                    /\ InCycles \subseteq Remaining
                    /\ \A x \in InCycles : Waits(x) \cap InCycles # {}
  BY DEF CyclesFound
<1>1. InCycles = UNION {CycleFrom(c, Remaining) : c \in Remaining}
  BY DEF InCycles
<1>2. ASSUME NEW x \in InCycles
      PROVE  x \in Remaining /\ Waits(x) \cap InCycles # {}
  <2>1. PICK c \in Remaining : x \in CycleFrom(c, Remaining)
    BY <1>1
  <2>2. /\ x \in Remaining
        /\ Waits(x) \cap CycleFrom(c, Remaining) # {}
    BY <2>1, CycleCloses
  <2>3. CycleFrom(c, Remaining) \subseteq InCycles
    BY <1>1
  <2> QED
    BY <2>2, <2>3
<1>3. InCycles # {}
  <2>1. PICK c \in Remaining : TRUE
    OBVIOUS
  <2>2. CycleFrom(c, Remaining) # {}
    BY CycleCloses
  <2> QED
    BY <1>1, <2>2
<1> QED
  BY <1>2, <1>3

-----------------------------------------------------------------------------
(* The rounds of order_catalog.                                            *)

Named == {c \in Contributions : Bad \notin Waits(c)}
Runnable == UNION {s \in SUBSET Named : CanRun(s)}
CrossesInRunnable == {c \in Runnable : \E t \in Waits(c) \cap Runnable : kind[t] # kind[c]}

\* Effects and collectors do not both wait for each other.
OneWay == \E k \in Kinds : \A c \in CrossesInRunnable : kind[c] # k

\* Until the lists resolve everything is in; then only who names something is in,
\* and who can run, unless both kinds cross; what is in at the end can run, as its
\* levels say.
OrderInv ==
    /\ OrderTypeOK
    /\ step = "resolve" => catalog = Contributions
    /\ step # "resolve" => catalog \subseteq Named
    /\ step # "resolve" /\ OneWay => Runnable \subseteq catalog
    /\ step = "done" => CanRun(catalog) /\ OrderHonoured

\* What a list resolves to is what it names, less what is off.
LEMMA ResolvedNames ==
    ASSUME NEW list \in Seq(Targets)
    PROVE  /\ Resolved(list) \in Seq(Targets)
           /\ {Resolved(list)[i] : i \in DOMAIN Resolved(list)}
                = {list[i] : i \in DOMAIN list} \ {Idle}
<1> DEFINE L == Len(list)
           T == Seq(Targets)
           Add(i, s) == IF list[i] = Idle THEN s ELSE Append(s, list[i])
           g == [i \in 1..L |-> [s \in T |-> Add(i, s)]]
           Step(f) == [i \in 0..L |->
                         IF i = 0 THEN <<>>
                         ELSE IF list[i] = Idle THEN f[i - 1] ELSE Append(f[i - 1], list[i])]
           Names(s) == {s[i] : i \in DOMAIN s}
<1>0. L \in Nat /\ DOMAIN list = 1..L /\ \A i \in 1..L : list[i] \in Targets
  OBVIOUS
<1>1. \A i \in 1..L : \A s \in T : Add(i, s) \in T
  BY <1>0
<1>2. g \in [1..L -> [T -> T]] /\ <<>> \in T
  <2> HIDE DEF Add
  <2>1. <<>> \in T
    OBVIOUS
  <2> HIDE DEF T, L
  <2> QED
    BY <1>1, <2>1
<1>3. PICK f \in [0..L -> T] : f[0] = <<>> /\ \A i \in 1..L : f[i] = g[i][f[i - 1]]
  <2> DEFINE none == <<>>
  <2>1. L \in Nat /\ none \in T /\ g \in [1..L -> [T -> T]]
    BY <1>0, <1>2
  <2> HIDE DEF g, T, L, none
  <2>2. \E f \in [0..L -> T] : f[0] = none /\ \A i \in 1..L : f[i] = g[i][f[i - 1]]
    BY <2>1, StepsTaken
  <2> QED
    BY <2>2 DEF none
<1>4. ASSUME NEW i \in 1..L
      PROVE  f[i] = Add(i, f[i - 1]) /\ f[i - 1] \in T /\ i \in 0..L /\ i # 0
  <2>1. i - 1 \in 0..L /\ i \in 0..L /\ i # 0
    BY <1>0
  <2> HIDE DEF Add, T, L
  <2>2. f[i - 1] \in T
    BY <2>1, <1>3
  <2>3. f[i] = g[i][f[i - 1]]
    BY <1>3
  <2> QED
    BY <2>1, <2>2, <2>3
<1>5. f = Step(f)
  <2>1. ASSUME NEW n \in 0..L
        PROVE  f[n] = Step(f)[n]
    <3>1. CASE n = 0
      BY <3>1, <1>3
    <3>2. CASE n # 0
      <4>1. n \in 1..L
        BY <3>2, <1>0
      <4>2. f[n] = Add(n, f[n - 1])
        BY <4>1, <1>4
      <4> HIDE DEF T, L
      <4> QED
        BY <3>2, <4>2
    <3> QED
      BY <3>1, <3>2
  <2> QED
    BY <1>3, <2>1
<1> DEFINE r == CHOOSE h : h = Step(h)
<1>6. r = Step(r)
  <2> HIDE DEF Step
  <2> QED
    BY <1>5
<1>7. Resolved(list) = r[L]
  BY DEF Resolved
<1> HIDE DEF r
<1> DEFINE S == {k \in 0..L : r[k] \in T /\ Names(r[k]) = {list[j] : j \in 1..k} \ {Idle}}
<1>8. 0 \in S
  <2>1. r[0] = <<>> /\ 0 \in 0..L
    BY <1>0, <1>6
  <2>2. DOMAIN <<>> = {} /\ 1..0 = {} /\ <<>> \in T
    OBVIOUS
  <2> QED
    BY <2>1, <2>2
<1>9. ASSUME NEW k \in 1..L, k - 1 \in S
      PROVE  k \in S
  <2>1. r[k - 1] \in T /\ Names(r[k - 1]) = {list[j] : j \in 1..(k - 1)} \ {Idle}
    BY <1>9
  <2> HIDE DEF S, Names
  <2>2. k \in 0..L /\ k # 0 /\ list[k] \in Targets
    BY <1>0
  <2>3. r[k] = Add(k, r[k - 1])
    BY <2>2, <1>6
  <2>4. {list[j] : j \in 1..k} = {list[j] : j \in 1..(k - 1)} \cup {list[k]}
    <3>1. 1..k = (1..(k - 1)) \cup {k}
      BY <1>0
    <3> QED
      BY <3>1
  <2>5. CASE list[k] = Idle
    <3>1. r[k] = r[k - 1]
      BY <2>3, <2>5
    <3>2. Names(r[k]) = {list[j] : j \in 1..k} \ {Idle}
      BY <3>1, <2>1, <2>4, <2>5
    <3> QED
      BY <2>1, <2>2, <3>1, <3>2 DEF S
  <2>6. CASE list[k] # Idle
    <3>1. r[k] = Append(r[k - 1], list[k])
      BY <2>3, <2>6
    <3>2. r[k] \in T
      BY <3>1, <2>1, <2>2
    <3>3. Names(r[k]) = Names(r[k - 1]) \cup {list[k]}
      <4> DEFINE s == r[k - 1]
                 e == list[k]
      <4>1. s \in Seq(Targets) /\ e \in Targets
        BY <2>1, <2>2
      <4> HIDE DEF s, e
      <4>2. Names(Append(s, e)) = Names(s) \cup {e}
        <5>1. /\ DOMAIN s = 1..Len(s) /\ Len(s) \in Nat
              /\ DOMAIN Append(s, e) = 1..(Len(s) + 1)
              /\ \A i \in 1..Len(s) : Append(s, e)[i] = s[i]
              /\ Append(s, e)[Len(s) + 1] = e
          BY <4>1
        <5>2. 1..(Len(s) + 1) = (1..Len(s)) \cup {Len(s) + 1}
          BY <5>1
        <5> QED
          BY <5>1, <5>2 DEF Names
      <4> QED
        BY <3>1, <4>2 DEF s, e
    <3>4. Names(r[k]) = {list[j] : j \in 1..k} \ {Idle}
      BY <3>3, <2>1, <2>4, <2>6
    <3> QED
      BY <2>2, <3>2, <3>4 DEF S
  <2> QED
    BY <2>5, <2>6
<1> HIDE DEF S, T
<1>10. 0..L \subseteq S
  BY <1>0, <1>8, <1>9, UpTo
<1>11. L \in S
  BY <1>0, <1>10
<1>12. r[L] \in T /\ Names(r[L]) = {list[j] : j \in 1..L} \ {Idle}
  BY <1>11 DEF S
<1> QED
  BY <1>0, <1>7, <1>12 DEF T

\* Who can run is never among those that go for what they wait for.
LEMMA RunnableStays ==
    ASSUME OrderTypeOK, NEW s \in SUBSET catalog, CanRun(s)
    PROVE  s \cap (Unknown \cup InCycles) = {}
<1>0. \A c \in s : Waits(c) \subseteq s \cup {Core}
  BY DEF CanRun
<1>1. s \cap Unknown = {}
  BY <1>0 DEF Unknown
<1>2. s \cap Remaining = {}
  <2> DEFINE u == s \cap Remaining
  <2>1. SUFFICES ASSUME u # {}
                 PROVE  FALSE
    OBVIOUS
  <2>2. u \in (SUBSET s) \ {{}}
    BY <2>1
  <2>3. PICK c \in u : Waits(c) \cap u = {}
    BY <2>2 DEF CanRun
  <2>4. PICK t \in Waits(c) : t \in Remaining
    BY <2>3, LeftWaits
  <2>5. t # Core
    <3>1. t \in Contributions
      BY <2>4 DEF Remaining, OrderTypeOK
    <3> QED
      BY <3>1, ManyContributions DEF Core
  <2>6. t \in s
    BY <1>0, <2>3, <2>4, <2>5
  <2> QED
    BY <2>3, <2>4, <2>6
<1>3. InCycles \subseteq Remaining
  <2>1. CyclesFound
    BY SomebodyToRefuse
  <2>2. ASSUME NEW x \in InCycles
        PROVE  x \in Remaining
    <3>1. PICK c \in Remaining : x \in CycleFrom(c, Remaining)
      BY DEF InCycles
    <3> QED
      BY <3>1, CycleCloses
  <2> QED
    BY <2>2
<1> QED
  BY <1>1, <1>2, <1>3

\* A catalog that compiles and holds who can run is exactly them, and crosses as
\* they do.
LEMMA CompiledIsRunnable ==
    ASSUME OrderTypeOK, Unknown = {}, Remaining = {}, catalog \subseteq Named,
           Runnable \subseteq catalog
    PROVE  catalog = Runnable /\ Crossing = CrossesInRunnable
<1>1. CanRun(catalog)
  BY CompiledCanRun
<1>2. catalog = Runnable
  BY <1>1 DEF Runnable
<1> QED
  BY <1>2 DEF Crossing, CrossesInRunnable, Preds

\* A catalog that compiles without crossings is honoured by its levels.
LEMMA CompiledHonoured ==
    ASSUME OrderTypeOK, Unknown = {}, Remaining = {}, Crossings = {}
    PROVE  /\ \A c \in catalog : \A t \in Waits(c) \ {Core} :
                /\ t \in catalog
                /\ IF kind[t] = kind[c] THEN LevelOf(t) < LevelOf(c)
                                        ELSE kind[t] \in Gates(kind[c])
           /\ ~("effect" \in Gates("collector") /\ "collector" \in Gates("effect"))
<1>1. ASSUME NEW c \in catalog, NEW t \in Waits(c) \ {Core}
      PROVE  /\ t \in catalog
             /\ IF kind[t] = kind[c] THEN LevelOf(t) < LevelOf(c)
                                     ELSE kind[t] \in Gates(kind[c])
  <2>1. t \in Preds(c) /\ t \in catalog
    BY DEF Unknown, Preds
  <2>2. LevelOf(t) < LevelOf(c)
    BY <2>1, LevelsRise
  <2>3. kind[t] # kind[c] => kind[t] \in Gates(kind[c])
    BY <2>1 DEF Gates
  <2> QED
    BY <2>1, <2>2, <2>3
<1>2. ASSUME NEW k \in Kinds, NEW other \in Gates(k)
      PROVE  \E c \in Crossing : kind[c] = k
  <2>1. \E c \in catalog : \E t \in Preds(c) : kind[c] = k /\ kind[t] = other /\ other # k
    BY DEF Gates
  <2> QED
    BY <2>1 DEF Crossing
<1>3. ~("effect" \in Gates("collector") /\ "collector" \in Gates("effect"))
  <2>1. SUFFICES ASSUME "effect" \in Gates("collector"), "collector" \in Gates("effect")
                 PROVE  FALSE
    OBVIOUS
  <2>2. \A k \in Kinds : \E c \in Crossing : kind[c] = k
    BY <1>2, <2>1 DEF Kinds
  <2>3. Crossings = Crossing
    BY <2>2 DEF Crossings
  <2>4. Crossing # {}
    BY <2>2 DEF Kinds
  <2> QED
    BY <2>3, <2>4
<1> QED
  BY <1>1, <1>3

LEMMA OrderInvInit == OrderInit => OrderInv
<1> SUFFICES ASSUME OrderInit
             PROVE  OrderTypeOK /\ step = "resolve" /\ catalog = Contributions
  BY DEF OrderInv
<1>1. after \in [Contributions -> Seq(Targets)]
  BY ListsAssumption DEF OrderInit
<1> QED
  BY <1>1 DEF OrderInit, OrderTypeOK

\* Who can run is settled once the lists resolve.
LEMMA SameLists ==
    ASSUME after' = after, kind' = kind
    PROVE  /\ \A c : Waits(c)' = Waits(c)
           /\ Named' = Named
           /\ Runnable' = Runnable
           /\ OneWay' = OneWay
           /\ \A s : CanRun(s) => CanRun(s)'
<1>1. \A c : Waits(c)' = Waits(c)
  BY DEF Waits
<1>2. Named' = Named
  BY <1>1 DEF Named
<1>3. \A s : CanRun(s)' = CanRun(s)
  BY <1>1 DEF CanRun
<1>4. Runnable' = Runnable
  BY <1>2, <1>3 DEF Runnable
<1>5. CrossesInRunnable' = CrossesInRunnable
  BY <1>1, <1>4 DEF CrossesInRunnable
<1>6. OneWay' = OneWay
  BY <1>5 DEF OneWay
<1> QED
  BY <1>1, <1>2, <1>3, <1>4, <1>6

LEMMA OrderInvInductive == OrderInv /\ [OrderNext]_orderVars => OrderInv'
<1> SUFFICES ASSUME OrderInv, [OrderNext]_orderVars
             PROVE  OrderInv'
  OBVIOUS
<1>0. OrderTypeOK
  BY DEF OrderInv
<1>1. CASE Resolve
  <2>1. /\ step = "resolve" /\ catalog = Contributions /\ step' = "compile"
        /\ after' = [c \in Contributions |-> Resolved(after[c])]
        /\ catalog' = {c \in catalog : Bad \notin Waits(c)}
        /\ kind' = kind
    BY <1>1 DEF Resolve, OrderInv
  <2>2. ASSUME NEW c \in Contributions
        PROVE  after'[c] \in Seq(Targets) /\ Waits(c)' = Waits(c) \ {Idle}
    <3>1. after[c] \in Seq(Targets) /\ after'[c] = Resolved(after[c])
      BY <1>0, <2>1 DEF OrderTypeOK
    <3>2. /\ after'[c] \in Seq(Targets)
          /\ {after'[c][i] : i \in DOMAIN after'[c]} = {after[c][i] : i \in DOMAIN after[c]} \ {Idle}
      BY <3>1, ResolvedNames
    <3> QED
      BY <3>2 DEF Waits
  <2>3. OrderTypeOK'
    <3>1. after' \in [Contributions -> Seq(Targets)]
      BY <2>1, <2>2
    <3> QED
      BY <1>0, <2>1, <3>1 DEF OrderTypeOK
  <2>4. catalog' = Named'
    <3>1. Bad # Idle
      BY DEF Bad, Idle
    <3>2. \A c \in Contributions : Bad \in Waits(c)' <=> Bad \in Waits(c)
      BY <2>2, <3>1
    <3>3. Named' = {c \in Contributions : Bad \notin Waits(c)'}
      BY DEF Named
    <3> QED
      BY <2>1, <3>2, <3>3
  <2>5. Runnable' \subseteq Named'
    BY DEF Runnable
  <2> QED
    BY <2>1, <2>3, <2>4, <2>5 DEF OrderInv
<1>2. CASE RefuseUnordered
  <2>1. /\ step = "compile" /\ step' = "compile" /\ after' = after /\ kind' = kind
        /\ catalog' = catalog \ (Unknown \cup InCycles)
    BY <1>2 DEF RefuseUnordered
  <2>2. OrderTypeOK'
    BY <1>0, <2>1 DEF OrderTypeOK
  <2>3. Named' = Named /\ Runnable' = Runnable /\ OneWay' = OneWay
    BY <2>1, SameLists
  <2>4. catalog' \subseteq Named'
    BY <2>1, <2>3 DEF OrderInv
  <2>5. ASSUME OneWay
        PROVE  Runnable \subseteq catalog'
    <3>1. Runnable \subseteq catalog
      BY <2>1, <2>5 DEF OrderInv
    <3>2. ASSUME NEW s \in SUBSET Named, CanRun(s)
          PROVE  s \subseteq catalog'
      <4>1. s \in SUBSET catalog
        BY <3>1, <3>2 DEF Runnable
      <4>2. s \cap (Unknown \cup InCycles) = {}
        BY <1>0, <3>2, <4>1, RunnableStays
      <4> QED
        BY <2>1, <4>1, <4>2
    <3> QED
      BY <3>2 DEF Runnable
  <2> QED
    BY <2>1, <2>2, <2>3, <2>4, <2>5 DEF OrderInv
<1>3. CASE RefuseCrossings
  <2>1. /\ step = "compile" /\ step' = "compile" /\ after' = after /\ kind' = kind
        /\ catalog' = catalog \ Crossings
        /\ Unknown = {} /\ Remaining = {} /\ Crossings # {}
    BY <1>3 DEF RefuseCrossings
  <2>2. OrderTypeOK'
    BY <1>0, <2>1 DEF OrderTypeOK
  <2>3. Named' = Named /\ Runnable' = Runnable /\ OneWay' = OneWay
    BY <2>1, SameLists
  <2>4. catalog \subseteq Named /\ catalog' \subseteq Named'
    BY <2>1, <2>3 DEF OrderInv
  <2>5. ~OneWay
    <3>1. SUFFICES ASSUME OneWay
                   PROVE  FALSE
      OBVIOUS
    <3>2. Runnable \subseteq catalog
      BY <2>1, <3>1 DEF OrderInv
    <3>3. Crossing = CrossesInRunnable
      BY <1>0, <2>1, <2>4, <3>2, CompiledIsRunnable
    <3>4. \A k \in Kinds : \E c \in Crossing : kind[c] = k
      BY <2>1 DEF Crossings
    <3> QED
      BY <3>1, <3>3, <3>4 DEF OneWay
  <2> QED
    BY <2>1, <2>2, <2>3, <2>4, <2>5 DEF OrderInv
<1>4. CASE Ordered
  <2>1. /\ step = "compile" /\ step' = "done"
        /\ after' = after /\ kind' = kind /\ catalog' = catalog
        /\ Unknown = {} /\ Remaining = {} /\ Crossings = {}
        /\ level' = [c \in Contributions |-> IF c \in catalog THEN LevelOf(c) ELSE NoLevel]
    BY <1>4 DEF Ordered
  <2>2. OrderTypeOK'
    BY <1>0, <2>1 DEF OrderTypeOK
  <2>3. Named' = Named /\ Runnable' = Runnable /\ OneWay' = OneWay
    BY <2>1, SameLists
  <2>4. catalog' \subseteq Named' /\ (OneWay' => Runnable' \subseteq catalog')
    BY <2>1, <2>3 DEF OrderInv
  <2>5. CanRun(catalog)'
    <3>1. CanRun(catalog)
      BY <1>0, <2>1, CompiledCanRun
    <3>2. \A c : Waits(c)' = Waits(c)
      BY <2>1, SameLists
    <3> QED
      BY <2>1, <3>1, <3>2 DEF CanRun
  <2>6. OrderHonoured'
    <3>1. \A c : Waits(c)' = Waits(c) /\ Preds(c)' = Preds(c)
      BY <2>1 DEF Waits, Preds
    <3>2. \A k : Gates(k)' = Gates(k)
      BY <2>1, <3>1 DEF Gates
    <3>3. \A c \in catalog : level'[c] = LevelOf(c)
      BY <1>0, <2>1 DEF OrderTypeOK
    <3>4. \A c \in catalog : \A t \in Waits(c) \ {Core} :
             /\ t \in catalog
             /\ IF kind[t] = kind[c] THEN level'[t] < level'[c]
                                     ELSE kind[t] \in Gates(kind[c])
      <4>1. \A c \in catalog : \A t \in Waits(c) \ {Core} :
               /\ t \in catalog
               /\ IF kind[t] = kind[c] THEN LevelOf(t) < LevelOf(c)
                                       ELSE kind[t] \in Gates(kind[c])
        BY <1>0, <2>1, CompiledHonoured
      <4> QED
        BY <3>3, <4>1
    <3>5. ~("effect" \in Gates("collector") /\ "collector" \in Gates("effect"))
      BY <1>0, <2>1, CompiledHonoured
    <3>6. /\ \A c \in catalog' : \A t \in Waits(c)' \ {Core} :
               /\ t \in catalog'
               /\ IF kind'[t] = kind'[c] THEN level'[t] < level'[c]
                                         ELSE kind'[t] \in Gates(kind[c])'
          /\ ~("effect" \in Gates("collector")' /\ "collector" \in Gates("effect")')
      BY <2>1, <3>1, <3>2, <3>4, <3>5
    <3> QED
      BY <3>6 DEF OrderHonoured
  <2> QED
    BY <2>1, <2>2, <2>4, <2>5, <2>6 DEF OrderInv
<1>5. CASE UNCHANGED orderVars
  <2>1. /\ after' = after /\ kind' = kind /\ catalog' = catalog
        /\ level' = level /\ step' = step
    BY <1>5 DEF orderVars
  <2>2. OrderTypeOK'
    BY <1>0, <2>1 DEF OrderTypeOK
  <2>3. /\ Named' = Named /\ Runnable' = Runnable /\ OneWay' = OneWay
        /\ \A c : Waits(c)' = Waits(c) /\ Preds(c)' = Preds(c)
    BY <2>1, SameLists DEF Preds
  <2>4. CanRun(catalog) => CanRun(catalog)'
    BY <2>1, <2>3 DEF CanRun
  <2>5. OrderHonoured => OrderHonoured'
    BY <2>1, <2>3 DEF OrderHonoured, Gates
  <2> QED
    BY <2>1, <2>2, <2>3, <2>4, <2>5 DEF OrderInv
<1> QED
  BY <1>1, <1>2, <1>3, <1>4, <1>5 DEF OrderNext

\* The invariant holds all that is checked of the order.
LEMMA OrderInvRight == OrderInv => CatalogRight
<1> SUFFICES ASSUME OrderInv
             PROVE  CatalogRight
  OBVIOUS
<1>1. CyclesFound
  BY SomebodyToRefuse DEF OrderInv
<1>2. OrderHonoured
  BY DEF OrderInv, OrderHonoured
<1>3. ASSUME step = "done", OneWay
      PROVE  catalog = Runnable
  <2>1. catalog \in SUBSET Named /\ CanRun(catalog) /\ Runnable \subseteq catalog
    BY <1>3 DEF OrderInv
  <2> QED
    BY <2>1 DEF Runnable
<1>4. NoneRefusedInVain
  BY <1>3 DEF NoneRefusedInVain, OneWay, CrossesInRunnable, Runnable, Named
<1> QED
  BY <1>1, <1>2, <1>4 DEF CatalogRight

\* However many contributions wait for each other in whatever lists, the catalog
\* order_catalog leaves runs in its levels' order, holds all that can run unless
\* both kinds cross, and each of its rounds takes somebody out.
THEOREM OrderFound == OrderSpec => []CatalogRight
BY OrderInvInit, OrderInvInductive, OrderInvRight, PTL DEF OrderSpec
=============================================================================
