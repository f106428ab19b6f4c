----------------------------- MODULE OutsideProofs -----------------------------
(***************************************************************************)
(* What is proved where oxplow meets the system it runs on: of the watch   *)
(* (FsWatch) that no write is missed, and that the pending set serves its  *)
(* subscriber; of the terminals (TerminalSessions) that the registry tells *)
(* the truth and that what is typed is served.  The two share no state:    *)
(* each has an inductive invariant of its own, over lemmas of its own.     *)
(***************************************************************************)
EXTENDS FsWatch, TerminalSessions, FiniteSetTheorems, SequenceTheorems, TLAPS

(***************************************************************************)
(* The tree.  Above is defined by recursion from a path to Root; a path is *)
(* above p when every set that holds p and is closed under Parent holds it,*)
(* and that function solves Above's equation.                              *)
(***************************************************************************)

\* A set of paths that holds the directory of each of its paths.
Climbs(S) == \A x \in S \ {Root} : Parent[x] \in S

\* What every such set that holds p holds.
Reached(p) == {q \in Paths : \A S \in SUBSET Paths : p \in S /\ Climbs(S) => q \in S}

\* Root and Parent[p] are paths.
LEMMA PathsClimb ==
    /\ Root \in Paths
    /\ Dirs \subseteq Paths /\ Files \subseteq Paths /\ IgnoreFile \in Paths
    /\ \A p \in Paths \ {Root} : Parent[p] \in Dirs /\ Parent[p] \in Paths
  BY TreeAssumption DEF Paths

\* Reached solves the equation of Above at Root.
LEMMA ReachedRoot == Reached(Root) = {Root}
<1>1. Climbs({Root}) /\ {Root} \in SUBSET Paths
  BY PathsClimb DEF Climbs
<1>2. Reached(Root) \subseteq {Root}
  BY <1>1 DEF Reached
<1>3. Root \in Reached(Root)
  BY PathsClimb DEF Reached
<1> QED
  BY <1>2, <1>3

\* Reached solves the equation of Above below Root.
LEMMA ReachedStep ==
    ASSUME NEW p \in Paths, p # Root
    PROVE  Reached(p) = {p} \cup Reached(Parent[p])
<1>1. ASSUME NEW q \in Reached(p), q # p, q \notin Reached(Parent[p]) PROVE FALSE
  <2>1. PICK S \in SUBSET Paths : Parent[p] \in S /\ Climbs(S) /\ q \notin S
    BY <1>1 DEF Reached
  <2>2. S \cup {p} \in SUBSET Paths /\ Climbs(S \cup {p})
    BY <2>1 DEF Climbs
  <2> QED
    BY <1>1, <2>1, <2>2 DEF Reached
<1>2. p \in Reached(p)
  BY DEF Reached
<1>3. ASSUME NEW q \in Reached(Parent[p]) PROVE q \in Reached(p)
  BY <1>3 DEF Reached, Climbs
<1> QED
  BY <1>1, <1>2, <1>3

\* The equation Above is defined by.
LEMMA AboveEquation ==
    Above = [p \in Paths |-> IF p = Root THEN {Root} ELSE {p} \cup Above[Parent[p]]]
<1> DEFINE F == [p \in Paths |-> Reached(p)]
<1>1. F = [p \in Paths |-> IF p = Root THEN {Root} ELSE {p} \cup F[Parent[p]]]
  <2>1. ASSUME NEW p \in Paths
        PROVE  F[p] = IF p = Root THEN {Root} ELSE {p} \cup F[Parent[p]]
    BY ReachedRoot, ReachedStep, PathsClimb
  <2> QED
    BY <2>1, Zenon
<1> HIDE DEF F
<1>2. \E G : G = [p \in Paths |-> IF p = Root THEN {Root} ELSE {p} \cup G[Parent[p]]]
  BY <1>1
<1> QED
  BY <1>2 DEF Above

\* One step of it.
LEMMA AboveRoot == Above[Root] = {Root}
  BY AboveEquation, PathsClimb

LEMMA AboveStep ==
    ASSUME NEW p \in Paths, p # Root
    PROVE  Above[p] = {p} \cup Above[Parent[p]]
  BY AboveEquation

\* From a set of paths without Root one can always climb out.
LEMMA ClimbOut ==
    ASSUME NEW S \in SUBSET (Paths \ {Root}), S # {}
    PROVE  \E p \in S : Parent[p] \notin S
  BY ClimbAssumption

\* Each path is below itself and below Root, and has only paths above it.
LEMMA AboveSelf == \A p \in Paths : p \in Above[p]
  BY AboveRoot, AboveStep

LEMMA RootAboveAll == \A p \in Paths : Root \in Above[p]
<1> DEFINE S == {p \in Paths : Root \notin Above[p]}
<1>1. Root \notin S
  BY AboveRoot
<1>2. CASE S # {}
  <2>1. PICK p \in S : Parent[p] \notin S
    BY <1>1, <1>2, ClimbOut
  <2> QED
    BY <1>1, <2>1, AboveStep, PathsClimb
<1> QED
  BY <1>2

LEMMA AboveInPaths == \A p \in Paths : Above[p] \subseteq Paths
<1> DEFINE S == {p \in Paths : ~(Above[p] \subseteq Paths)}
<1>1. Root \notin S
  BY AboveRoot, PathsClimb
<1>2. CASE S # {}
  <2>1. PICK p \in S : Parent[p] \notin S
    BY <1>1, <1>2, ClimbOut
  <2> QED
    BY <1>1, <2>1, AboveStep, PathsClimb
<1> QED
  BY <1>2

\* Above a directory, and above what holds a path, are only directories.
LEMMA AboveInDirs == \A d \in Dirs : Above[d] \subseteq Dirs
<1> DEFINE S == {d \in Dirs : ~(Above[d] \subseteq Dirs)}
<1>1. Root \notin S
  BY AboveRoot, TreeAssumption
<1>2. CASE S # {}
  <2>1. PICK d \in S : Parent[d] \notin S
    BY <1>1, <1>2, ClimbOut, PathsClimb
  <2> QED
    BY <1>1, <2>1, AboveStep, PathsClimb
<1> QED
  BY <1>2

\* StartsWith is transitive.
LEMMA AboveTransitive ==
    ASSUME NEW p \in Paths, NEW q \in Above[p], NEW d \in Above[q]
    PROVE  d \in Above[p]
<1> DEFINE S == {x \in Paths : \E y \in Above[x] : ~(Above[y] \subseteq Above[x])}
<1>1. Root \notin S
  BY AboveRoot
<1>2. CASE S # {}
  <2>1. PICK x \in S : Parent[x] \notin S
    BY <1>1, <1>2, ClimbOut
  <2>2. Above[x] = {x} \cup Above[Parent[x]] /\ Parent[x] \in Paths
    BY <1>1, <2>1, AboveStep, PathsClimb
  <2>3. \A y \in Above[Parent[x]] : Above[y] \subseteq Above[Parent[x]]
    BY <2>1, <2>2
  <2> QED
    BY <2>1, <2>2, <2>3
<1> QED
  BY <1>2

\* A path is not above its own directory, and two paths are not above each other.
LEMMA NotAboveParent == \A p \in Paths \ {Root} : p \notin Above[Parent[p]]
<1> DEFINE S == {p \in Paths \ {Root} : p \in Above[Parent[p]]}
<1>1. CASE S # {}
  <2>1. PICK p \in S : Parent[p] \notin S
    BY <1>1, ClimbOut
  <2>2. p # Root /\ p \in Paths /\ Parent[p] \in Paths /\ p \in Above[Parent[p]]
    BY <2>1, PathsClimb
  <2>3. Parent[p] # p
    BY <2>1
  <2>4. Parent[p] # Root
    BY <2>2, AboveRoot
  <2>5. p \in Above[Parent[Parent[p]]]
    BY <2>2, <2>3, <2>4, AboveStep
  <2>6. Parent[p] \in Above[p]
    BY <2>2, AboveStep, AboveSelf
  <2>7. Parent[p] \in Above[Parent[Parent[p]]]
    BY <2>2, <2>4, <2>5, <2>6, AboveTransitive, PathsClimb
  <2> QED
    BY <2>1, <2>2, <2>4, <2>7
<1> QED
  BY <1>1

LEMMA AboveAntisymmetric ==
    ASSUME NEW p \in Paths, NEW q \in Above[p], p \in Above[q]
    PROVE  p = q
<1>1. CASE p = Root
  BY <1>1, AboveRoot
<1>2. CASE p # Root /\ p # q
  <2>1. q \in Above[Parent[p]] /\ Parent[p] \in Paths
    BY <1>2, AboveStep, PathsClimb
  <2>2. p \in Above[Parent[p]]
    BY <2>1, AboveTransitive
  <2> QED
    BY <1>2, <2>2, NotAboveParent
<1> QED
  BY <1>1, <1>2

\* top_of: what it finds is there, and is above the path.
LEMMA TopOfAbove ==
    ASSUME NEW p \in Paths
    PROVE  TopOf(p) \in Above[p] /\ TopOf(p) \in Dirs
<1>1. CASE p = Root \/ Parent[p] = Root
  BY <1>1, RootAboveAll, TreeAssumption DEF TopOf
<1>2. CASE p # Root /\ Parent[p] # Root
  <2> DEFINE Tops(x) == {d \in Above[x] \ {Root} : Parent[d] = Root}
             S == {x \in Paths \ {Root} : Tops(x) = {}}
  <2>1. \A x \in Paths \ {Root} : x \notin S
    <3>1. CASE S # {}
      <4>1. PICK x \in S : Parent[x] \notin S
        BY <3>1, ClimbOut
      <4>2. CASE Parent[x] = Root
        BY <4>1, <4>2, AboveSelf
      <4>3. CASE Parent[x] # Root
        <5>1. Tops(Parent[x]) # {}
          BY <4>1, <4>3, PathsClimb
        <5>2. Above[Parent[x]] \subseteq Above[x]
          BY <4>1, AboveStep
        <5> QED
          BY <4>1, <5>1, <5>2
      <4> QED
        BY <4>2, <4>3
    <3> QED
      BY <3>1
  <2>2. Tops(Parent[p]) # {}
    BY <1>2, <2>1, PathsClimb
  <2>3. Above[p] = {p} \cup Above[Parent[p]] /\ Parent[p] \in Dirs
    BY <1>2, AboveStep, PathsClimb
  <2>4. TopOf(p) \in Tops(p)
    <3>1. Tops(p) # {}
      BY <2>2, <2>3
    <3> QED
      BY <1>2, <3>1 DEF TopOf
  <2>5. TopOf(p) # p
    BY <1>2, <2>4
  <2>6. TopOf(p) \in Above[Parent[p]]
    BY <2>3, <2>4, <2>5
  <2> QED
    BY <2>3, <2>4, <2>6, AboveInDirs
<1> QED
  BY <1>1, <1>2
(***************************************************************************)
(* The pending set: what is told in it stays told by each of its           *)
(* operations, and it stays minimal and bounded.                           *)
(***************************************************************************)

Batches == [paths : SUBSET Paths, rescans : SUBSET Dirs]

\* A subscriber that takes s looks at p.
Told(s, p) == p \in s.paths \/ Covered(s, p)

\* Batch's promise, of any state of the pending set.
Minimal(s) ==
    /\ IsFiniteSet(s.paths) /\ Cardinality(s.paths) <= MaxPending
    /\ \A p \in s.paths : ~Covered(s, p)
    /\ \A d, e \in s.rescans : StartsWith(d, e) => d = e

\* Among directories, each has one of them at or above it that has none above it.
LEMMA TopmostAbove ==
    ASSUME NEW D \in SUBSET Dirs, NEW d \in D
    PROVE  \E e \in D : e \in Above[d] /\ \A x \in D : StartsWith(e, x) => x = e
<1> DEFINE S == {x \in Above[d] : Above[x] \cap D # {}}
<1>1. d \in Paths /\ S \in SUBSET Paths /\ d \in S
  BY AboveInPaths, AboveSelf, PathsClimb
<1>2. PICK x \in S : x = Root \/ Parent[x] \notin S
  BY <1>1, ClimbAssumption
<1>3. PICK e \in D : e \in Above[x]
  BY <1>2
<1>4. x \in Paths /\ x \in Above[d]
  BY <1>1, <1>2
<1>5. \A y \in Above[x] \cap D : y = x
  <2>1. CASE x = Root
    BY <2>1, AboveRoot
  <2>2. CASE x # Root
    <3>1. Above[x] = {x} \cup Above[Parent[x]] /\ Parent[x] \in Paths
      BY <1>4, <2>2, AboveStep, PathsClimb
    <3>2. Parent[x] \in Above[d]
      BY <1>1, <1>4, <3>1, AboveSelf, AboveTransitive
    <3>3. Above[Parent[x]] \cap D = {}
      BY <1>2, <2>2, <3>2
    <3> QED
      BY <3>1, <3>3
  <2> QED
    BY <2>1, <2>2
<1> QED
  BY <1>3, <1>4, <1>5 DEF StartsWith

\* What is under a directory above p is covered by a rescan of what is above that.
LEMMA CoveredFromAbove ==
    ASSUME NEW s \in Batches, NEW p \in Paths, NEW d \in Above[p], NEW e \in Above[d],
           e \in s.rescans
    PROVE  Covered(s, p)
  BY AboveTransitive DEF Covered, StartsWith, Batches

LEMMA CollapseKeeps ==
    ASSUME NEW s \in Batches
    PROVE  /\ Collapse(s) \in Batches
           /\ \A p \in Paths : Told(s, p) => Told(Collapse(s), p)
           /\ Collapse(s).paths = {}
           /\ \A d, e \in Collapse(s).rescans : StartsWith(d, e) => d = e
<1> DEFINE tops == {TopOf(p) : p \in s.paths}
           all == s.rescans \cup tops
<1>1. all \in SUBSET Dirs
  BY TopOfAbove DEF Batches
<1>2. /\ Collapse(s).paths = {}
      /\ Collapse(s).rescans = {d \in all : \A e \in all : StartsWith(d, e) => e = d}
  BY DEF Collapse
<1>3. Collapse(s) \in Batches
  BY <1>1 DEF Collapse, Batches
<1>4. ASSUME NEW p \in Paths, NEW d \in all, d \in Above[p]
      PROVE  Covered(Collapse(s), p)
  <2>1. PICK e \in all : e \in Above[d] /\ \A x \in all : StartsWith(e, x) => x = e
    BY <1>1, TopmostAbove
  <2>2. e \in Collapse(s).rescans
    BY <1>2, <2>1
  <2> QED
    BY <1>3, <1>4, <2>1, <2>2, CoveredFromAbove
<1>5. ASSUME NEW p \in Paths, Told(s, p) PROVE Told(Collapse(s), p)
  <2>1. CASE p \in s.paths
    BY <1>4, <2>1, TopOfAbove DEF Told
  <2>2. CASE Covered(s, p)
    BY <1>4, <2>2 DEF Told, Covered, StartsWith
  <2> QED
    BY <1>5, <2>1, <2>2 DEF Told
<1> QED
  BY <1>2, <1>3, <1>5

LEMMA RescanKeeps ==
    ASSUME NEW s \in Batches, NEW dir \in Dirs
    PROVE  /\ InsertRescan(s, dir) \in Batches
           /\ \A p \in Paths : Told(s, p) \/ StartsWith(p, dir) => Told(InsertRescan(s, dir), p)
           /\ Minimal(s) => Minimal(InsertRescan(s, dir))
           /\ InsertRescan(s, dir).rescans # {}
<1> DEFINE n == InsertRescan(s, dir)
<1>1. CASE \E have \in s.rescans : StartsWith(dir, have)
  <2>1. n = s /\ s.rescans # {}
    BY <1>1 DEF InsertRescan
  <2>2. ASSUME NEW p \in Paths, StartsWith(p, dir) PROVE Told(s, p)
    BY <1>1, <2>2, CoveredFromAbove DEF StartsWith, Told
  <2> QED
    BY <2>1, <2>2
<1>2. CASE ~\E have \in s.rescans : StartsWith(dir, have)
  <2>1. /\ n.paths = {p \in s.paths : ~StartsWith(p, dir)}
        /\ n.rescans = {have \in s.rescans : ~StartsWith(have, dir)} \cup {dir}
        /\ n \in Batches
    BY <1>2 DEF InsertRescan, Batches
  <2>2. ASSUME NEW p \in Paths, StartsWith(p, dir) PROVE Told(n, p)
    BY <2>1, <2>2 DEF Told, Covered
  <2>3. ASSUME NEW p \in Paths, p \in s.paths PROVE Told(n, p)
    BY <2>1, <2>2, <2>3 DEF Told
  <2>4. ASSUME NEW p \in Paths, NEW d \in s.rescans, StartsWith(p, d) PROVE Told(n, p)
    <3>1. CASE StartsWith(d, dir)
      <4>1. StartsWith(p, dir)
        BY <2>4, <3>1, AboveTransitive DEF StartsWith
      <4> QED
        BY <2>2, <4>1
    <3>2. CASE ~StartsWith(d, dir)
      BY <2>1, <2>4, <3>2 DEF Told, Covered
    <3> QED
      BY <3>1, <3>2
  <2>5. ASSUME Minimal(s) PROVE Minimal(n)
    <3>1. n.paths \subseteq s.paths
      BY <2>1
    <3>2. IsFiniteSet(n.paths) /\ Cardinality(n.paths) <= Cardinality(s.paths)
      BY <2>5, <3>1, FS_Subset DEF Minimal
    <3>3. Cardinality(n.paths) <= MaxPending
      <4>1. Cardinality(n.paths) \in Nat /\ Cardinality(s.paths) \in Nat
        BY <2>5, <3>2, FS_CardinalityType DEF Minimal
      <4> QED
        BY <2>5, <3>2, <4>1, LimitsAssumption DEF Minimal
    <3>4. \A p \in n.paths : ~Covered(n, p)
      BY <2>1, <2>5 DEF Minimal, Covered
    <3>5. \A d, e \in n.rescans : StartsWith(d, e) => d = e
      BY <1>2, <2>1, <2>5 DEF Minimal
    <3> QED
      BY <3>2, <3>3, <3>4, <3>5 DEF Minimal
  <2>6. n.rescans # {}
    BY <2>1
  <2>7. ASSUME NEW p \in Paths, Told(s, p) \/ StartsWith(p, dir) PROVE Told(n, p)
    BY <2>2, <2>3, <2>4, <2>7, Zenon DEF Told, Covered
  <2> QED
    BY <2>1, <2>5, <2>6, <2>7
<1> QED
  BY <1>1, <1>2

LEMMA ChangeKeeps ==
    ASSUME NEW s \in Batches, NEW p \in Paths
    PROVE  /\ Change(s, p) \in Batches
           /\ \A q \in Paths : q = p \/ Told(s, q) => Told(Change(s, p), q)
           /\ Minimal(s) => Minimal(Change(s, p))
<1> DEFINE added == [s EXCEPT !.paths = @ \cup {p}]
<1>1. /\ added.paths = s.paths \cup {p} /\ added.rescans = s.rescans
      /\ added \in Batches
  BY DEF Batches
<1>2. \A q \in Paths : q = p \/ Told(s, q) => Told(added, q)
  BY <1>1 DEF Told, Covered
<1> HIDE DEF added
<1>3. CASE Covered(s, p)
  BY <1>3 DEF Change, Told
<1>4. CASE ~Covered(s, p) /\ Cardinality(added.paths) > MaxPending
  <2>1. Change(s, p) = Collapse(added)
    BY <1>4 DEF Change, added
  <2>2. Minimal(Collapse(added))
    <3>1. Collapse(added).paths = {}
      BY <1>1, CollapseKeeps
    <3>2. IsFiniteSet({}) /\ Cardinality({}) = 0
      BY FS_EmptySet
    <3> QED
      BY <1>1, <3>1, <3>2, CollapseKeeps, LimitsAssumption DEF Minimal
  <2> QED
    BY <1>1, <1>2, <2>1, <2>2, CollapseKeeps
<1>5. CASE ~Covered(s, p) /\ ~(Cardinality(added.paths) > MaxPending)
  <2>1. Change(s, p) = added
    BY <1>5 DEF Change, added
  <2>2. ASSUME Minimal(s) PROVE Minimal(added)
    <3>1. IsFiniteSet(added.paths)
      BY <1>1, <2>2, FS_AddElement DEF Minimal
    <3>2. Cardinality(added.paths) <= MaxPending
      <4>1. Cardinality(added.paths) \in Nat
        BY <3>1, FS_CardinalityType
      <4> QED
        BY <1>5, <4>1, LimitsAssumption
    <3> QED
      BY <1>1, <1>5, <2>2, <3>1, <3>2 DEF Minimal, Covered
  <2> QED
    BY <1>1, <1>2, <2>1, <2>2
<1> QED
  BY <1>3, <1>4, <1>5
(***************************************************************************)
(* The queues, by what is in them.                                         *)
(***************************************************************************)

LEMMA RangeAppend ==
    ASSUME NEW T, NEW q \in Seq(T), NEW e \in T
    PROVE  Append(q, e) \in Seq(T) /\ Range(Append(q, e)) = Range(q) \cup {e}
<1>1. /\ Append(q, e) \in Seq(T) /\ DOMAIN Append(q, e) = 1..(Len(q) + 1)
      /\ DOMAIN q = 1..Len(q) /\ Len(q) \in Nat
      /\ \A i \in 1..Len(q) : Append(q, e)[i] = q[i]
      /\ Append(q, e)[Len(q) + 1] = e
  OBVIOUS
<1>2. \A i \in 1..(Len(q) + 1) : i \in 1..Len(q) \/ i = Len(q) + 1
  BY <1>1
<1>3. Len(q) + 1 \in 1..(Len(q) + 1) /\ 1..Len(q) \subseteq 1..(Len(q) + 1)
  BY <1>1
<1> QED
  BY <1>1, <1>2, <1>3 DEF Range

LEMMA RangeTail ==
    ASSUME NEW T, NEW q \in Seq(T), q # <<>>
    PROVE  /\ Tail(q) \in Seq(T) /\ Head(q) \in T
           /\ Range(q) = {Head(q)} \cup Range(Tail(q))
<1>1. /\ Tail(q) \in Seq(T) /\ Head(q) \in T /\ Head(q) = q[1]
      /\ Len(q) \in Nat /\ Len(q) >= 1 /\ DOMAIN q = 1..Len(q)
      /\ DOMAIN Tail(q) = 1..(Len(q) - 1)
      /\ \A i \in 1..(Len(q) - 1) : Tail(q)[i] = q[i + 1]
  OBVIOUS
<1>2. \A i \in 1..Len(q) : i = 1 \/ (i - 1 \in 1..(Len(q) - 1) /\ q[i] = Tail(q)[i - 1])
  BY <1>1
<1>3. \A i \in 1..(Len(q) - 1) : i + 1 \in 1..Len(q)
  BY <1>1
<1>4. 1 \in 1..Len(q)
  BY <1>1
<1>5. ASSUME NEW x \in Range(q) PROVE x = Head(q) \/ x \in Range(Tail(q))
  <2>1. PICK i \in 1..Len(q) : x = q[i]
    BY <1>1 DEF Range
  <2>2. CASE i = 1
    BY <1>1, <2>1, <2>2
  <2>3. CASE i - 1 \in 1..(Len(q) - 1) /\ q[i] = Tail(q)[i - 1]
    BY <1>1, <2>1, <2>3 DEF Range
  <2> QED
    BY <1>2, <2>2, <2>3
<1>6. ASSUME NEW x \in Range(Tail(q)) PROVE x \in Range(q)
  <2>1. PICK i \in 1..(Len(q) - 1) : x = Tail(q)[i]
    BY <1>1 DEF Range
  <2>2. x = q[i + 1] /\ i + 1 \in DOMAIN q
    BY <1>1, <1>3, <2>1
  <2> QED
    BY <2>2 DEF Range
<1>7. Head(q) \in Range(q)
  BY <1>1, <1>4 DEF Range
<1> QED
  BY <1>1, <1>5, <1>6, <1>7

LEMMA RangeEmpty == Range(<<>>) = {}
  BY DEF Range

Events == [kind : Kinds, path : Paths]

\* The kernel's queue keeps what it holds, and takes the event or an overflow.
LEMMA QueuedKeeps ==
    ASSUME NEW q \in Seq(Events), NEW e \in Events
    PROVE  /\ Queued(q, e) \in Seq(Events)
           /\ Range(q) \subseteq Range(Queued(q, e))
           /\ e \in Range(Queued(q, e))
              \/ \E o \in Range(Queued(q, e)) : o.kind = "overflow"
           /\ ~Overflows(q) => Queued(q, e) = Append(q, e)
           /\ \A x \in Range(Queued(q, e)) : x \in Range(q) \/ x = e \/ x.kind = "overflow"
<1> DEFINE mark == [kind |-> "overflow", path |-> Root]
<1>1. mark \in Events
  BY PathsClimb DEF Events, Kinds
<1>2. CASE Len(q) < OsQueue
  <2>1. Queued(q, e) = Append(q, e)
    BY <1>2 DEF Queued
  <2>2. Queued(q, e) \in Seq(Events) /\ Range(Queued(q, e)) = Range(q) \cup {e}
    BY <2>1, RangeAppend
  <2> QED
    BY <2>1, <2>2
<1>3. CASE ~(Len(q) < OsQueue) /\ q[Len(q)].kind = "overflow"
  <2>1. Queued(q, e) = q
    BY <1>3 DEF Queued
  <2>2. Overflows(q) /\ Len(q) \in DOMAIN q
    BY <1>3, LimitsAssumption DEF Overflows
  <2>3. q[Len(q)] \in Range(q)
    BY <2>2 DEF Range
  <2> QED
    BY <1>3, <2>1, <2>2, <2>3
<1>4. CASE ~(Len(q) < OsQueue) /\ q[Len(q)].kind # "overflow"
  <2>1. Queued(q, e) = Append(q, mark)
    BY <1>4 DEF Queued
  <2>2. Overflows(q)
    BY <1>4, LimitsAssumption DEF Overflows
  <2>3. Range(Append(q, mark)) = Range(q) \cup {mark} /\ Append(q, mark) \in Seq(Events)
    BY <1>1, RangeAppend
  <2>4. mark.kind = "overflow"
    OBVIOUS
  <2> HIDE DEF mark
  <2> QED
    BY <2>1, <2>2, <2>3, <2>4
<1> QED
  BY <1>2, <1>3, <1>4
(***************************************************************************)
(* The watch: its types.                                                   *)
(***************************************************************************)

Upsets == {"overflow", "moved", "rules", "late"}

\* One change of the disk, as the kernel's queue sees it.
LEMMA EmitKeeps ==
    ASSUME TypeOK, NEW kind \in Kinds, NEW p \in Paths, NEW extra \in SUBSET Upsets,
           Emit(kind, p, extra)
    PROVE  /\ osq' \in Seq(Events) /\ upset' \in SUBSET Upsets
           /\ Range(osq) \subseteq Range(osq')
           /\ upset \cup extra \subseteq upset'
           /\ (Parent[p] \in osWatch \/ p \in osWatch) =>
                \/ [kind |-> kind, path |-> p] \in Range(osq')
                \/ "overflow" \in upset' /\ \E o \in Range(osq') : o.kind = "overflow"
           /\ \A x \in Range(osq') : \/ x \in Range(osq)
                                     \/ x = [kind |-> kind, path |-> p]
                                     \/ x.kind = "overflow"
<1> DEFINE e == [kind |-> kind, path |-> p]
<1>1. e \in Events /\ osq \in Seq(Events)
  BY DEF TypeOK, Events
<1>2. upset' \in SUBSET Upsets /\ upset \cup extra \subseteq upset'
  BY DEF TypeOK, Emit, Upsets
<1>3. CASE Parent[p] \in osWatch \/ p \in osWatch
  <2>1. osq' = Queued(osq, e)
    BY <1>3 DEF Emit
  <2>2. Overflows(osq) => "overflow" \in upset'
    BY <1>3 DEF Emit
  <2> HIDE DEF e
  <2>3. ~Overflows(osq) => e \in Range(osq')
    <3>1. ~Overflows(osq) => Queued(osq, e) = Append(osq, e)
      BY <1>1, QueuedKeeps
    <3>2. Range(Append(osq, e)) = Range(osq) \cup {e}
      BY <1>1, RangeAppend
    <3> QED
      BY <2>1, <3>1, <3>2
  <2>4. /\ osq' \in Seq(Events) /\ Range(osq) \subseteq Range(osq')
        /\ e \in Range(osq') \/ \E o \in Range(osq') : o.kind = "overflow"
        /\ \A x \in Range(osq') : x \in Range(osq) \/ x = e \/ x.kind = "overflow"
    BY <1>1, <2>1, QueuedKeeps
  <2> QED
    <3>1. \/ e \in Range(osq')
          \/ "overflow" \in upset' /\ \E o \in Range(osq') : o.kind = "overflow"
      BY <2>2, <2>3, <2>4, Zenon
    <3> QED
      BY <1>2, <2>4, <3>1, Zenon DEF e
<1>4. CASE ~(Parent[p] \in osWatch \/ p \in osWatch)
  <2>1. osq' = osq
    BY <1>4 DEF Emit
  <2> QED
    BY <1>1, <1>2, <1>4, <2>1
<1> QED
  BY <1>3, <1>4

LEMMA JudgedType ==
    ASSUME TypeOK
    PROVE  Judged \in SUBSET Ignorable
<1>1. CASE cached = Unread
  BY <1>1 DEF TypeOK, Judged
<1>2. CASE cached # Unread
  <2>1. cached \in (SUBSET Ignorable) \cup {Unread}
    BY DEF TypeOK
  <2>2. cached \in SUBSET Ignorable
    BY <1>2, <2>1, Zenon
  <2> QED
    BY <1>2, <2>2 DEF Judged
<1> QED
  BY <1>1, <1>2

LEMMA PendingType == TypeOK => Pending \in Batches
  BY DEF TypeOK, Pending, Batches

\* What the subscribers hear leaves a pending set.
LEMMA HearType ==
    ASSUME TypeOK, NEW p \in Paths, HearChange(p)
    PROVE  /\ paths' \in SUBSET Paths /\ rescans' \in SUBSET Dirs
           /\ permit' \in BOOLEAN /\ closed' = closed
           /\ Pending' = Change(Pending, p)
<1>1. Change(Pending, p) \in Batches
  BY PendingType, ChangeKeeps
<1>2. permit' \in BOOLEAN
  BY DEF HearChange, TypeOK, Covered
<1>3. Change(Pending, p) = [paths |-> paths', rescans |-> rescans']
  BY <1>1 DEF HearChange, SetPending, Batches
<1> QED
  BY <1>1, <1>2, <1>3 DEF HearChange, Batches, Pending

LEMMA HearRescanType ==
    ASSUME TypeOK, NEW d \in Dirs, HearRescan(d)
    PROVE  /\ paths' \in SUBSET Paths /\ rescans' \in SUBSET Dirs
           /\ permit' = TRUE /\ closed' = closed
           /\ Pending' = InsertRescan(Pending, d)
<1>1. InsertRescan(Pending, d) \in Batches
  BY PendingType, RescanKeeps
<1>2. InsertRescan(Pending, d) = [paths |-> paths', rescans |-> rescans']
  BY <1>1 DEF HearRescan, SetPending, Batches
<1> QED
  BY <1>1, <1>2 DEF HearRescan, Batches, Pending
LEMMA WatchTypeInit ==
    ASSUME Init
    PROVE  TypeOK
<1> USE DEF Init
<1>1. disk \subseteq Dirs /\ Root \in disk /\ watched \subseteq Dirs /\ osWatch \subseteq disk
  BY TreeAssumption
<1>2. ops \in 0..MaxOps
  BY LimitsAssumption
<1>3. osq \in Seq([kind : Kinds, path : Paths]) /\ msgs \in Seq(Messages)
  OBVIOUS
<1>4. cached \in (SUBSET Ignorable) \cup {Unread} /\ reading \in Dirs \cup {NoPath}
      /\ owed \in Dirs \cup {NoPath}
  BY Zenon
<1> QED
  BY <1>1, <1>2, <1>3, <1>4 DEF TypeOK

\* A directory outside the worktree holds none of its directories.
LEMMA BelowNotRoot == \A d \in Dirs \ {Root} : Root \notin Below(d)
  BY AboveRoot DEF Below, StartsWith

\* What a change of the disk that d is part of emits.
LEMMA DiskEmits ==
    /\ \A f \in Files : f \in Paths
    /\ \A d \in Dirs : d \in Paths
    /\ {"create", "modify", "name", "remove", "overflow"} = Kinds
    /\ {} \in SUBSET Upsets /\ {"moved"} \in SUBSET Upsets /\ {"rules"} \in SUBSET Upsets
<1>1. {"create", "modify", "name", "remove", "overflow"} = Kinds
  BY Zenon DEF Kinds
<1>2. {} \in SUBSET Upsets /\ {"moved"} \in SUBSET Upsets /\ {"rules"} \in SUBSET Upsets
  BY DEF Upsets
<1>3. (\A f \in Files : f \in Paths) /\ (\A d \in Dirs : d \in Paths)
  BY PathsClimb
<1> QED
  BY <1>1, <1>2, <1>3

LEMMA DiskTypeStep ==
    ASSUME TypeOK, DiskChanges
    PROVE  TypeOK'
<1> USE DEF TypeOK
<1>t. Seq(Events) = Seq([kind : Kinds, path : Paths]) /\ Upsets = {"overflow", "moved", "rules", "late"}
  BY DEF Events, Upsets
<1>0. ASSUME DiskStep
      PROVE  /\ ops' \in 0..MaxOps
             /\ UNCHANGED <<cached, msgs, watched, uncovered, todo, reading, owed, busy,
                            paths, rescans, permit, closed, reader>>
  BY <1>0, LimitsAssumption DEF DiskStep, followVars, pendingVars
<1>1. ASSUME NEW f \in Files, WriteFile(f) PROVE TypeOK'
  <2>1. \E kind \in Kinds : Emit(kind, f, {})
    BY <1>1, DiskEmits DEF WriteFile
  <2>2. osq' \in Seq(Events) /\ upset' \in SUBSET Upsets
    BY <2>1, EmitKeeps, DiskEmits
  <2> QED
    BY <1>t, <1>0, <1>1, <2>2 DEF WriteFile
<1>2. ASSUME NEW d \in Dirs \ {Root}, MakeDir(d) PROVE TypeOK'
  <2>1. Emit("create", d, {})
    BY <1>2 DEF MakeDir
  <2>2. osq' \in Seq(Events) /\ upset' \in SUBSET Upsets
    BY <2>1, EmitKeeps, DiskEmits
  <2> QED
    BY <1>t, <1>0, <1>2, <2>2 DEF MakeDir
<1>3. ASSUME NEW d \in Dirs \ {Root}, MoveIn(d) PROVE TypeOK'
  <2>1. Emit("name", d, {})
    BY <1>3 DEF MoveIn
  <2>2. osq' \in Seq(Events) /\ upset' \in SUBSET Upsets
    BY <2>1, EmitKeeps, DiskEmits
  <2> QED
    BY <1>t, <1>0, <1>3, <2>2 DEF MoveIn
<1>4. ASSUME NEW d \in Dirs \ {Root}, RemoveDir(d) PROVE TypeOK'
  <2>1. Emit("remove", d, {})
    BY <1>4 DEF RemoveDir
  <2>2. osq' \in Seq(Events) /\ upset' \in SUBSET Upsets
    BY <2>1, EmitKeeps, DiskEmits
  <2> QED
    BY <1>t, <1>0, <1>4, <2>2, BelowNotRoot DEF RemoveDir, Vanish
<1>5. ASSUME NEW d \in Dirs \ {Root}, MoveAway(d) PROVE TypeOK'
  <2>1. Emit("name", d, {"moved"})
    BY <1>5 DEF MoveAway
  <2>2. osq' \in Seq(Events) /\ upset' \in SUBSET Upsets
    BY <2>1, EmitKeeps, DiskEmits
  <2> QED
    BY <1>t, <1>0, <1>5, <2>2, BelowNotRoot DEF MoveAway, Vanish
<1>6. ASSUME EditRules PROVE TypeOK'
  <2>1. Emit("modify", IgnoreFile, {"rules"})
    BY <1>6 DEF EditRules
  <2>2. osq' \in Seq(Events) /\ upset' \in SUBSET Upsets
    BY <2>1, EmitKeeps, DiskEmits, PathsClimb
  <2> QED
    BY <1>t, <1>0, <1>6, <2>2 DEF EditRules
<1>7. ASSUME RefilterAll PROVE TypeOK'
  <2>1. paths' \in SUBSET Paths /\ rescans' \in SUBSET Dirs /\ permit' = TRUE /\ closed' = closed
    BY <1>7, HearRescanType, TreeAssumption DEF RefilterAll
  <2>2. msgs' \in Seq(Messages)
    BY <1>7, PathsClimb DEF RefilterAll, Tell, Messages
  <2>3. ops' \in 0..MaxOps
    BY <1>7, LimitsAssumption DEF RefilterAll
  <2> QED
    BY <1>7, <2>1, <2>2, <2>3 DEF RefilterAll, ForgetRules
<1> QED
  BY <1>1, <1>2, <1>3, <1>4, <1>5, <1>6, <1>7 DEF DiskChanges

LEMMA HandleTypeStep ==
    ASSUME TypeOK, HandleEvent
    PROVE  TypeOK'
<1> USE DEF TypeOK
<1>1. /\ osq' \in Seq([kind : Kinds, path : Paths]) /\ Head(osq) \in [kind : Kinds, path : Paths]
      /\ UNCHANGED <<disk, files, rules, ops, upset, stale, osWatch, watched, uncovered, todo,
                     reading, owed, busy, reader>>
      /\ Route(Head(osq))
  BY RangeTail DEF HandleEvent, diskVars
<1>2. cached' \in (SUBSET Ignorable) \cup {Unread}
  BY <1>1, JudgedType
     DEF Route, Lost, RouteIgnoreFile, RouteIgnored, RouteKept, ForgetRules, RememberRules
<1>3. /\ paths' \in SUBSET Paths /\ rescans' \in SUBSET Dirs
      /\ permit' \in BOOLEAN /\ closed' \in BOOLEAN
  <2>1. CASE Lost \/ RouteIgnoreFile
    BY <2>1, HearRescanType, TreeAssumption DEF Lost, RouteIgnoreFile
  <2>2. CASE RouteIgnored(Head(osq).path)
    BY <2>2 DEF RouteIgnored, pendingVars
  <2>3. CASE RouteKept(Head(osq).kind, Head(osq).path)
    BY <1>1, <2>3, HearType DEF RouteKept
  <2> QED
    BY <1>1, <2>1, <2>2, <2>3 DEF Route
<1>4. msgs' \in Seq(Messages)
  <2>1. ASSUME NEW type, NEW p, Tell(type, p),
               \/ type \in {"appeared", "gone"} /\ p \in Paths
               \/ type = "refilter" /\ p = Root
        PROVE  msgs' \in Seq(Messages)
    BY <2>1 DEF Tell, Messages
  <2>2. CASE Lost \/ RouteIgnored(Head(osq).path)
    BY <2>2 DEF Lost, RouteIgnored
  <2>3. CASE RouteIgnoreFile
    BY <2>1, <2>3, PathsClimb DEF RouteIgnoreFile
  <2>4. CASE RouteKept(Head(osq).kind, Head(osq).path)
    <3>1. Head(osq).path \in Paths
      BY <1>1
    <3>2. \/ Tell("appeared", Head(osq).path)
          \/ Tell("gone", Head(osq).path)
          \/ UNCHANGED msgs
      BY <2>4 DEF RouteKept
    <3>3. ASSUME NEW type \in {"appeared", "gone"}, Tell(type, Head(osq).path)
          PROVE  msgs' \in Seq(Messages)
      BY <2>1, <3>1, <3>3, Zenon
    <3> QED
      BY <3>2, <3>3
  <2> QED
    BY <1>1, <2>2, <2>3, <2>4 DEF Route
<1> QED
  BY <1>1, <1>2, <1>3, <1>4

LEMMA FollowTypeStep ==
    ASSUME TypeOK, Follow
    PROVE  TypeOK'
<1> USE DEF TypeOK
<1>1. CASE FollowMessage
  <2>1. /\ msgs' \in Seq(Messages) /\ Head(msgs) \in Messages
        /\ UNCHANGED <<disk, files, rules, ops, stale, osq, reader, uncovered, reading,
                       paths, rescans, permit, closed>>
    BY <1>1, RangeTail DEF FollowMessage, pendingVars
  <2>2. \A gone : Forget(gone) => watched' \subseteq watched /\ osWatch' \subseteq osWatch
    BY DEF Forget
  <2>3. CASE Appeared(Head(msgs).path)
    <3> DEFINE p == Head(msgs).path
    <3>1. cached' \in SUBSET Ignorable /\ UNCHANGED <<watched, osWatch, upset>>
      BY <2>3, JudgedType DEF Appeared, RememberRules
    <3>2. /\ busy' \in BOOLEAN /\ todo' \subseteq Dirs
          /\ owed' \in Dirs \cup {NoPath}
      <4>1. CASE NeedsCover(p)
        <5>1. p \in Dirs
          BY <4>1 DEF NeedsCover
        <5> QED
          BY <2>3, <4>1, <5>1 DEF Appeared, StartCover
      <4>2. CASE ~NeedsCover(p)
        BY <2>3, <4>2 DEF Appeared, NoCover
      <4> QED
        BY <4>1, <4>2
    <3> QED
      BY <2>1, <3>1, <3>2
  <2>4. CASE Gone(Head(msgs).path)
    BY <2>1, <2>2, <2>4 DEF Gone, NoCover
  <2>5. CASE Head(msgs).type = "refilter" /\ Refilter(Head(msgs).path)
    <3>1. Head(msgs).path \in Dirs
      BY <2>1, <2>5, TreeAssumption DEF Messages
    <3> QED
      BY <2>1, <2>2, <2>5, <3>1, JudgedType DEF Refilter, RememberRules, StartCover
  <2> QED
    BY <1>1, <2>3, <2>4, <2>5 DEF FollowMessage
<1>2. ASSUME NEW d \in Dirs, CoverWatch(d) PROVE TypeOK'
  BY <1>2 DEF CoverWatch, FollowerUnchanged, diskVars, pendingVars
<1>3. CASE CoverList
  BY <1>3, JudgedType
     DEF CoverList, FollowerUnchanged, RememberRules, diskVars, pendingVars
<1>4. CASE CoverDone
  <2>1. CASE owed = NoPath
    BY <1>4, <2>1 DEF CoverDone, FollowerUnchanged, diskVars, pendingVars
  <2>2. CASE owed # NoPath
    <3>1. paths' \in SUBSET Paths /\ rescans' \in SUBSET Dirs /\ permit' = TRUE /\ closed' = closed
      BY <1>4, <2>2, HearRescanType DEF CoverDone
    <3> QED
      BY <1>4, <3>1 DEF CoverDone, FollowerUnchanged, diskVars
  <2> QED
    BY <2>1, <2>2
<1> QED
  BY <1>1, <1>2, <1>3, <1>4 DEF Follow

LEMMA ReadTypeStep ==
    ASSUME TypeOK, Read \/ Close
    PROVE  TypeOK'
<1> USE DEF TypeOK, ReaderUnchanged, diskVars, followVars, pendingVars
<1>1. CASE Look
  BY <1>1 DEF Look
<1>2. CASE Woken
  BY <1>2 DEF Woken
<1>3. CASE Take
  BY <1>3, JudgedType DEF Take, SetPending, NoPending, RememberRules
<1>4. CASE Close
  BY <1>4 DEF Close
<1> QED
  BY <1>1, <1>2, <1>3, <1>4 DEF Read
LEMMA WatchTypeSame ==
    ASSUME TypeOK, UNCHANGED vars
    PROVE  TypeOK'
  BY DEF TypeOK, vars, diskVars, followVars, pendingVars

(***************************************************************************)
(* The watch: its inductive invariant.                                     *)
(***************************************************************************)

\* Whatever is there has its directory there.
TreeStands ==
    /\ \A d \in disk \ {Root} : Parent[d] \in disk
    /\ \A f \in files : Parent[f] \in disk

\* The root keeps its watch, the follower knows of each watch there is, and
\* leaves nothing to do between two messages.
RootWatched ==
    /\ osWatch \subseteq watched /\ Root \in osWatch
    /\ \A e \in Range(osq) : e.kind = "remove" => e.path # Root
    /\ \A m \in Range(msgs) : m.type = "gone" => m.path # Root
    /\ ~busy => todo = {} /\ reading = NoPath

\* What is known while no rule has changed: nothing is ignored, and each cover
\* stays under the directory whose rescan it owes.
Calm ==
    "rules" \notin upset =>
        /\ rules = {} /\ cached \in {Unread, {}}
        /\ \A e \in Range(osq) : e.kind = "overflow" \/ e.path # IgnoreFile
        /\ \A m \in Range(msgs) : m.type # "refilter"
        /\ busy =>
            /\ owed \in Dirs
            /\ \A d \in todo : owed \in Above[d]
            /\ reading # NoPath => owed \in Above[reading]

\* The event of a write, or the overflow it was dropped for, is still to be handled.
InQueue(f) == \E e \in Range(osq) : e.path = f \/ e.kind = "overflow"

\* A write in a watched directory is on its way to the subscriber.
Accounted ==
    "rules" \notin upset =>
        \A f \in stale :
            Parent[f] \in osWatch =>
                \/ InQueue(f)
                \/ Told(Pending, f)
                \/ busy /\ StartsWith(f, owed)

\* The follower is yet to hear that d is there, or that it went.
Comes(d) ==
    \/ \E e \in Range(osq) : e.path = d /\ e.kind \in {"create", "name"}
    \/ [type |-> "appeared", path |-> d] \in Range(msgs)

Goes(d) ==
    \/ \E e \in Range(osq) : e.path = d /\ e.kind = "remove"
    \/ [type |-> "gone", path |-> d] \in Range(msgs)

\* While nothing upsets it the follower keeps up with the directories: one it takes
\* for watched is, or it will hear that it went; one that is there below a watched
\* one it has taken for watched, could not watch, or will come to.
Followed ==
    upset = {} =>
        /\ \A d \in watched \ osWatch : Goes(d)
        /\ \A d \in disk \ {Root} :
               \/ d \in watched
               \/ Parent[d] \notin osWatch
               \/ d \in uncovered
               \/ Comes(d)
               \/ d \in todo
               \/ reading = Parent[d]

WatchInv ==
    /\ TypeOK
    /\ NoLostWakeup /\ Minimal(Pending)
    /\ TreeStands /\ RootWatched /\ Calm /\ Accounted /\ Followed

-----------------------------------------------------------------------------
\* Where a directory stands, all above it stands.
LEMMA StandsAbove ==
    ASSUME TypeOK, TreeStands, NEW p \in disk
    PROVE  Above[p] \subseteq disk
<1> DEFINE S == {x \in disk : ~(Above[x] \subseteq disk)}
<1>1. S \in SUBSET (Paths \ {Root})
  BY AboveRoot, PathsClimb DEF TypeOK
<1>2. CASE S # {}
  <2>1. PICK x \in S : Parent[x] \notin S
    BY <1>1, <1>2, ClimbOut
  <2>2. Parent[x] \in disk /\ Above[x] = {x} \cup Above[Parent[x]]
    BY <1>1, <2>1, AboveStep DEF TreeStands
  <2> QED
    BY <2>1, <2>2
<1> QED
  BY <1>2

\* What is below d is d, or has its directory below d.
LEMMA BelowClimbs ==
    ASSUME NEW d \in Dirs \ {Root}, NEW p \in Below(d)
    PROVE  p # Root /\ p \in Paths /\ (p = d \/ Parent[p] \in Below(d))
<1>1. p \in Paths /\ d \in Above[p] /\ p # Root
  BY AboveRoot DEF Below, StartsWith
<1>2. Above[p] = {p} \cup Above[Parent[p]] /\ Parent[p] \in Paths
  BY <1>1, AboveStep, PathsClimb
<1> QED
  BY <1>1, <1>2 DEF Below, StartsWith

\* What has its directory below d is below d.
LEMMA BelowHolds ==
    ASSUME NEW d \in Dirs, NEW p \in Paths \ {Root}, Parent[p] \in Below(d)
    PROVE  p \in Below(d)
  BY AboveStep, PathsClimb DEF Below, StartsWith

\* Nothing stands below a directory that does not.
LEMMA NothingBelow ==
    ASSUME TypeOK, TreeStands, NEW d \in Dirs, d \notin disk, NEW p \in Below(d)
    PROVE  p \notin disk
  BY StandsAbove DEF Below, StartsWith

LEMMA TreeStep ==
    ASSUME TypeOK, TreeStands, [Next]_vars
    PROVE  TreeStands'
<1>1. ASSUME NEW f \in Files, WriteFile(f) PROVE TreeStands'
  BY <1>1 DEF WriteFile, TreeStands
<1>2. ASSUME NEW d \in Dirs \ {Root}, MakeDir(d) PROVE TreeStands'
  BY <1>2 DEF MakeDir, TreeStands
<1>3. ASSUME NEW d \in Dirs \ {Root}, MoveIn(d) PROVE TreeStands'
  <2>1. /\ disk' = disk \cup (Below(d) \cap Dirs) /\ files' = files \cup (Below(d) \cap Files)
        /\ Parent[d] \in disk
    BY <1>3 DEF MoveIn
  <2>2. ASSUME NEW p \in Below(d) PROVE Parent[p] \in disk'
    BY <2>1, <2>2, BelowClimbs, PathsClimb
  <2> QED
    BY <2>1, <2>2 DEF TreeStands
<1>4. ASSUME NEW d \in Dirs \ {Root}, Vanish(d) PROVE TreeStands'
  <2>1. disk' = disk \ Below(d) /\ files' = files \ Below(d)
    BY <1>4 DEF Vanish
  <2>2. ASSUME NEW p \in Paths \ {Root}, p \notin Below(d) PROVE Parent[p] \notin Below(d)
    BY <2>2, BelowHolds
  <2>3. disk \subseteq Paths /\ files \subseteq Paths \ {Root}
    BY PathsClimb, KindsAssumption, TreeAssumption DEF TypeOK
  <2> QED
    BY <2>1, <2>2, <2>3 DEF TreeStands
<1>5. CASE UNCHANGED <<disk, files>>
  BY <1>5 DEF TreeStands
<1>6. Next => \/ \E f \in Files : WriteFile(f)
              \/ \E d \in Dirs \ {Root} : MakeDir(d) \/ MoveIn(d) \/ Vanish(d)
              \/ UNCHANGED <<disk, files>>
  BY DEF Next, DiskChanges, RemoveDir, MoveAway, EditRules, RefilterAll, HandleEvent, Follow,
         FollowMessage, CoverWatch, CoverList, CoverDone, FollowerUnchanged, Read, Look, Woken,
         Take, Close, ReaderUnchanged, diskVars
<1>7. UNCHANGED vars => UNCHANGED <<disk, files>>
  BY DEF vars, diskVars
<1> QED
  BY <1>1, <1>2, <1>3, <1>4, <1>5, <1>6, <1>7
\* What the follower is told by the router.
LEMMA RouteTells ==
    ASSUME TypeOK, HandleEvent
    PROVE  /\ osq' = Tail(osq) /\ Head(osq) \in Events /\ osq \in Seq(Events)
           /\ Range(osq) = {Head(osq)} \cup Range(osq')
           /\ Range(msgs) \subseteq Range(msgs')
           /\ \A m \in Range(msgs') :
                  \/ m \in Range(msgs)
                  \/ m = [type |-> "refilter", path |-> Root]
                     /\ Head(osq).path = IgnoreFile /\ Head(osq).kind # "overflow"
                  \/ m = [type |-> "appeared", path |-> Head(osq).path]
                  \/ m = [type |-> "gone", path |-> Head(osq).path] /\ Head(osq).kind = "remove"
<1>1. osq \in Seq(Events) /\ osq # <<>> /\ osq' = Tail(osq) /\ msgs \in Seq(Messages)
  BY DEF TypeOK, HandleEvent, Events
<1>2. Head(osq) \in Events /\ Range(osq) = {Head(osq)} \cup Range(Tail(osq))
  BY <1>1, RangeTail
<1>3. Head(osq).path \in Paths
  BY <1>2 DEF Events
<1>4. ASSUME NEW type \in {"appeared", "gone", "refilter"}, NEW p, Tell(type, p),
             [type |-> type, path |-> p] \in Messages
      PROVE  Range(msgs') = Range(msgs) \cup {[type |-> type, path |-> p]}
  BY <1>1, <1>4, RangeAppend DEF Tell
<1>5. CASE Lost \/ RouteIgnored(Head(osq).path)
  <2>1. msgs' = msgs
    BY <1>5 DEF Lost, RouteIgnored
  <2> QED
    BY <1>1, <1>2, <2>1
<1>6. CASE /\ Head(osq).kind # "overflow" /\ Head(osq).path = IgnoreFile
           /\ RouteIgnoreFile
  <2>1. [type |-> "refilter", path |-> Root] \in Messages
    BY DEF Messages
  <2>2. Range(msgs') = Range(msgs) \cup {[type |-> "refilter", path |-> Root]}
    BY <1>4, <1>6, <2>1 DEF RouteIgnoreFile
  <2> QED
    BY <1>1, <1>2, <1>6, <2>2, Zenon
<1>7. CASE RouteKept(Head(osq).kind, Head(osq).path)
  <2>1. CASE Tell("appeared", Head(osq).path)
    <3>1. [type |-> "appeared", path |-> Head(osq).path] \in Messages
      BY <1>3 DEF Messages
    <3>2. Range(msgs') = Range(msgs) \cup {[type |-> "appeared", path |-> Head(osq).path]}
      BY <1>4, <2>1, <3>1
    <3> QED
      BY <1>1, <1>2, <3>2, Zenon
  <2>2. CASE Tell("gone", Head(osq).path) /\ Head(osq).kind = "remove"
    <3>1. [type |-> "gone", path |-> Head(osq).path] \in Messages
      BY <1>3 DEF Messages
    <3>2. Range(msgs') = Range(msgs) \cup {[type |-> "gone", path |-> Head(osq).path]}
      BY <1>4, <2>2, <3>1
    <3> QED
      BY <1>1, <1>2, <2>2, <3>2, Zenon
  <2>3. CASE UNCHANGED msgs
    BY <1>1, <1>2, <2>3
  <2> QED
    BY <1>7, <2>1, <2>2, <2>3 DEF RouteKept
<1> QED
  BY <1>5, <1>6, <1>7 DEF HandleEvent, Route

\* The message the follower takes.
LEMMA FollowTakes ==
    ASSUME TypeOK, FollowMessage
    PROVE  /\ msgs' = Tail(msgs) /\ Head(msgs) \in Messages
           /\ Range(msgs) = {Head(msgs)} \cup Range(msgs')
  BY RangeTail DEF TypeOK, FollowMessage

LEMMA ForgetKeeps ==
    ASSUME NEW gone, Forget(gone), Root \notin gone, osWatch \subseteq watched,
           Root \in osWatch
    PROVE  osWatch' \subseteq watched' /\ Root \in osWatch'
  BY AboveRoot DEF Forget

LEMMA RootNotIgnored ==
    ASSUME TypeOK
    PROVE  ~Ignores(Root)
  BY JudgedType, AboveRoot, TreeAssumption DEF Ignores, IgnoredBy

LEMMA RootWatchedStep ==
    ASSUME TypeOK, RootWatched, [Next]_vars
    PROVE  RootWatched'
<1> USE DEF RootWatched
<1>q. ASSUME NEW kind \in Kinds, NEW p \in Paths, NEW extra \in SUBSET Upsets,
             Emit(kind, p, extra), kind = "remove" => p # Root
      PROVE  \A e \in Range(osq') : e.kind = "remove" => e.path # Root
  <2>1. ASSUME NEW e \in Range(osq')
        PROVE  e \in Range(osq) \/ e = [kind |-> kind, path |-> p] \/ e.kind = "overflow"
    BY <1>q, EmitKeeps
  <2> QED
    BY <1>q, <2>1
<1>0. ASSUME DiskStep
      PROVE  UNCHANGED <<msgs, watched, todo, reading, busy>>
  BY <1>0 DEF DiskStep, followVars
<1>1. ASSUME NEW f \in Files, WriteFile(f) PROVE RootWatched'
  BY <1>q, <1>0, <1>1, DiskEmits DEF WriteFile
<1>2. ASSUME NEW d \in Dirs \ {Root}, MakeDir(d) PROVE RootWatched'
  BY <1>q, <1>0, <1>2, DiskEmits DEF MakeDir
<1>3. ASSUME NEW d \in Dirs \ {Root}, MoveIn(d) PROVE RootWatched'
  BY <1>q, <1>0, <1>3, DiskEmits DEF MoveIn
<1>4. ASSUME NEW d \in Dirs \ {Root}, RemoveDir(d) \/ MoveAway(d) PROVE RootWatched'
  <2>1. osWatch' \subseteq watched' /\ Root \in osWatch' /\ DiskStep
    BY <1>0, <1>4, BelowNotRoot DEF RemoveDir, MoveAway, Vanish
  <2> QED
    BY <1>q, <1>0, <1>4, <2>1, DiskEmits DEF RemoveDir, MoveAway
<1>5. CASE EditRules
  <2>1. Emit("modify", IgnoreFile, {"rules"}) /\ IgnoreFile \in Paths /\ "modify" \in Kinds
    BY <1>5, DiskEmits, PathsClimb DEF EditRules
  <2>2. \A e \in Range(osq') : e.kind = "remove" => e.path # Root
    BY <1>q, <2>1, DiskEmits
  <2> QED
    BY <1>0, <1>5, <2>2 DEF EditRules
<1>6. CASE RefilterAll
  <2>1. [type |-> "refilter", path |-> Root] \in Messages /\ msgs \in Seq(Messages)
    BY DEF Messages, TypeOK
  <2>2. Range(msgs') = Range(msgs) \cup {[type |-> "refilter", path |-> Root]}
    BY <1>6, <2>1, RangeAppend DEF RefilterAll, Tell
  <2> QED
    BY <1>6, <2>2 DEF RefilterAll
<1>7. CASE HandleEvent
  BY <1>7, RouteTells DEF HandleEvent
<1>8. CASE FollowMessage
  <2>1. \A m \in Range(msgs') : m.type = "gone" => m.path # Root
    BY <1>8, FollowTakes
  <2>2. Head(msgs).type = "gone" => Head(msgs).path # Root
    BY <1>8, FollowTakes
  <2>3. osWatch' \subseteq watched' /\ Root \in osWatch'
    <3>1. CASE Appeared(Head(msgs).path)
      BY <3>1 DEF Appeared
    <3>2. CASE Head(msgs).type = "gone" /\ Gone(Head(msgs).path)
      BY <2>2, <3>2, ForgetKeeps DEF Gone
    <3>3. CASE Refilter(Head(msgs).path)
      BY <3>3, ForgetKeeps, RootNotIgnored DEF Refilter
    <3> QED
      BY <1>8, <3>1, <3>2, <3>3 DEF FollowMessage
  <2>4. ~busy' => todo' = {} /\ reading' = NoPath
    BY <1>8 DEF FollowMessage, Appeared, Gone, Refilter, StartCover, NoCover
  <2>5. osq' = osq
    BY <1>8 DEF FollowMessage
  <2> QED
    BY <2>1, <2>3, <2>4, <2>5
<1>9. ASSUME NEW d \in Dirs, CoverWatch(d) PROVE RootWatched'
  BY <1>9 DEF CoverWatch, FollowerUnchanged
<1>10. CASE CoverList \/ CoverDone
  BY <1>10 DEF CoverList, CoverDone, FollowerUnchanged
<1>11. CASE Read \/ Close
  BY <1>11 DEF Read, Look, Woken, Take, Close, ReaderUnchanged, followVars
<1>12. CASE UNCHANGED vars
  BY <1>12 DEF vars, followVars
<1> QED
  BY <1>1, <1>2, <1>3, <1>4, <1>5, <1>6, <1>7, <1>8, <1>9, <1>10, <1>11, <1>12
     DEF Next, DiskChanges, Follow
\* While no rule has changed, none names a directory.
LEMMA NothingIgnored ==
    ASSUME Calm, "rules" \notin upset
    PROVE  Judged = {} /\ \A p : ~Ignores(p)
<1>1. rules = {} /\ (cached = Unread \/ cached = {})
  BY DEF Calm
<1>2. Judged = {}
  BY <1>1 DEF Judged
<1> QED
  BY <1>2 DEF Ignores, IgnoredBy

\* What upset the watch is never forgotten.
LEMMA UpsetGrows ==
    ASSUME TypeOK, [Next]_vars
    PROVE  upset \subseteq upset'
<1>1. ASSUME NEW kind, NEW p, NEW extra, Emit(kind, p, extra) PROVE upset \subseteq upset'
  BY <1>1 DEF Emit
<1>2. CASE DiskChanges
  BY <1>1, <1>2
     DEF DiskChanges, WriteFile, MakeDir, MoveIn, RemoveDir, MoveAway, EditRules, RefilterAll
<1>3. CASE FollowMessage
  BY <1>3 DEF FollowMessage, Appeared, Gone, Refilter
<1>4. CASE UNCHANGED upset
  BY <1>4
<1> QED
  BY <1>2, <1>3, <1>4
     DEF Next, HandleEvent, Follow, CoverWatch, CoverList, CoverDone, FollowerUnchanged, Read,
         Look, Woken, Take, Close, ReaderUnchanged, diskVars, vars

\* The rules are untouched, and what a change of a file or directory emits is none
\* of an ignore file.
LEMMA CalmDisk ==
    ASSUME TypeOK, Calm, "rules" \notin upset, DiskStep, rules' = rules,
           NEW kind \in Kinds, NEW p \in Files \cup Dirs, NEW extra \in SUBSET Upsets,
           Emit(kind, p, extra)
    PROVE  Calm'
<1>1. p \in Paths /\ p # IgnoreFile
  BY PathsClimb, KindsAssumption
<1>2. ASSUME NEW e \in Range(osq') PROVE e.kind = "overflow" \/ e.path # IgnoreFile
  <2>1. e \in Range(osq) \/ e = [kind |-> kind, path |-> p] \/ e.kind = "overflow"
    BY <1>1, EmitKeeps
  <2> QED
    BY <1>1, <2>1 DEF Calm
<1>3. UNCHANGED <<cached, msgs, todo, reading, owed, busy>>
  BY DEF DiskStep, followVars
<1> QED
  BY <1>2, <1>3 DEF Calm

LEMMA CalmStep ==
    ASSUME TypeOK, RootWatched, Calm, [Next]_vars
    PROVE  Calm'
<1> SUFFICES ASSUME "rules" \notin upset' PROVE Calm'
  BY DEF Calm
<1>c. "rules" \notin upset
  BY UpsetGrows
<1>j. Judged = {} /\ rules = {} /\ cached \in {Unread, {}}
  BY <1>c, NothingIgnored DEF Calm
<1>1. ASSUME NEW f \in Files, WriteFile(f) PROVE Calm'
  BY <1>c, <1>1, CalmDisk, DiskEmits DEF WriteFile
<1>2. ASSUME NEW d \in Dirs \ {Root}, MakeDir(d) PROVE Calm'
  BY <1>c, <1>2, CalmDisk, DiskEmits DEF MakeDir
<1>3. ASSUME NEW d \in Dirs \ {Root}, MoveIn(d) PROVE Calm'
  BY <1>c, <1>3, CalmDisk, DiskEmits DEF MoveIn
<1>4. ASSUME NEW d \in Dirs \ {Root}, RemoveDir(d) \/ MoveAway(d) PROVE Calm'
  BY <1>c, <1>4, CalmDisk, DiskEmits DEF RemoveDir, MoveAway, Vanish
<1>5. ~EditRules /\ ~RefilterAll
  BY DEF EditRules, RefilterAll, Emit
<1>6. CASE HandleEvent
  <2>1. Head(osq) \in Range(osq) /\ Range(osq') \subseteq Range(osq)
    BY <1>6, RouteTells
  <2>2. Head(osq).kind = "overflow" \/ Head(osq).path # IgnoreFile
    BY <1>c, <2>1 DEF Calm
  <2>3. \A m \in Range(msgs') : m.type # "refilter"
    BY <1>6, <1>c, <2>2, RouteTells DEF Calm
  <2>4. cached' \in {Unread, {}}
    BY <1>6, <1>j
       DEF HandleEvent, Route, Lost, RouteIgnoreFile, RouteIgnored, RouteKept, ForgetRules,
           RememberRules
  <2>5. UNCHANGED <<rules, todo, reading, owed, busy>>
    BY <1>6 DEF HandleEvent, diskVars
  <2> QED
    BY <1>c, <2>1, <2>3, <2>4, <2>5 DEF Calm
<1>7. CASE FollowMessage
  <2>1. Head(msgs) \in Range(msgs) /\ Range(msgs') \subseteq Range(msgs)
    BY <1>7, FollowTakes
  <2>2. Head(msgs).type # "refilter"
    BY <1>c, <2>1 DEF Calm
  <2>3. UNCHANGED <<rules, osq, reading>> /\ ~busy /\ reading = NoPath
    BY <1>7 DEF FollowMessage, RootWatched
  <2>4. cached' \in {Unread, {}}
    BY <1>7, <1>j, <2>2 DEF FollowMessage, Appeared, Gone, RememberRules
  <2>5. busy' => owed' \in disk /\ todo' = {owed'}
    BY <1>7, <2>2, <2>3 DEF FollowMessage, Appeared, NeedsCover, StartCover, NoCover, Gone
  <2>6. busy' => owed' \in Dirs /\ \A d \in todo' : owed' \in Above[d]
    BY <2>5, AboveSelf, PathsClimb DEF TypeOK
  <2> QED
    BY <1>c, <2>1, <2>3, <2>4, <2>6, Zenon DEF Calm
<1>8. ASSUME NEW d \in Dirs, CoverWatch(d) PROVE Calm'
  <2>1. /\ UNCHANGED <<rules, osq, cached, msgs, owed, busy>>
        /\ todo' \subseteq todo /\ d \in todo /\ busy
        /\ reading' = d \/ reading' = NoPath
    BY <1>8 DEF CoverWatch, FollowerUnchanged, diskVars
  <2> QED
    BY <1>c, <2>1 DEF Calm
<1>9. CASE CoverList
  <2>1. /\ UNCHANGED <<rules, osq, msgs, owed, busy>> /\ cached' = Judged
        /\ reading' = NoPath /\ busy /\ reading # NoPath
    BY <1>9 DEF CoverList, FollowerUnchanged, diskVars, RememberRules
  <2>2. ASSUME NEW d \in todo' PROVE owed \in Above[d]
    <3>1. CASE d \in todo
      BY <1>c, <2>1, <3>1 DEF Calm
    <3>2. CASE d \in disk \ {Root} /\ Parent[d] = reading
      <4>1. d \in Paths /\ owed \in Above[Parent[d]]
        BY <1>c, <2>1, <3>2, PathsClimb DEF Calm, TypeOK
      <4> QED
        BY <3>2, <4>1, AboveStep
    <3> QED
      BY <1>9, <2>2, <3>1, <3>2 DEF CoverList
  <2>3. owed \in Dirs
    BY <1>c, <2>1 DEF Calm
  <2>4. \A e \in Range(osq) : e.kind = "overflow" \/ e.path # IgnoreFile
    BY <1>c DEF Calm
  <2>5. \A m \in Range(msgs) : m.type # "refilter"
    BY <1>c DEF Calm
  <2> QED
    BY <1>j, <2>1, <2>2, <2>3, <2>4, <2>5 DEF Calm
<1>10. CASE CoverDone
  <2>1. UNCHANGED <<rules, osq, cached, msgs>> /\ ~busy'
    BY <1>10 DEF CoverDone, FollowerUnchanged, diskVars
  <2> QED
    BY <1>c, <2>1 DEF Calm
<1>11. CASE Read \/ Close
  <2>1. UNCHANGED <<rules, osq, msgs, todo, reading, owed, busy>>
    BY <1>11 DEF Read, Look, Woken, Take, Close, ReaderUnchanged, diskVars, followVars
  <2>2. cached' \in {Unread, {}}
    BY <1>11, <1>j DEF Read, Look, Woken, Take, Close, RememberRules
  <2> QED
    BY <1>c, <2>1, <2>2 DEF Calm
<1>12. CASE UNCHANGED vars
  BY <1>12 DEF vars, diskVars, followVars, Calm
<1> QED
  BY <1>1, <1>2, <1>3, <1>4, <1>5, <1>6, <1>7, <1>8, <1>9, <1>10, <1>11, <1>12
     DEF Next, DiskChanges, Follow
\* The pending set and its permit, whoever changes them.
Served == NoLostWakeup /\ Minimal(Pending)

LEMMA PendingRecord == Pending.paths = paths /\ Pending.rescans = rescans
  BY DEF Pending

LEMMA ServedHear ==
    ASSUME TypeOK, Served, NEW p \in Paths, HearChange(p), reader' = reader
    PROVE  Served'
<1>1. Pending' = Change(Pending, p) /\ Minimal(Pending')
  BY HearType, PendingType, ChangeKeeps DEF Served
<1>2. CASE Covered(Pending, p)
  <2>1. Change(Pending, p) = Pending
    BY <1>2 DEF Change
  <2>2. HasPending /\ permit' = permit
    BY <1>2 DEF HasPending, Pending, NoPending, Covered, HearChange, TypeOK
  <2> QED
    BY <1>1, <2>1, <2>2 DEF Served, NoLostWakeup
<1>3. CASE ~Covered(Pending, p)
  BY <1>1, <1>3 DEF Served, NoLostWakeup, HearChange
<1> QED
  BY <1>2, <1>3

LEMMA ServedRescan ==
    ASSUME TypeOK, Served, NEW d \in Dirs, HearRescan(d), reader' = reader
    PROVE  Served'
<1>1. Pending' = InsertRescan(Pending, d) /\ Minimal(Pending') /\ permit'
  BY HearRescanType, PendingType, RescanKeeps DEF Served
<1> QED
  BY <1>1 DEF Served, NoLostWakeup

LEMMA ServedStep ==
    ASSUME TypeOK, Served, [Next]_vars
    PROVE  Served'
<1>1. CASE UNCHANGED <<pendingVars, reader>>
  <2>1. Pending' = Pending /\ permit' = permit
    BY <1>1 DEF Pending, pendingVars
  <2> QED
    BY <1>1, <2>1 DEF Served, NoLostWakeup, HasPending
<1>2. CASE DiskChanges
  <2>1. CASE RefilterAll
    BY <2>1, ServedRescan, TreeAssumption DEF RefilterAll
  <2>2. CASE DiskStep
    BY <1>1, <2>2 DEF DiskStep
  <2> QED
    BY <1>2, <2>1, <2>2 DEF DiskChanges, WriteFile, MakeDir, MoveIn, RemoveDir, MoveAway, EditRules
<1>3. CASE HandleEvent
  <2>1. Head(osq).path \in Paths /\ reader' = reader
    BY <1>3, RouteTells DEF Events, HandleEvent
  <2>2. CASE Lost \/ RouteIgnoreFile
    BY <2>1, <2>2, ServedRescan, TreeAssumption DEF Lost, RouteIgnoreFile
  <2>3. CASE RouteIgnored(Head(osq).path)
    BY <1>1, <2>1, <2>3 DEF RouteIgnored
  <2>4. CASE RouteKept(Head(osq).kind, Head(osq).path)
    BY <2>1, <2>4, ServedHear DEF RouteKept
  <2> QED
    BY <1>3, <2>2, <2>3, <2>4 DEF HandleEvent, Route
<1>4. CASE FollowMessage \/ CoverList \/ \E d \in Dirs : CoverWatch(d)
  BY <1>1, <1>4 DEF FollowMessage, CoverList, CoverWatch, FollowerUnchanged
<1>5. CASE CoverDone
  <2>1. CASE owed = NoPath
    BY <1>1, <1>5, <2>1 DEF CoverDone, FollowerUnchanged
  <2>2. CASE owed # NoPath
    BY <1>5, <2>2, ServedRescan DEF CoverDone, FollowerUnchanged, TypeOK
  <2> QED
    BY <2>1, <2>2
<1>6. CASE Look
  <2>1. Pending' = Pending /\ (reader' = "wait" => ~HasPending)
    BY <1>6 DEF Look, Pending, pendingVars
  <2> QED
    BY <2>1 DEF Served, NoLostWakeup, HasPending
<1>7. CASE Woken
  <2>1. Pending' = Pending /\ reader' = "check"
    BY <1>7 DEF Woken, Pending
  <2> QED
    BY <2>1 DEF Served, NoLostWakeup
<1>8. CASE Take
  <2>1. paths' = {} /\ rescans' = {} /\ reader' = "check"
    BY <1>8 DEF Take, SetPending, NoPending
  <2>2. Minimal(Pending')
    <3>1. IsFiniteSet({}) /\ Cardinality({}) = 0
      BY FS_EmptySet
    <3> QED
      BY <2>1, <3>1, LimitsAssumption DEF Minimal, Pending
  <2> QED
    BY <2>1, <2>2 DEF Served, NoLostWakeup
<1>9. CASE Close
  <2>1. Pending' = Pending /\ permit'
    BY <1>9 DEF Close, Pending
  <2> QED
    BY <2>1 DEF Served, NoLostWakeup
<1>10. CASE UNCHANGED vars
  BY <1>1, <1>10 DEF vars
<1> QED
  BY <1>2, <1>3, <1>4, <1>5, <1>6, <1>7, <1>8, <1>9, <1>10 DEF Next, Follow, Read
LEMMA InQueueKept ==
    ASSUME NEW f, InQueue(f), Range(osq) \subseteq Range(osq')
    PROVE  InQueue(f)'
  BY DEF InQueue

\* No change of the disk loses track of a write, if it queues its own.
LEMMA AccountedDisk ==
    ASSUME Accounted, "rules" \notin upset, DiskStep,
           Range(osq) \subseteq Range(osq'), osWatch' \subseteq osWatch,
           \A f \in stale' : f \in stale \/ Parent[f] \notin osWatch \/ InQueue(f)'
    PROVE  Accounted'
<1>1. UNCHANGED <<Pending, busy, owed>>
  BY DEF DiskStep, followVars, pendingVars, Pending
<1>2. ASSUME NEW f \in stale', Parent[f] \in osWatch'
      PROVE  InQueue(f)' \/ Told(Pending, f)' \/ (busy /\ StartsWith(f, owed))'
  <2>1. CASE f \in stale
    <3>1. \/ InQueue(f)
          \/ Told(Pending, f)
          \/ busy /\ StartsWith(f, owed)
      BY <1>2, <2>1 DEF Accounted
    <3>2. Told(Pending, f) => Told(Pending, f)'
      BY <1>1 DEF Told, Covered
    <3> QED
      BY <1>1, <3>1, <3>2, InQueueKept
  <2>2. CASE InQueue(f)'
    BY <2>2
  <2> QED
    BY <1>2, <2>1, <2>2
<1> QED
  BY <1>2 DEF Accounted

LEMMA AccountedStep ==
    ASSUME TypeOK, TreeStands, RootWatched, Calm, Accounted, [Next]_vars
    PROVE  Accounted'
<1> SUFFICES ASSUME "rules" \notin upset' PROVE Accounted'
  BY DEF Accounted
<1>c. "rules" \notin upset
  BY UpsetGrows
<1>n. \A p : ~Ignores(p)
  BY <1>c, NothingIgnored
<1>1. ASSUME NEW f \in Files, WriteFile(f) PROVE Accounted'
  <2>1. PICK kind \in Kinds : Emit(kind, f, {})
    BY <1>1, DiskEmits DEF WriteFile
  <2>2. /\ Range(osq) \subseteq Range(osq')
        /\ Parent[f] \in osWatch =>
             [kind |-> kind, path |-> f] \in Range(osq') \/ \E o \in Range(osq') : o.kind = "overflow"
    BY <2>1, EmitKeeps, DiskEmits
  <2>3. Parent[f] \in osWatch => InQueue(f)'
    BY <2>2 DEF InQueue
  <2>4. DiskStep /\ stale' = stale \cup {f} /\ osWatch' = osWatch
    BY <1>1 DEF WriteFile
  <2> QED
    BY <1>c, <2>2, <2>3, <2>4, AccountedDisk
<1>2. ASSUME NEW d \in Dirs \ {Root}, MakeDir(d) PROVE Accounted'
  <2>1. Range(osq) \subseteq Range(osq')
    BY <1>2, EmitKeeps, DiskEmits DEF MakeDir
  <2> QED
    BY <1>c, <1>2, <2>1, AccountedDisk DEF MakeDir
<1>3. ASSUME NEW d \in Dirs \ {Root}, MoveIn(d) PROVE Accounted'
  <2>1. Range(osq) \subseteq Range(osq')
    BY <1>3, EmitKeeps, DiskEmits DEF MoveIn
  <2>2. ASSUME NEW f \in Below(d) \cap Files PROVE Parent[f] \notin osWatch
    <3>1. Parent[f] \in Below(d)
      BY BelowClimbs, KindsAssumption
    <3>2. Parent[f] \notin disk
      BY <1>3, <3>1, NothingBelow DEF MoveIn
    <3> QED
      BY <3>2 DEF TypeOK
  <2> QED
    BY <1>c, <1>3, <2>1, <2>2, AccountedDisk DEF MoveIn
<1>4. ASSUME NEW d \in Dirs \ {Root}, RemoveDir(d) \/ MoveAway(d) PROVE Accounted'
  <2>1. Range(osq) \subseteq Range(osq')
    BY <1>4, EmitKeeps, DiskEmits DEF RemoveDir, MoveAway
  <2>2. DiskStep /\ stale' \subseteq stale /\ osWatch' \subseteq osWatch
    BY <1>4 DEF RemoveDir, MoveAway, Vanish
  <2> QED
    BY <1>c, <2>1, <2>2, AccountedDisk
<1>5. ~EditRules /\ ~RefilterAll
  BY DEF EditRules, RefilterAll, Emit
<1>6. CASE HandleEvent
  <2>1. Range(osq) = {Head(osq)} \cup Range(osq') /\ Head(osq).path \in Paths
    BY <1>6, RouteTells DEF Events
  <2>2. UNCHANGED <<stale, osWatch, busy, owed>>
    BY <1>6 DEF HandleEvent
  <2>3. \A f \in Paths : Told(Pending, f) => Told(Pending, f)'
    <3>1. CASE Lost \/ RouteIgnoreFile
      <4>1. Pending' = InsertRescan(Pending, Root) /\ Pending \in Batches
        BY <3>1, HearRescanType, TreeAssumption, PendingType DEF Lost, RouteIgnoreFile
      <4> QED
        BY <4>1, RescanKeeps, TreeAssumption DEF Told, Covered
    <3>2. CASE RouteKept(Head(osq).kind, Head(osq).path)
      <4>1. Pending' = Change(Pending, Head(osq).path) /\ Pending \in Batches
        BY <2>1, <3>2, HearType, PendingType DEF RouteKept
      <4> QED
        BY <2>1, <4>1, ChangeKeeps DEF Told, Covered
    <3> QED
      BY <1>6, <1>n, <3>1, <3>2 DEF HandleEvent, Route, RouteIgnored
  <2>4. ASSUME NEW f \in Paths, Head(osq).path = f \/ Head(osq).kind = "overflow"
        PROVE  Told(Pending, f)'
    <3>1. CASE Lost \/ RouteIgnoreFile
      <4>1. Pending' = InsertRescan(Pending, Root) /\ Pending \in Batches
        BY <3>1, HearRescanType, TreeAssumption, PendingType DEF Lost, RouteIgnoreFile
      <4>2. StartsWith(f, Root)
        BY RootAboveAll DEF StartsWith
      <4> QED
        BY <4>1, <4>2, RescanKeeps, TreeAssumption DEF Told, Covered
    <3>2. CASE RouteKept(Head(osq).kind, Head(osq).path) /\ Head(osq).path = f
      <4>1. Pending' = Change(Pending, f) /\ Pending \in Batches
        BY <3>2, HearType, PendingType DEF RouteKept
      <4> QED
        BY <4>1, ChangeKeeps DEF Told, Covered
    <3> QED
      BY <1>6, <1>n, <2>4, <3>1, <3>2 DEF HandleEvent, Route, RouteIgnored
  <2>5. ASSUME NEW f \in stale', Parent[f] \in osWatch'
        PROVE  InQueue(f)' \/ Told(Pending, f)' \/ (busy /\ StartsWith(f, owed))'
    <3>1. f \in Paths
      BY <2>2, <2>5, PathsClimb DEF TypeOK
    <3>2. \/ InQueue(f)
          \/ Told(Pending, f)
          \/ busy /\ StartsWith(f, owed)
      BY <1>c, <2>2, <2>5 DEF Accounted
    <3>3. InQueue(f) => InQueue(f)' \/ Told(Pending, f)'
      BY <2>1, <2>4, <3>1 DEF InQueue
    <3> QED
      BY <2>2, <2>3, <3>1, <3>2, <3>3
  <2> QED
    BY <2>5 DEF Accounted
<1>7. CASE FollowMessage
  <2>1. UNCHANGED <<stale, osq, Pending>> /\ ~busy /\ osWatch' \subseteq osWatch
    BY <1>7 DEF FollowMessage, pendingVars, Pending, Appeared, Gone, Refilter, Forget
  <2>2. \A f : InQueue(f)' = InQueue(f) /\ Told(Pending, f)' = Told(Pending, f)
    BY <2>1 DEF InQueue, Told, Covered
  <2> QED
    BY <1>c, <2>1, <2>2 DEF Accounted
<1>8. ASSUME NEW d \in Dirs, CoverWatch(d) PROVE Accounted'
  <2>1. UNCHANGED <<stale, osq, Pending, busy, owed>> /\ osWatch' \subseteq osWatch \cup {d}
    BY <1>8 DEF CoverWatch, FollowerUnchanged, pendingVars, Pending
  <2>2. \A f : InQueue(f)' = InQueue(f) /\ Told(Pending, f)' = Told(Pending, f)
    BY <2>1 DEF InQueue, Told, Covered
  <2>3. busy /\ owed \in Above[d]
    BY <1>8, <1>c DEF CoverWatch, Calm
  <2>4. ASSUME NEW f \in stale, Parent[f] = d PROVE StartsWith(f, owed)
    <3>1. f \in Paths /\ f # Root
      BY PathsClimb, TreeAssumption, KindsAssumption DEF TypeOK
    <3> QED
      BY <2>3, <2>4, <3>1, AboveStep DEF StartsWith
  <2> QED
    BY <1>c, <2>1, <2>2, <2>3, <2>4 DEF Accounted
<1>9. CASE CoverList
  <2>1. UNCHANGED <<stale, osq, Pending, busy, owed, osWatch>>
    BY <1>9 DEF CoverList, FollowerUnchanged, pendingVars, Pending
  <2>2. \A f : InQueue(f)' = InQueue(f) /\ Told(Pending, f)' = Told(Pending, f)
    BY <2>1 DEF InQueue, Told, Covered
  <2> QED
    BY <1>c, <2>1, <2>2 DEF Accounted
<1>10. CASE CoverDone
  <2>1. UNCHANGED <<stale, osq, osWatch>> /\ busy
    BY <1>10 DEF CoverDone, FollowerUnchanged
  <2>2. owed \in Dirs
    BY <1>c, <2>1 DEF Calm
  <2>3. Pending' = InsertRescan(Pending, owed) /\ Pending \in Batches
    BY <1>10, <2>2, KindsAssumption, HearRescanType, PendingType DEF CoverDone
  <2>4. \A f \in Paths : Told(Pending, f) \/ StartsWith(f, owed) => Told(Pending, f)'
    BY <2>2, <2>3, RescanKeeps DEF Told, Covered
  <2>5. \A f \in stale : f \in Paths
    BY PathsClimb DEF TypeOK
  <2>6. \A f : InQueue(f)' = InQueue(f)
    BY <2>1 DEF InQueue
  <2> QED
    BY <1>c, <2>1, <2>4, <2>5, <2>6 DEF Accounted
<1>11. CASE Take
  <2>1. UNCHANGED <<osq, osWatch, busy, owed>>
    BY <1>11 DEF Take, ReaderUnchanged, followVars
  <2>2. stale' = {f \in stale : ~Told(Pending, f)}
    BY <1>11, <1>n DEF Take, Told, Pending
  <2>3. \A f : InQueue(f)' = InQueue(f)
    BY <2>1 DEF InQueue
  <2> QED
    BY <1>c, <2>1, <2>2, <2>3 DEF Accounted
<1>12. CASE Look \/ Woken \/ Close \/ UNCHANGED vars
  <2>1. UNCHANGED <<stale, osq, Pending, busy, owed, osWatch>>
    BY <1>12
       DEF Look, Woken, Close, ReaderUnchanged, followVars, pendingVars, Pending, vars
  <2>2. \A f : InQueue(f)' = InQueue(f) /\ Told(Pending, f)' = Told(Pending, f)
    BY <2>1 DEF InQueue, Told, Covered
  <2> QED
    BY <1>c, <2>1, <2>2 DEF Accounted
<1> QED
  BY <1>1, <1>2, <1>3, <1>4, <1>5, <1>6, <1>7, <1>8, <1>9, <1>10, <1>11, <1>12
     DEF Next, DiskChanges, Follow, Read
LEMMA ComesKept ==
    ASSUME NEW d, Comes(d), Range(osq) \subseteq Range(osq'), msgs' = msgs
    PROVE  Comes(d)'
  BY DEF Comes

LEMMA GoesKept ==
    ASSUME NEW d, Goes(d), Range(osq) \subseteq Range(osq'), msgs' = msgs
    PROVE  Goes(d)'
  BY DEF Goes

\* A change of the disk that queues what the follower must hear.
LEMMA FollowedDisk ==
    ASSUME Followed, upset = {}, DiskStep,
           Range(osq) \subseteq Range(osq'), osWatch' \subseteq osWatch,
           \A d \in osWatch \ osWatch' : Goes(d)',
           \A d \in disk' : d \in disk \/ d = Root \/ Parent[d] \notin osWatch \/ Comes(d)'
    PROVE  Followed'
<1>1. UNCHANGED <<msgs, watched, uncovered, todo, reading>>
  BY DEF DiskStep, followVars
<1>2. ASSUME NEW d \in watched \ osWatch' PROVE Goes(d)'
  <2>1. CASE d \in osWatch
    BY <1>2, <2>1
  <2>2. CASE d \notin osWatch
    BY <1>1, <1>2, <2>2, GoesKept DEF Followed
  <2> QED
    BY <2>1, <2>2
<1>3. ASSUME NEW d \in disk' \ {Root}
      PROVE  \/ d \in watched
             \/ Parent[d] \notin osWatch'
             \/ d \in uncovered
             \/ Comes(d)'
             \/ d \in todo
             \/ reading = Parent[d]
  <2>1. CASE d \in disk
    BY <1>1, <1>3, <2>1, ComesKept DEF Followed
  <2>2. CASE d \notin disk
    BY <1>3, <2>2
  <2> QED
    BY <2>1, <2>2
<1> QED
  BY <1>1, <1>2, <1>3 DEF Followed

\* While nothing is upset the queue takes every event of a watched place.
LEMMA EmitQueues ==
    ASSUME TypeOK, NEW kind \in Kinds, NEW p \in Paths, Emit(kind, p, {}), upset' = {}
    PROVE  /\ Range(osq) \subseteq Range(osq')
           /\ (Parent[p] \in osWatch \/ p \in osWatch) => [kind |-> kind, path |-> p] \in Range(osq')
<1>1. {} \in SUBSET Upsets
  BY DiskEmits
<1> QED
  BY <1>1, EmitKeeps

LEMMA FollowedStep ==
    ASSUME TypeOK, TreeStands, RootWatched, Calm, Followed, [Next]_vars
    PROVE  Followed'
<1> SUFFICES ASSUME upset' = {} PROVE Followed'
  BY DEF Followed
<1>c. upset = {} /\ "rules" \notin upset
  BY UpsetGrows
<1>n. \A p : ~Ignores(p)
  BY <1>c, NothingIgnored
<1>1. ASSUME NEW f \in Files, WriteFile(f) PROVE Followed'
  <2>1. PICK kind \in Kinds : Emit(kind, f, {})
    BY <1>1, DiskEmits DEF WriteFile
  <2>2. Range(osq) \subseteq Range(osq')
    BY <2>1, EmitQueues, DiskEmits
  <2> QED
    BY <1>c, <1>1, <2>2, FollowedDisk DEF WriteFile
<1>2. ASSUME NEW d \in Dirs \ {Root}, MakeDir(d) PROVE Followed'
  <2>1. /\ Range(osq) \subseteq Range(osq')
        /\ Parent[d] \in osWatch => [kind |-> "create", path |-> d] \in Range(osq')
    BY <1>2, EmitQueues, DiskEmits DEF MakeDir
  <2>2. Parent[d] \in osWatch => Comes(d)'
    BY <2>1 DEF Comes
  <2>3. DiskStep /\ disk' = disk \cup {d} /\ osWatch' = osWatch
    BY <1>2 DEF MakeDir
  <2> QED
    BY <1>c, <2>1, <2>2, <2>3, FollowedDisk
<1>3. ASSUME NEW d \in Dirs \ {Root}, MoveIn(d) PROVE Followed'
  <2>1. /\ Range(osq) \subseteq Range(osq')
        /\ Parent[d] \in osWatch => [kind |-> "name", path |-> d] \in Range(osq')
    BY <1>3, EmitQueues, DiskEmits DEF MoveIn
  <2>2. Parent[d] \in osWatch => Comes(d)'
    BY <2>1 DEF Comes
  <2>3. DiskStep /\ disk' = disk \cup (Below(d) \cap Dirs) /\ osWatch' = osWatch /\ d \notin disk
    BY <1>3 DEF MoveIn
  <2>4. ASSUME NEW e \in Below(d), e # d PROVE Parent[e] \notin osWatch
    BY <2>3, <2>4, BelowClimbs, NothingBelow DEF TypeOK
  <2>5. \A e \in disk' : e \in disk \/ e = Root \/ Parent[e] \notin osWatch \/ Comes(e)'
    BY <2>2, <2>3, <2>4
  <2> QED
    BY <1>c, <2>1, <2>3, <2>5, FollowedDisk
<1>4. ASSUME NEW d \in Dirs \ {Root}, RemoveDir(d) PROVE Followed'
  <2>1. /\ Range(osq) \subseteq Range(osq')
        /\ d \in osWatch => [kind |-> "remove", path |-> d] \in Range(osq')
    BY <1>4, EmitQueues, DiskEmits DEF RemoveDir
  <2>2. d \in osWatch => Goes(d)'
    BY <2>1 DEF Goes
  <2>3. /\ DiskStep /\ disk' \subseteq disk /\ osWatch' = osWatch \ Below(d)
        /\ Below(d) \cap disk = {d}
    BY <1>4 DEF RemoveDir, Vanish
  <2>4. \A e \in osWatch \ osWatch' : e = d
    BY <2>3 DEF TypeOK
  <2> QED
    BY <1>c, <2>1, <2>2, <2>3, <2>4, FollowedDisk
<1>5. /\ \A d \in Dirs : ~MoveAway(d)
      /\ ~EditRules /\ ~RefilterAll
  BY DEF MoveAway, EditRules, RefilterAll, Emit
<1>6. CASE HandleEvent
  <2>1. /\ Range(osq) = {Head(osq)} \cup Range(osq') /\ Head(osq) \in Range(osq)
        /\ Range(msgs) \subseteq Range(msgs') /\ msgs \in Seq(Messages)
        /\ Head(osq) \in Events
    BY <1>6, RouteTells DEF TypeOK
  <2>2. /\ UNCHANGED <<disk, osWatch, watched, uncovered, todo, reading>>
        /\ Route(Head(osq))
    BY <1>6 DEF HandleEvent, diskVars
  <2>3. Head(osq).path \in Paths /\ (Head(osq).kind = "overflow" \/ Head(osq).path # IgnoreFile)
    BY <1>c, <2>1 DEF Calm, Events
  <2>4. ASSUME NEW d, Head(osq).path = d, Head(osq).kind \in {"create", "name"}
        PROVE  [type |-> "appeared", path |-> d] \in Range(msgs')
    <3>1. msgs' = Append(msgs, [type |-> "appeared", path |-> d])
      BY <1>n, <2>2, <2>3, <2>4 DEF Route, RouteIgnored, RouteKept, Tell
    <3>2. [type |-> "appeared", path |-> d] \in Messages
      BY <2>3, <2>4 DEF Messages
    <3> QED
      BY <2>1, <3>1, <3>2, RangeAppend
  <2>5. ASSUME NEW d, Head(osq).path = d, Head(osq).kind = "remove"
        PROVE  [type |-> "gone", path |-> d] \in Range(msgs')
    <3>1. msgs' = Append(msgs, [type |-> "gone", path |-> d])
      BY <1>n, <2>2, <2>3, <2>5 DEF Route, RouteIgnored, RouteKept, Tell
    <3>2. [type |-> "gone", path |-> d] \in Messages
      BY <2>3, <2>5 DEF Messages
    <3> QED
      BY <2>1, <3>1, <3>2, RangeAppend
  <2>6. \A d : Comes(d) => Comes(d)'
    BY <2>1, <2>4 DEF Comes
  <2>7. \A d : Goes(d) => Goes(d)'
    BY <2>1, <2>5 DEF Goes
  <2> QED
    BY <1>c, <2>2, <2>6, <2>7 DEF Followed
<1>7. CASE FollowMessage
  <2> DEFINE p == Head(msgs).path
  <2>1. /\ Head(msgs) \in Messages /\ Range(msgs) = {Head(msgs)} \cup Range(msgs')
        /\ msgs' = Tail(msgs)
        /\ Head(msgs).type # "refilter"
    BY <1>7, <1>c, FollowTakes DEF Calm
  <2>2. UNCHANGED <<disk, osq, uncovered, reading>> /\ ~busy /\ todo = {} /\ reading = NoPath
    BY <1>7 DEF FollowMessage, RootWatched
  <2>3. ASSUME NEW d, Comes(d), Head(msgs) # [type |-> "appeared", path |-> d] PROVE Comes(d)'
    BY <2>1, <2>2, <2>3 DEF Comes
  <2>4. ASSUME NEW d, Goes(d), Head(msgs) # [type |-> "gone", path |-> d] PROVE Goes(d)'
    BY <2>1, <2>2, <2>4 DEF Goes
  <2>5. \A d \in disk \ {Root} : reading # Parent[d]
    BY <2>2, PathsClimb, KindsAssumption DEF TypeOK
  <2>6. CASE Head(msgs).type = "appeared" /\ Appeared(p)
    <3>1. UNCHANGED <<watched, osWatch>>
      BY <2>6 DEF Appeared
    <3>2. ASSUME NEW d \in watched \ osWatch PROVE Goes(d)'
      <4>1. Goes(d)
        BY <1>c, <3>2 DEF Followed
      <4>2. Head(msgs) # [type |-> "gone", path |-> d]
        BY <2>6
      <4> QED
        BY <2>4, <4>1, <4>2
    <3>3. p \in disk => p \in watched \/ p \in todo'
      BY <1>n, <2>6 DEF Appeared, NeedsCover, StartCover
    <3>4. ASSUME NEW d \in disk \ {Root}
          PROVE  \/ d \in watched \/ Parent[d] \notin osWatch \/ d \in uncovered
                 \/ Comes(d)' \/ d \in todo'
      <4>1. CASE d = p
        BY <3>3, <3>4, <4>1
      <4>2. CASE d # p
        <5>1. Head(msgs) # [type |-> "appeared", path |-> d]
          BY <4>2
        <5> QED
          BY <1>c, <2>2, <2>3, <2>5, <3>4, <5>1 DEF Followed
      <4> QED
        BY <4>1, <4>2
    <3> QED
      BY <2>2, <3>1, <3>2, <3>4 DEF Followed
  <2>7. CASE Head(msgs).type = "gone" /\ Gone(p)
    <3> DEFINE under == {x \in watched : p \in Above[x]}
    <3>1. /\ watched' = watched \ under /\ osWatch' = osWatch \ under
          /\ ~LateGone(p) /\ todo' = todo
      BY <2>7 DEF Gone, Forget, NoCover
    <3>2. p \in watched => p \in under
      BY AboveSelf, PathsClimb DEF TypeOK
    <3>3. ASSUME NEW d \in watched' \ osWatch' PROVE Goes(d)'
      <4>1. d \in watched \ osWatch /\ d # p
        BY <3>1, <3>2, <3>3
      <4>2. Head(msgs) # [type |-> "gone", path |-> d]
        BY <4>1
      <4> QED
        BY <1>c, <2>4, <4>1, <4>2 DEF Followed
    <3>4. ASSUME NEW d \in disk \ {Root}
          PROVE  \/ d \in watched' \/ Parent[d] \notin osWatch' \/ d \in uncovered \/ Comes(d)'
      <4>1. Head(msgs) # [type |-> "appeared", path |-> d]
        BY <2>7
      <4>2. CASE d \notin watched
        BY <1>c, <2>2, <2>3, <2>5, <3>1, <3>4, <4>1, <4>2 DEF Followed
      <4>3. CASE d \in watched \ under
        BY <3>1, <4>3
      <4>4. CASE d \in under /\ d # p
        <5>1. d \in Paths /\ p \in Above[Parent[d]]
          BY <3>4, <4>4, AboveStep, PathsClimb DEF TypeOK
        <5>2. Parent[d] \in osWatch => Parent[d] \in under
          BY <5>1 DEF RootWatched
        <5> QED
          BY <3>1, <5>2
      <4>5. CASE d = p /\ d \in watched
        <5>1. Parent[p] \notin osWatch \/ Expected(p)
          BY <3>1, <3>4, <4>5 DEF LateGone
        <5>2. ASSUME Expected(p) PROVE Comes(d)'
          <6>1. CASE \E i \in DOMAIN osq : osq[i].path = p /\ osq[i].kind \in {"create", "name"}
            BY <2>2, <4>5, <6>1 DEF Comes, Range
          <6>2. CASE \E i \in DOMAIN msgs : i > 1 /\ msgs[i] = [type |-> "appeared", path |-> p]
            <7>1. PICK i \in DOMAIN msgs : i > 1 /\ msgs[i] = [type |-> "appeared", path |-> p]
              BY <6>2
            <7>2. msgs \in Seq(Messages)
              BY DEF TypeOK
            <7>3. [type |-> "appeared", path |-> p] \in Range(msgs)
              BY <7>1, Zenon DEF Range
            <7>4. Head(msgs) # [type |-> "appeared", path |-> p]
              BY <2>7
            <7> QED
              BY <2>1, <4>5, <7>3, <7>4 DEF Comes
          <6> QED
            BY <5>2, <6>1, <6>2 DEF Expected
        <5> QED
          BY <3>1, <4>5, <5>1, <5>2
      <4> QED
        BY <4>2, <4>3, <4>4, <4>5
    <3> QED
      BY <2>2, <3>3, <3>4 DEF Followed
  <2> QED
    BY <1>7, <2>1, <2>6, <2>7 DEF FollowMessage
<1>8. ASSUME NEW d \in Dirs, CoverWatch(d) PROVE Followed'
  <2>1. /\ UNCHANGED <<disk, osq, msgs>> /\ todo' = todo \ {d} /\ reading = NoPath
        /\ uncovered \subseteq uncovered'
    BY <1>8 DEF CoverWatch, FollowerUnchanged, diskVars
  <2>2. \A e : Comes(e)' = Comes(e) /\ Goes(e)' = Goes(e)
    BY <2>1 DEF Comes, Goes
  <2>3. \A e \in disk \ {Root} : reading # Parent[e]
    BY <2>1, PathsClimb, KindsAssumption DEF TypeOK
  <2>4. d \in disk => d \in watched' \/ d \in uncovered'
    BY <1>8 DEF CoverWatch
  <2>5. \/ UNCHANGED <<watched, osWatch>>
        \/ /\ watched' = watched \cup {d} /\ osWatch' = osWatch \cup {d}
           /\ reading' = d
    BY <1>8 DEF CoverWatch
  <2>6. ASSUME NEW e \in watched' \ osWatch' PROVE Goes(e)'
    BY <1>c, <2>2, <2>5, <2>6 DEF Followed
  <2>7. ASSUME NEW e \in disk \ {Root}
        PROVE  \/ e \in watched' \/ Parent[e] \notin osWatch' \/ e \in uncovered'
               \/ Comes(e)' \/ e \in todo' \/ reading' = Parent[e]
    <3>1. CASE e = d
      BY <2>4, <2>7, <3>1
    <3>2. CASE e # d
      BY <1>c, <2>1, <2>2, <2>3, <2>5, <2>7, <3>2 DEF Followed
    <3> QED
      BY <3>1, <3>2
  <2> QED
    BY <2>1, <2>6, <2>7 DEF Followed
<1>9. CASE CoverList
  <2>1. /\ UNCHANGED <<disk, osq, msgs, watched, osWatch, uncovered>>
        /\ todo' = todo \cup {d \in disk \ {Root} : Parent[d] = reading}
    BY <1>9, <1>n DEF CoverList, FollowerUnchanged, diskVars
  <2>2. \A e : Comes(e)' = Comes(e) /\ Goes(e)' = Goes(e)
    BY <2>1 DEF Comes, Goes
  <2> QED
    BY <1>c, <2>1, <2>2 DEF Followed
<1>10. CASE CoverDone \/ Read \/ Close \/ UNCHANGED vars
  <2>1. UNCHANGED <<disk, osq, msgs, watched, osWatch, uncovered, todo, reading>>
    BY <1>10
       DEF CoverDone, FollowerUnchanged, Read, Look, Woken, Take, Close, ReaderUnchanged,
           diskVars, followVars, vars
  <2>2. \A e : Comes(e)' = Comes(e) /\ Goes(e)' = Goes(e)
    BY <2>1 DEF Comes, Goes
  <2> QED
    BY <1>c, <2>1, <2>2 DEF Followed
<1> QED
  BY <1>1, <1>2, <1>3, <1>4, <1>5, <1>6, <1>7, <1>8, <1>9, <1>10 DEF Next, DiskChanges, Follow
-----------------------------------------------------------------------------
LEMMA WatchInit ==
    ASSUME Init
    PROVE  WatchInv
<1> USE DEF Init
<1>1. TypeOK
  BY WatchTypeInit
<1>2. NoLostWakeup /\ Minimal(Pending)
  <2>1. IsFiniteSet({}) /\ Cardinality({}) = 0
    BY FS_EmptySet
  <2> QED
    BY <2>1, LimitsAssumption DEF NoLostWakeup, Minimal, Pending
<1>3. TreeStands /\ RootWatched
  BY RangeEmpty DEF TreeStands, RootWatched
<1>4. Calm
  BY RangeEmpty DEF Calm
<1>5. Accounted /\ Followed
  BY DEF Accounted, Followed
<1> QED
  BY <1>1, <1>2, <1>3, <1>4, <1>5 DEF WatchInv

LEMMA WatchStep ==
    ASSUME WatchInv, [Next]_vars
    PROVE  WatchInv'
<1> USE DEF WatchInv
<1>1. TypeOK'
  BY DiskTypeStep, HandleTypeStep, FollowTypeStep, ReadTypeStep, WatchTypeSame DEF Next
<1>2. Served'
  BY ServedStep DEF Served
<1>3. TreeStands' /\ RootWatched' /\ Calm'
  BY TreeStep, RootWatchedStep, CalmStep
<1>4. Accounted' /\ Followed'
  BY AccountedStep, FollowedStep
<1> QED
  BY <1>1, <1>2, <1>3, <1>4 DEF Served

\* Of every behaviour of the watch, whatever its tree and its limits.
THEOREM WatchCorrect == Spec => []WatchInv
<1>1. Init => WatchInv
  BY WatchInit
<1>2. WatchInv /\ [Next]_vars => WatchInv'
  BY WatchStep
<1> QED
  BY <1>1, <1>2, PTL DEF Spec

\* The type invariant of the watch: what it holds is of its kinds, and the OS watches
\* only directories that are there.
THEOREM WatchTypeCorrect == Spec => []TypeOK
<1>1. WatchInv => TypeOK
  BY DEF WatchInv
<1> QED
  BY <1>1, WatchCorrect, PTL

\* Pending and Subscription: no subscriber sleeps on pending changes, and a batch is
\* bounded and minimal, for any limit and any tree.
THEOREM PendingServedCorrect == Spec => []PendingServed
<1>1. WatchInv => PendingServed
  BY PendingRecord DEF WatchInv, PendingServed, BatchMinimal, Minimal
<1> QED
  BY <1>1, WatchCorrect, PTL

\* Router and Follower: while no rule changed a write is only ever missed where the OS
\* has no watch, though events are dropped, directories move away, the pending set
\* collapses and the follower lags behind.
THEOREM MissedOnlyUnwatchedCorrect == Spec => []MissedOnlyUnwatched
<1>1. ASSUME WatchInv, Quiet, "rules" \notin upset, NEW f \in Missed
      PROVE  Parent[f] \notin osWatch
  <2>1. f \in stale
    BY <1>1 DEF Missed
  <2>2. ~InQueue(f) /\ ~busy
    BY <1>1, RangeEmpty DEF Quiet, InQueue
  <2>3. ~Told(Pending, f)
    BY <1>1 DEF Quiet, HasPending, NoPending, Told, Covered, Pending
  <2> QED
    BY <1>1, <2>1, <2>2, <2>3 DEF WatchInv, Accounted
<1>2. WatchInv => MissedOnlyUnwatched
  BY <1>1 DEF MissedOnlyUnwatched
<1> QED
  BY <1>2, WatchCorrect, PTL

\* Once all is done and nothing upset it the watch stands on each directory that is
\* there, but for those it listed as uncovered and what is under them.
LEMMA WatchedDown ==
    ASSUME WatchInv, Quiet, upset = {}, NEW p \in disk, Above[p] \cap uncovered = {}
    PROVE  p \in osWatch
<1> USE DEF WatchInv
<1> DEFINE S == {x \in disk : x \in Above[p] /\ x \notin osWatch}
<1>1. p \in Paths /\ S \in SUBSET (Paths \ {Root})
  BY PathsClimb DEF TypeOK, RootWatched
<1>2. CASE S # {}
  <2>1. PICK x \in S : Parent[x] \notin S
    BY <1>1, <1>2, ClimbOut
  <2>2. x \in Paths \ {Root} /\ x \in disk /\ x \in Above[p] /\ x \notin osWatch
    BY <1>1, <2>1
  <2>3. Parent[x] \in disk /\ Parent[x] \in Paths
    BY <2>2, PathsClimb DEF TreeStands
  <2>4. Parent[x] \in Above[p]
    <3>1. Parent[x] \in Above[x]
      BY <2>2, <2>3, AboveStep, AboveSelf
    <3> QED
      BY <1>1, <2>2, <3>1, AboveTransitive
  <2>5. Parent[x] \in osWatch /\ x \notin uncovered
    BY <2>1, <2>2, <2>3, <2>4
  <2>6. ~Comes(x) /\ ~Goes(x)
    BY RangeEmpty DEF Quiet, Comes, Goes
  <2>7. todo = {} /\ reading = NoPath /\ Parent[x] # NoPath
    BY <2>2, PathsClimb, KindsAssumption DEF Quiet, RootWatched
  <2>8. x \in watched
    BY <2>2, <2>5, <2>6, <2>7 DEF Followed
  <2> QED
    BY <2>2, <2>6, <2>8 DEF Followed
<1> QED
  BY <1>1, <1>2, AboveSelf

\* Follower: however directories come and go, when everything under way is done no kept
\* write was missed and the follower's set is the OS's, as long as nothing upset it.
THEOREM NothingMissedCorrect == Spec => []NothingMissed
<1>1. ASSUME WatchInv, Quiet, upset = {} PROVE Missed = {} /\ watched = osWatch
  <2> USE DEF WatchInv
  <2>1. watched = osWatch
    <3>1. \A d : ~Goes(d)
      BY <1>1, RangeEmpty DEF Quiet, Goes
    <3> QED
      BY <1>1, <3>1 DEF Followed, RootWatched
  <2>2. ASSUME NEW f \in Missed PROVE FALSE
    <3>1. f \in stale /\ f \in Files /\ Above[f] \cap uncovered = {}
      BY <1>1, <2>2 DEF Missed, TypeOK
    <3>2. f \in Paths \ {Root} /\ Parent[f] \in disk
      BY <1>1, <3>1, PathsClimb, TreeAssumption, KindsAssumption DEF TreeStands, TypeOK
    <3>3. Above[Parent[f]] \cap uncovered = {}
      BY <3>1, <3>2, AboveStep
    <3>4. Parent[f] \in osWatch
      BY <1>1, <3>2, <3>3, WatchedDown
    <3>5. ~InQueue(f) /\ ~busy
      BY <1>1, RangeEmpty DEF Quiet, InQueue
    <3>6. ~Told(Pending, f)
      BY <1>1 DEF Quiet, HasPending, NoPending, Told, Covered, Pending
    <3> QED
      BY <1>1, <3>1, <3>4, <3>5, <3>6 DEF Accounted
  <2> QED
    BY <2>1, <2>2
<1>2. WatchInv => NothingMissed
  BY <1>1 DEF NothingMissed
<1> QED
  BY <1>2, WatchCorrect, PTL
(***************************************************************************)
(* The terminals: their inductive invariant.                               *)
(***************************************************************************)

\* Who answers for a process: a call until it is registered, its forwarder from then
\* on, and the registry and the key hold none that its forwarder is done with; of
\* one that a dropped call left, nobody may know, or the key that was not removed.
Owned ==
    /\ \A s \in registered : forwarder[s] = "listens"
    /\ \A s \in Sessions :
        /\ forwarder[s] = "listens" => s \in registered
        /\ byKey = s => \/ forwarder[s] \in {"listens", "unkeys"}
                        \/ forwarder[s] = "aborted" /\ s \in left
        /\ process[s] = "unborn" => forwarder[s] = "off"
        /\ process[s] = "alive" => forwarder[s] \in {"off", "listens"} \/ s \in left
        /\ forwarder[s] = "off" /\ process[s] # "unborn" =>
               s \in left \/ \E w \in Windows : opener[w] = [pc |-> "register", id |-> s]
    /\ \A w \in Windows :
        opener[w].pc = "register" =>
            /\ opener[w].id \in Sessions
            /\ process[opener[w].id] # "unborn" /\ forwarder[opener[w].id] = "off"
    /\ \A v, w \in Windows :
        opener[v].pc = "register" /\ opener[w].pc = "register" /\ opener[v].id = opener[w].id
            => v = w

\* As long as no two opens overlap, the registry holds at most the key's session, and
\* nothing while a call starts one, but for what dropped calls left.
Single ==
    ~overlap =>
        /\ \A v, w \in Windows : opener[v].pc # "idle" /\ opener[w].pc # "idle" => v = w
        /\ registered \ left \subseteq {byKey}
        /\ \A w \in Windows :
            /\ opener[w].pc \in {"spawn", "register"} => registered \ left = {}
            /\ opener[w].pc = "found" => byKey \in {opener[w].id, NoSession}

\* A drain task that nobody woke has seen the key there is, or there is no process.
Waits ==
    \A q \in Inputs :
        ~drain[q].woken =>
            /\ drain[q].pc = "sleep" => byKey \notin registered
            /\ drain[q].pc = "check" => byKey \notin registered \/ drain[q].id = byKey

\* A queue that is in use has its drain task.
Drained ==
    /\ \A q \in Inputs : buffer[q] # <<>> => drain[q].pc # "off"
    /\ input # NoQueue => drain[input].pc # "off"

Underway(q) == drain[q].pc \notin {"off", "recv"}

\* Of one queue: what was written, then the message that is under way, then what waits.
Waiting(q) ==
    /\ \A i \in 1..Len(buffer[q]) : buffer[q][i] <= typed
    /\ \A i, j \in 1..Len(buffer[q]) : i < j => buffer[q][i] < buffer[q][j]
    /\ Underway(q) =>
        /\ drain[q].message \in 1..typed
        /\ \A i \in 1..Len(buffer[q]) : drain[q].message < buffer[q][i]

Precedes(m, q) ==
    /\ m <= typed
    /\ Underway(q) => m < drain[q].message
    /\ \A i \in 1..Len(buffer[q]) : m < buffer[q][i]

InLine ==
    /\ \A q \in Inputs : Waiting(q)
    /\ \A k \in 1..Len(written) : Precedes(written[k].message, written[k].queue)

TerminalInv ==
    /\ TerminalTypeOK
    /\ Owned /\ Single /\ Waits /\ Drained /\ InLine /\ InputInOrder
SessionPcs == {"idle", "found", "spawn", "register"}
DrainPcs == {"off", "recv", "look", "check", "sleep", "send", "write"}
Openers == [pc : SessionPcs, id : Sessions \cup {NoSession}]
Tasks == [pc : DrainPcs, message : 0..LastMessage, round : 0..2,
          id : Sessions \cup {NoSession}, woken : BOOLEAN]

LEMMA TerminalTypes ==
    ASSUME TerminalTypeOK
    PROVE  /\ opener \in [Windows -> Openers]
           /\ drain \in [Inputs -> Tasks]
           /\ buffer \in [Inputs -> Seq(Inputs)]
           /\ typed \in Nat /\ typed <= LastMessage /\ LastMessage \in Nat
           /\ NoSession \notin Sessions /\ NoQueue \notin Inputs
           /\ \A m \in Inputs : m \in 0..LastMessage
  BY TerminalAssumption
     DEF TerminalTypeOK, Openers, Tasks, SessionPcs, DrainPcs, Sessions, Inputs, NoSession, NoQueue

\* The calls of open_terminal_session, and what they leave alone.
LEMMA OpenTypeStep ==
    ASSUME TerminalInv, NEW w \in Windows, Reattach(w) \/ Opens(w)
    PROVE  TerminalTypeOK'
<1> USE DEF TerminalTypeOK, historyVars
<1>0. TerminalTypeOK /\ opener \in [Windows -> Openers] /\ opener[w] \in Openers
  BY TerminalTypes DEF TerminalInv
<1>1. ASSUME NEW pc \in SessionPcs, NEW id \in Sessions \cup {NoSession}, OpenGoes(w, pc, id)
      PROVE  opener' \in [Windows -> Openers]
  BY <1>0, <1>1 DEF OpenGoes, Openers
<1>2. Opened \in Openers
  BY DEF Opened, Openers, SessionPcs
<1>3. opener' \in [Windows -> Openers] => TerminalTypeOK' \/ ~UNCHANGED <<process, registered, byKey, forwarder, drain, input, inputVars>>
        \/ overlap' \notin BOOLEAN \/ ~(left' \subseteq Sessions)
  BY <1>0 DEF Openers, SessionPcs, inputVars
<1>4. CASE Reattach(w)
  <2>1. opener' \in [Windows -> Openers]
    BY <1>0, <1>1, <1>4 DEF Reattach, SessionPcs
  <2> QED
    BY <1>0, <1>3, <1>4, <2>1 DEF Reattach
<1>5. CASE ReattachEntry(w)
  <2>1. opener' \in [Windows -> Openers]
    BY <1>0, <1>1, <1>2, <1>5 DEF ReattachEntry, SessionPcs
  <2> QED
    BY <1>0, <1>3, <1>5, <2>1 DEF ReattachEntry
<1>6. CASE SpawnPane(w)
  <2>1. PICK s \in Unborn : process' = [process EXCEPT ![s] = "alive"] /\ OpenGoes(w, "register", s)
    BY <1>6 DEF SpawnPane
  <2>2. s \in Sessions
    BY DEF Unborn
  <2>3. opener' \in [Windows -> Openers]
    BY <1>1, <2>1, <2>2 DEF SessionPcs
  <2>4. process' \in [Sessions -> {"unborn", "alive", "exited", "killed"}]
    BY <1>0, <2>1
  <2> QED
    BY <1>0, <1>6, <2>3, <2>4 DEF SpawnPane, inputVars, Openers, SessionPcs
<1>7. CASE SpawnFails(w)
  <2>1. opener' \in [Windows -> Openers]
    BY <1>0, <1>2, <1>7 DEF SpawnFails
  <2> QED
    BY <1>0, <1>3, <1>7, <2>1 DEF SpawnFails
<1>8. CASE Register(w)
  <2>1. opener[w].id \in Sessions
    BY <1>8 DEF Register, TerminalInv, Owned
  <2>2. opener' \in [Windows -> Openers]
    BY <1>0, <1>2, <1>8 DEF Register
  <2>3. drain' \in [Inputs -> Tasks]
    <3>1. drain \in [Inputs -> Tasks]
      BY <1>0, TerminalTypes
    <3>2. \A q \in Inputs :
            [drain[q] EXCEPT !.woken = drain[q].pc \in {"look", "check", "sleep"}] \in Tasks
      <4>1. ASSUME NEW q \in Inputs, NEW b \in BOOLEAN
            PROVE  [drain[q] EXCEPT !.woken = b] \in Tasks
        BY <3>1 DEF Tasks
      <4>2. TAKE q \in Inputs
      <4>3. CASE drain[q].pc \in {"look", "check", "sleep"}
        BY <4>1, <4>3
      <4>4. CASE drain[q].pc \notin {"look", "check", "sleep"}
        <5>1. (drain[q].pc \in {"look", "check", "sleep"}) = FALSE
          BY <4>4
        <5> QED
          BY <4>1, <5>1, Zenon
      <4> QED
        BY <4>3, <4>4
    <3> QED
      BY <1>8, <3>2 DEF Register
  <2>4. /\ registered' \subseteq Sessions /\ byKey' \in Sessions \cup {NoSession}
        /\ forwarder' \in [Sessions -> {"off", "listens", "unkeys", "records", "done", "aborted"}]
    BY <1>0, <1>8, <2>1 DEF Register
  <2> QED
    BY <1>0, <1>8, <2>2, <2>3, <2>4
       DEF Register, inputVars, Openers, SessionPcs, Tasks, DrainPcs
<1>9. CASE OpenDropped(w) \/ KeyDropped(w)
  <2>1. opener' \in [Windows -> Openers]
    BY <1>0, <1>2, <1>9 DEF OpenDropped, KeyDropped
  <2>2. opener[w].pc = "register" => opener[w].id \in Sessions
    BY DEF TerminalInv, Owned
  <2>3. left' \subseteq Sessions
    BY <1>0, <1>9, <2>2 DEF OpenDropped, KeyDropped, Leaves
  <2>4. CASE OpenDropped(w)
    BY <1>0, <1>3, <2>1, <2>3, <2>4 DEF OpenDropped
  <2>5. CASE KeyDropped(w)
    <3>1. /\ registered' \subseteq Sessions
          /\ forwarder' \in [Sessions -> {"off", "listens", "unkeys", "records", "done", "aborted"}]
      BY <1>0, <2>2, <2>5 DEF KeyDropped
    <3> QED
      BY <1>0, <2>1, <2>3, <2>5, <3>1 DEF KeyDropped, inputVars, Openers, SessionPcs
  <2> QED
    BY <1>9, <2>4, <2>5
<1> QED
  BY <1>4, <1>5, <1>6, <1>7, <1>8, <1>9 DEF Opens

LEMMA EndTypeStep ==
    ASSUME TerminalTypeOK, NEW s \in Sessions, Forwards(s) \/ Exits(s) \/ Closes(s)
    PROVE  TerminalTypeOK'
<1>1. CASE ForwardExit(s)
  BY <1>1 DEF TerminalTypeOK, ForwardExit, ForwarderGoes, inputVars, historyVars
<1>2. CASE ForwardUnkey(s)
  BY <1>2 DEF TerminalTypeOK, ForwardUnkey, ForwarderGoes, inputVars, historyVars
<1>3. CASE ForwardRecord(s)
  BY <1>3 DEF TerminalTypeOK, ForwardRecord, ForwarderGoes, inputVars, historyVars
<1>4. CASE Exits(s)
  BY <1>4 DEF TerminalTypeOK, Exits, inputVars, historyVars
<1>5. CASE CloseSession(s)
  BY <1>5 DEF TerminalTypeOK, CloseSession, inputVars, historyVars
<1>6. CASE CloseDropped(s)
  BY <1>6 DEF TerminalTypeOK, CloseDropped, Leaves, inputVars
<1> QED
  BY <1>1, <1>2, <1>3, <1>4, <1>5, <1>6 DEF Forwards, Closes

LEMMA InputTypeStep ==
    ASSUME TerminalInv, EnqueueInput \/ \E q \in Inputs : Drains(q)
    PROVE  TerminalTypeOK'
<1>0. /\ TerminalTypeOK /\ drain \in [Inputs -> Tasks] /\ buffer \in [Inputs -> Seq(Inputs)]
      /\ typed \in Nat /\ typed <= LastMessage /\ LastMessage \in Nat
  BY TerminalTypes DEF TerminalInv
<1>1. ASSUME /\ typed' \in 0..LastMessage /\ input' \in Inputs \cup {NoQueue}
             /\ buffer' \in [Inputs -> Seq(Inputs)] /\ drain' \in [Inputs -> Tasks]
             /\ written' \in Seq([message : Inputs, queue : Inputs])
             /\ InputUnchanged
      PROVE  TerminalTypeOK'
  BY <1>0, <1>1 DEF TerminalTypeOK, InputUnchanged, historyVars, Tasks, DrainPcs
<1>2. /\ written \in Seq([message : Inputs, queue : Inputs])
      /\ input \in Inputs \cup {NoQueue} /\ typed \in 0..LastMessage
  BY <1>0 DEF TerminalTypeOK
<1>3. CASE EnqueueInput
  <2> DEFINE q == IF input = NoQueue THEN typed + 1 ELSE input
  <2>1. /\ typed' = typed + 1 /\ typed' \in 0..LastMessage /\ typed + 1 \in Inputs
        /\ q \in Inputs
    BY <1>0, <1>2, <1>3 DEF EnqueueInput, Inputs
  <2>2. /\ input' = q /\ buffer' = [buffer EXCEPT ![q] = Append(@, typed + 1)]
        /\ drain' = IF input = NoQueue THEN [drain EXCEPT ![q].pc = "recv"] ELSE drain
        /\ written' = written /\ InputUnchanged
    BY <1>3 DEF EnqueueInput
  <2> HIDE DEF q
  <2>3. buffer' \in [Inputs -> Seq(Inputs)]
    BY <1>0, <2>1, <2>2
  <2>4. drain' \in [Inputs -> Tasks]
    <3>1. [drain[q] EXCEPT !.pc = "recv"] \in Tasks
      BY <1>0, <2>1 DEF Tasks, DrainPcs
    <3>2. [drain EXCEPT ![q].pc = "recv"] \in [Inputs -> Tasks]
      BY <1>0, <2>1, <3>1
    <3> QED
      BY <1>0, <2>2, <3>2
  <2> QED
    BY <1>1, <1>2, <2>1, <2>2, <2>3, <2>4
<1>4. ASSUME NEW q \in Inputs, Drains(q) PROVE TerminalTypeOK'
  <2>0. drain[q] \in Tasks /\ buffer[q] \in Seq(Inputs)
    BY <1>0
  <2>1. ASSUME NEW t \in Tasks, DrainSet(q, t) PROVE drain' \in [Inputs -> Tasks]
    BY <1>0, <2>1 DEF DrainSet
  <2>2. Receives \in Tasks /\ NoDrain \in Tasks
    <3>1. 0 \in 0..LastMessage /\ 0 \in 0..2
      BY <1>0
    <3> QED
      BY <3>1 DEF Receives, NoDrain, Tasks, DrainPcs
  <2>3. ASSUME NEW m \in 0..LastMessage, NEW n \in 0..2 PROVE Listens(m, n) \in Tasks
    BY DEF Listens, NoDrain, Tasks, DrainPcs
  <2>4. ASSUME UNCHANGED <<input, inputVars>>, InputUnchanged, drain' \in [Inputs -> Tasks]
        PROVE  TerminalTypeOK'
    BY <1>0, <1>1, <1>2, <2>4 DEF inputVars
  <2>5. ASSUME DropsInput(q) PROVE TerminalTypeOK'
    <3>1. buffer' \in [Inputs -> Seq(Inputs)]
      BY <1>0, <2>5 DEF DropsInput
    <3> QED
      BY <1>1, <1>2, <2>1, <2>2, <2>5, <3>1 DEF DropsInput
  <2>6. CASE DrainRecv(q)
    <3>1. Head(buffer[q]) \in Inputs /\ Tail(buffer[q]) \in Seq(Inputs)
      BY <2>0, <2>6 DEF DrainRecv, HasInput
    <3>2. drain' \in [Inputs -> Tasks]
      BY <1>0, <2>1, <2>3, <2>6, <3>1 DEF DrainRecv, Inputs
    <3>3. buffer' \in [Inputs -> Seq(Inputs)]
      BY <1>0, <2>6, <3>1 DEF DrainRecv
    <3> QED
      BY <1>1, <1>2, <2>6, <3>2, <3>3 DEF DrainRecv
  <2>7. CASE DrainEnds(q)
    BY <2>1, <2>2, <2>4, <2>7 DEF DrainEnds
  <2>8. CASE DrainLook(q)
    <3>1. [drain[q] EXCEPT !.pc = IF byKey = NoSession THEN "sleep" ELSE "check", !.id = byKey]
            \in Tasks
      BY <1>0, <2>0 DEF Tasks, DrainPcs, TerminalTypeOK
    <3> QED
      BY <2>1, <2>4, <2>8, <3>1 DEF DrainLook
  <2>9. CASE DrainCheck(q)
    <3>1. /\ [drain[q] EXCEPT !.pc = "send", !.woken = FALSE] \in Tasks
          /\ [drain[q] EXCEPT !.pc = "sleep", !.id = NoSession] \in Tasks
      BY <2>0 DEF Tasks, DrainPcs
    <3> QED
      BY <2>1, <2>4, <2>9, <3>1 DEF DrainCheck
  <2>10. CASE DrainWakes(q)
    <3>1. Listens(drain[q].message, drain[q].round) \in Tasks
      BY <2>0, <2>3 DEF Tasks
    <3> QED
      BY <2>1, <2>4, <2>10, <3>1 DEF DrainWakes
  <2>11. CASE DrainTimeout(q)
    BY <2>5, <2>11 DEF DrainTimeout
  <2>12. CASE DrainSend(q)
    <3>1. [drain[q] EXCEPT !.pc = "write"] \in Tasks /\ Listens(drain[q].message, 2) \in Tasks
      BY <2>0, <2>3 DEF Tasks, DrainPcs
    <3> QED
      BY <2>1, <2>4, <2>5, <2>12, <3>1 DEF DrainSend
  <2>13. CASE DrainWrite(q)
    <3>1. drain[q].message \in Inputs
      <4>1. Underway(q)
        BY <2>13 DEF DrainWrite, Underway
      <4>2. drain[q].message \in 1..typed
        BY <4>1 DEF TerminalInv, InLine, Waiting
      <4> QED
        BY <1>0, <4>2 DEF Inputs
    <3>2. written' \in Seq([message : Inputs, queue : Inputs])
      <4>1. [message |-> drain[q].message, queue |-> q] \in [message : Inputs, queue : Inputs]
        BY <3>1
      <4>2. Append(written, [message |-> drain[q].message, queue |-> q])
              \in Seq([message : Inputs, queue : Inputs])
        BY <1>2, <4>1, AppendProperties
      <4>3. \/ written' = written
            \/ written' = Append(written, [message |-> drain[q].message, queue |-> q])
        BY <2>13 DEF DrainWrite
      <4> QED
        BY <1>2, <4>2, <4>3
    <3> QED
      BY <1>0, <1>1, <1>2, <2>1, <2>2, <2>13, <3>2 DEF DrainWrite
  <2> QED
    BY <1>4, <2>6, <2>7, <2>8, <2>9, <2>10, <2>11, <2>12, <2>13 DEF Drains
<1> QED
  BY <1>3, <1>4

\* Only its opener's and its forwarder's steps change who answers for a process.
LEMMA OpenOwnedStep ==
    ASSUME TerminalInv, NEW w \in Windows, Reattach(w) \/ Opens(w)
    PROVE  Owned'
<1>0. /\ TerminalTypeOK /\ Owned /\ opener \in [Windows -> Openers]
      /\ DOMAIN process = Sessions /\ DOMAIN forwarder = Sessions /\ DOMAIN opener = Windows
  BY TerminalTypes DEF TerminalInv, TerminalTypeOK
<1>1. ASSUME UNCHANGED <<process, registered, byKey, forwarder, left>>,
             \A v \in Windows : v # w => opener'[v] = opener[v],
             opener[w].pc # "register", opener'[w].pc # "register"
      PROVE  Owned'
  <2>3. \A v \in Windows : opener'[v].pc = "register" => v # w /\ opener'[v] = opener[v]
    BY <1>1
  <2>4. \A v \in Windows, s \in Sessions :
          opener[v] = [pc |-> "register", id |-> s] => opener'[v] = opener[v]
    BY <1>1
  <2> QED
    BY <1>0, <1>1, <2>3, <2>4 DEF Owned
<1>2. CASE Reattach(w)
  <2>1. /\ \A v \in Windows : v # w => opener'[v] = opener[v]
        /\ opener[w].pc # "register" /\ opener'[w].pc # "register"
    BY <1>0, <1>2 DEF Reattach, OpenGoes
  <2>2. UNCHANGED <<process, registered, byKey, forwarder, left>>
    BY <1>2 DEF Reattach
  <2> QED
    BY <1>1, <2>1, <2>2
<1>3. CASE ReattachEntry(w)
  <2>1. /\ \A v \in Windows : v # w => opener'[v] = opener[v]
        /\ opener[w].pc # "register" /\ opener'[w].pc # "register"
    BY <1>0, <1>3 DEF ReattachEntry, OpenGoes, Opened
  <2>2. UNCHANGED <<process, registered, byKey, forwarder, left>>
    BY <1>3 DEF ReattachEntry, historyVars
  <2> QED
    BY <1>1, <2>1, <2>2
<1>4. CASE SpawnFails(w)
  <2>1. /\ \A v \in Windows : v # w => opener'[v] = opener[v]
        /\ opener[w].pc # "register" /\ opener'[w].pc # "register"
    BY <1>0, <1>4 DEF SpawnFails, Opened
  <2>2. UNCHANGED <<process, registered, byKey, forwarder, left>>
    BY <1>4 DEF SpawnFails, historyVars
  <2> QED
    BY <1>1, <2>1, <2>2
<1>5. CASE SpawnPane(w)
  <2>1. PICK s \in Unborn : process' = [process EXCEPT ![s] = "alive"] /\ OpenGoes(w, "register", s)
    BY <1>5 DEF SpawnPane
  <2>2. /\ s \in Sessions /\ process[s] = "unborn" /\ forwarder[s] = "off"
        /\ UNCHANGED <<registered, byKey, forwarder, left>> /\ opener[w].pc = "spawn"
    BY <1>0, <1>5 DEF Unborn, Owned, SpawnPane, historyVars
  <2>3. /\ opener'[w] = [pc |-> "register", id |-> s]
        /\ \A v \in Windows : v # w => opener'[v] = opener[v]
    BY <1>0, <2>1 DEF OpenGoes
  <2>4. process'[s] = "alive" /\ \A t \in Sessions : t # s => process'[t] = process[t]
    BY <1>0, <2>1, <2>2
  <2>5. \A v \in Windows : v # w /\ opener[v].pc = "register" => opener[v].id # s
    BY <1>0, <2>2 DEF Owned
  <2>6. \A t \in Sessions :
          forwarder'[t] = "off" /\ process'[t] # "unborn" =>
              t \in left' \/ \E v \in Windows : opener'[v] = [pc |-> "register", id |-> t]
    <3>1. TAKE t \in Sessions
    <3>2. CASE t = s
      BY <2>3, <3>2
    <3>3. CASE t # s
      <4>1. SUFFICES ASSUME forwarder'[t] = "off", process'[t] # "unborn", t \notin left'
                     PROVE  \E v \in Windows : opener'[v] = [pc |-> "register", id |-> t]
        OBVIOUS
      <4>2. PICK v \in Windows : opener[v] = [pc |-> "register", id |-> t]
        BY <1>0, <2>2, <2>4, <3>3, <4>1 DEF Owned
      <4>3. v # w
        BY <2>2, <4>2
      <4> QED
        BY <2>3, <4>2, <4>3
    <3> QED
      BY <3>2, <3>3
  <2>7. \A v \in Windows :
          opener'[v].pc = "register" =>
              /\ opener'[v].id \in Sessions
              /\ process'[opener'[v].id] # "unborn" /\ forwarder'[opener'[v].id] = "off"
    BY <1>0, <2>2, <2>3, <2>4, <2>5 DEF Owned
  <2>8. \A u, v \in Windows :
          opener'[u].pc = "register" /\ opener'[v].pc = "register"
              /\ opener'[u].id = opener'[v].id => u = v
    BY <1>0, <2>3, <2>5 DEF Owned
  <2> QED
    BY <1>0, <2>2, <2>4, <2>6, <2>7, <2>8 DEF Owned
<1>6. CASE Register(w)
  <2> DEFINE s == opener[w].id
  <2>1. /\ registered' = registered \cup {s} /\ byKey' = s
        /\ forwarder' = [forwarder EXCEPT ![s] = "listens"]
        /\ opener' = [opener EXCEPT ![w] = Opened]
        /\ UNCHANGED <<process, left>> /\ opener[w].pc = "register"
    BY <1>6 DEF Register, historyVars
  <2>2. s \in Sessions /\ process[s] # "unborn" /\ forwarder[s] = "off"
    BY <1>0, <2>1 DEF Owned
  <2>3. \A v \in Windows : v # w /\ opener[v].pc = "register" => opener[v].id # s
    BY <1>0, <2>1 DEF Owned
  <2>4. opener'[w].pc = "idle" /\ \A v \in Windows : v # w => opener'[v] = opener[v]
    BY <1>0, <2>1 DEF Opened
  <2>5. forwarder'[s] = "listens" /\ \A t \in Sessions : t # s => forwarder'[t] = forwarder[t]
    BY <1>0, <2>1, <2>2
  <2>6. \A t \in Sessions :
          forwarder'[t] = "off" /\ process'[t] # "unborn" =>
              t \in left' \/ \E v \in Windows : opener'[v] = [pc |-> "register", id |-> t]
    <3>1. TAKE t \in Sessions
    <3>2. SUFFICES ASSUME forwarder'[t] = "off", process'[t] # "unborn", t \notin left'
                   PROVE  \E v \in Windows : opener'[v] = [pc |-> "register", id |-> t]
      OBVIOUS
    <3>3. t # s
      BY <2>5, <3>2
    <3>4. PICK v \in Windows : opener[v] = [pc |-> "register", id |-> t]
      BY <1>0, <2>1, <2>5, <3>2, <3>3 DEF Owned
    <3>5. v # w
      BY <3>3, <3>4
    <3> QED
      BY <2>4, <3>4, <3>5
  <2> HIDE DEF s
  <2>7. \A v \in Windows : opener'[v].pc = "register" => v # w /\ opener'[v] = opener[v]
    BY <2>4
  <2>8. \A t \in registered' : forwarder'[t] = "listens"
    BY <1>0, <2>1, <2>2, <2>5 DEF Owned, TerminalTypeOK
  <2>9. \A t \in Sessions :
          /\ forwarder'[t] = "listens" => t \in registered'
          /\ byKey' = t => forwarder'[t] \in {"listens", "unkeys"}
          /\ process'[t] = "unborn" => forwarder'[t] = "off"
          /\ process'[t] = "alive" => forwarder'[t] \in {"off", "listens"} \/ t \in left'
    BY <1>0, <2>1, <2>2, <2>5 DEF Owned
  <2>10. \A v \in Windows :
          opener'[v].pc = "register" =>
              /\ opener'[v].id \in Sessions
              /\ process'[opener'[v].id] # "unborn" /\ forwarder'[opener'[v].id] = "off"
    BY <1>0, <2>1, <2>3, <2>5, <2>7 DEF Owned
  <2> QED
    BY <1>0, <2>6, <2>7, <2>8, <2>9, <2>10 DEF Owned
<1>7. CASE OpenDropped(w) /\ opener[w].pc # "register"
  <2>1. /\ \A v \in Windows : v # w => opener'[v] = opener[v]
        /\ opener'[w].pc # "register"
    BY <1>0, <1>7 DEF OpenDropped, Opened
  <2>2. UNCHANGED <<process, registered, byKey, forwarder, left>>
    BY <1>7 DEF OpenDropped
  <2> QED
    BY <1>1, <1>7, <2>1, <2>2
<1>8. CASE opener[w].pc = "register" /\ (OpenDropped(w) \/ KeyDropped(w))
  <2> DEFINE s == opener[w].id
  <2>1. /\ left' = left \cup {s} /\ UNCHANGED <<process, byKey>>
        /\ \A v \in Windows : v # w => opener'[v] = opener[v]
        /\ opener'[w].pc = "idle"
    BY <1>0, <1>8 DEF OpenDropped, KeyDropped, Leaves, Opened
  <2>2. s \in Sessions /\ process[s] # "unborn" /\ forwarder[s] = "off" /\ byKey # s
    BY <1>0, <1>8 DEF Owned
  <2>3. \A v \in Windows : v # w /\ opener[v].pc = "register" => opener[v].id # s
    BY <1>0, <1>8 DEF Owned
  <2>4. /\ \A t \in Sessions : t # s => forwarder'[t] = forwarder[t]
        /\ \/ registered' = registered /\ forwarder'[s] = "off"
           \/ registered' = registered \cup {s} /\ forwarder'[s] = "listens"
    BY <1>0, <1>8, <2>2 DEF OpenDropped, KeyDropped
  <2>5. \A v \in Windows : opener'[v].pc = "register" => v # w /\ opener'[v] = opener[v]
    BY <2>1
  <2>6. \A t \in Sessions :
          forwarder'[t] = "off" /\ process'[t] # "unborn" =>
              t \in left' \/ \E v \in Windows : opener'[v] = [pc |-> "register", id |-> t]
    <3>1. TAKE t \in Sessions
    <3>2. SUFFICES ASSUME forwarder'[t] = "off", process'[t] # "unborn", t \notin left'
                   PROVE  \E v \in Windows : opener'[v] = [pc |-> "register", id |-> t]
      OBVIOUS
    <3>3. t # s /\ t \notin left
      BY <2>1, <3>2
    <3>4. PICK v \in Windows : opener[v] = [pc |-> "register", id |-> t]
      BY <1>0, <2>1, <2>4, <3>2, <3>3 DEF Owned
    <3>5. v # w
      BY <3>3, <3>4
    <3> QED
      BY <2>1, <3>4, <3>5
  <2> HIDE DEF s
  <2>7. \A t \in registered' : forwarder'[t] = "listens"
    BY <1>0, <2>2, <2>4 DEF Owned, TerminalTypeOK
  <2>8. \A t \in Sessions :
          /\ forwarder'[t] = "listens" => t \in registered'
          /\ byKey' = t => \/ forwarder'[t] \in {"listens", "unkeys"}
                           \/ forwarder'[t] = "aborted" /\ t \in left'
          /\ process'[t] = "unborn" => forwarder'[t] = "off"
          /\ process'[t] = "alive" => forwarder'[t] \in {"off", "listens"} \/ t \in left'
    <3>1. TAKE t \in Sessions
    <3>2. CASE t = s
      BY <2>1, <2>2, <2>4, <3>2
    <3>3. CASE t # s
      BY <1>0, <2>1, <2>4, <3>3 DEF Owned
    <3> QED
      BY <3>2, <3>3
  <2>9. \A v \in Windows :
          opener'[v].pc = "register" =>
              /\ opener'[v].id \in Sessions
              /\ process'[opener'[v].id] # "unborn" /\ forwarder'[opener'[v].id] = "off"
    BY <1>0, <2>1, <2>3, <2>4, <2>5 DEF Owned
  <2> QED
    BY <1>0, <2>5, <2>6, <2>7, <2>8, <2>9 DEF Owned
<1>9. KeyDropped(w) => opener[w].pc = "register"
  BY DEF KeyDropped
<1> QED
  BY <1>2, <1>3, <1>4, <1>5, <1>6, <1>7, <1>8, <1>9 DEF Opens

LEMMA EndOwnedStep ==
    ASSUME TerminalInv, NEW s \in Sessions, Forwards(s) \/ Exits(s) \/ Closes(s)
    PROVE  Owned'
<1>0. /\ TerminalTypeOK /\ Owned /\ NoSession \notin Sessions
      /\ DOMAIN process = Sessions /\ DOMAIN forwarder = Sessions
  BY TerminalTypes DEF TerminalInv, TerminalTypeOK
<1>1. CASE Exits(s)
  <2>1. /\ process[s] = "alive" /\ process' = [process EXCEPT ![s] = "exited"]
        /\ UNCHANGED <<registered, byKey, forwarder, opener, left>>
    BY <1>1 DEF Exits, historyVars
  <2>2. process'[s] = "exited" /\ \A t \in Sessions : t # s => process'[t] = process[t]
    BY <1>0, <2>1
  <2>3. \A t \in Sessions : (process'[t] = "unborn") <=> (process[t] = "unborn")
    BY <2>1, <2>2
  <2> QED
    BY <1>0, <2>1, <2>2, <2>3 DEF Owned
<1>2. ASSUME NEW to \in {"unkeys", "records", "done", "aborted"},
             forwarder' = [forwarder EXCEPT ![s] = to], forwarder[s] # "off",
             registered' = registered \ {s}, opener' = opener, left \subseteq left',
             byKey' \in {byKey, NoSession},
             byKey' # s \/ to = "unkeys" \/ (to = "aborted" /\ s \in left'),
             \/ process' = process /\ (process[s] # "alive" \/ s \in left')
             \/ process' = [process EXCEPT ![s] = "killed"]
      PROVE  Owned'
  <2>1. forwarder'[s] = to /\ \A t \in Sessions : t # s => forwarder'[t] = forwarder[t]
    BY <1>0, <1>2
  <2>2. /\ process'[s] # "alive" \/ s \in left'
        /\ process[s] # "unborn" /\ process'[s] # "unborn"
        /\ \A t \in Sessions : t # s => process'[t] = process[t]
    <3>1. process[s] # "unborn"
      BY <1>0, <1>2 DEF Owned
    <3>2. \A t \in Sessions : t # s => process'[t] = process[t]
      BY <1>0, <1>2
    <3>3. process'[s] \in {process[s], "killed"} /\ (process'[s] # "alive" \/ s \in left')
      BY <1>0, <1>2
    <3> QED
      BY <3>1, <3>2, <3>3
  <2>3. \A v \in Windows : opener[v].pc = "register" => opener[v].id # s
    BY <1>0, <1>2 DEF Owned
  <2>4. \A t \in Sessions :
          /\ forwarder'[t] = "listens" => t \in registered'
          /\ byKey' = t => \/ forwarder'[t] \in {"listens", "unkeys"}
                           \/ forwarder'[t] = "aborted" /\ t \in left'
          /\ process'[t] = "unborn" => forwarder'[t] = "off"
          /\ process'[t] = "alive" => forwarder'[t] \in {"off", "listens"} \/ t \in left'
          /\ forwarder'[t] = "off" /\ process'[t] # "unborn" =>
                 t \in left' \/ \E v \in Windows : opener'[v] = [pc |-> "register", id |-> t]
    BY <1>0, <1>2, <2>1, <2>2 DEF Owned
  <2>5. \A t \in registered' : forwarder'[t] = "listens"
    BY <1>0, <1>2, <2>1 DEF Owned, TerminalTypeOK
  <2>6. \A v \in Windows :
          opener'[v].pc = "register" =>
              /\ opener'[v].id \in Sessions
              /\ process'[opener'[v].id] # "unborn" /\ forwarder'[opener'[v].id] = "off"
    BY <1>0, <1>2, <2>1, <2>2, <2>3 DEF Owned
  <2> QED
    BY <1>0, <1>2, <2>4, <2>5, <2>6 DEF Owned
<1>3. CASE ForwardExit(s)
  BY <1>2, <1>3 DEF ForwardExit, HearsExit, ForwarderGoes, historyVars
<1>4. CASE ForwardUnkey(s)
  <2>1. s \notin registered /\ (process[s] # "alive" \/ s \in left)
    BY <1>0, <1>4 DEF Owned, ForwardUnkey, ForwarderGoes
  <2>2. byKey' # s /\ byKey' \in {byKey, NoSession}
    BY <1>0, <1>4 DEF ForwardUnkey
  <2> QED
    BY <1>2, <1>4, <2>1, <2>2 DEF ForwardUnkey, ForwarderGoes, historyVars
<1>5. CASE ForwardRecord(s)
  <2>1. s \notin registered /\ (process[s] # "alive" \/ s \in left) /\ byKey # s
    BY <1>0, <1>5 DEF Owned, ForwardRecord, ForwarderGoes
  <2> QED
    BY <1>2, <1>5, <2>1 DEF ForwardRecord, ForwarderGoes, historyVars
<1>6. CASE CloseSession(s)
  <2>1. forwarder[s] = "listens"
    BY <1>0, <1>6 DEF Owned, CloseSession
  <2> QED
    BY <1>0, <1>2, <1>6, <2>1 DEF CloseSession, historyVars
<1>7. CASE CloseDropped(s)
  <2>1. forwarder[s] = "listens" /\ left' = left \cup {s}
    BY <1>0, <1>7 DEF Owned, CloseDropped, Leaves
  <2> QED
    BY <1>0, <1>2, <1>7, <2>1 DEF CloseDropped
<1> QED
  BY <1>1, <1>3, <1>4, <1>5, <1>6, <1>7 DEF Forwards, Closes

\* One call at a time: it starts a process only when there is none.
LEMMA OpenSingleStep ==
    ASSUME TerminalInv, NEW w \in Windows, Reattach(w) \/ Opens(w)
    PROVE  Single'
<1>0. /\ TerminalTypeOK /\ Owned /\ Single /\ opener \in [Windows -> Openers]
      /\ NoSession \notin Sessions /\ DOMAIN opener = Windows /\ registered \subseteq Sessions
  BY TerminalTypes DEF TerminalInv, TerminalTypeOK
<1>1. CASE Reattach(w)
  <2> SUFFICES ASSUME ~overlap' PROVE Single'
    BY DEF Single
  <2>1. ~overlap /\ \A v \in Windows : opener[v].pc = "idle"
    BY <1>1 DEF Reattach
  <2>2. registered \ left \subseteq {byKey}
    BY <1>0, <2>1 DEF Single
  <2>3. /\ opener'[w] = [pc |-> IF byKey = NoSession THEN "spawn" ELSE "found", id |-> byKey]
        /\ \A v \in Windows : v # w => opener'[v].pc = "idle"
        /\ UNCHANGED <<registered, byKey, left>>
    BY <1>0, <1>1, <2>1 DEF Reattach, OpenGoes
  <2>4. opener'[w].pc = "spawn" => registered \ left = {}
    BY <1>0, <2>2, <2>3
  <2>5. opener'[w].pc # "register" /\ opener'[w].id = byKey
    BY <2>3
  <2> QED
    BY <2>2, <2>3, <2>4, <2>5 DEF Single
<1>2. ASSUME opener[w].pc # "idle", overlap' = overlap,
             \A v \in Windows : v # w => opener'[v] = opener[v],
             byKey' = byKey \/ opener'[w].pc = "idle",
             ~overlap => registered' \ left' \subseteq {byKey'},
             ~overlap /\ opener'[w].pc \in {"spawn", "register"} => registered' \ left' = {},
             opener'[w].pc # "found"
      PROVE  Single'
  <2> SUFFICES ASSUME ~overlap' PROVE Single'
    BY DEF Single
  <2>1. \A v \in Windows : v # w => opener[v].pc = "idle"
    BY <1>0, <1>2 DEF Single
  <2>2. \A v \in Windows : opener'[v].pc # "idle" => v = w
    BY <1>2, <2>1
  <2> QED
    BY <1>2, <2>2 DEF Single
<1>3. CASE ReattachEntry(w)
  <2>1. /\ opener[w].pc = "found" /\ UNCHANGED <<overlap, registered, byKey, left>>
        /\ \A v \in Windows : v # w => opener'[v] = opener[v]
        /\ opener'[w].pc \in {"idle", "spawn"}
        /\ opener'[w].pc = "spawn" => opener[w].id \notin registered
    BY <1>0, <1>3 DEF ReattachEntry, OpenGoes, Opened, historyVars
  <2>2. ~overlap => registered \ left \subseteq {byKey} /\ byKey \in {opener[w].id, NoSession}
    BY <1>0, <2>1 DEF Single
  <2>3. ~overlap /\ opener'[w].pc = "spawn" => registered \ left = {}
    BY <1>0, <2>1, <2>2
  <2> QED
    BY <1>2, <2>1, <2>2, <2>3
<1>4. CASE SpawnPane(w)
  <2>1. /\ opener[w].pc = "spawn" /\ UNCHANGED <<overlap, registered, byKey, left>>
        /\ \A v \in Windows : v # w => opener'[v] = opener[v]
        /\ opener'[w].pc = "register"
    BY <1>0, <1>4 DEF SpawnPane, OpenGoes, historyVars
  <2>2. ~overlap => registered \ left = {}
    BY <1>0, <2>1 DEF Single
  <2> QED
    BY <1>2, <2>1, <2>2
<1>5. CASE SpawnFails(w)
  <2>1. /\ opener[w].pc = "spawn" /\ UNCHANGED <<overlap, registered, byKey, left>>
        /\ \A v \in Windows : v # w => opener'[v] = opener[v]
        /\ opener'[w].pc = "idle"
    BY <1>0, <1>5 DEF SpawnFails, Opened, historyVars
  <2>2. ~overlap => registered \ left = {}
    BY <1>0, <2>1 DEF Single
  <2> QED
    BY <1>2, <2>1, <2>2
<1>6. CASE Register(w)
  <2>1. /\ opener[w].pc = "register" /\ UNCHANGED <<overlap, left>>
        /\ registered' = registered \cup {opener[w].id} /\ byKey' = opener[w].id
        /\ \A v \in Windows : v # w => opener'[v] = opener[v]
        /\ opener'[w].pc = "idle"
    BY <1>0, <1>6 DEF Register, Opened, historyVars
  <2>2. ~overlap => registered \ left = {}
    BY <1>0, <2>1 DEF Single
  <2> QED
    BY <1>2, <2>1, <2>2
<1>7. CASE OpenDropped(w) \/ KeyDropped(w)
  <2>1. /\ opener[w].pc # "idle" /\ UNCHANGED <<overlap, byKey>>
        /\ registered' \ left' \subseteq registered \ left
        /\ \A v \in Windows : v # w => opener'[v] = opener[v]
        /\ opener'[w].pc = "idle"
    BY <1>0, <1>7 DEF OpenDropped, KeyDropped, Leaves, Opened
  <2>2. ~overlap => registered \ left \subseteq {byKey}
    BY <1>0 DEF Single
  <2> QED
    BY <1>2, <2>1, <2>2
<1> QED
  BY <1>1, <1>3, <1>4, <1>5, <1>6, <1>7 DEF Opens

LEMMA EndSingleStep ==
    ASSUME TerminalInv, NEW s \in Sessions, Forwards(s) \/ Exits(s) \/ Closes(s)
    PROVE  Single'
<1>0. /\ Owned /\ Single /\ NoSession \notin Sessions /\ registered \subseteq Sessions
  BY TerminalTypes DEF TerminalInv, TerminalTypeOK
<1>1. ASSUME UNCHANGED <<opener, overlap>>, registered' \ left' \subseteq registered \ left,
             byKey' = byKey \/ (byKey' = NoSession /\ (~overlap => registered' \ left' = {}))
      PROVE  Single'
  BY <1>0, <1>1 DEF Single
<1>2. CASE ForwardUnkey(s)
  <2>1. s \notin registered /\ UNCHANGED <<opener, overlap, left, registered>>
    BY <1>0, <1>2 DEF Owned, ForwardUnkey, ForwarderGoes, historyVars
  <2>2. ~overlap => registered \ left \subseteq {byKey}
    BY <1>0 DEF Single
  <2>3. byKey' = byKey \/ (byKey = s /\ byKey' = NoSession)
    BY <1>2 DEF ForwardUnkey
  <2> QED
    BY <1>1, <2>1, <2>2, <2>3
<1>3. CASE CloseSession(s)
  <2>1. /\ s \in registered \ left /\ registered' = registered \ {s} /\ byKey' = NoSession
        /\ UNCHANGED <<opener, overlap, left>>
    BY <1>3 DEF CloseSession, historyVars
  <2>2. ~overlap => registered \ left \subseteq {byKey}
    BY <1>0 DEF Single
  <2> QED
    BY <1>1, <2>1, <2>2
<1>4. CASE ForwardExit(s)
  BY <1>1, <1>4 DEF ForwardExit, historyVars
<1>5. CASE ForwardRecord(s)
  BY <1>1, <1>5 DEF ForwardRecord, historyVars
<1>6. CASE Exits(s)
  BY <1>1, <1>6 DEF Exits, historyVars
<1>7. CASE CloseDropped(s)
  BY <1>1, <1>7 DEF CloseDropped, Leaves
<1> QED
  BY <1>2, <1>3, <1>4, <1>5, <1>6, <1>7 DEF Forwards, Closes

\* Registering a session wakes all who wait for one; nothing else can give them one.
LEMMA OpenWaitsStep ==
    ASSUME TerminalInv, NEW w \in Windows, Reattach(w) \/ Opens(w)
    PROVE  Waits'
<1>0. Waits /\ drain \in [Inputs -> Tasks]
  BY TerminalTypes DEF TerminalInv
<1>1. CASE Register(w)
  <2>1. ASSUME NEW q \in Inputs, drain[q].pc \in {"look", "check", "sleep"}
        PROVE  drain'[q].woken
    <3>1. (drain[q].pc \in {"look", "check", "sleep"}) = TRUE
      BY <2>1
    <3>2. drain'[q] = [drain[q] EXCEPT !.woken = drain[q].pc \in {"look", "check", "sleep"}]
      BY <1>1 DEF Register
    <3>3. drain'[q] = [drain[q] EXCEPT !.woken = TRUE]
      BY <3>1, <3>2, Zenon
    <3> QED
      BY <1>0, <3>3 DEF Tasks
  <2>2. ASSUME NEW q \in Inputs PROVE drain'[q].pc = drain[q].pc
    BY <1>0, <1>1 DEF Register, Tasks
  <2>3. ASSUME NEW q \in Inputs, ~drain'[q].woken
        PROVE  drain'[q].pc \notin {"sleep", "check"}
    BY <2>1, <2>2, <2>3
  <2> QED
    BY <2>3 DEF Waits
<1>2. CASE Reattach(w) \/ ReattachEntry(w) \/ SpawnPane(w) \/ SpawnFails(w) \/ OpenDropped(w)
  <2>1. UNCHANGED <<registered, byKey, drain>>
    BY <1>2 DEF Reattach, ReattachEntry, SpawnPane, SpawnFails, OpenDropped
  <2> QED
    BY <1>0, <2>1 DEF Waits
<1>3. CASE KeyDropped(w)
  <2>1. /\ opener[w].id \in Sessions /\ forwarder[opener[w].id] = "off"
        /\ registered' = registered \cup {opener[w].id} /\ UNCHANGED <<byKey, drain>>
    BY <1>3 DEF TerminalInv, Owned, KeyDropped
  <2>2. byKey # opener[w].id
    BY <2>1 DEF TerminalInv, Owned
  <2> QED
    BY <1>0, <2>1, <2>2 DEF Waits
<1> QED
  BY <1>1, <1>2, <1>3 DEF Opens

LEMMA EndWaitsStep ==
    ASSUME TerminalInv, NEW s \in Sessions, Forwards(s) \/ Exits(s) \/ Closes(s)
    PROVE  Waits'
<1>0. Waits /\ NoSession \notin Sessions /\ registered \subseteq Sessions
  BY TerminalTypes DEF TerminalInv, TerminalTypeOK
<1>1. drain' = drain /\ registered' \subseteq registered /\ byKey' \in {byKey, NoSession}
  BY DEF Forwards, ForwardExit, ForwardUnkey, ForwardRecord, Exits, Closes, CloseSession,
         CloseDropped
<1> QED
  BY <1>0, <1>1 DEF Waits

LEMMA InputWaitsStep ==
    ASSUME TerminalInv, EnqueueInput \/ \E q \in Inputs : Drains(q)
    PROVE  Waits' /\ Owned' /\ Single'
<1>0. /\ Owned /\ Single /\ Waits /\ drain \in [Inputs -> Tasks]
      /\ NoSession \notin Sessions /\ registered \subseteq Sessions
  BY TerminalTypes DEF TerminalInv, TerminalTypeOK
<1>1. InputUnchanged
  <2>1. CASE EnqueueInput
    BY <2>1 DEF EnqueueInput
  <2>2. ASSUME NEW q \in Inputs, Drains(q) PROVE InputUnchanged
    BY <2>2 DEF Drains, DrainRecv, DrainEnds, DrainLook, DrainCheck, DrainWakes, DrainTimeout,
                DropsInput, DrainSend, DrainWrite
  <2> QED
    BY <2>1, <2>2
<1>2. Owned' /\ Single'
  BY <1>0, <1>1 DEF InputUnchanged, historyVars, Owned, Single
<1>3. ASSUME NEW q \in Inputs, \A r \in Inputs : r # q => drain'[r] = drain[r],
             \/ drain'[q].pc \notin {"sleep", "check"}
             \/ drain'[q].pc = "sleep" /\ (drain'[q].woken \/ byKey \notin registered)
             \/ drain'[q].pc = "check" /\ drain'[q].id = byKey
      PROVE  Waits'
  BY <1>0, <1>1, <1>3 DEF Waits, InputUnchanged
<1>4. CASE EnqueueInput
  <2>1. \A q \in Inputs : drain'[q] = drain[q] \/ drain'[q].pc = "recv"
    BY <1>0, <1>4 DEF EnqueueInput, Tasks
  <2> QED
    BY <1>0, <1>1, <1>2, <2>1 DEF Waits, InputUnchanged
<1>5. ASSUME NEW q \in Inputs, Drains(q) PROVE Waits'
  <2>1. ASSUME NEW t, DrainSet(q, t)
        PROVE  drain'[q] = t /\ \A r \in Inputs : r # q => drain'[r] = drain[r]
    BY <1>0, <2>1 DEF DrainSet
  <2>2. CASE DrainLook(q)
    <3> DEFINE t == [drain[q] EXCEPT !.pc = IF byKey = NoSession THEN "sleep" ELSE "check",
                                     !.id = byKey]
    <3>1. /\ t.id = byKey /\ t.pc \in {"sleep", "check"}
          /\ t.pc = "sleep" => byKey = NoSession
      BY <1>0 DEF Tasks
    <3>2. DrainSet(q, t)
      BY <2>2 DEF DrainLook
    <3> HIDE DEF t
    <3> QED
      BY <1>0, <1>3, <2>1, <3>1, <3>2
  <2>3. CASE DrainCheck(q)
    <3>1. CASE drain[q].id \in registered
      <4>1. [drain[q] EXCEPT !.pc = "send", !.woken = FALSE].pc = "send"
        BY <1>0 DEF Tasks
      <4> QED
        BY <1>3, <2>1, <2>3, <3>1, <4>1 DEF DrainCheck
    <3>2. CASE drain[q].id \notin registered
      <4> DEFINE t == [drain[q] EXCEPT !.pc = "sleep", !.id = NoSession]
      <4>1. t.pc = "sleep" /\ (~t.woken => ~drain[q].woken)
        BY <1>0 DEF Tasks
      <4>2. DrainSet(q, t) /\ drain[q].pc = "check"
        BY <2>3, <3>2 DEF DrainCheck
      <4>3. ~drain[q].woken => byKey \notin registered
        BY <1>0, <3>2, <4>2 DEF Waits
      <4> HIDE DEF t
      <4> QED
        BY <1>3, <2>1, <4>1, <4>2, <4>3
    <3> QED
      BY <3>1, <3>2
  <2>4. CASE ~DrainLook(q) /\ ~DrainCheck(q)
    <3>1. \E t : DrainSet(q, t) /\ t.pc \notin {"sleep", "check"}
      <4>1. /\ Receives.pc = "recv" /\ NoDrain.pc = "off"
            /\ \A m, n : Listens(m, n).pc = "look"
            /\ [drain[q] EXCEPT !.pc = "write"].pc = "write"
        BY <1>0 DEF Receives, NoDrain, Listens, Tasks
      <4> QED
        BY <1>5, <2>4, <4>1
           DEF Drains, DrainRecv, DrainEnds, DrainWakes, DrainTimeout, DropsInput, DrainSend,
               DrainWrite
    <3> QED
      BY <1>3, <2>1, <3>1
  <2> QED
    BY <2>2, <2>3, <2>4
<1> QED
  BY <1>2, <1>4, <1>5

LEMMA WrittenEntries ==
    ASSUME TerminalTypeOK
    PROVE  /\ Len(written) \in Nat /\ DOMAIN written = 1..Len(written)
           /\ \A k \in 1..Len(written) :
                 written[k].message \in Inputs /\ written[k].queue \in Inputs
<1>1. written \in Seq([message : Inputs, queue : Inputs])
  BY DEF TerminalTypeOK
<1>2. \A k \in 1..Len(written) : written[k] \in [message : Inputs, queue : Inputs]
  BY <1>1, ElementOfSeq
<1> QED
  BY <1>1, <1>2

\* Sessions come and go beside what is typed: they may drop a queue, never change it.
LEMMA InputAside ==
    ASSUME TerminalInv, UNCHANGED <<typed, buffer, written>>, input' \in {input, NoQueue},
           \A q \in Inputs : drain'[q].pc = drain[q].pc /\ drain'[q].message = drain[q].message
    PROVE  Drained' /\ InLine' /\ InputInOrder'
<1>0. /\ Drained /\ InLine /\ InputInOrder /\ input \in Inputs \cup {NoQueue}
      /\ written \in Seq([message : Inputs, queue : Inputs])
  BY DEF TerminalInv, TerminalTypeOK
<1>1. Drained'
  BY <1>0 DEF Drained
<1>2. \A q \in Inputs : Underway(q)' <=> Underway(q)
  BY DEF Underway
<1>3. \A q \in Inputs : Waiting(q)'
  BY <1>0, <1>2 DEF InLine, Waiting
<1>4. \A q \in Inputs : \A m : Precedes(m, q) => Precedes(m, q)'
  BY <1>2 DEF Precedes
<1>5. \A k \in 1..Len(written) : written[k].queue \in Inputs
  BY WrittenEntries DEF TerminalInv
<1> QED
  BY <1>0, <1>1, <1>3, <1>4, <1>5 DEF InLine, InputInOrder

LEMMA OpenInputStep ==
    ASSUME TerminalInv, NEW w \in Windows, Reattach(w) \/ Opens(w)
    PROVE  Drained' /\ InLine' /\ InputInOrder'
<1>0. drain \in [Inputs -> Tasks]
  BY TerminalTypes DEF TerminalInv
<1>1. UNCHANGED <<typed, buffer, written, input>>
  BY DEF Opens, Reattach, ReattachEntry, SpawnPane, SpawnFails, Register, OpenDropped,
         KeyDropped, inputVars
<1>2. ASSUME NEW q \in Inputs
      PROVE  drain'[q].pc = drain[q].pc /\ drain'[q].message = drain[q].message
  BY <1>0 DEF Opens, Reattach, ReattachEntry, SpawnPane, SpawnFails, Register, OpenDropped,
                KeyDropped, Tasks
<1> QED
  BY <1>1, <1>2, InputAside

LEMMA EndInputStep ==
    ASSUME TerminalInv, NEW s \in Sessions, Forwards(s) \/ Exits(s) \/ Closes(s)
    PROVE  Drained' /\ InLine' /\ InputInOrder'
<1>1. UNCHANGED <<typed, buffer, written, drain>> /\ input' \in {input, NoQueue}
  BY DEF Forwards, ForwardExit, ForwardUnkey, ForwardRecord, Exits, Closes, CloseSession,
         CloseDropped, inputVars
<1> QED
  BY <1>1, InputAside

\* What is typed is behind all that was typed before.
LEMMA EnqueueStep ==
    ASSUME TerminalInv, EnqueueInput
    PROVE  Drained' /\ InLine' /\ InputInOrder'
<1> DEFINE q == IF input = NoQueue THEN typed + 1 ELSE input
           m == typed + 1
<1>0. /\ Drained /\ InLine /\ InputInOrder
      /\ drain \in [Inputs -> Tasks] /\ buffer \in [Inputs -> Seq(Inputs)]
      /\ typed \in Nat /\ LastMessage \in Nat /\ input \in Inputs \cup {NoQueue}
      /\ written \in Seq([message : Inputs, queue : Inputs]) /\ NoQueue \notin Inputs
  BY TerminalTypes DEF TerminalInv, TerminalTypeOK
<1>1. /\ typed' = m /\ written' = written /\ input' = q /\ m \in Inputs /\ q \in Inputs
      /\ buffer' = [buffer EXCEPT ![q] = Append(@, m)]
      /\ drain' = IF input = NoQueue THEN [drain EXCEPT ![q].pc = "recv"] ELSE drain
  BY <1>0 DEF EnqueueInput, Inputs
<1>2. /\ buffer[q] \in Seq(Inputs) /\ buffer'[q] = Append(buffer[q], m)
      /\ \A r \in Inputs : r # q => buffer'[r] = buffer[r]
  BY <1>0, <1>1
<1>3. /\ Len(buffer[q]) \in Nat /\ Len(buffer'[q]) = Len(buffer[q]) + 1
      /\ \A i \in 1..Len(buffer[q]) : buffer'[q][i] = buffer[q][i]
      /\ buffer'[q][Len(buffer[q]) + 1] = m
  BY <1>1, <1>2, AppendProperties
<1>4. /\ \A r \in Inputs : Underway(r)' => Underway(r) /\ drain'[r].message = drain[r].message
      /\ drain'[q].pc # "off"
      /\ \A r \in Inputs : r # q => drain'[r] = drain[r]
  BY <1>0, <1>1 DEF Underway, Tasks, Drained
<1> HIDE DEF q
\* A place in a queue is one it had, or the end of q.
<1>10. ASSUME NEW r \in Inputs, NEW i \in 1..Len(buffer'[r])
       PROVE  \/ i \in 1..Len(buffer[r]) /\ buffer'[r][i] = buffer[r][i]
              \/ r = q /\ i = Len(buffer[q]) + 1 /\ buffer'[r][i] = m
  <2>1. CASE r # q
    BY <1>2, <1>10, <2>1
  <2>2. CASE r = q
    <3>1. i \in 1..(Len(buffer[q]) + 1)
      BY <1>3, <1>10, <2>2
    <3>2. i \in 1..Len(buffer[q]) \/ i = Len(buffer[q]) + 1
      BY <1>3, <3>1
    <3> QED
      BY <1>3, <2>2, <3>2
  <2> QED
    BY <2>1, <2>2
<1>5. Drained'
  BY <1>0, <1>1, <1>2, <1>4 DEF Drained
<1>6. ASSUME NEW r \in Inputs, NEW n \in Inputs, Precedes(n, r) PROVE Precedes(n, r)'
  <2>1. n <= typed' /\ n < m /\ (Underway(r)' => n < drain'[r].message)
    BY <1>0, <1>1, <1>4, <1>6 DEF Precedes, Inputs
  <2>2. ASSUME NEW i \in 1..Len(buffer'[r]) PROVE n < buffer'[r][i]
    BY <1>6, <1>10, <2>1, <2>2 DEF Precedes
  <2> QED
    BY <2>1, <2>2 DEF Precedes
<1>7. ASSUME NEW r \in Inputs PROVE Waiting(r)'
  <2>0. Waiting(r) /\ buffer[r] \in Seq(Inputs)
    BY <1>0 DEF InLine
  <2>1. ASSUME NEW i \in 1..Len(buffer[r]) PROVE buffer[r][i] \in Nat /\ buffer[r][i] < m
    BY <1>0, <2>0, <2>1 DEF Waiting, Inputs
  <2>2. ASSUME NEW i \in 1..Len(buffer'[r]) PROVE buffer'[r][i] <= typed'
    BY <1>0, <1>1, <1>10, <2>1, <2>2
  <2>3. ASSUME NEW i \in 1..Len(buffer'[r]), NEW j \in 1..Len(buffer'[r]), i < j
        PROVE  buffer'[r][i] < buffer'[r][j]
    <3>1. CASE j \in 1..Len(buffer[r]) /\ buffer'[r][j] = buffer[r][j]
      <4>1. i \in 1..Len(buffer[r]) /\ buffer'[r][i] = buffer[r][i]
        BY <1>3, <1>10, <2>3, <3>1
      <4> QED
        BY <2>0, <2>3, <3>1, <4>1 DEF Waiting
    <3>2. CASE r = q /\ j = Len(buffer[q]) + 1 /\ buffer'[r][j] = m
      <4>1. i \in 1..Len(buffer[r]) /\ buffer'[r][i] = buffer[r][i]
        BY <1>3, <1>10, <2>3, <3>2
      <4> QED
        BY <2>1, <3>2, <4>1
    <3> QED
      BY <1>10, <3>1, <3>2
  <2>4. ASSUME Underway(r)'
        PROVE  /\ drain'[r].message \in 1..typed'
               /\ \A i \in 1..Len(buffer'[r]) : drain'[r].message < buffer'[r][i]
    <3>1. drain[r].message \in 1..typed /\ drain'[r].message = drain[r].message
      BY <1>4, <2>0, <2>4 DEF Waiting
    <3>2. Underway(r)
      BY <1>4, <2>4
    <3>3. drain'[r].message \in 1..typed' /\ drain'[r].message < m
      BY <1>0, <1>1, <3>1
    <3>4. ASSUME NEW i \in 1..Len(buffer'[r]) PROVE drain'[r].message < buffer'[r][i]
      BY <1>10, <2>0, <3>1, <3>2, <3>3, <3>4 DEF Waiting
    <3> QED
      BY <3>3, <3>4
  <2> QED
    BY <2>2, <2>3, <2>4 DEF Waiting
<1>8. \A k \in 1..Len(written) : written[k].message \in Inputs /\ written[k].queue \in Inputs
  BY WrittenEntries DEF TerminalInv
<1>9. InLine' /\ InputInOrder'
  BY <1>0, <1>1, <1>6, <1>7, <1>8 DEF InLine, InputInOrder
<1> QED
  BY <1>5, <1>9

\* The drain task takes its queue's messages one by one, and writes each before the next.
LEMMA DrainInputStep ==
    ASSUME TerminalInv, NEW q \in Inputs, Drains(q)
    PROVE  Drained' /\ InLine' /\ InputInOrder'
<1>0. /\ Drained /\ InLine /\ InputInOrder
      /\ drain \in [Inputs -> Tasks] /\ buffer \in [Inputs -> Seq(Inputs)]
      /\ typed \in Nat /\ LastMessage \in Nat /\ input \in Inputs \cup {NoQueue}
      /\ written \in Seq([message : Inputs, queue : Inputs])
      /\ drain[q] \in Tasks /\ buffer[q] \in Seq(Inputs) /\ NoQueue \notin Inputs
  BY TerminalTypes DEF TerminalInv, TerminalTypeOK
<1>1. /\ \A k \in 1..Len(written) : written[k].message \in Inputs /\ written[k].queue \in Inputs
      /\ Waiting(q) /\ DOMAIN written = 1..Len(written) /\ Len(written) \in Nat
  BY <1>0, WrittenEntries DEF InLine, TerminalInv
<1>2. typed' = typed /\ input' = input
  BY DEF Drains, DrainRecv, DrainEnds, DrainLook, DrainCheck, DrainWakes, DrainTimeout,
         DropsInput, DrainSend, DrainWrite, inputVars
<1>3. ASSUME NEW t, DrainSet(q, t)
      PROVE  drain'[q] = t /\ \A r \in Inputs : r # q => drain'[r] = drain[r]
  BY <1>0, <1>3 DEF DrainSet
\* One queue's task and its queue change, no other's.
<1>4. ASSUME \A r \in Inputs : r # q => drain'[r] = drain[r] /\ buffer'[r] = buffer[r],
             written' = written, drain'[q].pc # "off" \/ (buffer'[q] = <<>> /\ input # q),
             Waiting(q)', \A n \in Inputs : Precedes(n, q) => Precedes(n, q)'
      PROVE  Drained' /\ InLine' /\ InputInOrder'
  <2>1. ASSUME NEW r \in Inputs, r # q
        PROVE  Waiting(r)' /\ \A n : Precedes(n, r) => Precedes(n, r)'
    BY <1>0, <1>2, <1>4, <2>1 DEF InLine, Waiting, Precedes, Underway
  <2>2. Drained'
    BY <1>0, <1>2, <1>4 DEF Drained
  <2> QED
    BY <1>0, <1>1, <1>4, <2>1, <2>2 DEF InLine, InputInOrder
\* It goes on with the message it has.
<1>5. ASSUME UNCHANGED <<buffer, written>>, Underway(q), Underway(q)',
             NEW t, DrainSet(q, t), t.message = drain[q].message
      PROVE  Drained' /\ InLine' /\ InputInOrder'
  <2>1. drain'[q].message = drain[q].message /\ drain'[q].pc # "off"
    BY <1>3, <1>5 DEF Underway
  <2>2. Waiting(q)' /\ \A n \in Inputs : Precedes(n, q) => Precedes(n, q)'
    BY <1>1, <1>2, <1>5, <2>1 DEF Waiting, Precedes
  <2> QED
    BY <1>3, <1>4, <1>5, <2>1, <2>2
<1>6. /\ Receives.pc = "recv" /\ NoDrain.pc = "off"
      /\ \A m, n : Listens(m, n).pc = "look" /\ Listens(m, n).message = m
  BY DEF Receives, NoDrain, Listens
<1>7. ASSUME DropsInput(q) PROVE Drained' /\ InLine' /\ InputInOrder'
  <2>1. /\ written' = written /\ buffer'[q] = <<>> /\ ~Underway(q)' /\ drain'[q].pc # "off"
        /\ \A r \in Inputs : r # q => drain'[r] = drain[r] /\ buffer'[r] = buffer[r]
    BY <1>0, <1>3, <1>6, <1>7 DEF DropsInput, Underway
  <2>2. Len(buffer'[q]) = 0
    BY <2>1
  <2>3. Waiting(q)' /\ \A n \in Inputs : Precedes(n, q) => Precedes(n, q)'
    BY <1>2, <2>1, <2>2 DEF Waiting, Precedes
  <2> QED
    BY <1>4, <2>1, <2>3
<1>8. CASE DrainRecv(q)
  <2> DEFINE m == Head(buffer[q])
  <2>1. /\ buffer[q] # <<>> /\ written' = written /\ DrainSet(q, Listens(m, 1))
        /\ buffer' = [buffer EXCEPT ![q] = Tail(@)] /\ ~Underway(q)
    BY <1>8 DEF DrainRecv, HasInput, Underway
  <2>2. /\ Len(buffer[q]) \in Nat \ {0} /\ m = buffer[q][1] /\ m \in Inputs
        /\ Len(Tail(buffer[q])) = Len(buffer[q]) - 1
        /\ \A i \in 1..Len(Tail(buffer[q])) : Tail(buffer[q])[i] = buffer[q][i + 1]
    BY <1>0, <2>1, HeadTailProperties, EmptySeq
  <2>3. /\ drain'[q].message = m /\ drain'[q].pc = "look"
        /\ \A r \in Inputs : r # q => drain'[r] = drain[r] /\ buffer'[r] = buffer[r]
        /\ buffer'[q] = Tail(buffer[q])
    BY <1>0, <1>3, <1>6, <2>1
  <2> HIDE DEF m
  <2>4. Waiting(q)'
    <3>1. ASSUME NEW i \in 1..Len(buffer'[q])
          PROVE  i + 1 \in 1..Len(buffer[q]) /\ buffer'[q][i] = buffer[q][i + 1]
      BY <2>2, <2>3, <3>1
    <3>2. 1 \in 1..Len(buffer[q])
      BY <2>2
    <3>3. m \in 1..typed
      BY <1>0, <1>1, <2>2, <3>2 DEF Waiting, Inputs
    <3>4. \A i \in 1..Len(buffer'[q]) : m < buffer'[q][i] /\ buffer'[q][i] <= typed
      <4>1. TAKE i \in 1..Len(buffer'[q])
      <4>2. 1 < i + 1
        BY <2>2, <2>3
      <4> QED
        BY <1>1, <2>2, <3>1, <3>2, <4>2 DEF Waiting
    <3>5. ASSUME NEW i \in 1..Len(buffer'[q]), NEW j \in 1..Len(buffer'[q]), i < j
          PROVE  buffer'[q][i] < buffer'[q][j]
      <4>1. i + 1 < j + 1
        BY <3>5
      <4> QED
        BY <1>1, <3>1, <4>1 DEF Waiting
    <3> QED
      BY <1>2, <2>3, <3>3, <3>4, <3>5 DEF Waiting
  <2>5. ASSUME NEW n \in Inputs, Precedes(n, q) PROVE Precedes(n, q)'
    <3>1. n < m /\ n <= typed
      <4>1. 1 \in 1..Len(buffer[q])
        BY <2>2
      <4> QED
        BY <2>2, <2>5, <4>1 DEF Precedes
    <3>2. ASSUME NEW i \in 1..Len(buffer'[q]) PROVE n < buffer'[q][i]
      <4>1. i + 1 \in 1..Len(buffer[q]) /\ buffer'[q][i] = buffer[q][i + 1]
        BY <2>2, <2>3, <3>2
      <4> QED
        BY <2>5, <4>1 DEF Precedes
    <3> QED
      BY <1>2, <2>3, <3>1, <3>2 DEF Precedes
  <2> QED
    BY <1>4, <2>1, <2>3, <2>4, <2>5
<1>9. CASE DrainEnds(q)
  <2>1. /\ written' = written /\ buffer' = buffer /\ buffer[q] = <<>> /\ input # q
        /\ drain'[q].pc = "off"
        /\ \A r \in Inputs : r # q => drain'[r] = drain[r] /\ buffer'[r] = buffer[r]
    BY <1>3, <1>6, <1>9 DEF DrainEnds, inputVars
  <2>2. Len(buffer'[q]) = 0 /\ ~Underway(q)'
    BY <2>1 DEF Underway
  <2>3. Waiting(q)' /\ \A n \in Inputs : Precedes(n, q) => Precedes(n, q)'
    BY <1>2, <2>1, <2>2 DEF Waiting, Precedes
  <2> QED
    BY <1>4, <2>1, <2>3
<1>10. CASE DrainLook(q)
  <2> DEFINE t == [drain[q] EXCEPT !.pc = IF byKey = NoSession THEN "sleep" ELSE "check",
                                   !.id = byKey]
  <2>1. t.message = drain[q].message /\ t.pc \in {"sleep", "check"}
    BY <1>0 DEF Tasks
  <2>2. DrainSet(q, t) /\ drain[q].pc = "look" /\ UNCHANGED <<buffer, written>>
    BY <1>10 DEF DrainLook, inputVars
  <2> HIDE DEF t
  <2> QED
    BY <1>3, <1>5, <2>1, <2>2 DEF Underway
<1>11. CASE DrainCheck(q)
  <2>1. /\ [drain[q] EXCEPT !.pc = "send", !.woken = FALSE].pc = "send"
        /\ [drain[q] EXCEPT !.pc = "send", !.woken = FALSE].message = drain[q].message
        /\ [drain[q] EXCEPT !.pc = "sleep", !.id = NoSession].pc = "sleep"
        /\ [drain[q] EXCEPT !.pc = "sleep", !.id = NoSession].message = drain[q].message
    BY <1>0 DEF Tasks
  <2>2. PICK t : /\ DrainSet(q, t) /\ t.message = drain[q].message /\ t.pc \in {"send", "sleep"}
    BY <1>11, <2>1 DEF DrainCheck
  <2> QED
    BY <1>3, <1>5, <1>11, <2>2 DEF Underway, DrainCheck, inputVars
<1>12. CASE DrainWakes(q)
  BY <1>3, <1>5, <1>6, <1>12 DEF Underway, DrainWakes, WakesUp, inputVars
<1>13. CASE DrainTimeout(q)
  BY <1>7, <1>13 DEF DrainTimeout
<1>14. CASE DrainSend(q)
  <2>1. /\ [drain[q] EXCEPT !.pc = "write"].pc = "write"
        /\ [drain[q] EXCEPT !.pc = "write"].message = drain[q].message
    BY <1>0 DEF Tasks
  <2>2. CASE ~DropsInput(q)
    <3>1. DrainSet(q, IF drain[q].id \in registered
                      THEN [drain[q] EXCEPT !.pc = "write"]
                      ELSE Listens(drain[q].message, 2))
      BY <1>14, <2>2 DEF DrainSend
    <3>2. PICK t : DrainSet(q, t) /\ t.message = drain[q].message /\ t.pc \in {"write", "look"}
      <4>1. CASE drain[q].id \in registered
        BY <2>1, <3>1, <4>1
      <4>2. CASE drain[q].id \notin registered
        BY <1>6, <3>1, <4>2
      <4> QED
        BY <4>1, <4>2
    <3> QED
      BY <1>3, <1>5, <1>14, <2>2, <3>2 DEF Underway, DrainSend, inputVars
  <2> QED
    BY <1>7, <2>2
<1>15. CASE DrainWrite(q)
  <2>0. PICK m : m = drain[q].message
    OBVIOUS
  <2> DEFINE e == [message |-> m, queue |-> q]
  <2>1. /\ buffer' = buffer /\ Underway(q) /\ ~Underway(q)' /\ drain'[q].pc # "off"
        /\ \A r \in Inputs : r # q => drain'[r] = drain[r]
        /\ written' = written \/ written' = Append(written, e)
    BY <1>3, <1>6, <1>15, <2>0 DEF DrainWrite, Underway
  <2>2. /\ m \in 1..typed /\ m \in Inputs
        /\ \A i \in 1..Len(buffer[q]) : m < buffer[q][i]
    BY <1>0, <1>1, <2>0, <2>1, TerminalTypes DEF Waiting, Inputs, TerminalInv
  <2>3. Waiting(q)' /\ Precedes(m, q)' /\ \A n \in Inputs : Precedes(n, q) => Precedes(n, q)'
    <3>1. Waiting(q)'
      BY <1>1, <1>2, <2>1 DEF Waiting
    <3>2. Precedes(m, q)'
      BY <1>0, <1>2, <2>1, <2>2 DEF Precedes
    <3>3. \A n \in Inputs : Precedes(n, q) => Precedes(n, q)'
      BY <1>2, <2>1 DEF Precedes
    <3> QED
      BY <3>1, <3>2, <3>3
  <2>4. CASE written' = written
    BY <1>4, <2>1, <2>3, <2>4
  <2>5. CASE written' = Append(written, e)
    <3>1. /\ Len(written') = Len(written) + 1 /\ DOMAIN written' = 1..(Len(written) + 1)
          /\ \A k \in 1..Len(written) : written'[k] = written[k]
          /\ written'[Len(written) + 1] = e
      <4>1. e \in [message : Inputs, queue : Inputs]
        BY <2>2
      <4> QED
        BY <1>0, <1>1, <2>5, <4>1, AppendProperties
    <3>2. e.message = m /\ e.queue = q
      OBVIOUS
    <3> HIDE DEF e
    <3>3. ASSUME NEW r \in Inputs
          PROVE  Waiting(r)' /\ \A n \in Inputs : Precedes(n, r) => Precedes(n, r)'
      <4>1. CASE r # q
        BY <1>0, <1>2, <2>1, <4>1 DEF InLine, Waiting, Precedes, Underway
      <4> QED
        BY <2>3, <4>1
    <3>4. ASSUME NEW k \in 1..Len(written')
          PROVE  Precedes(written[k].message, written[k].queue)'
      <4>1. CASE k \in 1..Len(written)
        <5>1. PICK n, r : n = written[k].message /\ r = written[k].queue
          OBVIOUS
        <5>2. n \in Inputs /\ r \in Inputs /\ Precedes(n, r)
          BY <1>0, <1>1, <4>1, <5>1 DEF InLine
        <5>3. Precedes(n, r)' /\ written'[k].message = n /\ written'[k].queue = r
          BY <3>1, <3>3, <4>1, <5>1, <5>2
        <5> QED
          BY <5>3 DEF Precedes
      <4>2. CASE k = Len(written) + 1
        <5>1. written'[k].message = m /\ written'[k].queue = q
          BY <3>1, <3>2, <4>2
        <5> QED
          BY <2>3, <5>1 DEF Precedes
      <4> QED
        BY <1>1, <3>1, <3>4, <4>1, <4>2
    <3>5. ASSUME NEW i \in DOMAIN written', NEW j \in DOMAIN written', i < j,
                 written'[i].queue = written'[j].queue
          PROVE  written'[i].message < written'[j].message
      <4>1. i \in 1..Len(written)
        BY <1>1, <3>1, <3>5
      <4>2. CASE j \in 1..Len(written)
        BY <1>0, <1>1, <3>1, <3>5, <4>1, <4>2 DEF InputInOrder
      <4>3. CASE j = Len(written) + 1
        <5>1. written[i].queue = q /\ Precedes(written[i].message, q)
          BY <1>0, <3>1, <3>2, <3>5, <4>1, <4>3 DEF InLine
        <5>2. written[i].message < m
          BY <2>0, <2>1, <5>1 DEF Precedes
        <5> QED
          BY <3>1, <3>2, <4>1, <4>3, <5>2
      <4> QED
        BY <1>1, <3>1, <3>5, <4>2, <4>3
    <3>6. Drained'
      BY <1>0, <1>2, <2>1 DEF Drained
    <3> QED
      BY <3>3, <3>4, <3>5, <3>6 DEF InLine, InputInOrder
  <2> QED
    BY <2>1, <2>4, <2>5
<1> QED
  BY <1>8, <1>9, <1>10, <1>11, <1>12, <1>13, <1>14, <1>15 DEF Drains

LEMMA TerminalInitially == TerminalInit => TerminalInv
<1> SUFFICES ASSUME TerminalInit PROVE TerminalInv
  OBVIOUS
<1> USE DEF TerminalInit
<1>1. TerminalTypeOK
  <2>1. Opened \in Openers
    BY DEF Opened, Openers, SessionPcs
  <2>2. NoDrain \in Tasks /\ 0 \in 0..LastMessage
    <3>1. 0 \in 0..LastMessage /\ 0 \in 0..2
      BY TerminalAssumption
    <3> QED
      BY <3>1 DEF NoDrain, Tasks, DrainPcs
  <2>3. /\ process \in [Sessions -> {"unborn", "alive", "exited", "killed"}]
        /\ forwarder \in [Sessions -> {"off", "listens", "unkeys", "records", "done", "aborted"}]
        /\ registered \subseteq Sessions /\ byKey \in Sessions \cup {NoSession}
        /\ input \in Inputs \cup {NoQueue} /\ overlap \in BOOLEAN /\ left \subseteq Sessions
    OBVIOUS
  <2>4. /\ opener \in [Windows -> Openers] /\ drain \in [Inputs -> Tasks]
        /\ typed \in 0..LastMessage
    BY <2>1, <2>2
  <2>5. /\ buffer \in [Inputs -> Seq(Inputs)]
        /\ written \in Seq([message : Inputs, queue : Inputs])
    BY EmptySeq
  <2> QED
    BY <2>3, <2>4, <2>5 DEF TerminalTypeOK, Openers, SessionPcs, Tasks, DrainPcs
<1>2. NoSession \notin Sessions /\ NoQueue \notin Inputs
  BY <1>1, TerminalTypes
<1>3. Owned /\ Single
  BY <1>2 DEF Owned, Single, Opened
<1>4. Waits /\ Drained
  BY DEF Waits, Drained, NoDrain
<1>5. InLine /\ InputInOrder
  <2>1. Len(written) = 0 /\ DOMAIN written = {} /\ \A q \in Inputs : Len(buffer[q]) = 0
    OBVIOUS
  <2> QED
    BY <2>1 DEF InLine, Waiting, Underway, NoDrain, InputInOrder
<1> QED
  BY <1>1, <1>3, <1>4, <1>5 DEF TerminalInv

LEMMA TerminalStep == TerminalInv /\ [TerminalNext]_terminalVars => TerminalInv'
<1> SUFFICES ASSUME TerminalInv, [TerminalNext]_terminalVars PROVE TerminalInv'
  OBVIOUS
<1>1. ASSUME NEW w \in Windows, Reattach(w) \/ Opens(w) PROVE TerminalInv'
  BY <1>1, OpenTypeStep, OpenOwnedStep, OpenSingleStep, OpenWaitsStep, OpenInputStep DEF TerminalInv
<1>2. ASSUME NEW s \in Sessions, Forwards(s) \/ Exits(s) \/ Closes(s) PROVE TerminalInv'
  <2>1. TerminalTypeOK
    BY DEF TerminalInv
  <2> QED
    BY <1>2, <2>1, EndTypeStep, EndOwnedStep, EndSingleStep, EndWaitsStep, EndInputStep DEF TerminalInv
<1>3. CASE EnqueueInput
  BY <1>3, InputTypeStep, InputWaitsStep, EnqueueStep DEF TerminalInv
<1>4. ASSUME NEW q \in Inputs, Drains(q) PROVE TerminalInv'
  BY <1>4, InputTypeStep, InputWaitsStep, DrainInputStep DEF TerminalInv
<1>5. CASE UNCHANGED terminalVars
  <2>1. TerminalTypeOK' /\ Owned' /\ Single' /\ Waits'
    BY <1>5 DEF terminalVars, TerminalInv, TerminalTypeOK, Owned, Single, Waits
  <2>2. Drained' /\ InLine' /\ InputInOrder'
    BY <1>5 DEF terminalVars, TerminalInv, Drained, InLine, Waiting, Precedes, Underway, InputInOrder
  <2> QED
    BY <2>1, <2>2 DEF TerminalInv
<1> QED
  BY <1>1, <1>2, <1>3, <1>4, <1>5 DEF TerminalNext, TasksGoOn

\* attach_or_create, spawn_with, the forwarder, close and the input queues: the
\* registry, its key and the drain tasks keep to their invariant, for any windows,
\* processes and messages.
THEOREM TerminalCorrect == TerminalSpec => []TerminalInv
  BY TerminalInitially, TerminalStep, PTL DEF TerminalSpec

\* Each map of the registry, each call and each task holds what it may.
THEOREM TerminalTypeCorrect == TerminalSpec => []TerminalTypeOK
<1>1. TerminalInv => TerminalTypeOK
  BY DEF TerminalInv
<1> QED
  BY <1>1, TerminalCorrect, PTL

\* attach_or_create, the forwarder and close, with calls dropped anywhere: as long as no
\* two opens overlap, a terminal has one process, but for those that dropped calls left,
\* and one that exited is always on its way out of the registry.
THEOREM RegistryTrueCorrect == TerminalSpec => []RegistryTrue
<1>1. ASSUME TerminalInv PROVE OneProcess
  <2> SUFFICES ASSUME ~overlap PROVE Cardinality(Alive \ left) <= 1
    BY DEF OneProcess
  <2>1. /\ \A v, w \in Windows : opener[v].pc # "idle" /\ opener[w].pc # "idle" => v = w
        /\ registered \ left \subseteq {byKey}
        /\ \A w \in Windows : opener[w].pc = "register" => registered \ left = {}
    BY <1>1 DEF TerminalInv, Single
  <2>2. ASSUME NEW s \in Alive \ left
        PROVE  \/ s \in registered \ left
               \/ \E w \in Windows : opener[w] = [pc |-> "register", id |-> s]
    BY <1>1, <2>2 DEF TerminalInv, Owned, Alive
  <2>3. ASSUME NEW s \in Alive \ left, NEW t \in Alive \ left PROVE s = t
    <3>1. CASE \E w \in Windows : opener[w] = [pc |-> "register", id |-> s]
      <4>1. PICK w \in Windows : opener[w] = [pc |-> "register", id |-> s]
        BY <3>1
      <4>2. opener[w].pc = "register" /\ opener[w].id = s /\ registered \ left = {}
        BY <2>1, <4>1
      <4>3. PICK v \in Windows : opener[v] = [pc |-> "register", id |-> t]
        BY <2>2, <4>2
      <4>4. opener[v].pc = "register" /\ opener[v].id = t
        BY <4>3
      <4> QED
        BY <2>1, <4>2, <4>4
    <3>2. CASE s \in registered \ left
      <4>1. t \in registered \ left
        <5>1. \A w \in Windows : opener[w].pc # "register"
          BY <2>1, <3>2
        <5>2. ~\E w \in Windows : opener[w] = [pc |-> "register", id |-> t]
          BY <5>1
        <5> QED
          BY <2>2, <5>2
      <4> QED
        BY <2>1, <3>2, <4>1
    <3> QED
      BY <2>2, <3>1, <3>2
  <2>4. CASE Alive \ left = {}
    BY <2>4, FS_EmptySet
  <2>5. CASE Alive \ left # {}
    <3>1. PICK s : Alive \ left = {s}
      BY <2>3, <2>5
    <3>2. Cardinality({s}) = 1
      BY FS_Singleton
    <3> QED
      BY <3>1, <3>2, SMTT(20)
  <2> QED
    BY <2>4, <2>5
<1>2. ASSUME TerminalInv, NEW s \in Sessions, process[s] = "exited", ~ForwarderGoesOn(s),
             ~\E w \in Windows : opener[w] = [pc |-> "register", id |-> s]
      PROVE  /\ s \notin registered
             /\ s \in left \/ (byKey # s /\ forwarder[s] \in {"done", "aborted"})
  <2>1. forwarder[s] \notin {"listens", "unkeys", "records"}
    BY <1>2 DEF ForwarderGoesOn, HearsExit
  <2>2. s \notin registered
    BY <1>2, <2>1 DEF TerminalInv, Owned
  <2>3. CASE s \notin left
    <3>1. forwarder[s] # "off"
      BY <1>2, <2>3 DEF TerminalInv, Owned
    <3>2. forwarder[s] \in {"done", "aborted"}
      BY <1>2, <2>1, <3>1 DEF TerminalInv, TerminalTypeOK
    <3>3. byKey # s
      BY <1>2, <2>3, <2>1, <3>2 DEF TerminalInv, Owned
    <3> QED
      BY <2>2, <3>2, <3>3
  <2> QED
    BY <2>2, <2>3
<1>3. ASSUME TerminalInv PROVE ExitsCleanedUp
  <2> SUFFICES ASSUME NEW s \in Sessions, process[s] = "exited"
               PROVE  \/ /\ s \notin registered
                         /\ s \in left \/ (byKey # s /\ forwarder[s] \in {"done", "aborted"})
                      \/ ForwarderGoesOn(s)
                      \/ \E w \in Windows : opener[w] = [pc |-> "register", id |-> s]
    BY DEF ExitsCleanedUp
  <2> QED
    BY <1>2, <1>3
<1>4. TerminalInv => RegistryTrue
  BY <1>1, <1>3 DEF RegistryTrue
<1> QED
  BY <1>4, TerminalCorrect, PTL

\* enqueue_input, wait_for_session and the drain tasks: what is typed is written in its
\* order, no drain task sleeps through the process it waits for, and none is stuck.
THEOREM InputServedCorrect == TerminalSpec => []InputServed
<1>1. ASSUME TerminalInv PROVE NoMissedProcess
  BY <1>1 DEF TerminalInv, Waits, NoMissedProcess
<1>2. ASSUME TerminalInv PROVE InputSettles
  <2> SUFFICES ASSUME NEW q \in Inputs, buffer[q] # <<>> \/ drain[q].pc \notin {"off", "recv"}
               PROVE  DrainGoesOn(q)
    BY DEF InputSettles
  <2>1. drain[q].pc \in DrainPcs
    BY <1>2, TerminalTypes DEF TerminalInv, Tasks
  <2>2. drain[q].pc # "off"
    BY <1>2 DEF TerminalInv, Drained
  <2> QED
    BY <2>1, <2>2 DEF DrainPcs, DrainGoesOn, HasInput, WakesUp, TimesOut
<1>3. TerminalInv => InputServed
  BY <1>1, <1>2 DEF InputServed, TerminalInv
<1> QED
  BY <1>3, TerminalCorrect, PTL
=============================================================================
