----------------------- MODULE ExtensionActivationProofs -----------------------
(***************************************************************************)
(* What an activation promises its readers and whoever chose a deployment, *)
(* for any extensions, requirements and deployments.                       *)
(***************************************************************************)
EXTENDS ExtensionActivation, TLAPS

AnyVersion == {NoVersion, Shipped} \cup Versions

Activations ==
    [by : {"nobody", "boot", "owner", "deploy"},
     stage : {"none", "admit", "prepare", "boundary", "publish"},
     raw : Snapshots, chosen : LiveSets, change : Changes,
     failed : [Extensions -> Nat], gave : SUBSET Extensions,
     tried : SUBSET (Extensions \X AnyVersion), cand : Snapshots,
     held : SUBSET Extensions, restaged : BOOLEAN]

Workers == [stage : {"none", "open", "committed", "swapped"}, cand : Snapshots,
            live : LiveSets, choice : LiveSets]

\* The types of what is settled, of what runs, and of what is under way.
SettledTypes ==
    /\ off \in SUBSET Extensions /\ broken \in SUBSET (Extensions \X Versions)
    /\ live \in LiveSets /\ recorded \in LiveSets /\ choice \in LiveSets
    /\ staging \in Changes /\ deployer \in Changes
    /\ phase \in {"boot", "booted", "up", "down"}
    /\ slipped \in BOOLEAN /\ overlapped \in BOOLEAN

RunningTypes ==
    /\ vocabulary \in Snapshots /\ catalog \in Snapshots
    /\ boundary \in [active : Snapshots, unavailable : BOOLEAN]
    /\ pinned \in BOOLEAN /\ lifted \in BOOLEAN

TaskTypes == act \in Activations /\ worker \in Workers

WellTyped == SettledTypes /\ RunningTypes /\ TaskTypes

-----------------------------------------------------------------------------
(* What is admitted, as a function of what was loaded, what failed, what   *)
(* runs and what does not load.                                            *)

Failing(raw, failed, br) == {e \in raw.on : <<e, raw.version[e]>> \in br \/ failed[e] > 0}
Keeping(raw, failed, cat, br) == {e \in Failing(raw, failed, br) \cap cat.on : failed[e] < 2}
Able(raw, failed, cat, br) ==
    raw.on \ (Failing(raw, failed, br) \ Keeping(raw, failed, cat, br))
OnOf(raw, failed, cat, br) == RequirementsIn(Able(raw, failed, cat, br))
VersionOf(raw, failed, cat, br) ==
    [e \in Extensions |->
        IF e \in raw.on \ OnOf(raw, failed, cat, br) THEN NoVersion
        ELSE IF e \in Keeping(raw, failed, cat, br) THEN cat.version[e]
        ELSE IF e \in Failing(raw, failed, br) THEN NoVersion ELSE raw.version[e]]
CandOf(raw, failed, cat, br) ==
    [version |-> VersionOf(raw, failed, cat, br), on |-> OnOf(raw, failed, cat, br),
     source |-> raw.source]
HeldOf(raw, failed, cat, br) ==
    Failing(raw, failed, br) \cup (raw.on \ OnOf(raw, failed, cat, br))
YieldingOf(raw, failed, cat, br) ==
    {e \in HeldOf(raw, failed, cat, br) \ OnOf(raw, failed, cat, br) :
        raw.version[e] \in Versions /\ e \in Ships}

LEMMA AdmittedIs ==
    ASSUME WellTyped
    PROVE  /\ Admitted = CandOf(act.raw, act.failed, catalog, broken)
           /\ Held = HeldOf(act.raw, act.failed, catalog, broken)
           /\ GivingWay = YieldingOf(act.raw, act.failed, catalog, broken)
<1>1. CannotLoad = Failing(act.raw, act.failed, broken)
  BY DEF CannotLoad, Failing
<1>2. KeepsLast = Keeping(act.raw, act.failed, catalog, broken)
  BY <1>1 DEF KeepsLast, Keeping
<1>3. RequirementsIn(act.raw.on \ (CannotLoad \ KeepsLast))
          = OnOf(act.raw, act.failed, catalog, broken)
  BY <1>1, <1>2 DEF OnOf, Able
<1>4. Admitted.on = OnOf(act.raw, act.failed, catalog, broken)
  BY <1>3 DEF Admitted
<1>5. Held = HeldOf(act.raw, act.failed, catalog, broken)
  BY <1>1, <1>4 DEF Held, HeldOf
<1>6. GivingWay = YieldingOf(act.raw, act.failed, catalog, broken)
  BY <1>4, <1>5 DEF GivingWay, YieldingOf
<1>7. Admitted = CandOf(act.raw, act.failed, catalog, broken)
  <2>1. \A e \in Extensions :
          (IF e \in act.raw.on \ OnOf(act.raw, act.failed, catalog, broken) THEN NoVersion
           ELSE Substituted[e]) = VersionOf(act.raw, act.failed, catalog, broken)[e]
    BY <1>1, <1>2 DEF Substituted, VersionOf
  <2>2. [e \in Extensions |->
          IF e \in act.raw.on \ OnOf(act.raw, act.failed, catalog, broken) THEN NoVersion
          ELSE Substituted[e]] = VersionOf(act.raw, act.failed, catalog, broken)
    BY <2>1 DEF VersionOf
  <2> QED  BY <1>3, <2>2 DEF Admitted, CandOf
<1> QED  BY <1>5, <1>6, <1>7

\* What is left of a set is the largest part of it that holds all it requires.
LEMMA RequirementsMet ==
    ASSUME NEW on
    PROVE  /\ RequirementsIn(on) \subseteq on
           /\ \A e \in RequirementsIn(on) : Requires[e] \subseteq RequirementsIn(on)
           /\ \A s \in SUBSET on : (\A e \in s : Requires[e] \subseteq s)
                                     => s \subseteq RequirementsIn(on)
  BY Zenon DEF RequirementsIn

LEMMA AppliedTyped ==
    ASSUME NEW map \in LiveSets, NEW change \in Changes
    PROVE  /\ Applied(map, change) \in LiveSets
           /\ change = NoChange => Applied(map, change) = map
           /\ change # NoChange =>
                /\ change[1] \in Extensions /\ Applied(map, change)[change[1]] = change[2]
                /\ \A e \in Extensions \ {change[1]} : Applied(map, change)[e] = map[e]
  BY DEF Applied, LiveSets, Changes, NoChange

LEMMA LoadTyped ==
    ASSUME NEW o \in SUBSET Extensions, NEW map \in LiveSets
    PROVE  /\ Load(o, map) \in Snapshots
           /\ \A e \in Extensions :
                Load(o, map).version[e] = IF map[e] # NoVersion THEN map[e]
                                          ELSE IF e \in Ships THEN Shipped ELSE NoVersion
           /\ Load(o, map).on = {e \in Extensions \ o : Load(o, map).version[e] # NoVersion}
           /\ Load(o, map).source = <<o, map>>
<1> DEFINE V == [e \in Extensions |->
                    IF map[e] # NoVersion THEN map[e]
                    ELSE IF e \in Ships THEN Shipped ELSE NoVersion]
<1>1. Load(o, map) = [version |-> V, on |-> {e \in Extensions \ o : V[e] # NoVersion},
                      source |-> <<o, map>>]
  BY DEF Load
<1>2. V \in [Extensions -> {NoVersion, Shipped} \cup Versions]
  BY DEF LiveSets
<1>3. \A e \in Extensions :
        V[e] = IF map[e] # NoVersion THEN map[e]
               ELSE IF e \in Ships THEN Shipped ELSE NoVersion
  OBVIOUS
<1> HIDE DEF V
<1> QED  BY <1>1, <1>2, <1>3 DEF Snapshots

LEMMA CandTyped ==
    ASSUME NEW raw \in Snapshots, NEW failed \in [Extensions -> Nat],
           NEW cat \in Snapshots, NEW br
    PROVE  /\ CandOf(raw, failed, cat, br) \in Snapshots
           /\ HeldOf(raw, failed, cat, br) \in SUBSET Extensions
           /\ YieldingOf(raw, failed, cat, br) \in SUBSET Extensions
<1>1. raw.on \subseteq Extensions /\ raw.version \in [Extensions -> AnyVersion]
      /\ cat.version \in [Extensions -> AnyVersion]
      /\ raw.source \in (SUBSET Extensions) \X LiveSets
  BY DEF Snapshots, AnyVersion
<1>2. OnOf(raw, failed, cat, br) \subseteq raw.on
  BY RequirementsMet DEF OnOf, Able
<1>3. Failing(raw, failed, br) \subseteq raw.on
  BY DEF Failing
<1>4. VersionOf(raw, failed, cat, br) \in [Extensions -> AnyVersion]
  BY <1>1 DEF VersionOf, AnyVersion
<1> QED  BY <1>1, <1>2, <1>3, <1>4 DEF CandOf, HeldOf, YieldingOf, Snapshots, AnyVersion

LEMMA NewLiveTyped ==
    ASSUME NEW cand \in Snapshots, NEW kept, NEW chosen \in LiveSets
    PROVE  NewLive(cand, kept, chosen) \in LiveSets
  BY DEF NewLive, LiveSets, Snapshots

LEMMA NothingTyped ==
    /\ NoneLive \in LiveSets /\ NoSnapshot \in Snapshots /\ NoChange \in Changes
    /\ NoAct \in Activations /\ NoWorker \in Workers
<1>1. NoneLive \in LiveSets
  BY DEF NoneLive, LiveSets
<1>2. NoSnapshot \in Snapshots
  BY <1>1 DEF NoSnapshot, Snapshots, NoneLive, LiveSets
<1> QED  BY <1>1, <1>2 DEF Changes, NoAct, NoWorker, Activations, Workers

-----------------------------------------------------------------------------
(* Every step keeps the types.                                             *)

LEMMA HoldsTyped ==
    ASSUME WellTyped, NEW problems \in SUBSET Extensions, Holds(problems)
    PROVE  act' \in Activations /\ slipped' \in BOOLEAN
<1>1. act \in Activations /\ act.cand \in Snapshots
  BY DEF WellTyped, TaskTypes, Activations
<1>2. act.cand.version \in [Extensions -> AnyVersion]
  BY <1>1 DEF Snapshots, AnyVersion
<1>3. PICK f : f = [e \in Extensions |-> IF e \in problems THEN act.failed[e] + 1
                                         ELSE act.failed[e]]
  OBVIOUS
<1>4. PICK t : t = act.tried \cup {<<e, act.cand.version[e]>> : e \in problems}
  OBVIOUS
<1>5. f \in [Extensions -> Nat]
  <2>1. act.failed \in [Extensions -> Nat]
    BY <1>1 DEF Activations
  <2> QED  BY <2>1, <1>3
<1>6. t \in SUBSET (Extensions \X AnyVersion)
  <2>1. act.tried \in SUBSET (Extensions \X AnyVersion)
    BY <1>1 DEF Activations
  <2> QED  BY <2>1, <1>2, <1>4
<1>7. act' = [act EXCEPT !.stage = "admit", !.failed = f, !.tried = t]
  BY <1>1, <1>3, <1>4 DEF Holds, Activations
<1> QED  BY <1>1, <1>5, <1>6, <1>7 DEF Holds, WellTyped, SettledTypes, Activations

LEMMA EndsTyped ==
    ASSUME WellTyped, NEW outcome, Ends(outcome)
    PROVE  /\ act' \in Activations /\ staging' \in Changes /\ deployer' \in Changes
           /\ phase' \in {"boot", "booted", "up", "down"} /\ slipped' \in BOOLEAN
<1>1. act' \in Activations /\ staging' \in Changes /\ slipped' \in BOOLEAN
  BY NothingTyped DEF Ends, WellTyped, SettledTypes
<1>2. deployer' \in Changes
  BY NothingTyped DEF Ends, WellTyped, SettledTypes
<1>3. phase' \in {"boot", "booted", "up", "down"}
  BY DEF Ends, WellTyped, SettledTypes
<1> QED  BY <1>1, <1>2, <1>3

LEMMA RestagesTyped ==
    ASSUME WellTyped, Restages
    PROVE  /\ act' \in Activations /\ staging' \in Changes /\ deployer' \in Changes
           /\ phase' \in {"boot", "booted", "up", "down"} /\ slipped' \in BOOLEAN
<1>1. CASE act.restaged /\ Ends("host")
  BY <1>1, EndsTyped
<1>2. CASE act' = [act EXCEPT !.stage = "admit", !.restaged = TRUE]
           /\ UNCHANGED <<staging, tries, deployer, phase, spoiled, slipped>>
  BY <1>2 DEF WellTyped, SettledTypes, TaskTypes, Activations
<1> QED  BY <1>1, <1>2 DEF Restages
\* What a worker that ends for a caller that went away leaves.
LEMMA OrphanTyped ==
    ASSUME WellTyped, slipped' = (slipped \/ live' # recorded'),
           UNCHANGED <<act, staging, tries, deployer, phase, spoiled>>
    PROVE  /\ act' \in Activations /\ staging' \in Changes /\ deployer' \in Changes
           /\ phase' \in {"boot", "booted", "up", "down"} /\ slipped' \in BOOLEAN
  BY DEF WellTyped, SettledTypes, TaskTypes

LEMMA StageTyped ==
    ASSUME WellTyped, NEW by \in {"boot", "owner", "deploy"}, NEW change \in Changes,
           Stage(by, change)
    PROVE  act' \in Activations /\ staging' \in Changes /\ overlapped' \in BOOLEAN
<1>1. Load(off, Applied(live, change)) \in Snapshots
  BY AppliedTyped, LoadTyped DEF WellTyped, SettledTypes
<1>2. PICK raw \in Snapshots : raw = Load(off, Applied(live, change))
  BY <1>1
<1>3. act' = [NoAct EXCEPT !.by = by, !.stage = "admit", !.change = change,
                           !.chosen = live, !.raw = raw]
  BY <1>2 DEF Stage
<1>4. act' \in Activations
  BY <1>3, NothingTyped DEF Activations, WellTyped, SettledTypes
<1> QED  BY <1>4 DEF Stage, WellTyped, SettledTypes

LEMMA GiveWayTyped ==
    ASSUME WellTyped, GiveWay
    PROVE  act' \in Activations /\ staging' \in Changes /\ live' \in LiveSets
<1>0. act \in Activations /\ live \in LiveSets /\ staging \in Changes /\ off \in SUBSET Extensions
  BY DEF WellTyped, SettledTypes, TaskTypes
<1>1. GivingWay \in SUBSET Extensions
  BY AdmittedIs, CandTyped DEF WellTyped, RunningTypes, TaskTypes, Activations
<1>2. live' \in LiveSets
  BY <1>0 DEF GiveWay, LiveSets
<1>3. staging' \in Changes
  BY <1>0, NothingTyped DEF GiveWay
<1>4. Load(off, Applied(live', staging')) \in Snapshots
  BY <1>0, <1>2, <1>3, AppliedTyped, LoadTyped
<1>5. PICK raw \in Snapshots : raw = Load(off, Applied(live', staging'))
  BY <1>4
<1>6. PICK g \in SUBSET Extensions : g = act.gave \cup GivingWay
  BY <1>0, <1>1 DEF Activations
<1>7. PICK f : f = [e \in Extensions |-> IF e \in GivingWay THEN 0 ELSE act.failed[e]]
  OBVIOUS
<1>8. f \in [Extensions -> Nat]
  <2>1. act.failed \in [Extensions -> Nat]
    BY <1>0 DEF Activations
  <2> QED  BY <2>1, <1>7
<1>9. act' = [act EXCEPT !.gave = g, !.failed = f, !.raw = raw]
  BY <1>0, <1>5, <1>6, <1>7 DEF GiveWay, Activations
<1> QED  BY <1>0, <1>2, <1>3, <1>8, <1>9 DEF Activations

LEMMA AdmitTyped ==
    ASSUME WellTyped, Admit
    PROVE  act' \in Activations
<1>0. act \in Activations
  BY DEF WellTyped, TaskTypes
<1>1. Admitted \in Snapshots /\ Held \in SUBSET Extensions
  BY AdmittedIs, CandTyped DEF WellTyped, RunningTypes, TaskTypes, Activations
<1>2. PICK c \in Snapshots, h \in SUBSET Extensions : c = Admitted /\ h = Held
  BY <1>1
<1>3. act' = [act EXCEPT !.stage = "prepare", !.cand = c, !.held = h]
  BY <1>2 DEF Admit
<1> QED  BY <1>0, <1>3 DEF Activations

LEMMA TakeTyped ==
    ASSUME WellTyped, TakeBoundary
    PROVE  act' \in Activations /\ worker' \in Workers
<1>0. act \in Activations /\ choice \in LiveSets
  BY DEF WellTyped, TaskTypes, SettledTypes
<1>1. act' \in Activations
  BY <1>0 DEF TakeBoundary, Activations
<1>2. act.cand \in Snapshots /\ act.chosen \in LiveSets /\ act.change \in Changes
  BY <1>0 DEF Activations
<1>3. PICK n \in LiveSets : n = NewLive(act.cand, act.held \cup act.gave, act.chosen)
  BY <1>2, NewLiveTyped
<1>4. PICK c \in LiveSets : c = Applied(choice, act.change)
  BY <1>0, <1>2, AppliedTyped
<1>5. worker'.stage = "open" /\ worker'.cand = act.cand /\ worker'.live = n
      /\ worker'.choice \in {c, choice}
      /\ worker' = [stage |-> worker'.stage, cand |-> worker'.cand, live |-> worker'.live,
                    choice |-> worker'.choice]
  BY <1>3, <1>4 DEF TakeBoundary
<1> QED  BY <1>0, <1>1, <1>2, <1>5 DEF Workers

LEMMA InitTyped ==
    ASSUME ActivationInit
    PROVE  WellTyped
<1>1. SettledTypes
  BY NothingTyped DEF ActivationInit, SettledTypes
<1>2. RunningTypes
  BY NothingTyped DEF ActivationInit, RunningTypes
<1>3. TaskTypes
  BY NothingTyped DEF ActivationInit, TaskTypes
<1> QED  BY <1>1, <1>2, <1>3 DEF WellTyped

\* Every step keeps the types.
LEMMA TypesKept ==
    ASSUME WellTyped, [ActivationNext]_activationVars
    PROVE  WellTyped'
<1> USE DEF settingVars, liveVars, databaseVars, runningVars, taskVars, callerVars, countVars,
            historyVars
<1>0. /\ act \in Activations /\ worker \in Workers
      /\ boundary \in [active : Snapshots, unavailable : BOOLEAN]
  BY DEF WellTyped, RunningTypes, TaskTypes
<1>a. CASE BootStages
  BY <1>a, StageTyped, NothingTyped DEF BootStages, WellTyped, SettledTypes, RunningTypes, TaskTypes
<1>b. CASE OwnerStages
  BY <1>b, StageTyped, NothingTyped DEF OwnerStages, WellTyped, SettledTypes, RunningTypes, TaskTypes
<1>c. CASE DeployStages
  BY <1>c, StageTyped DEF DeployStages, WellTyped, SettledTypes, RunningTypes, TaskTypes
<1>d. CASE GiveWay
  BY <1>d, GiveWayTyped DEF GiveWay, WellTyped, SettledTypes, RunningTypes, TaskTypes
<1>e. CASE Admit
  BY <1>e, AdmitTyped DEF Admit, WellTyped, SettledTypes, RunningTypes, TaskTypes
<1>f. CASE PrepareRejected
  BY <1>f, EndsTyped DEF PrepareRejected, WellTyped, SettledTypes, RunningTypes, TaskTypes
<1>g. CASE Prepare
  <2>1. act' \in Activations
    BY <1>0, <1>g DEF Prepare, Activations
  <2> QED  BY <1>g, <2>1 DEF Prepare, WellTyped, SettledTypes, RunningTypes, TaskTypes
<1>h. CASE TakeBoundary
  BY <1>h, TakeTyped DEF TakeBoundary, WellTyped, SettledTypes, RunningTypes, TaskTypes
<1>i. ASSUME NEW problems \in SUBSET Extensions, PrepareHolds(problems)  PROVE WellTyped'
  BY <1>i, HoldsTyped DEF PrepareHolds, WellTyped, SettledTypes, RunningTypes, TaskTypes
<1>j. ASSUME NEW problems \in SUBSET Extensions, PublicationHolds(problems)  PROVE WellTyped'
  <2>1. worker' \in Workers /\ UNCHANGED <<settingVars, broken, vocabulary, runningVars, choice,
                                           overlapped, live, recorded>>
    BY <1>j, NothingTyped DEF PublicationHolds, WorkerEnds
  <2>2. CASE act.stage = "publish" /\ Holds(problems)
               /\ UNCHANGED <<staging, tries, deployer, phase, spoiled>>
    <3>1. act' \in Activations /\ slipped' \in BOOLEAN
      BY <1>j, <2>2, HoldsTyped
    <3> QED  BY <2>1, <2>2, <3>1 DEF WellTyped, SettledTypes, RunningTypes, TaskTypes
  <2>3. CASE slipped' = (slipped \/ live' # recorded')
               /\ UNCHANGED <<act, staging, tries, deployer, phase, spoiled>>
    BY <2>1, <2>3, OrphanTyped DEF WellTyped, SettledTypes, RunningTypes, TaskTypes
  <2> QED  BY <1>j, <2>2, <2>3 DEF PublicationHolds, WorkerEnds
<1>k. CASE PublicationRejected
  <2>1. worker' \in Workers
    BY <1>k, NothingTyped DEF PublicationRejected, WorkerEnds
  <2>2. CASE Ends("host")
    BY <1>k, <2>1, <2>2, EndsTyped
    DEF PublicationRejected, WellTyped, SettledTypes, RunningTypes, TaskTypes
  <2>3. CASE slipped' = (slipped \/ live' # recorded')
               /\ UNCHANGED <<act, staging, tries, deployer, phase, spoiled>>
    BY <1>k, <2>1, <2>3, OrphanTyped
    DEF PublicationRejected, WellTyped, SettledTypes, RunningTypes, TaskTypes
  <2> QED  BY <1>k, <2>2, <2>3 DEF PublicationRejected, WorkerEnds
<1>l. CASE Commit
  <2>1. worker' \in Workers
    BY <1>0, <1>l DEF Commit, Workers
  <2>2. boundary' \in [active : Snapshots, unavailable : BOOLEAN]
    BY <1>0, <1>l DEF Commit
  <2>3. recorded' \in LiveSets /\ vocabulary' \in Snapshots /\ choice' \in LiveSets
    BY <1>0, <1>l DEF Commit, Workers
  <2> QED  BY <1>l, <2>1, <2>2, <2>3 DEF Commit, WellTyped, SettledTypes, RunningTypes, TaskTypes
<1>m. CASE Swap
  <2>1. worker' \in Workers /\ live' \in LiveSets /\ catalog' \in Snapshots
    BY <1>0, <1>m DEF Swap, Workers
  <2> QED  BY <1>m, <2>1 DEF Swap, WellTyped, SettledTypes, RunningTypes, TaskTypes
<1>n. CASE OpenBoundary
  <2>1. worker' \in Workers
    BY <1>n, NothingTyped DEF OpenBoundary, WorkerEnds
  <2>2. boundary' \in [active : Snapshots, unavailable : BOOLEAN]
    BY <1>0, <1>n DEF OpenBoundary, Workers
  <2>3. CASE Ends("ok")
    BY <1>n, <2>1, <2>2, <2>3, EndsTyped
    DEF OpenBoundary, WellTyped, SettledTypes, RunningTypes, TaskTypes
  <2>4. CASE slipped' = (slipped \/ live' # recorded')
               /\ UNCHANGED <<act, staging, tries, deployer, phase, spoiled>>
    BY <1>n, <2>1, <2>2, <2>4, OrphanTyped
    DEF OpenBoundary, WellTyped, SettledTypes, RunningTypes, TaskTypes
  <2> QED  BY <1>n, <2>3, <2>4 DEF OpenBoundary, WorkerEnds
<1>o. CASE Panics
  <2>1. worker' \in Workers
    BY <1>o, NothingTyped DEF Panics, WorkerEnds
  <2>2. CASE Restages
    BY <1>o, <2>1, <2>2, RestagesTyped
    DEF Panics, WellTyped, SettledTypes, RunningTypes, TaskTypes
  <2>3. CASE slipped' = (slipped \/ live' # recorded')
               /\ UNCHANGED <<act, staging, tries, deployer, phase, spoiled>>
    BY <1>o, <2>1, <2>3, OrphanTyped
    DEF Panics, WellTyped, SettledTypes, RunningTypes, TaskTypes
  <2> QED  BY <1>o, <2>2, <2>3 DEF Panics, WorkerEnds
<1>p. CASE StorageFails
  <2>1. worker' \in Workers
    BY <1>p, NothingTyped DEF StorageFails, WorkerEnds
  <2>2. CASE Restages
    BY <1>p, <2>1, <2>2, RestagesTyped
    DEF StorageFails, WellTyped, SettledTypes, RunningTypes, TaskTypes
  <2>3. CASE Ends("failed")
    BY <1>p, <2>1, <2>3, EndsTyped
    DEF StorageFails, WellTyped, SettledTypes, RunningTypes, TaskTypes
  <2>4. CASE slipped' = (slipped \/ live' # recorded')
               /\ UNCHANGED <<act, staging, tries, deployer, phase, spoiled>>
    BY <1>p, <2>1, <2>4, OrphanTyped
    DEF StorageFails, WellTyped, SettledTypes, RunningTypes, TaskTypes
  <2> QED  BY <1>p, <2>2, <2>3, <2>4 DEF StorageFails, WorkerEnds
<1>w. CASE CommitFails
  <2>1. worker' \in Workers
    BY <1>0, <1>w, NothingTyped DEF CommitFails, WorkerEnds
  <2>2. boundary' \in [active : Snapshots, unavailable : BOOLEAN] /\ lifted' \in BOOLEAN
    BY <1>0, <1>w DEF CommitFails, WellTyped, RunningTypes
  <2>3. CASE Ends("failed")
    BY <1>w, <2>1, <2>2, <2>3, EndsTyped
    DEF CommitFails, WellTyped, SettledTypes, RunningTypes, TaskTypes
  <2>4. CASE slipped' = (slipped \/ live' # recorded')
               /\ UNCHANGED <<act, staging, tries, deployer, phase, spoiled>>
    BY <1>w, <2>1, <2>2, <2>4, OrphanTyped
    DEF CommitFails, WellTyped, SettledTypes, RunningTypes, TaskTypes
  <2>5. CASE UNCHANGED <<taskVars, staging, callerVars, slipped, spoiled>>
    BY <1>w, <2>1, <2>2, <2>5
    DEF CommitFails, WellTyped, SettledTypes, RunningTypes, TaskTypes
  <2> QED  BY <1>w, <2>3, <2>4, <2>5 DEF CommitFails, WorkerEnds
<1>q. CASE Pin \/ Unpin \/ Told \/ Spawn
  BY <1>q DEF Pin, Unpin, Told, Spawn, WellTyped, SettledTypes, RunningTypes, TaskTypes
<1>r. ASSUME NEW change \in Changes, Deploy(change)  PROVE WellTyped'
  BY <1>r DEF Deploy, WellTyped, SettledTypes, RunningTypes, TaskTypes
<1>s. CASE CallerGoes
  BY <1>s, NothingTyped DEF CallerGoes, WellTyped, SettledTypes, RunningTypes, TaskTypes
<1>t. ASSUME NEW e \in Extensions, Toggle(e)  PROVE WellTyped'
  BY <1>t DEF Toggle, WellTyped, SettledTypes, RunningTypes, TaskTypes
<1>u. CASE Restart
  BY <1>u, NothingTyped DEF Restart, WellTyped, SettledTypes, RunningTypes, TaskTypes
<1>v. CASE UNCHANGED activationVars
  BY <1>v DEF activationVars, WellTyped, SettledTypes, RunningTypes, TaskTypes
<1> QED
  BY <1>a, <1>b, <1>c, <1>d, <1>e, <1>f, <1>g, <1>h, <1>i, <1>j, <1>k, <1>l, <1>m, <1>n, <1>o,
     <1>p, <1>q, <1>r, <1>s, <1>t, <1>u, <1>v, <1>w DEF ActivationNext
-----------------------------------------------------------------------------
(* Readers: what a pin finds is one generation.                            *)

OneGeneration == vocabulary = catalog /\ catalog = boundary.active

\* The boundary is marked from the commit on, and only the end of a worker or
\* of the process takes the mark away, or a later commit that fails, which then
\* is remembered; before the boot has published, nobody reads.
BoundaryInv ==
    /\ pinned => worker.stage = "none" /\ (lifted \/ OneGeneration)
    /\ phase \in {"booted", "up"} /\ ~boundary.unavailable => lifted \/ OneGeneration
    /\ worker.stage \in {"committed", "swapped"} =>
         boundary.unavailable /\ vocabulary = worker.cand
    /\ worker.stage = "swapped" => catalog = worker.cand

\* Steps that neither publish nor read.
LEMMA BoundaryUntouched ==
    ASSUME BoundaryInv, UNCHANGED <<vocabulary, catalog, boundary, pinned, lifted>>,
           worker' = worker \/ worker'.stage = "none",
           phase' = phase \/ phase' = "down"
    PROVE  BoundaryInv'
  BY DEF BoundaryInv, OneGeneration

\* An activation that fails leaves the phase, or nothing to read.
LEMMA FailureLeavesPhase ==
    ASSUME NEW outcome, outcome # "ok", Ends(outcome)
    PROVE  phase' = phase \/ phase' = "down"
  BY DEF Ends

LEMMA BoundaryKept ==
    ASSUME WellTyped, BoundaryInv, [ActivationNext]_activationVars
    PROVE  BoundaryInv'
<1> USE DEF settingVars, liveVars, databaseVars, runningVars, taskVars, callerVars, countVars,
            historyVars
<1>0. worker \in Workers /\ boundary \in [active : Snapshots, unavailable : BOOLEAN]
  BY DEF WellTyped, RunningTypes, TaskTypes
<1>a. CASE BootStages \/ OwnerStages \/ DeployStages \/ GiveWay \/ Admit \/ Prepare
  BY <1>a, BoundaryUntouched
  DEF BootStages, OwnerStages, DeployStages, GiveWay, Admit, Prepare
<1>b. CASE PrepareRejected
  BY <1>b, BoundaryUntouched, FailureLeavesPhase DEF PrepareRejected
<1>c. CASE TakeBoundary
  <2>1. worker.stage = "none" /\ ~pinned /\ worker'.stage = "open"
    BY <1>c DEF TakeBoundary
  <2>2. UNCHANGED <<vocabulary, catalog, boundary, pinned, lifted, phase>>
    BY <1>c DEF TakeBoundary
  <2> QED  BY <2>1, <2>2 DEF BoundaryInv, OneGeneration
<1>d. ASSUME NEW problems \in SUBSET Extensions, PrepareHolds(problems)
      PROVE  BoundaryInv'
  BY <1>d, BoundaryUntouched DEF PrepareHolds
<1>e. ASSUME NEW problems \in SUBSET Extensions, PublicationHolds(problems)
      PROVE  BoundaryInv'
  <2>1. worker'.stage = "none" /\ phase' = phase
    BY <1>e DEF PublicationHolds, WorkerEnds, NoWorker
  <2> QED  BY <1>e, <2>1, BoundaryUntouched DEF PublicationHolds
<1>f. CASE PublicationRejected
  <2>1. worker'.stage = "none" /\ (phase' = phase \/ phase' = "down")
    BY <1>f, FailureLeavesPhase DEF PublicationRejected, WorkerEnds, NoWorker
  <2> QED  BY <1>f, <2>1, BoundaryUntouched DEF PublicationRejected
<1>g. CASE Commit
  <2>1. worker'.stage = "committed" /\ worker'.cand = worker.cand
    BY <1>0, <1>g DEF Commit, Workers
  <2>2. boundary'.unavailable /\ ~pinned' /\ vocabulary' = worker.cand
    BY <1>0, <1>g DEF Commit, BoundaryInv
  <2> QED  BY <2>1, <2>2 DEF BoundaryInv
<1>h. CASE Swap
  <2>1. worker'.stage = "swapped" /\ worker'.cand = worker.cand
    BY <1>0, <1>h DEF Swap, Workers
  <2>2. boundary'.unavailable /\ ~pinned' /\ vocabulary' = worker.cand /\ catalog' = worker.cand
    BY <1>h DEF Swap, BoundaryInv
  <2> QED  BY <2>1, <2>2 DEF BoundaryInv
<1>i. CASE OpenBoundary
  <2>1. worker'.stage = "none" /\ OneGeneration'
    BY <1>i DEF OpenBoundary, WorkerEnds, NoWorker, BoundaryInv, OneGeneration
  <2> QED  BY <2>1 DEF BoundaryInv
<1>j. CASE Panics
  <2>1. worker'.stage = "none" /\ (phase' = phase \/ phase' = "down")
    BY <1>j, FailureLeavesPhase DEF Panics, WorkerEnds, NoWorker, Restages
  <2> QED  BY <1>j, <2>1, BoundaryUntouched DEF Panics
<1>k. CASE StorageFails
  <2>1. worker'.stage = "none" /\ (phase' = phase \/ phase' = "down")
    BY <1>k, FailureLeavesPhase DEF StorageFails, WorkerEnds, NoWorker, Restages
  <2> QED  BY <1>k, <2>1, BoundaryUntouched DEF StorageFails
<1>u. CASE CommitFails
  <2>1. worker.stage = "open" /\ ~pinned /\ UNCHANGED <<vocabulary, catalog, pinned>>
    BY <1>u DEF CommitFails, BoundaryInv
  <2>2. boundary'.active = boundary.active /\ lifted' = (lifted \/ boundary.unavailable)
    BY <1>0, <1>u DEF CommitFails
  <2>3. worker'.stage \in {"none", "open"} /\ (phase' = phase \/ phase' = "down")
    BY <1>u, <2>1, FailureLeavesPhase
    DEF CommitFails, WorkerEnds, NoWorker
  <2>4. phase' \in {"booted", "up"} => lifted' \/ OneGeneration'
    BY <2>1, <2>2, <2>3 DEF BoundaryInv, OneGeneration
  <2> QED  BY <2>1, <2>3, <2>4 DEF BoundaryInv
<1>l. CASE Pin
  BY <1>l DEF Pin, BoundaryInv, OneGeneration
<1>m. CASE Unpin
  BY <1>m DEF Unpin, BoundaryInv, OneGeneration
<1>n. ASSUME NEW change \in Changes, Deploy(change)  PROVE BoundaryInv'
  BY <1>n, BoundaryUntouched DEF Deploy
<1>o. CASE CallerGoes
  BY <1>o, BoundaryUntouched DEF CallerGoes
<1>p. ASSUME NEW e \in Extensions, Toggle(e)  PROVE BoundaryInv'
  BY <1>p, BoundaryUntouched DEF Toggle
<1>q. CASE Told
  BY <1>q, BoundaryUntouched DEF Told
<1>r. CASE Spawn
  BY <1>r DEF Spawn, BoundaryInv, OneGeneration
<1>s. CASE Restart
  BY <1>s DEF Restart, BoundaryInv, NoWorker
<1>t. CASE UNCHANGED activationVars
  BY <1>t, BoundaryUntouched DEF activationVars
<1> QED
  BY <1>a, <1>b, <1>c, <1>d, <1>e, <1>f, <1>g, <1>h, <1>i, <1>j, <1>k, <1>l, <1>m, <1>n, <1>o,
     <1>p, <1>q, <1>r, <1>s, <1>t, <1>u DEF ActivationNext

\* Whoever holds a pin finds one generation in the database, in the maps and
\* in the boundary (pin_as refuses readers while the boundary is marked), unless
\* a commit that failed took away the mark of an earlier panic.
THEOREM ReadersSeeOneGeneration == ActivationSpec => []PinnedSeesOne
<1>1. ActivationInit => WellTyped /\ BoundaryInv
  <2>1. ActivationInit => phase = "boot" /\ ~pinned /\ worker.stage = "none"
    BY DEF ActivationInit, NoWorker
  <2> QED  BY <2>1, InitTyped DEF BoundaryInv
<1>2. WellTyped /\ BoundaryInv /\ [ActivationNext]_activationVars => (WellTyped /\ BoundaryInv)'
  BY TypesKept, BoundaryKept
<1>3. BoundaryInv => PinnedSeesOne
  BY DEF BoundaryInv, PinnedSeesOne, OneGeneration
<1> QED  BY <1>1, <1>2, <1>3, PTL DEF ActivationSpec
-----------------------------------------------------------------------------
(* What an activation knows of its own: the state of its record, as        *)
(* relations between it, what is live and what runs.                       *)

Asked(a) == Applied(a.chosen, a.change)
Kept(a) == a.held \cup a.gave
Ran(a) == a.change # NoChange /\ a.change[1] \notin Kept(a)

\* What stays chosen once it is published.
Target(a) == IF Ran(a) THEN Asked(a) ELSE a.chosen

\* Where no deployment is live, none runs.
Fits(map, cat) == \A e \in Extensions : map[e] = NoVersion => cat.version[e] \notin Versions

\* The candidate is what is admitted of what was loaded, and stays so when it
\* has been published.
AdmittedAs(a, cat, br) ==
    /\ a.cand = CandOf(a.raw, a.failed, cat, br)
    /\ a.held = HeldOf(a.raw, a.failed, cat, br)
    /\ YieldingOf(a.raw, a.failed, cat, br) = {}

RawLoaded(raw) ==
    /\ raw.on = {e \in Extensions \ raw.source[1] : raw.version[e] # NoVersion}
    /\ \A e \in Ships : raw.version[e] # NoVersion

\* What is still staged of the change.
StagingLeft(a, st) ==
    st = IF a.change # NoChange /\ a.change[1] \notin a.gave THEN a.change ELSE NoChange

\* What is loaded and live until the activation publishes: what was asked for
\* and chosen, but for what gave way.
Exact(a, lv) ==
    \A e \in Extensions :
        IF e \in a.gave THEN lv[e] = NoVersion /\ a.raw.version[e] \notin Versions
        ELSE /\ lv[e] = a.chosen[e]
             /\ IF Asked(a)[e] = NoVersion THEN a.raw.version[e] \notin Versions
                ELSE a.raw.version[e] = Asked(a)[e]

\* What is left of that once it has.
Loose(a, lv, st) ==
    \A e \in Extensions :
        /\ e \notin a.gave /\ Asked(a)[e] # NoVersion =>
             a.raw.version[e] = Asked(a)[e] /\ Applied(lv, st)[e] = Asked(a)[e]
        /\ a.raw.version[e] \in Versions => Applied(lv, st)[e] = a.raw.version[e]

\* What failed has been tried, version by version.
TriedSo(a, cat, br) ==
    \A e \in Extensions :
        /\ e \in a.gave =>
             /\ e \in Ships
             /\ \/ Asked(a)[e] = NoVersion \/ <<e, Asked(a)[e]>> \in br \cup a.tried
                \/ Requires[e] # {}
        /\ a.failed[e] > 0 /\ Asked(a)[e] # NoVersion /\ e \notin a.gave =>
             <<e, Asked(a)[e]>> \in br \cup a.tried
        /\ a.failed[e] > 0 /\ a.raw.version[e] = Shipped => <<e, Shipped>> \in a.tried
        /\ a.failed[e] > 1 /\ e \in cat.on => <<e, cat.version[e]>> \in a.tried

-----------------------------------------------------------------------------
(* Nothing runs without what it requires, and nothing is out in vain.      *)

Closed(on) == \A e \in on : Requires[e] \subseteq on

ClosedInv == Closed(act.cand.on) /\ Closed(worker.cand.on) /\ Closed(catalog.on)

\* An activation publishes with a worker of its own, and none runs beside it
\* otherwise, unless activations overlapped.
OwnWorker ==
    /\ act.stage = "publish" => worker.stage # "none" /\ worker.cand = act.cand
    /\ ~overlapped /\ act.stage \in {"admit", "prepare", "boundary"} => worker.stage = "none"

\* Before a worker has published the activation's own candidate.
Before(a, w) == a.stage # "publish" \/ w.stage \in {"open", "committed"}

AskedFor(a, w, lv, st, cat, br) ==
    /\ RawLoaded(a.raw)
    /\ StagingLeft(a, st)
    /\ Before(a, w) => Exact(a, lv) \/ (a.restaged /\ Loose(a, lv, st))
    /\ ~Before(a, w) /\ ~a.restaged => Loose(a, lv, st)
    /\ a.stage = "publish" /\ w.stage \in {"open", "committed"} =>
         w.live = NewLive(a.cand, Kept(a), a.chosen)
    /\ a.stage # "admit" => AdmittedAs(a, cat, br)
    /\ TriedSo(a, cat, br)

AskedInv ==
    ~overlapped /\ act.stage # "none" => AskedFor(act, worker, live, staging, catalog, broken)

-----------------------------------------------------------------------------
(* What was chosen stays chosen.                                           *)

LiveFrom(a, lv) ==
    \A e \in Extensions :
        IF e \in a.gave THEN a.chosen[e] = NoVersion => lv[e] = NoVersion
        ELSE lv[e] = a.chosen[e]

RawFits(a) ==
    \A e \in Extensions :
        IF e \in a.gave THEN a.chosen[e] = NoVersion => a.raw.version[e] \notin Versions
        ELSE IF Asked(a)[e] = NoVersion THEN a.raw.version[e] \notin Versions
             ELSE a.raw.version[e] = Asked(a)[e]

\* Nothing of the activation has changed what runs.
Untouched(a, lv, cat) == Fits(a.chosen, cat) /\ LiveFrom(a, lv)

\* Its change was committed once, before a panic, and is staged again.
Again(a, ch, cat, br) ==
    /\ a.restaged /\ Ran(a) /\ ch = Asked(a)
    /\ NewLive(a.cand, Kept(a), a.chosen) = Target(a)
    /\ AdmittedAs(a, cat, br)

\* The record of an activation and its worker, before the commit and after.
ChosenFor(a, w, lv, ch, cat, br) ==
    /\ RawFits(a)
    /\ a.stage # "admit" => NewLive(a.cand, Kept(a), a.chosen) = Target(a)
    /\ a.stage # "publish" \/ w.stage = "open" =>
         (ch = a.chosen /\ Untouched(a, lv, cat)) \/ Again(a, ch, cat, br)
    /\ a.stage = "publish" /\ w.stage = "open" => w.live = Target(a)
    /\ a.stage = "publish" /\ w.stage # "open" =>
         /\ ch = Target(a)
         /\ w.stage = "committed" => w.live = Target(a)
         /\ w.stage = "committed" /\ ~a.restaged => Untouched(a, lv, cat)
         /\ w.stage = "swapped" => lv = Target(a) /\ cat = a.cand

\* What is recorded is what was chosen.  Where that is live already, nothing
\* of a deployment runs without one being live; a worker commits what was
\* chosen, and what it leaves live fits what it leaves running.
Chosen(w, a, lv, rec, ch, cat) ==
    /\ rec = ch
    /\ lv = rec => Fits(lv, cat)
    /\ a.stage = "none" /\ w.stage = "none" => lv = rec
    /\ w.stage = "open" => w.live = w.choice /\ (w.live = lv => Fits(lv, cat))
    /\ w.stage \in {"open", "committed"} => Fits(w.live, w.cand)

ChosenInv ==
    ~slipped /\ ~overlapped =>
        /\ Chosen(worker, act, live, recorded, choice, catalog)
        /\ act.stage # "none" => ChosenFor(act, worker, live, choice, catalog, broken)

-----------------------------------------------------------------------------
(* Lemmas on what is admitted.                                             *)

\* What of the candidate can load runs as loaded; what cannot keeps its last
\* version, once more.
LEMMA CandidateOf ==
    ASSUME NEW raw \in Snapshots, NEW failed \in [Extensions -> Nat], NEW cat \in Snapshots,
           NEW br, NEW e \in Extensions
    PROVE  /\ e \in OnOf(raw, failed, cat, br) => e \in raw.on
           /\ e \in OnOf(raw, failed, cat, br) /\ e \notin Failing(raw, failed, br) =>
                CandOf(raw, failed, cat, br).version[e] = raw.version[e]
           /\ e \in OnOf(raw, failed, cat, br) /\ e \in Failing(raw, failed, br) =>
                /\ CandOf(raw, failed, cat, br).version[e] = cat.version[e]
                /\ e \in cat.on /\ failed[e] < 2
           /\ e \in Failing(raw, failed, br) /\ e \in cat.on /\ failed[e] < 2 =>
                e \in Able(raw, failed, cat, br)
           /\ CandOf(raw, failed, cat, br).on = OnOf(raw, failed, cat, br)
<1>1. OnOf(raw, failed, cat, br) \subseteq Able(raw, failed, cat, br)
  BY RequirementsMet DEF OnOf
<1>2. Able(raw, failed, cat, br) \subseteq raw.on
  BY DEF Able
<1>3. /\ CandOf(raw, failed, cat, br).version = VersionOf(raw, failed, cat, br)
      /\ CandOf(raw, failed, cat, br).on = OnOf(raw, failed, cat, br)
  BY DEF CandOf
<1>4. e \in OnOf(raw, failed, cat, br) =>
        VersionOf(raw, failed, cat, br)[e] =
          IF e \in Keeping(raw, failed, cat, br) THEN cat.version[e]
          ELSE IF e \in Failing(raw, failed, br) THEN NoVersion ELSE raw.version[e]
  BY DEF VersionOf
<1>5. Keeping(raw, failed, cat, br) = {x \in Failing(raw, failed, br) \cap cat.on : failed[x] < 2}
  BY DEF Keeping
<1>6. Failing(raw, failed, br) \subseteq raw.on
  BY DEF Failing
<1> QED  BY <1>1, <1>2, <1>3, <1>4, <1>5, <1>6 DEF Able

\* Admitting again what runs admits the same.
LEMMA AdmittedAgain ==
    ASSUME NEW raw \in Snapshots, NEW failed \in [Extensions -> Nat], NEW cat \in Snapshots,
           NEW br, NEW cand \in Snapshots, cand = CandOf(raw, failed, cat, br)
    PROVE  /\ CandOf(raw, failed, cand, br) = cand
           /\ HeldOf(raw, failed, cand, br) = HeldOf(raw, failed, cat, br)
           /\ YieldingOf(raw, failed, cand, br) = YieldingOf(raw, failed, cat, br)
<1> DEFINE F == Failing(raw, failed, br)
           on == OnOf(raw, failed, cat, br)
           A == Able(raw, failed, cat, br)
           B == Able(raw, failed, cand, br)
           K == Keeping(raw, failed, cat, br)
           J == Keeping(raw, failed, cand, br)
<1>1. cand.on = on /\ cand.version = VersionOf(raw, failed, cat, br) /\ cand.source = raw.source
  BY DEF CandOf
<1>2. on \subseteq A /\ Closed(on) /\ \A s \in SUBSET A : Closed(s) => s \subseteq on
  BY RequirementsMet DEF OnOf, Closed
<1>3. /\ OnOf(raw, failed, cand, br) \subseteq B /\ Closed(OnOf(raw, failed, cand, br))
      /\ \A s \in SUBSET B : Closed(s) => s \subseteq OnOf(raw, failed, cand, br)
  BY RequirementsMet DEF OnOf, Closed
<1>4. A = raw.on \ (F \ K) /\ B = raw.on \ (F \ J)
  BY DEF Able
<1>5. K = {e \in F \cap cat.on : failed[e] < 2} /\ J = {e \in F \cap on : failed[e] < 2}
  BY <1>1 DEF Keeping
<1> HIDE DEF F, on, A, B, K, J
<1>6. J = K \cap on
  BY <1>2, <1>4, <1>5
<1>7. B \subseteq A /\ on \subseteq B
  BY <1>2, <1>4, <1>6
<1>8. OnOf(raw, failed, cand, br) = on
  BY <1>2, <1>3, <1>7
<1>9. \A e \in Extensions :
        VersionOf(raw, failed, cand, br)[e] = VersionOf(raw, failed, cat, br)[e]
  <2> SUFFICES ASSUME NEW e \in Extensions
               PROVE  VersionOf(raw, failed, cand, br)[e] = VersionOf(raw, failed, cat, br)[e]
    OBVIOUS
  <2>1. VersionOf(raw, failed, cand, br)[e] =
          IF e \in raw.on \ on THEN NoVersion
          ELSE IF e \in J THEN cand.version[e]
          ELSE IF e \in F THEN NoVersion ELSE raw.version[e]
    BY <1>8 DEF VersionOf, J, F
  <2>2. VersionOf(raw, failed, cat, br)[e] =
          IF e \in raw.on \ on THEN NoVersion
          ELSE IF e \in K THEN cat.version[e]
          ELSE IF e \in F THEN NoVersion ELSE raw.version[e]
    BY DEF VersionOf, K, F, on
  <2>3. F \subseteq raw.on
    BY DEF F, Failing
  <2>4. K \subseteq F
    BY <1>5
  <2> QED  BY <1>1, <1>6, <2>1, <2>2, <2>3, <2>4
<1>10. VersionOf(raw, failed, cand, br) = VersionOf(raw, failed, cat, br)
  BY <1>9 DEF VersionOf
<1>11. CandOf(raw, failed, cand, br) = cand
  BY <1>8, <1>10 DEF CandOf, on
<1> QED  BY <1>8, <1>11 DEF HeldOf, YieldingOf, on
-----------------------------------------------------------------------------
(* Lemmas on what becomes live.                                            *)

LEMMA NewLiveOf ==
    ASSUME NEW cand, NEW kept, NEW chosen, NEW e \in Extensions
    PROVE  NewLive(cand, kept, chosen)[e] =
             IF e \in kept /\ chosen[e] # NoVersion THEN chosen[e]
             ELSE IF cand.version[e] \in Versions THEN cand.version[e] ELSE NoVersion
  BY DEF NewLive

\* Where the new live set has no deployment, the candidate runs none.
LEMMA NewLiveFits ==
    ASSUME NEW cand, NEW kept, NEW chosen
    PROVE  Fits(NewLive(cand, kept, chosen), cand)
  BY VersionsNamed, NewLiveOf DEF Fits

\* The change a record is about, element by element.
LEMMA AskedOf ==
    ASSUME NEW a \in Activations
    PROVE  /\ Asked(a) \in LiveSets /\ a.chosen \in LiveSets /\ a.change \in Changes
           /\ a.change = NoChange => Asked(a) = a.chosen
           /\ a.change # NoChange => a.change[1] \in Extensions
           /\ \A e \in Extensions :
                a.change = NoChange \/ e # a.change[1] => Asked(a)[e] = a.chosen[e]
<1>1. a.chosen \in LiveSets /\ a.change \in Changes
  BY DEF Activations
<1> QED  BY <1>1, AppliedTyped DEF Asked

\* What is not held back runs as loaded, or not at all.
LEMMA FreeVersion ==
    ASSUME NEW a \in Activations, NEW cat \in Snapshots, NEW br, AdmittedAs(a, cat, br),
           NEW e \in Extensions, e \notin a.held
    PROVE  a.cand.version[e] = a.raw.version[e]
<1>1. e \notin Failing(a.raw, a.failed, br)
      /\ e \notin a.raw.on \ OnOf(a.raw, a.failed, cat, br)
  BY DEF AdmittedAs, HeldOf
<1>2. e \notin Keeping(a.raw, a.failed, cat, br)
  BY <1>1 DEF Keeping
<1>3. VersionOf(a.raw, a.failed, cat, br)[e] = a.raw.version[e]
  BY <1>1, <1>2 DEF VersionOf
<1> QED  BY <1>3 DEF AdmittedAs, CandOf

\* What is held back runs its last version or none, or as loaded if it is off.
LEMMA HeldVersion ==
    ASSUME NEW a \in Activations, NEW cat \in Snapshots, NEW br, AdmittedAs(a, cat, br),
           NEW e \in Extensions
    PROVE  a.cand.version[e] \in {a.raw.version[e], cat.version[e], NoVersion}
           /\ (e \in a.held => a.cand.version[e] \in {cat.version[e], NoVersion})
<1>1. VersionOf(a.raw, a.failed, cat, br)[e] = a.cand.version[e]
  BY DEF AdmittedAs, CandOf
<1>2. e \in a.held => e \in Failing(a.raw, a.failed, br)
                      \/ e \in a.raw.on \ OnOf(a.raw, a.failed, cat, br)
  BY DEF AdmittedAs, HeldOf
<1> QED  BY <1>1, <1>2 DEF VersionOf

\* What the activation publishes as live is what stays chosen.
LEMMA LiveIsTarget ==
    ASSUME NEW a \in Activations, NEW cat \in Snapshots, NEW br,
           RawFits(a), AdmittedAs(a, cat, br), Fits(a.chosen, cat)
    PROVE  NewLive(a.cand, Kept(a), a.chosen) = Target(a)
<1> DEFINE N == NewLive(a.cand, Kept(a), a.chosen)
<1>0. /\ Asked(a) \in LiveSets /\ a.chosen \in LiveSets
      /\ a.cand \in Snapshots /\ a.gave \in SUBSET Extensions
  BY AskedOf DEF Activations
<1>1. N \in LiveSets
  BY <1>0, NewLiveTyped
<1>2. Target(a) \in LiveSets
  BY <1>0 DEF Target
<1>3. \A e \in Extensions : N[e] = Target(a)[e]
  <2> SUFFICES ASSUME NEW e \in Extensions  PROVE N[e] = Target(a)[e]
    OBVIOUS
  <2>0. a.chosen[e] \in {NoVersion} \cup Versions /\ Asked(a)[e] \in {NoVersion} \cup Versions
    BY <1>0 DEF LiveSets
  <2>1. N[e] = IF e \in Kept(a) /\ a.chosen[e] # NoVersion THEN a.chosen[e]
               ELSE IF a.cand.version[e] \in Versions THEN a.cand.version[e] ELSE NoVersion
    BY NewLiveOf
  <2> HIDE DEF N
  <2>2. CASE e \in Kept(a)
    <3>1. Target(a)[e] = a.chosen[e]
      BY <2>2, AskedOf DEF Target, Ran
    <3>2. a.chosen[e] = NoVersion => a.cand.version[e] \notin Versions
      <4> SUFFICES ASSUME a.chosen[e] = NoVersion  PROVE a.cand.version[e] \notin Versions
        OBVIOUS
      <4>1. cat.version[e] \notin Versions
        BY DEF Fits
      <4>2. CASE e \in a.held
        BY <4>1, <4>2, HeldVersion, VersionsNamed
      <4>3. CASE e \in a.gave
        <5>1. a.raw.version[e] \notin Versions
          BY <4>3 DEF RawFits
        <5> QED  BY <4>1, <5>1, HeldVersion, VersionsNamed
      <4> QED  BY <2>2, <4>2, <4>3 DEF Kept
    <3> QED  BY <2>1, <2>2, <3>1, <3>2
  <2>3. CASE e \notin Kept(a)
    <3>1. Target(a)[e] = Asked(a)[e]
      BY <2>3, AskedOf DEF Target, Ran
    <3>2. a.cand.version[e] = a.raw.version[e]
      BY <2>3, FreeVersion DEF Kept
    <3>3. IF Asked(a)[e] = NoVersion THEN a.raw.version[e] \notin Versions
          ELSE a.raw.version[e] = Asked(a)[e]
      BY <2>3 DEF RawFits, Kept
    <3> QED  BY <2>0, <2>1, <2>3, <3>1, <3>2, <3>3
  <2> QED  BY <2>2, <2>3
<1> QED  BY <1>1, <1>2, <1>3 DEF LiveSets

\* If that is live already, nothing of a deployment runs where none is live.
LEMMA TargetFits ==
    ASSUME NEW a \in Activations, NEW cat, NEW lv, Untouched(a, lv, cat), lv = Target(a)
    PROVE  Fits(lv, cat)
<1> SUFFICES ASSUME NEW e \in Extensions, lv[e] = NoVersion
             PROVE  a.chosen[e] = NoVersion
  BY DEF Untouched, Fits
<1>1. CASE e \in a.gave
  BY <1>1, AskedOf DEF Target, Ran, Kept
<1>2. CASE e \notin a.gave
  BY <1>2 DEF Untouched, LiveFrom
<1> QED  BY <1>1, <1>2

LEMMA ExactWeakens ==
    ASSUME NEW a \in Activations, NEW lv \in LiveSets, NEW st \in Changes, Exact(a, lv),
           StagingLeft(a, st)
    PROVE  LiveFrom(a, lv) /\ RawFits(a) /\ Loose(a, lv, st)
<1>1. LiveFrom(a, lv) /\ RawFits(a)
  BY DEF Exact, LiveFrom, RawFits
<1>2. ASSUME NEW e \in Extensions
      PROVE  Applied(lv, st)[e] = IF e \in a.gave THEN NoVersion ELSE Asked(a)[e]
  <2>1. CASE a.change # NoChange /\ a.change[1] \notin a.gave
    <3>1. st = a.change
      BY <2>1 DEF StagingLeft
    <3>2. CASE e = a.change[1]
      BY <2>1, <3>1, <3>2, AppliedTyped, AskedOf DEF Asked
    <3>3. CASE e # a.change[1]
      BY <2>1, <3>1, <3>3, AppliedTyped, AskedOf DEF Exact
    <3> QED  BY <3>2, <3>3
  <2>2. CASE ~(a.change # NoChange /\ a.change[1] \notin a.gave)
    <3>1. st = NoChange
      BY <2>2 DEF StagingLeft
    <3>2. Applied(lv, st)[e] = lv[e]
      BY <3>1, AppliedTyped
    <3>3. e \notin a.gave => Asked(a)[e] = a.chosen[e]
      BY <2>2, AskedOf
    <3> QED  BY <3>2, <3>3 DEF Exact
  <2> QED  BY <2>1, <2>2
<1>3. Loose(a, lv, st)
  <2> SUFFICES ASSUME NEW e \in Extensions
               PROVE  /\ e \notin a.gave /\ Asked(a)[e] # NoVersion =>
                           a.raw.version[e] = Asked(a)[e] /\ Applied(lv, st)[e] = Asked(a)[e]
                      /\ a.raw.version[e] \in Versions => Applied(lv, st)[e] = a.raw.version[e]
    BY DEF Loose
  <2> QED  BY <1>2 DEF Exact
<1> QED  BY <1>1, <1>3
\* What is live once it has published still gives what was asked for.
LEMMA PublishedLoose ==
    ASSUME NEW a \in Activations, NEW lv \in LiveSets, NEW st \in Changes,
           NEW cat \in Snapshots, NEW br,
           Exact(a, lv), StagingLeft(a, st), AdmittedAs(a, cat, br)
    PROVE  Loose(a, NewLive(a.cand, Kept(a), a.chosen), st)
<1> DEFINE N == NewLive(a.cand, Kept(a), a.chosen)
<1>0. N \in LiveSets /\ Loose(a, lv, st)
  BY NewLiveTyped, ExactWeakens DEF Activations
<1>1. \A e \in Extensions :
        N[e] = IF e \in Kept(a) /\ a.chosen[e] # NoVersion THEN a.chosen[e]
               ELSE IF a.cand.version[e] \in Versions THEN a.cand.version[e] ELSE NoVersion
  BY NewLiveOf
<1> HIDE DEF N
<1> SUFFICES ASSUME NEW e \in Extensions
             PROVE  /\ e \notin a.gave /\ Asked(a)[e] # NoVersion =>
                         a.raw.version[e] = Asked(a)[e] /\ Applied(N, st)[e] = Asked(a)[e]
                    /\ a.raw.version[e] \in Versions => Applied(N, st)[e] = a.raw.version[e]
  BY DEF Loose, N
<1>2. /\ e \notin a.gave /\ Asked(a)[e] # NoVersion =>
           a.raw.version[e] = Asked(a)[e] /\ Applied(lv, st)[e] = Asked(a)[e]
      /\ a.raw.version[e] \in Versions => Applied(lv, st)[e] = a.raw.version[e]
  BY <1>0 DEF Loose
<1>3. CASE st # NoChange /\ e = st[1]
  <2>1. Applied(N, st)[e] = Applied(lv, st)[e]
    BY <1>0, <1>3, AppliedTyped
  <2> QED  BY <1>2, <2>1
<1>4. CASE ~(st # NoChange /\ e = st[1])
  <2>1. Applied(N, st)[e] = N[e]
    BY <1>0, <1>4, AppliedTyped
  <2>2. e \in a.gave => a.raw.version[e] \notin Versions
    BY DEF Exact
  <2>3. e \notin a.gave => Asked(a)[e] = a.chosen[e]
    BY <1>4, AskedOf DEF StagingLeft
  <2>4. e \notin a.gave =>
          IF Asked(a)[e] = NoVersion THEN a.raw.version[e] \notin Versions
          ELSE a.raw.version[e] = Asked(a)[e]
    BY DEF Exact
  <2>5. e \notin Kept(a) => a.cand.version[e] = a.raw.version[e]
    BY FreeVersion DEF Kept
  <2>6. Asked(a)[e] \in {NoVersion} \cup Versions
    BY AskedOf DEF LiveSets
  <2>7. SUFFICES ASSUME e \notin a.gave, Asked(a)[e] # NoVersion
                 PROVE  N[e] = Asked(a)[e]
    BY <2>1, <2>2, <2>4, VersionsNamed
  <2>8. a.chosen[e] = Asked(a)[e] /\ a.raw.version[e] = Asked(a)[e] /\ Asked(a)[e] \in Versions
    BY <2>3, <2>4, <2>6, <2>7
  <2> QED  BY <1>1, <2>5, <2>7, <2>8
<1> QED  BY <1>3, <1>4

\* What a load finds of each: the deployment, else the copy that ships.
LEMMA LoadFinds ==
    ASSUME NEW o \in SUBSET Extensions, NEW map \in LiveSets
    PROVE  /\ RawLoaded(Load(o, map))
           /\ \A e \in Extensions :
                /\ map[e] # NoVersion => Load(o, map).version[e] = map[e]
                /\ map[e] = NoVersion => Load(o, map).version[e] \notin Versions
                /\ Load(o, map).version[e] \in Versions => map[e] = Load(o, map).version[e]
                /\ Load(o, map).version[e] = Shipped => e \in Ships
<1>1. \A e \in Extensions : map[e] \in {NoVersion} \cup Versions
  BY DEF LiveSets
<1>2. /\ \A e \in Extensions :
           Load(o, map).version[e] = IF map[e] # NoVersion THEN map[e]
                                     ELSE IF e \in Ships THEN Shipped ELSE NoVersion
      /\ Load(o, map).on = {e \in Extensions \ o : Load(o, map).version[e] # NoVersion}
  BY LoadTyped
<1>a. Load(o, map).source[1] = o
  <2>1. Load(o, map).source = <<o, map>>
    BY LoadTyped
  <2> QED  BY <2>1
<1>3. NoVersion # Shipped
  BY DEF NoVersion, Shipped
<1>4. Ships \subseteq Extensions
  BY ActivationAssumption
<1> HIDE DEF NoVersion, Shipped
<1>5. RawLoaded(Load(o, map))
  BY <1>2, <1>a, <1>3, <1>4 DEF RawLoaded
<1> QED  BY <1>1, <1>2, <1>3, <1>5, VersionsNamed

\* An activation that begins: nothing has given way, everything is as chosen.
LEMMA StagedExact ==
    ASSUME NEW a \in Activations, NEW lv \in LiveSets, NEW o \in SUBSET Extensions,
           a.gave = {}, a.chosen = lv, a.raw = Load(o, Applied(lv, a.change))
    PROVE  RawLoaded(a.raw) /\ StagingLeft(a, a.change) /\ Exact(a, lv)
<1>1. a.change \in Changes /\ Applied(lv, a.change) \in LiveSets
  BY AppliedTyped DEF Activations
<1>2. Asked(a) = Applied(lv, a.change)
  BY DEF Asked
<1> QED  BY <1>1, <1>2, LoadFinds DEF StagingLeft, Exact, NoChange
-----------------------------------------------------------------------------
(* Lemmas on what gives way.                                               *)

\* The live set and what is staged, without what gives way.
Without(lv, g) == [e \in Extensions |-> IF e \in g THEN NoVersion ELSE lv[e]]
StagedWithout(st, g) == IF st # NoChange /\ st[1] \in g THEN NoChange ELSE st

LEMMA WithoutOf ==
    ASSUME NEW lv \in LiveSets, NEW st \in Changes, NEW g \in SUBSET Extensions
    PROVE  /\ Without(lv, g) \in LiveSets /\ StagedWithout(st, g) \in Changes
           /\ \A e \in Extensions :
                /\ Without(lv, g)[e] = IF e \in g THEN NoVersion ELSE lv[e]
                /\ Applied(Without(lv, g), StagedWithout(st, g))[e] =
                     IF e \in g THEN NoVersion ELSE Applied(lv, st)[e]
<1>1. Without(lv, g) \in LiveSets
  BY DEF Without, LiveSets
<1>2. StagedWithout(st, g) \in Changes
  BY NothingTyped DEF StagedWithout
<1>3. \A e \in Extensions : Without(lv, g)[e] = IF e \in g THEN NoVersion ELSE lv[e]
  BY DEF Without
<1>4. ASSUME NEW e \in Extensions
      PROVE  Applied(Without(lv, g), StagedWithout(st, g))[e] =
               IF e \in g THEN NoVersion ELSE Applied(lv, st)[e]
  <2>1. CASE st # NoChange /\ st[1] \in g
    <3>1. StagedWithout(st, g) = NoChange
      BY <2>1 DEF StagedWithout
    <3>2. Applied(Without(lv, g), StagedWithout(st, g)) = Without(lv, g)
      BY <1>1, <1>2, <3>1, AppliedTyped
    <3>3. e \notin g => Applied(lv, st)[e] = lv[e]
      BY <2>1, AppliedTyped
    <3> QED  BY <1>3, <3>2, <3>3
  <2>2. CASE st = NoChange
    <3>1. StagedWithout(st, g) = NoChange
      BY <2>2 DEF StagedWithout
    <3>2. Applied(Without(lv, g), StagedWithout(st, g)) = Without(lv, g)
      BY <1>1, <1>2, <3>1, AppliedTyped
    <3>3. Applied(lv, st) = lv
      BY <2>2, AppliedTyped
    <3> QED  BY <1>3, <3>2, <3>3
  <2>3. CASE st # NoChange /\ st[1] \notin g
    <3>1. StagedWithout(st, g) = st
      BY <2>3 DEF StagedWithout
    <3>2. CASE e = st[1]
      BY <1>1, <2>3, <3>1, <3>2, AppliedTyped
    <3>3. CASE e # st[1]
      BY <1>1, <1>3, <2>3, <3>1, <3>3, AppliedTyped
    <3> QED  BY <3>2, <3>3
  <2> QED  BY <2>1, <2>2, <2>3
<1> QED  BY <1>1, <1>2, <1>3, <1>4

\* The record of an activation in which `g` has given way.
GaveWay(a, b, lv, st, g, o) ==
    /\ b.chosen = a.chosen /\ b.change = a.change /\ b.gave = a.gave \cup g
    /\ b.raw = Load(o, Applied(Without(lv, g), StagedWithout(st, g)))

LEMMA GivenWay ==
    ASSUME NEW a \in Activations, NEW b \in Activations, NEW lv \in LiveSets,
           NEW st \in Changes, NEW g \in SUBSET Extensions, NEW o \in SUBSET Extensions,
           GaveWay(a, b, lv, st, g, o), StagingLeft(a, st)
    PROVE  /\ RawLoaded(b.raw) /\ StagingLeft(b, StagedWithout(st, g)) /\ Asked(b) = Asked(a)
           /\ Exact(a, lv) => Exact(b, Without(lv, g))
           /\ Loose(a, lv, st) => Loose(b, Without(lv, g), StagedWithout(st, g))
           /\ LiveFrom(a, lv) => LiveFrom(b, Without(lv, g)) /\ RawFits(b)
           /\ \A e \in Extensions :
                /\ b.raw.version[e] = Shipped => e \in Ships
                /\ e \notin g /\ Applied(lv, st)[e] # NoVersion =>
                     b.raw.version[e] = Applied(lv, st)[e]
<1> DEFINE lw == Without(lv, g)
           sw == StagedWithout(st, g)
           map == Applied(lw, sw)
<1>1. /\ lw \in LiveSets /\ sw \in Changes /\ map \in LiveSets
      /\ \A e \in Extensions : lw[e] = IF e \in g THEN NoVersion ELSE lv[e]
      /\ \A e \in Extensions : map[e] = IF e \in g THEN NoVersion ELSE Applied(lv, st)[e]
  BY WithoutOf, AppliedTyped
<1>2. Asked(b) = Asked(a) /\ b.chosen = a.chosen /\ b.change = a.change
      /\ b.gave = a.gave \cup g /\ b.raw = Load(o, map)
  BY DEF GaveWay, Asked
<1>3. StagingLeft(b, sw)
  BY <1>2 DEF StagingLeft, StagedWithout
<1> HIDE DEF lw, sw, map
<1>4. /\ RawLoaded(b.raw)
      /\ \A e \in Extensions :
           /\ map[e] # NoVersion => b.raw.version[e] = map[e]
           /\ map[e] = NoVersion => b.raw.version[e] \notin Versions
           /\ b.raw.version[e] \in Versions => map[e] = b.raw.version[e]
           /\ b.raw.version[e] = Shipped => e \in Ships
  <2>1. map \in LiveSets /\ b.raw = Load(o, map)
    BY <1>1, <1>2
  <2>2. /\ RawLoaded(Load(o, map))
        /\ \A e \in Extensions :
             /\ map[e] # NoVersion => Load(o, map).version[e] = map[e]
             /\ map[e] = NoVersion => Load(o, map).version[e] \notin Versions
             /\ Load(o, map).version[e] \in Versions => map[e] = Load(o, map).version[e]
             /\ Load(o, map).version[e] = Shipped => e \in Ships
    BY <2>1, LoadFinds
  <2> QED  BY <2>1, <2>2
\* What is staged of the change is all there is of it elsewhere.
<1>5. ASSUME NEW e \in Extensions, LiveFrom(a, lv)
      PROVE  /\ e \notin a.gave => Applied(lv, st)[e] = Asked(a)[e]
             /\ e \in a.gave => Applied(lv, st)[e] = lv[e]
  <2>1. CASE a.change # NoChange /\ a.change[1] \notin a.gave
    <3>1. st = a.change
      BY <2>1 DEF StagingLeft
    <3>2. CASE e = a.change[1]
      BY <2>1, <3>1, <3>2, AppliedTyped, AskedOf DEF Asked
    <3>3. CASE e # a.change[1]
      BY <1>5, <2>1, <3>1, <3>3, AppliedTyped, AskedOf DEF LiveFrom
    <3> QED  BY <3>2, <3>3
  <2>2. CASE ~(a.change # NoChange /\ a.change[1] \notin a.gave)
    <3>1. st = NoChange
      BY <2>2 DEF StagingLeft
    <3>2. Applied(lv, st)[e] = lv[e]
      BY <3>1, AppliedTyped
    <3>3. e \notin a.gave => Asked(a)[e] = a.chosen[e]
      BY <2>2, AskedOf
    <3> QED  BY <1>5, <3>2, <3>3 DEF LiveFrom
  <2> QED  BY <2>1, <2>2
<1>6. ASSUME Exact(a, lv)  PROVE Exact(b, lw)
  <2>1. LiveFrom(a, lv)
    BY <1>6, ExactWeakens
  <2> SUFFICES ASSUME NEW e \in Extensions
               PROVE  IF e \in b.gave THEN lw[e] = NoVersion /\ b.raw.version[e] \notin Versions
                      ELSE /\ lw[e] = b.chosen[e]
                           /\ IF Asked(b)[e] = NoVersion THEN b.raw.version[e] \notin Versions
                              ELSE b.raw.version[e] = Asked(b)[e]
    BY DEF Exact
  <2>2. IF e \in a.gave THEN lv[e] = NoVersion ELSE lv[e] = a.chosen[e]
    BY <1>6 DEF Exact
  <2>3. /\ e \notin a.gave => Applied(lv, st)[e] = Asked(a)[e]
        /\ e \in a.gave => Applied(lv, st)[e] = lv[e]
    BY <1>5, <2>1
  <2>4. /\ lw[e] = IF e \in g THEN NoVersion ELSE lv[e]
        /\ map[e] = IF e \in g THEN NoVersion ELSE Applied(lv, st)[e]
    BY <1>1
  <2> QED  BY <1>2, <1>4, <2>2, <2>3, <2>4
<1>7. ASSUME Loose(a, lv, st)  PROVE Loose(b, lw, sw)
  <2> SUFFICES ASSUME NEW e \in Extensions
               PROVE  /\ e \notin b.gave /\ Asked(b)[e] # NoVersion =>
                           b.raw.version[e] = Asked(b)[e] /\ map[e] = Asked(b)[e]
                      /\ b.raw.version[e] \in Versions => map[e] = b.raw.version[e]
    BY DEF Loose, map
  <2>1. e \notin a.gave /\ Asked(a)[e] # NoVersion => Applied(lv, st)[e] = Asked(a)[e]
    BY <1>7 DEF Loose
  <2> QED  BY <1>1, <1>2, <1>4, <2>1
<1>8. ASSUME LiveFrom(a, lv)  PROVE LiveFrom(b, lw) /\ RawFits(b)
  <2>1. ASSUME NEW e \in Extensions
        PROVE  /\ IF e \in b.gave THEN b.chosen[e] = NoVersion => lw[e] = NoVersion
                  ELSE lw[e] = b.chosen[e]
               /\ IF e \in b.gave THEN b.chosen[e] = NoVersion => b.raw.version[e] \notin Versions
                  ELSE IF Asked(b)[e] = NoVersion THEN b.raw.version[e] \notin Versions
                       ELSE b.raw.version[e] = Asked(b)[e]
    <3>1. IF e \in a.gave THEN a.chosen[e] = NoVersion => lv[e] = NoVersion
          ELSE lv[e] = a.chosen[e]
      BY <1>8 DEF LiveFrom
    <3>2. /\ e \notin a.gave => Applied(lv, st)[e] = Asked(a)[e]
          /\ e \in a.gave => Applied(lv, st)[e] = lv[e]
      BY <1>5, <1>8
    <3>3. /\ lw[e] = IF e \in g THEN NoVersion ELSE lv[e]
          /\ map[e] = IF e \in g THEN NoVersion ELSE Applied(lv, st)[e]
      BY <1>1
    <3> QED  BY <1>2, <1>4, <3>1, <3>2, <3>3
  <2> QED  BY <2>1 DEF LiveFrom, RawFits
<1>9. \A e \in Extensions :
        /\ b.raw.version[e] = Shipped => e \in Ships
        /\ e \notin g /\ Applied(lv, st)[e] # NoVersion => b.raw.version[e] = Applied(lv, st)[e]
  BY <1>1, <1>4
<1> QED  BY <1>2, <1>3, <1>4, <1>6, <1>7, <1>8, <1>9 DEF lw, sw
-----------------------------------------------------------------------------
(* Lemmas on what was tried.                                               *)

\* What could run and is left out lacks something it requires.
LEMMA OutForAnother ==
    ASSUME NEW raw \in Snapshots, NEW failed \in [Extensions -> Nat], NEW cat \in Snapshots,
           NEW br, NEW e \in Able(raw, failed, cat, br),
           Requires[e] \subseteq OnOf(raw, failed, cat, br)
    PROVE  e \in OnOf(raw, failed, cat, br)
<1> DEFINE on == OnOf(raw, failed, cat, br)
           A == Able(raw, failed, cat, br)
<1>1. /\ on \subseteq A /\ \A x \in on : Requires[x] \subseteq on
      /\ \A s \in SUBSET A : (\A x \in s : Requires[x] \subseteq s) => s \subseteq on
  BY RequirementsMet DEF OnOf
<1>2. \A x \in on \cup {e} : Requires[x] \subseteq on \cup {e}
  BY <1>1
<1> HIDE DEF on, A
<1>3. on \cup {e} \in SUBSET A
  BY <1>1 DEF A
<1>4. on \cup {e} \subseteq on
  BY <1>1, <1>2, <1>3
<1> QED  BY <1>4 DEF on

\* What of a load was asked for, and has not given way, is what was asked for.
LoadsAsked(a) ==
    \A e \in Extensions :
        e \notin a.gave /\ Asked(a)[e] # NoVersion => a.raw.version[e] = Asked(a)[e]

LEMMA TriedAsItGivesWay ==
    ASSUME NEW a \in Activations, NEW b \in Activations, NEW lv \in LiveSets,
           NEW st \in Changes, NEW g \in SUBSET Extensions, NEW o \in SUBSET Extensions,
           NEW cat \in Snapshots, NEW br,
           GaveWay(a, b, lv, st, g, o), StagingLeft(a, st), Loose(a, lv, st),
           RawLoaded(a.raw), g = YieldingOf(a.raw, a.failed, cat, br),
           b.tried = a.tried,
           b.failed = [e \in Extensions |-> IF e \in g THEN 0 ELSE a.failed[e]],
           TriedSo(a, cat, br)
    PROVE  TriedSo(b, cat, br)
<1>0. /\ Asked(b) = Asked(a) /\ b.gave = a.gave \cup g
      /\ a.raw \in Snapshots /\ a.failed \in [Extensions -> Nat]
      /\ \A e \in Extensions :
           /\ b.raw.version[e] = Shipped => e \in Ships
           /\ e \notin g /\ Applied(lv, st)[e] # NoVersion =>
                b.raw.version[e] = Applied(lv, st)[e]
  BY GivenWay DEF GaveWay, Activations
<1> SUFFICES ASSUME NEW e \in Extensions
             PROVE  /\ e \in b.gave =>
                         /\ e \in Ships
                         /\ \/ Asked(a)[e] = NoVersion \/ <<e, Asked(a)[e]>> \in br \cup a.tried
                            \/ Requires[e] # {}
                    /\ b.failed[e] > 0 /\ Asked(a)[e] # NoVersion /\ e \notin b.gave =>
                         <<e, Asked(a)[e]>> \in br \cup a.tried
                    /\ b.failed[e] > 0 /\ b.raw.version[e] = Shipped => <<e, Shipped>> \in a.tried
                    /\ b.failed[e] > 1 /\ e \in cat.on => <<e, cat.version[e]>> \in a.tried
  BY <1>0 DEF TriedSo
<1>1. /\ e \in a.gave =>
           /\ e \in Ships
           /\ \/ Asked(a)[e] = NoVersion \/ <<e, Asked(a)[e]>> \in br \cup a.tried
              \/ Requires[e] # {}
      /\ a.failed[e] > 0 /\ Asked(a)[e] # NoVersion /\ e \notin a.gave =>
           <<e, Asked(a)[e]>> \in br \cup a.tried
      /\ a.failed[e] > 0 /\ a.raw.version[e] = Shipped => <<e, Shipped>> \in a.tried
      /\ a.failed[e] > 1 /\ e \in cat.on => <<e, cat.version[e]>> \in a.tried
  BY DEF TriedSo
<1>2. b.failed[e] = IF e \in g THEN 0 ELSE a.failed[e]
  OBVIOUS
<1>3. ASSUME e \in g, e \notin a.gave, Asked(a)[e] # NoVersion, Requires[e] = {}
      PROVE  <<e, Asked(a)[e]>> \in br \cup a.tried
  <2>1. a.raw.version[e] = Asked(a)[e]
    BY <1>3 DEF Loose
  <2>2. /\ e \in HeldOf(a.raw, a.failed, cat, br) /\ e \notin OnOf(a.raw, a.failed, cat, br)
    BY <1>3 DEF YieldingOf
  <2>3. e \notin Able(a.raw, a.failed, cat, br)
    BY <1>0, <1>3, <2>2, OutForAnother
  <2>4. e \in Failing(a.raw, a.failed, br)
    BY <2>2, <2>3 DEF HeldOf, Able
  <2>5. <<e, a.raw.version[e]>> \in br \/ a.failed[e] > 0
    BY <2>4 DEF Failing
  <2> QED  BY <1>1, <1>3, <2>1, <2>5
<1>4. e \in g => e \in Ships
  BY DEF YieldingOf
<1>5. ASSUME e \notin g, a.failed[e] > 0, b.raw.version[e] = Shipped
      PROVE  <<e, Shipped>> \in a.tried
  <2>1. e \in Ships /\ a.raw.version[e] # NoVersion
    BY <1>0, <1>5 DEF RawLoaded
  <2>2. a.raw.version[e] \in {NoVersion, Shipped} \cup Versions
    BY <1>0 DEF Snapshots
  <2>3. a.raw.version[e] \notin Versions
    <3> SUFFICES ASSUME a.raw.version[e] \in Versions  PROVE FALSE
      OBVIOUS
    <3>1. Applied(lv, st)[e] = a.raw.version[e]
      BY DEF Loose
    <3>2. b.raw.version[e] = a.raw.version[e]
      BY <1>0, <1>5, <2>1, <3>1
    <3> QED  BY <1>5, <3>2, VersionsNamed
  <2> QED  BY <1>1, <1>5, <2>1, <2>2, <2>3
<1>6. e \in b.gave <=> e \in a.gave \/ e \in g
  BY <1>0
<1> QED  BY <1>1, <1>2, <1>3, <1>4, <1>5, <1>6

LEMMA TriedAsItFails ==
    ASSUME NEW a \in Activations, NEW b \in Activations, NEW problems \in SUBSET Extensions,
           NEW cat \in Snapshots, NEW br \in SUBSET (Extensions \X Versions),
           problems \subseteq a.cand.on, AdmittedAs(a, cat, br), LoadsAsked(a),
           b.chosen = a.chosen, b.change = a.change, b.gave = a.gave, b.raw = a.raw,
           b.tried = a.tried \cup {<<e, a.cand.version[e]>> : e \in problems},
           b.failed = [e \in Extensions |-> IF e \in problems THEN a.failed[e] + 1
                                            ELSE a.failed[e]],
           TriedSo(a, cat, br)
    PROVE  TriedSo(b, cat, br)
<1>0. /\ Asked(b) = Asked(a)
      /\ a.raw \in Snapshots /\ a.failed \in [Extensions -> Nat]
  BY DEF Asked, Activations
<1> SUFFICES ASSUME NEW e \in Extensions
             PROVE  /\ e \in a.gave =>
                         /\ e \in Ships
                         /\ \/ Asked(a)[e] = NoVersion \/ <<e, Asked(a)[e]>> \in br \cup b.tried
                            \/ Requires[e] # {}
                    /\ b.failed[e] > 0 /\ Asked(a)[e] # NoVersion /\ e \notin a.gave =>
                         <<e, Asked(a)[e]>> \in br \cup b.tried
                    /\ b.failed[e] > 0 /\ a.raw.version[e] = Shipped => <<e, Shipped>> \in b.tried
                    /\ b.failed[e] > 1 /\ e \in cat.on => <<e, cat.version[e]>> \in b.tried
  BY <1>0 DEF TriedSo
<1>1. /\ e \in a.gave =>
           /\ e \in Ships
           /\ \/ Asked(a)[e] = NoVersion \/ <<e, Asked(a)[e]>> \in br \cup a.tried
              \/ Requires[e] # {}
      /\ a.failed[e] > 0 /\ Asked(a)[e] # NoVersion /\ e \notin a.gave =>
           <<e, Asked(a)[e]>> \in br \cup a.tried
      /\ a.failed[e] > 0 /\ a.raw.version[e] = Shipped => <<e, Shipped>> \in a.tried
      /\ a.failed[e] > 1 /\ e \in cat.on => <<e, cat.version[e]>> \in a.tried
  BY DEF TriedSo
<1>2. PICK n \in Nat : n = a.failed[e]
  BY <1>0
<1>3. b.failed[e] = IF e \in problems THEN n + 1 ELSE n
  BY <1>2
<1>4. CASE e \notin problems
  BY <1>1, <1>2, <1>3, <1>4
<1>5. CASE e \in problems
  <2>1. <<e, a.cand.version[e]>> \in b.tried
    BY <1>5
  <2>2. e \in OnOf(a.raw, a.failed, cat, br) /\ a.cand = CandOf(a.raw, a.failed, cat, br)
    BY <1>5 DEF AdmittedAs, CandOf
  <2>3. /\ e \notin Failing(a.raw, a.failed, br) => a.cand.version[e] = a.raw.version[e]
        /\ e \in Failing(a.raw, a.failed, br) =>
             a.cand.version[e] = cat.version[e] /\ a.failed[e] < 2
        /\ e \in a.raw.on
    BY <1>0, <2>2, CandidateOf
  <2>4. e \in Failing(a.raw, a.failed, br) <=> <<e, a.raw.version[e]>> \in br \/ n > 0
    BY <1>2, <2>3 DEF Failing
  <2>5. a.raw.version[e] = Shipped => <<e, a.raw.version[e]>> \notin br
    BY VersionsNamed
  <2>6. e \notin a.gave /\ Asked(a)[e] # NoVersion => a.raw.version[e] = Asked(a)[e]
    BY DEF LoadsAsked
  <2>7. /\ <<e, Asked(a)[e]>> \in a.tried => <<e, Asked(a)[e]>> \in b.tried
        /\ <<e, Shipped>> \in a.tried => <<e, Shipped>> \in b.tried
    OBVIOUS
  <2>8. n > 0 \/ <<e, a.raw.version[e]>> \in br \/ <<e, a.raw.version[e]>> \in b.tried
    BY <2>1, <2>3, <2>4
  <2>9. Asked(a)[e] # NoVersion /\ e \notin a.gave => <<e, Asked(a)[e]>> \in br \cup b.tried
    BY <1>1, <1>2, <2>6, <2>7, <2>8
  <2>10. a.raw.version[e] = Shipped => <<e, Shipped>> \in b.tried
    BY <1>1, <1>2, <2>5, <2>7, <2>8
  <2>11. b.failed[e] > 1 => <<e, cat.version[e]>> \in b.tried
    <3>1. b.failed[e] > 1 => n > 0
      BY <1>3, <1>5
    <3> QED  BY <2>1, <2>3, <2>4, <3>1
  <2> QED  BY <1>1, <2>7, <2>9, <2>10, <2>11
<1> QED  BY <1>4, <1>5

\* A second failure leaves nothing of an extension to run.
LEMMA TriedOfCandidate ==
    ASSUME NEW a \in Activations, NEW cat \in Snapshots, NEW br, AdmittedAs(a, cat, br),
           TriedSo(a, cat, br)
    PROVE  TriedSo(a, a.cand, br)
<1>1. ASSUME NEW e \in Extensions, a.failed[e] > 1
      PROVE  e \notin a.cand.on
  <2>1. PICK n \in Nat : n = a.failed[e]
    BY DEF Activations
  <2>2. a.cand.on = OnOf(a.raw, a.failed, cat, br)
    BY DEF AdmittedAs, CandOf
  <2>3. e \in OnOf(a.raw, a.failed, cat, br) =>
          e \in a.raw.on /\ (e \in Failing(a.raw, a.failed, br) => a.failed[e] < 2)
    BY CandidateOf DEF Activations
  <2>4. e \in a.raw.on => e \in Failing(a.raw, a.failed, br)
    BY <1>1, <2>1 DEF Failing
  <2> QED  BY <1>1, <2>1, <2>2, <2>3, <2>4
<1> QED  BY <1>1 DEF TriedSo
\* What is on and out, with all it requires, has failed in all its versions.
LEMMA OutWhenTried ==
    ASSUME NEW a \in Activations, NEW cat \in Snapshots,
           NEW br \in SUBSET (Extensions \X Versions),
           AdmittedAs(a, cat, br), RawLoaded(a.raw), LoadsAsked(a), TriedSo(a, cat, br),
           NEW e \in Extensions \ (a.cand.source[1] \cup a.cand.on),
           Requires[e] \subseteq a.cand.on, Asked(a)[e] # NoVersion \/ e \in Ships
    PROVE  /\ \/ Asked(a)[e] = NoVersion \/ <<e, Asked(a)[e]>> \in br \cup a.tried
              \/ e \in a.gave /\ Requires[e] # {}
           /\ e \in cat.on => <<e, cat.version[e]>> \in a.tried
           /\ e \in Ships => <<e, Shipped>> \in a.tried
<1> DEFINE on == OnOf(a.raw, a.failed, cat, br)
           F == Failing(a.raw, a.failed, br)
<1>0. a.raw \in Snapshots /\ a.failed \in [Extensions -> Nat]
  BY DEF Activations
<1>1. a.cand.on = on /\ a.cand.source = a.raw.source /\ e \notin on
  BY DEF AdmittedAs, CandOf
<1>2. /\ e \in a.gave =>
           /\ e \in Ships
           /\ \/ Asked(a)[e] = NoVersion \/ <<e, Asked(a)[e]>> \in br \cup a.tried
              \/ Requires[e] # {}
      /\ a.failed[e] > 0 /\ Asked(a)[e] # NoVersion /\ e \notin a.gave =>
           <<e, Asked(a)[e]>> \in br \cup a.tried
      /\ a.failed[e] > 0 /\ a.raw.version[e] = Shipped => <<e, Shipped>> \in a.tried
      /\ a.failed[e] > 1 /\ e \in cat.on => <<e, cat.version[e]>> \in a.tried
  BY DEF TriedSo
<1>3. e \notin Able(a.raw, a.failed, cat, br)
  BY <1>0, <1>1, OutForAnother
<1>4. a.raw.version[e] # NoVersion
  <2>1. CASE e \in Ships
    BY <2>1 DEF RawLoaded
  <2>2. CASE e \notin Ships
    <3>1. e \notin a.gave
      BY <1>2, <2>2
    <3> QED  BY <2>2, <3>1 DEF LoadsAsked
  <2> QED  BY <2>1, <2>2
<1>5. e \in a.raw.on
  BY <1>1, <1>4 DEF RawLoaded
<1>6. e \in F /\ e \notin Keeping(a.raw, a.failed, cat, br)
  BY <1>3, <1>5 DEF Able
<1>7. <<e, a.raw.version[e]>> \in br \/ a.failed[e] > 0
  BY <1>6 DEF Failing
<1>8. e \in cat.on => a.failed[e] > 1
  <2>1. PICK n \in Nat : n = a.failed[e]
    BY <1>0
  <2>2. e \in cat.on => ~(a.failed[e] < 2)
    BY <1>6 DEF Keeping
  <2> QED  BY <2>1, <2>2
<1>9. ASSUME Asked(a)[e] # NoVersion, e \notin a.gave
      PROVE  <<e, Asked(a)[e]>> \in br \cup a.tried
  <2>1. a.raw.version[e] = Asked(a)[e]
    BY <1>9 DEF LoadsAsked
  <2> QED  BY <1>2, <1>7, <1>9, <2>1
<1>10. ASSUME e \in Ships  PROVE <<e, Shipped>> \in a.tried
  <2>1. e \in HeldOf(a.raw, a.failed, cat, br)
    BY <1>6 DEF HeldOf
  <2>2. a.raw.version[e] \notin Versions
    BY <1>1, <1>10, <2>1 DEF AdmittedAs, YieldingOf
  <2>3. a.raw.version[e] = Shipped
    BY <1>0, <1>4, <2>2 DEF Snapshots
  <2>4. <<e, a.raw.version[e]>> \notin br
    BY <2>2
  <2> QED  BY <1>2, <1>7, <2>3, <2>4
<1> QED  BY <1>2, <1>8, <1>9, <1>10
-----------------------------------------------------------------------------
(* The kinds of steps there are, for what is chosen and runs.              *)

SameRunning == UNCHANGED <<live, recorded, choice, catalog, broken, overlapped>>

Idles == SameRunning /\ UNCHANGED <<act, worker, staging, slipped>>

Begins ==
    /\ \E by \in {"boot", "owner", "deploy"}, change \in Changes : Stage(by, change)
    /\ UNCHANGED <<live, recorded, choice, catalog, broken, worker, slipped>>

\* The activation ends: with the worker of its publication, before it has one,
\* or as its caller goes away.
Closes ==
    /\ SameRunning /\ act' = NoAct
    /\ \/ /\ act.stage = "publish" /\ worker.stage # "none" /\ worker' = NoWorker
          /\ slipped' = (slipped \/ live # recorded)
       \/ /\ act.stage # "publish" /\ worker' = worker
          /\ slipped' = (slipped \/ live # recorded)
       \/ act.stage = "publish" /\ worker' = worker /\ slipped' = slipped

\* A worker ends for a caller that went away.
OrphanEnds ==
    /\ SameRunning /\ UNCHANGED <<act, staging>>
    /\ act.stage # "publish" /\ worker.stage # "none" /\ worker' = NoWorker
    /\ slipped' = (slipped \/ live # recorded)

\* Something fails to prepare, before the boundary or in the transaction.
Fails(problems) ==
    /\ SameRunning /\ UNCHANGED staging /\ Holds(problems)
    /\ \/ act.stage = "prepare" /\ worker' = worker /\ problems \subseteq act.cand.on
       \/ /\ act.stage = "publish" /\ worker.stage = "open" /\ worker' = NoWorker
          /\ problems \subseteq worker.cand.on

Repeats ==
    /\ SameRunning /\ UNCHANGED <<staging, slipped>>
    /\ act.stage = "publish" /\ worker.stage # "none" /\ worker' = NoWorker
    /\ ~act.restaged /\ act' = [act EXCEPT !.stage = "admit", !.restaged = TRUE]

LEMMA EndsCloses ==
    ASSUME SameRunning, NEW outcome, Ends(outcome)
    PROVE  act' = NoAct /\ slipped' = (slipped \/ live # recorded)
  BY DEF Ends, SameRunning

LEMMA RestagesKinds ==
    ASSUME SameRunning, Restages, act.stage = "publish", worker.stage # "none",
           worker' = NoWorker
    PROVE  Closes \/ Repeats
  BY EndsCloses DEF Restages, Closes, Repeats

LEMMA StepKinds ==
    ASSUME WellTyped, [ActivationNext]_activationVars
    PROVE  \/ Idles \/ Begins \/ GiveWay \/ Admit \/ Prepare \/ TakeBoundary \/ Closes
           \/ OrphanEnds \/ Repeats \/ Commit \/ Swap \/ Restart
           \/ \E problems \in SUBSET Extensions : Fails(problems)
<1> USE DEF settingVars, liveVars, databaseVars, runningVars, taskVars, callerVars, countVars,
            historyVars
<1>a. CASE BootStages
  BY <1>a, NothingTyped DEF BootStages, Begins
<1>b. CASE OwnerStages
  BY <1>b, NothingTyped DEF OwnerStages, Begins
<1>d. CASE PrepareRejected
  <2>1. SameRunning /\ act.stage = "prepare" /\ worker' = worker /\ Ends("host")
    BY <1>d DEF PrepareRejected, SameRunning
  <2> QED  BY <2>1, EndsCloses DEF Closes
<1>e. ASSUME NEW problems \in SUBSET Extensions, PrepareHolds(problems)  PROVE Fails(problems)
  BY <1>e DEF PrepareHolds, Fails, SameRunning
<1>f. ASSUME NEW problems \in SUBSET Extensions, PublicationHolds(problems)
      PROVE  Fails(problems) \/ OrphanEnds
  <2>1. SameRunning /\ worker.stage = "open" /\ worker' = NoWorker
    BY <1>f DEF PublicationHolds, SameRunning, WorkerEnds
  <2> QED  BY <1>f, <2>1 DEF PublicationHolds, WorkerEnds, Fails, OrphanEnds, SameRunning
<1>g. CASE PublicationRejected
  <2>1. SameRunning /\ worker.stage = "open" /\ worker' = NoWorker
    BY <1>g DEF PublicationRejected, SameRunning, WorkerEnds
  <2>2. CASE act.stage = "publish" /\ Ends("host")
    BY <2>1, <2>2, EndsCloses DEF Closes
  <2> QED  BY <1>g, <2>1, <2>2 DEF PublicationRejected, WorkerEnds, OrphanEnds, SameRunning
<1>h. CASE OpenBoundary
  <2>1. SameRunning /\ worker.stage = "swapped" /\ worker' = NoWorker
    BY <1>h DEF OpenBoundary, SameRunning, WorkerEnds
  <2>2. CASE act.stage = "publish" /\ Ends("ok")
    BY <2>1, <2>2, EndsCloses DEF Closes
  <2> QED  BY <1>h, <2>1, <2>2 DEF OpenBoundary, WorkerEnds, OrphanEnds, SameRunning
<1>i. CASE Panics
  <2>1. SameRunning /\ worker.stage # "none" /\ worker' = NoWorker
    BY <1>i DEF Panics, SameRunning, WorkerEnds
  <2>2. CASE act.stage = "publish" /\ Restages
    BY <2>1, <2>2, RestagesKinds
  <2> QED  BY <1>i, <2>1, <2>2 DEF Panics, WorkerEnds, OrphanEnds, SameRunning
<1>j. CASE StorageFails
  <2>1. SameRunning /\ worker.stage # "none" /\ worker' = NoWorker
    BY <1>j DEF StorageFails, SameRunning, WorkerEnds
  <2>2. CASE act.stage = "publish" /\ Restages
    BY <2>1, <2>2, RestagesKinds
  <2>3. CASE act.stage = "publish" /\ Ends("failed")
    BY <2>1, <2>3, EndsCloses DEF Closes
  <2> QED  BY <1>j, <2>1, <2>2, <2>3 DEF StorageFails, WorkerEnds, OrphanEnds, SameRunning
<1>p. CASE CommitFails
  <2>1. SameRunning /\ worker.stage # "none"
    BY <1>p DEF CommitFails, SameRunning
  <2>2. CASE act.stage = "publish" /\ Ends("failed") /\ worker' = NoWorker
    BY <2>1, <2>2, EndsCloses DEF Closes
  <2>3. CASE UNCHANGED <<taskVars, staging, callerVars, slipped, spoiled>>
    BY <2>1, <2>3 DEF Idles
  <2> QED  BY <1>p, <2>1, <2>2, <2>3 DEF CommitFails, WorkerEnds, OrphanEnds, SameRunning
<1>k. CASE Pin \/ Unpin \/ Told \/ Spawn
  BY <1>k DEF Pin, Unpin, Told, Spawn, Idles, SameRunning
<1>l. ASSUME NEW change \in Changes, Deploy(change)  PROVE Idles
  BY <1>l DEF Deploy, Idles, SameRunning
<1>m. CASE CallerGoes
  <2>1. SameRunning /\ worker' = worker
    BY <1>m DEF CallerGoes, SameRunning
  <2>2. CASE act.by = "deploy"
    <3>1. act' = NoAct /\ slipped' = (slipped \/ (act.stage # "publish" /\ live # recorded))
      BY <1>m, <2>2 DEF CallerGoes
    <3>2. slipped \in BOOLEAN
      BY DEF WellTyped, SettledTypes
    <3>3. CASE act.stage = "publish"
      <4>1. slipped' = slipped
        BY <3>1, <3>2, <3>3
      <4> QED  BY <2>1, <3>1, <3>3, <4>1 DEF Closes
    <3>4. CASE act.stage # "publish"
      <4>1. slipped' = (slipped \/ live # recorded)
        BY <3>1, <3>2, <3>4
      <4> QED  BY <2>1, <3>1, <3>4, <4>1 DEF Closes
    <3> QED  BY <3>3, <3>4
  <2>3. CASE act.by # "deploy"
    BY <1>m, <2>1, <2>3 DEF CallerGoes, Idles
  <2> QED  BY <2>2, <2>3
<1>n. ASSUME NEW e \in Extensions, Toggle(e)  PROVE Idles
  BY <1>n DEF Toggle, Idles, SameRunning
<1>o. CASE UNCHANGED activationVars
  BY <1>o DEF activationVars, Idles, SameRunning
<1>c. CASE DeployStages
  BY <1>c DEF DeployStages, Begins, WellTyped, SettledTypes
<1> QED
  BY <1>a, <1>b, <1>c, <1>d, <1>e, <1>f, <1>g, <1>h, <1>i, <1>j, <1>k, <1>l, <1>m, <1>n, <1>o, <1>p
  DEF ActivationNext
-----------------------------------------------------------------------------
(* What each kind of step makes of the activation's record.                *)

LEMMA BeginsRecord ==
    ASSUME WellTyped, NEW by, NEW change, Stage(by, change)
    PROVE  /\ act = NoAct /\ staging' = change /\ overlapped' = (overlapped \/ worker.stage # "none")
           /\ act'.stage = "admit" /\ act'.raw = Load(off, Applied(live, change))
           /\ act'.chosen = live /\ act'.change = change /\ act'.gave = {} /\ act'.tried = {}
           /\ act'.failed = [e \in Extensions |-> 0] /\ act'.cand = NoSnapshot
           /\ act'.held = {} /\ act'.restaged = FALSE
<1>1. PICK raw : raw = Load(off, Applied(live, change))
  OBVIOUS
<1>2. act' = [NoAct EXCEPT !.by = by, !.stage = "admit", !.change = change,
                           !.chosen = live, !.raw = raw]
  BY <1>1 DEF Stage
<1> QED  BY <1>1, <1>2 DEF Stage, NoAct

LEMMA GiveWayRecord ==
    ASSUME WellTyped, GiveWay
    PROVE  /\ act.stage = "admit" /\ act'.stage = "admit"
           /\ GivingWay \in SUBSET Extensions /\ GivingWay # {}
           /\ GivingWay = YieldingOf(act.raw, act.failed, catalog, broken)
           /\ live' = Without(live, GivingWay) /\ staging' = StagedWithout(staging, GivingWay)
           /\ GaveWay(act, act', live, staging, GivingWay, off)
           /\ act'.failed = [e \in Extensions |-> IF e \in GivingWay THEN 0 ELSE act.failed[e]]
           /\ act'.tried = act.tried /\ act'.cand = act.cand /\ act'.held = act.held
           /\ act'.restaged = act.restaged
           /\ UNCHANGED <<recorded, choice, catalog, broken, worker, slipped, overlapped>>
<1>0. act \in Activations
  BY DEF WellTyped, TaskTypes
<1>1. GivingWay = YieldingOf(act.raw, act.failed, catalog, broken)
      /\ GivingWay \in SUBSET Extensions
  BY AdmittedIs, CandTyped DEF WellTyped, RunningTypes, TaskTypes, Activations
<1>2. live' = Without(live, GivingWay) /\ staging' = StagedWithout(staging, GivingWay)
  BY DEF GiveWay, Without, StagedWithout
<1>3. PICK raw : raw = Load(off, Applied(live', staging'))
  OBVIOUS
<1>4. PICK g : g = act.gave \cup GivingWay
  OBVIOUS
<1>5. PICK f : f = [e \in Extensions |-> IF e \in GivingWay THEN 0 ELSE act.failed[e]]
  OBVIOUS
<1>6. act' = [act EXCEPT !.gave = g, !.failed = f, !.raw = raw]
  BY <1>0, <1>3, <1>4, <1>5 DEF GiveWay, Activations
<1>7. /\ act'.stage = act.stage /\ act'.chosen = act.chosen /\ act'.change = act.change
      /\ act'.gave = g /\ act'.failed = f /\ act'.raw = raw /\ act'.tried = act.tried
      /\ act'.cand = act.cand /\ act'.held = act.held /\ act'.restaged = act.restaged
  BY <1>0, <1>6 DEF Activations
<1>8. /\ act.stage = "admit" /\ GivingWay # {}
      /\ UNCHANGED <<recorded, choice, catalog, broken, worker, slipped, overlapped>>
  BY DEF GiveWay, settingVars, databaseVars, runningVars, callerVars, countVars, historyVars
<1>9. GaveWay(act, act', live, staging, GivingWay, off)
  BY <1>2, <1>3, <1>4, <1>7 DEF GaveWay
<1> QED  BY <1>1, <1>2, <1>5, <1>7, <1>8, <1>9

LEMMA AdmitRecord ==
    ASSUME WellTyped, Admit
    PROVE  /\ act.stage = "admit" /\ act'.stage = "prepare" /\ AdmittedAs(act', catalog, broken)
           /\ act'.cand = CandOf(act.raw, act.failed, catalog, broken)
           /\ act'.held = HeldOf(act.raw, act.failed, catalog, broken)
           /\ act'.raw = act.raw /\ act'.chosen = act.chosen /\ act'.change = act.change
           /\ act'.gave = act.gave /\ act'.failed = act.failed /\ act'.tried = act.tried
           /\ act'.restaged = act.restaged
           /\ YieldingOf(act.raw, act.failed, catalog, broken) = {}
           /\ SameRunning /\ UNCHANGED <<worker, staging, slipped>>
<1>0. act \in Activations
  BY DEF WellTyped, TaskTypes
<1>1. /\ Admitted = CandOf(act.raw, act.failed, catalog, broken)
      /\ Held = HeldOf(act.raw, act.failed, catalog, broken)
      /\ GivingWay = YieldingOf(act.raw, act.failed, catalog, broken)
  BY AdmittedIs
<1>2. PICK c, h : c = Admitted /\ h = Held
  OBVIOUS
<1>3. act' = [act EXCEPT !.stage = "prepare", !.cand = c, !.held = h]
  BY <1>2 DEF Admit
<1>4. /\ act'.stage = "prepare" /\ act'.cand = c /\ act'.held = h
      /\ act'.raw = act.raw /\ act'.chosen = act.chosen /\ act'.change = act.change
      /\ act'.gave = act.gave /\ act'.failed = act.failed /\ act'.tried = act.tried
      /\ act'.restaged = act.restaged
  BY <1>0, <1>3 DEF Activations
<1>5. act.stage = "admit" /\ GivingWay = {} /\ SameRunning /\ UNCHANGED <<worker, staging, slipped>>
  BY DEF Admit, SameRunning, settingVars, liveVars, databaseVars, runningVars, callerVars,
         countVars, historyVars
<1> QED  BY <1>1, <1>2, <1>4, <1>5 DEF AdmittedAs

\* Steps that only move the activation on.
OnlyStage == /\ act'.raw = act.raw /\ act'.chosen = act.chosen /\ act'.change = act.change
             /\ act'.gave = act.gave /\ act'.failed = act.failed /\ act'.tried = act.tried
             /\ act'.cand = act.cand /\ act'.held = act.held

LEMMA PrepareRecord ==
    ASSUME WellTyped, Prepare
    PROVE  /\ act.stage = "prepare" /\ act'.stage = "boundary" /\ act'.restaged = act.restaged
           /\ OnlyStage /\ SameRunning /\ UNCHANGED <<worker, staging, slipped>>
<1>1. act \in Activations
  BY DEF WellTyped, TaskTypes
<1> QED  BY <1>1 DEF Prepare, Activations, OnlyStage, SameRunning, settingVars, liveVars,
            databaseVars, runningVars, callerVars, countVars, historyVars

LEMMA TakeRecord ==
    ASSUME WellTyped, TakeBoundary
    PROVE  /\ act.stage = "boundary" /\ act'.stage = "publish" /\ act'.restaged = act.restaged
           /\ OnlyStage /\ SameRunning /\ UNCHANGED <<staging, slipped>>
           /\ worker.stage = "none" /\ worker'.stage = "open" /\ worker'.cand = act.cand
           /\ worker'.live = NewLive(act.cand, Kept(act), act.chosen)
           /\ worker'.choice = IF Ran(act) THEN Applied(choice, act.change) ELSE choice
<1>1. act \in Activations
  BY DEF WellTyped, TaskTypes
<1>2. /\ act.stage = "boundary" /\ act'.stage = "publish" /\ act'.restaged = act.restaged
      /\ OnlyStage
  BY <1>1 DEF TakeBoundary, Activations, OnlyStage
<1>3. SameRunning /\ UNCHANGED <<staging, slipped>> /\ worker.stage = "none"
  BY DEF TakeBoundary, SameRunning, settingVars, liveVars, databaseVars, runningVars, callerVars,
         countVars, historyVars
<1>4. /\ worker'.stage = "open" /\ worker'.cand = act.cand
      /\ worker'.live = NewLive(act.cand, Kept(act), act.chosen)
      /\ worker'.choice = IF Ran(act) THEN Applied(choice, act.change) ELSE choice
  BY DEF TakeBoundary, Kept, Ran
<1> QED  BY <1>2, <1>3, <1>4

LEMMA FailsRecord ==
    ASSUME WellTyped, NEW problems \in SUBSET Extensions, Fails(problems)
    PROVE  /\ act'.stage = "admit" /\ act'.raw = act.raw /\ act'.chosen = act.chosen
           /\ act'.change = act.change /\ act'.gave = act.gave
           /\ act'.cand = act.cand /\ act'.held = act.held /\ act'.restaged = act.restaged
           /\ act'.failed = [e \in Extensions |-> IF e \in problems THEN act.failed[e] + 1
                                                  ELSE act.failed[e]]
           /\ act'.tried = act.tried \cup {<<e, act.cand.version[e]>> : e \in problems}
           /\ slipped' = (slipped \/ (act.restaged /\ act.change # NoChange))
<1>1. act \in Activations
  BY DEF WellTyped, TaskTypes
<1>2. PICK f : f = [e \in Extensions |-> IF e \in problems THEN act.failed[e] + 1
                                         ELSE act.failed[e]]
  OBVIOUS
<1>3. PICK t : t = act.tried \cup {<<e, act.cand.version[e]>> : e \in problems}
  OBVIOUS
<1>4. act' = [act EXCEPT !.stage = "admit", !.failed = f, !.tried = t]
  BY <1>1, <1>2, <1>3 DEF Fails, Holds, Activations
<1>5. slipped' = (slipped \/ (act.restaged /\ act.change # NoChange))
  BY DEF Fails, Holds
<1> QED  BY <1>1, <1>2, <1>3, <1>4, <1>5 DEF Activations

LEMMA RepeatsRecord ==
    ASSUME WellTyped, Repeats
    PROVE  act'.stage = "admit" /\ act'.restaged = TRUE /\ OnlyStage
<1>1. act \in Activations
  BY DEF WellTyped, TaskTypes
<1> QED  BY <1>1 DEF Repeats, Activations, OnlyStage
LEMMA CommitRecord ==
    ASSUME WellTyped, Commit
    PROVE  /\ worker.stage = "open" /\ worker'.stage = "committed" /\ worker'.cand = worker.cand
           /\ worker'.live = worker.live /\ worker'.choice = worker.choice
           /\ recorded' = worker.live /\ choice' = worker.choice
           /\ UNCHANGED <<act, live, staging, catalog, broken, slipped, overlapped>>
<1>1. worker \in Workers
  BY DEF WellTyped, TaskTypes
<1> QED  BY <1>1 DEF Commit, Workers, settingVars, liveVars, runningVars, callerVars, countVars

LEMMA SwapRecord ==
    ASSUME WellTyped, Swap
    PROVE  /\ worker.stage = "committed" /\ worker'.stage = "swapped"
           /\ worker'.cand = worker.cand /\ worker'.live = worker.live
           /\ catalog' = worker.cand /\ live' = worker.live
           /\ UNCHANGED <<act, staging, recorded, choice, broken, slipped, overlapped>>
<1>1. worker \in Workers
  BY DEF WellTyped, TaskTypes
<1> QED  BY <1>1 DEF Swap, Workers, settingVars, databaseVars, callerVars, countVars, historyVars

LEMMA RestartRecord ==
    ASSUME Restart
    PROVE  /\ act' = NoAct /\ worker' = NoWorker /\ catalog' = NoSnapshot /\ live' = recorded
           /\ staging' = NoChange
           /\ UNCHANGED <<recorded, choice, broken, slipped, overlapped>>
  BY DEF Restart, databaseVars

LEMMA NothingRecord ==
    /\ NoAct.stage = "none" /\ NoAct.cand = NoSnapshot /\ NoSnapshot.on = {}
    /\ NoWorker.stage = "none" /\ NoWorker.cand = NoSnapshot
    /\ Closed(NoSnapshot.on)
  BY DEF NoAct, NoWorker, NoSnapshot, Closed

-----------------------------------------------------------------------------
(* Nothing runs without what it requires.                                  *)

LEMMA CandClosed ==
    ASSUME NEW raw, NEW failed, NEW cat, NEW br
    PROVE  Closed(CandOf(raw, failed, cat, br).on)
  BY RequirementsMet DEF CandOf, OnOf, Closed

LEMMA ClosedKept ==
    ASSUME WellTyped, ClosedInv, [ActivationNext]_activationVars
    PROVE  ClosedInv'
<1>0. Closed(act.cand.on) /\ Closed(worker.cand.on) /\ Closed(catalog.on)
  BY DEF ClosedInv
<1>1. CASE Idles
  BY <1>0, <1>1 DEF Idles, SameRunning, ClosedInv, Closed
<1>2. ASSUME NEW by, NEW change, Stage(by, change), UNCHANGED <<worker, catalog>>
      PROVE  ClosedInv'
  <2>1. act'.cand = NoSnapshot
    BY <1>2, BeginsRecord
  <2> QED  BY <1>0, <1>2, <2>1, NothingRecord DEF ClosedInv, Closed
<1>3. CASE GiveWay
  BY <1>0, <1>3, GiveWayRecord DEF ClosedInv, Closed
<1>4. CASE Admit
  <2>1. /\ act'.cand = CandOf(act.raw, act.failed, catalog, broken)
        /\ SameRunning /\ worker' = worker
    BY <1>4, AdmitRecord
  <2>2. Closed(act'.cand.on)
    BY <2>1, CandClosed
  <2> QED  BY <1>0, <2>1, <2>2 DEF ClosedInv, Closed, SameRunning
<1>5. CASE Prepare
  BY <1>0, <1>5, PrepareRecord DEF ClosedInv, Closed, OnlyStage, SameRunning
<1>6. CASE TakeBoundary
  BY <1>0, <1>6, TakeRecord DEF ClosedInv, Closed, OnlyStage, SameRunning
<1>7. CASE Closes
  BY <1>0, <1>7, NothingRecord DEF ClosedInv, Closed, Closes, SameRunning
<1>8. CASE OrphanEnds
  BY <1>0, <1>8, NothingRecord DEF ClosedInv, Closed, OrphanEnds, SameRunning
<1>9. CASE Repeats
  BY <1>0, <1>9, NothingRecord, RepeatsRecord
  DEF ClosedInv, Closed, Repeats, OnlyStage, SameRunning
<1>10. CASE Commit
  BY <1>0, <1>10, CommitRecord DEF ClosedInv, Closed
<1>11. CASE Swap
  BY <1>0, <1>11, SwapRecord DEF ClosedInv, Closed
<1>12. CASE Restart
  BY <1>0, <1>12, NothingRecord, RestartRecord DEF ClosedInv, Closed
<1>13. ASSUME NEW problems \in SUBSET Extensions, Fails(problems)  PROVE ClosedInv'
  <2>1. act'.cand = act.cand
    BY <1>13, FailsRecord
  <2> QED  BY <1>0, <1>13, <2>1, NothingRecord DEF ClosedInv, Closed, Fails, SameRunning
<1> QED
  BY <1>1, <1>2, <1>3, <1>4, <1>5, <1>6, <1>7, <1>8, <1>9, <1>10, <1>11, <1>12, <1>13,
     StepKinds DEF Begins
-----------------------------------------------------------------------------
(* A worker is the activation's own.                                       *)

LEMMA OwnWorkerKept ==
    ASSUME WellTyped, OwnWorker, [ActivationNext]_activationVars
    PROVE  OwnWorker'
<1>0. /\ act.stage = "publish" => worker.stage # "none" /\ worker.cand = act.cand
      /\ ~overlapped /\ act.stage \in {"admit", "prepare", "boundary"} => worker.stage = "none"
      /\ act.stage \in {"none", "admit", "prepare", "boundary", "publish"}
  BY DEF OwnWorker, WellTyped, TaskTypes, Activations
<1>1. CASE Idles
  BY <1>0, <1>1 DEF Idles, SameRunning, OwnWorker
<1>2. ASSUME NEW by, NEW change, Stage(by, change), UNCHANGED worker
      PROVE  OwnWorker'
  BY <1>2, BeginsRecord DEF OwnWorker
<1>3. CASE GiveWay
  BY <1>0, <1>3, GiveWayRecord DEF OwnWorker
<1>4. CASE Admit
  BY <1>0, <1>4, AdmitRecord DEF OwnWorker, SameRunning
<1>5. CASE Prepare
  BY <1>0, <1>5, PrepareRecord DEF OwnWorker, OnlyStage, SameRunning
<1>6. CASE TakeBoundary
  BY <1>6, TakeRecord DEF OwnWorker, OnlyStage
<1>7. CASE Closes
  BY <1>7, NothingRecord DEF OwnWorker, Closes
<1>8. CASE OrphanEnds
  BY <1>0, <1>8, NothingRecord DEF OwnWorker, OrphanEnds, SameRunning
<1>9. CASE Repeats
  BY <1>9, NothingRecord, RepeatsRecord DEF OwnWorker, Repeats
<1>10. CASE Commit
  BY <1>0, <1>10, CommitRecord DEF OwnWorker
<1>11. CASE Swap
  BY <1>0, <1>11, SwapRecord DEF OwnWorker
<1>12. CASE Restart
  BY <1>12, NothingRecord, RestartRecord DEF OwnWorker
<1>13. ASSUME NEW problems \in SUBSET Extensions, Fails(problems)  PROVE OwnWorker'
  <2>1. act'.stage = "admit"
    BY <1>13, FailsRecord
  <2> QED  BY <1>0, <1>13, <2>1, NothingRecord DEF OwnWorker, Fails, SameRunning
<1> QED
  BY <1>1, <1>2, <1>3, <1>4, <1>5, <1>6, <1>7, <1>8, <1>9, <1>10, <1>11, <1>12, <1>13,
     StepKinds DEF Begins

-----------------------------------------------------------------------------
(* What was asked for is loaded, and what failed was tried.                *)

LEMMA AsksAsked ==
    ASSUME NEW a \in Activations, NEW lv, NEW st, Exact(a, lv) \/ Loose(a, lv, st)
    PROVE  LoadsAsked(a)
  BY DEF LoadsAsked, Exact, Loose

\* Nothing of it depends on how far the activation is.
LEMMA SameAsked ==
    ASSUME NEW a, NEW b, NEW lv, NEW st, NEW cat, NEW br,
           b.raw = a.raw, b.chosen = a.chosen, b.change = a.change, b.gave = a.gave,
           b.failed = a.failed, b.tried = a.tried
    PROVE  /\ Asked(b) = Asked(a)
           /\ StagingLeft(a, st) => StagingLeft(b, st)
           /\ Exact(a, lv) => Exact(b, lv)
           /\ Loose(a, lv, st) => Loose(b, lv, st)
           /\ TriedSo(a, cat, br) => TriedSo(b, cat, br)
           /\ RawFits(a) => RawFits(b)
           /\ LiveFrom(a, lv) => LiveFrom(b, lv)
<1>1. Asked(b) = Asked(a)
  BY DEF Asked
<1> QED  BY <1>1 DEF StagingLeft, Exact, Loose, TriedSo, RawFits, LiveFrom

LEMMA AskedKept ==
    ASSUME WellTyped, WellTyped', OwnWorker, AskedInv, [ActivationNext]_activationVars
    PROVE  AskedInv'
<1>0. /\ act \in Activations /\ act' \in Activations /\ off \in SUBSET Extensions
      /\ live \in LiveSets /\ staging \in Changes /\ catalog \in Snapshots
      /\ broken \in SUBSET (Extensions \X Versions) /\ overlapped \in BOOLEAN
  BY DEF WellTyped, SettledTypes, RunningTypes, TaskTypes
<1>a. ~overlapped /\ act.stage # "none" => AskedFor(act, worker, live, staging, catalog, broken)
  BY DEF AskedInv
<1>b. act.stage \in {"none", "admit", "prepare", "boundary", "publish"}
  BY <1>0 DEF Activations
<1>1. CASE Idles
  BY <1>1 DEF Idles, SameRunning, AskedInv
<1>2. ASSUME NEW by, NEW change, Stage(by, change),
             UNCHANGED <<live, catalog, broken, worker>>
      PROVE  AskedInv'
  <2>1. /\ staging' = change /\ act'.stage = "admit"
        /\ act'.raw = Load(off, Applied(live, act'.change)) /\ act'.chosen = live
        /\ act'.change = change /\ act'.gave = {} /\ act'.failed = [e \in Extensions |-> 0]
    BY <1>2, BeginsRecord
  <2>2. PICK a \in Activations : a = act'
    BY <1>0
  <2>3. RawLoaded(a.raw) /\ StagingLeft(a, a.change) /\ Exact(a, live)
    BY <1>0, <2>1, <2>2, StagedExact
  <2>4. TriedSo(a, catalog, broken)
    BY <2>1, <2>2 DEF TriedSo
  <2>5. AskedFor(a, worker', live', staging', catalog', broken')
    BY <1>2, <2>1, <2>2, <2>3, <2>4 DEF AskedFor, Before
  <2> QED  BY <2>2, <2>5 DEF AskedInv
<1>3. CASE GiveWay
  <2> SUFFICES ASSUME ~overlapped
               PROVE  AskedFor(act', worker', live', staging', catalog', broken')
    BY <1>3, GiveWayRecord DEF AskedInv
  <2>1. PICK b \in Activations : b = act'
    BY <1>0
  <2>2. PICK g \in SUBSET Extensions : g = GivingWay
    BY <1>3, GiveWayRecord
  <2>3. /\ act.stage = "admit" /\ b.stage = "admit" /\ b.restaged = act.restaged
        /\ GaveWay(act, b, live, staging, g, off)
        /\ g = YieldingOf(act.raw, act.failed, catalog, broken)
        /\ live' = Without(live, g) /\ staging' = StagedWithout(staging, g)
        /\ b.failed = [e \in Extensions |-> IF e \in g THEN 0 ELSE act.failed[e]]
        /\ b.tried = act.tried
        /\ catalog' = catalog /\ broken' = broken
    BY <1>3, <2>1, <2>2, GiveWayRecord
  <2>4. /\ RawLoaded(act.raw) /\ StagingLeft(act, staging) /\ TriedSo(act, catalog, broken)
        /\ Exact(act, live) \/ (act.restaged /\ Loose(act, live, staging))
    BY <1>a, <2>3 DEF AskedFor, Before
  <2>5. Loose(act, live, staging)
    BY <1>0, <2>4, ExactWeakens
  <2>6. /\ RawLoaded(b.raw) /\ StagingLeft(b, StagedWithout(staging, g))
        /\ Exact(act, live) => Exact(b, Without(live, g))
        /\ Loose(act, live, staging) =>
             Loose(b, Without(live, g), StagedWithout(staging, g))
    BY <1>0, <2>3, <2>4, GivenWay
  <2>7. TriedSo(b, catalog, broken)
    BY <1>0, <2>3, <2>4, <2>5, TriedAsItGivesWay
  <2> QED  BY <2>1, <2>3, <2>4, <2>6, <2>7 DEF AskedFor, Before
<1>4. CASE Admit
  <2> SUFFICES ASSUME ~overlapped
               PROVE  AskedFor(act', worker', live', staging', catalog', broken')
    BY <1>4, AdmitRecord DEF AskedInv, SameRunning
  <2>1. PICK b \in Activations : b = act'
    BY <1>0
  <2>2. /\ act.stage = "admit" /\ b.stage = "prepare" /\ AdmittedAs(b, catalog, broken)
        /\ b.raw = act.raw /\ b.chosen = act.chosen /\ b.change = act.change
        /\ b.gave = act.gave /\ b.failed = act.failed /\ b.tried = act.tried
        /\ b.restaged = act.restaged
        /\ UNCHANGED <<live, staging, catalog, broken>>
    BY <1>4, <2>1, AdmitRecord DEF SameRunning
  <2>3. /\ RawLoaded(act.raw) /\ StagingLeft(act, staging) /\ TriedSo(act, catalog, broken)
        /\ Exact(act, live) \/ (act.restaged /\ Loose(act, live, staging))
    BY <1>a, <2>2 DEF AskedFor, Before
  <2>4. /\ RawLoaded(b.raw) /\ StagingLeft(b, staging) /\ TriedSo(b, catalog, broken)
        /\ Exact(b, live) \/ (b.restaged /\ Loose(b, live, staging))
    BY <2>2, <2>3, SameAsked
  <2> QED  BY <2>1, <2>2, <2>4 DEF AskedFor, Before
<1>5. CASE Prepare \/ TakeBoundary
  <2> SUFFICES ASSUME ~overlapped
               PROVE  AskedFor(act', worker', live', staging', catalog', broken')
    BY <1>5, PrepareRecord, TakeRecord DEF AskedInv, SameRunning
  <2>1. PICK b \in Activations : b = act'
    BY <1>0
  <2>2. /\ act.stage \in {"prepare", "boundary"} /\ b.stage \in {"boundary", "publish"}
        /\ b.raw = act.raw /\ b.chosen = act.chosen /\ b.change = act.change
        /\ b.gave = act.gave /\ b.failed = act.failed /\ b.tried = act.tried
        /\ b.cand = act.cand /\ b.held = act.held /\ b.restaged = act.restaged
        /\ UNCHANGED <<live, staging, catalog, broken>>
        /\ b.stage = "publish" => worker'.stage = "open" /\
             worker'.live = NewLive(act.cand, Kept(act), act.chosen)
    BY <1>5, <2>1, PrepareRecord, TakeRecord DEF SameRunning, OnlyStage
  <2>3. /\ RawLoaded(act.raw) /\ StagingLeft(act, staging) /\ TriedSo(act, catalog, broken)
        /\ Exact(act, live) \/ (act.restaged /\ Loose(act, live, staging))
        /\ AdmittedAs(act, catalog, broken)
    BY <1>a, <2>2 DEF AskedFor, Before
  <2>4. /\ RawLoaded(b.raw) /\ StagingLeft(b, staging) /\ TriedSo(b, catalog, broken)
        /\ Exact(b, live) \/ (b.restaged /\ Loose(b, live, staging))
    BY <2>2, <2>3, SameAsked
  <2>5. AdmittedAs(b, catalog, broken) /\ Kept(b) = Kept(act)
    BY <2>2, <2>3 DEF AdmittedAs, Kept
  <2>6. b.stage = "publish" => worker'.live = NewLive(b.cand, Kept(b), b.chosen)
    BY <2>2, <2>5
  <2> QED  BY <2>1, <2>2, <2>4, <2>5, <2>6 DEF AskedFor, Before
<1>7. CASE Closes
  BY <1>7, NothingRecord DEF AskedInv, Closes
<1>8. CASE OrphanEnds
  <2> SUFFICES ASSUME ~overlapped, act.stage # "none"
               PROVE  AskedFor(act, worker', live, staging, catalog, broken)
    BY <1>8 DEF AskedInv, OrphanEnds, SameRunning
  <2> QED  BY <1>a, <1>8 DEF AskedFor, Before, OrphanEnds
<1>9. CASE Repeats
  <2> SUFFICES ASSUME ~overlapped
               PROVE  AskedFor(act', worker', live', staging', catalog', broken')
    BY <1>9 DEF AskedInv, Repeats, SameRunning
  <2>1. PICK b \in Activations : b = act'
    BY <1>0
  <2>2. /\ act.stage = "publish" /\ ~act.restaged /\ b.stage = "admit" /\ b.restaged = TRUE
        /\ b.raw = act.raw /\ b.chosen = act.chosen /\ b.change = act.change
        /\ b.gave = act.gave /\ b.failed = act.failed /\ b.tried = act.tried
        /\ UNCHANGED <<live, staging, catalog, broken>>
    BY <1>9, <2>1, RepeatsRecord DEF Repeats, SameRunning, OnlyStage
  <2>3. /\ RawLoaded(act.raw) /\ StagingLeft(act, staging) /\ TriedSo(act, catalog, broken)
        /\ Exact(act, live) \/ Loose(act, live, staging)
    BY <1>a, <2>2 DEF AskedFor
  <2>4. /\ RawLoaded(b.raw) /\ StagingLeft(b, staging) /\ TriedSo(b, catalog, broken)
        /\ Exact(b, live) \/ Loose(b, live, staging)
    BY <2>2, <2>3, SameAsked
  <2> QED  BY <2>1, <2>2, <2>4 DEF AskedFor, Before
<1>10. CASE Commit
  <2> SUFFICES ASSUME ~overlapped, act.stage # "none"
               PROVE  AskedFor(act, worker', live, staging, catalog, broken)
    BY <1>10, CommitRecord DEF AskedInv
  <2>1. worker.stage = "open" /\ worker'.stage = "committed" /\ worker'.live = worker.live
    BY <1>10, CommitRecord
  <2> QED  BY <1>a, <2>1 DEF AskedFor, Before
<1>11. CASE Swap
  <2> SUFFICES ASSUME ~overlapped, act.stage # "none"
               PROVE  AskedFor(act, worker', worker.live, staging, worker.cand, broken)
    BY <1>11, SwapRecord DEF AskedInv
  <2>1. worker.stage = "committed" /\ worker'.stage = "swapped"
    BY <1>11, SwapRecord
  <2>2. act.stage = "publish" /\ worker.cand = act.cand
    BY <1>b, <2>1 DEF OwnWorker
  <2>3. /\ RawLoaded(act.raw) /\ StagingLeft(act, staging) /\ TriedSo(act, catalog, broken)
        /\ Exact(act, live) \/ (act.restaged /\ Loose(act, live, staging))
        /\ AdmittedAs(act, catalog, broken)
        /\ worker.live = NewLive(act.cand, Kept(act), act.chosen)
    BY <1>a, <2>1, <2>2 DEF AskedFor, Before
  <2>4. ~act.restaged => Loose(act, worker.live, staging)
    BY <1>0, <2>3, PublishedLoose
  <2>5. AdmittedAs(act, act.cand, broken)
    BY <1>0, <2>3, AdmittedAgain DEF AdmittedAs, Activations
  <2>6. TriedSo(act, act.cand, broken)
    BY <1>0, <2>3, TriedOfCandidate
  <2> QED  BY <2>1, <2>2, <2>3, <2>4, <2>5, <2>6 DEF AskedFor, Before
<1>12. CASE Restart
  BY <1>12, NothingRecord, RestartRecord DEF AskedInv
<1>13. ASSUME NEW problems \in SUBSET Extensions, Fails(problems)  PROVE AskedInv'
  <2> SUFFICES ASSUME ~overlapped
               PROVE  AskedFor(act', worker', live', staging', catalog', broken')
    BY <1>13 DEF AskedInv, Fails, SameRunning
  <2>1. PICK b \in Activations : b = act'
    BY <1>0
  <2>2. /\ b.stage = "admit" /\ b.restaged = act.restaged
        /\ b.raw = act.raw /\ b.chosen = act.chosen /\ b.change = act.change
        /\ b.gave = act.gave
        /\ b.failed = [e \in Extensions |-> IF e \in problems THEN act.failed[e] + 1
                                            ELSE act.failed[e]]
        /\ b.tried = act.tried \cup {<<e, act.cand.version[e]>> : e \in problems}
    BY <1>13, <2>1, FailsRecord
  <2>3. /\ act.stage \in {"prepare", "publish"} /\ problems \subseteq act.cand.on
        /\ Before(act, worker)
        /\ UNCHANGED <<live, staging, catalog, broken>>
    BY <1>13 DEF Fails, Before, OwnWorker, SameRunning
  <2>4. /\ RawLoaded(act.raw) /\ StagingLeft(act, staging) /\ TriedSo(act, catalog, broken)
        /\ Exact(act, live) \/ (act.restaged /\ Loose(act, live, staging))
        /\ AdmittedAs(act, catalog, broken)
    BY <1>a, <2>3 DEF AskedFor
  <2>5. LoadsAsked(act)
    BY <1>0, <2>4, AsksAsked
  <2>6. TriedSo(b, catalog, broken)
    BY <1>0, <2>2, <2>3, <2>4, <2>5, TriedAsItFails
  <2>7. /\ Exact(act, live) => Exact(b, live)
        /\ Loose(act, live, staging) => Loose(b, live, staging)
        /\ StagingLeft(b, staging)
    <3>1. Asked(b) = Asked(act)
      BY <2>2 DEF Asked
    <3> QED  BY <2>2, <2>4, <3>1 DEF Exact, Loose, StagingLeft
  <2> QED  BY <2>1, <2>2, <2>3, <2>4, <2>6, <2>7 DEF AskedFor, Before
<1> QED
  BY <1>1, <1>2, <1>3, <1>4, <1>5, <1>7, <1>8, <1>9, <1>10, <1>11, <1>12, <1>13, StepKinds
  DEF Begins

\* Nothing runs without what it requires, and what is out had its turn.
THEOREM WhatCanRuns == ActivationSpec => []RunsWhatCan
<1>1. ActivationInit => WellTyped /\ ClosedInv /\ OwnWorker /\ AskedInv
  <2> SUFFICES ASSUME ActivationInit
               PROVE  WellTyped /\ ClosedInv /\ OwnWorker /\ AskedInv
    OBVIOUS
  <2>1. act = NoAct /\ worker = NoWorker /\ catalog = NoSnapshot
    BY DEF ActivationInit
  <2> QED  BY <2>1, InitTyped, NothingRecord DEF ClosedInv, OwnWorker, AskedInv
<1>2. WellTyped /\ ClosedInv /\ OwnWorker /\ AskedInv /\ [ActivationNext]_activationVars
        => (WellTyped /\ ClosedInv /\ OwnWorker /\ AskedInv)'
  BY TypesKept, ClosedKept, OwnWorkerKept, AskedKept
<1>3. WellTyped /\ ClosedInv /\ OwnWorker /\ AskedInv => RunsWhatCan
  <2> SUFFICES ASSUME WellTyped, ClosedInv, OwnWorker, AskedInv
               PROVE  RequirementsRun /\ NothingOutInVain
    BY DEF RunsWhatCan
  <2>1. RequirementsRun
    BY DEF ClosedInv, Closed, RequirementsRun
  <2>2. ASSUME worker.stage = "committed", act.stage = "publish", ~overlapped,
               NEW e \in Extensions \ (worker.cand.source[1] \cup worker.cand.on),
               Requires[e] \subseteq worker.cand.on, Asked(act)[e] # NoVersion \/ e \in Ships
        PROVE  /\ \/ Asked(act)[e] = NoVersion \/ <<e, Asked(act)[e]>> \in broken \cup act.tried
                  \/ e \in act.gave /\ Requires[e] # {}
               /\ e \in catalog.on => <<e, catalog.version[e]>> \in act.tried
               /\ e \in Ships => <<e, Shipped>> \in act.tried
    <3>1. /\ act \in Activations /\ catalog \in Snapshots
          /\ broken \in SUBSET (Extensions \X Versions)
      BY DEF WellTyped, SettledTypes, RunningTypes, TaskTypes
    <3>2. worker.cand = act.cand
      BY <2>2 DEF OwnWorker
    <3>3. /\ AdmittedAs(act, catalog, broken) /\ RawLoaded(act.raw)
          /\ TriedSo(act, catalog, broken)
          /\ Exact(act, live) \/ Loose(act, live, staging)
      BY <2>2 DEF AskedInv, AskedFor, Before
    <3>4. LoadsAsked(act)
      BY <3>1, <3>3, AsksAsked
    <3> QED  BY <2>2, <3>1, <3>2, <3>3, <3>4, OutWhenTried
  <2>3. NothingOutInVain
    BY <2>2 DEF NothingOutInVain, Asked
  <2> QED  BY <2>1, <2>3
<1> QED  BY <1>1, <1>2, <1>3, PTL DEF ActivationSpec

-----------------------------------------------------------------------------
(* What was chosen stays recorded.                                         *)

LEMMA AskedTwice ==
    ASSUME NEW a \in Activations
    PROVE  Applied(Asked(a), a.change) = Asked(a)
<1>1. a.chosen \in LiveSets /\ a.change \in Changes /\ Asked(a) \in LiveSets
  BY AskedOf
<1>2. Applied(Asked(a), a.change) \in LiveSets
  BY <1>1, AppliedTyped
<1>3. \A e \in Extensions : Applied(Asked(a), a.change)[e] = Asked(a)[e]
  <2>1. CASE a.change = NoChange
    BY <1>1, <2>1, AppliedTyped
  <2>2. CASE a.change # NoChange
    <3>1. /\ a.change[1] \in Extensions
          /\ Applied(Asked(a), a.change)[a.change[1]] = a.change[2]
          /\ \A e \in Extensions \ {a.change[1]} : Applied(Asked(a), a.change)[e] = Asked(a)[e]
      BY <1>1, <2>2, AppliedTyped
    <3>2. Asked(a)[a.change[1]] = a.change[2]
      BY <1>1, <2>2, AppliedTyped DEF Asked
    <3> QED  BY <3>1, <3>2
  <2> QED  BY <2>1, <2>2
<1> QED  BY <1>1, <1>2, <1>3 DEF LiveSets

\* Moving on changes nothing of it.
LEMMA SameChosen ==
    ASSUME NEW a, NEW b, NEW lv, NEW ch, NEW cat, NEW br,
           b.raw = a.raw, b.chosen = a.chosen, b.change = a.change, b.gave = a.gave,
           b.failed = a.failed, b.cand = a.cand, b.held = a.held
    PROVE  /\ Kept(b) = Kept(a) /\ Ran(b) = Ran(a) /\ Asked(b) = Asked(a) /\ Target(b) = Target(a)
           /\ RawFits(a) => RawFits(b)
           /\ Untouched(a, lv, cat) => Untouched(b, lv, cat)
           /\ AdmittedAs(a, cat, br) => AdmittedAs(b, cat, br)
           /\ b.restaged = a.restaged /\ Again(a, ch, cat, br) => Again(b, ch, cat, br)
<1>1. Kept(b) = Kept(a) /\ Ran(b) = Ran(a) /\ Asked(b) = Asked(a)
  BY DEF Kept, Ran, Asked
<1>2. Target(b) = Target(a)
  BY <1>1 DEF Target
<1>3. AdmittedAs(a, cat, br) => AdmittedAs(b, cat, br)
  BY DEF AdmittedAs
<1>4. RawFits(a) => RawFits(b)
  BY <1>1 DEF RawFits
<1>5. Untouched(a, lv, cat) => Untouched(b, lv, cat)
  BY DEF Untouched, LiveFrom
<1>6. b.restaged = a.restaged /\ Again(a, ch, cat, br) => Again(b, ch, cat, br)
  BY <1>1, <1>2, <1>3 DEF Again
<1> QED  BY <1>1, <1>2, <1>3, <1>4, <1>5, <1>6

LEMMA ChosenGivesWay ==
    ASSUME WellTyped, WellTyped', OwnWorker, AskedInv, ChosenInv, GiveWay
    PROVE  ChosenInv'
<1> SUFFICES ASSUME ~slipped, ~overlapped
             PROVE  /\ Chosen(worker', act', live', recorded', choice', catalog')
                    /\ ChosenFor(act', worker', live', choice', catalog', broken')
  BY GiveWayRecord DEF ChosenInv
<1>0. /\ act \in Activations /\ act' \in Activations /\ off \in SUBSET Extensions
      /\ live \in LiveSets /\ staging \in Changes
  BY DEF WellTyped, SettledTypes, TaskTypes
<1>1. PICK b \in Activations : b = act'
  BY <1>0
<1>2. PICK g \in SUBSET Extensions : g = GivingWay
  BY GiveWayRecord
<1>3. /\ act.stage = "admit" /\ b.stage = "admit" /\ g # {}
      /\ g = YieldingOf(act.raw, act.failed, catalog, broken)
      /\ live' = Without(live, g) /\ GaveWay(act, b, live, staging, g, off)
      /\ UNCHANGED <<recorded, choice, catalog, broken, worker>>
  BY <1>1, <1>2, GiveWayRecord
<1>4. worker.stage = "none"
  BY <1>3 DEF OwnWorker
<1>5. /\ Chosen(worker, act, live, recorded, choice, catalog)
      /\ ChosenFor(act, worker, live, choice, catalog, broken)
      /\ StagingLeft(act, staging)
  BY <1>3 DEF ChosenInv, AskedInv, AskedFor
<1>6. ~Again(act, choice, catalog, broken)
  BY <1>3 DEF Again, AdmittedAs
<1>7. choice = act.chosen /\ Fits(act.chosen, catalog) /\ LiveFrom(act, live)
  BY <1>3, <1>5, <1>6 DEF ChosenFor, Untouched
<1>8. b.chosen = act.chosen /\ LiveFrom(b, Without(live, g)) /\ RawFits(b)
  BY <1>0, <1>3, <1>5, <1>7, GivenWay DEF GaveWay
<1>9. recorded = choice
  BY <1>5 DEF Chosen
<1>10. Chosen(worker', b, live', recorded', choice', catalog')
  BY <1>3, <1>4, <1>7, <1>9 DEF Chosen
<1>11. ChosenFor(b, worker', live', choice', catalog', broken')
  BY <1>3, <1>7, <1>8 DEF ChosenFor, Untouched
<1> QED  BY <1>1, <1>10, <1>11

LEMMA ChosenAdmits ==
    ASSUME WellTyped, WellTyped', OwnWorker, ChosenInv, Admit
    PROVE  ChosenInv'
<1> SUFFICES ASSUME ~slipped, ~overlapped
             PROVE  /\ Chosen(worker', act', live', recorded', choice', catalog')
                    /\ ChosenFor(act', worker', live', choice', catalog', broken')
  BY AdmitRecord DEF ChosenInv, SameRunning
<1>0. act \in Activations /\ act' \in Activations /\ catalog \in Snapshots
  BY DEF WellTyped, RunningTypes, TaskTypes
<1>1. PICK b \in Activations : b = act'
  BY <1>0
<1>2. /\ act.stage = "admit" /\ b.stage = "prepare" /\ AdmittedAs(b, catalog, broken)
      /\ b.cand = CandOf(act.raw, act.failed, catalog, broken)
      /\ b.held = HeldOf(act.raw, act.failed, catalog, broken)
      /\ b.raw = act.raw /\ b.chosen = act.chosen /\ b.change = act.change
      /\ b.gave = act.gave /\ b.failed = act.failed /\ b.restaged = act.restaged
      /\ UNCHANGED <<live, recorded, choice, catalog, broken, worker>>
  BY <1>1, AdmitRecord DEF SameRunning
<1>3. worker.stage = "none"
  BY <1>2 DEF OwnWorker
<1>4. /\ Chosen(worker, act, live, recorded, choice, catalog)
      /\ ChosenFor(act, worker, live, choice, catalog, broken)
  BY <1>2 DEF ChosenInv
<1>5. Asked(b) = Asked(act)
  BY <1>2 DEF Asked
<1>6. RawFits(b)
  BY <1>2, <1>4, <1>5 DEF ChosenFor, RawFits
<1>7. CASE choice = act.chosen /\ Untouched(act, live, catalog)
  <2>1. Untouched(b, live, catalog)
    BY <1>2, <1>7 DEF Untouched, LiveFrom
  <2>2. NewLive(b.cand, Kept(b), b.chosen) = Target(b)
    BY <1>0, <1>2, <1>6, <2>1, LiveIsTarget DEF Untouched
  <2> QED  BY <1>1, <1>2, <1>3, <1>4, <1>6, <1>7, <2>1, <2>2 DEF ChosenFor, Chosen
<1>8. CASE Again(act, choice, catalog, broken)
  <2>1. b.cand = act.cand /\ b.held = act.held
    BY <1>2, <1>8 DEF Again, AdmittedAs
  <2>2. Again(b, choice, catalog, broken)
    BY <1>2, <1>8, <2>1, SameChosen
  <2> QED  BY <1>1, <1>2, <1>3, <1>4, <1>6, <2>2 DEF ChosenFor, Chosen, Again
<1> QED  BY <1>2, <1>4, <1>7, <1>8 DEF ChosenFor

LEMMA ChosenTakes ==
    ASSUME WellTyped, WellTyped', OwnWorker, ChosenInv, TakeBoundary
    PROVE  ChosenInv'
<1> SUFFICES ASSUME ~slipped, ~overlapped
             PROVE  /\ Chosen(worker', act', live', recorded', choice', catalog')
                    /\ ChosenFor(act', worker', live', choice', catalog', broken')
  BY TakeRecord DEF ChosenInv, SameRunning
<1>0. act \in Activations /\ act' \in Activations
  BY DEF WellTyped, TaskTypes
<1>1. PICK b \in Activations : b = act'
  BY <1>0
<1>2. /\ act.stage = "boundary" /\ b.stage = "publish" /\ b.restaged = act.restaged
      /\ b.raw = act.raw /\ b.chosen = act.chosen /\ b.change = act.change
      /\ b.gave = act.gave /\ b.failed = act.failed /\ b.cand = act.cand /\ b.held = act.held
      /\ UNCHANGED <<live, recorded, choice, catalog, broken>>
      /\ worker'.stage = "open" /\ worker'.cand = act.cand
      /\ worker'.live = NewLive(act.cand, Kept(act), act.chosen)
      /\ worker'.choice = IF Ran(act) THEN Applied(choice, act.change) ELSE choice
  BY <1>1, TakeRecord DEF SameRunning, OnlyStage
<1>3. /\ Chosen(worker, act, live, recorded, choice, catalog)
      /\ ChosenFor(act, worker, live, choice, catalog, broken)
  BY <1>2 DEF ChosenInv
<1>4. worker'.live = Target(act) /\ Target(b) = Target(act)
  BY <1>2, <1>3, SameChosen DEF ChosenFor
<1>5. Fits(worker'.live, worker'.cand)
  BY <1>2, NewLiveFits
<1>6. worker'.choice = Target(act) /\ (Target(act) = live => Fits(live, catalog))
  <2>1. CASE choice = act.chosen /\ Untouched(act, live, catalog)
    <3>1. worker'.choice = Target(act)
      BY <1>2, <2>1 DEF Target, Asked
    <3>2. live = Target(act) => Fits(live, catalog)
      BY <1>0, <2>1, TargetFits
    <3> QED  BY <3>1, <3>2
  <2>2. CASE Again(act, choice, catalog, broken)
    <3>1. Ran(act) /\ choice = Asked(act) /\ Target(act) = Asked(act)
      BY <2>2 DEF Again, Target
    <3>2. worker'.choice = Target(act)
      BY <1>0, <1>2, <3>1, AskedTwice
    <3> QED  BY <1>3, <3>1, <3>2 DEF Chosen
  <2> QED  BY <1>2, <1>3, <2>1, <2>2 DEF ChosenFor
<1>7. \/ choice = b.chosen /\ Untouched(b, live, catalog)
      \/ Again(b, choice, catalog, broken)
  BY <1>2, <1>3, SameChosen DEF ChosenFor
<1>8. RawFits(b) /\ NewLive(b.cand, Kept(b), b.chosen) = Target(b)
  BY <1>2, <1>3, <1>4, SameChosen DEF ChosenFor
<1>9. Chosen(worker', b, live', recorded', choice', catalog')
  BY <1>2, <1>3, <1>4, <1>5, <1>6 DEF Chosen
<1>10. ChosenFor(b, worker', live', choice', catalog', broken')
  BY <1>2, <1>4, <1>7, <1>8 DEF ChosenFor
<1> QED  BY <1>1, <1>9, <1>10
LEMMA ChosenRepeats ==
    ASSUME WellTyped, WellTyped', OwnWorker, AskedInv, ChosenInv, Repeats
    PROVE  ChosenInv'
<1> SUFFICES ASSUME ~slipped, ~overlapped
             PROVE  /\ Chosen(worker', act', live', recorded', choice', catalog')
                    /\ ChosenFor(act', worker', live', choice', catalog', broken')
  BY DEF ChosenInv, Repeats, SameRunning
<1>0. act \in Activations /\ act' \in Activations
      /\ worker.stage \in {"none", "open", "committed", "swapped"}
  BY DEF WellTyped, TaskTypes, Workers
<1>1. PICK b \in Activations : b = act'
  BY <1>0
<1>2. /\ act.stage = "publish" /\ ~act.restaged /\ worker.stage # "none"
      /\ b.stage = "admit" /\ b.restaged
      /\ b.raw = act.raw /\ b.chosen = act.chosen /\ b.change = act.change
      /\ b.gave = act.gave /\ b.failed = act.failed /\ b.cand = act.cand /\ b.held = act.held
      /\ UNCHANGED <<live, recorded, choice, catalog, broken>> /\ worker'.stage = "none"
  BY <1>1, RepeatsRecord, NothingRecord DEF Repeats, SameRunning, OnlyStage
<1>3. /\ Chosen(worker, act, live, recorded, choice, catalog)
      /\ ChosenFor(act, worker, live, choice, catalog, broken)
      /\ AdmittedAs(act, catalog, broken)
  BY <1>2 DEF ChosenInv, AskedInv, AskedFor
<1>4. /\ Kept(b) = Kept(act) /\ Ran(b) = Ran(act) /\ Asked(b) = Asked(act)
      /\ Target(b) = Target(act) /\ RawFits(b) /\ AdmittedAs(b, catalog, broken)
      /\ Untouched(act, live, catalog) => Untouched(b, live, catalog)
  BY <1>2, <1>3, SameChosen DEF ChosenFor
<1>5. NewLive(act.cand, Kept(act), act.chosen) = Target(act)
  BY <1>2, <1>3 DEF ChosenFor
<1>6. \/ choice = b.chosen /\ Untouched(b, live, catalog)
      \/ Again(b, choice, catalog, broken)
  <2>1. CASE worker.stage = "open"
    <3>1. choice = act.chosen /\ Untouched(act, live, catalog)
      BY <1>2, <1>3, <2>1 DEF ChosenFor, Again
    <3> QED  BY <1>2, <1>4, <3>1
  <2>2. CASE worker.stage # "open"
    <3>1. choice = Target(act)
      BY <1>2, <1>3, <2>2 DEF ChosenFor
    <3>2. CASE Ran(act)
      <4>1. choice = Asked(b) /\ NewLive(b.cand, Kept(b), b.chosen) = Target(b)
        BY <1>2, <1>4, <1>5, <3>1, <3>2 DEF Target
      <4> QED  BY <1>2, <1>4, <3>2, <4>1 DEF Again
    <3>3. CASE ~Ran(act)
      <4>1. choice = act.chosen /\ Target(act) = act.chosen
        BY <3>1, <3>3 DEF Target
      <4>2. CASE worker.stage = "committed"
        BY <1>2, <1>3, <1>4, <4>1, <4>2 DEF ChosenFor
      <4>3. CASE worker.stage = "swapped"
        <5>1. live = act.chosen /\ catalog = act.cand
          BY <1>2, <1>3, <4>1, <4>3 DEF ChosenFor
        <5>2. Fits(act.chosen, act.cand)
          BY <1>5, <4>1, NewLiveFits
        <5>3. LiveFrom(act, live)
          BY <5>1 DEF LiveFrom
        <5> QED  BY <1>2, <1>4, <4>1, <5>1, <5>2, <5>3 DEF Untouched
      <4> QED  BY <1>0, <1>2, <2>2, <4>2, <4>3
    <3> QED  BY <3>2, <3>3
  <2> QED  BY <2>1, <2>2
<1>7. Chosen(worker', b, live', recorded', choice', catalog')
  BY <1>2, <1>3 DEF Chosen
<1>8. ChosenFor(b, worker', live', choice', catalog', broken')
  BY <1>2, <1>4, <1>6 DEF ChosenFor
<1> QED  BY <1>1, <1>7, <1>8

LEMMA ChosenFails ==
    ASSUME WellTyped, WellTyped', OwnWorker, ChosenInv, NEW problems \in SUBSET Extensions,
           Fails(problems)
    PROVE  ChosenInv'
<1> SUFFICES ASSUME ~slipped, ~overlapped, ~(act.restaged /\ act.change # NoChange)
             PROVE  /\ Chosen(worker', act', live', recorded', choice', catalog')
                    /\ ChosenFor(act', worker', live', choice', catalog', broken')
  BY FailsRecord DEF ChosenInv, Fails, SameRunning
<1>1. PICK b \in Activations : b = act'
  BY DEF WellTyped, TaskTypes
<1>2. /\ b.stage = "admit"
      /\ b.raw = act.raw /\ b.chosen = act.chosen /\ b.change = act.change /\ b.gave = act.gave
  BY <1>1, FailsRecord
<1>3. /\ act.stage = "prepare" \/ (act.stage = "publish" /\ worker.stage = "open")
      /\ UNCHANGED <<live, recorded, choice, catalog, broken>>
      /\ worker'.stage = "none"
  BY NothingRecord DEF Fails, SameRunning, OwnWorker
<1>4. /\ Chosen(worker, act, live, recorded, choice, catalog)
      /\ ChosenFor(act, worker, live, choice, catalog, broken)
  BY <1>3 DEF ChosenInv
<1>5. choice = act.chosen /\ Untouched(act, live, catalog)
  BY <1>3, <1>4 DEF ChosenFor, Again, Ran
<1>6. Asked(b) = Asked(act)
  BY <1>2 DEF Asked
<1>7. RawFits(b) /\ Untouched(b, live, catalog)
  BY <1>2, <1>4, <1>5, <1>6 DEF ChosenFor, RawFits, Untouched, LiveFrom
<1>8. Chosen(worker', b, live', recorded', choice', catalog')
  BY <1>2, <1>3, <1>4 DEF Chosen
<1>9. ChosenFor(b, worker', live', choice', catalog', broken')
  BY <1>2, <1>3, <1>5, <1>7 DEF ChosenFor
<1> QED  BY <1>1, <1>8, <1>9

LEMMA ChosenInvKept ==
    ASSUME WellTyped, WellTyped', OwnWorker, AskedInv, ChosenInv, [ActivationNext]_activationVars
    PROVE  ChosenInv'
<1>0. /\ act \in Activations /\ act' \in Activations /\ off \in SUBSET Extensions
      /\ live \in LiveSets /\ slipped \in BOOLEAN /\ overlapped \in BOOLEAN
      /\ act.stage \in {"none", "admit", "prepare", "boundary", "publish"}
  BY DEF WellTyped, SettledTypes, TaskTypes, Activations
<1>1. CASE Idles
  BY <1>1 DEF Idles, SameRunning, ChosenInv
<1>2. ASSUME NEW by, NEW change, Stage(by, change),
             UNCHANGED <<live, recorded, choice, catalog, broken, worker, slipped>>
      PROVE  ChosenInv'
  <2>1. /\ act = NoAct /\ overlapped' = (overlapped \/ worker.stage # "none")
        /\ act'.stage = "admit" /\ act'.raw = Load(off, Applied(live, act'.change))
        /\ act'.chosen = live /\ act'.gave = {}
    BY <1>2, BeginsRecord
  <2> SUFFICES ASSUME ~slipped, ~overlapped, worker.stage = "none"
               PROVE  /\ Chosen(worker', act', live', recorded', choice', catalog')
                      /\ ChosenFor(act', worker', live', choice', catalog', broken')
    BY <1>2, <2>1 DEF ChosenInv
  <2>2. PICK b \in Activations : b = act'
    BY <1>0
  <2>3. Chosen(worker, act, live, recorded, choice, catalog) /\ act.stage = "none"
    BY <2>1, NothingRecord DEF ChosenInv
  <2>4. Exact(b, live) /\ StagingLeft(b, b.change)
    BY <1>0, <2>1, <2>2, StagedExact
  <2>5. LiveFrom(b, live) /\ RawFits(b)
    BY <1>0, <2>4, ExactWeakens DEF Activations
  <2>6. live = recorded /\ recorded = choice /\ Fits(live, catalog)
    BY <2>3 DEF Chosen
  <2>7. Chosen(worker', b, live', recorded', choice', catalog')
    BY <1>2, <2>6 DEF Chosen
  <2>8. ChosenFor(b, worker', live', choice', catalog', broken')
    BY <1>2, <2>1, <2>2, <2>5, <2>6 DEF ChosenFor, Untouched
  <2> QED  BY <2>2, <2>7, <2>8
<1>3. CASE GiveWay
  BY <1>3, ChosenGivesWay
<1>4. CASE Admit
  BY <1>4, ChosenAdmits
<1>5. CASE Prepare
  <2> SUFFICES ASSUME ~slipped, ~overlapped
               PROVE  /\ Chosen(worker', act', live', recorded', choice', catalog')
                      /\ ChosenFor(act', worker', live', choice', catalog', broken')
    BY <1>5, PrepareRecord DEF ChosenInv, SameRunning
  <2>1. PICK b \in Activations : b = act'
    BY <1>0
  <2>2. /\ act.stage = "prepare" /\ b.stage = "boundary" /\ b.restaged = act.restaged
        /\ b.raw = act.raw /\ b.chosen = act.chosen /\ b.change = act.change
        /\ b.gave = act.gave /\ b.failed = act.failed /\ b.cand = act.cand /\ b.held = act.held
        /\ UNCHANGED <<live, recorded, choice, catalog, broken, worker>>
    BY <1>5, <2>1, PrepareRecord DEF SameRunning, OnlyStage
  <2>3. /\ Chosen(worker, act, live, recorded, choice, catalog)
        /\ ChosenFor(act, worker, live, choice, catalog, broken)
    BY <2>2 DEF ChosenInv
  <2>4. /\ \/ choice = b.chosen /\ Untouched(b, live, catalog)
           \/ Again(b, choice, catalog, broken)
        /\ RawFits(b) /\ NewLive(b.cand, Kept(b), b.chosen) = Target(b)
    BY <2>2, <2>3, SameChosen DEF ChosenFor
  <2>5. Chosen(worker', b, live', recorded', choice', catalog')
    BY <2>2, <2>3 DEF Chosen
  <2>6. ChosenFor(b, worker', live', choice', catalog', broken')
    BY <2>2, <2>4 DEF ChosenFor
  <2> QED  BY <2>1, <2>5, <2>6
<1>6. CASE TakeBoundary
  BY <1>6, ChosenTakes
<1>7. CASE Closes
  <2> SUFFICES ASSUME ~slipped, ~overlapped, ~slipped'
               PROVE  Chosen(worker', act', live', recorded', choice', catalog')
    BY <1>0, <1>7, NothingRecord DEF ChosenInv, Closes, SameRunning
  <2>1. Chosen(worker, act, live, recorded, choice, catalog)
    BY DEF ChosenInv
  <2>2. live = recorded \/ worker'.stage # "none"
    BY <1>7 DEF Closes, OwnWorker
  <2>3. worker' = worker \/ worker'.stage = "none"
    BY <1>7, NothingRecord DEF Closes
  <2>4. UNCHANGED <<live, recorded, choice, catalog>>
    BY <1>7 DEF Closes, SameRunning
  <2> QED  BY <2>1, <2>2, <2>3, <2>4 DEF Chosen
<1>8. CASE OrphanEnds
  <2> SUFFICES ASSUME ~slipped, ~overlapped, ~slipped'
               PROVE  Chosen(worker', act', live', recorded', choice', catalog')
                      /\ act'.stage = "none"
    BY <1>0, <1>8 DEF ChosenInv, OrphanEnds, SameRunning
  <2>1. Chosen(worker, act, live, recorded, choice, catalog)
    BY DEF ChosenInv
  <2>2. act.stage = "none" /\ live = recorded
    BY <1>0, <1>8 DEF OrphanEnds, OwnWorker
  <2>3. worker'.stage = "none" /\ UNCHANGED <<act, live, recorded, choice, catalog>>
    BY <1>8, NothingRecord DEF OrphanEnds, SameRunning
  <2> QED  BY <2>1, <2>2, <2>3 DEF Chosen
<1>9. CASE Repeats
  BY <1>9, ChosenRepeats
<1>10. CASE Commit
  <2>1. /\ worker.stage = "open" /\ worker'.stage = "committed" /\ worker'.cand = worker.cand
        /\ worker'.live = worker.live
        /\ recorded' = worker.live /\ choice' = worker.choice
        /\ UNCHANGED <<act, live, catalog, broken, slipped, overlapped>>
    BY <1>10, CommitRecord
  <2> SUFFICES ASSUME ~slipped, ~overlapped
               PROVE  /\ Chosen(worker', act, live, recorded', choice', catalog)
                      /\ act.stage # "none" =>
                           ChosenFor(act, worker', live, choice', catalog, broken)
    BY <2>1 DEF ChosenInv
  <2>2. Chosen(worker, act, live, recorded, choice, catalog)
    BY DEF ChosenInv
  <2>3. Chosen(worker', act, live, recorded', choice', catalog)
    BY <2>1, <2>2 DEF Chosen
  <2>4. ASSUME act.stage # "none"  PROVE ChosenFor(act, worker', live, choice', catalog, broken)
    <3>1. act.stage = "publish"
      BY <1>0, <2>1, <2>4 DEF OwnWorker
    <3>2. ChosenFor(act, worker, live, choice, catalog, broken)
      BY <2>4 DEF ChosenInv
    <3>3. worker.choice = worker.live
      BY <2>1, <2>2 DEF Chosen
    <3> QED  BY <2>1, <3>1, <3>2, <3>3 DEF ChosenFor, Again
  <2> QED  BY <2>3, <2>4
<1>11. CASE Swap
  <2>1. /\ worker.stage = "committed" /\ worker'.stage = "swapped"
        /\ catalog' = worker.cand /\ live' = worker.live
        /\ UNCHANGED <<act, recorded, choice, broken, slipped, overlapped>>
    BY <1>11, SwapRecord
  <2> SUFFICES ASSUME ~slipped, ~overlapped
               PROVE  /\ Chosen(worker', act, worker.live, recorded, choice, worker.cand)
                      /\ act.stage # "none" =>
                           ChosenFor(act, worker', worker.live, choice, worker.cand, broken)
    BY <2>1 DEF ChosenInv
  <2>2. Chosen(worker, act, live, recorded, choice, catalog)
    BY DEF ChosenInv
  <2>3. Chosen(worker', act, worker.live, recorded, choice, worker.cand)
    BY <2>1, <2>2 DEF Chosen
  <2>4. ASSUME act.stage # "none"
        PROVE  ChosenFor(act, worker', worker.live, choice, worker.cand, broken)
    <3>1. act.stage = "publish" /\ worker.cand = act.cand
      BY <1>0, <2>1, <2>4 DEF OwnWorker
    <3>2. ChosenFor(act, worker, live, choice, catalog, broken)
      BY <2>4 DEF ChosenInv
    <3> QED  BY <2>1, <3>1, <3>2 DEF ChosenFor
  <2> QED  BY <2>3, <2>4
<1>12. CASE Restart
  <2>1. Fits(recorded, NoSnapshot)
    BY VersionsNamed DEF Fits, NoSnapshot, NoneLive
  <2> QED  BY <1>12, <2>1, NothingRecord, RestartRecord DEF ChosenInv, Chosen
<1>13. ASSUME NEW problems \in SUBSET Extensions, Fails(problems)  PROVE ChosenInv'
  BY <1>13, ChosenFails
<1> QED
  BY <1>1, <1>2, <1>3, <1>4, <1>5, <1>6, <1>7, <1>8, <1>9, <1>10, <1>11, <1>12, <1>13, StepKinds
  DEF Begins

\* The deployments recorded active are the ones last chosen that ran, through
\* failures, copies that gave way, panics and restarts.
THEOREM ChosenStaysRecorded == ActivationSpec => []ChosenKept
<1>1. ActivationInit => WellTyped /\ OwnWorker /\ AskedInv /\ ChosenInv
  <2> SUFFICES ASSUME ActivationInit
               PROVE  WellTyped /\ OwnWorker /\ AskedInv /\ ChosenInv
    OBVIOUS
  <2>1. act = NoAct /\ worker = NoWorker /\ catalog = NoSnapshot /\ live = recorded
        /\ choice = recorded
    BY DEF ActivationInit
  <2>2. Fits(live, NoSnapshot)
    BY VersionsNamed DEF Fits, NoSnapshot, NoneLive
  <2> QED  BY <2>1, <2>2, InitTyped, NothingRecord
           DEF OwnWorker, AskedInv, ChosenInv, Chosen
<1>2. WellTyped /\ OwnWorker /\ AskedInv /\ ChosenInv /\ [ActivationNext]_activationVars
        => (WellTyped /\ OwnWorker /\ AskedInv /\ ChosenInv)'
  BY TypesKept, OwnWorkerKept, AskedKept, ChosenInvKept
<1>3. ChosenInv => ChosenKept
  BY DEF ChosenInv, Chosen, ChosenKept
<1> QED  BY <1>1, <1>2, <1>3, PTL DEF ActivationSpec
-----------------------------------------------------------------------------
(* What runs was built from the settings as they are, or somebody will be  *)
(* told of it.                                                             *)

\* The boot is the only activation before the process is up, with no worker of
\* another; it is over once it is.
InStep ==
    /\ phase = "up" => act.by # "boot"
    /\ phase # "up" =>
         /\ act.by \notin {"owner", "deploy"}
         /\ worker.stage # "none" => act.stage = "publish"
    /\ phase \in {"booted", "down"} => act = NoAct

\* The owner has been told of a change, or will be.
Owed == untold \/ permit

\* What the owner loaded, what a worker has committed and what runs are of the
\* settings as they are, unless the owner is told again or failed; what a
\* worker left behind has committed is older than the request the owner has
\* taken since.
Serving ==
    /\ untold \in BOOLEAN /\ permit \in BOOLEAN /\ spoiled \in BOOLEAN
    /\ act.by = "owner" => act.raw.source[1] = off \/ Owed
    /\ phase = "up" /\ worker.stage \in {"committed", "swapped"} =>
         \/ worker.cand.source[1] = off \/ Owed
         \/ act.stage # "publish" /\ (act.by = "owner" \/ spoiled)
    /\ phase = "up" => catalog.source[1] = off \/ Owed \/ spoiled \/ act.by = "owner"

ServedInv == InStep /\ Serving

SameSettings == UNCHANGED <<off, untold, permit, catalog>>

LEMMA LoadedSettings ==
    ASSUME NEW o, NEW map
    PROVE  Load(o, map).source[1] = o
<1>1. Load(o, map).source = <<o, map>>
  BY DEF Load
<1> QED  BY <1>1

LEMMA CurrentSettings == Current.source[1] = off
  BY LoadedSettings DEF Current

LEMMA NobodyActs ==
    NoAct.by = "nobody" /\ NoAct.stage = "none" /\ NoWorker.stage = "none"
  BY DEF NoAct, NoWorker

\* A step of an activation that neither begins nor ends it, and of a worker
\* that takes the boundary or ends.
LEMMA ServedAsItMoves ==
    ASSUME WellTyped, ServedInv, SameSettings, UNCHANGED <<phase, spoiled>>,
           act'.by = act.by,
           act'.raw.source[1] = act.raw.source[1] \/ act'.raw.source[1] = off,
           \/ worker' = worker /\ (act'.stage = "publish" <=> act.stage = "publish")
           \/ worker'.stage = "none"
           \/ worker'.stage = "open" /\ act'.stage = "publish",
           act # NoAct \/ act' = act
    PROVE  ServedInv'
<1>1. InStep'
  BY DEF ServedInv, InStep
<1>2. Serving'
  BY DEF ServedInv, Serving, Owed, SameSettings
<1> QED  BY <1>1, <1>2 DEF ServedInv

\* The end of an activation.
LEMMA ServedAsItEnds ==
    ASSUME WellTyped, ServedInv, SameSettings, NEW outcome, Ends(outcome), act # NoAct,
           (worker' = worker /\ act.stage # "publish") \/ worker' = NoWorker,
           outcome = "ok" => /\ worker.stage = "swapped" /\ catalog = worker.cand
                             /\ act.stage = "publish"
    PROVE  ServedInv'
<1>1. /\ act' = NoAct /\ act'.by = "nobody" /\ act'.stage = "none"
      /\ phase' = phase \/ (act.by = "boot" /\ phase' \in {"booted", "down"})
  BY NobodyActs DEF Ends
<1>2. (worker' = worker /\ act.stage # "publish") \/ worker'.stage = "none"
  BY NobodyActs
<1>3. InStep'
  BY <1>1, <1>2 DEF ServedInv, InStep
<1>4. phase' = "up" => phase = "up"
  BY <1>1
<1>5. CASE outcome = "ok"
  <2>1. spoiled' = FALSE /\ worker'.stage = "none"
    BY <1>2, <1>5 DEF Ends
  <2>2. phase = "up" => catalog.source[1] = off \/ Owed
    BY <1>5 DEF ServedInv, Serving
  <2>3. Serving'
    BY <1>1, <1>4, <2>1, <2>2 DEF ServedInv, Serving, Owed, SameSettings
  <2> QED  BY <1>3, <2>3 DEF ServedInv
<1>6. CASE outcome # "ok"
  <2>1. spoiled' = (spoiled \/ (act.by = "owner" /\ off = act.raw.source[1]))
    BY <1>6 DEF Ends
  <2>2. spoiled' \in BOOLEAN /\ (spoiled => spoiled')
        /\ (act.by = "owner" => spoiled' \/ Owed)
    BY <2>1 DEF ServedInv, Serving
  <2>3. Serving'
    BY <1>1, <1>2, <1>4, <2>2 DEF ServedInv, Serving, Owed, SameSettings
  <2> QED  BY <1>3, <2>3 DEF ServedInv
<1> QED  BY <1>5, <1>6

\* The end of a worker, for an activation that waits for it or for nobody.
LEMMA ServedAsWorkerEnds ==
    ASSUME WellTyped, ServedInv, SameSettings, worker' = NoWorker,
           UNCHANGED <<act, phase, spoiled>>
    PROVE  ServedInv'
  BY ServedAsItMoves, NobodyActs

LEMMA ServedAsItRestages ==
    ASSUME WellTyped, ServedInv, SameSettings, Restages, act.stage = "publish",
           worker' = NoWorker
    PROVE  ServedInv'
<1>0. act \in Activations /\ act # NoAct
  BY NobodyActs DEF WellTyped, TaskTypes
<1>1. CASE Ends("host")
  BY <1>0, <1>1, ServedAsItEnds
<1>2. CASE act' = [act EXCEPT !.stage = "admit", !.restaged = TRUE]
           /\ UNCHANGED <<phase, spoiled>>
  <2>1. act'.by = act.by /\ act'.raw = act.raw
    BY <1>0, <1>2 DEF Activations
  <2> QED  BY <1>0, <1>2, <2>1, NobodyActs, ServedAsItMoves
<1> QED  BY <1>1, <1>2 DEF Restages

LEMMA ServedAsItHolds ==
    ASSUME WellTyped, ServedInv, SameSettings, NEW problems, Holds(problems),
           UNCHANGED <<phase, spoiled>>, act # NoAct,
           (worker' = worker /\ act.stage # "publish") \/ worker' = NoWorker
    PROVE  ServedInv'
<1>0. act \in Activations
  BY DEF WellTyped, TaskTypes
<1>1. PICK f : f = [e \in Extensions |-> IF e \in problems THEN act.failed[e] + 1
                                         ELSE act.failed[e]]
  OBVIOUS
<1>2. PICK t : t = act.tried \cup {<<e, act.cand.version[e]>> : e \in problems}
  OBVIOUS
<1>3. act' = [act EXCEPT !.stage = "admit", !.failed = f, !.tried = t]
  BY <1>0, <1>1, <1>2 DEF Holds, Activations
<1>4. act'.by = act.by /\ act'.raw = act.raw /\ act'.stage = "admit"
  BY <1>0, <1>3 DEF Activations
<1> QED  BY <1>4, NobodyActs, ServedAsItMoves

\* The beginning of one: the owner takes a request, and loads what is set.
LEMMA ServedAsItBegins ==
    ASSUME WellTyped, ServedInv, NEW by, NEW change \in Changes, Stage(by, change),
           UNCHANGED <<off, untold, catalog, worker, phase, spoiled>>,
           \/ by = "boot" /\ phase = "boot" /\ permit' = permit
           \/ by = "owner" /\ phase = "up" /\ permit' = FALSE
           \/ by = "deploy" /\ phase = "up" /\ permit' = permit
    PROVE  ServedInv'
<1>1. act = NoAct /\ act'.stage = "admit" /\ act'.raw = Load(off, Applied(live, change))
  BY BeginsRecord
<1>2. PICK raw : raw = Load(off, Applied(live, change))
  OBVIOUS
<1>3. act' = [NoAct EXCEPT !.by = by, !.stage = "admit", !.change = change,
                           !.chosen = live, !.raw = raw]
  BY <1>2 DEF Stage
<1>4. act'.by = by
  BY <1>3 DEF NoAct
<1>5. act'.raw.source[1] = off
  BY <1>1, LoadedSettings
<1>6. InStep'
  BY <1>1, <1>4, NobodyActs DEF ServedInv, InStep
<1>7. Serving'
  BY <1>1, <1>4, <1>5, NobodyActs DEF ServedInv, Serving, Owed
<1> QED  BY <1>6, <1>7 DEF ServedInv
LEMMA ServedKept ==
    ASSUME WellTyped, BoundaryInv, ServedInv, [ActivationNext]_activationVars
    PROVE  ServedInv'
<1> USE DEF settingVars, liveVars, databaseVars, runningVars, taskVars, callerVars, countVars,
            historyVars
<1>0. /\ act \in Activations /\ worker \in Workers
      /\ untold \in BOOLEAN /\ permit \in BOOLEAN /\ spoiled \in BOOLEAN
  BY DEF WellTyped, TaskTypes, ServedInv, Serving
<1>a. CASE BootStages
  BY <1>a, ServedAsItBegins, NothingTyped DEF BootStages
<1>b. CASE OwnerStages
  BY <1>b, ServedAsItBegins, NothingTyped DEF OwnerStages
<1>c. CASE DeployStages
  BY <1>c, ServedAsItBegins DEF DeployStages, WellTyped, SettledTypes
<1>d. CASE GiveWay
  <2>1. PICK raw : raw = Load(off, Applied(live', staging'))
    OBVIOUS
  <2>2. PICK g : g = act.gave \cup GivingWay
    OBVIOUS
  <2>3. PICK f : f = [e \in Extensions |-> IF e \in GivingWay THEN 0 ELSE act.failed[e]]
    OBVIOUS
  <2>4. act' = [act EXCEPT !.gave = g, !.failed = f, !.raw = raw]
    BY <1>0, <1>d, <2>1, <2>2, <2>3 DEF GiveWay, Activations
  <2>5. act'.by = act.by /\ act'.stage = act.stage /\ act'.raw = raw
    BY <1>0, <2>4 DEF Activations
  <2>6. raw.source[1] = off
    BY <2>1, LoadedSettings
  <2>7. /\ SameSettings /\ UNCHANGED <<phase, spoiled, worker>>
        /\ act # NoAct
    BY <1>d, NobodyActs DEF GiveWay, SameSettings
  <2> QED  BY <2>5, <2>6, <2>7, ServedAsItMoves
<1>e. CASE Admit
  <2>1. PICK c, h : c = Admitted /\ h = Held
    OBVIOUS
  <2>2. act' = [act EXCEPT !.stage = "prepare", !.cand = c, !.held = h]
    BY <1>e, <2>1 DEF Admit
  <2>3. act'.by = act.by /\ act'.raw = act.raw /\ act'.stage = "prepare"
    BY <1>0, <2>2 DEF Activations
  <2>4. /\ SameSettings /\ UNCHANGED <<phase, spoiled, worker>>
        /\ act # NoAct /\ act.stage = "admit"
    BY <1>e, NobodyActs DEF Admit, SameSettings
  <2> QED  BY <2>3, <2>4, ServedAsItMoves
<1>f. CASE PrepareRejected
  <2>1. /\ SameSettings /\ Ends("host") /\ worker' = worker
        /\ act # NoAct /\ act.stage # "publish"
    BY <1>f, NobodyActs DEF PrepareRejected, SameSettings
  <2> QED  BY <2>1, ServedAsItEnds
<1>g. CASE Prepare
  <2>1. act'.by = act.by /\ act'.raw = act.raw /\ act'.stage = "boundary"
    BY <1>0, <1>g DEF Prepare, Activations
  <2>2. /\ SameSettings /\ UNCHANGED <<phase, spoiled, worker>>
        /\ act # NoAct /\ act.stage = "prepare"
    BY <1>g, NobodyActs DEF Prepare, SameSettings
  <2> QED  BY <2>1, <2>2, ServedAsItMoves
<1>h. CASE TakeBoundary
  <2>1. act'.by = act.by /\ act'.raw = act.raw /\ act'.stage = "publish"
    BY <1>0, <1>h DEF TakeBoundary, Activations
  <2>2. /\ SameSettings /\ UNCHANGED <<phase, spoiled>>
        /\ act # NoAct
    BY <1>h, NobodyActs DEF TakeBoundary, SameSettings
  <2>3. worker'.stage = "open"
    BY <1>h, TakeRecord
  <2> QED  BY <2>1, <2>2, <2>3, ServedAsItMoves
<1>i. ASSUME NEW problems \in SUBSET Extensions, PrepareHolds(problems)  PROVE ServedInv'
  <2>1. /\ SameSettings /\ Holds(problems) /\ UNCHANGED <<phase, spoiled, worker>>
        /\ act # NoAct /\ act.stage # "publish"
    BY <1>i, NobodyActs DEF PrepareHolds, SameSettings
  <2> QED  BY <2>1, ServedAsItHolds
<1>j. ASSUME NEW problems \in SUBSET Extensions, PublicationHolds(problems)  PROVE ServedInv'
  <2>1. SameSettings /\ worker' = NoWorker
    BY <1>j DEF PublicationHolds, WorkerEnds, SameSettings
  <2>2. CASE act.stage = "publish" /\ Holds(problems) /\ UNCHANGED <<phase, spoiled>>
    BY <2>1, <2>2, NobodyActs, ServedAsItHolds
  <2>3. CASE UNCHANGED <<act, phase, spoiled>>
    BY <2>1, <2>3, ServedAsWorkerEnds
  <2> QED  BY <1>j, <2>2, <2>3 DEF PublicationHolds, WorkerEnds
<1>k. CASE PublicationRejected
  <2>1. SameSettings /\ worker' = NoWorker
    BY <1>k DEF PublicationRejected, WorkerEnds, SameSettings
  <2>2. CASE act.stage = "publish" /\ Ends("host")
    BY <2>1, <2>2, NobodyActs, ServedAsItEnds
  <2>3. CASE UNCHANGED <<act, phase, spoiled>>
    BY <2>1, <2>3, ServedAsWorkerEnds
  <2> QED  BY <1>k, <2>2, <2>3 DEF PublicationRejected, WorkerEnds
<1>l. CASE Commit
  <2>1. /\ worker'.stage = "committed" /\ worker'.cand = worker.cand /\ worker.stage = "open"
        /\ worker.cand.source = Current.source /\ act' = act
    BY <1>l, CommitRecord DEF Commit
  <2>2. SameSettings /\ UNCHANGED <<phase, spoiled>>
    BY <1>l DEF Commit, SameSettings
  <2>3. worker'.cand.source[1] = off
    BY <2>1, CurrentSettings
  <2>4. InStep'
    BY <2>1, <2>2 DEF ServedInv, InStep
  <2>5. Serving'
    BY <2>1, <2>2, <2>3 DEF ServedInv, Serving, Owed, SameSettings
  <2> QED  BY <2>4, <2>5 DEF ServedInv
<1>m. CASE Swap
  <2>1. /\ worker.stage = "committed" /\ worker'.stage = "swapped" /\ worker'.cand = worker.cand
        /\ catalog' = worker.cand /\ act' = act
    BY <1>m, SwapRecord
  <2>2. UNCHANGED <<off, untold, permit, phase, spoiled>>
    BY <1>m DEF Swap
  <2>3. InStep'
    BY <2>1, <2>2 DEF ServedInv, InStep
  <2>4. Serving'
    BY <2>1, <2>2 DEF ServedInv, Serving, Owed
  <2> QED  BY <2>3, <2>4 DEF ServedInv
<1>n. CASE OpenBoundary
  <2>1. /\ SameSettings /\ worker' = NoWorker
        /\ worker.stage = "swapped" /\ catalog = worker.cand
    BY <1>n DEF OpenBoundary, WorkerEnds, SameSettings, BoundaryInv
  <2>2. CASE act.stage = "publish" /\ Ends("ok")
    BY <2>1, <2>2, NobodyActs, ServedAsItEnds
  <2>3. CASE UNCHANGED <<act, phase, spoiled>>
    BY <2>1, <2>3, ServedAsWorkerEnds
  <2> QED  BY <1>n, <2>2, <2>3 DEF OpenBoundary, WorkerEnds
<1>o. CASE Panics
  <2>1. SameSettings /\ worker' = NoWorker
    BY <1>o DEF Panics, WorkerEnds, SameSettings
  <2>2. CASE act.stage = "publish" /\ Restages
    BY <2>1, <2>2, ServedAsItRestages
  <2>3. CASE UNCHANGED <<act, phase, spoiled>>
    BY <2>1, <2>3, ServedAsWorkerEnds
  <2> QED  BY <1>o, <2>2, <2>3 DEF Panics, WorkerEnds
<1>p. CASE StorageFails
  <2>1. SameSettings /\ worker' = NoWorker
    BY <1>p DEF StorageFails, WorkerEnds, SameSettings
  <2>2. CASE act.stage = "publish" /\ Restages
    BY <2>1, <2>2, ServedAsItRestages
  <2>3. CASE act.stage = "publish" /\ Ends("failed")
    BY <2>1, <2>3, NobodyActs, ServedAsItEnds
  <2>4. CASE UNCHANGED <<act, phase, spoiled>>
    BY <2>1, <2>4, ServedAsWorkerEnds
  <2> QED  BY <1>p, <2>2, <2>3, <2>4 DEF StorageFails, WorkerEnds
<1>y. CASE CommitFails
  <2>1. SameSettings
    BY <1>y DEF CommitFails, SameSettings
  <2>2. CASE act.stage = "publish" /\ Ends("failed") /\ worker' = NoWorker
    BY <2>1, <2>2, NobodyActs, ServedAsItEnds
  <2>3. CASE UNCHANGED <<act, phase, spoiled>> /\ worker' = NoWorker
    BY <2>1, <2>3, ServedAsWorkerEnds
  <2>4. CASE UNCHANGED <<taskVars, staging, callerVars, slipped, spoiled>>
    BY <2>1, <2>4, ServedAsItMoves
  <2> QED  BY <1>y, <2>2, <2>3, <2>4 DEF CommitFails, WorkerEnds
<1>q. CASE Pin \/ Unpin
  BY <1>q, ServedAsItMoves DEF Pin, Unpin, SameSettings
<1>r. ASSUME NEW change \in Changes, Deploy(change)  PROVE ServedInv'
  BY <1>r, ServedAsItMoves DEF Deploy, SameSettings
<1>s. CASE CallerGoes
  <2>1. SameSettings /\ UNCHANGED <<phase, spoiled, worker>>
    BY <1>s DEF CallerGoes, SameSettings
  <2>2. CASE act.by = "deploy"
    <3>1. act' = NoAct /\ act'.by = "nobody" /\ act'.stage = "none"
      BY <1>s, <2>2, NobodyActs DEF CallerGoes
    <3>2. phase = "up"
      BY <2>2 DEF ServedInv, InStep
    <3>3. InStep'
      BY <2>1, <3>1, <3>2 DEF InStep
    <3>4. Serving'
      BY <2>1, <2>2, <3>1, <3>2 DEF ServedInv, Serving, Owed, SameSettings
    <3> QED  BY <3>3, <3>4 DEF ServedInv
  <2>3. CASE act.by # "deploy"
    BY <1>s, <2>1, <2>3, ServedAsItMoves DEF CallerGoes
  <2> QED  BY <2>2, <2>3
<1>t. ASSUME NEW e \in Extensions, Toggle(e)  PROVE ServedInv'
  <2>1. /\ UNCHANGED <<permit, catalog, act, worker, phase, spoiled>>
        /\ untold' = (untold \/ phase = "up")
    BY <1>t DEF Toggle
  <2>2. InStep'
    BY <2>1 DEF ServedInv, InStep
  <2>3. phase = "up" => untold'
    BY <2>1
  <2>4. act.by = "owner" => phase = "up"
    BY DEF ServedInv, InStep
  <2>5. untold' \in BOOLEAN
    BY <1>0, <2>1
  <2>6. Serving'
    BY <1>0, <2>1, <2>3, <2>4, <2>5 DEF Serving, Owed
  <2> QED  BY <2>2, <2>6 DEF ServedInv
<1>u. CASE Told
  <2>1. /\ UNCHANGED <<off, catalog, act, worker, phase, spoiled>>
        /\ untold' = FALSE /\ permit' = TRUE
    BY <1>u DEF Told
  <2>2. InStep'
    BY <2>1 DEF ServedInv, InStep
  <2>3. Serving'
    BY <1>0, <2>1 DEF Serving, Owed
  <2> QED  BY <2>2, <2>3 DEF ServedInv
<1>v. CASE Spawn
  <2>1. /\ UNCHANGED <<off, untold, catalog, act, worker, spoiled>>
        /\ phase = "booted" /\ phase' = "up" /\ permit' = (catalog.source # Current.source)
    BY <1>v DEF Spawn
  <2>2. act.by = "nobody" /\ worker.stage = "none"
    BY <2>1, NobodyActs DEF ServedInv, InStep
  <2>3. InStep'
    BY <2>1, <2>2 DEF InStep
  <2>4. permit' \in BOOLEAN /\ (permit' \/ catalog.source[1] = off)
    BY <2>1, CurrentSettings
  <2>5. Serving'
    BY <1>0, <2>1, <2>2, <2>4 DEF Serving, Owed
  <2> QED  BY <2>3, <2>5 DEF ServedInv
<1>w. CASE Restart
  <2>1. /\ act' = NoAct /\ act'.by = "nobody" /\ worker'.stage = "none" /\ phase' = "boot"
        /\ untold' = untold /\ permit' = FALSE /\ spoiled' = FALSE
    BY <1>w, NobodyActs DEF Restart
  <2> QED  BY <1>0, <2>1 DEF ServedInv, InStep, Serving
<1>x. CASE UNCHANGED activationVars
  BY <1>x, ServedAsItMoves DEF activationVars, SameSettings
<1> QED
  BY <1>a, <1>b, <1>c, <1>d, <1>e, <1>f, <1>g, <1>h, <1>i, <1>j, <1>k, <1>l, <1>m, <1>n, <1>o,
     <1>p, <1>q, <1>r, <1>s, <1>t, <1>u, <1>v, <1>w, <1>x, <1>y DEF ActivationNext

\* Once nothing is under way and nobody waits to be told, what runs was built
\* from the settings as they are, unless the owner's last try failed by
\* itself (spawn, publish_requested, and the generation the worker checks
\* before it commits).
THEOREM SettingsReachWhatRuns == ActivationSpec => []SettingsServed
<1>1. ActivationInit => WellTyped /\ BoundaryInv /\ ServedInv
  <2> SUFFICES ASSUME ActivationInit  PROVE WellTyped /\ BoundaryInv /\ ServedInv
    OBVIOUS
  <2>1. /\ act = NoAct /\ worker = NoWorker /\ phase = "boot" /\ ~pinned
        /\ untold = FALSE /\ permit = FALSE /\ spoiled = FALSE
    BY DEF ActivationInit
  <2>2. BoundaryInv
    BY <2>1, NobodyActs DEF BoundaryInv
  <2>3. ServedInv
    BY <2>1, NobodyActs DEF ServedInv, InStep, Serving
  <2> QED  BY <2>2, <2>3, InitTyped
<1>2. WellTyped /\ BoundaryInv /\ ServedInv /\ [ActivationNext]_activationVars
        => (WellTyped /\ BoundaryInv /\ ServedInv)'
  BY TypesKept, BoundaryKept, ServedKept
<1>3. ServedInv => SettingsServed
  BY NobodyActs DEF ServedInv, Serving, Owed, SettingsServed
<1> QED  BY <1>1, <1>2, <1>3, PTL DEF ActivationSpec
=============================================================================
