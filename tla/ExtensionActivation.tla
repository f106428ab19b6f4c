-------------------------- MODULE ExtensionActivation --------------------------
(***************************************************************************)
(* How one set of extensions replaces another in a running oxplow          *)
(* (oxplow-app/src/extension/extension_activation.rs, with the live set and*)
(* `admitted` of extension_catalog.rs and the retries of                   *)
(* extension_deploy.rs).  An activation, under the lock `activating`, loads*)
(* a candidate, holds back what fails, waits out the readers, and hands    *)
(* the boundary to a worker that commits the database and swaps what is in *)
(* memory.  The worker outlives a caller that goes away.                   *)
(*                                                                         *)
(* A version of an extension is a deployment or the copy that ships.  A    *)
(* version in `broken` has errors of its own when loaded; any other may    *)
(* fail to prepare, and may not the next time (a provider that does not    *)
(* start).  Contracts between extensions are their requirements.           *)
(***************************************************************************)
EXTENDS Integers, FiniteSets

CONSTANTS
    Extensions,
    Ships,          \* the ones a copy of ships with oxplow
    Requires,       \* what each one requires
    Versions,       \* the deployments there are of each
    MaxTurns,       \* bound: what comes from outside, faults included
    MaxSetbacks     \* bound: failures to prepare

ASSUME ActivationAssumption ==
    /\ Ships \subseteq Extensions
    /\ Requires \in [Extensions -> SUBSET Extensions]
    /\ MaxTurns \in Nat /\ MaxSetbacks \in Nat

NoVersion == "none"
Shipped == "shipped"

\* A deployment is told from the copy that ships, and from none at all.
ASSUME VersionsNamed == NoVersion \notin Versions /\ Shipped \notin Versions

MaxTries == 3
NoChange == <<>>
Changes == {NoChange} \cup (Extensions \X ({NoVersion} \cup Versions))
LiveSets == [Extensions -> {NoVersion} \cup Versions]

\* CatalogSnapshot: what is listed, what of it is on, and its source
\* generation, here what the key is a hash of: the settings and the live set.
Snapshots == [version : [Extensions -> {NoVersion, Shipped} \cup Versions],
              on : SUBSET Extensions, source : (SUBSET Extensions) \X LiveSets]
NoneLive == [e \in Extensions |-> NoVersion]
NoSnapshot == [version |-> NoneLive, on |-> {}, source |-> <<{}, NoneLive>>]

VARIABLES
    off,            \* the settings: what is turned off
    untold,         \* config.changed is on its way to the owner
    permit,         \* requested, or the catalog's change signal
    broken,         \* the deployments that do not load
    live,           \* catalog.live
    staging,        \* catalog.pending: the change being staged
    recorded,       \* extension_deployment.active
    vocabulary,     \* what the database holds the generation of
    catalog,        \* catalog.active, and the maps swapped with it
    boundary,       \* GenerationState
    pinned,         \* a reader holds a pin
    act,            \* the activation that holds `activating`
    worker,         \* the publication's worker
    deployer,       \* the change a deploy, a rollback or a removal asks for
    tries,          \* how often it, or the boot, has tried
    phase,          \* of the process
    turns,          \* what MaxTurns and MaxSetbacks count
    setbacks,
    choice,         \* history: the deployment last chosen of each, and run
    slipped,        \* history: an activation that failed changed `live`, or a
                    \* change committed before a panic failed when restaged
    overlapped,     \* history: an activation began while the worker of a caller
                    \* that went away still published
    spoiled,        \* history: the owner's last publication failed by itself
    lifted          \* history: a commit that failed lifted the mark an earlier
                    \* panic had left on the boundary; nothing published since

activationVars == <<off, untold, permit, broken, live, staging, recorded, vocabulary,
                    catalog, boundary, pinned, act, worker, deployer, tries, phase,
                    turns, setbacks, choice, slipped, overlapped, spoiled, lifted>>

settingVars == <<off, untold, permit>>
liveVars == <<live, staging>>
databaseVars == <<recorded, vocabulary>>
runningVars == <<catalog, boundary, pinned, lifted>>
taskVars == <<act, worker>>
callerVars == <<deployer, tries, phase>>
countVars == <<turns, setbacks>>
historyVars == <<choice, slipped, overlapped, spoiled>>

NoAct == [by |-> "nobody", stage |-> "none", raw |-> NoSnapshot, chosen |-> NoneLive,
          change |-> NoChange, failed |-> [e \in Extensions |-> 0], gave |-> {},
          tried |-> {}, cand |-> NoSnapshot, held |-> {}, restaged |-> FALSE]
NoWorker == [stage |-> "none", cand |-> NoSnapshot, live |-> NoneLive, choice |-> NoneLive]

Turn == turns < MaxTurns /\ turns' = turns + 1 /\ UNCHANGED setbacks
Setback == setbacks < MaxSetbacks /\ setbacks' = setbacks + 1 /\ UNCHANGED turns

-----------------------------------------------------------------------------
(* The catalog: loading the live set, and what of a load is admitted.      *)

Applied(map, change) ==
    IF change = NoChange THEN map ELSE [map EXCEPT ![change[1]] = change[2]]

\* load_deployed: a deployment in the live set, else the copy that ships, else
\* nothing to run.
Load(o, map) ==
    LET version == [e \in Extensions |->
                       IF map[e] # NoVersion THEN map[e]
                       ELSE IF e \in Ships THEN Shipped ELSE NoVersion]
    IN  [version |-> version, on |-> {e \in Extensions \ o : version[e] # NoVersion},
         source |-> <<o, map>>]

\* deployed_snapshot: the live set with the staged change.
Current == Load(off, Applied(live, staging))

\* Drop what requires something that is out, until nothing more drops: what is
\* left is the largest set that holds all it requires.
RequirementsIn(on) == UNION {s \in SUBSET on : \A e \in s : Requires[e] \subseteq s}

\* admitted: the candidate, and what is held back.
CannotLoad == {e \in act.raw.on : <<e, act.raw.version[e]>> \in broken \/ act.failed[e] > 0}
KeepsLast == {e \in CannotLoad \cap catalog.on : act.failed[e] < 2}
Substituted ==
    [e \in Extensions |->
        IF e \in KeepsLast THEN catalog.version[e]
        ELSE IF e \in CannotLoad THEN NoVersion ELSE act.raw.version[e]]
Admitted ==
    LET on == RequirementsIn(act.raw.on \ (CannotLoad \ KeepsLast))
    IN  [version |-> [e \in Extensions |->
                         IF e \in act.raw.on \ on THEN NoVersion ELSE Substituted[e]],
         on |-> on, source |-> act.raw.source]
Held == CannotLoad \cup (act.raw.on \ Admitted.on)

\* Of what is held with nothing of it running, the deployments of extensions a
\* copy of ships.
GivingWay == {e \in Held \ Admitted.on : act.raw.version[e] \in Versions /\ e \in Ships}

\* Mutant: the live set is what runs.
LiveOfRunning(cand, kept, chosen) ==
    [e \in Extensions |-> IF cand.version[e] \in Versions THEN cand.version[e] ELSE NoVersion]

\* live_of, and the deployments chosen of what is held or gave way.
NewLive(cand, kept, chosen) ==
    [e \in Extensions |->
        IF e \in kept /\ chosen[e] # NoVersion THEN chosen[e]
        ELSE IF cand.version[e] \in Versions THEN cand.version[e] ELSE NoVersion]

-----------------------------------------------------------------------------
(* One activation.                                                         *)

\* The lock: one at a time, for boot, the owner that serves requests, and a
\* deploy.  What was chosen is read, the change staged and the set loaded.
Stage(by, change) ==
    /\ act = NoAct
    /\ staging' = change
    /\ act' = [NoAct EXCEPT !.by = by, !.stage = "admit", !.change = change,
                            !.chosen = live, !.raw = Load(off, Applied(live, change))]
    /\ overlapped' = (overlapped \/ worker.stage # "none")

BootStages ==
    /\ phase = "boot" /\ Stage("boot", NoChange)
    /\ UNCHANGED <<settingVars, broken, live, databaseVars, runningVars, worker,
                   callerVars, countVars, choice, slipped, spoiled>>

OwnerStages ==
    /\ phase = "up" /\ permit /\ Stage("owner", NoChange)
    /\ permit' = FALSE
    /\ UNCHANGED <<off, untold, broken, live, databaseVars, runningVars, worker,
                   callerVars, countVars, choice, slipped, spoiled>>

DeployStages ==
    /\ phase = "up" /\ deployer # NoChange /\ Stage("deploy", deployer)
    /\ UNCHANGED <<settingVars, broken, live, databaseVars, runningVars, worker,
                   callerVars, countVars, choice, slipped, spoiled>>

\* Mutant: what failed of a deployment counts against the copy that ships.
GiveWayRemembers ==
    /\ act.stage = "admit" /\ GivingWay # {}
    /\ live' = [e \in Extensions |-> IF e \in GivingWay THEN NoVersion ELSE live[e]]
    /\ staging' = IF staging # NoChange /\ staging[1] \in GivingWay THEN NoChange ELSE staging
    /\ act' = [act EXCEPT !.gave = @ \cup GivingWay,
                          !.raw = Load(off, Applied(live', staging'))]
    /\ UNCHANGED <<settingVars, broken, databaseVars, runningVars, worker, callerVars,
                   countVars, historyVars>>

\* give_way and forget: out of the live set and of what is staged, for the copy
\* that ships, and the set is loaded again.
GiveWay ==
    /\ act.stage = "admit" /\ GivingWay # {}
    /\ live' = [e \in Extensions |-> IF e \in GivingWay THEN NoVersion ELSE live[e]]
    /\ staging' = IF staging # NoChange /\ staging[1] \in GivingWay THEN NoChange ELSE staging
    /\ act' = [act EXCEPT !.gave = @ \cup GivingWay,
                          !.failed = [e \in Extensions |-> IF e \in GivingWay THEN 0 ELSE @[e]],
                          !.raw = Load(off, Applied(live', staging'))]
    /\ UNCHANGED <<settingVars, broken, databaseVars, runningVars, worker, callerVars,
                   countVars, historyVars>>

Admit ==
    /\ act.stage = "admit" /\ GivingWay = {}
    /\ act' = [act EXCEPT !.stage = "prepare", !.cand = Admitted, !.held = Held]
    /\ UNCHANGED <<settingVars, broken, liveVars, databaseVars, runningVars, worker,
                   callerVars, countVars, historyVars>>

\* hold: those whose preparation failed; a second failure takes the last
\* working version out too.
Holds(problems) ==
    /\ act' = [act EXCEPT
                  !.stage = "admit",
                  !.failed = [e \in Extensions |-> IF e \in problems THEN @[e] + 1 ELSE @[e]],
                  !.tried = @ \cup {<<e, act.cand.version[e]>> : e \in problems}]
    /\ slipped' = (slipped \/ (act.restaged /\ act.change # NoChange))

\* The activation's end, for its caller: boot and a deploy try again what the
\* host rejected.
Ends(outcome) ==
    LET again == act.by # "owner" /\ outcome = "host" /\ tries < MaxTries
    IN  /\ act' = NoAct /\ staging' = NoChange
        /\ tries' = IF again THEN tries + 1 ELSE IF act.by = "owner" THEN tries ELSE 1
        /\ deployer' = IF act.by = "deploy" /\ ~again THEN NoChange ELSE deployer
        /\ phase' = IF act.by # "boot" \/ again THEN phase
                    ELSE IF outcome = "ok" THEN "booted" ELSE "down"
        /\ spoiled' = IF outcome = "ok" THEN FALSE
                      ELSE spoiled \/ (act.by = "owner" /\ off = act.raw.source[1])
        /\ slipped' = (slipped \/ live' # recorded')

PrepareHolds(problems) ==
    /\ act.stage = "prepare" /\ problems # {} /\ problems \subseteq act.cand.on
    /\ Setback /\ Holds(problems)
    /\ UNCHANGED <<settingVars, broken, liveVars, databaseVars, runningVars, worker,
                   callerVars, choice, overlapped, spoiled>>

\* A problem that is nobody's to hold: the candidate is rejected.
PrepareRejected ==
    /\ act.stage = "prepare" /\ Turn
    /\ live' = live /\ recorded' = recorded
    /\ Ends("host")
    /\ UNCHANGED <<settingVars, broken, vocabulary, runningVars, worker, choice, overlapped>>

\* Prepared, it asks for the writer: readers that come later wait behind it.
Prepare ==
    /\ act.stage = "prepare"
    /\ act' = [act EXCEPT !.stage = "boundary"]
    /\ UNCHANGED <<settingVars, broken, liveVars, databaseVars, runningVars, worker,
                   callerVars, countVars, historyVars>>

\* write_waiting_on_readers, and the worker takes the writer along.
TakeBoundary ==
    /\ act.stage = "boundary" /\ ~pinned /\ worker.stage = "none"
    /\ act' = [act EXCEPT !.stage = "publish"]
    /\ LET kept == act.held \cup act.gave
           ran == act.change # NoChange /\ act.change[1] \notin kept
       IN  worker' = [stage |-> "open", cand |-> act.cand,
                      live |-> NewLive(act.cand, kept, act.chosen),
                      choice |-> IF ran THEN Applied(choice, act.change) ELSE choice]
    /\ UNCHANGED <<settingVars, broken, liveVars, databaseVars, runningVars, callerVars,
                   countVars, historyVars>>

-----------------------------------------------------------------------------
(* The worker: transaction_with_publication.                               *)

\* What its caller, if it still waits, makes of the end of the worker.
WorkerEnds(caller) ==
    /\ worker' = NoWorker
    /\ \/ act.stage = "publish" /\ caller
       \/ /\ act.stage # "publish"
          /\ slipped' = (slipped \/ live' # recorded')
          /\ UNCHANGED <<act, staging, tries, deployer, phase, spoiled>>

\* Another generation than the one staged would load now.
PublicationRejected ==
    /\ worker.stage = "open" /\ Current.source # worker.cand.source
    /\ live' = live /\ recorded' = recorded
    /\ WorkerEnds(Ends("host"))
    /\ UNCHANGED <<settingVars, broken, vocabulary, runningVars, countVars, choice, overlapped>>

\* A dataset or a vocabulary that does not compile is found in the transaction.
PublicationHolds(problems) ==
    /\ worker.stage = "open" /\ Current.source = worker.cand.source
    /\ problems # {} /\ problems \subseteq worker.cand.on /\ Setback
    /\ live' = live /\ recorded' = recorded
    /\ WorkerEnds(Holds(problems)
                  /\ UNCHANGED <<staging, tries, deployer, phase, spoiled>>)
    /\ UNCHANGED <<settingVars, broken, vocabulary, runningVars, choice, overlapped>>

\* Mutant: the boundary stays open for the commit.
CommitOpen ==
    /\ worker.stage = "open" /\ Current.source = worker.cand.source
    /\ recorded' = worker.live /\ vocabulary' = worker.cand
    /\ choice' = worker.choice
    /\ worker' = [worker EXCEPT !.stage = "committed"]
    /\ UNCHANGED <<settingVars, broken, liveVars, runningVars, act, callerVars, countVars,
                   slipped, overlapped, spoiled>>

\* set_active_tx, replace_tx and the commit, with the boundary marked.
Commit ==
    /\ worker.stage = "open" /\ Current.source = worker.cand.source
    /\ boundary' = [boundary EXCEPT !.unavailable = TRUE]
    /\ recorded' = worker.live /\ vocabulary' = worker.cand
    /\ choice' = worker.choice
    /\ worker' = [worker EXCEPT !.stage = "committed"]
    /\ UNCHANGED <<settingVars, broken, liveVars, catalog, pinned, lifted, act, callerVars,
                   countVars, slipped, overlapped, spoiled>>

\* The maps, publish_active and set_live.
Swap ==
    /\ worker.stage = "committed"
    /\ catalog' = worker.cand /\ live' = worker.live
    /\ worker' = [worker EXCEPT !.stage = "swapped"]
    /\ UNCHANGED <<settingVars, broken, staging, databaseVars, boundary, pinned, lifted, act,
                   callerVars, countVars, historyVars>>

OpenBoundary ==
    /\ worker.stage = "swapped"
    /\ boundary' = [active |-> worker.cand, unavailable |-> FALSE] /\ lifted' = FALSE
    /\ live' = live /\ recorded' = recorded
    /\ WorkerEnds(Ends("ok"))
    /\ UNCHANGED <<settingVars, broken, vocabulary, catalog, pinned, countVars, choice, overlapped>>

\* A panic past the commit, or an error of the database while the boundary is
\* marked: staged again, once, from what was loaded.
Restages ==
    \/ /\ ~act.restaged
       /\ act' = [act EXCEPT !.stage = "admit", !.restaged = TRUE]
       /\ UNCHANGED <<staging, tries, deployer, phase, spoiled, slipped>>
    \/ act.restaged /\ Ends("host")

Panics ==
    /\ worker.stage \in {"committed", "swapped"} /\ Turn
    /\ live' = live /\ recorded' = recorded
    /\ WorkerEnds(Restages)
    /\ UNCHANGED <<settingVars, broken, vocabulary, runningVars, choice, overlapped>>

\* An error before the commit: whether the boundary is marked is as it was.
StorageFails ==
    /\ worker.stage = "open" /\ Turn
    /\ live' = live /\ recorded' = recorded
    /\ WorkerEnds(IF boundary.unavailable THEN Restages ELSE Ends("failed"))
    /\ UNCHANGED <<settingVars, broken, vocabulary, runningVars, choice, overlapped>>

\* The commit itself fails: nothing is stored, and the mark is taken away, also
\* one that a panic past an earlier commit had left.  A database that is busy is
\* tried again by the same worker.
CommitFails ==
    /\ worker.stage = "open" /\ Current.source = worker.cand.source /\ Turn
    /\ boundary' = [boundary EXCEPT !.unavailable = FALSE]
    /\ lifted' = (lifted \/ boundary.unavailable)
    /\ live' = live /\ recorded' = recorded
    /\ \/ WorkerEnds(Ends("failed"))
       \/ UNCHANGED <<taskVars, staging, callerVars, slipped, spoiled>>
    /\ UNCHANGED <<settingVars, broken, vocabulary, catalog, pinned, choice, overlapped>>

-----------------------------------------------------------------------------
(* Readers, callers and the settings.                                      *)

\* pin_as: the lock is fair, so a waiting writer goes first.
Pin ==
    /\ phase = "up" /\ ~pinned /\ worker.stage = "none" /\ act.stage # "boundary"
    /\ ~boundary.unavailable
    /\ pinned' = TRUE
    /\ UNCHANGED <<settingVars, broken, liveVars, databaseVars, catalog, boundary, lifted,
                   taskVars, callerVars, countVars, historyVars>>

Unpin ==
    /\ pinned /\ pinned' = FALSE
    /\ UNCHANGED <<settingVars, broken, liveVars, databaseVars, catalog, boundary, lifted,
                   taskVars, callerVars, countVars, historyVars>>

\* A deploy, a rollback (to a version) or a removal, from a person or an agent.
Deploy(change) ==
    /\ phase = "up" /\ deployer = NoChange /\ change # NoChange
    /\ live[change[1]] # change[2] /\ Turn
    /\ deployer' = change
    /\ UNCHANGED <<settingVars, broken, liveVars, databaseVars, runningVars, taskVars,
                   tries, phase, historyVars>>

\* Its caller goes away: the staged change and the lock are dropped with it, a
\* worker it had started goes on.
CallerGoes ==
    /\ deployer # NoChange /\ Turn
    /\ deployer' = NoChange /\ tries' = 1
    /\ IF act.by = "deploy"
       THEN /\ act' = NoAct /\ staging' = NoChange
            /\ slipped' = (slipped \/ (act.stage # "publish" /\ live # recorded))
       ELSE UNCHANGED <<act, staging, slipped>>
    /\ UNCHANGED <<settingVars, broken, live, databaseVars, runningVars, worker, phase,
                   choice, overlapped, spoiled>>

\* The extensions setting is edited.  Before the boot ends nobody hears of it.
Toggle(e) ==
    /\ Turn
    /\ off' = IF e \in off THEN off \ {e} ELSE off \cup {e}
    /\ untold' = (untold \/ phase = "up")
    /\ UNCHANGED <<permit, broken, liveVars, databaseVars, runningVars, taskVars,
                   callerVars, historyVars>>

Told ==
    /\ phase = "up" /\ untold
    /\ untold' = FALSE /\ permit' = TRUE
    /\ UNCHANGED <<off, broken, liveVars, databaseVars, runningVars, taskVars, callerVars,
                   countVars, historyVars>>

\* Mutant: the owner waits for the first change it hears of.
SpawnWaits ==
    /\ phase = "booted" /\ phase' = "up"
    /\ UNCHANGED <<settingVars, broken, liveVars, databaseVars, runningVars, taskVars,
                   deployer, tries, countVars, historyVars>>

\* spawn: the owner starts, with a request if the set would load otherwise now.
Spawn ==
    /\ phase = "booted" /\ phase' = "up"
    /\ permit' = (catalog.source # Current.source)
    /\ UNCHANGED <<off, untold, broken, liveVars, databaseVars, runningVars, taskVars,
                   deployer, tries, countVars, historyVars>>

\* start: the live set from what is recorded; nothing else is remembered.
Restart ==
    /\ Turn
    /\ phase' = "boot" /\ live' = recorded
    /\ staging' = NoChange /\ deployer' = NoChange /\ tries' = 1
    /\ act' = NoAct /\ worker' = NoWorker
    /\ catalog' = NoSnapshot /\ boundary' = [active |-> NoSnapshot, unavailable |-> FALSE]
    /\ pinned' = FALSE /\ permit' = FALSE /\ spoiled' = FALSE /\ lifted' = FALSE
    /\ UNCHANGED <<off, untold, broken, databaseVars, choice, slipped, overlapped>>

-----------------------------------------------------------------------------
ActivationInit ==
    /\ off = {} /\ untold = FALSE /\ permit = FALSE
    /\ broken \in SUBSET (Extensions \X Versions)
    /\ recorded \in LiveSets /\ live = recorded /\ choice = recorded
    /\ staging = NoChange /\ deployer = NoChange /\ tries = 1
    /\ vocabulary = NoSnapshot /\ catalog = NoSnapshot
    /\ boundary = [active |-> NoSnapshot, unavailable |-> FALSE] /\ pinned = FALSE
    /\ act = NoAct /\ worker = NoWorker
    /\ phase = "boot" /\ turns = 0 /\ setbacks = 0
    /\ slipped = FALSE /\ overlapped = FALSE /\ spoiled = FALSE /\ lifted = FALSE

ActivationNext ==
    \/ BootStages \/ OwnerStages \/ DeployStages
    \/ GiveWay \/ Admit \/ PrepareRejected \/ Prepare \/ TakeBoundary
    \/ \E problems \in SUBSET Extensions : PrepareHolds(problems) \/ PublicationHolds(problems)
    \/ PublicationRejected \/ Commit \/ Swap \/ OpenBoundary \/ Panics \/ StorageFails
    \/ CommitFails
    \/ Pin \/ Unpin
    \/ \E change \in Changes : Deploy(change)
    \/ CallerGoes
    \/ \E e \in Extensions : Toggle(e)
    \/ Told \/ Spawn \/ Restart

ActivationSpec == ActivationInit /\ [][ActivationNext]_activationVars

-----------------------------------------------------------------------------
(* Properties.                                                             *)

\* Every variable has its type; what is staged belongs to the activation that
\* holds the lock, and only a worker keeps the boundary of a publication.
ActivationTypeOK ==
    /\ off \in SUBSET Extensions /\ broken \in SUBSET (Extensions \X Versions)
    /\ {live, recorded, choice, worker.live, worker.choice, act.chosen} \subseteq LiveSets
    /\ {vocabulary, catalog, boundary.active, act.raw, act.cand, worker.cand} \subseteq Snapshots
    /\ {untold, permit, pinned, slipped, overlapped, spoiled, lifted, boundary.unavailable,
        act.restaged}
         \subseteq BOOLEAN
    /\ {staging, deployer, act.change} \subseteq Changes
    /\ staging # NoChange => staging = act.change
    /\ act.by \in {"nobody", "boot", "owner", "deploy"}
    /\ act.stage \in {"none", "admit", "prepare", "boundary", "publish"}
    /\ act.failed \in [Extensions -> 0..2]
    /\ worker.stage \in {"none", "open", "committed", "swapped"}
    /\ act.stage = "publish" => worker.stage # "none"
    /\ tries \in 1..MaxTries /\ turns \in 0..MaxTurns /\ setbacks \in 0..MaxSetbacks
    /\ phase \in {"boot", "booted", "up", "down"}

\* Whoever holds a pin finds one generation in the database, in the maps and
\* in the boundary, whatever panicked, failed or was cancelled before it came
\* (pin_as refuses readers while the boundary is marked unavailable), unless
\* a commit that failed took away the mark of an earlier panic and nothing has
\* been published whole since: then a reader may find the database newer than
\* the maps, which the mark is set before the commit to prevent ("so an unwind
\* in either commit or publication cannot expose mismatched database/memory
\* state").
PinnedSeesOne == pinned /\ ~lifted => vocabulary = catalog /\ catalog = boundary.active

\* Nothing runs without what it requires, after substitutions, failures and
\* copies that gave way (the last loop of admitted).
RequirementsRun == \A e \in catalog.on : Requires[e] \subseteq catalog.on

\* The deployments recorded active are the ones last chosen that ran, whatever
\* was held, gave way, panicked or was restarted since (`live`, "what the
\* person chose", in activate_kind), unless it slipped or activations
\* overlapped.
ChosenKept == ~slipped /\ ~overlapped => recorded = choice

\* An extension that is on, and has what it requires, is published without
\* only when all there was of it failed in this activation: the deployment
\* asked for, its last working version, and the copy that ships; unless
\* activations overlapped.  Only a deployment that requires others may not
\* have been tried: it gives way while what it requires is out, also when that
\* comes in as it ships a moment later.
NothingOutInVain ==
    worker.stage = "committed" /\ act.stage = "publish" /\ ~overlapped =>
        \A e \in Extensions \ (worker.cand.source[1] \cup worker.cand.on) :
            LET asked == Applied(act.chosen, act.change)[e]
            IN  Requires[e] \subseteq worker.cand.on /\ (asked # NoVersion \/ e \in Ships) =>
                    /\ \/ asked = NoVersion \/ <<e, asked>> \in broken \cup act.tried
                       \/ e \in act.gave /\ Requires[e] # {}
                    /\ e \in catalog.on => <<e, catalog.version[e]>> \in act.tried
                    /\ e \in Ships => <<e, Shipped>> \in act.tried

\* What runs is what can: nothing without what it requires, and nothing left
\* out that had a version to run.
RunsWhatCan == RequirementsRun /\ NothingOutInVain

\* Once nothing is under way and nobody waits to be told, what runs was built
\* from the settings as they are, unless the owner's last try failed by
\* itself: a change during the boot or a publication is not lost (spawn,
\* publish_requested).
SettingsServed ==
    phase = "up" /\ act = NoAct /\ worker = NoWorker /\ ~permit /\ ~untold /\ ~spoiled
        => catalog.source[1] = off
=============================================================================
