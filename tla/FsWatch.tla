------------------------------- MODULE FsWatch -------------------------------
(***************************************************************************)
(* The workspace watch of crates/oxplow-fs-watch with one OS watch per     *)
(* directory (Registration::PerDirectory, Linux).  Four actors meet here:  *)
(* whoever writes the disk, the OS callback thread (Router::handle), the   *)
(* follower thread that moves the watches (Follower), and a subscriber     *)
(* that reads batches (Subscription).  Between them stand the kernel's     *)
(* bounded event queue, the follower's channel, and the pending set.       *)
(*                                                                         *)
(* A path is a member of a small tree.  A file is stale from the moment it *)
(* is written until a subscriber told of it (by its path, or by a rescan   *)
(* of a directory above it) looks at it.                                   *)
(***************************************************************************)
EXTENDS Integers, Sequences, FiniteSets

CONSTANTS
    Root,           \* the worktree
    Dirs,           \* the directories, Root among them
    Files,          \* the files, without the ignore file
    IgnoreFile,     \* the .gitignore at Root
    Parent,         \* the directory of each path but Root
    Ignorable,      \* the directories a rule may name
    Unread,         \* the filter has not read the rules
    NoPath,         \* no directory
    MaxWatches,     \* fs.inotify.max_user_watches
    OsQueue,        \* fs.inotify.max_queued_events
    MaxPending,     \* MAX_PENDING_PATHS
    MaxOps          \* bound: how many times the disk changes

Paths == Dirs \cup Files \cup {IgnoreFile}

ASSUME TreeAssumption ==
    /\ Root \in Dirs
    /\ Parent \in [Paths \ {Root} -> Dirs]
    /\ Parent[IgnoreFile] = Root
    /\ Ignorable \subseteq Dirs \ {Root}

\* A path is of one kind, and whoever climbs from it comes to Root.
ASSUME KindsAssumption ==
    /\ Files \cap Dirs = {}
    /\ IgnoreFile \notin Files \cup Dirs
    /\ NoPath \notin Dirs

ASSUME ClimbAssumption ==
    \A S \in SUBSET Paths :
        S # {} => \E p \in S : p = Root \/ Parent[p] \notin S

ASSUME LimitsAssumption ==
    /\ MaxWatches \in Nat \ {0}
    /\ OsQueue \in Nat \ {0}
    /\ MaxPending \in Nat
    /\ MaxOps \in Nat

\* The path and the directories above it: what starts_with compares.
Above[p \in Paths] == IF p = Root THEN {Root} ELSE {p} \cup Above[Parent[p]]

StartsWith(p, dir) == dir \in Above[p]

VARIABLES
    disk,       \* the directories there are
    files,      \* the files there are
    rules,      \* the directories the ignore rules on the disk name
    stale,      \* the files written since a subscriber last looked at them
    ops,        \* how many times the disk has changed
    upset,      \* history: what happened that the watch must recover from
    osWatch,    \* the directories the OS watches
    osq,        \* the kernel's queue of events
    cached,     \* the rules the filter holds, or Unread
    msgs,       \* the follower's channel
    watched,    \* Follower::watched
    uncovered,  \* Follower::uncovered
    todo,       \* cover's stack of directories
    reading,    \* the directory cover has watched and is about to list
    owed,       \* the rescan that ends appeared, or NoPath
    busy,       \* the follower is inside cover
    paths,      \* State::paths
    rescans,    \* State::rescans
    permit,     \* the permit Pending::wake holds
    closed,     \* State::closed
    reader      \* where the subscriber is in next_batch_after

diskVars == <<disk, files, rules, ops, upset>>
followVars == <<msgs, watched, uncovered, todo, reading, owed, busy>>
pendingVars == <<paths, rescans, permit, closed>>
vars == <<diskVars, stale, osWatch, osq, cached, followVars, pendingVars, reader>>

Kinds == {"create", "modify", "name", "remove", "overflow"}
Messages ==
    [type : {"appeared", "gone"}, path : Paths] \cup [type : {"refilter"}, path : {Root}]

TypeOK ==
    /\ disk \subseteq Dirs /\ Root \in disk
    /\ files \subseteq Files
    /\ rules \subseteq Ignorable
    /\ stale \subseteq files
    /\ ops \in 0..MaxOps
    /\ upset \subseteq {"overflow", "moved", "rules", "late"}
    /\ osWatch \subseteq disk
    /\ osq \in Seq([kind : Kinds, path : Paths])
    /\ cached \in (SUBSET Ignorable) \cup {Unread}
    /\ msgs \in Seq(Messages)
    /\ watched \subseteq Dirs /\ uncovered \subseteq Dirs /\ todo \subseteq Dirs
    /\ reading \in Dirs \cup {NoPath}
    /\ owed \in Dirs \cup {NoPath}
    /\ busy \in BOOLEAN
    /\ paths \subseteq Paths
    /\ rescans \subseteq Dirs
    /\ permit \in BOOLEAN /\ closed \in BOOLEAN
    /\ reader \in {"check", "wait", "take", "ended"}

-----------------------------------------------------------------------------
(* The filter: a path is ignored with any directory above it               *)
(* (matched_path_or_any_parents), by rules read when first needed.         *)

IgnoredBy(r, p) == Above[p] \cap r # {}

Judged == IF cached = Unread THEN rules ELSE cached

\* WorkspaceFilter::ignore, asked now.
Ignores(p) == IgnoredBy(Judged, p)

\* note_ignore_file and forget_rules: read again when next needed.
ForgetRules == cached' = Unread

RememberRules == cached' = Judged

-----------------------------------------------------------------------------
(* The pending set of one subscriber that hears all that is kept.          *)

NoPending == [paths |-> {}, rescans |-> {}]
Pending == [paths |-> paths, rescans |-> rescans]

\* insert_rescan: no rescan inside another, no path inside a rescan.
InsertRescan(s, dir) ==
    IF \E have \in s.rescans : StartsWith(dir, have) THEN s
    ELSE [paths   |-> {p \in s.paths : ~StartsWith(p, dir)},
          rescans |-> {have \in s.rescans : ~StartsWith(have, dir)} \cup {dir}]

\* top_of: the directory directly under Root that holds p; Root for what is
\* directly in it.
TopOf(p) ==
    IF p = Root \/ Parent[p] = Root THEN Root
    ELSE CHOOSE d \in Above[p] \ {Root} : Parent[d] = Root

\* collapse: the drained paths become rescans, each inserted in turn.
Collapse(s) ==
    LET tops == {TopOf(p) : p \in s.paths}
        all  == s.rescans \cup tops
    IN  [paths   |-> {},
         rescans |-> {d \in all : \A e \in all : StartsWith(d, e) => e = d}]

\* Pending::change: nothing to add when a rescan covers the path.
Covered(s, p) == \E dir \in s.rescans : StartsWith(p, dir)

Change(s, p) ==
    LET added == [s EXCEPT !.paths = @ \cup {p}]
    IN  IF Covered(s, p) THEN s
        ELSE IF Cardinality(added.paths) > MaxPending THEN Collapse(added)
        ELSE added

SetPending(s) ==
    /\ paths' = s.paths
    /\ rescans' = s.rescans

\* Subscribers::change. The early return wakes no one.
HearChange(p) ==
    /\ SetPending(Change(Pending, p))
    /\ permit' = (permit \/ ~Covered(Pending, p))
    /\ UNCHANGED closed

\* Mutant: a rescan wakes no one.
HearRescanQuietly(dir) ==
    /\ SetPending(InsertRescan(Pending, dir))
    /\ UNCHANGED <<permit, closed>>

\* Subscribers::rescan.
HearRescan(dir) ==
    /\ SetPending(InsertRescan(Pending, dir))
    /\ permit' = TRUE
    /\ UNCHANGED closed

-----------------------------------------------------------------------------
(* The disk and the OS (external): an event is queued for a path in a      *)
(* watched directory, and for a watched directory that goes.  A full queue *)
(* takes one overflow marker and drops the rest.                           *)

Queued(q, e) ==
    IF Len(q) < OsQueue THEN Append(q, e)
    ELSE IF q[Len(q)].kind = "overflow" THEN q
    ELSE Append(q, [kind |-> "overflow", path |-> Root])

Overflows(q) == Len(q) >= OsQueue

Emit(kind, p, extra) ==
    LET seen == Parent[p] \in osWatch \/ p \in osWatch
    IN  /\ osq' = IF seen THEN Queued(osq, [kind |-> kind, path |-> p]) ELSE osq
        /\ upset' = upset \cup extra
             \cup (IF seen /\ Overflows(osq) THEN {"overflow"} ELSE {})

Below(d) == {p \in Paths : StartsWith(p, d)}

\* One more change to the disk, while the watch lives.
DiskStep ==
    /\ ~closed
    /\ ops < MaxOps
    /\ ops' = ops + 1
    /\ UNCHANGED <<cached, followVars, pendingVars, reader>>

WriteFile(f) ==
    /\ DiskStep
    /\ Parent[f] \in disk
    /\ files' = files \cup {f}
    /\ stale' = stale \cup {f}
    /\ Emit(IF f \in files THEN "modify" ELSE "create", f, {})
    /\ UNCHANGED <<disk, rules, osWatch>>

MakeDir(d) ==
    /\ DiskStep
    /\ d \notin disk /\ Parent[d] \in disk
    /\ disk' = disk \cup {d}
    /\ Emit("create", d, {})
    /\ UNCHANGED <<files, rules, stale, osWatch>>

\* A directory moved here from outside the worktree, with what it holds.
MoveIn(d) ==
    /\ DiskStep
    /\ d \notin disk /\ Parent[d] \in disk
    /\ disk' = disk \cup (Below(d) \cap Dirs)
    /\ files' = files \cup (Below(d) \cap Files)
    /\ stale' = stale \cup (Below(d) \cap Files)
    /\ Emit("name", d, {})
    /\ UNCHANGED <<rules, osWatch>>

\* What goes with d, however it goes. The OS drops the watches with it.
Vanish(d) ==
    /\ d \in disk \ {Root}
    /\ disk' = disk \ Below(d)
    /\ files' = files \ Below(d)
    /\ stale' = stale \ Below(d)
    /\ osWatch' = osWatch \ Below(d)
    /\ UNCHANGED rules

RemoveDir(d) ==
    /\ DiskStep
    /\ Below(d) \cap disk = {d}
    /\ Vanish(d)
    /\ Emit("remove", d, {})

\* A directory moved out of the worktree: the OS reports a name change.
MoveAway(d) ==
    /\ DiskStep
    /\ Vanish(d)
    /\ Emit("name", d, {"moved"})

EditRules ==
    /\ DiskStep
    /\ rules' \in (SUBSET Ignorable) \ {rules}
    /\ Emit("modify", IgnoreFile, {"rules"})
    /\ UNCHANGED <<disk, files, stale, osWatch>>

-----------------------------------------------------------------------------
(* The router, on the OS callback thread.                                  *)

Tell(type, p) == msgs' = Append(msgs, [type |-> type, path |-> p])

\* lost, with no path: rescan_all.
Lost ==
    /\ ForgetRules
    /\ HearRescan(Root)
    /\ UNCHANGED msgs

\* route_change for an ignore file: its own directory is rescanned, which
\* covers the change itself.
RouteIgnoreFile ==
    /\ ForgetRules
    /\ HearRescan(Root)
    /\ Tell("refilter", Root)

\* What the filter drops, no one without a scope that names it hears.
RouteIgnored(p) ==
    /\ Ignores(p)
    /\ RememberRules
    /\ UNCHANGED <<pendingVars, msgs>>

\* Mutant: only a creation is something that appeared.
RouteKeptCreated(kind, p) ==
    /\ ~Ignores(p)
    /\ RememberRules
    /\ HearChange(p)
    /\ CASE kind = "create" -> Tell("appeared", p)
         [] kind = "remove" -> Tell("gone", p)
         [] OTHER           -> UNCHANGED msgs

RouteKept(kind, p) ==
    /\ ~Ignores(p)
    /\ RememberRules
    /\ HearChange(p)
    /\ CASE kind \in {"create", "name"} -> Tell("appeared", p)
         [] kind = "remove"             -> Tell("gone", p)
         [] OTHER                       -> UNCHANGED msgs

Route(e) ==
    \/ e.kind = "overflow" /\ Lost
    \/ e.kind # "overflow" /\ e.path = IgnoreFile /\ RouteIgnoreFile
    \/ e.kind # "overflow" /\ e.path # IgnoreFile
       /\ (RouteIgnored(e.path) \/ RouteKept(e.kind, e.path))

HandleEvent ==
    /\ ~closed
    /\ osq # <<>>
    /\ osq' = Tail(osq)
    /\ Route(Head(osq))
    /\ UNCHANGED <<diskVars, stale, osWatch, watched, uncovered, todo, reading,
                   owed, busy, reader>>

\* FsWatcher::refilter: the project's generated lists changed.
RefilterAll ==
    /\ ~closed
    /\ ops < MaxOps
    /\ ops' = ops + 1
    /\ upset' = upset \cup {"rules"}
    /\ rules' \in (SUBSET Ignorable) \ {rules}
    /\ ForgetRules
    /\ HearRescan(Root)
    /\ Tell("refilter", Root)
    /\ UNCHANGED <<disk, files, stale, osWatch, osq, watched, uncovered, todo,
                   reading, owed, busy, reader>>

-----------------------------------------------------------------------------
(* The follower thread.                                                    *)

\* forget_under for each of the given directories.
Forget(gone) ==
    LET under == {d \in watched : Above[d] \cap gone # {}}
    IN  /\ watched' = watched \ under
        /\ osWatch' = osWatch \ under

StartCover(dir, rescan) ==
    /\ busy' = TRUE
    /\ todo' = {dir}
    /\ owed' = rescan

NoCover == UNCHANGED <<busy, todo, owed>>

\* appeared: a path that is no directory, is watched or is ignored needs nothing.
NeedsCover(p) == p \in disk /\ p \notin watched /\ ~Ignores(p)

Appeared(p) ==
    /\ RememberRules
    /\ IF NeedsCover(p) THEN StartCover(p, p) ELSE NoCover
    /\ UNCHANGED <<watched, osWatch, upset>>

\* That p came back is still on its way to the follower.
Expected(p) ==
    \/ \E i \in DOMAIN osq : osq[i].path = p /\ osq[i].kind \in {"create", "name"}
    \/ \E i \in DOMAIN msgs : i > 1 /\ msgs[i] = [type |-> "appeared", path |-> p]

\* A message of p's end that comes after p was made again, found by the walk
\* of a directory above it, and taken for watched.
LateGone(p) ==
    p \in (disk \cap watched) \ {Root} /\ Parent[p] \in osWatch /\ ~Expected(p)

Gone(p) ==
    /\ Forget({p})
    /\ upset' = upset \cup (IF LateGone(p) THEN {"late"} ELSE {})
    /\ NoCover
    /\ UNCHANGED cached

\* refilter: drop what the rules now ignore, then cover what they stopped
\* ignoring. The router asked for the rescan when it heard of the rules.
Refilter(dir) ==
    /\ RememberRules
    /\ Forget({d \in watched : StartsWith(d, dir) /\ Ignores(d)})
    /\ StartCover(dir, NoPath)
    /\ UNCHANGED upset

FollowerUnchanged == UNCHANGED <<diskVars, stale, osq, reader>>

FollowMessage ==
    /\ ~closed /\ ~busy
    /\ msgs # <<>>
    /\ msgs' = Tail(msgs)
    /\ LET m == Head(msgs)
       IN  \/ m.type = "appeared" /\ Appeared(m.path)
           \/ m.type = "gone"     /\ Gone(m.path)
           \/ m.type = "refilter" /\ Refilter(m.path)
    /\ UNCHANGED <<disk, files, rules, ops, stale, osq, reader>>
    /\ UNCHANGED <<uncovered, reading, pendingVars>>

\* cover: a directory is watched before it is listed.
CoverWatch(d) ==
    /\ busy /\ reading = NoPath /\ d \in todo
    /\ todo' = todo \ {d}
    /\ \/ /\ d \in watched
          /\ reading' = d
          /\ UNCHANGED <<watched, osWatch, uncovered>>
       \/ /\ d \notin watched /\ d \notin disk
          /\ UNCHANGED <<watched, osWatch, uncovered, reading>>
       \/ /\ d \notin watched /\ d \in disk /\ Cardinality(osWatch) < MaxWatches
          /\ watched' = watched \cup {d}
          /\ osWatch' = osWatch \cup {d}
          /\ reading' = d
          /\ UNCHANGED uncovered
       \/ /\ d \notin watched /\ d \in disk /\ Cardinality(osWatch) >= MaxWatches
          /\ uncovered' = uncovered \cup {d}
          /\ UNCHANGED <<watched, osWatch, reading>>
    /\ FollowerUnchanged
    /\ UNCHANGED <<cached, msgs, owed, busy, pendingVars>>

CoverList ==
    /\ busy /\ reading # NoPath
    /\ todo' = todo \cup {d \in disk \ {Root} : Parent[d] = reading /\ ~Ignores(d)}
    /\ reading' = NoPath
    /\ RememberRules
    /\ FollowerUnchanged
    /\ UNCHANGED <<osWatch, msgs, watched, uncovered, owed, busy, pendingVars>>

\* Mutant: what was written before the watches stood is not looked for.
CoverDoneSilent ==
    /\ busy /\ reading = NoPath /\ todo = {}
    /\ busy' = FALSE
    /\ owed' = NoPath
    /\ FollowerUnchanged
    /\ UNCHANGED <<cached, osWatch, msgs, watched, uncovered, todo, reading, pendingVars>>

CoverDone ==
    /\ busy /\ reading = NoPath /\ todo = {}
    /\ busy' = FALSE
    /\ owed' = NoPath
    /\ IF owed = NoPath THEN UNCHANGED pendingVars ELSE HearRescan(owed)
    /\ FollowerUnchanged
    /\ UNCHANGED <<cached, osWatch, msgs, watched, uncovered, todo, reading>>

-----------------------------------------------------------------------------
(* A subscriber in next_batch_after.                                       *)

ReaderUnchanged == UNCHANGED <<diskVars, osWatch, osq, followVars>>

HasPending == Pending # NoPending

Look ==
    /\ reader = "check"
    /\ reader' = IF HasPending THEN "take" ELSE IF closed THEN "ended" ELSE "wait"
    /\ ReaderUnchanged
    /\ UNCHANGED <<stale, cached, pendingVars>>

Woken ==
    /\ reader = "wait" /\ permit
    /\ permit' = FALSE
    /\ reader' = "check"
    /\ ReaderUnchanged
    /\ UNCHANGED <<stale, cached, paths, rescans, closed>>

\* take, and what the subscriber does with the batch: it looks at each path,
\* and walks each rescan by the filter.
Take ==
    /\ reader = "take"
    /\ stale' = {f \in stale : /\ f \notin paths
                               /\ Covered(Pending, f) => Ignores(f)}
    /\ SetPending(NoPending)
    /\ IF rescans = {} THEN UNCHANGED cached ELSE RememberRules
    /\ reader' = "check"
    /\ ReaderUnchanged
    /\ UNCHANGED <<permit, closed>>

\* The watcher is dropped.
Close ==
    /\ ~closed
    /\ closed' = TRUE
    /\ permit' = TRUE
    /\ ReaderUnchanged
    /\ UNCHANGED <<stale, cached, paths, rescans, reader>>

-----------------------------------------------------------------------------
\* watch_workspace has covered the root; nothing has been read of the rules.
Init ==
    /\ disk = {Root} /\ files = {} /\ rules = {} /\ stale = {}
    /\ ops = 0 /\ upset = {}
    /\ osWatch = {Root} /\ watched = {Root} /\ uncovered = {}
    /\ osq = <<>> /\ msgs = <<>> /\ cached = Unread
    /\ todo = {} /\ reading = NoPath /\ owed = NoPath /\ busy = FALSE
    /\ paths = {} /\ rescans = {} /\ permit = FALSE /\ closed = FALSE
    /\ reader = "check"

DiskChanges ==
    \/ \E f \in Files : WriteFile(f)
    \/ \E d \in Dirs \ {Root} :
         MakeDir(d) \/ MoveIn(d) \/ RemoveDir(d) \/ MoveAway(d)
    \/ EditRules
    \/ RefilterAll

Follow == FollowMessage \/ (\E d \in Dirs : CoverWatch(d)) \/ CoverList \/ CoverDone

Read == Look \/ Woken \/ Take

Next == DiskChanges \/ HandleEvent \/ Follow \/ Read \/ Close

Spec == Init /\ [][Next]_vars
-----------------------------------------------------------------------------
(* What the watch promises.                                                *)

\* Nothing is under way between the disk and the subscriber.
Quiet == osq = <<>> /\ msgs = <<>> /\ ~busy /\ ~HasPending /\ ~closed

\* The files no rule ignores whose last write no subscriber was told of, and
\* which no take looks for because the watch listed them as uncovered.
Missed == {f \in stale : ~IgnoredBy(rules, f) /\ Above[f] \cap uncovered = {}}

\* router.rs Follower ("since what was written before they landed no watch
\* saw"): however directories come and go while the follower lags behind them,
\* once everything under way is done no write was missed, as long as no event
\* was dropped, no directory moved away, no rule changed and the follower did
\* not hear too late that a directory had gone; and Follower::watched is then
\* what the OS watches, so that appeared and cover may trust it.
NothingMissed == Quiet /\ upset = {} => Missed = {} /\ watched = osWatch

\* Even after dropped events and directories that moved away, a write is only
\* ever missed in a directory the OS does not watch: where a watch stands,
\* overflow and collapse lose nothing.
MissedOnlyUnwatched ==
    Quiet /\ "rules" \notin upset => \A f \in Missed : Parent[f] \notin osWatch

\* Pending and Subscription: a subscriber never sleeps with changes pending and
\* no permit to wake it, though change returns early under a rescan without
\* notifying.
NoLostWakeup == reader = "wait" /\ HasPending => permit

\* pending.rs Batch ("None is inside another"): a batch stays bounded and
\* minimal however changes, rescans and collapses follow each other.
BatchMinimal ==
    /\ Cardinality(paths) <= MaxPending
    /\ \A p \in paths : ~Covered(Pending, p)
    /\ \A d, e \in rescans : StartsWith(d, e) => d = e

\* The pending set serves its subscriber however changes, rescans, collapses and
\* drains follow each other: nothing sleeps in it, and nothing is in it twice.
PendingServed == NoLostWakeup /\ BatchMinimal

=============================================================================
