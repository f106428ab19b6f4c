---------------------------- MODULE ProjectDaemons ----------------------------
(***************************************************************************)
(* The daemon behind a project's window (oxplow-app/src/daemon_supervisor.rs*)
(* and instance lock, oxplow-daemon/src/run.rs, and the shell's             *)
(* oxplow-tauri-ipc/src/windows.rs).  Apps open and close one project side *)
(* by side, each in calls of its own threads; a call starts a daemon,      *)
(* waits for its handshake and only then has a window.  Daemons exclude    *)
(* each other by a lock of the OS, but for one whose try at it errs, which *)
(* serves without; they publish themselves in daemon.json, and stop when a *)
(* signal or the end of their stdin, the lifeline, says so.                *)
(*                                                                         *)
(* One project: those of another never meet.  Pids are not used again.     *)
(***************************************************************************)
EXTENDS Integers, FiniteSets

CONSTANTS
    Apps,
    CallsOf,        \* the threads of an app that open or close
    MaxDaemons,     \* bound: daemons started
    MaxShellOps     \* bound: what people do, and faults

ASSUME DaemonsAssumption == MaxDaemons \in Nat /\ MaxShellOps \in Nat

Daemons == 1..MaxDaemons
NoDaemon == 0
ByHand == "by hand"
Cut == "cut"
Calls == Apps \X CallsOf
App(c) == c[1]

\* Who may hold a lifeline: an app, a person's shell, or nobody any more.
ASSUME HoldersDiffer == ByHand \notin Apps /\ Cut \notin Apps

VARIABLES
    published,      \* daemon.json: the daemon it names
    daemon,         \* each process: how far it is, the lock, SIGTERM, its handshake
    lifeline,       \* who holds its stdin open
    apps,           \* the apps that run
    running,        \* DaemonSupervisor.running of each
    call,           \* each call; one that opened is its window since
    shellOps,       \* what MaxShellOps counts
    crashed,        \* history: the daemons that went by themselves
    crossed         \* history: the apps two of whose calls overlapped

daemonVars == <<published, daemon, lifeline, apps, running, call, shellOps, crashed, crossed>>

IdleCall == [pc |-> "idle", daemon |-> NoDaemon]
Unstarted == [pc |-> "unborn", guard |-> FALSE, term |-> FALSE, said |-> FALSE]

Lives(d) == d # NoDaemon /\ daemon[d].pc \notin {"unborn", "gone"}
Holds(d) == Lives(d) /\ daemon[d].guard
Locked == \E d \in Daemons : Holds(d)
InFlight(c) == call[c].pc \notin {"idle", "window"}

\* process_alive: a process nobody has waited for yet counts as alive.
ProcessAlive(d) ==
    \/ Lives(d)
    \/ \E a \in apps : running[a] = d
    \/ \E c \in Calls : call[c].pc \in {"wait", "stopping"} /\ call[c].daemon = d

ShellOp == shellOps < MaxShellOps /\ shellOps' = shellOps + 1

CallAt(c, pc) == App(c) \in apps /\ call[c].pc = pc

\* A call goes on; history: two of one app are under way.
CallGoes(c, pc, d) ==
    /\ call' = [call EXCEPT ![c] = [pc |-> pc, daemon |-> d]]
    /\ crossed' = IF \E b \in Calls \ {c} : App(b) = App(c) /\ InFlight(b)
                      /\ pc \notin {"idle", "window"}
                  THEN crossed \cup {App(c)} ELSE crossed

Becomes(d, pc) == daemon' = [daemon EXCEPT ![d].pc = pc]

-----------------------------------------------------------------------------
(* Opening: ShellWindows::open_project and DaemonSupervisor::start.        *)

\* label_for: a registered window is focused, so nothing more is done.
OpenCall(c) ==
    /\ CallAt(c, "idle") /\ ShellOp
    /\ \A b \in Calls : App(b) = App(c) => call[b].pc # "window"
    /\ CallGoes(c, "look", NoDaemon)
    /\ UNCHANGED <<published, daemon, lifeline, apps, running, crashed>>

\* Mutant: a live daemon found is swept.
LiveDaemonSwept(c) ==
    /\ CallAt(c, "look")
    /\ daemon' = IF Lives(published) THEN [daemon EXCEPT ![published].term = TRUE] ELSE daemon
    /\ CallGoes(c, IF published = NoDaemon THEN "start"
                   ELSE IF ProcessAlive(published) THEN "defer" ELSE "stale", NoDaemon)
    /\ UNCHANGED <<published, lifeline, apps, running, shellOps, crashed>>

\* live_daemon reads the file and asks whether the process lives.
LiveDaemon(c) ==
    /\ CallAt(c, "look")
    /\ CallGoes(c, IF published = NoDaemon THEN "start"
                   ELSE IF ProcessAlive(published) THEN "defer" ELSE "stale", NoDaemon)
    /\ UNCHANGED <<published, daemon, lifeline, apps, running, shellOps, crashed>>

\* It clears the file, whatever it names by now.
ClearStale(c) ==
    /\ CallAt(c, "stale")
    /\ published' = NoDaemon
    /\ CallGoes(c, "start", NoDaemon)
    /\ UNCHANGED <<daemon, lifeline, apps, running, shellOps, crashed>>

\* wait_for_project_unlock: it comes free, or the open is refused.  A probe that
\* errs says free where the file does not open, and held where the lock fails.
WaitForUnlock(c) ==
    /\ CallAt(c, "defer")
    /\ \/ CallGoes(c, IF Locked THEN "idle" ELSE "start", NoDaemon) /\ UNCHANGED shellOps
       \/ ShellOp /\ \E pc \in {"idle", "start"} : CallGoes(c, pc, NoDaemon)
    /\ UNCHANGED <<published, daemon, lifeline, apps, running, crashed>>

Reuse(c) ==
    /\ CallAt(c, "start") /\ running[App(c)] # NoDaemon
    /\ CallGoes(c, "build", running[App(c)])
    /\ UNCHANGED <<published, daemon, lifeline, apps, running, shellOps, crashed>>

Born(d, holder) ==
    /\ daemon[d] = Unstarted /\ \A b \in Daemons : b < d => daemon[b] # Unstarted
    /\ Becomes(d, "booting")
    /\ lifeline' = [lifeline EXCEPT ![d] = holder]

SpawnDaemon(c, d) ==
    /\ CallAt(c, "start") /\ running[App(c)] = NoDaemon
    /\ Born(d, App(c))
    /\ CallGoes(c, "wait", d)
    /\ UNCHANGED <<published, apps, running, shellOps, crashed>>

\* The handshake was read.  A handle it replaces is dropped, lifeline and all.
Handshake(c) ==
    LET old == running[App(c)]
    IN  /\ CallAt(c, "wait") /\ daemon[call[c].daemon].said
        /\ running' = [running EXCEPT ![App(c)] = call[c].daemon]
        /\ lifeline' = IF old # NoDaemon THEN [lifeline EXCEPT ![old] = Cut] ELSE lifeline
        /\ CallGoes(c, "build", call[c].daemon)
        /\ UNCHANGED <<published, daemon, apps, shellOps, crashed>>

\* Its output closed without one, or none came in time: it is killed.
StartFails(c) ==
    /\ CallAt(c, "wait")
    /\ \/ Lives(call[c].daemon) /\ ShellOp
       \/ ~Lives(call[c].daemon) /\ ~daemon[call[c].daemon].said /\ UNCHANGED shellOps
    /\ Becomes(call[c].daemon, "gone")
    /\ CallGoes(c, "clear", NoDaemon)
    /\ UNCHANGED <<published, lifeline, apps, running, crashed>>

\* clear_daemon_info, at the end of a start that failed and of a stop.
ClearDaemonInfo(c) ==
    /\ CallAt(c, "clear")
    /\ published' = NoDaemon
    /\ CallGoes(c, "idle", NoDaemon)
    /\ UNCHANGED <<daemon, lifeline, apps, running, shellOps, crashed>>

WindowBuilt(c) ==
    /\ CallAt(c, "build")
    /\ CallGoes(c, "window", call[c].daemon)
    /\ UNCHANGED <<published, daemon, lifeline, apps, running, shellOps, crashed>>

\* Mutant: a window that cannot be created leaves its daemon.
BuildFailsQuietly(c) ==
    /\ CallAt(c, "build") /\ ShellOp
    /\ CallGoes(c, "idle", NoDaemon)
    /\ UNCHANGED <<published, daemon, lifeline, apps, running, crashed>>

BuildFails(c) ==
    /\ CallAt(c, "build") /\ ShellOp
    /\ CallGoes(c, "stop", NoDaemon)
    /\ UNCHANGED <<published, daemon, lifeline, apps, running, crashed>>

-----------------------------------------------------------------------------
(* Closing: on_window_closed and DaemonSupervisor::stop.                   *)

WindowClosed(c) ==
    /\ CallAt(c, "window") /\ ShellOp
    /\ CallGoes(c, "stop", NoDaemon)
    /\ UNCHANGED <<published, daemon, lifeline, apps, running, crashed>>

StopDaemon(c) ==
    LET d == running[App(c)]
    IN  /\ CallAt(c, "stop")
        /\ running' = [running EXCEPT ![App(c)] = NoDaemon]
        /\ daemon' = IF d # NoDaemon THEN [daemon EXCEPT ![d].term = TRUE] ELSE daemon
        /\ CallGoes(c, IF d # NoDaemon THEN "stopping" ELSE "clear", d)
        /\ UNCHANGED <<published, lifeline, apps, shellOps, crashed>>

\* It exited, or its grace is over and it is killed.
StopWaits(c) ==
    /\ CallAt(c, "stopping")
    /\ IF Lives(call[c].daemon) THEN ShellOp ELSE UNCHANGED shellOps
    /\ Becomes(call[c].daemon, "gone")
    /\ CallGoes(c, "clear", NoDaemon)
    /\ UNCHANGED <<published, lifeline, apps, running, crashed>>

\* The app quits or dies; its pipes close.
AppGoes(a) ==
    /\ a \in apps /\ ShellOp
    /\ apps' = apps \ {a}
    /\ lifeline' = [d \in Daemons |-> IF lifeline[d] = a THEN Cut ELSE lifeline[d]]
    /\ running' = [running EXCEPT ![a] = NoDaemon]
    /\ call' = [c \in Calls |-> IF App(c) = a THEN IdleCall ELSE call[c]]
    /\ UNCHANGED <<published, daemon, crashed, crossed>>

-----------------------------------------------------------------------------
(* A daemon: run_main.                                                     *)

StartByHand(d) ==
    /\ ShellOp /\ Born(d, ByHand)
    /\ UNCHANGED <<published, apps, running, call, crashed, crossed>>

\* SIGTERM ends a process that starts up.
StartsFrom(d, pc) == daemon[d].pc = pc /\ ~daemon[d].term

\* A call that waits takes the lock for an instant each time it looks.
Probed == \E c \in Calls : CallAt(c, "defer")

\* try_acquire_instance_lock: one that finds it held exits at once, and one
\* whose try errs goes on without it.
AcquireInstanceLock(d) ==
    /\ StartsFrom(d, "booting")
    /\ \/ /\ ~Locked /\ UNCHANGED shellOps
          /\ daemon' = [daemon EXCEPT ![d].pc = "services", ![d].guard = TRUE]
       \/ (Locked \/ Probed) /\ Becomes(d, "gone") /\ UNCHANGED shellOps
       \/ ShellOp /\ Becomes(d, "services")
    /\ UNCHANGED <<published, lifeline, apps, running, call, crashed, crossed>>

\* write_daemon_info, once bound.
WriteDaemonInfo(d) ==
    /\ StartsFrom(d, "services")
    /\ published' = d /\ Becomes(d, "bound")
    /\ UNCHANGED <<lifeline, apps, running, call, shellOps, crashed, crossed>>

\* The line on stdout, and it serves.
Listening(d) ==
    /\ StartsFrom(d, "bound")
    /\ daemon' = [daemon EXCEPT ![d].pc = "serving", ![d].said = TRUE]
    /\ UNCHANGED <<published, lifeline, apps, running, call, shellOps, crashed, crossed>>

Signalled(d) ==
    daemon[d].term /\ daemon[d].pc \in {"booting", "services", "bound", "serving"}

\* SIGTERM: once serving it is handled, before that it ends the process.
Terminated(d) ==
    /\ Signalled(d)
    /\ Becomes(d, IF daemon[d].pc = "serving" THEN "stopping" ELSE "gone")
    /\ UNCHANGED <<published, lifeline, apps, running, call, shellOps, crashed, crossed>>

\* The services shut down, the file is cleared.
Stopping(d) ==
    /\ daemon[d].pc = "stopping"
    /\ published' = NoDaemon /\ Becomes(d, "exiting")
    /\ UNCHANGED <<lifeline, apps, running, call, shellOps, crashed, crossed>>

\* The process ends, and with it its lock.
Exited(d) ==
    /\ daemon[d].pc = "exiting"
    /\ Becomes(d, "gone")
    /\ UNCHANGED <<published, lifeline, apps, running, call, shellOps, crashed, crossed>>

LosesApp(d) == Lives(d) /\ lifeline[d] = Cut /\ ~daemon[d].term

\* stop_when_app_goes.
StopWhenAppGoes(d) ==
    /\ LosesApp(d)
    /\ published' = NoDaemon
    /\ daemon' = [daemon EXCEPT ![d].term = TRUE]
    /\ UNCHANGED <<lifeline, apps, running, call, shellOps, crashed, crossed>>

\* Boot fails, it is killed or it panics: nothing is cleared.
DaemonCrashes(d) ==
    /\ Lives(d) /\ ShellOp
    /\ Becomes(d, "gone") /\ crashed' = crashed \cup {d}
    /\ UNCHANGED <<published, lifeline, apps, running, call, crossed>>

-----------------------------------------------------------------------------
DaemonsInit ==
    /\ published = NoDaemon /\ daemon = [d \in Daemons |-> Unstarted]
    /\ lifeline = [d \in Daemons |-> Cut]
    /\ apps = Apps /\ running = [a \in Apps |-> NoDaemon]
    /\ call = [c \in Calls |-> IdleCall]
    /\ shellOps = 0 /\ crashed = {} /\ crossed = {}

CallGoesOn(c) ==
    \/ LiveDaemon(c) \/ ClearStale(c) \/ WaitForUnlock(c) \/ Reuse(c)
    \/ \E d \in Daemons : SpawnDaemon(c, d)
    \/ Handshake(c) \/ StartFails(c) \/ ClearDaemonInfo(c)
    \/ WindowBuilt(c) \/ BuildFails(c) \/ StopDaemon(c) \/ StopWaits(c)

DaemonGoesOn(d) ==
    \/ AcquireInstanceLock(d) \/ WriteDaemonInfo(d) \/ Listening(d)
    \/ Terminated(d) \/ Stopping(d) \/ Exited(d) \/ StopWhenAppGoes(d)

DaemonsNext ==
    \/ \E c \in Calls : OpenCall(c) \/ WindowClosed(c) \/ CallGoesOn(c)
    \/ \E a \in Apps : AppGoes(a)
    \/ \E d \in Daemons : StartByHand(d) \/ DaemonGoesOn(d) \/ DaemonCrashes(d)

DaemonsSpec == DaemonsInit /\ [][DaemonsNext]_daemonVars

-----------------------------------------------------------------------------
(* Properties.                                                             *)

Serves(d) == Lives(d) /\ daemon[d].pc # "booting"

\* Of two daemons that serve one project, one at least goes without the lock,
\* because its own try at it erred: whoever starts, stops or dies in between,
\* and whatever becomes of daemon.json (the instance lock, run_main).
OneBackend ==
    \A d, b \in Daemons :
        Serves(d) /\ Serves(b) /\ d # b => ~daemon[d].guard \/ ~daemon[b].guard

\* The daemon has a step to take by itself.
CanGoOn(d) ==
    \/ \E pc \in {"booting", "services", "bound"} : StartsFrom(d, pc)
    \/ Signalled(d) \/ LosesApp(d)
    \/ daemon[d].pc \in {"stopping", "exiting"}

\* A daemon an app started ends with the window it was started for: one that
\* lives, and will not stop by itself, has its app's window, or a call that is
\* still to make it or to stop it ("A daemon doesn't outlive its app").
NoOrphans ==
    \A d \in Daemons :
        Lives(d) /\ lifeline[d] # ByHand /\ ~CanGoOn(d) =>
            \E c \in Calls : /\ App(c) = lifeline[d] /\ App(c) \in apps
                             /\ call[c].pc # "idle"
                             /\ call[c].daemon = d \/ call[c].pc = "stop"

\* A window keeps the daemon it was opened with, whatever other apps open and
\* close, until it is closed, its app goes or the daemon crashes by itself (a
\* live daemon is deferred to), unless calls of its own app overlapped.
BackendKept ==
    \A c \in Calls :
        LET d == call[c].daemon
        IN  call[c].pc = "window" /\ App(c) \notin crossed /\ d \notin crashed
              => daemon[d].pc = "serving" /\ ~daemon[d].term /\ lifeline[d] = App(c)

\* A project has one backend at a time that holds its lock, and a window keeps
\* the backend it got.
OneBackendKept == OneBackend /\ BackendKept
=============================================================================
