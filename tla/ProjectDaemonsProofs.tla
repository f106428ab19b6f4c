------------------------- MODULE ProjectDaemonsProofs -------------------------
(***************************************************************************)
(* A project has one daemon at a time that holds its lock, and a window    *)
(* keeps the one it was opened with, for any number of apps, calls and     *)
(* daemons.                                                                *)
(***************************************************************************)
EXTENDS ProjectDaemons, TLAPS

DaemonPcs == {"unborn", "booting", "services", "bound", "serving", "stopping", "exiting", "gone"}
CallPcs == {"idle", "look", "stale", "defer", "start", "wait", "build", "window", "stop",
            "stopping", "clear"}

DaemonsTypeOK ==
    /\ daemon \in [Daemons -> [pc : DaemonPcs, guard : BOOLEAN, term : BOOLEAN, said : BOOLEAN]]
    /\ lifeline \in [Daemons -> Apps \cup {ByHand, Cut}]
    /\ apps \subseteq Apps
    /\ running \in [Apps -> Daemons \cup {NoDaemon}]
    /\ call \in [Calls -> [pc : CallPcs, daemon : Daemons \cup {NoDaemon}]]
    /\ crossed \subseteq Apps

\* Only one process holds the lock.
OneHolder == \A c, d \in Daemons : Holds(c) /\ Holds(d) => c = d

\* A daemon an app knows of is one it started: its lifeline is the app's, or cut.
OfApp(d, a) == d \in Daemons => daemon[d].pc # "unborn" /\ lifeline[d] \in {a, Cut}

KnowsOwn ==
    /\ \A a \in Apps : OfApp(running[a], a)
    /\ \A c \in Calls : OfApp(call[c].daemon, App(c))

\* The calls of an app that never overlapped are made one after another.
Alone(a) ==
    \A b, c \in Calls :
        App(b) = a /\ App(c) = a /\ call[b].pc # "idle" /\ call[c].pc # "idle" => b = c

\* An app has a daemon only while a call makes its window, has it, or ends one.
ForWindow(s, d) == s.pc = "stop" \/ (s.pc \in {"build", "window"} /\ s.daemon = d)

RunsForWindow(a) ==
    \/ running[a] = NoDaemon
    \/ \E c \in Calls : App(c) = a /\ ForWindow(call[c], running[a])

\* A daemon an app started, and nobody told to stop, is the one its app runs, or a
\* call still waits for its handshake.
Attended(d) ==
    /\ lifeline[d] \in apps \cup {ByHand, Cut}
    /\ lifeline[d] \in Apps /\ ~daemon[d].term
         /\ daemon[d].pc \in {"booting", "services", "bound", "serving"}
       => \/ running[lifeline[d]] = d
          \/ \E c \in Calls : /\ App(c) = lifeline[d]
                              /\ call[c].pc = "wait" /\ call[c].daemon = d

\* Nobody but its own call stops the daemon of an app whose calls never
\* overlapped, from its start on.
Kept(d, a, waits) ==
    /\ lifeline[d] = a /\ ~daemon[d].term
    /\ daemon[d].pc \in {"booting", "services", "bound", "serving", "gone"}
    /\ daemon[d].said \/ ~waits => daemon[d].pc = "serving"

Untouched(c) ==
    call[c].pc \in {"wait", "build", "window"} =>
        /\ call[c].daemon \in Daemons
        /\ call[c].daemon \notin crashed => Kept(call[c].daemon, App(c), call[c].pc = "wait")

DaemonsInv ==
    /\ DaemonsTypeOK
    /\ OneHolder
    /\ KnowsOwn
    /\ \A a \in Apps : RunsForWindow(a)
    /\ \A d \in Daemons : Attended(d)
    /\ \A a \in Apps \ crossed : Alone(a)
    /\ \A c \in Calls : App(c) \notin crossed => Untouched(c)

-----------------------------------------------------------------------------
(***************************************************************************)
(* Steps.  Most calls only go on, and most daemons change by themselves.   *)
(***************************************************************************)

\* How a call goes on by itself, when its app's running daemon is r.
Moves(s, pc, d, r) ==
    \/ s.pc = "idle" /\ pc = "look" /\ d = NoDaemon
    \/ s.pc \in {"look", "stale", "defer"} /\ pc \in {"idle", "start", "defer", "stale"}
         /\ d = NoDaemon
    \/ s.pc = "start" /\ pc = "build" /\ d = r /\ r # NoDaemon
    \/ s.pc = "clear" /\ pc = "idle" /\ d = NoDaemon
    \/ s.pc = "build" /\ pc = "window" /\ d = s.daemon
    \/ s.pc \in {"build", "window"} /\ pc = "stop" /\ d = NoDaemon

CallMove(c) ==
    /\ App(c) \in apps
    /\ \E pc \in CallPcs, d \in Daemons \cup {NoDaemon} :
          Moves(call[c], pc, d, running[App(c)]) /\ CallGoes(c, pc, d)
    /\ call[c].pc = "idle" => \A b \in Calls : App(b) = App(c) => call[b].pc # "window"
    /\ UNCHANGED <<daemon, lifeline, apps, running, crashed>>

\* How a daemon changes by itself: it starts up, unless it is told to stop; it is
\* told when its lifeline is cut; it ends as it was told, or crashes.
StartsUp(d, s) ==
    /\ ~daemon[d].term /\ ~s.term
    /\ \/ daemon[d].pc = "booting" /\ s.pc = "services" /\ s.said = daemon[d].said
       \/ daemon[d].pc = "booting" /\ s.pc = "gone" /\ s.said = daemon[d].said
       \/ daemon[d].pc = "services" /\ s.pc = "bound" /\ s.said = daemon[d].said
       \/ daemon[d].pc = "bound" /\ s.pc = "serving"

IsTold(d, s) ==
    lifeline[d] = Cut /\ daemon[d].pc # "unborn" /\ s.pc = daemon[d].pc

StopsAsTold(d, s) ==
    /\ daemon[d].term \/ daemon[d].pc \in {"stopping", "exiting"}
    /\ daemon[d].pc \in {"booting", "services", "bound", "serving", "stopping", "exiting"}
    /\ s.pc \in {"stopping", "exiting", "gone"}
    /\ daemon[d].pc = "booting" => s.pc = "gone"

DaemonMove(d) ==
    /\ \E s \in [pc : DaemonPcs, guard : BOOLEAN, term : BOOLEAN, said : BOOLEAN] :
          /\ daemon' = [daemon EXCEPT ![d] = s]
          /\ s.guard => daemon[d].guard \/ ~Locked
          /\ \/ StartsUp(d, s) \/ IsTold(d, s) \/ StopsAsTold(d, s)
             \/ daemon[d].pc # "unborn" /\ s.pc = "gone" /\ d \in crashed'
    /\ crashed \subseteq crashed'
    /\ UNCHANGED <<lifeline, apps, running, call, crossed>>

\* Every step is one of these.
LEMMA StepIsMove ==
    ASSUME DaemonsTypeOK, DaemonsNext
    PROVE  \/ \E c \in Calls : \/ CallMove(c) \/ Handshake(c) \/ StartFails(c)
                               \/ StopDaemon(c) \/ StopWaits(c)
                               \/ \E d \in Daemons : SpawnDaemon(c, d)
           \/ \E a \in Apps : AppGoes(a)
           \/ \E d \in Daemons : StartByHand(d) \/ DaemonMove(d)
<1>1. ASSUME NEW c \in Calls, OpenCall(c) \/ WindowClosed(c) \/ CallGoesOn(c)
      PROVE  \/ CallMove(c) \/ Handshake(c) \/ StartFails(c) \/ StopDaemon(c) \/ StopWaits(c)
             \/ \E d \in Daemons : SpawnDaemon(c, d)
  <2>0. App(c) \in Apps /\ call[c].daemon \in Daemons \cup {NoDaemon}
    BY DEF Calls, App, DaemonsTypeOK
  <2>1. CASE OpenCall(c)
    BY <2>1 DEF OpenCall, CallAt, CallMove, Moves, CallPcs
  <2>2. CASE LiveDaemon(c)
    BY <2>2 DEF LiveDaemon, CallAt, CallMove, Moves, CallPcs
  <2>3. CASE ClearStale(c) \/ WaitForUnlock(c)
    BY <2>3 DEF ClearStale, WaitForUnlock, CallAt, CallMove, Moves, CallPcs
  <2>4. CASE Reuse(c)
    <3>1. running[App(c)] \in Daemons \cup {NoDaemon}
      BY <2>0 DEF DaemonsTypeOK
    <3> QED
      BY <2>4, <3>1 DEF Reuse, CallAt, CallMove, Moves, CallPcs
  <2>5. CASE ClearDaemonInfo(c) \/ WindowBuilt(c)
    BY <2>0, <2>5 DEF ClearDaemonInfo, WindowBuilt, CallAt, CallMove, Moves, CallPcs
  <2>6. CASE BuildFails(c) \/ WindowClosed(c)
    BY <2>6 DEF BuildFails, WindowClosed, CallAt, CallMove, Moves, CallPcs
  <2> QED
    BY <1>1, <2>1, <2>2, <2>3, <2>4, <2>5, <2>6 DEF CallGoesOn
<1>2. ASSUME NEW d \in Daemons, DaemonGoesOn(d) \/ DaemonCrashes(d)
      PROVE  DaemonMove(d)
  <2>0. /\ daemon[d] \in [pc : DaemonPcs, guard : BOOLEAN, term : BOOLEAN, said : BOOLEAN]
        /\ d # NoDaemon
    BY DEF DaemonsTypeOK, Daemons, NoDaemon
  <2> DEFINE s(pc) == [daemon[d] EXCEPT !.pc = pc]
  <2>1. \A pc \in DaemonPcs :
           /\ s(pc) \in [pc : DaemonPcs, guard : BOOLEAN, term : BOOLEAN, said : BOOLEAN]
           /\ s(pc).pc = pc /\ s(pc).guard = daemon[d].guard
           /\ s(pc).term = daemon[d].term /\ s(pc).said = daemon[d].said
           /\ Becomes(d, pc) => daemon' = [daemon EXCEPT ![d] = s(pc)]
    BY <2>0 DEF Becomes, DaemonsTypeOK
  <2> HIDE DEF s
  <2>2. CASE AcquireInstanceLock(d)
    <3>1. CASE \E pc \in {"gone", "services"} : Becomes(d, pc)
      <4>1. PICK pc \in {"gone", "services"} : Becomes(d, pc)
        BY <3>1
      <4>2. StartsUp(d, s(pc)) /\ pc \in DaemonPcs
        BY <2>1, <2>2, <4>1 DEF AcquireInstanceLock, StartsFrom, StartsUp, DaemonPcs
      <4> QED
        BY <2>1, <2>2, <4>1, <4>2 DEF AcquireInstanceLock, DaemonMove
    <3>2. CASE ~Locked /\ daemon' = [daemon EXCEPT ![d].pc = "services", ![d].guard = TRUE]
      <4> DEFINE t == [daemon[d] EXCEPT !.pc = "services", !.guard = TRUE]
      <4>1. /\ t \in [pc : DaemonPcs, guard : BOOLEAN, term : BOOLEAN, said : BOOLEAN]
            /\ t.pc = "services" /\ t.term = daemon[d].term /\ t.said = daemon[d].said
            /\ daemon' = [daemon EXCEPT ![d] = t]
        BY <2>0, <3>2 DEF DaemonPcs, DaemonsTypeOK
      <4> HIDE DEF t
      <4>2. StartsUp(d, t)
        BY <2>2, <4>1 DEF AcquireInstanceLock, StartsFrom, StartsUp
      <4> QED
        BY <2>2, <3>2, <4>1, <4>2 DEF AcquireInstanceLock, DaemonMove
    <3> QED
      BY <2>2, <3>1, <3>2 DEF AcquireInstanceLock
  <2>3. CASE WriteDaemonInfo(d)
    <3>1. StartsUp(d, s("bound")) /\ "bound" \in DaemonPcs
      BY <2>1, <2>3 DEF WriteDaemonInfo, StartsFrom, StartsUp, DaemonPcs
    <3> QED
      BY <2>1, <2>3, <3>1 DEF WriteDaemonInfo, DaemonMove
  <2>4. CASE Listening(d)
    <3> DEFINE t == [daemon[d] EXCEPT !.pc = "serving", !.said = TRUE]
    <3>1. /\ t \in [pc : DaemonPcs, guard : BOOLEAN, term : BOOLEAN, said : BOOLEAN]
          /\ t.pc = "serving" /\ t.guard = daemon[d].guard /\ t.term = daemon[d].term
          /\ daemon' = [daemon EXCEPT ![d] = t]
      BY <2>0, <2>4 DEF Listening, DaemonPcs, DaemonsTypeOK
    <3> HIDE DEF t
    <3>2. StartsUp(d, t)
      BY <2>4, <3>1 DEF Listening, StartsFrom, StartsUp
    <3> QED
      BY <2>4, <3>1, <3>2 DEF Listening, DaemonMove
  <2>5. CASE Terminated(d)
    <3>1. PICK pc \in {"stopping", "gone"} :
             Becomes(d, pc) /\ (daemon[d].pc # "serving" => pc = "gone")
      BY <2>5 DEF Terminated
    <3>2. StopsAsTold(d, s(pc)) /\ pc \in DaemonPcs
      BY <2>1, <2>5, <3>1 DEF Terminated, Signalled, StopsAsTold, DaemonPcs
    <3> QED
      BY <2>1, <2>5, <3>1, <3>2 DEF Terminated, DaemonMove
  <2>6. CASE Stopping(d) \/ Exited(d)
    <3>1. PICK pc \in {"exiting", "gone"} : Becomes(d, pc)
      BY <2>6 DEF Stopping, Exited
    <3>2. StopsAsTold(d, s(pc)) /\ pc \in DaemonPcs
      BY <2>1, <2>6, <3>1 DEF Stopping, Exited, StopsAsTold, DaemonPcs
    <3> QED
      BY <2>1, <2>6, <3>1, <3>2 DEF Stopping, Exited, DaemonMove
  <2>7. CASE StopWhenAppGoes(d)
    <3> DEFINE t == [daemon[d] EXCEPT !.term = TRUE]
    <3>1. /\ t \in [pc : DaemonPcs, guard : BOOLEAN, term : BOOLEAN, said : BOOLEAN]
          /\ t.pc = daemon[d].pc /\ t.guard = daemon[d].guard
          /\ daemon' = [daemon EXCEPT ![d] = t]
      BY <2>0, <2>7 DEF StopWhenAppGoes, DaemonsTypeOK
    <3> HIDE DEF t
    <3>2. IsTold(d, t)
      BY <2>7, <3>1 DEF StopWhenAppGoes, LosesApp, Lives, IsTold
    <3> QED
      BY <2>7, <3>1, <3>2 DEF StopWhenAppGoes, DaemonMove
  <2>8. CASE DaemonCrashes(d)
    <3>1. "gone" \in DaemonPcs /\ daemon[d].pc # "unborn" /\ d \in crashed'
      BY <2>8 DEF DaemonCrashes, DaemonPcs, Lives
    <3> QED
      BY <2>1, <2>8, <3>1 DEF DaemonCrashes, DaemonMove
  <2> QED
    BY <1>2, <2>2, <2>3, <2>4, <2>5, <2>6, <2>7, <2>8 DEF DaemonGoesOn
<1> QED
  BY <1>1, <1>2 DEF DaemonsNext

\* What starting one, and a step of a call, write.
LEMMA BornWrites ==
    ASSUME DaemonsTypeOK, NEW d \in Daemons, NEW h \in Apps \cup {ByHand}, Born(d, h)
    PROVE  /\ daemon[d].pc = "unborn" /\ ~daemon[d].term /\ ~daemon[d].said
           /\ daemon'[d].pc = "booting" /\ ~daemon'[d].term /\ ~daemon'[d].said
           /\ ~daemon'[d].guard
           /\ lifeline'[d] = h
           /\ \A e \in Daemons \ {d} : daemon'[e] = daemon[e] /\ lifeline'[e] = lifeline[e]
           /\ daemon' \in [Daemons -> [pc : DaemonPcs, guard : BOOLEAN, term : BOOLEAN, said : BOOLEAN]]
           /\ lifeline' \in [Daemons -> Apps \cup {ByHand, Cut}]
<1>1. /\ daemon[d] = Unstarted
      /\ daemon' = [daemon EXCEPT ![d].pc = "booting"]
      /\ lifeline' = [lifeline EXCEPT ![d] = h]
  BY DEF Born, Becomes
<1>2. daemon[d].pc = "unborn" /\ ~daemon[d].term /\ ~daemon[d].said /\ ~daemon[d].guard
  BY <1>1 DEF Unstarted
<1>3. /\ daemon'[d].pc = "booting"
      /\ daemon'[d].term = daemon[d].term /\ daemon'[d].said = daemon[d].said
      /\ daemon'[d].guard = daemon[d].guard
      /\ \A e \in Daemons \ {d} : daemon'[e] = daemon[e]
      /\ daemon' \in [Daemons -> [pc : DaemonPcs, guard : BOOLEAN, term : BOOLEAN, said : BOOLEAN]]
  BY <1>1 DEF DaemonsTypeOK, DaemonPcs
<1>4. /\ lifeline'[d] = h
      /\ \A e \in Daemons \ {d} : lifeline'[e] = lifeline[e]
      /\ lifeline' \in [Daemons -> Apps \cup {ByHand, Cut}]
  BY <1>1 DEF DaemonsTypeOK
<1> QED
  BY <1>2, <1>3, <1>4

LEMMA BecomesWrites ==
    ASSUME DaemonsTypeOK, NEW d \in Daemons, NEW pc \in DaemonPcs, Becomes(d, pc)
    PROVE  /\ daemon'[d].pc = pc
           /\ daemon'[d].term = daemon[d].term /\ daemon'[d].said = daemon[d].said
           /\ \A e \in Daemons \ {d} : daemon'[e] = daemon[e]
           /\ daemon' \in [Daemons -> [pc : DaemonPcs, guard : BOOLEAN, term : BOOLEAN, said : BOOLEAN]]
BY DEF Becomes, DaemonsTypeOK

LEMMA CallGoesWrites ==
    ASSUME DaemonsTypeOK, NEW c \in Calls, NEW pc \in CallPcs,
           NEW d \in Daemons \cup {NoDaemon}, CallGoes(c, pc, d)
    PROVE  /\ call'[c] = [pc |-> pc, daemon |-> d]
           /\ call'[c].pc = pc /\ call'[c].daemon = d
           /\ \A b \in Calls \ {c} : call'[b] = call[b]
           /\ call' \in [Calls -> [pc : CallPcs, daemon : Daemons \cup {NoDaemon}]]
           /\ crossed \subseteq crossed' /\ crossed' \subseteq Apps
           /\ (\E b \in Calls \ {c} : App(b) = App(c) /\ InFlight(b)) /\ pc \notin {"idle", "window"}
                => App(c) \in crossed'
<1>1. App(c) \in Apps
  BY DEF App, Calls
<1> QED
  BY <1>1 DEF CallGoes, DaemonsTypeOK

\* What the five steps of a call that involve its daemon write.
LEMMA SpawnWrites ==
    ASSUME DaemonsTypeOK, NEW c \in Calls, NEW d \in Daemons, SpawnDaemon(c, d)
    PROVE  /\ Born(d, App(c)) /\ App(c) \in Apps
           /\ call[c].pc = "start" /\ running[App(c)] = NoDaemon
           /\ "wait" \in CallPcs /\ CallGoes(c, "wait", d)
           /\ UNCHANGED <<apps, running, crashed>>
BY DEF SpawnDaemon, CallAt, App, Calls, CallPcs

LEMMA HandshakeWrites ==
    ASSUME DaemonsTypeOK, NEW c \in Calls, Handshake(c)
    PROVE  /\ App(c) \in Apps /\ call[c].pc = "wait" /\ daemon[call[c].daemon].said
           /\ running' \in [Apps -> Daemons \cup {NoDaemon}]
           /\ lifeline' \in [Daemons -> Apps \cup {ByHand, Cut}]
           /\ running'[App(c)] = call[c].daemon
           /\ \A a \in Apps \ {App(c)} : running'[a] = running[a]
           /\ \A d \in Daemons : lifeline'[d] = lifeline[d]
                                    \/ (running[App(c)] = d /\ lifeline'[d] = Cut)
           /\ "build" \in CallPcs /\ call[c].daemon \in Daemons \cup {NoDaemon}
           /\ CallGoes(c, "build", call[c].daemon)
           /\ UNCHANGED <<daemon, apps, crashed>>
<1>1. App(c) \in Apps /\ call[c].daemon \in Daemons \cup {NoDaemon}
  BY DEF App, Calls, DaemonsTypeOK
<1> QED
  BY <1>1 DEF Handshake, CallAt, CallPcs, DaemonsTypeOK

LEMMA EndsWrite ==
    ASSUME DaemonsTypeOK, NEW c \in Calls, StartFails(c) \/ StopWaits(c)
    PROVE  /\ App(c) \in Apps /\ call[c].pc \in {"wait", "stopping"}
           /\ "gone" \in DaemonPcs /\ Becomes(call[c].daemon, "gone")
           /\ "clear" \in CallPcs /\ CallGoes(c, "clear", NoDaemon)
           /\ UNCHANGED <<lifeline, apps, running, crashed>>
BY DEF StartFails, StopWaits, CallAt, App, Calls, CallPcs, DaemonPcs

\* The daemon of a call that ends it is gone; the others are as they were.
LEMMA EndsDaemon ==
    ASSUME DaemonsTypeOK, NEW c \in Calls, StartFails(c) \/ StopWaits(c), NEW e \in Daemons
    PROVE  daemon'[e] = daemon[e] \/ (e = call[c].daemon /\ daemon'[e].pc = "gone")
<1>1. daemon' = [daemon EXCEPT ![call[c].daemon].pc = "gone"]
  BY EndsWrite DEF Becomes
<1>2. PICK d : d = call[c].daemon
  OBVIOUS
<1>3. daemon' = [daemon EXCEPT ![d].pc = "gone"]
  BY <1>1, <1>2
<1> QED
  BY <1>2, <1>3 DEF DaemonsTypeOK

LEMMA StopWrites ==
    ASSUME DaemonsTypeOK, NEW c \in Calls, StopDaemon(c)
    PROVE  /\ App(c) \in Apps /\ call[c].pc = "stop"
           /\ running' \in [Apps -> Daemons \cup {NoDaemon}]
           /\ running'[App(c)] = NoDaemon
           /\ \A a \in Apps \ {App(c)} : running'[a] = running[a]
           /\ daemon' \in [Daemons -> [pc : DaemonPcs, guard : BOOLEAN, term : BOOLEAN, said : BOOLEAN]]
           /\ \A d \in Daemons : daemon'[d].pc = daemon[d].pc /\ daemon'[d].guard = daemon[d].guard
           /\ \A d \in Daemons : d # running[App(c)] => daemon'[d] = daemon[d]
           /\ running[App(c)] \in Daemons \cup {NoDaemon}
           /\ \E pc \in CallPcs : pc \in {"stopping", "clear"} /\ CallGoes(c, pc, running[App(c)])
           /\ UNCHANGED <<lifeline, apps, crashed>>
<1>1. App(c) \in Apps
  BY DEF App, Calls
<1>2. running[App(c)] \in Daemons \cup {NoDaemon} /\ NoDaemon \notin Daemons
  BY <1>1 DEF DaemonsTypeOK, Daemons, NoDaemon
<1>3. \E pc \in CallPcs : pc \in {"stopping", "clear"} /\ CallGoes(c, pc, running[App(c)])
  BY DEF StopDaemon, CallPcs
<1>4. \/ daemon' = daemon
      \/ /\ running[App(c)] \in Daemons
         /\ daemon' = [daemon EXCEPT ![running[App(c)]].term = TRUE]
  BY <1>2 DEF StopDaemon
<1>5. /\ daemon' \in [Daemons -> [pc : DaemonPcs, guard : BOOLEAN, term : BOOLEAN, said : BOOLEAN]]
      /\ \A d \in Daemons : daemon'[d].pc = daemon[d].pc /\ daemon'[d].guard = daemon[d].guard
      /\ \A d \in Daemons : d # running[App(c)] => daemon'[d] = daemon[d]
  <2>1. CASE daemon' = daemon
    BY <2>1 DEF DaemonsTypeOK
  <2>2. CASE daemon' # daemon
    <3>1. PICK e \in Daemons : e = running[App(c)]
      BY <1>4, <2>2
    <3>2. daemon' = [daemon EXCEPT ![e].term = TRUE]
      BY <1>4, <2>2, <3>1
    <3> QED
      BY ZenonT(60), <3>1, <3>2 DEF DaemonsTypeOK
  <2> QED
    BY <2>1, <2>2
<1> QED
  BY <1>1, <1>2, <1>3, <1>5 DEF StopDaemon, CallAt, DaemonsTypeOK

LEMMA AppGoesWrites ==
    ASSUME DaemonsTypeOK, NEW a \in Apps, AppGoes(a)
    PROVE  /\ apps' \subseteq Apps
           /\ running' \in [Apps -> Daemons \cup {NoDaemon}]
           /\ lifeline' \in [Daemons -> Apps \cup {ByHand, Cut}]
           /\ call' \in [Calls -> [pc : CallPcs, daemon : Daemons \cup {NoDaemon}]]
           /\ running'[a] = NoDaemon /\ \A b \in Apps \ {a} : running'[b] = running[b]
           /\ \A d \in Daemons : lifeline'[d] = IF lifeline[d] = a THEN Cut ELSE lifeline[d]
           /\ \A c \in Calls : call'[c] = IF App(c) = a THEN IdleCall ELSE call[c]
           /\ \A c \in Calls : App(c) = a => call'[c].pc = "idle" /\ call'[c].daemon = NoDaemon
           /\ UNCHANGED <<daemon, crashed, crossed>>
<1>1. IdleCall \in [pc : CallPcs, daemon : Daemons \cup {NoDaemon}]
  BY DEF IdleCall, CallPcs
<1>2. IdleCall.pc = "idle" /\ IdleCall.daemon = NoDaemon
  BY DEF IdleCall
<1> QED
  BY <1>1, <1>2 DEF AppGoes, DaemonsTypeOK

\* Every step keeps the types.
LEMMA DaemonsTypeStep ==
    ASSUME DaemonsTypeOK, [DaemonsNext]_daemonVars
    PROVE  DaemonsTypeOK'
<1>1. ASSUME NEW c \in Calls, CallMove(c) PROVE DaemonsTypeOK'
  BY <1>1, CallGoesWrites DEF CallMove, DaemonsTypeOK
<1>2. ASSUME NEW c \in Calls, Handshake(c) PROVE DaemonsTypeOK'
  BY <1>2, HandshakeWrites, CallGoesWrites DEF DaemonsTypeOK
<1>3. ASSUME NEW c \in Calls, StartFails(c) \/ StopWaits(c) PROVE DaemonsTypeOK'
  <2>1. daemon' \in [Daemons -> [pc : DaemonPcs, guard : BOOLEAN, term : BOOLEAN, said : BOOLEAN]]
    <3>1. daemon' = [daemon EXCEPT ![call[c].daemon].pc = "gone"] /\ "gone" \in DaemonPcs
      BY <1>3, EndsWrite DEF Becomes
    <3> QED
      BY ZenonT(60), <3>1 DEF DaemonsTypeOK
  <2> QED
    BY <1>3, <2>1, EndsWrite, CallGoesWrites DEF DaemonsTypeOK
<1>4. ASSUME NEW c \in Calls, StopDaemon(c) PROVE DaemonsTypeOK'
  BY <1>4, StopWrites, CallGoesWrites DEF DaemonsTypeOK
<1>5. ASSUME NEW c \in Calls, NEW d \in Daemons, SpawnDaemon(c, d) PROVE DaemonsTypeOK'
  BY ZenonT(60), <1>5, SpawnWrites, BornWrites, CallGoesWrites DEF DaemonsTypeOK
<1>6. ASSUME NEW a \in Apps, AppGoes(a) PROVE DaemonsTypeOK'
  BY <1>6, AppGoesWrites DEF DaemonsTypeOK
<1>7. ASSUME NEW d \in Daemons, StartByHand(d) PROVE DaemonsTypeOK'
  BY <1>7, BornWrites DEF StartByHand, DaemonsTypeOK
<1>8. ASSUME NEW d \in Daemons, DaemonMove(d) PROVE DaemonsTypeOK'
  BY <1>8 DEF DaemonMove, DaemonsTypeOK
<1>9. CASE UNCHANGED daemonVars
  BY <1>9 DEF daemonVars, DaemonsTypeOK
<1> QED
  BY <1>1, <1>2, <1>3, <1>4, <1>5, <1>6, <1>7, <1>8, <1>9, StepIsMove

-----------------------------------------------------------------------------
(* The lock.                                                               *)

\* A daemon comes to hold the lock only when none does, and alone.
LEMMA HolderStep ==
    ASSUME DaemonsTypeOK, [DaemonsNext]_daemonVars
    PROVE  \/ \A d \in Daemons : Holds(d)' => Holds(d)
           \/ ~Locked /\ \E d \in Daemons : \A e \in Daemons \ {d} : daemon'[e] = daemon[e]
<1> USE DEF Holds, Lives
<1>1. CASE UNCHANGED daemon
  BY <1>1
<1>2. ASSUME NEW d \in Daemons, NEW h \in Apps \cup {ByHand}, Born(d, h)
      PROVE  \A e \in Daemons : Holds(e)' => Holds(e)
  BY <1>2, BornWrites
<1>3. ASSUME NEW c \in Calls, CallMove(c) \/ Handshake(c)
      PROVE  UNCHANGED daemon
  BY <1>3 DEF CallMove, Handshake
<1>4. ASSUME NEW c \in Calls, StartFails(c) \/ StopWaits(c)
      PROVE  \A e \in Daemons : Holds(e)' => Holds(e)
  BY <1>4, EndsDaemon
<1>5. ASSUME NEW c \in Calls, StopDaemon(c)
      PROVE  \A e \in Daemons : Holds(e)' => Holds(e)
  BY <1>5, StopWrites
<1>6. ASSUME NEW d \in Daemons, DaemonMove(d)
      PROVE  \/ \A e \in Daemons : Holds(e)' => Holds(e)
             \/ ~Locked /\ \A e \in Daemons \ {d} : daemon'[e] = daemon[e]
  <2>1. PICK s \in [pc : DaemonPcs, guard : BOOLEAN, term : BOOLEAN, said : BOOLEAN] :
           /\ daemon' = [daemon EXCEPT ![d] = s]
           /\ s.guard => daemon[d].guard \/ ~Locked
           /\ \/ StartsUp(d, s) \/ IsTold(d, s) \/ StopsAsTold(d, s)
              \/ s.pc = "gone"
    BY <1>6 DEF DaemonMove
  <2>2. daemon'[d] = s /\ \A e \in Daemons \ {d} : daemon'[e] = daemon[e]
    BY <2>1 DEF DaemonsTypeOK
  <2>3. CASE ~Locked
    BY <2>2, <2>3
  <2>4. CASE Locked
    <3>1. s.guard => daemon[d].guard
      BY <2>1, <2>4
    <3>2. s.pc \notin {"unborn", "gone"} => daemon[d].pc \notin {"unborn", "gone"}
      BY <2>1 DEF StartsUp, IsTold, StopsAsTold
    <3> QED
      BY <2>2, <3>1, <3>2
  <2> QED
    BY <2>3, <2>4
<1>7. ASSUME NEW a \in Apps, AppGoes(a) PROVE UNCHANGED daemon
  BY <1>7, AppGoesWrites
<1>8. ASSUME NEW c \in Calls, NEW d \in Daemons, SpawnDaemon(c, d)
      PROVE  \A e \in Daemons : Holds(e)' => Holds(e)
  BY <1>2, <1>8, SpawnWrites
<1>9. ASSUME NEW d \in Daemons, StartByHand(d)
      PROVE  \A e \in Daemons : Holds(e)' => Holds(e)
  BY <1>2, <1>9 DEF StartByHand
<1>10. CASE UNCHANGED daemonVars
  BY <1>1, <1>10 DEF daemonVars
<1>11. CASE DaemonsNext
  <2>1. CASE \E c \in Calls : \/ CallMove(c) \/ Handshake(c) \/ StartFails(c)
                             \/ StopDaemon(c) \/ StopWaits(c)
                             \/ \E d \in Daemons : SpawnDaemon(c, d)
    BY <1>1, <1>3, <1>4, <1>5, <1>8, <2>1
  <2>2. CASE \E a \in Apps : AppGoes(a)
    BY <1>1, <1>7, <2>2
  <2>3. CASE \E d \in Daemons : StartByHand(d) \/ DaemonMove(d)
    BY <1>6, <1>9, <2>3
  <2> QED
    BY <1>11, <2>1, <2>2, <2>3, StepIsMove
<1> QED
  BY <1>10, <1>11

LEMMA OneHolderStep ==
    ASSUME DaemonsTypeOK, OneHolder, [DaemonsNext]_daemonVars
    PROVE  OneHolder'
<1>1. CASE \A d \in Daemons : Holds(d)' => Holds(d)
  BY <1>1 DEF OneHolder
<1>2. CASE ~Locked /\ \E d \in Daemons : \A e \in Daemons \ {d} : daemon'[e] = daemon[e]
  <2>1. PICK d \in Daemons : \A e \in Daemons \ {d} : daemon'[e] = daemon[e]
    BY <1>2
  <2>2. \A e \in Daemons \ {d} : ~Holds(e)'
    BY <1>2, <2>1 DEF Locked, Holds, Lives
  <2> QED
    BY <2>2 DEF OneHolder
<1> QED
  BY <1>1, <1>2, HolderStep

-----------------------------------------------------------------------------
(* What an app knows of the daemons.                                       *)

\* A step gives a lifeline to nobody but the daemon it starts, and no daemon is
\* unborn again.
LEMMA LifelineStep ==
    ASSUME DaemonsTypeOK, DaemonsNext, NEW d \in Daemons, daemon[d].pc # "unborn"
    PROVE  daemon'[d].pc # "unborn" /\ lifeline'[d] \in {lifeline[d], Cut}
<1>1. ASSUME NEW e \in Daemons, NEW h \in Apps \cup {ByHand}, Born(e, h)
      PROVE  daemon'[d].pc # "unborn" /\ lifeline'[d] \in {lifeline[d], Cut}
  BY <1>1, BornWrites
<1>2. ASSUME NEW c \in Calls, CallMove(c) \/ Handshake(c)
      PROVE  daemon'[d].pc # "unborn" /\ lifeline'[d] \in {lifeline[d], Cut}
  BY <1>2, HandshakeWrites DEF CallMove
<1>3. ASSUME NEW c \in Calls, StartFails(c) \/ StopWaits(c)
      PROVE  daemon'[d].pc # "unborn" /\ lifeline'[d] \in {lifeline[d], Cut}
  BY <1>3, EndsDaemon, EndsWrite
<1>4. ASSUME NEW c \in Calls, StopDaemon(c)
      PROVE  daemon'[d].pc # "unborn" /\ lifeline'[d] \in {lifeline[d], Cut}
  BY <1>4, StopWrites
<1>5. ASSUME NEW e \in Daemons, DaemonMove(e)
      PROVE  daemon'[d].pc # "unborn" /\ lifeline'[d] \in {lifeline[d], Cut}
  <2>1. PICK s \in [pc : DaemonPcs, guard : BOOLEAN, term : BOOLEAN, said : BOOLEAN] :
           /\ daemon' = [daemon EXCEPT ![e] = s]
           /\ \/ StartsUp(e, s) \/ IsTold(e, s) \/ StopsAsTold(e, s)
              \/ s.pc = "gone"
    BY <1>5 DEF DaemonMove
  <2>2. s.pc # "unborn"
    BY <2>1 DEF StartsUp, IsTold, StopsAsTold
  <2> QED
    BY <1>5, <2>1, <2>2 DEF DaemonMove, DaemonsTypeOK
<1>6. ASSUME NEW a \in Apps, AppGoes(a)
      PROVE  daemon'[d].pc # "unborn" /\ lifeline'[d] \in {lifeline[d], Cut}
  BY <1>6, AppGoesWrites
<1>7. ASSUME NEW c \in Calls, NEW e \in Daemons, SpawnDaemon(c, e)
      PROVE  daemon'[d].pc # "unborn" /\ lifeline'[d] \in {lifeline[d], Cut}
  BY <1>1, <1>7, SpawnWrites
<1>8. ASSUME NEW e \in Daemons, StartByHand(e)
      PROVE  daemon'[d].pc # "unborn" /\ lifeline'[d] \in {lifeline[d], Cut}
  BY <1>1, <1>8 DEF StartByHand
<1> QED
  BY <1>2, <1>3, <1>4, <1>5, <1>6, <1>7, <1>8, StepIsMove

\* The daemon an app or a call has after a step is one it had, or one it starts.
LEMMA HadOrStarted ==
    ASSUME DaemonsTypeOK, DaemonsNext
    PROVE  /\ \A a \in Apps : \/ running'[a] \in {running[a], NoDaemon}
                              \/ \E b \in Calls : App(b) = a /\ running'[a] = call[b].daemon
           /\ \A c \in Calls : \/ call'[c].daemon \in {call[c].daemon, NoDaemon}
                               \/ call'[c].daemon = running[App(c)]
                               \/ \E d \in Daemons : SpawnDaemon(c, d) /\ call'[c].daemon = d
<1> DEFINE A == \A a \in Apps : \/ running'[a] \in {running[a], NoDaemon}
                                \/ \E b \in Calls : App(b) = a /\ running'[a] = call[b].daemon
           C == \A c \in Calls : \/ call'[c].daemon \in {call[c].daemon, NoDaemon}
                                 \/ call'[c].daemon = running[App(c)]
                                 \/ \E d \in Daemons : SpawnDaemon(c, d) /\ call'[c].daemon = d
<1>0. ASSUME NEW c \in Calls, NEW pc \in CallPcs, NEW d \in Daemons \cup {NoDaemon},
             CallGoes(c, pc, d),
             \/ d \in {call[c].daemon, NoDaemon, running[App(c)]}
             \/ SpawnDaemon(c, d) /\ d \in Daemons
      PROVE  C
  <2>1. call'[c].daemon = d /\ \A b \in Calls \ {c} : call'[b] = call[b]
    BY <1>0, CallGoesWrites
  <2>2. ASSUME NEW b \in Calls
        PROVE  \/ call'[b].daemon \in {call[b].daemon, NoDaemon}
               \/ call'[b].daemon = running[App(b)]
               \/ \E e \in Daemons : SpawnDaemon(b, e) /\ call'[b].daemon = e
    <3>1. CASE b = c
      BY <1>0, <2>1, <3>1
    <3>2. CASE b # c
      BY <2>1, <3>2
    <3> QED
      BY <3>1, <3>2
  <2> QED
    BY <2>2
<1>1. ASSUME NEW c \in Calls, CallMove(c) PROVE A /\ C
  <2>1. PICK pc \in CallPcs, d \in Daemons \cup {NoDaemon} :
           Moves(call[c], pc, d, running[App(c)]) /\ CallGoes(c, pc, d)
    BY <1>1 DEF CallMove
  <2>2. d \in {call[c].daemon, NoDaemon, running[App(c)]}
    BY <2>1 DEF Moves
  <2>3. C
    BY <1>0, <2>1, <2>2
  <2> QED
    BY <1>1, <2>3 DEF CallMove
<1>2. ASSUME NEW c \in Calls, Handshake(c) PROVE A /\ C
  <2>1. C
    BY <1>0, <1>2, HandshakeWrites
  <2>2. A
    BY <1>2, HandshakeWrites
  <2> QED
    BY <2>1, <2>2
<1>3. ASSUME NEW c \in Calls, StartFails(c) \/ StopWaits(c) PROVE A /\ C
  <2>1. C
    BY <1>0, <1>3, EndsWrite
  <2> QED
    BY <1>3, <2>1, EndsWrite
<1>4. ASSUME NEW c \in Calls, StopDaemon(c) PROVE A /\ C
  <2>1. C
    BY <1>0, <1>4, StopWrites
  <2>2. A
    BY <1>4, StopWrites
  <2> QED
    BY <2>1, <2>2
<1>5. ASSUME NEW c \in Calls, NEW d \in Daemons, SpawnDaemon(c, d) PROVE A /\ C
  <2>1. C
    BY <1>0, <1>5, SpawnWrites
  <2> QED
    BY <1>5, <2>1, SpawnWrites
<1>6. ASSUME NEW a \in Apps, AppGoes(a) PROVE A /\ C
  BY <1>6, AppGoesWrites
<1>7. ASSUME NEW d \in Daemons, StartByHand(d) \/ DaemonMove(d) PROVE A /\ C
  BY <1>7 DEF StartByHand, DaemonMove
<1> HIDE DEF A, C
<1>8. A /\ C
  BY <1>1, <1>2, <1>3, <1>4, <1>5, <1>6, <1>7, StepIsMove
<1> QED
  BY <1>8 DEF A, C

LEMMA OwnStep ==
    ASSUME DaemonsTypeOK, DaemonsTypeOK', KnowsOwn, DaemonsNext
    PROVE  KnowsOwn'
<1>0. ASSUME NEW d, NEW a, OfApp(d, a) PROVE OfApp(d, a)'
  BY <1>0, LifelineStep DEF OfApp
<1>1. \A a : OfApp(NoDaemon, a)
  BY DEF OfApp, NoDaemon, Daemons
<1>2. \A c \in Calls : App(c) \in Apps
  BY DEF Calls, App
<1>3. ASSUME NEW a \in Apps PROVE OfApp(running[a], a)'
  <2>1. PICK d : d = running'[a]
    OBVIOUS
  <2>2. OfApp(d, a)
    BY <1>1, <2>1, HadOrStarted DEF KnowsOwn
  <2>3. OfApp(d, a)'
    BY <1>0, <2>2
  <2> QED
    BY <2>1, <2>3 DEF OfApp
<1>4. ASSUME NEW c \in Calls PROVE OfApp(call[c].daemon, App(c))'
  <2>1. PICK d : d = call'[c].daemon
    OBVIOUS
  <2>2. CASE d \in {call[c].daemon, NoDaemon, running[App(c)]}
    <3>1. OfApp(d, App(c))
      BY <1>1, <1>2, <2>2 DEF KnowsOwn
    <3>2. OfApp(d, App(c))'
      BY <1>0, <3>1
    <3> QED
      BY <2>1, <3>2 DEF OfApp
  <2>3. CASE d \in Daemons /\ SpawnDaemon(c, d)
    <3>1. daemon'[d].pc = "booting" /\ lifeline'[d] = App(c)
      BY <2>3, SpawnWrites, BornWrites
    <3> QED
      BY <2>1, <3>1 DEF OfApp
  <2> QED
    BY <2>1, <2>2, <2>3, HadOrStarted
<1> QED
  BY <1>3, <1>4 DEF KnowsOwn

-----------------------------------------------------------------------------
(***************************************************************************)
(* Apps whose calls never overlap.                                         *)
(***************************************************************************)

\* A call that is under way after a step was so before, or begins: then no other
\* one of its app has a window, and one under way makes them overlap.
LEMMA CallBegins ==
    ASSUME DaemonsTypeOK, DaemonsNext, NEW c \in Calls, App(c) \notin crossed',
           call[c].pc = "idle", call'[c].pc # "idle"
    PROVE  \A b \in Calls \ {c} : App(b) = App(c) => call[b].pc = "idle" /\ call'[b] = call[b]
<1>1. ASSUME NEW e \in Calls, call'[e].pc # call[e].pc,
             CallMove(e) \/ Handshake(e) \/ StartFails(e) \/ StopDaemon(e) \/ StopWaits(e)
                \/ \E d \in Daemons : SpawnDaemon(e, d)
      PROVE  \A b \in Calls \ {e} : call'[b] = call[b]
  BY <1>1, HandshakeWrites, EndsWrite, StopWrites, SpawnWrites, CallGoesWrites DEF CallMove
<1>2. ~(\E a \in Apps : AppGoes(a)) /\ ~(\E d \in Daemons : StartByHand(d) \/ DaemonMove(d))
  <2>1. ASSUME NEW a \in Apps, AppGoes(a) PROVE FALSE
    BY <2>1, AppGoesWrites
  <2>2. ASSUME NEW d \in Daemons, StartByHand(d) \/ DaemonMove(d) PROVE FALSE
    BY <2>2 DEF StartByHand, DaemonMove
  <2> QED
    BY <2>1, <2>2
<1>3. CallMove(c)
  <2>1. PICK e \in Calls :
           CallMove(e) \/ Handshake(e) \/ StartFails(e) \/ StopDaemon(e) \/ StopWaits(e)
              \/ \E d \in Daemons : SpawnDaemon(e, d)
    BY <1>2, StepIsMove
  <2>2. \A b \in Calls \ {e} : call'[b] = call[b]
    BY <2>1, HandshakeWrites, EndsWrite, StopWrites, SpawnWrites, CallGoesWrites DEF CallMove
  <2>3. e = c
    BY <2>2
  <2> QED
    BY <2>1, <2>3, HandshakeWrites, EndsWrite, StopWrites, SpawnWrites
<1>4. PICK pc \in CallPcs, d \in Daemons \cup {NoDaemon} :
         Moves(call[c], pc, d, running[App(c)]) /\ CallGoes(c, pc, d)
  BY <1>3 DEF CallMove
<1>5. pc = "look"
  BY <1>4 DEF Moves
<1>6. \A b \in Calls \ {c} : call'[b] = call[b]
  BY <1>4, CallGoesWrites
<1>7. \A b \in Calls \ {c} : App(b) = App(c) => ~InFlight(b)
  BY <1>4, <1>5, CallGoesWrites
<1>8. \A b \in Calls : App(b) = App(c) => call[b].pc # "window"
  BY <1>3 DEF CallMove
<1> QED
  BY <1>6, <1>7, <1>8 DEF InFlight

\* An app whose calls overlapped once is one for which they did.
LEMMA CrossedGrows ==
    ASSUME DaemonsTypeOK, DaemonsNext
    PROVE  crossed \subseteq crossed' /\ crashed \subseteq crashed'
<1>1. ASSUME NEW c \in Calls,
             CallMove(c) \/ Handshake(c) \/ StartFails(c) \/ StopDaemon(c) \/ StopWaits(c)
                \/ \E d \in Daemons : SpawnDaemon(c, d)
      PROVE  crossed \subseteq crossed' /\ crashed \subseteq crashed'
  BY ZenonT(60), <1>1, HandshakeWrites, EndsWrite, StopWrites, SpawnWrites, CallGoesWrites DEF CallMove
<1>2. ASSUME NEW a \in Apps, AppGoes(a)
      PROVE  crossed \subseteq crossed' /\ crashed \subseteq crashed'
  BY <1>2, AppGoesWrites
<1>3. ASSUME NEW d \in Daemons, StartByHand(d) \/ DaemonMove(d)
      PROVE  crossed \subseteq crossed' /\ crashed \subseteq crashed'
  BY <1>3 DEF StartByHand, DaemonMove
<1> QED
  BY <1>1, <1>2, <1>3, StepIsMove

LEMMA AloneStep ==
    ASSUME DaemonsTypeOK, DaemonsNext, NEW a \in Apps \ crossed', Alone(a)
    PROVE  Alone(a)'
<1> SUFFICES ASSUME NEW b \in Calls, NEW c \in Calls, App(b) = a, App(c) = a,
                    call'[b].pc # "idle", call'[c].pc # "idle", b # c
             PROVE  FALSE
  BY DEF Alone, App
<1>1. CASE call[b].pc = "idle"
  BY <1>1, CallBegins
<1>2. CASE call[c].pc = "idle"
  BY <1>2, CallBegins
<1>3. CASE call[b].pc # "idle" /\ call[c].pc # "idle"
  BY <1>3 DEF Alone
<1> QED
  BY <1>1, <1>2, <1>3

-----------------------------------------------------------------------------
(* An app has its daemon for its window.                                   *)

\* The others' calls stay where they are when one goes on.
LEMMA HandshakeCalls ==
    ASSUME DaemonsTypeOK, NEW c \in Calls, Handshake(c)
    PROVE  /\ call'[c].pc = "build" /\ call'[c].daemon = call[c].daemon
           /\ \A b \in Calls \ {c} : call'[b] = call[b]
<1>1. PICK d \in Daemons \cup {NoDaemon} : d = call[c].daemon
  BY HandshakeWrites
<1>2. "build" \in CallPcs /\ CallGoes(c, "build", d)
  BY <1>1, HandshakeWrites
<1> QED
  BY <1>1, <1>2, CallGoesWrites

LEMMA OthersStay ==
    ASSUME DaemonsTypeOK, NEW c \in Calls,
           CallMove(c) \/ Handshake(c) \/ StartFails(c) \/ StopDaemon(c) \/ StopWaits(c)
              \/ \E d \in Daemons : SpawnDaemon(c, d)
    PROVE  \A b \in Calls \ {c} : call'[b] = call[b]
<1>1. CASE CallMove(c)
  BY <1>1, CallGoesWrites DEF CallMove
<1>2. CASE Handshake(c)
  BY <1>2, HandshakeCalls
<1>3. CASE StartFails(c) \/ StopWaits(c)
  BY <1>3, EndsWrite, CallGoesWrites
<1>4. CASE StopDaemon(c)
  BY <1>4, StopWrites, CallGoesWrites
<1>5. CASE \E d \in Daemons : SpawnDaemon(c, d)
  BY <1>5, SpawnWrites, CallGoesWrites
<1> QED
  BY <1>1, <1>2, <1>3, <1>4, <1>5

LEMMA WindowStep ==
    ASSUME DaemonsTypeOK, DaemonsNext, NEW a \in Apps, RunsForWindow(a)
    PROVE  RunsForWindow(a)'
<1>0. ASSUME running'[a] = running[a],
             \A b \in Calls :
                App(b) = a /\ ForWindow(call[b], running[a]) => ForWindow(call'[b], running[a])
      PROVE  RunsForWindow(a)'
  BY <1>0 DEF RunsForWindow, App
<1>1. ASSUME NEW c \in Calls, CallMove(c) PROVE RunsForWindow(a)'
  <2>1. PICK pc \in CallPcs, d \in Daemons \cup {NoDaemon} :
           Moves(call[c], pc, d, running[App(c)]) /\ CallGoes(c, pc, d)
    BY <1>1 DEF CallMove
  <2>2. ASSUME NEW x, ForWindow(call[c], x)
        PROVE  pc = "stop" \/ (pc = "window" /\ d = x)
    BY <2>1, <2>2 DEF Moves, ForWindow
  <2>3. /\ call'[c].pc = pc /\ call'[c].daemon = d
        /\ \A b \in Calls \ {c} : call'[b] = call[b]
    BY <2>1, CallGoesWrites
  <2>4. running' = running
    BY <1>1 DEF CallMove
  <2> QED
    BY <1>0, <2>2, <2>3, <2>4 DEF ForWindow
<1>2. ASSUME NEW c \in Calls, Handshake(c) PROVE RunsForWindow(a)'
  <2>1. /\ call'[c].pc = "build" /\ call'[c].daemon = call[c].daemon
        /\ \A b \in Calls \ {c} : call'[b] = call[b]
    BY <1>2, HandshakeCalls
  <2>2. CASE App(c) = a
    <3>1. running'[a] = call'[c].daemon
      BY <1>2, <2>1, <2>2, HandshakeWrites
    <3> QED
      BY <2>1, <2>2, <3>1 DEF RunsForWindow, ForWindow, App
  <2>3. CASE App(c) # a
    <3>1. running'[a] = running[a]
      BY <1>2, <2>3, HandshakeWrites
    <3> QED
      BY <1>0, <2>1, <2>3, <3>1
  <2> QED
    BY <2>2, <2>3
<1>3. ASSUME NEW c \in Calls, StartFails(c) \/ StopWaits(c) PROVE RunsForWindow(a)'
  <2>1. call[c].pc \in {"wait", "stopping"} /\ \A b \in Calls \ {c} : call'[b] = call[b]
    BY <1>3, EndsWrite, CallGoesWrites
  <2> QED
    BY <1>0, <1>3, <2>1, EndsWrite DEF ForWindow
<1>4. ASSUME NEW c \in Calls, StopDaemon(c) PROVE RunsForWindow(a)'
  <2>1. CASE App(c) = a
    BY <1>4, <2>1, StopWrites DEF RunsForWindow
  <2>2. CASE App(c) # a
    <3>1. \A b \in Calls \ {c} : call'[b] = call[b]
      BY <1>4, StopWrites, CallGoesWrites
    <3>2. running'[a] = running[a]
      BY <1>4, <2>2, StopWrites
    <3> QED
      BY <1>0, <2>2, <3>1, <3>2
  <2> QED
    BY <2>1, <2>2
<1>5. ASSUME NEW c \in Calls, NEW d \in Daemons, SpawnDaemon(c, d) PROVE RunsForWindow(a)'
  <2>1. call[c].pc = "start" /\ \A b \in Calls \ {c} : call'[b] = call[b]
    BY <1>5, SpawnWrites, CallGoesWrites
  <2> QED
    BY <1>0, <1>5, <2>1, SpawnWrites DEF ForWindow
<1>6. ASSUME NEW b \in Apps, AppGoes(b) PROVE RunsForWindow(a)'
  <2>1. CASE b = a
    BY <1>6, <2>1, AppGoesWrites DEF RunsForWindow
  <2>2. CASE b # a
    BY <1>0, <1>6, <2>2, AppGoesWrites
  <2> QED
    BY <2>1, <2>2
<1>7. ASSUME NEW d \in Daemons, StartByHand(d) \/ DaemonMove(d) PROVE RunsForWindow(a)'
  <2>1. running' = running /\ call' = call
    BY <1>7 DEF StartByHand, DaemonMove
  <2> QED
    BY <1>0, <2>1
<1> QED
  BY <1>1, <1>2, <1>3, <1>4, <1>5, <1>6, <1>7, StepIsMove

\* A daemon comes to wait for its window with the call that starts it, and loses its
\* app's attention only when it ends, is told to stop, or its lifeline is cut.
LEMMA AttendedStep ==
    ASSUME DaemonsTypeOK, DaemonsNext, NEW d \in Daemons, Attended(d)
    PROVE  Attended(d)'
<1>0. /\ d # NoDaemon /\ ByHand \notin Apps /\ Cut \notin Apps /\ apps \subseteq Apps
      /\ lifeline[d] \in apps \cup {ByHand, Cut}
  BY HoldersDiffer DEF Daemons, NoDaemon, DaemonsTypeOK, Attended
\* It is as it was, or worse, and so are its app and the call that waits for it.
<1>1. ASSUME lifeline'[d] = lifeline[d], apps' = apps,
             daemon'[d].pc \in {"booting", "services", "bound", "serving"} /\ ~daemon'[d].term
                => daemon[d].pc \in {"booting", "services", "bound", "serving"} /\ ~daemon[d].term,
             \A a \in Apps : running[a] = d => running'[a] = d \/ daemon'[d].term,
             \A c \in Calls : call[c].pc = "wait" /\ call[c].daemon = d
                => \/ call'[c].pc = "wait" /\ call'[c].daemon = d
                   \/ running'[App(c)] = d \/ daemon'[d].pc = "gone"
      PROVE  Attended(d)'
  BY <1>0, <1>1 DEF Attended, App
<1>2. ASSUME NEW c \in Calls, CallMove(c) PROVE Attended(d)'
  <2>1. PICK pc \in CallPcs, e \in Daemons \cup {NoDaemon} :
           Moves(call[c], pc, e, running[App(c)]) /\ CallGoes(c, pc, e)
    BY <1>2 DEF CallMove
  <2>2. call[c].pc # "wait" /\ \A b \in Calls \ {c} : call'[b] = call[b]
    BY <2>1, CallGoesWrites DEF Moves
  <2> QED
    BY <1>1, <1>2, <2>2 DEF CallMove
<1>3. ASSUME NEW c \in Calls, Handshake(c) PROVE Attended(d)'
  <2>1. /\ App(c) \in Apps /\ running'[App(c)] = call[c].daemon
        /\ \A a \in Apps \ {App(c)} : running'[a] = running[a]
        /\ lifeline'[d] = lifeline[d] \/ (running[App(c)] = d /\ lifeline'[d] = Cut)
        /\ UNCHANGED <<daemon, apps>>
    BY <1>3, HandshakeWrites
  <2>2. \A b \in Calls \ {c} : call'[b] = call[b]
    BY <1>3, HandshakeCalls
  <2>3. CASE lifeline'[d] = Cut
    BY <1>0, <2>3 DEF Attended
  <2>4. CASE running[App(c)] # d /\ lifeline'[d] = lifeline[d]
    BY <1>1, <2>1, <2>2, <2>4
  <2>5. CASE running[App(c)] = d /\ lifeline'[d] = lifeline[d]
    <3>1. lifeline' = [lifeline EXCEPT ![d] = Cut]
      BY <1>0, <1>3, <2>5 DEF Handshake
    <3> QED
      BY <2>3, <3>1 DEF DaemonsTypeOK
  <2> QED
    BY <2>1, <2>3, <2>4, <2>5
<1>4. ASSUME NEW c \in Calls, StartFails(c) \/ StopWaits(c) PROVE Attended(d)'
  <2>1. daemon'[d] = daemon[d] \/ (d = call[c].daemon /\ daemon'[d].pc = "gone")
    BY <1>4, EndsDaemon
  <2>2. UNCHANGED <<lifeline, apps, running>> /\ \A b \in Calls \ {c} : call'[b] = call[b]
    BY <1>4, EndsWrite, OthersStay
  <2>3. d = call[c].daemon => daemon'[d].pc = "gone"
    <3>1. daemon' = [daemon EXCEPT ![call[c].daemon].pc = "gone"]
      BY <1>4, EndsWrite DEF Becomes
    <3> QED
      BY <3>1 DEF DaemonsTypeOK
  <2> QED
    BY <1>1, <2>1, <2>2, <2>3
<1>5. ASSUME NEW c \in Calls, StopDaemon(c) PROVE Attended(d)'
  <2>1. /\ App(c) \in Apps /\ UNCHANGED <<lifeline, apps>> /\ call[c].pc = "stop"
        /\ \A a \in Apps \ {App(c)} : running'[a] = running[a]
        /\ \A b \in Calls \ {c} : call'[b] = call[b]
        /\ daemon'[d].pc = daemon[d].pc
    BY <1>5, StopWrites, OthersStay
  <2>2. CASE running[App(c)] = d
    <3>1. daemon' = [daemon EXCEPT ![d].term = TRUE]
      BY <1>0, <1>5, <2>2 DEF StopDaemon
    <3>2. daemon'[d].term = TRUE
      BY <3>1 DEF DaemonsTypeOK
    <3> QED
      BY <1>0, <2>1, <3>2 DEF Attended
  <2>3. CASE running[App(c)] # d
    <3>1. daemon'[d] = daemon[d]
      BY <1>5, <2>3, StopWrites
    <3> QED
      BY <1>1, <2>1, <2>3, <3>1
  <2> QED
    BY <2>2, <2>3
<1>6. ASSUME NEW c \in Calls, NEW e \in Daemons, SpawnDaemon(c, e) PROVE Attended(d)'
  <2>1. /\ Born(e, App(c)) /\ App(c) \in Apps /\ App(c) \in apps /\ call[c].pc = "start"
        /\ UNCHANGED <<apps, running>>
    BY <1>6, SpawnWrites DEF SpawnDaemon, CallAt
  <2>2. /\ call'[c].pc = "wait" /\ call'[c].daemon = e
        /\ \A b \in Calls \ {c} : call'[b] = call[b]
    <3>1. CallGoes(c, "wait", e) /\ "wait" \in CallPcs /\ e \in Daemons \cup {NoDaemon}
      BY <1>6, SpawnWrites
    <3> QED
      BY <3>1, CallGoesWrites
  <2>3. CASE d = e
    <3>1. lifeline'[d] = App(c)
      BY <2>1, <2>3, BornWrites
    <3> QED
      BY <2>1, <2>2, <2>3, <3>1 DEF Attended, App
  <2>4. CASE d # e
    <3>1. daemon'[d] = daemon[d] /\ lifeline'[d] = lifeline[d]
      BY <2>1, <2>4, BornWrites
    <3> QED
      BY <1>1, <2>1, <2>2, <3>1
  <2> QED
    BY <2>3, <2>4
<1>7. ASSUME NEW a \in Apps, AppGoes(a) PROVE Attended(d)'
  <2>1. /\ lifeline'[d] = IF lifeline[d] = a THEN Cut ELSE lifeline[d]
        /\ apps' = apps \ {a} /\ daemon' = daemon
        /\ \A b \in Apps \ {a} : running'[b] = running[b]
        /\ \A c \in Calls : App(c) # a => call'[c] = call[c]
    BY <1>7, AppGoesWrites DEF AppGoes
  <2>2. CASE lifeline[d] = a
    BY <1>0, <2>1, <2>2 DEF Attended
  <2>3. CASE lifeline[d] # a
    BY <1>0, <2>1, <2>3 DEF Attended, App
  <2> QED
    BY <2>2, <2>3
<1>8. ASSUME NEW e \in Daemons, StartByHand(e) PROVE Attended(d)'
  <2>1. Born(e, ByHand) /\ UNCHANGED <<apps, running, call>>
    BY <1>8 DEF StartByHand
  <2>2. CASE d = e
    BY <1>0, <2>1, <2>2, BornWrites DEF Attended
  <2>3. CASE d # e
    <3>1. daemon'[d] = daemon[d] /\ lifeline'[d] = lifeline[d]
      BY <2>1, <2>3, BornWrites
    <3> QED
      BY <1>1, <2>1, <3>1
  <2> QED
    BY <2>2, <2>3
<1>9. ASSUME NEW e \in Daemons, DaemonMove(e) PROVE Attended(d)'
  <2>1. PICK s \in [pc : DaemonPcs, guard : BOOLEAN, term : BOOLEAN, said : BOOLEAN] :
           /\ daemon' = [daemon EXCEPT ![e] = s]
           /\ \/ StartsUp(e, s) \/ IsTold(e, s) \/ StopsAsTold(e, s)
              \/ daemon[e].pc # "unborn" /\ s.pc = "gone" /\ e \in crashed'
    BY <1>9 DEF DaemonMove
  <2>2. UNCHANGED <<lifeline, apps, running, call>>
    BY <1>9 DEF DaemonMove
  <2>3. CASE e # d
    BY <1>1, <2>1, <2>2, <2>3
  <2>4. CASE e = d
    <3>1. daemon'[d] = s
      BY <2>1, <2>4 DEF DaemonsTypeOK
    <3>2. CASE lifeline[d] = Cut
      BY <1>0, <2>2, <3>2 DEF Attended
    <3>3. CASE lifeline[d] # Cut
      <4>1. s.pc \in {"booting", "services", "bound", "serving"}
              => daemon[d].pc \in {"booting", "services", "bound", "serving"} /\ ~daemon[d].term
        BY <2>1, <2>4, <3>3 DEF StartsUp, IsTold, StopsAsTold
      <4> QED
        BY <1>1, <2>2, <3>1, <4>1
    <3> QED
      BY <3>2, <3>3
  <2> QED
    BY <2>3, <2>4
<1> QED
  BY <1>2, <1>3, <1>4, <1>5, <1>6, <1>7, <1>8, <1>9, StepIsMove

-----------------------------------------------------------------------------
(***************************************************************************)
(* Whose daemon it is decides who can touch it.                            *)
(***************************************************************************)

\* A call that has to do with the daemon of a call that is under way, and whose
\* app's calls do not overlap, is that call.
LEMMA OnlyItsCall ==
    ASSUME DaemonsTypeOK, KnowsOwn, NEW c \in Calls, Alone(App(c)), call[c].pc # "idle",
           NEW d \in Daemons, lifeline[d] = App(c),
           NEW e \in Calls, call[e].pc # "idle", d = running[App(e)] \/ d = call[e].daemon
    PROVE  e = c
<1>1. App(c) \in Apps /\ App(e) \in Apps
  BY DEF App, Calls
<1>2. OfApp(d, App(e))
  BY <1>1 DEF KnowsOwn
<1>3. App(e) = App(c)
  BY <1>1, <1>2, HoldersDiffer DEF OfApp
<1> QED
  BY <1>3 DEF Alone

\* No app has a daemon while its only call starts one.
LEMMA StartsFromNone ==
    ASSUME DaemonsTypeOK, NEW c \in Calls, Alone(App(c)), RunsForWindow(App(c)),
           call[c].pc \in {"start", "wait"}
    PROVE  running[App(c)] = NoDaemon
BY DEF Alone, RunsForWindow, ForWindow

WithDaemon == {"wait", "build", "window"}

\* A call keeps the daemon it started for as long as it waits for it, builds its
\* window or is it.
LEMMA StaysWith ==
    ASSUME DaemonsTypeOK, DaemonsNext, NEW c \in Calls,
           call[c].pc \in WithDaemon, call'[c].pc \in WithDaemon
    PROVE  /\ call'[c].daemon = call[c].daemon
           /\ call'[c].pc = "wait" => call[c].pc = "wait"
           /\ \/ call'[c] = call[c]
              \/ call[c].pc = "build" /\ CallMove(c)
              \/ call[c].pc = "wait" /\ Handshake(c)
<1> USE DEF WithDaemon
<1>1. ASSUME NEW e \in Calls, CallMove(e) \/ Handshake(e) \/ StartFails(e) \/ StopDaemon(e)
                \/ StopWaits(e) \/ (\E d \in Daemons : SpawnDaemon(e, d)),
             e # c
      PROVE  call'[c] = call[c]
  BY <1>1, OthersStay
<1>2. CASE CallMove(c)
  <2>1. PICK pc \in CallPcs, d \in Daemons \cup {NoDaemon} :
           Moves(call[c], pc, d, running[App(c)]) /\ CallGoes(c, pc, d)
    BY <1>2 DEF CallMove
  <2>2. call'[c].pc = pc /\ call'[c].daemon = d
    BY <2>1, CallGoesWrites
  <2>3. call[c].pc = "build" /\ pc = "window" /\ d = call[c].daemon
    BY <2>1, <2>2 DEF Moves
  <2> QED
    BY <1>2, <2>2, <2>3
<1>3. CASE Handshake(c)
  BY <1>3, HandshakeWrites, HandshakeCalls
<1>4. ~(StartFails(c) \/ StopWaits(c))
  BY EndsWrite, CallGoesWrites
<1>5. ~StopDaemon(c)
  BY StopWrites
<1>6. \A d \in Daemons : ~SpawnDaemon(c, d)
  BY SpawnWrites
<1>7. ASSUME NEW a \in Apps, AppGoes(a) PROVE call'[c] = call[c]
  BY <1>7, AppGoesWrites
<1>8. ASSUME NEW d \in Daemons, StartByHand(d) \/ DaemonMove(d) PROVE call'[c] = call[c]
  BY <1>8 DEF StartByHand, DaemonMove
<1> QED
  BY <1>1, <1>2, <1>3, <1>4, <1>5, <1>6, <1>7, <1>8, StepIsMove

\* Such a daemon starts up, serves and crashes; no step of another one, another
\* app or another call stops it.
LEMMA KeptStep ==
    ASSUME DaemonsTypeOK, KnowsOwn, DaemonsNext,
           NEW c \in Calls, Alone(App(c)), RunsForWindow(App(c)),
           call[c].pc \in WithDaemon, call'[c].pc \in WithDaemon,
           NEW d \in Daemons, d = call[c].daemon, d \notin crashed',
           NEW waits \in BOOLEAN, waits <=> call'[c].pc = "wait",
           Kept(d, App(c), call[c].pc = "wait")
    PROVE  Kept(d, App(c), waits)'
<1>0. /\ App(c) \in Apps /\ App(c) # Cut /\ call[c].pc # "idle"
      /\ lifeline[d] = App(c) /\ ~daemon[d].term /\ d # NoDaemon
      /\ daemon[d].pc \in {"booting", "services", "bound", "serving", "gone"}
      /\ daemon[d].said \/ call[c].pc # "wait" => daemon[d].pc = "serving"
  BY HoldersDiffer DEF App, Calls, Kept, WithDaemon, Daemons, NoDaemon
<1>1. (waits <=> call[c].pc = "wait") \/ daemon[d].pc = "serving"
  <2>1. CASE call'[c] = call[c] \/ call[c].pc = "build"
    BY <1>0, <2>1
  <2>2. CASE call[c].pc = "wait" /\ Handshake(c)
    BY <1>0, <2>2, HandshakeWrites
  <2> QED
    BY <2>1, <2>2, StaysWith
<1>2. ASSUME daemon'[d] = daemon[d], lifeline'[d] = lifeline[d]
      PROVE  Kept(d, App(c), waits)'
  BY <1>0, <1>1, <1>2 DEF Kept, App
<1>3. ASSUME NEW e \in Calls, call[e].pc # "idle", d = running[App(e)] \/ d = call[e].daemon
      PROVE  e = c
  BY <1>0, <1>3, OnlyItsCall
<1>4. ASSUME NEW e \in Calls, CallMove(e) PROVE Kept(d, App(c), waits)'
  BY <1>2, <1>4 DEF CallMove
<1>5. ASSUME NEW e \in Calls, Handshake(e) PROVE Kept(d, App(c), waits)'
  <2>1. daemon'[d] = daemon[d] /\ call[e].pc = "wait"
    BY <1>5, HandshakeWrites
  <2>2. running[App(e)] # d
    <3>1. CASE e = c
      BY <1>0, <2>1, <3>1, StartsFromNone
    <3>2. CASE e # c
      BY <1>3, <2>1, <3>2
    <3> QED
      BY <3>1, <3>2
  <2>3. lifeline'[d] = lifeline[d]
    BY <1>5, <2>2, HandshakeWrites
  <2> QED
    BY <1>2, <2>1, <2>3
<1>6. ASSUME NEW e \in Calls, StartFails(e) \/ StopWaits(e) PROVE Kept(d, App(c), waits)'
  <2>1. e # c
    BY ZenonT(60), <1>6, EndsWrite, CallGoesWrites DEF WithDaemon
  <2>2. d # call[e].daemon
    BY <1>3, <1>6, <2>1, EndsWrite
  <2>3. daemon'[d] = daemon[d]
    BY <1>6, <2>2, EndsDaemon
  <2> QED
    BY <1>2, <1>6, <2>3, EndsWrite
<1>7. ASSUME NEW e \in Calls, StopDaemon(e) PROVE Kept(d, App(c), waits)'
  <2>1. e # c /\ call[e].pc # "idle"
    BY <1>7, StopWrites DEF WithDaemon
  <2>2. daemon'[d] = daemon[d]
    BY <1>3, <1>7, <2>1, StopWrites
  <2> QED
    BY <1>2, <1>7, <2>2, StopWrites
<1>8. ASSUME NEW e \in Daemons, NEW h \in Apps \cup {ByHand}, Born(e, h)
      PROVE  Kept(d, App(c), waits)'
  <2>1. d # e
    BY <1>0, <1>8, BornWrites
  <2> QED
    BY <1>2, <1>8, <2>1, BornWrites
<1>9. ASSUME NEW e \in Calls, NEW b \in Daemons, SpawnDaemon(e, b)
      PROVE  Kept(d, App(c), waits)'
  BY <1>8, <1>9, SpawnWrites
<1>10. ASSUME NEW a \in Apps, AppGoes(a) PROVE Kept(d, App(c), waits)'
  <2>1. a # App(c)
    BY <1>10, AppGoesWrites DEF WithDaemon
  <2>2. daemon'[d] = daemon[d] /\ lifeline'[d] = lifeline[d]
    BY <1>0, <1>10, <2>1, AppGoesWrites
  <2> QED
    BY <1>2, <2>2
<1>11. ASSUME NEW e \in Daemons, StartByHand(e) PROVE Kept(d, App(c), waits)'
  BY <1>8, <1>11 DEF StartByHand
<1>12. ASSUME NEW e \in Daemons, DaemonMove(e) PROVE Kept(d, App(c), waits)'
  <2>1. PICK s \in [pc : DaemonPcs, guard : BOOLEAN, term : BOOLEAN, said : BOOLEAN] :
           /\ daemon' = [daemon EXCEPT ![e] = s]
           /\ \/ StartsUp(e, s) \/ IsTold(e, s) \/ StopsAsTold(e, s)
              \/ daemon[e].pc # "unborn" /\ s.pc = "gone" /\ e \in crashed'
    BY <1>12 DEF DaemonMove
  <2>2. lifeline' = lifeline /\ call' = call
    BY <1>12 DEF DaemonMove
  <2>3. CASE e # d
    BY <1>2, <2>1, <2>2, <2>3
  <2>4. CASE e = d
    <3>1. StartsUp(d, s)
      BY <1>0, <2>1, <2>4 DEF IsTold, StopsAsTold
    <3>2. /\ ~s.term /\ s.pc \in {"services", "gone", "bound", "serving"}
          /\ s.said \/ call[c].pc # "wait" => s.pc = "serving"
      BY <1>0, <3>1 DEF StartsUp
    <3>3. daemon'[d] = s
      BY <2>1, <2>4 DEF DaemonsTypeOK
    <3>4. waits <=> call[c].pc = "wait"
      BY <2>2
    <3> QED
      BY <1>0, <2>2, <3>2, <3>3, <3>4 DEF Kept, App
  <2> QED
    BY <2>3, <2>4
<1> QED
  BY <1>4, <1>5, <1>6, <1>7, <1>9, <1>10, <1>11, <1>12, StepIsMove

\* A call comes to wait for a daemon by starting it.
LEMMA BeginsWith ==
    ASSUME DaemonsTypeOK, DaemonsNext,
           NEW c \in Calls, Alone(App(c)), RunsForWindow(App(c)),
           call[c].pc \notin WithDaemon, call'[c].pc \in WithDaemon
    PROVE  \E d \in Daemons : SpawnDaemon(c, d)
<1> USE DEF WithDaemon
<1>1. ASSUME NEW e \in Calls, CallMove(e) \/ Handshake(e) \/ StartFails(e) \/ StopDaemon(e)
                \/ StopWaits(e) \/ (\E d \in Daemons : SpawnDaemon(e, d))
      PROVE  e = c
  BY <1>1, OthersStay
<1>2. ~CallMove(c)
  <2> SUFFICES ASSUME CallMove(c) PROVE FALSE
    OBVIOUS
  <2>1. PICK pc \in CallPcs, d \in Daemons \cup {NoDaemon} :
           Moves(call[c], pc, d, running[App(c)]) /\ CallGoes(c, pc, d)
    BY DEF CallMove
  <2>2. call'[c].pc = pc
    BY <2>1, CallGoesWrites
  <2>3. call[c].pc = "start" /\ running[App(c)] # NoDaemon
    BY <2>1, <2>2 DEF Moves
  <2> QED
    BY <2>3, StartsFromNone
<1>3. ~Handshake(c)
  BY HandshakeWrites
<1>4. ~(StartFails(c) \/ StopWaits(c))
  BY EndsWrite, CallGoesWrites
<1>5. ~StopDaemon(c)
  <2> SUFFICES ASSUME StopDaemon(c) PROVE FALSE
    OBVIOUS
  <2>1. PICK pc \in CallPcs : pc \in {"stopping", "clear"} /\ CallGoes(c, pc, running[App(c)])
    BY StopWrites
  <2>2. PICK d \in Daemons \cup {NoDaemon} : d = running[App(c)]
    BY StopWrites
  <2> QED
    BY <2>1, <2>2, CallGoesWrites
<1>6. ~(\E a \in Apps : AppGoes(a))
  BY AppGoesWrites
<1>7. ~(\E d \in Daemons : StartByHand(d) \/ DaemonMove(d))
  BY DEF StartByHand, DaemonMove
<1> QED
  BY <1>1, <1>2, <1>3, <1>4, <1>5, <1>6, <1>7, StepIsMove

LEMMA UntouchedStep ==
    ASSUME DaemonsTypeOK, KnowsOwn, DaemonsNext,
           NEW c \in Calls, Alone(App(c)), RunsForWindow(App(c)), Untouched(c)
    PROVE  Untouched(c)'
<1> SUFFICES ASSUME call'[c].pc \in WithDaemon
             PROVE  /\ call'[c].daemon \in Daemons
                    /\ call'[c].daemon \notin crashed'
                         => Kept(call[c].daemon, App(c), call[c].pc = "wait")'
  BY DEF Untouched, WithDaemon, App
<1>1. PICK waits \in BOOLEAN : waits <=> call'[c].pc = "wait"
  OBVIOUS
<1>2. CASE call[c].pc \in WithDaemon
  <2>1. PICK d \in Daemons : d = call[c].daemon
    BY <1>2 DEF Untouched, WithDaemon
  <2>2. call'[c].daemon = d
    BY <1>2, <2>1, StaysWith
  <2>3. ASSUME d \notin crashed' PROVE Kept(d, App(c), waits)'
    <3>1. Kept(d, App(c), call[c].pc = "wait")
      BY <1>2, <2>1, <2>3, CrossedGrows DEF Untouched, WithDaemon
    <3> QED
      BY <1>1, <1>2, <2>1, <2>3, <3>1, KeptStep
  <2> QED
    BY <1>1, <2>2, <2>3 DEF Kept
<1>3. CASE call[c].pc \notin WithDaemon
  <2>1. PICK d \in Daemons : SpawnDaemon(c, d)
    BY <1>3, BeginsWith
  <2>2. call'[c].pc = "wait" /\ call'[c].daemon = d
    <3>1. /\ "wait" \in CallPcs /\ d \in Daemons \cup {NoDaemon}
          /\ CallGoes(c, "wait", d)
      BY <2>1, SpawnWrites
    <3> QED
      BY <3>1, CallGoesWrites
  <2>3. /\ daemon'[d].pc = "booting" /\ ~daemon'[d].term /\ ~daemon'[d].said
        /\ lifeline'[d] = App(c)
    BY <2>1, SpawnWrites, BornWrites
  <2> QED
    BY <2>2, <2>3 DEF Kept, App
<1> QED
  BY <1>2, <1>3

-----------------------------------------------------------------------------
LEMMA DaemonsInvariant == DaemonsSpec => []DaemonsInv
<1>1. DaemonsInit => DaemonsInv
  <2> SUFFICES ASSUME DaemonsInit PROVE DaemonsInv
    OBVIOUS
  <2>1. DaemonsTypeOK
    <3>1. Unstarted \in [pc : DaemonPcs, guard : BOOLEAN, term : BOOLEAN, said : BOOLEAN]
      BY DEF Unstarted, DaemonPcs
    <3>2. IdleCall \in [pc : CallPcs, daemon : Daemons \cup {NoDaemon}]
      BY DEF IdleCall, CallPcs
    <3> QED
      BY <3>1, <3>2 DEF DaemonsInit, DaemonsTypeOK
  <2>2. \A d \in Daemons : ~Holds(d)
    BY DEF DaemonsInit, Holds, Lives, Unstarted
  <2>3. \A c \in Calls : call[c].pc = "idle" /\ call[c].daemon = NoDaemon
    BY DEF DaemonsInit, IdleCall
  <2>4. \A a \in Apps : running[a] = NoDaemon
    BY DEF DaemonsInit
  <2>5. KnowsOwn
    BY <2>3, <2>4 DEF KnowsOwn, OfApp, Daemons, NoDaemon
  <2>6. \A a \in Apps : RunsForWindow(a)
    BY <2>4 DEF RunsForWindow
  <2>9. \A d \in Daemons : Attended(d)
    BY HoldersDiffer DEF DaemonsInit, Attended
  <2>7. \A a \in Apps \ crossed : Alone(a)
    BY <2>3 DEF Alone
  <2>8. \A c \in Calls : App(c) \notin crossed => Untouched(c)
    BY <2>3 DEF Untouched
  <2> QED
    BY <2>1, <2>2, <2>5, <2>6, <2>7, <2>8, <2>9 DEF DaemonsInv, OneHolder
<1>2. DaemonsInv /\ [DaemonsNext]_daemonVars => DaemonsInv'
  <2> SUFFICES ASSUME DaemonsInv, [DaemonsNext]_daemonVars PROVE DaemonsInv'
    OBVIOUS
  <2>1. CASE UNCHANGED daemonVars
    BY <2>1 DEF daemonVars, DaemonsInv, DaemonsTypeOK, OneHolder, Holds, Lives, KnowsOwn,
                OfApp, RunsForWindow, ForWindow, Attended, Alone, Untouched, Kept
  <2>2. CASE DaemonsNext
    <3>1. DaemonsTypeOK'
      BY DaemonsTypeStep DEF DaemonsInv
    <3>2. OneHolder'
      BY OneHolderStep DEF DaemonsInv
    <3>3. KnowsOwn'
      BY <2>2, <3>1, OwnStep DEF DaemonsInv
    <3>4. (\A a \in Apps : RunsForWindow(a))'
      BY <2>2, WindowStep DEF DaemonsInv
    <3>5. crossed \subseteq crossed'
      BY <2>2, CrossedGrows DEF DaemonsInv
    <3>6. (\A a \in Apps \ crossed : Alone(a))'
      BY <2>2, <3>5, AloneStep DEF DaemonsInv
    <3>7. ASSUME NEW c \in Calls, App(c) \notin crossed' PROVE Untouched(c)'
      <4>1. App(c) \in Apps /\ App(c) \notin crossed
        BY <3>5, <3>7 DEF App, Calls
      <4>2. /\ DaemonsTypeOK /\ KnowsOwn
            /\ Alone(App(c)) /\ RunsForWindow(App(c)) /\ Untouched(c)
        BY <4>1 DEF DaemonsInv
      <4> QED
        BY <2>2, <4>2, UntouchedStep
    <3>9. (\A d \in Daemons : Attended(d))'
      BY <2>2, AttendedStep DEF DaemonsInv
    <3>8. (\A c \in Calls : App(c) \notin crossed => Untouched(c))'
      BY <3>7 DEF App
    <3> QED
      BY <3>1, <3>2, <3>3, <3>4, <3>6, <3>8, <3>9 DEF DaemonsInv
  <2> QED
    BY <2>1, <2>2
<1> QED
  BY <1>1, <1>2, PTL DEF DaemonsSpec

\* The lock has one holder at most, so of two that serve one goes without.
LEMMA HoldersApart ==
    ASSUME OneHolder
    PROVE  OneBackend
  BY DEF OneHolder, OneBackend, Serves, Holds

\* OneBackendKept: whoever opens, closes, dies or starts a daemon by hand, in
\* any order, and whether or not the lock can be taken, at most one process that
\* has the lock serves the project, and a window whose app
\* never made two calls at once has its daemon serving until it is closed, its
\* app goes or that daemon crashes.
THEOREM WindowsKeepTheirDaemon == DaemonsSpec => []OneBackendKept
<1>1. DaemonsInv => OneBackendKept
  <2> SUFFICES ASSUME DaemonsInv PROVE OneBackendKept
    OBVIOUS
  <2>1. OneBackend
    BY HoldersApart DEF DaemonsInv
  <2>2. ASSUME NEW c \in Calls, call[c].pc = "window", App(c) \notin crossed,
               call[c].daemon \notin crashed
        PROVE  /\ daemon[call[c].daemon].pc = "serving"
               /\ ~daemon[call[c].daemon].term /\ lifeline[call[c].daemon] = App(c)
    BY <2>2 DEF DaemonsInv, Untouched, Kept
  <2> QED
    BY <2>1, <2>2 DEF OneBackendKept, BackendKept
<1> QED
  BY <1>1, DaemonsInvariant, PTL

\* NoOrphans: whoever opens, closes, fails, quits or dies, a daemon an app started that
\* does not stop by itself has its app's window, or a call that makes or ends one.
THEOREM DaemonsEndWithTheirWindow == DaemonsSpec => []NoOrphans
<1>1. ASSUME DaemonsInv, NEW d \in Daemons, Lives(d), lifeline[d] # ByHand, ~CanGoOn(d)
      PROVE  \E c \in Calls : /\ App(c) = lifeline[d] /\ App(c) \in apps
                              /\ call[c].pc # "idle"
                              /\ call[c].daemon = d \/ call[c].pc = "stop"
  <2>1. daemon[d].pc = "serving" /\ ~daemon[d].term /\ lifeline[d] # Cut
    BY <1>1 DEF DaemonsInv, DaemonsTypeOK, DaemonPcs, CanGoOn, StartsFrom, Signalled, LosesApp, Lives
  <2>2. lifeline[d] \in apps /\ lifeline[d] \in Apps /\ Attended(d)
    BY <1>1, <2>1 DEF DaemonsInv, DaemonsTypeOK, Attended
  <2>3. CASE running[lifeline[d]] = d
    <3>1. PICK c \in Calls : App(c) = lifeline[d] /\ ForWindow(call[c], d)
      BY <1>1, <2>2, <2>3 DEF DaemonsInv, RunsForWindow, Lives
    <3> QED
      BY <2>2, <3>1 DEF ForWindow
  <2>4. CASE running[lifeline[d]] # d
    BY <2>1, <2>2, <2>4 DEF Attended
  <2> QED
    BY <2>3, <2>4
<1>2. DaemonsInv => NoOrphans
  BY <1>1 DEF NoOrphans
<1> QED
  BY <1>2, DaemonsInvariant, PTL
=============================================================================
