--------------------------- MODULE TerminalSessions ---------------------------
(***************************************************************************)
(* The processes behind the terminals (oxplow-app/src/terminal_sessions.rs,*)
(* over oxplow-pty).  Windows open a terminal by its key and get the one   *)
(* process there is, or start it; a forwarder per process unregisters it   *)
(* when it exits; what a person types waits in a queue whose drain task    *)
(* writes it to the process, once there is one.  Windows, forwarders and   *)
(* drain tasks run side by side, and the registry is two maps under two    *)
(* locks.  One key: terminals with another never meet.                     *)
(*                                                                         *)
(* A call is a request of a client, and ends wherever it waits when the    *)
(* client goes away (ipc_handler of oxplow-daemon is dropped with it).     *)
(*                                                                         *)
(* A section under the lock of `inner` is one step, whatever it does to    *)
(* the other maps: they are changed alone only by a forwarder's last step. *)
(* Messages are numbered as they are typed, and a queue is its first one.  *)
(***************************************************************************)
EXTENDS Integers, Sequences, FiniteSets

CONSTANTS
    Windows,        \* the calls of open_terminal_session that may overlap
    LastSession,    \* bound: the processes are 1..LastSession
    LastMessage,    \* bound: what is typed is 1..LastMessage
    Together,       \* bound: processes and messages together
    MaxDrops        \* bound: processes left by a call that was dropped

ASSUME TerminalAssumption ==
    LastSession \in Nat /\ LastMessage \in Nat /\ Together \in Nat /\ MaxDrops \in Nat

Sessions == 1..LastSession
Inputs == 1..LastMessage
NoSession == 0
NoQueue == 0
Opened == [pc |-> "idle", id |-> NoSession]
NoDrain == [pc |-> "off", message |-> 0, round |-> 0, id |-> NoSession, woken |-> FALSE]

VARIABLES
    process,        \* each process
    registered,     \* inner: the sessions in the registry
    byKey,          \* by_key: the session under the key
    forwarder,      \* where each session's forwarder is
    opener,         \* where each window's call is
    typed,          \* the last message typed
    input,          \* the queue in the map of queues
    buffer,         \* what waits in each queue
    drain,          \* each queue's drain task
    written,        \* history: what reached a process, in order
    overlap,        \* history: two opens overlapped
    left            \* history: the processes whose opening or closing call was dropped

terminalVars == <<process, registered, byKey, forwarder, opener, typed, input,
                  buffer, drain, written, overlap, left>>
historyVars == <<overlap, left>>
inputVars == <<typed, buffer, written>>

Alive == {s \in Sessions : process[s] = "alive"}
Unborn == {s \in Sessions : process[s] = "unborn"}
Room == LastSession - Cardinality(Unborn) + typed < Together

-----------------------------------------------------------------------------
(* attach_or_create and spawn_with.                                        *)

OpenGoes(w, pc, id) == opener' = [opener EXCEPT ![w] = [pc |-> pc, id |-> id]]

\* reattach: the key's session, if it has one.
Reattach(w) ==
    /\ opener[w].pc = "idle" /\ Unborn # {} /\ Room
    /\ OpenGoes(w, IF byKey = NoSession THEN "spawn" ELSE "found", byKey)
    /\ overlap' = (overlap \/ \E v \in Windows : opener[v].pc # "idle")
    /\ UNCHANGED <<process, registered, byKey, forwarder, input, drain, inputVars, left>>

\* Its entry: one that is gone is none, and a fresh process is started.
ReattachEntry(w) ==
    /\ opener[w].pc = "found"
    /\ IF opener[w].id \in registered
       THEN opener' = [opener EXCEPT ![w] = Opened]
       ELSE OpenGoes(w, "spawn", NoSession)
    /\ UNCHANGED <<process, registered, byKey, forwarder, input, drain, inputVars, historyVars>>

\* spawn_pane: the process runs, and may exit, before it is registered.
SpawnPane(w) ==
    /\ opener[w].pc = "spawn" /\ Unborn # {} /\ Room
    /\ \E s \in Unborn :
           /\ \A v \in Unborn : s <= v
           /\ process' = [process EXCEPT ![s] = "alive"]
           /\ OpenGoes(w, "register", s)
    /\ UNCHANGED <<registered, byKey, forwarder, input, drain, inputVars, historyVars>>

SpawnFails(w) ==
    /\ opener[w].pc = "spawn"
    /\ opener' = [opener EXCEPT ![w] = Opened]
    /\ UNCHANGED <<process, registered, byKey, forwarder, input, drain, inputVars, historyVars>>

\* The rest of spawn_with, and notify_waiters.
Register(w) ==
    /\ opener[w].pc = "register"
    /\ LET s == opener[w].id
       IN  /\ registered' = registered \cup {s}
           /\ byKey' = s
           /\ forwarder' = [forwarder EXCEPT ![s] = "listens"]
    /\ drain' = [q \in Inputs |->
                    [drain[q] EXCEPT !.woken = drain[q].pc \in {"look", "check", "sleep"}]]
    /\ opener' = [opener EXCEPT ![w] = Opened]
    /\ UNCHANGED <<process, input, inputVars, historyVars>>

\* The process of s is left by a call that was dropped.
Leaves(s) == Cardinality(left) < MaxDrops /\ left' = left \cup {s}

\* The call is dropped where it waits.  A process it has started, and not
\* registered, runs on: nobody knows of it.
OpenDropped(w) ==
    /\ opener[w].pc # "idle"
    /\ opener' = [opener EXCEPT ![w] = Opened]
    /\ IF opener[w].pc = "register" THEN Leaves(opener[w].id) ELSE UNCHANGED left
    /\ UNCHANGED <<process, registered, byKey, forwarder, input, drain, inputVars, overlap>>

\* Or it is registered, with its forwarder, and never comes under its key.
KeyDropped(w) ==
    /\ opener[w].pc = "register" /\ Leaves(opener[w].id)
    /\ registered' = registered \cup {opener[w].id}
    /\ forwarder' = [forwarder EXCEPT ![opener[w].id] = "listens"]
    /\ opener' = [opener EXCEPT ![w] = Opened]
    /\ UNCHANGED <<process, byKey, input, drain, inputVars, overlap>>

-----------------------------------------------------------------------------
(* The process's end: by itself, or closed.                                *)

Exits(s) ==
    /\ process[s] = "alive"
    /\ process' = [process EXCEPT ![s] = "exited"]
    /\ UNCHANGED <<registered, byKey, forwarder, opener, input, drain, inputVars, historyVars>>

ForwarderGoes(s, from, to) ==
    forwarder[s] = from /\ forwarder' = [forwarder EXCEPT ![s] = to]

HearsExit(s) == process[s] = "exited" /\ forwarder[s] = "listens"

\* PaneEvent::Exit reaches the forwarder: it tells the windows, and unregisters it.
ForwardExit(s) ==
    /\ HearsExit(s) /\ ForwarderGoes(s, "listens", "unkeys")
    /\ registered' = registered \ {s}
    /\ UNCHANGED <<process, byKey, opener, input, drain, inputVars, historyVars>>

\* Mutant: the key is dropped, whatever session it names by now.
ForwardUnkeyAny(s) ==
    /\ ForwarderGoes(s, "unkeys", "records")
    /\ byKey' = NoSession /\ input' = NoQueue
    /\ UNCHANGED <<process, registered, opener, drain, inputVars, historyVars>>

\* The key, with its queue, unless another session has it by now.
ForwardUnkey(s) ==
    /\ ForwarderGoes(s, "unkeys", "records")
    /\ IF byKey = s
       THEN byKey' = NoSession /\ input' = NoQueue
       ELSE UNCHANGED <<byKey, input>>
    /\ UNCHANGED <<process, registered, opener, drain, inputVars, historyVars>>

\* The agent's SessionEnd is ingested.
ForwardRecord(s) ==
    /\ ForwarderGoes(s, "records", "done")
    /\ UNCHANGED <<process, registered, byKey, opener, input, drain, inputVars, historyVars>>

\* close, by the id a window holds or the one close_key found, so never of a
\* session whose opening call was dropped: its forwarder is aborted wherever it
\* is, its process killed, its key and queue dropped.
CloseSession(s) ==
    /\ s \in registered \ left
    /\ registered' = registered \ {s}
    /\ forwarder' = [forwarder EXCEPT ![s] = "aborted"]
    /\ process' = [process EXCEPT ![s] = "killed"]
    /\ byKey' = NoSession /\ input' = NoQueue
    /\ UNCHANGED <<opener, drain, inputVars, historyVars>>

\* It is dropped as it waits for the kill, sent or not, or for the lock of the
\* keys: the key and the queue stay.
CloseDropped(s) ==
    /\ s \in registered \ left /\ Leaves(s)
    /\ registered' = registered \ {s}
    /\ forwarder' = [forwarder EXCEPT ![s] = "aborted"]
    /\ process' = process \/ process' = [process EXCEPT ![s] = "killed"]
    /\ UNCHANGED <<byKey, opener, input, drain, inputVars, overlap>>

-----------------------------------------------------------------------------
(* What is typed.                                                          *)

InputUnchanged == UNCHANGED <<process, registered, byKey, forwarder, opener, historyVars>>

\* enqueue_input: the key's queue, or a new one with its drain task.
EnqueueInput ==
    /\ typed < LastMessage /\ Room
    /\ typed' = typed + 1
    /\ LET q == IF input = NoQueue THEN typed + 1 ELSE input
       IN  /\ input' = q
           /\ buffer' = [buffer EXCEPT ![q] = Append(@, typed + 1)]
           /\ drain' = IF input = NoQueue THEN [drain EXCEPT ![q].pc = "recv"] ELSE drain
    /\ UNCHANGED written /\ InputUnchanged

DrainSet(q, task) == drain' = [drain EXCEPT ![q] = task]

\* wait_for_session: it listens for `ready` before it looks.
Listens(m, n) ==
    [NoDrain EXCEPT !.pc = "look", !.message = m, !.round = n]
Receives == [NoDrain EXCEPT !.pc = "recv"]

HasInput(q) == drain[q].pc = "recv" /\ buffer[q] # <<>>

DrainRecv(q) ==
    /\ HasInput(q)
    /\ DrainSet(q, Listens(Head(buffer[q]), 1))
    /\ buffer' = [buffer EXCEPT ![q] = Tail(@)]
    /\ UNCHANGED <<typed, input, written>> /\ InputUnchanged

\* Its sender is gone and nothing is left in it.
DrainEnds(q) ==
    /\ drain[q].pc = "recv" /\ buffer[q] = <<>> /\ input # q
    /\ DrainSet(q, NoDrain)
    /\ UNCHANGED <<input, inputVars>> /\ InputUnchanged

\* session_id_for_key: the key's session ...
DrainLook(q) ==
    /\ drain[q].pc = "look"
    /\ DrainSet(q, [drain[q] EXCEPT !.pc = IF byKey = NoSession THEN "sleep" ELSE "check",
                                    !.id = byKey])
    /\ UNCHANGED <<input, inputVars>> /\ InputUnchanged

\* ... if it is still registered.
DrainCheck(q) ==
    /\ drain[q].pc = "check"
    /\ DrainSet(q, IF drain[q].id \in registered
                   THEN [drain[q] EXCEPT !.pc = "send", !.woken = FALSE]
                   ELSE [drain[q] EXCEPT !.pc = "sleep", !.id = NoSession])
    /\ UNCHANGED <<input, inputVars>> /\ InputUnchanged

WakesUp(q) == drain[q].pc = "sleep" /\ drain[q].woken

DrainWakes(q) ==
    /\ WakesUp(q)
    /\ DrainSet(q, Listens(drain[q].message, drain[q].round))
    /\ UNCHANGED <<input, inputVars>> /\ InputUnchanged

\* The message is dropped, and all that is behind it.
DropsInput(q) ==
    /\ DrainSet(q, Receives)
    /\ buffer' = [buffer EXCEPT ![q] = <<>>]
    /\ UNCHANGED <<typed, input, written>> /\ InputUnchanged

\* Mutant: only the second wait has an end.
TimesOutOnce(q) == drain[q].pc = "sleep" /\ drain[q].round = 2 /\ ~drain[q].woken

\* No process for as long as input waits.
TimesOut(q) == drain[q].pc = "sleep" /\ ~drain[q].woken

DrainTimeout(q) == TimesOut(q) /\ DropsInput(q)

\* send: the session may have ended; it is waited for once more.
DrainSend(q) ==
    /\ drain[q].pc = "send"
    /\ IF drain[q].id \notin registered /\ drain[q].round = 2
       THEN DropsInput(q)
       ELSE /\ DrainSet(q, IF drain[q].id \in registered
                           THEN [drain[q] EXCEPT !.pc = "write"]
                           ELSE Listens(drain[q].message, 2))
            /\ UNCHANGED <<input, inputVars>> /\ InputUnchanged

\* The owner task writes it; a process that is gone by now gets nothing.
DrainWrite(q) ==
    /\ drain[q].pc = "write"
    /\ written' = IF drain[q].id \in Alive
                  THEN Append(written, [message |-> drain[q].message, queue |-> q])
                  ELSE written
    /\ DrainSet(q, Receives)
    /\ UNCHANGED <<typed, input, buffer>> /\ InputUnchanged

-----------------------------------------------------------------------------
TerminalInit ==
    /\ process = [s \in Sessions |-> "unborn"]
    /\ registered = {} /\ byKey = NoSession
    /\ forwarder = [s \in Sessions |-> "off"]
    /\ opener = [w \in Windows |-> Opened]
    /\ typed = 0 /\ input = NoQueue
    /\ buffer = [q \in Inputs |-> <<>>]
    /\ drain = [q \in Inputs |-> NoDrain]
    /\ written = <<>>
    /\ overlap = FALSE /\ left = {}

\* A call goes on, or is dropped.
Opens(w) ==
    \/ ReattachEntry(w) \/ SpawnPane(w) \/ SpawnFails(w) \/ Register(w)
    \/ OpenDropped(w) \/ KeyDropped(w)
Closes(s) == CloseSession(s) \/ CloseDropped(s)
Forwards(s) == ForwardExit(s) \/ ForwardUnkey(s) \/ ForwardRecord(s)
Drains(q) ==
    \/ DrainRecv(q) \/ DrainEnds(q) \/ DrainLook(q) \/ DrainCheck(q) \/ DrainWakes(q)
    \/ DrainTimeout(q) \/ DrainSend(q) \/ DrainWrite(q)

TasksGoOn ==
    \/ \E s \in Sessions : Forwards(s)
    \/ \E q \in Inputs : Drains(q)

TerminalNext ==
    \/ TasksGoOn
    \/ \E w \in Windows : Reattach(w) \/ Opens(w)
    \/ \E s \in Sessions : Exits(s) \/ Closes(s)
    \/ EnqueueInput

TerminalSpec == TerminalInit /\ [][TerminalNext]_terminalVars

-----------------------------------------------------------------------------
TerminalTypeOK ==
    /\ process \in [Sessions -> {"unborn", "alive", "exited", "killed"}]
    /\ registered \subseteq Sessions
    /\ byKey \in Sessions \cup {NoSession}
    /\ forwarder \in [Sessions -> {"off", "listens", "unkeys", "records", "done", "aborted"}]
    /\ opener \in [Windows -> [pc : {"idle", "found", "spawn", "register"},
                               id : Sessions \cup {NoSession}]]
    /\ typed \in 0..LastMessage
    /\ input \in Inputs \cup {NoQueue}
    /\ buffer \in [Inputs -> Seq(Inputs)]
    /\ drain \in [Inputs -> [pc : {"off", "recv", "look", "check", "sleep", "send", "write"},
                               message : 0..LastMessage, round : 0..2,
                               id : Sessions \cup {NoSession}, woken : BOOLEAN]]
    /\ written \in Seq([message : Inputs, queue : Inputs])
    /\ overlap \in BOOLEAN /\ left \subseteq Sessions

\* A terminal has one process: opening it resumes the one there is, whatever exits,
\* closes and unregistrations it meets, as long as no two opens of it overlap, but
\* for the processes left by a call that was dropped.  (Two opens that overlap may
\* both find none: attach_or_create looks, spawns and registers without a lock
\* across the three; and nothing cleans up what a dropped call had begun.)
OneProcess == ~overlap => Cardinality(Alive \ left) <= 1

\* No drain task sleeps through the process it waits for: what it holds is dropped
\* only when there was none (wait_for_session listens before it looks).
NoMissedProcess ==
    \A q \in Inputs : drain[q].pc = "sleep" /\ ~drain[q].woken => byKey \notin registered

\* What was typed into one queue reaches the processes in that order, each message
\* once, though the process under the key changes between two of them.
InputInOrder ==
    \A i, j \in DOMAIN written :
        i < j /\ written[i].queue = written[j].queue => written[i].message < written[j].message

\* The forwarder of s has a step to take.
ForwarderGoesOn(s) == HearsExit(s) \/ forwarder[s] \in {"unkeys", "records"}

\* A process that exits leaves the registry and its key, and its end is recorded,
\* unless a window closes it first: until then its forwarder has a step to take, or
\* a call has yet to register it, so what attaches next never gets a dead one for
\* good.  One that a dropped call left is out of the registry, or its forwarder is
\* still to take it out.
ExitsCleanedUp ==
    \A s \in Sessions :
        process[s] = "exited" =>
            \/ /\ s \notin registered
               /\ s \in left \/ (byKey # s /\ forwarder[s] \in {"done", "aborted"})
            \/ ForwarderGoesOn(s)
            \/ \E w \in Windows : opener[w] = [pc |-> "register", id |-> s]

\* The drain task of q has a step to take.
DrainGoesOn(q) ==
    \/ HasInput(q) \/ WakesUp(q) \/ TimesOut(q)
    \/ drain[q].pc \in {"look", "check", "send", "write"}

\* What is typed is written or given up: the drain task of a queue that holds input,
\* or of a message it took, always has a step to take, though processes come and go.
InputSettles ==
    \A q \in Inputs :
        buffer[q] # <<>> \/ drain[q].pc \notin {"off", "recv"} => DrainGoesOn(q)

\* The registry tells the truth about a terminal: one process at a time, and
\* none that has exited.
RegistryTrue == OneProcess /\ ExitsCleanedUp

\* What is typed is served: in order, to a process as soon as there is one, and
\* never stuck behind one that does not come.
InputServed == InputInOrder /\ NoMissedProcess /\ InputSettles
=============================================================================
