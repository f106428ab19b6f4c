--------------------------- MODULE EffectRunsProofs ---------------------------
(***************************************************************************)
(* What oxplow attempts again, for any number of events, compositions,     *)
(* retries and stops: only what failed, by itself at most twice in a row,  *)
(* and then only what was safe to send again.                              *)
(***************************************************************************)
EXTENDS EffectRuns, FiniteSetTheorems, SequenceTheorems, TLAPS

RunPcs == {"idle", "compose", "due", "resend", "run", "send", "landed", "partway", "failing"}
Sendable == Compositions \cup {Nothing}
RunRows == [pc : RunPcs, event : Events \cup {0}, origin : Origins, attempt : Nat,
            what : Sendable, safe : BOOLEAN, passing : BOOLEAN]
ClaimRows == [attempt : Nat, origin : Origins, what : Sendable, safe : BOOLEAN]

-----------------------------------------------------------------------------
(***************************************************************************)
(* The attempts at one reaction, and what may become of them.              *)
(***************************************************************************)

\* t are the attempts s, some of them further on.
Amends(s, t) ==
    /\ Len(t) = Len(s)
    /\ \A i \in DOMAIN s : /\ t[i].origin = s[i].origin
                           /\ s[i].state = "failed" => t[i].state = "failed"

\* One more was made.
Adds(s, t, origin) ==
    /\ Len(t) = Len(s) + 1 /\ t[Len(t)].origin = origin
    /\ \A i \in DOMAIN s : /\ t[i].origin = s[i].origin
                           /\ s[i].state = "failed" => t[i].state = "failed"

\* No attempt is newly scheduled, nor a composition kept that was not.
KeepsRetries(s, t) ==
    \A i \in DOMAIN t :
        /\ t[i].retry => i \in DOMAIN s /\ s[i].retry
        /\ t[i].resend # Nothing => i \in DOMAIN s /\ t[i].resend = s[i].resend

LEMMA FinishedRow ==
    ASSUME NEW s \in Seq(Attempts), NEW n \in Nat \ {0}, n <= Len(s) + 1,
           NEW origin \in Origins, NEW state \in RunStates,
           NEW t, t = Finished(s, n, origin, state)
    PROVE  /\ t \in Seq(Attempts) /\ n \in DOMAIN t
           /\ Amends(s, t) \/ (n = Len(s) + 1 /\ Adds(s, t, origin))
           /\ KeepsRetries(s, t)
<1>0. Len(s) \in Nat /\ DOMAIN s = 1..Len(s) /\ \A i \in 1..Len(s) : s[i] \in Attempts
  OBVIOUS
<1>1. CASE n > Len(s)
  <2> DEFINE x == [origin |-> origin, state |-> state, retry |-> FALSE, resend |-> Nothing]
  <2>1. x \in Attempts /\ x.origin = origin /\ ~x.retry /\ x.resend = Nothing
    BY DEF Attempts
  <2>2. t = Append(s, x)
    BY <1>1 DEF Finished
  <2> HIDE DEF x
  <2>3. /\ t \in Seq(Attempts) /\ Len(t) = Len(s) + 1 /\ t[Len(s) + 1] = x
        /\ \A i \in 1..Len(s) : t[i] = s[i]
    BY <2>1, <2>2
  <2> QED
    BY <1>0, <1>1, <2>1, <2>3 DEF Adds, KeepsRetries
<1>2. CASE n \in 1..Len(s) /\ s[n].state = "started"
  <2> DEFINE x == [s[n] EXCEPT !.state = state, !.resend = Nothing]
  <2>1. /\ x \in Attempts /\ x.origin = s[n].origin /\ x.retry = s[n].retry
        /\ x.resend = Nothing
    BY <1>0, <1>2 DEF Attempts
  <2>2. t = [s EXCEPT ![n] = x]
    <3>1. ~(n > Len(s))
      BY <1>0, <1>2
    <3>2. t = [s EXCEPT ![n].state = state, ![n].resend = Nothing]
      BY <1>2, <3>1, Zenon DEF Finished
    <3> QED
      BY <1>0, <1>2, <3>2 DEF Attempts
  <2> HIDE DEF x
  <2>3. /\ t \in Seq(Attempts) /\ Len(t) = Len(s) /\ t[n] = x
        /\ \A i \in 1..Len(s) : i # n => t[i] = s[i]
    BY <1>0, <1>2, <2>1, <2>2
  <2> QED
    BY <1>0, <1>2, <2>1, <2>3 DEF Amends, KeepsRetries
<1>3. CASE n \in 1..Len(s) /\ s[n].state # "started"
  <2>1. ~(n > Len(s))
    BY <1>0, <1>3
  <2>2. t = s
    BY <1>3, <2>1, Zenon DEF Finished
  <2> QED
    BY <1>0, <1>3, <2>2 DEF Amends, KeepsRetries
<1> QED
  BY <1>0, <1>1, <1>2, <1>3

LEMMA ClaimedRow ==
    ASSUME NEW s \in Seq(Attempts), NEW origin \in Origins, NEW resend \in Sendable,
           NEW t, t = Claimed(s, origin, resend)
    PROVE  /\ t \in Seq(Attempts) /\ Adds(s, t, origin)
           /\ ~t[Len(t)].retry /\ t[Len(t)].resend = resend
           /\ \A i \in DOMAIN s : t[i].retry = s[i].retry /\ t[i].resend = Nothing
<1> DEFINE u == [i \in DOMAIN s |-> [s[i] EXCEPT !.resend = Nothing]]
           x == [origin |-> origin, state |-> "started", retry |-> FALSE, resend |-> resend]
<1>0. Len(s) \in Nat /\ DOMAIN s = 1..Len(s) /\ \A i \in 1..Len(s) : s[i] \in Attempts
  OBVIOUS
<1>1. /\ x \in Attempts /\ x.origin = origin /\ ~x.retry /\ x.resend = resend
  BY DEF Attempts, RunStates, Sendable
<1>2. \A i \in 1..Len(s) : /\ u[i] \in Attempts /\ u[i].origin = s[i].origin
                           /\ u[i].state = s[i].state /\ u[i].retry = s[i].retry
                           /\ u[i].resend = Nothing
  BY <1>0 DEF Attempts
<1>3. u \in Seq(Attempts) /\ Len(u) = Len(s)
  <2>1. u = [i \in 1..Len(s) |-> u[i]]
    BY <1>0
  <2> HIDE DEF u
  <2> QED
    BY <1>0, <1>2, <2>1, IsASeq
<1>4. t = Append(u, x)
  BY DEF Claimed
<1> HIDE DEF u, x
<1>5. /\ t \in Seq(Attempts) /\ Len(t) = Len(s) + 1 /\ t[Len(s) + 1] = x
      /\ \A i \in 1..Len(s) : t[i] = u[i]
  BY <1>0, <1>1, <1>3, <1>4
<1> QED
  BY <1>0, <1>1, <1>2, <1>5 DEF Adds

LEMMA DroppedRow ==
    ASSUME NEW s \in Seq(Attempts), NEW n \in Int, NEW t, t = Dropped(s, n)
    PROVE  t \in Seq(Attempts) /\ Amends(s, t) /\ KeepsRetries(s, t)
<1>0. Len(s) \in Nat /\ DOMAIN s = 1..Len(s) /\ \A i \in 1..Len(s) : s[i] \in Attempts
  OBVIOUS
<1>1. CASE n \in 1..Len(s)
  <2> DEFINE x == [s[n] EXCEPT !.retry = FALSE, !.resend = Nothing]
  <2>1. /\ x \in Attempts /\ x.origin = s[n].origin /\ x.state = s[n].state
        /\ ~x.retry /\ x.resend = Nothing
    BY <1>0, <1>1 DEF Attempts
  <2>2. t = [s EXCEPT ![n] = x]
    BY <1>0, <1>1 DEF Dropped, Attempts
  <2> HIDE DEF x
  <2>3. /\ t \in Seq(Attempts) /\ Len(t) = Len(s) /\ t[n] = x
        /\ \A i \in 1..Len(s) : i # n => t[i] = s[i]
    BY <1>0, <1>1, <2>1, <2>2
  <2> QED
    BY <1>0, <1>1, <2>1, <2>3 DEF Amends, KeepsRetries
<1>2. CASE n \notin 1..Len(s)
  <2>1. t = s
    BY <1>0, <1>2 DEF Dropped
  <2> QED
    BY <1>0, <2>1 DEF Amends, KeepsRetries
<1> QED
  BY <1>1, <1>2

LEMMA ScheduledRow ==
    ASSUME NEW s \in Seq(Attempts), NEW n \in DOMAIN s, NEW what \in Sendable,
           NEW t, t = Scheduled(s, n, what)
    PROVE  /\ t \in Seq(Attempts) /\ Amends(s, t)
           /\ t[n].resend \in {s[n].resend, what}
           /\ \A i \in DOMAIN s : i # n => t[i] = s[i]
<1>0. Len(s) \in Nat /\ DOMAIN s = 1..Len(s) /\ \A i \in 1..Len(s) : s[i] \in Attempts
  OBVIOUS
<1>1. CASE s[n].state = "failed"
  <2> DEFINE x == [s[n] EXCEPT !.retry = TRUE, !.resend = what]
  <2>1. /\ x \in Attempts /\ x.origin = s[n].origin /\ x.state = s[n].state
        /\ x.resend = what
    BY <1>0, <1>1 DEF Attempts, Sendable
  <2>2. t = [s EXCEPT ![n] = x]
    BY <1>0, <1>1 DEF Scheduled, Attempts
  <2> HIDE DEF x
  <2>3. /\ t \in Seq(Attempts) /\ Len(t) = Len(s) /\ t[n] = x
        /\ \A i \in 1..Len(s) : i # n => t[i] = s[i]
    BY <1>0, <1>1, <2>1, <2>2
  <2> QED
    BY <1>0, <1>1, <2>1, <2>3 DEF Amends
<1>2. CASE s[n].state # "failed"
  BY <1>0, <1>2 DEF Scheduled, Amends
<1> QED
  BY <1>1, <1>2

-----------------------------------------------------------------------------
(* Automatic attempts in a row.                                            *)

LEMMA AmendedInARow ==
    ASSUME NEW s \in Seq(Attempts), NEW t \in Seq(Attempts), Amends(s, t)
    PROVE  AutomaticInARow(t) = AutomaticInARow(s)
<1>1. Len(s) \in Nat /\ DOMAIN s = 1..Len(s) /\ DOMAIN t = 1..Len(s) /\ Len(t) = Len(s)
  BY DEF Amends
<1>2. \A i \in 1..Len(s) : \A j \in i..Len(s) : t[j].origin = s[j].origin
  BY <1>1 DEF Amends
<1>3. {i \in DOMAIN t : \A j \in i..Len(t) : t[j].origin = "auto"}
         = {i \in DOMAIN s : \A j \in i..Len(s) : s[j].origin = "auto"}
  BY <1>1, <1>2
<1> QED
  BY <1>3 DEF AutomaticInARow

LEMMA InARowIsNat ==
    ASSUME NEW s \in Seq(Attempts)
    PROVE  /\ AutomaticInARow(s) \in Nat
           /\ IsFiniteSet({i \in DOMAIN s : \A j \in i..Len(s) : s[j].origin = "auto"})
<1>1. IsFiniteSet(1..Len(s)) /\ DOMAIN s = 1..Len(s)
  BY FS_Interval
<1>2. IsFiniteSet({i \in DOMAIN s : \A j \in i..Len(s) : s[j].origin = "auto"})
  BY <1>1, FS_Subset
<1> QED
  BY <1>2, FS_CardinalityType DEF AutomaticInARow

LEMMA AddedInARow ==
    ASSUME NEW s \in Seq(Attempts), NEW t \in Seq(Attempts), NEW origin, Adds(s, t, origin)
    PROVE  /\ AutomaticInARow(t) <= AutomaticInARow(s) + 1
           /\ origin # "auto" => AutomaticInARow(t) = 0
<1> DEFINE S == {i \in DOMAIN s : \A j \in i..Len(s) : s[j].origin = "auto"}
           T == {i \in DOMAIN t : \A j \in i..Len(t) : t[j].origin = "auto"}
<1>1. /\ Len(s) \in Nat /\ DOMAIN s = 1..Len(s) /\ DOMAIN t = 1..(Len(s) + 1)
      /\ Len(t) = Len(s) + 1 /\ t[Len(s) + 1].origin = origin
      /\ \A i \in 1..Len(s) : t[i].origin = s[i].origin
  BY DEF Adds
<1>2. T \subseteq S \cup {Len(s) + 1}
  BY <1>1
<1>3. IsFiniteSet(S) /\ IsFiniteSet(T)
  BY InARowIsNat
<1>4. Cardinality(T) <= Cardinality(S) + 1
  <2>1. Len(s) + 1 \notin S
    BY <1>1
  <2>2. /\ IsFiniteSet(S \cup {Len(s) + 1})
        /\ Cardinality(S \cup {Len(s) + 1}) = Cardinality(S) + 1
    BY <1>3, <2>1, FS_AddElement
  <2>3. Cardinality(T) <= Cardinality(S \cup {Len(s) + 1})
    BY <1>2, <2>2, FS_Subset
  <2> QED
    BY <2>2, <2>3
<1>5. ASSUME origin # "auto" PROVE Cardinality(T) = 0
  <2>1. T = {}
    BY <1>1, <1>5
  <2> QED
    BY <2>1, FS_EmptySet
<1> QED
  BY <1>4, <1>5 DEF AutomaticInARow

-----------------------------------------------------------------------------
(***************************************************************************)
(* The invariant.  s are the attempts at a reaction, cl the claims made of *)
(* them, and run is what a runner is doing with it.                        *)
(***************************************************************************)

\* The steps of attempt n were claimed, as what, and safe to send again.
Sent(cl, n, what) ==
    \E j \in DOMAIN cl : cl[j].attempt = n /\ cl[j].what = what /\ cl[j].safe

RowRight(s, cl) ==
    /\ \A i \in 1..(Len(s) - 1) : s[i].state = "failed"
    /\ \A i \in DOMAIN s : s[i].resend # Nothing => Sent(cl, i, s[i].resend)
    /\ AutomaticInARow(s) <= RetryDelays
    /\ Len(s) > 0 /\ s[Len(s)].retry => AutomaticInARow(s) < RetryDelays
    /\ \A i \in DOMAIN cl :
          cl[i].origin = "auto" =>
            /\ cl[i].safe
            /\ \E j \in 1..(i - 1) : /\ cl[j].attempt = cl[i].attempt - 1
                                     /\ cl[j].what = cl[i].what /\ cl[j].safe

\* Whoever attempts comes after failures only; it has claimed what it sends; and
\* the timer repeats what was safe, while automatic retries are left.
RunFits(r, run, s, cl) ==
    /\ run.attempt > 0
    /\ run.origin = "auto" <=> r = Timer
    /\ run.pc \in {"due", "resend"} => r = Timer
    /\ run.pc = "compose" => r # Timer
    /\ run.passing => run.pc \in {"partway", "failing"}
    /\ run.pc # "due" =>
          /\ run.attempt <= Len(s) + 1
          /\ \A i \in 1..(run.attempt - 1) : s[i].state = "failed"
    /\ (run.pc \in {"send", "landed", "partway"} \/ run.passing) /\ run.safe =>
          Sent(cl, run.attempt, run.what)
    /\ run.pc = "resend" /\ run.what # Nothing => Sent(cl, run.attempt - 1, run.what)
    /\ r = Timer /\ run.pc \in {"run", "send", "landed", "partway", "failing"} =>
          run.safe /\ Sent(cl, run.attempt - 1, run.what)
    /\ r = Timer /\ run.pc # "due" /\ run.attempt > Len(s) =>
          AutomaticInARow(s) < RetryDelays

EffectsInv ==
    /\ reactions \in [Events -> Seq(Attempts)]
    /\ claims \in [Events -> Seq(ClaimRows)]
    /\ runner \in [Runners -> RunRows]
    /\ \A e \in Events : RowRight(reactions[e], claims[e])
    /\ \A r \in Runners :
          runner[r].pc # "idle" =>
            /\ runner[r].event \in Events
            /\ RunFits(r, runner[r], reactions[runner[r].event], claims[runner[r].event])

\* How the attempts and their claims go on.
Extends(cl, cm) == \A j \in DOMAIN cl : j \in DOMAIN cm /\ cm[j] = cl[j]

RowGoes(s, t, cl, cm) ==
    /\ Amends(s, t) \/ \E origin \in Origins : Adds(s, t, origin)
    /\ Extends(cl, cm)

LEMMA SentStill ==
    ASSUME NEW cl, NEW cm, Extends(cl, cm), NEW n, NEW what, Sent(cl, n, what)
    PROVE  Sent(cm, n, what)
BY DEF Extends, Sent

\* What others do to a reaction does not disturb a runner at it.
LEMMA FitsStill ==
    ASSUME NEW r \in Runners, NEW run \in RunRows,
           NEW s \in Seq(Attempts), NEW t \in Seq(Attempts),
           NEW cl, NEW cm, RowGoes(s, t, cl, cm), RunFits(r, run, s, cl)
    PROVE  RunFits(r, run, t, cm)
<1>0. /\ Len(s) \in Nat /\ DOMAIN s = 1..Len(s) /\ Len(t) \in Nat
      /\ run.attempt \in Nat
  BY DEF RunRows
<1>1. /\ Len(t) = Len(s) \/ Len(t) = Len(s) + 1
      /\ \A i \in 1..Len(s) : s[i].state = "failed" => t[i].state = "failed"
  BY <1>0 DEF RowGoes, Amends, Adds
<1>2. \A n, what : Sent(cl, n, what) => Sent(cm, n, what)
  BY SentStill DEF RowGoes
<1>3. run.pc # "due" =>
         /\ run.attempt <= Len(t) + 1
         /\ \A i \in 1..(run.attempt - 1) : t[i].state = "failed"
  BY <1>0, <1>1 DEF RunFits
<1>4. r = Timer /\ run.pc # "due" /\ run.attempt > Len(t) => AutomaticInARow(t) < RetryDelays
  <2> SUFFICES ASSUME r = Timer, run.pc # "due", run.attempt > Len(t)
               PROVE  AutomaticInARow(t) < RetryDelays
    OBVIOUS
  <2>0. /\ run.attempt <= Len(s) + 1
        /\ run.attempt > Len(s) => AutomaticInARow(s) < RetryDelays
    BY Zenon DEF RunFits
  <2>1. Len(t) = Len(s) /\ AutomaticInARow(s) < RetryDelays
    BY <1>0, <1>1, <2>0
  <2>2. Amends(s, t)
    <3>1. ASSUME NEW origin, Adds(s, t, origin) PROVE FALSE
      BY <1>0, <2>1, <3>1 DEF Adds
    <3> QED
      BY <3>1 DEF RowGoes
  <2> QED
    BY <2>1, <2>2, AmendedInARow
<1> QED
  BY <1>2, <1>3, <1>4 DEF RunFits

-----------------------------------------------------------------------------
(* What keeps a reaction right.                                            *)

RepeatsSafely(cl) ==
    \A i \in DOMAIN cl :
        cl[i].origin = "auto" =>
            /\ cl[i].safe
            /\ \E j \in 1..(i - 1) : /\ cl[j].attempt = cl[i].attempt - 1
                                     /\ cl[j].what = cl[i].what /\ cl[j].safe

LEMMA RowAmended ==
    ASSUME NEW s \in Seq(Attempts), NEW t \in Seq(Attempts), NEW cl, RowRight(s, cl),
           Amends(s, t),
           Len(t) > 0 /\ t[Len(t)].retry => AutomaticInARow(t) < RetryDelays \/ s[Len(t)].retry,
           \A i \in DOMAIN t :
               t[i].resend # Nothing => t[i].resend = s[i].resend \/ Sent(cl, i, t[i].resend)
    PROVE  RowRight(t, cl) /\ RowGoes(s, t, cl, cl)
<1>0. /\ Len(s) \in Nat /\ DOMAIN s = 1..Len(s) /\ DOMAIN t = 1..Len(s) /\ Len(t) = Len(s)
      /\ AutomaticInARow(t) = AutomaticInARow(s)
  BY AmendedInARow DEF Amends
<1>1. \A i \in 1..(Len(t) - 1) : t[i].state = "failed"
  BY <1>0 DEF Amends, RowRight
<1>2. \A i \in DOMAIN t : t[i].resend # Nothing => Sent(cl, i, t[i].resend)
  BY <1>0 DEF RowRight
<1>3. /\ AutomaticInARow(t) <= RetryDelays
      /\ Len(t) > 0 /\ t[Len(t)].retry => AutomaticInARow(t) < RetryDelays
  BY <1>0 DEF RowRight
<1>4. RowRight(t, cl)
  BY <1>1, <1>2, <1>3 DEF RowRight
<1> QED
  BY <1>4 DEF RowGoes, Extends

LEMMA RowAdded ==
    ASSUME NEW s \in Seq(Attempts), NEW t \in Seq(Attempts), NEW cl, NEW cm,
           RowRight(s, cl), Extends(cl, cm), RepeatsSafely(cm),
           NEW r \in Runners, NEW run \in RunRows, RunFits(r, run, s, cl),
           run.pc # "due", run.attempt = Len(s) + 1, Adds(s, t, run.origin),
           ~t[Len(t)].retry,
           \A i \in DOMAIN t : t[i].resend # Nothing => Sent(cm, i, t[i].resend)
    PROVE  RowRight(t, cm) /\ RowGoes(s, t, cl, cm)
<1>0. /\ Len(s) \in Nat /\ DOMAIN s = 1..Len(s) /\ Len(t) = Len(s) + 1
      /\ \A i \in 1..Len(s) : s[i].state = "failed" => t[i].state = "failed"
      /\ run.origin \in Origins /\ run.attempt \in Nat
  BY DEF Adds, RunRows
<1>1. \A i \in 1..Len(s) : s[i].state = "failed"
  BY <1>0 DEF RunFits
<1>2. \A i \in 1..(Len(t) - 1) : t[i].state = "failed"
  BY <1>0, <1>1
<1>3. AutomaticInARow(t) <= RetryDelays
  <2>1. AutomaticInARow(s) \in Nat /\ AutomaticInARow(t) \in Nat /\ RetryDelays = 2
    BY InARowIsNat DEF RetryDelays
  <2>2. CASE run.origin = "auto"
    <3>1. r = Timer /\ run.attempt > Len(s)
      BY <1>0, <2>2 DEF RunFits
    <3>2. AutomaticInARow(s) < RetryDelays
      BY <3>1 DEF RunFits
    <3> QED
      BY <2>1, <3>2, AddedInARow
  <2>3. CASE run.origin # "auto"
    BY <2>1, <2>3, AddedInARow
  <2> QED
    BY <2>2, <2>3
<1>4. RowRight(t, cm)
  BY <1>2, <1>3 DEF RowRight, RepeatsSafely
<1> QED
  BY <1>0, <1>4 DEF RowGoes

\* An attempt ends.
LEMMA FinishedRight ==
    ASSUME NEW s \in Seq(Attempts), NEW cl, RowRight(s, cl),
           NEW r \in Runners, NEW run \in RunRows, RunFits(r, run, s, cl), run.pc # "due",
           NEW state \in RunStates,
           NEW t, t = Finished(s, run.attempt, run.origin, state)
    PROVE  /\ t \in Seq(Attempts) /\ run.attempt \in DOMAIN t
           /\ RowRight(t, cl) /\ RowGoes(s, t, cl, cl)
<1>0. /\ Len(s) \in Nat /\ DOMAIN s = 1..Len(s)
      /\ run.attempt \in Nat \ {0} /\ run.origin \in Origins /\ run.attempt <= Len(s) + 1
  BY DEF RunFits, RunRows
<1>1. /\ t \in Seq(Attempts) /\ run.attempt \in DOMAIN t
      /\ Amends(s, t) \/ (run.attempt = Len(s) + 1 /\ Adds(s, t, run.origin))
      /\ KeepsRetries(s, t)
  BY <1>0, FinishedRow
<1>2. \A i \in DOMAIN t : t[i].resend # Nothing => t[i].resend = s[i].resend /\ i \in DOMAIN s
  BY <1>1 DEF KeepsRetries
<1>3. \A i \in DOMAIN t : t[i].resend # Nothing => Sent(cl, i, t[i].resend)
  BY <1>2 DEF RowRight
<1>4. \A i \in DOMAIN t : t[i].retry => i \in DOMAIN s /\ s[i].retry
  BY <1>1 DEF KeepsRetries
<1>5. Len(t) \in Nat /\ DOMAIN t = 1..Len(t)
  BY <1>1
<1>6. CASE Amends(s, t)
  BY <1>1, <1>3, <1>4, <1>5, <1>6, RowAmended
<1>7. CASE run.attempt = Len(s) + 1 /\ Adds(s, t, run.origin)
  <2>1. ~t[Len(t)].retry
    BY <1>0, <1>4, <1>5, <1>7 DEF Adds
  <2>2. Extends(cl, cl) /\ RepeatsSafely(cl)
    BY DEF Extends, RepeatsSafely, RowRight
  <2> QED
    BY <1>1, <1>3, <1>7, <2>1, <2>2, RowAdded
<1> QED
  BY <1>1, <1>6, <1>7

LEMMA DroppedRight ==
    ASSUME NEW s \in Seq(Attempts), NEW cl, RowRight(s, cl), NEW n \in Int,
           NEW t, t = Dropped(s, n)
    PROVE  t \in Seq(Attempts) /\ RowRight(t, cl) /\ RowGoes(s, t, cl, cl)
<1>1. t \in Seq(Attempts) /\ Amends(s, t) /\ KeepsRetries(s, t)
  BY DroppedRow
<1>2. /\ Len(t) \in Nat /\ DOMAIN t = 1..Len(t)
      /\ Len(t) > 0 /\ t[Len(t)].retry => s[Len(t)].retry
      /\ \A i \in DOMAIN t : t[i].resend # Nothing => t[i].resend = s[i].resend
  BY <1>1 DEF KeepsRetries
<1> QED
  BY <1>1, <1>2, RowAmended

\* A failed attempt is sent again by itself.
LEMMA ScheduledRight ==
    ASSUME NEW s \in Seq(Attempts), NEW cl, RowRight(s, cl), NEW n \in DOMAIN s,
           RetriesLeft(s), NEW what \in Sendable, Sent(cl, n, what),
           NEW t, t = Scheduled(s, n, what)
    PROVE  t \in Seq(Attempts) /\ RowRight(t, cl) /\ Amends(s, t)
<1>1. /\ t \in Seq(Attempts) /\ Amends(s, t)
      /\ t[n].resend \in {s[n].resend, what}
      /\ \A i \in DOMAIN s : i # n => t[i] = s[i]
  BY ScheduledRow
<1>2. AutomaticInARow(t) < RetryDelays
  BY <1>1, AmendedInARow DEF RetriesLeft
<1>3. \A i \in DOMAIN t :
         t[i].resend # Nothing => t[i].resend = s[i].resend \/ Sent(cl, i, t[i].resend)
  BY <1>1 DEF Amends
<1> QED
  BY <1>1, <1>2, <1>3, RowAmended

\* An attempt found started is over.
LEMMA CutOffRight ==
    ASSUME NEW s \in Seq(Attempts), NEW cl, RowRight(s, cl), Len(s) > 0,
           NEW t, t = CutOff(s)
    PROVE  t \in Seq(Attempts) /\ RowRight(t, cl) /\ RowGoes(s, t, cl, cl)
<1>0. /\ Len(s) \in Nat \ {0} /\ Len(s) \in DOMAIN s /\ s[Len(s)] \in Attempts
      /\ s[Len(s)].origin \in Origins /\ s[Len(s)].resend \in Sendable
      /\ "failed" \in RunStates
  <2>1. Len(s) \in Nat \ {0} /\ Len(s) \in DOMAIN s
    OBVIOUS
  <2>2. s[Len(s)] \in Attempts
    BY <2>1
  <2>3. s[Len(s)].origin \in Origins /\ s[Len(s)].resend \in Sendable
    BY <2>2 DEF Attempts, Sendable
  <2> QED
    BY <2>1, <2>2, <2>3 DEF RunStates
<1>1. PICK f : f = Finished(s, Len(s), s[Len(s)].origin, "failed")
  OBVIOUS
<1>2. f \in Seq(Attempts) /\ Amends(s, f) /\ KeepsRetries(s, f)
  BY <1>0, <1>1, FinishedRow
<1>3. RowRight(f, cl) /\ RowGoes(s, f, cl, cl)
  <2>1. /\ Len(f) \in Nat /\ DOMAIN f = 1..Len(f)
        /\ Len(f) > 0 /\ f[Len(f)].retry => s[Len(f)].retry
        /\ \A i \in DOMAIN f : f[i].resend # Nothing => f[i].resend = s[i].resend
    BY <1>2 DEF KeepsRetries
  <2> QED
    BY <1>2, <2>1, RowAmended
<1>4. t = IF s[Len(s)].resend # Nothing /\ RetriesLeft(f)
          THEN Scheduled(f, Len(s), s[Len(s)].resend) ELSE f
  BY <1>1, Zenon DEF CutOff
<1>5. CASE s[Len(s)].resend # Nothing /\ RetriesLeft(f)
  <2>1. Sent(cl, Len(s), s[Len(s)].resend)
    BY <1>0, <1>5 DEF RowRight
  <2>2. Len(s) \in DOMAIN f /\ Len(f) = Len(s)
    BY <1>0, <1>2 DEF Amends
  <2>3. t \in Seq(Attempts) /\ RowRight(t, cl) /\ Amends(f, t)
    BY <1>0, <1>2, <1>3, <1>4, <1>5, <2>1, <2>2, ScheduledRight
  <2>4. Amends(s, t)
    BY <1>2, <2>2, <2>3 DEF Amends
  <2> QED
    BY <2>3, <2>4 DEF RowGoes, Extends
<1>6. CASE ~(s[Len(s)].resend # Nothing /\ RetriesLeft(f))
  BY <1>2, <1>3, <1>4, <1>6
<1> QED
  BY <1>5, <1>6

-----------------------------------------------------------------------------
(***************************************************************************)
(* The steps.                                                              *)
(***************************************************************************)

\* A step keeps the invariant when each reaction stays right and goes on, and
\* each runner stays, is idle, or fits what it comes to.
LEMMA StepFits ==
    ASSUME EffectsInv,
           reactions' \in [Events -> Seq(Attempts)], claims' \in [Events -> Seq(ClaimRows)],
           runner' \in [Runners -> RunRows],
           \A e \in Events : /\ RowRight(reactions'[e], claims'[e])
                             /\ RowGoes(reactions[e], reactions'[e], claims[e], claims'[e]),
           \A r \in Runners :
               \/ runner'[r] = runner[r] \/ runner'[r].pc = "idle"
               \/ /\ runner'[r].event \in Events
                  /\ RunFits(r, runner'[r], reactions'[runner'[r].event], claims'[runner'[r].event])
    PROVE  EffectsInv'
<1>1. \A r \in Runners :
         runner'[r].pc # "idle" =>
           /\ runner'[r].event \in Events
           /\ RunFits(r, runner'[r], reactions'[runner'[r].event], claims'[runner'[r].event])
  <2> SUFFICES ASSUME NEW r \in Runners, runner'[r].pc # "idle", runner'[r] = runner[r]
               PROVE  /\ runner[r].event \in Events
                      /\ RunFits(r, runner[r], reactions'[runner[r].event], claims'[runner[r].event])
    OBVIOUS
  <2>1. /\ runner[r] \in RunRows /\ runner[r].event \in Events
        /\ RunFits(r, runner[r], reactions[runner[r].event], claims[runner[r].event])
    BY DEF EffectsInv
  <2>2. /\ reactions[runner[r].event] \in Seq(Attempts)
        /\ reactions'[runner[r].event] \in Seq(Attempts)
    BY <2>1 DEF EffectsInv
  <2> QED
    BY <2>1, <2>2, FitsStill
<1>2. (\A e \in Events : RowRight(reactions[e], claims[e]))'
  BY DEF RowRight, Sent, AutomaticInARow, RetryDelays
<1>3. (\A r \in Runners :
         runner[r].pc # "idle" =>
           /\ runner[r].event \in Events
           /\ RunFits(r, runner[r], reactions[runner[r].event], claims[runner[r].event]))'
  BY <1>1 DEF RunFits, Sent, AutomaticInARow, RetryDelays, Events, Runners, Timer
<1> QED
  BY <1>2, <1>3 DEF EffectsInv

\* Nothing changes of what is recorded.
LEMMA RowsStay ==
    ASSUME EffectsInv, UNCHANGED <<reactions, claims>>
    PROVE  /\ reactions' \in [Events -> Seq(Attempts)] /\ claims' \in [Events -> Seq(ClaimRows)]
           /\ \A e \in Events : /\ RowRight(reactions'[e], claims'[e])
                                /\ RowGoes(reactions[e], reactions'[e], claims[e], claims'[e])
<1>1. /\ reactions' = reactions /\ claims' = claims
      /\ reactions \in [Events -> Seq(Attempts)] /\ claims \in [Events -> Seq(ClaimRows)]
      /\ \A e \in Events : RowRight(reactions[e], claims[e])
  BY DEF EffectsInv
<1>2. \A s, cl : RowGoes(s, s, cl, cl)
  BY DEF RowGoes, Amends, Extends
<1> QED
  BY <1>1, <1>2

\* One reaction changes.
LEMMA RowChanges ==
    ASSUME EffectsInv, claims' = claims, NEW e \in Events, NEW t \in Seq(Attempts),
           reactions' = [reactions EXCEPT ![e] = t],
           RowRight(t, claims[e]), RowGoes(reactions[e], t, claims[e], claims[e])
    PROVE  /\ reactions' \in [Events -> Seq(Attempts)] /\ claims' \in [Events -> Seq(ClaimRows)]
           /\ \A b \in Events : /\ RowRight(reactions'[b], claims'[b])
                                /\ RowGoes(reactions[b], reactions'[b], claims[b], claims'[b])
<1>1. /\ reactions \in [Events -> Seq(Attempts)] /\ claims \in [Events -> Seq(ClaimRows)]
      /\ \A b \in Events : RowRight(reactions[b], claims[b])
  BY DEF EffectsInv
<1>2. \A s, cl : RowGoes(s, s, cl, cl)
  BY DEF RowGoes, Amends, Extends
<1>3. /\ reactions' \in [Events -> Seq(Attempts)]
      /\ \A b \in Events : reactions'[b] = IF b = e THEN t ELSE reactions[b]
  BY <1>1
<1> QED
  BY <1>1, <1>2, <1>3

\* One runner goes on.
LEMMA RunnerGoes ==
    ASSUME EffectsInv, NEW r \in Runners, NEW run \in RunRows,
           runner' = [runner EXCEPT ![r] = run]
    PROVE  /\ runner' \in [Runners -> RunRows]
           /\ \A q \in Runners : runner'[q] = IF q = r THEN run ELSE runner[q]
BY DEF EffectsInv

\* A runner that is at a reaction fits it.
LEMMA FitsNow ==
    ASSUME EffectsInv, NEW r \in Runners, runner[r].pc # "idle"
    PROVE  /\ runner[r] \in RunRows /\ runner[r].event \in Events
           /\ reactions[runner[r].event] \in Seq(Attempts)
           /\ RowRight(reactions[runner[r].event], claims[runner[r].event])
           /\ RunFits(r, runner[r], reactions[runner[r].event], claims[runner[r].event])
BY DEF EffectsInv

LEMMA IdleRuns ==
    /\ IdleRun \in RunRows /\ IdleRun.pc = "idle"
    /\ {Pump, Person, Timer} = Runners
    /\ Timer # Pump /\ Timer # Person
<1>1. /\ "idle" \in RunPcs /\ 0 \in Events \cup {0} /\ "live" \in Origins
      /\ 0 \in Nat /\ Nothing \in Sendable /\ FALSE \in BOOLEAN
  BY DEF RunPcs, Origins, Sendable
<1>2. IdleRun \in RunRows /\ IdleRun.pc = "idle"
  BY <1>1 DEF IdleRun, RunRows
<1>3. {Pump, Person, Timer} = Runners /\ Timer # Pump /\ Timer # Person
  BY DEF Runners, Timer, Pump, Person
<1> QED
  BY <1>2, <1>3

LEMMA GoesFits ==
    ASSUME EffectsInv,
           reactions' \in [Events -> Seq(Attempts)], claims' \in [Events -> Seq(ClaimRows)],
           \A e \in Events : /\ RowRight(reactions'[e], claims'[e])
                             /\ RowGoes(reactions[e], reactions'[e], claims[e], claims'[e]),
           NEW r \in Runners, NEW run \in RunRows, runner' = [runner EXCEPT ![r] = run],
           \/ run.pc = "idle"
           \/ /\ run.event \in Events
              /\ RunFits(r, run, reactions[run.event], claims[run.event])
    PROVE  EffectsInv'
<1>1. /\ runner' \in [Runners -> RunRows]
      /\ \A q \in Runners : runner'[q] = IF q = r THEN run ELSE runner[q]
  BY RunnerGoes
<1>2. ASSUME run.pc # "idle"
      PROVE  RunFits(r, run, reactions'[run.event], claims'[run.event])
  <2>1. run.event \in Events
    BY <1>2
  <2>2. reactions[run.event] \in Seq(Attempts) /\ reactions'[run.event] \in Seq(Attempts)
    BY <2>1 DEF EffectsInv
  <2> QED
    BY <1>2, <2>1, <2>2, FitsStill
<1>3. \A q \in Runners :
         \/ runner'[q] = runner[q] \/ runner'[q].pc = "idle"
         \/ /\ runner'[q].event \in Events
            /\ RunFits(q, runner'[q], reactions'[runner'[q].event], claims'[runner'[q].event])
  <2> SUFFICES ASSUME NEW q \in Runners, q = r, run.pc # "idle"
               PROVE  /\ run.event \in Events
                      /\ RunFits(r, run, reactions'[run.event], claims'[run.event])
    BY <1>1
  <2> QED
    BY <1>2
<1> QED
  BY <1>1, <1>3, StepFits

\* A run begins.
LEMMA StartsFits ==
    ASSUME EffectsInv, UNCHANGED <<reactions, claims>>,
           NEW r \in Runners, NEW e \in Events, NEW origin \in Origins, NEW n \in Nat \ {0},
           NEW pc \in {"compose", "due"}, Starts(r, e, origin, n, pc),
           origin = "auto" <=> r = Timer,
           pc = "due" <=> r = Timer,
           pc = "compose" => /\ n <= Len(reactions[e]) + 1
                             /\ \A i \in 1..(n - 1) : reactions[e][i].state = "failed"
    PROVE  EffectsInv'
<1> DEFINE run == [IdleRun EXCEPT !.pc = pc, !.event = e, !.origin = origin, !.attempt = n]
<1>1. /\ run.pc = pc /\ run.event = e /\ run.origin = origin /\ run.attempt = n
      /\ ~run.passing
  BY DEF IdleRun
<1>2. run \in RunRows
  BY IdleRuns DEF RunRows, RunPcs
<1>3. runner' = [runner EXCEPT ![r] = run]
  BY DEF Starts
<1> HIDE DEF run
<1>4. RunFits(r, run, reactions[e], claims[e])
  BY <1>1 DEF RunFits
<1> QED
  BY <1>1, <1>2, <1>3, <1>4, RowsStay, GoesFits

LEMMA LatestFailed ==
    ASSUME EffectsInv, NEW e \in Events, LatestIs(e, "failed")
    PROVE  /\ Latest(e) \in Nat \ {0} /\ Latest(e) = Len(reactions[e])
           /\ \A i \in 1..Latest(e) : reactions[e][i].state = "failed"
<1>1. /\ reactions[e] \in Seq(Attempts) /\ reactions[e] # <<>>
      /\ reactions[e][Len(reactions[e])].state = "failed"
  BY DEF EffectsInv, LatestIs, Latest
<1>2. Len(reactions[e]) \in Nat \ {0}
  BY <1>1
<1>3. \A i \in 1..(Len(reactions[e]) - 1) : reactions[e][i].state = "failed"
  BY DEF EffectsInv, RowRight
<1> QED
  BY <1>1, <1>2, <1>3 DEF Latest

LEMMA BeginsRight ==
    ASSUME EffectsInv, NEW e \in Events, RetriedBy(e) \/ Backfills(e) \/ ListsDue(e)
    PROVE  EffectsInv'
<1>0. Timer # Person /\ Person \in Runners /\ Timer \in Runners
  BY IdleRuns
<1>1. CASE RetriedBy(e)
  <2>1. /\ Starts(Person, e, "retry", Latest(e) + 1, "compose") /\ LatestIs(e, "failed")
        /\ UNCHANGED <<reactions, claims>>
    BY <1>1 DEF RetriedBy
  <2>2. /\ Latest(e) \in Nat /\ Latest(e) = Len(reactions[e])
        /\ \A i \in 1..Latest(e) : reactions[e][i].state = "failed"
    BY <2>1, LatestFailed
  <2>3. PICK n \in Nat \ {0} : n = Latest(e) + 1
    BY <2>2
  <2>4. /\ Starts(Person, e, "retry", n, "compose") /\ n <= Len(reactions[e]) + 1
        /\ n - 1 = Latest(e)
    BY <2>1, <2>2, <2>3
  <2>5. \A i \in 1..(n - 1) : reactions[e][i].state = "failed"
    BY <2>2, <2>4
  <2> QED
    BY <1>0, <2>1, <2>4, <2>5, StartsFits DEF Origins
<1>2. CASE Backfills(e)
  <2>1. /\ Starts(Person, e, "backfill", 1, "compose") /\ reactions[e] = <<>>
        /\ UNCHANGED <<reactions, claims>>
    BY <1>2 DEF Backfills
  <2>2. 1 <= Len(reactions[e]) + 1 /\ \A i \in 1..(1 - 1) : reactions[e][i].state = "failed"
    BY <2>1
  <2> QED
    BY <1>0, <2>1, <2>2, StartsFits DEF Origins
<1>3. CASE ListsDue(e)
  <2>1. /\ Starts(Timer, e, "auto", Latest(e), "due") /\ LatestIs(e, "failed")
        /\ UNCHANGED <<reactions, claims>>
    BY <1>3 DEF ListsDue
  <2>2. PICK n \in Nat \ {0} : n = Latest(e)
    BY <2>1, LatestFailed
  <2>3. Starts(Timer, e, "auto", n, "due")
    BY <2>1, <2>2
  <2> QED
    BY <1>0, <2>1, <2>3, StartsFits DEF Origins
<1> QED
  BY <1>1, <1>2, <1>3

\* A run returns with its reaction as t.
LEMMA ReturnsRight ==
    ASSUME EffectsInv, NEW r \in Runners, Returns(r), claims' = claims,
           NEW e \in Events, NEW t \in Seq(Attempts), reactions' = [reactions EXCEPT ![e] = t],
           RowRight(t, claims[e]), RowGoes(reactions[e], t, claims[e], claims[e])
    PROVE  EffectsInv'
BY RowChanges, GoesFits, IdleRuns DEF Returns

LEMMA RunnersStay ==
    ASSUME EffectsInv, UNCHANGED runner,
           reactions' \in [Events -> Seq(Attempts)], claims' \in [Events -> Seq(ClaimRows)],
           \A e \in Events : /\ RowRight(reactions'[e], claims'[e])
                             /\ RowGoes(reactions[e], reactions'[e], claims[e], claims'[e])
    PROVE  EffectsInv'
<1>1. runner' \in [Runners -> RunRows] /\ \A r \in Runners : runner'[r] = runner[r]
  BY DEF EffectsInv
<1> QED
  BY <1>1, StepFits

LEMMA DeliversRight ==
    ASSUME EffectsInv, Delivers, LastEvent \in Nat, seen \in Nat
    PROVE  EffectsInv'
<1>1. PICK e : e = seen + 1
  OBVIOUS
<1>2. e \in Events /\ UNCHANGED claims
  BY <1>1, EffectsAssumption DEF Delivers, Events
<1>3. \/ /\ reactions[e] = <<>> /\ Starts(Pump, e, "live", 1, "compose")
         /\ UNCHANGED reactions
      \/ UNCHANGED <<reactions, runner>>
      \/ /\ LatestIs(e, "started") /\ reactions' = [reactions EXCEPT ![e] = CutOff(@)]
         /\ UNCHANGED runner
  BY <1>1 DEF Delivers
<1>4. CASE reactions[e] = <<>> /\ Starts(Pump, e, "live", 1, "compose") /\ UNCHANGED reactions
  <2>1. 1 <= Len(reactions[e]) + 1 /\ \A i \in 1..(1 - 1) : reactions[e][i].state = "failed"
    BY <1>4
  <2>2. UNCHANGED <<reactions, claims>> /\ Pump \in Runners /\ Pump # Timer
    BY <1>2, <1>4, IdleRuns
  <2> QED
    BY <1>2, <1>4, <2>1, <2>2, StartsFits DEF Origins
<1>5. CASE UNCHANGED <<reactions, runner>>
  BY <1>2, <1>5, RowsStay, RunnersStay
<1>6. CASE /\ LatestIs(e, "started") /\ reactions' = [reactions EXCEPT ![e] = CutOff(@)]
           /\ UNCHANGED runner
  <2>1. /\ reactions[e] \in Seq(Attempts) /\ RowRight(reactions[e], claims[e])
        /\ reactions[e] # <<>>
    BY <1>2, <1>6 DEF EffectsInv, LatestIs
  <2>2. Len(reactions[e]) > 0
    BY <2>1
  <2>3. PICK t : t = CutOff(reactions[e])
    OBVIOUS
  <2>4. /\ t \in Seq(Attempts) /\ RowRight(t, claims[e])
        /\ RowGoes(reactions[e], t, claims[e], claims[e])
    BY <2>1, <2>2, <2>3, CutOffRight
  <2>5. reactions' = [reactions EXCEPT ![e] = t]
    BY <1>6, <2>3
  <2> QED
    BY <1>2, <1>6, <2>4, <2>5, RowChanges, RunnersStay
<1> QED
  BY <1>3, <1>4, <1>5, <1>6

\* retry_one reads the latest attempt again.
LEMMA RetryOneRight ==
    ASSUME EffectsInv, RetryOne
    PROVE  EffectsInv'
<1>1. Timer \in Runners /\ runner[Timer].pc = "due" /\ UNCHANGED claims
  BY IdleRuns DEF RetryOne, At
<1>2. PICK e \in Events : e = runner[Timer].event
  BY <1>1, FitsNow
<1>3. PICK s \in Seq(Attempts) : s = reactions[e]
  BY <1>2 DEF EffectsInv
<1>4. /\ runner[Timer] \in RunRows /\ runner \in [Runners -> RunRows]
      /\ RowRight(s, claims[e]) /\ RunFits(Timer, runner[Timer], s, claims[e])
  BY <1>1, <1>2, <1>3, FitsNow DEF EffectsInv
<1>5. \/ /\ reactions' = [reactions EXCEPT ![e] = Dropped(@, runner[Timer].attempt)]
         /\ Returns(Timer)
      \/ /\ LatestIs(e, "failed") /\ reactions[e][Latest(e)].retry
         /\ runner' = [runner EXCEPT ![Timer].pc = "resend", ![Timer].attempt = Latest(e) + 1,
                                     ![Timer].what = reactions[e][Latest(e)].resend]
         /\ UNCHANGED reactions
      \/ Returns(Timer) /\ UNCHANGED reactions
  BY <1>2 DEF RetryOne
<1>6. CASE /\ reactions' = [reactions EXCEPT ![e] = Dropped(@, runner[Timer].attempt)]
           /\ Returns(Timer)
  <2>1. PICK t : t = Dropped(s, runner[Timer].attempt)
    OBVIOUS
  <2>2. runner[Timer].attempt \in Int
    BY <1>4 DEF RunRows
  <2>3. t \in Seq(Attempts) /\ RowRight(t, claims[e]) /\ RowGoes(s, t, claims[e], claims[e])
    BY <1>4, <2>1, <2>2, DroppedRight
  <2>4. reactions' = [reactions EXCEPT ![e] = t]
    BY <1>3, <1>6, <2>1
  <2> QED
    BY <1>1, <1>3, <1>6, <2>3, <2>4, ReturnsRight
<1>7. CASE /\ LatestIs(e, "failed") /\ reactions[e][Latest(e)].retry
           /\ runner' = [runner EXCEPT ![Timer].pc = "resend", ![Timer].attempt = Latest(e) + 1,
                                       ![Timer].what = reactions[e][Latest(e)].resend]
           /\ UNCHANGED reactions
  <2>1. PICK n \in Nat \ {0} : n = Latest(e)
    BY <1>7, LatestFailed
  <2>2. n = Len(s) /\ \A i \in 1..n : s[i].state = "failed"
    BY <1>3, <1>7, <2>1, LatestFailed
  <2>3. s[n] \in Attempts /\ n \in DOMAIN s
    BY <2>2
  <2>4. PICK what \in Sendable : what = s[n].resend
    BY <2>3 DEF Attempts, Sendable
  <2>0. PICK m \in Nat : m = n + 1
    OBVIOUS
  <2>5. runner' = [runner EXCEPT ![Timer].pc = "resend", ![Timer].attempt = m,
                                 ![Timer].what = what]
    BY <1>3, <1>7, <2>0, <2>1, <2>4
  <2> DEFINE run == [runner[Timer] EXCEPT !.pc = "resend", !.attempt = m, !.what = what]
  <2>6. /\ run.pc = "resend" /\ run.attempt = m /\ run.what = what
        /\ run.event = e /\ run.origin = runner[Timer].origin
        /\ run.passing = runner[Timer].passing /\ run.safe = runner[Timer].safe
    BY <1>2, <1>4 DEF RunRows
  <2>7. run \in RunRows
    BY <1>4 DEF RunRows, RunPcs
  <2>8. runner' = [runner EXCEPT ![Timer] = run]
    BY <1>1, <1>4, <2>5 DEF RunRows
  <2> HIDE DEF run
  <2>9. what # Nothing => Sent(claims[e], n, what)
    BY <1>4, <2>3, <2>4 DEF RowRight
  <2>10. AutomaticInARow(s) < RetryDelays
    BY <1>3, <1>4, <1>7, <2>1, <2>2 DEF RowRight
  <2>11. ~run.passing /\ run.origin = "auto"
    BY <1>1, <1>4, <2>6 DEF RunFits
  <2>12. RunFits(Timer, run, s, claims[e])
    <3>1. run.attempt > 0 /\ run.attempt <= Len(s) + 1 /\ run.attempt - 1 = n
      BY <2>0, <2>2, <2>6
    <3>2. \A i \in 1..(run.attempt - 1) : s[i].state = "failed"
      BY <2>2, <3>1
    <3> QED
      BY <2>6, <2>9, <2>10, <2>11, <3>1, <3>2 DEF RunFits
  <2>13. UNCHANGED <<reactions, claims>>
    BY <1>1, <1>7
  <2> QED
    BY <1>1, <1>3, <2>6, <2>7, <2>8, <2>12, <2>13, RowsStay, GoesFits
<1>8. CASE Returns(Timer) /\ UNCHANGED reactions
  BY <1>1, <1>8, IdleRuns, RowsStay, GoesFits DEF Returns
<1> QED
  BY <1>5, <1>6, <1>7, <1>8

\* The timer sends what the attempt before it sent.
LEMMA ResendsRight ==
    ASSUME EffectsInv, Resends, idempotent \in BOOLEAN
    PROVE  EffectsInv'
<1>1. Timer \in Runners /\ runner[Timer].pc = "resend" /\ UNCHANGED claims
  BY IdleRuns DEF Resends, At
<1>2. PICK e \in Events : e = runner[Timer].event
  BY <1>1, FitsNow
<1>3. PICK s \in Seq(Attempts) : s = reactions[e]
  BY <1>2 DEF EffectsInv
<1>4. /\ runner[Timer] \in RunRows /\ runner \in [Runners -> RunRows]
      /\ RowRight(s, claims[e]) /\ RunFits(Timer, runner[Timer], s, claims[e])
  BY <1>1, <1>2, <1>3, FitsNow DEF EffectsInv
<1>5. \/ /\ runner[Timer].what # Nothing /\ idempotent /\ UNCHANGED reactions
         /\ runner' = [runner EXCEPT ![Timer].pc = "run", ![Timer].safe = idempotent]
      \/ /\ reactions' = [reactions EXCEPT ![e] = Dropped(@, runner[Timer].attempt - 1)]
         /\ Returns(Timer)
  BY <1>2 DEF Resends
<1>6. CASE /\ reactions' = [reactions EXCEPT ![e] = Dropped(@, runner[Timer].attempt - 1)]
           /\ Returns(Timer)
  <2>1. PICK t : t = Dropped(s, runner[Timer].attempt - 1)
    OBVIOUS
  <2>2. runner[Timer].attempt - 1 \in Int
    BY <1>4 DEF RunRows
  <2>3. t \in Seq(Attempts) /\ RowRight(t, claims[e]) /\ RowGoes(s, t, claims[e], claims[e])
    BY <1>4, <2>1, <2>2, DroppedRight
  <2>4. reactions' = [reactions EXCEPT ![e] = t]
    BY <1>3, <1>6, <2>1
  <2> QED
    BY <1>1, <1>3, <1>6, <2>3, <2>4, ReturnsRight
<1>7. CASE /\ runner[Timer].what # Nothing /\ idempotent /\ UNCHANGED reactions
           /\ runner' = [runner EXCEPT ![Timer].pc = "run", ![Timer].safe = idempotent]
  <2> DEFINE run == [runner[Timer] EXCEPT !.pc = "run", !.safe = TRUE]
  <2>0. runner' = [runner EXCEPT ![Timer].pc = "run", ![Timer].safe = TRUE]
    BY <1>7
  <2>1. /\ run.pc = "run" /\ run.safe /\ run.attempt = runner[Timer].attempt
        /\ run.what = runner[Timer].what /\ run.event = e
        /\ run.origin = runner[Timer].origin /\ run.passing = runner[Timer].passing
    BY <1>2, <1>4 DEF RunRows
  <2>2. run \in RunRows
    BY <1>4 DEF RunRows, RunPcs
  <2>3. runner' = [runner EXCEPT ![Timer] = run]
    BY <1>1, <1>4, <2>0 DEF RunRows
  <2> HIDE DEF run
  <2>4. RunFits(Timer, run, s, claims[e])
    BY <1>1, <1>4, <1>7, <2>1 DEF RunFits
  <2>5. UNCHANGED <<reactions, claims>>
    BY <1>1, <1>7
  <2> QED
    BY <1>1, <1>3, <2>1, <2>2, <2>3, <2>4, <2>5, RowsStay, GoesFits
<1> QED
  BY <1>5, <1>6, <1>7

\* What a runner is at.
LEMMA AtReaction ==
    ASSUME EffectsInv, NEW r \in Runners, runner[r].pc # "idle"
    PROVE  \E e \in Events : \E s \in Seq(Attempts) :
               /\ e = runner[r].event /\ s = reactions[e]
               /\ runner[r] \in RunRows /\ runner \in [Runners -> RunRows]
               /\ RowRight(s, claims[e]) /\ RunFits(r, runner[r], s, claims[e])
BY FitsNow DEF EffectsInv

\* run_script.
LEMMA ComposesRight ==
    ASSUME EffectsInv, NEW r \in Runners, Composes(r), idempotent \in BOOLEAN
    PROVE  EffectsInv'
<1>1. runner[r].pc = "compose" /\ UNCHANGED claims
  BY DEF Composes, At
<1>2. PICK e \in Events, s \in Seq(Attempts) :
         /\ e = runner[r].event /\ s = reactions[e]
         /\ runner[r] \in RunRows /\ runner \in [Runners -> RunRows]
         /\ RowRight(s, claims[e]) /\ RunFits(r, runner[r], s, claims[e])
  BY <1>1, AtReaction
<1>3. CASE \E c \in Compositions :
             /\ runner' = [runner EXCEPT ![r].pc = "run", ![r].what = c,
                               ![r].safe = idempotent /\ c \notin Inside]
             /\ UNCHANGED reactions
  <2>1. PICK c \in Compositions :
             runner' = [runner EXCEPT ![r].pc = "run", ![r].what = c,
                               ![r].safe = idempotent /\ c \notin Inside]
    BY <1>3
  <2>2. PICK safe \in BOOLEAN : safe = (idempotent /\ c \notin Inside)
    OBVIOUS
  <2>3. runner' = [runner EXCEPT ![r].pc = "run", ![r].what = c, ![r].safe = safe]
    BY <2>1, <2>2
  <2> DEFINE run == [runner[r] EXCEPT !.pc = "run", !.what = c, !.safe = safe]
  <2>4. /\ run.pc = "run" /\ run.what = c /\ run.safe = safe
        /\ run.attempt = runner[r].attempt /\ run.event = e
        /\ run.origin = runner[r].origin /\ run.passing = runner[r].passing
    BY <1>2 DEF RunRows
  <2>5. run \in RunRows
    BY <1>2 DEF RunRows, RunPcs, Sendable
  <2>6. runner' = [runner EXCEPT ![r] = run]
    BY <1>1, <1>2, <2>3 DEF RunRows
  <2> HIDE DEF run
  <2>7. RunFits(r, run, s, claims[e])
    BY <1>1, <1>2, <2>4 DEF RunFits
  <2>8. UNCHANGED <<reactions, claims>>
    BY <1>1, <1>3
  <2> QED
    BY <1>2, <2>4, <2>5, <2>6, <2>7, <2>8, RowsStay, GoesFits
<1>4. CASE \E state \in {"skipped", "failed"} :
             /\ reactions' = [reactions EXCEPT ![e] =
                                 Finished(@, runner[r].attempt, runner[r].origin, state)]
             /\ Returns(r)
  <2>1. PICK state \in RunStates :
             /\ reactions' = [reactions EXCEPT ![e] =
                                 Finished(@, runner[r].attempt, runner[r].origin, state)]
             /\ Returns(r)
    BY <1>4 DEF RunStates
  <2>2. PICK t : t = Finished(s, runner[r].attempt, runner[r].origin, state)
    OBVIOUS
  <2>3. t \in Seq(Attempts) /\ RowRight(t, claims[e]) /\ RowGoes(s, t, claims[e], claims[e])
    BY <1>1, <1>2, <2>2, FinishedRight
  <2>4. reactions' = [reactions EXCEPT ![e] = t]
    BY <1>2, <2>1, <2>2
  <2> QED
    BY <1>1, <1>2, <2>1, <2>3, <2>4, ReturnsRight
<1> QED
  BY <1>2, <1>3, <1>4 DEF Composes

LEMMA LandsRight ==
    ASSUME EffectsInv, NEW r \in Runners, NEW state \in {"ok", "proposed"}, Lands(r, state)
    PROVE  EffectsInv'
<1>1. runner[r].pc = "run" /\ UNCHANGED claims /\ Returns(r) /\ state \in RunStates
  BY DEF Lands, At, RunStates
<1>2. PICK e \in Events, s \in Seq(Attempts) :
         /\ e = runner[r].event /\ s = reactions[e]
         /\ runner[r] \in RunRows /\ runner \in [Runners -> RunRows]
         /\ RowRight(s, claims[e]) /\ RunFits(r, runner[r], s, claims[e])
  BY <1>1, AtReaction
<1>3. PICK t : t = Finished(s, runner[r].attempt, runner[r].origin, state)
  OBVIOUS
<1>4. t \in Seq(Attempts) /\ RowRight(t, claims[e]) /\ RowGoes(s, t, claims[e], claims[e])
  BY <1>1, <1>2, <1>3, FinishedRight
<1>5. reactions' = [reactions EXCEPT ![e] = t]
  BY <1>2, <1>3 DEF Lands
<1> QED
  BY <1>1, <1>2, <1>4, <1>5, ReturnsRight

\* A run goes on with what it has.
LEMMA GoesOnRight ==
    ASSUME EffectsInv, NEW r \in Runners, UNCHANGED <<reactions, claims>>,
           NEW pc \in {"failing", "landed", "partway"}, NEW passing \in BOOLEAN,
           runner[r].pc \in {"run", "send", "partway"}, runner[r].pc = "run" => pc = "failing",
           passing => runner[r].pc # "run" /\ pc # "landed",
           \/ runner' = [runner EXCEPT ![r].pc = pc, ![r].passing = passing]
           \/ passing = runner[r].passing /\ runner' = [runner EXCEPT ![r].pc = pc]
    PROVE  EffectsInv'
<1>1. PICK e \in Events, s \in Seq(Attempts) :
         /\ e = runner[r].event /\ s = reactions[e]
         /\ runner[r] \in RunRows /\ runner \in [Runners -> RunRows]
         /\ RowRight(s, claims[e]) /\ RunFits(r, runner[r], s, claims[e])
  BY AtReaction
<1> DEFINE run == [runner[r] EXCEPT !.pc = pc, !.passing = passing]
<1>2. /\ run.pc = pc /\ run.passing = passing /\ run.what = runner[r].what
      /\ run.safe = runner[r].safe /\ run.attempt = runner[r].attempt /\ run.event = e
      /\ run.origin = runner[r].origin
  BY <1>1 DEF RunRows
<1>3. run \in RunRows
  BY <1>1 DEF RunRows, RunPcs
<1>4. runner' = [runner EXCEPT ![r] = run]
  <2>1. CASE runner' = [runner EXCEPT ![r].pc = pc, ![r].passing = passing]
    BY <1>1, <2>1 DEF RunRows
  <2>2. CASE passing = runner[r].passing /\ runner' = [runner EXCEPT ![r].pc = pc]
    <3>1. run = [runner[r] EXCEPT !.pc = pc]
      BY <1>1, <2>2 DEF RunRows
    <3> HIDE DEF run
    <3> QED
      BY <1>1, <2>2, <3>1 DEF RunRows
  <2> QED
    BY <2>1, <2>2
<1> HIDE DEF run
<1>5. RunFits(r, run, s, claims[e])
  BY <1>1, <1>2 DEF RunFits
<1> QED
  BY <1>1, <1>2, <1>3, <1>4, <1>5, RowsStay, GoesFits

LEMMA RunsOnRight ==
    ASSUME EffectsInv, NEW r \in Runners, RunFails(r) \/ Sends(r)
    PROVE  EffectsInv'
<1>1. CASE RunFails(r)
  <2>1. /\ runner[r].pc = "run" /\ runner' = [runner EXCEPT ![r].pc = "failing"]
        /\ UNCHANGED <<reactions, claims>>
    BY <1>1 DEF RunFails, At, Goes
  <2>2. runner[r].passing \in BOOLEAN /\ ~runner[r].passing
    BY <2>1, FitsNow DEF RunFits, RunRows
  <2> QED
    BY <2>1, <2>2, GoesOnRight
<1>2. CASE Sends(r)
  <2>1. PICK pc \in {"failing", "landed", "partway"}, passing \in BOOLEAN :
           /\ pc = "landed" => ~passing
           /\ runner' = [runner EXCEPT ![r].pc = pc, ![r].passing = passing]
    BY <1>2 DEF Sends
  <2>2. runner[r].pc = "send" /\ UNCHANGED <<reactions, claims>>
    BY <1>2 DEF Sends, At
  <2> QED
    BY <2>1, <2>2, GoesOnRight
<1> QED
  BY <1>1, <1>2

\* run is what r is doing, but at pc.
OnlyAt(run, r, pc) ==
    /\ run.pc = pc /\ run.passing = runner[r].passing /\ run.what = runner[r].what
    /\ run.safe = runner[r].safe /\ run.attempt = runner[r].attempt
    /\ run.event = runner[r].event /\ run.origin = runner[r].origin

LEMMA OnlyPc ==
    ASSUME EffectsInv, NEW r \in Runners, NEW pc \in RunPcs, Goes(r, pc)
    PROVE  \E run \in RunRows : OnlyAt(run, r, pc) /\ runner' = [runner EXCEPT ![r] = run]
<1> DEFINE run == [runner[r] EXCEPT !.pc = pc]
<1>1. runner[r] \in RunRows /\ runner \in [Runners -> RunRows]
  BY DEF EffectsInv
<1>2. OnlyAt(run, r, pc)
  BY <1>1 DEF RunRows, OnlyAt
<1>3. run \in RunRows
  BY <1>1 DEF RunRows
<1>4. runner' = [runner EXCEPT ![r] = run]
  BY <1>1 DEF Goes
<1> HIDE DEF run
<1> QED
  BY <1>2, <1>3, <1>4

\* run_steps records what landed.
LEMMA RecordsRight ==
    ASSUME EffectsInv, NEW r \in Runners, Records(r)
    PROVE  EffectsInv'
<1>1. runner[r].pc \in {"landed", "partway"} /\ claims' = claims
  BY DEF Records, At
<1>2. PICK e \in Events, s \in Seq(Attempts) :
         /\ e = runner[r].event /\ s = reactions[e]
         /\ runner[r] \in RunRows /\ runner \in [Runners -> RunRows]
         /\ RowRight(s, claims[e]) /\ RunFits(r, runner[r], s, claims[e])
  BY <1>1, AtReaction
<1>3. PICK state \in RunStates :
         reactions' = [reactions EXCEPT ![e] =
                          Finished(@, runner[r].attempt, runner[r].origin, state)]
  BY <1>2 DEF Records, RunStates
<1>4. PICK t : t = Finished(s, runner[r].attempt, runner[r].origin, state)
  OBVIOUS
<1>5. t \in Seq(Attempts) /\ RowRight(t, claims[e]) /\ RowGoes(s, t, claims[e], claims[e])
  BY <1>1, <1>2, <1>4, FinishedRight
<1>6. reactions' = [reactions EXCEPT ![e] = t]
  BY <1>2, <1>3, <1>4
<1>7. CASE Returns(r)
  BY <1>1, <1>2, <1>5, <1>6, <1>7, ReturnsRight
<1>8. CASE runner[r].pc = "partway" /\ Goes(r, "failing")
  <2>1. PICK run \in RunRows :
           OnlyAt(run, r, "failing") /\ runner' = [runner EXCEPT ![r] = run]
    <3>1. "failing" \in RunPcs
      BY DEF RunPcs
    <3> QED
      BY <1>8, <3>1, OnlyPc
  <2>2. RunFits(r, run, s, claims[e])
    BY <1>2, <1>8, <2>1 DEF RunFits, OnlyAt
  <2>3. run.event = e
    BY <1>2, <2>1 DEF OnlyAt
  <2> QED
    BY <1>1, <1>2, <1>5, <1>6, <2>1, <2>2, <2>3, RowChanges, GoesFits
<1>9. Returns(r) \/ (runner[r].pc = "partway" /\ Goes(r, "failing"))
  BY DEF Records, At
<1> QED
  BY <1>7, <1>8, <1>9

\* fail.
LEMMA FailsRight ==
    ASSUME EffectsInv, NEW r \in Runners, Fails(r)
    PROVE  EffectsInv'
<1>1. runner[r].pc = "failing" /\ claims' = claims /\ Returns(r) /\ "failed" \in RunStates
  BY DEF Fails, At, RunStates
<1>2. PICK e \in Events, s \in Seq(Attempts) :
         /\ e = runner[r].event /\ s = reactions[e]
         /\ runner[r] \in RunRows /\ runner \in [Runners -> RunRows]
         /\ RowRight(s, claims[e]) /\ RunFits(r, runner[r], s, claims[e])
  BY <1>1, AtReaction
<1>3. PICK f : f = Finished(s, runner[r].attempt, runner[r].origin, "failed")
  OBVIOUS
<1>4. /\ f \in Seq(Attempts) /\ RowRight(f, claims[e]) /\ RowGoes(s, f, claims[e], claims[e])
      /\ runner[r].attempt \in DOMAIN f
  BY <1>1, <1>2, <1>3, FinishedRight
<1>5. PICK again \in BOOLEAN :
         /\ again => runner[r].passing /\ runner[r].safe /\ RetriesLeft(f)
         /\ reactions' = [reactions EXCEPT ![e] =
                             IF again THEN Scheduled(f, runner[r].attempt, runner[r].what) ELSE f]
  BY <1>2, <1>3 DEF Fails
<1>6. CASE ~again
  BY <1>1, <1>2, <1>4, <1>5, <1>6, ReturnsRight
<1>7. CASE again
  <2>1. PICK t : t = Scheduled(f, runner[r].attempt, runner[r].what)
    OBVIOUS
  <2>2. Sent(claims[e], runner[r].attempt, runner[r].what) /\ runner[r].what \in Sendable
    BY <1>2, <1>5, <1>7 DEF RunFits, RunRows
  <2>3. t \in Seq(Attempts) /\ RowRight(t, claims[e]) /\ Amends(f, t)
    BY <1>4, <1>5, <1>7, <2>1, <2>2, ScheduledRight
  <2>4. RowGoes(s, t, claims[e], claims[e])
    <3>1. ASSUME Amends(s, f) PROVE Amends(s, t)
      BY <1>2, <1>4, <2>3, <3>1 DEF Amends
    <3>2. ASSUME NEW origin, Adds(s, f, origin) PROVE Adds(s, t, origin)
      <4>1. /\ Len(s) \in Nat /\ DOMAIN s = 1..Len(s) /\ DOMAIN f = 1..Len(f)
            /\ Len(f) = Len(s) + 1 /\ Len(t) = Len(f)
        BY <1>4, <2>3, <3>2 DEF Adds, Amends
      <4> QED
        BY <2>3, <3>2, <4>1 DEF Adds, Amends
    <3> QED
      BY <1>4, <3>1, <3>2 DEF RowGoes
  <2>5. reactions' = [reactions EXCEPT ![e] = t]
    BY <1>5, <1>7, <2>1
  <2> QED
    BY <1>1, <1>2, <2>3, <2>4, <2>5, ReturnsRight
<1> QED
  BY <1>6, <1>7

LEMMA BusyRight ==
    ASSUME EffectsInv, NEW r \in Runners, Busy(r)
    PROVE  EffectsInv'
BY IdleRuns, RowsStay, GoesFits DEF Busy

\* An attempt that is claimed follows failures; the timer's repeats the one
\* before it.
LEMMA ClaimsRight ==
    ASSUME EffectsInv, NEW r \in Runners, Claims(r)
    PROVE  EffectsInv'
<1>1. runner[r].pc = "run"
  BY DEF Claims, At
<1>2. PICK e \in Events, s \in Seq(Attempts) :
         /\ e = runner[r].event /\ s = reactions[e]
         /\ runner[r] \in RunRows /\ runner \in [Runners -> RunRows]
         /\ RowRight(s, claims[e]) /\ RunFits(r, runner[r], s, claims[e])
  BY <1>1, AtReaction
<1>3. \/ /\ runner[r].attempt > Len(s)
         /\ reactions' = [reactions EXCEPT ![e] =
                Claimed(@, runner[r].origin, IF runner[r].safe THEN runner[r].what ELSE Nothing)]
         /\ claims' = [claims EXCEPT ![e] = Append(@,
                [attempt |-> runner[r].attempt, origin |-> runner[r].origin,
                 what |-> runner[r].what, safe |-> runner[r].safe])]
         /\ Goes(r, "send")
      \/ Returns(r) /\ UNCHANGED <<reactions, claims>>
  BY <1>2 DEF Claims, Latest
<1>4. CASE Returns(r) /\ UNCHANGED <<reactions, claims>>
  BY <1>4, IdleRuns, RowsStay, GoesFits DEF Returns
<1>5. CASE /\ runner[r].attempt > Len(s)
           /\ reactions' = [reactions EXCEPT ![e] =
                  Claimed(@, runner[r].origin, IF runner[r].safe THEN runner[r].what ELSE Nothing)]
           /\ claims' = [claims EXCEPT ![e] = Append(@,
                  [attempt |-> runner[r].attempt, origin |-> runner[r].origin,
                   what |-> runner[r].what, safe |-> runner[r].safe])]
           /\ Goes(r, "send")
  <2>1. PICK x \in ClaimRows : /\ x.attempt = runner[r].attempt /\ x.origin = runner[r].origin
                               /\ x.what = runner[r].what /\ x.safe = runner[r].safe
                               /\ claims' = [claims EXCEPT ![e] = Append(@, x)]
    <3> DEFINE x == [attempt |-> runner[r].attempt, origin |-> runner[r].origin,
                     what |-> runner[r].what, safe |-> runner[r].safe]
    <3>1. /\ x \in ClaimRows
          /\ x.attempt = runner[r].attempt /\ x.origin = runner[r].origin
          /\ x.what = runner[r].what /\ x.safe = runner[r].safe
      BY <1>2 DEF ClaimRows, RunRows
    <3>2. claims' = [claims EXCEPT ![e] = Append(@, x)]
      BY <1>5
    <3> HIDE DEF x
    <3> QED
      BY <3>1, <3>2
  <2>2. PICK resend \in Sendable :
           resend = IF runner[r].safe THEN runner[r].what ELSE Nothing
    BY <1>2 DEF RunRows, Sendable
  <2>3. PICK t : t = Claimed(s, runner[r].origin, resend)
    OBVIOUS
  <2>4. /\ t \in Seq(Attempts) /\ Adds(s, t, runner[r].origin)
        /\ ~t[Len(t)].retry /\ t[Len(t)].resend = resend
        /\ \A i \in DOMAIN s : t[i].retry = s[i].retry /\ t[i].resend = Nothing
    <3>1. runner[r].origin \in Origins
      BY <1>2 DEF RunRows
    <3> QED
      BY <2>3, <3>1, ClaimedRow
  <2>5. /\ claims[e] \in Seq(ClaimRows) /\ Len(claims[e]) \in Nat
        /\ DOMAIN claims[e] = 1..Len(claims[e])
    BY DEF EffectsInv
  <2>6. PICK cl \in Seq(ClaimRows) : cl = claims[e] /\ Len(cl) \in Nat /\ DOMAIN cl = 1..Len(cl)
    BY <2>5
  <2>7. PICK cm \in Seq(ClaimRows) : cm = Append(cl, x)
    <3>1. Append(cl, x) \in Seq(ClaimRows)
      BY AppendProperties
    <3> QED
      BY <3>1, Zenon
  <2>8. /\ Len(cm) = Len(cl) + 1 /\ DOMAIN cm = 1..(Len(cl) + 1) /\ cm[Len(cl) + 1] = x
        /\ \A j \in 1..Len(cl) : cm[j] = cl[j]
    BY <2>6, <2>7
  <2>9. Extends(cl, cm)
    BY <2>6, <2>8 DEF Extends
  <2>10. runner[r].attempt = Len(s) + 1
    BY <1>1, <1>2, <1>5 DEF RunFits, RunRows
  <2>11. RepeatsSafely(cm)
    <3> SUFFICES ASSUME NEW i \in DOMAIN cm, cm[i].origin = "auto"
                 PROVE  /\ cm[i].safe
                        /\ \E j \in 1..(i - 1) : /\ cm[j].attempt = cm[i].attempt - 1
                                                 /\ cm[j].what = cm[i].what /\ cm[j].safe
      BY DEF RepeatsSafely
    <3>1. CASE i \in 1..Len(cl)
      <4>1. /\ cl[i].safe
            /\ \E j \in 1..(i - 1) : /\ cl[j].attempt = cl[i].attempt - 1
                                     /\ cl[j].what = cl[i].what /\ cl[j].safe
        BY SMTT(30), <1>2, <2>6, <2>8, <3>1 DEF RowRight
      <4>2. \A j \in 1..(i - 1) : cm[j] = cl[j]
        BY <2>6, <2>8, <3>1
      <4> QED
        BY <2>8, <3>1, <4>1, <4>2
    <3>2. CASE i = Len(cl) + 1
      <4>1. r = Timer
        BY <1>2, <2>1, <2>8, <3>2 DEF RunFits
      <4>2. runner[r].safe /\ Sent(cl, runner[r].attempt - 1, runner[r].what)
        BY <1>1, <1>2, <2>6, <4>1 DEF RunFits
      <4>3. PICK j \in 1..Len(cl) : /\ cl[j].attempt = x.attempt - 1
                                    /\ cl[j].what = x.what /\ cl[j].safe
        BY <2>1, <2>6, <4>2 DEF Sent
      <4>4. j \in 1..(i - 1) /\ cm[j] = cl[j] /\ cm[i] = x /\ x.safe
        BY <2>1, <2>6, <2>8, <3>2, <4>2, <4>3
      <4> QED
        BY <4>3, <4>4
    <3>3. i \in 1..Len(cl) \/ i = Len(cl) + 1
      BY <2>6, <2>8
    <3> QED
      BY <3>1, <3>2, <3>3
  <2>12. runner[r].safe => Sent(cm, runner[r].attempt, runner[r].what)
    <3>1. Len(cl) + 1 \in DOMAIN cm
      BY <2>6, <2>8
    <3> QED
      BY <2>1, <2>8, <3>1 DEF Sent
  <2>13. \A i \in DOMAIN t : t[i].resend # Nothing => Sent(cm, i, t[i].resend)
    <3>1. DOMAIN t = 1..(Len(s) + 1) /\ DOMAIN s = 1..Len(s) /\ Len(s) \in Nat /\ Len(t) = Len(s) + 1
      BY <2>4 DEF Adds
    <3>2. \A i \in DOMAIN t : t[i].resend # Nothing => i = Len(s) + 1 /\ t[i].resend = resend
      BY <2>4, <3>1
    <3>3. resend # Nothing => Sent(cm, Len(s) + 1, resend)
      BY <2>2, <2>10, <2>12
    <3> QED
      BY <3>2, <3>3
  <2>14. RowRight(t, cm) /\ RowGoes(s, t, cl, cm)
    BY <1>1, <1>2, <2>4, <2>6, <2>9, <2>10, <2>11, <2>13, RowAdded
  <2>15. /\ reactions' \in [Events -> Seq(Attempts)]
         /\ \A b \in Events : reactions'[b] = IF b = e THEN t ELSE reactions[b]
    <3>1. reactions' = [reactions EXCEPT ![e] = t] /\ reactions \in [Events -> Seq(Attempts)]
      BY <1>2, <1>5, <2>2, <2>3 DEF EffectsInv
    <3> QED
      BY <2>4, <3>1
  <2>16. /\ claims' \in [Events -> Seq(ClaimRows)]
         /\ \A b \in Events : claims'[b] = IF b = e THEN cm ELSE claims[b]
    <3>1. claims' = [claims EXCEPT ![e] = cm] /\ claims \in [Events -> Seq(ClaimRows)]
      BY <2>1, <2>6, <2>7 DEF EffectsInv
    <3> QED
      BY <2>7, <3>1
  <2>17. \A b \in Events : /\ RowRight(reactions'[b], claims'[b])
                           /\ RowGoes(reactions[b], reactions'[b], claims[b], claims'[b])
    <3>1. \A b \in Events : RowRight(reactions[b], claims[b])
      BY DEF EffectsInv
    <3>2. \A u, v : RowGoes(u, u, v, v)
      BY DEF RowGoes, Amends, Extends
    <3> QED
      BY <1>2, <2>6, <2>14, <2>15, <2>16, <3>1, <3>2
  <2>18. PICK run \in RunRows :
           OnlyAt(run, r, "send") /\ runner' = [runner EXCEPT ![r] = run]
    <3>1. "send" \in RunPcs
      BY DEF RunPcs
    <3> QED
      BY <1>5, <3>1, OnlyPc
  <2>19. RunFits(r, run, t, cm)
    <3>1. RunFits(r, runner[r], t, cm)
      BY <1>2, <2>4, <2>6, <2>14, FitsStill
    <3> QED
      BY <1>1, <2>12, <2>18, <3>1 DEF RunFits, OnlyAt
  <2>20. /\ runner' \in [Runners -> RunRows]
         /\ \A q \in Runners : runner'[q] = IF q = r THEN run ELSE runner[q]
    BY <2>18, RunnerGoes
  <2>21. \A q \in Runners :
            \/ runner'[q] = runner[q] \/ runner'[q].pc = "idle"
            \/ /\ runner'[q].event \in Events
               /\ RunFits(q, runner'[q], reactions'[runner'[q].event], claims'[runner'[q].event])
    <3> SUFFICES ASSUME NEW q \in Runners, q = r
                 PROVE  /\ run.event \in Events
                        /\ RunFits(r, run, reactions'[run.event], claims'[run.event])
      BY <2>20
    <3> QED
      BY <1>2, <2>15, <2>16, <2>18, <2>19 DEF OnlyAt
  <2> QED
    BY <2>15, <2>16, <2>17, <2>20, <2>21, StepFits
<1> QED
  BY <1>3, <1>4, <1>5

\* oxplow stops: the attempts no delivery will find are over.
LEMMA StopsRight ==
    ASSUME EffectsInv, Stops
    PROVE  EffectsInv'
<1> DEFINE found == {e \in Events : CutOffAtStart(e)}
<1>1. /\ runner' = [r \in Runners |-> IdleRun] /\ claims' = claims
      /\ reactions' = [e \in Events |->
                          IF e \in found THEN CutOff(reactions[e]) ELSE reactions[e]]
  BY DEF Stops
<1>2. ASSUME NEW e \in Events
      PROVE  /\ reactions'[e] \in Seq(Attempts) /\ RowRight(reactions'[e], claims[e])
             /\ RowGoes(reactions[e], reactions'[e], claims[e], claims[e])
  <2>1. PICK s \in Seq(Attempts) : s = reactions[e] /\ RowRight(s, claims[e])
    BY DEF EffectsInv
  <2>2. CASE e \in found
    <3>1. s # <<>>
      BY <2>1, <2>2 DEF CutOffAtStart, LatestIs
    <3>2. Len(s) > 0
      BY <3>1
    <3>3. PICK t : t = CutOff(s)
      OBVIOUS
    <3>4. /\ t \in Seq(Attempts) /\ RowRight(t, claims[e])
          /\ RowGoes(s, t, claims[e], claims[e])
      BY <2>1, <3>2, <3>3, CutOffRight
    <3>5. reactions'[e] = t
      BY <1>1, <2>1, <2>2, <3>3
    <3> QED
      BY <2>1, <3>4, <3>5
  <2>3. CASE e \notin found
    <3>1. reactions'[e] = s
      BY <1>1, <2>1, <2>3
    <3>2. RowGoes(s, s, claims[e], claims[e])
      BY DEF RowGoes, Amends, Extends
    <3> QED
      BY <2>1, <3>1, <3>2
  <2> QED
    BY <2>2, <2>3
<1>3. reactions' \in [Events -> Seq(Attempts)] /\ claims' \in [Events -> Seq(ClaimRows)]
  <2>1. claims' \in [Events -> Seq(ClaimRows)]
    BY <1>1 DEF EffectsInv
  <2>2. reactions' = [e \in Events |-> reactions'[e]]
    BY <1>1
  <2> HIDE DEF found
  <2> QED
    BY <1>2, <2>1, <2>2
<1>4. runner' \in [Runners -> RunRows] /\ \A r \in Runners : runner'[r].pc = "idle"
  BY <1>1, IdleRuns
<1> QED
  BY <1>1, <1>2, <1>3, <1>4, StepFits

\* The position and the promise of the provider.
Small == seen \in Nat /\ idempotent \in BOOLEAN

LEMMA SmallStep ==
    ASSUME Small, [EffectsNext]_effectVars
    PROVE  Small'
<1> USE DEF Small
<1>1. CASE Delivers
  BY <1>1 DEF Delivers
<1>2. ASSUME NEW e \in Events, RetriedBy(e) \/ Backfills(e) \/ ListsDue(e) PROVE Small'
  BY <1>2 DEF RetriedBy, Backfills, ListsDue
<1>3. ASSUME NEW r, Returns(r) PROVE seen' \in Nat
  BY <1>3 DEF Returns
<1>4. CASE RetryOne
  BY <1>3, <1>4 DEF RetryOne
<1>5. CASE Resends
  BY <1>3, <1>5 DEF Resends
<1>6. ASSUME NEW r \in Runners, Runs(r) PROVE Small'
  <2>1. CASE Composes(r)
    BY <1>3, <2>1 DEF Composes
  <2>2. CASE \E state \in {"ok", "proposed"} : Lands(r, state)
    BY <1>3, <2>2 DEF Lands
  <2>3. CASE RunFails(r) \/ Sends(r)
    BY <2>3 DEF RunFails, Sends
  <2>4. CASE Claims(r)
    BY <1>3, <2>4 DEF Claims
  <2>5. CASE Records(r)
    BY <1>3, <2>5 DEF Records
  <2>6. CASE Fails(r)
    BY <1>3, <2>6 DEF Fails
  <2> QED
    BY <1>6, <2>1, <2>2, <2>3, <2>4, <2>5, <2>6 DEF Runs
<1>7. ASSUME NEW r \in Runners, Busy(r) PROVE Small'
  BY <1>7 DEF Busy
<1>8. CASE Enable \/ Stops \/ Switches
  BY <1>8 DEF Enable, Stops, Switches
<1>9. CASE UNCHANGED effectVars
  BY <1>9 DEF effectVars
<1> QED
  BY <1>1, <1>2, <1>4, <1>5, <1>6, <1>7, <1>8, <1>9 DEF EffectsNext

LEMMA EffectsStep ==
    ASSUME EffectsInv, Small, [EffectsNext]_effectVars
    PROVE  EffectsInv'
<1>1. CASE Delivers
  BY <1>1, DeliversRight, EffectsAssumption DEF Small
<1>2. ASSUME NEW e \in Events, RetriedBy(e) \/ Backfills(e) \/ ListsDue(e) PROVE EffectsInv'
  BY <1>2, BeginsRight
<1>3. CASE RetryOne
  BY <1>3, RetryOneRight
<1>4. CASE Resends
  BY <1>4, ResendsRight DEF Small
<1>5. ASSUME NEW r \in Runners, Runs(r) PROVE EffectsInv'
  <2>1. CASE Composes(r)
    BY <2>1, ComposesRight DEF Small
  <2>2. CASE \E state \in {"ok", "proposed"} : Lands(r, state)
    BY <2>2, LandsRight
  <2>3. CASE RunFails(r) \/ Sends(r)
    BY <2>3, RunsOnRight
  <2>4. CASE Claims(r)
    BY <2>4, ClaimsRight
  <2>5. CASE Records(r)
    BY <2>5, RecordsRight
  <2>6. CASE Fails(r)
    BY <2>6, FailsRight
  <2> QED
    BY <1>5, <2>1, <2>2, <2>3, <2>4, <2>5, <2>6 DEF Runs
<1>6. ASSUME NEW r \in Runners, Busy(r) PROVE EffectsInv'
  BY <1>6, BusyRight
<1>7. CASE Stops
  BY <1>7, StopsRight
<1>8. CASE Enable \/ Switches \/ UNCHANGED effectVars
  <2>1. UNCHANGED <<reactions, claims>> /\ UNCHANGED runner
    BY <1>8 DEF Enable, Switches, effectVars
  <2> QED
    BY <2>1, RowsStay, RunnersStay
<1> QED
  BY <1>1, <1>2, <1>3, <1>4, <1>5, <1>6, <1>7, <1>8 DEF EffectsNext

LEMMA EffectsInvariant == EffectsSpec => [](EffectsInv /\ Small)
<1>1. EffectsInit => EffectsInv /\ Small
  <2> SUFFICES ASSUME EffectsInit PROVE EffectsInv /\ Small
    OBVIOUS
  <2>1. /\ reactions = [e \in Events |-> <<>>] /\ claims = [e \in Events |-> <<>>]
        /\ runner = [r \in Runners |-> IdleRun]
    BY DEF EffectsInit
  <2>2. Small
    BY DEF EffectsInit, Small
  <2>3. RowRight(<<>>, <<>>)
    <3>1. {i \in DOMAIN <<>> : \A j \in i..Len(<<>>) : <<>>[j].origin = "auto"} = {}
      OBVIOUS
    <3>2. AutomaticInARow(<<>>) = 0
      BY <3>1, FS_EmptySet DEF AutomaticInARow
    <3> QED
      BY <3>2 DEF RowRight, RetryDelays
  <2>4. /\ reactions \in [Events -> Seq(Attempts)] /\ claims \in [Events -> Seq(ClaimRows)]
        /\ runner \in [Runners -> RunRows]
    BY <2>1, IdleRuns
  <2>5. \A e \in Events : RowRight(reactions[e], claims[e])
    BY <2>1, <2>3
  <2>6. \A r \in Runners : runner[r].pc = "idle"
    BY <2>1, IdleRuns
  <2> QED
    BY <2>2, <2>4, <2>5, <2>6 DEF EffectsInv
<1>2. EffectsInv /\ Small /\ [EffectsNext]_effectVars => (EffectsInv /\ Small)'
  BY EffectsStep, SmallStep
<1> QED
  BY <1>1, <1>2, PTL DEF EffectsSpec

-----------------------------------------------------------------------------
\* RetriesByItselfSafe: whatever was cut off, retried by a person or configured
\* otherwise in between, an attempt oxplow makes by itself sends what the one
\* before it sent, each safe to send again when it was sent (run_reaction and
\* claim_tx), and never a third in a row (schedule_retry_tx).
THEOREM RetriesStaySafe == EffectsSpec => []RetriesByItselfSafe
<1>1. EffectsInv => RetriesByItselfSafe
  BY DEF EffectsInv, RowRight, RetriesByItselfSafe, RepeatsWhatWasSafe, AtMostTwoInARow
<1> QED
  BY <1>1, EffectsInvariant, PTL

\* OnlyFailedAttemptedAgain: a reaction that ran, was skipped or left a proposal
\* is never attempted again, by the pump, a person or the timer, however they
\* race (finish_tx and claim_tx find the attempt made).
THEOREM AttemptsFollowFailures == EffectsSpec => []OnlyFailedAttemptedAgain
<1>1. EffectsInv => OnlyFailedAttemptedAgain
  BY DEF EffectsInv, RowRight, OnlyFailedAttemptedAgain, Latest
<1> QED
  BY <1>1, EffectsInvariant, PTL
=============================================================================
