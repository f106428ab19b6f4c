---------------------------- MODULE MCEventPump ----------------------------
(* Small instances of EventPump for TLC.  p is a projection (sync), a and  *)
(* b are async consumers, x and y are event types.                         *)
EXTENDS EventPump, TLC

CONSTANTS p, a, b, x, y, r1, r2

OneSync == <<p>>

\* One type, which the async consumers handle; b waits for a and for p.
HandlesAB == p :> {} @@ a :> {x} @@ b :> {x}
AfterBoth == a :> (x :> {}) @@ b :> (x :> {a, p})

\* Two types; b waits for a on x and for p on y.
HandlesByType == p :> {y} @@ a :> {x} @@ b :> {x, y}
AfterByType == a :> (x :> {} @@ y :> {}) @@ b :> (x :> {a} @@ y :> {p})

\* p and a handle everything and wait for nobody.
HandlesAll == p :> {x, y} @@ a :> {x, y}
AfterNobody == a :> (x :> {} @@ y :> {})

SettleB == {{b}}
NoSettles == {}

\* Bound: what a person does to dead letters, and the second async consumer,
\* each with everything else but not with each other; one payload expires.
Untouched(c) == slot[c] = IdleSlot /\ checkpoint[c] = 0
LettersUntouched ==
    /\ discards = 0
    /\ \A r \in Retriers : retry[r] = IdleRetry
    /\ \A c \in Consumers, s \in Seqs : letter[c][s] # "retried"
LettersOrB ==
    /\ LettersUntouched \/ Untouched(b)
    /\ Cardinality({s \in DOMAIN log : log[s].expired}) <= 1
=============================================================================
