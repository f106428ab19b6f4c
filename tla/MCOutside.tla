------------------------------ MODULE MCOutside ------------------------------
(***************************************************************************)
(* Where oxplow meets the system it runs on: the changes of a worktree's   *)
(* files, and the processes of the terminals.  The two share no state and  *)
(* are checked side by side: which of them a behaviour is about is chosen  *)
(* as it begins.                                                           *)
(*                                                                         *)
(* A small worktree r: a holds b, which holds the file f; c is empty; the  *)
(* file g and the ignore file ig are in r itself.                          *)
(***************************************************************************)
EXTENDS FsWatch, TerminalSessions, TLC

CONSTANTS r, a, b, c, f, g, ig, w1, w2

VARIABLE part

MCParent == (a :> r) @@ (b :> a) @@ (c :> r) @@ (f :> b) @@ (g :> r) @@ (ig :> r)

\* Bound: c is there for the limit of watches, not where rules change.
CForLimit == c \in disk => "rules" \notin upset

MCInit == part \in {"watch", "terminal"} /\ Init /\ TerminalInit

MCNext ==
    \/ part = "watch" /\ Next /\ UNCHANGED <<part, terminalVars>>
    \/ part = "terminal" /\ TerminalNext /\ UNCHANGED <<part, vars>>

MCSpec == MCInit /\ [][MCNext]_<<part, vars, terminalVars>>
=============================================================================
