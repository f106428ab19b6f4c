----------------------------- MODULE MCProcesses -----------------------------
(***************************************************************************)
(* Processes over one project's database.  The daemons that would serve it *)
(* keep each other out (ProjectDaemons); where the lock cannot be had for  *)
(* an error a daemon goes on without it, so the jobs must stand two        *)
(* dispatchers all the same (JobDispatch).  Which of the two a behaviour   *)
(* is about is chosen as it begins.                                        *)
(***************************************************************************)
EXTENDS MCJobDispatch, ProjectDaemons

VARIABLE part

MCInit == part \in {"jobs", "daemons"} /\ Init /\ DaemonsInit

MCNext ==
    \/ part = "jobs" /\ Next /\ UNCHANGED <<part, daemonVars>>
    \/ part = "daemons" /\ DaemonsNext /\ UNCHANGED <<part, vars>>

MCSpec == MCInit /\ [][MCNext]_<<part, vars, daemonVars>>
=============================================================================
