---------------------------- MODULE MCJobDispatch ----------------------------
(* Small instances of JobDispatch for TLC.                                   *)
EXTENDS JobDispatch, TLC

CONSTANTS j1, j2, d1, d2, v1, v2

\* Dispatchers, and jobs, are interchangeable: nothing compares them except
\* with =.
Symmetry == Permutations(Dispatchers) \cup Permutations(Jobs)

\* Bound: two dispatchers race for one job, or one at a time works through two
\* jobs, in a shorter time.
JobsInUse == {j \in Jobs : job[j].state # "absent"}
Working == {d \in Dispatchers : Active(d) # {}}
OneOfThem ==
    \/ Cardinality(JobsInUse) <= 1
    \/ Cardinality(Working) <= 1 /\ now <= 2 /\ stepBacks = 0
=============================================================================
