------------------------------ MODULE MCSeedRun ------------------------------
(***************************************************************************)
(* An administrator and one more user, two incidents, two runs.            *)
(***************************************************************************)
EXTENDS SeedRun

CONSTANTS staff, r1, r2

MCUsers == <<staff>>

DrawOf(moves, gap) ==
    [review |-> gap, reassign |-> 1, close |-> 1, moves |-> moves, reviewer |-> r1, other |-> r2]

\* A reassigned incident that is closed, and an open one.
MCPlanSets ==
    {[t \in Task |-> IF t = 1 THEN FillWorkflow("closed", 1, DrawOf(TRUE, 1)) ELSE OpenPlan(1)]}

Call(purge, seed, backfill, dry) ==
    [purge |-> purge, seed |-> seed, backfill |-> backfill, dry |-> dry]

MCModes == {Call(TRUE, TRUE, TRUE, FALSE), Call(FALSE, TRUE, FALSE, FALSE),
            Call(TRUE, FALSE, FALSE, FALSE), Call(TRUE, TRUE, TRUE, TRUE)}
=============================================================================
