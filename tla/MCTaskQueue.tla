---------------------------- MODULE MCTaskQueue ----------------------------
(* Small instances of TaskQueue for TLC. *)
EXTENDS TaskQueue, TLC

CONSTANTS r1, r2, r3, q1, q2, t1, t2, prune, archive

MCPriority == [k \in Keys |-> IF k = prune THEN -20 ELSE 0]

DrainSymmetry  == Permutations(Runners \ ManualRunners) \cup Permutations(TaskIds) \cup Permutations(Requests)
=============================================================================
