---------------------------- MODULE MCBackupQueue -----------------------------
(* A local recovery among rolling artifacts, or one class only.               *)
EXTENDS QueueRefinement

MCMixed == [a \in Artifact |-> IF a = 2 THEN "local" ELSE "rolling"]
MCRolling == [a \in Artifact |-> "rolling"]
MCLimit == [k \in Kind |-> IF k = "local" THEN 1 ELSE 2]
MCLimitOne == [k \in Kind |-> 1]
==============================================================================
