---------------------------- MODULE MCWritePrepared ----------------------------
(***************************************************************************)
(* Instances of WritePrepared for TLC.                                     *)
(***************************************************************************)
EXTENDS WritePrepared, TLC

CONSTANTS t1, r1, r2

(* Runs of the transaction t1 with the given life, of n direct writes by   *)
(* any of the others, and of the two readers.                              *)
Runs(queues, size, group, life, n, k1, k2) ==
    {[two_write_queues |-> queues, COMMIT_CACHE_SIZE |-> size, max_group |-> group,
      plan |-> [t \in Txns |-> IF t = t1 THEN life
                               ELSE IF t \in d THEN "direct" ELSE "none"],
      kind |-> [r \in Readers |-> IF r = r1 THEN k1 ELSE k2]] :
        d \in {d \in SUBSET (Txns \ {t1}) : Cardinality(d) = n}}

(* Two queues: commits, evictions and removals beside prepares.            *)
TwoQueues == Runs(TRUE, 1, 1, "2pc", 2, "snapshot", "none")
             \cup Runs(TRUE, 1, 1, "rollback", 1, "snapshot", "none")

(* One queue: four commits evict a commit before it is removed, groups     *)
(* evict commits that are not published, rollbacks commit two numbers.     *)
OneQueue == Runs(FALSE, 1, 1, "2pc", 3, "snapshot", "none")
            \cup Runs(FALSE, 1, 2, "2pc", 2, "snapshot", "none")
            \cup Runs(FALSE, 2, 2, "rollback", 2, "snapshot", "none")

(* Reads without a snapshot, alone and beside a snapshot that comes and    *)
(* goes.                                                                   *)
Unbacked == Runs(FALSE, 1, 2, "2pc", 2, "unbacked", "none")
            \cup Runs(FALSE, 1, 1, "none", 3, "unbacked", "holder")

Loads == TwoQueues \cup OneQueue \cup Unbacked

Symmetry == Permutations(Txns \ {t1})
=============================================================================
