---------------------------- MODULE MCPointLock ----------------------------
(* Instances of PointLockManager for TLC: three transactions, three keys   *)
(* in two stripes.                                                         *)
EXTENDS PointLockManager

One == CHOOSE t \in Txns : TRUE
Two == CHOOSE t \in Txns : t # One
Wants(a, b, c) == [t \in Txns |-> IF t = One THEN a ELSE IF t = Two THEN b ELSE c]

Base ==
    [wants |-> Wants({1, 2}, {2, 3}, {1, 3}), stripe |-> [k \in Keys |-> k % 2],
     expiration |-> [t \in Txns |-> 0], timeout |-> "none", detect |-> Txns,
     depth |-> 5, max_num_locks |-> 0, readers |-> {}, batches |-> {},
     conflicts |-> FALSE, unvalidated |-> FALSE, two_phase |-> {},
     aborts |-> {}, commit_data |-> FALSE, write_fails |-> FALSE,
     ops |-> [t \in Txns |-> 2]]

(* Cycles of three exclusive locks.                                        *)
Cycles == Base
(* Shared locks and upgrades; holders join while others wait.              *)
Sharing == [Base EXCEPT !.wants = Wants({1}, {1, 2}, {1, 2}),
                        !.readers = Txns \ {Two}, !.ops[One] = 1]
(* One reader upgrades, and its snapshot may turn out too old.             *)
Upgrades == [Base EXCEPT !.wants = Wants({1}, {1, 2}, {}), !.readers = {One},
                         !.conflicts = TRUE, !.unvalidated = TRUE]
(* The same without patience: the downgrade may fail as well.              *)
Hasty == [Upgrades EXCEPT !.timeout = "zero"]
(* Expiring transactions that prepare, and batches.                        *)
Expiring == [Base EXCEPT !.wants = Wants({1, 2}, {1, 2}, {}),
                         !.expiration = [t \in Txns |-> 1],
                         !.two_phase = {One}, !.aborts = {One}, !.write_fails = TRUE,
                         !.commit_data = TRUE, !.batches = {{1, 2}}]
(* Batches against single locks, under a limit on the number of locks.     *)
Limited == [Base EXCEPT !.wants = Wants({1, 2}, {1, 2}, {}),
                        !.max_num_locks = 1, !.timeout = "some",
                        !.batches = {{1, 2}}, !.detect = {}, !.aborts = {One},
                        !.conflicts = TRUE]
Impatient == [Limited EXCEPT !.timeout = "zero", !.max_num_locks = 2]
LockSetups == {Cycles, Sharing, Upgrades, Hasty, Expiring, Limited, Impatient}
=============================================================================
