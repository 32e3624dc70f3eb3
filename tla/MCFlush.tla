------------------------------ MODULE MCFlush ------------------------------
(* Flush with two flush threads and the faults of a behaviour.             *)
EXTENDS Flush

Setup(max_flushes, memtables) ==
    [max_flushes |-> max_flushes, memtables |-> memtables, calls |-> 1,
     table |-> 0, manifest |-> 0, dummy |-> 0, wal |-> 0,
     kinds |-> ErrorKinds, close |-> TRUE, calm |-> TRUE]
Restless(max_flushes, memtables) ==
    [Setup(max_flushes, memtables) EXCEPT !.calm = FALSE, !.close = FALSE,
                                          !.kinds = {"retryable"}]

(* No fault, or the write of the log, a table file or the MANIFEST fails.  *)
OneFault == {Setup(2, 3), [Setup(2, 2) EXCEPT !.wal = 1],
             [Setup(1, 3) EXCEPT !.table = 1], [Setup(1, 3) EXCEPT !.manifest = 1]}

(* A commit fails while another job may be running.                        *)
ParallelFault == {[Restless(2, 3) EXCEPT !.manifest = 1]}

(* A second write fails during the recovery or after it.                   *)
TwoFaults ==
    {[Restless(1, 2) EXCEPT !.manifest = 1, !.dummy = 1],
     [Restless(1, 1) EXCEPT !.wal = 1, !.table = 1]}

Faults == OneFault \cup ParallelFault \cup TwoFaults
=============================================================================
