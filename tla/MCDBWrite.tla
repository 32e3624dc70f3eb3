----------------------------- MODULE MCDBWrite -----------------------------
(* Instances of DBWrite for TLC.                                           *)
EXTENDS DBWrite, TLC

Put == [NoRequest EXCEPT !.batch = TRUE, !.count = 1, !.size = 1]
PutSync == [Put EXCEPT !.sync = TRUE]
PutNoSlowdown == [Put EXCEPT !.no_slowdown = TRUE]
PutNoWal == [Put EXCEPT !.disable_wal = TRUE]
PutTwo == [Put EXCEPT !.count = 2, !.size = 8]
PutEmptySync == [PutSync EXCEPT !.count = 0]
PutBad == [PutTwo EXCEPT !.bad = 2]
Merge == [Put EXCEPT !.merge = TRUE]
PutConditional == [Put EXCEPT !.callback = "fail"]
PutAlone == [Put EXCEPT !.callback = "nobatch"]
LogOnly == [Put EXCEPT !.disable_memtable = TRUE]

Grouping == {PutSync, PutNoWal, PutBad}
Stalling == {Put, PutNoSlowdown}
Failing == {PutSync, PutBad}
Mixed == {PutTwo, Merge, PutConditional}
Empty == {PutTwo, PutEmptySync}
Skipping == {PutTwo, LogOnly}
Refused == {PutConditional, LogOnly}
Alone == {Put, PutAlone}
Unordered == {PutSync, PutBad, PutConditional}

Load(requests, pipelined, concurrent) ==
    [requests |-> requests, concurrent |-> concurrent, pipelined |-> pipelined,
     unordered |-> FALSE, writers |-> Threads, unbatched |-> {}, lockers |-> {}, stops |-> FALSE,
     stalls |-> 0, io_errors |-> 0, switches |-> 0]
One == {CHOOSE t \in Threads : TRUE}
Two == One \cup {CHOOSE t \in Threads \ One : TRUE}

(* The loads of a run: groups that differ in what they ask for, stalls     *)
(* that follow each other, locks of the WAL, log writes that fail,         *)
(* memtable switches, batches that cannot be inserted (with serial inserts *)
(* all of them, so that the first keeps the others out of the memtable).   *)
GroupLoads ==
    <<Load(Grouping, FALSE, TRUE),
      [Load(Stalling, FALSE, TRUE) EXCEPT !.stops = TRUE, !.stalls = 2],
      [Load(Stalling, FALSE, TRUE) EXCEPT !.lockers = Threads, !.stalls = 2,
                                          !.unbatched = Threads],
      [Load({Put}, TRUE, TRUE) EXCEPT !.lockers = Threads],
      [Load(Mixed, FALSE, TRUE) EXCEPT !.io_errors = 1],
      [Load(Empty, FALSE, TRUE) EXCEPT !.io_errors = 1]>>
PipelinedLoads ==
    <<[Load({PutTwo}, TRUE, TRUE) EXCEPT !.switches = 1],
      Load(Failing, TRUE, TRUE),
      [Load({PutBad}, TRUE, FALSE) EXCEPT !.io_errors = 1],
      Load(Skipping, TRUE, FALSE),
      [Load(Refused, TRUE, FALSE) EXCEPT !.unbatched = Threads],
      [Load({PutConditional}, TRUE, FALSE) EXCEPT !.io_errors = 1]>>
FairLoads ==
    <<[Load(Alone, TRUE, TRUE) EXCEPT !.writers = Two, !.unbatched = One,
           !.stops = TRUE, !.stalls = 1, !.io_errors = 1, !.switches = 1],
      [Load(Unordered, FALSE, TRUE) EXCEPT !.unordered = TRUE, !.writers = Two,
           !.unbatched = One, !.lockers = One, !.stalls = 1, !.io_errors = 1,
           !.switches = 1],
      [Load({Put}, FALSE, TRUE) EXCEPT !.unordered = TRUE, !.writers = Two,
           !.unbatched = Threads \ Two, !.switches = 1]>>
Symmetry == Permutations(Threads)
=============================================================================
