---------------------------- MODULE MCWalFiles ----------------------------
(* WalFiles for TLC.  The column families may be exchanged, and the        *)
(* callers of SyncWAL.                                                     *)
EXTENDS WalFiles, TLC

Single(C) == {{c} : c \in C}

(* Two callers of SyncWAL beside writes with and without sync, in one      *)
(* column family.                                                          *)
Sync ==
    {[manual_wal_flush |-> FALSE, track_and_verify_wals_in_manifest |-> FALSE,
      families |-> {c}, syncers |-> Syncers, batches |-> {{c}},
      sync_batches |-> {{c}}, logs |-> 3, errors |-> 0, rollovers |-> 0] : c \in CFs}

(* Two column families and the logs in the MANIFEST, which is replaced.    *)
Tracked(n) ==
    {[manual_wal_flush |-> FALSE, track_and_verify_wals_in_manifest |-> TRUE,
      families |-> CFs, syncers |-> {s}, batches |-> Single(CFs),
      sync_batches |-> {}, logs |-> n, errors |-> 0, rollovers |-> 1] : s \in Syncers}

(* Four logs in one MANIFEST, and three with its replacement.              *)
SyncOrTracked ==
    Sync \cup {[s EXCEPT !.rollovers = 0] : s \in Tracked(4)} \cup Tracked(3)
FiveTracked == Tracked(5)

(* manual_wal_flush and an I/O error.                                      *)
Manual ==
    {[manual_wal_flush |-> TRUE, track_and_verify_wals_in_manifest |-> FALSE,
      families |-> CFs, syncers |-> Syncers, batches |-> {CFs},
      sync_batches |-> {CFs}, logs |-> 2, errors |-> 1, rollovers |-> 0]}

Symmetry == Permutations(CFs) \cup Permutations(Syncers)

(* Only a SyncWAL about to update the MANIFEST is overtaken by others, and *)
(* it starts before, and the first purge after, the MANIFEST is replaced.  *)
OneAtATime ==
    /\ Cardinality({p \in Threads : pc[p] \notin {"idle", "apply"}}) <= 1
    /\ \A p \in Syncers : pc[p] \notin {"idle", "apply"} => rollovers = 0
    /\ \A p \in Purgers : pc[p] # "idle" => rollovers > 0
=============================================================================
