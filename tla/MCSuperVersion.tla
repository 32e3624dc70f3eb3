--------------------------- MODULE MCSuperVersion ---------------------------
(* SuperVersion for TLC.                                                   *)
EXTENDS SuperVersion, TLC

Symmetry == Permutations(Readers)

Bound(w, s, g, i, n) ==
    [writes |-> w, switches |-> s, gets |-> g, iterators |-> i, snapshots |-> n]

(* The cache: Gets and an iterator of two threads beside a switch and a    *)
(* flush.                                                                  *)
Caching == Bound(2, 1, 3, 1, 0)
(* Versions of the key: two snapshots between three writes, two files and  *)
(* their compaction, read by a Get or by an iterator.                      *)
GetHistory == Bound(3, 2, 1, 0, 2)
IteratorHistory == Bound(3, 2, 0, 1, 2)

Loads == {Caching, GetHistory, IteratorHistory}
=============================================================================
