---------------------------- MODULE SuperVersion ----------------------------
(***************************************************************************)
(* Reads of one column family beside writes, memtable switches, flushes    *)
(* and compactions: the SuperVersion a read pins, its thread-local cache   *)
(* (ColumnFamilyData, ThreadLocalPtr), snapshots, and the versions of a    *)
(* key that flushes and compactions drop (CompactionIterator).             *)
(*                                                                         *)
(* There is one user key.  Write number v puts or deletes it with sequence *)
(* number v; a memtable or a table file is a set of entries, an entry the  *)
(* write it holds and the sequence number stored with it.  Swap, compare-  *)
(* and-swap, each exchange of a Scrape and each change of a reference      *)
(* count are atomic and take no lock.  The DB mutex is held from the start *)
(* of InstallSuperVersion to its end, and every other step under it is one *)
(* action.                                                                 *)
(***************************************************************************)
EXTENDS Integers, Sequences, FiniteSets, Functions

CONSTANTS
    Readers,        \* threads that read
    Deletes,        \* the writes that delete the key; the others put it
    Bounds          \* how much happens in a behaviour: see BoundType

(* The writes, memtable switches, Gets, iterators and snapshots.           *)
BoundType ==
    [writes : Nat, switches : Nat, gets : Nat, iterators : Nat, snapshots : Nat]
ASSUME BoundAssumption == Bounds \subseteq BoundType /\ Deletes \subseteq Nat
ASSUME ReadersAssumption == IsFiniteSet(Readers)

kSVObsolete == 0
kSVInUse == -1
NoSnapshot == -1

VARIABLES
    inserted,       \* the newest write in the memtable
    published,      \* LastSequence, what a new read may see
    tables,         \* the memtables ever made; the last one is active
    imm,            \* the immutable ones not flushed yet, oldest first
    current,        \* the current version: its table files, newest first
    svs,            \* the SuperVersions ever made
    super_version,  \* the installed one
    local_sv,       \* the thread-local pointers
    install,        \* the InstallSuperVersion that holds the DB mutex
    flush,          \* the flush job
    compaction,     \* the compaction job
    snapshots,      \* SnapshotList: the sequence numbers of live snapshots
    iterators,      \* the iterator each thread has open
    reader,         \* the call each thread is in
    bound,          \* the bounds of this behaviour
    left            \* what of them may still happen

dataVars == <<inserted, published, tables, imm, current>>
jobVars == <<flush, compaction>>
budget == <<bound, left>>
vars == <<dataVars, svs, super_version, local_sv, install, jobVars, snapshots,
          iterators, reader, budget>>

NoInstall == [old |-> 0, todo |-> {}, scraped |-> 0, writer |-> FALSE]
NoFlush == [at |-> "idle", snaps |-> {}, max_memtable_id |-> 0, mems |-> << >>]
NoCompaction == [at |-> "idle", snaps |-> {}, inputs |-> 0]
NoRead == [sv |-> 0, snapshot |-> NoSnapshot, explicit |-> FALSE,
           floor |-> 0, first |-> 0]
Idle == [at |-> "idle", read |-> NoRead]

(* SuperVersion::Init, and what Cleanup leaves of one.                     *)
NewSuperVersion(m, i, c) == [mem |-> m, imm |-> i, current |-> c, refs |-> 1]
Freed == [mem |-> 0, imm |-> << >>, current |-> << >>, refs |-> 0]

Init ==
    /\ inserted = 0 /\ published = 0
    /\ tables = <<{}>> /\ imm = << >> /\ current = << >>
    /\ svs = <<NewSuperVersion(1, << >>, << >>)>> /\ super_version = 1
    /\ local_sv = [t \in Readers |-> kSVObsolete]
    /\ install = NoInstall
    /\ flush = NoFlush /\ compaction = NoCompaction
    /\ snapshots = {}
    /\ iterators = [t \in Readers |-> NoRead]
    /\ reader = [t \in Readers |-> Idle]
    /\ bound \in Bounds
    /\ left = bound

MutexFree == install.old = 0
----------------------------------------------------------------------------
(* InstallSuperVersion up to ResetThreadLocalSuperVersions.                *)
InstallSuperVersion(m, i, c, writer) ==
    /\ svs' = Append(svs, NewSuperVersion(m, i, c))
    /\ super_version' = Len(svs')
    /\ install' = [old |-> super_version, todo |-> Readers, scraped |-> 0,
                   writer |-> writer]

(* ThreadLocalPtr::Scrape takes the pointer of one thread.  Every pointer  *)
(* it finds is the old SuperVersion's, so they are counted.                *)
Scrape(t) ==
    /\ t \in install.todo
    /\ install' = [install EXCEPT !.todo = @ \ {t},
                    !.scraped = IF local_sv[t] > 0 THEN @ + 1 ELSE @]
    /\ local_sv' = [local_sv EXCEPT ![t] = kSVObsolete]
    /\ UNCHANGED <<dataVars, svs, super_version, jobVars, snapshots, iterators,
                   reader, budget>>

(* The scraped references and super_version_'s own are dropped.            *)
InstallDone ==
    LET old == install.old
        refs == svs[old].refs - install.scraped - 1
    IN
    /\ ~MutexFree /\ install.todo = {}
    /\ svs' = [svs EXCEPT ![old] = IF refs = 0 THEN Freed
                                   ELSE [@ EXCEPT !.refs = refs]]
    /\ install' = NoInstall
    /\ UNCHANGED <<dataVars, super_version, local_sv, jobVars, snapshots,
                   iterators, reader, budget>>
----------------------------------------------------------------------------
(* A write goes to the active memtable and is published afterwards.        *)
Insert ==
    LET v == inserted + 1
    IN
    /\ inserted = published /\ inserted < bound.writes /\ ~install.writer
    /\ inserted' = v
    /\ tables' = [tables EXCEPT ![Len(tables)] = @ \cup {[v |-> v, seq |-> v]}]
    /\ UNCHANGED <<published, imm, current, svs, super_version, local_sv,
                   install, jobVars, snapshots, iterators, reader, budget>>
SetLastSequence ==
    /\ published < inserted
    /\ published' = inserted
    /\ UNCHANGED <<inserted, tables, imm, current, svs, super_version,
                   local_sv, install, jobVars, snapshots, iterators, reader,
                   budget>>

(* SwitchMemtable, by the leader of the write thread: no write is under    *)
(* way, and none begins before the installation is done.                   *)
SwitchMemtable ==
    /\ MutexFree /\ inserted = published
    /\ tables[Len(tables)] # {} /\ Len(tables) <= bound.switches
    /\ imm' = Append(imm, Len(tables))
    /\ tables' = Append(tables, {})
    /\ InstallSuperVersion(Len(tables'), imm', current, TRUE)
    /\ UNCHANGED <<inserted, published, current, local_sv, jobVars, snapshots,
                   iterators, reader, budget>>
----------------------------------------------------------------------------
(* findEarliestVisibleSnapshot as a set: empty for kMaxSequenceNumber.     *)
EarliestVisible(seq, snaps) ==
    {s \in snaps : seq <= s /\ \A r \in snaps : seq <= r => s <= r}

(* Rule (A): an entry is dropped if a newer one has the same earliest      *)
(* snapshot.                                                               *)
RuleA(in, snaps) ==
    {e \in in : ~\E d \in in : e.seq < d.seq
            /\ EarliestVisible(e.seq, snaps) = EarliestVisible(d.seq, snaps)}

(* At the bottommost level a delete goes too if the earliest snapshot sees *)
(* it, or if no older entry is left in an earlier snapshot; and an entry   *)
(* the earliest snapshot sees loses its sequence number (PrepareOutput).   *)
InEarliest(e, snaps) == \A s \in snaps : e.seq <= s
ObsoleteDelete(e, in, snaps) ==
    /\ e.v \in Deletes
    /\ \/ InEarliest(e, snaps)
       \/ ~\E d \in in, s \in snaps \ {0} : d.seq <= s /\ s < e.seq
BottommostOutput(in, snaps) ==
    {IF InEarliest(e, snaps) THEN [e EXCEPT !.seq = 0] ELSE e :
        e \in {e \in RuleA(in, snaps) : ~ObsoleteDelete(e, in, snaps)}}

(* FlushMemTablesToOutputFiles takes the list of snapshots.  With several  *)
(* column families FlushMemTableToOutputFile notes the newest memtable and *)
(* releases the mutex to sync the closed logs before it picks; with one it *)
(* picks at once, a case of the former.                                    *)
BeginFlush ==
    /\ MutexFree
    /\ flush.at = "idle" /\ imm # << >>
    /\ flush' = [at |-> "sync", snaps |-> snapshots,
                 max_memtable_id |-> imm[Len(imm)], mems |-> << >>]
    /\ UNCHANGED <<dataVars, svs, super_version, local_sv, install, compaction,
                   snapshots, iterators, reader, budget>>
PickAllMemTables ==    \* mutated: max_memtable_id is not used
    /\ MutexFree
    /\ flush.at = "sync"
    /\ flush' = [flush EXCEPT !.at = "write", !.mems = imm]
    /\ UNCHANGED <<dataVars, svs, super_version, local_sv, install, compaction,
                   snapshots, iterators, reader, budget>>
PickMemTable ==
    /\ MutexFree
    /\ flush.at = "sync"
    /\ flush' = [flush EXCEPT !.at = "write",
            !.mems = SelectSeq(imm, LAMBDA m : m <= flush.max_memtable_id)]
    /\ UNCHANGED <<dataVars, svs, super_version, local_sv, install, compaction,
                   snapshots, iterators, reader, budget>>
InstallFlush ==
    LET picked == Range(flush.mems)
    IN
    /\ MutexFree
    /\ flush.at = "write"
    /\ current' = <<RuleA(UNION {tables[m] : m \in picked}, flush.snaps)>>
                  \o current
    /\ imm' = SelectSeq(imm, LAMBDA m : m \notin picked)
    /\ flush' = NoFlush
    /\ InstallSuperVersion(Len(tables), imm', current', FALSE)
    /\ UNCHANGED <<inserted, published, tables, local_sv, compaction,
                   snapshots, iterators, reader, budget>>

(* BackgroundCompaction, of all the files there are when it is picked into *)
(* the bottommost level.                                                   *)
BeginCompaction ==
    /\ MutexFree
    /\ compaction.at = "idle" /\ Len(current) > 1
    /\ compaction' = [at |-> "run", snaps |-> snapshots,
                      inputs |-> Len(current)]
    /\ UNCHANGED <<dataVars, svs, super_version, local_sv, install, flush,
                   snapshots, iterators, reader, budget>>
InstallCompaction ==
    LET newer == Len(current) - compaction.inputs
        in == UNION Range(SubSeq(current, newer + 1, Len(current)))
    IN
    /\ MutexFree
    /\ compaction.at = "run"
    /\ current' = SubSeq(current, 1, newer)
                  \o <<BottommostOutput(in, compaction.snaps)>>
    /\ compaction' = NoCompaction
    /\ InstallSuperVersion(Len(tables), imm, current', FALSE)
    /\ UNCHANGED <<inserted, published, tables, imm, local_sv, flush,
                   snapshots, iterators, reader, budget>>
----------------------------------------------------------------------------
GetSnapshot ==
    /\ MutexFree /\ left.snapshots > 0
    /\ snapshots' = snapshots \cup {published}
    /\ left' = [left EXCEPT !.snapshots = @ - 1]
    /\ UNCHANGED <<dataVars, svs, super_version, local_sv, install, jobVars,
                   iterators, reader, bound>>

(* ReleaseSnapshot, of one that no call is reading with.                   *)
ReleaseSnapshot(s) ==
    /\ MutexFree
    /\ \A t \in Readers : reader[t].read.explicit => reader[t].read.snapshot # s
    /\ snapshots' = snapshots \ {s}
    /\ UNCHANGED <<dataVars, svs, super_version, local_sv, install, jobVars,
                   iterators, reader, budget>>

(* Thread t goes on to at in a read r.                                     *)
Goes(t, at, r) == reader' = [reader EXCEPT ![t] = [at |-> at, read |-> r]]

(* GetThreadLocalSuperVersion, for a Get or for NewIterator: the exchange, *)
(* then the mutex if there was nothing cached.                             *)
After(op) == IF op = "gets" THEN "got" ELSE "pinning"
Swap(t, op, s) ==
    LET r == [NoRead EXCEPT !.sv = local_sv[t], !.floor = published,
                            !.snapshot = s, !.explicit = s # NoSnapshot]
    IN
    /\ reader[t].at = "idle"
    /\ left[op] > 0
    /\ op = "iterators" => iterators[t] = NoRead
    /\ local_sv' = [local_sv EXCEPT ![t] = kSVInUse]
    /\ Goes(t, IF local_sv[t] = kSVObsolete THEN op ELSE After(op), r)
    /\ left' = [left EXCEPT ![op] = @ - 1]
    /\ UNCHANGED <<dataVars, svs, super_version, install, jobVars, snapshots,
                   iterators, bound>>
RefSuperVersion(t) ==
    /\ reader[t].at \in {"gets", "iterators"}
    /\ MutexFree
    /\ svs' = [svs EXCEPT ![super_version].refs = @ + 1]
    /\ Goes(t, After(reader[t].at), [reader[t].read EXCEPT !.sv = super_version])
    /\ UNCHANGED <<dataVars, super_version, local_sv, install, jobVars,
                   snapshots, iterators, budget>>

(* GetReferencedSuperVersion takes the iterator's own reference.           *)
PinWithoutRef(t) ==    \* mutated: sv->Ref() is missing
    /\ reader[t].at = "pinning"
    /\ Goes(t, "pinned", reader[t].read)
    /\ UNCHANGED <<dataVars, svs, super_version, local_sv, install, jobVars,
                   snapshots, iterators, budget>>
PinSuperVersion(t) ==
    /\ reader[t].at = "pinning"
    /\ svs' = [svs EXCEPT ![reader[t].read.sv].refs = @ + 1]
    /\ Goes(t, "pinned", reader[t].read)
    /\ UNCHANGED <<dataVars, super_version, local_sv, install, jobVars,
                   snapshots, iterators, budget>>

(* ReturnThreadLocalSuperVersion: the exchange finds kSVInUse, or a Scrape *)
(* has come in between and the caller drops the cached reference.  The     *)
(* last reference of all is followed by Cleanup, under the mutex.          *)
Returned(t) == reader[t].at \in {"pinned", "read"}
AfterReturn(t, last) ==
    IF reader[t].at = "pinned" THEN Goes(t, "opening", reader[t].read)
    ELSE IF last THEN Goes(t, "cleanup", [NoRead EXCEPT !.sv = reader[t].read.sv])
    ELSE Goes(t, "idle", NoRead)
ReturnByStore(t) ==    \* mutated: a store, not a compare-and-swap
    /\ Returned(t)
    /\ local_sv' = [local_sv EXCEPT ![t] = reader[t].read.sv]
    /\ AfterReturn(t, FALSE)
    /\ UNCHANGED <<dataVars, svs, super_version, install, jobVars, snapshots,
                   iterators, budget>>
ReturnCached(t) ==
    /\ Returned(t) /\ local_sv[t] = kSVInUse
    /\ local_sv' = [local_sv EXCEPT ![t] = reader[t].read.sv]
    /\ AfterReturn(t, FALSE)
    /\ UNCHANGED <<dataVars, svs, super_version, install, jobVars, snapshots,
                   iterators, budget>>
ReturnStaleKept(t) ==    \* mutated: the caller forgets the reference
    /\ Returned(t) /\ local_sv[t] = kSVObsolete
    /\ AfterReturn(t, FALSE)
    /\ UNCHANGED <<dataVars, svs, super_version, local_sv, install, jobVars,
                   snapshots, iterators, budget>>
ReturnStale(t) ==
    LET sv == reader[t].read.sv
    IN
    /\ Returned(t) /\ local_sv[t] = kSVObsolete
    /\ svs' = [svs EXCEPT ![sv].refs = @ - 1]
    /\ AfterReturn(t, svs[sv].refs = 1)
    /\ UNCHANGED <<dataVars, super_version, local_sv, install, jobVars,
                   snapshots, iterators, budget>>

(* CleanupSuperVersion, CleanupSuperVersionHandle.                         *)
CloseIterator(t) ==
    LET sv == iterators[t].sv
    IN
    /\ reader[t].at = "idle" /\ sv > 0
    /\ svs' = [svs EXCEPT ![sv].refs = @ - 1]
    /\ iterators' = [iterators EXCEPT ![t] = NoRead]
    /\ IF svs[sv].refs = 1 THEN Goes(t, "cleanup", [NoRead EXCEPT !.sv = sv])
       ELSE UNCHANGED reader
    /\ UNCHANGED <<dataVars, super_version, local_sv, install, jobVars,
                   snapshots, budget>>
Cleanup(t) ==
    /\ reader[t].at = "cleanup" /\ MutexFree
    /\ svs' = [svs EXCEPT ![reader[t].read.sv] = Freed]
    /\ Goes(t, "idle", NoRead)
    /\ UNCHANGED <<dataVars, super_version, local_sv, install, jobVars,
                   snapshots, iterators, budget>>

(* OnThreadExit and SuperVersionUnrefHandle, under the mutex that Scrape   *)
(* holds; the id then stands for a new thread.                             *)
ThreadExit(t) ==
    /\ reader[t].at = "idle" /\ local_sv[t] > 0 /\ install.todo = {}
    /\ svs' = [svs EXCEPT ![local_sv[t]].refs = @ - 1]
    /\ local_sv' = [local_sv EXCEPT ![t] = kSVObsolete]
    /\ UNCHANGED <<dataVars, super_version, install, jobVars, snapshots,
                   iterators, reader, budget>>
----------------------------------------------------------------------------
(* What a read finds: a Get stops at the first place with a visible entry, *)
(* an iterator merges them all.                                            *)
Value(v) == IF v \in Deletes THEN 0 ELSE v
Places(sv) ==
    LET S == svs[sv]
    IN  <<tables[S.mem]>> \o [i \in DOMAIN S.imm |->
                                tables[S.imm[Len(S.imm) + 1 - i]]] \o S.current
Newest(es) ==
    IF es = {} THEN 0
    ELSE Value((CHOOSE e \in es : \A d \in es : d.seq <= e.seq).v)
Visible(es, snapshot) == {e \in es : e.seq <= snapshot}
Get(sv, snapshot) ==
    LET P == Places(sv)
        hits == {i \in DOMAIN P : Visible(P[i], snapshot) # {}}
    IN  IF hits = {} THEN 0
        ELSE Newest(Visible(P[CHOOSE i \in hits : \A j \in hits : i <= j],
                            snapshot))
Iterate(sv, snapshot) == Newest(Visible(UNION Range(Places(sv)), snapshot))

(* GetImpl and NewIteratorImpl: a read that was given no snapshot takes   *)
(* one after the SuperVersion.                                             *)
ChooseSnapshot(t) ==
    [reader[t].read EXCEPT !.snapshot = IF reader[t].read.explicit THEN @
                                        ELSE published]
GetImpl(t) ==
    /\ reader[t].at = "got"
    /\ Goes(t, "read", ChooseSnapshot(t))
    /\ UNCHANGED <<dataVars, svs, super_version, local_sv, install, jobVars,
                   snapshots, iterators, budget>>
NewIteratorImpl(t) ==
    LET r == ChooseSnapshot(t)
    IN
    /\ reader[t].at = "opening"
    /\ iterators' = [iterators EXCEPT ![t] =
                        [r EXCEPT !.first = Iterate(r.sv, r.snapshot)]]
    /\ Goes(t, "idle", NoRead)
    /\ UNCHANGED <<dataVars, svs, super_version, local_sv, install, jobVars,
                   snapshots, budget>>

Read(t) ==
    \/ \E op \in {"gets", "iterators"}, s \in snapshots \cup {NoSnapshot} :
          Swap(t, op, s)
    \/ RefSuperVersion(t) \/ PinSuperVersion(t)
    \/ ReturnCached(t) \/ ReturnStale(t)
    \/ GetImpl(t) \/ NewIteratorImpl(t)
    \/ CloseIterator(t) \/ Cleanup(t) \/ ThreadExit(t)

Next ==
    \/ Insert \/ SetLastSequence \/ SwitchMemtable
    \/ BeginFlush \/ PickMemTable \/ InstallFlush
    \/ BeginCompaction \/ InstallCompaction
    \/ InstallDone
    \/ GetSnapshot \/ \E s \in snapshots : ReleaseSnapshot(s)
    \/ \E t \in Readers : Scrape(t) \/ Read(t)

Spec == Init /\ [][Next]_vars
----------------------------------------------------------------------------
Holding == {"got", "pinning", "pinned", "opening", "read"}

(* Who may still use SuperVersion sv: a read, an iterator, the cache of a  *)
(* thread, or the column family.                                           *)
Users(sv) ==
    {t \in Readers : \/ reader[t].at \in Holding /\ reader[t].read.sv = sv
                     \/ iterators[t].sv = sv
                     \/ local_sv[t] = sv}
InstalledOrOld(sv) == sv \in {super_version, install.old}

(* A SuperVersion is not cleaned up, and so its memtables and files are    *)
(* not freed, while a Get or an iterator may use it or a thread has it     *)
(* cached; and a thread that gives up a cached one, as OnThreadExit and    *)
(* Scrape do with no way to clean up, never drops its last reference (the  *)
(* assert(!was_last_ref) of SuperVersionUnrefHandle).                      *)
NoUseAfterFree ==
    /\ \A sv \in DOMAIN svs :
          Users(sv) # {} \/ InstalledOrOld(sv) => svs[sv].refs > 0
    /\ \A t \in Readers : local_sv[t] > 0 => svs[local_sv[t]].refs > 1

(* A SuperVersion that no read, iterator, cache or column family refers to *)
(* has been cleaned up, or somebody is about to: a reader that lost the    *)
(* compare-and-swap to a Scrape does not leave its memtables and files     *)
(* pinned for ever.                                                        *)
NoLeak ==
    \A sv \in DOMAIN svs :
        \/ svs[sv] = Freed
        \/ Users(sv) # {} \/ InstalledOrOld(sv)
        \/ \E t \in Readers : reader[t].at = "cleanup" /\ reader[t].read.sv = sv

(* A Get, or an iterator, that is given a snapshot finds exactly the value *)
(* the key had when the snapshot was taken, whatever was flushed and       *)
(* compacted since and whenever that began; and an iterator that made its  *)
(* own snapshot finds the same value as long as it is open.                *)
SnapshotReadsExact ==
    \A t \in Readers :
        /\ reader[t].at = "read" /\ reader[t].read.explicit
           => LET r == reader[t].read
              IN  Get(r.sv, r.snapshot) = Value(r.snapshot)
        /\ iterators[t].sv > 0
           => LET r == iterators[t]
              IN  /\ Iterate(r.sv, r.snapshot) = r.first
                  /\ r.explicit => r.first = Value(r.snapshot)

(* A Get or an iterator without a snapshot finds a value the key had at    *)
(* some time since the call began: every write acknowledged before the     *)
(* call is seen, from a cached SuperVersion too.                           *)
SeesLatest(r, found) ==
    r.explicit \/ \E v \in r.floor..r.snapshot : found = Value(v)
ReadSeesLatest ==
    \A t \in Readers :
        /\ reader[t].at = "read"
           => LET r == reader[t].read
              IN  SeesLatest(r, Get(r.sv, r.snapshot))
        /\ iterators[t].sv > 0 => SeesLatest(iterators[t], iterators[t].first)
=============================================================================
