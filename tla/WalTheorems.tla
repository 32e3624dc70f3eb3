---------------------------- MODULE WalTheorems -----------------------------
(***************************************************************************)
(* The safety of WalFiles, for any number of column families, threads and  *)
(* logs.                                                                   *)
(***************************************************************************)
EXTENDS WalFilesProofs, WalDurableProofs, WalTrackingProofs, WellFoundedInduction

(* LeastExists, from the well-foundedness of the numbers.                  *)
LEMMA LeastOfNumbers == LeastExists
<1> SUFFICES ASSUME NEW S, S \subseteq Nat, S # {}
             PROVE  Least(S) \in S /\ \A m \in S : Least(S) <= m
  BY Zenon DEF LeastExists
<1>1. \E x \in S : \A y \in S : ~(<<y, x>> \in OpToRel(<, Nat))
  BY NatLessThanWellFounded, WFMin, Zenon
<1>2. OpToRel(<, Nat) = {ss \in Nat \X Nat : ss[1] < ss[2]}
  BY Zenon DEF OpToRel
<1>3. \E x \in S : \A y \in S : x <= y
  <2>1. PICK x \in S : \A y \in S : ~(<<y, x>> \in {ss \in Nat \X Nat : ss[1] < ss[2]})
    BY <1>1, <1>2, Zenon
  <2>2. \A y \in S : ~(y < x)
    BY <2>1, Zenon
  <2> QED
    BY <2>2
<1> QED
  BY <1>3, Zenon DEF Least

(* Every variable keeps its type, for every value of the constants: what   *)
(* logs_, LogWriterNumber, WalSet and the locals of the calls may hold.    *)
THEOREM KeepsTypes == Spec => []TypeOK
<1> DEFINE Inv == TypeOK /\ Places /\ FlushJob
<1>1. Init => Inv
  BY InitType, InitKept
<1>2. Inv /\ [Next]_vars => Inv'
  BY LeastOfNumbers, StepType, StepFlushJob
<1> QED
  BY <1>1, <1>2, PTL DEF Spec

(* No log with a record that is in no SST file is ever deleted or skipped  *)
(* by recovery, for any number of column families, logs, threads that sync *)
(* and purgers: FindObsoleteFiles works from a min_log_number_to_keep that *)
(* PrecomputeMinLogNumberToKeepNon2PC computed before the installation,    *)
(* while writes and memtable switches went on.                             *)
THEOREM KeepsUnflushedData == Spec => []UnflushedDataIsKept
<1>1. Init => TypeOK /\ Places /\ FlushJob /\ Kept
  BY InitType, InitKept
<1>2. TypeOK /\ Places /\ FlushJob /\ Kept /\ [Next]_vars => (TypeOK /\ Places /\ FlushJob /\ Kept)'
  BY LeastOfNumbers, StepType, StepFlushJob, StepKept
<1> QED
  BY <1>1, <1>2, KeptSuffices, PTL DEF Spec

(* The getting_synced protocol of SyncWAL, a write with sync and           *)
(* SyncClosedLogs holds for any number of threads: the asserts of          *)
(* PrepareForSync, MarkLogsSynced and FindObsoleteFiles never fail and no  *)
(* log::Writer is freed under a sync.                                      *)
THEOREM KeepsSyncProtocol == Spec => []SyncProtocol
<1> DEFINE Inv == TypeOK /\ Places /\ FlushJob /\ Kept /\ Protocol
<1>1. Init => Inv
  BY InitType, InitKept, InitProtocol
<1>2. Inv /\ [Next]_vars => Inv'
  BY LeastOfNumbers, StepType, StepFlushJob, StepKept, StepProtocol
<1>3. Inv => SyncProtocol
  BY ProtocolSuffices
<1> QED
  BY <1>1, <1>2, <1>3, PTL DEF Spec

(* Whatever SyncWAL, FlushWAL(true) or a write with sync promised when it  *)
(* returned OK survives a crash at any later time, I/O errors and the      *)
(* three ways to sync at once included.                                    *)
THEOREM KeepsAckedDurable == Spec => []AckedIsDurable
<1> DEFINE Inv == TypeOK /\ Places /\ FlushJob /\ Kept /\ Protocol /\ Durable
<1>1. Init => Inv
  BY InitType, InitKept, InitProtocol, InitDurable
<1>2. Inv /\ [Next]_vars => Inv'
  BY LeastOfNumbers, StepType, StepFlushJob, StepKept, StepProtocol, StepDurable
<1>3. Inv => AckedIsDurable
  BY DurableSuffices
<1> QED
  BY <1>1, <1>2, <1>3, PTL DEF Spec

(* A flush of one of several column families is installed only when the    *)
(* logs before the current one, from which its memtables may have come,    *)
(* are synced, and they stay so.                                           *)
THEOREM KeepsFlushedBacked == Spec => []FlushedIsBacked
<1> DEFINE Inv == TypeOK /\ Places /\ FlushJob /\ Kept /\ Protocol /\ Durable /\ Backed
<1>1. Init => Inv
  BY InitType, InitKept, InitProtocol, InitDurable, InitBacked
<1>2. Inv /\ [Next]_vars => Inv'
  BY LeastOfNumbers, StepType, StepFlushJob, StepKept, StepProtocol, StepDurable, StepBacked
<1>3. Inv => FlushedIsBacked
  BY BackedSuffices
<1> QED
  BY <1>1, <1>2, <1>3, PTL DEF Spec

(* With one MANIFEST, CheckWals succeeds after a crash at any time: every  *)
(* tracked log is on disk with at least the recorded size.  (When the      *)
(* MANIFEST is replaced it does not, which the run wal_rollover shows.)    *)
THEOREM KeepsWalsChecked == Spec => [](setup.rollovers = 0 => CheckWalsSucceeds)
<1> DEFINE Inv == TypeOK /\ Places /\ FlushJob /\ Kept /\ Protocol /\ Durable /\ Tracked
<1>1. Init => Inv
  BY InitType, InitKept, InitProtocol, InitDurable, InitTracked
<1>2. Inv /\ [Next]_vars => Inv'
  BY LeastOfNumbers, StepType, StepFlushJob, StepKept, StepProtocol, StepDurable, StepTracked
<1>3. Inv => (setup.rollovers = 0 => CheckWalsSucceeds)
  BY TrackedSuffices
<1> QED
  BY <1>1, <1>2, <1>3, PTL DEF Spec
=============================================================================
