-------------------------- MODULE PointLockProofs --------------------------
(***************************************************************************)
(* The safety of the lock table, for any finite sets of transactions and   *)
(* keys, any stripes and any options of the model: NoLockLeak, and         *)
(* LocksExclude under the two conditions that the code needs (Uniform and  *)
(* Sound).                                                                 *)
(***************************************************************************)
EXTENDS PointLockManager, FiniteSetTheorems, TLAPS

(* Of the transactions that share locks all expire or none does: a shared  *)
(* LockInfo has one expiration, the latest (AcquireLocked), and once it is *)
(* over every holder is robbed, also one that never expires.               *)
Uniform ==
    \A t, u \in setup.readers : setup.expiration[t] > 0 => setup.expiration[u] > 0
(* Where an upgrade may fail its validation only one transaction shares    *)
(* locks: TryLock then tracks an exclusive lock although it is shared.     *)
Sound == setup.unvalidated => \A t, u \in setup.readers : t = u

(* The holders of a key in the table, the key a call has just locked, the  *)
(* keys a transaction has and those it believes to have alone.             *)
Holders(k) == ToSet(keys[k].txn_ids)
Acquired(t, k) == pc[t] \in {"counting", "granted"} /\ local[t].key = k
Mine(t, k) == tracked[t][k] # "none" \/ k \in local[t].held \/ Acquired(t, k)
Strong(t, k) ==
    \/ tracked[t][k] = "exclusive" \/ k \in local[t].held
    \/ Acquired(t, k) /\ local[t].exclusive

(* What the position of a call says about its arguments, the keys it has   *)
(* and txn_state_ (CallOK), about whom it asks for (AskOK) and about       *)
(* expirable_transactions_map_ (ExpiryOK): a transaction with an           *)
(* expiration is in the map until it is destroyed.                         *)
Trying == {"lock", "blocked", "asleep", "woken", "unwaited", "counting",
           "granted", "refused"}
Awaiting == {"AWAITING_PREPARE", "AWAITING_COMMIT", "AWAITING_ROLLBACK"}
Untracked(t) == \A k \in Keys : tracked[t][k] = "none"
CallOK(t) ==
    /\ pc[t] \in {"idle", "gone"} => local[t] = NoCall
    /\ pc[t] # "unlocking" => local[t].todo = {}
    /\ local[t].held # {} => local[t].next = "batch"
    /\ pc[t] = "prepare" => local[t].next = "prepare"
    /\ pc[t] = "write" => txn_state[t] \in Awaiting
    /\ pc[t] = "gone" => Untracked(t)
    /\ pc[t] = "unlocking" =>
          /\ local[t].next \in {"idle", "COMMITTED", "ROLLEDBACK", "gone"}
          /\ \A k \in local[t].todo : tracked[t][k] = "none"
          /\ local[t].next # "idle" => Untracked(t)
AskOK(t) ==
    /\ \A k \in Keys : tracked[t][k] = "shared" => t \in setup.readers
    /\ pc[t] \in Trying =>
          /\ local[t].key \in Keys /\ local[t].next \in {"none", "batch"}
          /\ local[t].upgrade =>
                /\ local[t].exclusive /\ t \in setup.readers
                /\ tracked[t][local[t].key] = "shared"
          /\ ~local[t].exclusive =>
                /\ t \in setup.readers /\ local[t].next = "none"
                /\ pc[t] \notin {"counting", "granted"} => tracked[t][local[t].key] = "none"
ExpiryOK(t) ==
    /\ txn_state[t] = "LOCKS_STOLEN" \/ t \in expirable \/ expiration_time[t] > 0
          => setup.expiration[t] > 0
    /\ setup.expiration[t] > 0 => t \in expirable \/ pc[t] = "gone"
CallsOK == \A t \in Txns : CallOK(t) /\ AskOK(t) /\ ExpiryOK(t)

(* A LockInfo names nobody twice, is reset when nobody is left, and has    *)
(* one holder if it is exclusive and only readers if it is shared.         *)
InfoOK(info, readers) ==
    /\ \A i, j \in DOMAIN info.txn_ids : info.txn_ids[i] = info.txn_ids[j] => i = j
    /\ info.txn_ids = << >> => info = NotLocked
    /\ info.exclusive => \A t, u \in ToSet(info.txn_ids) : t = u
    /\ ~info.exclusive => ToSet(info.txn_ids) \subseteq readers
TableOK == \A k \in Keys : InfoOK(keys[k], setup.readers)
(* A holder has the key or is about to unlock it.                          *)
NoLeak ==
    \A k \in Keys : \A t \in Holders(k) : Mine(t, k) \/ k \in local[t].todo
(* Conversely, who has a key and has not been robbed is a holder, and the  *)
(* lock is exclusive if it believes so; for this a lock that expires is    *)
(* only held by transactions that do.                                      *)
ExpiringHolders ==
    \A k \in Keys : keys[k].expiration_time > 0 =>
        \A t \in Holders(k) : setup.expiration[t] > 0
ClaimsHeld ==
    \A t \in Txns, k \in Keys :
        txn_state[t] # "LOCKS_STOLEN" /\ Mine(t, k) =>
            /\ t \in Holders(k)
            /\ Strong(t, k) => keys[k].exclusive \/ setup.unvalidated
Claims == Uniform => ExpiringHolders /\ ClaimsHeld
(* lock_cnt is behind the table by the keys inserted but not yet counted.  *)
Counting == {t \in Txns : pc[t] = "counting"}
Locked == {k \in Keys : keys[k] # NotLocked}
Counted ==
    setup.max_num_locks > 0 /\ setup.readers = {} =>
        lock_cnt + Cardinality(Counting) = Cardinality(Locked)
(* The inductive invariant.                                                *)
LockInv == TypeOK /\ CallsOK /\ TableOK /\ NoLeak /\ Claims /\ Counted

-----------------------------------------------------------------------------
(* What a setup is made of, from LockAssumption.                           *)
LEMMA SetupTypes ==
    ASSUME TypeOK
    PROVE  /\ setup \in SetupType /\ setup.readers \subseteq Txns
           /\ setup.expiration \in [Txns -> Nat] /\ setup.max_num_locks \in Nat
           /\ setup.wants \in [Txns -> SUBSET Keys] /\ setup.batches \subseteq SUBSET Keys
           /\ setup.unvalidated => \A t \in Txns : setup.expiration[t] = 0
<1>1. setup \in SetupType /\ (setup.unvalidated => \A t \in Txns : setup.expiration[t] = 0)
  BY LockAssumption, Zenon DEF TypeOK
<1> QED
  BY <1>1 DEF SetupType

(* The changes the steps make to the record of a call keep its type.       *)
LEMMA CallTypes ==
    ASSUME NEW c \in LockCall
    PROVE  /\ NoCall \in LockCall
           /\ \A b \in BOOLEAN : [c EXCEPT !.busy = b] \in LockCall
           /\ \A b \in BOOLEAN : [c EXCEPT !.timed_out = b] \in LockCall
           /\ \A n \in Nexts : [c EXCEPT !.next = n] \in LockCall
           /\ \A S \in SUBSET Keys : [c EXCEPT !.todo = S] \in LockCall
           /\ \A s \in Seq(Txns), h \in Nat :
                 [c EXCEPT !.wait_ids = s, !.busy = FALSE, !.expire_time_hint = h]
                    \in LockCall
<1>1. << >> \in Seq(Txns) /\ 0 \in Nat
  OBVIOUS
<1>2. NoCall \in LockCall
  BY <1>1 DEF NoCall, LockCall, Nexts
<1> QED
  BY <1>2, Zenon DEF LockCall

(* The records with which a call begins have the type of a call.           *)
LEMMA NewCallTypes ==
    /\ \A S \in SUBSET Keys, n \in Nexts :
          [NoCall EXCEPT !.todo = S, !.next = n] \in LockCall
    /\ \A S \in SUBSET Keys, n \in Nexts :
          [NoCall EXCEPT !.held = S, !.next = n] \in LockCall
    /\ \A k \in Keys, x, y \in BOOLEAN :
          [NoCall EXCEPT !.key = k, !.exclusive = x, !.upgrade = y] \in LockCall
    /\ \A k \in Keys, B, S \in SUBSET Keys :
          [NoCall EXCEPT !.key = k, !.exclusive = TRUE, !.batch = B,
                         !.held = S, !.next = "batch"] \in LockCall
<1>1. << >> \in Seq(Txns) /\ 0 \in Nat
  OBVIOUS
<1> QED
  BY <1>1 DEF NoCall, LockCall, Nexts

-----------------------------------------------------------------------------
(* What one call of AcquireLocked may do                                   *)

SameCall(c, d) ==
    /\ d.key = c.key /\ d.exclusive = c.exclusive /\ d.upgrade = c.upgrade
    /\ d.batch = c.batch /\ d.held = c.held /\ d.todo = c.todo /\ d.next = c.next
OthersKept(t) ==
    \A u \in Txns \ {t} :
        pc'[u] = pc[u] /\ local'[u] = local[u] /\ tracked'[u] = tracked[u]
StolenOnly ==
    \A u \in Txns :
        \/ txn_state'[u] = txn_state[u]
        \/ /\ u \in expirable /\ txn_state[u] = "STARTED"
           /\ txn_state'[u] = "LOCKS_STOLEN"
MyLock(t) == [txn_ids |-> <<t>>, exclusive |-> local[t].exclusive,
              expiration_time |-> expiration_time[t]]
Joined(t, info) ==
    [txn_ids |-> Append(info.txn_ids, t), exclusive |-> FALSE,
     expiration_time |-> IF info.expiration_time < expiration_time[t]
                         THEN expiration_time[t] ELSE info.expiration_time]

Free(t, k) ==
    /\ keys[k] = NotLocked /\ keys' = [keys EXCEPT ![k] = MyLock(t)]
    /\ pc'[t] = (IF setup.max_num_locks > 0 THEN "counting" ELSE "granted")
    /\ txn_state' = txn_state
Join(t, k) ==
    /\ keys[k] # NotLocked /\ ~keys[k].exclusive /\ ~local[t].exclusive
    /\ keys' = [keys EXCEPT ![k] = Joined(t, keys[k])]
    /\ pc'[t] = "granted" /\ txn_state' = txn_state
Retake(t, k) ==
    /\ keys[k].txn_ids # << >> /\ keys' = [keys EXCEPT ![k] = MyLock(t)]
    /\ pc'[t] = "granted" /\ StolenOnly
    /\ \A u \in Holders(k) \ {t} :
          /\ keys[k].expiration_time > 0
          /\ u \in expirable => txn_state'[u] = "LOCKS_STOLEN"
Refuse(t) ==
    /\ keys' = keys /\ StolenOnly
    /\ pc'[t] \in {"refused", "blocked", "unwaited", "asleep", "woken"}

(* The LockInfo of a key is well-typed, and its holders are transactions.  *)
LEMMA HoldersAreTxns ==
    ASSUME TypeOK, NEW k \in Keys
    PROVE  Holders(k) \subseteq Txns /\ keys[k] \in LockInfo
           /\ keys[k].txn_ids \in Seq(Txns) /\ keys[k].expiration_time \in Nat
           /\ keys[k].exclusive \in BOOLEAN
<1>1. keys[k] \in LockInfo
  BY Zenon DEF TypeOK
<1>2. keys[k].txn_ids \in Seq(Txns) /\ keys[k].expiration_time \in Nat
      /\ keys[k].exclusive \in BOOLEAN
  BY <1>1, Zenon DEF LockInfo
<1>3. \A i \in DOMAIN keys[k].txn_ids : keys[k].txn_ids[i] \in Txns
  BY <1>2
<1> QED
  BY <1>1, <1>2, <1>3, Zenon DEF Holders, ToSet

(* Whoever IsLockExpired has asked with success is another holder of the   *)
(* lock, and its locks may be stolen.                                      *)
LEMMA AskedSteals ==
    ASSUME TypeOK, NEW t \in Txns, NEW k \in Keys, NEW u \in Asked(t, keys[k])
    PROVE  TryStealingLocks(u) /\ u \in Holders(k) \ {t}
<1>0. keys[k].txn_ids \in Seq(Txns)
  BY HoldersAreTxns, Zenon
<1>1. PICK i \in DOMAIN keys[k].txn_ids :
          /\ u = keys[k].txn_ids[i] /\ u # t
          /\ \A j \in 1..i : keys[k].txn_ids[j] # t => TryStealingLocks(keys[k].txn_ids[j])
  BY Zenon DEF Asked
<1>2. i \in 1..i
  BY <1>0
<1> QED
  BY <1>1, <1>2, Zenon DEF Holders, ToSet

(* AcquireLocked takes a free key, joins a shared lock, takes a lock over  *)
(* (its own, or one all of whose other holders have been robbed) or        *)
(* refuses; it changes the call of nobody else.                            *)
LEMMA AcquireOutcome ==
    ASSUME TypeOK, NEW t \in Txns, NEW c \in LockCall, SameCall(local[t], c),
           local[t].key \in Keys, AcquireLocked(t, c)
    PROVE  /\ \/ Free(t, local[t].key) \/ Join(t, local[t].key)
              \/ Retake(t, local[t].key) \/ Refuse(t)
           /\ SameCall(local[t], local'[t])
           /\ \A u \in Txns \ {t} : pc'[u] = pc[u] /\ local'[u] = local[u]
           /\ local' \in [Txns -> LockCall] /\ pc' \in [Txns -> Labels]
           /\ stripe_mutex' \in [Stripes -> Txns \cup {Nobody}]
<1> DEFINE k == local[t].key
<1> DEFINE info == keys[k]
<1> DEFINE mine == [txn_ids |-> <<t>>, exclusive |-> c.exclusive,
                    expiration_time |-> expiration_time[t]]
<1> DEFINE conflict == info.exclusive \/ c.exclusive
<1> DEFINE past == 0 < info.expiration_time /\ info.expiration_time <= now
<1> DEFINE waits(hint) == [c EXCEPT !.wait_ids = info.txn_ids, !.busy = FALSE,
                                    !.expire_time_hint = hint]
<1>1. /\ c.key = k /\ mine = MyLock(t) /\ c.exclusive = local[t].exclusive
      /\ local \in [Txns -> LockCall] /\ pc \in [Txns -> Labels]
      /\ stripe_mutex \in [Stripes -> Txns \cup {Nobody}]
  BY Zenon DEF SameCall, MyLock, TypeOK
<1>2. info \in LockInfo /\ info.txn_ids \in Seq(Txns) /\ info.expiration_time \in Nat
  BY HoldersAreTxns, Zenon
<1>3. ASSUME NEW d \in LockCall, SameCall(local[t], d), NEW b \in BOOLEAN, Granted(t, d, b)
      PROVE  /\ SameCall(local[t], local'[t])
             /\ \A u \in Txns \ {t} : pc'[u] = pc[u] /\ local'[u] = local[u]
             /\ local' \in [Txns -> LockCall] /\ pc' \in [Txns -> Labels]
             /\ stripe_mutex' \in [Stripes -> Txns \cup {Nobody}]
             /\ pc'[t] = IF b THEN "counting" ELSE "granted"
  BY <1>1, <1>3, Zenon DEF Granted, Labels
<1>4. ASSUME NEW d \in LockCall, SameCall(local[t], d), Refused(t, d)
      PROVE  /\ SameCall(local[t], local'[t])
             /\ \A u \in Txns \ {t} : pc'[u] = pc[u] /\ local'[u] = local[u]
             /\ local' \in [Txns -> LockCall] /\ pc' \in [Txns -> Labels]
             /\ stripe_mutex' \in [Stripes -> Txns \cup {Nobody}]
             /\ pc'[t] \in {"refused", "blocked"}
  BY <1>1, <1>4, Zenon DEF Refused, Labels
<1>5. ASSUME NEW h \in Nat
      PROVE  waits(h) \in LockCall /\ SameCall(local[t], waits(h))
  <2>1. waits(h) \in LockCall
    BY <1>2, CallTypes, Zenon
  <2> QED
    BY <2>1, Zenon DEF SameCall, LockCall
<1>6. [c EXCEPT !.busy = TRUE] \in LockCall /\ SameCall(local[t], [c EXCEPT !.busy = TRUE])
  <2>1. [c EXCEPT !.busy = TRUE] \in LockCall
    BY CallTypes, Zenon
  <2> QED
    BY <2>1, Zenon DEF SameCall, LockCall
<1>7. txn_state' = txn_state => StolenOnly
  BY Zenon DEF StolenOnly
<1>8. CASE /\ info = NotLocked /\ keys' = [keys EXCEPT ![k] = mine]
           /\ Granted(t, c, setup.max_num_locks > 0) /\ UNCHANGED txn_state
  <2>1. (setup.max_num_locks > 0) \in BOOLEAN
    OBVIOUS
  <2> QED
    BY <1>1, <1>3, <1>8, <2>1, Zenon DEF Free
<1>9. CASE Refused(t, [c EXCEPT !.busy = TRUE]) /\ UNCHANGED <<keys, txn_state>>
  BY <1>4, <1>6, <1>7, <1>9, Zenon DEF Refuse
<1>10. CASE /\ info # NotLocked /\ ~conflict
            /\ keys' = [keys EXCEPT ![k] = Joined(t, info)]
            /\ Granted(t, c, FALSE) /\ UNCHANGED txn_state
  BY <1>1, <1>3, <1>10, Zenon DEF Join
<1>11. CASE /\ info.txn_ids = <<t>> /\ keys' = [keys EXCEPT ![k] = mine]
            /\ Granted(t, c, FALSE) /\ UNCHANGED txn_state
  <2>1. info.txn_ids # << >> /\ Holders(k) = {t}
    BY <1>2, <1>11 DEF Holders, ToSet
  <2> QED
    BY <1>1, <1>3, <1>7, <1>11, <2>1, Zenon DEF Retake
<1>12. CASE Refused(t, waits(info.expiration_time)) /\ UNCHANGED <<keys, txn_state>>
  BY <1>2, <1>4, <1>5, <1>7, <1>12, Zenon DEF Refuse
<1>13. CASE /\ info.txn_ids # << >> /\ past
            /\ txn_state' = [u \in Txns |-> IF u \in Asked(t, info) \cap expirable
                                            THEN "LOCKS_STOLEN" ELSE txn_state[u]]
            /\ IF Rivals(t, info) \subseteq Asked(t, info)
               THEN keys' = [keys EXCEPT ![k] = mine] /\ Granted(t, c, FALSE)
               ELSE Refused(t, waits(0)) /\ UNCHANGED keys
  <2>1. StolenOnly
    <3> SUFFICES ASSUME NEW u \in Txns, u \in Asked(t, info) \cap expirable
                 PROVE  txn_state[u] = "STARTED"
      BY <1>13, Zenon DEF StolenOnly
    <3> QED
      BY AskedSteals, Zenon DEF TryStealingLocks
  <2>2. CASE keys' = [keys EXCEPT ![k] = mine] /\ Granted(t, c, FALSE)
             /\ Rivals(t, info) \subseteq Asked(t, info)
    <3>1. \A u \in Holders(k) \ {t} : u \in expirable => txn_state'[u] = "LOCKS_STOLEN"
      <4>1. Holders(k) \ {t} \subseteq Asked(t, info) /\ Holders(k) \subseteq Txns
        BY <2>2, HoldersAreTxns, Zenon DEF Rivals, Holders
      <4> QED
        BY <1>13, <4>1, Zenon
    <3>2. info.expiration_time > 0
      BY <1>2, <1>13
    <3> QED
      BY <1>1, <1>3, <1>13, <2>1, <2>2, <3>1, <3>2, Zenon DEF Retake
  <2>3. CASE Refused(t, waits(0)) /\ UNCHANGED keys
    <3>1. 0 \in Nat
      OBVIOUS
    <3> QED
      BY <1>4, <1>5, <2>1, <2>3, <3>1, Zenon DEF Refuse
  <2> QED
    BY <1>13, <2>2, <2>3, Zenon
<1> QED
  BY <1>1, <1>8, <1>9, <1>10, <1>11, <1>12, <1>13, Zenon
     DEF AcquireLocked, Joined

-----------------------------------------------------------------------------
(* Types                                                                   *)

(* The number of times a transaction occurs in txn_ids is a number.        *)
LEMMA Counts ==
    ASSUME NEW s \in Seq(Txns), NEW u
    PROVE  Occurrences(s, u) \in Nat
<1>1. IsFiniteSet(1..Len(s))
  BY FS_Interval
<1>2. {i \in DOMAIN s : s[i] = u} \subseteq 1..Len(s)
  OBVIOUS
<1>3. IsFiniteSet({i \in DOMAIN s : s[i] = u})
  BY <1>1, <1>2, FS_Subset, Zenon
<1> QED
  BY <1>3, FS_CardinalityType, Zenon DEF Occurrences

WaitTypes ==
    wait_txn_map \in [Txns -> Seq(Txns)] /\ rev_wait_txn_map \in [Txns -> Int]

(* IncrementWaiters and DecrementWaiters keep the types of the wait-for    *)
(* graph.                                                                  *)
LEMMA WaitersTyped ==
    ASSUME TypeOK, NEW t \in Txns,
           IncrementWaiters(t) \/ DecrementWaiters(t) \/ UNCHANGED waitVars
    PROVE  WaitTypes'
<1>1. local[t].wait_ids \in Seq(Txns) /\ << >> \in Seq(Txns)
  <2>1. local[t] \in LockCall
    BY Zenon DEF TypeOK
  <2> QED
    BY <2>1 DEF LockCall
<1>2. \A u \in Txns : /\ rev_wait_txn_map[u] + Occurrences(local[t].wait_ids, u) \in Int
                      /\ rev_wait_txn_map[u] - Occurrences(local[t].wait_ids, u) \in Int
  <2> SUFFICES ASSUME NEW u \in Txns
               PROVE  /\ rev_wait_txn_map[u] + Occurrences(local[t].wait_ids, u) \in Int
                      /\ rev_wait_txn_map[u] - Occurrences(local[t].wait_ids, u) \in Int
    BY Zenon
  <2>1. Occurrences(local[t].wait_ids, u) \in Nat
    BY <1>1, Counts, Zenon
  <2>2. rev_wait_txn_map[u] \in Int
    BY Zenon DEF TypeOK
  <2> QED
    BY <2>1, <2>2
<1>3. WaitTypes
  BY Zenon DEF TypeOK, WaitTypes
<1>4. CASE IncrementWaiters(t)
  BY <1>1, <1>2, <1>3, <1>4, Zenon DEF IncrementWaiters, WaitTypes
<1>5. CASE DecrementWaiters(t) \/ UNCHANGED waitVars
  BY <1>1, <1>2, <1>3, <1>5, Zenon DEF DecrementWaiters, waitVars, WaitTypes
<1> QED
  BY <1>4, <1>5, Zenon

(* The beginning of a release keeps types.                                 *)
LEMMA ReleaseTyped ==
    ASSUME TypeOK, NEW t \in Txns, NEW S \in SUBSET Keys, NEW n \in Nexts, Release(t, S, n)
    PROVE  /\ tracked' \in [Txns -> [Keys -> {"none", "shared", "exclusive"}]]
           /\ local' \in [Txns -> LockCall] /\ pc' \in [Txns -> Labels]
<1> DEFINE T == [Keys -> {"none", "shared", "exclusive"}]
<1> DEFINE left == [k \in Keys |-> IF k \in S THEN "none" ELSE tracked[t][k]]
<1>1. tracked \in [Txns -> T] /\ local \in [Txns -> LockCall] /\ pc \in [Txns -> Labels]
  BY Zenon DEF TypeOK
<1>2. left \in T
  BY <1>1, Zenon
<1>3. tracked' = [tracked EXCEPT ![t] = left]
  BY Zenon DEF Release
<1> HIDE DEF T, left
<1>4. tracked' \in [Txns -> T]
  BY <1>1, <1>2, <1>3, Zenon
<1>5. local' \in [Txns -> LockCall] /\ pc' \in [Txns -> Labels]
  BY <1>1, NewCallTypes, Zenon DEF Release, Labels
<1> QED
  BY <1>4, <1>5, Zenon DEF T

(* The end of a call, or of a batch, keeps types.                          *)
LEMMA EndTyped ==
    ASSUME TypeOK, NEW t \in Txns, EndBatchOrCall(t) \/ EndCall(t)
    PROVE  /\ tracked' \in [Txns -> [Keys -> {"none", "shared", "exclusive"}]]
           /\ local' \in [Txns -> LockCall] /\ pc' \in [Txns -> Labels]
<1>1. local[t] \in LockCall
  BY Zenon DEF TypeOK
<1>2. local[t].held \in SUBSET Keys /\ "idle" \in Nexts
  BY <1>1, Zenon DEF LockCall, Nexts
<1>3. NoCall \in LockCall
  BY <1>1, CallTypes, Zenon
<1>4. CASE EndCall(t)
  BY <1>3, <1>4, Zenon DEF EndCall, TypeOK, Labels
<1>5. CASE Release(t, local[t].held, "idle")
  BY <1>2, <1>5, ReleaseTyped, Zenon
<1> QED
  BY <1>4, <1>5, Zenon DEF EndBatchOrCall

(* UnLockKey returns a LockInfo.                                           *)
LEMMA UnLockKeyTyped ==
    ASSUME NEW t \in Txns, NEW info \in LockInfo
    PROVE  UnLockKey(t, info) \in LockInfo
<1> DEFINE s == info.txn_ids
<1>1. s \in Seq(Txns) /\ info.exclusive \in BOOLEAN /\ info.expiration_time \in Nat
  BY Zenon DEF LockInfo
<1>2. NotLocked \in LockInfo
  BY DEF NotLocked, LockInfo
<1>3. t \in ToSet(s) => Len(s) > 0
  BY <1>1 DEF ToSet
<1>4. ASSUME Len(s) > 0
      PROVE  [i \in 1..Len(s) - 1 |-> IF s[i] = t THEN s[Len(s)] ELSE s[i]] \in Seq(Txns)
  <2>1. Len(s) - 1 \in Nat /\ \A i \in 1..Len(s) - 1 : s[i] \in Txns /\ s[Len(s)] \in Txns
    BY <1>1, <1>4
  <2> QED
    BY <2>1
<1>5. \A m \in Seq(Txns) : [info EXCEPT !.txn_ids = m] \in LockInfo
  BY Zenon DEF LockInfo
<1> QED
  BY <1>2, <1>3, <1>4, <1>5, Zenon DEF UnLockKey

(* Every step of AcquireWithTimeout takes the lock or leaves the table.    *)
TryStep(t) ==
    AcquireWithTimeout(t) \/ Wake(t) \/ Unwaited(t) \/ Wait(t) \/ TimeOut(t)
(* A step of AcquireWithTimeout, by its outcome.                           *)
Tried(t) ==
    /\ pc[t] \in {"lock", "blocked", "asleep", "woken", "unwaited"}
    /\ UNCHANGED <<setup, expiration_time, expirable, tracked, lock_cnt>>
    /\ OthersKept(t) /\ SameCall(local[t], local'[t])
    /\ \/ Free(t, local[t].key) \/ Join(t, local[t].key)
       \/ Retake(t, local[t].key) \/ Refuse(t)
TriedTypes ==
    /\ local' \in [Txns -> LockCall] /\ pc' \in [Txns -> Labels]
    /\ stripe_mutex' \in [Stripes -> Txns \cup {Nobody}]
    /\ txn_state' \in [Txns -> States]
    /\ WaitTypes' /\ now' = now /\ ops' = ops

(* AcquireLocked keeps the type of txn_state_.                             *)
LEMMA AcquireStates ==
    ASSUME TypeOK, NEW t, NEW c, AcquireLocked(t, c)
    PROVE  txn_state' \in [Txns -> States]
<1>1. txn_state \in [Txns -> States] /\ "LOCKS_STOLEN" \in States
  BY Zenon DEF TypeOK, States
<1>2. \/ txn_state' = txn_state
      \/ txn_state' = [u \in Txns |-> IF u \in Asked(t, keys[c.key]) \cap expirable
                                      THEN "LOCKS_STOLEN" ELSE txn_state[u]]
  BY Zenon DEF AcquireLocked
<1> QED
  BY <1>1, <1>2, Zenon

(* Every step of AcquireWithTimeout is an attempt as Tried describes it.   *)
LEMMA Tries ==
    ASSUME TypeOK, CallsOK, NEW t \in Txns, TryStep(t)
    PROVE  Tried(t) /\ TriedTypes
<1>1. local[t] \in LockCall /\ SameCall(local[t], local[t])
      /\ SameCall(local[t], [local[t] EXCEPT !.timed_out = TRUE])
      /\ [local[t] EXCEPT !.timed_out = TRUE] \in LockCall
  <2>1. local[t] \in LockCall
    BY Zenon DEF TypeOK
  <2>2. [local[t] EXCEPT !.timed_out = TRUE] \in LockCall
    BY <2>1, CallTypes, Zenon
  <2> QED
    BY <2>1, <2>2, Zenon DEF SameCall, LockCall
<1>2. pc[t] \in {"lock", "blocked", "asleep", "woken", "unwaited"} => local[t].key \in Keys
  BY Zenon DEF CallsOK, AskOK, Trying
<1>3. ASSUME NEW c \in LockCall, SameCall(local[t], c), AcquireLocked(t, c),
             pc[t] \in {"lock", "woken", "unwaited"},
             UNCHANGED <<setup, now, expiration_time, expirable, tracked, lock_cnt, ops>>,
             WaitTypes'
      PROVE  Tried(t) /\ TriedTypes
  BY <1>2, <1>3, AcquireOutcome, AcquireStates, Zenon DEF Tried, TriedTypes, OthersKept
<1>4. ASSUME pc[t] \in {"lock", "blocked", "asleep", "unwaited"}, local' = local,
             NEW l \in {"refused", "blocked", "unwaited", "asleep", "woken"},
             pc' = [pc EXCEPT ![t] = l],
             stripe_mutex' \in {stripe_mutex, [stripe_mutex EXCEPT ![Stripe(t)] = Nobody]},
             UNCHANGED <<setup, now, expiration_time, expirable, tracked, txn_state,
                         keys, lock_cnt, ops>>,
             WaitTypes'
      PROVE  Tried(t) /\ TriedTypes
  <2>1. l \in Labels
    BY Zenon DEF Labels
  <2>2. pc \in [Txns -> Labels] /\ local \in [Txns -> LockCall]
        /\ txn_state \in [Txns -> States]
        /\ stripe_mutex \in [Stripes -> Txns \cup {Nobody}]
    BY Zenon DEF TypeOK
  <2>3. TriedTypes
    BY <1>4, <2>1, <2>2, Zenon DEF TriedTypes
  <2>4. OthersKept(t) /\ pc'[t] = l
    BY <1>4, <2>2, Zenon DEF OthersKept
  <2>5. Refuse(t)
    BY <1>4, <2>4, Zenon DEF Refuse, StolenOnly
  <2> QED
    BY <1>1, <1>4, <2>3, <2>4, <2>5, Zenon DEF Tried
<1>5. CASE AcquireWithTimeout(t)
  <2>1. WaitTypes'
    BY <1>5, WaitersTyped, Zenon DEF AcquireWithTimeout
  <2> QED
    BY <1>1, <1>3, <1>4, <1>5, <2>1, Zenon DEF AcquireWithTimeout
<1>6. CASE Wake(t)
  <2>1. WaitTypes'
    BY <1>6, WaitersTyped, Zenon DEF Wake
  <2> QED
    BY <1>1, <1>3, <1>6, <2>1, Zenon DEF Wake
<1>7. CASE Unwaited(t)
  <2>1. WaitTypes'
    BY <1>7, WaitersTyped, Zenon DEF Unwaited
  <2> QED
    BY <1>1, <1>3, <1>4, <1>7, <2>1, Zenon DEF Unwaited
<1>8. CASE Wait(t)
  <2>1. WaitTypes'
    BY <1>8, WaitersTyped, Zenon DEF Wait
  <2> QED
    BY <1>4, <1>8, <2>1, Zenon DEF Wait, txnVars
<1>9. CASE TimeOut(t)
  <2>1. WaitTypes'
    BY <1>9, WaitersTyped, Zenon DEF TimeOut
  <2>2. local' = [local EXCEPT ![t] = [local[t] EXCEPT !.timed_out = TRUE]]
    BY <1>9, Zenon DEF TimeOut
  <2>3. pc \in [Txns -> Labels] /\ local \in [Txns -> LockCall] /\ "woken" \in Labels
        /\ txn_state \in [Txns -> States]
        /\ stripe_mutex \in [Stripes -> Txns \cup {Nobody}]
    BY Zenon DEF TypeOK, Labels
  <2>4. TriedTypes
    BY <1>1, <1>9, <2>1, <2>2, <2>3, Zenon DEF TriedTypes, TimeOut, txnVars
  <2>5. OthersKept(t) /\ pc'[t] = "woken" /\ SameCall(local[t], local'[t])
    BY <1>1, <1>9, <2>2, <2>3, Zenon DEF OthersKept, TimeOut, txnVars
  <2>6. Refuse(t)
    BY <1>9, <2>5, Zenon DEF Refuse, StolenOnly, TimeOut, txnVars
  <2> QED
    BY <1>9, <2>4, <2>5, <2>6, Zenon DEF Tried, TimeOut, txnVars
<1> QED
  BY <1>5, <1>6, <1>7, <1>8, <1>9, Zenon DEF TryStep


(* An attempt keeps the type of the lock table.                            *)
LEMMA TriedTable ==
    ASSUME TypeOK, NEW t \in Txns, local[t].key \in Keys, Tried(t)
    PROVE  keys' \in [Keys -> LockInfo]
<1>1. keys \in [Keys -> LockInfo] /\ keys[local[t].key] \in LockInfo
      /\ expiration_time[t] \in Nat /\ local[t].exclusive \in BOOLEAN
  <2>1. local[t] \in LockCall
    BY Zenon DEF TypeOK
  <2> QED
    BY <2>1, Zenon DEF TypeOK, LockCall
<1>2. MyLock(t) \in LockInfo
  <2>1. <<t>> \in Seq(Txns)
    OBVIOUS
  <2> QED
    BY <1>1, <2>1, Zenon DEF MyLock, LockInfo
<1>3. Joined(t, keys[local[t].key]) \in LockInfo
  <2>1. keys[local[t].key].txn_ids \in Seq(Txns) /\ keys[local[t].key].expiration_time \in Nat
    BY <1>1, Zenon DEF LockInfo
  <2>2. Append(keys[local[t].key].txn_ids, t) \in Seq(Txns)
    BY <2>1
  <2> QED
    BY <1>1, <2>1, <2>2, Zenon DEF Joined, LockInfo
<1> QED
  BY <1>1, <1>2, <1>3, Zenon DEF Tried, Free, Join, Retake, Refuse

(* The steps of a call outside AcquireWithTimeout and UnLock.              *)
OwnStep(t) ==
    \/ CountLock(t) \/ Validated(t) \/ Conflict(t) \/ Downgrade(t) \/ DowngradeFails(t)
    \/ TryLockFails(t) \/ LockBatchNext(t) \/ LockBatchFails(t) \/ CheckExpired(t)
    \/ CommitState(t) \/ PrepareState(t) \/ Written(t) \/ WriteFails(t) \/ Released(t)

MovedTypes ==
    /\ tracked' \in [Txns -> [Keys -> {"none", "shared", "exclusive"}]]
    /\ local' \in [Txns -> LockCall] /\ pc' \in [Txns -> Labels]

(* A step that changes only a call, its tracked keys and txn_state_ keeps  *)
(* types when those parts do.                                              *)
LEMMA SomeTyped ==
    ASSUME TypeOK, MovedTypes, txn_state' \in [Txns -> States], ops' \in [Txns -> Nat],
           UNCHANGED <<setup, now, expiration_time, expirable, keys, lock_cnt,
                       stripe_mutex, waitVars>>
    PROVE  TypeOK'
<1>1. Stripes' = Stripes
  BY Zenon DEF Stripes
<1>2. wait_txn_map' = wait_txn_map /\ rev_wait_txn_map' = rev_wait_txn_map
  BY Zenon DEF waitVars
<1> QED
  BY <1>1, <1>2, Zenon DEF TypeOK, MovedTypes

(* The first step of every call keeps types.                               *)
LEMMA CallsTyped ==
    ASSUME TypeOK, NEW t \in Txns, Calls(t)
    PROVE  TypeOK'
<1>1. /\ tracked \in [Txns -> [Keys -> {"none", "shared", "exclusive"}]]
      /\ local \in [Txns -> LockCall] /\ pc \in [Txns -> Labels]
      /\ txn_state \in [Txns -> States] /\ ops \in [Txns -> Nat]
      /\ setup.wants[t] \subseteq Keys /\ setup.batches \subseteq SUBSET Keys
  BY SetupTypes, Zenon DEF TypeOK
<1>2. \A n \in Nexts : [local[t] EXCEPT !.next = n] \in LockCall
  BY <1>1, CallTypes, Zenon
<1>3. TrackedKeys(t) \in SUBSET Keys /\ {"idle", "gone", "commit", "prepare", "rollback"} \subseteq Nexts
  BY Zenon DEF TrackedKeys, Nexts
<1>4. Starts(t) => ops' \in [Txns -> Nat]
  <2>1. ops[t] + 1 \in Nat
    BY <1>1
  <2> QED
    BY <1>1, <2>1, Zenon DEF Starts
<1>5. ASSUME MovedTypes, txn_state' \in [Txns -> States], ops' \in [Txns -> Nat],
             UNCHANGED <<setup, now, expiration_time, expirable, keys, lock_cnt,
                         stripe_mutex, waitVars>>
      PROVE  TypeOK'
  BY <1>1, <1>5, SomeTyped, Zenon
<1>6. CASE TryLock(t)
  <2>1. PICK k \in setup.wants[t], x \in BOOLEAN :
            local' = [local EXCEPT ![t] =
                 [NoCall EXCEPT !.key = k, !.exclusive = x,
                                !.upgrade = tracked[t][k] = "shared"]]
    BY <1>6, Zenon DEF TryLock
  <2>2. [NoCall EXCEPT !.key = k, !.exclusive = x, !.upgrade = tracked[t][k] = "shared"]
           \in LockCall
    BY <1>1, NewCallTypes, Zenon
  <2>3. MovedTypes
    BY <1>1, <1>6, <2>1, <2>2, Zenon DEF TryLock, MovedTypes, Labels, txnVars
  <2> QED
    BY <1>1, <1>4, <1>5, <1>6, <2>3, Zenon DEF TryLock, txnVars
<1>7. CASE CommitBatch(t)
  <2>1. PICK S \in setup.batches : LockFirst(t, S, {})
    BY <1>7, Zenon DEF CommitBatch
  <2>2. PICK k \in S : local' = [local EXCEPT ![t] =
               [NoCall EXCEPT !.key = k, !.exclusive = TRUE, !.batch = S,
                              !.held = {}, !.next = "batch"]]
    BY <2>1, Zenon DEF LockFirst
  <2>3. [NoCall EXCEPT !.key = k, !.exclusive = TRUE, !.batch = S, !.held = {},
                       !.next = "batch"] \in LockCall
    BY <1>1, NewCallTypes, Zenon
  <2>4. MovedTypes
    BY <1>1, <1>7, <2>2, <2>3, Zenon DEF CommitBatch, MovedTypes, Labels, txnVars
  <2> QED
    BY <1>1, <1>4, <1>5, <1>7, <2>4, Zenon DEF CommitBatch, txnVars
<1>8. CASE Commit(t)
  <2>1. MovedTypes
    BY <1>1, <1>2, <1>3, <1>8, Zenon DEF Commit, MovedTypes, Labels, txnVars
  <2> QED
    BY <1>1, <1>5, <1>8, <2>1, Zenon DEF Commit, txnVars
<1>9. CASE Prepare(t)
  <2>1. MovedTypes
    BY <1>1, <1>2, <1>3, <1>9, Zenon DEF Prepare, MovedTypes, Labels, txnVars
  <2> QED
    BY <1>1, <1>5, <1>9, <2>1, Zenon DEF Prepare, txnVars
<1>10. CASE Rollback(t)
  <2>1. CASE Release(t, TrackedKeys(t), "idle") /\ UNCHANGED txn_state
    BY <1>1, <1>3, <1>5, <1>10, <2>1, ReleaseTyped, Zenon DEF Rollback, MovedTypes
  <2>2. CASE /\ txn_state' = [txn_state EXCEPT ![t] = "AWAITING_ROLLBACK"]
             /\ pc' = [pc EXCEPT ![t] = "write"]
             /\ local' = [local EXCEPT ![t].next = "rollback"]
             /\ UNCHANGED tracked
    <3>1. MovedTypes
      BY <1>1, <1>2, <1>3, <2>2, Zenon DEF MovedTypes, Labels
    <3>2. txn_state' \in [Txns -> States]
      BY <1>1, <2>2, Zenon DEF States
    <3> QED
      BY <1>1, <1>5, <1>10, <3>1, <3>2, Zenon DEF Rollback
  <2> QED
    BY <1>10, <2>1, <2>2, Zenon DEF Rollback
<1>11. CASE RollbackToSavePoint(t)
  <2>1. PICK k \in TrackedKeys(t) : Release(t, {k}, "idle")
    BY <1>11, Zenon DEF RollbackToSavePoint
  <2>2. {k} \in SUBSET Keys
    BY <1>3, Zenon
  <2> QED
    BY <1>1, <1>3, <1>5, <1>11, <2>1, <2>2, ReleaseTyped, Zenon
       DEF RollbackToSavePoint, MovedTypes
<1>12. CASE Destroy(t)
  BY <1>1, <1>3, <1>5, <1>12, ReleaseTyped, Zenon DEF Destroy, MovedTypes
<1> QED
  BY <1>6, <1>7, <1>8, <1>9, <1>10, <1>11, <1>12, Zenon DEF Calls

(* The steps inside a call other than those of AcquireWithTimeout and      *)
(* UnLock keep types.                                                      *)
LEMMA OwnTyped ==
    ASSUME TypeOK, CallsOK, NEW t \in Txns, OwnStep(t)
    PROVE  TypeOK'
<1>1. /\ tracked \in [Txns -> [Keys -> {"none", "shared", "exclusive"}]]
      /\ local \in [Txns -> LockCall] /\ pc \in [Txns -> Labels]
      /\ txn_state \in [Txns -> States] /\ ops \in [Txns -> Nat] /\ lock_cnt \in Int
      /\ stripe_mutex \in [Stripes -> Txns \cup {Nobody}] /\ keys \in [Keys -> LockInfo]
      /\ expiration_time \in [Txns -> Nat] /\ expirable \subseteq Txns
  BY Zenon DEF TypeOK
<1>2. local[t] \in LockCall /\ NoCall \in LockCall
      /\ \A n \in Nexts : [local[t] EXCEPT !.next = n] \in LockCall
  BY <1>1, CallTypes, Zenon
<1>3. TrackedKeys(t) \in SUBSET Keys /\ local[t].held \in SUBSET Keys
      /\ local[t].batch \in SUBSET Keys /\ local[t].next \in Nexts
      /\ {"idle", "batch", "commit_prepared", "COMMITTED", "ROLLEDBACK"} \subseteq Nexts
  BY <1>2, Zenon DEF TrackedKeys, Nexts, LockCall
<1>4. pc[t] \in {"counting", "granted"} => local[t].key \in Keys
  BY Zenon DEF CallsOK, AskOK, Trying
<1>5. ASSUME Track(t), local[t].key \in Keys
      PROVE  tracked' \in [Txns -> [Keys -> {"none", "shared", "exclusive"}]]
  <2> DEFINE T == [Keys -> {"none", "shared", "exclusive"}]
  <2> DEFINE more == [tracked[t] EXCEPT ![local[t].key] =
                          IF local[t].exclusive THEN "exclusive" ELSE "shared"]
  <2>1. tracked[t] \in T
    BY <1>1, Zenon
  <2>2. more \in T
    BY <1>5, <2>1, Zenon
  <2>3. tracked' = [tracked EXCEPT ![t] = more]
    BY <1>5, Zenon DEF Track
  <2> HIDE DEF more
  <2> QED
    BY <1>1, <2>2, <2>3, Zenon
<1>6. ASSUME pc' = [pc EXCEPT ![t] = "idle"], local' = [local EXCEPT ![t] = NoCall],
             tracked' \in [Txns -> [Keys -> {"none", "shared", "exclusive"}]]
      PROVE  MovedTypes
  BY <1>1, <1>2, <1>6, Zenon DEF MovedTypes, Labels
<1>7. CASE CountLock(t)
  <2>1. lock_cnt' \in Int
    BY <1>1, <1>7 DEF CountLock
  <2>2. pc' \in [Txns -> Labels] /\ stripe_mutex' \in [Stripes -> Txns \cup {Nobody}]
    BY <1>1, <1>7, Zenon DEF CountLock, Labels
  <2>3. Stripes' = Stripes
    BY <1>7, Zenon DEF Stripes, CountLock
  <2> QED
    BY <1>7, <2>1, <2>2, <2>3, Zenon DEF CountLock, TypeOK, txnVars, waitVars
<1>8. CASE Validated(t)
  <2>1. MovedTypes
    BY <1>4, <1>5, <1>6, <1>8, Zenon DEF Validated
  <2> QED
    BY <1>1, <1>8, <2>1, SomeTyped, Zenon DEF Validated
<1>9. CASE Conflict(t)
  <2>1. {local[t].key} \in SUBSET Keys
    BY <1>4, <1>9, Zenon DEF Conflict
  <2> QED
    BY <1>1, <1>3, <1>9, <2>1, SomeTyped, ReleaseTyped, Zenon DEF Conflict, MovedTypes
<1>10. CASE Downgrade(t)
  <2>1. MovedTypes
    BY <1>4, <1>5, <1>6, <1>10, Zenon DEF Downgrade
  <2>2. [keys[local[t].key] EXCEPT !.exclusive = FALSE] \in LockInfo
    BY <1>1, <1>4, <1>10, Zenon DEF Downgrade, LockInfo
  <2>3. keys' \in [Keys -> LockInfo] /\ setup' = setup
    BY <1>1, <1>10, <2>2, Zenon DEF Downgrade
  <2>4. Stripes' = Stripes
    BY <2>3, Zenon DEF Stripes
  <2> QED
    BY <1>10, <2>1, <2>3, <2>4, Zenon DEF Downgrade, MovedTypes, TypeOK, waitVars
<1>11. CASE DowngradeFails(t) \/ TryLockFails(t)
  <2>1. MovedTypes
    BY <1>1, <1>6, <1>11, Zenon DEF DowngradeFails, TryLockFails, txnVars
  <2> QED
    BY <1>1, <1>11, <2>1, SomeTyped, Zenon DEF DowngradeFails, TryLockFails, txnVars
<1>12. CASE LockBatchNext(t)
  <2> DEFINE rest == local[t].batch \ {local[t].key}
  <2> DEFINE held == local[t].held \cup {local[t].key}
  <2>1. rest \in SUBSET Keys /\ held \in SUBSET Keys
    BY <1>3, <1>4, <1>12, Zenon DEF LockBatchNext
  <2> HIDE DEF rest, held
  <2>2. /\ \/ local' = [local EXCEPT ![t] = [NoCall EXCEPT !.held = held, !.next = "batch"]]
           \/ LockFirst(t, rest, held)
        /\ pc' = [pc EXCEPT ![t] = "check"] \/ pc' = [pc EXCEPT ![t] = "lock"]
        /\ UNCHANGED <<setup, now, txnVars, keys, lock_cnt, stripe_mutex, waitVars, ops>>
    BY <1>12, Zenon DEF LockBatchNext, rest, held
  <2>3. local' \in [Txns -> LockCall]
    <3>1. CASE LockFirst(t, rest, held)
      <4>1. PICK k \in rest : local' = [local EXCEPT ![t] =
               [NoCall EXCEPT !.key = k, !.exclusive = TRUE, !.batch = rest,
                              !.held = held, !.next = "batch"]]
        BY <3>1, Zenon DEF LockFirst
      <4> QED
        BY <1>1, <2>1, <4>1, NewCallTypes, Zenon
    <3>2. [NoCall EXCEPT !.held = held, !.next = "batch"] \in LockCall
      BY <1>3, <2>1, NewCallTypes, Zenon
    <3> QED
      BY <1>1, <2>2, <3>1, <3>2, Zenon
  <2>4. MovedTypes
    BY <1>1, <2>2, <2>3, Zenon DEF MovedTypes, Labels, txnVars
  <2> QED
    BY <1>1, <2>2, <2>4, SomeTyped, Zenon DEF txnVars
<1>13. CASE LockBatchFails(t)
  BY <1>1, <1>3, <1>13, SomeTyped, ReleaseTyped, Zenon DEF LockBatchFails, MovedTypes
<1>14. CASE CheckExpired(t)
  <2>1. MovedTypes
    BY <1>1, <1>3, <1>14, ReleaseTyped, Zenon DEF CheckExpired, MovedTypes, Labels
  <2> QED
    BY <1>1, <1>14, <2>1, SomeTyped, Zenon DEF CheckExpired
<1>15. CASE CommitState(t)
  <2>1. txn_state' \in [Txns -> States]
    BY <1>1, <1>15, Zenon DEF CommitState, States
  <2>2. CASE EndBatchOrCall(t) \/ EndCall(t)
    <3>1. MovedTypes
      BY <1>1, <2>2, EndTyped, Zenon DEF MovedTypes
    <3> QED
      BY <1>1, <1>15, <2>1, <3>1, SomeTyped, Zenon DEF CommitState
  <2>3. CASE ~(EndBatchOrCall(t) \/ EndCall(t))
    <3> DEFINE next == IF local[t].next = "commit" /\ txn_state[t] = "PREPARED"
                       THEN "commit_prepared" ELSE local[t].next
    <3>1. next \in Nexts
      BY <1>3, Zenon
    <3>2. local' = [local EXCEPT ![t] = [local[t] EXCEPT !.next = next]]
          /\ pc' = [pc EXCEPT ![t] = "write"] /\ tracked' = tracked
      BY <1>15, <2>3, Zenon DEF CommitState
    <3> HIDE DEF next
    <3>3. MovedTypes
      BY <1>1, <1>2, <3>1, <3>2, Zenon DEF MovedTypes, Labels
    <3> QED
      BY <1>1, <1>15, <2>1, <3>3, SomeTyped, Zenon DEF CommitState
  <2> QED
    BY <2>2, <2>3, Zenon
<1>16. CASE PrepareState(t)
  <2>1. txn_state' \in [Txns -> States]
    BY <1>1, <1>16, Zenon DEF PrepareState, States
  <2>2. expiration_time' \in [Txns -> Nat]
    <3>1. 0 \in Nat
      OBVIOUS
    <3> QED
      BY <1>1, <1>16, <3>1, Zenon DEF PrepareState
  <2>3. MovedTypes
    BY <1>1, <1>16, EndTyped, Zenon DEF PrepareState, MovedTypes, Labels
  <2>4. Stripes' = Stripes
    BY <1>16, Zenon DEF Stripes, PrepareState
  <2> QED
    BY <1>16, <2>1, <2>2, <2>3, <2>4, Zenon DEF PrepareState, TypeOK, MovedTypes, waitVars
<1>17. CASE Written(t)
  <2>1. txn_state' \in [Txns -> States]
    BY <1>1, <1>17, Zenon DEF Written, States
  <2>2. MovedTypes
    BY <1>1, <1>3, <1>17, ReleaseTyped, EndTyped, Zenon DEF Written, MovedTypes
  <2> QED
    BY <1>1, <1>17, <2>1, <2>2, SomeTyped, Zenon DEF Written
<1>18. CASE WriteFails(t)
  <2>1. MovedTypes
    BY <1>3, <1>18, ReleaseTyped, EndTyped, Zenon DEF WriteFails, MovedTypes
  <2> QED
    BY <1>1, <1>18, <2>1, SomeTyped, Zenon DEF WriteFails
<1>19. CASE Released(t)
  <2>1. txn_state' \in [Txns -> States] /\ expirable' \subseteq Txns
    BY <1>1, <1>19, Zenon DEF Released, States
  <2>2. MovedTypes
    BY <1>1, <1>2, <1>19, Zenon DEF Released, MovedTypes, Labels
  <2>3. Stripes' = Stripes
    BY <1>19, Zenon DEF Stripes, Released
  <2> QED
    BY <1>19, <2>1, <2>2, <2>3, Zenon DEF Released, TypeOK, MovedTypes, waitVars
<1> QED
  BY <1>7, <1>8, <1>9, <1>10, <1>11, <1>12, <1>13, <1>14, <1>15, <1>16, <1>17, <1>18,
     <1>19, Zenon DEF OwnStep

(* UnLock keeps types.                                                     *)
LEMMA UnLockTyped ==
    ASSUME TypeOK, NEW t \in Txns, UnLock(t)
    PROVE  TypeOK'
<1>1. /\ local \in [Txns -> LockCall] /\ pc \in [Txns -> Labels] /\ lock_cnt \in Int
      /\ keys \in [Keys -> LockInfo] /\ local[t] \in LockCall
  BY Zenon DEF TypeOK
<1> DEFINE its(s) == {k \in local[t].todo : setup.stripe[k] = s}
<1> DEFINE has(s) == {k \in its(s) : t \in ToSet(keys[k].txn_ids)}
<1>2. PICK s \in Stripes :
          /\ keys' = [k \in Keys |-> IF k \in its(s) THEN UnLockKey(t, keys[k]) ELSE keys[k]]
          /\ lock_cnt' = IF setup.max_num_locks > 0
                         THEN lock_cnt - Cardinality(has(s)) ELSE lock_cnt
          /\ local' = [local EXCEPT ![t].todo = @ \ its(s)]
          /\ pc' = [u \in Txns |-> IF pc[u] = "asleep" /\ Stripe(u) = s
                                   THEN "woken" ELSE pc[u]]
  BY Zenon DEF UnLock
<1>3. keys' \in [Keys -> LockInfo]
  BY <1>1, <1>2, UnLockKeyTyped, Zenon
<1>4. local[t].todo \in SUBSET Keys
  BY <1>1, Zenon DEF LockCall
<1>5. lock_cnt' \in Int
  <2>1. has(s) \subseteq Keys
    BY <1>4, Zenon
  <2>2. IsFiniteSet(has(s))
    BY <2>1, FiniteAssumption, FS_Subset, Zenon
  <2>3. Cardinality(has(s)) \in Nat
    BY <2>2, FS_CardinalityType, Zenon
  <2> QED
    BY <1>1, <1>2, <2>3
<1>6. local' \in [Txns -> LockCall]
  <2>1. [local[t] EXCEPT !.todo = local[t].todo \ its(s)] \in LockCall
    BY <1>1, <1>4, CallTypes, Zenon
  <2> QED
    BY <1>1, <1>2, <2>1, Zenon
<1>7. pc' \in [Txns -> Labels]
  BY <1>1, <1>2, Zenon DEF Labels
<1>8. setup' = setup
  BY Zenon DEF UnLock
<1>9. Stripes' = Stripes
  BY <1>8, Zenon DEF Stripes
<1> QED
  BY <1>3, <1>5, <1>6, <1>7, <1>9, Zenon DEF UnLock, TypeOK, txnVars, waitVars

(* Every step keeps types.                                                 *)
LEMMA StepType ==
    ASSUME TypeOK, CallsOK, [Next]_vars
    PROVE  TypeOK'
<1>1. CASE Tick
  <2>1. now' \in 0..MaxNow
    BY <1>1, LockAssumption DEF Tick, TypeOK
  <2>2. Stripes' = Stripes
    BY <1>1, Zenon DEF Stripes, Tick
  <2> QED
    BY <1>1, <2>1, <2>2, Zenon DEF Tick, TypeOK, txnVars, waitVars
<1>2. ASSUME NEW t \in Txns, TryStep(t)
      PROVE  TypeOK'
  <2>1. Tried(t) /\ TriedTypes
    BY <1>2, Tries, Zenon
  <2>2. keys' \in [Keys -> LockInfo]
    <3>1. local[t].key \in Keys
      BY <2>1, Zenon DEF Tried, CallsOK, AskOK, Trying
    <3> QED
      BY <2>1, <3>1, TriedTable, Zenon
  <2>3. Stripes' = Stripes
    BY <2>1, Zenon DEF Stripes, Tried
  <2> QED
    BY <2>1, <2>2, <2>3, Zenon DEF Tried, TriedTypes, WaitTypes, TypeOK
<1>3. CASE UNCHANGED vars
  <2>1. Stripes' = Stripes
    BY <1>3, Zenon DEF Stripes, vars
  <2> QED
    BY <1>3, <2>1, Zenon DEF vars, TypeOK, txnVars, waitVars
<1> QED
  BY <1>1, <1>2, <1>3, CallsTyped, OwnTyped, UnLockTyped, Zenon
     DEF Next, Runs, TryStep, OwnStep

-----------------------------------------------------------------------------
(* A step of one transaction, seen by the others                           *)

(* The others are at most woken, or robbed of their locks.                 *)
OthersQuiet(t) ==
    \A u \in Txns \ {t} :
        /\ pc'[u] = pc[u] \/ (pc[u] = "asleep" /\ pc'[u] = "woken")
        /\ local'[u] = local[u] /\ tracked'[u] = tracked[u]
        /\ \/ txn_state'[u] = txn_state[u]
           \/ /\ u \in expirable /\ txn_state[u] = "STARTED"
              /\ txn_state'[u] = "LOCKS_STOLEN"
        /\ expiration_time'[u] = expiration_time[u]
        /\ u \in expirable' <=> u \in expirable
OwnOK(t) == CallOK(t) /\ AskOK(t) /\ ExpiryOK(t)

(* CallsOK is kept for all when it is kept for the one that moves and the  *)
(* others are at most woken or robbed.                                     *)
LEMMA OthersStayOK ==
    ASSUME CallsOK, NEW t \in Txns, setup' = setup, OthersQuiet(t), OwnOK(t)'
    PROVE  CallsOK'
<1> SUFFICES ASSUME NEW u \in Txns \ {t}
             PROVE  OwnOK(u)'
  BY Zenon DEF CallsOK, OwnOK
<1>1. CallOK(u) /\ AskOK(u) /\ ExpiryOK(u)
  BY Zenon DEF CallsOK
<1>2. /\ pc'[u] = pc[u] \/ (pc[u] = "asleep" /\ pc'[u] = "woken")
      /\ local'[u] = local[u] /\ tracked'[u] = tracked[u]
      /\ \/ txn_state'[u] = txn_state[u]
         \/ /\ u \in expirable /\ txn_state[u] = "STARTED"
            /\ txn_state'[u] = "LOCKS_STOLEN"
      /\ expiration_time'[u] = expiration_time[u]
      /\ u \in expirable' <=> u \in expirable
  BY Zenon DEF OthersQuiet
<1>3. CallOK(u)'
  BY <1>1, <1>2, Zenon DEF CallOK, Awaiting, Untracked
<1>4. AskOK(u)'
  BY <1>1, <1>2, Zenon DEF AskOK, Trying
<1>5. ExpiryOK(u)'
  BY <1>1, <1>2, Zenon DEF ExpiryOK
<1> QED
  BY <1>3, <1>4, <1>5, Zenon DEF OwnOK

(* A step that leaves the lock table, in which the transaction gives up    *)
(* nothing it would have to give back, and claims nothing new.             *)
(* The transaction forgets no key it has and claims none it does not have. *)
Keeps(t) ==
    /\ UNCHANGED <<setup, keys>>
    /\ \A k \in Keys :
          /\ Mine(t, k) \/ k \in local[t].todo => Mine(t, k)' \/ k \in local'[t].todo
          /\ txn_state'[t] # "LOCKS_STOLEN" /\ Mine(t, k)' =>
                /\ txn_state[t] # "LOCKS_STOLEN" /\ Mine(t, k)
                /\ Strong(t, k)' => Strong(t, k)
OwnSteady(t) ==
    Keeps(t) /\ lock_cnt' = lock_cnt /\ pc[t] # "counting" /\ pc'[t] # "counting"

(* What a transaction that is at most woken or robbed holds, and relies    *)
(* on, stays.                                                              *)
LEMMA OthersKeep ==
    ASSUME NEW t \in Txns, OthersQuiet(t), NEW u \in Txns \ {t}, NEW k \in Keys
    PROVE  /\ Mine(u, k)' <=> Mine(u, k)
           /\ Strong(u, k)' <=> Strong(u, k)
           /\ local'[u].todo = local[u].todo
           /\ txn_state'[u] # "LOCKS_STOLEN" => txn_state[u] # "LOCKS_STOLEN"
           /\ pc'[u] = "counting" <=> pc[u] = "counting"
<1>1. /\ pc'[u] = pc[u] \/ (pc[u] = "asleep" /\ pc'[u] = "woken")
      /\ local'[u] = local[u] /\ tracked'[u] = tracked[u]
      /\ txn_state'[u] = txn_state[u] \/ txn_state'[u] = "LOCKS_STOLEN"
  BY Zenon DEF OthersQuiet
<1> QED
  BY <1>1, Zenon DEF Mine, Strong, Acquired

(* A step that leaves the lock table, forgets no lock and claims no new    *)
(* one keeps TableOK, NoLeak and Claims.                                   *)
LEMMA KeepsTable ==
    ASSUME TypeOK, NEW t \in Txns, OthersQuiet(t), Keeps(t),
           TableOK, NoLeak, Claims
    PROVE  TableOK' /\ NoLeak' /\ Claims'
<1>1. keys' = keys /\ setup' = setup
  BY Zenon DEF Keeps
<1>2. \A k \in Keys : Holders(k)' = Holders(k)
  BY <1>1, Zenon DEF Holders
<1>3. TableOK'
  BY <1>1, <1>2, Zenon DEF TableOK
<1>4. NoLeak'
  <2> SUFFICES ASSUME NEW k \in Keys, NEW u \in Holders(k)
               PROVE  Mine(u, k)' \/ k \in local'[u].todo
    BY <1>2, Zenon DEF NoLeak
  <2>1. Mine(u, k) \/ k \in local[u].todo
    BY Zenon DEF NoLeak
  <2>2. u \in Txns
    BY HoldersAreTxns, Zenon
  <2> QED
    BY <2>1, <2>2, OthersKeep, Zenon DEF Keeps
<1>5. Uniform => ExpiringHolders'
  <2>1. ASSUME NEW k \in Keys
        PROVE  keys'[k].expiration_time = keys[k].expiration_time
               /\ Holders(k)' = Holders(k) /\ setup'.expiration = setup.expiration
    BY <1>1, <1>2, Zenon
  <2> QED
    BY <2>1, Zenon DEF Claims, ExpiringHolders
<1>6. Uniform => ClaimsHeld'
  <2> SUFFICES ASSUME Uniform, NEW u \in Txns, NEW k \in Keys,
                      txn_state'[u] # "LOCKS_STOLEN", Mine(u, k)'
               PROVE  /\ u \in Holders(k)
                      /\ Strong(u, k)' => keys[k].exclusive \/ setup.unvalidated
    BY <1>1, <1>2, Zenon DEF ClaimsHeld
  <2>1. txn_state[u] # "LOCKS_STOLEN" /\ Mine(u, k) /\ (Strong(u, k)' => Strong(u, k))
    BY OthersKeep, Zenon DEF Keeps
  <2> QED
    BY <2>1, Zenon DEF Claims, ClaimsHeld
<1>7. Claims'
  BY <1>1, <1>5, <1>6, Zenon DEF Claims, Uniform
<1> QED
  BY <1>3, <1>4, <1>7, Zenon

(* The same for Counted, when nobody begins or ends to count.              *)
LEMMA SteadyTable ==
    ASSUME TypeOK, NEW t \in Txns, OthersQuiet(t), OwnSteady(t),
           TableOK, NoLeak, Claims, Counted
    PROVE  TableOK' /\ NoLeak' /\ Claims' /\ Counted'
<1>1. Counting' = Counting
  <2>1. \A u \in Txns : pc'[u] = "counting" <=> pc[u] = "counting"
    BY Zenon DEF OwnSteady, OthersQuiet
  <2> QED
    BY <2>1, Zenon DEF Counting
<1>2. Counted'
  <2>1. setup' = setup /\ keys' = keys /\ lock_cnt' = lock_cnt
    BY Zenon DEF OwnSteady, Keeps
  <2>2. Locked' = Locked
    BY <2>1, Zenon DEF Locked
  <2> QED
    BY <1>1, <2>1, <2>2, Zenon DEF Counted
<1> QED
  BY <1>2, KeepsTable, Zenon DEF OwnSteady

-----------------------------------------------------------------------------
(* Steps that leave the lock table                                         *)

(* A step that leaves the lock table.                                      *)
Moves(t) == setup' = setup /\ OthersQuiet(t) /\ OwnSteady(t) /\ OwnOK(t)'
StateKept(t) ==
    /\ UNCHANGED <<setup, keys, lock_cnt, expirable>>
    /\ \A u \in Txns \ {t} :
          txn_state'[u] = txn_state[u] /\ expiration_time'[u] = expiration_time[u]
    /\ expiration_time'[t] > 0 => expiration_time[t] > 0
    /\ (txn_state'[t] = "LOCKS_STOLEN") = (txn_state[t] = "LOCKS_STOLEN")

(* A step that changes neither the keys a transaction has nor the lock     *)
(* table is steady.                                                        *)
LEMMA QuietMoves ==
    ASSUME NEW t \in Txns, UNCHANGED <<setup, keys, lock_cnt, tracked>>,
           local'[t].held = local[t].held, local'[t].todo = local[t].todo,
           pc[t] \notin {"counting", "granted"}, pc'[t] \notin {"counting", "granted"},
           txn_state'[t] # "LOCKS_STOLEN" => txn_state[t] # "LOCKS_STOLEN"
    PROVE  OwnSteady(t)
<1>1. \A k \in Keys : Mine(t, k)' = Mine(t, k) /\ Strong(t, k)' = Strong(t, k)
  BY Zenon DEF Mine, Strong, Acquired
<1> QED
  BY <1>1, Zenon DEF OwnSteady, Keeps

(* A step that keeps the expirations and robs nobody keeps ExpiryOK.       *)
LEMMA ExpiryKept ==
    ASSUME CallsOK, NEW t \in Txns, StateKept(t), pc[t] # "gone"
    PROVE  ExpiryOK(t)'
<1>1. ExpiryOK(t)
  BY Zenon DEF CallsOK
<1> QED
  BY <1>1, Zenon DEF StateKept, ExpiryOK

(* The beginning of a release only moves keys to the ones to be unlocked.  *)
LEMMA ReleaseMoves ==
    ASSUME TypeOK, CallsOK, NEW t \in Txns, NEW S \in SUBSET Keys,
           NEW n \in {"idle", "COMMITTED", "ROLLEDBACK", "gone"},
           Release(t, S, n), StateKept(t),
           pc[t] \notin {"counting", "unlocking", "gone"},
           local[t].held \subseteq S, pc[t] = "granted" => local[t].key \in S,
           n # "idle" => TrackedKeys(t) \subseteq S
    PROVE  Moves(t)
<1>1. /\ pc \in [Txns -> Labels] /\ local \in [Txns -> LockCall]
      /\ tracked \in [Txns -> [Keys -> {"none", "shared", "exclusive"}]]
  BY Zenon DEF TypeOK
<1>2. /\ \A u \in Txns \ {t} : pc'[u] = pc[u] /\ local'[u] = local[u] /\ tracked'[u] = tracked[u]
      /\ pc'[t] = "unlocking"
      /\ local'[t] = [NoCall EXCEPT !.todo = S, !.next = n]
      /\ tracked'[t] = [k \in Keys |-> IF k \in S THEN "none" ELSE tracked[t][k]]
  BY <1>1, Zenon DEF Release
<1>3. local'[t].todo = S /\ local'[t].next = n /\ local'[t].held = {}
  BY <1>2, Zenon DEF NoCall
<1>4. \A k \in Keys : tracked'[t][k] = IF k \in S THEN "none" ELSE tracked[t][k]
  BY <1>2, Zenon
<1>5. OthersQuiet(t)
  BY <1>2, Zenon DEF OthersQuiet, StateKept
<1>6. local[t].todo = {} /\ AskOK(t)
  BY Zenon DEF CallsOK, CallOK
<1>7. OwnSteady(t)
  <2> SUFFICES ASSUME NEW k \in Keys
               PROVE  /\ Mine(t, k) => Mine(t, k)' \/ k \in local'[t].todo
                      /\ txn_state'[t] # "LOCKS_STOLEN" /\ Mine(t, k)' =>
                            /\ txn_state[t] # "LOCKS_STOLEN" /\ Mine(t, k)
                            /\ Strong(t, k)' => Strong(t, k)
    BY <1>2, <1>6, Zenon DEF OwnSteady, Keeps, StateKept
  <2>1. Mine(t, k) => Mine(t, k)' \/ k \in local'[t].todo
    BY <1>3, <1>4, Zenon DEF Mine, Acquired
  <2>2. Mine(t, k)' => Mine(t, k) /\ (Strong(t, k)' => Strong(t, k))
    BY <1>2, <1>3, <1>4, Zenon DEF Mine, Acquired, Strong
  <2> QED
    BY <2>1, <2>2, Zenon DEF StateKept
<1>8. CallOK(t)'
  <2>1. n # "idle" => Untracked(t)'
    BY <1>4, Zenon DEF Untracked, TrackedKeys
  <2> QED
    BY <1>2, <1>3, <1>4, <2>1, Zenon DEF CallOK
<1>9. AskOK(t)'
  <2>1. \A k \in Keys : tracked'[t][k] = "shared" => tracked[t][k] = "shared"
    BY <1>4, Zenon
  <2>2. pc'[t] \notin Trying
    BY <1>2, Zenon DEF Trying
  <2> QED
    BY <1>6, <2>1, <2>2, Zenon DEF AskOK, StateKept
<1>10. ExpiryOK(t)'
  BY ExpiryKept, Zenon
<1> QED
  BY <1>5, <1>7, <1>8, <1>9, <1>10, Zenon DEF Moves, OwnOK, StateKept

(* The call returns, and the transaction holds nothing but what it tracks. *)
LEMMA EndMoves ==
    ASSUME TypeOK, CallsOK, NEW t \in Txns, EndCall(t), StateKept(t),
           pc[t] \notin {"counting", "granted", "unlocking", "gone"},
           local[t].next # "batch"
    PROVE  Moves(t)
<1>1. pc \in [Txns -> Labels] /\ local \in [Txns -> LockCall]
  BY Zenon DEF TypeOK
<1>2. /\ \A u \in Txns \ {t} : pc'[u] = pc[u] /\ local'[u] = local[u]
      /\ pc'[t] = "idle" /\ local'[t] = NoCall /\ tracked' = tracked
  BY <1>1, Zenon DEF EndCall
<1>3. NoCall.todo = {} /\ NoCall.held = {}
  BY Zenon DEF NoCall
<1>4. OthersQuiet(t)
  BY <1>2, Zenon DEF OthersQuiet, StateKept
<1>5. local[t].todo = {} /\ local[t].held = {} /\ AskOK(t)
  BY Zenon DEF CallsOK, CallOK
<1>6. OwnSteady(t)
  BY <1>2, <1>3, <1>5, QuietMoves, Zenon DEF StateKept
<1>7. CallOK(t)'
  BY <1>2, <1>3, Zenon DEF CallOK
<1>8. AskOK(t)'
  BY <1>2, <1>5, Zenon DEF AskOK, StateKept, Trying
<1>9. ExpiryOK(t)'
  BY ExpiryKept, Zenon
<1> QED
  BY <1>4, <1>6, <1>7, <1>8, <1>9, Zenon DEF Moves, OwnOK, StateKept

(* Commit, Prepare and Rollback go from label to label.                    *)
LEMMA LabelMoves ==
    ASSUME TypeOK, CallsOK, NEW t \in Txns, NEW l \in {"commit", "prepare", "write"},
           NEW n \in Nexts, pc' = [pc EXCEPT ![t] = l],
           local' = [local EXCEPT ![t] = [local[t] EXCEPT !.next = n]],
           tracked' = tracked, StateKept(t),
           pc[t] \in {"idle", "check", "commit", "prepare"},
           local[t].next = "batch" => n = "batch",
           l = "prepare" => n = "prepare",
           l = "write" => txn_state'[t] \in Awaiting
    PROVE  Moves(t)
<1>1. pc \in [Txns -> Labels] /\ local \in [Txns -> LockCall] /\ local[t] \in LockCall
  BY Zenon DEF TypeOK
<1>2. /\ \A u \in Txns \ {t} : pc'[u] = pc[u] /\ local'[u] = local[u]
      /\ pc'[t] = l /\ local'[t] = [local[t] EXCEPT !.next = n]
  BY <1>1, Zenon
<1>3. local'[t].todo = local[t].todo /\ local'[t].held = local[t].held /\ local'[t].next = n
  BY <1>1, <1>2, Zenon DEF LockCall
<1>4. OthersQuiet(t)
  BY <1>2, Zenon DEF OthersQuiet, StateKept
<1>5. CallOK(t) /\ AskOK(t)
  BY Zenon DEF CallsOK
<1>6. OwnSteady(t)
  BY <1>2, <1>3, QuietMoves, Zenon DEF StateKept
<1>7. CallOK(t)'
  BY <1>2, <1>3, <1>5, Zenon DEF CallOK
<1>8. AskOK(t)'
  BY <1>2, <1>5, Zenon DEF AskOK, StateKept, Trying
<1>9. ExpiryOK(t)'
  BY ExpiryKept, Zenon
<1> QED
  BY <1>4, <1>6, <1>7, <1>8, <1>9, Zenon DEF Moves, OwnOK, StateKept

(* The first step of every call leaves the lock table.                     *)
LEMMA CallsMove ==
    ASSUME TypeOK, CallsOK, NEW t \in Txns, Calls(t)
    PROVE  Moves(t)
<1>1. /\ pc \in [Txns -> Labels] /\ local \in [Txns -> LockCall] /\ local[t] \in LockCall
      /\ txn_state \in [Txns -> States]
      /\ setup.wants[t] \subseteq Keys /\ setup.batches \subseteq SUBSET Keys
  BY SetupTypes, Zenon DEF TypeOK
<1>2. pc[t] = "idle" /\ local[t] = NoCall /\ AskOK(t)
  <2>1. pc[t] = "idle"
    BY Zenon DEF Calls, TryLock, CommitBatch, Starts, Commit, Prepare, Rollback,
                 RollbackToSavePoint, Destroy
  <2> QED
    BY <2>1, Zenon DEF CallsOK, CallOK
<1>3. NoCall.next = "none" /\ NoCall.held = {} /\ NoCall.todo = {}
  BY Zenon DEF NoCall
<1>4. {"commit", "prepare", "rollback"} \subseteq Nexts
  BY Zenon DEF Nexts
<1>5. ASSUME pc' = [pc EXCEPT ![t] = "lock"], NEW c, local' = [local EXCEPT ![t] = c],
             UNCHANGED <<setup, txnVars, keys, lock_cnt>>,
             c.todo = {}, c.held = {}, c.key \in Keys,
             c.upgrade => /\ c.exclusive /\ t \in setup.readers
                          /\ tracked[t][c.key] = "shared",
             c.next \in {"none", "batch"},
             ~c.exclusive => /\ t \in setup.readers /\ c.next = "none"
                             /\ tracked[t][c.key] = "none"
      PROVE  Moves(t)
  <2>1. /\ \A u \in Txns \ {t} : pc'[u] = pc[u] /\ local'[u] = local[u]
        /\ pc'[t] = "lock" /\ local'[t] = c
    BY <1>1, <1>5, Zenon
  <2>2. StateKept(t) /\ tracked' = tracked
    BY <1>5, Zenon DEF StateKept, txnVars
  <2>3. OthersQuiet(t)
    BY <2>1, <2>2, Zenon DEF OthersQuiet, StateKept
  <2>4. OwnSteady(t)
    BY <1>2, <1>3, <1>5, <2>1, <2>2, QuietMoves, Zenon DEF StateKept
  <2>5. CallOK(t)'
    BY <1>5, <2>1, Zenon DEF CallOK
  <2>6. AskOK(t)'
    BY <1>2, <1>5, <2>1, <2>2, Zenon DEF AskOK
  <2>7. ExpiryOK(t)'
    BY <1>2, <2>2, ExpiryKept, Zenon
  <2> QED
    BY <2>2, <2>3, <2>4, <2>5, <2>6, <2>7, Zenon DEF Moves, OwnOK, StateKept
<1>6. CASE TryLock(t)
  <2>1. PICK k \in setup.wants[t], x \in BOOLEAN :
          /\ x \/ t \in setup.readers
          /\ tracked[t][k] = "none" \/ (x /\ tracked[t][k] = "shared")
          /\ local' = [local EXCEPT ![t] =
                 [NoCall EXCEPT !.key = k, !.exclusive = x,
                                !.upgrade = tracked[t][k] = "shared"]]
    BY <1>6, Zenon DEF TryLock
  <2> DEFINE c == [NoCall EXCEPT !.key = k, !.exclusive = x,
                                 !.upgrade = tracked[t][k] = "shared"]
  <2>2. /\ c.todo = {} /\ c.held = {} /\ c.key = k /\ c.next = "none" /\ c.exclusive = x
        /\ c.upgrade = (tracked[t][k] = "shared")
    BY Zenon DEF NoCall
  <2>3. pc' = [pc EXCEPT ![t] = "lock"] /\ UNCHANGED <<setup, txnVars, keys, lock_cnt>>
    BY <1>6, Zenon DEF TryLock
  <2>4. k \in Keys /\ (tracked[t][k] = "shared" => t \in setup.readers)
    BY <1>1, <1>2, Zenon DEF AskOK
  <2> HIDE DEF c
  <2>5. local' = [local EXCEPT ![t] = c]
    BY <2>1, Zenon DEF c
  <2> QED
    BY <1>5, <2>1, <2>2, <2>3, <2>4, <2>5, Zenon
<1>7. CASE CommitBatch(t)
  <2>1. PICK S \in setup.batches : LockFirst(t, S, {})
    BY <1>7, Zenon DEF CommitBatch
  <2>2. PICK k \in S : local' = [local EXCEPT ![t] =
               [NoCall EXCEPT !.key = k, !.exclusive = TRUE, !.batch = S,
                              !.held = {}, !.next = "batch"]]
    BY <2>1, Zenon DEF LockFirst
  <2> DEFINE c == [NoCall EXCEPT !.key = k, !.exclusive = TRUE, !.batch = S,
                                 !.held = {}, !.next = "batch"]
  <2>3. /\ c.todo = {} /\ c.held = {} /\ c.key = k /\ c.next = "batch" /\ c.exclusive
        /\ ~c.upgrade
    BY Zenon DEF NoCall
  <2>4. pc' = [pc EXCEPT ![t] = "lock"] /\ UNCHANGED <<setup, txnVars, keys, lock_cnt>>
    BY <1>7, Zenon DEF CommitBatch
  <2>5. k \in Keys
    BY <1>1, Zenon
  <2> HIDE DEF c
  <2>6. local' = [local EXCEPT ![t] = c]
    BY <2>2, Zenon DEF c
  <2> QED
    BY <1>5, <2>3, <2>4, <2>5, <2>6, Zenon
<1>8. CASE Commit(t)
  <2>1. StateKept(t) /\ tracked' = tracked
    BY <1>8, Zenon DEF Commit, StateKept, txnVars
  <2> QED
    BY <1>2, <1>3, <1>4, <1>8, <2>1, LabelMoves, Zenon DEF Commit
<1>9. CASE Prepare(t)
  <2>1. StateKept(t) /\ tracked' = tracked
    BY <1>9, Zenon DEF Prepare, StateKept, txnVars
  <2> QED
    BY <1>2, <1>3, <1>4, <1>9, <2>1, LabelMoves, Zenon DEF Prepare
<1>10. TrackedKeys(t) \in SUBSET Keys /\ local[t].held = {}
  BY <1>2, <1>3, Zenon DEF TrackedKeys
<1>11. CASE Rollback(t)
  <2>1. CASE Release(t, TrackedKeys(t), "idle") /\ UNCHANGED txn_state
    <3>1. StateKept(t)
      BY <1>11, <2>1, Zenon DEF StateKept, Rollback
    <3> QED
      BY <1>2, <1>10, <2>1, <3>1, ReleaseMoves, Zenon
  <2>2. CASE /\ txn_state[t] = "PREPARED"
             /\ txn_state' = [txn_state EXCEPT ![t] = "AWAITING_ROLLBACK"]
             /\ pc' = [pc EXCEPT ![t] = "write"]
             /\ local' = [local EXCEPT ![t].next = "rollback"]
             /\ UNCHANGED tracked
    <3>1. txn_state'[t] = "AWAITING_ROLLBACK" /\ StateKept(t)
      BY <1>1, <1>11, <2>2, Zenon DEF StateKept, Rollback
    <3>2. txn_state'[t] \in Awaiting
      BY <3>1, Zenon DEF Awaiting
    <3> QED
      BY <1>2, <1>3, <1>4, <2>2, <3>1, <3>2, LabelMoves, Zenon
  <2> QED
    BY <1>11, <2>1, <2>2, Zenon DEF Rollback
<1>12. CASE RollbackToSavePoint(t)
  <2>1. PICK k \in TrackedKeys(t) : Release(t, {k}, "idle")
    BY <1>12, Zenon DEF RollbackToSavePoint
  <2>2. {k} \in SUBSET Keys
    BY <1>10, Zenon
  <2>3. StateKept(t)
    BY <1>12, Zenon DEF StateKept, RollbackToSavePoint
  <2> QED
    BY <1>2, <1>10, <2>1, <2>2, <2>3, ReleaseMoves, Zenon
<1>13. CASE Destroy(t)
  <2>1. StateKept(t) /\ Release(t, TrackedKeys(t), "gone")
    BY <1>13, Zenon DEF StateKept, Destroy
  <2> QED
    BY <1>2, <1>10, <2>1, ReleaseMoves, Zenon
<1> QED
  BY <1>6, <1>7, <1>8, <1>9, <1>11, <1>12, <1>13, Zenon DEF Calls

(* The lock a call has got becomes one it tracks ...                       *)
LEMMA TrackEffect ==
    ASSUME TypeOK, CallsOK, NEW t \in Txns, pc[t] = "granted", local[t].next = "none",
           Track(t), setup' = setup,
           pc' = [pc EXCEPT ![t] = "idle"], local' = [local EXCEPT ![t] = NoCall]
    PROVE  /\ \A u \in Txns \ {t} :
                 pc'[u] = pc[u] /\ local'[u] = local[u] /\ tracked'[u] = tracked[u]
           /\ pc'[t] = "idle" /\ CallOK(t)' /\ AskOK(t)'
           /\ local'[t].todo = {} /\ local[t].todo = {}
           /\ \A k \in Keys : /\ Mine(t, k)' <=> Mine(t, k)
                              /\ Strong(t, k)' => Strong(t, k)
<1>1. /\ pc \in [Txns -> Labels] /\ local \in [Txns -> LockCall]
      /\ tracked \in [Txns -> [Keys -> {"none", "shared", "exclusive"}]]
  BY Zenon DEF TypeOK
<1>2. local[t].key \in Keys /\ local[t].todo = {} /\ AskOK(t) /\ local[t].held = {}
      /\ (~local[t].exclusive => t \in setup.readers)
  BY Zenon DEF CallsOK, CallOK, AskOK, Trying
<1> DEFINE how == IF local[t].exclusive THEN "exclusive" ELSE "shared"
<1>3. /\ \A u \in Txns \ {t} : pc'[u] = pc[u] /\ local'[u] = local[u] /\ tracked'[u] = tracked[u]
      /\ pc'[t] = "idle" /\ local'[t] = NoCall
      /\ tracked'[t] = [tracked[t] EXCEPT ![local[t].key] = how]
  BY <1>1, Zenon DEF Track
<1>4. \A k \in Keys : tracked'[t][k] = IF k = local[t].key THEN how ELSE tracked[t][k]
  <2>1. tracked[t] \in [Keys -> {"none", "shared", "exclusive"}]
    BY <1>1, Zenon
  <2> QED
    BY <1>2, <1>3, <2>1, Zenon
<1>5. local'[t].todo = {} /\ local'[t].held = {}
  <2>1. NoCall.todo = {} /\ NoCall.held = {}
    BY Zenon DEF NoCall
  <2> QED
    BY <1>3, <2>1, Zenon
<1>6. ASSUME NEW k \in Keys
      PROVE  (Mine(t, k)' <=> Mine(t, k)) /\ (Strong(t, k)' => Strong(t, k))
  <2>1. CASE k = local[t].key
    BY <1>2, <1>3, <1>4, <1>5, <2>1, Zenon DEF Mine, Strong, Acquired
  <2>2. CASE k # local[t].key
    BY <1>2, <1>3, <1>4, <1>5, <2>2, Zenon DEF Mine, Strong, Acquired
  <2> QED
    BY <2>1, <2>2, Zenon
<1>7. CallOK(t)'
  BY <1>3, <1>5, Zenon DEF CallOK
<1>8. AskOK(t)'
  <2>1. \A k \in Keys : tracked'[t][k] = "shared" => t \in setup.readers
    BY <1>2, <1>4, Zenon DEF AskOK
  <2> QED
    BY <1>3, <2>1, Zenon DEF AskOK, Trying
<1> QED
  BY <1>2, <1>3, <1>5, <1>6, <1>7, <1>8, Zenon

(* ... or, in a batch, one it holds.                                       *)
LEMMA KeepMoves ==
    ASSUME TypeOK, CallsOK, NEW t \in Txns, Validated(t) \/ LockBatchNext(t)
    PROVE  Moves(t)
<1>1. /\ pc \in [Txns -> Labels] /\ local \in [Txns -> LockCall] /\ local[t] \in LockCall
      /\ tracked \in [Txns -> [Keys -> {"none", "shared", "exclusive"}]]
  BY Zenon DEF TypeOK
<1>2. pc[t] = "granted" /\ local[t].key \in Keys /\ local[t].todo = {} /\ AskOK(t)
      /\ (~local[t].exclusive => t \in setup.readers /\ local[t].next = "none")
  <2>1. pc[t] = "granted"
    BY Zenon DEF Validated, LockBatchNext
  <2> QED
    BY <2>1, Zenon DEF CallsOK, CallOK, AskOK, Trying
<1>3. StateKept(t)
  BY Zenon DEF Validated, LockBatchNext, StateKept, txnVars
<1>4. ExpiryOK(t)'
  BY <1>2, <1>3, ExpiryKept, Zenon
<1>5. CASE Validated(t)
  <2>1. /\ \A u \in Txns \ {t} :
                 pc'[u] = pc[u] /\ local'[u] = local[u] /\ tracked'[u] = tracked[u]
        /\ pc'[t] = "idle" /\ CallOK(t)' /\ AskOK(t)'
        /\ local'[t].todo = {} /\ local[t].todo = {}
        /\ \A k \in Keys : /\ Mine(t, k)' <=> Mine(t, k)
                           /\ Strong(t, k)' => Strong(t, k)
    BY <1>5, TrackEffect, Zenon DEF Validated
  <2>2. OthersQuiet(t)
    BY <1>3, <2>1, Zenon DEF OthersQuiet, StateKept
  <2>3. OwnSteady(t)
    BY <1>2, <1>3, <2>1, Zenon DEF OwnSteady, Keeps, StateKept
  <2> QED
    BY <1>3, <1>4, <2>1, <2>2, <2>3, Zenon DEF Moves, OwnOK, StateKept
<1>6. CASE LockBatchNext(t)
  <2> DEFINE rest == local[t].batch \ {local[t].key}
  <2> DEFINE held == local[t].held \cup {local[t].key}
  <2>1. local[t].next = "batch" /\ rest \subseteq Keys /\ tracked' = tracked
    BY <1>1, <1>6, Zenon DEF LockBatchNext, LockCall, txnVars
  <2>2. /\ \A u \in Txns \ {t} : pc'[u] = pc[u] /\ local'[u] = local[u]
        /\ pc'[t] \in {"check", "lock"}
        /\ local'[t].held = held /\ local'[t].todo = {} /\ local'[t].next = "batch"
        /\ pc'[t] = "lock" => local'[t].key \in rest /\ local'[t].exclusive /\ ~local'[t].upgrade
    <3>1. CASE /\ local' = [local EXCEPT ![t] = [NoCall EXCEPT !.held = held, !.next = "batch"]]
               /\ pc' = [pc EXCEPT ![t] = "check"]
      BY <1>1, <3>1, Zenon DEF NoCall
    <3>2. CASE LockFirst(t, rest, held) /\ pc' = [pc EXCEPT ![t] = "lock"]
      <4>1. PICK k \in rest : local' = [local EXCEPT ![t] =
                 [NoCall EXCEPT !.key = k, !.exclusive = TRUE, !.batch = rest,
                                !.held = held, !.next = "batch"]]
        BY <3>2, Zenon DEF LockFirst
      <4> QED
        BY <1>1, <3>2, <4>1, Zenon DEF NoCall
    <3> QED
      BY <1>6, <3>1, <3>2, Zenon DEF LockBatchNext
  <2> HIDE DEF rest
  <2>3. OthersQuiet(t)
    BY <1>3, <2>1, <2>2, Zenon DEF OthersQuiet, StateKept
  <2>4. OwnSteady(t)
    <3> SUFFICES ASSUME NEW k \in Keys
                 PROVE  /\ Mine(t, k) => Mine(t, k)'
                        /\ Mine(t, k)' => Mine(t, k) /\ (Strong(t, k)' => Strong(t, k))
      BY <1>2, <1>3, <2>2, Zenon DEF OwnSteady, Keeps, StateKept
    <3> QED
      BY <1>2, <2>1, <2>2, Zenon DEF Mine, Strong, Acquired
  <2>5. CallOK(t)'
    BY <2>2, Zenon DEF CallOK
  <2>6. AskOK(t)'
    BY <1>2, <1>3, <2>1, <2>2, Zenon DEF AskOK, StateKept, Trying
  <2> QED
    BY <1>3, <1>4, <2>3, <2>4, <2>5, <2>6, Zenon DEF Moves, OwnOK, StateKept
<1> QED
  BY <1>5, <1>6, Zenon

(* A downgrade that fails leaves the lock, which is tracked as shared.     *)
LEMMA DowngradeFailsMoves ==
    ASSUME TypeOK, CallsOK, NEW t \in Txns, DowngradeFails(t)
    PROVE  Moves(t)
<1>1. pc \in [Txns -> Labels] /\ local \in [Txns -> LockCall]
  BY Zenon DEF TypeOK
<1>2. pc[t] = "granted" /\ local[t].next = "none" /\ local[t].upgrade
  BY Zenon DEF DowngradeFails
<1>3. /\ local[t].todo = {} /\ local[t].held = {} /\ AskOK(t)
      /\ local[t].key \in Keys /\ tracked[t][local[t].key] = "shared"
  BY <1>2, Zenon DEF CallsOK, CallOK, AskOK, Trying
<1>4. StateKept(t)
  BY Zenon DEF DowngradeFails, StateKept, txnVars
<1>5. /\ \A u \in Txns \ {t} : pc'[u] = pc[u] /\ local'[u] = local[u]
      /\ pc'[t] = "idle" /\ local'[t] = NoCall /\ tracked' = tracked
  BY <1>1, Zenon DEF DowngradeFails, txnVars
<1>6. local'[t].todo = {} /\ local'[t].held = {}
  <2>1. NoCall.todo = {} /\ NoCall.held = {}
    BY Zenon DEF NoCall
  <2> QED
    BY <1>5, <2>1, Zenon
<1>7. OthersQuiet(t)
  BY <1>4, <1>5, Zenon DEF OthersQuiet, StateKept
<1>8. OwnSteady(t)
  <2> SUFFICES ASSUME NEW k \in Keys
               PROVE  /\ Mine(t, k) => Mine(t, k)'
                      /\ Mine(t, k)' => Mine(t, k) /\ (Strong(t, k)' => Strong(t, k))
    BY <1>2, <1>3, <1>4, <1>5, Zenon DEF OwnSteady, Keeps, StateKept
  <2> QED
    BY <1>3, <1>5, <1>6, Zenon DEF Mine, Strong, Acquired
<1>9. CallOK(t)'
  BY <1>5, <1>6, Zenon DEF CallOK
<1>10. AskOK(t)'
  BY <1>3, <1>4, <1>5, Zenon DEF AskOK, StateKept, Trying
<1>11. ExpiryOK(t)'
  BY <1>2, <1>4, ExpiryKept, Zenon
<1> QED
  BY <1>4, <1>7, <1>8, <1>9, <1>10, <1>11, Zenon DEF Moves, OwnOK, StateKept

(* The end of a release leaves the locks; a destroyed transaction tracks   *)
(* none.                                                                   *)
LEMMA ReleasedMoves ==
    ASSUME TypeOK, CallsOK, NEW t \in Txns, Released(t)
    PROVE  Moves(t)
<1>1. /\ pc \in [Txns -> Labels] /\ local \in [Txns -> LockCall] /\ local[t] \in LockCall
      /\ txn_state \in [Txns -> States]
  BY Zenon DEF TypeOK
<1>2. pc[t] = "unlocking" /\ local[t].todo = {}
  BY Zenon DEF Released
<1>3. /\ local[t].next \in {"idle", "COMMITTED", "ROLLEDBACK", "gone"} /\ local[t].held = {}
      /\ local[t].next # "idle" => Untracked(t)
      /\ AskOK(t) /\ ExpiryOK(t)
  BY <1>2, Zenon DEF CallsOK, CallOK
<1>4. /\ \A u \in Txns \ {t} : pc'[u] = pc[u] /\ local'[u] = local[u]
                              /\ txn_state'[u] = txn_state[u]
      /\ pc'[t] = (IF local[t].next = "gone" THEN "gone" ELSE "idle")
      /\ local'[t] = NoCall /\ tracked' = tracked
      /\ expiration_time' = expiration_time
      /\ UNCHANGED <<setup, keys, lock_cnt>>
      /\ txn_state'[t] = IF local[t].next \in {"COMMITTED", "ROLLEDBACK"}
                         THEN local[t].next ELSE txn_state[t]
  BY <1>1, Zenon DEF Released
<1>5. NoCall.todo = {} /\ NoCall.held = {}
  BY Zenon DEF NoCall
<1>0. expirable' = IF local[t].next = "gone" /\ expiration_time[t] > 0
                   THEN expirable \ {t} ELSE expirable
  BY Zenon DEF Released
<1>6. ASSUME NEW u \in Txns, u # t \/ local[t].next # "gone"
      PROVE  u \in expirable' <=> u \in expirable
  BY <1>0, <1>6, Zenon
<1>7. expirable' \subseteq expirable
  BY <1>0, Zenon
<1>8. OthersQuiet(t)
  BY <1>4, <1>6, Zenon DEF OthersQuiet
<1>9. OwnSteady(t)
  <2>1. CASE local[t].next \in {"COMMITTED", "ROLLEDBACK"}
    <3>1. \A k \in Keys : ~Mine(t, k) /\ ~Mine(t, k)'
      BY <1>2, <1>3, <1>4, <1>5, <2>1, Zenon DEF Mine, Acquired, Untracked
    <3> QED
      BY <1>2, <1>4, <3>1, Zenon DEF OwnSteady, Keeps
  <2>2. CASE local[t].next \notin {"COMMITTED", "ROLLEDBACK"}
    BY <1>2, <1>3, <1>4, <1>5, <2>2, QuietMoves, Zenon
  <2> QED
    BY <2>1, <2>2, Zenon
<1>10. CallOK(t)'
  <2>1. pc'[t] = "gone" => Untracked(t)'
    BY <1>3, <1>4, Zenon DEF Untracked
  <2> QED
    BY <1>4, <1>5, <2>1, Zenon DEF CallOK
<1>11. AskOK(t)'
  BY <1>3, <1>4, Zenon DEF AskOK, Trying
<1>12. ExpiryOK(t)'
  <2>1. txn_state'[t] = "LOCKS_STOLEN" => txn_state[t] = "LOCKS_STOLEN"
    BY <1>4, Zenon
  <2> QED
    BY <1>2, <1>3, <1>4, <1>6, <1>7, <2>1, Zenon DEF ExpiryOK
<1> QED
  BY <1>4, <1>8, <1>9, <1>10, <1>11, <1>12, Zenon DEF Moves, OwnOK

(* All steps inside a call but CountLock, Downgrade, UnLock and those of   *)
(* AcquireWithTimeout leave the lock table.                                *)
LEMMA OwnMoves ==
    ASSUME TypeOK, CallsOK, NEW t \in Txns, OwnStep(t), ~CountLock(t), ~Downgrade(t)
    PROVE  Moves(t)
<1>1. /\ pc \in [Txns -> Labels] /\ local \in [Txns -> LockCall] /\ local[t] \in LockCall
      /\ txn_state \in [Txns -> States] /\ expiration_time \in [Txns -> Nat]
      /\ local[t].held \in SUBSET Keys /\ local[t].next \in Nexts
      /\ TrackedKeys(t) \in SUBSET Keys
  <2>1. local[t] \in LockCall
    BY Zenon DEF TypeOK
  <2> QED
    BY <2>1, Zenon DEF TypeOK, LockCall, TrackedKeys
<1>2. local[t].next # "batch" => local[t].held = {}
  BY Zenon DEF CallsOK, CallOK
<1>3. \A n \in Nexts : n = local[t].next =>
          [local EXCEPT ![t] = [local[t] EXCEPT !.next = n]] = local
  <2>1. [local[t] EXCEPT !.next = local[t].next] = local[t]
    BY <1>1, Zenon DEF LockCall
  <2> QED
    BY <1>1, <2>1, Zenon
<1>4. CASE Conflict(t)
  <2>1. StateKept(t) /\ Release(t, {local[t].key}, "idle")
    BY <1>4, Zenon DEF Conflict, StateKept
  <2>2. pc[t] = "granted" /\ local[t].next = "none"
    BY <1>4, Zenon DEF Conflict
  <2>3. {local[t].key} \in SUBSET Keys
    BY <2>2, Zenon DEF CallsOK, AskOK, Trying
  <2> QED
    BY <1>2, <2>1, <2>2, <2>3, ReleaseMoves, Zenon
<1>5. CASE TryLockFails(t)
  <2>1. StateKept(t) /\ EndCall(t)
    BY <1>5, Zenon DEF TryLockFails, StateKept, txnVars, EndCall
  <2> QED
    BY <1>5, <2>1, EndMoves, Zenon DEF TryLockFails
<1>6. CASE LockBatchFails(t)
  <2>1. StateKept(t) /\ Release(t, local[t].held, "idle") /\ pc[t] = "refused"
    BY <1>6, Zenon DEF LockBatchFails, StateKept
  <2> QED
    BY <1>1, <2>1, ReleaseMoves, Zenon
<1>7. CASE CheckExpired(t)
  <2>1. StateKept(t) /\ pc[t] = "check"
    BY <1>7, Zenon DEF CheckExpired, StateKept
  <2>2. CASE Release(t, local[t].held, "idle")
    BY <1>1, <2>1, <2>2, ReleaseMoves, Zenon
  <2>3. CASE pc' = [pc EXCEPT ![t] = "commit"] /\ UNCHANGED <<local, tracked>>
    BY <1>1, <1>3, <2>1, <2>3, LabelMoves, Zenon
  <2> QED
    BY <1>7, <2>2, <2>3, Zenon DEF CheckExpired
<1>8. ASSUME EndBatchOrCall(t), StateKept(t), pc[t] \in {"commit", "prepare", "write"}
      PROVE  Moves(t)
  <2>1. CASE local[t].next = "batch"
    BY <1>1, <1>8, <2>1, ReleaseMoves, Zenon DEF EndBatchOrCall
  <2>2. CASE local[t].next # "batch"
    BY <1>8, <2>2, EndMoves, Zenon DEF EndBatchOrCall
  <2> QED
    BY <2>1, <2>2, Zenon
<1>9. CASE CommitState(t)
  <2>1. CASE /\ txn_state[t] \in {"STARTED", "PREPARED"}
             /\ txn_state' = [txn_state EXCEPT ![t] = "AWAITING_COMMIT"]
             /\ pc' = [pc EXCEPT ![t] = "write"]
             /\ local' = [local EXCEPT ![t].next =
                    IF @ = "commit" /\ txn_state[t] = "PREPARED"
                    THEN "commit_prepared" ELSE @]
             /\ UNCHANGED tracked
    <3> DEFINE next == IF local[t].next = "commit" /\ txn_state[t] = "PREPARED"
                       THEN "commit_prepared" ELSE local[t].next
    <3>1. next \in Nexts /\ (local[t].next = "batch" => next = "batch")
      BY <1>1, Zenon DEF Nexts
    <3>2. local' = [local EXCEPT ![t] = [local[t] EXCEPT !.next = next]]
      BY <2>1, Zenon
    <3>3. txn_state'[t] = "AWAITING_COMMIT" /\ pc[t] = "commit" /\ StateKept(t)
      BY <1>1, <1>9, <2>1, Zenon DEF CommitState, StateKept
    <3>4. txn_state'[t] \in Awaiting
      BY <3>3, Zenon DEF Awaiting
    <3> HIDE DEF next
    <3> QED
      BY <2>1, <3>1, <3>2, <3>3, <3>4, LabelMoves, Zenon
  <2>2. CASE EndBatchOrCall(t) /\ UNCHANGED txn_state
    <3>1. StateKept(t) /\ pc[t] = "commit"
      BY <1>9, <2>2, Zenon DEF CommitState, StateKept
    <3> QED
      BY <1>8, <2>2, <3>1, Zenon
  <2>3. CASE /\ txn_state[t] = "STARTED" /\ local[t].next = "commit" /\ EndCall(t)
             /\ txn_state' = [txn_state EXCEPT ![t] =
                    IF expiration_time[t] > 0 THEN "AWAITING_COMMIT" ELSE @]
    <3>1. pc[t] = "commit" /\ txn_state'[t] # "LOCKS_STOLEN"
      BY <1>1, <1>9, <2>3, Zenon DEF CommitState
    <3>2. \A u \in Txns \ {t} : txn_state'[u] = txn_state[u]
      BY <1>1, <2>3, Zenon
    <3>3. StateKept(t)
      BY <1>9, <2>3, <3>1, <3>2, Zenon DEF CommitState, StateKept
    <3> QED
      BY <2>3, <3>1, <3>3, EndMoves, Zenon
  <2> QED
    BY <1>9, <2>1, <2>2, <2>3, Zenon DEF CommitState
<1>10. CASE PrepareState(t)
  <2>0. pc[t] = "prepare" /\ local[t].next = "prepare"
    BY <1>10, Zenon DEF PrepareState, CallsOK, CallOK
  <2>1. CASE txn_state[t] = "STARTED" /\ UNCHANGED <<tracked, local>>
             /\ txn_state' = [txn_state EXCEPT ![t] = "AWAITING_PREPARE"]
             /\ expiration_time' = [expiration_time EXCEPT ![t] = 0]
             /\ pc' = [pc EXCEPT ![t] = "write"]
    <3>1. ~(0 > 0)
      OBVIOUS
    <3>2. txn_state'[t] = "AWAITING_PREPARE" /\ StateKept(t)
      BY <1>1, <1>10, <2>1, <3>1, Zenon DEF PrepareState, StateKept
    <3>3. txn_state'[t] \in Awaiting
      BY <3>2, Zenon DEF Awaiting
    <3>4. local' = [local EXCEPT ![t] = [local[t] EXCEPT !.next = "prepare"]]
      BY <1>1, <1>3, <2>0, <2>1, Zenon
    <3>5. "prepare" \in Nexts
      BY <1>1, <2>0, Zenon
    <3> QED
      BY <2>0, <2>1, <3>2, <3>3, <3>4, <3>5, LabelMoves, Zenon
  <2>2. CASE EndCall(t) /\ UNCHANGED <<txn_state, expiration_time>>
    <3>1. StateKept(t)
      BY <1>10, <2>2, Zenon DEF PrepareState, StateKept
    <3> QED
      BY <2>0, <2>2, <3>1, EndMoves, Zenon
  <2> QED
    BY <1>10, <2>1, <2>2, Zenon DEF PrepareState
<1>11. CASE Written(t)
  <2>1. pc[t] = "write" /\ txn_state[t] # "LOCKS_STOLEN"
    BY <1>11, Zenon DEF Written, CallsOK, CallOK, Awaiting
  <2>2. StateKept(t)
    BY <1>1, <1>11, <2>1, Zenon DEF Written, StateKept
  <2>3. CASE EndCall(t) /\ local[t].next = "prepare"
    BY <2>1, <2>2, <2>3, EndMoves, Zenon
  <2>4. CASE Release(t, local[t].held, "idle")
    BY <1>1, <2>1, <2>2, <2>4, ReleaseMoves, Zenon
  <2>5. CASE /\ local[t].next # "batch"
             /\ Release(t, TrackedKeys(t), "COMMITTED") \/ Release(t, TrackedKeys(t), "ROLLEDBACK")
    BY <1>1, <1>2, <2>1, <2>2, <2>5, ReleaseMoves, Zenon
  <2> QED
    BY <1>11, <2>3, <2>4, <2>5, Zenon DEF Written
<1>12. CASE WriteFails(t)
  <2>1. pc[t] = "write" /\ StateKept(t)
    BY <1>12, Zenon DEF WriteFails, StateKept
  <2>2. CASE Release(t, TrackedKeys(t), "idle") /\ local[t].next = "commit"
    BY <1>1, <1>2, <2>1, <2>2, ReleaseMoves, Zenon
  <2> QED
    BY <1>8, <1>12, <2>1, <2>2, Zenon DEF WriteFails
<1> QED
  BY <1>4, <1>5, <1>6, <1>7, <1>9, <1>10, <1>11, <1>12, KeepMoves, DowngradeFailsMoves,
     ReleasedMoves, Zenon DEF OwnStep

-----------------------------------------------------------------------------
(* Steps that change the lock table: a lock is taken                       *)

(* An attempt keeps CallsOK for the one that makes it and leaves the       *)
(* others, but for the robbed.                                             *)
LEMMA TriedCalls ==
    ASSUME CallsOK, NEW t \in Txns, Tried(t)
    PROVE  setup' = setup /\ OthersQuiet(t) /\ OwnOK(t)'
<1>1. CallOK(t) /\ AskOK(t) /\ ExpiryOK(t)
  BY Zenon DEF CallsOK
<1>2. StolenOnly
  BY Zenon DEF Tried, Free, Join, Retake, Refuse, StolenOnly
<1>3. /\ pc[t] \in {"lock", "blocked", "asleep", "woken", "unwaited"}
      /\ UNCHANGED <<setup, expiration_time, expirable, tracked>>
      /\ OthersKept(t) /\ SameCall(local[t], local'[t])
  BY Zenon DEF Tried
<1>4. pc'[t] \in {"counting", "granted", "refused", "blocked", "unwaited", "asleep", "woken"}
  BY Zenon DEF Tried, Free, Join, Retake, Refuse
<1>5. OthersQuiet(t)
  BY <1>2, <1>3, Zenon DEF OthersQuiet, OthersKept, StolenOnly
<1>6. CallOK(t)'
  BY <1>1, <1>3, <1>4, Zenon DEF CallOK, SameCall
<1>7. AskOK(t)'
  BY <1>1, <1>3, <1>4, Zenon DEF AskOK, SameCall, Trying
<1>8. ExpiryOK(t)'
  BY <1>1, <1>2, <1>3, Zenon DEF ExpiryOK, StolenOnly
<1> QED
  BY <1>3, <1>5, <1>6, <1>7, <1>8, Zenon DEF OwnOK

(* A refused attempt leaves the lock table.                                *)
LEMMA RefusedMoves ==
    ASSUME CallsOK, NEW t \in Txns, Tried(t), Refuse(t)
    PROVE  Moves(t)
<1>1. setup' = setup /\ OthersQuiet(t) /\ OwnOK(t)'
  BY TriedCalls, Zenon
<1>2. /\ UNCHANGED <<setup, keys, lock_cnt, tracked>>
      /\ local'[t].held = local[t].held /\ local'[t].todo = local[t].todo
      /\ pc[t] \notin {"counting", "granted"} /\ pc'[t] \notin {"counting", "granted"}
      /\ txn_state'[t] # "LOCKS_STOLEN" => txn_state[t] # "LOCKS_STOLEN"
  BY Zenon DEF Tried, Refuse, SameCall, StolenOnly
<1> QED
  BY <1>1, <1>2, QuietMoves, Zenon DEF Moves

(* AcquireLocked succeeded.                                                *)
Won(t) ==
    \/ Free(t, local[t].key) \/ Join(t, local[t].key) \/ Retake(t, local[t].key)

(* InfoOK of a lock with holders, from its fields.                         *)
LEMMA InfoFields ==
    ASSUME NEW info, NEW s, NEW readers, info.txn_ids = s, s # << >>,
           \A i, j \in DOMAIN s : s[i] = s[j] => i = j,
           info.exclusive => \A t, u \in ToSet(s) : t = u,
           ~info.exclusive => ToSet(s) \subseteq readers
    PROVE  InfoOK(info, readers)
BY Zenon DEF InfoOK

(* What Append does to the list of holders.                                *)
LEMMA AppendFacts ==
    ASSUME NEW s \in Seq(Txns), NEW t \in Txns
    PROVE  /\ Len(s) \in Nat /\ DOMAIN s = 1..Len(s) /\ DOMAIN Append(s, t) = 1..Len(s) + 1
           /\ Append(s, t)[Len(s) + 1] = t
           /\ \A i \in 1..Len(s) : Append(s, t)[i] = s[i]
           /\ Append(s, t) # << >>
<1>1. /\ Len(s) \in Nat /\ DOMAIN s = 1..Len(s) /\ DOMAIN Append(s, t) = 1..Len(s) + 1
      /\ Append(s, t)[Len(s) + 1] = t
      /\ \A i \in 1..Len(s) : Append(s, t)[i] = s[i]
      /\ Len(Append(s, t)) = Len(s) + 1
  OBVIOUS
<1>2. Len(<< >>) = 0 /\ Len(Append(s, t)) # 0
  BY <1>1
<1> QED
  BY <1>1, <1>2, Zenon

(* The holders of a list of one, and of a list with one appended.          *)
LEMMA SoleHolder ==
    ASSUME NEW t \in Txns
    PROVE  /\ ToSet(<<t>>) = {t} /\ DOMAIN <<t>> = {1} /\ <<t>> # << >>
           /\ \A s \in Seq(Txns) : ToSet(Append(s, t)) = ToSet(s) \cup {t}
<1>1. ToSet(<<t>>) = {t} /\ DOMAIN <<t>> = {1} /\ <<t>> # << >>
  BY DEF ToSet
<1>2. ASSUME NEW s \in Seq(Txns)
      PROVE  ToSet(Append(s, t)) = ToSet(s) \cup {t}
  <2>1. /\ Len(s) \in Nat /\ DOMAIN s = 1..Len(s) /\ DOMAIN Append(s, t) = 1..Len(s) + 1
        /\ Append(s, t)[Len(s) + 1] = t
        /\ \A i \in 1..Len(s) : Append(s, t)[i] = s[i]
    BY AppendFacts, Zenon
  <2>2. \A i \in 1..Len(s) + 1 : i \in 1..Len(s) \/ i = Len(s) + 1
    BY <2>1
  <2>3. 1..Len(s) \subseteq 1..Len(s) + 1 /\ Len(s) + 1 \in 1..Len(s) + 1
    BY <2>1
  <2> QED
    BY <2>1, <2>2, <2>3, Zenon DEF ToSet
<1> QED
  BY <1>1, <1>2, Zenon

(* The lock that the transaction takes, and whom it takes it from.         *)
(* The key after a successful AcquireLocked.                               *)
Placed(t, k) ==
    /\ k \in Keys /\ \A j \in Keys \ {k} : keys'[j] = keys[j]
    /\ InfoOK(keys'[k], setup.readers)
    /\ \/ ~Join(t, k) /\ keys'[k] = MyLock(t) /\ Holders(k)' = {t}
       \/ /\ Join(t, k) /\ keys'[k] = Joined(t, keys[k])
          /\ Holders(k)' = Holders(k) \cup {t}
    /\ ~local[t].exclusive =>
          /\ t \in setup.readers /\ tracked[t][k] = "none" /\ local[t].held = {}
    /\ keys'[k].exclusive \in BOOLEAN
    /\ keys'[k].exclusive <=> local[t].exclusive
    /\ keys'[k].txn_ids # << >>

(* The lock table after an attempt that succeeded (AcquireLocked).         *)
LEMMA WonLock ==
    ASSUME TypeOK, CallsOK, TableOK, NoLeak, NEW t \in Txns, Tried(t), Won(t),
           NEW k, k = local[t].key
    PROVE  Placed(t, k)
<1>1. k \in Keys
  BY Zenon DEF Tried, CallsOK, AskOK, Trying
<1>2. local[t].exclusive \in BOOLEAN
  <2>1. local[t] \in LockCall
    BY Zenon DEF TypeOK
  <2> QED
    BY <2>1, Zenon DEF LockCall
<1>3. ~local[t].exclusive =>
          t \in setup.readers /\ tracked[t][k] = "none" /\ local[t].held = {} /\ local[t].todo = {}
  BY Zenon DEF Tried, CallsOK, CallOK, AskOK, Trying
<1>4. keys \in [Keys -> LockInfo] /\ InfoOK(keys[k], setup.readers)
      /\ keys[k].txn_ids \in Seq(Txns)
  BY <1>1, HoldersAreTxns, Zenon DEF TypeOK, TableOK
<1>5. CASE ~Join(t, k) /\ keys' = [keys EXCEPT ![k] = MyLock(t)]
  <2>1. keys'[k] = MyLock(t)
    BY <1>1, <1>4, <1>5, Zenon
  <2>2. MyLock(t).txn_ids = <<t>> /\ MyLock(t).exclusive = local[t].exclusive
    BY Zenon DEF MyLock
  <2>3. InfoOK(MyLock(t), setup.readers)
    <3>1. \A i, j \in DOMAIN <<t>> : <<t>>[i] = <<t>>[j] => i = j
      BY SoleHolder, Zenon
    <3>2. \A u, v \in ToSet(<<t>>) : u = v
      BY SoleHolder, Zenon
    <3>3. ~local[t].exclusive => ToSet(<<t>>) \subseteq setup.readers
      BY <1>3, SoleHolder, Zenon
    <3> QED
      BY <2>2, <3>1, <3>2, <3>3, SoleHolder, InfoFields, Zenon
  <2>4. Holders(k)' = {t}
    BY <2>1, <2>2, SoleHolder, Zenon DEF Holders
  <2>5. /\ InfoOK(keys'[k], setup.readers)
        /\ keys'[k].exclusive \in BOOLEAN
        /\ keys'[k].exclusive <=> local[t].exclusive
        /\ keys'[k].txn_ids # << >>
    BY <1>2, <2>1, <2>2, <2>3, SoleHolder, Zenon
  <2>6. \A j \in Keys \ {k} : keys'[j] = keys[j]
    BY <1>4, <1>5, Zenon
  <2> QED
    BY <1>1, <1>3, <1>5, <2>1, <2>4, <2>5, <2>6, Zenon DEF Placed
<1>6. CASE Join(t, k)
  <2>1. keys'[k] = Joined(t, keys[k]) /\ keys' = [keys EXCEPT ![k] = Joined(t, keys[k])]
        /\ ~keys[k].exclusive /\ ~local[t].exclusive
    BY <1>1, <1>4, <1>6, Zenon DEF Join
  <2> DEFINE s == keys[k].txn_ids
  <2>2. Joined(t, keys[k]).txn_ids = Append(s, t) /\ Joined(t, keys[k]).exclusive = FALSE
    BY Zenon DEF Joined
  <2>3. t \notin ToSet(s)
    <3>1. ~Mine(t, k) /\ k \notin local[t].todo
      BY <1>3, <2>1, Zenon DEF Mine, Acquired, Tried
    <3> QED
      BY <1>1, <3>1, Zenon DEF NoLeak, Holders
  <2>4. /\ \A i, j \in DOMAIN s : s[i] = s[j] => i = j
        /\ ToSet(s) \subseteq setup.readers
    BY <1>4, <2>1, Zenon DEF InfoOK
  <2>5. /\ Len(s) \in Nat /\ DOMAIN s = 1..Len(s) /\ DOMAIN Append(s, t) = 1..Len(s) + 1
        /\ Append(s, t)[Len(s) + 1] = t
        /\ \A i \in 1..Len(s) : Append(s, t)[i] = s[i]
        /\ Append(s, t) # << >>
    BY <1>4, AppendFacts, Zenon
  <2>6. \A i \in 1..Len(s) + 1 : i \in 1..Len(s) \/ i = Len(s) + 1
    BY <2>5
  <2>7. \A i \in 1..Len(s) : s[i] # t
    BY <2>3, <2>5, Zenon DEF ToSet
  <2>8. \A i, j \in DOMAIN Append(s, t) : Append(s, t)[i] = Append(s, t)[j] => i = j
    <3> SUFFICES ASSUME NEW i \in 1..Len(s) + 1, NEW j \in 1..Len(s) + 1,
                        Append(s, t)[i] = Append(s, t)[j]
                 PROVE  i = j
      BY <2>5, Zenon
    <3>1. CASE i \in 1..Len(s) /\ j \in 1..Len(s)
      BY <2>4, <2>5, <3>1, Zenon
    <3>2. CASE i = Len(s) + 1 \/ j = Len(s) + 1
      BY <2>5, <2>6, <2>7, <3>2, Zenon
    <3> QED
      BY <2>6, <3>1, <3>2, Zenon
  <2>9. ToSet(Append(s, t)) = ToSet(s) \cup {t}
    BY <1>4, SoleHolder, Zenon
  <2>10. InfoOK(Joined(t, keys[k]), setup.readers)
    <3>1. ToSet(Append(s, t)) \subseteq setup.readers
      BY <1>3, <2>1, <2>4, <2>9, Zenon
    <3> QED
      BY <2>2, <2>5, <2>8, <3>1, InfoFields, Zenon
  <2>11. Holders(k)' = Holders(k) \cup {t}
    BY <2>1, <2>2, <2>9, Zenon DEF Holders
  <2>12. /\ InfoOK(keys'[k], setup.readers)
         /\ keys'[k].exclusive \in BOOLEAN
         /\ keys'[k].exclusive <=> local[t].exclusive
         /\ keys'[k].txn_ids # << >>
    BY <2>1, <2>2, <2>5, <2>10, Zenon
  <2>13. \A j \in Keys \ {k} : keys'[j] = keys[j]
    BY <1>4, <2>1, Zenon
  <2> QED
    BY <1>1, <1>3, <1>6, <2>1, <2>11, <2>12, <2>13, Zenon DEF Placed
<1> QED
  BY <1>5, <1>6, Zenon DEF Won, Free, Retake

(* A successful attempt keeps the table well-formed, leaks nothing, and    *)
(* takes a lock from nobody who still relies on it.                        *)
LEMMA WonTable ==
    ASSUME TypeOK, CallsOK, TableOK, NoLeak, Claims, NEW t \in Txns, NEW k,
           k = local[t].key, Tried(t), Won(t)
    PROVE  TableOK' /\ NoLeak' /\ Claims'
<1>1. /\ k \in Keys /\ \A j \in Keys \ {k} : keys'[j] = keys[j]
      /\ InfoOK(keys'[k], setup.readers)
      /\ \/ ~Join(t, k) /\ keys'[k] = MyLock(t) /\ Holders(k)' = {t}
         \/ /\ Join(t, k) /\ keys'[k] = Joined(t, keys[k])
            /\ Holders(k)' = Holders(k) \cup {t}
      /\ ~local[t].exclusive =>
            t \in setup.readers /\ tracked[t][k] = "none" /\ local[t].held = {}
      /\ keys'[k].exclusive <=> local[t].exclusive
  <2>1. Placed(t, k)
    BY WonLock, Zenon
  <2> QED
    BY <2>1, Zenon DEF Placed
<1>2. /\ setup' = setup /\ tracked' = tracked /\ OthersQuiet(t) /\ SameCall(local[t], local'[t])
      /\ pc[t] \notin {"counting", "granted"} /\ pc'[t] \in {"counting", "granted"}
  BY TriedCalls, Zenon DEF Tried, Won, Free, Join, Retake
<1>3. \A j \in Keys \ {k} : keys'[j] = keys[j] /\ Holders(j)' = Holders(j)
  BY <1>1, Zenon DEF Holders
<1>4. Mine(t, k)' /\ (Strong(t, k)' => local[t].exclusive)
      /\ \A j \in Keys \ {k} : (Mine(t, j)' <=> Mine(t, j)) /\ (Strong(t, j)' <=> Strong(t, j))
  BY <1>1, <1>2, Zenon DEF Mine, Strong, Acquired, SameCall
<1>5. txn_state'[t] # "LOCKS_STOLEN" => txn_state[t] # "LOCKS_STOLEN"
  BY Zenon DEF Won, Free, Join, Retake, StolenOnly
<1>6. TableOK'
  <2>1. \A j \in Keys : InfoOK(keys'[j], setup.readers)
    BY <1>1, Zenon DEF TableOK
  <2> QED
    BY <1>2, <2>1, Zenon DEF TableOK
<1>7. NoLeak'
  <2> SUFFICES ASSUME NEW j \in Keys, NEW u, u \in Holders(j)'
               PROVE  Mine(u, j)' \/ j \in local'[u].todo
    BY Zenon DEF NoLeak
  <2>1. CASE u = t /\ j = k
    BY <1>4, <2>1, Zenon
  <2>2. CASE ~(u = t /\ j = k)
    <3>1. u \in Holders(j)
      BY <1>1, <1>3, <2>2, Zenon
    <3>2. u \in Txns /\ (Mine(u, j) \/ j \in local[u].todo)
      BY <3>1, HoldersAreTxns, Zenon DEF NoLeak
    <3>3. CASE u = t
      BY <1>2, <1>4, <2>2, <3>2, <3>3, Zenon DEF SameCall
    <3>4. CASE u # t
      BY <1>2, <3>2, <3>4, OthersKeep, Zenon
    <3> QED
      BY <3>3, <3>4, Zenon
  <2> QED
    BY <2>1, <2>2, Zenon
<1>8. ASSUME Uniform
      PROVE  ExpiringHolders'
  <2>0. ExpiringHolders
    BY <1>8, Zenon DEF Claims
  <2> SUFFICES ASSUME NEW j \in Keys, keys'[j].expiration_time > 0, NEW u, u \in Holders(j)'
               PROVE  setup.expiration[u] > 0
    BY <1>2, Zenon DEF ExpiringHolders
  <2>1. CASE j # k
    <3>1. keys'[j] = keys[j] /\ u \in Holders(j)
      BY <1>3, <2>1, Zenon
    <3> QED
      BY <2>0, <3>1, Zenon DEF ExpiringHolders
  <2>2. CASE j = k /\ keys'[k] = MyLock(t) /\ u = t
    <3>1. expiration_time[t] > 0
      <4>1. MyLock(t).expiration_time = expiration_time[t]
        BY Zenon DEF MyLock
      <4> QED
        BY <2>2, <4>1, Zenon
    <3> QED
      BY <2>2, <3>1, Zenon DEF CallsOK, ExpiryOK
  <2>3. CASE j = k /\ Join(t, k) /\ keys'[k] = Joined(t, keys[k])
             /\ Holders(k)' = Holders(k) \cup {t}
    <3>1. /\ keys'[k] = Joined(t, keys[k]) /\ keys[k] # NotLocked /\ ~keys[k].exclusive
          /\ t \in setup.readers /\ Holders(k)' \subseteq Holders(k) \cup {t}
      <4>1. keys[k] # NotLocked /\ ~keys[k].exclusive /\ ~local[t].exclusive
        BY <2>3, Zenon DEF Join
      <4> QED
        BY <1>1, <2>3, <4>1, Zenon
    <3>2. /\ keys[k].txn_ids \in Seq(Txns) /\ keys[k].txn_ids # << >>
          /\ Holders(k) \subseteq setup.readers
      BY <1>1, <3>1, HoldersAreTxns, Zenon DEF TableOK, InfoOK, Holders
    <3>3. keys[k].expiration_time > 0 \/ expiration_time[t] > 0
      <4>1. \/ keys'[k].expiration_time = keys[k].expiration_time
            \/ keys'[k].expiration_time = expiration_time[t]
        <5>1. Joined(t, keys[k]).expiration_time =
                  IF keys[k].expiration_time < expiration_time[t]
                  THEN expiration_time[t] ELSE keys[k].expiration_time
          BY Zenon DEF Joined
        <5> QED
          BY <3>1, <5>1, Zenon
      <4> QED
        BY <2>3, <4>1, Zenon
    <3>4. PICK v \in setup.readers : setup.expiration[v] > 0
      <4>1. CASE expiration_time[t] > 0
        BY <3>1, <4>1, Zenon DEF CallsOK, ExpiryOK
      <4>2. CASE keys[k].expiration_time > 0
        <5>1. 1 \in DOMAIN keys[k].txn_ids
          BY <3>2
        <5>2. keys[k].txn_ids[1] \in Holders(k)
          BY <5>1, Zenon DEF Holders, ToSet
        <5> QED
          BY <1>1, <2>0, <3>2, <4>2, <5>2, Zenon DEF ExpiringHolders
      <4> QED
        BY <3>3, <4>1, <4>2, Zenon
    <3>5. u \in setup.readers
      BY <2>3, <3>1, <3>2, Zenon
    <3> QED
      BY <1>8, <3>4, <3>5, Zenon DEF Uniform
  <2> QED
    BY <1>1, <2>1, <2>2, <2>3, Zenon
<1>9. ASSUME Uniform
      PROVE  ClaimsHeld'
  <2>0. ExpiringHolders /\ ClaimsHeld
    BY <1>9, Zenon DEF Claims
  <2> SUFFICES ASSUME NEW u \in Txns, NEW j \in Keys,
                      txn_state'[u] # "LOCKS_STOLEN", Mine(u, j)'
               PROVE  /\ u \in Holders(j)'
                      /\ Strong(u, j)' => keys'[j].exclusive \/ setup.unvalidated
    BY <1>2, Zenon DEF ClaimsHeld
  <2>1. CASE j # k
    <3>1. txn_state[u] # "LOCKS_STOLEN" /\ Mine(u, j) /\ (Strong(u, j)' => Strong(u, j))
      BY <1>2, <1>4, <1>5, <2>1, OthersKeep, Zenon
    <3> QED
      BY <1>3, <2>0, <2>1, <3>1, Zenon DEF ClaimsHeld
  <2>2. CASE j = k /\ u = t
    BY <1>1, <1>4, <2>2, Zenon
  <2>3. CASE j = k /\ u # t
    <3>1. txn_state[u] # "LOCKS_STOLEN" /\ Mine(u, k) /\ (Strong(u, k)' => Strong(u, k))
      BY <1>1, <1>2, <2>3, OthersKeep, Zenon
    <3>2. u \in Holders(k) /\ (Strong(u, k) => keys[k].exclusive \/ setup.unvalidated)
      BY <1>1, <2>0, <3>1, Zenon DEF ClaimsHeld
    <3>3. ~Free(t, k)
      <4>1. NotLocked.txn_ids = << >> /\ ToSet(<< >>) = {}
        BY DEF NotLocked, ToSet
      <4> QED
        BY <3>2, <4>1, Zenon DEF Free, Holders
    <3>4. ~Retake(t, k)
      <4> SUFFICES ASSUME Retake(t, k)
                   PROVE  FALSE
        OBVIOUS
      <4>1. keys[k].expiration_time > 0 /\ u \notin expirable
        BY <2>3, <3>2, Zenon DEF Retake
      <4>2. setup.expiration[u] > 0
        BY <1>1, <2>0, <3>2, <4>1, Zenon DEF ExpiringHolders
      <4>3. pc[u] = "gone"
        BY <4>1, <4>2, Zenon DEF CallsOK, ExpiryOK
      <4>4. local[u] = NoCall /\ Untracked(u)
        BY <4>3, Zenon DEF CallsOK, CallOK
      <4>5. NoCall.held = {}
        BY Zenon DEF NoCall
      <4> QED
        BY <1>1, <3>1, <4>3, <4>4, <4>5, Zenon DEF Mine, Acquired, Untracked
    <3>5. Join(t, k)
      BY <3>3, <3>4, Zenon DEF Won
    <3>6. ~keys[k].exclusive /\ u \in Holders(k)'
      BY <1>1, <3>2, <3>5, Zenon DEF Join
    <3> QED
      BY <2>3, <3>1, <3>2, <3>6, Zenon
  <2> QED
    BY <2>1, <2>2, <2>3, Zenon
<1>10. Claims'
  BY <1>2, <1>8, <1>9, Zenon DEF Claims, Uniform
<1> QED
  BY <1>6, <1>7, <1>10, Zenon

(* Sets of transactions and of keys are finite.                            *)
LEMMA Finite ==
    /\ \A S \in SUBSET Txns : IsFiniteSet(S) /\ Cardinality(S) \in Nat
    /\ \A S \in SUBSET Keys : IsFiniteSet(S) /\ Cardinality(S) \in Nat
<1>1. \A S \in SUBSET Txns : IsFiniteSet(S)
  BY FiniteAssumption, FS_Subset, Zenon
<1>2. \A S \in SUBSET Keys : IsFiniteSet(S)
  BY FiniteAssumption, FS_Subset, Zenon
<1> QED
  BY <1>1, <1>2, FS_CardinalityType, Zenon

(* A new element adds one to the cardinality.                              *)
LEMMA OneMore ==
    ASSUME NEW S, NEW x, IsFiniteSet(S), x \notin S
    PROVE  Cardinality(S \cup {x}) = Cardinality(S) + 1
BY FS_AddElement, Zenon

(* A successful attempt keeps the count of locks: a key that was free is   *)
(* about to be counted.                                                    *)
LEMMA WonCounted ==
    ASSUME TypeOK, CallsOK, TableOK, NoLeak, Counted, NEW t \in Txns, NEW k,
           k = local[t].key, Tried(t), Won(t)
    PROVE  Counted'
<1>1. /\ k \in Keys /\ \A j \in Keys \ {k} : keys'[j] = keys[j]
      /\ keys'[k].txn_ids # << >>
  <2>1. Placed(t, k)
    BY WonLock, Zenon
  <2> QED
    BY <2>1, Zenon DEF Placed
<1>2. /\ setup' = setup /\ lock_cnt' = lock_cnt /\ pc[t] # "counting"
      /\ \A u \in Txns \ {t} : pc'[u] = pc[u]
  BY Zenon DEF Tried, OthersKept
<1>3. NotLocked.txn_ids = << >>
  BY Zenon DEF NotLocked
<1>4. keys'[k] # NotLocked
  BY <1>1, <1>3, Zenon
<1>5. Counting \in SUBSET Txns /\ Locked \in SUBSET Keys
  BY Zenon DEF Counting, Locked
<1> SUFFICES ASSUME setup.max_num_locks > 0, setup.readers = {}
             PROVE  lock_cnt' + Cardinality(Counting') = Cardinality(Locked')
  BY <1>2, Zenon DEF Counted
<1>6. lock_cnt + Cardinality(Counting) = Cardinality(Locked) /\ lock_cnt \in Int
  BY Zenon DEF Counted, TypeOK
<1>7. CASE Free(t, k)
  <2>1. keys[k] = NotLocked /\ pc'[t] = "counting"
    BY <1>7, Zenon DEF Free
  <2>2. Counting' = Counting \cup {t} /\ t \notin Counting
    BY <1>2, <2>1, Zenon DEF Counting
  <2>3. Locked' = Locked \cup {k} /\ k \notin Locked
    BY <1>1, <1>4, <2>1, Zenon DEF Locked
  <2>4. Cardinality(Counting') = Cardinality(Counting) + 1
    BY <1>5, <2>2, Finite, OneMore, Zenon
  <2>5. Cardinality(Locked') = Cardinality(Locked) + 1
    BY <1>5, <2>3, Finite, OneMore, Zenon
  <2>6. Cardinality(Counting) \in Nat /\ Cardinality(Locked) \in Nat
    BY <1>5, Finite, Zenon
  <2> QED
    BY <1>2, <1>6, <2>4, <2>5, <2>6
<1>8. CASE Join(t, k) \/ Retake(t, k)
  <2>1. keys[k] # NotLocked /\ pc'[t] = "granted"
    BY <1>3, <1>8, Zenon DEF Join, Retake
  <2>2. Counting' = Counting
    BY <1>2, <2>1, Zenon DEF Counting
  <2>3. Locked' = Locked
    BY <1>1, <1>4, <2>1, Zenon DEF Locked
  <2> QED
    BY <1>2, <1>6, <2>2, <2>3, Zenon
<1> QED
  BY <1>7, <1>8, Zenon DEF Won

(* lock_cnt++ keeps the invariant.                                         *)
LEMMA CountLockKeeps ==
    ASSUME TypeOK, CallsOK, TableOK, NoLeak, Claims, Counted, NEW t \in Txns, CountLock(t)
    PROVE  /\ setup' = setup /\ OthersQuiet(t) /\ OwnOK(t)'
           /\ TableOK' /\ NoLeak' /\ Claims' /\ Counted'
<1>1. /\ UNCHANGED <<setup, keys, local, tracked, txn_state, expiration_time, expirable>>
      /\ pc[t] = "counting" /\ pc'[t] = "granted" /\ lock_cnt' = lock_cnt + 1
      /\ \A u \in Txns \ {t} : pc'[u] = pc[u]
  BY Zenon DEF CountLock, txnVars, TypeOK
<1>2. OthersQuiet(t)
  BY <1>1, Zenon DEF OthersQuiet
<1>3. CallOK(t) /\ AskOK(t) /\ ExpiryOK(t)
  BY Zenon DEF CallsOK
<1>4. CallOK(t)'
  BY <1>1, <1>3, Zenon DEF CallOK
<1>5. AskOK(t)'
  BY <1>1, <1>3, Zenon DEF AskOK, Trying
<1>6. ExpiryOK(t)'
  BY <1>1, <1>3, Zenon DEF ExpiryOK
<1>7. Keeps(t)
  <2>1. \A k \in Keys : (Mine(t, k)' <=> Mine(t, k)) /\ (Strong(t, k)' <=> Strong(t, k))
    BY <1>1, Zenon DEF Mine, Strong, Acquired
  <2> QED
    BY <1>1, <2>1, Zenon DEF Keeps
<1>8. TableOK' /\ NoLeak' /\ Claims'
  BY <1>2, <1>7, KeepsTable, Zenon
<1>9. Counted'
  <2> SUFFICES ASSUME setup.max_num_locks > 0, setup.readers = {}
               PROVE  lock_cnt' + Cardinality(Counting') = Cardinality(Locked')
    BY <1>1, Zenon DEF Counted
  <2>1. lock_cnt + Cardinality(Counting) = Cardinality(Locked) /\ lock_cnt \in Int
    BY Zenon DEF Counted, TypeOK
  <2>2. Locked' = Locked
    BY <1>1, Zenon DEF Locked
  <2>3. Counting = Counting' \cup {t} /\ t \notin Counting'
    BY <1>1, Zenon DEF Counting
  <2>4. Counting' \in SUBSET Txns
    BY Zenon DEF Counting
  <2>5. Cardinality(Counting) = Cardinality(Counting') + 1 /\ Cardinality(Counting') \in Nat
    BY <2>3, <2>4, Finite, OneMore, Zenon
  <2> QED
    BY <1>1, <2>1, <2>2, <2>5
<1> QED
  BY <1>1, <1>2, <1>4, <1>5, <1>6, <1>8, <1>9, Zenon DEF OwnOK

-----------------------------------------------------------------------------
(* UnLock                                                                  *)

(* A LockInfo after UnLockKey.                                             *)
Left(t, info, new, readers) ==
    /\ InfoOK(new, readers)
    /\ ToSet(new.txn_ids) = ToSet(info.txn_ids) \ {t}
    /\ ToSet(new.txn_ids) # {} => (new.exclusive <=> info.exclusive)
    /\ new.expiration_time = info.expiration_time \/ new.expiration_time = 0
    /\ t \notin ToSet(info.txn_ids) => new = info
    /\ readers = {} /\ t \in ToSet(info.txn_ids) => new = NotLocked

(* UnLockKey takes one holder out of the list and leaves the others, each  *)
(* once.                                                                   *)
LEMMA UnLockKeyKeeps ==
    ASSUME NEW t \in Txns, NEW info \in LockInfo, NEW readers, InfoOK(info, readers),
           NEW new, new = UnLockKey(t, info)
    PROVE  Left(t, info, new, readers)
<1> DEFINE s == info.txn_ids
<1> DEFINE n == Len(s)
<1>1. /\ s \in Seq(Txns) /\ info.expiration_time \in Nat /\ info.exclusive \in BOOLEAN
  BY Zenon DEF LockInfo
<1>2. n \in Nat /\ DOMAIN s = 1..n
  BY <1>1
<1>3. \A i, j \in DOMAIN s : s[i] = s[j] => i = j
  BY Zenon DEF InfoOK
<1>4. /\ NotLocked.txn_ids = << >> /\ NotLocked.exclusive = FALSE
      /\ NotLocked.expiration_time = 0
  BY Zenon DEF NotLocked
<1>5. DOMAIN << >> = {} /\ ToSet(<< >>) = {}
  BY DEF ToSet
<1>6. CASE t \notin ToSet(s)
  <2>1. new = info
    BY <1>6, Zenon DEF UnLockKey
  <2> QED
    BY <1>6, <2>1, Zenon DEF Left
<1>7. CASE s = <<t>>
  <2>1. ToSet(s) = {t}
    BY <1>7, SoleHolder, Zenon
  <2>2. new = NotLocked
    BY <1>7, <2>1, Zenon DEF UnLockKey
  <2>3. InfoOK(NotLocked, readers)
    BY <1>4, <1>5, Zenon DEF InfoOK
  <2>4. ToSet(new.txn_ids) = {}
    BY <1>4, <1>5, <2>2, Zenon
  <2> QED
    BY <1>4, <2>1, <2>2, <2>3, <2>4, Zenon DEF Left
<1>8. CASE t \in ToSet(s) /\ s # <<t>>
  <2> DEFINE moved == [i \in 1..n - 1 |-> IF s[i] = t THEN s[n] ELSE s[i]]
  <2>1. new = [info EXCEPT !.txn_ids = moved]
    BY <1>8, Zenon DEF UnLockKey
  <2>2. /\ new.txn_ids = moved /\ new.exclusive = info.exclusive
        /\ new.expiration_time = info.expiration_time
    BY <2>1, Zenon DEF LockInfo
  <2>3. PICK p \in 1..n : s[p] = t
    BY <1>2, <1>8, Zenon DEF ToSet
  <2>4. n # 1
    <3> SUFFICES ASSUME n = 1
                 PROVE  FALSE
      OBVIOUS
    <3>1. p = 1
      BY <1>2, <2>3
    <3>2. s[1] = t /\ Len(s) = 1
      BY <2>3, <3>1, Zenon
    <3>3. s = <<t>>
      BY <1>1, <3>2
    <3> QED
      BY <1>8, <3>3, Zenon
  <2>5. /\ DOMAIN moved = 1..n - 1 /\ n \in 1..n /\ n \notin 1..n - 1 /\ 1 \in 1..n - 1
        /\ \A i \in 1..n - 1 : i \in 1..n /\ i # n
        /\ \A i \in 1..n : i # n => i \in 1..n - 1
    <3>1. DOMAIN moved = 1..n - 1
      BY Zenon
    <3> HIDE DEF moved, n, s
    <3>2. \A m \in Nat : m # 1 /\ (\E i \in 1..m : TRUE) =>
              /\ m \in 1..m /\ m \notin 1..m - 1 /\ 1 \in 1..m - 1
              /\ \A i \in 1..m - 1 : i \in 1..m /\ i # m
              /\ \A i \in 1..m : i # m => i \in 1..m - 1
      BY SMTT(30)
    <3> QED
      BY <1>2, <2>3, <2>4, <3>1, <3>2, Zenon
  <2>6. \A i \in 1..n - 1 : moved[i] = IF s[i] = t THEN s[n] ELSE s[i]
    BY Zenon
  <2> HIDE DEF moved
  <2>7. \A i, j \in DOMAIN moved : moved[i] = moved[j] => i = j
    <3> SUFFICES ASSUME NEW i \in 1..n - 1, NEW j \in 1..n - 1, moved[i] = moved[j]
                 PROVE  i = j
      BY <2>5, Zenon
    <3> HIDE DEF s, n
    <3>1. CASE s[i] = t /\ s[j] = t
      BY <1>2, <1>3, <2>5, <3>1, Zenon
    <3>2. CASE s[i] = t /\ s[j] # t
      BY <1>2, <1>3, <2>5, <2>6, <3>2, Zenon
    <3>3. CASE s[i] # t /\ s[j] = t
      BY <1>2, <1>3, <2>5, <2>6, <3>3, Zenon
    <3>4. CASE s[i] # t /\ s[j] # t
      BY <1>2, <1>3, <2>5, <2>6, <3>4, Zenon
    <3> QED
      BY <3>1, <3>2, <3>3, <3>4, Zenon
  <2>8. ASSUME NEW x \in ToSet(moved)
        PROVE  x \in ToSet(s) \ {t}
    <3>1. PICK i \in 1..n - 1 : x = moved[i]
      BY <2>5, Zenon DEF ToSet
    <3> HIDE DEF s, n
    <3>2. CASE s[i] = t
      <4>1. x = s[n] /\ i \in 1..n /\ i # n
        BY <2>5, <2>6, <3>1, <3>2, Zenon
      <4>2. s[n] # t
        BY <1>2, <1>3, <2>5, <3>2, <4>1, Zenon
      <4> QED
        BY <1>2, <2>5, <4>1, <4>2, Zenon DEF ToSet
    <3>3. CASE s[i] # t
      BY <1>2, <2>5, <2>6, <3>1, <3>3, Zenon DEF ToSet
    <3> QED
      BY <3>2, <3>3, Zenon
  <2>9. ASSUME NEW x \in ToSet(s) \ {t}
        PROVE  x \in ToSet(moved)
    <3>1. PICK i \in 1..n : x = s[i]
      BY <1>2, Zenon DEF ToSet
    <3> HIDE DEF s, n
    <3>2. CASE i = n
      <4>1. p # n
        BY <2>3, <3>1, <3>2, Zenon
      <4>2. p \in 1..n - 1 /\ moved[p] = x
        BY <2>3, <2>5, <2>6, <3>1, <3>2, <4>1, Zenon
      <4> QED
        BY <2>5, <4>2, Zenon DEF ToSet
    <3>3. CASE i # n
      BY <2>5, <2>6, <3>1, <3>3, Zenon DEF ToSet
    <3> QED
      BY <3>2, <3>3, Zenon
  <2>10. ToSet(moved) = ToSet(s) \ {t}
    BY <2>8, <2>9, Zenon
  <2>11. moved # << >>
    BY <1>5, <2>5, Zenon
  <2>12. InfoOK(new, readers)
    <3>1. /\ info.exclusive => \A u, v \in ToSet(moved) : u = v
          /\ ~info.exclusive => ToSet(moved) \subseteq readers
      BY <2>10, Zenon DEF InfoOK
    <3> QED
      BY <2>2, <2>7, <2>11, <3>1, InfoFields, Zenon
  <2>13. readers # {}
    <3> SUFFICES ASSUME readers = {}
                 PROVE  FALSE
      OBVIOUS
    <3>1. \A u, v \in ToSet(s) : u = v
      BY Zenon DEF InfoOK
    <3>2. 1 \in 1..n /\ s[1] = t /\ s[n] = t
      BY <1>2, <1>8, <2>5, <3>1, Zenon DEF ToSet
    <3> QED
      BY <1>2, <1>3, <2>4, <2>5, <3>2, Zenon
  <2> QED
    BY <1>8, <2>2, <2>10, <2>12, <2>13, Zenon DEF Left
<1> QED
  BY <1>6, <1>7, <1>8, Zenon

(* UnLock of the keys M of one stripe.                                     *)
UnLocked(t, M) ==
    /\ M \subseteq local[t].todo /\ pc[t] = "unlocking" /\ pc'[t] = "unlocking"
    /\ UNCHANGED <<setup, txn_state, expiration_time, expirable, tracked>>
    /\ \A k \in Keys : keys'[k] = IF k \in M THEN UnLockKey(t, keys[k]) ELSE keys[k]
    /\ lock_cnt' = IF setup.max_num_locks > 0
                   THEN lock_cnt - Cardinality({k \in M : t \in Holders(k)}) ELSE lock_cnt
    /\ local'[t] = [local[t] EXCEPT !.todo = @ \ M]
    /\ \A u \in Txns \ {t} :
          /\ pc'[u] = pc[u] \/ (pc[u] = "asleep" /\ pc'[u] = "woken")
          /\ local'[u] = local[u]

(* UnLock unlocks some of the keys that are left to unlock.                *)
LEMMA UnLockStep ==
    ASSUME TypeOK, NEW t \in Txns, UnLock(t)
    PROVE  \E M \in SUBSET Keys : UnLocked(t, M)
<1>1. local \in [Txns -> LockCall] /\ pc \in [Txns -> Labels]
  BY Zenon DEF TypeOK
<1>2. local[t].todo \subseteq Keys
  BY <1>1, Zenon DEF LockCall
<1>3. pc[t] = "unlocking" /\ UNCHANGED <<setup, txn_state, expiration_time, expirable, tracked>>
  BY Zenon DEF UnLock, txnVars
<1>4. PICK s \in Stripes :
        LET mine == {k \in local[t].todo : setup.stripe[k] = s}
            found == {k \in mine : t \in ToSet(keys[k].txn_ids)}
        IN  /\ keys' = [k \in Keys |-> IF k \in mine THEN UnLockKey(t, keys[k])
                                                     ELSE keys[k]]
            /\ lock_cnt' = IF setup.max_num_locks > 0
                           THEN lock_cnt - Cardinality(found) ELSE lock_cnt
            /\ local' = [local EXCEPT ![t].todo = @ \ mine]
            /\ pc' = [u \in Txns |-> IF pc[u] = "asleep" /\ Stripe(u) = s
                                     THEN "woken" ELSE pc[u]]
  BY Zenon DEF UnLock
<1>5. PICK M : M = {k \in local[t].todo : setup.stripe[k] = s}
  BY Zenon
<1>6. /\ keys' = [k \in Keys |-> IF k \in M THEN UnLockKey(t, keys[k]) ELSE keys[k]]
      /\ lock_cnt' = IF setup.max_num_locks > 0
                     THEN lock_cnt - Cardinality({k \in M : t \in ToSet(keys[k].txn_ids)})
                     ELSE lock_cnt
      /\ local' = [local EXCEPT ![t].todo = @ \ M]
      /\ pc' = [u \in Txns |-> IF pc[u] = "asleep" /\ Stripe(u) = s
                               THEN "woken" ELSE pc[u]]
  BY <1>4, <1>5, Zenon
<1>7. M \in SUBSET Keys /\ M \subseteq local[t].todo
  BY <1>2, <1>5, Zenon
<1>8. \A k \in Keys : keys'[k] = IF k \in M THEN UnLockKey(t, keys[k]) ELSE keys[k]
  BY <1>6, Zenon
<1>9. /\ local'[t] = [local[t] EXCEPT !.todo = @ \ M]
      /\ \A u \in Txns \ {t} : local'[u] = local[u]
  BY <1>1, <1>6, Zenon
<1>10. /\ pc'[t] = "unlocking"
       /\ \A u \in Txns : pc'[u] = pc[u] \/ (pc[u] = "asleep" /\ pc'[u] = "woken")
  BY <1>3, <1>6, Zenon
<1>11. lock_cnt' = IF setup.max_num_locks > 0
                   THEN lock_cnt - Cardinality({k \in M : t \in Holders(k)}) ELSE lock_cnt
  BY <1>6, Zenon DEF Holders
<1> QED
  BY <1>3, <1>7, <1>8, <1>9, <1>10, <1>11, Zenon DEF UnLocked

(* UnLock keeps the calls well-formed; the keys it unlocks are no longer   *)
(* relied on.                                                              *)
LEMMA UnLockOwn ==
    ASSUME TypeOK, CallsOK, NEW t \in Txns, NEW M \in SUBSET Keys, UnLocked(t, M)
    PROVE  /\ setup' = setup /\ OthersQuiet(t) /\ OwnOK(t)'
           /\ \A k \in Keys : Mine(t, k)' <=> Mine(t, k)
           /\ local'[t].todo = local[t].todo \ M
           /\ \A k \in M : ~Mine(t, k)
<1>1. /\ M \subseteq local[t].todo /\ pc[t] = "unlocking" /\ pc'[t] = "unlocking"
      /\ UNCHANGED <<setup, txn_state, expiration_time, expirable, tracked>>
      /\ local'[t] = [local[t] EXCEPT !.todo = @ \ M] /\ local[t] \in LockCall
  BY Zenon DEF UnLocked, TypeOK
<1>2. /\ local'[t].held = local[t].held /\ local'[t].next = local[t].next
      /\ local'[t].todo = local[t].todo \ M
  BY <1>1, Zenon DEF LockCall
<1>3. CallOK(t) /\ AskOK(t) /\ ExpiryOK(t)
  BY Zenon DEF CallsOK
<1>4. OthersQuiet(t)
  BY Zenon DEF OthersQuiet, UnLocked
<1>5. CallOK(t)'
  <2>1. (Untracked(t))' <=> Untracked(t)
    BY <1>1, Zenon DEF Untracked
  <2> QED
    BY <1>1, <1>2, <1>3, <2>1, Zenon DEF CallOK
<1>6. AskOK(t)'
  BY <1>1, <1>3, Zenon DEF AskOK, Trying
<1>7. ExpiryOK(t)'
  BY <1>1, <1>3, Zenon DEF ExpiryOK
<1>8. \A k \in Keys : Mine(t, k)' <=> Mine(t, k)
  BY <1>1, <1>2, Zenon DEF Mine, Acquired
<1>9. \A k \in M : ~Mine(t, k)
  <2>1. local[t].held = {} /\ \A k \in M : tracked[t][k] = "none"
    BY <1>1, <1>3, Zenon DEF CallOK
  <2> QED
    BY <1>1, <2>1, Zenon DEF Mine, Acquired
<1> QED
  BY <1>1, <1>2, <1>4, <1>5, <1>6, <1>7, <1>8, <1>9, Zenon DEF OwnOK

(* UnLock keeps the table well-formed and what the others rely on; without *)
(* shared locks the keys unlocked are free.                                *)
LEMMA UnLockTable ==
    ASSUME TypeOK, CallsOK, TableOK, NoLeak, Claims, NEW t \in Txns,
           NEW M \in SUBSET Keys, UnLocked(t, M)
    PROVE  /\ TableOK' /\ NoLeak' /\ Claims'
           /\ setup.readers = {} =>
                 \A k \in M : t \in Holders(k) => keys'[k] = NotLocked
           /\ \A k \in Keys : ~(k \in M /\ t \in Holders(k)) => keys'[k] = keys[k]
<1>1. /\ setup' = setup /\ OthersQuiet(t) /\ txn_state' = txn_state
      /\ \A k \in Keys : Mine(t, k)' <=> Mine(t, k)
      /\ local'[t].todo = local[t].todo \ M
      /\ \A k \in M : ~Mine(t, k)
  BY UnLockOwn, Zenon DEF UnLocked
<1>2. ASSUME NEW k \in M
      PROVE  /\ InfoOK(keys'[k], setup.readers)
             /\ Holders(k)' = Holders(k) \ {t}
             /\ Holders(k)' # {} => (keys'[k].exclusive <=> keys[k].exclusive)
             /\ keys'[k].expiration_time = keys[k].expiration_time
                \/ keys'[k].expiration_time = 0
             /\ t \notin Holders(k) => keys'[k] = keys[k]
             /\ setup.readers = {} /\ t \in Holders(k) => keys'[k] = NotLocked
  <2>1. k \in Keys /\ keys[k] \in LockInfo /\ InfoOK(keys[k], setup.readers)
    BY HoldersAreTxns, Zenon DEF TableOK
  <2>2. keys'[k] = UnLockKey(t, keys[k])
    BY <2>1, Zenon DEF UnLocked
  <2>3. PICK new : new = UnLockKey(t, keys[k])
    BY Zenon
  <2>4. /\ InfoOK(new, setup.readers)
        /\ ToSet(new.txn_ids) = ToSet(keys[k].txn_ids) \ {t}
        /\ ToSet(new.txn_ids) # {} => (new.exclusive <=> keys[k].exclusive)
        /\ new.expiration_time = keys[k].expiration_time \/ new.expiration_time = 0
        /\ t \notin ToSet(keys[k].txn_ids) => new = keys[k]
        /\ setup.readers = {} /\ t \in ToSet(keys[k].txn_ids) => new = NotLocked
    <3>1. Left(t, keys[k], new, setup.readers)
      BY <2>1, <2>3, UnLockKeyKeeps, Zenon
    <3> QED
      BY <3>1, Zenon DEF Left
  <2>5. keys'[k] = new
    BY <2>2, <2>3, Zenon
  <2>6. Holders(k)' = ToSet(new.txn_ids)
    BY <2>5, Zenon DEF Holders
  <2> QED
    BY <2>4, <2>5, <2>6, Zenon DEF Holders
<1>3. \A k \in Keys \ M : keys'[k] = keys[k] /\ Holders(k)' = Holders(k)
  BY Zenon DEF UnLocked, Holders
<1>4. TableOK'
  <2>1. \A k \in Keys : InfoOK(keys'[k], setup.readers)
    BY <1>2, <1>3, Zenon DEF TableOK
  <2> QED
    BY <1>1, <2>1, Zenon DEF TableOK
<1>5. NoLeak'
  <2> SUFFICES ASSUME NEW j \in Keys, NEW u, u \in Holders(j)'
               PROVE  Mine(u, j)' \/ j \in local'[u].todo
    BY Zenon DEF NoLeak
  <2>1. u \in Holders(j) /\ ~(u = t /\ j \in M)
    BY <1>2, <1>3, Zenon
  <2>2. u \in Txns /\ (Mine(u, j) \/ j \in local[u].todo)
    BY <2>1, HoldersAreTxns, Zenon DEF NoLeak
  <2>3. CASE u = t
    BY <1>1, <2>1, <2>2, <2>3, Zenon
  <2>4. CASE u # t
    BY <1>1, <2>2, <2>4, OthersKeep, Zenon
  <2> QED
    BY <2>3, <2>4, Zenon
<1>6. ASSUME Uniform
      PROVE  ExpiringHolders'
  <2>0. ExpiringHolders
    BY <1>6, Zenon DEF Claims
  <2> SUFFICES ASSUME NEW j \in Keys, keys'[j].expiration_time > 0, NEW u, u \in Holders(j)'
               PROVE  setup.expiration[u] > 0
    BY <1>1, Zenon DEF ExpiringHolders
  <2>1. u \in Holders(j)
    BY <1>2, <1>3, Zenon
  <2>2. ~(0 > 0)
    OBVIOUS
  <2>3. keys[j].expiration_time > 0
    BY <1>2, <1>3, <2>2, Zenon
  <2> QED
    BY <2>0, <2>1, <2>3, Zenon DEF ExpiringHolders
<1>7. ASSUME Uniform
      PROVE  ClaimsHeld'
  <2>0. ClaimsHeld
    BY <1>7, Zenon DEF Claims
  <2> SUFFICES ASSUME NEW u \in Txns, NEW j \in Keys,
                      txn_state'[u] # "LOCKS_STOLEN", Mine(u, j)'
               PROVE  /\ u \in Holders(j)'
                      /\ Strong(u, j)' => keys'[j].exclusive \/ setup.unvalidated
    BY <1>1, Zenon DEF ClaimsHeld
  <2>1. txn_state[u] # "LOCKS_STOLEN" /\ Mine(u, j) /\ (Strong(u, j)' => Strong(u, j))
    <3>1. CASE u = t
      <4>1. Strong(t, j)' => Strong(t, j)
        <5>1. /\ pc'[t] = "unlocking" /\ tracked' = tracked
              /\ local'[t] = [local[t] EXCEPT !.todo = @ \ M] /\ local[t] \in LockCall
          BY Zenon DEF UnLocked, TypeOK
        <5>2. local'[t].held = local[t].held
          BY <5>1, Zenon DEF LockCall
        <5> QED
          BY <5>1, <5>2, Zenon DEF Strong, Acquired
      <4> QED
        BY <1>1, <3>1, <4>1, Zenon
    <3>2. CASE u # t
      BY <1>1, <3>2, OthersKeep, Zenon
    <3> QED
      BY <3>1, <3>2, Zenon
  <2>2. u \in Holders(j) /\ (Strong(u, j) => keys[j].exclusive \/ setup.unvalidated)
    BY <2>0, <2>1, Zenon DEF ClaimsHeld
  <2>3. CASE j \in M
    <3>1. u # t
      BY <1>1, <2>1, <2>3, Zenon
    <3>2. u \in Holders(j)'
      BY <1>2, <2>2, <2>3, <3>1, Zenon
    <3>3. keys'[j].exclusive <=> keys[j].exclusive
      BY <1>2, <2>3, <3>2, Zenon
    <3> QED
      BY <2>1, <2>2, <3>2, <3>3, Zenon
  <2>4. CASE j \notin M
    BY <1>3, <2>1, <2>2, <2>4, Zenon
  <2> QED
    BY <2>3, <2>4, Zenon
<1>8. Claims'
  <2>1. Uniform' <=> Uniform
    BY <1>1, Zenon DEF Uniform
  <2> QED
    BY <1>6, <1>7, <2>1, Zenon DEF Claims
<1>9. /\ setup.readers = {} => \A k \in M : t \in Holders(k) => keys'[k] = NotLocked
      /\ \A k \in Keys : ~(k \in M /\ t \in Holders(k)) => keys'[k] = keys[k]
  BY <1>2, <1>3, Zenon
<1> QED
  BY <1>4, <1>5, <1>8, <1>9, Zenon

(* UnLock keeps the invariant, the count of locks included.                *)
LEMMA UnLockKeeps ==
    ASSUME TypeOK, CallsOK, TableOK, NoLeak, Claims, Counted, NEW t \in Txns, UnLock(t)
    PROVE  /\ setup' = setup /\ OthersQuiet(t) /\ OwnOK(t)'
           /\ TableOK' /\ NoLeak' /\ Claims' /\ Counted'
<1>1. PICK M \in SUBSET Keys : UnLocked(t, M)
  BY UnLockStep, Zenon
<1>2. setup' = setup /\ OthersQuiet(t) /\ OwnOK(t)'
  BY <1>1, UnLockOwn, Zenon
<1>3. /\ TableOK' /\ NoLeak' /\ Claims'
      /\ setup.readers = {} => \A k \in M : t \in Holders(k) => keys'[k] = NotLocked
      /\ \A k \in Keys : ~(k \in M /\ t \in Holders(k)) => keys'[k] = keys[k]
  BY <1>1, UnLockTable, Zenon
<1>4. Counted'
  <2> SUFFICES ASSUME setup.max_num_locks > 0, setup.readers = {}
               PROVE  lock_cnt' + Cardinality(Counting') = Cardinality(Locked')
    BY <1>2, Zenon DEF Counted
  <2>1. PICK found : found = {k \in M : t \in Holders(k)}
    BY Zenon
  <2>2. /\ lock_cnt + Cardinality(Counting) = Cardinality(Locked) /\ lock_cnt \in Int
        /\ lock_cnt' = lock_cnt - Cardinality(found)
    BY <1>1, <2>1, Zenon DEF Counted, TypeOK, UnLocked
  <2>3. Counting' = Counting
    <3>1. \A u \in Txns : pc'[u] = "counting" <=> pc[u] = "counting"
      BY <1>1, Zenon DEF UnLocked
    <3> QED
      BY <3>1, Zenon DEF Counting
  <2>4. found \subseteq Locked
    <3>1. NotLocked.txn_ids = << >> /\ ToSet(<< >>) = {}
      BY DEF NotLocked, ToSet
    <3> QED
      BY <2>1, <3>1, Zenon DEF Locked, Holders
  <2>5. Locked' = Locked \ found
    BY <1>3, <2>1, Zenon DEF Locked
  <2>6. Locked \in SUBSET Keys /\ Counting \in SUBSET Txns
    BY Zenon DEF Locked, Counting
  <2>7. /\ Cardinality(Locked) \in Nat /\ Cardinality(Counting) \in Nat
        /\ Cardinality(found) \in Nat /\ IsFiniteSet(Locked)
    BY <2>4, <2>6, Finite, Zenon
  <2>8. Cardinality(Locked') = Cardinality(Locked) - Cardinality(found)
    <3>1. Locked \cap found = found
      BY <2>4, Zenon
    <3> QED
      BY <2>5, <2>7, <3>1, FS_Difference, Zenon
  <2> QED
    BY <2>2, <2>3, <2>7, <2>8
<1> QED
  BY <1>2, <1>3, <1>4, Zenon

-----------------------------------------------------------------------------
(* The downgrade after an upgrade that could not be validated keeps the    *)
(* invariant: the transaction still has the lock, alone or among readers.  *)
LEMMA DowngradeKeeps ==
    ASSUME TypeOK, CallsOK, TableOK, NoLeak, Claims, Counted, NEW t \in Txns, Downgrade(t)
    PROVE  /\ setup' = setup /\ OthersQuiet(t) /\ OwnOK(t)'
           /\ TableOK' /\ NoLeak' /\ Claims' /\ Counted'
<1>1. PICK k : k = local[t].key
  BY Zenon
<1>2. /\ pc[t] = "granted" /\ local[t].next = "none" /\ setup.unvalidated /\ local[t].upgrade
      /\ UNCHANGED <<setup, txn_state, expiration_time, expirable>> /\ Track(t)
      /\ pc' = [pc EXCEPT ![t] = "idle"] /\ local' = [local EXCEPT ![t] = NoCall]
      /\ keys' = [keys EXCEPT ![k] = [keys[k] EXCEPT !.exclusive = FALSE]]
  BY <1>1, Zenon DEF Downgrade
<1>3. CallOK(t) /\ AskOK(t) /\ ExpiryOK(t)
  BY Zenon DEF CallsOK
<1>4. k \in Keys /\ t \in setup.readers
  BY <1>1, <1>2, <1>3, Zenon DEF AskOK, Trying
<1>5. /\ \A u \in Txns \ {t} :
            pc'[u] = pc[u] /\ local'[u] = local[u] /\ tracked'[u] = tracked[u]
      /\ pc'[t] = "idle" /\ CallOK(t)' /\ AskOK(t)'
      /\ local'[t].todo = {} /\ local[t].todo = {}
      /\ \A j \in Keys : /\ Mine(t, j)' <=> Mine(t, j)
                         /\ Strong(t, j)' => Strong(t, j)
  BY <1>2, TrackEffect, Zenon
<1>6. OthersQuiet(t)
  BY <1>2, <1>5, Zenon DEF OthersQuiet
<1>7. ExpiryOK(t)'
  BY <1>2, <1>3, Zenon DEF ExpiryOK
<1>8. /\ keys'[k].txn_ids = keys[k].txn_ids /\ keys'[k].exclusive = FALSE
      /\ keys'[k].expiration_time = keys[k].expiration_time
      /\ \A j \in Keys \ {k} : keys'[j] = keys[j]
  <2>1. keys \in [Keys -> LockInfo] /\ keys[k] \in LockInfo
    BY <1>4, Zenon DEF TypeOK
  <2>2. /\ keys'[k] = [keys[k] EXCEPT !.exclusive = FALSE]
        /\ \A j \in Keys \ {k} : keys'[j] = keys[j]
    BY <1>2, <1>4, <2>1, Zenon
  <2> QED
    BY <2>1, <2>2, Zenon DEF LockInfo
<1>9. \A j \in Keys : Holders(j)' = Holders(j)
  BY <1>8, Zenon DEF Holders
<1>10. \A u \in Txns : ~(setup.expiration[u] > 0)
  <2>1. ~(0 > 0)
    OBVIOUS
  <2> QED
    BY <1>2, <2>1, SetupTypes, Zenon
<1>11. Uniform /\ txn_state[t] # "LOCKS_STOLEN"
  <2>1. setup.readers \subseteq Txns
    BY SetupTypes, Zenon
  <2> QED
    BY <1>3, <1>10, <2>1, Zenon DEF Uniform, ExpiryOK
<1>12. ExpiringHolders /\ ClaimsHeld
  BY <1>11, Zenon DEF Claims
<1>13. t \in Holders(k)
  <2>1. Mine(t, k)
    BY <1>1, <1>2, Zenon DEF Mine, Acquired
  <2> QED
    BY <1>4, <1>11, <1>12, <2>1, Zenon DEF ClaimsHeld
<1>14. TableOK'
  <2>1. InfoOK(keys[k], setup.readers)
    BY <1>4, Zenon DEF TableOK
  <2>2. keys[k].txn_ids # << >>
    <3>1. ToSet(<< >>) = {}
      BY DEF ToSet
    <3> QED
      BY <1>13, <3>1, Zenon DEF Holders
  <2>3. ToSet(keys[k].txn_ids) \subseteq setup.readers
    BY <1>4, <1>13, <2>1, Zenon DEF InfoOK, Holders
  <2>4. \A i, j \in DOMAIN keys[k].txn_ids : keys[k].txn_ids[i] = keys[k].txn_ids[j] => i = j
    BY <2>1, Zenon DEF InfoOK
  <2>5. InfoOK(keys'[k], setup.readers)
    BY <1>8, <2>2, <2>3, <2>4, InfoFields, Zenon
  <2>6. \A j \in Keys : InfoOK(keys'[j], setup.readers)
    BY <1>8, <2>5, Zenon DEF TableOK
  <2> QED
    BY <1>2, <2>6, Zenon DEF TableOK
<1>15. NoLeak'
  <2> SUFFICES ASSUME NEW j \in Keys, NEW u, u \in Holders(j)'
               PROVE  Mine(u, j)' \/ j \in local'[u].todo
    BY Zenon DEF NoLeak
  <2>1. u \in Txns /\ (Mine(u, j) \/ j \in local[u].todo)
    BY <1>9, HoldersAreTxns, Zenon DEF NoLeak
  <2>2. CASE u = t
    BY <1>5, <2>1, <2>2, Zenon
  <2>3. CASE u # t
    BY <1>6, <2>1, <2>3, OthersKeep, Zenon
  <2> QED
    BY <2>2, <2>3, Zenon
<1>16. ExpiringHolders'
  <2> SUFFICES ASSUME NEW j \in Keys, keys'[j].expiration_time > 0, NEW u, u \in Holders(j)'
               PROVE  setup.expiration[u] > 0
    BY <1>2, Zenon DEF ExpiringHolders
  <2>1. keys[j].expiration_time > 0 /\ u \in Holders(j)
    BY <1>8, <1>9, Zenon
  <2> QED
    BY <1>12, <2>1, Zenon DEF ExpiringHolders
<1>17. ClaimsHeld'
  <2> SUFFICES ASSUME NEW u \in Txns, NEW j \in Keys,
                      txn_state'[u] # "LOCKS_STOLEN", Mine(u, j)'
               PROVE  u \in Holders(j)'
    BY <1>2, Zenon DEF ClaimsHeld
  <2>1. txn_state[u] # "LOCKS_STOLEN" /\ Mine(u, j)
    BY <1>2, <1>5, <1>6, OthersKeep, Zenon
  <2> QED
    BY <1>9, <1>12, <2>1, Zenon DEF ClaimsHeld
<1>18. Counted'
  BY <1>2, <1>4, Zenon DEF Counted
<1> QED
  BY <1>2, <1>5, <1>6, <1>7, <1>14, <1>15, <1>16, <1>17, <1>18, Zenon
     DEF OwnOK, Claims

(* A step of the clock alone keeps the invariant.                          *)
LEMMA IdleKeeps ==
    ASSUME CallsOK, TableOK, NoLeak, Claims, Counted,
           UNCHANGED <<setup, txn_state, expiration_time, expirable, tracked, keys,
                       lock_cnt, pc, local>>
    PROVE  CallsOK' /\ TableOK' /\ NoLeak' /\ Claims' /\ Counted'
<1>1. CallsOK'
  <2> SUFFICES ASSUME NEW t \in Txns
               PROVE  CallOK(t)' /\ AskOK(t)' /\ ExpiryOK(t)'
    BY Zenon DEF CallsOK
  <2>1. CallOK(t) /\ AskOK(t) /\ ExpiryOK(t)
    BY Zenon DEF CallsOK
  <2>2. CallOK(t)'
    BY <2>1, Zenon DEF CallOK, Untracked
  <2>3. AskOK(t)'
    BY <2>1, Zenon DEF AskOK
  <2>4. ExpiryOK(t)'
    BY <2>1, Zenon DEF ExpiryOK
  <2> QED
    BY <2>2, <2>3, <2>4, Zenon
<1>2. TableOK'
  BY Zenon DEF TableOK
<1>3. NoLeak'
  BY Zenon DEF NoLeak, Holders, Mine, Acquired
<1>4. Claims'
  BY Zenon DEF Claims, Uniform, ExpiringHolders, ClaimsHeld, Holders, Mine, Strong, Acquired
<1>5. Counted'
  BY Zenon DEF Counted, Counting, Locked
<1> QED
  BY <1>1, <1>2, <1>3, <1>4, <1>5, Zenon

(* The invariant holds initially.                                          *)
LEMMA StartInv ==
    ASSUME Init
    PROVE  LockInv
<1>1. /\ NoCall.todo = {} /\ NoCall.held = {} /\ NoCall.next = "none"
      /\ NotLocked.txn_ids = << >> /\ NotLocked.exclusive = FALSE
      /\ NotLocked.expiration_time = 0
  BY Zenon DEF NoCall, NotLocked
<1>2. ToSet(<< >>) = {} /\ DOMAIN << >> = {} /\ << >> \in Seq(Txns) /\ 0 \in Nat /\ 0 \in Int
  BY DEF ToSet
<1>3. /\ \A t \in Txns : /\ txn_state[t] = "STARTED" /\ pc[t] = "idle" /\ local[t] = NoCall
                         /\ \A k \in Keys : tracked[t][k] = "none"
                         /\ expiration_time[t] = setup.expiration[t]
                         /\ t \in expirable <=> setup.expiration[t] > 0
      /\ \A k \in Keys : keys[k] = NotLocked
      /\ lock_cnt = 0
  BY Zenon DEF Init
<1>4. TypeOK
  <2>1. setup.expiration \in [Txns -> Nat]
    <3>1. setup \in SetupType
      BY LockAssumption, Zenon DEF Init
    <3> QED
      BY <3>1, Zenon DEF SetupType
  <2>2. 0 \in 0..MaxNow
    <3>1. \A n \in Nat : 0 \in 0..n
      OBVIOUS
    <3> QED
      BY <3>1, LockAssumption, Zenon
  <2>3. NoCall \in LockCall
    BY <1>2, Zenon DEF NoCall, LockCall, Nexts
  <2>4. NotLocked \in LockInfo
    BY <1>2, Zenon DEF NotLocked, LockInfo
  <2> QED
    BY <1>2, <2>1, <2>2, <2>3, <2>4, Zenon DEF Init, TypeOK, States, Labels
<1>5. CallsOK
  <2> SUFFICES ASSUME NEW t \in Txns
               PROVE  CallOK(t) /\ AskOK(t) /\ ExpiryOK(t)
    BY Zenon DEF CallsOK
  <2>1. CallOK(t)
    BY <1>1, <1>3, Zenon DEF CallOK
  <2>2. AskOK(t)
    BY <1>3, Zenon DEF AskOK, Trying
  <2>3. ExpiryOK(t)
    BY <1>3, Zenon DEF ExpiryOK
  <2> QED
    BY <2>1, <2>2, <2>3, Zenon
<1>6. \A k \in Keys : Holders(k) = {}
  BY <1>1, <1>2, <1>3, Zenon DEF Holders
<1>7. TableOK
  <2>1. InfoOK(NotLocked, setup.readers)
    BY <1>1, <1>2, Zenon DEF InfoOK
  <2> QED
    BY <1>3, <2>1, Zenon DEF TableOK
<1>8. NoLeak
  BY <1>6, Zenon DEF NoLeak
<1>9. Claims
  <2>1. \A t \in Txns, k \in Keys : ~Mine(t, k)
    BY <1>1, <1>3, Zenon DEF Mine, Acquired
  <2> QED
    BY <1>6, <2>1, Zenon DEF Claims, ExpiringHolders, ClaimsHeld
<1>10. Counted
  <2>1. Counting = {} /\ Locked = {}
    BY <1>3, Zenon DEF Counting, Locked
  <2>2. 0 + Cardinality({}) = Cardinality({})
    BY FS_EmptySet
  <2> QED
    BY <1>3, <2>1, <2>2, Zenon DEF Counted
<1> QED
  BY <1>4, <1>5, <1>7, <1>8, <1>9, <1>10, Zenon DEF LockInv

(* Every step of AcquireWithTimeout keeps the invariant.                   *)
LEMMA TriedKeeps ==
    ASSUME LockInv, NEW t \in Txns, TryStep(t)
    PROVE  CallsOK' /\ TableOK' /\ NoLeak' /\ Claims' /\ Counted'
<1>1. TypeOK /\ CallsOK /\ TableOK /\ NoLeak /\ Claims /\ Counted
  BY Zenon DEF LockInv
<1>2. Tried(t)
  BY <1>1, Tries, Zenon
<1>3. CallsOK'
  BY <1>1, <1>2, TriedCalls, OthersStayOK, Zenon
<1>4. CASE Refuse(t)
  <2>1. OthersQuiet(t) /\ OwnSteady(t)
    BY <1>1, <1>2, <1>4, RefusedMoves, Zenon DEF Moves
  <2> QED
    BY <1>1, <1>3, <2>1, SteadyTable, Zenon
<1>5. CASE Won(t)
  <2>1. PICK k : k = local[t].key
    BY Zenon
  <2>2. TableOK' /\ NoLeak' /\ Claims'
    BY <1>1, <1>2, <1>5, <2>1, WonTable, Zenon
  <2>3. Counted'
    BY <1>1, <1>2, <1>5, <2>1, WonCounted, Zenon
  <2> QED
    BY <1>3, <2>2, <2>3, Zenon
<1> QED
  BY <1>2, <1>4, <1>5, Zenon DEF Tried, Won

(* Every step keeps the invariant.                                         *)
LEMMA StepInv ==
    ASSUME LockInv, [Next]_vars
    PROVE  LockInv'
<1>1. TypeOK /\ CallsOK /\ TableOK /\ NoLeak /\ Claims /\ Counted
  BY Zenon DEF LockInv
<1>2. TypeOK'
  BY <1>1, StepType, Zenon
<1> SUFFICES CallsOK' /\ TableOK' /\ NoLeak' /\ Claims' /\ Counted'
  BY <1>2, Zenon DEF LockInv
<1>3. ASSUME NEW t \in Txns, Moves(t)
      PROVE  CallsOK' /\ TableOK' /\ NoLeak' /\ Claims' /\ Counted'
  <2>1. setup' = setup /\ OthersQuiet(t) /\ OwnSteady(t) /\ OwnOK(t)'
    BY <1>3, Zenon DEF Moves
  <2>2. CallsOK'
    BY <1>1, <2>1, OthersStayOK, Zenon
  <2> QED
    BY <1>1, <2>1, <2>2, SteadyTable, Zenon
<1>4. ASSUME NEW t \in Txns, CountLock(t) \/ UnLock(t) \/ Downgrade(t)
      PROVE  CallsOK' /\ TableOK' /\ NoLeak' /\ Claims' /\ Counted'
  <2>1. /\ setup' = setup /\ OthersQuiet(t) /\ OwnOK(t)'
        /\ TableOK' /\ NoLeak' /\ Claims' /\ Counted'
    BY <1>1, <1>4, CountLockKeeps, UnLockKeeps, DowngradeKeeps, Zenon
  <2> QED
    BY <1>1, <2>1, OthersStayOK, Zenon
<1>5. CASE Tick \/ UNCHANGED vars
  <2>1. UNCHANGED <<setup, txn_state, expiration_time, expirable, tracked, keys,
                    lock_cnt, pc, local>>
    BY <1>5, Zenon DEF Tick, vars, txnVars
  <2> QED
    BY <1>1, <2>1, IdleKeeps, Zenon
<1>6. ASSUME NEW t \in Txns, Calls(t)
      PROVE  CallsOK' /\ TableOK' /\ NoLeak' /\ Claims' /\ Counted'
  BY <1>1, <1>3, <1>6, CallsMove, Zenon
<1>7. ASSUME NEW t \in Txns, TryStep(t)
      PROVE  CallsOK' /\ TableOK' /\ NoLeak' /\ Claims' /\ Counted'
  BY <1>7, TriedKeeps, Zenon
<1>8. ASSUME NEW t \in Txns, OwnStep(t)
      PROVE  CallsOK' /\ TableOK' /\ NoLeak' /\ Claims' /\ Counted'
  BY <1>1, <1>3, <1>4, <1>8, OwnMoves, Zenon
<1>9. ASSUME NEW t \in Txns, Runs(t) \/ TimeOut(t)
      PROVE  TryStep(t) \/ OwnStep(t) \/ UnLock(t)
  BY <1>9, Zenon DEF Runs, TryStep, OwnStep
<1> QED
  BY <1>4, <1>5, <1>6, <1>7, <1>8, <1>9, Zenon DEF Next

(* The invariant implies NoLockLeak.                                       *)
LEMMA InvNoLeak ==
    ASSUME LockInv
    PROVE  NoLockLeak
<1>1. TypeOK /\ TableOK /\ NoLeak /\ Counted
  BY Zenon DEF LockInv
<1>2. ASSUME NEW k \in Keys, NEW t \in ToSet(keys[k].txn_ids)
      PROVE  /\ Occurrences(keys[k].txn_ids, t) = 1
             /\ \/ tracked[t][k] # "none"
                \/ k \in local[t].held \cup local[t].todo
                \/ pc[t] \in {"counting", "granted"} /\ local[t].key = k
  <2>1. Mine(t, k) \/ k \in local[t].todo
    BY <1>1, <1>2, Zenon DEF NoLeak, Holders
  <2>2. InfoOK(keys[k], setup.readers)
    BY <1>1, Zenon DEF TableOK
  <2>3. PICK p \in DOMAIN keys[k].txn_ids : t = keys[k].txn_ids[p]
    BY <1>2, Zenon DEF ToSet
  <2>4. {i \in DOMAIN keys[k].txn_ids : keys[k].txn_ids[i] = t} = {p}
    BY <2>2, <2>3, Zenon DEF InfoOK
  <2>5. Cardinality({p}) = 1
    BY FS_Singleton, Zenon
  <2>6. Occurrences(keys[k].txn_ids, t) = 1
    BY <2>4, <2>5, Zenon DEF Occurrences
  <2> QED
    BY <2>1, <2>6, Zenon DEF Mine, Acquired
<1>3. setup.max_num_locks > 0 /\ setup.readers = {} =>
          lock_cnt + Cardinality({t \in Txns : pc[t] = "counting"})
              = Cardinality({k \in Keys : keys[k] # NotLocked})
  BY <1>1, Zenon DEF Counted, Counting, Locked
<1> QED
  BY <1>2, <1>3, Zenon DEF NoLockLeak

(* The invariant implies LocksExclude, given Uniform and Sound.            *)
LEMMA InvExcludes ==
    ASSUME LockInv, Uniform, Sound
    PROVE  LocksExclude
<1>1. TypeOK /\ TableOK /\ ClaimsHeld /\ CallsOK
  BY Zenon DEF LockInv, Claims
<1>2. ASSUME NEW t \in Txns, NEW u \in Txns, NEW k \in Keys,
             t # u, Relies(t, k), Relies(u, k)
      PROVE  ~Alone(t, k)
  <2> SUFFICES ASSUME Alone(t, k)
               PROVE  FALSE
    OBVIOUS
  <2>1. /\ txn_state[t] # "LOCKS_STOLEN" /\ txn_state[u] # "LOCKS_STOLEN"
        /\ Mine(t, k) /\ Mine(u, k) /\ Strong(t, k)
    BY <1>2, Zenon DEF Relies, Alone, Mine, Strong
  <2>2. /\ t \in Holders(k) /\ u \in Holders(k)
        /\ keys[k].exclusive \/ setup.unvalidated
    BY <1>1, <2>1, Zenon DEF ClaimsHeld
  <2>3. /\ keys[k].exclusive => \A v, w \in Holders(k) : v = w
        /\ ~keys[k].exclusive => Holders(k) \subseteq setup.readers
    BY <1>1, Zenon DEF TableOK, InfoOK, Holders
  <2> QED
    BY <1>2, <2>2, <2>3, Zenon DEF Sound
<1> QED
  BY <1>2, Zenon DEF LocksExclude

(* LockInv is an invariant, for any finite sets of transactions and keys,  *)
(* any assignment of keys to stripes and any options.                      *)
THEOREM LockInvariant == Spec => []LockInv
<1>1. Init => LockInv
  BY StartInv
<1>2. LockInv /\ [Next]_vars => LockInv'
  BY StepInv
<1> QED
  BY <1>1, <1>2, PTL DEF Spec

(* NoLockLeak is an invariant: a holder in the lock table is a transaction *)
(* that will give the lock back, it is there once, and without shared      *)
(* locks lock_cnt is the number of locked keys.                            *)
THEOREM LocksAreGivenBack == Spec => []NoLockLeak
<1>1. LockInv => NoLockLeak
  BY InvNoLeak
<1> QED
  BY <1>1, LockInvariant, PTL

(* LocksExclude is an invariant of every configuration in which all or     *)
(* none of the transactions that share locks expire, and at most one       *)
(* shares locks where upgrades are not validated: expiry, which lets       *)
(* AcquireLocked rob a holder, never leaves two transactions that can both *)
(* commit with locks of one key unless both are shared.                    *)
THEOREM LocksKeepOthersOut == Spec => [](Uniform /\ Sound => LocksExclude)
<1>1. LockInv => (Uniform /\ Sound => LocksExclude)
  BY InvExcludes
<1> QED
  BY <1>1, LockInvariant, PTL
=============================================================================
