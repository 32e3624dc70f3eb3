-------------------------- MODULE PointLockManager --------------------------
(***************************************************************************)
(* Key locks of pessimistic transactions: the striped lock table, the      *)
(* deadlock detector and lock expiry (lock/point/point_lock_manager.cc),   *)
(* as PessimisticTransaction drives them (pessimistic_transaction.cc).     *)
(*                                                                         *)
(* Each transaction is used by one thread and is identified with its       *)
(* TransactionID.  A section under a stripe mutex or wait_txn_map_mutex_   *)
(* is one step; a stripe mutex kept from one step to the next is           *)
(* stripe_mutex.  Expirations are points of a bounded clock; a lock        *)
(* timeout may strike at any moment of a wait.  One column family.         *)
(***************************************************************************)
EXTENDS Integers, Sequences, FiniteSets

CONSTANTS
    Txns,       \* transactions
    Keys,       \* keys; numbers, for LockBatch locks in sorted order
    Setups,     \* configurations a behaviour may have
    MaxNow      \* bound: the clock stops here

(* A setup:                                                                *)
(*   wants        the keys each transaction locks; {}: it is not used      *)
(*   stripe       the stripe each key hashes to                            *)
(*   expiration   each transaction's expiration_time_; 0: never            *)
(*   timeout      lock timeout: "zero", "some" or "none" (negative)        *)
(*   detect       the transactions with deadlock_detect                    *)
(*   depth        deadlock_detect_depth                                    *)
(*   max_num_locks  0: no limit                                            *)
(*   readers      the transactions that also ask for shared locks          *)
(*   batches      key sets written outside transactions (none is empty)    *)
(*   conflicts    whether ValidateSnapshot may fail for a new lock         *)
(*   unvalidated  whether shared locks are taken with do_validate = false, *)
(*                so that it may fail for an upgrade as well (only where   *)
(*                no transaction expires)                                  *)
(*   two_phase    the transactions that prepare                            *)
(*   aborts       the transactions that roll back, in part or whole        *)
(*   commit_data  whether a commit-time batch may be left in a transaction *)
(*                that has not prepared, which Commit then refuses         *)
(*   write_fails  whether a write to the database may fail                 *)
(*   ops          bound: calls of each transaction                         *)
SetupType ==
    [wants : [Txns -> SUBSET Keys], stripe : [Keys -> Nat],
     expiration : [Txns -> Nat],
     timeout : {"zero", "some", "none"}, detect : SUBSET Txns,
     depth : Nat, max_num_locks : Nat, readers : SUBSET Txns,
     batches : SUBSET SUBSET Keys, conflicts : BOOLEAN, unvalidated : BOOLEAN,
     two_phase : SUBSET Txns, aborts : SUBSET Txns, commit_data : BOOLEAN,
     write_fails : BOOLEAN, ops : [Txns -> Nat]]
(* Downgrade has no rival to ask because nobody can steal the lock before  *)
(* it: where an upgrade may fail its validation, no transaction expires.   *)
ASSUME LockAssumption ==
    /\ Keys \subseteq Nat /\ MaxNow \in Nat
    /\ \A s \in Setups : s \in SetupType /\ s.depth > 0
    /\ \A s \in Setups : s.unvalidated => \A t \in Txns : s.expiration[t] = 0
(* There are finitely many of both, for lock_cnt counts locked keys.       *)
ASSUME FiniteAssumption == IsFiniteSet(Txns) /\ IsFiniteSet(Keys)

VARIABLES
    setup,
    now,              \* NowMicros()
    txn_state,        \* txn_state_
    expiration_time,  \* expiration_time_
    expirable,        \* keys of expirable_transactions_map_
    tracked,          \* tracked_locks_: "none", "shared" or "exclusive"
    keys,             \* LockMapStripe::keys: the LockInfo of each key
    lock_cnt,         \* LockMap::lock_cnt
    stripe_mutex,     \* who keeps the mutex of a stripe between steps
    wait_txn_map,     \* m_neighbors of each waiting transaction
    rev_wait_txn_map, \* how many wait on each
    pc, local, ops

txnVars == <<txn_state, expiration_time, expirable, tracked>>
waitVars == <<wait_txn_map, rev_wait_txn_map>>
vars == <<setup, now, txnVars, keys, lock_cnt, stripe_mutex, waitVars,
          pc, local, ops>>

Nobody == "nobody"
States == {"STARTED", "AWAITING_PREPARE", "PREPARED", "AWAITING_COMMIT",
           "COMMITTED", "AWAITING_ROLLBACK", "ROLLEDBACK", "LOCKS_STOLEN"}
NotLocked == [txn_ids |-> << >>, exclusive |-> FALSE, expiration_time |-> 0]
(* batch, held: keys LockBatch has to lock, has locked (keys_to_unlock);   *)
(* todo: keys UnLock has to unlock; next: what follows.                    *)
NoCall == [key |-> 0, exclusive |-> FALSE, upgrade |-> FALSE,
           wait_ids |-> << >>, expire_time_hint |-> 0, timed_out |-> FALSE,
           busy |-> FALSE, batch |-> {}, held |-> {}, todo |-> {},
           next |-> "none"]
ToSet(s) == {s[i] : i \in DOMAIN s}
Stripes == {setup.stripe[k] : k \in Keys}
Stripe(t) == setup.stripe[local[t].key]

Init ==
    /\ setup \in Setups
    /\ now = 0
    /\ txn_state = [t \in Txns |-> "STARTED"]
    /\ expiration_time = setup.expiration
    /\ expirable = {t \in Txns : setup.expiration[t] > 0}
    /\ tracked = [t \in Txns |-> [k \in Keys |-> "none"]]
    /\ keys = [k \in Keys |-> NotLocked]
    /\ lock_cnt = 0
    /\ stripe_mutex = [s \in Stripes |-> Nobody]
    /\ wait_txn_map = [t \in Txns |-> << >>]
    /\ rev_wait_txn_map = [t \in Txns |-> 0]
    /\ pc = [t \in Txns |-> "idle"]
    /\ local = [t \in Txns |-> NoCall]
    /\ ops = [t \in Txns |-> 0]

IsExpired(t) == expiration_time[t] > 0 /\ now >= expiration_time[t]
HasLocks(t) == \E k \in Keys : tracked[t][k] # "none"

-----------------------------------------------------------------------------
(* AcquireLocked, under the stripe's mutex                                 *)

(* TryStealingExpiredTransactionLocks: a transaction that is not in the    *)
(* map, or one whose state goes from STARTED to LOCKS_STOLEN.              *)
StealingAnyState(u) == TRUE    \* mutated: the state is not compared
TryStealingLocks(u) == u \notin expirable \/ txn_state[u] = "STARTED"

(* IsLockExpired asks the other holders in order, up to the first that     *)
(* refuses.                                                                *)
Rivals(t, info) == ToSet(info.txn_ids) \ {t}
Asked(t, info) ==
    LET s == info.txn_ids
        steals(i) == s[i] # t => TryStealingLocks(s[i])
    IN  {s[i] : i \in {i \in DOMAIN s : s[i] # t /\ \A j \in 1..i : steals(j)}}

(* The call has the lock, or not: then it returns, or goes on to wait with *)
(* the stripe mutex.  A free key is counted in a step of its own.          *)
Granted(t, call, counts) ==
    /\ local' = [local EXCEPT ![t] = call]
    /\ pc' = [pc EXCEPT ![t] = IF counts THEN "counting" ELSE "granted"]
    /\ stripe_mutex' = [stripe_mutex EXCEPT ![setup.stripe[call.key]] =
                            IF counts THEN t ELSE Nobody]
Refused(t, call) ==
    LET returns == setup.timeout = "zero" \/ call.timed_out
    IN  /\ local' = [local EXCEPT ![t] = call]
        /\ pc' = [pc EXCEPT ![t] = IF returns THEN "refused" ELSE "blocked"]
        /\ stripe_mutex' = [stripe_mutex EXCEPT ![setup.stripe[call.key]] =
                                IF returns THEN Nobody ELSE t]

AcquireLocked(t, call) ==
    LET k == call.key
        info == keys[k]
        mine == [txn_ids |-> <<t>>, exclusive |-> call.exclusive,
                 expiration_time |-> expiration_time[t]]
        joined == [txn_ids |-> Append(info.txn_ids, t), exclusive |-> FALSE,
                   expiration_time |-> IF info.expiration_time < expiration_time[t]
                                       THEN expiration_time[t]
                                       ELSE info.expiration_time]
        conflict == info.exclusive \/ call.exclusive
        past == 0 < info.expiration_time /\ info.expiration_time <= now
        asked == Asked(t, info)
        waits(hint) == [call EXCEPT !.wait_ids = info.txn_ids, !.busy = FALSE,
                                    !.expire_time_hint = hint]
    IN  \/ /\ info = NotLocked
           /\ setup.max_num_locks > 0 => lock_cnt < setup.max_num_locks
           /\ keys' = [keys EXCEPT ![k] = mine]
           /\ Granted(t, call, setup.max_num_locks > 0)
           /\ UNCHANGED txn_state
        \/ /\ info = NotLocked
           /\ setup.max_num_locks > 0 /\ lock_cnt >= setup.max_num_locks
           /\ Refused(t, [call EXCEPT !.busy = TRUE])
           /\ UNCHANGED <<keys, txn_state>>
        \/ /\ info # NotLocked /\ ~conflict
           /\ keys' = [keys EXCEPT ![k] = joined]
           /\ Granted(t, call, FALSE)
           /\ UNCHANGED txn_state
        \/ /\ info.txn_ids = <<t>> /\ conflict
           /\ keys' = [keys EXCEPT ![k] = mine]
           /\ Granted(t, call, FALSE)
           /\ UNCHANGED txn_state
        \/ /\ info.txn_ids \notin {<< >>, <<t>>} /\ conflict
           /\ ~past
           /\ Refused(t, waits(info.expiration_time))
           /\ UNCHANGED <<keys, txn_state>>
        \/ /\ info.txn_ids \notin {<< >>, <<t>>} /\ conflict
           /\ past
           /\ txn_state' = [u \in Txns |-> IF u \in asked \cap expirable
                                           THEN "LOCKS_STOLEN" ELSE txn_state[u]]
           /\ IF Rivals(t, info) \subseteq asked
              THEN /\ keys' = [keys EXCEPT ![k] = mine]
                   /\ Granted(t, call, FALSE)
              ELSE Refused(t, waits(0)) /\ UNCHANGED keys

(* lock_cnt++, for a key that was free.                                    *)
CountLock(t) ==
    /\ pc[t] = "counting"
    /\ lock_cnt' = lock_cnt + 1
    /\ stripe_mutex' = [stripe_mutex EXCEPT ![Stripe(t)] = Nobody]
    /\ pc' = [pc EXCEPT ![t] = "granted"]
    /\ UNCHANGED <<setup, now, txnVars, keys, waitVars, local, ops>>

-----------------------------------------------------------------------------
(* AcquireWithTimeout                                                      *)

(* TryLockFor gives up when the mutex is taken, by a holder that keeps it  *)
(* or in a section that is one step here.                                  *)
AcquireWithTimeout(t) ==
    /\ pc[t] = "lock"
    /\ \/ /\ stripe_mutex[Stripe(t)] = Nobody
          /\ AcquireLocked(t, local[t])
       \/ /\ setup.timeout # "none"
          /\ pc' = [pc EXCEPT ![t] = "refused"]
          /\ UNCHANGED <<txn_state, keys, stripe_mutex, local>>
    /\ UNCHANGED <<setup, now, expiration_time, expirable, tracked, lock_cnt,
                   waitVars, ops>>

Occurrences(s, u) == Cardinality({i \in DOMAIN s : s[i] = u})

(* IncrementWaiters looks for the transaction in a queue of at most        *)
(* `depth' entries, breadth first from those it waits for; a queue that    *)
(* fills up counts as a deadlock.                                          *)
NeighborsOnly(t, wait_ids) ==    \* mutated: only those it waits for are asked
    \E i \in DOMAIN wait_ids : wait_ids[i] = t
FindsDeadlock(t, wait_ids) ==
    LET graph == [wait_txn_map EXCEPT ![t] = wait_ids]
        capped(s) == SubSeq(s, 1, IF Len(s) < setup.depth THEN Len(s)
                                                          ELSE setup.depth)
        queue[head \in 0..setup.depth - 1] ==
            IF head = 0 THEN capped(wait_ids)
            ELSE LET seen == queue[head - 1]
                 IN  IF head > Len(seen) THEN seen
                     ELSE capped(seen \o graph[seen[head]])
        last == queue[setup.depth - 1]
        waited_for == rev_wait_txn_map[t] + Occurrences(wait_ids, t)
    IN  waited_for > 0 /\ (t \in ToSet(last) \/ Len(last) = setup.depth)

IncrementWaiters(t) ==
    /\ wait_txn_map' = [wait_txn_map EXCEPT ![t] = local[t].wait_ids]
    /\ rev_wait_txn_map' = [u \in Txns |->
           rev_wait_txn_map[u] + Occurrences(local[t].wait_ids, u)]
DecrementWaiters(t) ==
    IF t \in setup.detect
    THEN /\ wait_txn_map' = [wait_txn_map EXCEPT ![t] = << >>]
         /\ rev_wait_txn_map' = [u \in Txns |->
                rev_wait_txn_map[u] - Occurrences(local[t].wait_ids, u)]
    ELSE UNCHANGED waitVars

(* One turn of the loop up to the wait: a deadlock ends the call; a        *)
(* deadline that has passed skips the wait and keeps the mutex.            *)
Detects(t) == t \in setup.detect /\ local[t].wait_ids # << >>
HintPassed(t) ==
    0 < local[t].expire_time_hint /\ local[t].expire_time_hint <= now
Wait(t) ==
    /\ pc[t] = "blocked"
    /\ \/ /\ Detects(t) /\ FindsDeadlock(t, local[t].wait_ids)
          /\ pc' = [pc EXCEPT ![t] = "refused"]
          /\ stripe_mutex' = [stripe_mutex EXCEPT ![Stripe(t)] = Nobody]
          /\ UNCHANGED waitVars
       \/ /\ Detects(t) => ~FindsDeadlock(t, local[t].wait_ids)
          /\ IF Detects(t) THEN IncrementWaiters(t) ELSE UNCHANGED waitVars
          /\ \/ /\ HintPassed(t) \/ setup.timeout = "some"
                /\ pc' = [pc EXCEPT ![t] = "unwaited"]
                /\ UNCHANGED stripe_mutex
             \/ /\ ~HintPassed(t)
                /\ pc' = [pc EXCEPT ![t] = "asleep"]
                /\ stripe_mutex' = [stripe_mutex EXCEPT ![Stripe(t)] = Nobody]
    /\ UNCHANGED <<setup, now, txnVars, keys, lock_cnt, local, ops>>

(* The wait times out, at the lock timeout or when the lock expires.       *)
TimeOut(t) ==
    /\ pc[t] = "asleep"
    /\ setup.timeout = "some" \/ HintPassed(t)
    /\ pc' = [pc EXCEPT ![t] = "woken"]
    /\ local' = [local EXCEPT ![t].timed_out = TRUE]
    /\ UNCHANGED <<setup, now, txnVars, keys, lock_cnt, stripe_mutex,
                   waitVars, ops>>

(* After the wait, with the mutex again, it tries once more.               *)
Wake(t) ==
    /\ pc[t] = "woken"
    /\ stripe_mutex[Stripe(t)] = Nobody
    /\ DecrementWaiters(t)
    /\ AcquireLocked(t, local[t])
    /\ UNCHANGED <<setup, now, expiration_time, expirable, tracked, lock_cnt,
                   ops>>

(* Without a wait the result is still AcquireLocked's: TimedOut is taken   *)
(* for the end of the wait, Busy goes round the loop again.                *)
Unwaited(t) ==
    /\ pc[t] = "unwaited"
    /\ DecrementWaiters(t)
    /\ \/ /\ ~local[t].busy
          /\ AcquireLocked(t, [local[t] EXCEPT !.timed_out = TRUE])
       \/ /\ local[t].busy
          /\ pc' = [pc EXCEPT ![t] = "blocked"]
          /\ UNCHANGED <<txn_state, keys, stripe_mutex, local>>
    /\ UNCHANGED <<setup, now, expiration_time, expirable, tracked, lock_cnt,
                   ops>>

-----------------------------------------------------------------------------
(* UnLock: stripe by stripe, and everyone who waits on the stripe wakes    *)

(* tracked_locks_ is private to the transaction: that it is cleared when   *)
(* the release begins, not when it ends, is seen by nobody.                *)
Release(t, S, next) ==
    /\ tracked' = [tracked EXCEPT ![t] = [k \in Keys |->
                       IF k \in S THEN "none" ELSE @[k]]]
    /\ local' = [local EXCEPT ![t] = [NoCall EXCEPT !.todo = S,
                                                    !.next = next]]
    /\ pc' = [pc EXCEPT ![t] = "unlocking"]

(* UnLockKey: the last holder takes the place of the one that leaves.      *)
UnLockKey(t, info) ==
    LET s == info.txn_ids
        moved == [i \in 1..Len(s) - 1 |-> IF s[i] = t THEN s[Len(s)] ELSE s[i]]
    IN  IF t \notin ToSet(s) THEN info
        ELSE IF s = <<t>> THEN NotLocked
        ELSE [info EXCEPT !.txn_ids = moved]

UnLock(t) ==
    /\ pc[t] = "unlocking"
    /\ \E s \in Stripes :
          LET mine == {k \in local[t].todo : setup.stripe[k] = s}
              found == {k \in mine : t \in ToSet(keys[k].txn_ids)}
          IN  /\ mine # {} /\ stripe_mutex[s] = Nobody
              /\ keys' = [k \in Keys |-> IF k \in mine THEN UnLockKey(t, keys[k])
                                                       ELSE keys[k]]
              /\ lock_cnt' = IF setup.max_num_locks > 0
                             THEN lock_cnt - Cardinality(found) ELSE lock_cnt
              /\ local' = [local EXCEPT ![t].todo = @ \ mine]
              /\ pc' = [u \in Txns |-> IF pc[u] = "asleep" /\ Stripe(u) = s
                                       THEN "woken" ELSE pc[u]]
    /\ UNCHANGED <<setup, now, txnVars, stripe_mutex, waitVars, ops>>

(* What follows the release; the destructor takes a transaction that still *)
(* has an expiration out of the map.                                       *)
Released(t) ==
    LET next == local[t].next
    IN  /\ pc[t] = "unlocking" /\ local[t].todo = {}
        /\ txn_state' = [txn_state EXCEPT ![t] =
               IF next \in {"COMMITTED", "ROLLEDBACK"} THEN next ELSE @]
        /\ expirable' = IF next = "gone" /\ expiration_time[t] > 0
                        THEN expirable \ {t} ELSE expirable
        /\ pc' = [pc EXCEPT ![t] = IF next = "gone" THEN "gone" ELSE "idle"]
        /\ local' = [local EXCEPT ![t] = NoCall]
        /\ UNCHANGED <<setup, now, expiration_time, tracked, keys, lock_cnt,
                       stripe_mutex, waitVars, ops>>

-----------------------------------------------------------------------------
(* PessimisticTransaction; calls that change nothing here (Commit without  *)
(* locks, a call in a state that refuses it) are left out                  *)

(* TryLock of a key that is not tracked yet, or of an upgrade.             *)
Starts(t) ==
    /\ pc[t] = "idle" /\ ops[t] < setup.ops[t]
    /\ txn_state[t] \in {"STARTED", "LOCKS_STOLEN"}
    /\ ops' = [ops EXCEPT ![t] = @ + 1]
TryLock(t) ==
    /\ Starts(t)
    /\ \E k \in setup.wants[t], x \in BOOLEAN :
          /\ x \/ t \in setup.readers
          /\ tracked[t][k] = "none" \/ (x /\ tracked[t][k] = "shared")
          /\ local' = [local EXCEPT ![t] =
                 [NoCall EXCEPT !.key = k, !.exclusive = x,
                                !.upgrade = tracked[t][k] = "shared"]]
    /\ pc' = [pc EXCEPT ![t] = "lock"]
    /\ UNCHANGED <<setup, now, txnVars, keys, lock_cnt, stripe_mutex, waitVars>>

Track(t) ==
    tracked' = [tracked EXCEPT ![t][local[t].key] =
                    IF local[t].exclusive THEN "exclusive" ELSE "shared"]

(* With the lock: the snapshot is valid and the key is tracked ...         *)
Validated(t) ==
    /\ pc[t] = "granted" /\ local[t].next = "none"
    /\ Track(t)
    /\ pc' = [pc EXCEPT ![t] = "idle"]
    /\ local' = [local EXCEPT ![t] = NoCall]
    /\ UNCHANGED <<setup, now, txn_state, expiration_time, expirable, keys,
                   lock_cnt, stripe_mutex, waitVars, ops>>

(* ... or a newer write is found and a new lock is given back ...          *)
ConflictKeepsLock(t) ==    \* mutated: the lock just taken is not given back
    /\ pc[t] = "granted" /\ local[t].next = "none"
    /\ setup.conflicts /\ ~local[t].upgrade
    /\ pc' = [pc EXCEPT ![t] = "idle"]
    /\ local' = [local EXCEPT ![t] = NoCall]
    /\ UNCHANGED <<setup, now, txnVars, keys, lock_cnt, stripe_mutex,
                   waitVars, ops>>
Conflict(t) ==
    /\ pc[t] = "granted" /\ local[t].next = "none"
    /\ setup.conflicts /\ ~local[t].upgrade
    /\ Release(t, {local[t].key}, "idle")
    /\ UNCHANGED <<setup, now, txn_state, expiration_time, expirable, keys,
                   lock_cnt, stripe_mutex, waitVars, ops>>

(* ... or an upgraded lock becomes shared again.  The TryLock that does so *)
(* overwrites the status, and the key is tracked as exclusive; or it gives *)
(* up on a stripe mutex that is taken, and the lock stays exclusive while  *)
(* the call fails and the key is tracked as shared.                        *)
Downgrade(t) ==
    /\ pc[t] = "granted" /\ local[t].next = "none"
    /\ setup.conflicts /\ setup.unvalidated /\ local[t].upgrade
    /\ stripe_mutex[Stripe(t)] = Nobody
    /\ keys' = [keys EXCEPT ![local[t].key].exclusive = FALSE]
    /\ Track(t)
    /\ pc' = [pc EXCEPT ![t] = "idle"]
    /\ local' = [local EXCEPT ![t] = NoCall]
    /\ UNCHANGED <<setup, now, txn_state, expiration_time, expirable,
                   lock_cnt, stripe_mutex, waitVars, ops>>

DowngradeFails(t) ==
    /\ pc[t] = "granted" /\ local[t].next = "none"
    /\ setup.conflicts /\ setup.unvalidated /\ local[t].upgrade
    /\ setup.timeout # "none"
    /\ pc' = [pc EXCEPT ![t] = "idle"]
    /\ local' = [local EXCEPT ![t] = NoCall]
    /\ UNCHANGED <<setup, now, txnVars, keys, lock_cnt, stripe_mutex,
                   waitVars, ops>>

TryLockFails(t) ==
    /\ pc[t] = "refused" /\ local[t].next = "none"
    /\ pc' = [pc EXCEPT ![t] = "idle"]
    /\ local' = [local EXCEPT ![t] = NoCall]
    /\ UNCHANGED <<setup, now, txnVars, keys, lock_cnt, stripe_mutex,
                   waitVars, ops>>

(* LockBatch of a write outside transactions: the keys in order, exclusive *)
LockFirst(t, batch, held) ==
    \E k \in batch :
        /\ \A j \in batch : k <= j
        /\ local' = [local EXCEPT ![t] =
               [NoCall EXCEPT !.key = k, !.exclusive = TRUE, !.batch = batch,
                              !.held = held, !.next = "batch"]]
CommitBatch(t) ==
    /\ Starts(t) /\ ~HasLocks(t)
    /\ \E S \in setup.batches : S \subseteq setup.wants[t] /\ LockFirst(t, S, {})
    /\ pc' = [pc EXCEPT ![t] = "lock"]
    /\ UNCHANGED <<setup, now, txnVars, keys, lock_cnt, stripe_mutex, waitVars>>

LockBatchNext(t) ==
    LET call == local[t]
        rest == call.batch \ {call.key}
        held == call.held \cup {call.key}
    IN  /\ pc[t] = "granted" /\ call.next = "batch"
        /\ \/ /\ rest = {}
              /\ local' = [local EXCEPT ![t] =
                     [NoCall EXCEPT !.held = held, !.next = "batch"]]
              /\ pc' = [pc EXCEPT ![t] = "check"]
           \/ /\ LockFirst(t, rest, held)
              /\ pc' = [pc EXCEPT ![t] = "lock"]
        /\ UNCHANGED <<setup, now, txnVars, keys, lock_cnt, stripe_mutex,
                       waitVars, ops>>

LockBatchFails(t) ==
    /\ pc[t] = "refused" /\ local[t].next = "batch"
    /\ Release(t, local[t].held, "idle")
    /\ UNCHANGED <<setup, now, txn_state, expiration_time, expirable, keys,
                   lock_cnt, stripe_mutex, waitVars, ops>>

(* Commit and Prepare: an expired transaction is refused at once; a thief  *)
(* may still come before the state is exchanged.                           *)
Commit(t) ==
    /\ pc[t] = "idle" /\ txn_state[t] \in {"STARTED", "PREPARED"}
    /\ HasLocks(t) /\ ~IsExpired(t)
    /\ pc' = [pc EXCEPT ![t] = "commit"]
    /\ local' = [local EXCEPT ![t].next = "commit"]
    /\ UNCHANGED <<setup, now, txnVars, keys, lock_cnt, stripe_mutex,
                   waitVars, ops>>
Prepare(t) ==
    /\ pc[t] = "idle" /\ txn_state[t] = "STARTED" /\ t \in setup.two_phase
    /\ HasLocks(t) /\ ~IsExpired(t)
    /\ pc' = [pc EXCEPT ![t] = "prepare"]
    /\ local' = [local EXCEPT ![t].next = "prepare"]
    /\ UNCHANGED <<setup, now, txnVars, keys, lock_cnt, stripe_mutex,
                   waitVars, ops>>

EndCall(t) ==
    /\ pc' = [pc EXCEPT ![t] = "idle"]
    /\ local' = [local EXCEPT ![t] = NoCall]
    /\ UNCHANGED tracked
(* A batch that ends gives its locks back.                                 *)
EndBatchOrCall(t) ==
    IF local[t].next = "batch" THEN Release(t, local[t].held, "idle")
    ELSE EndCall(t)

CheckExpired(t) ==
    /\ pc[t] = "check"
    /\ IF IsExpired(t) THEN Release(t, local[t].held, "idle")
       ELSE pc' = [pc EXCEPT ![t] = "commit"] /\ UNCHANGED <<local, tracked>>
    /\ UNCHANGED <<setup, now, txn_state, expiration_time, expirable, keys,
                   lock_cnt, stripe_mutex, waitVars, ops>>

(* A commit-time batch that would be lost ends the Commit after the        *)
(* exchange, which only an expirable transaction makes that early.         *)
CommitState(t) ==
    /\ pc[t] = "commit"
    /\ \/ /\ txn_state[t] \in {"STARTED", "PREPARED"}
          /\ txn_state' = [txn_state EXCEPT ![t] = "AWAITING_COMMIT"]
          /\ pc' = [pc EXCEPT ![t] = "write"]
          /\ local' = [local EXCEPT ![t].next =
                 IF @ = "commit" /\ txn_state[t] = "PREPARED"
                 THEN "commit_prepared" ELSE @]
          /\ UNCHANGED tracked
       \/ /\ txn_state[t] = "STARTED" /\ local[t].next = "commit"
          /\ setup.commit_data
          /\ txn_state' = [txn_state EXCEPT ![t] =
                 IF expiration_time[t] > 0 THEN "AWAITING_COMMIT" ELSE @]
          /\ EndCall(t)
       \/ /\ txn_state[t] = "LOCKS_STOLEN"
          /\ EndBatchOrCall(t)
          /\ UNCHANGED txn_state
    /\ UNCHANGED <<setup, now, expiration_time, expirable, keys, lock_cnt,
                   stripe_mutex, waitVars, ops>>

(* A prepared transaction cannot expire; it stays in the map.              *)
PrepareState(t) ==
    /\ pc[t] = "prepare"
    /\ \/ /\ txn_state[t] = "STARTED"
          /\ txn_state' = [txn_state EXCEPT ![t] = "AWAITING_PREPARE"]
          /\ expiration_time' = [expiration_time EXCEPT ![t] = 0]
          /\ pc' = [pc EXCEPT ![t] = "write"]
          /\ UNCHANGED <<tracked, local>>
       \/ /\ txn_state[t] = "LOCKS_STOLEN"
          /\ EndCall(t)
          /\ UNCHANGED <<txn_state, expiration_time>>
    /\ UNCHANGED <<setup, now, expirable, keys, lock_cnt, stripe_mutex,
                   waitVars, ops>>

TrackedKeys(t) == {k \in Keys : tracked[t][k] # "none"}

(* The write to the database has ended.  A batch is COMMITTED before its   *)
(* locks go, a transaction afterwards; a failed Prepare, Rollback or       *)
(* Commit of a prepared transaction keeps its locks.                       *)
Written(t) ==
    LET next == local[t].next
    IN  /\ pc[t] = "write"
        /\ \/ /\ next = "prepare"
              /\ txn_state' = [txn_state EXCEPT ![t] = "PREPARED"]
              /\ EndCall(t)
           \/ /\ next = "batch"
              /\ txn_state' = [txn_state EXCEPT ![t] = "COMMITTED"]
              /\ Release(t, local[t].held, "idle")
           \/ /\ next \in {"commit", "commit_prepared"}
              /\ Release(t, TrackedKeys(t), "COMMITTED")
              /\ UNCHANGED txn_state
           \/ /\ next = "rollback"
              /\ Release(t, TrackedKeys(t), "ROLLEDBACK")
              /\ UNCHANGED txn_state
        /\ UNCHANGED <<setup, now, expiration_time, expirable, keys, lock_cnt,
                       stripe_mutex, waitVars, ops>>
WriteFails(t) ==
    /\ pc[t] = "write" /\ setup.write_fails
    /\ IF local[t].next = "commit" THEN Release(t, TrackedKeys(t), "idle")
       ELSE EndBatchOrCall(t)
    /\ UNCHANGED <<setup, now, txn_state, expiration_time, expirable, keys,
                   lock_cnt, stripe_mutex, waitVars, ops>>

(* Rollback of a transaction that has not prepared leaves it STARTED.      *)
Rollback(t) ==
    /\ pc[t] = "idle" /\ t \in setup.aborts
    /\ \/ /\ txn_state[t] = "PREPARED"
          /\ txn_state' = [txn_state EXCEPT ![t] = "AWAITING_ROLLBACK"]
          /\ pc' = [pc EXCEPT ![t] = "write"]
          /\ local' = [local EXCEPT ![t].next = "rollback"]
          /\ UNCHANGED tracked
       \/ /\ txn_state[t] = "STARTED" /\ HasLocks(t)
          /\ Release(t, TrackedKeys(t), "idle")
          /\ UNCHANGED txn_state
    /\ UNCHANGED <<setup, now, expiration_time, expirable, keys, lock_cnt,
                   stripe_mutex, waitVars, ops>>

(* The keys locked since the last save point, for any save point.          *)
RollbackToSavePoint(t) ==
    /\ pc[t] = "idle" /\ t \in setup.aborts /\ txn_state[t] = "STARTED"
    /\ \E k \in TrackedKeys(t) :
          TrackedKeys(t) # {k} /\ Release(t, {k}, "idle")
    /\ UNCHANGED <<setup, now, txn_state, expiration_time, expirable, keys,
                   lock_cnt, stripe_mutex, waitVars, ops>>

Destroy(t) ==
    /\ pc[t] = "idle" /\ setup.wants[t] # {}
    /\ Release(t, TrackedKeys(t), "gone")
    /\ UNCHANGED <<setup, now, txn_state, expiration_time, expirable, keys,
                   lock_cnt, stripe_mutex, waitVars, ops>>

(* The clock moves as long as somebody's expiration is ahead.              *)
Tick ==
    /\ now < MaxNow /\ \E t \in Txns : now < setup.expiration[t]
    /\ now' = now + 1
    /\ UNCHANGED <<setup, txnVars, keys, lock_cnt, stripe_mutex, waitVars,
                   pc, local, ops>>

-----------------------------------------------------------------------------
Calls(t) ==
    TryLock(t) \/ CommitBatch(t) \/ Commit(t) \/ Prepare(t) \/ Rollback(t)
    \/ RollbackToSavePoint(t) \/ Destroy(t)
Runs(t) ==
    \/ AcquireWithTimeout(t) \/ CountLock(t) \/ Wait(t) \/ Wake(t)
    \/ Unwaited(t) \/ Validated(t) \/ Conflict(t) \/ Downgrade(t)
    \/ DowngradeFails(t) \/ TryLockFails(t) \/ LockBatchNext(t)
    \/ LockBatchFails(t) \/ CheckExpired(t) \/ CommitState(t)
    \/ PrepareState(t) \/ Written(t) \/ WriteFails(t) \/ UnLock(t) \/ Released(t)
Next == Tick \/ \E t \in Txns : Calls(t) \/ Runs(t) \/ TimeOut(t)

Spec == Init /\ [][Next]_vars

(* A thread runs on, a deadline arrives, and a user sooner or later ends a *)
(* transaction that is not inside a call.                                  *)
FairSpec ==
    Spec /\ \A t \in Txns : WF_vars(TimeOut(t) \/ Destroy(t) \/ Runs(t))

-----------------------------------------------------------------------------
LockInfo == [txn_ids : Seq(Txns), exclusive : BOOLEAN, expiration_time : Nat]
Labels == {"idle", "lock", "blocked", "asleep", "woken", "unwaited", "counting",
           "granted", "refused", "check", "commit", "prepare", "write",
           "unlocking", "gone"}
Nexts == {"none", "batch", "idle", "prepare", "commit", "commit_prepared",
          "rollback", "COMMITTED", "ROLLEDBACK", "gone"}
LockCall ==
    [key : Keys \cup {0}, exclusive : BOOLEAN, upgrade : BOOLEAN,
     wait_ids : Seq(Txns), expire_time_hint : Nat, timed_out : BOOLEAN,
     busy : BOOLEAN, batch : SUBSET Keys, held : SUBSET Keys,
     todo : SUBSET Keys, next : Nexts]
TypeOK ==
    /\ setup \in Setups /\ now \in 0..MaxNow
    /\ txn_state \in [Txns -> States]
    /\ expiration_time \in [Txns -> Nat] /\ expirable \subseteq Txns
    /\ tracked \in [Txns -> [Keys -> {"none", "shared", "exclusive"}]]
    /\ keys \in [Keys -> LockInfo] /\ lock_cnt \in Int
    /\ stripe_mutex \in [Stripes -> Txns \cup {Nobody}]
    /\ wait_txn_map \in [Txns -> Seq(Txns)]
    /\ rev_wait_txn_map \in [Txns -> Int]
    /\ pc \in [Txns -> Labels] /\ local \in [Txns -> LockCall]
    /\ ops \in [Txns -> Nat]

(* What a transaction that may still commit has, as far as it knows.       *)
Relies(t, k) ==
    /\ txn_state[t] # "LOCKS_STOLEN"
    /\ tracked[t][k] # "none" \/ k \in local[t].held
Alone(t, k) == tracked[t][k] = "exclusive" \/ k \in local[t].held

(* Two transactions that can still commit, or are committing, never rely   *)
(* on locks of one key unless both are shared: neither expiry racing       *)
(* Commit or Prepare (TryStealingLocks against the exchange of             *)
(* txn_state_), nor an upgrade, nor a release in progress lets two in.     *)
(* One case is left out because the code lets two in: an upgrade of an     *)
(* unvalidated shared lock whose check fails tracks an exclusive lock that *)
(* Downgrade has made shared, and where readers share locks another reader *)
(* may join it; with setup.unvalidated, at most one transaction reads.     *)
LocksExclude ==
    \A t, u \in Txns, k \in Keys :
        t # u /\ Relies(t, k) /\ Relies(u, k) => ~Alone(t, k) /\ ~Alone(u, k)

(* Every holder in the lock table is a transaction that still exists and   *)
(* will give the lock back (it tracks the key, is acquiring it or is       *)
(* releasing it), and no holder appears twice; so no lock is leaked by     *)
(* ValidateSnapshot, LockBatch or a write failing half-way, and the        *)
(* pointers in expirable_transactions_map_ that IsLockExpired follows are  *)
(* live.  Without shared locks lock_cnt is the number of locked keys.      *)
NoLockLeak ==
    /\ \A k \in Keys : \A t \in ToSet(keys[k].txn_ids) :
          /\ Occurrences(keys[k].txn_ids, t) = 1
          /\ \/ tracked[t][k] # "none"
             \/ k \in local[t].held \cup local[t].todo
             \/ pc[t] \in {"counting", "granted"} /\ local[t].key = k
    /\ setup.max_num_locks > 0 /\ setup.readers = {} =>
          lock_cnt + Cardinality({t \in Txns : pc[t] = "counting"})
              = Cardinality({k \in Keys : keys[k] # NotLocked})

(* The loop of AcquireWithTimeout that a deadline reached under kLockLimit *)
(* never leaves (the status stays Busy, and nothing changes it).           *)
Spins == \E t \in Txns : pc[t] = "unwaited" /\ local[t].busy

(* Every call returns: a cycle of waits is found by whoever closes it,     *)
(* also when the holders changed after a wait had begun, every release     *)
(* wakes those who wait, and a wait for a lock that expires ends.          *)
EveryLockCallReturns ==
    \A t \in Txns : pc[t] = "lock" ~> (pc[t] \in {"idle", "gone"} \/ Spins)
=============================================================================
