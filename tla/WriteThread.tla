---------------------------- MODULE WriteThread ----------------------------
(***************************************************************************)
(* The group-commit queue of db/write_thread.{h,cc}.  Writers push         *)
(* themselves onto a lock-free list (newest_writer_, link_older); the      *)
(* oldest one is the leader, which lazily completes the link_newer         *)
(* pointers, picks a prefix of the queue as its group and hands the        *)
(* leadership on when it leaves.                                           *)
(*                                                                         *)
(* The Writer objects live on the stacks of the writing threads, so a      *)
(* Writer is identified with its thread.  `writer' is the heap: every      *)
(* operator below that changes it takes the old heap W and returns the new *)
(* one, so that a step of a thread composes the calls the code makes       *)
(* between two points where another thread can interfere.                  *)
(***************************************************************************)
EXTENDS Naturals, FiniteSets, Sequences, SequencesExt

CONSTANTS
    Threads,                            \* the threads that write
    Null,                               \* nullptr
    max_write_batch_group_size_bytes    \* DBOptions

ASSUME OptionsAssumption ==
    /\ max_write_batch_group_size_bytes \in Nat \ {0}
    /\ Null \notin Threads

(* Writers that no thread owns: the write-stall marker, the dummy that a   *)
(* departing pipelined leader leaves in the queue, and the local Writer of *)
(* WaitForMemTableWriters (only a leader runs those, so one of each).      *)
StallDummy == "write_stall_dummy_"
ExitDummy == "dummy"
MemDummy == "wait_dummy"
Writers == Threads \cup {StallDummy, ExitDummy, MemDummy}
Pointers == Writers \cup {Null}

INIT == "STATE_INIT"
GROUP_LEADER == "STATE_GROUP_LEADER"
MEMTABLE_WRITER_LEADER == "STATE_MEMTABLE_WRITER_LEADER"
PARALLEL_MEMTABLE_WRITER == "STATE_PARALLEL_MEMTABLE_WRITER"
COMPLETED == "STATE_COMPLETED"
LOCKED_WAITING == "STATE_LOCKED_WAITING"

States == {INIT, GROUP_LEADER, MEMTABLE_WRITER_LEADER,
           PARALLEL_MEMTABLE_WRITER, COMPLETED, LOCKED_WAITING}

OK == "ok"
Incomplete == "Incomplete"
Failed == "Failed"
Statuses == {OK, Incomplete, Failed}

(* What a write asks for.  batch = FALSE is the null batch of an unbatched *)
(* writer; `count' is the number of records in the batch, `size' its       *)
(* bytes; `class' stands for (protection_bytes_per_key,                    *)
(* rate_limiter_priority), which the code only compares; `bad' is the      *)
(* record of the batch whose memtable insertion fails, 0 for none (it      *)
(* names a dropped column family).                                         *)
NoRequest == [batch |-> FALSE, sync |-> FALSE, no_slowdown |-> FALSE,
              disable_wal |-> FALSE, disable_memtable |-> FALSE,
              merge |-> FALSE, bad |-> 0, callback |-> "none",
              class |-> 0, count |-> 0, size |-> 0]

NewWriter(request) ==
    [request |-> request, state |-> INIT, made_waitable |-> FALSE,
     write_group |-> Null, sequence |-> 0, status |-> OK,
     callback_ok |-> TRUE, link_older |-> Null, link_newer |-> Null]

(* The WriteGroup on the stack of a leader; a pointer to it is the leader's *)
(* thread.  A thread never has two groups alive at once.                    *)
NewGroup == [leader |-> Null, last_writer |-> Null, size |-> 0,
             running |-> 0, status |-> OK, last_sequence |-> 0]

VARIABLES
    newest_writer,              \* head of the queue
    newest_memtable_writer,     \* head of the pipelined memtable queue
    writer,                     \* the heap of Writer objects
    group,                      \* the WriteGroup of each thread
    stall_begun_count,          \* the two write-stall counters
    stall_ended_count

wtVars == <<newest_writer, newest_memtable_writer, writer, group,
            stall_begun_count, stall_ended_count>>

CallbackFailed(w) == ~w.callback_ok
ShouldWriteToMemtable(w) ==
    w.status = OK /\ ~CallbackFailed(w) /\ ~w.request.disable_memtable
FinalStatus(w) ==
    IF w.status = OK /\ ~w.callback_ok THEN Failed ELSE w.status
----------------------------------------------------------------------------
(* SetState and BlockingAwaitState are atomic here; AwaitState.tla models  *)
(* their loads, CASes, mutex and condition variable one by one and is      *)
(* proved to implement these steps.                                        *)
SetState(W, w, new_state) == [W EXCEPT ![w].state = new_state]

(* The writers from head towards older ones, and the same oldest first.    *)
OlderChain(W, head) ==
    LET at[i \in 0..Cardinality(Writers)] ==
            IF i = 0 THEN head
            ELSE IF at[i - 1] = Null THEN Null ELSE W[at[i - 1]].link_older
        len == Cardinality({i \in DOMAIN at : at[i] # Null})
    IN  [i \in 1..len |-> at[i - 1]]
Queue(W, head) == Reverse(OlderChain(W, head))

(* CreateMissingNewerLinks: from head on, set link_newer of each older     *)
(* writer up to the first one whose link_newer is already set.             *)
CreateMissingNewerLinks(W, head) ==
    LET c == OlderChain(W, head)
        missing == {i \in 2..Len(c) :
                      \A j \in 2..i : W[c[j]].link_newer = Null}
    IN  [w \in Writers |->
            IF \E i \in missing : c[i] = w
            THEN [W[w] EXCEPT !.link_newer =
                    c[(CHOOSE i \in missing : c[i] = w) - 1]]
            ELSE W[w]]

(* Hand the leadership to `next', in the role `how'.                       *)
Promote(W, next, how) ==
    SetState([W EXCEPT ![next].link_older = Null], next, how)

CompleteLeader(W, g) ==
    SetState(IF g.size = 1 THEN W
             ELSE [W EXCEPT ![W[g.leader].link_newer].link_older = Null],
             g.leader, COMPLETED)
CompleteLeaderGroup(W, g) ==
    IF g.size = 1
    THEN [g EXCEPT !.leader = Null, !.last_writer = Null, !.size = 0]
    ELSE [g EXCEPT !.leader = W[g.leader].link_newer, !.size = @ - 1]

CompleteFollower(W, w, g) ==
    LET older == W[w].link_older
        newer == W[w].link_newer
    IN  SetState(IF w = g.last_writer
                 THEN [W EXCEPT ![older].link_newer = Null]
                 ELSE [W EXCEPT ![older].link_newer = newer,
                                ![newer].link_older = older],
                 w, COMPLETED)
CompleteFollowerGroup(W, w, g) ==
    [g EXCEPT !.size = @ - 1,
              !.last_writer = IF w = @ THEN W[w].link_older ELSE @]
----------------------------------------------------------------------------
(* EnterAsBatchGroupLeader: may w join a group led by leader?              *)
CompatibleIgnoresSync(leader, w) ==    \* mutated: the sync test is missing
    /\ w.no_slowdown = leader.no_slowdown
    /\ w.disable_wal = leader.disable_wal
    /\ w.class = leader.class
    /\ w.batch
    /\ w.callback # "nobatch"
Compatible(leader, w) ==
    /\ w.sync => leader.sync
    /\ w.no_slowdown = leader.no_slowdown
    /\ w.disable_wal = leader.disable_wal
    /\ w.class = leader.class
    /\ w.batch
    /\ w.callback # "nobatch"

MaxGroupSize(size) ==
    IF size <= max_write_batch_group_size_bytes \div 8
    THEN size + max_write_batch_group_size_bytes \div 8
    ELSE max_write_batch_group_size_bytes

(* The longest prefix of the queue q (oldest first) whose every member     *)
(* after the first is in `may' and, if limited, keeps the total size down. *)
GroupOf(W, q, may, limited) ==
    LET size(i) == W[q[i]].request.size
        total[i \in 1..Len(q)] == size(i) + IF i = 1 THEN 0 ELSE total[i - 1]
        joins(i) == /\ q[i] \in may
                    /\ limited => total[i] <= MaxGroupSize(size(1))
        n == CHOOSE i \in 1..Len(q) : /\ \A j \in 2..i : joins(j)
                                      /\ i < Len(q) => ~joins(i + 1)
    IN  SubSeq(q, 1, n)

BatchGroup(W, t, head) ==
    LET may == {w \in Writers : Compatible(W[t].request, W[w].request)}
    IN  GroupOf(W, Queue(W, head), may, TRUE)

(* EnterAsMemTableWriter: a merge cannot be inserted concurrently, so with *)
(* concurrent inserts a merging leader is alone.                           *)
MemTableGroup(W, t, head, concurrent) ==
    LET may == {w \in Writers : W[w].request.batch /\ ~W[w].request.merge}
    IN  IF concurrent /\ W[t].request.merge
        THEN <<t>>
        ELSE GroupOf(W, Queue(W, head), may, ~concurrent)

JoinGroup(W, members, t) ==
    [w \in Writers |-> IF w \in ToSet(members)
                       THEN [W[w] EXCEPT !.write_group = t] ELSE W[w]]

GroupRecord(members) ==
    [NewGroup EXCEPT !.leader = Head(members), !.last_writer = Last(members),
                     !.size = Len(members)]

(* The members of a group, in queue order, as WriteGroup::Iterator visits. *)
Members(W, g) ==
    LET at[i \in 1..Cardinality(Writers)] ==
            IF i = 1 THEN g.leader
            ELSE IF at[i - 1] \in {Null, g.last_writer} THEN Null
            ELSE W[at[i - 1]].link_newer
    IN  SelectSeq(at, LAMBDA w : w # Null)

(* LinkGroup: move the whole group onto the memtable queue.                *)
LinkGroup(W, g, newest) ==
    [w \in Writers |->
            IF w \notin ToSet(OlderChain(W, g.last_writer)) THEN W[w]
            ELSE [W[w] EXCEPT !.link_newer = Null, !.write_group = Null,
                              !.link_older = IF w = g.leader THEN newest
                                             ELSE @]]
=============================================================================
