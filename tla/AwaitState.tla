----------------------------- MODULE AwaitState -----------------------------
(***************************************************************************)
(* WriteThread::AwaitState, BlockingAwaitState and SetState on one Writer, *)
(* one access to shared memory at a time: the atomic `state', the mutex    *)
(* and condition variable that CreateMutex constructs only when the owner  *)
(* is about to block, and the life of the Writer itself, which is a local  *)
(* variable of its owner.                                                  *)
(*                                                                         *)
(* An owner waits for the Writer's states one after the other; for each    *)
(* one some thread calls SetState, at any time after the previous wait     *)
(* returned, possibly before the owner waits (a follower is completed by   *)
(* one thread, made a parallel writer by another).  The states are         *)
(* numbered as in Handshake.                                               *)
(***************************************************************************)
EXTENDS Naturals

CONSTANTS
    Wakers,             \* the threads that call SetState
    Owner,              \* the thread the Writer belongs to
    NoThread,           \* holds the mutex when nobody does
    LOCKED_WAITING,     \* STATE_LOCKED_WAITING
    Rounds              \* bound: waits in the life of a Writer

ASSUME ThreadsAssumption ==
    /\ Owner \notin Wakers
    /\ NoThread \notin Wakers \cup {Owner}
    /\ LOCKED_WAITING \notin Nat
    /\ Rounds \in Nat

VARIABLES
    alive,          \* the Writer exists
    made_waitable,  \* Writer::made_waitable
    state,          \* Writer::state
    mutex,          \* the holder of StateMutex()
    done,           \* the waits of the owner that have returned
    called,         \* the SetState calls that have begun
    pc,             \* where each thread is
    seen            \* its local variable `state'

vars == <<alive, made_waitable, state, mutex, done, called, pc, seen>>

All == Wakers \cup {Owner}
Goto(t, label) == pc' = [pc EXCEPT ![t] = label]

Init ==
    /\ alive = FALSE
    /\ made_waitable = FALSE
    /\ state = 0
    /\ mutex = NoThread
    /\ done = 0
    /\ called = 0
    /\ pc = [t \in All |-> "out"]
    /\ seen = [t \in All |-> 0]
----------------------------------------------------------------------------
(* The owner                                                               *)

Construct ==
    /\ pc[Owner] = "out" /\ ~alive
    /\ alive' = TRUE
    /\ made_waitable' = FALSE
    /\ state' = 0
    /\ UNCHANGED <<mutex, done, called, pc, seen>>

CallAwaitState ==
    /\ pc[Owner] = "out" /\ alive
    /\ done < Rounds
    /\ Goto(Owner, "spin")
    /\ UNCHANGED <<alive, made_waitable, state, mutex, done, called, seen>>

(* AwaitState returns to its caller.                                       *)
Return ==
    /\ done' = done + 1
    /\ Goto(Owner, "out")

(* The loops that spin and yield: they return when they see the goal, and  *)
(* give up after a while (200 rounds, or max_yield_usec_).                 *)
Spin ==
    /\ pc[Owner] = "spin"
    /\ \/ state = done + 1 /\ Return
       \/ state # done + 1 /\ Goto(Owner, "create") /\ UNCHANGED done
    /\ UNCHANGED <<alive, made_waitable, state, mutex, called, seen>>

CreateNoMutex ==    \* mutated: the mutex is not constructed
    /\ pc[Owner] = "create"
    /\ Goto(Owner, "load")
    /\ UNCHANGED <<alive, made_waitable, state, mutex, done, called, seen>>
CreateMutex ==
    /\ pc[Owner] = "create"
    /\ made_waitable' = TRUE
    /\ Goto(Owner, "load")
    /\ UNCHANGED <<alive, state, mutex, done, called, seen>>

BlockingLoad ==
    /\ pc[Owner] = "load"
    /\ seen' = [seen EXCEPT ![Owner] = state]
    /\ IF state = done + 1
       THEN Return
       ELSE Goto(Owner, "cas") /\ UNCHANGED done
    /\ UNCHANGED <<alive, made_waitable, state, mutex, called>>

(* The CAS fails only if a waker was faster.                               *)
BlockingCAS ==
    /\ pc[Owner] = "cas"
    /\ IF state = seen[Owner]
       THEN state' = LOCKED_WAITING /\ Goto(Owner, "lock") /\ UNCHANGED done
       ELSE Return /\ UNCHANGED state
    /\ UNCHANGED <<alive, made_waitable, mutex, called, seen>>

(* StateCV().wait(guard, ...): the mutex is held while the predicate is    *)
(* evaluated and released while the owner sleeps.                          *)
WaitLock ==
    /\ pc[Owner] = "lock"
    /\ mutex = NoThread
    /\ mutex' = Owner
    /\ Goto(Owner, "predicate")
    /\ UNCHANGED <<alive, made_waitable, state, done, called, seen>>

WaitWithoutPredicate ==    \* mutated: any wakeup ends the wait
    /\ pc[Owner] = "predicate"
    /\ Goto(Owner, "unlock")
    /\ UNCHANGED <<alive, made_waitable, state, mutex, done, called, seen>>
WaitPredicate ==
    /\ pc[Owner] = "predicate"
    /\ IF state = LOCKED_WAITING
       THEN mutex' = NoThread /\ Goto(Owner, "asleep")
       ELSE Goto(Owner, "unlock") /\ UNCHANGED mutex
    /\ UNCHANGED <<alive, made_waitable, state, done, called, seen>>

SpuriousWakeup ==
    /\ pc[Owner] = "asleep"
    /\ Goto(Owner, "lock")
    /\ UNCHANGED <<alive, made_waitable, state, mutex, done, called, seen>>

BlockingReturn ==
    /\ pc[Owner] = "unlock"
    /\ mutex' = NoThread
    /\ Return
    /\ UNCHANGED <<alive, made_waitable, state, called, seen>>

(* The owner's function returns once no further SetState is to come.       *)
Destroy ==
    /\ pc[Owner] = "out" /\ alive
    /\ called = done
    /\ alive' = FALSE
    /\ called' = 0
    /\ done' = 0
    /\ UNCHANGED <<made_waitable, state, mutex, pc, seen>>
----------------------------------------------------------------------------
(* A waker                                                                 *)

CallSetState(w) ==
    /\ pc[w] = "out"
    /\ alive /\ called = done /\ called < Rounds
    /\ called' = called + 1
    /\ Goto(w, "load")
    /\ UNCHANGED <<alive, made_waitable, state, mutex, done, seen>>

SetStateAlwaysLocks(w) ==    \* mutated: no fast path
    /\ pc[w] = "load"
    /\ seen' = [seen EXCEPT ![w] = state]
    /\ Goto(w, "lock")
    /\ UNCHANGED <<alive, made_waitable, state, mutex, done, called>>
SetStateLoad(w) ==
    /\ pc[w] = "load"
    /\ seen' = [seen EXCEPT ![w] = state]
    /\ Goto(w, IF state = LOCKED_WAITING THEN "lock" ELSE "cas")
    /\ UNCHANGED <<alive, made_waitable, state, mutex, done, called>>

SetStateCAS(w) ==
    /\ pc[w] = "cas"
    /\ IF state = seen[w]
       THEN state' = called /\ Goto(w, "out") /\ UNCHANGED seen
       ELSE /\ seen' = [seen EXCEPT ![w] = state]
            /\ Goto(w, "lock")
            /\ UNCHANGED state
    /\ UNCHANGED <<alive, made_waitable, mutex, done, called>>

SetStateLock(w) ==
    /\ pc[w] = "lock"
    /\ mutex = NoThread
    /\ mutex' = w
    /\ Goto(w, "store")
    /\ UNCHANGED <<alive, made_waitable, state, done, called, seen>>

SetStateUnlocksEarly(w) ==    \* mutated: notifies outside the mutex
    /\ pc[w] = "store"
    /\ state' = called
    /\ mutex' = NoThread
    /\ Goto(w, "notify")
    /\ UNCHANGED <<alive, made_waitable, done, called, seen>>
SetStateStore(w) ==
    /\ pc[w] = "store"
    /\ state' = called
    /\ Goto(w, "notify")
    /\ UNCHANGED <<alive, made_waitable, mutex, done, called, seen>>

SetStateNotifiesNobody(w) ==    \* mutated: notify_one is missing
    /\ pc[w] = "notify"
    /\ Goto(w, "unlock")
    /\ UNCHANGED <<alive, made_waitable, state, mutex, done, called, seen>>
SetStateNotify(w) ==
    /\ pc[w] = "notify"
    /\ pc' = [pc EXCEPT ![w] = "unlock",
                        ![Owner] = IF @ = "asleep" THEN "lock" ELSE @]
    /\ UNCHANGED <<alive, made_waitable, state, mutex, done, called, seen>>

SetStateUnlock(w) ==
    /\ pc[w] = "unlock"
    /\ mutex' = NoThread
    /\ Goto(w, "out")
    /\ UNCHANGED <<alive, made_waitable, state, done, called, seen>>

OwnerStep ==
    \/ Spin \/ CreateMutex \/ BlockingLoad \/ BlockingCAS
    \/ WaitLock \/ WaitPredicate \/ BlockingReturn
WakerStep(w) ==
    \/ SetStateLoad(w) \/ SetStateCAS(w) \/ SetStateLock(w)
    \/ SetStateStore(w) \/ SetStateNotify(w) \/ SetStateUnlock(w)

Next ==
    \/ Construct \/ CallAwaitState \/ Destroy \/ OwnerStep \/ SpuriousWakeup
    \/ \E w \in Wakers : CallSetState(w) \/ WakerStep(w)

Spec == Init /\ [][Next]_vars

(* Threads inside AwaitState and SetState keep running, a waker that finds *)
(* the mutex free again and again gets it in the end (the owner may take   *)
(* it any number of times, after spurious wakeups), and some thread does   *)
(* call SetState for a Writer whose owner waits (DBWrite's                 *)
(* EveryWriteReturns is about that part).                                  *)
Fairness ==
    /\ WF_vars(OwnerStep)
    /\ \A w \in Wakers : WF_vars(WakerStep(w)) /\ SF_vars(SetStateLock(w))
    /\ WF_vars(\E w \in Wakers : CallSetState(w))

FairSpec == Spec /\ Fairness
----------------------------------------------------------------------------
(* Properties                                                              *)

OwnerLabels == {"out", "spin", "create", "load", "cas", "lock", "predicate",
                "asleep", "unlock"}
WakerLabels == {"out", "load", "cas", "lock", "store", "notify", "unlock"}
States == Nat \cup {LOCKED_WAITING}

(* The types of the Writer and of the two calls' local variables.         *)
TypeOK ==
    /\ alive \in BOOLEAN
    /\ made_waitable \in BOOLEAN
    /\ state \in States
    /\ mutex \in All \cup {NoThread}
    /\ done \in Nat
    /\ called \in Nat
    /\ pc \in [All -> OwnerLabels \cup WakerLabels]
    /\ pc[Owner] \in OwnerLabels
    /\ \A w \in Wakers : pc[w] \in WakerLabels
    /\ seen \in [All -> States]

(* SetState never touches a Writer that its owner has destroyed: "as soon  *)
(* as it is marked committed the other thread's Await may return and       *)
(* deallocate the Writer" (write_thread.cc:784).                           *)
WakerTouchesLiveWriter == \A w \in Wakers : pc[w] # "out" => alive

(* SetState uses the mutex and the condition variable only if CreateMutex  *)
(* has constructed them (write_thread.cc:37-41, and the assertion of       *)
(* StateMutex, write_thread.h:255).                                        *)
MutexIsConstructed ==
    \A w \in Wakers : pc[w] \in {"lock", "store", "notify", "unlock"}
                        => made_waitable

(* No wakeup is lost: an owner sleeps only until its state is set, or the  *)
(* waker that set it is about to notify it.                                *)
NoLostWakeup ==
    pc[Owner] = "asleep" /\ state # LOCKED_WAITING
        => \E w \in Wakers : pc[w] = "notify"

(* The assertions of the code: a CAS fails only for the reason the comment *)
(* after it gives, whoever locks the mutex in SetState finds               *)
(* LOCKED_WAITING, and a wait returns with its goal (write_thread.cc:45,   *)
(* :60, :217 and :220).                                                    *)
AssertionsHold ==
    /\ pc[Owner] = "load" => state # LOCKED_WAITING
    /\ pc[Owner] = "cas" => state \in {seen[Owner], done + 1}
    /\ pc[Owner] = "unlock" => state = done + 1
    /\ \A w \in Wakers : pc[w] \in {"lock", "store"} => state = LOCKED_WAITING

(* The step-by-step handshake implements the atomic one that WriteThread   *)
(* and DBWrite are built from.                                             *)
AbstractPhase ==
    CASE pc[Owner] = "out" -> "running"
      [] pc[Owner] \in {"spin", "create", "load", "cas"} -> "await"
      [] OTHER -> "block"
H == INSTANCE Handshake WITH phase <- AbstractPhase
ImplementsHandshake == H!Spec

(* Every wait returns.                                                     *)
EveryWaitReturns == pc[Owner] = "spin" ~> pc[Owner] = "out"
=============================================================================
