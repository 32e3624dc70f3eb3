-------------------------- MODULE AwaitStateProofs --------------------------
(***************************************************************************)
(* AwaitState is safe for any number of wakers and of waits, and it        *)
(* implements Handshake.  The invariants of AwaitState are not inductive;  *)
(* Inv adds what each label of the owner and of a waker knows about the    *)
(* state, the mutex and the other side.                                    *)
(***************************************************************************)
EXTENDS AwaitState, TLAPS

(* At most one SetState is in progress, it is for the wait after the last  *)
(* one that returned, and the Writer is alive.                             *)
OneSetter ==
    /\ called = done \/ called = done + 1
    /\ \A w \in Wakers : pc[w] # "out" => alive /\ called = done + 1
    /\ \A v, w \in Wakers : pc[v] # "out" /\ pc[w] # "out" => v = w
    /\ ~alive => pc[Owner] = "out" /\ called = 0 /\ done = 0

(* Who holds the mutex.                                                    *)
MutexHolder ==
    /\ mutex = Owner <=> pc[Owner] \in {"predicate", "unlock"}
    /\ \A w \in Wakers : mutex = w <=> pc[w] \in {"store", "notify", "unlock"}

(* The value of `state': the goal of the next wait once a SetState for it  *)
(* has stored, and before that the last goal or LOCKED_WAITING.            *)
StateValue ==
    alive =>
        /\ called = done => state = done \/ state = LOCKED_WAITING
        /\ \A w \in Wakers :
             /\ pc[w] \in {"load", "cas"} => state = done \/ state = LOCKED_WAITING
             /\ pc[w] = "cas" => seen[w] = done
             /\ pc[w] \in {"lock", "store"} => state = LOCKED_WAITING
             /\ pc[w] \in {"notify", "unlock"} => state = done + 1
        /\ called = done + 1 /\ (\A w \in Wakers : pc[w] = "out")
             => state = done + 1

(* What the owner knows where it is.                                       *)
OwnerKnows ==
    alive =>
        /\ pc[Owner] \in {"out", "spin", "create", "load", "cas"}
             => state # LOCKED_WAITING
        /\ pc[Owner] = "cas" => seen[Owner] = done
        /\ pc[Owner] \in {"lock", "predicate", "asleep"}
             => made_waitable /\ (state = LOCKED_WAITING \/ state = done + 1)
        /\ pc[Owner] \in {"load", "cas", "unlock"} => made_waitable
        /\ pc[Owner] = "unlock" => state = done + 1
        /\ \A w \in Wakers : pc[w] \in {"lock", "store", "notify", "unlock"}
             => pc[Owner] \in {"lock", "predicate", "asleep"}

Inv == TypeOK /\ OneSetter /\ MutexHolder /\ StateValue /\ OwnerKnows /\ NoLostWakeup

(* A Writer that has not been constructed satisfies the invariant.         *)
LEMMA InitInv == Init => Inv
<1> SUFFICES ASSUME Init PROVE Inv
  OBVIOUS
<1>1. ~alive /\ alive \in BOOLEAN /\ made_waitable \in BOOLEAN
  BY DEF Init
<1>2. TypeOK
  BY <1>1, ThreadsAssumption DEF Init, TypeOK, All, OwnerLabels, WakerLabels, States
<1>3. OneSetter /\ MutexHolder /\ NoLostWakeup
  BY <1>1, ThreadsAssumption DEF Init, OneSetter, MutexHolder, NoLostWakeup, All
<1> QED
  BY <1>1, <1>2, <1>3 DEF Inv, StateValue, OwnerKnows

(* Every access of AwaitState and of SetState to the Writer, its mutex or  *)
(* its condition variable preserves the invariant.                         *)
LEMMA StepInv == Inv /\ [Next]_vars => Inv'
<1> SUFFICES ASSUME Inv, [Next]_vars PROVE Inv'
  OBVIOUS
<1> USE ThreadsAssumption
    DEF Inv, TypeOK, OneSetter, MutexHolder, StateValue, OwnerKnows,
        NoLostWakeup, All, OwnerLabels, WakerLabels, States
<1>1. CASE Construct
  BY <1>1 DEF Construct, Goto
<1>2. CASE CallAwaitState
  BY <1>2 DEF CallAwaitState, Goto
<1>3. CASE Destroy
  <2>1. ~alive' /\ alive' \in BOOLEAN
    BY <1>3, Zenon DEF Destroy
  <2>2. alive /\ pc[Owner] = "out" /\ called = done
    BY <1>3 DEF Destroy
  <2>3. called' = 0 /\ done' = 0
    BY <1>3 DEF Destroy
  <2>4. UNCHANGED <<made_waitable, state, mutex, pc, seen>>
    BY <1>3 DEF Destroy
  <2> QED
    BY <2>1, <2>2, <2>3, <2>4
<1>4. CASE Spin
  BY <1>4 DEF Spin, Return, Goto
<1>5. CASE CreateMutex
  BY <1>5 DEF CreateMutex, Goto
<1>6. CASE BlockingLoad
  BY <1>6 DEF BlockingLoad, Return, Goto
<1>7. CASE BlockingCAS
  BY <1>7 DEF BlockingCAS, Return, Goto
<1>8. CASE WaitLock
  BY <1>8 DEF WaitLock, Goto
<1>9. CASE WaitPredicate
  BY <1>9 DEF WaitPredicate, Goto
<1>10. CASE BlockingReturn
  BY <1>10 DEF BlockingReturn, Return, Goto
<1>11. CASE SpuriousWakeup
  BY <1>11 DEF SpuriousWakeup, Goto
<1>12. ASSUME NEW w \in Wakers, CallSetState(w) PROVE Inv'
  BY <1>12 DEF CallSetState, Goto
<1>13. ASSUME NEW w \in Wakers, SetStateLoad(w) PROVE Inv'
  BY <1>13 DEF SetStateLoad, Goto
<1>14. ASSUME NEW w \in Wakers, SetStateCAS(w) PROVE Inv'
  BY <1>14 DEF SetStateCAS, Goto
<1>15. ASSUME NEW w \in Wakers, SetStateLock(w) PROVE Inv'
  BY <1>15 DEF SetStateLock, Goto
<1>16. ASSUME NEW w \in Wakers, SetStateStore(w) PROVE Inv'
  BY <1>16 DEF SetStateStore, Goto
<1>17. ASSUME NEW w \in Wakers, SetStateNotify(w) PROVE Inv'
  BY <1>17 DEF SetStateNotify, Goto
<1>18. ASSUME NEW w \in Wakers, SetStateUnlock(w) PROVE Inv'
  BY <1>18 DEF SetStateUnlock, Goto
<1>19. CASE UNCHANGED vars
  BY <1>19 DEF vars
<1> QED
  BY <1>1, <1>2, <1>3, <1>4, <1>5, <1>6, <1>7, <1>8, <1>9, <1>10, <1>11, <1>12, <1>13, <1>14, <1>15, <1>16, <1>17, <1>18, <1>19
     DEF Next, OwnerStep, WakerStep

(* The invariant holds all along.                                          *)
LEMMA Invariance == Spec => []Inv
<1> QED
  BY InitInv, StepInv, PTL DEF Spec

(* Every variable of the Writer and of its threads keeps its type.         *)
THEOREM KeepsTypes == Spec => []TypeOK
<1>1. Inv => TypeOK
  BY DEF Inv
<1> QED
  BY Invariance, <1>1, PTL

(* SetState never uses a Writer whose owner has returned and destroyed it, *)
(* for any number of wakers and of waits in the life of a Writer.          *)
THEOREM WakersTouchLiveWriters == Spec => []WakerTouchesLiveWriter
<1>1. Inv => WakerTouchesLiveWriter
  BY DEF Inv, OneSetter, WakerTouchesLiveWriter
<1> QED
  BY Invariance, <1>1, PTL

(* SetState uses StateMutex and StateCV only after CreateMutex, which the  *)
(* owner calls lazily.                                                     *)
THEOREM MutexUsedWhenConstructed == Spec => []MutexIsConstructed
<1>1. Inv => MutexIsConstructed
  BY DEF Inv, OneSetter, OwnerKnows, MutexIsConstructed
<1> QED
  BY Invariance, <1>1, PTL

(* An owner that sleeps on the condition variable is notified: no wakeup   *)
(* falls between its predicate and its wait.                               *)
THEOREM LosesNoWakeup == Spec => []NoLostWakeup
<1>1. Inv => NoLostWakeup
  BY DEF Inv
<1> QED
  BY Invariance, <1>1, PTL

(* The assertions of BlockingAwaitState and SetState hold.                 *)
THEOREM KeepsAssertions == Spec => []AssertionsHold
<1>1. Inv => AssertionsHold
  BY ThreadsAssumption
     DEF Inv, TypeOK, OneSetter, MutexHolder, StateValue, OwnerKnows,
         AssertionsHold, All, WakerLabels, States
<1> QED
  BY Invariance, <1>1, PTL

(* The four accesses of BlockingAwaitState and the six of SetState take    *)
(* effect in one of them each: the step-by-step handshake implements the   *)
(* atomic one.                                                             *)
THEOREM Implementation == Spec => ImplementsHandshake
<1>1. Init => H!Init
  BY DEF Init, H!Init, AbstractPhase, All
<1>2. Inv /\ [Next]_vars => [H!Next]_H!hVars
  <2> SUFFICES ASSUME Inv, [Next]_vars PROVE [H!Next]_H!hVars
    OBVIOUS
  <2> USE ThreadsAssumption
      DEF Inv, TypeOK, OneSetter, MutexHolder, StateValue, OwnerKnows,
          All, OwnerLabels, WakerLabels, States, AbstractPhase, H!hVars
  <2>1. CASE Construct
    <3>1. H!Construct
      BY <2>1 DEF Construct, H!Construct, Goto
    <3> QED
      BY <3>1 DEF H!Next
  <2>2. CASE CallAwaitState
    <3>1. H!Await
      BY <2>2 DEF CallAwaitState, H!Await, Goto
    <3> QED
      BY <3>1 DEF H!Next
  <2>3. CASE Destroy
    <3>1. H!Destroy
      BY <2>3 DEF Destroy, H!Destroy, Goto
    <3> QED
      BY <3>1 DEF H!Next
  <2>4. CASE Spin
    <3>1. H!Return \/ UNCHANGED H!hVars
      BY <2>4 DEF Spin, H!Return, Return, Goto
    <3> QED
      BY <3>1 DEF H!Next
  <2>5. CASE CreateMutex
    <3>1. UNCHANGED H!hVars
      BY <2>5 DEF CreateMutex, Goto
    <3> QED
      BY <3>1 DEF H!Next
  <2>6. CASE BlockingLoad
    <3>1. H!Return \/ UNCHANGED H!hVars
      BY <2>6 DEF BlockingLoad, H!Return, Return, Goto
    <3> QED
      BY <3>1 DEF H!Next
  <2>7. CASE BlockingCAS
    <3>1. H!Block \/ H!Return
      BY <2>7 DEF BlockingCAS, H!Return, H!Block, Return, Goto
    <3> QED
      BY <3>1 DEF H!Next
  <2>8. CASE WaitLock
    <3>1. UNCHANGED H!hVars
      BY <2>8 DEF WaitLock, Goto
    <3> QED
      BY <3>1 DEF H!Next
  <2>9. CASE WaitPredicate
    <3>1. UNCHANGED H!hVars
      BY <2>9 DEF WaitPredicate, Goto
    <3> QED
      BY <3>1 DEF H!Next
  <2>10. CASE BlockingReturn
    <3>1. H!Return
      BY <2>10 DEF BlockingReturn, H!Return, Return, Goto
    <3> QED
      BY <3>1 DEF H!Next
  <2>11. CASE SpuriousWakeup
    <3>1. UNCHANGED H!hVars
      BY <2>11 DEF SpuriousWakeup, Goto
    <3> QED
      BY <3>1 DEF H!Next
  <2>12. ASSUME NEW w \in Wakers, CallSetState(w) PROVE [H!Next]_H!hVars
    <3>1. UNCHANGED H!hVars
      BY <2>12 DEF CallSetState, Goto
    <3> QED
      BY <3>1 DEF H!Next
  <2>13. ASSUME NEW w \in Wakers, SetStateLoad(w) PROVE [H!Next]_H!hVars
    <3>1. UNCHANGED H!hVars
      BY <2>13 DEF SetStateLoad, Goto
    <3> QED
      BY <3>1 DEF H!Next
  <2>14. ASSUME NEW w \in Wakers, SetStateCAS(w) PROVE [H!Next]_H!hVars
    <3>1. H!SetState \/ UNCHANGED H!hVars
      BY <2>14 DEF SetStateCAS, H!SetState, Goto
    <3> QED
      BY <3>1 DEF H!Next
  <2>15. ASSUME NEW w \in Wakers, SetStateLock(w) PROVE [H!Next]_H!hVars
    <3>1. UNCHANGED H!hVars
      BY <2>15 DEF SetStateLock, Goto
    <3> QED
      BY <3>1 DEF H!Next
  <2>16. ASSUME NEW w \in Wakers, SetStateStore(w) PROVE [H!Next]_H!hVars
    <3>1. H!SetState
      BY <2>16 DEF SetStateStore, H!SetState, Goto
    <3> QED
      BY <3>1 DEF H!Next
  <2>17. ASSUME NEW w \in Wakers, SetStateNotify(w) PROVE [H!Next]_H!hVars
    <3>1. UNCHANGED H!hVars
      BY <2>17 DEF SetStateNotify, Goto
    <3> QED
      BY <3>1 DEF H!Next
  <2>18. ASSUME NEW w \in Wakers, SetStateUnlock(w) PROVE [H!Next]_H!hVars
    <3>1. UNCHANGED H!hVars
      BY <2>18 DEF SetStateUnlock, Goto
    <3> QED
      BY <3>1 DEF H!Next
  <2>19. CASE UNCHANGED vars
    BY <2>19 DEF vars
  <2> QED
    BY <2>1, <2>2, <2>3, <2>4, <2>5, <2>6, <2>7, <2>8, <2>9, <2>10, <2>11, <2>12, <2>13, <2>14, <2>15, <2>16, <2>17, <2>18, <2>19
       DEF Next, OwnerStep, WakerStep
<1> QED
  BY InitInv, StepInv, <1>1, <1>2, PTL DEF Spec, ImplementsHandshake, H!Spec
=============================================================================
