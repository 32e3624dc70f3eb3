---------------------------- MODULE AtomicWrites ----------------------------
(***************************************************************************)
(* What DB::Write promises to its callers: some time between a call and    *)
(* its return the batch takes effect, all at once, after every batch that  *)
(* took effect before it; a call that returns OK has taken effect.  A      *)
(* group commit makes several batches visible in one step.  A call that    *)
(* does not return OK may or may not have taken effect.                    *)
(***************************************************************************)
EXTENDS Naturals, FiniteSets, Sequences, SequencesExt

CONSTANT Threads

VARIABLES
    calls,      \* the number of calls each thread has made
    phase,      \* what its current call is doing
    history     \* the batches that took effect, in order

aVars == <<calls, phase, history>>

Phases == {"idle", "pending", "ok", "other"}
Op(t) == <<t, calls[t]>>

Init ==
    /\ calls = [t \in Threads |-> 0]
    /\ phase = [t \in Threads |-> "idle"]
    /\ history = << >>

Call(t) ==
    /\ phase[t] = "idle"
    /\ calls' = [calls EXCEPT ![t] = @ + 1]
    /\ phase' = [phase EXCEPT ![t] = "pending"]
    /\ UNCHANGED history

(* The batches of some pending calls take effect, one after another.       *)
Commit ==
    LET group == SubSeq(history', Len(history) + 1, Len(history'))
        pending == {Op(t) : t \in {t \in Threads : phase[t] = "pending"}}
    IN  /\ IsStrictPrefix(history, history')
        /\ IsInjective(group)
        /\ ToSet(group) \subseteq {{o} : o \in pending} \ ToSet(history)
        /\ UNCHANGED <<calls, phase>>

Respond(t) ==
    /\ phase[t] = "pending"
    /\ \/ {Op(t)} \in ToSet(history) /\ phase' = [phase EXCEPT ![t] = "ok"]
       \/ phase' = [phase EXCEPT ![t] = "other"]
    /\ UNCHANGED <<calls, history>>

Return(t) ==
    /\ phase[t] \in {"ok", "other"}
    /\ phase' = [phase EXCEPT ![t] = "idle"]
    /\ UNCHANGED <<calls, history>>

Next == Commit \/ \E t \in Threads : Call(t) \/ Respond(t) \/ Return(t)

Spec == Init /\ [][Next]_aVars
=============================================================================
