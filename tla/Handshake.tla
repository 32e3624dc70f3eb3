----------------------------- MODULE Handshake -----------------------------
(***************************************************************************)
(* What WriteThread::AwaitState and WriteThread::SetState promise about    *)
(* one Writer, in the atomic steps in which WriteThread and DBWrite use    *)
(* them.  Only the order of the states a Writer goes through matters here: *)
(* they are 1, 2, ..., in the order in which its owner waits for them, and *)
(* 0 is STATE_INIT.                                                        *)
(***************************************************************************)
EXTENDS Naturals

CONSTANTS
    Rounds,             \* how often an owner waits for one Writer
    LOCKED_WAITING      \* STATE_LOCKED_WAITING

VARIABLES
    alive,      \* the Writer is on its owner's stack
    state,      \* Writer::state
    phase,      \* the owner: "running", in "await", or in "block"
    done        \* the waits that have returned

hVars == <<alive, state, phase, done>>

Init ==
    /\ alive = FALSE
    /\ state = 0
    /\ phase = "running"
    /\ done = 0

Construct ==
    /\ ~alive
    /\ alive' = TRUE
    /\ state' = 0
    /\ UNCHANGED <<phase, done>>

Await ==
    /\ alive /\ phase = "running" /\ done < Rounds
    /\ phase' = "await"
    /\ UNCHANGED <<alive, state, done>>

(* DBWrite!AwaitSpin and DBWrite!BlockingAwaitWait: the wait returns, with *)
(* the state it was for.                                                   *)
Return ==
    /\ phase \in {"await", "block"}
    /\ state = done + 1
    /\ phase' = "running"
    /\ done' = done + 1
    /\ UNCHANGED <<alive, state>>

(* DBWrite!BlockingAwaitCAS.                                               *)
Block ==
    /\ phase = "await"
    /\ state = done
    /\ phase' = "block"
    /\ state' = LOCKED_WAITING
    /\ UNCHANGED <<alive, done>>

(* WriteThread!SetState.                                                   *)
SetState ==
    /\ alive
    /\ state \in {done, LOCKED_WAITING}
    /\ state' = done + 1
    /\ UNCHANGED <<alive, phase, done>>

Destroy ==
    /\ alive /\ phase = "running"
    /\ state = done
    /\ alive' = FALSE
    /\ done' = 0
    /\ UNCHANGED <<state, phase>>

Next == Construct \/ Await \/ Return \/ Block \/ SetState \/ Destroy

Spec == Init /\ [][Next]_hVars
=============================================================================
