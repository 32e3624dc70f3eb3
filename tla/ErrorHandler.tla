---------------------------- MODULE ErrorHandler ----------------------------
(***************************************************************************)
(* db/error_handler.cc: what a background error does to the database, and  *)
(* how a recovery begins and ends.  The handler's fields are a record;     *)
(* every operator takes the old one and returns the new one, with the DB   *)
(* mutex held.  Severities are ordered as in rust's Severity enum.  An     *)
(* error is "retryable" (a retryable or file-scope IO error) or "other"    *)
(* (an IO error the severity maps make fatal for every reason used here);  *)
(* paranoid_checks is on, and out-of-space errors, which the               *)
(* SstFileManager recovers from, do not occur.                             *)
(***************************************************************************)
EXTENDS Naturals

CONSTANT max_bgerror_resume_count    \* DBOptions; 0: no automatic recovery

ASSUME ResumeAssumption == max_bgerror_resume_count \in Nat

kNoError == 0
kSoftError == 1
kHardError == 2
kFatalError == 3
Severities == {kNoError, kSoftError, kHardError, kFatalError}

ErrorKinds == {"retryable", "other"}
FlushReasons == {"kErrorRecovery", "kErrorRecoveryRetryFlush"}

(* thread: recovery_thread_, the thread of the automatic recovery.         *)
NewHandler ==
    [bg_error |-> kNoError, recovery_error |-> kNoError,
     recovery_io_error |-> "ok", recovery_in_prog |-> FALSE,
     auto_recovery |-> TRUE, soft_error_no_bg_work |-> FALSE,
     is_db_stopped |-> FALSE, end_recovery |-> FALSE, thread |-> "none",
     flush_reason |-> "kErrorRecovery"]

HandlerType ==
    [bg_error : Severities, recovery_error : Severities,
     recovery_io_error : ErrorKinds \cup {"ok"}, recovery_in_prog : BOOLEAN,
     auto_recovery : BOOLEAN, soft_error_no_bg_work : BOOLEAN,
     is_db_stopped : BOOLEAN, end_recovery : BOOLEAN,
     thread : {"none", "running", "exited"}, flush_reason : FlushReasons]

IsBGWorkStopped(e) ==
    /\ e.bg_error # kNoError
    /\ e.bg_error >= kHardError \/ ~e.auto_recovery \/ e.soft_error_no_bg_work

CheckAndSetRecoveryAndBGError(e, sev) ==
    LET worst == IF sev > e.bg_error THEN sev ELSE e.bg_error
    IN  [e EXCEPT
            !.recovery_error = IF e.recovery_in_prog /\ @ = kNoError
                               THEN sev ELSE @,
            !.bg_error = worst,
            !.is_db_stopped = @ \/ worst >= kHardError]

(* HandleKnownErrors of an error that is fatal for its reason.             *)
HandleKnownErrors(e) ==
    LET f == [e EXCEPT !.recovery_error =
                IF e.recovery_in_prog /\ @ = kNoError THEN kFatalError ELSE @]
    IN  IF e.bg_error >= kFatalError THEN f
        ELSE [f EXCEPT !.bg_error = kFatalError, !.is_db_stopped = TRUE,
                       !.flush_reason = "kErrorRecovery"]

(* SetBGError up to the call of StartRecoverFromRetryableBGIOError; whether *)
(* it comes to that call, and whether the call must first join the thread  *)
(* of an earlier recovery.                                                 *)
SetBGError(e, kind, reason) ==
    LET seen == [e EXCEPT !.recovery_io_error =
                    IF e.recovery_in_prog /\ @ = "ok" THEN kind ELSE @]
    IN  IF kind = "other" THEN HandleKnownErrors(seen)
        ELSE IF reason \in {"kFlushNoWAL", "kManifestWriteNoWAL"}
        THEN [CheckAndSetRecoveryAndBGError(seen, kSoftError)
                EXCEPT !.soft_error_no_bg_work = TRUE,
                       !.flush_reason = "kErrorRecoveryRetryFlush"]
        ELSE [CheckAndSetRecoveryAndBGError(seen, kHardError)
                EXCEPT !.flush_reason = "kErrorRecovery"]

StartsRecovery(e, kind) ==
    kind = "retryable" /\ max_bgerror_resume_count > 0 /\ ~e.recovery_in_prog
MustJoin(e) == e.thread # "none"

(* The end of StartRecoverFromRetryableBGIOError.                          *)
StartRecoveryThread(e) ==
    [e EXCEPT !.recovery_in_prog = TRUE, !.thread = "running"]

(* ClearBGError leaves is_db_stopped_ as it is.                            *)
ClearBGError(e) ==
    IF e.recovery_error # kNoError THEN e
    ELSE [e EXCEPT !.bg_error = kNoError, !.recovery_io_error = "ok",
                   !.recovery_in_prog = FALSE,
                   !.soft_error_no_bg_work = FALSE]

(* RecoverFromBGError(is_manual = true) up to ResumeImpl.                  *)
BeginManualRecovery(e) ==
    [e EXCEPT !.recovery_in_prog = TRUE, !.soft_error_no_bg_work = FALSE,
              !.flush_reason = IF e.soft_error_no_bg_work
                               THEN "kErrorRecoveryRetryFlush"
                               ELSE "kErrorRecovery",
              !.recovery_error = kNoError]
ClearsAtOnce(e) ==
    e.bg_error = kSoftError /\ e.flush_reason = "kErrorRecovery"

(* ... and after it: ok or not, and the flag as it was before the call.    *)
EndManualRecovery(e, ok, no_bg_work) ==
    [e EXCEPT !.soft_error_no_bg_work = ~ok /\ no_bg_work,
              !.recovery_in_prog = FALSE]

(* RecoverFromRetryableBGIOError after a ResumeImpl that returned `status': *)
(* it stops for good, sleeps and tries again, or has recovered.            *)
Outcome(e, status) ==
    IF status = "shutdown" \/ e.bg_error >= kFatalError THEN "stop"
    ELSE IF e.recovery_io_error = "retryable" /\ e.recovery_error <= kHardError
    THEN "retry"
    ELSE IF /\ e.recovery_io_error = "ok" /\ e.recovery_error = kNoError
            /\ status = "ok"
    THEN "recovered" ELSE "stop"

Stopped(e) == [e EXCEPT !.recovery_in_prog = FALSE, !.thread = "exited"]
Recovered(e) ==
    [Stopped(e) EXCEPT !.is_db_stopped = FALSE, !.bg_error = kNoError,
                       !.soft_error_no_bg_work = FALSE]
(* The thread finds end_recovery_ set and leaves.                          *)
Abandoned(e) == [e EXCEPT !.thread = "exited"]
=============================================================================
