------------------------- MODULE MCBacktestAttempts -------------------------
(***************************************************************************)
(* Small instances of BacktestAttempts.  One run is enough: no function    *)
(* reads or writes the rows of two runs.                                   *)
(***************************************************************************)
EXTENDS BacktestAttempts, TLC

Close(status, reason, requeue, concludes) ==
    [status |-> status, reason |-> reason,
     requeue |-> requeue, concludes |-> concludes]

\* What a worker publishes (a success, a failure whose retries are exhausted,
\* a cancellation), a release for retry, and a success not published at all.
\* Recovery provides the failures no retry may follow.
MCCloseRequests ==
    { Close("SUCCEEDED", "OTHER", FALSE, TRUE),
      Close("SUCCEEDED", "OTHER", FALSE, FALSE),
      Close("FAILED", "RETRY_RELEASED", TRUE, FALSE),
      Close("FAILED", "RETRY_RELEASED", FALSE, TRUE),
      Close("CANCELLED", "CANCELLED_BY_REQUEST", FALSE, TRUE) }

MCRecoveryReasons == {"LEASE_EXPIRED", "OTHER"}

\* For liveness: a publication, a release for retry, and a sweep.
MCFewRequests ==
    { Close("SUCCEEDED", "OTHER", FALSE, TRUE),
      Close("FAILED", "RETRY_RELEASED", TRUE, FALSE) }

MCOneRecoveryReason == {"LEASE_EXPIRED"}

SessionSymmetry == Permutations(Sessions)
=============================================================================
