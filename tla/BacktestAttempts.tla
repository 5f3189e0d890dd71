-------------------------- MODULE BacktestAttempts --------------------------
(***************************************************************************)
(* The fenced attempt capabilities of the backtest schema: four SECURITY   *)
(* DEFINER functions through which workers claim a run, renew the lease of *)
(* the attempt they hold, close it, and recover attempts whose lease has   *)
(* run out (V20260902000002, with the table constraints of V1).            *)
(*                                                                         *)
(* Every function reads clock_timestamp() in its DECLARE section, before   *)
(* it waits for any row lock, and decides with that reading afterwards.    *)
(* A call is therefore split where other transactions can interleave: the  *)
(* begin step reads the clock, a lock step obtains the FOR UPDATE lock of  *)
(* the run row, and the commit step runs the rest, which a single row lock *)
(* makes atomic.                                                           *)
(*                                                                         *)
(* Abstractions.  An attempt's id and its claim token are created by one   *)
(* INSERT, returned together and presented together, so its number n       *)
(* stands for both.  Time is a small natural number.                       *)
(***************************************************************************)
EXTENDS Integers, Sequences

CONSTANTS
    Runs,             \* rows of backtest.runs
    Sessions,         \* database connections, each making one call at a time
    Nobody,           \* no session: a row nobody has locked
    Leases,           \* lease lengths callers ask for
    CloseRequests,    \* what callers ask close_run_attempt for
    RecoveryReasons,  \* reasons given to recover_expired_run_attempt
    MaxAttempts,      \* bound: attempts of one run
    MaxTime           \* bound: last instant of the clock and of any lease

VARIABLES
    clock,             \* clock_timestamp()
    runStatus,         \* backtest.runs.status
    cancelRequestedAt, \* backtest.runs.cancellation_requested_at, or Never
    attempts,          \* backtest.run_attempts of a run, by attempt_number
    runLock,           \* the session whose transaction holds the run row
    call,              \* the call each session is executing
    told               \* terminal attempt rows that close calls have returned

vars == <<clock, runStatus, cancelRequestedAt, attempts, runLock, call, told>>
rows == <<runStatus, cancelRequestedAt, attempts>>

-----------------------------------------------------------------------------
(* Rows and calls *)

RunStatus == {"QUEUED", "RUNNING", "COMPLETED", "FAILED", "UNAVAILABLE",
              "CANCELLED"}
EndedRun == {"COMPLETED", "FAILED", "CANCELLED", "UNAVAILABLE"}

Never == -1   \* NULL

Terminal == {"SUCCEEDED", "FAILED", "CANCELLED", "SKIPPED"}
AttemptStatus == {"RUNNING"} \cup Terminal

\* Reasons the functions compare or write, and any other one
RetryReason == {"LEASE_EXPIRED", "RETRY_RELEASED"}
Reason == RetryReason \cup {"CANCELLED_BY_REQUEST", "OTHER", "NONE"}

Attempt == [status : AttemptStatus, reason : Reason, expires : Nat]

\* What a caller asks close_run_attempt for.  "concludes" marks the terminal
\* publication: the caller's transaction already holds the run row when it
\* makes the call, and writes the run's own outcome before it commits.
CloseRequest == [status : Terminal, reason : Reason \ {"NONE"},
                 requeue : BOOLEAN, concludes : BOOLEAN]

ASSUME ConstantsAssumption ==
    /\ Runs # {}
    /\ Nobody \notin Sessions
    /\ Leases \subseteq Nat \ {0}
    /\ CloseRequests \subseteq CloseRequest
    /\ RecoveryReasons \subseteq Reason \ {"NONE"}
    /\ MaxAttempts \in Nat
    /\ MaxTime \in Nat

\* A call waits for the run row ("begun"), belongs to a transaction that held
\* the run row before making it ("opened"), or is past its locks ("locked").
Op == {"idle", "claim", "heartbeat", "close", "recover"}
Stage == {"begun", "opened", "locked"}

Call == [op : Op, stage : Stage, run : Runs, att : Nat, now : Nat,
         lease : Nat, req : CloseRequest]

NoRequest == [status |-> "FAILED", reason |-> "OTHER",
              requeue |-> FALSE, concludes |-> FALSE]

RecoveryRequest(status, reason) ==
    [status |-> status, reason |-> reason,
     requeue |-> FALSE, concludes |-> FALSE]

Idle == [op |-> "idle", stage |-> "begun", run |-> CHOOSE r \in Runs : TRUE,
         att |-> 0, now |-> 0, lease |-> 0, req |-> NoRequest]

TypeOK ==
    /\ clock \in Nat
    /\ runStatus \in [Runs -> RunStatus]
    /\ cancelRequestedAt \in [Runs -> Nat \cup {Never}]
    /\ attempts \in [Runs -> Seq(Attempt)]
    /\ runLock \in [Runs -> Sessions \cup {Nobody}]
    /\ call \in [Sessions -> Call]
    /\ told \subseteq (Runs \X Nat \X Terminal)

Init ==
    /\ clock = 0
    /\ runStatus = [r \in Runs |-> "QUEUED"]
    /\ cancelRequestedAt = [r \in Runs |-> Never]
    /\ attempts = [r \in Runs |-> <<>>]
    /\ runLock = [r \in Runs |-> Nobody]
    /\ call = [s \in Sessions |-> Idle]
    /\ told = {}

\* A call that has read the clock and waits for its first row lock
NewCall(op, r, n, lease, q) ==
    [op |-> op, stage |-> "begun", run |-> r, att |-> n, now |-> clock,
     lease |-> lease, req |-> q]

Begin(s, c) ==
    /\ call[s] = Idle
    /\ call' = [call EXCEPT ![s] = c]

\* Commit or rollback: the session is free and its row locks are released.
Finish(s) ==
    /\ call' = [call EXCEPT ![s] = Idle]
    /\ runLock' = [r \in Runs |-> IF runLock[r] = s THEN Nobody ELSE runLock[r]]

\* Fault: the row is read without FOR UPDATE.
LockRunShared(s, r) == runLock' = [runLock EXCEPT ![r] = s]

LockRun(s, r) ==
    /\ runLock[r] = Nobody
    /\ runLock' = [runLock EXCEPT ![r] = s]

At(s, op, stage) == call[s].op = op /\ call[s].stage = stage

CancelRequested(r) == cancelRequestedAt[r] # Never

Latest(r) == attempts[r][Len(attempts[r])]

\* RUNNING under a lease that a transaction whose clock reading is now accepts
Live(a, now) == a.status = "RUNNING" /\ a.expires > now
Expired(a, now) == a.status = "RUNNING" /\ a.expires <= now

Closed(a, status, reason) ==
    [status |-> status, reason |-> reason, expires |-> a.expires]
Renewed(a, expires) == [a EXCEPT !.expires = expires]

\* UPDATE backtest.run_attempts ... WHERE id = ...
Store(r, n, a) ==
    attempts' = [attempts EXCEPT ![r] = [attempts[r] EXCEPT ![n] = a]]

-----------------------------------------------------------------------------
(* claim_run_attempt *)

ClaimBegin(s, r, lease) ==
    /\ clock + lease <= MaxTime
    /\ Begin(s, NewCall("claim", r, 0, lease, NoRequest))
    /\ UNCHANGED <<clock, rows, runLock, told>>

\* Fault: an ended run may be claimed.
RunOpenUnlessCancelled(r) == ~CancelRequested(r)

\* The run is neither ended nor about to be cancelled.
RunOpen(r) == runStatus[r] \notin EndedRun /\ ~CancelRequested(r)

ClaimLock(s) ==
    LET r == call[s].run IN
    /\ At(s, "claim", "begun")
    /\ runLock[r] = Nobody
    /\ \/ /\ RunOpen(r)
          /\ LockRun(s, r)
          /\ call' = [call EXCEPT ![s].stage = "locked"]
       \/ /\ ~RunOpen(r)
          /\ Finish(s)
    /\ UNCHANGED <<clock, rows, told>>

\* Faults: any failure may be retried; a running attempt may be replaced.
ClaimableAfterFailure(r, now) ==
    attempts[r] # <<>> =>
        Latest(r).status = "FAILED" \/ Expired(Latest(r), now)
ClaimableWhileHeld(r, now) ==
    attempts[r] # <<>> =>
        \/ Latest(r).status = "FAILED" /\ Latest(r).reason \in RetryReason
        \/ Latest(r).status = "RUNNING"

\* The latest attempt leaves the run to be tried again: there is none, it
\* failed for a reason that allows a retry, or its lease has run out.
Claimable(r, now) ==
    attempts[r] # <<>> =>
        \/ Latest(r).status = "FAILED" /\ Latest(r).reason \in RetryReason
        \/ Expired(Latest(r), now)

\* Fault: the predecessor is left RUNNING.
FencedByNumberOnly(r) == attempts[r]

\* A RUNNING predecessor is closed before its successor is inserted.
Fenced(r) ==
    IF attempts[r] # <<>> /\ Latest(r).status = "RUNNING"
    THEN [attempts[r] EXCEPT ![Len(attempts[r])] =
              Closed(Latest(r), "FAILED", "LEASE_EXPIRED")]
    ELSE attempts[r]

NewAttempt(expires) ==
    [status |-> "RUNNING", reason |-> "NONE", expires |-> expires]

\* Fault: a requeued run stays QUEUED while it is held.
RunAfterClaimUnchanged(r) == runStatus[r]

RunAfterClaim(r) ==
    IF runStatus[r] = "QUEUED" THEN "RUNNING" ELSE runStatus[r]

ClaimGrant(s) ==
    LET c == call[s]
        r == c.run
    IN
    /\ At(s, "claim", "locked")
    /\ Claimable(r, c.now)
    /\ Len(attempts[r]) < MaxAttempts
    /\ attempts' = [attempts EXCEPT
                      ![r] = Append(Fenced(r), NewAttempt(c.now + c.lease))]
    /\ runStatus' = [runStatus EXCEPT ![r] = RunAfterClaim(r)]
    /\ Finish(s)
    /\ UNCHANGED <<clock, cancelRequestedAt, told>>

ClaimDecline(s) ==
    /\ At(s, "claim", "locked")
    /\ ~Claimable(call[s].run, call[s].now)
    /\ Finish(s)
    /\ UNCHANGED <<clock, rows, told>>

-----------------------------------------------------------------------------
(* heartbeat_run_attempt: one UPDATE.  Its statement snapshot must match,  *)
(* and after the row lock the newest version of the row must match too.    *)

HeartbeatBegin(s, r, n, lease) ==
    /\ Live(attempts[r][n], clock)
    /\ clock + lease <= MaxTime
    /\ Begin(s, NewCall("heartbeat", r, n, lease, NoRequest))
    /\ UNCHANGED <<clock, rows, runLock, told>>

\* Fault: only the expiry is checked again.
RenewableByExpiry(a, now) == a.expires > now

\* The row still matches; an attempt closed meanwhile is not revived.
Renewable(a, now) == Live(a, now)

HeartbeatCommit(s) ==
    LET c == call[s] IN
    /\ At(s, "heartbeat", "begun")
    /\ \/ /\ Renewable(attempts[c.run][c.att], c.now)
          /\ Store(c.run, c.att,
                   Renewed(attempts[c.run][c.att], c.now + c.lease))
       \/ /\ ~Renewable(attempts[c.run][c.att], c.now)
          /\ UNCHANGED attempts
    /\ Finish(s)
    /\ UNCHANGED <<clock, runStatus, cancelRequestedAt, told>>

-----------------------------------------------------------------------------
(* close_run_attempt *)

\* Only RETRY_RELEASED may requeue; anything else raises.
Accepted(q) ==
    q.requeue => q.status = "FAILED" /\ q.reason = "RETRY_RELEASED"

CloseBegin(s, r, n, q) ==
    /\ Accepted(q) /\ ~q.concludes
    /\ Begin(s, NewCall("close", r, n, 0, q))
    /\ UNCHANGED <<clock, rows, runLock, told>>

CloseLock(s) ==
    /\ At(s, "close", "begun")
    /\ LockRun(s, call[s].run)
    /\ call' = [call EXCEPT ![s].stage = "locked"]
    /\ UNCHANGED <<clock, rows, told>>

\* A terminal publication: the engine's transaction locks the run row first,
\* works under the lock, and calls close_run_attempt at the end.
PublicationOpen(s, r, n, q) ==
    /\ Accepted(q) /\ q.concludes
    /\ LockRun(s, r)
    /\ Begin(s, [op |-> "close", stage |-> "opened", run |-> r, att |-> n,
                 now |-> 0, lease |-> 0, req |-> q])
    /\ UNCHANGED <<clock, rows, told>>

PublicationClose(s) ==
    /\ At(s, "close", "opened")
    /\ call' = [call EXCEPT ![s].stage = "locked", ![s].now = clock]
    /\ UNCHANGED <<clock, rows, runLock, told>>

\* Fault: a success is stored as it was asked for.
EffectiveAsAsked(r, q) == q

\* Once cancellation is requested, success is recorded as cancellation.
Effective(r, q) ==
    IF CancelRequested(r) /\ q.status = "SUCCEEDED"
    THEN [q EXCEPT !.status = "CANCELLED", !.reason = "CANCELLED_BY_REQUEST"]
    ELSE q

\* Fault: the attempt's status is written to the run.
RunOutcomeCopied == [s \in Terminal |-> s]

RunOutcome == [SUCCEEDED |-> "COMPLETED", FAILED |-> "FAILED",
               CANCELLED |-> "CANCELLED", SKIPPED |-> "UNAVAILABLE"]

\* The row constraints of backtest.runs: a completed run was never asked to
\* cancel, and a cancelled one was.
Storable(r, status) ==
    /\ status = "COMPLETED" => ~CancelRequested(r)
    /\ status = "CANCELLED" => CancelRequested(r)

\* The run's status when close_run_attempt, and the publication around it,
\* commit.
RunAfterClose(r, q) ==
    LET asAsked == Effective(r, q) = q IN
    IF runStatus[r] = "RUNNING" /\ ~asAsked THEN "CANCELLED"
    ELSE IF runStatus[r] = "RUNNING" /\ q.requeue /\ ~CancelRequested(r)
    THEN "QUEUED"
    ELSE IF q.concludes /\ asAsked THEN RunOutcome[q.status]
    ELSE runStatus[r]

\* A run that close_run_attempt cancels is stamped with the call's clock
\* reading, which the row constraint refuses if it precedes the request.
Stampable(r, q, now) ==
    runStatus[r] = "RUNNING" /\ Effective(r, q) # q
        => cancelRequestedAt[r] <= now

\* The attempt is live for the call's clock reading and the caller is told.
CloseApply(s) ==
    LET c == call[s]
        r == c.run
        e == Effective(r, c.req)
    IN
    /\ At(s, "close", "locked")
    /\ Live(attempts[r][c.att], c.now)
    /\ Storable(r, RunAfterClose(r, c.req))
    /\ Stampable(r, c.req, c.now)
    /\ Store(r, c.att, Closed(attempts[r][c.att], e.status, e.reason))
    /\ runStatus' = [runStatus EXCEPT ![r] = RunAfterClose(r, c.req)]
    /\ told' = told \cup {<<r, c.att, e.status>>}
    /\ Finish(s)
    /\ UNCHANGED <<clock, cancelRequestedAt>>

\* Fault: a repeated close is always confirmed.
ReplayedBlindly(a, q) == TRUE

\* A repeated close reports the row only if it holds the same outcome.
Replayed(a, q) == a.status = q.status

CloseReplay(s) ==
    LET c == call[s]
        r == c.run
        e == Effective(r, c.req)
    IN
    /\ At(s, "close", "locked")
    /\ ~Live(attempts[r][c.att], c.now)
    /\ told' = IF Replayed(attempts[r][c.att], e)
               THEN told \cup {<<r, c.att, e.status>>} ELSE told
    /\ Finish(s)
    /\ UNCHANGED <<clock, rows>>

-----------------------------------------------------------------------------
(* recover_expired_run_attempt: one UPDATE that takes no lock on the run.  *)
(* The subqueries on the run and on newer attempts are answered by the     *)
(* statement's snapshot; the attempt itself is checked again once locked.  *)

\* Fault: attempts of a run being cancelled are never recovered.
RecoveryFitsOpenRun(r, status) == status = "FAILED" /\ ~CancelRequested(r)

\* FAILED unless the run is being cancelled, and CANCELLED only then
RecoveryFits(r, status) == (status = "CANCELLED") = CancelRequested(r)

RecoverBegin(s, r, n, status, reason) ==
    /\ Expired(attempts[r][n], clock)
    /\ RecoveryFits(r, status)
    /\ n = Len(attempts[r])
    /\ Begin(s, NewCall("recover", r, n, 0, RecoveryRequest(status, reason)))
    /\ UNCHANGED <<clock, rows, runLock, told>>

\* Fault: the snapshot's expiry is trusted.
RecoverableBySnapshot(a, now) == a.status = "RUNNING"

\* The row still matches; a lease renewed meanwhile is left alone.
Recoverable(a, now) == Expired(a, now)

RecoverCommit(s) ==
    LET c == call[s] IN
    /\ At(s, "recover", "begun")
    /\ \/ /\ Recoverable(attempts[c.run][c.att], c.now)
          /\ Store(c.run, c.att, Closed(attempts[c.run][c.att],
                                        c.req.status, c.req.reason))
       \/ /\ ~Recoverable(attempts[c.run][c.att], c.now)
          /\ UNCHANGED attempts
    /\ Finish(s)
    /\ UNCHANGED <<clock, runStatus, cancelRequestedAt, told>>

-----------------------------------------------------------------------------
(* The environment *)

\* The cancellation command's own UPDATE of the run row.
RequestCancellation(r) ==
    /\ runLock[r] = Nobody
    /\ runStatus[r] \notin EndedRun
    /\ ~CancelRequested(r)
    /\ cancelRequestedAt' = [cancelRequestedAt EXCEPT ![r] = clock]
    /\ UNCHANGED <<clock, runStatus, attempts, runLock, call, told>>

\* A rollback: connection lost, lock timeout, worker killed.
Abort(s) ==
    /\ call[s] # Idle
    /\ Finish(s)
    /\ UNCHANGED <<clock, rows, told>>

Tick ==
    /\ clock < MaxTime
    /\ clock' = clock + 1
    /\ UNCHANGED <<rows, runLock, call, told>>

Numbers(r) == 1 .. Len(attempts[r])

Calls(s) ==
    \/ \E r \in Runs, lease \in Leases : ClaimBegin(s, r, lease)
    \/ ClaimLock(s)
    \/ ClaimGrant(s)
    \/ ClaimDecline(s)
    \/ \E r \in Runs, lease \in Leases : \E n \in Numbers(r) :
          HeartbeatBegin(s, r, n, lease)
    \/ HeartbeatCommit(s)
    \/ \E r \in Runs, q \in CloseRequests : \E n \in Numbers(r) :
          CloseBegin(s, r, n, q) \/ PublicationOpen(s, r, n, q)
    \/ CloseLock(s)
    \/ PublicationClose(s)
    \/ CloseApply(s)
    \/ CloseReplay(s)
    \/ \E r \in Runs, status \in {"FAILED", "CANCELLED"},
          reason \in RecoveryReasons : \E n \in Numbers(r) :
          RecoverBegin(s, r, n, status, reason)
    \/ RecoverCommit(s)
    \/ Abort(s)

Next ==
    \/ \E s \in Sessions : Calls(s)
    \/ \E r \in Runs : RequestCancellation(r)
    \/ Tick

Spec == Init /\ [][Next]_vars

-----------------------------------------------------------------------------
(* Properties *)

\* Two workers never hold a run at once: only the newest attempt of a run can
\* be RUNNING, however claims, renewals, closes and recoveries interleave.
SingleHolder ==
    \A r \in Runs : \A n \in Numbers(r) :
        attempts[r][n].status = "RUNNING" => n = Len(attempts[r])

\* An attempt is only ever followed by another when it failed for a reason
\* that allows a retry: a success, a cancellation, a skip and a permanent
\* failure decide the run, whatever claims were waiting when they committed.
OnlyRetriesAreSucceeded ==
    \A r \in Runs : \A n \in Numbers(r) :
        n < Len(attempts[r]) => /\ attempts[r][n].status = "FAILED"
                                /\ attempts[r][n].reason \in RetryReason

\* The two tables tell one story: a held run is RUNNING, a COMPLETED run has
\* a successful last attempt and no cancellation request, and a CANCELLED run
\* was asked to cancel.
RunFollowsAttempts ==
    \A r \in Runs :
        /\ attempts[r] # <<>> /\ Latest(r).status = "RUNNING"
              => runStatus[r] = "RUNNING"
        /\ runStatus[r] = "COMPLETED"
              => /\ attempts[r] # <<>> /\ Latest(r).status = "SUCCEEDED"
                 /\ ~CancelRequested(r)
        /\ runStatus[r] = "CANCELLED" => CancelRequested(r)

\* What a close call reported is what the row holds, for ever: repeating a
\* close whose answer was lost cannot be told a second outcome.
ToldIsStored ==
    \A t \in told : /\ t[2] \in Numbers(t[1])
                    /\ attempts[t[1]][t[2]].status = t[3]

\* A terminal attempt row is never written again, not by a late heartbeat, a
\* second close, a recovery sweep or a reclaim decided on an old snapshot.
TerminalIsFinal ==
    [][\A r \in Runs : \A n \in Numbers(r) :
          attempts[r][n].status \in Terminal
              => n \in Numbers(r)' /\ attempts'[r][n] = attempts[r][n]]_vars

\* Nobody but its holder ends a lease that has not run out on the database
\* clock: if such an attempt stops being RUNNING, a close call for that very
\* attempt committed.  A sweep or a claim that read the row before a renewal
\* committed must not take the attempt away.
LiveLeaseIsRespected ==
    [][\A r \in Runs : \A n \in Numbers(r) :
          Live(attempts[r][n], clock) /\ attempts'[r][n].status # "RUNNING"
              => \E s \in Sessions : /\ At(s, "close", "locked")
                                     /\ call[s].run = r /\ call[s].att = n
                                     /\ call'[s] = Idle]_vars

\* Cancellation and success exclude each other: no attempt becomes SUCCEEDED
\* after the run's cancellation was requested, even by a publication that
\* began before the request.
NoSuccessAfterCancellation ==
    [][\A r \in Runs : \A n \in Numbers(r) :
          CancelRequested(r) /\ attempts[r][n].status # "SUCCEEDED"
              => attempts'[r][n].status # "SUCCEEDED"]_vars

\* A run that has ended is left alone: no call that was already under way
\* changes its status, its attempts or its cancellation mark.
EndedRunIsLeftAlone ==
    [][\A r \in Runs : runStatus[r] \in EndedRun
          => /\ runStatus'[r] = runStatus[r]
             /\ attempts'[r] = attempts[r]
             /\ cancelRequestedAt'[r] = cancelRequestedAt[r]]_vars

-----------------------------------------------------------------------------
(* Why the invariants hold: what a call under way may rely on.             *)

HoldsRun(s) == At(s, "claim", "locked") \/ At(s, "close", "opened")
                                        \/ At(s, "close", "locked")

\* A call names an attempt that exists, and has read the clock in the past.
CallsOK ==
    \A s \in Sessions :
        /\ call[s].op \in {"heartbeat", "close", "recover"}
              => call[s].att \in Numbers(call[s].run)
        /\ call[s].op = "recover" => call[s].req.status \in {"FAILED", "CANCELLED"}
        /\ call[s].now <= clock

\* A call past its locks is the only one that holds its run row, so a run a
\* claim has found open stays open until the claim commits.
LocksOK ==
    \A s \in Sessions :
        /\ HoldsRun(s) => runLock[call[s].run] = s
        /\ At(s, "claim", "locked") => RunOpen(call[s].run)

\* The inductive invariant: the properties above support each other, and need
\* the discipline of the run row's lock.
AttemptsInvariant ==
    /\ TypeOK
    /\ CallsOK
    /\ LocksOK
    /\ SingleHolder
    /\ OnlyRetriesAreSucceeded
    /\ RunFollowsAttempts
    /\ ToldIsStored

-----------------------------------------------------------------------------
(* What the functions promise together: AttemptLedger, whose steps are     *)
(* atomic and read the clock as they happen.                               *)

Entry(a) ==
    IF a.status = "RUNNING" THEN "held"
    ELSE IF a.status = "SUCCEEDED" THEN "succeeded"
    ELSE IF a.status = "FAILED" /\ a.reason \in RetryReason THEN "retry"
    ELSE "closed"

Ledger == INSTANCE AttemptLedger WITH
    entries <- [r \in Runs |-> [n \in Numbers(r) |-> Entry(attempts[r][n])]],
    deadline <- [r \in Runs |->
                   IF attempts[r] = <<>> THEN 0 ELSE Latest(r).expires],
    cancelled <- [r \in Runs |-> CancelRequested(r)]

\* Although every function decides with a clock reading taken before its
\* locks, with snapshots and with rows other calls are about to change, each
\* commit is a step of the ledger: claims, renewals, closes and recoveries
\* never do together what one holder at a time could not.
ImplementsLedger == Ledger!Spec

-----------------------------------------------------------------------------
(* Liveness.  The clock runs, commands that have begun end, and the        *)
(* recovery sweep comes back to every expired attempt.  Strong fairness of *)
(* the sweep: it needs a free connection, and its transaction may be       *)
(* rolled back any finite number of times.                                 *)

Sweep(r) ==
    \E s \in Sessions, status \in {"FAILED", "CANCELLED"},
       reason \in RecoveryReasons : \E n \in Numbers(r) :
          RecoverBegin(s, r, n, status, reason)

Fairness ==
    /\ WF_vars(Tick)
    /\ \A r \in Runs : SF_vars(Sweep(r))
    /\ \A s \in Sessions :
          /\ SF_vars(RecoverCommit(s))
          /\ WF_vars(HeartbeatCommit(s) \/ CloseApply(s) \/ CloseReplay(s)
                     \/ ClaimGrant(s) \/ ClaimDecline(s) \/ PublicationClose(s)
                     \/ Abort(s))

FairSpec == Spec /\ Fairness

\* A worker that dies without a word does not hold its run for ever: every
\* RUNNING attempt is in the end closed, reclaimed or recovered, whether or
\* not the run's cancellation was requested meanwhile.
HolderIsReleased ==
    \A r \in Runs :
        (\E n \in Numbers(r) : attempts[r][n].status = "RUNNING")
            ~> (\A n \in Numbers(r) : attempts[r][n].status # "RUNNING")
=============================================================================
