----------------------- MODULE BacktestAttempts_proofs -----------------------
(***************************************************************************)
(* Proofs about BacktestAttempts: type correctness, then the inductive     *)
(* invariant behind the single-holder and outcome properties, the action   *)
(* properties, and the refinement of AttemptLedger.                        *)
(***************************************************************************)
EXTENDS BacktestAttempts, TLAPS, SequenceTheorems

USE ConstantsAssumption

-----------------------------------------------------------------------------
(* Facts about the operators the actions are built from *)

LEMMA IdleType == Idle \in Call /\ Idle.op = "idle"
  BY DEF Idle, Call, Op, Stage, CloseRequest, NoRequest, Terminal, Reason,
         RetryReason

LEMMA NoRequestType == NoRequest \in CloseRequest
  BY DEF CloseRequest, NoRequest, Terminal, Reason, RetryReason

LEMMA NewCallType ==
    ASSUME TypeOK, NEW op \in Op, NEW r \in Runs, NEW n \in Nat,
           NEW lease \in Nat, NEW q \in CloseRequest
    PROVE  NewCall(op, r, n, lease, q) \in Call
  BY DEF NewCall, Call, Stage, TypeOK

LEMMA ClosedType ==
    ASSUME NEW a \in Attempt, NEW st \in Terminal, NEW rs \in Reason
    PROVE  Closed(a, st, rs) \in Attempt
  BY DEF Closed, Attempt, AttemptStatus

LEMMA RenewedType ==
    ASSUME NEW a \in Attempt, NEW e \in Nat
    PROVE  Renewed(a, e) \in Attempt
  BY DEF Renewed, Attempt

LEMMA NewAttemptType ==
    ASSUME NEW e \in Nat
    PROVE  NewAttempt(e) \in Attempt
  BY DEF NewAttempt, Attempt, AttemptStatus, Reason

LEMMA EffectiveType ==
    ASSUME TypeOK, NEW r \in Runs, NEW q \in CloseRequest
    PROVE  Effective(r, q) \in CloseRequest
  BY DEF Effective, CloseRequest, Terminal, Reason, RetryReason

LEMMA RunAfterCloseType ==
    ASSUME TypeOK, NEW r \in Runs, NEW q \in CloseRequest
    PROVE  RunAfterClose(r, q) \in RunStatus
  <1>1. RunOutcome[q.status] \in RunStatus
    BY DEF RunOutcome, CloseRequest, Terminal, RunStatus
  <1>. QED
    BY <1>1 DEF RunAfterClose, RunStatus, TypeOK

LEMMA FencedType ==
    ASSUME TypeOK, NEW r \in Runs
    PROVE  /\ Fenced(r) \in Seq(Attempt)
           /\ Len(Fenced(r)) = Len(attempts[r])
  <1>. DEFINE k == Len(attempts[r])
  <1>1. attempts[r] \in Seq(Attempt)
    BY DEF TypeOK
  <1>2. CASE attempts[r] # <<>> /\ Latest(r).status = "RUNNING"
    <2>1. k \in 1 .. Len(attempts[r])
      BY <1>1, <1>2
    <2>2. Closed(Latest(r), "FAILED", "LEASE_EXPIRED") \in Attempt
      BY <1>1, <2>1, ClosedType DEF Latest, Terminal, Reason, RetryReason
    <2>. QED
      BY <1>1, <1>2, <2>1, <2>2 DEF Fenced
  <1>3. CASE ~(attempts[r] # <<>> /\ Latest(r).status = "RUNNING")
    BY <1>1, <1>3 DEF Fenced
  <1>. QED
    BY <1>2, <1>3

\* Storing a row keeps the number of rows and touches no other row.
LEMMA StoreFacts ==
    ASSUME TypeOK, NEW r \in Runs, NEW n \in Numbers(r), NEW a \in Attempt,
           Store(r, n, a)
    PROVE  /\ attempts' \in [Runs -> Seq(Attempt)]
           /\ Len(attempts'[r]) = Len(attempts[r])
           /\ attempts'[r][n] = a
           /\ \A m \in Numbers(r) : m # n => attempts'[r][m] = attempts[r][m]
           /\ \A q \in Runs : q # r => attempts'[q] = attempts[q]
  <1>1. attempts[r] \in Seq(Attempt)
    BY DEF TypeOK
  <1>2. [attempts[r] EXCEPT ![n] = a] \in Seq(Attempt)
    BY <1>1 DEF Numbers
  <1>3. attempts'[r] = [attempts[r] EXCEPT ![n] = a]
    BY DEF Store, TypeOK
  <1>. QED
    BY <1>1, <1>2, <1>3 DEF Store, TypeOK, Numbers

LEMMA FinishType ==
    ASSUME TypeOK, NEW s \in Sessions, Finish(s)
    PROVE  /\ call' \in [Sessions -> Call]
           /\ runLock' \in [Runs -> Sessions \cup {Nobody}]
  BY IdleType DEF Finish, TypeOK

LEMMA LockRunType ==
    ASSUME TypeOK, NEW s \in Sessions, NEW r \in Runs, LockRun(s, r)
    PROVE  runLock' \in [Runs -> Sessions \cup {Nobody}]
  BY DEF LockRun, TypeOK

\* The call of a session names a run, a request and readings of their types.
LEMMA CallType ==
    ASSUME TypeOK, NEW s \in Sessions
    PROVE  /\ call[s] \in Call
           /\ call[s].run \in Runs /\ call[s].att \in Nat
           /\ call[s].now \in Nat /\ call[s].lease \in Nat
           /\ call[s].req \in CloseRequest
  BY DEF TypeOK, Call

LEMMA RowType ==
    ASSUME TypeOK, NEW r \in Runs, NEW n \in Numbers(r)
    PROVE  attempts[r][n] \in Attempt
  BY DEF TypeOK, Numbers

LEMMA StoreType ==
    ASSUME TypeOK, NEW r \in Runs, NEW n \in Nat, NEW a,
           n \in Numbers(r) => a \in Attempt, Store(r, n, a)
    PROVE  attempts' \in [Runs -> Seq(Attempt)]
  <1>1. attempts[r] \in Seq(Attempt)
    BY DEF TypeOK
  <1>2. [attempts[r] EXCEPT ![n] = a] \in Seq(Attempt)
    <2>. DEFINE k == Len(attempts[r])
                t == [attempts[r] EXCEPT ![n] = a]
    <2>1. k \in Nat /\ attempts[r] \in [1 .. k -> Attempt]
      BY <1>1
    <2>2. t \in [1 .. k -> Attempt]
      BY <2>1 DEF Numbers
    <2>. QED
      BY <2>1, <2>2, SeqDef
  <1>. QED
    BY <1>2 DEF Store, TypeOK

-----------------------------------------------------------------------------
(* Type correctness *)

LEMMA InitType == Init => TypeOK
  BY IdleType DEF Init, TypeOK, RunStatus

LEMMA ClaimType ==
    ASSUME TypeOK, NEW s \in Sessions,
           \/ \E r \in Runs, lease \in Leases : ClaimBegin(s, r, lease)
           \/ ClaimLock(s) \/ ClaimGrant(s) \/ ClaimDecline(s)
    PROVE  TypeOK'
  <1>1. ASSUME NEW r \in Runs, NEW lease \in Leases, ClaimBegin(s, r, lease)
        PROVE  TypeOK'
    <2>1. NewCall("claim", r, 0, lease, NoRequest) \in Call
      BY NewCallType, NoRequestType DEF Op
    <2>. QED
      BY <1>1, <2>1 DEF ClaimBegin, Begin, TypeOK, rows
  <1>2. CASE ClaimLock(s)
    <2>1. CASE /\ LockRun(s, call[s].run)
               /\ call' = [call EXCEPT ![s].stage = "locked"]
      BY <1>2, <2>1, LockRunType, CallType DEF ClaimLock, TypeOK, rows, Call, Stage
    <2>2. CASE Finish(s)
      BY <1>2, <2>2, FinishType DEF ClaimLock, TypeOK, rows
    <2>. QED
      BY <1>2, <2>1, <2>2 DEF ClaimLock
  <1>3. CASE ClaimGrant(s)
    <2>. DEFINE c == call[s]
                r == c.run
                row == NewAttempt(c.now + c.lease)
    <2>1. r \in Runs /\ c.now + c.lease \in Nat
      BY CallType
    <2>2. Append(Fenced(r), row) \in Seq(Attempt)
      BY <2>1, FencedType, NewAttemptType
    <2>3. attempts' \in [Runs -> Seq(Attempt)]
      BY <1>3, <2>1, <2>2 DEF ClaimGrant, TypeOK
    <2>4. runStatus' \in [Runs -> RunStatus]
      BY <1>3, <2>1 DEF ClaimGrant, TypeOK, RunAfterClaim, RunStatus
    <2>. QED
      BY <1>3, <2>3, <2>4, FinishType DEF ClaimGrant, TypeOK
  <1>4. CASE ClaimDecline(s)
    BY <1>4, FinishType DEF ClaimDecline, TypeOK, rows
  <1>. QED
    BY <1>1, <1>2, <1>3, <1>4

LEMMA HeartbeatType ==
    ASSUME TypeOK, NEW s \in Sessions,
           \/ \E r \in Runs, lease \in Leases : \E n \in Numbers(r) :
                 HeartbeatBegin(s, r, n, lease)
           \/ HeartbeatCommit(s)
    PROVE  TypeOK'
  <1>1. ASSUME NEW r \in Runs, NEW lease \in Leases, NEW n \in Numbers(r),
               HeartbeatBegin(s, r, n, lease)
        PROVE  TypeOK'
    <2>1. NewCall("heartbeat", r, n, lease, NoRequest) \in Call
      BY NewCallType, NoRequestType DEF Op, Numbers
    <2>. QED
      BY <1>1, <2>1 DEF HeartbeatBegin, Begin, TypeOK, rows
  <1>2. CASE HeartbeatCommit(s)
    <2>. DEFINE c == call[s]
                row == Renewed(attempts[c.run][c.att], c.now + c.lease)
    <2>1. c.att \in Numbers(c.run) => row \in Attempt
      BY CallType, RowType, RenewedType
    <2>2. attempts' \in [Runs -> Seq(Attempt)]
      <3>1. CASE Store(c.run, c.att, row)
        BY <2>1, <3>1, CallType, StoreType
      <3>2. CASE UNCHANGED attempts
        BY <3>2 DEF TypeOK
      <3>. QED
        BY <1>2, <3>1, <3>2 DEF HeartbeatCommit
    <2>. QED
      BY <1>2, <2>2, FinishType DEF HeartbeatCommit, TypeOK
  <1>. QED
    BY <1>1, <1>2

LEMMA CloseType ==
    ASSUME TypeOK, NEW s \in Sessions,
           \/ \E r \in Runs, q \in CloseRequests : \E n \in Numbers(r) :
                 CloseBegin(s, r, n, q) \/ PublicationOpen(s, r, n, q)
           \/ CloseLock(s) \/ PublicationClose(s) \/ CloseApply(s) \/ CloseReplay(s)
    PROVE  TypeOK'
  <1>1. ASSUME NEW r \in Runs, NEW q \in CloseRequests, NEW n \in Numbers(r),
               CloseBegin(s, r, n, q)
        PROVE  TypeOK'
    <2>1. NewCall("close", r, n, 0, q) \in Call
      BY NewCallType DEF Op, Numbers
    <2>. QED
      BY <1>1, <2>1 DEF CloseBegin, Begin, TypeOK, rows
  <1>2. ASSUME NEW r \in Runs, NEW q \in CloseRequests, NEW n \in Numbers(r),
               PublicationOpen(s, r, n, q)
        PROVE  TypeOK'
    <2>1. [op |-> "close", stage |-> "opened", run |-> r, att |-> n,
           now |-> 0, lease |-> 0, req |-> q] \in Call
      BY DEF Call, Op, Stage, Numbers
    <2>. QED
      BY <1>2, <2>1, LockRunType DEF PublicationOpen, Begin, TypeOK, rows
  <1>3. CASE CloseLock(s)
    BY <1>3, LockRunType, CallType DEF CloseLock, TypeOK, rows, Call, Stage
  <1>4. CASE PublicationClose(s)
    <2>1. [call[s] EXCEPT !.stage = "locked", !.now = clock] \in Call
      BY CallType DEF Call, Stage, TypeOK
    <2>2. call' = [call EXCEPT ![s] = [call[s] EXCEPT !.stage = "locked",
                                                      !.now = clock]]
      BY <1>4 DEF PublicationClose, TypeOK, Call
    <2>. QED
      BY <1>4, <2>1, <2>2 DEF PublicationClose, TypeOK, rows
  <1>5. CASE CloseApply(s)
    <2>. DEFINE c == call[s]
                r == c.run
                e == Effective(r, c.req)
                row == Closed(attempts[r][c.att], e.status, e.reason)
    <2>1. e \in CloseRequest /\ e.status \in Terminal /\ e.reason \in Reason
      BY CallType, EffectiveType DEF CloseRequest
    <2>2. attempts' \in [Runs -> Seq(Attempt)]
      <3>1. c.att \in Numbers(r) => row \in Attempt
        BY <2>1, CallType, RowType, ClosedType
      <3>2. Store(r, c.att, row)
        BY <1>5 DEF CloseApply
      <3>. QED
        BY <3>1, <3>2, CallType, StoreType
    <2>3. runStatus' \in [Runs -> RunStatus]
      BY <1>5, CallType, RunAfterCloseType DEF CloseApply, TypeOK
    <2>4. told' \subseteq Runs \X Nat \X Terminal
      BY <1>5, <2>1, CallType DEF CloseApply, TypeOK
    <2>. QED
      BY <1>5, <2>2, <2>3, <2>4, FinishType DEF CloseApply, TypeOK
  <1>6. CASE CloseReplay(s)
    <2>. DEFINE c == call[s]
                e == Effective(c.run, c.req)
    <2>1. e.status \in Terminal
      BY CallType, EffectiveType DEF CloseRequest
    <2>2. told' \subseteq Runs \X Nat \X Terminal
      BY <1>6, <2>1, CallType DEF CloseReplay, TypeOK
    <2>. QED
      BY <1>6, <2>2, FinishType DEF CloseReplay, TypeOK, rows
  <1>. QED
    BY <1>1, <1>2, <1>3, <1>4, <1>5, <1>6

LEMMA RecoverType ==
    ASSUME TypeOK, NEW s \in Sessions,
           \/ \E r \in Runs, status \in {"FAILED", "CANCELLED"},
                 reason \in RecoveryReasons : \E n \in Numbers(r) :
                 RecoverBegin(s, r, n, status, reason)
           \/ RecoverCommit(s)
    PROVE  TypeOK'
  <1>1. ASSUME NEW r \in Runs, NEW status \in {"FAILED", "CANCELLED"},
               NEW reason \in RecoveryReasons, NEW n \in Numbers(r),
               RecoverBegin(s, r, n, status, reason)
        PROVE  TypeOK'
    <2>1. RecoveryRequest(status, reason) \in CloseRequest
      BY DEF RecoveryRequest, CloseRequest, Terminal
    <2>2. NewCall("recover", r, n, 0, RecoveryRequest(status, reason)) \in Call
      BY <2>1, NewCallType DEF Op, Numbers
    <2>. QED
      BY <1>1, <2>2 DEF RecoverBegin, Begin, TypeOK, rows
  <1>2. CASE RecoverCommit(s)
    <2>. DEFINE c == call[s]
                row == Closed(attempts[c.run][c.att], c.req.status, c.req.reason)
    <2>1. c.att \in Numbers(c.run) => row \in Attempt
      BY CallType, RowType, ClosedType DEF CloseRequest
    <2>2. attempts' \in [Runs -> Seq(Attempt)]
      <3>1. CASE Store(c.run, c.att, row)
        BY <2>1, <3>1, CallType, StoreType
      <3>2. CASE UNCHANGED attempts
        BY <3>2 DEF TypeOK
      <3>. QED
        BY <1>2, <3>1, <3>2 DEF RecoverCommit
    <2>. QED
      BY <1>2, <2>2, FinishType DEF RecoverCommit, TypeOK
  <1>. QED
    BY <1>1, <1>2

\* Every variable keeps its type, whatever the sessions do.
THEOREM TypeCorrect == Spec => []TypeOK
  <1>1. TypeOK /\ [Next]_vars => TypeOK'
    <2> SUFFICES ASSUME TypeOK, [Next]_vars PROVE TypeOK'
      OBVIOUS
    <2>1. ASSUME NEW s \in Sessions, Calls(s) PROVE TypeOK'
      <3>1. CASE Abort(s)
        BY <3>1, FinishType DEF Abort, TypeOK, rows
      <3>. QED
        BY <2>1, <3>1, ClaimType, HeartbeatType, CloseType, RecoverType DEF Calls
    <2>2. ASSUME NEW r \in Runs, RequestCancellation(r) PROVE TypeOK'
      BY <2>2 DEF RequestCancellation, TypeOK
    <2>3. CASE Tick
      BY <2>3 DEF Tick, TypeOK, rows
    <2>4. CASE UNCHANGED vars
      BY <2>4 DEF vars, TypeOK
    <2>. QED
      BY <2>1, <2>2, <2>3, <2>4 DEF Next
  <1>. QED
    BY <1>1, InitType, PTL DEF Spec

-----------------------------------------------------------------------------
(* How a commit changes the attempts of its run: a grant appends a row and *)
(* may close the last one, every other commit rewrites one RUNNING row.    *)

LEMMA GrantRows ==
    ASSUME TypeOK, NEW s \in Sessions, ClaimGrant(s),
           NEW r \in Runs, r = call[s].run
    PROVE  /\ Len(attempts'[r]) = Len(attempts[r]) + 1
           /\ attempts'[r][Len(attempts[r]) + 1].status = "RUNNING"
           /\ \A n \in Numbers(r) :
                 \/ attempts'[r][n] = attempts[r][n]
                 \/ /\ n = Len(attempts[r])
                    /\ Expired(attempts[r][n], call[s].now)
                    /\ attempts'[r][n].status = "FAILED"
                    /\ attempts'[r][n].reason = "LEASE_EXPIRED"
           /\ attempts[r] # <<>> =>
                 /\ attempts'[r][Len(attempts[r])].status = "FAILED"
                 /\ attempts'[r][Len(attempts[r])].reason \in RetryReason
           /\ \A q \in Runs : q # r => attempts'[q] = attempts[q]
  <1>. DEFINE k == Len(attempts[r])
              row == NewAttempt(call[s].now + call[s].lease)
  <1>1. attempts[r] \in Seq(Attempt) /\ k \in Nat
    BY DEF TypeOK
  <1>2. row \in Attempt
    BY CallType, NewAttemptType
  <1>3. attempts'[r] = Append(Fenced(r), row)
    BY DEF ClaimGrant, TypeOK
  <1>4. Fenced(r) \in Seq(Attempt) /\ Len(Fenced(r)) = k
    BY FencedType
  <1>5. /\ Len(attempts'[r]) = k + 1
        /\ attempts'[r][k + 1] = row
        /\ \A n \in Numbers(r) : attempts'[r][n] = Fenced(r)[n]
    BY <1>1, <1>2, <1>3, <1>4 DEF Numbers
  <1>6. row.status = "RUNNING"
    BY DEF NewAttempt
  <1>7. \A q \in Runs : q # r => attempts'[q] = attempts[q]
    BY DEF ClaimGrant, TypeOK
  <1>8. Claimable(r, call[s].now)
    BY DEF ClaimGrant
  <1>9. CASE attempts[r] # <<>> /\ Latest(r).status = "RUNNING"
    <2>1. k \in Numbers(r) /\ Latest(r) = attempts[r][k]
      BY <1>1, <1>9 DEF Latest, Numbers
    <2>2. Expired(attempts[r][k], call[s].now)
      BY <1>8, <1>9, <2>1 DEF Claimable, Expired
    <2>3. /\ Fenced(r)[k].status = "FAILED"
          /\ Fenced(r)[k].reason = "LEASE_EXPIRED"
          /\ \A n \in Numbers(r) : n # k => Fenced(r)[n] = attempts[r][n]
      BY <1>1, <1>9, <2>1 DEF Fenced, Closed, Numbers
    <2>. QED
      <3>1. attempts'[r][k + 1].status = "RUNNING"
        BY <1>5, <1>6
      <3>2. /\ attempts'[r][k].status = "FAILED"
            /\ attempts'[r][k].reason = "LEASE_EXPIRED"
        BY <1>5, <2>1, <2>3
      <3>3. \A n \in Numbers(r) : n # k => attempts'[r][n] = attempts[r][n]
        BY <1>5, <2>3
      <3>. HIDE DEF k, row
      <3>. QED
        BY <1>5, <1>7, <2>2, <3>1, <3>2, <3>3 DEF RetryReason, k
  <1>10. CASE ~(attempts[r] # <<>> /\ Latest(r).status = "RUNNING")
    <2>1. Fenced(r) = attempts[r]
      BY <1>10 DEF Fenced
    <2>2. attempts[r] # <<>> =>
             /\ k \in Numbers(r)
             /\ attempts[r][k].status = "FAILED"
             /\ attempts[r][k].reason \in RetryReason
      BY <1>1, <1>8, <1>10 DEF Claimable, Expired, Latest, Numbers
    <2>. QED
      <3>1. attempts'[r][k + 1].status = "RUNNING"
        BY <1>5, <1>6
      <3>2. \A n \in Numbers(r) : attempts'[r][n] = attempts[r][n]
        BY <1>5, <2>1
      <3>. HIDE DEF row
      <3>. QED
        BY <1>5, <1>7, <2>2, <3>1, <3>2
  <1>. QED
    BY <1>9, <1>10

\* Rewrites(r, n, a): row n of run r, which was RUNNING, becomes a.
Rewrites(r, n, a) ==
    /\ n \in Numbers(r)
    /\ a \in Attempt
    /\ attempts[r][n].status = "RUNNING"
    /\ Store(r, n, a)

LEMMA HeartbeatRows ==
    ASSUME TypeOK, CallsOK, NEW s \in Sessions, HeartbeatCommit(s)
    PROVE  \/ UNCHANGED attempts
           \/ \E a : /\ Rewrites(call[s].run, call[s].att, a)
                     /\ a.status = "RUNNING"
  <1>. DEFINE c == call[s]
              row == Renewed(attempts[c.run][c.att], c.now + c.lease)
  <1>1. CASE /\ Renewable(attempts[c.run][c.att], c.now)
             /\ Store(c.run, c.att, row)
    <2>1. c.att \in Numbers(c.run) /\ attempts[c.run][c.att] \in Attempt
      BY CallType, RowType DEF HeartbeatCommit, At, CallsOK
    <2>2. row \in Attempt
      BY <2>1, CallType, RenewedType
    <2>3. attempts[c.run][c.att].status = "RUNNING"
      BY <1>1 DEF Renewable, Live
    <2>4. row.status = "RUNNING"
      BY <2>1, <2>3 DEF Renewed, Attempt
    <2>5. Rewrites(c.run, c.att, row)
      BY <1>1, <2>1, <2>2, <2>3 DEF Rewrites
    <2>. QED
      BY <2>4, <2>5
  <1>. QED
    BY <1>1 DEF HeartbeatCommit

LEMMA CloseRows ==
    ASSUME TypeOK, CallsOK, NEW s \in Sessions, CloseApply(s)
    PROVE  LET e == Effective(call[s].run, call[s].req)
               a == Closed(attempts[call[s].run][call[s].att], e.status, e.reason)
           IN  /\ Rewrites(call[s].run, call[s].att, a)
               /\ a.status = e.status /\ a.status \in Terminal
  <1>. DEFINE c == call[s]
              e == Effective(c.run, c.req)
              row == Closed(attempts[c.run][c.att], e.status, e.reason)
  <1>1. c.att \in Numbers(c.run) /\ attempts[c.run][c.att] \in Attempt
    BY CallType, RowType DEF CloseApply, At, CallsOK
  <1>2. e.status \in Terminal /\ e.reason \in Reason
    BY CallType, EffectiveType DEF CloseRequest
  <1>3. row \in Attempt /\ row.status = e.status
    BY <1>1, <1>2, ClosedType DEF Closed
  <1>4. attempts[c.run][c.att].status = "RUNNING" /\ Store(c.run, c.att, row)
    BY DEF CloseApply, Live
  <1>. QED
    BY <1>1, <1>2, <1>3, <1>4 DEF Rewrites

LEMMA RecoverRows ==
    ASSUME TypeOK, CallsOK, NEW s \in Sessions, RecoverCommit(s)
    PROVE  \/ UNCHANGED attempts
           \/ \E a : /\ Rewrites(call[s].run, call[s].att, a)
                     /\ Expired(attempts[call[s].run][call[s].att], call[s].now)
                     /\ a.status \in {"FAILED", "CANCELLED"}
  <1>. DEFINE c == call[s]
              row == Closed(attempts[c.run][c.att], c.req.status, c.req.reason)
  <1>1. CASE /\ Recoverable(attempts[c.run][c.att], c.now)
             /\ Store(c.run, c.att, row)
    <2>1. /\ c.att \in Numbers(c.run) /\ attempts[c.run][c.att] \in Attempt
          /\ c.req.status \in {"FAILED", "CANCELLED"}
      BY CallType, RowType DEF RecoverCommit, At, CallsOK
    <2>2. row \in Attempt /\ row.status = c.req.status
      BY <2>1, CallType, ClosedType DEF CloseRequest, Closed, Terminal
    <2>3. Rewrites(c.run, c.att, row)
      BY <1>1, <2>1, <2>2 DEF Rewrites, Recoverable, Expired
    <2>. QED
      BY <1>1, <2>1, <2>2, <2>3 DEF Recoverable
  <1>. QED
    BY <1>1 DEF RecoverCommit

-----------------------------------------------------------------------------
(* What such a change preserves *)

Outlasts(t) == t[2] \in Numbers(t[1])' /\ attempts'[t[1]][t[2]].status = t[3]

LEMMA RewriteKeeps ==
    ASSUME AttemptsInvariant, NEW r \in Runs, NEW n, NEW a, Rewrites(r, n, a)
    PROVE  /\ n = Len(attempts[r])
           /\ attempts'[r] # <<>> /\ Latest(r)' = a
           /\ \A q \in Runs : q # r => attempts'[q] = attempts[q]
           /\ \A q \in Runs : Numbers(q)' = Numbers(q)
           /\ SingleHolder'
           /\ OnlyRetriesAreSucceeded'
           /\ \A t \in told : Outlasts(t)
  <1>1. /\ attempts[r] \in Seq(Attempt)
        /\ n \in Numbers(r) /\ n = Len(attempts[r])
    BY DEF AttemptsInvariant, TypeOK, SingleHolder, Rewrites
  <1>2. /\ attempts' \in [Runs -> Seq(Attempt)]
        /\ Len(attempts'[r]) = Len(attempts[r])
        /\ attempts'[r][n] = a
        /\ \A m \in Numbers(r) : m # n => attempts'[r][m] = attempts[r][m]
        /\ \A q \in Runs : q # r => attempts'[q] = attempts[q]
    BY StoreFacts DEF AttemptsInvariant, Rewrites
  <1>3. \A q \in Runs : Numbers(q)' = Numbers(q)
    BY <1>2 DEF Numbers
  <1>4. attempts'[r] # <<>> /\ Latest(r)' = a
    BY <1>1, <1>2 DEF Latest, Numbers
  <1>5. SingleHolder'
    BY <1>1, <1>2, <1>3 DEF AttemptsInvariant, SingleHolder
  <1>6. OnlyRetriesAreSucceeded'
    <2>1. ASSUME NEW q \in Runs, NEW m \in Numbers(q)', m < Len(attempts'[q])
          PROVE  attempts'[q][m] = attempts[q][m] /\ m < Len(attempts[q])
      <3>1. m \in Numbers(q)
        BY <1>3
      <3>2. CASE q = r
        BY <1>1, <1>2, <2>1, <3>1, <3>2
      <3>3. CASE q # r
        BY <1>2, <2>1, <3>3
      <3>. QED
        BY <3>2, <3>3
    <2>. QED
      BY <1>3, <2>1 DEF AttemptsInvariant, OnlyRetriesAreSucceeded
  <1>7. ASSUME NEW t \in told PROVE Outlasts(t)
    <2>1. /\ t[1] \in Runs /\ t[3] \in Terminal
          /\ t[2] \in Numbers(t[1]) /\ attempts[t[1]][t[2]].status = t[3]
      BY DEF AttemptsInvariant, TypeOK, ToldIsStored
    <2>2. ~(t[1] = r /\ t[2] = n)
      BY <2>1 DEF Rewrites, Terminal
    <2>. QED
      BY <1>2, <1>3, <2>1, <2>2 DEF Outlasts
  <1>. QED
    BY <1>1, <1>2, <1>3, <1>4, <1>5, <1>6, <1>7

LEMMA GrantKeeps ==
    ASSUME AttemptsInvariant, NEW s \in Sessions, ClaimGrant(s),
           NEW r \in Runs, r = call[s].run,
           NEW k \in Nat, k = Len(attempts[r])
    PROVE  /\ \A q \in Runs : Numbers(q) \subseteq Numbers(q)'
           /\ SingleHolder'
           /\ OnlyRetriesAreSucceeded'
           /\ \A t \in told : Outlasts(t)
  <1>0. TypeOK
    BY DEF AttemptsInvariant
  <1>1. attempts[r] \in Seq(Attempt)
    BY <1>0 DEF TypeOK
  <1>2. /\ Len(attempts'[r]) = k + 1
        /\ attempts'[r][k + 1].status = "RUNNING"
        /\ \A n \in Numbers(r) :
              \/ attempts'[r][n] = attempts[r][n]
              \/ /\ n = k
                 /\ Expired(attempts[r][n], call[s].now)
                 /\ attempts'[r][n].status = "FAILED"
                 /\ attempts'[r][n].reason = "LEASE_EXPIRED"
        /\ attempts[r] # <<>> => /\ attempts'[r][k].status = "FAILED"
                                /\ attempts'[r][k].reason \in RetryReason
        /\ \A q \in Runs : q # r => attempts'[q] = attempts[q]
    BY <1>0, GrantRows, SMTT(60)
  <1>3. \A q \in Runs : q # r => Numbers(q)' = Numbers(q)
    BY <1>2 DEF Numbers
  <1>4. Numbers(r)' = 1 .. k + 1 /\ Numbers(r) = 1 .. k
    BY <1>1, <1>2 DEF Numbers
  <1>5. \A n \in 1 .. k : attempts[r] # <<>>
    BY <1>1
  <1>6. SingleHolder'
    <2>1. ASSUME NEW n \in 1 .. k PROVE attempts'[r][n].status # "RUNNING"
      <3>1. CASE n = k
        BY <1>2, <1>5, <2>1, <3>1
      <3>2. CASE n # k
        BY <1>1, <1>2, <1>4, <2>1, <3>2 DEF AttemptsInvariant, SingleHolder
      <3>. QED
        BY <3>1, <3>2
    <2>. QED
      BY <1>1, <1>2, <1>3, <1>4, <2>1 DEF AttemptsInvariant, SingleHolder
  <1>7. OnlyRetriesAreSucceeded'
    <2>1. ASSUME NEW n \in 1 .. k
          PROVE  /\ attempts'[r][n].status = "FAILED"
                 /\ attempts'[r][n].reason \in RetryReason
      <3>1. CASE n = k
        BY <1>2, <1>5, <2>1, <3>1
      <3>2. CASE n # k
        <4>1. attempts'[r][n] = attempts[r][n] /\ n \in Numbers(r) /\ n < k
          BY <1>2, <1>4, <2>1, <3>2
        <4>. QED
          BY <4>1 DEF AttemptsInvariant, OnlyRetriesAreSucceeded
      <3>. QED
        BY <3>1, <3>2
    <2>. QED
      BY <1>1, <1>2, <1>3, <1>4, <2>1
         DEF AttemptsInvariant, OnlyRetriesAreSucceeded
  <1>8. ASSUME NEW t \in told PROVE Outlasts(t)
    <2>1. /\ t[1] \in Runs /\ t[3] \in Terminal
          /\ t[2] \in Numbers(t[1]) /\ attempts[t[1]][t[2]].status = t[3]
      BY DEF AttemptsInvariant, TypeOK, ToldIsStored
    <2>2. CASE t[1] = r
      <3>1. \/ attempts'[r][t[2]] = attempts[r][t[2]]
            \/ Expired(attempts[r][t[2]], call[s].now)
        BY <1>2, <2>1, <2>2
      <3>2. attempts[r][t[2]].status # "RUNNING"
        BY <2>1, <2>2 DEF Terminal
      <3>3. attempts'[r][t[2]] = attempts[r][t[2]]
        BY <3>1, <3>2 DEF Expired
      <3>. QED
        BY <2>1, <2>2, <3>3, <1>4 DEF Outlasts
    <2>3. CASE t[1] # r
      <3>1. attempts'[t[1]] = attempts[t[1]]
        BY <1>2, <2>1, <2>3
      <3>. QED
        BY <1>3, <2>1, <2>3, <3>1 DEF Outlasts
    <2>. QED
      BY <2>2, <2>3
  <1>. QED
    BY <1>1, <1>3, <1>4, <1>6, <1>7, <1>8

NamesAttempt == {"heartbeat", "close", "recover"}

LEMMA CallsAfterFinish ==
    ASSUME TypeOK, CallsOK, NEW s \in Sessions, Finish(s), clock' = clock,
           \A q \in Runs : Numbers(q) \subseteq Numbers(q)'
    PROVE  CallsOK'
  <1>1. ASSUME NEW t \in Sessions
        PROVE  call'[t] = IF t = s THEN Idle ELSE call[t]
    BY DEF Finish, TypeOK
  <1>2. Idle.op = "idle" /\ Idle.now = 0
    BY DEF Idle
  <1>3. ASSUME NEW t \in Sessions, call'[t].op \in NamesAttempt
        PROVE  (call[t].att \in Numbers(call[t].run))'
    <2>1. call'[t] = call[t] /\ call[t].run \in Runs
      BY <1>1, <1>2, <1>3, CallType DEF NamesAttempt
    <2>2. call[t].att \in Numbers(call[t].run)
      BY <1>3, <2>1 DEF CallsOK, NamesAttempt
    <2>3. PICK r \in Runs : r = call[t].run
      BY <2>1
    <2>. QED
      BY <2>1, <2>2, <2>3 DEF Numbers
  <1>4. ASSUME NEW t \in Sessions, call'[t].op = "recover"
        PROVE  call'[t].req.status \in {"FAILED", "CANCELLED"}
    BY <1>1, <1>2, <1>4 DEF CallsOK
  <1>5. ASSUME NEW t \in Sessions
        PROVE  call'[t].now <= clock'
    BY <1>1, <1>2 DEF CallsOK, TypeOK
  <1>. QED
    BY <1>3, <1>4, <1>5 DEF CallsOK, NamesAttempt

LEMMA LocksAfterFinish ==
    ASSUME TypeOK, LocksOK, NEW s \in Sessions, Finish(s),
           \A t \in Sessions \ {s} :
              At(t, "claim", "locked") => RunOpen(call[t].run)'
    PROVE  LocksOK'
  <1>1. ASSUME NEW t \in Sessions
        PROVE  call'[t] = IF t = s THEN Idle ELSE call[t]
    BY DEF Finish, TypeOK
  <1>2. Idle.op = "idle"
    BY DEF Idle
  <1>3. \A r \in Runs : runLock[r] # s => runLock'[r] = runLock[r]
    BY DEF Finish, TypeOK
  <1>4. ASSUME NEW t \in Sessions, HoldsRun(t)'
        PROVE  t # s /\ HoldsRun(t) /\ runLock'[call'[t].run] = t
    BY <1>1, <1>2, <1>3, <1>4, CallType DEF HoldsRun, At, LocksOK
  <1>5. ASSUME NEW t \in Sessions, At(t, "claim", "locked")'
        PROVE  RunOpen(call[t].run)' /\ call'[t] = call[t]
    BY <1>1, <1>2, <1>5 DEF At
  <1>. QED
    BY <1>4, <1>5 DEF LocksOK, RunOpen, CancelRequested

LEMMA LocksAfterRelease ==
    ASSUME TypeOK, LocksOK, NEW s \in Sessions, Finish(s),
           UNCHANGED <<runStatus, cancelRequestedAt>>
    PROVE  LocksOK'
  <1>1. ASSUME NEW t \in Sessions \ {s}, At(t, "claim", "locked")
        PROVE  RunOpen(call[t].run)'
    <2>1. call'[t] = call[t] /\ RunOpen(call[t].run)
      BY <1>1 DEF Finish, TypeOK, LocksOK
    <2>. QED
      BY <2>1 DEF RunOpen, CancelRequested
  <1>. QED
    BY <1>1, LocksAfterFinish

LEMMA CallsAfterBegin ==
    ASSUME TypeOK, CallsOK, NEW s \in Sessions, NEW c, Begin(s, c),
           c.op \in NamesAttempt => c.att \in Numbers(c.run),
           c.op = "recover" => c.req.status \in {"FAILED", "CANCELLED"},
           c.now <= clock, UNCHANGED <<clock, attempts>>
    PROVE  CallsOK'
  <1>1. ASSUME NEW t \in Sessions
        PROVE  call'[t] = IF t = s THEN c ELSE call[t]
    BY DEF Begin, TypeOK
  <1>. QED
    BY <1>1 DEF CallsOK, NamesAttempt, Numbers

LEMMA LocksAfterBegin ==
    ASSUME TypeOK, LocksOK, NEW s \in Sessions, NEW c, Begin(s, c),
           c.stage = "begun", UNCHANGED <<runStatus, cancelRequestedAt, runLock>>
    PROVE  LocksOK'
  <1>1. ASSUME NEW t \in Sessions
        PROVE  call'[t] = IF t = s THEN c ELSE call[t]
    BY DEF Begin, TypeOK
  <1>. QED
    BY <1>1 DEF LocksOK, HoldsRun, At, RunOpen, CancelRequested

\* Taking the free lock of a run row takes it from nobody.
LEMMA LocksAfterLock ==
    ASSUME TypeOK, LocksOK, NEW s \in Sessions, NEW r \in Runs, LockRun(s, r),
           call'[s].run = r, At(s, "claim", "locked")' => RunOpen(r),
           \A t \in Sessions \ {s} : call'[t] = call[t],
           UNCHANGED <<runStatus, cancelRequestedAt>>
    PROVE  LocksOK'
  <1>1. runLock[r] = Nobody /\ runLock' = [runLock EXCEPT ![r] = s]
    BY DEF LockRun
  <1>2. ASSUME NEW t \in Sessions, HoldsRun(t)'
        PROVE  runLock'[call'[t].run] = t
    <2>1. CASE t = s
      BY <1>1, <2>1 DEF TypeOK
    <2>2. CASE t # s
      <3>1. call'[t] = call[t] /\ HoldsRun(t)
        BY <1>2, <2>2 DEF HoldsRun, At
      <3>2. call[t].run \in Runs /\ runLock[call[t].run] = t
        BY <3>1, CallType DEF LocksOK
      <3>. QED
        BY <1>1, <3>1, <3>2 DEF TypeOK
    <2>. QED
      BY <2>1, <2>2
  <1>3. ASSUME NEW t \in Sessions, At(t, "claim", "locked")'
        PROVE  RunOpen(call[t].run)'
    BY <1>3 DEF LocksOK, At, RunOpen, CancelRequested
  <1>. QED
    BY <1>2, <1>3 DEF LocksOK

LEMMA RowsAlone ==
    ASSUME AttemptsInvariant, UNCHANGED rows, UNCHANGED told
    PROVE  /\ SingleHolder' /\ OnlyRetriesAreSucceeded'
           /\ RunFollowsAttempts' /\ ToldIsStored'
  BY DEF AttemptsInvariant, rows, SingleHolder, OnlyRetriesAreSucceeded,
         RunFollowsAttempts, ToldIsStored, Numbers, Latest, CancelRequested

\* Only one call holds a run row: what a commit under the lock does to the
\* run cannot surprise a claim that is past its lock.
LEMMA OtherClaims ==
    ASSUME TypeOK, LocksOK, NEW s \in Sessions, HoldsRun(s), Finish(s),
           UNCHANGED cancelRequestedAt,
           \A r \in Runs : r # call[s].run => runStatus'[r] = runStatus[r]
    PROVE  \A t \in Sessions \ {s} :
              At(t, "claim", "locked") => RunOpen(call[t].run)'
  <1> SUFFICES ASSUME NEW t \in Sessions \ {s}, At(t, "claim", "locked")
               PROVE  RunOpen(call[t].run)'
    OBVIOUS
  <1>1. runLock[call[t].run] = t /\ runLock[call[s].run] = s /\ call[t].run \in Runs
    BY CallType DEF LocksOK, HoldsRun
  <1>2. call[t].run # call[s].run
    BY <1>1
  <1>3. RunOpen(call[t].run) /\ runStatus'[call[t].run] = runStatus[call[t].run]
    BY <1>1, <1>2 DEF LocksOK
  <1>4. call'[t] = call[t]
    BY DEF Finish, TypeOK
  <1>. QED
    BY <1>3, <1>4 DEF RunOpen, CancelRequested

-----------------------------------------------------------------------------
(* The inductive invariant, step by step *)

\* A commit that finds nothing to do.
LEMMA FinishAlone ==
    ASSUME AttemptsInvariant, TypeOK', NEW s \in Sessions, Finish(s),
           UNCHANGED <<clock, rows, told>>
    PROVE  AttemptsInvariant'
  <1>. TypeOK /\ CallsOK /\ LocksOK
    BY DEF AttemptsInvariant
  <1>1. CallsOK' /\ LocksOK'
    BY CallsAfterFinish, LocksAfterRelease DEF rows, Numbers
  <1>. QED
    BY <1>1, RowsAlone DEF AttemptsInvariant

LEMMA ClaimKeeps ==
    ASSUME AttemptsInvariant, TypeOK', NEW s \in Sessions,
           \/ \E r \in Runs, lease \in Leases : ClaimBegin(s, r, lease)
           \/ ClaimLock(s) \/ ClaimGrant(s) \/ ClaimDecline(s)
    PROVE  AttemptsInvariant'
  <1>. TypeOK /\ CallsOK /\ LocksOK
    BY DEF AttemptsInvariant
  <1>1. ASSUME NEW r \in Runs, NEW lease \in Leases, ClaimBegin(s, r, lease)
        PROVE  AttemptsInvariant'
    <2>. DEFINE c == NewCall("claim", r, 0, lease, NoRequest)
    <2>1. c.op = "claim" /\ c.stage = "begun" /\ c.now = clock
      BY DEF NewCall
    <2>2. Begin(s, c) /\ UNCHANGED <<clock, rows, runLock, told>>
      BY <1>1 DEF ClaimBegin
    <2>. HIDE DEF c
    <2>3. clock <= clock
      BY DEF TypeOK
    <2>4. CallsOK' /\ LocksOK'
      BY <2>1, <2>2, <2>3, CallsAfterBegin, LocksAfterBegin
         DEF rows, NamesAttempt
    <2>. QED
      BY <1>1, <2>4, RowsAlone DEF ClaimBegin, AttemptsInvariant
  <1>2. CASE ClaimLock(s)
    <2>1. PICK r \in Runs : r = call[s].run
      BY CallType
    <2>2. CASE /\ RunOpen(r) /\ LockRun(s, r)
               /\ call' = [call EXCEPT ![s].stage = "locked"]
      <3>1. call'[s].run = r /\ \A t \in Sessions \ {s} : call'[t] = call[t]
        BY <2>1, <2>2, CallType DEF TypeOK, Call
      <3>2. LocksOK'
        BY <1>2, <2>2, <3>1, LocksAfterLock DEF ClaimLock, rows
      <3>3. CallsOK'
        BY <1>2, <2>2, CallType DEF ClaimLock, rows, CallsOK, At, TypeOK, Call, Numbers
      <3>. QED
        BY <1>2, <3>2, <3>3, RowsAlone DEF ClaimLock, AttemptsInvariant
    <2>3. CASE Finish(s)
      BY <1>2, <2>3, FinishAlone DEF ClaimLock
    <2>. QED
      BY <1>2, <2>1, <2>2, <2>3 DEF ClaimLock
  <1>3. CASE ClaimGrant(s)
    <2>1. PICK r \in Runs : r = call[s].run
      BY CallType
    <2>2. PICK k \in Nat : k = Len(attempts[r])
      BY DEF TypeOK
    <2>3. /\ \A q \in Runs : Numbers(q) \subseteq Numbers(q)'
          /\ SingleHolder'
          /\ OnlyRetriesAreSucceeded'
          /\ \A t \in told : Outlasts(t)
      BY <1>3, <2>1, <2>2, GrantKeeps
    <2>4. ToldIsStored'
      BY <1>3, <2>3 DEF ClaimGrant, ToldIsStored, Outlasts
    <2>5. CallsOK'
      BY <1>3, <2>3, CallsAfterFinish DEF ClaimGrant
    <2>6. RunOpen(r) /\ HoldsRun(s) /\ Finish(s)
      BY <1>3, <2>1 DEF ClaimGrant, LocksOK, HoldsRun
    <2>7. /\ runStatus'[r] = "RUNNING" /\ UNCHANGED cancelRequestedAt
          /\ \A q \in Runs : q # r => runStatus'[q] = runStatus[q]
      BY <1>3, <2>1, <2>6
         DEF ClaimGrant, RunAfterClaim, RunOpen, TypeOK, RunStatus, EndedRun
    <2>8. LocksOK'
      BY <2>1, <2>6, <2>7, OtherClaims, LocksAfterFinish
    <2>9. RunFollowsAttempts'
      <3>1. \A q \in Runs : q # r => attempts'[q] = attempts[q]
        BY <1>3, <2>1, GrantRows
      <3>. QED
        BY <2>7, <3>1
           DEF AttemptsInvariant, RunFollowsAttempts, Latest, CancelRequested
    <2>. QED
      BY <2>3, <2>4, <2>5, <2>8, <2>9 DEF AttemptsInvariant
  <1>4. CASE ClaimDecline(s)
    BY <1>4, FinishAlone DEF ClaimDecline
  <1>. QED
    BY <1>1, <1>2, <1>3, <1>4

\* A commit that leaves a running row running, or closes it, without touching
\* the run: a renewal or a recovery.
LEMMA RewriteAlone ==
    ASSUME AttemptsInvariant, TypeOK', NEW s \in Sessions, Finish(s),
           NEW r \in Runs, NEW n, NEW a, Rewrites(r, n, a),
           UNCHANGED <<clock, runStatus, cancelRequestedAt, told>>
    PROVE  AttemptsInvariant'
  <1>. TypeOK /\ CallsOK /\ LocksOK
    BY DEF AttemptsInvariant
  <1>1. /\ n = Len(attempts[r])
        /\ attempts'[r] # <<>>
        /\ \A q \in Runs : q # r => attempts'[q] = attempts[q]
        /\ \A q \in Runs : Numbers(q)' = Numbers(q)
        /\ SingleHolder'
        /\ OnlyRetriesAreSucceeded'
        /\ \A t \in told : Outlasts(t)
    BY RewriteKeeps
  <1>2. CallsOK' /\ LocksOK'
    BY <1>1, CallsAfterFinish, LocksAfterRelease
  <1>3. ToldIsStored'
    BY <1>1 DEF ToldIsStored, Outlasts
  <1>4. /\ attempts[r] # <<>> /\ Latest(r).status = "RUNNING"
        /\ runStatus[r] = "RUNNING"
    BY <1>1 DEF Rewrites, Numbers, Latest, TypeOK, AttemptsInvariant,
                RunFollowsAttempts
  <1>5. RunFollowsAttempts'
    BY <1>1, <1>4 DEF AttemptsInvariant, RunFollowsAttempts, Latest,
                      CancelRequested
  <1>. QED
    BY <1>1, <1>2, <1>3, <1>5 DEF AttemptsInvariant

LEMMA HeartbeatKeeps ==
    ASSUME AttemptsInvariant, TypeOK', NEW s \in Sessions,
           \/ \E r \in Runs, lease \in Leases : \E n \in Numbers(r) :
                 HeartbeatBegin(s, r, n, lease)
           \/ HeartbeatCommit(s)
    PROVE  AttemptsInvariant'
  <1>. TypeOK /\ CallsOK /\ LocksOK
    BY DEF AttemptsInvariant
  <1>1. ASSUME NEW r \in Runs, NEW lease \in Leases, NEW n \in Numbers(r),
               HeartbeatBegin(s, r, n, lease)
        PROVE  AttemptsInvariant'
    <2>. DEFINE c == NewCall("heartbeat", r, n, lease, NoRequest)
    <2>1. c.op = "heartbeat" /\ c.stage = "begun" /\ c.now = clock /\ c.run = r /\ c.att = n
      BY DEF NewCall, RecoveryRequest
    <2>2. Begin(s, c) /\ UNCHANGED <<clock, rows, runLock, told>>
      BY <1>1 DEF HeartbeatBegin
    <2>. HIDE DEF c
    <2>3. clock <= clock
      BY DEF TypeOK
    <2>4. CallsOK' /\ LocksOK'
      BY <2>1, <2>2, <2>3, CallsAfterBegin, LocksAfterBegin
         DEF rows, NamesAttempt
    <2>. QED
      BY <1>1, <2>4, RowsAlone DEF HeartbeatBegin, AttemptsInvariant
  <1>2. CASE HeartbeatCommit(s)
    <2>1. call[s].run \in Runs /\ Finish(s)
          /\ UNCHANGED <<clock, runStatus, cancelRequestedAt, told>>
      BY <1>2, CallType DEF HeartbeatCommit
    <2>2. CASE UNCHANGED attempts
      BY <2>1, <2>2, FinishAlone DEF rows
    <2>3. CASE \E a : Rewrites(call[s].run, call[s].att, a)
      BY <2>1, <2>3, RewriteAlone
    <2>. QED
      BY <1>2, <2>2, <2>3, HeartbeatRows
  <1>. QED
    BY <1>1, <1>2

LEMMA RecoverKeeps ==
    ASSUME AttemptsInvariant, TypeOK', NEW s \in Sessions,
           \/ \E r \in Runs, status \in {"FAILED", "CANCELLED"},
                 reason \in RecoveryReasons : \E n \in Numbers(r) :
                 RecoverBegin(s, r, n, status, reason)
           \/ RecoverCommit(s)
    PROVE  AttemptsInvariant'
  <1>. TypeOK /\ CallsOK /\ LocksOK
    BY DEF AttemptsInvariant
  <1>1. ASSUME NEW r \in Runs, NEW status \in {"FAILED", "CANCELLED"},
               NEW reason \in RecoveryReasons, NEW n \in Numbers(r),
               RecoverBegin(s, r, n, status, reason)
        PROVE  AttemptsInvariant'
    <2>. DEFINE c == NewCall("recover", r, n, 0, RecoveryRequest(status, reason))
    <2>1. c.op = "recover" /\ c.stage = "begun" /\ c.now = clock /\ c.run = r /\ c.att = n /\ c.req.status = status
      BY DEF NewCall, RecoveryRequest
    <2>2. Begin(s, c) /\ UNCHANGED <<clock, rows, runLock, told>>
      BY <1>1 DEF RecoverBegin
    <2>. HIDE DEF c
    <2>3. clock <= clock
      BY DEF TypeOK
    <2>4. CallsOK' /\ LocksOK'
      BY <2>1, <2>2, <2>3, CallsAfterBegin, LocksAfterBegin
         DEF rows, NamesAttempt
    <2>. QED
      BY <1>1, <2>4, RowsAlone DEF RecoverBegin, AttemptsInvariant
  <1>2. CASE RecoverCommit(s)
    <2>1. call[s].run \in Runs /\ Finish(s)
          /\ UNCHANGED <<clock, runStatus, cancelRequestedAt, told>>
      BY <1>2, CallType DEF RecoverCommit
    <2>2. CASE UNCHANGED attempts
      BY <2>1, <2>2, FinishAlone DEF rows
    <2>3. CASE \E a : Rewrites(call[s].run, call[s].att, a)
      BY <2>1, <2>3, RewriteAlone
    <2>. QED
      BY <1>2, <2>2, <2>3, RecoverRows
  <1>. QED
    BY <1>1, <1>2

LEMMA CloseKeeps ==
    ASSUME AttemptsInvariant, TypeOK', NEW s \in Sessions,
           \/ \E r \in Runs, q \in CloseRequests : \E n \in Numbers(r) :
                 CloseBegin(s, r, n, q) \/ PublicationOpen(s, r, n, q)
           \/ CloseLock(s) \/ PublicationClose(s) \/ CloseApply(s) \/ CloseReplay(s)
    PROVE  AttemptsInvariant'
  <1>. TypeOK /\ CallsOK /\ LocksOK
    BY DEF AttemptsInvariant
  <1>1. ASSUME NEW r \in Runs, NEW q \in CloseRequests, NEW n \in Numbers(r),
               CloseBegin(s, r, n, q)
        PROVE  AttemptsInvariant'
    <2>. DEFINE c == NewCall("close", r, n, 0, q)
    <2>1. c.op = "close" /\ c.stage = "begun" /\ c.now = clock /\ c.run = r /\ c.att = n
      BY DEF NewCall
    <2>2. Begin(s, c) /\ UNCHANGED <<clock, rows, runLock, told>>
      BY <1>1 DEF CloseBegin
    <2>. HIDE DEF c
    <2>3. clock <= clock
      BY DEF TypeOK
    <2>4. CallsOK' /\ LocksOK'
      BY <2>1, <2>2, <2>3, CallsAfterBegin, LocksAfterBegin
         DEF rows, NamesAttempt
    <2>. QED
      BY <1>1, <2>4, RowsAlone DEF CloseBegin, AttemptsInvariant
  <1>2. ASSUME NEW r \in Runs, NEW q \in CloseRequests, NEW n \in Numbers(r),
               PublicationOpen(s, r, n, q)
        PROVE  AttemptsInvariant'
    <2>. DEFINE c == [op |-> "close", stage |-> "opened", run |-> r, att |-> n,
                      now |-> 0, lease |-> 0, req |-> q]
    <2>1. /\ c.op = "close" /\ c.stage = "opened" /\ c.run = r /\ c.att = n
          /\ c.now = 0 /\ 0 <= clock
      BY DEF TypeOK
    <2>2. Begin(s, c) /\ LockRun(s, r) /\ UNCHANGED <<clock, rows, told>>
      BY <1>2 DEF PublicationOpen
    <2>. HIDE DEF c
    <2>3. CallsOK'
      BY <2>1, <2>2, CallsAfterBegin DEF rows, NamesAttempt
    <2>4. call'[s] = c /\ \A t \in Sessions \ {s} : call'[t] = call[t]
      BY <2>2 DEF Begin, TypeOK
    <2>5. LocksOK'
      BY <2>1, <2>2, <2>4, LocksAfterLock DEF rows, At
    <2>. QED
      BY <2>2, <2>3, <2>5, RowsAlone DEF AttemptsInvariant
  <1>3. CASE CloseLock(s)
    <2>1. PICK r \in Runs : r = call[s].run
      BY CallType
    <2>2. /\ call'[s].run = r /\ call'[s].op = "close"
          /\ \A t \in Sessions \ {s} : call'[t] = call[t]
      BY <1>3, <2>1, CallType DEF CloseLock, At, TypeOK, Call
    <2>3. LocksOK'
      BY <1>3, <2>1, <2>2, LocksAfterLock DEF CloseLock, rows, At
    <2>4. CallsOK'
      BY <1>3, CallType DEF CloseLock, rows, CallsOK, At, TypeOK, Call, Numbers
    <2>. QED
      BY <1>3, <2>3, <2>4, RowsAlone DEF CloseLock, AttemptsInvariant
  <1>4. CASE PublicationClose(s)
    <2>1. /\ call'[s].run = call[s].run /\ call'[s].op = "close"
          /\ call'[s].att = call[s].att /\ call'[s].now = clock
          /\ \A t \in Sessions \ {s} : call'[t] = call[t]
          /\ UNCHANGED <<clock, runStatus, cancelRequestedAt, attempts, runLock, told>>
      BY <1>4, CallType DEF PublicationClose, At, TypeOK, Call, rows
    <2>2. HoldsRun(s) /\ At(s, "close", "opened")
      BY <1>4 DEF PublicationClose, HoldsRun
    <2>3. LocksOK'
      BY <2>1, <2>2 DEF LocksOK, HoldsRun, At, RunOpen, CancelRequested
    <2>4. CallsOK'
      BY <2>1, <2>2 DEF CallsOK, At, Numbers, TypeOK
    <2>. QED
      BY <2>1, <2>3, <2>4, RowsAlone DEF rows, AttemptsInvariant
  <1>5. CASE CloseApply(s)
    <2>. DEFINE c == call[s]
                e == Effective(c.run, c.req)
                a == Closed(attempts[c.run][c.att], e.status, e.reason)
    <2>1. PICK r \in Runs : r = call[s].run
      BY CallType
    <2>2. Rewrites(r, c.att, a) /\ a.status = e.status /\ a.status \in Terminal
      BY <1>5, <2>1, CloseRows
    <2>3. HoldsRun(s) /\ Finish(s) /\ UNCHANGED <<clock, cancelRequestedAt>>
      BY <1>5 DEF CloseApply, HoldsRun
    <2>4. /\ runStatus'[r] = RunAfterClose(r, c.req)
          /\ Storable(r, RunAfterClose(r, c.req))
          /\ \A q \in Runs : q # r => runStatus'[q] = runStatus[q]
          /\ told' = told \cup {<<r, c.att, e.status>>}
      BY <1>5, <2>1 DEF CloseApply, TypeOK
    <2>. HIDE DEF a
    <2>5. /\ c.att = Len(attempts[r])
          /\ attempts'[r] # <<>> /\ Latest(r)' = a
          /\ \A q \in Runs : q # r => attempts'[q] = attempts[q]
          /\ \A q \in Runs : Numbers(q)' = Numbers(q)
          /\ SingleHolder'
          /\ OnlyRetriesAreSucceeded'
          /\ \A t \in told : Outlasts(t)
      BY <2>2, RewriteKeeps
    <2>6. CallsOK'
      BY <2>3, <2>5, CallsAfterFinish
    <2>7. LocksOK'
      BY <2>1, <2>3, <2>4, OtherClaims, LocksAfterFinish
    <2>8. ToldIsStored'
      <3>1. c.att \in Numbers(r) /\ attempts'[r][c.att].status = e.status
        BY <2>2, <2>5 DEF Rewrites, Store, TypeOK, Numbers
      <3>. QED
        BY <2>4, <2>5, <3>1 DEF ToldIsStored, Outlasts
    <2>9. attempts[r] # <<>> /\ Latest(r).status = "RUNNING" /\ runStatus[r] = "RUNNING"
      BY <2>2, <2>5 DEF Rewrites, Numbers, Latest, TypeOK, AttemptsInvariant,
                        RunFollowsAttempts
    <2>10. RunFollowsAttempts'
      <3>1. runStatus'[r] = "COMPLETED" => a.status = "SUCCEEDED"
        <4>1. CASE Effective(r, c.req) = c.req /\ c.req.concludes
          BY <2>1, <2>2, <2>4, <2>9, <4>1, CallType
             DEF RunAfterClose, RunOutcome, CloseRequest, Terminal
        <4>2. CASE ~(Effective(r, c.req) = c.req /\ c.req.concludes)
          BY <2>4, <2>9, <4>2 DEF RunAfterClose
        <4>. QED
          BY <4>1, <4>2
      <3>2. a.status # "RUNNING"
        BY <2>2 DEF Terminal
      <3>. QED
        BY <2>3, <2>4, <2>5, <3>1, <3>2
           DEF AttemptsInvariant, RunFollowsAttempts, Storable, Latest, CancelRequested
    <2>. QED
      BY <2>5, <2>6, <2>7, <2>8, <2>10 DEF AttemptsInvariant
  <1>6. CASE CloseReplay(s)
    <2>. DEFINE c == call[s]
                e == Effective(c.run, c.req)
    <2>1. PICK r \in Runs : r = call[s].run
      BY CallType
    <2>2. Finish(s) /\ UNCHANGED <<clock, rows>>
      BY <1>6 DEF CloseReplay
    <2>3. CallsOK' /\ LocksOK'
      BY <2>2, CallsAfterFinish, LocksAfterRelease DEF rows, Numbers
    <2>4. SingleHolder' /\ OnlyRetriesAreSucceeded' /\ RunFollowsAttempts'
      BY <2>2 DEF AttemptsInvariant, rows, SingleHolder, RunFollowsAttempts,
                  OnlyRetriesAreSucceeded, Numbers, Latest, CancelRequested
    <2>5. c.att \in Numbers(r)
      BY <1>6, <2>1 DEF CloseReplay, At, CallsOK
    <2>6. \/ told' = told
          \/ /\ told' = told \cup {<<r, c.att, e.status>>}
             /\ attempts[r][c.att].status = e.status
      BY <1>6, <2>1 DEF CloseReplay, Replayed
    <2>7. ToldIsStored'
      BY <2>2, <2>5, <2>6 DEF AttemptsInvariant, ToldIsStored, rows, Numbers
    <2>. QED
      BY <2>3, <2>4, <2>7 DEF AttemptsInvariant
  <1>. QED
    BY <1>1, <1>2, <1>3, <1>4, <1>5, <1>6

LEMMA InitInvariant == Init => AttemptsInvariant
  <1> SUFFICES ASSUME Init PROVE AttemptsInvariant
    OBVIOUS
  <1>1. \A r \in Runs : Numbers(r) = {} /\ attempts[r] = <<>> /\ runStatus[r] = "QUEUED"
    <2>1. \A r \in Runs : attempts[r] = <<>> /\ runStatus[r] = "QUEUED"
      BY DEF Init
    <2>2. Len(<<>>) = 0 /\ 1 .. 0 = {}
      OBVIOUS
    <2>. QED
      BY <2>1, <2>2 DEF Numbers
  <1>2. \A s \in Sessions : call[s].op = "idle" /\ call[s].now <= clock
    BY DEF Init, Idle
  <1>3. CallsOK /\ LocksOK
    BY <1>2 DEF CallsOK, LocksOK, HoldsRun, At
  <1>4. SingleHolder /\ OnlyRetriesAreSucceeded /\ RunFollowsAttempts /\ ToldIsStored
    BY <1>1 DEF SingleHolder, OnlyRetriesAreSucceeded, RunFollowsAttempts,
                ToldIsStored, Init
  <1>. QED
    BY <1>3, <1>4, InitType DEF AttemptsInvariant

LEMMA StepInvariant ==
    ASSUME AttemptsInvariant, TypeOK', [Next]_vars
    PROVE  AttemptsInvariant'
  <1>. TypeOK /\ CallsOK /\ LocksOK
    BY DEF AttemptsInvariant
  <1>1. ASSUME NEW s \in Sessions, Calls(s) PROVE AttemptsInvariant'
    <2>1. CASE Abort(s)
      BY <2>1, FinishAlone DEF Abort
    <2>. QED
      BY <1>1, <2>1, ClaimKeeps, HeartbeatKeeps, CloseKeeps, RecoverKeeps DEF Calls
  <1>2. ASSUME NEW r \in Runs, RequestCancellation(r) PROVE AttemptsInvariant'
    <2>1. /\ runLock[r] = Nobody /\ runStatus[r] \notin EndedRun
          /\ cancelRequestedAt' = [cancelRequestedAt EXCEPT ![r] = clock]
          /\ clock \in Nat
          /\ UNCHANGED <<clock, runStatus, attempts, runLock, call, told>>
      BY <1>2 DEF RequestCancellation, TypeOK
    <2>2. LocksOK'
      <3>1. ASSUME NEW t \in Sessions, At(t, "claim", "locked")
            PROVE  RunOpen(call[t].run)'
        <4>1. /\ call[t].run \in Runs /\ runLock[call[t].run] = t
              /\ RunOpen(call[t].run)
          BY <3>1, CallType DEF LocksOK, HoldsRun
        <4>2. call[t].run # r
          BY <2>1, <4>1
        <4>. QED
          BY <2>1, <4>1, <4>2 DEF RunOpen, CancelRequested, TypeOK
      <3>. QED
        BY <2>1, <3>1 DEF LocksOK, HoldsRun, At
    <2>3. CallsOK' /\ SingleHolder' /\ OnlyRetriesAreSucceeded' /\ ToldIsStored'
      BY <2>1 DEF AttemptsInvariant, CallsOK, SingleHolder, Numbers,
                  OnlyRetriesAreSucceeded, ToldIsStored
    <2>4. \A q \in Runs : CancelRequested(q)' = (CancelRequested(q) \/ q = r)
      BY <2>1 DEF CancelRequested, TypeOK, Never
    <2>5. RunFollowsAttempts'
      BY <2>1, <2>4 DEF AttemptsInvariant, RunFollowsAttempts, Latest, EndedRun
    <2>. QED
      BY <2>2, <2>3, <2>5 DEF AttemptsInvariant
  <1>3. CASE Tick
    <2>1. /\ clock' = clock + 1 /\ clock \in Nat
          /\ UNCHANGED <<runStatus, cancelRequestedAt, attempts, runLock, call, told>>
      BY <1>3 DEF Tick, rows, TypeOK
    <2>2. LocksOK'
      BY <2>1 DEF LocksOK, HoldsRun, At, RunOpen, CancelRequested
    <2>3. CallsOK'
      BY <2>1, CallType DEF CallsOK, Numbers
    <2>. QED
      BY <2>1, <2>2, <2>3, RowsAlone DEF AttemptsInvariant, rows
  <1>4. CASE UNCHANGED vars
    BY <1>4 DEF vars, AttemptsInvariant, CallsOK, LocksOK, HoldsRun, At, RunOpen,
       SingleHolder, OnlyRetriesAreSucceeded, RunFollowsAttempts, ToldIsStored,
       Numbers, Latest, CancelRequested
  <1>. QED
    BY <1>1, <1>2, <1>3, <1>4 DEF Next

\* The inductive invariant holds in every reachable state.
THEOREM InvariantHolds == Spec => []AttemptsInvariant
  <1>1. AttemptsInvariant /\ TypeOK' /\ [Next]_vars => AttemptsInvariant'
    BY StepInvariant
  <1>. QED
    BY <1>1, InitInvariant, TypeCorrect, PTL DEF Spec

\* At most one attempt of a run is RUNNING, and it is the newest.
THEOREM OneHolder == Spec => []SingleHolder
  <1>1. AttemptsInvariant => SingleHolder
    BY DEF AttemptsInvariant
  <1>. QED
    BY <1>1, InvariantHolds, PTL

\* Every attempt but the newest failed for a reason that allows a retry.
THEOREM RetriesOnly == Spec => []OnlyRetriesAreSucceeded
  <1>1. AttemptsInvariant => OnlyRetriesAreSucceeded
    BY DEF AttemptsInvariant
  <1>. QED
    BY <1>1, InvariantHolds, PTL

\* The status of a run agrees with its attempts and its cancellation mark.
THEOREM RunAgrees == Spec => []RunFollowsAttempts
  <1>1. AttemptsInvariant => RunFollowsAttempts
    BY DEF AttemptsInvariant
  <1>. QED
    BY <1>1, InvariantHolds, PTL

\* The outcome a close call has reported is the outcome the row holds.
THEOREM AnswersStand == Spec => []ToldIsStored
  <1>1. AttemptsInvariant => ToldIsStored
    BY DEF AttemptsInvariant
  <1>. QED
    BY <1>1, InvariantHolds, PTL

HIDE ConstantsAssumption

-----------------------------------------------------------------------------
(***************************************************************************)
(* What a step may never do. Each action property follows from the         *)
(* inductive invariant and from how a step can change attempts.            *)
(***************************************************************************)

\* The only steps that change attempts: a grant, and the three commits that
\* rewrite one RUNNING row.
LEMMA StepRows ==
    ASSUME AttemptsInvariant, [Next]_vars
    PROVE  \/ UNCHANGED attempts
           \/ \E s \in Sessions : ClaimGrant(s)
           \/ \E s \in Sessions : CloseApply(s)
           \/ \E s \in Sessions : \E a :
                 /\ HeartbeatCommit(s)
                 /\ Rewrites(call[s].run, call[s].att, a)
                 /\ a.status = "RUNNING"
           \/ \E s \in Sessions : \E a :
                 /\ RecoverCommit(s)
                 /\ Rewrites(call[s].run, call[s].att, a)
                 /\ Expired(attempts[call[s].run][call[s].att], call[s].now)
                 /\ a.status \in {"FAILED", "CANCELLED"}
  <1>. TypeOK /\ CallsOK
    BY DEF AttemptsInvariant
  <1>1. ASSUME NEW s \in Sessions, Calls(s)
        PROVE  \/ UNCHANGED attempts \/ ClaimGrant(s) \/ CloseApply(s)
               \/ HeartbeatCommit(s) \/ RecoverCommit(s)
    BY <1>1 DEF Calls, ClaimBegin, ClaimLock, ClaimDecline, HeartbeatBegin, CloseBegin,
       PublicationOpen, CloseLock, PublicationClose, CloseReplay, RecoverBegin, Abort, rows
  <1>2. ASSUME NEW r \in Runs, RequestCancellation(r) PROVE UNCHANGED attempts
    BY <1>2 DEF RequestCancellation
  <1>3. Tick \/ UNCHANGED vars => UNCHANGED attempts
    BY DEF Tick, vars, rows
  <1>. QED
    BY <1>1, <1>2, <1>3, HeartbeatRows, RecoverRows DEF Next

LEMMA RewriteFrame ==
    ASSUME AttemptsInvariant, NEW r \in Runs, NEW n, NEW a, Rewrites(r, n, a)
    PROVE  /\ n \in Numbers(r) /\ attempts'[r][n] = a
           /\ \A q \in Runs : Numbers(q)' = Numbers(q)
           /\ \A q \in Runs : \A m \in Numbers(q) :
                 q # r \/ m # n => attempts'[q][m] = attempts[q][m]
  <1>1. TypeOK /\ n \in Numbers(r) /\ a \in Attempt /\ Store(r, n, a)
    BY DEF AttemptsInvariant, Rewrites
  <1>2. \A q \in Runs : Numbers(q)' = Numbers(q)
    BY RewriteKeeps
  <1>. QED
    BY <1>1, <1>2, StoreFacts

LEMMA GrantFrame ==
    ASSUME AttemptsInvariant, NEW s \in Sessions, ClaimGrant(s)
    PROVE  /\ \A q \in Runs : Numbers(q) \subseteq Numbers(q)'
           /\ \A q \in Runs : \A m \in Numbers(q) :
                 \/ attempts'[q][m] = attempts[q][m]
                 \/ /\ q = call[s].run
                    /\ Expired(attempts[q][m], call[s].now)
                    /\ attempts'[q][m].status = "FAILED"
  <1>1. TypeOK
    BY DEF AttemptsInvariant
  <1>2. PICK r \in Runs : r = call[s].run
    BY <1>1, CallType
  <1>3. PICK k \in Nat : k = Len(attempts[r])
    BY <1>1 DEF TypeOK
  <1>4. \A q \in Runs : Numbers(q) \subseteq Numbers(q)'
    BY <1>2, <1>3, GrantKeeps
  <1>. QED
    BY <1>1, <1>2, <1>4, GrantRows

\* A terminal attempt row is never written again.
THEOREM TerminalStays == Spec => TerminalIsFinal
  <1>1. AttemptsInvariant /\ [Next]_vars =>
          [\A r \in Runs : \A n \in Numbers(r) :
             attempts[r][n].status \in Terminal
               => n \in Numbers(r)' /\ attempts'[r][n] = attempts[r][n]]_vars
    <2> SUFFICES ASSUME AttemptsInvariant, [Next]_vars, NEW r \in Runs,
                        NEW n \in Numbers(r), attempts[r][n].status \in Terminal
                 PROVE  n \in Numbers(r)' /\ attempts'[r][n] = attempts[r][n]
      OBVIOUS
    <2>1. attempts[r][n].status # "RUNNING" /\ TypeOK
      BY DEF Terminal, AttemptsInvariant
    <2>2. CASE UNCHANGED attempts
      BY <2>2 DEF Numbers
    <2>3. ASSUME NEW s \in Sessions, ClaimGrant(s)
          PROVE  n \in Numbers(r)' /\ attempts'[r][n] = attempts[r][n]
      BY <2>1, <2>3, GrantFrame DEF Expired
    <2>4. ASSUME NEW q \in Runs, NEW m, NEW a, Rewrites(q, m, a)
          PROVE  n \in Numbers(r)' /\ attempts'[r][n] = attempts[r][n]
      BY <2>1, <2>4, RewriteFrame DEF Rewrites
    <2>5. ASSUME NEW s \in Sessions, CloseApply(s)
          PROVE  n \in Numbers(r)' /\ attempts'[r][n] = attempts[r][n]
      BY <2>1, <2>4, <2>5, CloseRows, CallType DEF AttemptsInvariant
    <2>. QED
      BY <2>1, <2>2, <2>3, <2>4, <2>5, StepRows, CallType
  <1>. QED
    BY <1>1, InvariantHolds, PTL DEF Spec, TerminalIsFinal

\* Only a close call for the attempt itself ends an unexpired lease.
THEOREM LiveStays == Spec => LiveLeaseIsRespected
  <1>1. AttemptsInvariant /\ [Next]_vars =>
          [\A r \in Runs : \A n \in Numbers(r) :
             Live(attempts[r][n], clock) /\ attempts'[r][n].status # "RUNNING"
               => \E s \in Sessions : /\ At(s, "close", "locked")
                                      /\ call[s].run = r /\ call[s].att = n
                                      /\ call'[s] = Idle]_vars
    <2> SUFFICES ASSUME AttemptsInvariant, [Next]_vars, NEW r \in Runs,
                        NEW n \in Numbers(r), Live(attempts[r][n], clock),
                        attempts'[r][n].status # "RUNNING"
                 PROVE  \E s \in Sessions : /\ At(s, "close", "locked")
                                            /\ call[s].run = r /\ call[s].att = n
                                            /\ call'[s] = Idle
      OBVIOUS
    <2>1. TypeOK /\ CallsOK /\ clock \in Nat
      BY DEF AttemptsInvariant, TypeOK
    <2>2. attempts[r][n].status = "RUNNING" /\ attempts[r][n] \in Attempt
      BY <2>1, RowType DEF Live
    <2>3. ASSUME NEW s \in Sessions, Expired(attempts[r][n], call[s].now)
          PROVE  FALSE
      <3>1. call[s].now \in Nat /\ call[s].now <= clock
        BY <2>1, CallType DEF CallsOK
      <3>2. attempts[r][n].expires \in Nat
        BY <2>2 DEF Attempt
      <3>. QED
        BY <2>1, <2>3, <3>1, <3>2 DEF Expired, Live
    <2>4. attempts' # attempts
      BY <2>2
    <2>5. ASSUME NEW s \in Sessions, ClaimGrant(s) PROVE FALSE
      BY <2>2, <2>3, <2>5, GrantFrame
    <2>6. ASSUME NEW s \in Sessions, NEW a, a.status = "RUNNING",
                 Rewrites(call[s].run, call[s].att, a)
          PROVE  FALSE
      BY <2>1, <2>2, <2>6, CallType, RewriteFrame
    <2>7. ASSUME NEW s \in Sessions, NEW a, Rewrites(call[s].run, call[s].att, a),
                 Expired(attempts[call[s].run][call[s].att], call[s].now)
          PROVE  FALSE
      BY <2>1, <2>2, <2>3, <2>7, CallType, RewriteFrame
    <2>8. PICK s \in Sessions : CloseApply(s)
      BY <2>4, <2>5, <2>6, <2>7, StepRows
    <2>9. call[s].run = r /\ call[s].att = n
      BY <2>1, <2>2, <2>8, CloseRows, CallType, RewriteFrame
    <2>10. At(s, "close", "locked") /\ call'[s] = Idle
      BY <2>1, <2>8 DEF CloseApply, Finish, TypeOK
    <2>. QED
      BY <2>9, <2>10
  <1>. QED
    BY <1>1, InvariantHolds, PTL DEF Spec, LiveLeaseIsRespected

\* No attempt becomes SUCCEEDED once the run's cancellation is requested.
THEOREM CancellationWins == Spec => NoSuccessAfterCancellation
  <1>1. AttemptsInvariant /\ [Next]_vars =>
          [\A r \in Runs : \A n \in Numbers(r) :
             CancelRequested(r) /\ attempts[r][n].status # "SUCCEEDED"
               => attempts'[r][n].status # "SUCCEEDED"]_vars
    <2> SUFFICES ASSUME AttemptsInvariant, [Next]_vars, NEW r \in Runs,
                        NEW n \in Numbers(r), CancelRequested(r),
                        attempts[r][n].status # "SUCCEEDED"
                 PROVE  attempts'[r][n].status # "SUCCEEDED"
      OBVIOUS
    <2>1. TypeOK /\ CallsOK
      BY DEF AttemptsInvariant
    <2>2. ASSUME NEW s \in Sessions, ClaimGrant(s)
          PROVE  attempts'[r][n].status # "SUCCEEDED"
      BY <2>2, GrantFrame
    <2>3. ASSUME NEW s \in Sessions, NEW a, Rewrites(call[s].run, call[s].att, a),
                 a.status # "SUCCEEDED" \/ call[s].run # r
          PROVE  attempts'[r][n].status # "SUCCEEDED"
      BY <2>1, <2>3, CallType, RewriteFrame
    <2>4. ASSUME NEW s \in Sessions, CloseApply(s), call[s].run = r
          PROVE  Effective(r, call[s].req).status # "SUCCEEDED"
      BY <2>1, CallType DEF Effective, CloseRequest
    <2>5. ASSUME NEW s \in Sessions, CloseApply(s)
          PROVE  attempts'[r][n].status # "SUCCEEDED"
      BY <2>1, <2>3, <2>4, <2>5, CloseRows
    <2>. QED
      BY <2>2, <2>3, <2>5, StepRows
  <1>. QED
    BY <1>1, InvariantHolds, PTL DEF Spec, NoSuccessAfterCancellation

\* A commit writes only to a run that is not ended.
LEMMA WritesOpenRun ==
    ASSUME AttemptsInvariant, NEW r \in Runs, NEW n, NEW a, Rewrites(r, n, a)
    PROVE  runStatus[r] = "RUNNING"
  <1>1. /\ n = Len(attempts[r]) /\ n \in Numbers(r) /\ attempts[r] \in Seq(Attempt)
        /\ attempts[r][n].status = "RUNNING"
    BY RewriteKeeps DEF Rewrites, AttemptsInvariant, TypeOK
  <1>2. attempts[r] # <<>> /\ Latest(r).status = "RUNNING"
    BY <1>1 DEF Latest, Numbers
  <1>. QED
    BY <1>2 DEF AttemptsInvariant, RunFollowsAttempts

\* Nothing about a run changes once it has ended.
THEOREM EndedStays == Spec => EndedRunIsLeftAlone
  <1>1. AttemptsInvariant /\ [Next]_vars =>
          [\A r \in Runs : runStatus[r] \in EndedRun
             => /\ runStatus'[r] = runStatus[r]
                /\ attempts'[r] = attempts[r]
                /\ cancelRequestedAt'[r] = cancelRequestedAt[r]]_vars
    <2> SUFFICES ASSUME AttemptsInvariant, [Next]_vars, NEW r \in Runs,
                        runStatus[r] \in EndedRun
                 PROVE  /\ runStatus'[r] = runStatus[r]
                        /\ attempts'[r] = attempts[r]
                        /\ cancelRequestedAt'[r] = cancelRequestedAt[r]
      OBVIOUS
    <2>1. TypeOK /\ CallsOK /\ LocksOK /\ runStatus[r] # "RUNNING"
      BY DEF AttemptsInvariant, EndedRun
    <2>2. ASSUME NEW s \in Sessions, ClaimGrant(s)
          PROVE  call[s].run # r
      BY <2>2 DEF ClaimGrant, AttemptsInvariant, LocksOK, RunOpen
    <2>3. ASSUME NEW s \in Sessions, NEW a, Rewrites(call[s].run, call[s].att, a)
          PROVE  call[s].run # r /\ attempts'[r] = attempts[r]
      <3>1. call[s].run \in Runs
        BY <2>1, CallType
      <3>. QED
        BY <2>1, <2>3, <3>1, WritesOpenRun, RewriteKeeps
    <2>4. attempts'[r] = attempts[r]
      <3>1. ASSUME NEW s \in Sessions, ClaimGrant(s)
            PROVE  attempts'[r] = attempts[r]
        BY <2>1, <2>2, <3>1, CallType, GrantRows
      <3>. QED
        BY <2>1, <2>3, <3>1, StepRows, CloseRows
    <2>5. runStatus'[r] = runStatus[r]
      <3>1. ASSUME NEW s \in Sessions, ClaimGrant(s)
            PROVE  runStatus'[r] = runStatus[r]
        BY <2>1, <2>2, <3>1 DEF ClaimGrant, TypeOK
      <3>2. ASSUME NEW s \in Sessions, CloseApply(s)
            PROVE  runStatus'[r] = runStatus[r]
        <4>1. call[s].run # r
          BY <2>1, <2>3, <3>2, CloseRows
        <4>. QED
          BY <2>1, <3>2, <4>1 DEF CloseApply, TypeOK
      <3>3. ASSUME NEW s \in Sessions, Calls(s)
            PROVE  UNCHANGED runStatus \/ ClaimGrant(s) \/ CloseApply(s)
        BY <3>3 DEF Calls, ClaimBegin, ClaimLock, ClaimDecline, HeartbeatBegin,
           HeartbeatCommit, CloseBegin, PublicationOpen, CloseLock, PublicationClose,
           CloseReplay, RecoverBegin, RecoverCommit, Abort, rows
      <3>. QED
        BY <3>1, <3>2, <3>3 DEF Next, RequestCancellation, Tick, vars, rows
    <2>6. cancelRequestedAt'[r] = cancelRequestedAt[r]
      <3>1. ASSUME NEW s \in Sessions, Calls(s)
            PROVE  UNCHANGED cancelRequestedAt
        BY <3>1 DEF Calls, ClaimBegin, ClaimLock, ClaimGrant, ClaimDecline,
           HeartbeatBegin, HeartbeatCommit, CloseBegin, PublicationOpen, CloseLock,
           PublicationClose, CloseApply, CloseReplay, RecoverBegin, RecoverCommit,
           Abort, rows
      <3>. QED
        BY <2>1, <3>1 DEF Next, RequestCancellation, Tick, vars, rows, TypeOK
    <2>. QED
      BY <2>4, <2>5, <2>6
  <1>. QED
    BY <1>1, InvariantHolds, PTL DEF Spec, EndedRunIsLeftAlone

-----------------------------------------------------------------------------
(***************************************************************************)
(* BacktestAttempts implements AttemptLedger: every commit is a ledger     *)
(* step or leaves the ledger as it was.                                    *)
(***************************************************************************)

\* The refinement mapping, one run at a time
EntriesOf(r) == [n \in Numbers(r) |-> Entry(attempts[r][n])]
DeadlineOf(r) == IF attempts[r] = <<>> THEN 0 ELSE Latest(r).expires

entriesBar == [r \in Runs |-> EntriesOf(r)]
deadlineBar == [r \in Runs |-> DeadlineOf(r)]
cancelledBar == [r \in Runs |-> CancelRequested(r)]

-----------------------------------------------------------------------------
(* Facts about the mapping *)

LEMMA EntriesAre ==
    ASSUME TypeOK, NEW r \in Runs
    PROVE  /\ EntriesOf(r) \in Seq(Ledger!EntryKind)
           /\ Len(EntriesOf(r)) = Len(attempts[r])
           /\ \A n \in Numbers(r) : EntriesOf(r)[n] = Entry(attempts[r][n])
           /\ attempts[r] \in Seq(Attempt) /\ Len(attempts[r]) \in Nat
           /\ (EntriesOf(r) # <<>>) = (attempts[r] # <<>>)
  <1>1. attempts[r] \in Seq(Attempt) /\ Len(attempts[r]) \in Nat
    BY DEF TypeOK
  <1>2. \A n \in Numbers(r) : Entry(attempts[r][n]) \in Ledger!EntryKind
    BY DEF Entry, Ledger!EntryKind, Ledger!Decided, Ledger!Open
  <1>3. EntriesOf(r) \in [1 .. Len(attempts[r]) -> Ledger!EntryKind]
    BY <1>2 DEF EntriesOf, Numbers
  <1>4. EntriesOf(r) \in Seq(Ledger!EntryKind)
    BY <1>1, <1>3, SeqDef
  <1>5. Len(EntriesOf(r)) = Len(attempts[r])
    BY <1>1, <1>3, <1>4
  <1>6. \A n \in Numbers(r) : EntriesOf(r)[n] = Entry(attempts[r][n])
    BY DEF EntriesOf
  <1>7. (EntriesOf(r) # <<>>) = (attempts[r] # <<>>)
    BY <1>1, <1>4, <1>5, EmptySeq
  <1>. QED
    BY <1>1, <1>4, <1>5, <1>6, <1>7

\* The mapping of the next state, which is well typed too
LEMMA EntriesAreNext ==
    ASSUME TypeOK', NEW r \in Runs
    PROVE  /\ EntriesOf(r)' \in Seq(Ledger!EntryKind)
           /\ Len(EntriesOf(r)') = Len(attempts'[r])
           /\ \A n \in 1 .. Len(attempts'[r]) :
                 EntriesOf(r)'[n] = Entry(attempts'[r][n])
           /\ attempts'[r] \in Seq(Attempt) /\ Len(attempts'[r]) \in Nat
  <1>1. attempts'[r] \in Seq(Attempt) /\ Len(attempts'[r]) \in Nat
    BY DEF TypeOK
  <1>2. EntriesOf(r)' = [n \in 1 .. Len(attempts'[r]) |-> Entry(attempts'[r][n])]
    BY DEF EntriesOf, Numbers, Entry
  <1>3. \A n \in 1 .. Len(attempts'[r]) :
           Entry(attempts'[r][n]) \in Ledger!EntryKind
    BY DEF Entry, Ledger!EntryKind, Ledger!Decided, Ledger!Open
  <1>4. EntriesOf(r)' \in [1 .. Len(attempts'[r]) -> Ledger!EntryKind]
    BY <1>2, <1>3
  <1>5. EntriesOf(r)' \in Seq(Ledger!EntryKind)
    BY <1>1, <1>4, SeqDef
  <1>6. Len(EntriesOf(r)') = Len(attempts'[r])
    BY <1>1, <1>4, <1>5
  <1>. QED
    BY <1>1, <1>2, <1>5, <1>6

\* Runs whose attempts did not change keep their ledger.
LEMMA OtherRuns ==
    ASSUME NEW q \in Runs, attempts'[q] = attempts[q]
    PROVE  EntriesOf(q)' = EntriesOf(q) /\ DeadlineOf(q)' = DeadlineOf(q)
  BY DEF EntriesOf, DeadlineOf, Numbers, Latest, Entry

LEMMA DeadlineIsNat ==
    ASSUME TypeOK, NEW r \in Runs
    PROVE  DeadlineOf(r) \in Nat
  <1>1. attempts[r] # <<>> => Latest(r) \in Attempt
    BY DEF TypeOK, Latest
  <1>. QED
    BY <1>1 DEF DeadlineOf, Attempt

LEMMA NewDeadlineHolds ==
    ASSUME TypeOK, TypeOK', NEW r \in Runs,
           \A q \in Runs : q # r => attempts'[q] = attempts[q]
    PROVE  /\ deadlineBar'[r] \in Nat
           /\ deadlineBar' = [deadlineBar EXCEPT ![r] = deadlineBar'[r]]
  <1>1. deadlineBar' = [q \in Runs |-> DeadlineOf(q)']
    BY DEF deadlineBar
  <1>2. attempts'[r] # <<>> => Latest(r)' \in Attempt
    BY DEF TypeOK, Latest
  <1>3. DeadlineOf(r)' \in Nat
    BY <1>2 DEF DeadlineOf, Attempt
  <1>4. \A q \in Runs : q # r => DeadlineOf(q)' = DeadlineOf(q)
    BY OtherRuns
  <1>. QED
    BY <1>1, <1>3, <1>4 DEF deadlineBar

-----------------------------------------------------------------------------
(* The ledger's actions in terms of the mapping *)

NewDeadlineBar(r) ==
    /\ deadlineBar'[r] \in Nat
    /\ deadlineBar' = [deadlineBar EXCEPT ![r] = deadlineBar'[r]]

HeldBar(r) == entriesBar[r] # <<>> /\ entriesBar[r][Len(entriesBar[r])] = "held"

LEMMA GrantIs ==
    ASSUME NEW r \in Runs,
           ~cancelledBar[r],
           entriesBar[r] # <<>> => entriesBar[r][Len(entriesBar[r])] = "retry",
           entriesBar' = [entriesBar EXCEPT ![r] = Append(@, "held")],
           NewDeadlineBar(r), clock' = clock, cancelledBar' = cancelledBar
    PROVE  Ledger!Grant(r)
  BY Zenon DEF Ledger!Grant, Ledger!Last, Ledger!Open, Ledger!NewDeadline,
     NewDeadlineBar, entriesBar, deadlineBar, cancelledBar, EntriesOf, DeadlineOf

LEMMA TakeOverIs ==
    ASSUME NEW r \in Runs,
           ~cancelledBar[r], HeldBar(r), deadlineBar[r] <= clock,
           entriesBar' = [entriesBar EXCEPT
              ![r] = Append([entriesBar[r] EXCEPT ![Len(entriesBar[r])] = "retry"],
                            "held")],
           NewDeadlineBar(r), clock' = clock, cancelledBar' = cancelledBar
    PROVE  Ledger!TakeOver(r)
  BY Zenon DEF Ledger!TakeOver, Ledger!Held, Ledger!Last, Ledger!Open, Ledger!Settled,
     Ledger!NewDeadline, HeldBar,
     NewDeadlineBar, entriesBar, deadlineBar, cancelledBar, EntriesOf, DeadlineOf

LEMMA RenewIs ==
    ASSUME NEW r \in Runs, HeldBar(r), NewDeadlineBar(r), clock' = clock,
           entriesBar' = entriesBar, cancelledBar' = cancelledBar
    PROVE  Ledger!Renew(r)
  BY Zenon DEF Ledger!Renew, Ledger!Held, Ledger!Last, Ledger!NewDeadline, HeldBar,
     NewDeadlineBar, entriesBar, deadlineBar, cancelledBar, EntriesOf, DeadlineOf

LEMMA SettleIs ==
    ASSUME NEW r \in Runs, NEW kind, HeldBar(r),
           kind = "succeeded" => ~cancelledBar[r],
           entriesBar' = [entriesBar EXCEPT
              ![r] = [entriesBar[r] EXCEPT ![Len(entriesBar[r])] = kind]],
           clock' = clock, deadlineBar' = deadlineBar, cancelledBar' = cancelledBar
    PROVE  Ledger!Settle(r, kind)
  BY Zenon DEF Ledger!Settle, Ledger!Held, Ledger!Last, Ledger!Settled, HeldBar,
     entriesBar, deadlineBar, cancelledBar, EntriesOf, DeadlineOf

LEMMA CancelIs ==
    ASSUME NEW r \in Runs, cancelledBar' = [cancelledBar EXCEPT ![r] = TRUE],
           clock' = clock, entriesBar' = entriesBar, deadlineBar' = deadlineBar
    PROVE  Ledger!Cancel(r)
  BY Zenon DEF Ledger!Cancel, entriesBar, deadlineBar, cancelledBar, EntriesOf, DeadlineOf

LEMMA AdvanceIs ==
    ASSUME clock' = clock + 1, entriesBar' = entriesBar,
           deadlineBar' = deadlineBar, cancelledBar' = cancelledBar
    PROVE  Ledger!Advance
  BY Zenon DEF Ledger!Advance, entriesBar, deadlineBar, cancelledBar, EntriesOf, DeadlineOf

LEMMA StutterIs ==
    ASSUME clock' = clock, entriesBar' = entriesBar,
           deadlineBar' = deadlineBar, cancelledBar' = cancelledBar
    PROVE  UNCHANGED Ledger!ledgerVars
  BY Zenon DEF Ledger!ledgerVars, entriesBar, deadlineBar, cancelledBar, EntriesOf, DeadlineOf

-----------------------------------------------------------------------------
(* How the mapping moves *)

\* Only run r of the mapped ledger moves, to the entries e.
LEMMA BarMoves ==
    ASSUME NEW r \in Runs, NEW e, EntriesOf(r)' = e,
           \A q \in Runs : q # r => attempts'[q] = attempts[q]
    PROVE  entriesBar' = [entriesBar EXCEPT ![r] = e]
  <1>1. \A q \in Runs : q # r => EntriesOf(q)' = EntriesOf(q)
    BY OtherRuns
  <1>2. entriesBar' = [q \in Runs |-> EntriesOf(q)']
    BY DEF entriesBar
  <1>. QED
    BY <1>1, <1>2 DEF entriesBar

LEMMA BarAt ==
    ASSUME NEW r \in Runs
    PROVE  /\ entriesBar[r] = EntriesOf(r)
           /\ deadlineBar[r] = DeadlineOf(r)
           /\ cancelledBar[r] = CancelRequested(r)
  BY DEF entriesBar, deadlineBar, cancelledBar

LEMMA CancelledAlone ==
    ASSUME cancelRequestedAt' = cancelRequestedAt
    PROVE  cancelledBar' = cancelledBar
  BY DEF cancelledBar, CancelRequested

LEMMA RowsUnmoved ==
    ASSUME attempts' = attempts
    PROVE  entriesBar' = entriesBar /\ deadlineBar' = deadlineBar
  BY DEF entriesBar, deadlineBar, EntriesOf, DeadlineOf, Numbers, Latest, Entry

\* A rewritten row was the held entry of its run, and becomes Entry(a).
LEMMA RewriteBar ==
    ASSUME AttemptsInvariant, TypeOK', NEW r \in Runs, NEW n, NEW a,
           Rewrites(r, n, a)
    PROVE  /\ HeldBar(r)
           /\ entriesBar' = [entriesBar EXCEPT
                ![r] = [entriesBar[r] EXCEPT ![Len(entriesBar[r])] = Entry(a)]]
           /\ attempts[r] # <<>> /\ Latest(r) = attempts[r][n]
           /\ attempts'[r] # <<>> /\ Latest(r)' = a
           /\ \A q \in Runs : q # r => attempts'[q] = attempts[q]
  <1>. TypeOK
    BY DEF AttemptsInvariant
  <1>1. /\ n \in Numbers(r) /\ n = Len(attempts[r])
        /\ attempts[r][n].status = "RUNNING"
        /\ attempts'[r] # <<>> /\ Latest(r)' = a
        /\ \A q \in Runs : q # r => attempts'[q] = attempts[q]
    BY RewriteKeeps DEF Rewrites
  <1>2. /\ attempts'[r][n] = a
        /\ \A m \in Numbers(r) : m # n => attempts'[r][m] = attempts[r][m]
        /\ Len(attempts'[r]) = Len(attempts[r])
    BY StoreFacts DEF Rewrites
  <1>3. attempts[r] # <<>> /\ Latest(r) = attempts[r][n]
    BY <1>1, EntriesAre DEF Latest, Numbers
  <1>4. HeldBar(r)
    <2>1. Entry(attempts[r][n]) = "held"
      BY <1>1 DEF Entry
    <2>. QED
      BY <1>1, <1>3, <2>1, EntriesAre, BarAt DEF HeldBar
  <1>5. EntriesOf(r)' = [EntriesOf(r) EXCEPT ![Len(EntriesOf(r))] = Entry(a)]
    <2>1. EntriesOf(r)' = [m \in Numbers(r) |-> Entry(attempts'[r][m])]
      BY <1>2 DEF EntriesOf, Numbers, Entry
    <2>2. Len(EntriesOf(r)) = n
      BY <1>1, EntriesAre
    <2>. QED
      BY <1>1, <1>2, <2>1, <2>2 DEF EntriesOf
  <1>6. entriesBar' = [entriesBar EXCEPT
          ![r] = [EntriesOf(r) EXCEPT ![Len(EntriesOf(r))] = Entry(a)]]
    BY <1>1, <1>5, BarMoves
  <1>. QED
    BY <1>1, <1>3, <1>4, <1>6, BarAt

\* A renewal
LEMMA HeartbeatIsStep ==
    ASSUME AttemptsInvariant, TypeOK', NEW s \in Sessions, HeartbeatCommit(s)
    PROVE  (\E r \in Runs : Ledger!Renew(r)) \/ UNCHANGED Ledger!ledgerVars
  <1>. TypeOK /\ CallsOK
    BY DEF AttemptsInvariant
  <1>1. PICK r \in Runs : r = call[s].run
    BY CallType
  <1>2. clock' = clock /\ cancelledBar' = cancelledBar
    BY CancelledAlone DEF HeartbeatCommit
  <1>3. CASE UNCHANGED attempts
    BY <1>2, <1>3, RowsUnmoved, StutterIs
  <1>4. ASSUME NEW a, Rewrites(r, call[s].att, a), a.status = "RUNNING"
        PROVE  Ledger!Renew(r)
    <2>1. /\ HeldBar(r)
          /\ entriesBar' = [entriesBar EXCEPT
               ![r] = [entriesBar[r] EXCEPT ![Len(entriesBar[r])] = Entry(a)]]
          /\ \A q \in Runs : q # r => attempts'[q] = attempts[q]
      BY <1>4, RewriteBar
    <2>2. Entry(a) = "held" /\ entriesBar[r][Len(entriesBar[r])] = "held"
      BY <1>4, <2>1 DEF Entry, HeldBar
    <2>3. entriesBar' = entriesBar
      <3>1. [entriesBar[r] EXCEPT ![Len(entriesBar[r])] = "held"] = entriesBar[r]
        BY <2>2, EntriesAre, BarAt DEF EntriesOf
      <3>. QED
        BY <2>1, <2>2, <3>1 DEF entriesBar
    <2>4. NewDeadlineBar(r)
      BY <2>1, NewDeadlineHolds DEF NewDeadlineBar
    <2>. QED
      BY <1>2, <2>1, <2>3, <2>4, RenewIs
  <1>5. \/ UNCHANGED attempts
        \/ \E a : Rewrites(r, call[s].att, a) /\ a.status = "RUNNING"
    BY <1>1, HeartbeatRows
  <1>. QED
    BY <1>3, <1>4, <1>5

\* A close or a recovery: the deadline stays, the held entry gets its outcome.
LEMMA SettlesRun ==
    ASSUME AttemptsInvariant, TypeOK', NEW r \in Runs, NEW n, NEW a,
           Rewrites(r, n, a), a.status \in Terminal,
           a.expires = attempts[r][n].expires,
           a.status = "SUCCEEDED" => ~CancelRequested(r),
           UNCHANGED <<clock, cancelRequestedAt>>
    PROVE  \E kind \in {Ledger!Open} \cup Ledger!Decided : Ledger!Settle(r, kind)
  <1>1. /\ HeldBar(r)
        /\ entriesBar' = [entriesBar EXCEPT
             ![r] = [entriesBar[r] EXCEPT ![Len(entriesBar[r])] = Entry(a)]]
        /\ attempts[r] # <<>> /\ Latest(r) = attempts[r][n]
        /\ attempts'[r] # <<>> /\ Latest(r)' = a
        /\ \A q \in Runs : q # r => attempts'[q] = attempts[q]
    BY RewriteBar
  <1>2. Entry(a) \in {Ledger!Open} \cup Ledger!Decided
    BY DEF Entry, Ledger!Open, Ledger!Decided, Terminal
  <1>3. Entry(a) = "succeeded" => ~cancelledBar[r]
    BY BarAt DEF Entry
  <1>4. deadlineBar' = deadlineBar
    <2>1. DeadlineOf(r)' = DeadlineOf(r)
      BY <1>1 DEF DeadlineOf
    <2>2. \A q \in Runs : DeadlineOf(q)' = DeadlineOf(q)
      BY <1>1, <2>1, OtherRuns
    <2>. QED
      BY <2>2 DEF deadlineBar
  <1>5. Ledger!Settle(r, Entry(a))
    BY <1>1, <1>3, <1>4, CancelledAlone, SettleIs
  <1>. QED
    BY <1>2, <1>5

LEMMA CloseIsStep ==
    ASSUME AttemptsInvariant, TypeOK', NEW s \in Sessions, CloseApply(s)
    PROVE  \E r \in Runs : \E kind \in {Ledger!Open} \cup Ledger!Decided :
              Ledger!Settle(r, kind)
  <1>. DEFINE c == call[s]
              e == Effective(c.run, c.req)
              a == Closed(attempts[c.run][c.att], e.status, e.reason)
  <1>1. TypeOK /\ CallsOK
    BY DEF AttemptsInvariant
  <1>2. PICK r \in Runs : r = call[s].run
    BY <1>1, CallType
  <1>3. Rewrites(r, c.att, a) /\ a.status = e.status /\ a.status \in Terminal
    BY <1>1, <1>2, CloseRows
  <1>4. a.expires = attempts[r][c.att].expires
    BY <1>2 DEF Closed
  <1>5. e.status = "SUCCEEDED" => ~CancelRequested(r)
    BY <1>1, <1>2, CallType DEF Effective, CloseRequest
  <1>6. UNCHANGED <<clock, cancelRequestedAt>>
    BY DEF CloseApply
  <1>. QED
    BY <1>3, <1>4, <1>5, <1>6, SettlesRun

LEMMA RecoverIsStep ==
    ASSUME AttemptsInvariant, TypeOK', NEW s \in Sessions, RecoverCommit(s)
    PROVE  \/ \E r \in Runs : \E kind \in {Ledger!Open} \cup Ledger!Decided :
                Ledger!Settle(r, kind)
           \/ UNCHANGED Ledger!ledgerVars
  <1>. DEFINE c == call[s]
              a == Closed(attempts[c.run][c.att], c.req.status, c.req.reason)
  <1>1. TypeOK /\ CallsOK
    BY DEF AttemptsInvariant
  <1>2. PICK r \in Runs : r = call[s].run
    BY <1>1, CallType
  <1>3. UNCHANGED <<clock, cancelRequestedAt>>
    BY DEF RecoverCommit
  <1>4. CASE UNCHANGED attempts
    BY <1>3, <1>4, CancelledAlone, RowsUnmoved, StutterIs
  <1>5. CASE Recoverable(attempts[r][c.att], c.now) /\ Store(r, c.att, a)
    <2>1. c.att \in Numbers(r) /\ c.req.status \in {"FAILED", "CANCELLED"}
      BY <1>1, <1>2 DEF RecoverCommit, At, CallsOK
    <2>2. c.req.reason \in Reason /\ c.req.status \in Terminal
      BY <1>1, <2>1, CallType DEF CloseRequest, Terminal
    <2>3. /\ a \in Attempt /\ a.status = c.req.status
          /\ a.expires = attempts[r][c.att].expires
      BY <1>1, <1>2, <2>1, <2>2, RowType, ClosedType DEF Closed
    <2>4. Rewrites(r, c.att, a)
      BY <1>5, <2>1, <2>3 DEF Rewrites, Recoverable, Expired
    <2>. HIDE DEF a
    <2>. QED
      BY <1>3, <2>1, <2>2, <2>3, <2>4, SettlesRun
  <1>. QED
    BY <1>2, <1>4, <1>5 DEF RecoverCommit

\* A claim grants a free run, or takes over one whose deadline has passed.
LEMMA GrantIsStep ==
    ASSUME AttemptsInvariant, TypeOK', NEW s \in Sessions, ClaimGrant(s)
    PROVE  \E r \in Runs : Ledger!Grant(r) \/ Ledger!TakeOver(r)
  <1>1. TypeOK /\ CallsOK /\ LocksOK /\ clock \in Nat
    BY DEF AttemptsInvariant, TypeOK
  <1>2. PICK r \in Runs : r = call[s].run
    BY <1>1, CallType
  <1>3. PICK k \in Nat : k = Len(attempts[r])
    BY <1>1 DEF TypeOK
  <1>4. /\ Len(attempts'[r]) = k + 1
        /\ attempts'[r][k + 1].status = "RUNNING"
        /\ \A n \in Numbers(r) :
              \/ attempts'[r][n] = attempts[r][n]
              \/ /\ n = k
                 /\ Expired(attempts[r][n], call[s].now)
                 /\ attempts'[r][n].status = "FAILED"
                 /\ attempts'[r][n].reason = "LEASE_EXPIRED"
        /\ \A q \in Runs : q # r => attempts'[q] = attempts[q]
    BY <1>1, <1>2, <1>3, GrantRows
  <1>5. ~cancelledBar[r] /\ cancelledBar' = cancelledBar /\ clock' = clock
    BY <1>1, <1>2, BarAt, CancelledAlone DEF ClaimGrant, LocksOK, RunOpen
  <1>6. NewDeadlineBar(r)
    BY <1>1, <1>4, NewDeadlineHolds DEF NewDeadlineBar
  <1>7. EntriesOf(r)' \in Seq(Ledger!EntryKind) /\ Len(EntriesOf(r)') = k + 1
        /\ \A n \in 1 .. k + 1 : EntriesOf(r)'[n] = Entry(attempts'[r][n])
    BY <1>4, EntriesAreNext
  <1>8. /\ EntriesOf(r) \in Seq(Ledger!EntryKind) /\ Len(EntriesOf(r)) = k
        /\ \A n \in 1 .. k : EntriesOf(r)[n] = Entry(attempts[r][n])
        /\ (EntriesOf(r) # <<>>) = (attempts[r] # <<>>)
        /\ attempts[r] \in Seq(Attempt)
    BY <1>1, <1>3, EntriesAre DEF Numbers
  <1>9. EntriesOf(r)'[k + 1] = "held" /\ "held" \in Ledger!EntryKind
    BY <1>4, <1>7 DEF Entry, Ledger!EntryKind
  <1>10. Claimable(r, call[s].now)
    BY <1>2 DEF ClaimGrant
  <1>11. CASE attempts[r] # <<>> /\ Expired(Latest(r), call[s].now)
    <2>. DEFINE e == [EntriesOf(r) EXCEPT ![k] = "retry"]
    <2>1. k \in 1 .. k /\ Latest(r) = attempts[r][k] /\ attempts[r][k] \in Attempt
      BY <1>3, <1>8, <1>11 DEF Latest
    <2>2. attempts'[r][k].status = "FAILED" /\ attempts'[r][k].reason = "LEASE_EXPIRED"
      BY <1>1, <1>2, <1>3, <1>4, <1>11, <2>1, GrantRows DEF Expired, Numbers
    <2>3. e \in Seq(Ledger!EntryKind) /\ Len(e) = k /\ e[k] = "retry"
          /\ \A n \in 1 .. k : n # k => e[n] = EntriesOf(r)[n]
      BY <1>8, <2>1 DEF Ledger!EntryKind, Ledger!Open
    <2>4. \A n \in 1 .. k : EntriesOf(r)'[n] = e[n]
      BY <1>3, <1>4, <1>7, <1>8, <2>1, <2>2, <2>3 DEF Entry, Numbers, RetryReason
    <2>5. EntriesOf(r)' = Append(e, "held")
      BY <1>7, <1>9, <2>3, <2>4, AppendProperties, SeqEqual
    <2>6. entriesBar' = [entriesBar EXCEPT ![r] = Append(e, "held")]
      BY <1>4, <2>5, BarMoves
    <2>7. HeldBar(r)
      BY <1>8, <1>11, <2>1, BarAt DEF HeldBar, Entry, Expired
    <2>8. deadlineBar[r] <= clock
      <3>1. call[s].now \in Nat /\ call[s].now <= clock
        BY <1>1, CallType DEF CallsOK
      <3>. QED
        BY <1>1, <1>11, <2>1, <3>1, BarAt DEF DeadlineOf, Expired, Attempt
    <2>9. Ledger!TakeOver(r)
      BY <1>5, <1>6, <1>8, <2>6, <2>7, <2>8, BarAt, TakeOverIs
    <2>. QED
      BY <2>9
  <1>12. CASE ~(attempts[r] # <<>> /\ Expired(Latest(r), call[s].now))
    <2>1. attempts[r] # <<>> =>
            /\ k \in 1 .. k /\ Latest(r) = attempts[r][k]
            /\ attempts[r][k].status = "FAILED" /\ attempts[r][k].reason \in RetryReason
      BY <1>3, <1>8, <1>10, <1>12 DEF Claimable, Latest
    <2>2. attempts[r] # <<>> => ~Expired(attempts[r][k], call[s].now)
      BY <1>12, <2>1
    <2>3. \A n \in 1 .. k : attempts[r] # <<>>
      BY <1>3, <1>8
    <2>4. \A n \in 1 .. k : attempts'[r][n] = attempts[r][n]
      BY <1>3, <1>4, <2>2, <2>3 DEF Numbers
    <2>5. \A n \in 1 .. k : EntriesOf(r)'[n] = EntriesOf(r)[n]
      BY <1>7, <1>8, <2>4
    <2>6. EntriesOf(r)' = Append(EntriesOf(r), "held")
      BY <1>7, <1>8, <1>9, <2>5, AppendProperties, SeqEqual
    <2>7. entriesBar' = [entriesBar EXCEPT ![r] = Append(EntriesOf(r), "held")]
      BY <1>4, <2>6, BarMoves
    <2>8. entriesBar[r] # <<>> => entriesBar[r][Len(entriesBar[r])] = "retry"
      BY <1>8, <2>1, BarAt DEF Entry
    <2>9. Ledger!Grant(r)
      BY <1>5, <1>6, <2>7, <2>8, BarAt, GrantIs
    <2>. QED
      BY <2>9
  <1>. QED
    BY <1>11, <1>12

-----------------------------------------------------------------------------
(* The refinement *)

LEMMA InitMaps == Init => Ledger!Init
  <1> SUFFICES ASSUME Init PROVE Ledger!Init
    OBVIOUS
  <1>1. TypeOK
    BY InitType
  <1>2. \A r \in Runs : EntriesOf(r) = <<>> /\ DeadlineOf(r) = 0
    BY <1>1, EntriesAre DEF Init, DeadlineOf
  <1>3. /\ entriesBar = [r \in Runs |-> <<>>]
        /\ deadlineBar = [r \in Runs |-> 0]
        /\ cancelledBar = [r \in Runs |-> FALSE]
    <2>1. \A r \in Runs : CancelRequested(r) = FALSE
      BY DEF Init, CancelRequested
    <2>2. cancelledBar = [r \in Runs |-> FALSE]
      BY <2>1, Zenon DEF cancelledBar
    <2>. QED
      BY <1>2, <2>2 DEF entriesBar, deadlineBar
  <1>4. clock = 0
    BY DEF Init
  <1>. QED
    BY <1>3, <1>4, Zenon DEF Ledger!Init, entriesBar, deadlineBar, cancelledBar,
       EntriesOf, DeadlineOf

LEMMA StepMaps ==
    ASSUME AttemptsInvariant, TypeOK', [Next]_vars
    PROVE  Ledger!Next \/ UNCHANGED Ledger!ledgerVars
  <1>1. ASSUME NEW s \in Sessions, Calls(s)
        PROVE  Ledger!Next \/ UNCHANGED Ledger!ledgerVars
    <2>1. CASE ClaimGrant(s)
      BY <2>1, GrantIsStep DEF Ledger!Next
    <2>2. CASE HeartbeatCommit(s)
      BY <2>2, HeartbeatIsStep DEF Ledger!Next
    <2>3. CASE CloseApply(s)
      BY <2>3, CloseIsStep DEF Ledger!Next
    <2>4. CASE RecoverCommit(s)
      BY <2>4, RecoverIsStep DEF Ledger!Next
    <2>5. CASE UNCHANGED <<clock, rows>>
      BY <2>5, CancelledAlone, RowsUnmoved, StutterIs DEF rows
    <2>6. \/ UNCHANGED <<clock, rows>> \/ ClaimGrant(s) \/ HeartbeatCommit(s)
          \/ CloseApply(s) \/ RecoverCommit(s)
      BY <1>1 DEF Calls, ClaimBegin, ClaimLock, ClaimDecline, HeartbeatBegin,
         CloseBegin, PublicationOpen, CloseLock, PublicationClose, CloseReplay,
         RecoverBegin, Abort, rows
    <2>. QED
      BY <2>1, <2>2, <2>3, <2>4, <2>5, <2>6
  <1>2. ASSUME NEW r \in Runs, RequestCancellation(r)
        PROVE  Ledger!Next
    <2>1. /\ clock \in Nat /\ UNCHANGED <<clock, attempts>>
          /\ cancelRequestedAt' = [cancelRequestedAt EXCEPT ![r] = clock]
          /\ cancelRequestedAt \in [Runs -> Nat \cup {Never}]
      BY <1>2 DEF RequestCancellation, AttemptsInvariant, TypeOK
    <2>2. /\ CancelRequested(r)' = TRUE
          /\ \A q \in Runs : q # r => CancelRequested(q)' = CancelRequested(q)
      <3>1. cancelRequestedAt'[r] = clock /\ clock # Never
        BY <2>1 DEF Never
      <3>2. \A q \in Runs : q # r => cancelRequestedAt'[q] = cancelRequestedAt[q]
        BY <2>1
      <3>. QED
        BY <3>1, <3>2, Zenon DEF CancelRequested
    <2>3. cancelledBar' = [q \in Runs |-> CancelRequested(q)']
      BY DEF cancelledBar
    <2>4. cancelledBar' = [cancelledBar EXCEPT ![r] = TRUE]
      BY <2>2, <2>3, Zenon DEF cancelledBar
    <2>. QED
      BY <2>1, <2>4, RowsUnmoved, CancelIs DEF Ledger!Next
  <1>3. CASE Tick
    <2>1. clock' = clock + 1 /\ UNCHANGED <<attempts, cancelRequestedAt>>
      BY <1>3 DEF Tick, rows
    <2>. QED
      BY <2>1, CancelledAlone, RowsUnmoved, AdvanceIs DEF Ledger!Next
  <1>4. CASE UNCHANGED vars
    BY <1>4, CancelledAlone, RowsUnmoved, StutterIs DEF vars
  <1>. QED
    BY <1>1, <1>2, <1>3, <1>4 DEF Next

\* Claims, renewals, closes and recoveries, with their early clock readings,
\* locks and snapshots, implement the ledger of one holder at a time.
THEOREM Refinement == Spec => ImplementsLedger
  <1>1. AttemptsInvariant /\ TypeOK' /\ [Next]_vars
          => [Ledger!Next]_(Ledger!ledgerVars)
    BY StepMaps
  <1>. QED
    BY <1>1, InitMaps, InvariantHolds, TypeCorrect, PTL
       DEF Spec, ImplementsLedger, Ledger!Spec

=============================================================================
