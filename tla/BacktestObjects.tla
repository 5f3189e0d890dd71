--------------------------- MODULE BacktestObjects ---------------------------
(***************************************************************************)
(* The rows of storage.objects that one backtest run produces, who owns    *)
(* them, and the compensation that deletes them again: the capabilities    *)
(* register, transition, reissue and prepare-cleanup of V20260902000003,   *)
(* in front of the implementations of V20260902000001.                     *)
(*                                                                         *)
(* A transaction is kept in tx until it ends.  What it has written is      *)
(* invisible to the others until it commits, and the row locks it holds    *)
(* follow from how far it has come.  Claiming and ending attempts are      *)
(* single steps here; module BacktestAttempts opens them up.               *)
(*                                                                         *)
(* Abstractions.  An object stands for one exact provider version under    *)
(* the run's key prefix.  FAILED stands for a failure that may be retried; *)
(* CANCELLED for any outcome that may not.  held is a legal hold or a      *)
(* retention date still ahead.  Lease and retention expiry are steps: the  *)
(* functions compare them with the clock when they read the row.           *)
(***************************************************************************)
EXTENDS Naturals, Sequences

CONSTANTS
    Objects,       \* exact object versions of the run
    Sessions,      \* database connections
    Calls,         \* bound: the operations that sessions begin
    MaxAttempts,   \* bound: attempts of the run
    MaxTokens      \* bound: cleanup tokens issued for one object

VARIABLES
    attempts,      \* backtest.run_attempts of the run, by attempt_number
    rows,          \* storage.objects and storage.backtest_object_ownerships
    bytes,         \* the provider's side of each object
    referenced,    \* objects that a committed row references
    results,       \* those that the run's published result consists of
    issued,        \* how many cleanup tokens an object has had
    known,         \* the newest token of each object that a session was given
    tx             \* the open transaction of each session

vars == <<attempts, rows, bytes, referenced, results, issued, known, tx>>

ASSUME BoundsAssumption == MaxAttempts \in Nat /\ MaxTokens \in Nat

-----------------------------------------------------------------------------
(* Rows and transactions *)

Terminal == {"SUCCEEDED", "FAILED", "CANCELLED"}

Attempt == [status : {"RUNNING"} \cup Terminal, live : BOOLEAN]

\* owner and token are 0 where the object has no ownership row.
NoRow == [status |-> "ABSENT", owner |-> 0, token |-> 0, held |-> FALSE]

Row == [status : {"ABSENT", "STAGED", "AVAILABLE", "QUARANTINED"},
        owner : Nat, token : Nat, held : BOOLEAN]

Present(o) == rows[o].status # "ABSENT"

Op == {"idle", "register", "transition", "reissue", "cleanup", "publish",
       "refer"}

\* how: the variant of the operation that its arguments choose
Tx == [op : Op, stage : {"begun", "locked", "written"}, att : Nat,
       objs : SUBSET Objects,
       how : {"-", "owned", "unowned", "AVAILABLE", "QUARANTINED",
              "immediate", "deferred"}]

Idle == [op |-> "idle", stage |-> "begun", att |-> 0, objs |-> {}, how |-> "-"]

TypeOK ==
    /\ attempts \in Seq(Attempt)
    /\ rows \in [Objects -> Row]
    /\ \A o \in Objects :
          /\ rows[o].status = "ABSENT" => rows[o] = NoRow
          /\ rows[o].owner \in 0..Len(attempts)
          /\ rows[o].token \in 0..issued[o]
    /\ bytes \in [Objects -> {"none", "stored", "removed"}]
    /\ referenced \subseteq Objects
    /\ results \subseteq referenced
    /\ issued \in [Objects -> Nat]
    /\ known \in [Sessions -> [Objects -> Nat]]
    /\ tx \in [Sessions -> Tx]

Init ==
    /\ attempts = <<>>
    /\ rows = [o \in Objects |-> NoRow]
    /\ bytes = [o \in Objects |-> "none"]
    /\ referenced = {}
    /\ results = {}
    /\ issued = [o \in Objects |-> 0]
    /\ known = [s \in Sessions |-> [o \in Objects |-> 0]]
    /\ tx = [s \in Sessions |-> Idle]

Begin(s, op, n, objs, how) ==
    /\ tx[s] = Idle /\ op \in Calls
    /\ tx' = [tx EXCEPT ![s] = [op |-> op, stage |-> "begun", att |-> n,
                                objs |-> objs, how |-> how]]

Reach(s, stage) == tx' = [tx EXCEPT ![s].stage = stage]

Finish(s) == tx' = [tx EXCEPT ![s] = Idle]

At(s, op, stage) == tx[s].op = op /\ tx[s].stage = stage

-----------------------------------------------------------------------------
(* Row locks of the open transactions *)

\* Fault: cleanup only reads the run row.
HoldsRunToPublish(s) == tx[s].op = "publish"

\* Terminal publication and cleanup hold the run row.
HoldsRun(s) ==
    \/ tx[s].op = "publish"
    \/ tx[s].op = "cleanup" /\ tx[s].stage # "begun"

RunFree == \A s \in Sessions : ~HoldsRun(s)

\* Fault: reissue only reads its caller's attempt row.
AttemptUnlocked(n) == n \in Nat

\* Reissue holds its caller's attempt row.
AttemptFree(n) == \A s \in Sessions : ~(At(s, "reissue", "locked") /\ tx[s].att = n)

\* An inserted or deleted row is held against everyone, an uncommitted
\* reference holds its target against deletion.
Writes(s, o) == tx[s].stage = "written" /\ o \in tx[s].objs
KeyShares(s, o) ==
    /\ o \in tx[s].objs
    /\ tx[s].op = "publish" \/ (tx[s].op = "refer" /\ tx[s].how = "immediate")

Unwritten(o) == \A s \in Sessions : ~Writes(s, o)
Unshared(o) == \A s \in Sessions : ~KeyShares(s, o)

-----------------------------------------------------------------------------
(* Attempts *)

Newest(n) == n = Len(attempts)

\* RUNNING under a lease that has not run out
LiveClaim(n) == attempts[n].status = "RUNNING" /\ attempts[n].live

Claim ==
    LET n == Len(attempts) IN
    /\ RunFree
    /\ n < MaxAttempts
    /\ n > 0 => /\ AttemptFree(n)
                /\ \/ attempts[n].status = "FAILED"
                   \/ attempts[n].status = "RUNNING" /\ ~attempts[n].live
    /\ attempts' =
         Append([i \in DOMAIN attempts |->
                   IF attempts[i].status = "RUNNING"
                   THEN [status |-> "FAILED", live |-> FALSE] ELSE attempts[i]],
                [status |-> "RUNNING", live |-> TRUE])
    /\ UNCHANGED <<rows, bytes, referenced, results, issued, known, tx>>

LeaseRunsOut(n) ==
    /\ LiveClaim(n)
    /\ attempts' = [attempts EXCEPT ![n] = [status |-> "RUNNING", live |-> FALSE]]
    /\ UNCHANGED <<rows, bytes, referenced, results, issued, known, tx>>

\* A heartbeat; one that read the clock before the lease ran out revives it.
Renew(n) ==
    /\ attempts[n].status = "RUNNING"
    /\ AttemptFree(n)
    /\ attempts' = [attempts EXCEPT ![n] = [status |-> "RUNNING", live |-> TRUE]]
    /\ UNCHANGED <<rows, bytes, referenced, results, issued, known, tx>>

\* close_run_attempt, which locks the run row and may have read the clock
\* before the lease ran out, or the recovery of an attempt whose lease has run
\* out, which does not
EndAttempt(n, status) ==
    /\ attempts[n].status = "RUNNING"
    /\ AttemptFree(n)
    /\ RunFree \/ (~attempts[n].live /\ status # "SUCCEEDED")
    /\ attempts' = [attempts EXCEPT ![n] = [status |-> status, live |-> FALSE]]
    /\ UNCHANGED <<rows, bytes, referenced, results, issued, known, tx>>

-----------------------------------------------------------------------------
(* register_backtest_object and the ownership capture trigger *)

\* The worker has written the bytes, or found them at the provider.
Upload(o) ==
    /\ bytes[o] = "none"
    /\ bytes' = [bytes EXCEPT ![o] = "stored"]
    /\ UNCHANGED <<attempts, rows, referenced, results, issued, known, tx>>

RegisterBegin(s, n, o, how) ==
    /\ bytes[o] = "stored"
    /\ Begin(s, "register", n, {o}, how)
    /\ UNCHANGED <<attempts, rows, bytes, referenced, results, issued, known>>

\* INSERT ... ON CONFLICT DO NOTHING waits for whoever is writing the same
\* identity, then finds the row there, inserts it, or is refused by the trigger.
RegisterInsert(s, o) ==
    /\ At(s, "register", "begun") /\ o \in tx[s].objs
    /\ Unwritten(o)
    /\ \/ ~Present(o) /\ LiveClaim(tx[s].att) /\ Reach(s, "written")
       \/ (Present(o) \/ ~LiveClaim(tx[s].att)) /\ Finish(s)
    /\ UNCHANGED <<attempts, rows, bytes, referenced, results, issued, known>>

Registered(s, o) ==
    IF tx[s].how = "owned"
    THEN [status |-> "STAGED", owner |-> tx[s].att, token |-> issued[o] + 1,
          held |-> FALSE]
    ELSE [NoRow EXCEPT !.status = "STAGED"]

\* A token is generated by the session that passes its hash.
IssueToken(s, o) ==
    /\ issued[o] < MaxTokens
    /\ issued' = [issued EXCEPT ![o] = issued[o] + 1]
    /\ known' = [known EXCEPT ![s][o] = issued[o] + 1]

\* The ownership row's foreign key needs the producing attempt's row.
RegisterCommit(s, o) ==
    /\ At(s, "register", "written") /\ o \in tx[s].objs
    /\ \/ tx[s].how = "owned" /\ AttemptFree(tx[s].att) /\ IssueToken(s, o)
       \/ tx[s].how = "unowned" /\ UNCHANGED <<issued, known>>
    /\ rows' = [rows EXCEPT ![o] = Registered(s, o)]
    /\ Finish(s)
    /\ UNCHANGED <<attempts, bytes, referenced, results>>

-----------------------------------------------------------------------------
(* transition_backtest_object *)

\* The claim and the present status are read before the row is updated.
TransitionBegin(s, n, o, target) ==
    /\ LiveClaim(n)
    /\ Present(o) /\ rows[o].status # target
    /\ Begin(s, "transition", n, {o}, target)
    /\ UNCHANGED <<attempts, rows, bytes, referenced, results, issued, known>>

\* Fault: the status that was read before the update is trusted.
MayBecomeAny(status, target) == status # "ABSENT"

MayBecome(status, target) ==
    \/ status = "STAGED"
    \/ status = "AVAILABLE" /\ target = "QUARANTINED"

TransitionUpdate(s, o) ==
    /\ At(s, "transition", "begun") /\ o \in tx[s].objs
    /\ Unwritten(o)
    /\ \/ /\ MayBecome(rows[o].status, tx[s].how)
          /\ rows' = [rows EXCEPT ![o].status = tx[s].how]
       \/ /\ ~MayBecome(rows[o].status, tx[s].how)
          /\ UNCHANGED rows
    /\ Finish(s)
    /\ UNCHANGED <<attempts, bytes, referenced, results, issued, known>>

-----------------------------------------------------------------------------
(* reissue_backtest_object_cleanup *)

\* Fault: the direct-successor gate is missing.
AnyKin(n, owner) == TRUE

\* The gate compares the owner with NOT IN (attempt, previous attempt), which
\* is NULL, not TRUE, for a first attempt: its calls always pass.
NearKin(n, owner) == n = 1 \/ owner \in {n, n - 1}

\* A refused call returns NULL and changes nothing.
ReissueBegin(s, n, o) ==
    /\ rows[o].owner # 0 /\ NearKin(n, rows[o].owner)
    /\ Begin(s, "reissue", n, {o}, "-")
    /\ UNCHANGED <<attempts, rows, bytes, referenced, results, issued, known>>

\* The caller's attempt row is locked while it is live and the newest.
ReissueCaller(n) == LiveClaim(n) /\ Newest(n)

ReissueLockCaller(s) ==
    /\ At(s, "reissue", "begun")
    /\ AttemptFree(tx[s].att)
    /\ \/ ReissueCaller(tx[s].att) /\ Reach(s, "locked")
       \/ ~ReissueCaller(tx[s].att) /\ Finish(s)
    /\ UNCHANGED <<attempts, rows, bytes, referenced, results, issued, known>>

\* The owner belongs to the caller's lineage, and is the caller or has ended
\* without success; nothing holds or references the object.
Adoptable(n, o) ==
    /\ rows[o].owner \in 1..n
    /\ rows[o].owner = n \/ attempts[rows[o].owner].status \in {"FAILED", "CANCELLED"}
    /\ ~rows[o].held
    /\ o \notin referenced

\* Fault: the old token stays valid.
AdoptedWithOldToken(n, o) == [rows[o] EXCEPT !.owner = n]

\* Ownership moves to the caller and the token is replaced.
Adopted(n, o) == [rows[o] EXCEPT !.owner = n, !.token = issued[o] + 1]

ReissueCommit(s, o) ==
    LET n == tx[s].att IN
    /\ At(s, "reissue", "locked") /\ o \in tx[s].objs
    /\ Unwritten(o) /\ Unshared(o)
    /\ \/ /\ Present(o) /\ Adoptable(n, o)
          /\ IssueToken(s, o)
          /\ rows' = [rows EXCEPT ![o] = Adopted(n, o)]
       \/ /\ ~(Present(o) /\ Adoptable(n, o))
          /\ UNCHANGED <<rows, issued, known>>
    /\ Finish(s)
    /\ UNCHANGED <<attempts, bytes, referenced, results>>

-----------------------------------------------------------------------------
(* prepare_backtest_object_cleanup, and its caller's deletion of the bytes *)

CleanupBegin(s, n, objs) ==
    /\ \A o \in objs : rows[o].owner # 0 => NearKin(n, rows[o].owner)
    /\ Begin(s, "cleanup", n, objs, "-")
    /\ UNCHANGED <<attempts, rows, bytes, referenced, results, issued, known>>

\* The caller is live or has ended, and no successor exists.
CleanupCaller(n) ==
    /\ Newest(n)
    /\ attempts[n].status \in Terminal \/ LiveClaim(n)

\* Cleanups exclude each other by the table locks they take first.
CleanupLock(s) ==
    /\ At(s, "cleanup", "begun")
    /\ RunFree
    /\ \/ CleanupCaller(tx[s].att) /\ Reach(s, "locked")
       \/ ~CleanupCaller(tx[s].att) /\ Finish(s)
    /\ UNCHANGED <<attempts, rows, bytes, referenced, results, issued, known>>

\* Fault: references are not looked for.
DeletableReferenced(s, o) ==
    /\ ~rows[o].held
    /\ rows[o].owner \in 1..tx[s].att
    /\ rows[o].token = known[s][o]

\* Nothing holds or references the object, its owner belongs to the caller's
\* lineage, and the caller presents its token.
Deletable(s, o) ==
    /\ ~rows[o].held
    /\ rows[o].owner \in 1..tx[s].att
    /\ rows[o].token = known[s][o]
    /\ o \notin referenced

\* Fault: one good candidate carries the others.
SomeDeletable(s, objs) == objs = {} \/ \E o \in objs : Deletable(s, o)

AllDeletable(s, objs) == \A o \in objs : Deletable(s, o)

\* The candidate rows that exist are locked, checked and deleted.
CleanupDelete(s) ==
    LET existing == {o \in tx[s].objs : Present(o)} IN
    /\ At(s, "cleanup", "locked")
    /\ \A o \in existing : Unwritten(o) /\ Unshared(o)
    /\ \/ /\ AllDeletable(s, existing)
          /\ tx' = [tx EXCEPT ![s].stage = "written", ![s].objs = existing]
       \/ ~AllDeletable(s, existing) /\ Finish(s)
    /\ UNCHANGED <<attempts, rows, bytes, referenced, results, issued, known>>

\* The caller removes the bytes before it commits.
RemoveBytes(s, o) ==
    /\ At(s, "cleanup", "written") /\ o \in tx[s].objs
    /\ bytes[o] = "stored"
    /\ bytes' = [bytes EXCEPT ![o] = "removed"]
    /\ UNCHANGED <<attempts, rows, referenced, results, issued, known, tx>>

\* Fault: the ownership row outlives its object.
DroppedAlone(o) == [rows[o] EXCEPT !.status = "ABSENT"]

\* The ownership row goes with the object row (ON DELETE CASCADE).
Dropped(o) == NoRow

CleanupCommit(s) ==
    /\ At(s, "cleanup", "written")
    /\ \A o \in tx[s].objs : bytes[o] # "stored"
    /\ rows' = [o \in Objects |-> IF o \in tx[s].objs THEN Dropped(o) ELSE rows[o]]
    /\ Finish(s)
    /\ UNCHANGED <<attempts, bytes, referenced, results, issued, known>>

-----------------------------------------------------------------------------
(* References: the run's own publication, and everyone else's *)

PublishBegin(s, n) ==
    /\ RunFree
    /\ Begin(s, "publish", n, {}, "-")
    /\ UNCHANGED <<attempts, rows, bytes, referenced, results, issued, known>>

\* Inserting the manifest row takes a key-share lock on its object, whose
\* bytes the worker verifies first.
PublishReference(s, o) ==
    /\ tx[s].op = "publish" /\ o \notin tx[s].objs
    /\ bytes[o] = "stored" /\ Present(o) /\ Unwritten(o)
    /\ tx' = [tx EXCEPT ![s].objs = tx[s].objs \cup {o}]
    /\ UNCHANGED <<attempts, rows, bytes, referenced, results, issued, known>>

\* The publication closes its attempt, which must still be RUNNING.
PublishCommit(s) ==
    LET n == tx[s].att IN
    /\ tx[s].op = "publish"
    /\ attempts[n].status = "RUNNING" /\ AttemptFree(n)
    /\ attempts' = [attempts EXCEPT ![n] = [status |-> "SUCCEEDED", live |-> FALSE]]
    /\ referenced' = referenced \cup tx[s].objs
    /\ results' = results \cup tx[s].objs
    /\ Finish(s)
    /\ UNCHANGED <<rows, bytes, issued, known>>

\* Immutable objects are reused across runs, and other tables reference them:
\* an immediate foreign key locks its target at once, a deferred one (the case
\* evidence) looks for it when the transaction commits.
ReferBegin(s, o, how) ==
    /\ how = "immediate" => Present(o) /\ Unwritten(o)
    /\ Begin(s, "refer", 0, {o}, how)
    /\ UNCHANGED <<attempts, rows, bytes, referenced, results, issued, known>>

\* Fault: the deferred check does not wait for the row's writer.
ReferableUnlocked(o) == Present(o)

Referable(o) == Present(o) /\ Unwritten(o)

ReferCommit(s, o) ==
    /\ tx[s].op = "refer" /\ o \in tx[s].objs
    /\ Referable(o)
    /\ referenced' = referenced \cup {o}
    /\ Finish(s)
    /\ UNCHANGED <<attempts, rows, bytes, results, issued, known>>

\* A legal hold is placed on the row, or a hold or retention date ends.
SetHold(o, held) ==
    /\ Present(o) /\ rows[o].held # held
    /\ held => Unwritten(o)
    /\ rows' = [rows EXCEPT ![o].held = held]
    /\ UNCHANGED <<attempts, bytes, referenced, results, issued, known, tx>>

\* An error, a lock timeout, a failed deletion of bytes or a crash rolls back.
Abort(s) ==
    /\ tx[s].op # "idle"
    /\ Finish(s)
    /\ UNCHANGED <<attempts, rows, bytes, referenced, results, issued, known>>

-----------------------------------------------------------------------------

Attempting ==
    \/ Claim
    \/ \E n \in DOMAIN attempts :
          \/ LeaseRunsOut(n)
          \/ Renew(n)
          \/ \E status \in Terminal : EndAttempt(n, status)

Registering(s) ==
    \/ \E n \in DOMAIN attempts, o \in Objects, how \in {"owned", "unowned"} :
          RegisterBegin(s, n, o, how)
    \/ \E o \in Objects : RegisterInsert(s, o) \/ RegisterCommit(s, o)

Transitioning(s) ==
    \/ \E n \in DOMAIN attempts, o \in Objects,
          target \in {"AVAILABLE", "QUARANTINED"} : TransitionBegin(s, n, o, target)
    \/ \E o \in Objects : TransitionUpdate(s, o)

Reissuing(s) ==
    \/ \E n \in DOMAIN attempts, o \in Objects : ReissueBegin(s, n, o)
    \/ ReissueLockCaller(s)
    \/ \E o \in Objects : ReissueCommit(s, o)

Cleaning(s) ==
    \/ \E n \in DOMAIN attempts, objs \in (SUBSET Objects) \ {{}} :
          CleanupBegin(s, n, objs)
    \/ CleanupLock(s)
    \/ CleanupDelete(s)
    \/ \E o \in Objects : RemoveBytes(s, o)
    \/ CleanupCommit(s)

Referring(s) ==
    \/ \E n \in DOMAIN attempts : PublishBegin(s, n)
    \/ \E o \in Objects : PublishReference(s, o)
    \/ PublishCommit(s)
    \/ \E o \in Objects, how \in {"immediate", "deferred"} : ReferBegin(s, o, how)
    \/ \E o \in Objects : ReferCommit(s, o)

Next ==
    \/ Attempting
    \/ \E o \in Objects : Upload(o)
    \/ \E o \in Objects, held \in BOOLEAN : SetHold(o, held)
    \/ \E s \in Sessions :
          \/ Registering(s) \/ Transitioning(s) \/ Reissuing(s)
          \/ Cleaning(s) \/ Referring(s) \/ Abort(s)

Spec == Init /\ [][Next]_vars

-----------------------------------------------------------------------------
(* Properties *)

\* A cleanup between its checks and its commit, while bytes are being removed
Deleting(s) == At(s, "cleanup", "written")

\* What prepare_backtest_object_cleanup checked about its caller stays true
\* until the caller commits: no successor attempt appears while the bytes of
\* its predecessor's objects are removed.
CleanerIsNewest == \A s \in Sessions : Deleting(s) => Newest(tx[s].att)

\* What it checked about the objects stays true as well: none of them becomes
\* referenced or held before the transaction that removes their bytes ends,
\* whether the reference's foreign key is immediate or deferred.
DeletedIsUnwanted ==
    \A s \in Sessions : Deleting(s) =>
        \A o \in tx[s].objs : Present(o) /\ o \notin referenced /\ ~rows[o].held

\* Bytes are removed only by the attempt that owns their object or by its
\* direct successor, and only by the session that was given the newest token:
\* a reissue takes the object out of the reach of whoever had it before.
DeletedByKin ==
    \A s \in Sessions : Deleting(s) =>
        \A o \in tx[s].objs :
            /\ rows[o].owner \in {tx[s].att, tx[s].att - 1} \ {0}
            /\ known[s][o] = issued[o]

\* A committed reference always finds its object's row, whatever cleanup,
\* registration and publication overlapped.
ReferencesResolve == \A o \in referenced : Present(o)

\* The relational state and every object of a published result agree: the rows
\* are there and the bytes are there, although a cleanup may have removed bytes
\* and rolled back before.
ResultsAgree == \A o \in results : Present(o) /\ bytes[o] = "stored"

\* Ownership passes only from an attempt to itself or to its direct successor,
\* and only to the newest attempt: reissue never hands an object to an attempt
\* that has been superseded.
OwnershipMovesForward ==
    [][\A o \in Objects :
          rows[o].owner # 0 /\ Present(o)' /\ rows'[o].token # rows[o].token =>
              /\ rows'[o].owner \in {rows[o].owner, rows[o].owner + 1}
              /\ rows'[o].owner = Len(attempts)]_vars

\* A quarantined object is never offered again, and an available one never
\* returns to staging, although the status is read before the row is locked.
StatusAdvances ==
    [][\A o \in Objects :
          Present(o) /\ Present(o)' /\ rows'[o].status # rows[o].status =>
              rows[o].status # "QUARANTINED" /\ rows'[o].status # "STAGED"]_vars

\* What the others lean on: rows and transactions are typed, a cleanup that
\* deletes is the newest attempt's, and no committed reference dangles.
ObjectsInvariant ==
    /\ TypeOK
    /\ CleanerIsNewest
    /\ ReferencesResolve

=============================================================================
