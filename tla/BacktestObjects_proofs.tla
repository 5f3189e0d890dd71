----------------------- MODULE BacktestObjects_proofs -----------------------
(***************************************************************************)
(* What the locks of the object capabilities protect, for any objects,     *)
(* sessions, attempts and tokens: what a cleanup has checked stays true    *)
(* until it commits, references resolve, and published results keep their  *)
(* bytes.                                                                  *)
(*                                                                         *)
(* LocksInv says who may hold what: the run row and each object row have   *)
(* one holder, and whoever holds the run row, or its own attempt row, is   *)
(* the newest attempt.  RowsInv says what the holders rely on.  Every step *)
(* of a session is one of the few Strides below, so that each part is      *)
(* shown from the strides that can disturb it.                             *)
(***************************************************************************)
EXTENDS BacktestObjects, SequenceTheorems, TLAPS

\* Every transaction about an attempt names an attempt, only some operations
\* lock or write, a transition has a target, a registration one object.
TxAreFormed ==
    \A s \in Sessions :
        /\ tx[s].op \in {"register", "reissue", "cleanup", "publish"} =>
              tx[s].att \in 1..Len(attempts)
        /\ tx[s].stage = "locked" => tx[s].op \in {"reissue", "cleanup"}
        /\ tx[s].stage = "written" => tx[s].op \in {"register", "cleanup"}
        /\ tx[s].op = "transition" => tx[s].how \in {"AVAILABLE", "QUARANTINED"}
        /\ tx[s].op = "register" => \E o \in Objects : tx[s].objs = {o}

\* Only the newest attempt runs.
OnlyNewestRuns ==
    \A n \in 1..Len(attempts) : attempts[n].status = "RUNNING" => Newest(n)

\* The run row and each object row have one holder.
RunLockExcludes ==
    \A s, t \in Sessions : HoldsRun(s) /\ HoldsRun(t) => s = t

RowLockExcludes ==
    \A s, t \in Sessions, o \in Objects : Writes(s, o) /\ Writes(t, o) => s = t

\* Whoever holds the run row or its own attempt row is not superseded.
HoldersAreNewest ==
    \A s \in Sessions :
        tx[s].op \in {"reissue", "cleanup"} /\ tx[s].stage # "begun" => Newest(tx[s].att)

\* A row that is being inserted is not there yet.
InsertedIsNew ==
    \A s \in Sessions, o \in Objects :
        At(s, "register", "written") /\ o \in tx[s].objs => ~Present(o)

\* What a publication is about to reference is there.
PublishedIsThere ==
    \A s \in Sessions : tx[s].op = "publish" =>
        \A o \in tx[s].objs : Present(o) /\ bytes[o] = "stored"

LocksInv ==
    /\ TypeOK /\ TxAreFormed /\ OnlyNewestRuns
    /\ RunLockExcludes /\ RowLockExcludes /\ HoldersAreNewest

RowsInv ==
    /\ InsertedIsNew /\ DeletedIsUnwanted /\ PublishedIsThere
    /\ ReferencesResolve /\ ResultsAgree

-----------------------------------------------------------------------------
(* Attempts *)

\* The attempts of the run, as a function of their numbers.
LEMMA AttemptsAreFunctions ==
    ASSUME TypeOK
    PROVE  /\ Len(attempts) \in Nat
           /\ attempts \in [1..Len(attempts) -> Attempt]
           /\ DOMAIN attempts = 1..Len(attempts)
BY LenProperties DEF TypeOK

\* A claim that ends the newest attempt and appends its successor.
LEMMA ClaimEffect ==
    ASSUME TypeOK, Claim
    PROVE  /\ attempts' \in Seq(Attempt)
           /\ Len(attempts') = Len(attempts) + 1
           /\ \A i \in 1..Len(attempts) : attempts'[i].status # "RUNNING"
<1> DEFINE n == Len(attempts)
           ended == [i \in DOMAIN attempts |->
                       IF attempts[i].status = "RUNNING"
                       THEN [status |-> "FAILED", live |-> FALSE] ELSE attempts[i]]
           new == [status |-> "RUNNING", live |-> TRUE]
<1>1. n \in Nat /\ attempts \in [1..n -> Attempt] /\ DOMAIN attempts = 1..n
  BY AttemptsAreFunctions
<1>2. ended \in [1..n -> Attempt] /\ new \in Attempt
  BY <1>1 DEF Attempt, Terminal
<1>3. ended \in Seq(Attempt) /\ Len(ended) = n
  BY <1>1, <1>2
<1>4. \A i \in 1..n : ended[i].status # "RUNNING"
  BY <1>1
<1>5. attempts' = Append(ended, new)
  BY DEF Claim
<1> HIDE DEF ended, new
<1>6. QED
  BY <1>1, <1>2, <1>3, <1>4, <1>5

\* The other steps leave the number of attempts alone and start none.
LEMMA UpdateEffect ==
    ASSUME TypeOK, NEW n \in 1..Len(attempts), NEW a \in Attempt,
           a.status = "RUNNING" => attempts[n].status = "RUNNING",
           attempts' = [attempts EXCEPT ![n] = a]
    PROVE  /\ attempts' \in Seq(Attempt)
           /\ Len(attempts') = Len(attempts)
           /\ \A i \in 1..Len(attempts) :
                 attempts'[i].status = "RUNNING" => attempts[i].status = "RUNNING"
<1>1. Len(attempts) \in Nat /\ attempts \in [1..Len(attempts) -> Attempt]
  BY AttemptsAreFunctions
<1>2. attempts \in Seq(Attempt)
  BY DEF TypeOK
<1>3. attempts' \in Seq(Attempt) /\ Len(attempts') = Len(attempts)
  BY <1>2, ExceptSeq
<1>4. QED
  BY <1>1, <1>3

\* What a step does to the attempts, unless it is a claim
NoAttemptStarts ==
    /\ attempts' \in Seq(Attempt)
    /\ Len(attempts') = Len(attempts)
    /\ \A i \in 1..Len(attempts) :
          attempts'[i].status = "RUNNING" => attempts[i].status = "RUNNING"

\* Only a claim starts an attempt.
LEMMA AttemptsStep ==
    ASSUME TypeOK, TxAreFormed, [Next]_vars, ~Claim
    PROVE  NoAttemptStarts
<1> USE DEF NoAttemptStarts
<1>1. CASE attempts' = attempts
  BY <1>1 DEF TypeOK
<1>2. CASE \E n \in DOMAIN attempts :
              LeaseRunsOut(n) \/ Renew(n) \/ \E status \in Terminal : EndAttempt(n, status)
  <2>1. PICK n \in 1..Len(attempts) :
            LeaseRunsOut(n) \/ Renew(n) \/ \E status \in Terminal : EndAttempt(n, status)
    BY <1>2, AttemptsAreFunctions
  <2>2. PICK a \in Attempt : /\ a.status = "RUNNING" => attempts[n].status = "RUNNING"
                             /\ attempts' = [attempts EXCEPT ![n] = a]
    BY <2>1 DEF LeaseRunsOut, Renew, EndAttempt, LiveClaim, Attempt, Terminal
  <2>3. QED
    BY <2>2, UpdateEffect
<1>3. CASE \E s \in Sessions : PublishCommit(s)
  <2>1. PICK s \in Sessions : PublishCommit(s)
    BY <1>3
  <2>2. tx[s].att \in 1..Len(attempts)
    BY <2>1 DEF TxAreFormed, PublishCommit
  <2>3. [status |-> "SUCCEEDED", live |-> FALSE] \in Attempt
    BY DEF Attempt, Terminal
  <2>4. attempts' = [attempts EXCEPT ![tx[s].att] = [status |-> "SUCCEEDED", live |-> FALSE]]
    BY <2>1 DEF PublishCommit
  <2>5. QED
    BY <2>2, <2>3, <2>4, UpdateEffect
<1>4. QED
  <2>1. CASE Attempting
    BY <2>1, <1>2 DEF Attempting
  <2>2. CASE UNCHANGED vars
    BY <2>2, <1>1 DEF vars
  <2>3. CASE \E s \in Sessions : Referring(s)
    <3>1. PICK s \in Sessions : Referring(s)
      BY <2>3
    <3>2. PublishCommit(s) \/ attempts' = attempts
      BY <3>1 DEF Referring, PublishBegin, PublishReference, ReferBegin, ReferCommit
    <3>3. QED
      BY <3>2, <1>1, <1>3
  <2>4. CASE Next /\ ~Attempting /\ ~(\E s \in Sessions : Referring(s))
    <3>1. attempts' = attempts
      BY <2>4, ZenonT(60) DEF Next, Upload, SetHold, Abort, Registering, RegisterBegin, RegisterInsert,
         RegisterCommit, Transitioning, TransitionBegin, TransitionUpdate, Reissuing,
         ReissueBegin, ReissueLockCaller, ReissueCommit, Cleaning, CleanupBegin,
         CleanupLock, CleanupDelete, RemoveBytes, CleanupCommit
    <3>2. QED
      BY <3>1, <1>1
  <2>5. QED
    BY <2>1, <2>2, <2>3, <2>4

\* A claim ends the attempt before it.
LEMMA OnlyNewestRunsStep ==
    ASSUME TypeOK, TxAreFormed, OnlyNewestRuns, [Next]_vars
    PROVE  OnlyNewestRuns'
<1>1. CASE Claim
  <2>1. /\ Len(attempts) \in Nat /\ Len(attempts') = Len(attempts) + 1
        /\ \A i \in 1..Len(attempts) : attempts'[i].status # "RUNNING"
    BY <1>1, ClaimEffect, AttemptsAreFunctions
  <2>2. ASSUME NEW i \in 1..Len(attempts'), attempts'[i].status = "RUNNING"
        PROVE  i = Len(attempts')
    BY <2>1, <2>2
  <2>3. QED
    BY <2>2 DEF OnlyNewestRuns, Newest
<1>2. CASE ~Claim
  BY <1>2, AttemptsStep DEF OnlyNewestRuns, Newest, NoAttemptStarts
<1>3. QED
  BY <1>1, <1>2

-----------------------------------------------------------------------------
(* Types *)

\* The steps that write rows.
LEMMA RowSteps ==
    ASSUME [Next]_vars
    PROVE  \/ UNCHANGED <<rows, issued, known>>
           \/ \E o \in Objects, held \in BOOLEAN : SetHold(o, held)
           \/ \E s \in Sessions, o \in Objects : RegisterCommit(s, o)
           \/ \E s \in Sessions, o \in Objects : TransitionUpdate(s, o)
           \/ \E s \in Sessions, o \in Objects : ReissueCommit(s, o)
           \/ \E s \in Sessions : CleanupCommit(s)
<1>1. CASE Attempting \/ (\E o \in Objects : Upload(o)) \/ UNCHANGED vars
  BY <1>1 DEF Attempting, Claim, LeaseRunsOut, Renew, EndAttempt, Upload, vars
<1>2. ASSUME NEW s \in Sessions, Registering(s) \/ Transitioning(s)
      PROVE  \/ UNCHANGED <<rows, issued, known>>
             \/ \E o \in Objects : RegisterCommit(s, o) \/ TransitionUpdate(s, o)
  BY <1>2 DEF Registering, RegisterBegin, RegisterInsert, Transitioning, TransitionBegin
<1>3. ASSUME NEW s \in Sessions, Reissuing(s)
      PROVE  \/ UNCHANGED <<rows, issued, known>>
             \/ \E o \in Objects : ReissueCommit(s, o)
  BY <1>3 DEF Reissuing, ReissueBegin, ReissueLockCaller
<1>4. ASSUME NEW s \in Sessions, Cleaning(s)
      PROVE  UNCHANGED <<rows, issued, known>> \/ CleanupCommit(s)
  BY <1>4 DEF Cleaning, CleanupBegin, CleanupLock, CleanupDelete, RemoveBytes, CleanupCommit
<1>5. ASSUME NEW s \in Sessions, Referring(s) \/ Abort(s)
      PROVE  UNCHANGED <<rows, issued, known>>
  BY <1>5 DEF Referring, PublishBegin, PublishReference, PublishCommit, ReferBegin,
     ReferCommit, Abort
<1>6. QED
  BY <1>1, <1>2, <1>3, <1>4, <1>5 DEF Next

\* Rows, tokens, and what the sessions know of them
RowsTyped ==
    /\ rows \in [Objects -> Row]
    /\ \A o \in Objects :
          /\ rows[o].status = "ABSENT" => rows[o] = NoRow
          /\ rows[o].owner \in 0..Len(attempts)
          /\ rows[o].token \in 0..issued[o]
    /\ issued \in [Objects -> Nat]
    /\ known \in [Sessions -> [Objects -> Nat]]

\* Issuing a token leaves tokens counted.
LEMMA IssueEffect ==
    ASSUME RowsTyped, NEW s \in Sessions, NEW o \in Objects, IssueToken(s, o)
    PROVE  /\ issued' \in [Objects -> Nat] /\ known' \in [Sessions -> [Objects -> Nat]]
           /\ issued'[o] = issued[o] + 1 /\ known'[s][o] = issued[o] + 1
           /\ \A p \in Objects \ {o} : issued'[p] = issued[p]
           /\ \A t \in Sessions, p \in Objects :
                 (t # s \/ p # o) => known'[t][p] = known[t][p]
BY DEF RowsTyped, IssueToken

\* One row changes to a typed one, and the counts of tokens do not fall.
LEMMA RowChange ==
    ASSUME RowsTyped, Len(attempts) \in Nat, Len(attempts') \in Nat,
           Len(attempts') >= Len(attempts),
           NEW o \in Objects, NEW row \in Row, rows' = [rows EXCEPT ![o] = row],
           row.status = "ABSENT" => row = NoRow,
           row.owner \in 0..Len(attempts), row.token \in 0..issued'[o],
           issued' \in [Objects -> Nat], known' \in [Sessions -> [Objects -> Nat]],
           \A p \in Objects \ {o} : issued'[p] = issued[p]
    PROVE  RowsTyped'
<1>1. rows' \in [Objects -> Row]
  BY DEF RowsTyped
<1>2. \A p \in Objects : rows'[p] = IF p = o THEN row ELSE rows[p]
  BY DEF RowsTyped
<1>3. QED
  BY <1>1, <1>2 DEF RowsTyped

\* Rows, tokens and what is known of them stay typed.
LEMMA RowsTypedStep ==
    ASSUME TypeOK, TxAreFormed, [Next]_vars
    PROVE  RowsTyped'
<1>1. RowsTyped
  BY DEF RowsTyped, TypeOK
<1>2. Len(attempts) \in Nat /\ Len(attempts') \in Nat /\ Len(attempts') >= Len(attempts)
  BY ClaimEffect, AttemptsStep, AttemptsAreFunctions DEF NoAttemptStarts
<1>3. CASE UNCHANGED <<rows, issued, known>>
  BY <1>1, <1>2, <1>3 DEF RowsTyped
<1>4. ASSUME NEW o \in Objects, NEW held \in BOOLEAN, SetHold(o, held)
      PROVE  RowsTyped'
  <2> DEFINE row == [rows[o] EXCEPT !.held = held]
  <2>1. rows[o] \in Row /\ rows[o].status # "ABSENT"
    BY <1>1, <1>4 DEF RowsTyped, SetHold, Present
  <2>2. /\ row \in Row /\ row.status # "ABSENT"
        /\ row.owner = rows[o].owner /\ row.token = rows[o].token
    BY <2>1 DEF Row
  <2>3. rows' = [rows EXCEPT ![o] = row] /\ UNCHANGED <<issued, known>>
    BY <1>4 DEF SetHold
  <2> HIDE DEF row
  <2>4. QED
    BY <1>1, <1>2, <2>2, <2>3, RowChange DEF RowsTyped
<1>5. ASSUME NEW s \in Sessions, NEW o \in Objects, RegisterCommit(s, o)
      PROVE  RowsTyped'
  <2>1. tx[s].att \in 1..Len(attempts)
    BY <1>5 DEF TxAreFormed, RegisterCommit, At
  <2>2. rows' = [rows EXCEPT ![o] = Registered(s, o)]
    BY <1>5 DEF RegisterCommit
  <2>3. CASE tx[s].how = "owned" /\ IssueToken(s, o)
    <3> DEFINE row == [status |-> "STAGED", owner |-> tx[s].att, token |-> issued[o] + 1,
                       held |-> FALSE]
    <3>1. Registered(s, o) = row
      BY <2>3 DEF Registered
    <3>2. issued[o] \in Nat
      BY <1>1 DEF RowsTyped
    <3>3. row \in Row /\ row.status # "ABSENT" /\ row.owner \in 0..Len(attempts)
      BY <1>2, <2>1, <3>2 DEF Row
    <3>4. row.token \in 0..issued'[o]
      BY <1>1, <2>3, <3>2, IssueEffect
    <3> HIDE DEF row
    <3>5. QED
      BY <1>1, <1>2, <2>2, <2>3, <3>1, <3>3, <3>4, IssueEffect, RowChange
  <2>4. CASE tx[s].how = "unowned" /\ UNCHANGED <<issued, known>>
    <3> DEFINE row == [NoRow EXCEPT !.status = "STAGED"]
    <3>1. Registered(s, o) = row
      BY <2>4 DEF Registered
    <3>2. row \in Row /\ row.status # "ABSENT" /\ row.owner = 0 /\ row.token = 0
      BY DEF Row, NoRow
    <3>3. row.owner \in 0..Len(attempts) /\ row.token \in 0..issued'[o]
      BY <1>1, <1>2, <2>4, <3>2 DEF RowsTyped
    <3> HIDE DEF row
    <3>4. issued' \in [Objects -> Nat] /\ known' \in [Sessions -> [Objects -> Nat]]
          /\ \A p \in Objects \ {o} : issued'[p] = issued[p]
      BY <1>1, <2>4 DEF RowsTyped
    <3>5. QED
      BY <1>1, <1>2, <2>2, <3>1, <3>2, <3>3, <3>4, RowChange
  <2>5. QED
    BY <1>5, <2>3, <2>4 DEF RegisterCommit
<1>6. ASSUME NEW s \in Sessions, NEW o \in Objects, TransitionUpdate(s, o)
      PROVE  RowsTyped'
  <2> DEFINE row == [rows[o] EXCEPT !.status = tx[s].how]
  <2>1. CASE /\ MayBecome(rows[o].status, tx[s].how)
             /\ rows' = [rows EXCEPT ![o].status = tx[s].how]
    <3>1. tx[s].how \in {"AVAILABLE", "QUARANTINED"}
      BY <1>6 DEF TxAreFormed, TransitionUpdate, At
    <3>2. rows[o] \in Row
      BY <1>1 DEF RowsTyped
    <3>3. /\ row \in Row /\ row.status # "ABSENT"
          /\ row.owner = rows[o].owner /\ row.token = rows[o].token
      BY <3>1, <3>2 DEF Row
    <3>4. rows' = [rows EXCEPT ![o] = row] /\ UNCHANGED <<issued, known>>
      BY <1>6, <2>1 DEF TransitionUpdate
    <3> HIDE DEF row
    <3>5. QED
      BY <1>1, <1>2, <3>3, <3>4, RowChange DEF RowsTyped
  <2>2. QED
    BY <1>3, <1>6, <2>1 DEF TransitionUpdate
<1>7. ASSUME NEW s \in Sessions, NEW o \in Objects, ReissueCommit(s, o)
      PROVE  RowsTyped'
  <2> DEFINE n == tx[s].att
             row == Adopted(n, o)
  <2>1. CASE /\ Present(o) /\ IssueToken(s, o)
             /\ rows' = [rows EXCEPT ![o] = Adopted(n, o)]
    <3>1. n \in 1..Len(attempts)
      BY <1>7 DEF TxAreFormed, ReissueCommit, At
    <3>2. rows[o] \in Row /\ issued[o] \in Nat /\ rows[o].status # "ABSENT"
      BY <1>1, <2>1 DEF RowsTyped, Present
    <3>3. row \in Row /\ row.status # "ABSENT" /\ row.owner = n /\ row.token = issued[o] + 1
      <4>1. n \in Nat /\ issued[o] + 1 \in Nat
        BY <1>2, <3>1, <3>2
      <4>2. row = [rows[o] EXCEPT !.owner = n, !.token = issued[o] + 1]
        BY DEF Adopted
      <4> HIDE DEF row, n
      <4>3. QED
        BY <3>2, <4>1, <4>2 DEF Row
    <3>4. row.owner \in 0..Len(attempts) /\ row.token \in 0..issued'[o]
      BY <1>1, <1>2, <2>1, <3>1, <3>2, <3>3, IssueEffect
    <3>5. rows' = [rows EXCEPT ![o] = row]
      BY <2>1
    <3>6. /\ issued' \in [Objects -> Nat] /\ known' \in [Sessions -> [Objects -> Nat]]
          /\ \A p \in Objects \ {o} : issued'[p] = issued[p]
      BY <1>1, <2>1, IssueEffect
    <3> HIDE DEF row, n
    <3>7. QED
      BY <1>1, <1>2, <3>3, <3>4, <3>5, <3>6, RowChange
  <2>2. QED
    BY <1>3, <1>7, <2>1 DEF ReissueCommit
<1>8. ASSUME NEW s \in Sessions, CleanupCommit(s)
      PROVE  RowsTyped'
  <2>1. rows' = [o \in Objects |-> IF o \in tx[s].objs THEN NoRow ELSE rows[o]]
        /\ UNCHANGED <<issued, known>>
    BY <1>8 DEF CleanupCommit, Dropped
  <2>2. NoRow \in Row /\ NoRow.owner = 0 /\ NoRow.token = 0
    BY DEF NoRow, Row
  <2>3. \A o \in Objects : rows'[o] = NoRow \/ rows'[o] = rows[o]
    BY <2>1
  <2>4. rows' \in [Objects -> Row]
    BY <1>1, <2>1, <2>2 DEF RowsTyped
  <2>5. QED
    BY <1>1, <1>2, <2>1, <2>2, <2>3, <2>4 DEF RowsTyped
<1>9. QED
  BY <1>3, <1>4, <1>5, <1>6, <1>7, <1>8, RowSteps

\* A transaction's record stays typed, whatever stage and objects it takes.
LEMMA TxChange ==
    ASSUME TypeOK, NEW s \in Sessions, NEW record \in Tx,
           tx' = [tx EXCEPT ![s] = record]
    PROVE  /\ tx' \in [Sessions -> Tx]
           /\ tx'[s] = record
           /\ \A t \in Sessions \ {s} : tx'[t] = tx[t]
BY DEF TypeOK

\* What one session does to its own transaction: end it, begin one, take the
\* next stage, or take objects.
Moved(s) ==
    \/ tx' = tx
    \/ tx' = [tx EXCEPT ![s] = Idle]
    \/ \E op \in Op \ {"idle"}, objs \in SUBSET Objects,
          n \in Nat, how \in {"-", "owned", "unowned", "AVAILABLE", "QUARANTINED",
                              "immediate", "deferred"} :
          /\ op # "refer" => n \in 1..Len(attempts)
          /\ op = "transition" => how \in {"AVAILABLE", "QUARANTINED"}
          /\ op = "register" => \E o \in Objects : objs = {o}
          /\ tx' = [tx EXCEPT ![s] = [op |-> op, stage |-> "begun", att |-> n,
                                      objs |-> objs, how |-> how]]
    \/ \E stage \in {"locked", "written"}, objs \in SUBSET Objects :
          /\ tx[s].op \in IF stage = "locked" THEN {"reissue", "cleanup"}
                                              ELSE {"register", "cleanup"}
          /\ tx[s].op = "register" => objs = tx[s].objs
          /\ tx' = [tx EXCEPT ![s] = [tx[s] EXCEPT !.stage = stage, !.objs = objs]]
    \/ \E objs \in SUBSET Objects :
          /\ tx[s].op = "publish"
          /\ tx' = [tx EXCEPT ![s] = [tx[s] EXCEPT !.objs = objs]]

\* Whatever a session does to its transaction, it stays well formed.
LEMMA MovedKeepsForm ==
    ASSUME TypeOK, TxAreFormed, NEW s \in Sessions, Moved(s),
           Len(attempts) \in Nat, Len(attempts') \in Nat, Len(attempts') >= Len(attempts)
    PROVE  tx' \in [Sessions -> Tx] /\ TxAreFormed'
<1>1. tx \in [Sessions -> Tx] /\ tx[s] \in Tx
  BY DEF TypeOK
<1>2. CASE tx' = tx
  BY <1>1, <1>2 DEF TxAreFormed
<1>3. ASSUME NEW record \in Tx, tx' = [tx EXCEPT ![s] = record],
             /\ record.op \in {"register", "reissue", "cleanup", "publish"} =>
                   record.att \in 1..Len(attempts)
             /\ record.stage = "locked" => record.op \in {"reissue", "cleanup"}
             /\ record.stage = "written" => record.op \in {"register", "cleanup"}
             /\ record.op = "transition" => record.how \in {"AVAILABLE", "QUARANTINED"}
             /\ record.op = "register" => \E o \in Objects : record.objs = {o}
      PROVE  tx' \in [Sessions -> Tx] /\ TxAreFormed'
  <2>1. /\ tx' \in [Sessions -> Tx] /\ tx'[s] = record
        /\ \A t \in Sessions \ {s} : tx'[t] = tx[t]
    BY <1>3, TxChange
  <2>2. 1..Len(attempts) \subseteq 1..Len(attempts')
    OBVIOUS
  <2>3. QED
    BY <1>3, <2>1, <2>2 DEF TxAreFormed
<1>4. CASE tx' = [tx EXCEPT ![s] = Idle]
  <2>1. Idle \in Tx /\ Idle.op = "idle" /\ Idle.stage = "begun"
    BY DEF Idle, Tx, Op
  <2>2. QED
    BY <1>3, <1>4, <2>1
<1>5. ASSUME NEW op \in Op \ {"idle"}, NEW objs \in SUBSET Objects, NEW n \in Nat,
             NEW how \in {"-", "owned", "unowned", "AVAILABLE", "QUARANTINED",
                          "immediate", "deferred"},
             op # "refer" => n \in 1..Len(attempts),
             op = "transition" => how \in {"AVAILABLE", "QUARANTINED"},
             op = "register" => \E o \in Objects : objs = {o},
             tx' = [tx EXCEPT ![s] = [op |-> op, stage |-> "begun", att |-> n,
                                      objs |-> objs, how |-> how]]
      PROVE  tx' \in [Sessions -> Tx] /\ TxAreFormed'
  <2> DEFINE record == [op |-> op, stage |-> "begun", att |-> n, objs |-> objs, how |-> how]
  <2>1. record \in Tx
    BY DEF Tx, Op
  <2>2. /\ record.op = op /\ record.att = n /\ record.stage = "begun" /\ record.how = how
        /\ record.objs = objs
        /\ tx' = [tx EXCEPT ![s] = record]
    BY <1>5
  <2> HIDE DEF record
  <2>3. QED
    BY <1>3, <1>5, <2>1, <2>2
<1>6. ASSUME NEW stage \in {"begun", "locked", "written"}, NEW objs \in SUBSET Objects,
             stage = "begun" => tx[s].stage = "begun",
             stage = "locked" => tx[s].op \in {"reissue", "cleanup"},
             stage = "written" => tx[s].op \in {"register", "cleanup"},
             tx[s].op = "register" => objs = tx[s].objs,
             tx' = [tx EXCEPT ![s] = [tx[s] EXCEPT !.stage = stage, !.objs = objs]]
      PROVE  tx' \in [Sessions -> Tx] /\ TxAreFormed'
  <2> DEFINE record == [tx[s] EXCEPT !.stage = stage, !.objs = objs]
  <2>1. /\ record \in Tx /\ record.op = tx[s].op /\ record.att = tx[s].att
        /\ record.stage = stage /\ record.how = tx[s].how
        /\ record.objs = objs
    BY <1>1 DEF Tx
  <2>2. tx' = [tx EXCEPT ![s] = record]
    BY <1>6
  <2> HIDE DEF record
  <2>3. /\ record.op \in {"register", "reissue", "cleanup", "publish"} =>
              record.att \in 1..Len(attempts)
        /\ record.stage = "locked" => record.op \in {"reissue", "cleanup"}
        /\ record.stage = "written" => record.op \in {"register", "cleanup"}
        /\ record.op = "transition" => record.how \in {"AVAILABLE", "QUARANTINED"}
        /\ record.op = "register" => \E o \in Objects : record.objs = {o}
    BY <1>6, <2>1 DEF TxAreFormed
  <2>4. QED
    BY <1>3, <2>1, <2>2, <2>3
<1>7. ASSUME NEW objs \in SUBSET Objects, tx[s].op = "publish",
             tx' = [tx EXCEPT ![s] = [tx[s] EXCEPT !.objs = objs]]
      PROVE  tx' \in [Sessions -> Tx] /\ TxAreFormed'
  <2> DEFINE record == [tx[s] EXCEPT !.objs = objs]
  <2>1. /\ record \in Tx /\ record.op = "publish" /\ record.att = tx[s].att
        /\ record.stage = tx[s].stage
    BY <1>1, <1>7 DEF Tx
  <2>2. tx' = [tx EXCEPT ![s] = record]
    BY <1>7
  <2> HIDE DEF record
  <2>3. QED
    BY <1>3, <1>7, <2>1, <2>2 DEF TxAreFormed
<1>8. ASSUME NEW stage \in {"locked", "written"}, NEW objs \in SUBSET Objects,
             tx[s].op \in IF stage = "locked" THEN {"reissue", "cleanup"}
                                              ELSE {"register", "cleanup"},
             tx[s].op = "register" => objs = tx[s].objs,
             tx' = [tx EXCEPT ![s] = [tx[s] EXCEPT !.stage = stage, !.objs = objs]]
      PROVE  tx' \in [Sessions -> Tx] /\ TxAreFormed'
  BY <1>6, <1>8
<1>9. QED
  BY <1>2, <1>4, <1>5, <1>7, <1>8, ZenonT(60) DEF Moved

\* Each session's step does one of these to its transaction.
LEMMA SessionsMove ==
    ASSUME TypeOK, TxAreFormed, NEW s \in Sessions,
           \/ Registering(s) \/ Transitioning(s) \/ Reissuing(s)
           \/ Cleaning(s) \/ Referring(s) \/ Abort(s)
    PROVE  Moved(s)
<1> DEFINE Hows == {"-", "owned", "unowned", "AVAILABLE", "QUARANTINED",
                    "immediate", "deferred"}
<1>1. tx[s] \in Tx /\ tx[s].objs \in SUBSET Objects
  BY DEF TypeOK, Tx
<1>2. ASSUME NEW op \in Op \ {"idle"}, NEW objs \in SUBSET Objects, NEW n \in Nat,
             NEW how \in Hows,
             op # "refer" => n \in 1..Len(attempts),
             op = "transition" => how \in {"AVAILABLE", "QUARANTINED"},
             op = "register" => \E o \in Objects : objs = {o},
             Begin(s, op, n, objs, how)
      PROVE  Moved(s)
  BY <1>2 DEF Moved, Begin
<1>3. ASSUME NEW stage \in {"locked", "written"}, Reach(s, stage),
             tx[s].op \in IF stage = "locked" THEN {"reissue", "cleanup"}
                                              ELSE {"register", "cleanup"}
      PROVE  Moved(s)
  <2>1. [tx[s] EXCEPT !.stage = stage] = [tx[s] EXCEPT !.stage = stage, !.objs = tx[s].objs]
    BY <1>1 DEF Tx
  <2>2. tx' = [tx EXCEPT ![s] = [tx[s] EXCEPT !.stage = stage, !.objs = tx[s].objs]]
    BY <1>3, <2>1 DEF Reach
  <2>3. QED
    BY <1>1, <1>3, <2>2 DEF Moved
<1>4. ASSUME Finish(s)
      PROVE  Moved(s)
  BY <1>4 DEF Moved, Finish
<1>5. CASE Registering(s)
  <2>1. ASSUME NEW n \in DOMAIN attempts, NEW o \in Objects,
               NEW how \in {"owned", "unowned"}, RegisterBegin(s, n, o, how)
        PROVE  Moved(s)
    <3>1. /\ n \in Nat /\ n \in 1..Len(attempts) /\ {o} \in SUBSET Objects
          /\ Begin(s, "register", n, {o}, how) /\ \E p \in Objects : {o} = {p}
      BY <2>1, AttemptsAreFunctions DEF RegisterBegin
    <3>2. "register" \in Op \ {"idle"}
      BY DEF Op
    <3>3. QED
      BY <1>2, <3>1, <3>2
  <2>2. ASSUME NEW o \in Objects, RegisterInsert(s, o) \/ RegisterCommit(s, o)
        PROVE  Moved(s)
    BY <1>3, <1>4, <2>2 DEF RegisterInsert, RegisterCommit, At
  <2>3. QED
    BY <1>5, <2>1, <2>2 DEF Registering
<1>6. CASE Transitioning(s)
  <2>1. ASSUME NEW n \in DOMAIN attempts, NEW o \in Objects,
               NEW target \in {"AVAILABLE", "QUARANTINED"}, TransitionBegin(s, n, o, target)
        PROVE  Moved(s)
    <3>1. /\ n \in Nat /\ n \in 1..Len(attempts) /\ {o} \in SUBSET Objects
          /\ Begin(s, "transition", n, {o}, target)
      BY <2>1, AttemptsAreFunctions DEF TransitionBegin
    <3>2. "transition" \in Op \ {"idle"}
      BY DEF Op
    <3>3. QED
      BY <1>2, <3>1, <3>2
  <2>2. QED
    BY <1>4, <1>6, <2>1 DEF Transitioning, TransitionUpdate
<1>7. CASE Reissuing(s)
  <2>1. ASSUME NEW n \in DOMAIN attempts, NEW o \in Objects, ReissueBegin(s, n, o)
        PROVE  Moved(s)
    BY <1>2, <2>1, AttemptsAreFunctions DEF ReissueBegin, Op
  <2>2. QED
    BY <1>3, <1>4, <1>7, <2>1 DEF Reissuing, ReissueLockCaller, ReissueCommit, At
<1>8. CASE Cleaning(s)
  <2>1. ASSUME NEW n \in DOMAIN attempts, NEW objs \in (SUBSET Objects) \ {{}},
               CleanupBegin(s, n, objs)
        PROVE  Moved(s)
    BY <1>2, <2>1, AttemptsAreFunctions DEF CleanupBegin, Op
  <2>2. CASE CleanupLock(s) \/ CleanupCommit(s)
    BY <1>3, <1>4, <2>2 DEF CleanupLock, CleanupCommit, At
  <2>3. CASE \E o \in Objects : RemoveBytes(s, o)
    BY <2>3 DEF RemoveBytes, Moved
  <2>4. CASE CleanupDelete(s)
    <3> DEFINE existing == {o \in tx[s].objs : Present(o)}
    <3>1. existing \in SUBSET Objects
      BY <1>1
    <3>2. CASE tx' = [tx EXCEPT ![s].stage = "written", ![s].objs = existing]
      <4>1. tx' = [tx EXCEPT ![s] = [tx[s] EXCEPT !.stage = "written", !.objs = existing]]
        BY <3>2 DEF TypeOK
      <4> HIDE DEF existing
      <4>2. QED
        BY <2>4, <3>1, <4>1 DEF CleanupDelete, At, Moved
    <3>3. QED
      BY <1>4, <2>4, <3>2 DEF CleanupDelete
  <2>5. QED
    BY <1>8, <2>1, <2>2, <2>3, <2>4 DEF Cleaning
<1>9. CASE Referring(s)
  <2>1. ASSUME NEW n \in DOMAIN attempts, PublishBegin(s, n)
        PROVE  Moved(s)
    BY <1>2, <2>1, AttemptsAreFunctions DEF PublishBegin, Op
  <2>2. ASSUME NEW o \in Objects, NEW how \in {"immediate", "deferred"}, ReferBegin(s, o, how)
        PROVE  Moved(s)
    BY <1>2, <2>2 DEF ReferBegin, Op
  <2>3. ASSUME NEW o \in Objects, PublishReference(s, o)
        PROVE  Moved(s)
    <3>1. /\ tx[s].op = "publish" /\ tx[s].objs \cup {o} \in SUBSET Objects
          /\ tx' = [tx EXCEPT ![s] = [tx[s] EXCEPT !.objs = tx[s].objs \cup {o}]]
      BY <1>1, <2>3 DEF PublishReference
    <3>2. QED
      BY <3>1 DEF Moved
  <2>4. QED
    BY <1>4, <1>9, <2>1, <2>2, <2>3 DEF Referring, PublishCommit, ReferCommit
<1>10. QED
  BY <1>4, <1>5, <1>6, <1>7, <1>8, <1>9 DEF Abort

\* Transactions stay typed and well formed.
LEMMA TxAreFormedStep ==
    ASSUME TypeOK, TxAreFormed, [Next]_vars
    PROVE  tx' \in [Sessions -> Tx] /\ TxAreFormed'
<1>1. Len(attempts) \in Nat /\ Len(attempts') \in Nat /\ Len(attempts') >= Len(attempts)
  BY ClaimEffect, AttemptsStep, AttemptsAreFunctions DEF NoAttemptStarts
<1>2. CASE tx' = tx
  <2>1. 1..Len(attempts) \subseteq 1..Len(attempts')
    BY <1>1
  <2>2. QED
    BY <1>2, <2>1 DEF TxAreFormed, TypeOK
<1>3. CASE Attempting \/ (\E o \in Objects : Upload(o))
             \/ (\E o \in Objects, held \in BOOLEAN : SetHold(o, held)) \/ UNCHANGED vars
  BY <1>2, <1>3 DEF Attempting, Claim, LeaseRunsOut, Renew, EndAttempt, Upload, SetHold, vars
<1>4. QED
  BY <1>1, <1>3, SessionsMove, MovedKeepsForm DEF Next

\* Every step keeps the types.
LEMMA TypeStep ==
    ASSUME TypeOK, TxAreFormed, [Next]_vars
    PROVE  TypeOK'
<1>1. attempts' \in Seq(Attempt)
  BY ClaimEffect, AttemptsStep DEF NoAttemptStarts
<1>2. RowsTyped' /\ tx' \in [Sessions -> Tx]
  BY RowsTypedStep, TxAreFormedStep
<1>3. /\ bytes' \in [Objects -> {"none", "stored", "removed"}]
      /\ referenced' \subseteq Objects /\ results' \subseteq referenced'
  <2>1. \A s \in Sessions : tx[s].objs \subseteq Objects
    BY DEF TypeOK, Tx
  <2>2. CASE UNCHANGED <<bytes, referenced, results>>
    BY <2>2 DEF TypeOK
  <2>3. CASE Attempting \/ (\E o \in Objects : Upload(o))
             \/ (\E o \in Objects, held \in BOOLEAN : SetHold(o, held)) \/ UNCHANGED vars
    BY <2>3 DEF TypeOK, Attempting, Claim, LeaseRunsOut, Renew, EndAttempt, Upload,
       SetHold, vars
  <2>4. ASSUME NEW s \in Sessions, Registering(s) \/ Transitioning(s) \/ Reissuing(s) \/ Abort(s)
        PROVE  UNCHANGED <<bytes, referenced, results>>
    BY <2>4 DEF Registering, RegisterBegin, RegisterInsert, RegisterCommit, Transitioning,
       TransitionBegin, TransitionUpdate, Reissuing, ReissueBegin, ReissueLockCaller,
       ReissueCommit, Abort
  <2>5. ASSUME NEW s \in Sessions, Cleaning(s)
        PROVE  /\ bytes' \in [Objects -> {"none", "stored", "removed"}]
               /\ UNCHANGED <<referenced, results>>
    BY <2>5 DEF TypeOK, Cleaning, CleanupBegin, CleanupLock, CleanupDelete, RemoveBytes,
       CleanupCommit
  <2>6. ASSUME NEW s \in Sessions, Referring(s)
        PROVE  /\ referenced' \subseteq Objects /\ results' \subseteq referenced'
               /\ UNCHANGED bytes
    BY <2>1, <2>6 DEF TypeOK, Referring, PublishBegin, PublishReference, PublishCommit,
       ReferBegin, ReferCommit
  <2>7. QED
    BY <2>2, <2>3, <2>4, <2>5, <2>6 DEF Next, TypeOK
<1>4. QED
  BY <1>1, <1>2, <1>3 DEF TypeOK, RowsTyped

-----------------------------------------------------------------------------
(* Locks *)

Acts(s) ==
    \/ Registering(s) \/ Transitioning(s) \/ Reissuing(s)
    \/ Cleaning(s) \/ Referring(s) \/ Abort(s)

\* The steps that are no session's
Environment ==
    \/ Attempting
    \/ \E o \in Objects : Upload(o)
    \/ \E o \in Objects, held \in BOOLEAN : SetHold(o, held)

\* A step is the environment's or a session's.
LEMMA Cases ==
    ASSUME [Next]_vars
    PROVE  UNCHANGED vars \/ Environment \/ \E s \in Sessions : Acts(s)
BY DEF Next, Environment, Acts

\* The environment leaves the transactions alone.
LEMMA EnvironmentKeepsTx ==
    ASSUME Environment \/ UNCHANGED vars
    PROVE  tx' = tx
BY DEF Environment, Attempting, Claim, LeaseRunsOut, Renew, EndAttempt, Upload, SetHold, vars

\* A session's step is about its own transaction.
LEMMA OthersKeepTx ==
    ASSUME TypeOK, TxAreFormed, NEW s \in Sessions, Acts(s)
    PROVE  \A t \in Sessions \ {s} : tx'[t] = tx[t]
<1>1. Moved(s)
  BY SessionsMove DEF Acts
<1>2. QED
  BY <1>1 DEF TypeOK, Moved

\* What a transaction becomes by a step that begins, advances or ends it.
LEMMA TxBecomes ==
    ASSUME TypeOK, NEW s \in Sessions
    PROVE  /\ \A op, n, objs, how : Begin(s, op, n, objs, how) =>
                 tx'[s] = [op |-> op, stage |-> "begun", att |-> n, objs |-> objs, how |-> how]
           /\ \A stage : Reach(s, stage) => tx'[s] = [tx[s] EXCEPT !.stage = stage]
           /\ Finish(s) => tx'[s] = Idle
BY DEF TypeOK, Begin, Reach, Finish

\* The stages of a transaction, with the conditions under which it takes them.
Stays(s) == tx'[s] = tx[s]
Ends(s) == tx'[s].op = "idle" /\ tx'[s].stage = "begun" /\ tx'[s].objs = {}

Begins(s) ==
    /\ tx[s] = Idle
    /\ tx'[s].stage = "begun"
    /\ tx'[s].op \in Op \ {"idle"}
    /\ tx'[s].op \in {"register", "reissue", "cleanup", "publish", "transition"} =>
          tx'[s].att \in 1..Len(attempts)
    /\ tx'[s].op = "publish" => RunFree /\ tx'[s].objs = {}
    /\ tx'[s].op = "reissue" => \A o \in tx'[s].objs :
          rows[o].owner # 0 /\ NearKin(tx'[s].att, rows[o].owner)
    /\ tx'[s].op = "cleanup" => \A o \in tx'[s].objs :
          rows[o].owner # 0 => NearKin(tx'[s].att, rows[o].owner)
    /\ UNCHANGED <<attempts, rows, bytes, referenced, results, issued, known>>

Inserts(s) ==
    /\ At(s, "register", "begun")
    /\ tx'[s] = [tx[s] EXCEPT !.stage = "written"]
    /\ LiveClaim(tx[s].att)
    /\ \E o \in Objects : tx[s].objs = {o} /\ Unwritten(o) /\ ~Present(o)
    /\ UNCHANGED <<attempts, rows, bytes, referenced, results, issued, known>>

Locks(s) ==
    /\ tx[s].stage = "begun"
    /\ tx'[s] = [tx[s] EXCEPT !.stage = "locked"]
    /\ Newest(tx[s].att)
    /\ \/ tx[s].op = "reissue"
       \/ tx[s].op = "cleanup" /\ RunFree
    /\ UNCHANGED <<attempts, rows, bytes, referenced, results, issued, known>>

Deletes(s) ==
    /\ At(s, "cleanup", "locked")
    /\ tx'[s] = [tx[s] EXCEPT !.stage = "written", !.objs = {o \in tx[s].objs : Present(o)}]
    /\ \A o \in tx'[s].objs : o \in tx[s].objs /\ Present(o) /\ Unwritten(o) /\ Deletable(s, o)
    /\ UNCHANGED <<attempts, rows, bytes, referenced, results, issued, known>>

References(s) ==
    \E o \in Objects :
        /\ tx[s].op = "publish"
        /\ tx'[s] = [tx[s] EXCEPT !.objs = tx[s].objs \cup {o}]
        /\ bytes[o] = "stored" /\ Present(o) /\ Unwritten(o)
        /\ UNCHANGED <<attempts, rows, bytes, referenced, results, issued, known>>

\* Every step of a session is one of these.
LEMMA Strides ==
    ASSUME TypeOK, TxAreFormed, NEW s \in Sessions, Acts(s)
    PROVE  \/ Begins(s) \/ Inserts(s) \/ Locks(s) \/ Deletes(s) \/ References(s)
           \/ Ends(s) /\ UNCHANGED <<attempts, rows, bytes, referenced, results, issued, known>>
           \/ Stays(s) /\ \E o \in Objects : RemoveBytes(s, o)
           \/ Ends(s) /\ \E o \in Objects :
                 RegisterCommit(s, o) \/ TransitionUpdate(s, o) \/ ReissueCommit(s, o)
           \/ Ends(s) /\ CleanupCommit(s)
           \/ Ends(s) /\ PublishCommit(s)
           \/ Ends(s) /\ \E o \in Objects : ReferCommit(s, o)
<1>1. tx[s] \in Tx /\ tx[s].objs \in SUBSET Objects
  BY DEF TypeOK, Tx
<1>2. Finish(s) => Ends(s)
  BY TxBecomes DEF Ends, Idle
<1>3. CASE Registering(s)
  <2>1. ASSUME NEW n \in DOMAIN attempts, NEW o \in Objects,
               NEW how \in {"owned", "unowned"}, RegisterBegin(s, n, o, how)
        PROVE  Begins(s)
    <3>1. tx'[s] = [op |-> "register", stage |-> "begun", att |-> n, objs |-> {o}, how |-> how]
      BY <2>1, TxBecomes DEF RegisterBegin
    <3>2. QED
      BY <2>1, <3>1, AttemptsAreFunctions DEF RegisterBegin, Begin, Begins, Op
  <2>2. ASSUME NEW o \in Objects, RegisterInsert(s, o)
        PROVE  Inserts(s) \/ (Ends(s) /\ UNCHANGED <<attempts, rows, bytes, referenced,
                                                     results, issued, known>>)
    <3>1. CASE ~Present(o) /\ LiveClaim(tx[s].att) /\ Reach(s, "written")
      <4>1. tx[s].objs = {o}
        BY <2>2 DEF RegisterInsert, At, TxAreFormed
      <4>2. tx'[s] = [tx[s] EXCEPT !.stage = "written"]
        BY <3>1, TxBecomes
      <4>3. QED
        BY <2>2, <3>1, <4>1, <4>2 DEF RegisterInsert, Inserts
    <3>2. QED
      BY <1>2, <2>2, <3>1 DEF RegisterInsert
  <2>3. QED
    BY <1>2, <1>3, <2>1, <2>2 DEF Registering, RegisterCommit
<1>4. CASE Transitioning(s)
  <2>1. ASSUME NEW n \in DOMAIN attempts, NEW o \in Objects,
               NEW target \in {"AVAILABLE", "QUARANTINED"}, TransitionBegin(s, n, o, target)
        PROVE  Begins(s)
    <3>1. tx'[s] = [op |-> "transition", stage |-> "begun", att |-> n, objs |-> {o},
                    how |-> target]
      BY <2>1, TxBecomes DEF TransitionBegin
    <3>2. QED
      BY <2>1, <3>1, AttemptsAreFunctions DEF TransitionBegin, Begin, Begins, Op
  <2>2. QED
    BY <1>2, <1>4, <2>1 DEF Transitioning, TransitionUpdate
<1>5. CASE Reissuing(s)
  <2>1. ASSUME NEW n \in DOMAIN attempts, NEW o \in Objects, ReissueBegin(s, n, o)
        PROVE  Begins(s)
    <3>1. tx'[s] = [op |-> "reissue", stage |-> "begun", att |-> n, objs |-> {o}, how |-> "-"]
      BY <2>1, TxBecomes DEF ReissueBegin
    <3>2. QED
      BY <2>1, <3>1, AttemptsAreFunctions DEF ReissueBegin, Begin, Begins, Op
  <2>2. ASSUME ReissueLockCaller(s)
        PROVE  Locks(s) \/ (Ends(s) /\ UNCHANGED <<attempts, rows, bytes, referenced,
                                                   results, issued, known>>)
    BY <1>2, <2>2, TxBecomes DEF ReissueLockCaller, ReissueCaller, Locks, At
  <2>3. QED
    BY <1>2, <1>5, <2>1, <2>2 DEF Reissuing, ReissueCommit
<1>6. CASE Cleaning(s)
  <2>1. ASSUME NEW n \in DOMAIN attempts, NEW objs \in (SUBSET Objects) \ {{}},
               CleanupBegin(s, n, objs)
        PROVE  Begins(s)
    <3>1. tx'[s] = [op |-> "cleanup", stage |-> "begun", att |-> n, objs |-> objs, how |-> "-"]
      BY <2>1, TxBecomes DEF CleanupBegin
    <3>2. QED
      BY <2>1, <3>1, AttemptsAreFunctions DEF CleanupBegin, Begin, Begins, Op
  <2>2. ASSUME CleanupLock(s)
        PROVE  Locks(s) \/ (Ends(s) /\ UNCHANGED <<attempts, rows, bytes, referenced,
                                                   results, issued, known>>)
    BY <1>2, <2>2, TxBecomes DEF CleanupLock, CleanupCaller, Locks, At
  <2>3. ASSUME CleanupDelete(s)
        PROVE  Deletes(s) \/ (Ends(s) /\ UNCHANGED <<attempts, rows, bytes, referenced,
                                                     results, issued, known>>)
    <3> DEFINE existing == {o \in tx[s].objs : Present(o)}
    <3>1. CASE /\ AllDeletable(s, existing)
               /\ tx' = [tx EXCEPT ![s].stage = "written", ![s].objs = existing]
      <4>1. tx'[s] = [tx[s] EXCEPT !.stage = "written", !.objs = existing]
        BY <3>1 DEF TypeOK
      <4>2. tx'[s].objs = existing
        BY <1>1, <4>1 DEF Tx
      <4>3. QED
        BY <2>3, <3>1, <4>1, <4>2 DEF CleanupDelete, AllDeletable, Deletes
    <3>2. QED
      BY <1>2, <2>3, <3>1 DEF CleanupDelete
  <2>4. ASSUME NEW o \in Objects, RemoveBytes(s, o)
        PROVE  Stays(s)
    BY <2>4 DEF RemoveBytes, Stays
  <2>5. QED
    BY <1>2, <1>6, <2>1, <2>2, <2>3, <2>4 DEF Cleaning, CleanupCommit
<1>7. CASE Referring(s)
  <2>1. ASSUME NEW n \in DOMAIN attempts, PublishBegin(s, n)
        PROVE  Begins(s)
    <3>1. tx'[s] = [op |-> "publish", stage |-> "begun", att |-> n, objs |-> {}, how |-> "-"]
      BY <2>1, TxBecomes DEF PublishBegin
    <3>2. QED
      BY <2>1, <3>1, AttemptsAreFunctions DEF PublishBegin, Begin, Begins, Op
  <2>2. ASSUME NEW o \in Objects, NEW how \in {"immediate", "deferred"}, ReferBegin(s, o, how)
        PROVE  Begins(s)
    <3>1. tx'[s] = [op |-> "refer", stage |-> "begun", att |-> 0, objs |-> {o}, how |-> how]
      BY <2>2, TxBecomes DEF ReferBegin
    <3>2. QED
      BY <2>2, <3>1 DEF ReferBegin, Begin, Begins, Op
  <2>3. ASSUME NEW o \in Objects, PublishReference(s, o)
        PROVE  References(s)
    <3>1. tx'[s] = [tx[s] EXCEPT !.objs = tx[s].objs \cup {o}]
      BY <2>3 DEF PublishReference, TypeOK
    <3>2. QED
      BY <2>3, <3>1 DEF PublishReference, References
  <2>4. QED
    BY <1>2, <1>7, <2>1, <2>2, <2>3 DEF Referring, PublishCommit, ReferCommit
<1>8. QED
  BY <1>2, <1>3, <1>4, <1>5, <1>6, <1>7 DEF Acts, Abort

\* The run row is taken only while nobody holds it.
LEMMA RunLockExcludesStep ==
    ASSUME TypeOK, TxAreFormed, RunLockExcludes, [Next]_vars
    PROVE  RunLockExcludes'
<1>1. CASE tx' = tx
  BY <1>1 DEF RunLockExcludes, HoldsRun
<1>2. ASSUME NEW s \in Sessions, Acts(s)
      PROVE  RunLockExcludes'
  <2>1. tx[s] \in Tx
    BY DEF TypeOK
  <2>2. HoldsRun(s)' => HoldsRun(s) \/ RunFree
    BY <1>2, <2>1, Strides DEF HoldsRun, Begins, Inserts, Locks, Deletes, References, Ends,
       Stays, Idle, At, Tx
  <2>3. \A t \in Sessions \ {s} : HoldsRun(t)' = HoldsRun(t)
    BY <1>2, OthersKeepTx DEF HoldsRun
  <2>4. QED
    BY <2>2, <2>3 DEF RunLockExcludes, RunFree
<1>3. QED
  BY <1>1, <1>2, Cases, EnvironmentKeepsTx

\* An object row is written only while nobody else has written it.
LEMMA RowLockExcludesStep ==
    ASSUME TypeOK, TxAreFormed, RowLockExcludes, [Next]_vars
    PROVE  RowLockExcludes'
<1>1. CASE tx' = tx
  BY <1>1 DEF RowLockExcludes, Writes
<1>2. ASSUME NEW s \in Sessions, Acts(s)
      PROVE  RowLockExcludes'
  <2>1. tx[s] \in Tx
    BY DEF TypeOK
  <2>2. ASSUME NEW o \in Objects, Writes(s, o)'
        PROVE  Writes(s, o) \/ Unwritten(o)
    <3>1. CASE Inserts(s)
      BY <2>1, <2>2, <3>1 DEF Writes, Inserts, Tx
    <3>2. CASE Deletes(s)
      BY <2>2, <3>2 DEF Writes, Deletes
    <3>3. CASE Stays(s)
      BY <2>2, <3>3 DEF Writes, Stays
    <3>4. CASE Begins(s) \/ Locks(s) \/ References(s) \/ Ends(s)
      BY <2>1, <2>2, <3>4 DEF Writes, Begins, Locks, References, Ends, Tx, TxAreFormed
    <3>5. QED
      BY <1>2, <3>1, <3>2, <3>3, <3>4, Strides
  <2>3. \A t \in Sessions \ {s}, o \in Objects : Writes(t, o)' = Writes(t, o)
    BY <1>2, OthersKeepTx DEF Writes
  <2>4. QED
    BY <2>2, <2>3 DEF RowLockExcludes, Unwritten
<1>3. QED
  BY <1>1, <1>2, Cases, EnvironmentKeepsTx

\* A claim waits for the run row and the newest attempt's row.
LEMMA HoldersAreNewestStep ==
    ASSUME TypeOK, TxAreFormed, HoldersAreNewest, [Next]_vars
    PROVE  HoldersAreNewest'
<1> DEFINE Holds(s) == tx[s].op \in {"reissue", "cleanup"} /\ tx[s].stage # "begun"
<1>1. CASE Claim
  <2>1. tx' = tx
    BY <1>1 DEF Claim
  <2>2. \A s \in Sessions : Holds(s) => FALSE
    <3>1. SUFFICES ASSUME NEW s \in Sessions, Holds(s)
                   PROVE  FALSE
      OBVIOUS
    <3>2. tx[s] \in Tx /\ Len(attempts) \in Nat /\ tx[s].att = Len(attempts)
          /\ tx[s].att \in 1..Len(attempts)
      BY <3>1, AttemptsAreFunctions DEF TypeOK, HoldersAreNewest, Newest, TxAreFormed
    <3>3. CASE tx[s].op = "cleanup"
      BY <1>1, <3>1, <3>3 DEF Claim, RunFree, HoldsRun
    <3>4. CASE tx[s].op = "reissue"
      <4>1. tx[s].stage = "locked"
        BY <3>1, <3>2, <3>4 DEF Tx, TxAreFormed
      <4>2. QED
        BY <1>1, <3>2, <3>4, <4>1 DEF Claim, AttemptFree, At
    <3>5. QED
      BY <3>1, <3>3, <3>4
  <2>3. QED
    BY <2>1, <2>2 DEF HoldersAreNewest
<1>2. CASE ~Claim
  <2>1. Len(attempts') = Len(attempts)
    BY <1>2, AttemptsStep DEF NoAttemptStarts
  <2>2. CASE tx' = tx
    BY <2>1, <2>2 DEF HoldersAreNewest, Newest
  <2>3. ASSUME NEW s \in Sessions, Acts(s)
        PROVE  HoldersAreNewest'
    <3>1. tx[s] \in Tx
      BY DEF TypeOK
    <3>2. Holds(s)' => tx'[s].att = tx[s].att /\ Newest(tx[s].att)
      BY <2>3, <3>1, Strides, ZenonT(60) DEF Begins, Inserts, Locks, Deletes, References, Ends,
         Stays, At, Tx, HoldersAreNewest, TxAreFormed
    <3>3. \A t \in Sessions \ {s} : tx'[t] = tx[t]
      BY <2>3, OthersKeepTx
    <3>4. QED
      BY <2>1, <3>2, <3>3 DEF HoldersAreNewest, Newest
  <2>4. QED
    BY <2>2, <2>3, Cases, EnvironmentKeepsTx
<1>3. QED
  BY <1>1, <1>2

\* Every step keeps the lock discipline.
LEMMA LocksStep ==
    ASSUME LocksInv, [Next]_vars
    PROVE  LocksInv'
BY TypeStep, TxAreFormedStep, OnlyNewestRunsStep, RunLockExcludesStep, RowLockExcludesStep,
   HoldersAreNewestStep DEF LocksInv

-----------------------------------------------------------------------------
(* Rows *)

\* Only a cleanup's commit takes a row away, only a registration's brings one.
LEMMA RowsStay ==
    ASSUME LocksInv, InsertedIsNew, [Next]_vars, NEW o \in Objects
    PROVE  /\ Present(o) => \/ Present(o)'
                            \/ \E s \in Sessions : CleanupCommit(s) /\ o \in tx[s].objs
           /\ Present(o)' => \/ Present(o)
                             \/ \E s \in Sessions : /\ At(s, "register", "written")
                                                    /\ tx[s].objs = {o} /\ Ends(s)
<1>1. rows \in [Objects -> Row] /\ tx \in [Sessions -> Tx]
  BY DEF LocksInv, TypeOK
<1>2. CASE UNCHANGED <<rows, issued, known>>
  BY <1>2 DEF Present
<1>3. ASSUME NEW p \in Objects, NEW held \in BOOLEAN, SetHold(p, held)
      PROVE  (Present(o)' <=> Present(o))
  BY <1>1, <1>3 DEF SetHold, Present, Row
<1>4. ASSUME NEW s \in Sessions, NEW p \in Objects, RegisterCommit(s, p)
      PROVE  /\ p # o => (Present(o)' <=> Present(o))
             /\ ~Present(p) /\ tx[s].objs = {p} /\ At(s, "register", "written") /\ Ends(s)
  <2>1. At(s, "register", "written") /\ p \in tx[s].objs
    BY <1>4 DEF RegisterCommit
  <2>2. tx[s].objs = {p}
    BY <2>1 DEF LocksInv, TxAreFormed, At
  <2>3. Registered(s, p).status = "STAGED"
    BY DEF Registered, NoRow
  <2>4. rows' = [rows EXCEPT ![p] = Registered(s, p)]
    BY <1>4 DEF RegisterCommit
  <2>5. Ends(s)
    BY <1>4, TxBecomes DEF RegisterCommit, Ends, Idle, LocksInv
  <2>6. ~Present(p)
    BY <2>1 DEF InsertedIsNew
  <2>7. QED
    BY <1>1, <2>1, <2>2, <2>3, <2>4, <2>5, <2>6 DEF Present
<1>5. ASSUME NEW s \in Sessions, NEW p \in Objects, TransitionUpdate(s, p)
      PROVE  (Present(o)' <=> Present(o))
  <2>1. tx[s].how \in {"AVAILABLE", "QUARANTINED"}
    BY <1>5 DEF LocksInv, TxAreFormed, TransitionUpdate, At
  <2>2. QED
    BY <1>1, <1>5, <2>1 DEF TransitionUpdate, MayBecome, Present, Row
<1>6. ASSUME NEW s \in Sessions, NEW p \in Objects, ReissueCommit(s, p)
      PROVE  (Present(o)' <=> Present(o))
  BY <1>1, <1>6 DEF ReissueCommit, Adopted, Present, Row
<1>7. ASSUME NEW s \in Sessions, CleanupCommit(s)
      PROVE  /\ o \notin tx[s].objs => rows'[o] = rows[o]
             /\ o \in tx[s].objs => ~Present(o)'
  BY <1>7 DEF CleanupCommit, Dropped, NoRow, Present
<1>8. QED
  <2>1. ASSUME NEW s \in Sessions, NEW p \in Objects, RegisterCommit(s, p)
        PROVE  \/ Present(o)' <=> Present(o)
               \/ ~Present(o) /\ At(s, "register", "written") /\ tx[s].objs = {o} /\ Ends(s)
    <3>1. CASE p = o
      BY <1>4, <2>1, <3>1
    <3>2. CASE p # o
      BY <1>4, <2>1, <3>2
    <3>3. QED
      BY <3>1, <3>2
  <2>2. CASE \E s \in Sessions : CleanupCommit(s)
    BY <1>7, <2>2 DEF Present
  <2>3. QED
    BY <1>2, <1>3, <1>5, <1>6, <2>1, <2>2, RowSteps

\* A row is inserted where there is none, and nobody else brings it meanwhile.
LEMMA InsertedIsNewStep ==
    ASSUME LocksInv, InsertedIsNew, [Next]_vars
    PROVE  InsertedIsNew'
<1>1. SUFFICES ASSUME NEW s \in Sessions, NEW o \in Objects,
                      At(s, "register", "written")', (o \in tx[s].objs)'
               PROVE  ~Present(o)'
  BY DEF InsertedIsNew
<1>2. tx[s] \in Tx
  BY DEF LocksInv, TypeOK
<1>3. TypeOK /\ TxAreFormed
  BY DEF LocksInv
<1>4. CASE tx'[s] = tx[s]
  <2>1. Writes(s, o) /\ ~Present(o)
    BY <1>1, <1>4 DEF InsertedIsNew, At, Writes
  <2>2. ASSUME Present(o)'
        PROVE  FALSE
    <3>1. PICK t \in Sessions : /\ At(t, "register", "written")
                                /\ tx[t].objs = {o} /\ Ends(t)
      BY <2>1, <2>2, RowsStay
    <3>2. t = s
      BY <2>1, <3>1 DEF LocksInv, RowLockExcludes, Writes, At
    <3>3. QED
      BY <1>1, <3>1, <3>2 DEF At, Ends
  <2>3. QED
    BY <2>2
<1>5. CASE Acts(s) /\ tx'[s] # tx[s]
  <2>1. Inserts(s)
    BY <1>1, <1>2, <1>3, <1>5, Strides DEF At, Begins, Locks, Deletes, References, Ends,
       Stays, Tx, TxAreFormed
  <2>2. tx[s].objs = {o} /\ ~Present(o) /\ rows' = rows
    BY <1>1, <1>2, <2>1 DEF Inserts, Tx
  <2>3. QED
    BY <2>2 DEF Present
<1>6. QED
  BY <1>3, <1>4, <1>5, Cases, EnvironmentKeepsTx, OthersKeepTx

\* References come with a commit, which has what it references.
LEMMA ReferencesGrow ==
    ASSUME [Next]_vars, NEW o \in Objects
    PROVE  /\ o \in referenced' =>
                 \/ o \in referenced
                 \/ \E s \in Sessions : PublishCommit(s) /\ o \in tx[s].objs
                 \/ \E s \in Sessions : ReferCommit(s, o)
           /\ o \in results' =>
                 \/ o \in results
                 \/ \E s \in Sessions : PublishCommit(s) /\ o \in tx[s].objs
<1>1. CASE UNCHANGED <<referenced, results>>
  BY <1>1
<1>2. CASE Environment \/ UNCHANGED vars
  BY <1>1, <1>2 DEF Environment, Attempting, Claim, LeaseRunsOut, Renew, EndAttempt, Upload,
     SetHold, vars
<1>3. ASSUME NEW s \in Sessions, Registering(s) \/ Transitioning(s) \/ Reissuing(s) \/ Abort(s)
      PROVE  UNCHANGED <<referenced, results>>
  BY <1>3 DEF Registering, RegisterBegin, RegisterInsert, RegisterCommit, Transitioning,
     TransitionBegin, TransitionUpdate, Reissuing, ReissueBegin, ReissueLockCaller,
     ReissueCommit, Abort
<1>4. ASSUME NEW s \in Sessions, Cleaning(s)
      PROVE  UNCHANGED <<referenced, results>>
  BY <1>4 DEF Cleaning, CleanupBegin, CleanupLock, CleanupDelete, RemoveBytes, CleanupCommit
<1>5. ASSUME NEW s \in Sessions, Referring(s)
      PROVE  \/ UNCHANGED <<referenced, results>>
             \/ PublishCommit(s)
             \/ \E p \in Objects : ReferCommit(s, p)
  BY <1>5 DEF Referring, PublishBegin, PublishReference, ReferBegin
<1>6. ASSUME NEW s \in Sessions, PublishCommit(s)
      PROVE  referenced' = referenced \cup tx[s].objs /\ results' = results \cup tx[s].objs
  BY <1>6 DEF PublishCommit
<1>7. ASSUME NEW s \in Sessions, NEW p \in Objects, ReferCommit(s, p)
      PROVE  referenced' = referenced \cup {p} /\ results' = results
  BY <1>7 DEF ReferCommit
<1>8. QED
  BY <1>1, <1>2, <1>3, <1>4, <1>5, <1>6, <1>7, Cases DEF Acts

\* Stored bytes are removed only by a cleanup that deletes their object.
LEMMA BytesStay ==
    ASSUME TypeOK, [Next]_vars, NEW o \in Objects, bytes[o] = "stored"
    PROVE  bytes'[o] = "stored" \/ \E s \in Sessions : RemoveBytes(s, o)
<1>1. CASE bytes' = bytes
  BY <1>1
<1>2. CASE Environment \/ UNCHANGED vars
  BY <1>2 DEF Environment, Attempting, Claim, LeaseRunsOut, Renew, EndAttempt, Upload,
     SetHold, vars, TypeOK
<1>3. ASSUME NEW s \in Sessions, Registering(s) \/ Transitioning(s) \/ Reissuing(s) \/ Abort(s)
      PROVE  bytes' = bytes
  BY <1>3 DEF Registering, RegisterBegin, RegisterInsert, RegisterCommit, Transitioning,
     TransitionBegin, TransitionUpdate, Reissuing, ReissueBegin, ReissueLockCaller,
     ReissueCommit, Abort
<1>4. ASSUME NEW s \in Sessions, Referring(s)
      PROVE  bytes' = bytes
  BY <1>4 DEF Referring, PublishBegin, PublishReference, PublishCommit, ReferBegin, ReferCommit
<1>5. ASSUME NEW s \in Sessions, Cleaning(s)
      PROVE  bytes' = bytes \/ \E p \in Objects : RemoveBytes(s, p)
  BY <1>5 DEF Cleaning, CleanupBegin, CleanupLock, CleanupDelete, CleanupCommit
<1>6. ASSUME NEW s \in Sessions, NEW p \in Objects, RemoveBytes(s, p)
      PROVE  p = o \/ bytes'[o] = bytes[o]
  BY <1>6 DEF RemoveBytes, TypeOK
<1>7. QED
  BY <1>1, <1>2, <1>3, <1>4, <1>5, <1>6, Cases DEF Acts

\* A hold is placed only on a row that nobody writes.
LEMMA HoldsRise ==
    ASSUME TypeOK, [Next]_vars, NEW o \in Objects, ~rows[o].held
    PROVE  ~rows'[o].held \/ Unwritten(o)
<1>1. rows \in [Objects -> Row]
  BY DEF TypeOK
<1>2. ASSUME NEW p \in Objects, NEW held \in BOOLEAN, SetHold(p, held)
      PROVE  ~rows'[o].held \/ Unwritten(o)
  BY <1>1, <1>2 DEF SetHold, Row
<1>3. ASSUME NEW s \in Sessions, NEW p \in Objects, RegisterCommit(s, p)
      PROVE  ~rows'[o].held
  <2>1. Registered(s, p).held = FALSE
    BY DEF Registered, NoRow
  <2>2. QED
    BY <1>1, <1>3, <2>1 DEF RegisterCommit
<1>4. ASSUME NEW s \in Sessions, NEW p \in Objects,
             TransitionUpdate(s, p) \/ ReissueCommit(s, p)
      PROVE  ~rows'[o].held
  BY <1>1, <1>4 DEF TransitionUpdate, ReissueCommit, Adopted, Row
<1>5. ASSUME NEW s \in Sessions, CleanupCommit(s)
      PROVE  ~rows'[o].held
  BY <1>5 DEF CleanupCommit, Dropped, NoRow
<1>6. QED
  BY <1>2, <1>3, <1>4, <1>5, RowSteps

\* Between its checks and its commit a cleanup holds the run row, and with it
\* keeps publications out, and its object rows, and with them everyone else.
LEMMA DeletedIsUnwantedStep ==
    ASSUME LocksInv, InsertedIsNew, DeletedIsUnwanted, [Next]_vars
    PROVE  DeletedIsUnwanted'
<1>1. SUFFICES ASSUME NEW s \in Sessions, Deleting(s)', NEW o \in Objects, (o \in tx[s].objs)'
               PROVE  Present(o)' /\ o \notin referenced' /\ ~rows'[o].held
  <2>1. \A s \in Sessions : tx'[s].objs \subseteq Objects
    BY LocksStep DEF LocksInv, TypeOK, Tx
  <2>2. QED
    BY <2>1 DEF DeletedIsUnwanted
<1>2. tx[s] \in Tx /\ TypeOK /\ TxAreFormed
  BY DEF LocksInv, TypeOK
<1>3. CASE tx'[s] = tx[s]
  <2>1. Deleting(s) /\ o \in tx[s].objs
    BY <1>1, <1>3 DEF Deleting, At
  <2>2. Writes(s, o) /\ HoldsRun(s) /\ tx[s].op = "cleanup" /\ ~Unwritten(o)
    BY <2>1 DEF Deleting, At, Writes, HoldsRun, Unwritten
  <2>3. Present(o) /\ o \notin referenced /\ ~rows[o].held
    BY <2>1 DEF DeletedIsUnwanted
  <2>4. ASSUME NEW t \in Sessions, CleanupCommit(t), o \in tx[t].objs
        PROVE  FALSE
    <3>1. Writes(t, o) /\ tx'[t] = Idle
      BY <1>2, <2>4, TxBecomes DEF CleanupCommit, At, Writes
    <3>2. t = s
      BY <2>2, <3>1 DEF LocksInv, RowLockExcludes
    <3>3. QED
      BY <1>3, <2>2, <3>1, <3>2 DEF Idle
  <2>5. ASSUME NEW t \in Sessions, PublishCommit(t)
        PROVE  FALSE
    BY <2>2, <2>5 DEF PublishCommit, HoldsRun, LocksInv, RunLockExcludes
  <2>6. ASSUME NEW t \in Sessions, ReferCommit(t, o)
        PROVE  FALSE
    BY <2>2, <2>6 DEF ReferCommit, Referable
  <2>7. QED
    BY <1>2, <2>2, <2>3, <2>4, <2>5, <2>6, RowsStay, ReferencesGrow, HoldsRise
<1>4. CASE Acts(s) /\ tx'[s] # tx[s]
  <2>1. Deletes(s)
    BY <1>1, <1>2, <1>4, Strides DEF Deleting, At, Begins, Inserts, Locks, References, Ends,
       Stays, Tx, TxAreFormed
  <2>2. QED
    BY <1>1, <2>1 DEF Deletes, Deletable, Present
<1>5. QED
  BY <1>2, <1>3, <1>4, Cases, EnvironmentKeepsTx, OthersKeepTx

\* A publication holds the run row, so no cleanup takes what it references.
LEMMA PublishedIsThereStep ==
    ASSUME LocksInv, InsertedIsNew, PublishedIsThere, [Next]_vars
    PROVE  PublishedIsThere'
<1>1. SUFFICES ASSUME NEW s \in Sessions, tx'[s].op = "publish",
                      NEW o \in Objects, o \in tx'[s].objs
               PROVE  Present(o)' /\ bytes'[o] = "stored"
  <2>1. \A s \in Sessions : tx'[s].objs \subseteq Objects
    BY LocksStep DEF LocksInv, TypeOK, Tx
  <2>2. QED
    BY <2>1 DEF PublishedIsThere
<1>2. tx[s] \in Tx /\ TypeOK /\ TxAreFormed
  BY DEF LocksInv, TypeOK
<1>3. CASE tx'[s] = tx[s]
  <2>1. Present(o) /\ bytes[o] = "stored" /\ tx[s].op = "publish" /\ HoldsRun(s)
    BY <1>1, <1>3 DEF PublishedIsThere, HoldsRun
  <2>2. ASSUME NEW t \in Sessions, CleanupCommit(t) \/ RemoveBytes(t, o)
        PROVE  FALSE
    BY <2>1, <2>2 DEF CleanupCommit, RemoveBytes, At, HoldsRun, LocksInv, RunLockExcludes
  <2>3. QED
    BY <1>2, <2>1, <2>2, RowsStay, BytesStay
<1>4. CASE Acts(s) /\ tx'[s] # tx[s]
  <2>1. References(s)
    BY <1>1, <1>2, <1>4, Strides DEF At, Begins, Inserts, Locks, Deletes, Ends, Stays, Tx,
       TxAreFormed
  <2>2. QED
    BY <1>1, <1>2, <2>1 DEF References, PublishedIsThere, Present, Tx
<1>5. QED
  BY <1>2, <1>3, <1>4, Cases, EnvironmentKeepsTx, OthersKeepTx

\* Every step keeps what the locks protect.
LEMMA RowsStep ==
    ASSUME LocksInv, RowsInv, [Next]_vars
    PROVE  RowsInv'
<1> USE DEF RowsInv
<1>1. InsertedIsNew' /\ DeletedIsUnwanted' /\ PublishedIsThere'
  BY InsertedIsNewStep, DeletedIsUnwantedStep, PublishedIsThereStep
<1>2. TypeOK /\ referenced \subseteq Objects /\ results \subseteq referenced
  BY DEF LocksInv, TypeOK
<1>3. TypeOK' /\ referenced' \subseteq Objects /\ results' \subseteq referenced'
  BY LocksStep DEF LocksInv, TypeOK
<1>4. ASSUME NEW s \in Sessions, NEW o \in Objects, PublishCommit(s), o \in tx[s].objs
      PROVE  Present(o)' /\ bytes'[o] = "stored"
  BY <1>4 DEF PublishCommit, PublishedIsThere, Present
<1>5. ASSUME NEW s \in Sessions, NEW o \in Objects, ReferCommit(s, o)
      PROVE  Present(o)'
  BY <1>5 DEF ReferCommit, Referable, Present
<1>6. ASSUME NEW s \in Sessions, NEW o \in Objects, o \in referenced,
             CleanupCommit(s) \/ RemoveBytes(s, o)
      PROVE  o \notin tx[s].objs
  BY <1>6 DEF CleanupCommit, RemoveBytes, DeletedIsUnwanted, Deleting
<1>7. ReferencesResolve'
  <2>1. SUFFICES ASSUME NEW o \in Objects, o \in referenced'
                 PROVE  Present(o)'
    BY <1>3 DEF ReferencesResolve
  <2>2. CASE o \in referenced
    BY <1>6, <2>2, RowsStay DEF ReferencesResolve
  <2>3. QED
    BY <1>4, <1>5, <2>1, <2>2, ReferencesGrow
<1>8. ResultsAgree'
  <2>1. SUFFICES ASSUME NEW o \in Objects, o \in results'
                 PROVE  bytes'[o] = "stored"
    BY <1>3, <1>7 DEF ResultsAgree, ReferencesResolve
  <2>2. CASE o \in results
    <3>1. bytes[o] = "stored" /\ o \in referenced
      BY <1>2, <2>2 DEF ResultsAgree
    <3>2. \A s \in Sessions : ~RemoveBytes(s, o)
      BY <1>6, <3>1 DEF RemoveBytes
    <3>3. QED
      BY <1>2, <3>1, <3>2, BytesStay
  <2>3. QED
    BY <1>4, <2>1, <2>2, ReferencesGrow
<1>9. QED
  BY <1>1, <1>7, <1>8

-----------------------------------------------------------------------------
(* The theorems *)

\* Initially nobody holds anything.
LEMMA InitHolds ==
    ASSUME Init
    PROVE  LocksInv /\ RowsInv
<1>1. TypeOK
  BY DEF Init, TypeOK, Row, NoRow, Tx, Op, Idle
<1>2. TxAreFormed /\ OnlyNewestRuns /\ RunLockExcludes /\ RowLockExcludes /\ HoldersAreNewest
  BY DEF Init, Idle, TxAreFormed, OnlyNewestRuns, RunLockExcludes, RowLockExcludes,
     HoldersAreNewest, HoldsRun, Writes
<1>3. RowsInv
  BY DEF Init, Idle, RowsInv, InsertedIsNew, DeletedIsUnwanted, Deleting, PublishedIsThere,
     ReferencesResolve, ResultsAgree, At
<1>4. QED
  BY <1>1, <1>2, <1>3 DEF LocksInv

\* The locks and what they protect, for any objects, sessions and attempts.
LEMMA LocksProtectRows == Spec => [](LocksInv /\ RowsInv)
<1>1. LocksInv /\ RowsInv /\ [Next]_vars => (LocksInv /\ RowsInv)'
  BY LocksStep, RowsStep
<1>2. QED
  BY <1>1, InitHolds, PTL DEF Spec

\* Rows and transactions are typed, a cleanup that deletes is the newest
\* attempt's, and a committed reference finds its object's row.
THEOREM ObjectsHold == Spec => []ObjectsInvariant
<1>1. LocksInv /\ RowsInv => ObjectsInvariant
  BY DEF LocksInv, RowsInv, ObjectsInvariant, HoldersAreNewest, CleanerIsNewest, Deleting, At
<1>2. QED
  BY <1>1, LocksProtectRows, PTL

\* What a cleanup deletes stays unreferenced and not held until it commits.
THEOREM DeletionsStayUnwanted == Spec => []DeletedIsUnwanted
<1>1. LocksInv /\ RowsInv => DeletedIsUnwanted
  BY DEF RowsInv
<1>2. QED
  BY <1>1, LocksProtectRows, PTL

\* Every object of a published result keeps its row and its bytes.
THEOREM ResultsStay == Spec => []ResultsAgree
<1>1. LocksInv /\ RowsInv => ResultsAgree
  BY DEF RowsInv
<1>2. QED
  BY <1>1, LocksProtectRows, PTL

-----------------------------------------------------------------------------
(***************************************************************************)
(* Who may adopt and delete an object. The gate on kinship is read before  *)
(* any lock is taken; it still decides because an owner that changes       *)
(* meanwhile comes with a new token, and is the newest attempt or one that *)
(* was inserting a row that was not there.                                 *)
(***************************************************************************)

\* An ownership row holds the newest token of its object.
TokensAreNewest ==
    \A o \in Objects :
        /\ rows[o].owner # 0 => rows[o].token = issued[o]
        /\ \A s \in Sessions : known[s][o] <= issued[o]

\* A cleanup was let through by the gate for each of its objects, or knows
\* an old token of it.
CleanupIsNear ==
    \A s \in Sessions : tx[s].op = "cleanup" =>
        \A o \in tx[s].objs : rows[o].owner # 0 =>
            \/ NearKin(tx[s].att, rows[o].owner)
            \/ known[s][o] < issued[o]

\* A reissue was let through by the gate; whoever came to own its object
\* since, or is about to, is no older than its caller.
ReissueIsNear ==
    \A s \in Sessions : tx[s].op = "reissue" =>
        \A o \in tx[s].objs :
            /\ rows[o].owner # 0 =>
                  NearKin(tx[s].att, rows[o].owner) \/ rows[o].owner > tx[s].att
            /\ \A t \in Sessions :
                  At(t, "register", "written") /\ o \in tx[t].objs =>
                      tx[t].att >= tx[s].att

KinInv ==
    TokensAreNewest /\ CleanupIsNear /\ ReissueIsNear /\ DeletedByKin

-----------------------------------------------------------------------------
(* Owners and tokens *)

\* A token that is replaced is replaced by a new one, given to the session that
\* asked for it; owners change with tokens.
LEMMA TokensMove ==
    ASSUME LocksInv, InsertedIsNew, TokensAreNewest, [Next]_vars, NEW o \in Objects
    PROVE  \/ /\ rows'[o].owner = rows[o].owner /\ rows'[o].token = rows[o].token
              /\ issued'[o] = issued[o]
              /\ \A s \in Sessions : known'[s][o] = known[s][o]
           \/ /\ \E s \in Sessions : Ends(s) /\ Writes(s, o)
              /\ ~Present(o) \/ ~Present(o)'
              /\ rows'[o].owner = 0 /\ issued'[o] = issued[o]
              /\ \A s \in Sessions : known'[s][o] = known[s][o]
           \/ \E s \in Sessions :
                 /\ Ends(s) /\ o \in tx[s].objs
                 /\ \/ At(s, "register", "written")
                    \/ At(s, "reissue", "locked") /\ rows[o].owner # 0 /\ Unwritten(o)
                 /\ rows'[o].owner = tx[s].att /\ rows'[o].token = issued[o] + 1
                 /\ issued'[o] = issued[o] + 1 /\ known'[s][o] = issued[o] + 1
                 /\ \A t \in Sessions \ {s} : known'[t][o] = known[t][o]
<1>1. /\ rows \in [Objects -> Row] /\ tx \in [Sessions -> Tx] /\ issued \in [Objects -> Nat]
      /\ TypeOK /\ RowsTyped
  BY DEF LocksInv, TypeOK, RowsTyped
<1>2. CASE UNCHANGED <<rows, issued, known>>
  BY <1>2
<1>3. ASSUME NEW p \in Objects, NEW held \in BOOLEAN, SetHold(p, held)
      PROVE  /\ rows'[o].owner = rows[o].owner /\ rows'[o].token = rows[o].token
             /\ UNCHANGED <<issued, known>>
  BY <1>1, <1>3 DEF SetHold, Row
<1>4. ASSUME NEW s \in Sessions, NEW p \in Objects, TransitionUpdate(s, p)
      PROVE  /\ rows'[o].owner = rows[o].owner /\ rows'[o].token = rows[o].token
             /\ UNCHANGED <<issued, known>>
  BY <1>1, <1>4 DEF TransitionUpdate, Row
<1>5. ASSUME NEW s \in Sessions, CleanupCommit(s)
      PROVE  /\ \/ rows'[o] = rows[o]
                \/ rows'[o].owner = 0 /\ Ends(s) /\ Writes(s, o) /\ ~Present(o)'
             /\ UNCHANGED <<issued, known>>
  <2>1. Ends(s)
    BY <1>1, <1>5, TxBecomes DEF CleanupCommit, Ends, Idle
  <2>2. QED
    BY <1>5, <2>1 DEF CleanupCommit, Dropped, NoRow, Writes, At, Present
<1>6. ASSUME NEW s \in Sessions, NEW p \in Objects, RegisterCommit(s, p)
      PROVE  \/ /\ rows'[o] = rows[o] /\ issued'[o] = issued[o]
                /\ \A t \in Sessions : known'[t][o] = known[t][o]
             \/ /\ rows'[o].owner = 0 /\ UNCHANGED <<issued, known>>
                /\ Ends(s) /\ Writes(s, o) /\ ~Present(o)
             \/ /\ Ends(s) /\ o \in tx[s].objs /\ At(s, "register", "written")
                /\ rows'[o].owner = tx[s].att /\ rows'[o].token = issued[o] + 1
                /\ issued'[o] = issued[o] + 1 /\ known'[s][o] = issued[o] + 1
                /\ \A t \in Sessions \ {s} : known'[t][o] = known[t][o]
  <2>1. /\ At(s, "register", "written") /\ p \in tx[s].objs /\ Ends(s)
        /\ rows' = [rows EXCEPT ![p] = Registered(s, p)]
    BY <1>1, <1>6, TxBecomes DEF RegisterCommit, Ends, Idle
  <2>2. CASE tx[s].how = "owned" /\ IssueToken(s, p)
    <3>1. Registered(s, p).owner = tx[s].att /\ Registered(s, p).token = issued[p] + 1
      BY <2>2 DEF Registered
    <3>2. CASE p = o
      <4>1. /\ issued'[o] = issued[o] + 1 /\ known'[s][o] = issued[o] + 1
            /\ \A t \in Sessions \ {s} : known'[t][o] = known[t][o]
        BY <1>1, <2>2, <3>2, IssueEffect
      <4>2. rows'[o] = Registered(s, o)
        BY <1>1, <2>1, <3>2
      <4>3. QED
        BY <2>1, <3>1, <3>2, <4>1, <4>2
    <3>3. CASE p # o
      <4>1. issued'[o] = issued[o] /\ \A t \in Sessions : known'[t][o] = known[t][o]
        BY <1>1, <2>2, <3>3, IssueEffect
      <4>2. rows'[o] = rows[o]
        BY <1>1, <2>1, <3>3
      <4>3. QED
        BY <4>1, <4>2
    <3>4. QED
      BY <3>2, <3>3
  <2>3. CASE tx[s].how = "unowned" /\ UNCHANGED <<issued, known>>
    <3>1. Registered(s, p).owner = 0
      BY <2>3 DEF Registered, NoRow
    <3>2. CASE p = o
      BY <1>1, <2>1, <2>3, <3>1, <3>2 DEF Writes, At, InsertedIsNew
    <3>3. CASE p # o
      BY <1>1, <2>1, <2>3, <3>3
    <3>4. QED
      BY <3>2, <3>3
  <2>4. QED
    BY <1>6, <2>2, <2>3 DEF RegisterCommit
<1>7. ASSUME NEW s \in Sessions, NEW p \in Objects, ReissueCommit(s, p)
      PROVE  \/ /\ rows'[o] = rows[o] /\ issued'[o] = issued[o]
                /\ \A t \in Sessions : known'[t][o] = known[t][o]
             \/ /\ Ends(s) /\ o \in tx[s].objs /\ At(s, "reissue", "locked")
                /\ rows[o].owner # 0 /\ Unwritten(o)
                /\ rows'[o].owner = tx[s].att /\ rows'[o].token = issued[o] + 1
                /\ issued'[o] = issued[o] + 1 /\ known'[s][o] = issued[o] + 1
                /\ \A t \in Sessions \ {s} : known'[t][o] = known[t][o]
  <2>1. At(s, "reissue", "locked") /\ p \in tx[s].objs /\ Ends(s) /\ Unwritten(p)
    BY <1>1, <1>7, TxBecomes DEF ReissueCommit, Ends, Idle
  <2>2. CASE UNCHANGED <<rows, issued, known>>
    BY <2>2
  <2>3. CASE /\ Adoptable(tx[s].att, p) /\ IssueToken(s, p)
             /\ rows' = [rows EXCEPT ![p] = Adopted(tx[s].att, p)]
    <3>1. CASE p = o
      <4>1. /\ issued'[o] = issued[o] + 1 /\ known'[s][o] = issued[o] + 1
            /\ \A t \in Sessions \ {s} : known'[t][o] = known[t][o]
        BY <1>1, <2>3, <3>1, IssueEffect
      <4>2. rows'[o].owner = tx[s].att /\ rows'[o].token = issued[o] + 1
        BY <1>1, <2>3, <3>1 DEF Adopted, Row
      <4>3. rows[o].owner # 0
        BY <2>3, <3>1 DEF Adoptable
      <4>4. QED
        BY <2>1, <3>1, <4>1, <4>2, <4>3
    <3>2. CASE p # o
      <4>1. issued'[o] = issued[o] /\ \A t \in Sessions : known'[t][o] = known[t][o]
        BY <1>1, <2>3, <3>2, IssueEffect
      <4>2. rows'[o] = rows[o]
        BY <1>1, <2>3, <3>2
      <4>3. QED
        BY <4>1, <4>2
    <3>3. QED
      BY <3>1, <3>2
  <2>4. QED
    BY <1>7, <2>2, <2>3 DEF ReissueCommit
<1>8. QED
  <2>1. CASE \E s \in Sessions, p \in Objects : RegisterCommit(s, p)
    BY <1>6, <2>1
  <2>2. CASE \E s \in Sessions, p \in Objects : ReissueCommit(s, p)
    BY <1>7, <2>2
  <2>3. CASE \E s \in Sessions : CleanupCommit(s)
    BY <1>5, <2>3
  <2>4. QED
    BY <1>2, <1>3, <1>4, <2>1, <2>2, <2>3, RowSteps

\* A token is replaced by the next one.
LEMMA TokensAreNewestStep ==
    ASSUME LocksInv, InsertedIsNew, TokensAreNewest, [Next]_vars
    PROVE  TokensAreNewest'
<1>1. SUFFICES ASSUME NEW o \in Objects
               PROVE  /\ rows'[o].owner # 0 => rows'[o].token = issued'[o]
                      /\ \A s \in Sessions : known'[s][o] <= issued'[o]
  BY DEF TokensAreNewest
<1>2. issued[o] \in Nat /\ \A s \in Sessions : known[s][o] \in Nat
  BY DEF LocksInv, TypeOK
<1>3. /\ rows[o].owner # 0 => rows[o].token = issued[o]
      /\ \A s \in Sessions : known[s][o] <= issued[o]
  BY DEF TokensAreNewest
<1>4. QED
  BY <1>2, <1>3, TokensMove

\* An owner that changes during a cleanup takes a token the cleanup does not know.
LEMMA CleanupIsNearStep ==
    ASSUME LocksInv, InsertedIsNew, TokensAreNewest, CleanupIsNear, [Next]_vars
    PROVE  CleanupIsNear'
<1>1. SUFFICES ASSUME NEW s \in Sessions, tx'[s].op = "cleanup",
                      NEW o \in Objects, o \in tx'[s].objs, rows'[o].owner # 0
               PROVE  NearKin(tx'[s].att, rows'[o].owner) \/ known'[s][o] < issued'[o]
  <2>1. \A s \in Sessions : tx'[s].objs \subseteq Objects
    BY LocksStep DEF LocksInv, TypeOK, Tx
  <2>2. QED
    BY <2>1 DEF CleanupIsNear, NearKin
<1>2. tx[s] \in Tx /\ TypeOK /\ TxAreFormed
  BY DEF LocksInv, TypeOK
<1>3. CASE tx'[s] = tx[s]
  <2>1. /\ rows[o].owner # 0 => NearKin(tx[s].att, rows[o].owner) \/ known[s][o] < issued[o]
        /\ known[s][o] <= issued[o] /\ issued[o] \in Nat /\ known[s][o] \in Nat
    BY <1>1, <1>2, <1>3 DEF CleanupIsNear, TokensAreNewest, TypeOK
  <2>2. ~Ends(s)
    BY <1>1 DEF Ends
  <2>3. QED
    BY <1>1, <1>3, <2>1, <2>2, TokensMove
<1>4. CASE Acts(s) /\ tx'[s] # tx[s]
  <2>1. CASE Begins(s)
    BY <1>1, <2>1 DEF Begins
  <2>2. CASE Locks(s) \/ Deletes(s)
    BY <1>1, <1>2, <2>2 DEF Locks, Deletes, At, CleanupIsNear, Tx
  <2>3. QED
    BY <1>1, <1>2, <1>4, <2>1, <2>2, Strides DEF Inserts, References, Ends, Stays, At, Tx
<1>5. QED
  BY <1>2, <1>3, <1>4, Cases, EnvironmentKeepsTx, OthersKeepTx

\* Whoever comes to own an object during a reissue is no older than its caller.
LEMMA ReissueIsNearStep ==
    ASSUME LocksInv, InsertedIsNew, TokensAreNewest, ReissueIsNear, [Next]_vars
    PROVE  ReissueIsNear'
<1>1. SUFFICES ASSUME NEW s \in Sessions, tx'[s].op = "reissue",
                      NEW o \in Objects, o \in tx'[s].objs
               PROVE  /\ rows'[o].owner # 0 =>
                            \/ NearKin(tx'[s].att, rows'[o].owner)
                            \/ rows'[o].owner > tx'[s].att
                      /\ \A t \in Sessions :
                            At(t, "register", "written")' /\ o \in tx'[t].objs =>
                                tx'[t].att >= tx'[s].att
  <2>1. \A s \in Sessions : tx'[s].objs \subseteq Objects
    BY LocksStep DEF LocksInv, TypeOK, Tx
  <2>2. QED
    BY <2>1 DEF ReissueIsNear, NearKin
<1>2. /\ tx \in [Sessions -> Tx] /\ TypeOK /\ TxAreFormed /\ Len(attempts) \in Nat
      /\ rows[o].owner \in 0..Len(attempts)
  BY AttemptsAreFunctions DEF LocksInv, TypeOK
<1>3. CASE tx'[s] = tx[s]
  <2>1. /\ rows[o].owner # 0 =>
              NearKin(tx[s].att, rows[o].owner) \/ rows[o].owner > tx[s].att
        /\ \A t \in Sessions :
              At(t, "register", "written") /\ o \in tx[t].objs => tx[t].att >= tx[s].att
    BY <1>1, <1>3 DEF ReissueIsNear
  <2>2. tx[s].att \in 1..Len(attempts) /\ ~Ends(s)
    BY <1>1, <1>2, <1>3 DEF TxAreFormed, Ends
  <2>3. ASSUME NEW t \in Sessions, At(t, "reissue", "locked")
        PROVE  tx[t].att = Len(attempts)
    BY <2>3 DEF LocksInv, HoldersAreNewest, Newest, At
  <2>4. \A t \in Sessions : tx[t].att \in Nat
    BY <1>2 DEF Tx
  <2>5. ASSUME rows'[o].owner # 0, rows'[o].owner # rows[o].owner
        PROVE  rows'[o].owner >= tx[s].att /\ rows'[o].owner \in Nat
    <3>1. PICK t \in Sessions :
              /\ o \in tx[t].objs /\ rows'[o].owner = tx[t].att
              /\ At(t, "register", "written") \/ At(t, "reissue", "locked")
      BY <2>5, TokensMove
    <3>2. QED
      BY <1>2, <2>1, <2>2, <2>3, <2>4, <3>1
  <2>6. ASSUME NEW t \in Sessions, At(t, "register", "written")', o \in tx'[t].objs
        PROVE  tx'[t].att >= tx[s].att
    <3>1. CASE tx'[t] = tx[t]
      BY <2>1, <2>6, <3>1 DEF At
    <3>2. CASE Acts(t) /\ tx'[t] # tx[t]
      <4>1. Inserts(t)
        BY <1>2, <2>6, <3>2, Strides DEF At, Begins, Locks, Deletes, References, Ends, Stays,
           Tx, TxAreFormed
      <4>2. tx'[t].att = tx[t].att /\ tx[t].att \in 1..Len(attempts)
            /\ attempts[tx[t].att].status = "RUNNING"
        BY <1>2, <4>1 DEF Inserts, LiveClaim, Tx, TxAreFormed, At
      <4>3. tx[t].att = Len(attempts)
        BY <4>2 DEF LocksInv, OnlyNewestRuns, Newest
      <4>4. QED
        BY <1>2, <2>2, <4>2, <4>3
    <3>3. QED
      BY <1>2, <3>1, <3>2, Cases, EnvironmentKeepsTx, OthersKeepTx
  <2>7. QED
    <3>1. CASE rows'[o].owner = rows[o].owner
      BY <1>3, <2>1, <2>6, <3>1
    <3>2. CASE rows'[o].owner # 0 /\ rows'[o].owner # rows[o].owner
      <4>1. rows'[o].owner = tx[s].att \/ rows'[o].owner > tx[s].att
        BY <2>2, <2>5, <3>2
      <4>2. QED
        BY <1>3, <2>6, <4>1 DEF NearKin
    <3>3. QED
      BY <1>3, <2>6, <3>1, <3>2
<1>4. CASE Acts(s) /\ tx'[s] # tx[s]
  <2>1. \A t \in Sessions \ {s} : tx'[t] = tx[t]
    BY <1>2, <1>4, OthersKeepTx
  <2>2. CASE Begins(s)
    <3>1. rows' = rows /\ rows[o].owner # 0 /\ NearKin(tx'[s].att, rows[o].owner)
      BY <1>1, <2>2 DEF Begins
    <3>2. Present(o)
      BY <1>2, <3>1 DEF TypeOK, Present, NoRow
    <3>3. \A t \in Sessions : ~(At(t, "register", "written")' /\ o \in tx'[t].objs)
      BY <1>1, <2>1, <3>2 DEF InsertedIsNew, At
    <3>4. QED
      BY <3>1, <3>3
  <2>3. CASE Locks(s)
    <3>1. /\ rows' = rows /\ tx'[s].att = tx[s].att /\ tx'[s].objs = tx[s].objs
          /\ tx[s].op = "reissue"
      BY <1>1, <1>2, <2>3 DEF Locks, Tx
    <3>2. ~At(s, "register", "written")'
      BY <1>1 DEF At
    <3>3. QED
      BY <1>1, <2>1, <3>1, <3>2 DEF ReissueIsNear, At
  <2>4. QED
    BY <1>1, <1>2, <1>4, <2>2, <2>3, Strides, ZenonT(60) DEF Inserts, Deletes, References, Ends, Stays,
       At, Tx
<1>5. QED
  BY <1>2, <1>3, <1>4, Cases, EnvironmentKeepsTx, OthersKeepTx

\* What was checked of owner and token stays true until the cleanup commits.
LEMMA DeletedByKinStep ==
    ASSUME LocksInv, InsertedIsNew, TokensAreNewest, CleanupIsNear, DeletedByKin, [Next]_vars
    PROVE  DeletedByKin'
<1>1. SUFFICES ASSUME NEW s \in Sessions, Deleting(s)', NEW o \in Objects, o \in tx'[s].objs
               PROVE  /\ rows'[o].owner \in {tx'[s].att, tx'[s].att - 1} \ {0}
                      /\ known'[s][o] = issued'[o]
  <2>1. \A s \in Sessions : tx'[s].objs \subseteq Objects
    BY LocksStep DEF LocksInv, TypeOK, Tx
  <2>2. QED
    BY <2>1 DEF DeletedByKin
<1>2. /\ tx \in [Sessions -> Tx] /\ TypeOK /\ TxAreFormed /\ Len(attempts) \in Nat
  BY AttemptsAreFunctions DEF LocksInv, TypeOK
<1>3. CASE tx'[s] = tx[s]
  <2>1. /\ Writes(s, o) /\ ~Ends(s) /\ tx[s].op = "cleanup"
        /\ rows[o].owner \in {tx[s].att, tx[s].att - 1} \ {0}
        /\ known[s][o] = issued[o]
    BY <1>1, <1>3 DEF Deleting, At, Writes, Ends, DeletedByKin
  <2>2. ASSUME NEW t \in Sessions, Ends(t)
        PROVE  ~Writes(t, o)
    BY <2>1, <2>2 DEF LocksInv, RowLockExcludes
  <2>3. ASSUME NEW t \in Sessions, Ends(t), o \in tx[t].objs
        PROVE  ~At(t, "register", "written") /\ ~Unwritten(o)
    BY <2>1, <2>2, <2>3 DEF At, Writes, Unwritten
  <2>4. QED
    BY <1>3, <2>1, <2>2, <2>3, TokensMove
<1>4. CASE Acts(s) /\ tx'[s] # tx[s]
  <2>1. Deletes(s)
    BY <1>1, <1>2, <1>4, Strides DEF Deleting, At, Begins, Inserts, Locks, References, Ends,
       Stays, Tx, TxAreFormed
  <2>2. /\ tx'[s].att = tx[s].att /\ tx[s].op = "cleanup" /\ o \in tx[s].objs
        /\ Deletable(s, o) /\ UNCHANGED <<rows, issued, known>>
        /\ tx[s].att \in 1..Len(attempts)
    BY <1>1, <1>2, <2>1 DEF Deletes, At, Tx, TxAreFormed
  <2>3. rows[o].owner \in 1..tx[s].att /\ rows[o].token = known[s][o] /\ rows[o].owner # 0
    BY <1>2, <2>2 DEF Deletable
  <2>4. rows[o].token = issued[o] /\ issued[o] \in Nat /\ known[s][o] \in Nat
    BY <1>2, <2>3 DEF TokensAreNewest, TypeOK
  <2>5. NearKin(tx[s].att, rows[o].owner)
    <3>1. NearKin(tx[s].att, rows[o].owner) \/ known[s][o] < issued[o]
      BY <2>2, <2>3 DEF CleanupIsNear
    <3>2. ~(known[s][o] < issued[o])
      BY <2>3, <2>4
    <3>3. QED
      BY <3>1, <3>2
  <2>6. QED
    BY <1>2, <2>2, <2>3, <2>4, <2>5 DEF NearKin
<1>5. QED
  BY <1>2, <1>3, <1>4, Cases, EnvironmentKeepsTx, OthersKeepTx

-----------------------------------------------------------------------------
(* The theorems *)

\* Every step keeps owners and tokens in order.
LEMMA KinStep ==
    ASSUME LocksInv, RowsInv, KinInv, [Next]_vars
    PROVE  KinInv'
BY TokensAreNewestStep, CleanupIsNearStep, ReissueIsNearStep, DeletedByKinStep
   DEF KinInv, RowsInv

\* Owners and tokens are in order in every reachable state.
LEMMA KinHolds == Spec => [](LocksInv /\ RowsInv /\ KinInv)
<1>1. Init => KinInv
  BY DEF Init, Idle, NoRow, KinInv, TokensAreNewest, CleanupIsNear, ReissueIsNear,
     DeletedByKin, Deleting, At
<1>2. LocksInv /\ RowsInv /\ KinInv /\ [Next]_vars => KinInv'
  BY KinStep
<1>3. QED
  BY <1>1, <1>2, LocksProtectRows, PTL DEF Spec

\* Bytes are removed only by kin of the owner that know the newest token.
THEOREM DeletionsAreByKin == Spec => []DeletedByKin
<1>1. KinInv => DeletedByKin
  BY DEF KinInv
<1>2. QED
  BY <1>1, KinHolds, PTL

\* A present row that changes its token is being adopted.
LEMMA AdoptionIsForward ==
    ASSUME LocksInv, RowsInv, KinInv, [Next]_vars, NEW o \in Objects,
           rows[o].owner # 0, Present(o)', rows'[o].token # rows[o].token
    PROVE  /\ rows'[o].owner \in {rows[o].owner, rows[o].owner + 1}
           /\ rows'[o].owner = Len(attempts)
<1>1. /\ Len(attempts) \in Nat /\ rows[o].owner \in 1..Len(attempts) /\ Present(o)
      /\ InsertedIsNew /\ TokensAreNewest
  BY AttemptsAreFunctions DEF LocksInv, TypeOK, NoRow, Present, RowsInv, KinInv
<1>2. PICK s \in Sessions : /\ o \in tx[s].objs /\ At(s, "reissue", "locked")
                            /\ rows'[o].owner = tx[s].att
  BY <1>1, TokensMove DEF InsertedIsNew
<1>3. tx[s].att = Len(attempts)
  BY <1>2 DEF LocksInv, HoldersAreNewest, Newest, At
<1>4. NearKin(tx[s].att, rows[o].owner) \/ rows[o].owner > tx[s].att
  BY <1>1, <1>2 DEF KinInv, ReissueIsNear, At
<1>5. rows[o].owner \in {Len(attempts), Len(attempts) - 1} \/ Len(attempts) = 1
  <2>1. ~(rows[o].owner > Len(attempts))
    BY <1>1
  <2>2. QED
    BY <1>3, <1>4, <2>1 DEF NearKin
<1>6. Len(attempts) = rows[o].owner \/ Len(attempts) = rows[o].owner + 1
  <2>1. \A n \in Nat : \A w \in 1..n : w \in {n, n - 1} \/ n = 1 => n = w \/ n = w + 1
    OBVIOUS
  <2>2. Len(attempts) \in Nat /\ rows[o].owner \in 1..Len(attempts)
    BY <1>1
  <2>3. QED
    BY <1>5, <2>1, <2>2
<1>7. rows'[o].owner = Len(attempts)
  BY <1>2, <1>3
<1>8. QED
  BY <1>6, <1>7

\* Ownership passes only to the owner or its direct successor, and only while
\* that is the newest attempt.
THEOREM AdoptionsMoveForward == Spec => OwnershipMovesForward
<1>1. LocksInv /\ RowsInv /\ KinInv /\ [Next]_vars =>
        [\A o \in Objects :
            rows[o].owner # 0 /\ Present(o)' /\ rows'[o].token # rows[o].token =>
                /\ rows'[o].owner \in {rows[o].owner, rows[o].owner + 1}
                /\ rows'[o].owner = Len(attempts)]_vars
  BY AdoptionIsForward
<1>2. QED
  BY <1>1, KinHolds, PTL DEF Spec, OwnershipMovesForward

\* The status is settled under the row's lock.
LEMMA StatusIsSettled ==
    ASSUME LocksInv, RowsInv, [Next]_vars, NEW o \in Objects,
           Present(o), Present(o)', rows'[o].status # rows[o].status
    PROVE  rows[o].status # "QUARANTINED" /\ rows'[o].status # "STAGED"
<1>1. rows \in [Objects -> Row] /\ TxAreFormed
  BY DEF LocksInv, TypeOK
<1>2. ASSUME NEW p \in Objects, NEW held \in BOOLEAN, SetHold(p, held)
      PROVE  FALSE
  BY <1>1, <1>2 DEF SetHold, Row
<1>3. ASSUME NEW s \in Sessions, NEW p \in Objects, RegisterCommit(s, p)
      PROVE  FALSE
  <2>1. p # o
    BY <1>3 DEF RegisterCommit, RowsInv, InsertedIsNew
  <2>2. QED
    BY <1>1, <1>3, <2>1 DEF RegisterCommit
<1>4. ASSUME NEW s \in Sessions, NEW p \in Objects, ReissueCommit(s, p)
      PROVE  FALSE
  <2>1. rows'[o] = rows[o] \/ rows'[o] = Adopted(tx[s].att, o)
    BY <1>1, <1>4 DEF ReissueCommit
  <2>2. Adopted(tx[s].att, o).status = rows[o].status
    BY <1>1 DEF Adopted, Row
  <2>3. QED
    BY <2>1, <2>2
<1>5. ASSUME NEW s \in Sessions, CleanupCommit(s)
      PROVE  FALSE
  BY <1>5 DEF CleanupCommit, Dropped, NoRow, Present
<1>6. ASSUME NEW s \in Sessions, NEW p \in Objects, TransitionUpdate(s, p)
      PROVE  rows[o].status # "QUARANTINED" /\ rows'[o].status # "STAGED"
  <2>1. tx[s].how \in {"AVAILABLE", "QUARANTINED"}
    BY <1>1, <1>6 DEF TxAreFormed, TransitionUpdate, At
  <2>2. QED
    BY <1>1, <1>6, <2>1 DEF TransitionUpdate, MayBecome, Row
<1>7. QED
  BY <1>2, <1>3, <1>4, <1>5, <1>6, RowSteps

\* Quarantine is for good and nothing returns to staging.
THEOREM StatusMovesForward == Spec => StatusAdvances
<1>1. LocksInv /\ RowsInv /\ [Next]_vars =>
        [\A o \in Objects :
            Present(o) /\ Present(o)' /\ rows'[o].status # rows[o].status =>
                rows[o].status # "QUARANTINED" /\ rows'[o].status # "STAGED"]_vars
  BY StatusIsSettled
<1>2. QED
  BY <1>1, LocksProtectRows, PTL DEF Spec, StatusAdvances

=============================================================================
