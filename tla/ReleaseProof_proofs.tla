------------------------ MODULE ReleaseProof_proofs ------------------------
(***************************************************************************)
(* For any schedule, seeds and faults, a receipt says of every run of its  *)
(* seed what is true of it and stays true, although rows, attempts and     *)
(* evidence were read at different times.                                  *)
(*                                                                         *)
(* The argument: a run that has ended is not touched again (RunsGoForward),*)
(* so that a row read as ended is the run itself (RowsAreRuns), and what   *)
(* the collector checked of it at any later time it checked of the same    *)
(* run.  The order of the runs comes from the submitter: the keys stored   *)
(* of a seed are the first of the schedule, queued in its order            *)
(* (KeysInOrder), since a request is sent only when all before it were     *)
(* answered as created.                                                    *)
(***************************************************************************)
EXTENDS ReleaseProof, FiniteSetTheorems, TLAPS

StoredKeys == {k \in Keys : Stored(k)}

\* The queue numbers runs as they are stored.
QueueNumbers ==
    \A k \in StoredKeys : runs[k].queued \in 1..Cardinality(StoredKeys)

\* Of every seed the first requests are stored, queued as they are scheduled.
KeysInOrder ==
    \A b \in 1..MaxBatch : \A i, j \in Requests :
        i < j /\ Stored(<<b, j>>) =>
            Stored(<<b, i>>) /\ runs[<<b, i>>].queued < runs[<<b, j>>].queued

\* All requests before the submitter's were created by this submission.
SubmitterInOrder ==
    /\ submitter # Idle => batch \in 1..MaxBatch
    /\ submitter # Idle =>
          \A j \in Requests : j < submitter => <<batch, j>> \in created
    /\ created \subseteq StoredKeys

\* A row that was read as ended is the run as it is now.
RowsAreRuns ==
    collector # "idle" =>
        /\ seed \in 1..MaxBatch /\ rows \in [Requests -> Run]
        /\ \A i \in Requests :
              /\ Stored(<<seed, i>>)
              /\ Ended(rows[i]) => rows[i] = runs[<<seed, i>>]

\* What ReadAttempts accepted
RowsAccepted ==
    collector \in {"reconcile", "write", "replace", "audit"} =>
        /\ Sequential
        /\ \A i \in Requests : rows[i].attempts = 1 /\ Consistent(rows[i])

\* The oracle reconciled the runs whose rows were accepted.
EvidenceIsOfRows ==
    /\ collector \in {"idle", "attempts"} => evidence = <<>>
    /\ \A i \in DOMAIN evidence :
          evidence[i] = [input |-> rows[i].input, semantic |-> Semantic(rows[i])]
    /\ collector \in {"write", "replace", "audit"} => DOMAIN evidence = Requests /\ Repeatable

\* Seeds grow, and the files follow them.
SeedsInOrder ==
    /\ seed <= batch
    /\ receipt # None => receipt.seed <= seed
    /\ collector = "audit" => receipt # None /\ receipt.seed = seed

ProofInv ==
    /\ TypeOK /\ QueueNumbers /\ KeysInOrder /\ SubmitterInOrder
    /\ RowsAreRuns /\ RowsAccepted /\ EvidenceIsOfRows /\ SeedsInOrder
    /\ AuditFollowsReceipt /\ ReceiptIsProof

-----------------------------------------------------------------------------
(* The runs *)

LEMMA RequestFacts ==
    /\ Len(Schedule) \in Nat \ {0} /\ Requests = 1..Len(Schedule)
    /\ IsFiniteSet(Keys) /\ MaxBatch \in Nat
<1>1. /\ Len(Schedule) \in Nat \ {0} /\ Requests = 1..Len(Schedule)
      /\ MaxBatch \in Nat
  BY ProofAssumption DEF Requests
<1>2. IsFiniteSet(1..MaxBatch) /\ IsFiniteSet(Requests)
  BY <1>1, FS_Interval
<1>3. QED
  BY <1>1, <1>2, FS_Product DEF Keys

LEMMA RunType ==
    ASSUME TypeOK, NEW k \in StoredKeys
    PROVE  /\ k \in Keys /\ runs[k] \in Run /\ runs[k] # None
           /\ runs[k].status \in {"QUEUED", "RUNNING", "COMPLETED", "UNAVAILABLE", "FAILED"}
           /\ runs[k].failure \in BOOLEAN /\ runs[k].result \in {1, 2}
           /\ runs[k].input \in 1..MaxEdition /\ runs[k].queued \in Nat
           /\ runs[k].started \in Nat /\ runs[k].completed \in Nat
           /\ runs[k].attempts \in Nat
<1>1. k \in Keys /\ runs[k] # None /\ runs[k] \in {None} \cup Run
  BY DEF StoredKeys, Stored, TypeOK
<1>2. QED
  BY <1>1 DEF Run

\* A run is stored, or one that has not ended goes on.
StoresKey == submitter \in Requests /\ batch \in 1..MaxBatch /\ ~Stored(Key) /\ Store(Key)

Advances(k, e) ==
    /\ k \in StoredKeys /\ runs[k].status \in {"QUEUED", "RUNNING"}
    /\ e \in Run /\ e.queued = runs[k].queued /\ e.input = runs[k].input
    /\ runs' = [runs EXCEPT ![k] = e]

RunsGoForward ==
    /\ runs' \in [Keys -> {None} \cup Run]
    /\ QueueNumbers'
    /\ \A k \in StoredKeys :
          /\ k \in StoredKeys' /\ runs'[k].queued = runs[k].queued
          /\ runs'[k].input = runs[k].input
          /\ runs[k].status \notin {"QUEUED", "RUNNING"} => runs'[k] = runs[k]
    /\ \A k \in StoredKeys' \ StoredKeys :
          /\ k = Key /\ submitter \in Requests
          /\ \A j \in StoredKeys : runs'[j].queued < runs'[k].queued

LEMMA UnchangedGoesForward ==
    ASSUME TypeOK, QueueNumbers, UNCHANGED runs
    PROVE  RunsGoForward
<1>1. StoredKeys' = StoredKeys
  BY DEF StoredKeys, Stored
<1>2. QED
  BY <1>1 DEF RunsGoForward, TypeOK, QueueNumbers

LEMMA AdvanceGoesForward ==
    ASSUME TypeOK, QueueNumbers, NEW k, NEW e, Advances(k, e)
    PROVE  RunsGoForward
<1>1. k \in Keys /\ runs[k] # None /\ e # None /\ e \in Run
  BY RunType, NoneAssumption DEF Advances
<1>2. /\ runs' \in [Keys -> {None} \cup Run] /\ runs'[k] = e
      /\ \A j \in Keys \ {k} : runs'[j] = runs[j]
  BY <1>1 DEF Advances, TypeOK
<1>3. StoredKeys' = StoredKeys
  BY <1>1, <1>2 DEF StoredKeys, Stored
<1>4. \A j \in StoredKeys : runs'[j].queued = runs[j].queued /\ runs'[j].input = runs[j].input
  BY <1>2 DEF Advances, StoredKeys
<1>5. QueueNumbers'
  BY <1>3, <1>4 DEF QueueNumbers
<1>6. \A j \in StoredKeys : runs[j].status \notin {"QUEUED", "RUNNING"} => runs'[j] = runs[j]
  BY <1>2 DEF Advances, StoredKeys
<1>7. QED
  BY <1>2, <1>3, <1>4, <1>5, <1>6 DEF RunsGoForward

LEMMA StoreGoesForward ==
    ASSUME TypeOK, QueueNumbers, StoresKey
    PROVE  RunsGoForward /\ Key \in StoredKeys'
<1> DEFINE n == Cardinality(StoredKeys)
<1>1. Key \in Keys \ StoredKeys
  BY DEF StoresKey, Key, Keys, StoredKeys
<1>2. IsFiniteSet(StoredKeys) /\ n \in Nat
  <2>1. StoredKeys \subseteq Keys
    BY DEF StoredKeys
  <2>2. QED
    BY <2>1, RequestFacts, FS_Subset, FS_CardinalityType
<1>3. PICK e : e = [status |-> "QUEUED", failure |-> FALSE, result |-> 1, input |-> edition,
                    queued |-> n + 1, started |-> 0, completed |-> 0, attempts |-> 0]
  OBVIOUS
<1>4. e \in Run /\ e.queued = n + 1
  <2>1. n + 1 \in Nat /\ edition \in 1..MaxEdition
    BY <1>2 DEF TypeOK
  <2>2. QED
    BY <1>3, <2>1 DEF Run
<1>5. runs' = [runs EXCEPT ![Key] = e]
  BY <1>3 DEF StoresKey, Store, StoredKeys
<1>6. /\ runs' \in [Keys -> {None} \cup Run] /\ runs'[Key] = e
      /\ \A j \in Keys \ {Key} : runs'[j] = runs[j]
  BY <1>1, <1>4, <1>5 DEF TypeOK
<1>7. StoredKeys' = StoredKeys \cup {Key}
  BY <1>1, <1>4, <1>6, NoneAssumption DEF StoredKeys, Stored
<1>8. Cardinality(StoredKeys') = n + 1
  BY <1>1, <1>2, <1>7, FS_AddElement
<1>9. \A j \in StoredKeys : runs'[j] = runs[j] /\ runs[j].queued \in 1..n
  BY <1>1, <1>6 DEF QueueNumbers, StoredKeys
<1> HIDE DEF n
<1>10. QueueNumbers'
  <2>1. \A j \in StoredKeys : runs'[j].queued \in 1..(n + 1)
    BY <1>2, <1>9
  <2>2. n + 1 \in 1..(n + 1)
    BY <1>2
  <2>3. \A j \in StoredKeys' : runs'[j].queued \in 1..(n + 1)
    BY <1>4, <1>6, <1>7, <2>1, <2>2
  <2>4. QED
    BY <1>8, <2>3 DEF QueueNumbers
<1>11. \A j \in StoredKeys : runs'[j].queued < runs'[Key].queued
  BY <1>2, <1>4, <1>6, <1>9
<1>12. QED
  BY <1>6, <1>7, <1>9, <1>10, <1>11 DEF RunsGoForward, StoresKey

\* What each step does to the runs
LEMMA RunSteps ==
    ASSUME TypeOK, SubmitterInOrder, [Next]_vars
    PROVE  \/ UNCHANGED runs
           \/ StoresKey
           \/ \E k, e : Advances(k, e)
<1>1. CASE NewBatch \/ SameBatch \/ Replay \/ Publish \/ ReadRows \/ CollectorStep
           \/ CollectorEnds \/ UNCHANGED vars
  BY <1>1 DEF NewBatch, SameBatch, Replay, Publish, ReadRows, CollectorStep, ReadAttempts,
              Reconcile, CheckEvidence, Write, Replace, WriteAudit, CollectorEnds, vars, system
<1>2. CASE Submit \/ LoseAnswer
  <2>1. submitter \in Requests
    BY <1>2 DEF Submit, LoseAnswer
  <2>2. batch \in 1..MaxBatch
    BY <2>1, RequestFacts DEF SubmitterInOrder, Idle
  <2>3. QED
    BY <1>2, <2>1, <2>2 DEF Submit, LoseAnswer, StoresKey
<1>3. CASE Claim
  <2>1. PICK k \in Queued :
          runs' = [runs EXCEPT ![k].status = "RUNNING", ![k].attempts = @ + 1,
                               ![k].started = IF @ = 0 THEN clock + 1 ELSE @]
    BY <1>3 DEF Claim
  <2>2. k \in StoredKeys /\ runs[k].status = "QUEUED"
    BY DEF Queued, StoredKeys
  <2>3. /\ k \in Keys /\ runs[k] \in Run /\ runs[k].attempts \in Nat
        /\ runs[k].started \in Nat /\ clock \in Nat
    BY <2>2, RunType DEF TypeOK
  <2>4. PICK m \in Nat : m = runs[k].attempts + 1
    BY <2>3
  <2>5. PICK n \in Nat : n = IF runs[k].started = 0 THEN clock + 1 ELSE runs[k].started
    BY <2>3
  <2>6. PICK e : e = [runs[k] EXCEPT !.status = "RUNNING", !.attempts = m, !.started = n]
    OBVIOUS
  <2>7. e \in Run /\ e.queued = runs[k].queued /\ e.input = runs[k].input
    BY <2>3, <2>6 DEF Run
  <2>8. runs' = [runs EXCEPT ![k] = e]
    BY <2>1, <2>3, <2>4, <2>5, <2>6 DEF TypeOK
  <2>9. QED
    BY <2>2, <2>7, <2>8 DEF Advances
<1>4. ASSUME NEW outcome \in Outcome, Finish(outcome)
      PROVE  \E k, e : Advances(k, e)
  <2>1. PICK k \in Running :
          runs' = [runs EXCEPT ![k].status = outcome.status, ![k].failure = outcome.failure,
                               ![k].result = outcome.result, ![k].completed = clock + 1]
    BY <1>4 DEF Finish
  <2>2. k \in StoredKeys /\ runs[k].status = "RUNNING"
    BY DEF Running, StoredKeys
  <2>3. k \in Keys /\ runs[k] \in Run /\ clock \in Nat
    BY <2>2, RunType DEF TypeOK
  <2>4. PICK n \in Nat : n = clock + 1
    BY <2>3
  <2>5. PICK e : e = [runs[k] EXCEPT !.status = outcome.status, !.failure = outcome.failure,
                                     !.result = outcome.result, !.completed = n]
    OBVIOUS
  <2>6. e \in Run /\ e.queued = runs[k].queued /\ e.input = runs[k].input
    BY <2>3, <2>5 DEF Run, Outcome
  <2>7. runs' = [runs EXCEPT ![k] = e]
    BY <2>1, <2>3, <2>4, <2>5 DEF TypeOK
  <2>8. QED
    BY <2>2, <2>6, <2>7 DEF Advances
<1>5. CASE WorkerDies
  <2>1. PICK k \in Running : runs' = [runs EXCEPT ![k].status = "QUEUED"]
    BY <1>5 DEF WorkerDies
  <2>2. k \in StoredKeys /\ runs[k].status = "RUNNING"
    BY DEF Running, StoredKeys
  <2>3. k \in Keys /\ runs[k] \in Run
    BY <2>2, RunType
  <2>4. PICK e : e = [runs[k] EXCEPT !.status = "QUEUED"]
    OBVIOUS
  <2>5. e \in Run /\ e.queued = runs[k].queued /\ e.input = runs[k].input
    BY <2>3, <2>4 DEF Run
  <2>6. runs' = [runs EXCEPT ![k] = e]
    BY <2>1, <2>3, <2>4 DEF TypeOK
  <2>7. QED
    BY <2>2, <2>5, <2>6 DEF Advances
<1>6. QED
  BY <1>1, <1>2, <1>3, <1>4, <1>5 DEF Next, SubmitterStep, EngineStep

LEMMA RunsNext ==
    ASSUME TypeOK, QueueNumbers, SubmitterInOrder, [Next]_vars
    PROVE  RunsGoForward
BY RunSteps, UnchangedGoesForward, StoreGoesForward, AdvanceGoesForward

-----------------------------------------------------------------------------
(* The submitter *)

LEMMA KeysInOrderNext ==
    ASSUME ProofInv, [Next]_vars
    PROVE  KeysInOrder'
<1> USE DEF ProofInv
<1>1. RunsGoForward
  BY RunsNext
<1> SUFFICES ASSUME NEW b \in 1..MaxBatch, NEW i \in Requests, NEW j \in Requests,
                    i < j, <<b, j>> \in StoredKeys'
             PROVE  /\ <<b, i>> \in StoredKeys'
                    /\ runs'[<<b, i>>].queued < runs'[<<b, j>>].queued
  BY DEF KeysInOrder, StoredKeys, Keys
<1>2. CASE <<b, j>> \in StoredKeys
  <2>1. <<b, i>> \in StoredKeys /\ runs[<<b, i>>].queued < runs[<<b, j>>].queued
    BY <1>2 DEF KeysInOrder, StoredKeys, Keys
  <2>2. QED
    BY <1>1, <1>2, <2>1 DEF RunsGoForward
<1>3. CASE <<b, j>> \notin StoredKeys
  <2>1. /\ <<b, j>> = Key /\ submitter \in Requests
        /\ \A k \in StoredKeys : runs'[k].queued < runs'[<<b, j>>].queued
    BY <1>1, <1>3 DEF RunsGoForward
  <2>2. b = batch /\ j = submitter /\ submitter # Idle
    BY <2>1, RequestFacts DEF Key, Idle
  <2>3. <<b, i>> \in StoredKeys
    BY <2>2 DEF SubmitterInOrder
  <2>4. QED
    BY <1>1, <2>1, <2>3 DEF RunsGoForward
<1>4. QED
  BY <1>2, <1>3

LEMMA SubmitterNext ==
    ASSUME ProofInv, [Next]_vars
    PROVE  SubmitterInOrder'
<1> USE DEF ProofInv
<1>1. RunsGoForward
  BY RunsNext
<1>2. StoredKeys \subseteq StoredKeys'
  BY <1>1 DEF RunsGoForward
<1>3. /\ batch \in 0..MaxBatch /\ MaxBatch \in Nat /\ submitter \in 0..Proved
      /\ Len(Schedule) \in Nat \ {0} /\ Requests = 1..Len(Schedule)
  BY RequestFacts DEF TypeOK
<1>4. CASE UNCHANGED <<batch, submitter, created>>
  BY <1>2, <1>4 DEF SubmitterInOrder
<1>5. CASE submitter' = Idle /\ created' = {}
  BY <1>5 DEF SubmitterInOrder
<1>6. CASE NewBatch
  BY <1>3, <1>6 DEF NewBatch, SubmitterInOrder
<1>7. CASE SameBatch
  BY <1>2, <1>3, <1>7 DEF SameBatch, SubmitterInOrder
<1>8. CASE Replay
  <2>1. /\ submitter \in {Replaying, Conflicting} /\ submitter' = submitter + 1
        /\ UNCHANGED <<batch, created>>
    BY <1>8 DEF Replay
  <2>2. \A j \in Requests : j < submitter
    BY <1>3, <2>1 DEF Replaying, Conflicting
  <2>3. submitter # Idle
    BY <1>3, <2>1 DEF Replaying, Conflicting, Idle
  <2>4. QED
    BY <1>2, <2>1, <2>2, <2>3 DEF SubmitterInOrder
<1>9. CASE Submit /\ ~Stored(Key)
  <2>1. /\ submitter \in Requests /\ submitter' = submitter + 1
        /\ created' = created \cup {Key} /\ Store(Key) /\ batch' = batch
    BY <1>9 DEF Submit
  <2>2. submitter # Idle /\ batch \in 1..MaxBatch
    BY <1>3, <2>1 DEF Idle, SubmitterInOrder
  <2>3. \A j \in Requests : j < submitter' => j < submitter \/ j = submitter
    BY <1>3, <2>1
  <2>4. \A j \in Requests : j < submitter' => <<batch, j>> \in created'
    BY <2>1, <2>2, <2>3 DEF SubmitterInOrder, Key
  <2>5. Key \in StoredKeys'
    <3>1. StoresKey
      BY <1>9, <2>1, <2>2 DEF StoresKey
    <3>2. QED
      BY <3>1, StoreGoesForward
  <2>6. created' \subseteq StoredKeys'
    BY <1>2, <2>1, <2>5 DEF SubmitterInOrder
  <2>7. QED
    BY <2>1, <2>2, <2>4, <2>6 DEF SubmitterInOrder
<1>10. QED
  <2>1. (Submit /\ Stored(Key)) \/ LoseAnswer => submitter' = Idle /\ created' = {}
    BY DEF Submit, LoseAnswer
  <2>2. EngineStep \/ WorkerDies \/ Publish \/ ReadRows \/ CollectorStep \/ CollectorEnds
          \/ UNCHANGED vars
        => UNCHANGED <<batch, submitter, created>>
    BY DEF EngineStep, Claim, Finish, WorkerDies, Publish, ReadRows, CollectorStep,
           ReadAttempts, Reconcile, CheckEvidence, Write, Replace, WriteAudit, CollectorEnds,
           vars, submission
  <2>3. QED
    BY <1>4, <1>5, <1>6, <1>7, <1>8, <1>9, <2>1, <2>2 DEF Next, SubmitterStep

-----------------------------------------------------------------------------
(* The collector *)

\* What is read as ended stays as it was read.
LEMMA RowsNext ==
    ASSUME ProofInv, [Next]_vars
    PROVE  RowsAreRuns'
<1> USE DEF ProofInv
<1>1. RunsGoForward
  BY RunsNext
<1>2. Requests = 1..Len(Schedule) /\ batch \in 0..MaxBatch
  BY RequestFacts DEF TypeOK
<1> SUFFICES ASSUME collector' # "idle"
             PROVE  RowsAreRuns'
  BY DEF RowsAreRuns
<1>3. CASE ReadRows
  <2>1. /\ batch > 0 /\ seed' = batch /\ runs' = runs
        /\ \A k \in KeysOf(batch) : Stored(k)
        /\ rows' = [i \in Requests |-> runs[<<batch, i>>]]
    BY <1>3 DEF ReadRows, system
  <2>2. batch \in 1..MaxBatch
    BY <1>2, <2>1, RequestFacts
  <2>3. \A i \in Requests : <<batch, i>> \in StoredKeys
    BY <2>1, <2>2 DEF KeysOf, StoredKeys, Keys
  <2>4. \A i \in Requests : runs[<<batch, i>>] \in Run
    BY <2>3, RunType
  <2>5. rows' \in [Requests -> Run]
    BY <2>1, <2>4
  <2>6. \A i \in Requests : runs'[<<seed', i>>] # None /\ rows'[i] = runs'[<<seed', i>>]
    BY <2>1, <2>3 DEF StoredKeys, Stored
  <2>7. QED
    BY <2>1, <2>2, <2>5, <2>6 DEF RowsAreRuns, Stored
<1>4. CASE collector # "idle" /\ UNCHANGED <<seed, rows>>
  <2>1. seed \in 1..MaxBatch /\ rows \in [Requests -> Run]
    BY <1>4 DEF RowsAreRuns
  <2>2. ASSUME NEW i \in Requests
        PROVE  /\ runs'[<<seed, i>>] # None
               /\ Ended(rows[i]) => rows[i] = runs'[<<seed, i>>]
    <3>1. <<seed, i>> \in StoredKeys /\ (Ended(rows[i]) => rows[i] = runs[<<seed, i>>])
      BY <1>4, <2>1 DEF RowsAreRuns, StoredKeys, Keys
    <3>2. Ended(rows[i]) => runs[<<seed, i>>].status \notin {"QUEUED", "RUNNING"}
      BY <3>1 DEF Ended
    <3>3. QED
      BY <1>1, <3>1, <3>2 DEF RunsGoForward, StoredKeys, Stored
  <2>3. QED
    BY <1>4, <2>1, <2>2 DEF RowsAreRuns, Stored, Ended
<1>5. QED
  BY <1>3, <1>4
     DEF Next, SubmitterStep, NewBatch, SameBatch, Submit, Replay, LoseAnswer, EngineStep,
         Claim, Finish, WorkerDies, Publish, CollectorStep, ReadAttempts, Reconcile,
         CheckEvidence, Write, Replace, WriteAudit, CollectorEnds, Raise, vars, collection

LEMMA RowsAcceptedNext ==
    ASSUME ProofInv, [Next]_vars
    PROVE  RowsAccepted'
<1> USE DEF ProofInv
<1> DEFINE Accepted == {"reconcile", "write", "replace", "audit"}
<1> SUFFICES ASSUME collector' \in Accepted
             PROVE  RowsAccepted'
  BY DEF RowsAccepted
<1>1. CASE ReadAttempts
  <2>1. /\ collector = "attempts" /\ rows' = rows /\ Sequential
        /\ \A i \in Requests : runs[<<seed, i>>].attempts = 1 /\ Consistent(rows[i])
    BY <1>1 DEF ReadAttempts, Raise
  <2>2. \A i \in Requests : rows[i] = runs[<<seed, i>>]
    BY <2>1 DEF RowsAreRuns, Sequential
  <2>3. QED
    BY <2>1, <2>2 DEF RowsAccepted, Sequential, Ended, Consistent
<1>2. CASE collector \in Accepted /\ rows' = rows
  BY <1>2 DEF RowsAccepted, Sequential, Ended, Consistent
<1>3. QED
  BY <1>1, <1>2
     DEF Next, SubmitterStep, NewBatch, SameBatch, Submit, Replay, LoseAnswer, EngineStep,
         Claim, Finish, WorkerDies, Publish, ReadRows, CollectorStep, Reconcile,
         CheckEvidence, Write, Replace, WriteAudit, CollectorEnds, Raise, vars, collection

LEMMA EvidenceNext ==
    ASSUME ProofInv, [Next]_vars
    PROVE  EvidenceIsOfRows'
<1> USE DEF ProofInv
<1>1. CASE Raise
  BY <1>1 DEF Raise, EvidenceIsOfRows
<1>2. CASE ReadRows \/ (ReadAttempts /\ ~Raise)
  <2>1. evidence = <<>> /\ evidence' = <<>> /\ collector' \in {"attempts", "reconcile"}
    BY <1>2 DEF ReadRows, ReadAttempts, EvidenceIsOfRows
  <2>2. QED
    BY <2>1 DEF EvidenceIsOfRows
<1>3. CASE Reconcile
  <2>1. PICK i \in Requests \ DOMAIN evidence :
          evidence' = [j \in DOMAIN evidence \cup {i} |->
                         IF j = i THEN [input |-> runs[<<seed, i>>].input,
                                        semantic |-> Semantic(runs[<<seed, i>>])]
                         ELSE evidence[j]]
    BY <1>3 DEF Reconcile
  <2>2. collector = "reconcile" /\ collector' = "reconcile" /\ rows' = rows
    BY <1>3 DEF Reconcile
  <2>3. rows[i] = runs[<<seed, i>>]
    BY <2>2 DEF RowsAreRuns, RowsAccepted, Sequential
  <2>4. \A j \in DOMAIN evidence' :
          evidence'[j] = [input |-> rows[j].input, semantic |-> Semantic(rows[j])]
    BY <2>1, <2>3 DEF EvidenceIsOfRows
  <2>5. QED
    BY <2>2, <2>4 DEF EvidenceIsOfRows, Semantic
<1>4. CASE CheckEvidence /\ ~Raise
  <2>1. /\ DOMAIN evidence = Requests /\ Repeatable /\ UNCHANGED <<rows, evidence>>
        /\ collector' = "write"
    BY <1>4 DEF CheckEvidence
  <2>2. QED
    BY <2>1 DEF EvidenceIsOfRows, Repeatable, Semantic
<1>5. CASE collector \in {"write", "replace"} /\ collector' \in {"replace", "audit"}
           /\ UNCHANGED <<rows, evidence>>
  BY <1>5 DEF EvidenceIsOfRows, Repeatable, Semantic
<1>6. CASE UNCHANGED <<collector, rows, evidence>>
  BY <1>6 DEF EvidenceIsOfRows, Repeatable, Semantic
<1>7. QED
  BY <1>1, <1>2, <1>3, <1>4, <1>5, <1>6
     DEF Next, SubmitterStep, NewBatch, SameBatch, Submit, Replay, LoseAnswer, EngineStep,
         Claim, Finish, WorkerDies, Publish, CollectorStep, Write, Replace, WriteAudit,
         CollectorEnds, vars, collection

-----------------------------------------------------------------------------
(* The files *)

LEMMA ContentsFacts ==
    ASSUME TypeOK, RowsAreRuns, collector # "idle", NEW w \in BOOLEAN
    PROVE  /\ Contents(w) \in File /\ Contents(w) # None
           /\ Contents(w).seed = seed /\ Contents(w).runs = rows /\ Contents(w).whole = w
<1>1. seed \in 1..MaxBatch /\ rows \in [Requests -> Run]
  BY DEF RowsAreRuns
<1>2. Contents(w) \in File
  BY <1>1 DEF Contents, File
<1>3. QED
  BY <1>2, NoneAssumption DEF Contents

\* What the steps do to receipt and audit
LEMMA FileSteps ==
    ASSUME [Next]_vars
    PROVE  /\ receipt' = receipt \/ Replace
           /\ \/ audit' = audit
              \/ collector = "audit" /\ audit' \in {Contents(TRUE), Contents(FALSE)}
                    /\ receipt' = receipt
BY DEF Next, SubmitterStep, NewBatch, SameBatch, Submit, Replay, LoseAnswer, EngineStep,
       Claim, Finish, WorkerDies, Publish, ReadRows, CollectorStep, ReadAttempts, Reconcile,
       CheckEvidence, Write, Replace, WriteAudit, CollectorEnds, vars, files

LEMMA SeedsNext ==
    ASSUME ProofInv, [Next]_vars
    PROVE  SeedsInOrder' /\ AuditFollowsReceipt'
<1> USE DEF ProofInv
<1>1. /\ seed \in 0..MaxBatch /\ batch \in 0..MaxBatch /\ MaxBatch \in Nat
      /\ batch' = batch \/ batch' = batch + 1
      /\ seed' = seed \/ (seed' = batch /\ batch' = batch /\ ReadRows)
  BY RequestFacts
     DEF TypeOK, Next, SubmitterStep, NewBatch, SameBatch, Submit, Replay, LoseAnswer,
         EngineStep, Claim, Finish, WorkerDies, Publish, ReadRows, CollectorStep, ReadAttempts,
         Reconcile, CheckEvidence, Write, Replace, WriteAudit, CollectorEnds, vars, submission,
         collection
<1>2. /\ receipt # None => receipt.seed \in 1..MaxBatch
      /\ audit # None => audit.seed \in 1..MaxBatch
  BY DEF TypeOK, File
<1>3. CASE Replace
  <2>1. /\ collector = "replace" /\ receipt' = Contents(TRUE)
        /\ UNCHANGED <<seed, audit, batch>>
    BY <1>3 DEF Replace, submission
  <2>2. receipt' # None /\ receipt'.seed = seed /\ seed \in 1..MaxBatch
    BY <2>1, ContentsFacts DEF RowsAreRuns
  <2>3. SeedsInOrder'
    <3>1. seed \in Nat /\ seed <= seed /\ seed <= batch /\ seed' = seed /\ batch' = batch
      BY <2>1, <2>2 DEF SeedsInOrder
    <3>2. QED
      BY <2>2, <3>1 DEF SeedsInOrder
  <2>4. AuditFollowsReceipt'
    <3>1. audit # None => audit.seed <= seed
      BY <1>1, <1>2, <2>2 DEF SeedsInOrder, AuditFollowsReceipt
    <3>2. QED
      BY <2>1, <2>2, <3>1 DEF AuditFollowsReceipt
  <2>5. QED
    BY <2>3, <2>4
<1>4. CASE receipt' = receipt
  <2>1. seed' <= batch'
    BY <1>1 DEF SeedsInOrder
  <2>2. receipt # None => receipt.seed <= seed'
    BY <1>1, <1>2 DEF SeedsInOrder
  <2>3. ASSUME collector' = "audit", ~Replace
        PROVE  collector = "audit" /\ seed' = seed
    BY <2>3
       DEF Next, SubmitterStep, NewBatch, SameBatch, Submit, Replay, LoseAnswer, EngineStep,
           Claim, Finish, WorkerDies, Publish, ReadRows, CollectorStep, ReadAttempts,
           Reconcile, CheckEvidence, Write, WriteAudit, CollectorEnds, Raise, vars, collection
  <2>4. SeedsInOrder'
    BY <1>3, <1>4, <2>1, <2>2, <2>3 DEF SeedsInOrder
  <2>5. CASE audit' = audit
    BY <1>4, <2>4, <2>5 DEF AuditFollowsReceipt
  <2>6. CASE collector = "audit" /\ audit' \in {Contents(TRUE), Contents(FALSE)}
    <3>1. audit'.seed = seed
      BY <2>6, ContentsFacts
    <3>2. receipt # None /\ receipt.seed = seed
      BY <2>6 DEF SeedsInOrder
    <3>3. QED
      BY <1>1, <1>4, <2>4, <3>1, <3>2 DEF AuditFollowsReceipt
  <2>7. QED
    BY <2>5, <2>6, FileSteps, <1>3
<1>5. QED
  BY <1>3, <1>4, FileSteps

LEMMA ReceiptNext ==
    ASSUME ProofInv, [Next]_vars
    PROVE  ReceiptIsProof'
<1> USE DEF ProofInv
<1>1. RunsGoForward
  BY RunsNext
<1>2. Requests = 1..Len(Schedule) /\ Len(Schedule) \in Nat
  BY RequestFacts
<1>3. CASE receipt' = receipt
  <2> SUFFICES ASSUME receipt # None
               PROVE  ReceiptIsProof'
    BY <1>3 DEF ReceiptIsProof
  <2>1. receipt.seed \in 1..MaxBatch /\ receipt.runs \in [Requests -> Run]
    BY DEF TypeOK, File
  <2>2. ASSUME NEW i \in Requests
        PROVE  runs'[<<receipt.seed, i>>] = runs[<<receipt.seed, i>>]
    <3>1. runs[<<receipt.seed, i>>] = receipt.runs[i] /\ Ended(runs[<<receipt.seed, i>>])
      BY DEF ReceiptIsProof
    <3>2. <<receipt.seed, i>> \in StoredKeys
      BY <2>1, <3>1, NoneAssumption DEF StoredKeys, Stored, Keys
    <3>3. QED
      BY <1>1, <3>1, <3>2 DEF RunsGoForward, Ended
  <2>3. QED
    BY <1>3, <2>2 DEF ReceiptIsProof, Ended, Semantic
<1>4. CASE Replace
  <2>1. /\ collector = "replace" /\ receipt' = Contents(TRUE) /\ runs' = runs
    BY <1>4 DEF Replace, system
  <2>2. /\ receipt'.seed = seed /\ receipt'.runs = rows /\ receipt'.whole
        /\ seed \in 1..MaxBatch
    BY <2>1, ContentsFacts DEF RowsAreRuns
  <2>3. ASSUME NEW i \in Requests
        PROVE  /\ runs[<<seed, i>>] = rows[i] /\ Ended(rows[i]) /\ rows[i].attempts = 1
               /\ evidence[i].input = rows[i].input
               /\ evidence[i].semantic = Semantic(rows[i])
               /\ Stored(<<seed, i>>)
    BY <2>1 DEF RowsAreRuns, RowsAccepted, Sequential, EvidenceIsOfRows
  <2>4. ASSUME NEW i \in Requests, NEW j \in Requests, i < j
        PROVE  rows[i].completed <= rows[j].started
    <3>1. rows[i].queued < rows[j].queued
      BY <2>2, <2>3, <2>4 DEF KeysInOrder
    <3>2. rows[j].started >= rows[i].completed
      BY <2>1, <3>1 DEF RowsAccepted, Sequential
    <3>3. rows[j].started \in Nat /\ rows[i].completed \in Nat
      BY <2>1 DEF RowsAreRuns, Run
    <3>4. QED
      BY <3>2, <3>3
  <2>5. ASSUME NEW i \in Requests, NEW j \in Requests,
               Schedule[i] = Schedule[j], Schedule[i] \in Repeated
        PROVE  rows[i].input = rows[j].input /\ Semantic(rows[i]) = Semantic(rows[j])
    <3>1. evidence[i] = evidence[j]
      BY <2>1, <2>5 DEF EvidenceIsOfRows, Repeatable
    <3>2. QED
      BY <2>3, <3>1
  <2>6. \A i \in Requests :
          /\ runs'[<<receipt'.seed, i>>] = rows[i] /\ receipt'.runs[i] = rows[i]
          /\ Ended(rows[i]) /\ rows[i].attempts = 1
    BY <2>1, <2>2, <2>3
  <2>7. \A i, j \in Requests :
          /\ i < j => rows[i].completed <= rows[j].started
          /\ Schedule[i] = Schedule[j] /\ Schedule[i] \in Repeated
               => rows[i].input = rows[j].input /\ Semantic(rows[i]) = Semantic(rows[j])
    BY <2>4, <2>5
  <2>8. QED
    BY <2>2, <2>6, <2>7 DEF ReceiptIsProof, Ended, Semantic
<1>5. QED
  BY <1>3, <1>4, FileSteps

-----------------------------------------------------------------------------

LEMMA ProofTypeNext ==
    ASSUME ProofInv, [Next]_vars
    PROVE  TypeOK'
<1> USE DEF ProofInv
<1>1. runs' \in [Keys -> {None} \cup Run]
  BY RunsNext DEF RunsGoForward
<1>2. faults' \in 0..MaxFaults
  <2>1. MaxFaults \in Nat /\ faults \in 0..MaxFaults
    BY ProofAssumption DEF TypeOK
  <2>2. faults' = faults \/ Fault
    BY DEF Next, SubmitterStep, NewBatch, SameBatch, Submit, Replay, LoseAnswer, EngineStep,
           Claim, Finish, WorkerDies, Publish, ReadRows, CollectorStep, ReadAttempts, Reconcile,
           CheckEvidence, Write, Replace, WriteAudit, CollectorEnds, vars
  <2>3. QED
    BY <2>1, <2>2 DEF Fault
<1>3. clock' \in Nat /\ edition' \in 1..MaxEdition
  <2>1. clock \in Nat /\ edition \in 1..MaxEdition /\ MaxEdition \in Nat
    BY ProofAssumption DEF TypeOK
  <2>2. /\ clock' = clock \/ clock' = clock + 1
        /\ edition' = edition \/ (edition < MaxEdition /\ edition' = edition + 1)
    BY DEF Next, SubmitterStep, NewBatch, SameBatch, Submit, Replay, LoseAnswer, EngineStep,
           Claim, Finish, WorkerDies, Publish, ReadRows, CollectorStep, ReadAttempts, Reconcile,
           CheckEvidence, Write, Replace, WriteAudit, CollectorEnds, vars, system
  <2>3. QED
    BY <2>1, <2>2
<1>4. batch' \in 0..MaxBatch /\ submitter' \in 0..Proved /\ created' \subseteq Keys
  <2>1. /\ batch \in 0..MaxBatch /\ submitter \in 0..Proved /\ MaxBatch \in Nat
        /\ Len(Schedule) \in Nat /\ Requests = 1..Len(Schedule)
    BY RequestFacts DEF TypeOK
  <2>2. /\ batch' = batch \/ (batch < MaxBatch /\ batch' = batch + 1)
        /\ \/ submitter' \in {submitter, Idle, 1}
           \/ /\ submitter \in Requests \cup {Replaying, Conflicting}
              /\ submitter' = submitter + 1
    BY DEF Next, SubmitterStep, NewBatch, SameBatch, Submit, Replay, LoseAnswer, EngineStep,
           Claim, Finish, WorkerDies, Publish, ReadRows, CollectorStep, ReadAttempts, Reconcile,
           CheckEvidence, Write, Replace, WriteAudit, CollectorEnds, vars, submission
  <2>3. created' \subseteq StoredKeys'
    BY SubmitterNext DEF SubmitterInOrder
  <2>4. QED
    BY <2>1, <2>2, <2>3 DEF StoredKeys, Proved, Replaying, Conflicting, Idle
<1>5. seed' \in 0..MaxBatch
  BY DEF TypeOK, Next, SubmitterStep, NewBatch, SameBatch, Submit, Replay, LoseAnswer,
         EngineStep, Claim, Finish, WorkerDies, Publish, ReadRows, CollectorStep, ReadAttempts,
         Reconcile, CheckEvidence, Write, Replace, WriteAudit, CollectorEnds, vars, submission,
         collection
<1>6. collector' \in {"idle", "attempts", "reconcile", "write", "replace", "audit"}
  BY DEF TypeOK, Next, SubmitterStep, NewBatch, SameBatch, Submit, Replay, LoseAnswer,
         EngineStep, Claim, Finish, WorkerDies, Publish, ReadRows, CollectorStep, ReadAttempts,
         Reconcile, CheckEvidence, Write, Replace, WriteAudit, CollectorEnds, Raise, vars,
         collection
<1>7. rows' \in {<<>>} \cup [Requests -> Run]
  <2>1. CASE collector' = "idle"
    BY <2>1
       DEF TypeOK, Next, SubmitterStep, NewBatch, SameBatch, Submit, Replay, LoseAnswer,
         EngineStep, Claim, Finish, WorkerDies, Publish, ReadRows, CollectorStep, ReadAttempts,
         Reconcile, CheckEvidence, Write, Replace, WriteAudit, CollectorEnds, Raise, vars,
         collection
  <2>2. CASE collector' # "idle"
    BY <2>2, RowsNext DEF RowsAreRuns
  <2>3. QED
    BY <2>1, <2>2
<1>8. /\ DOMAIN evidence' \subseteq Requests
      /\ \A i \in DOMAIN evidence' :
            evidence'[i] \in [input : 1..MaxEdition, semantic : Outcome]
  <2>1. CASE Reconcile
    <3>1. PICK i \in Requests \ DOMAIN evidence :
            evidence' = [j \in DOMAIN evidence \cup {i} |->
                           IF j = i THEN [input |-> runs[<<seed, i>>].input,
                                          semantic |-> Semantic(runs[<<seed, i>>])]
                           ELSE evidence[j]]
      BY <2>1 DEF Reconcile
    <3>2. collector = "reconcile"
      BY <2>1 DEF Reconcile
    <3>3. rows[i] = runs[<<seed, i>>] /\ Ended(rows[i]) /\ rows[i] \in Run
      BY <3>2 DEF RowsAreRuns, RowsAccepted, Sequential
    <3>4. [input |-> runs[<<seed, i>>].input, semantic |-> Semantic(runs[<<seed, i>>])]
            \in [input : 1..MaxEdition, semantic : Outcome]
      BY <3>3 DEF Run, Ended, Semantic, Outcome
    <3>5. QED
      BY <3>1, <3>4 DEF TypeOK
  <2>2. CASE ~Reconcile
    <3>1. evidence' \in {evidence, <<>>}
      BY <2>2
         DEF Next, SubmitterStep, NewBatch, SameBatch, Submit, Replay, LoseAnswer,
           EngineStep, Claim, Finish, WorkerDies, Publish, ReadRows, CollectorStep,
           ReadAttempts, CheckEvidence, Write, Replace, WriteAudit, CollectorEnds, Raise, vars,
           collection
    <3>2. QED
      BY <3>1 DEF TypeOK
  <2>3. QED
    BY <2>1, <2>2
<1>9. {temporary', receipt', audit'} \subseteq {None} \cup File
  <2>1. \/ temporary' \in {temporary, None}
        \/ collector # "idle" /\ temporary' = Contents(FALSE)
    BY DEF Next, SubmitterStep, NewBatch, SameBatch, Submit, Replay, LoseAnswer, EngineStep,
           Claim, Finish, WorkerDies, Publish, ReadRows, CollectorStep, ReadAttempts, Reconcile,
           CheckEvidence, Write, Replace, WriteAudit, CollectorEnds, vars, files
  <2>2. receipt' = receipt \/ (collector # "idle" /\ receipt' = Contents(TRUE))
    BY FileSteps DEF Replace
  <2>3. audit' = audit \/ (collector # "idle" /\ audit' \in {Contents(TRUE), Contents(FALSE)})
    BY FileSteps
  <2>4. collector # "idle" => {Contents(TRUE), Contents(FALSE)} \subseteq File
    BY ContentsFacts
  <2>5. QED
    BY <2>1, <2>2, <2>3, <2>4 DEF TypeOK
<1>10. QED
  BY <1>1, <1>2, <1>3, <1>4, <1>5, <1>6, <1>7, <1>8, <1>9 DEF TypeOK

\* What submitter and collector have read of the runs stays true while the lane
\* and the data go on.
THEOREM ProofInvHolds == Spec => []ProofInv
<1>1. Init => ProofInv
  <2> SUFFICES ASSUME Init
               PROVE  ProofInv
    OBVIOUS
  <2>1. StoredKeys = {} /\ runs \in [Keys -> {None} \cup Run]
    BY DEF Init, StoredKeys, Stored
  <2>2. TypeOK
    <3>1. /\ MaxFaults \in Nat /\ MaxBatch \in Nat /\ MaxEdition \in Nat \ {0}
          /\ Len(Schedule) \in Nat
      BY ProofAssumption, RequestFacts
    <3>2. 0 \in 0..Proved
      BY <3>1 DEF Proved
    <3>3. DOMAIN evidence = {}
      BY DEF Init
    <3>4. QED
      BY <2>1, <3>1, <3>2, <3>3 DEF Init, TypeOK, Idle
  <2>3. QueueNumbers /\ SubmitterInOrder
    BY <2>1 DEF Init, QueueNumbers, SubmitterInOrder, Idle
  <2>4. KeysInOrder
    BY <2>1 DEF KeysInOrder, StoredKeys, Keys
  <2>5. RowsAreRuns /\ RowsAccepted /\ EvidenceIsOfRows
    BY DEF Init, RowsAreRuns, RowsAccepted, EvidenceIsOfRows
  <2>6. SeedsInOrder /\ AuditFollowsReceipt /\ ReceiptIsProof
    BY DEF Init, SeedsInOrder, AuditFollowsReceipt, ReceiptIsProof
  <2>7. QED
    BY <2>2, <2>3, <2>4, <2>5, <2>6 DEF ProofInv
<1>2. ProofInv /\ [Next]_vars => ProofInv'
  <2> SUFFICES ASSUME ProofInv, [Next]_vars
               PROVE  ProofInv'
    OBVIOUS
  <2>1. QueueNumbers'
    BY RunsNext DEF ProofInv, RunsGoForward
  <2>2. QED
    BY <2>1, ProofTypeNext, KeysInOrderNext, SubmitterNext, RowsNext, RowsAcceptedNext,
       EvidenceNext, SeedsNext, ReceiptNext DEF ProofInv
<1>3. QED
  BY <1>1, <1>2, PTL DEF Spec

\* The receipt says of every run what is true of it, and stays true.
THEOREM ReceiptProves == Spec => []ReceiptIsProof
<1>1. ProofInv => ReceiptIsProof
  BY DEF ProofInv
<1>2. QED
  BY <1>1, ProofInvHolds, PTL

\* A batch whose submission was proved was created by it, in order.
THEOREM ProvedBatchIsFresh == Spec => []ProvedIsFresh
<1>1. ProofInv => ProvedIsFresh
  <2> SUFFICES ASSUME ProofInv, submitter = Proved
               PROVE  ProvedIsFresh
    BY DEF ProvedIsFresh
  <2> USE DEF ProofInv
  <2>1. Len(Schedule) \in Nat /\ Requests = 1..Len(Schedule)
    BY RequestFacts
  <2>2. submitter # Idle /\ \A j \in Requests : j < submitter
    BY <2>1 DEF Proved, Idle
  <2>3. batch \in 1..MaxBatch /\ \A j \in Requests : <<batch, j>> \in created
    BY <2>2 DEF SubmitterInOrder
  <2>4. KeysOf(batch) \subseteq created
    BY <2>3 DEF KeysOf
  <2>5. \A i, j \in Requests : i < j => runs[<<batch, i>>].queued < runs[<<batch, j>>].queued
    BY <2>3 DEF SubmitterInOrder, StoredKeys, KeysInOrder
  <2>6. QED
    BY <2>4, <2>5 DEF ProvedIsFresh
<1>2. QED
  BY <1>1, ProofInvHolds, PTL

\* The state is typed, what the collector accepts the runner finds valid, and
\* the audit speaks of no batch without a receipt.
THEOREM ProofIsConsistent == Spec => []ProofInvariant
<1>1. ProofInv => ProofInvariant
  <2> SUFFICES ASSUME ProofInv
               PROVE  ProofInvariant
    OBVIOUS
  <2> USE DEF ProofInv
  <2>1. ASSUME collector = "write", NEW i \in Requests
        PROVE  Valid(rows[i])
    <3>1. /\ Ended(rows[i]) /\ rows[i].completed >= rows[i].started
          /\ rows[i].attempts = 1 /\ Consistent(rows[i])
      BY <2>1 DEF RowsAccepted, Sequential
    <3>2. QED
      BY <3>1 DEF Valid, Ended, Consistent
  <2>2. QED
    BY <2>1 DEF ProofInvariant, AcceptedIsValid
<1>2. QED
  BY <1>1, ProofInvHolds, PTL

=============================================================================
