---------------------------- MODULE ReleaseProof ----------------------------
(***************************************************************************)
(* The release proof over actual data: a batch of backtests is submitted   *)
(* through the public API, executed in the custom lane, and collected into *)
(* a receipt file and an audit file.  The backend and the engine are       *)
(* external, modelled from what the scripts send and read: a request is    *)
(* answered once it is stored, an answer may be lost, a worker may die and *)
(* its run be tried again, and the data may change between two requests.   *)
(* A batch that cannot be proved is given up, and a fresh seed submitted.  *)
(***************************************************************************)
EXTENDS Naturals, Sequences, FiniteSets

CONSTANTS
    Schedule,       \* the scenarios of the requests, in their order
    Repeated,       \* the scenarios whose repetitions must agree
    Untradeable,    \* the scenarios that end typed-unavailable
    MaxBatch,       \* bound: seeds
    MaxFaults,      \* bound: lost answers, deaths, odd outcomes
    MaxEdition,     \* bound: editions of the data
    None

Scenarios == {Schedule[i] : i \in DOMAIN Schedule}
Requests == DOMAIN Schedule
Keys == (1..MaxBatch) \X Requests
KeysOf(s) == {s} \X Requests

ASSUME ProofAssumption ==
    /\ Schedule \in Seq(Scenarios) /\ Schedule # <<>>
    /\ Repeated \subseteq Scenarios /\ Untradeable \subseteq Scenarios
    /\ MaxBatch \in Nat /\ MaxFaults \in Nat /\ MaxEdition \in Nat \ {0}

VARIABLES
    runs,           \* backtest.runs by idempotency key
    clock,          \* instants at which runs start and end
    edition,        \* of the data that a request made now would pin
    batch,          \* the seed in use
    submitter,      \* where submit_schedule is
    created,        \* the keys it was told it created
    collector,      \* the next step of the collector
    seed,           \* the one it was run with
    rows,           \* the runs as it read them
    evidence,       \* what the oracle found of them
    temporary, receipt, audit,      \* the files
    faults

system == <<runs, clock, edition>>
submission == <<batch, submitter, created>>
collection == <<collector, seed, rows, evidence>>
files == <<temporary, receipt, audit>>
vars == <<system, submission, collection, files, faults>>

\* What a run ends with; result: of its ledgers, by the oracle's hash
Outcome == [status : {"COMPLETED", "UNAVAILABLE", "FAILED"},
            failure : BOOLEAN, result : {1, 2}]

\* queued: its place in the lane; input: the edition it pinned
Run == [status : {"QUEUED", "RUNNING", "COMPLETED", "UNAVAILABLE", "FAILED"},
        failure : BOOLEAN, result : {1, 2}, input : 1..MaxEdition, queued : Nat,
        started : Nat, completed : Nat, attempts : Nat]

File == [seed : 1..MaxBatch, runs : [Requests -> Run], whole : BOOLEAN]

ASSUME NoneAssumption == None \notin Run /\ None \notin File

\* The submitter: idle, at a request of the schedule, at the replay, at the
\* conflicting request, or done
Idle == 0
Replaying == Len(Schedule) + 1
Conflicting == Len(Schedule) + 2
Proved == Len(Schedule) + 3

TypeOK ==
    /\ runs \in [Keys -> {None} \cup Run]
    /\ clock \in Nat /\ edition \in 1..MaxEdition
    /\ batch \in 0..MaxBatch /\ submitter \in 0..Proved /\ created \subseteq Keys
    /\ seed \in 0..MaxBatch
    /\ collector \in {"idle", "attempts", "reconcile", "write", "replace", "audit"}
    /\ rows \in {<<>>} \cup [Requests -> Run]
    /\ DOMAIN evidence \subseteq Requests
    /\ \A i \in DOMAIN evidence : evidence[i] \in [input : 1..MaxEdition, semantic : Outcome]
    /\ {temporary, receipt, audit} \subseteq {None} \cup File
    /\ faults \in 0..MaxFaults

Init ==
    /\ runs = [k \in Keys |-> None] /\ clock = 0 /\ edition = 1
    /\ batch = 0 /\ submitter = Idle /\ created = {}
    /\ collector = "idle" /\ seed = 0 /\ rows = <<>> /\ evidence = <<>>
    /\ temporary = None /\ receipt = None /\ audit = None
    /\ faults = 0

Fault == faults < MaxFaults /\ faults' = faults + 1

-----------------------------------------------------------------------------
(* submit_schedule.                                                        *)

\* Fault: the seed is no part of the key.
KeyWithoutSeed == <<1, submitter>>

Key == <<batch, submitter>>
Stored(key) == runs[key] # None

Store(key) ==
    runs' = [runs EXCEPT ![key] =
        [status |-> "QUEUED", failure |-> FALSE, result |-> 1, input |-> edition,
         queued |-> Cardinality({k \in Keys : Stored(k)}) + 1,
         started |-> 0, completed |-> 0, attempts |-> 0]]

\* Fault: an answer is taken for that of a fresh request, whatever it says.
SubmitUnchecked ==
    /\ submitter \in Requests
    /\ IF Stored(Key) THEN UNCHANGED runs ELSE Store(Key)
    /\ submitter' = submitter + 1
    /\ created' = IF Stored(Key) THEN created ELSE created \cup {Key}
    /\ UNCHANGED <<clock, edition, batch, collection, files, faults>>

\* A fresh request must be answered created=true; the script ends otherwise.
Submit ==
    /\ submitter \in Requests
    /\ \/ /\ ~Stored(Key) /\ Store(Key)
          /\ submitter' = submitter + 1 /\ created' = created \cup {Key}
       \/ /\ Stored(Key) /\ UNCHANGED runs
          /\ submitter' = Idle /\ created' = {}
    /\ UNCHANGED <<clock, edition, batch, collection, files, faults>>

\* The request is stored and its answer lost: the script ends.
LoseAnswer ==
    /\ submitter \in Requests /\ ~Stored(Key) /\ Store(Key) /\ Fault
    /\ submitter' = Idle /\ created' = {}
    /\ UNCHANGED <<clock, edition, batch, collection, files>>

\* Fault: the conflicting request is sent again after it was refused.
ReplayAgain ==
    /\ submitter >= Replaying /\ Stored(<<batch, 1>>)
    /\ submitter' = submitter + 1
    /\ UNCHANGED <<system, batch, created, collection, files, faults>>

\* The first key again, and then with another period, which must be refused:
\* neither changes what is stored.
Replay ==
    /\ submitter \in {Replaying, Conflicting} /\ Stored(<<batch, 1>>)
    /\ submitter' = submitter + 1
    /\ UNCHANGED <<system, batch, created, collection, files, faults>>

\* What a run came to: of a completed run the ledgers, else the failure
Semantic(run) ==
    [status |-> run.status, failure |-> run.failure, result |-> run.result]

\* What the collector will refuse whenever it is run
Hopeless(s) ==
    \/ \E k \in KeysOf(s) :
          Stored(k) /\ (runs[k].attempts > 1 \/ runs[k].status = "FAILED"
                        \/ runs[k].failure # (runs[k].status = "UNAVAILABLE"))
    \/ \E j, k \in KeysOf(s) :
          /\ Stored(j) /\ Stored(k) /\ Schedule[j[2]] = Schedule[k[2]]
          /\ Schedule[j[2]] \in Repeated
          /\ \/ runs[j].input # runs[k].input
             \/ /\ {runs[j].status, runs[k].status} \cap {"QUEUED", "RUNNING"} = {}
                /\ Semantic(runs[j]) # Semantic(runs[k])

\* A fresh seed, when the one before cannot be proved
NewBatch ==
    /\ submitter = Idle \/ (submitter = Proved /\ Hopeless(batch))
    /\ batch < MaxBatch
    /\ batch' = batch + 1 /\ submitter' = 1 /\ created' = {}
    /\ UNCHANGED <<system, collection, files, faults>>

\* The script is run with the seed of a batch it was interrupted in.
SameBatch ==
    /\ submitter = Idle /\ batch > 0
    /\ submitter' = 1
    /\ UNCHANGED <<system, batch, created, collection, files, faults>>

-----------------------------------------------------------------------------
(* The custom lane: one run at a time, in the order of the queue.          *)

Running == {k \in Keys : Stored(k) /\ runs[k].status = "RUNNING"}
Queued == {k \in Keys : Stored(k) /\ runs[k].status = "QUEUED"}

Claim ==
    /\ Running = {}
    /\ \E k \in Queued :
          /\ \A j \in Queued : runs[k].queued <= runs[j].queued
          /\ runs' = [runs EXCEPT ![k].status = "RUNNING", ![k].attempts = @ + 1,
                                  ![k].started = IF @ = 0 THEN clock + 1 ELSE @]
    /\ clock' = clock + 1
    /\ UNCHANGED <<edition, submission, collection, files, faults>>

Usual(scenario) ==
    IF scenario \in Untradeable
    THEN [status |-> "UNAVAILABLE", failure |-> TRUE, result |-> 1]
    ELSE [status |-> "COMPLETED", failure |-> FALSE, result |-> 1]

Finish(outcome) ==
    /\ \E k \in Running :
          /\ IF outcome = Usual(Schedule[k[2]]) THEN UNCHANGED faults ELSE Fault
          /\ runs' = [runs EXCEPT ![k].status = outcome.status,
                                  ![k].failure = outcome.failure,
                                  ![k].result = outcome.result,
                                  ![k].completed = clock + 1]
    /\ clock' = clock + 1
    /\ UNCHANGED <<edition, submission, collection, files>>

WorkerDies ==
    /\ Fault
    /\ \E k \in Running : runs' = [runs EXCEPT ![k].status = "QUEUED"]
    /\ UNCHANGED <<clock, edition, submission, collection, files>>

Publish ==
    /\ edition < MaxEdition /\ edition' = edition + 1
    /\ UNCHANGED <<runs, clock, submission, collection, files, faults>>

-----------------------------------------------------------------------------
(* The collector.  Each of its reads sees what is committed by then.       *)

Raise == collector' = "idle" /\ rows' = <<>> /\ evidence' = <<>>

\* _load_rows, first query and assert_batch_identity
ReadRows ==
    /\ collector = "idle" /\ batch > 0 /\ \A k \in KeysOf(batch) : Stored(k)
    /\ seed' = batch
    /\ rows' = [i \in Requests |-> runs[<<batch, i>>]]
    /\ collector' = "attempts"
    /\ UNCHANGED <<system, submission, evidence, files, faults>>

Ended(row) == row.status \in {"COMPLETED", "UNAVAILABLE"}

\* assert_sequential_terminal_runs; the rows are in the order of the queue
Sequential ==
    /\ \A i \in Requests : Ended(rows[i]) /\ rows[i].completed >= rows[i].started
    /\ \A i, j \in Requests :
          rows[i].queued < rows[j].queued => rows[j].started >= rows[i].completed

\* Fault: the failure code of a completed run is not looked at.
ConsistentUnlessCompleted(row) == row.status = "UNAVAILABLE" => row.failure

\* The fields of a terminal row agree with its status.
Consistent(row) == row.failure = (row.status = "UNAVAILABLE")

\* _load_rows, second query, and what collect asserts of rows and attempts
ReadAttempts ==
    /\ collector = "attempts"
    /\ LET Attempts(i) == runs[<<seed, i>>].attempts
           accepted == /\ \A k \in KeysOf(seed) : k \notin Running
                       /\ Sequential
                       /\ \A i \in Requests : Attempts(i) = 1 /\ Consistent(rows[i])
       IN  IF accepted
           THEN collector' = "reconcile" /\ UNCHANGED <<rows, evidence>>
           ELSE Raise
    /\ UNCHANGED <<system, submission, seed, files, faults>>

\* reconcile and reconcile_terminal_inputs, in connections of their own, for
\* one row after another
Reconcile ==
    /\ collector = "reconcile"
    /\ \E i \in Requests \ DOMAIN evidence :
          LET run == runs[<<seed, i>>]
          IN  /\ \A j \in Requests \ DOMAIN evidence : rows[i].queued <= rows[j].queued
              /\ evidence' = [j \in DOMAIN evidence \cup {i} |->
                      IF j = i THEN [input |-> run.input, semantic |-> Semantic(run)]
                      ELSE evidence[j]]
    /\ UNCHANGED <<system, submission, seed, collector, rows, files, faults>>

\* Fault: only what each run read is compared, not what it computed.
RepeatableInputs ==
    \A i, j \in Requests :
        Schedule[i] = Schedule[j] /\ Schedule[i] \in Repeated
            => evidence[i].input = evidence[j].input

\* assert_repeatable_evidence
Repeatable ==
    \A i, j \in Requests :
        Schedule[i] = Schedule[j] /\ Schedule[i] \in Repeated => evidence[i] = evidence[j]

CheckEvidence ==
    /\ collector = "reconcile" /\ DOMAIN evidence = Requests
    /\ IF Repeatable THEN collector' = "write" /\ UNCHANGED <<rows, evidence>> ELSE Raise
    /\ UNCHANGED <<system, submission, seed, files, faults>>

\* _validated_result
Valid(row) ==
    /\ row.status \in {"COMPLETED", "FAILED", "CANCELLED", "UNAVAILABLE"}
    /\ row.attempts > 0 /\ row.completed >= row.started
    /\ row.failure = (row.status # "COMPLETED")

Contents(whole) == [seed |-> seed, runs |-> rows, whole |-> whole]

\* Fault: the receipt is written where it will be read.
WriteInPlace ==
    /\ collector = "write"
    /\ receipt' = Contents(FALSE)
    /\ collector' = "replace"
    /\ UNCHANGED <<system, submission, seed, rows, evidence, temporary, audit, faults>>

\* write_sanitized_receipt fills a temporary file, in more than one write ...
Write ==
    /\ collector = "write"
    /\ IF \A i \in Requests : Valid(rows[i])
       THEN /\ temporary' = Contents(FALSE)
            /\ collector' = "replace" /\ UNCHANGED <<rows, evidence>>
       ELSE Raise /\ UNCHANGED temporary
    /\ UNCHANGED <<system, submission, seed, receipt, audit, faults>>

\* ... and puts it in the place of the receipt when it is on disk.
Replace ==
    /\ collector = "replace"
    /\ temporary' = None /\ receipt' = Contents(TRUE)
    /\ collector' = "audit"
    /\ UNCHANGED <<system, submission, seed, rows, evidence, audit, faults>>

\* Fault: the audit is written before the receipt.
WriteAuditFirst ==
    /\ collector \in {"reconcile", "audit"} /\ DOMAIN evidence = Requests
    /\ audit' = Contents(TRUE)
    /\ IF collector = "audit" THEN Raise ELSE UNCHANGED collection
    /\ UNCHANGED <<system, submission, seed, temporary, receipt, faults>>

\* The audit is written in place, after the receipt.
WriteAudit ==
    /\ collector = "audit"
    /\ audit' = Contents(TRUE)
    /\ Raise
    /\ UNCHANGED <<system, submission, seed, temporary, receipt, faults>>

\* An end at the audit leaves the one before, if any, or part of the new one.
CollectorEnds ==
    /\ collector # "idle" /\ Raise /\ Fault
    /\ \/ UNCHANGED audit
       \/ collector = "audit" /\ audit' = Contents(FALSE)
    /\ UNCHANGED <<system, submission, seed, temporary, receipt>>

SubmitterStep == Submit \/ Replay
CollectorStep == ReadAttempts \/ Reconcile \/ CheckEvidence \/ Write \/ Replace \/ WriteAudit
EngineStep == Claim \/ \E o \in Outcome : Finish(o)

Next ==
    \/ NewBatch \/ SameBatch \/ SubmitterStep \/ LoseAnswer
    \/ EngineStep \/ WorkerDies \/ Publish
    \/ ReadRows \/ CollectorStep \/ CollectorEnds

Spec == Init /\ [][Next]_vars

\* A fresh seed can be tried whenever the submitter is not running, however
\* often the old one is tried again: a strong fairness.
FairSpec ==
    /\ Spec
    /\ SF_vars(NewBatch) /\ WF_vars(SubmitterStep) /\ WF_vars(EngineStep)
    /\ WF_vars(ReadRows) /\ WF_vars(CollectorStep)

-----------------------------------------------------------------------------

\* A receipt is whole, and what it says of every run of its seed is still
\* so: each ended after one attempt, none overlapped, and repetitions of a
\* scenario agree in what they read and what they computed, although rows,
\* attempts and evidence were read at different times.
ReceiptIsProof ==
    receipt # None =>
        /\ receipt.whole
        /\ \A i, j \in Requests :
              LET r == runs[<<receipt.seed, i>>]
                  s == runs[<<receipt.seed, j>>]
              IN  /\ r = receipt.runs[i] /\ Ended(r) /\ r.attempts = 1
                  /\ i < j => r.completed <= s.started
                  /\ Schedule[i] = Schedule[j] /\ Schedule[i] \in Repeated
                        => r.input = s.input /\ Semantic(r) = Semantic(s)

\* The runner never refuses a result the collector has accepted.
AcceptedIsValid ==
    collector = "write" => \A i \in Requests : Valid(rows[i])

\* A batch whose submission was proved holds no run that was there before:
\* every one was created, in the order of the schedule, by that submission.
ProvedIsFresh ==
    submitter = Proved =>
        /\ KeysOf(batch) \subseteq created
        /\ \A i, j \in Requests :
              i < j => runs[<<batch, i>>].queued < runs[<<batch, j>>].queued

\* The audit never speaks of a batch that has no receipt.
AuditFollowsReceipt ==
    audit # None => receipt # None /\ audit.seed <= receipt.seed

\* With seeds enough for what may go wrong, some batch gets its receipt.
EventuallyReceipt == <>(receipt # None /\ audit # None)

\* The state is typed, collector and runner agree on what a valid result is,
\* and the audit follows the receipt.
ProofInvariant ==
    /\ TypeOK
    /\ AcceptedIsValid
    /\ AuditFollowsReceipt

=============================================================================
