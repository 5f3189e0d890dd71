--------------------------- MODULE SampleSeeding ---------------------------
(***************************************************************************)
(* seed_samples: for each sample of the corpus, leave one released         *)
(* strategy and one editable copy in the account's library, by calls to    *)
(* the public API, whatever an earlier, interrupted run left there.        *)
(*                                                                         *)
(* The API is the backend's, whose code is elsewhere: it is modelled from  *)
(* the calls LocalSampleApi makes.  Of a strategy it keeps what the script  *)
(* goes by: its name, whether its description is the sample's, the sample  *)
(* key and revision in its document and what is in that document.  A call  *)
(* whose answer is lost is a call followed by Crash.  Users of the same    *)
(* account create, save and release what they like; nobody renames.        *)
(***************************************************************************)
EXTENDS Naturals, Sequences, FiniteSets

CONSTANTS
    Order,          \* the samples, in the order of the corpus
    MaxStrategies,  \* bound: strategies the library may hold
    PageLimit,      \* how many strategies list_strategies returns at most
    MaxFaults,      \* bound: crashes, and leases lost while in use
    MaxEdits,       \* bound: what users create, save and release
    None

Samples == {Order[i] : i \in DOMAIN Order}
Ids == 1..MaxStrategies

ASSUME SeedingAssumption ==
    /\ Order \in Seq(Samples) /\ Order # <<>>
    /\ \A i, j \in DOMAIN Order : Order[i] = Order[j] => i = j
    /\ MaxStrategies \in Nat /\ MaxStrategies >= 2 /\ PageLimit \in Nat \ {0}
    /\ MaxFaults \in Nat /\ MaxEdits \in Nat

VARIABLES
    strategies,     \* the account's library
    pc,             \* the next call of the run
    todo,           \* the samples this run still has to prepare
    library,        \* id and kind of the strategies, as listed at the start
    candidates,     \* the sample's drafts whose document was not yet read
    configured,     \* the draft that carries the sample's key, or None
    current,        \* whether it carries the current revision too
    resumable,      \* an empty draft an interrupted run left, or None
    target,         \* the strategy being configured
    copying,        \* whether the target is the editable copy
    sequence,       \* the editSequence read before saving, or validated
    receipts,       \* the draft each sample was prepared as
    faults, edits,
    created, written, releases, \* history: what the script did in any run
    marked,         \* history: what anybody ever made look like a sample's
    touched         \* history: what users changed since the run began

choice == <<candidates, configured, current, resumable>>
work == <<target, copying, sequence, receipts>>
history == <<created, written, releases, marked, touched>>
vars == <<strategies, pc, todo, library, choice, work, faults, edits, history>>

\* key: the sample's key, with a former or the current revision
Document == [key : {None, "old", "current"}, content : {"empty", "sample", "user"}]

\* A user's document may carry a sample's key, and may be valid or not.
UserDocument == {d \in Document : d.content = "user" \/ d = [key |-> None, content |-> "empty"]}

\* lease: whose edit lease it is under; "stale" if its holder is gone
Strategy == [name : Samples, described : BOOLEAN, kind : {"draft", "released"},
             document : Document, editSequence : Nat,
             lease : {None, "seeder", "stale"}]

ASSUME NoneAssumption ==
    /\ None \notin Ids /\ None \notin Strategy
    /\ None \notin {"seeder", "stale", "old", "current"}

Calls == {"sample", "look", "lease", "read", "save", "unlease", "give up",
          "validate", "release", "copy"}

TypeOK ==
    /\ strategies \in [Ids -> {None} \cup Strategy]
    /\ pc \in {"idle", "done"} \cup Calls
    /\ todo \in {SubSeq(Order, i, Len(Order)) : i \in 1..(Len(Order) + 1)}
    /\ library \subseteq [id : Ids, kind : {"draft", "released"}]
    /\ candidates \subseteq Ids
    /\ {configured, resumable, target} \subseteq Ids \cup {None}
    /\ {current, copying} \subseteq BOOLEAN
    /\ sequence \in Nat
    /\ receipts \in [Samples -> Ids \cup {None}]
    /\ {created, written, releases, marked, touched} \subseteq SUBSET Ids
    /\ faults \in 0..MaxFaults /\ edits \in 0..MaxEdits

-----------------------------------------------------------------------------

Live == {i \in Ids : strategies[i] # None}

Empty == [key |-> None, content |-> "empty"]
Own(revision) == [key |-> revision, content |-> "sample"]

New(sample, described, document) ==
    [name |-> sample, described |-> described, kind |-> "draft",
     document |-> document, editSequence |-> 0, lease |-> None]

\* An earlier run left it so: it carries the key, or it is the empty draft of
\* a sample, whoever created it.
LooksOurs(strategy) ==
    \/ strategy.document.key # None
    \/ strategy.described /\ strategy.document.content = "empty"

\* Nothing is ever deleted, so the ids are numbered as they are taken.  Their
\* order means nothing: no page and no loop over a page follows it.
NextId == Cardinality(Live) + 1

\* marked, with what a strategy has just become
Marking(i, strategy) == IF LooksOurs(strategy) THEN marked \cup {i} ELSE marked

Creates(strategy) ==
    /\ NextId \in Ids
    /\ strategies' = [strategies EXCEPT ![NextId] = strategy]
    /\ marked' = Marking(NextId, strategy)

\* What a library may hold of a sample before: nothing, what an older
\* revision of the script left, or a user's strategy of the same name, which
\* may be empty and described as the sample.
Before(sample) ==
    {<<>>,
     <<[New(sample, TRUE, Own("old")) EXCEPT !.kind = "released"],
       New(sample, TRUE, Own("old"))>>,
     <<New(sample, FALSE, [key |-> None, content |-> "user"])>>,
     <<New(sample, TRUE, Empty)>>}

Init ==
    /\ \E first \in Before(Order[1]) :
          /\ strategies = [i \in Ids |-> IF i \in DOMAIN first THEN first[i] ELSE None]
          /\ created = {i \in DOMAIN first : first[i].document.key # None}
          /\ marked = {i \in DOMAIN first : LooksOurs(first[i])}
    /\ written = created /\ touched = {}
    /\ releases = {i \in created : strategies[i].kind = "released"}
    /\ pc = "idle" /\ todo = Order
    /\ library = {} /\ candidates = {}
    /\ configured = None /\ current = FALSE /\ resumable = None
    /\ target = None /\ copying = FALSE /\ sequence = 0
    /\ receipts = [s \in Samples |-> None]
    /\ faults = 0 /\ edits = 0

-----------------------------------------------------------------------------
(* The run.  What it holds on an exception is forgotten with it.           *)

Sample == Head(todo)

Forget ==
    /\ todo' = Order /\ library' = {} /\ candidates' = {}
    /\ configured' = None /\ current' = FALSE /\ resumable' = None
    /\ target' = None /\ copying' = FALSE /\ sequence' = 0
    /\ receipts' = [s \in Samples |-> None]

Fail == pc' = "idle" /\ Forget

\* The listed strategies that carry the sample's name
SameName == {row \in library : strategies[row.id].name = Sample}
ReleasedExists == \E row \in SameName : row.kind = "released"
DraftCandidates == {row.id : row \in {r \in SameName : r.kind # "released"}}

\* One page of the library, in an order of the server's choosing
Start ==
    /\ pc \in {"idle", "done"}
    /\ \E page \in SUBSET Live :
          /\ Cardinality(page) = IF Cardinality(Live) < PageLimit
                                 THEN Cardinality(Live) ELSE PageLimit
          /\ library' = {[id |-> i, kind |-> strategies[i].kind] : i \in page}
    /\ pc' = "sample" /\ todo' = Order
    /\ receipts' = [s \in Samples |-> None]
    /\ touched' = {}
    /\ UNCHANGED <<strategies, choice, target, copying, sequence, faults, edits,
                   created, written, releases, marked>>

Consider ==
    /\ pc = "sample"
    /\ pc' = "look"
    /\ candidates' = DraftCandidates
    /\ configured' = None /\ current' = FALSE /\ resumable' = None
    /\ target' = None /\ copying' = FALSE /\ sequence' = 0
    /\ UNCHANGED <<strategies, todo, library, receipts, faults, edits, history>>

IsSamples(i) == strategies[i].document.key # None

\* Fault: an empty draft is nobody's.
IsLeftoverNever(i) == FALSE

\* Fault: any empty draft is resumed.
IsEmpty(i) == strategies[i].document.content = "empty"

IsLeftover(i) ==
    strategies[i].described /\ strategies[i].document.content = "empty"

\* get_document of one draft; the loop stops at the first with the key.
Look(i) ==
    /\ pc = "look" /\ configured = None /\ i \in candidates
    /\ candidates' = candidates \ {i}
    /\ IF IsSamples(i)
       THEN /\ configured' = i
            /\ current' = (strategies[i].document.key = "current")
            /\ UNCHANGED resumable
       ELSE /\ resumable' = IF IsLeftover(i) THEN i ELSE resumable
            /\ UNCHANGED <<configured, current>>
    /\ UNCHANGED <<strategies, pc, todo, library, work, faults, edits, history>>

Looked == pc = "look" /\ (candidates = {} \/ configured # None)
Existing == IF configured # None THEN configured ELSE resumable

\* Fault: the last sample is struck off the list instead of the first.
NextSampleFromBack ==
    /\ todo' = SubSeq(todo, 1, Len(todo) - 1)
    /\ pc' = IF Len(todo) = 1 THEN "done" ELSE "sample"

NextSample ==
    /\ todo' = Tail(todo)
    /\ pc' = IF Len(todo) = 1 THEN "done" ELSE "sample"

Receives(i) == receipts' = [receipts EXCEPT ![Sample] = i]

\* Fault: a draft of an older revision is taken for the current one.
ReuseAnyRevision ==
    /\ Looked /\ configured # None /\ ReleasedExists
    /\ NextSample /\ Receives(configured)
    /\ UNCHANGED <<strategies, library, choice, target, copying, sequence, faults,
                   edits, history>>

Reuse ==
    /\ Looked /\ configured # None /\ current /\ ReleasedExists
    /\ NextSample /\ Receives(configured)
    /\ UNCHANGED <<strategies, library, choice, target, copying, sequence, faults,
                   edits, history>>

Refuse ==
    /\ Looked /\ DraftCandidates # {} /\ Existing = None
    /\ Fail
    /\ UNCHANGED <<strategies, faults, edits, history>>

Resume ==
    /\ Looked /\ Existing # None
    /\ ~(configured # None /\ current /\ ReleasedExists)
    /\ target' = Existing /\ copying' = FALSE /\ pc' = "lease"
    /\ UNCHANGED <<strategies, todo, library, choice, sequence, receipts, faults,
                   edits, history>>

ScriptCreates ==
    /\ Creates(New(Sample, TRUE, Empty)) /\ target' = NextId
    /\ created' = created \cup {NextId}
    /\ pc' = "lease"
    /\ UNCHANGED <<todo, library, choice, sequence, receipts, faults, edits,
                   written, releases, touched>>

\* Fault: a name that is taken is not refused.
CreateBeside ==
    /\ Looked /\ Existing = None
    /\ ScriptCreates /\ copying' = FALSE

Create ==
    /\ Looked /\ DraftCandidates = {}
    /\ ScriptCreates /\ copying' = FALSE

-----------------------------------------------------------------------------
(* configure: the document is saved under an edit lease, then validated.   *)

IsMine == strategies[target].lease = "seeder"
IsDraft == strategies[target].kind = "draft"

AcquireLease ==
    /\ pc = "lease"
    /\ IF IsDraft /\ strategies[target].lease = None
       THEN /\ strategies' = [strategies EXCEPT ![target].lease = "seeder"]
            /\ pc' = "read"
            /\ UNCHANGED <<todo, library, choice, work>>
       ELSE Fail /\ UNCHANGED strategies
    /\ UNCHANGED <<faults, edits, history>>

ReadSequence ==
    /\ pc = "read"
    /\ sequence' = strategies[target].editSequence
    /\ pc' = "save"
    /\ UNCHANGED <<strategies, todo, library, choice, target, copying, receipts,
                   faults, edits, history>>

Saveable == IsMine /\ IsDraft /\ strategies[target].editSequence = sequence

SaveDocument ==
    /\ pc = "save"
    /\ IF Saveable
       THEN /\ strategies' = [strategies EXCEPT
                 ![target].document = Own("current"),
                 ![target].editSequence = @ + 1]
            /\ written' = written \cup {target}
            /\ pc' = "unlease"
       ELSE pc' = "give up" /\ UNCHANGED <<strategies, written>>
    /\ UNCHANGED <<todo, library, choice, work, faults, edits, created, releases,
                   marked, touched>>

\* The PUT fails for a reason that is not the run's.
SaveFails ==
    /\ pc = "save" /\ faults < MaxFaults
    /\ faults' = faults + 1 /\ pc' = "give up"
    /\ UNCHANGED <<strategies, todo, library, choice, work, edits, history>>

\* Fault: the lease is given back only after a save that went well.
ReturnedAfterSave ==
    [strategies EXCEPT ![target].lease =
        IF IsMine /\ pc = "unlease" THEN None ELSE @]

Returned == [strategies EXCEPT ![target].lease = IF IsMine THEN None ELSE @]

\* The finally clause; giving back a lease that is lost is an error.
ReleaseLease ==
    /\ pc \in {"unlease", "give up"}
    /\ strategies' = Returned
    /\ IF pc = "unlease" /\ IsMine
       THEN pc' = "validate" /\ UNCHANGED <<todo, library, choice, work>>
       ELSE Fail
    /\ UNCHANGED <<faults, edits, history>>

\* Fault: the release of an earlier run is not skipped.
ValidateThenRelease ==
    /\ pc = "validate"
    /\ sequence' = strategies[target].editSequence
    /\ IF copying
       THEN NextSample /\ Receives(target)
       ELSE pc' = "release" /\ UNCHANGED <<todo, receipts>>
    /\ UNCHANGED <<strategies, library, choice, target, copying, faults, edits,
                   history>>

\* The samples' own documents are valid; any other may be or not.
Validate ==
    /\ pc = "validate"
    /\ \/ /\ sequence' = strategies[target].editSequence
          /\ IF copying \/ ReleasedExists
             THEN NextSample /\ Receives(target)
             ELSE pc' = "release" /\ UNCHANGED <<todo, receipts>>
          /\ UNCHANGED <<library, choice, target, copying>>
       \/ /\ strategies[target].document.content # "sample"
          /\ Fail
    /\ UNCHANGED <<strategies, faults, edits, history>>

\* A validation of an older document releases nothing.
Release ==
    /\ pc = "release"
    /\ IF IsDraft /\ strategies[target].editSequence = sequence
       THEN /\ strategies' = [strategies EXCEPT ![target].kind = "released"]
            /\ written' = written \cup {target}
            /\ releases' = releases \cup {target}
            /\ pc' = "copy"
            /\ UNCHANGED <<todo, library, choice, work>>
       ELSE Fail /\ UNCHANGED <<strategies, written, releases>>
    /\ UNCHANGED <<faults, edits, created, marked, touched>>

CreateCopy ==
    /\ pc = "copy"
    /\ ScriptCreates /\ copying' = TRUE

-----------------------------------------------------------------------------
(* The rest of the world.                                                  *)

Crash ==
    /\ pc \in Calls /\ faults < MaxFaults
    /\ faults' = faults + 1
    /\ strategies' = [i \in Ids |->
          IF i \in Live /\ strategies[i].lease = "seeder"
          THEN [strategies[i] EXCEPT !.lease = "stale"] ELSE strategies[i]]
    /\ Fail
    /\ UNCHANGED <<edits, history>>

LeaseRunsOut(i) ==
    /\ i \in Live /\ strategies[i].lease = "stale"
    /\ strategies' = [strategies EXCEPT ![i].lease = None]
    /\ UNCHANGED <<pc, todo, library, choice, work, faults, edits, history>>

\* The run stalls for so long that its own lease runs out.
LeaseLost(i) ==
    /\ i \in Live /\ strategies[i].lease = "seeder" /\ faults < MaxFaults
    /\ faults' = faults + 1
    /\ strategies' = [strategies EXCEPT ![i].lease = None]
    /\ UNCHANGED <<pc, todo, library, choice, work, edits, history>>

UserActs ==
    /\ edits < MaxEdits /\ edits' = edits + 1
    /\ UNCHANGED <<pc, todo, library, choice, work, faults, created, written,
                   releases>>

UserSaves(i, document) ==
    /\ i \in Live /\ strategies[i].kind = "draft" /\ strategies[i].lease = None
    /\ strategies' = [strategies EXCEPT ![i].document = document,
                                        ![i].editSequence = @ + 1]
    /\ marked' = Marking(i, strategies'[i]) /\ touched' = touched \cup {i}
    /\ UserActs

UserReleases(i) ==
    /\ i \in Live /\ strategies[i].kind = "draft"
    /\ strategies[i].document.content # "empty"
    /\ strategies' = [strategies EXCEPT ![i].kind = "released"]
    /\ touched' = touched \cup {i} /\ UNCHANGED marked
    /\ UserActs

UserCreates ==
    /\ \E s \in Samples, described \in BOOLEAN : Creates(New(s, described, Empty))
    /\ UNCHANGED touched
    /\ UserActs

-----------------------------------------------------------------------------

SeederStep ==
    \/ Start \/ Consider \/ (\E i \in Ids : Look(i))
    \/ Reuse \/ Refuse \/ Resume \/ Create
    \/ AcquireLease \/ ReadSequence \/ SaveDocument \/ ReleaseLease
    \/ Validate \/ Release \/ CreateCopy

Next ==
    \/ SeederStep
    \/ SaveFails
    \/ Crash
    \/ \E i \in Ids :
          \/ LeaseRunsOut(i) \/ LeaseLost(i) \/ UserReleases(i)
          \/ \E document \in UserDocument : UserSaves(i, document)
    \/ UserCreates

\* A run takes its next step, a failed run is started again, and the lease of
\* a run that is gone runs out.
Fairness ==
    /\ WF_vars(SeederStep)
    /\ \A i \in Ids : WF_vars(LeaseRunsOut(i))

Spec == Init /\ [][Next]_vars
FairSpec == Spec /\ Fairness

-----------------------------------------------------------------------------

Of(sample, kind) ==
    {i \in Live : strategies[i].name = sample /\ strategies[i].kind = kind}

\* However often the script is run and wherever it is interrupted, it releases
\* a sample once: seed_samples skips release_strategy when the library already
\* holds a released strategy of its name.
ReleasedOnce ==
    \A s \in Samples : Cardinality({i \in releases : strategies[i].name = s}) <= 1

\* Of a sample whose strategies are all the script's, there is never a second
\* draft beside the one an earlier run left, whatever users save into it or
\* release: an interrupted run's draft is resumed, not created again.  (Beside a
\* strategy that a user creates under the name after the page was read, the
\* script does create.)
OneDraft ==
    \A s \in Samples :
        (\A i \in Live : strategies[i].name = s => i \in created)
            => Cardinality(Of(s, "draft")) <= 1

\* When the script reports that the samples are prepared, each has a release,
\* and the draft named in its receipt carries this revision of it, unless a
\* user has changed that draft since the run began.
DoneIsPrepared ==
    pc = "done" =>
        \A s \in Samples :
            /\ Of(s, "released") # {}
            /\ receipts[s] # None
            /\ receipts[s] \notin touched =>
                  /\ receipts[s] \in Of(s, "draft")
                  /\ strategies[receipts[s]].document.key = "current"

\* A run that ended by itself, well or in an exception, holds no edit lease:
\* configure gives it back in its finally clause.
LeasesGivenBack ==
    pc \in {"idle", "done", "sample", "look", "validate", "release", "copy"} =>
        \A i \in Live : strategies[i].lease # "seeder"

\* The script saves and releases only what has looked like a sample's: a
\* strategy that never carried a sample's key and was never an empty draft with
\* its description is left as it is, in whatever state the script finds it and
\* whatever users do between its calls.
OthersUntouched == written \subseteq marked

\* With a bounded number of crashes and lost leases, and nobody else at work
\* in the account, running the script again until it ends well prepares every
\* sample: no state an interrupted run leaves behind blocks the next one.
EventuallyPrepared ==
    (Live \subseteq marked /\ [](edits = 0))
        => <>[](\A s \in Samples :
                   /\ Of(s, "released") # {}
                   /\ \E i \in Of(s, "draft") : strategies[i].document.key = "current")

\* Whatever calls were interrupted, the library holds nothing twice and the
\* script keeps no lease it does not use.
SeedingInvariant ==
    /\ TypeOK
    /\ ReleasedOnce
    /\ OneDraft
    /\ LeasesGivenBack

=============================================================================
