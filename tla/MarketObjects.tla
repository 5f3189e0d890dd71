--------------------------- MODULE MarketObjects ---------------------------
(***************************************************************************)
(* The objects behind the local market data: a versioned object store, the *)
(* rows of storage.objects that name a bucket, key and version in it, and  *)
(* the scripts that fill and repair both.  The materialiser prunes feature *)
(* outputs no row names, then makes each source row name a sealed version  *)
(* of its content; the seeder puts fixture objects and upserts their rows. *)
(* The pipeline that computes feature outputs is external.  What a script  *)
(* puts is there at once; what it writes to rows, when it commits.         *)
(***************************************************************************)
EXTENDS Naturals, Sequences, FiniteSets

CONSTANTS
    Order,          \* the keys of the sources, as the ids of their relations sort
    Outputs,        \* keys under feature-output/
    Fixtures,       \* the keys the seeder fills, in its order
    Buckets,
    Target,         \* the bucket the scripts are configured with
    SealedAway,     \* whether copies outside Target may be sealed too
    MaxVersions,    \* bound: the ids of versions
    MaxCrashes,     \* bound: crashes
    None

Sources == {Order[i] : i \in DOMAIN Order}
Keys == Sources \cup Outputs
Seeded == {Fixtures[i] : i \in DOMAIN Fixtures}

ASSUME MarketAssumption ==
    /\ Order \in Seq(Sources) /\ Fixtures \in Seq(Keys)
    /\ Sources \cap Outputs = {}
    /\ Target \in Buckets /\ SealedAway \in BOOLEAN
    /\ MaxVersions \in Nat /\ Len(Order) <= MaxVersions
    /\ MaxCrashes \in Nat

VARIABLES
    objects,        \* every version ever put, delete markers too
    rows,           \* storage.objects, as committed
    pc,             \* the materialiser's next step
    referenced,     \* the outputs that rows named when the prune began
    orphaned,       \* the outputs the prune has still to delete
    sources,        \* the sources this run normalises, as read at its start
    todo,           \* those still to do
    found,          \* the version the current one was found in or put as
    pending,        \* row updates of the materialiser, not yet committed
    seeding,        \* how many fixtures are put; None if it is not running
    upserts,        \* row writes of the seeder, not yet committed
    output,         \* an output the pipeline has put and not yet recorded
    crashes,
    together        \* whether the scripts and the pipeline overlap at all

prune == <<referenced, orphaned>>
normal == <<sources, todo, found, pending>>
seeder == <<seeding, upserts>>
world == <<crashes, together>>
vars == <<objects, rows, pc, prune, normal, seeder, output, world>>

\* body: the bytes the key's row expects, or others, or a delete marker
\* sealed: encrypted, and carries the sha256 the row expects as metadata
Version == [bucket : Buckets, key : Keys, id : 1..MaxVersions,
            body : {"own", "other", "deleted"}, sealed : BOOLEAN]

\* bucket_name and provider_version_id; 0 is a version of another store.
Place == [bucket : Buckets, id : 0..MaxVersions]

Recording == [key : Outputs, id : 1..MaxVersions]

ASSUME NoneAssumption ==
    None \notin Version \cup Place \cup Recording \cup (0..Len(Fixtures))

TypeOK ==
    /\ objects \subseteq Version
    /\ rows \in [Keys -> {None} \cup Place]
    /\ pc \in {"idle", "list", "delete", "locate", "rewrite", "bind", "done"}
    /\ referenced \subseteq Outputs /\ orphaned \subseteq Outputs
    /\ sources \subseteq Sources
    /\ todo \subseteq sources
    /\ found \in {None} \cup Version
    /\ pending \in [Keys -> {None} \cup Place]
    /\ seeding \in {None} \cup 0..Len(Fixtures)
    /\ upserts \in [Keys -> {None} \cup Place]
    /\ output \in {None} \cup Recording
    /\ crashes \in 0..MaxCrashes /\ together \in BOOLEAN

-----------------------------------------------------------------------------
(* The store.  Ids grow, so the latest version of a key has the greatest.  *)

VersionsOf(bucket, key) == {v \in objects : v.bucket = bucket /\ v.key = key}

\* head_object without a version
Latest(bucket, key) ==
    {v \in VersionsOf(bucket, key) :
        v.body # "deleted" /\ \A w \in VersionsOf(bucket, key) : w.id <= v.id}

\* head_object with a version
Exactly(key, place) ==
    {v \in VersionsOf(place.bucket, key) : v.id = place.id /\ v.body # "deleted"}

\* The first ids are those of the restored sources.
NextId == Len(Order) + Cardinality(objects) + 1

New(bucket, key, body) ==
    [bucket |-> bucket, key |-> key, id |-> NextId, body |-> body,
     sealed |-> body = "own"]

Put(version) == NextId <= MaxVersions /\ objects' = objects \cup {version}

Unwritten == [k \in Keys |-> None]
Written(writes) == [k \in Keys |-> IF writes[k] = None THEN rows[k] ELSE writes[k]]

\* How a restored baseline leaves a source: its object in one bucket, its
\* row naming that version or one the store does not have.
Restored == {s \in [bucket : Buckets, body : {"own", "other"},
                    sealed : BOOLEAN, named : BOOLEAN] :
                s.sealed => s.body = "own" /\ (s.bucket = Target \/ SealedAway)}

Init ==
    /\ \E start \in [DOMAIN Order -> Restored] :
          LET there == {i \in DOMAIN Order : Order[i] \notin Seeded}
              At(i) == [bucket |-> start[i].bucket, key |-> Order[i], id |-> i,
                        body |-> start[i].body, sealed |-> start[i].sealed]
          IN  /\ objects = {At(i) : i \in there}
              /\ \A i \in DOMAIN Order \ there : start[i] = CHOOSE s \in Restored : TRUE
              /\ rows = [k \in Keys |->
                    IF \E i \in there : Order[i] = k
                    THEN LET i == CHOOSE j \in there : Order[j] = k
                         IN  IF start[i].named
                             THEN [bucket |-> start[i].bucket, id |-> i]
                             ELSE [bucket |-> Target, id |-> 0]
                    ELSE None]
    /\ pc = "idle" /\ referenced = {} /\ orphaned = {}
    /\ sources = {} /\ todo = {} /\ found = None /\ pending = Unwritten
    /\ seeding = None /\ upserts = Unwritten
    /\ output = None /\ crashes = 0 /\ together \in BOOLEAN

-----------------------------------------------------------------------------
(* The materialiser.                                                       *)

\* Scripts that do not overlap
MaterialiserFree == together \/ (seeding = None /\ output = None)
SeederFree == together \/ (pc \in {"idle", "done"} /\ output = None)
PipelineFree == together \/ (pc \in {"idle", "done"} /\ seeding = None)

\* An exception, or the end of the process, rolls the transaction back.
Stop(at) ==
    /\ pc' = at
    /\ referenced' = {} /\ orphaned' = {} /\ todo' = {}
    /\ found' = None /\ pending' = Unwritten

\* Fault: the rows are not restricted to those of market sources.
StartWithAll ==
    /\ pc \in {"idle", "done"} /\ MaterialiserFree
    /\ sources' = {k \in Keys : rows[k] # None}
    /\ referenced' = {k \in Outputs : rows[k] # None}
    /\ pc' = "list"
    /\ UNCHANGED <<objects, rows, orphaned, todo, found, pending, seeder, output, world>>

\* _official_source_ids, and the keys _prune_orphan_feature_outputs keeps
Start ==
    /\ pc \in {"idle", "done"} /\ MaterialiserFree
    /\ sources' = {k \in Sources : rows[k] # None}
    /\ referenced' = {k \in Outputs : rows[k] # None}
    /\ pc' = "list"
    /\ UNCHANGED <<objects, rows, orphaned, todo, found, pending, seeder, output, world>>

\* Fault: the outputs that rows name are listed, not the others.
ListInverted ==
    /\ pc = "list"
    /\ orphaned' = {k \in referenced : Latest(Target, k) # {}}
    /\ pc' = "delete"
    /\ UNCHANGED <<objects, rows, referenced, normal, seeder, output, world>>

List ==
    /\ pc = "list"
    /\ orphaned' = {k \in Outputs \ referenced : Latest(Target, k) # {}}
    /\ pc' = "delete"
    /\ UNCHANGED <<objects, rows, referenced, normal, seeder, output, world>>

\* delete_objects names keys and no versions: each gets a marker.
Delete ==
    /\ pc = "delete"
    /\ IF orphaned = {}
       THEN /\ pc' = "locate" /\ todo' = sources
            /\ UNCHANGED <<objects, orphaned>>
       ELSE /\ \E k \in orphaned :
                  Put(New(Target, k, "deleted")) /\ orphaned' = orphaned \ {k}
            /\ UNCHANGED <<pc, todo>>
    /\ UNCHANGED <<rows, referenced, sources, found, pending, seeder, output, world>>

\* The next in order
Source == Order[CHOOSE i \in DOMAIN Order :
                    /\ Order[i] \in todo
                    /\ \A j \in DOMAIN Order : Order[j] \in todo => i <= j]

\* Fault: only the row's own bucket is searched.
CopiesInBucket(place) ==
    IF Exactly(Source, place) # {} THEN Exactly(Source, place)
    ELSE Latest(place.bucket, Source)

\* The row's own version, else the latest in its bucket, else in any other
Copies(place) ==
    IF Exactly(Source, place) # {} THEN Exactly(Source, place)
    ELSE IF Latest(place.bucket, Source) # {} THEN Latest(place.bucket, Source)
    ELSE UNION {Latest(b, Source) : b \in Buckets}

Done(writes) == pending' = writes /\ found' = None /\ todo' = todo \ {Source} /\ pc' = "locate"

\* A sealed version stands; an unsealed one is put again, if its bytes are
\* the row's; other bytes, or none anywhere, end the run.
Locate ==
    /\ pc = "locate" /\ todo # {}
    /\ \/ /\ Copies(rows[Source]) = {}
          /\ Stop("idle")
       \/ \E v \in Copies(rows[Source]) :
             \/ v.sealed /\ v.id = rows[Source].id /\ Done(pending)
                /\ UNCHANGED prune
             \/ v.sealed /\ v.id # rows[Source].id /\ found' = v /\ pc' = "bind"
                /\ UNCHANGED <<prune, todo, pending>>
             \/ ~v.sealed /\ v.body = "own" /\ found' = v /\ pc' = "rewrite"
                /\ UNCHANGED <<prune, todo, pending>>
             \/ ~v.sealed /\ v.body # "own" /\ Stop("idle")
    /\ UNCHANGED <<objects, rows, sources, seeder, output, world>>

Rewrite ==
    /\ pc = "rewrite"
    /\ LET copy == New(Target, Source, found.body)
       IN  Put(copy) /\ found' = copy
    /\ pc' = "bind"
    /\ UNCHANGED <<rows, prune, sources, todo, pending, seeder, output, world>>

\* Fault: the bucket of the row is left as it was.
BindKeepingBucket ==
    /\ pc = "bind" /\ upserts[Source] = None
    /\ Done([pending EXCEPT ![Source] =
                 [bucket |-> rows[Source].bucket, id |-> found.id]])
    /\ UNCHANGED <<objects, rows, prune, sources, seeder, output, world>>

\* The update waits for the row while the seeder has written it.
Bind ==
    /\ pc = "bind" /\ upserts[Source] = None
    /\ Done([pending EXCEPT ![Source] = [bucket |-> Target, id |-> found.id]])
    /\ UNCHANGED <<objects, rows, prune, sources, seeder, output, world>>

\* Fault: the updates are rolled back at the end of the block.
CommitNothing ==
    /\ pc = "locate" /\ todo = {}
    /\ Stop("done")
    /\ UNCHANGED <<objects, rows, sources, seeder, output, world>>

Commit ==
    /\ pc = "locate" /\ todo = {}
    /\ rows' = Written(pending)
    /\ Stop("done")
    /\ UNCHANGED <<objects, sources, seeder, output, world>>

-----------------------------------------------------------------------------
(* The seeder, and the pipeline that records feature outputs.              *)

SeedStart ==
    /\ seeding = None /\ SeederFree
    /\ seeding' = 0
    /\ UNCHANGED <<objects, rows, pc, prune, normal, upserts, output, world>>

\* _put_versioned reuses the latest version if it carries the sha256.  No
\* restored object has a fixture's key and every put of one is encrypted, so
\* that is when it is sealed.  The upsert leaves the bucket of an existing
\* row alone, and waits for its lock.
SeedFixture ==
    /\ seeding \in 0..(Len(Fixtures) - 1)
    /\ LET k == Fixtures[seeding + 1]
           kept == {v \in Latest(Target, k) : v.sealed}
           bucket == IF rows[k] = None THEN Target ELSE rows[k].bucket
           Upsert(v) == upserts' = [upserts EXCEPT ![k] = [bucket |-> bucket, id |-> v.id]]
       IN  /\ pending[k] = None
           /\ \/ \E v \in kept : Upsert(v) /\ UNCHANGED objects
              \/ /\ kept = {}
                 /\ Put(New(Target, k, "own")) /\ Upsert(New(Target, k, "own"))
    /\ seeding' = seeding + 1
    /\ UNCHANGED <<rows, pc, prune, normal, output, world>>

SeedCommit ==
    /\ seeding = Len(Fixtures)
    /\ rows' = Written(upserts)
    /\ seeding' = None /\ upserts' = Unwritten
    /\ UNCHANGED <<objects, pc, prune, normal, output, world>>

PipelinePut(k) ==
    /\ output = None /\ PipelineFree /\ rows[k] = None
    /\ Put(New(Target, k, "own")) /\ output' = [key |-> k, id |-> NextId]
    /\ UNCHANGED <<rows, pc, prune, normal, seeder, world>>

PipelineRecord ==
    /\ output # None
    /\ rows' = [rows EXCEPT ![output.key] = [bucket |-> Target, id |-> output.id]]
    /\ output' = None
    /\ UNCHANGED <<objects, pc, prune, normal, seeder, world>>

Crash ==
    /\ crashes < MaxCrashes /\ crashes' = crashes + 1
    /\ \/ pc \notin {"idle", "done"} /\ Stop("idle") /\ UNCHANGED <<seeder, output>>
       \/ /\ seeding # None /\ seeding' = None /\ upserts' = Unwritten
          /\ UNCHANGED <<pc, prune, todo, found, pending, output>>
       \/ /\ output # None /\ output' = None
          /\ UNCHANGED <<pc, prune, todo, found, pending, seeder>>
    /\ UNCHANGED <<objects, rows, sources, together>>

MaterialiserStep == List \/ Delete \/ Locate \/ Rewrite \/ Bind \/ Commit
SeederStep == SeedFixture \/ SeedCommit

Next ==
    \/ Start \/ MaterialiserStep
    \/ SeedStart \/ SeederStep
    \/ \E k \in Outputs \ Seeded : PipelinePut(k)
    \/ PipelineRecord \/ Crash

Spec == Init /\ [][Next]_vars

\* The restore runs the materialiser again until it reports "prepared": it
\* gets its turn, however often the seeder is run between (strong fairness).
FairSpec ==
    /\ Spec
    /\ SF_vars(Start) /\ WF_vars(MaterialiserStep)
    /\ WF_vars(SeederStep) /\ WF_vars(PipelineRecord)

-----------------------------------------------------------------------------

\* The row's bytes can be read by the bucket, key and version it names.
Resolves(k) ==
    rows[k] # None /\ \E v \in Exactly(k, rows[k]) : v.body = "own"

\* A row that could be read can be read after any step: no update, put,
\* prune, rollback or crash, in whatever order the scripts interleave,
\* leaves it naming a version that its bucket does not have.
KeepsResolving == [][\A k \in Keys : Resolves(k) => Resolves(k)']_vars

\* When the materialiser reports "prepared", every source it set out to
\* normalise is read by its row, wherever its object was, and is sealed.
PreparedSources ==
    pc = "done" =>
        \A k \in sources : \E v \in Exactly(k, rows[k]) : v.body = "own" /\ v.sealed

\* Where nothing overlaps, an output that a row names is found under its key:
\* it was not pruned.  An output put while the prune is between reading the
\* rows and listing the bucket is.
ReferencedKept ==
    ~together => \A k \in Outputs : rows[k] # None => Latest(rows[k].bucket, k) # {}

\* Where nothing overlaps, every output found under its key once the prune is
\* over has a row: what a crash between a put and its row left is gone.
OrphansPruned ==
    ~together /\ pc \in {"locate", "rewrite", "bind"} =>
        \A k \in Outputs : Latest(Target, k) # {} => rows[k] # None

\* If no object holds other bytes, then crashes and stale rows or not, every
\* row can be read in the end, and from then on.
EventuallyResolved ==
    (\A v \in objects : v.body # "other")
        => <>[](\A k \in Keys : rows[k] # None => Resolves(k))

\* Objects and rows are typed, and where nothing overlaps the prune deletes
\* the outputs that no row names, all of them and no others.
MarketInvariant ==
    /\ TypeOK
    /\ ReferencedKept
    /\ OrphansPruned

=============================================================================
