------------------------ MODULE SampleSeeding_proofs ------------------------
(***************************************************************************)
(* However often the script is run, wherever it is interrupted, whatever   *)
(* users create, save and release beside it: for any samples, library and  *)
(* faults, it writes only to what has looked like a sample's, what it calls *)
(* done is prepared, and where the listing shows the whole library nothing  *)
(* is made twice.                                                          *)
(*                                                                         *)
(* The run decides by a library it listed at its start.  ListedStay says   *)
(* in what the listing is still right: for the samples of which this run   *)
(* has released nothing yet (Pending), where no user has been since.  Every *)
(* step keeps names, moves kinds one way and changes a document either as  *)
(* the save of the target or as a user (Frame), so that what an earlier    *)
(* call found still holds when a later one acts on it.                     *)
(***************************************************************************)
EXTENDS SampleSeeding, FiniteSetTheorems, SequenceTheorems, TLAPS

\* The listing shows every strategy of the library.
WholeLibraryIsListed == MaxStrategies <= PageLimit

Suffixes == {SubSeq(Order, i, Len(Order)) : i \in 1..(Len(Order) + 1)}
Elements(list) == {list[j] : j \in DOMAIN list}

\* The samples this run still has to prepare
Todo == Elements(todo)

\* In these the run is at work on a strategy; the sample is the first of todo.
Targeting ==
    {"lease", "read", "save", "unlease", "give up", "validate", "release", "copy"}

\* The samples of which this run has not released anything yet: of these the
\* library that was listed at the start is still right.
Pending ==
    IF pc = "copy" \/ (pc \in Targeting /\ copying) THEN Todo \ {Sample} ELSE Todo

IsOf(i, sample) == i \in Live /\ strategies[i].name = sample

\* It carries this revision and is editable, unless a user has changed it.
Carries(i) == i \in touched \/ strategies[i].document.key = "current"
StillDraft(i) == i \in touched \/ strategies[i].kind = "draft"

IsReleased(sample) ==
    \E i \in Live : strategies[i].name = sample /\ strategies[i].kind = "released"

Prepared(sample) ==
    /\ IsReleased(sample)
    /\ IsOf(receipts[sample], sample)
    /\ Carries(receipts[sample]) /\ StillDraft(receipts[sample])

\* Every strategy of the sample is the script's.
OnlyScripts(sample) ==
    \A i \in Live : strategies[i].name = sample => i \in created

\* Ids are taken in order, so that a new strategy replaces none.
IdsAreDense == \E n \in 0..MaxStrategies : Live = 1..n

TodoShrinks == todo = <<>> <=> pc = "done"

\* What looks like a sample's is marked so, and nobody created what is not there.
HistoryStands ==
    /\ \A i \in Live : LooksOurs(strategies[i]) => i \in marked
    /\ created \subseteq Live

\* What was listed is still there, and a release stays one.
ListedStay ==
    pc \in Calls =>
        \A row \in library :
            /\ row.id \in Live
            /\ row.kind = "released" => strategies[row.id].kind = "released"
            /\ strategies[row.id].name \in Pending =>
                  row.kind = strategies[row.id].kind \/ row.id \in touched

\* A draft the run may resume is of the sample, and looked like it.
ChoiceIsMarked ==
    pc = "look" =>
        /\ candidates \subseteq DraftCandidates
        /\ \A i \in {configured, resumable} \ {None} : IsOf(i, Sample) /\ i \in marked
        /\ configured # None /\ current => Carries(configured) /\ StillDraft(configured)

\* The target is a strategy of the sample that looked like it, and from the
\* lease on a draft; the copy is made once there is a release.
TargetIsMarked ==
    pc \in Targeting =>
        /\ IsOf(target, Sample) /\ target \in marked
        /\ pc = "copy" => strategies[target].kind = "released"
        /\ pc \notin {"lease", "copy"} => StillDraft(target)
        /\ pc \in {"unlease", "validate", "release"} => Carries(target)
        /\ copying => IsReleased(Sample) /\ pc \notin {"release", "copy"}

\* The run holds the lease of its target, while it configures it, and no other.
OneLease ==
    \A i \in Live : strategies[i].lease = "seeder" =>
        i = target /\ pc \in {"read", "save", "unlease", "give up"}

\* A sample is struck off the list when it is prepared.
StruckArePrepared == \A s \in Samples \ Todo : Prepared(s)

WorkInv ==
    /\ TypeOK /\ IdsAreDense /\ TodoShrinks /\ HistoryStands
    /\ ListedStay /\ ChoiceIsMarked /\ TargetIsMarked
    /\ OneLease /\ StruckArePrepared /\ OthersUntouched

\* What this script released or created of a pending sample was listed, but for
\* the draft it creates now.
OursAreListed ==
    /\ \A i \in releases : i \in Live /\ strategies[i].kind = "released"
    /\ pc \in Calls =>
          /\ \A i \in releases : strategies[i].name \in Pending =>
                \E row \in library : row.id = i /\ row.kind = "released"
          /\ \A i \in created : strategies[i].name \in Pending =>
                \/ \E row \in library : row.id = i
                \/ i = target /\ pc \in Targeting

NothingTwice ==
    /\ \A i, j \in releases : strategies[i].name = strategies[j].name => i = j
    /\ \A s \in Samples : OnlyScripts(s) =>
          \A i, j \in Live :
              /\ strategies[i].name = s /\ strategies[i].kind = "draft"
              /\ strategies[j].name = s /\ strategies[j].kind = "draft"
              => i = j

\* A release is made where the script made none, and a copy where there is no
\* draft.
OnlyWhereMissing ==
    /\ pc = "release" => \A i \in releases : strategies[i].name # Sample
    /\ pc = "copy" /\ OnlyScripts(Sample) =>
          \A i \in Live : strategies[i].name = Sample => strategies[i].kind # "draft"

OnceInv == OursAreListed /\ NothingTwice /\ OnlyWhereMissing

\* The steps that are not the run's: nothing it holds changes.
OthersStep ==
    \/ \E i \in Ids :
          \/ LeaseRunsOut(i) \/ LeaseLost(i) \/ UserReleases(i)
          \/ \E document \in UserDocument : UserSaves(i, document)
    \/ UserCreates
    \/ UNCHANGED vars

LEMMA StepsAre ==
    ASSUME [Next]_vars
    PROVE  /\ SeederStep \/ SaveFails \/ Crash \/ OthersStep
           /\ OthersStep => UNCHANGED <<pc, todo, library, choice, work>>
BY DEF Next, OthersStep, LeaseRunsOut, LeaseLost, UserReleases, UserSaves, UserCreates,
       UserActs, vars

-----------------------------------------------------------------------------
(* The list of samples *)

LEMMA OrderIsSuffix ==
    /\ Order \in Suffixes /\ Order # <<>>
    /\ Elements(Order) = Samples
<1>1. Order \in Seq(Samples) /\ Len(Order) \in Nat
  BY SeedingAssumption, LenProperties
<1>2. Order = SubSeq(Order, 1, Len(Order))
  BY <1>1, SubSeqFull
<1>3. QED
  BY <1>1, <1>2, SeedingAssumption DEF Suffixes, Elements, Samples

\* Samples differ, so that the head of a suffix does not come again.
LEMMA SuffixFacts ==
    ASSUME NEW list \in Suffixes, list # <<>>
    PROVE  /\ Head(list) \in Samples /\ Head(list) \in Elements(list)
           /\ Tail(list) \in Suffixes
           /\ Elements(Tail(list)) = Elements(list) \ {Head(list)}
           /\ Len(list) = 1 <=> Tail(list) = <<>>
<1> DEFINE N == Len(Order)
<1>1. Order \in Seq(Samples) /\ N \in Nat /\ DOMAIN Order = 1..N
  BY SeedingAssumption, LenProperties
<1>2. PICK i \in 1..(N + 1) : list = SubSeq(Order, i, N)
  BY DEF Suffixes
<1>3. i \in 1..N
  BY <1>1, <1>2, SubSeqEmpty
<1>4. Head(list) = Order[i] /\ Tail(list) = SubSeq(Order, i + 1, N)
  BY <1>1, <1>2, <1>3, HeadTailOfSubSeq
<1>5. \A k \in 1..(N + 1) :
        /\ SubSeq(Order, k, N) \in Seq(Samples)
        /\ Len(SubSeq(Order, k, N)) = N - k + 1
        /\ DOMAIN SubSeq(Order, k, N) = 1..(N - k + 1)
        /\ \A j \in 1..(N - k + 1) : SubSeq(Order, k, N)[j] = Order[k + j - 1]
  <2> SUFFICES ASSUME NEW k \in 1..(N + 1)
               PROVE  /\ SubSeq(Order, k, N) \in Seq(Samples)
                      /\ Len(SubSeq(Order, k, N)) = N - k + 1
                      /\ DOMAIN SubSeq(Order, k, N) = 1..(N - k + 1)
                      /\ \A j \in 1..(N - k + 1) : SubSeq(Order, k, N)[j] = Order[k + j - 1]
    OBVIOUS
  <2>1. \A j \in k..N : Order[j] \in Samples
    BY <1>1 DEF Samples
  <2>2. /\ SubSeq(Order, k, N) \in Seq(Samples)
        /\ Len(SubSeq(Order, k, N)) = IF k <= N THEN N - k + 1 ELSE 0
        /\ \A j \in 1..(N - k + 1) : SubSeq(Order, k, N)[j] = Order[k + j - 1]
    BY <1>1, <2>1, SubSeqProperties
  <2>3. Len(SubSeq(Order, k, N)) = N - k + 1
    BY <1>1, <2>2
  <2>4. QED
    BY <2>2, <2>3, LenProperties
<1>6. \A k \in 1..(N + 1) : Elements(SubSeq(Order, k, N)) = {Order[j] : j \in k..N}
  <2> SUFFICES ASSUME NEW k \in 1..(N + 1), NEW x
               PROVE  x \in Elements(SubSeq(Order, k, N)) <=> \E j \in k..N : x = Order[j]
    OBVIOUS
  <2>1. x \in Elements(SubSeq(Order, k, N)) <=> \E j \in 1..(N - k + 1) : x = Order[k + j - 1]
    BY <1>5 DEF Elements
  <2>2. ASSUME NEW j \in k..N
        PROVE  (j - k + 1) \in 1..(N - k + 1) /\ k + (j - k + 1) - 1 = j
    BY <1>1
  <2>3. ASSUME NEW j \in 1..(N - k + 1)
        PROVE  (k + j - 1) \in k..N
    BY <1>1
  <2>4. QED
    BY <2>1, <2>2, <2>3
<1>7. i + 1 \in 1..(N + 1) /\ Tail(list) \in Suffixes
  <2>1. i + 1 \in 1..(N + 1)
    BY <1>1, <1>3
  <2>2. SubSeq(Order, i + 1, N) \in Suffixes
    BY <2>1 DEF Suffixes
  <2>3. QED
    BY <1>4, <2>1, <2>2
<1>8. Elements(Tail(list)) = Elements(list) \ {Head(list)}
  <2>1. Elements(list) = {Order[j] : j \in i..N} /\ Elements(Tail(list)) = {Order[j] : j \in (i + 1)..N}
    BY <1>2, <1>4, <1>6, <1>7
  <2>2. \A j \in i..N : Order[j] = Order[i] => j = i
    BY <1>1, <1>3, SeedingAssumption
  <2>3. i..N = {i} \cup ((i + 1)..N)
    BY <1>1, <1>3
  <2>4. \A j \in (i + 1)..N : j # i
    BY <1>1, <1>3
  <2>5. QED
    BY <1>4, <2>1, <2>2, <2>3, <2>4
<1>9. Head(list) \in Samples /\ Head(list) \in Elements(list)
  BY <1>1, <1>2, <1>3, <1>4, <1>6 DEF Samples
<1>10. Len(list) = 1 <=> Tail(list) = <<>>
  <2>1. Len(list) = N - i + 1
    BY <1>2, <1>5
  <2>2. CASE i = N
    BY <1>1, <1>4, <2>1, <2>2, SubSeqEmpty
  <2>3. CASE i # N
    <3>1. Len(SubSeq(Order, i + 1, N)) = N - (i + 1) + 1
      BY <1>5, <1>7
    <3> HIDE DEF N
    <3>2. Len(Tail(list)) = N - (i + 1) + 1
      BY <1>4, <3>1
    <3>3. N - (i + 1) + 1 # 0 /\ N - i + 1 # 1
      BY <1>1, <1>3, <2>3
    <3>4. Tail(list) # <<>>
      BY <3>2, <3>3, EmptySeq
    <3>5. QED
      BY <2>1, <3>3, <3>4
  <2>4. QED
    BY <2>2, <2>3
<1>11. QED
  BY <1>7, <1>8, <1>9, <1>10

-----------------------------------------------------------------------------
(* The library *)

LEMMA EntryType ==
    ASSUME TypeOK, NEW i \in Live
    PROVE  /\ i \in Ids /\ i # None /\ strategies[i] \in Strategy
           /\ strategies[i].name \in Samples /\ strategies[i].described \in BOOLEAN
           /\ strategies[i].kind \in {"draft", "released"}
           /\ strategies[i].document \in Document
           /\ strategies[i].editSequence \in Nat
           /\ strategies[i].lease \in {None, "seeder", "stale"}
<1>1. i \in Ids /\ strategies[i] \in {None} \cup Strategy /\ strategies[i] # None
  BY DEF Live, TypeOK
<1>2. QED
  BY <1>1, NoneAssumption DEF Strategy

LEMMA NextIdIsFree ==
    ASSUME IdsAreDense
    PROVE  /\ IsFiniteSet(Live) /\ NextId \in Nat /\ NextId \notin Live
           /\ Live \cup {NextId} = 1..NextId
           /\ Cardinality(Live) \in 0..MaxStrategies
<1>1. MaxStrategies \in Nat
  BY SeedingAssumption
<1>2. PICK n \in 0..MaxStrategies : Live = 1..n
  BY DEF IdsAreDense
<1>3. IsFiniteSet(Live) /\ Cardinality(Live) = n
  BY <1>1, <1>2, FS_Interval
<1>4. QED
  BY <1>1, <1>2, <1>3 DEF NextId

\* What is new: a draft without a lease, of any content
LEMMA NewType ==
    ASSUME NEW s \in Samples, NEW d \in BOOLEAN, NEW c \in Document
    PROVE  /\ New(s, d, c) \in Strategy
           /\ New(s, d, c).name = s /\ New(s, d, c).kind = "draft"
           /\ New(s, d, c).document = c /\ New(s, d, c).lease = None
           /\ New(s, d, c).described = d
BY DEF New, Strategy

LEMMA DocumentTypes ==
    /\ Empty \in Document /\ Empty.key = None
    /\ \A r \in {"old", "current"} : Own(r) \in Document /\ Own(r).key = r /\ Own(r).key # None
BY NoneAssumption DEF Empty, Own, Document

\* A strategy is created
LEMMA CreatesFacts ==
    ASSUME TypeOK, IdsAreDense, NEW e \in Strategy, Creates(e)
    PROVE  /\ strategies' \in [Ids -> {None} \cup Strategy]
           /\ NextId \in Ids \ Live /\ Live' = Live \cup {NextId}
           /\ strategies'[NextId] = e
           /\ \A i \in Live : strategies'[i] = strategies[i]
           /\ IdsAreDense'
           /\ marked' = Marking(NextId, e)
<1>2. NextId \in Ids /\ strategies' = [strategies EXCEPT ![NextId] = e]
  BY DEF Creates
<1>3. NextId \notin Live /\ Live \cup {NextId} = 1..NextId
  BY NextIdIsFree
<1>4. strategies' \in [Ids -> {None} \cup Strategy]
  BY <1>2 DEF TypeOK
<1>5. /\ strategies'[NextId] = e
      /\ \A i \in Ids \ {NextId} : strategies'[i] = strategies[i]
  BY <1>2 DEF TypeOK
<1>6. Live' = Live \cup {NextId}
  BY <1>2, <1>5, NoneAssumption DEF Live
<1>7. \A i \in Live : strategies'[i] = strategies[i]
  BY <1>3, <1>5 DEF Live
<1>8. IdsAreDense'
  <2>1. NextId \in 0..MaxStrategies
    BY <1>2, SeedingAssumption DEF Ids
  <2>2. Live' = 1..NextId
    BY <1>3, <1>6
  <2>3. QED
    BY <2>1, <2>2 DEF IdsAreDense
<1>9. QED
  BY <1>2, <1>3, <1>4, <1>5, <1>6, <1>7, <1>8 DEF Creates

\* One strategy is rewritten.
Rewrites(t, e) ==
    /\ t \in Live /\ e \in Strategy
    /\ strategies' = [strategies EXCEPT ![t] = e]

LEMMA RewritesFacts ==
    ASSUME TypeOK, IdsAreDense, NEW t, NEW e, Rewrites(t, e)
    PROVE  /\ strategies' \in [Ids -> {None} \cup Strategy]
           /\ Live' = Live /\ strategies'[t] = e
           /\ \A i \in Live \ {t} : strategies'[i] = strategies[i]
           /\ IdsAreDense'
<1>1. t \in Ids /\ strategies[t] # None
  BY DEF Rewrites, Live
<1>2. strategies' \in [Ids -> {None} \cup Strategy]
  BY DEF Rewrites, TypeOK, Live
<1>3. strategies'[t] = e /\ \A i \in Ids \ {t} : strategies'[i] = strategies[i]
  BY <1>1 DEF Rewrites, TypeOK
<1>4. Live' = Live
  BY <1>1, <1>3, NoneAssumption DEF Live, Rewrites
<1>5. IdsAreDense'
  BY <1>4 DEF IdsAreDense
<1>6. QED
  BY <1>2, <1>3, <1>4, <1>5 DEF Live

\* Strategies are still there, with the names they had; one becomes a release
\* when the script or a user releases it, gets the sample's document when it is
\* saved, and what a user changes is marked and noted.
Keeps(i) ==
    /\ i \in Live'
    /\ strategies'[i].name = strategies[i].name
    /\ strategies'[i].described = strategies[i].described
    /\ \/ strategies'[i].kind = strategies[i].kind
       \/ /\ strategies[i].kind = "draft" /\ strategies'[i].kind = "released"
          /\ \/ i \in touched'
             \/ i = target /\ pc = "release" /\ pc' = "copy"
    /\ \/ strategies'[i].document = strategies[i].document
       \/ strategies'[i].document.key = "current" /\ i = target /\ pc = "save"
       \/ i \in touched' /\ (LooksOurs(strategies'[i]) => i \in marked')

\* What is new is an empty draft, of a user or for the sample.
IsNewDraft(i) ==
    /\ strategies'[i].kind = "draft"
    /\ strategies'[i].lease = None /\ strategies'[i].name \in Samples
    /\ LooksOurs(strategies'[i]) => i \in marked'
    /\ i \in created' =>
          /\ strategies'[i].name = Sample /\ i = target' /\ UNCHANGED todo
          /\ \/ Looked /\ DraftCandidates = {} /\ ~copying'
             \/ pc = "copy" /\ copying'
          /\ pc' = "lease"

Frame ==
    /\ \A i \in Live : Keeps(i)
    /\ \A i \in Live' \ Live : IsNewDraft(i)
    /\ created \subseteq created' /\ created' \subseteq created \cup (Live' \ Live)
    /\ marked \subseteq marked' /\ (touched \subseteq touched' \/ Start)

Kept ==
    /\ strategies' \in [Ids -> {None} \cup Strategy]
    /\ IdsAreDense'
    /\ Frame

Noted == created' = created /\ marked' = marked /\ touched' = touched

LEMMA KeptIfUnchanged ==
    ASSUME TypeOK, IdsAreDense, UNCHANGED strategies, created' = created, marked' = marked,
           Start \/ touched' = touched
    PROVE  Kept
<1>1. Live' = Live
  BY DEF Live
<1>2. QED
  BY <1>1 DEF Kept, Frame, Keeps, TypeOK, IdsAreDense

\* One strategy is rewritten and keeps its name.
LEMMA KeptIfRewritten ==
    ASSUME TypeOK, IdsAreDense, NEW t, NEW e, Rewrites(t, e),
           created' = created, marked \subseteq marked', touched \subseteq touched',
           e.name = strategies[t].name, e.described = strategies[t].described,
           \/ e.kind = strategies[t].kind
           \/ /\ strategies[t].kind = "draft" /\ e.kind = "released"
              /\ t \in touched' \/ (t = target /\ pc = "release" /\ pc' = "copy"),
           \/ e.document = strategies[t].document
           \/ e.document.key = "current" /\ t = target /\ pc = "save"
           \/ t \in touched' /\ (LooksOurs(e) => t \in marked')
    PROVE  Kept
<1>1. /\ strategies' \in [Ids -> {None} \cup Strategy]
      /\ Live' = Live /\ strategies'[t] = e
      /\ \A i \in Live \ {t} : strategies'[i] = strategies[i]
      /\ IdsAreDense'
  BY RewritesFacts
<1>2. Keeps(t)
  BY <1>1 DEF Keeps, Rewrites
<1>3. \A i \in Live \ {t} : Keeps(i)
  BY <1>1 DEF Keeps
<1>4. QED
  BY <1>1, <1>2, <1>3 DEF Kept, Frame

LEMMA KeptIfLeased ==
    ASSUME TypeOK, IdsAreDense, NEW t \in Live, NEW l \in {None, "seeder", "stale"},
           strategies' = [strategies EXCEPT ![t].lease = l], Noted
    PROVE  Kept
<1>1. PICK e : e = [strategies[t] EXCEPT !.lease = l]
  OBVIOUS
<1>2. strategies[t] \in Strategy
  BY EntryType
<1>3. e \in Strategy /\ e.name = strategies[t].name /\ e.described = strategies[t].described
      /\ e.kind = strategies[t].kind /\ e.document = strategies[t].document
  BY <1>1, <1>2 DEF Strategy
<1>4. Rewrites(t, e)
  BY <1>1, <1>3 DEF Rewrites
<1>5. QED
  BY <1>3, <1>4, KeptIfRewritten DEF Noted

LEMMA KeptIfReleased ==
    ASSUME TypeOK, IdsAreDense, NEW t \in Live, strategies[t].kind = "draft",
           strategies' = [strategies EXCEPT ![t].kind = "released"],
           created' = created, marked' = marked, touched \subseteq touched',
           t \in touched' \/ (t = target /\ pc = "release" /\ pc' = "copy")
    PROVE  Kept
<1>1. PICK e : e = [strategies[t] EXCEPT !.kind = "released"]
  OBVIOUS
<1>2. strategies[t] \in Strategy
  BY EntryType
<1>3. e \in Strategy /\ e.name = strategies[t].name /\ e.described = strategies[t].described
      /\ e.kind = "released" /\ e.document = strategies[t].document
  BY <1>1, <1>2 DEF Strategy
<1>4. strategies' = [strategies EXCEPT ![t] = e]
  BY <1>1 DEF TypeOK, Live
<1>5. Rewrites(t, e)
  BY <1>3, <1>4 DEF Rewrites
<1>6. QED
  BY <1>3, <1>5, KeptIfRewritten

LEMMA KeptIfCreated ==
    ASSUME TypeOK, IdsAreDense, HistoryStands, NEW s \in Samples, NEW d \in BOOLEAN,
           Creates(New(s, d, Empty)), touched' = touched,
           \/ created' = created
           \/ /\ created' = created \cup {NextId}
              /\ s = Sample /\ target' = NextId /\ UNCHANGED todo
              /\ \/ Looked /\ DraftCandidates = {} /\ ~copying'
                 \/ pc = "copy" /\ copying'
              /\ pc' = "lease"
    PROVE  Kept
<1>1. PICK e \in Strategy : /\ e = New(s, d, Empty)
                            /\ e.name = s /\ e.kind = "draft" /\ e.lease = None
  BY NewType, DocumentTypes
<1>2. /\ strategies' \in [Ids -> {None} \cup Strategy]
      /\ NextId \in Ids \ Live /\ Live' = Live \cup {NextId}
      /\ strategies'[NextId] = e
      /\ \A i \in Live : strategies'[i] = strategies[i]
      /\ IdsAreDense'
      /\ marked' = Marking(NextId, e)
  BY <1>1, CreatesFacts
<1>3. \A i \in Live : Keeps(i)
  BY <1>2 DEF Keeps
<1>4. NextId \notin created
  BY <1>2 DEF HistoryStands
<1>5. IsNewDraft(NextId)
  <2>1. LooksOurs(e) => NextId \in marked'
    BY <1>2 DEF Marking
  <2>2. QED
    BY <1>1, <1>2, <1>4, <2>1 DEF IsNewDraft
<1>6. marked \subseteq marked'
  BY <1>2 DEF Marking
<1>7. QED
  BY <1>2, <1>3, <1>5, <1>6 DEF Kept, Frame

LEMMA SampleType ==
    ASSUME TypeOK, TodoShrinks, pc # "done"
    PROVE  /\ todo \in Suffixes /\ todo # <<>> /\ Sample \in Samples /\ Sample \in Todo
           /\ Tail(todo) \in Suffixes /\ Elements(Tail(todo)) = Todo \ {Sample}
           /\ Len(todo) = 1 <=> Tail(todo) = <<>>
<1>1. todo \in Suffixes /\ todo # <<>>
  BY DEF TypeOK, TodoShrinks, Suffixes
<1>2. QED
  BY <1>1, SuffixFacts DEF Sample, Todo

LEMMA CrashKeeps ==
    ASSUME TypeOK, IdsAreDense, Crash
    PROVE  Kept
<1>1. strategies' = [i \in Ids |->
          IF i \in Live /\ strategies[i].lease = "seeder"
          THEN [strategies[i] EXCEPT !.lease = "stale"] ELSE strategies[i]]
      /\ Noted
  BY DEF Crash, Noted, history
<1>2. ASSUME NEW i \in Live
      PROVE  /\ strategies'[i] \in Strategy
             /\ strategies'[i].name = strategies[i].name
             /\ strategies'[i].described = strategies[i].described
             /\ strategies'[i].kind = strategies[i].kind
             /\ strategies'[i].document = strategies[i].document
  <2>1. i \in Ids /\ strategies[i] \in Strategy
    BY EntryType
  <2>2. [strategies[i] EXCEPT !.lease = "stale"] \in Strategy
    BY <2>1 DEF Strategy
  <2>3. CASE strategies[i].lease = "seeder"
    <3>1. strategies'[i] = [strategies[i] EXCEPT !.lease = "stale"]
      BY <1>1, <2>1, <2>3
    <3>2. QED
      BY <2>1, <2>2, <3>1 DEF Strategy
  <2>4. CASE strategies[i].lease # "seeder"
    BY <1>1, <2>1, <2>4
  <2>5. QED
    BY <2>3, <2>4
<1>3. \A i \in Ids \ Live : strategies'[i] = None
  BY <1>1 DEF Live
<1>4. Live' = Live
  BY <1>2, <1>3, NoneAssumption DEF Live
<1>5. strategies' \in [Ids -> {None} \cup Strategy]
  <2>1. \A i \in Ids : strategies'[i] \in {None} \cup Strategy
    BY <1>2, <1>3
  <2>2. QED
    BY <1>1, <2>1
<1>6. QED
  BY <1>1, <1>2, <1>4, <1>5 DEF Kept, Frame, Keeps, IdsAreDense, Noted

\* A save replaces the document and counts itself.
LEMMA KeptIfSaved ==
    ASSUME TypeOK, IdsAreDense, NEW t \in Live, NEW d \in Document,
           strategies' = [strategies EXCEPT ![t].document = d, ![t].editSequence = @ + 1],
           created' = created, marked \subseteq marked', touched \subseteq touched',
           \/ d.key = "current" /\ t = target /\ pc = "save"
           \/ t \in touched' /\ marked' = Marking(t, strategies'[t])
    PROVE  Kept /\ Live' = Live /\ strategies'[t].document = d
<1>1. strategies[t] \in Strategy /\ t \in Ids /\ strategies[t].editSequence \in Nat
  BY EntryType
<1>2. PICK n \in Nat : n = strategies[t].editSequence + 1
  BY <1>1
<1>3. PICK e : e = [strategies[t] EXCEPT !.document = d, !.editSequence = n]
  OBVIOUS
<1>4. /\ e \in Strategy /\ e.name = strategies[t].name
      /\ e.described = strategies[t].described
      /\ e.kind = strategies[t].kind /\ e.document = d
  BY <1>1, <1>3 DEF Strategy
<1>5. strategies' = [strategies EXCEPT ![t] = e]
  BY <1>1, <1>2, <1>3 DEF TypeOK
<1>6. Rewrites(t, e)
  BY <1>4, <1>5 DEF Rewrites
<1>7. strategies'[t] = e /\ Live' = Live
  BY <1>6, RewritesFacts
<1>8. t \in touched' /\ marked' = Marking(t, strategies'[t]) => (LooksOurs(e) => t \in marked')
  BY <1>7 DEF Marking
<1>9. Kept
  BY <1>4, <1>6, <1>8, KeptIfRewritten
<1>10. QED
  BY <1>4, <1>7, <1>9

\* Every step keeps the library so.
LEMMA KeptNext ==
    ASSUME TypeOK, IdsAreDense, TodoShrinks, HistoryStands, TargetIsMarked, [Next]_vars
    PROVE  Kept
<1>1. CASE \/ Start \/ Consider \/ (\E i \in Ids : Look(i)) \/ Reuse \/ Refuse
           \/ Resume \/ ReadSequence \/ Validate \/ SaveFails \/ UNCHANGED vars
  <2>1. UNCHANGED <<strategies, created, marked>> /\ (Start \/ UNCHANGED touched)
    BY <1>1 DEF Start, Consider, Look, Reuse, Refuse, Resume, ReadSequence, Validate,
                SaveFails, vars, history
  <2>2. QED
    BY <2>1, KeptIfUnchanged
<1>2. CASE Create
  <2>1. pc = "look" /\ ScriptCreates
    BY <1>2 DEF Create, Looked
  <2>2. Sample \in Samples
    BY <2>1, SampleType
  <2>3. QED
    BY <1>2, <2>1, <2>2, KeptIfCreated DEF Create, ScriptCreates
<1>3. CASE CreateCopy
  <2>1. Sample \in Samples
    BY <1>3, SampleType DEF CreateCopy
  <2>2. QED
    BY <1>3, <2>1, KeptIfCreated DEF CreateCopy, ScriptCreates
<1>4. CASE UserCreates
  BY <1>4, KeptIfCreated DEF UserCreates, UserActs
<1>5. CASE AcquireLease
  <2>1. target \in Live /\ Noted
    BY <1>5 DEF AcquireLease, TargetIsMarked, Targeting, IsOf, Noted, history
  <2>2. QED
    BY <1>5, <2>1, KeptIfLeased, KeptIfUnchanged DEF AcquireLease, Noted
<1>6. CASE ReleaseLease
  <2>1. target \in Live /\ Noted
    BY <1>6 DEF ReleaseLease, TargetIsMarked, Targeting, IsOf, Noted, history
  <2>2. strategies[target].lease \in {None, "seeder", "stale"}
    BY <2>1, EntryType
  <2>3. PICK l \in {None, "seeder", "stale"} : strategies' = [strategies EXCEPT ![target].lease = l]
    BY <1>6, <2>2 DEF ReleaseLease, Returned
  <2>4. QED
    BY <2>1, <2>3, KeptIfLeased
<1>7. CASE Crash
  BY <1>7, CrashKeeps
<1>8. ASSUME NEW i \in Ids, LeaseRunsOut(i) \/ LeaseLost(i)
      PROVE  Kept
  BY <1>8, KeptIfLeased DEF LeaseRunsOut, LeaseLost, Noted, history
<1>9. CASE SaveDocument
  <2>1. target \in Live /\ pc = "save" /\ Noted
    BY <1>9 DEF SaveDocument, TargetIsMarked, Targeting, IsOf, Noted
  <2>2. CASE Saveable
    <3>1. strategies' = [strategies EXCEPT ![target].document = Own("current"),
                                           ![target].editSequence = @ + 1]
      BY <1>9, <2>2 DEF SaveDocument
    <3>2. QED
      BY <2>1, <3>1, KeptIfSaved, DocumentTypes DEF Noted
  <2>3. CASE ~Saveable
    BY <1>9, <2>1, <2>3, KeptIfUnchanged DEF SaveDocument, Noted
  <2>4. QED
    BY <2>2, <2>3
<1>10. CASE Release
  <2>1. target \in Live /\ pc = "release" /\ Noted
    BY <1>10 DEF Release, TargetIsMarked, Targeting, IsOf, Noted
  <2>2. CASE UNCHANGED strategies
    BY <2>1, <2>2, KeptIfUnchanged DEF Noted
  <2>3. CASE ~UNCHANGED strategies
    <3>1. /\ strategies[target].kind = "draft" /\ pc' = "copy"
          /\ strategies' = [strategies EXCEPT ![target].kind = "released"]
      BY <1>10, <2>3 DEF Release, IsDraft
    <3>2. QED
      BY <2>1, <3>1, KeptIfReleased DEF Noted
  <2>4. QED
    BY <2>2, <2>3
<1>11. ASSUME NEW i \in Ids, NEW d \in UserDocument, UserSaves(i, d)
       PROVE  Kept
  <2>1. /\ i \in Live /\ d \in Document /\ created' = created
        /\ touched' = touched \cup {i} /\ marked' = Marking(i, strategies'[i])
    BY <1>11 DEF UserSaves, UserActs, UserDocument
  <2>2. strategies' = [strategies EXCEPT ![i].document = d, ![i].editSequence = @ + 1]
    BY <1>11 DEF UserSaves
  <2>3. marked \subseteq marked'
    BY <2>1 DEF Marking
  <2>4. QED
    BY <2>1, <2>2, <2>3, KeptIfSaved
<1>12. ASSUME NEW i \in Ids, UserReleases(i)
       PROVE  Kept
  BY <1>12, KeptIfReleased DEF UserReleases, UserActs
<1>13. QED
  BY <1>1, <1>2, <1>3, <1>4, <1>5, <1>6, <1>7, <1>8, <1>9, <1>10, <1>11, <1>12
     DEF Next, SeederStep

-----------------------------------------------------------------------------
(* Type correctness *)

LEMMA HistoryType ==
    ASSUME TypeOK, IdsAreDense, TodoShrinks, TargetIsMarked, [Next]_vars
    PROVE  {created', written', releases', marked', touched'} \subseteq SUBSET Ids
<1>1. {created, written, releases, marked, touched} \subseteq SUBSET Ids
  BY DEF TypeOK
<1>2. pc \in Targeting => target \in Ids
  BY DEF TargetIsMarked, IsOf, Live
<1>3. CASE UNCHANGED history
  BY <1>1, <1>3 DEF history
<1>4. CASE Start
  BY <1>1, <1>4 DEF Start
<1>5. CASE SaveDocument \/ Release
  BY <1>1, <1>2, <1>5 DEF SaveDocument, Release, Targeting
<1>6. CASE ScriptCreates
  BY <1>1, <1>6 DEF ScriptCreates, Creates, Marking
<1>7. CASE UserCreates
  BY <1>1, <1>7 DEF UserCreates, UserActs, Creates, Marking
<1>8. ASSUME NEW i \in Ids, NEW d, UserSaves(i, d) \/ UserReleases(i)
      PROVE  {created', written', releases', marked', touched'} \subseteq SUBSET Ids
  BY <1>1, <1>8 DEF UserSaves, UserReleases, UserActs, Marking
<1>9. QED
  BY <1>3, <1>4, <1>5, <1>6, <1>7, <1>8, StepsAre
     DEF SeederStep, OthersStep, Consider, Look, Reuse, Refuse, Resume, Create, AcquireLease,
         ReadSequence, ReleaseLease, Validate, CreateCopy, SaveFails, Crash, LeaseRunsOut,
         LeaseLost, vars

LEMMA FailKeepsType ==
    ASSUME TypeOK, strategies' \in [Ids -> {None} \cup Strategy], Fail,
           {created', written', releases', marked', touched'} \subseteq SUBSET Ids,
           faults' \in 0..MaxFaults, edits' \in 0..MaxEdits
    PROVE  TypeOK' /\ TodoShrinks'
<1>1. todo' \in Suffixes /\ todo' # <<>> /\ pc' = "idle"
  BY OrderIsSuffix DEF Fail, Forget
<1>2. QED
  BY <1>1 DEF TypeOK, TodoShrinks, Suffixes, Fail, Forget

LEMMA NextSampleFacts ==
    ASSUME TypeOK, TodoShrinks, pc # "done", NextSample
    PROVE  /\ todo' \in Suffixes /\ pc' \in {"sample", "done"} /\ TodoShrinks'
           /\ Todo' = Todo \ {Sample}
<1>1. /\ Tail(todo) \in Suffixes /\ Elements(Tail(todo)) = Todo \ {Sample}
      /\ Len(todo) = 1 <=> Tail(todo) = <<>>
  BY SampleType
<1>2. QED
  BY <1>1 DEF NextSample, TodoShrinks, Todo

LEMMA ReceivesType ==
    ASSUME TypeOK, NEW i \in Ids \cup {None}, Receives(i)
    PROVE  receipts' \in [Samples -> Ids \cup {None}]
BY DEF TypeOK, Receives

LEMMA TypeNext ==
    ASSUME TypeOK, IdsAreDense, TodoShrinks, HistoryStands, TargetIsMarked, [Next]_vars
    PROVE  TypeOK' /\ TodoShrinks'
<1>1. /\ strategies' \in [Ids -> {None} \cup Strategy]
      /\ {created', written', releases', marked', touched'} \subseteq SUBSET Ids
  BY KeptNext, HistoryType DEF Kept
<1>2. /\ faults' \in 0..MaxFaults /\ edits' \in 0..MaxEdits
  <2>1. /\ MaxFaults \in Nat /\ MaxEdits \in Nat
        /\ faults \in 0..MaxFaults /\ edits \in 0..MaxEdits
    BY SeedingAssumption DEF TypeOK
  <2>2. faults < MaxFaults => faults + 1 \in 0..MaxFaults
    BY <2>1
  <2>3. edits < MaxEdits => edits + 1 \in 0..MaxEdits
    BY <2>1
  <2>4. /\ faults' = faults \/ (faults < MaxFaults /\ faults' = faults + 1)
        /\ edits' = edits \/ (edits < MaxEdits /\ edits' = edits + 1)
    BY StepsAre
       DEF OthersStep, SeederStep, Start, Consider, Look, Reuse, Refuse, Resume, Create,
           ScriptCreates, AcquireLease, ReadSequence, SaveDocument, ReleaseLease, Validate,
           Release, CreateCopy, SaveFails, Crash, LeaseRunsOut, LeaseLost, UserSaves,
           UserReleases, UserCreates, UserActs, vars
  <2>5. QED
    BY <2>1, <2>2, <2>3, <2>4
<1>3. todo \in Suffixes
  BY DEF TypeOK, Suffixes
<1>4. CASE Fail
  BY <1>1, <1>2, <1>4, FailKeepsType
<1>5. CASE Start
  <2>1. todo' \in Suffixes /\ todo' # <<>>
    BY <1>5, OrderIsSuffix DEF Start
  <2>2. library' \subseteq [id : Ids, kind : {"draft", "released"}]
    BY <1>5, EntryType DEF Start
  <2>3. receipts' \in [Samples -> Ids \cup {None}]
    BY <1>5 DEF Start
  <2>4. QED
    BY <1>1, <1>2, <1>5, <2>1, <2>2, <2>3
       DEF TypeOK, TodoShrinks, Suffixes, Start, Calls, choice
<1>6. CASE Consider
  <2>1. DraftCandidates \subseteq Ids
    BY DEF TypeOK, DraftCandidates, SameName
  <2>2. QED
    BY <1>1, <1>2, <1>3, <1>6, <2>1 DEF TypeOK, TodoShrinks, Suffixes, Consider, Calls
<1>7. CASE \E i \in Ids : Look(i)
  BY <1>1, <1>2, <1>3, <1>7 DEF TypeOK, TodoShrinks, Suffixes, Look, work
<1>8. CASE NextSample /\ pc # "done" /\ UNCHANGED <<library, choice, target, copying>>
           /\ sequence' \in Nat /\ receipts' \in [Samples -> Ids \cup {None}]
  BY <1>1, <1>2, <1>8, NextSampleFacts DEF TypeOK, Suffixes, Calls, choice
<1>9. CASE Reuse
  <2>1. configured \in Ids \cup {None} /\ sequence \in Nat
    BY DEF TypeOK
  <2>2. receipts' \in [Samples -> Ids \cup {None}]
    BY <1>9, <2>1, ReceivesType DEF Reuse
  <2>3. QED
    BY <1>8, <1>9, <2>1, <2>2 DEF Reuse, Looked
<1>10. CASE Resume
  BY <1>1, <1>2, <1>3, <1>10 DEF TypeOK, TodoShrinks, Suffixes, Resume, Existing, Looked,
                                  Calls, choice
<1>11. CASE ScriptCreates /\ pc # "done" /\ copying' \in BOOLEAN
  BY <1>1, <1>2, <1>3, <1>11 DEF TypeOK, TodoShrinks, Suffixes, ScriptCreates, Creates,
                                  Calls, choice
<1>12. CASE (AcquireLease \/ SaveDocument \/ ReleaseLease \/ Release \/ SaveFails) /\ ~Fail
  BY <1>1, <1>2, <1>3, <1>12 DEF TypeOK, TodoShrinks, Suffixes, AcquireLease, SaveDocument,
                       ReleaseLease, Release, SaveFails, Calls, choice, work
<1>13. ASSUME pc \in Targeting
       PROVE  strategies[target].editSequence \in Nat
  BY <1>13, EntryType DEF TargetIsMarked, IsOf
<1>14. CASE ReadSequence
  BY <1>1, <1>2, <1>3, <1>13, <1>14 DEF TypeOK, TodoShrinks, Suffixes, ReadSequence, Calls,
                                         choice, Targeting
<1>15. CASE Validate /\ ~Fail
  <2>1. /\ pc = "validate" /\ sequence' = strategies[target].editSequence
        /\ UNCHANGED <<library, choice, target, copying>>
        /\ \/ NextSample /\ Receives(target)
           \/ pc' = "release" /\ UNCHANGED <<todo, receipts>>
    BY <1>15 DEF Validate
  <2>2. sequence' \in Nat
    BY <1>13, <2>1 DEF Targeting
  <2>3. target \in Ids \cup {None}
    BY DEF TypeOK
  <2>4. CASE NextSample /\ Receives(target)
    BY <1>8, <2>1, <2>2, <2>3, <2>4, ReceivesType
  <2>5. CASE pc' = "release" /\ UNCHANGED <<todo, receipts>>
    BY <1>1, <1>2, <1>3, <2>1, <2>2, <2>5 DEF TypeOK, TodoShrinks, Suffixes, Calls, choice
  <2>6. QED
    BY <2>1, <2>4, <2>5
<1>16. CASE UNCHANGED <<pc, todo, library, choice, work>>
  BY <1>1, <1>2, <1>3, <1>16 DEF TypeOK, TodoShrinks, Suffixes, choice, work
<1>17. QED
  <2>1. Refuse \/ Crash => Fail
    BY DEF Refuse, Crash
  <2>2. Create \/ CreateCopy => ScriptCreates /\ pc # "done" /\ copying' \in BOOLEAN
    BY DEF Create, CreateCopy, Looked
  <2>3. QED
    BY <1>4, <1>5, <1>6, <1>7, <1>9, <1>10, <1>11, <1>12, <1>14, <1>15, <1>16, <2>1, <2>2,
       StepsAre DEF SeederStep

-----------------------------------------------------------------------------
(* What an earlier call found still holds.                                 *)

\* A release stays one, and a draft with this revision stays one, but for the
\* release of the target and what users change.
LEMMA Persistence ==
    ASSUME TypeOK, Kept
    PROVE  /\ \A s \in Samples : IsReleased(s) => IsReleased(s)'
           /\ \A i, s : IsOf(i, s) => IsOf(i, s)'
           /\ ~Start => \A i \in Live :
                 /\ Carries(i) => Carries(i)'
                 /\ StillDraft(i) => \/ StillDraft(i)'
                                     \/ i = target /\ pc = "release" /\ pc' = "copy"
<1>1. ASSUME NEW i \in Live PROVE Keeps(i)
  BY DEF Kept, Frame
<1>2. ~Start => touched \subseteq touched'
  BY DEF Kept, Frame
<1>3. ASSUME NEW s \in Samples, IsReleased(s)
      PROVE  IsReleased(s)'
  BY <1>1, <1>3 DEF Keeps, IsReleased
<1>4. ASSUME NEW i, NEW s, IsOf(i, s)
      PROVE  IsOf(i, s)'
  BY <1>1, <1>4 DEF Keeps, IsOf
<1>5. ASSUME ~Start, NEW i \in Live, Carries(i)
      PROVE  Carries(i)'
  BY <1>1, <1>2, <1>5 DEF Keeps, Carries
<1>6. ASSUME ~Start, NEW i \in Live, StillDraft(i)
      PROVE  StillDraft(i)' \/ (i = target /\ pc = "release" /\ pc' = "copy")
  BY <1>1, <1>2, <1>6 DEF Keeps, StillDraft
<1>7. QED
  BY <1>3, <1>4, <1>5, <1>6

LEMMA HistoryStandsNext ==
    ASSUME WorkInv, [Next]_vars
    PROVE  HistoryStands' /\ OthersUntouched'
<1> USE DEF WorkInv
<1>1. Kept
  BY KeptNext
<1>2. pc \in Targeting => target \in marked
  BY DEF TargetIsMarked
<1>3. ASSUME NEW i \in Live', LooksOurs(strategies'[i])
      PROVE  i \in marked'
  <2>1. CASE i \in Live' \ Live
    BY <1>1, <1>3, <2>1 DEF Kept, Frame, IsNewDraft
  <2>2. CASE i \in Live
    <3>1. Keeps(i) /\ marked \subseteq marked'
      BY <1>1, <2>2 DEF Kept, Frame
    <3>2. CASE strategies'[i].document = strategies[i].document
      BY <1>3, <2>2, <3>1, <3>2 DEF Keeps, LooksOurs, HistoryStands
    <3>3. CASE i = target /\ pc = "save"
      BY <1>2, <3>1, <3>3 DEF Targeting
    <3>4. QED
      BY <1>3, <3>1, <3>2, <3>3 DEF Keeps
  <2>3. QED
    BY <2>1, <2>2
<1>4. created' \subseteq Live'
  BY <1>1 DEF Kept, Frame, Keeps, HistoryStands
<1>5. written' \subseteq written \cup (IF pc \in Targeting THEN {target} ELSE {})
  BY StepsAre DEF SeederStep, OthersStep, Start, Consider, Look, Reuse, Refuse, Resume,
     Create, ScriptCreates, AcquireLease, ReadSequence, SaveDocument, ReleaseLease, Validate,
     Release, CreateCopy, SaveFails, Crash, LeaseRunsOut, LeaseLost, UserSaves, UserReleases,
     UserCreates, UserActs, vars, history, Targeting
<1>6. written' \subseteq marked'
  BY <1>1, <1>2, <1>5 DEF Kept, Frame, OthersUntouched
<1>7. QED
  BY <1>3, <1>4, <1>6 DEF HistoryStands, OthersUntouched

LEMMA PendingShrinks ==
    ASSUME TypeOK, TodoShrinks, [Next]_vars, pc \in Calls, pc' \in Calls
    PROVE  /\ library' = library /\ Pending' \subseteq Pending
           /\ pc = "release" /\ pc' = "copy" => Sample \notin Pending'
<1>1. ~Fail /\ ~Start
  BY DEF Fail, Start, Calls
<1>2. pc # "done"
  BY DEF Calls
<1>3. CASE Consider \/ (\E i \in Ids : Look(i)) \/ Resume \/ Create
  BY <1>3 DEF Consider, Look, Resume, Create, ScriptCreates, Looked, Pending, Todo, Sample,
              Targeting, work
<1>4. CASE AcquireLease \/ ReadSequence \/ SaveDocument \/ SaveFails \/ ReleaseLease
  BY <1>1, <1>4 DEF AcquireLease, ReadSequence, SaveDocument, SaveFails, ReleaseLease, Pending,
                    Todo, Sample, Targeting, work
<1>5. CASE Release \/ CreateCopy
  BY <1>1, <1>5 DEF Release, CreateCopy, ScriptCreates, Pending, Todo, Sample, Targeting, work
<1>6. CASE NextSample /\ library' = library /\ pc \in {"look", "validate"}
  <2>1. Todo' = Todo \ {Sample} /\ pc' = "sample"
    BY <1>2, <1>6, NextSampleFacts DEF Calls
  <2>2. QED
    BY <1>6, <2>1 DEF Pending, Targeting
<1>7. CASE Reuse
  BY <1>6, <1>7 DEF Reuse, Looked
<1>8. CASE Validate
  <2>1. CASE NextSample
    BY <1>1, <1>6, <1>8, <2>1 DEF Validate
  <2>2. CASE ~NextSample
    BY <1>1, <1>8, <2>2 DEF Validate, Pending, Todo, Sample, Targeting
  <2>3. QED
    BY <2>1, <2>2
<1>9. CASE UNCHANGED <<pc, todo, library, choice, work>>
  BY <1>9 DEF Pending, Todo, Sample, work
<1>10. QED
  <2>1. ~Refuse /\ ~Crash
    BY <1>1 DEF Refuse, Crash
  <2>2. QED
    BY <1>1, <1>3, <1>4, <1>5, <1>7, <1>8, <1>9, <2>1, StepsAre DEF SeederStep

\* A run starts from outside its calls, and only Start does so.
LEMMA OnlyStartBegins ==
    ASSUME [Next]_vars, pc' \in Calls
    PROVE  IF pc \in Calls THEN ~Start ELSE Start
BY StepsAre DEF SeederStep, Start, Consider, Look, Reuse, Refuse, Resume, Create, Looked,
     AcquireLease, ReadSequence, SaveDocument, ReleaseLease, Validate, Release, CreateCopy,
     SaveFails, Crash, Calls

LEMMA ListedStayNext ==
    ASSUME WorkInv, [Next]_vars
    PROVE  ListedStay'
<1> USE DEF WorkInv
<1>1. Kept
  BY KeptNext
<1> SUFFICES ASSUME pc' \in Calls, NEW row \in library'
             PROVE  /\ row.id \in Live'
                    /\ row.kind = "released" => strategies'[row.id].kind = "released"
                    /\ strategies'[row.id].name \in Pending' =>
                          row.kind = strategies'[row.id].kind \/ row.id \in touched'
  BY DEF ListedStay
<1>2. CASE Start
  <2>2. PICK i \in Live : row = [id |-> i, kind |-> strategies[i].kind]
    BY <1>2 DEF Start
  <2>3. UNCHANGED strategies
    BY <1>2 DEF Start
  <2>4. QED
    BY <2>2, <2>3 DEF Live
<1>3. CASE ~Start
  <2>1. /\ pc \in Calls /\ library' = library /\ Pending' \subseteq Pending
        /\ pc = "release" /\ pc' = "copy" => Sample \notin Pending'
    BY <1>3, OnlyStartBegins, PendingShrinks
  <2>2. /\ row.id \in Live
        /\ row.kind = "released" => strategies[row.id].kind = "released"
        /\ strategies[row.id].name \in Pending =>
              row.kind = strategies[row.id].kind \/ row.id \in touched
    BY <2>1 DEF ListedStay
  <2>3. Keeps(row.id) /\ touched \subseteq touched'
    BY <1>1, <1>3, <2>2 DEF Kept, Frame
  <2>4. pc = "release" => strategies[target].name = Sample
    BY DEF TargetIsMarked, Targeting, IsOf
  <2>5. QED
    BY <2>1, <2>2, <2>3, <2>4 DEF Keeps
<1>4. QED
  BY <1>2, <1>3

-----------------------------------------------------------------------------
(* The edit lease *)

\* A step that changes anything of a strategy but its lease
LEMMA LeaseStays ==
    ASSUME TypeOK, NEW i \in Live, NEW t, NEW d, NEW n, NEW k,
           \/ strategies' = [strategies EXCEPT ![t].document = d, ![t].editSequence = n]
           \/ strategies' = [strategies EXCEPT ![t].kind = k]
    PROVE  strategies'[i].lease = strategies[i].lease
<1>1. strategies[i] \in Strategy /\ i \in Ids /\ strategies \in [Ids -> {None} \cup Strategy]
  BY EntryType DEF TypeOK
<1>2. CASE i # t
  BY <1>1, <1>2
<1>3. CASE i = t /\ strategies' = [strategies EXCEPT ![t].kind = k]
  <2>1. strategies'[i] = [strategies[i] EXCEPT !.kind = k]
    BY <1>1, <1>3
  <2>2. QED
    BY <1>1, <2>1 DEF Strategy
<1>4. CASE /\ i = t
           /\ strategies' = [strategies EXCEPT ![t].document = d, ![t].editSequence = n]
  <2>1. strategies'[i] = [strategies[i] EXCEPT !.document = d, !.editSequence = n]
    BY <1>1, <1>4
  <2>2. QED
    BY <1>1, <2>1 DEF Strategy
<1>5. QED
  BY <1>2, <1>3, <1>4

\* A lease is the run's when it takes it, and by no other step.
LEMMA LeaseTaken ==
    ASSUME WorkInv, [Next]_vars, NEW i \in Live', strategies'[i].lease = "seeder"
    PROVE  \/ i \in Live /\ strategies[i].lease = "seeder" /\ ~Crash
           \/ AcquireLease /\ i = target /\ pc' = "read" /\ target' = target
<1> USE DEF WorkInv
<1>1. Kept /\ "seeder" # None /\ strategies \in [Ids -> {None} \cup Strategy]
  BY KeptNext, NoneAssumption DEF TypeOK
<1>2. i \in Live
  BY <1>1 DEF Kept, Frame, IsNewDraft
<1>3. i \in Ids
  BY <1>2 DEF Live
<1>4. CASE AcquireLease
  <2>1. CASE IsDraft /\ strategies[target].lease = None
    <3>1. /\ strategies' = [strategies EXCEPT ![target].lease = "seeder"]
          /\ pc = "lease" /\ pc' = "read" /\ target' = target
      BY <1>4, <2>1 DEF AcquireLease, work
    <3>2. i # target => strategies'[i] = strategies[i]
      BY <1>1, <1>3, <3>1
    <3>3. QED
      BY <1>2, <1>4, <3>1, <3>2 DEF Crash, Fail
  <2>2. CASE ~(IsDraft /\ strategies[target].lease = None)
    BY <1>2, <1>4, <2>2 DEF AcquireLease, OneLease
  <2>3. QED
    BY <2>1, <2>2
<1>5. CASE Crash
  <2>1. strategies'[i] = IF strategies[i].lease = "seeder"
                         THEN [strategies[i] EXCEPT !.lease = "stale"] ELSE strategies[i]
    BY <1>2, <1>3, <1>5 DEF Crash
  <2>2. strategies[i] \in Strategy
    BY <1>2, EntryType
  <2>3. [strategies[i] EXCEPT !.lease = "stale"].lease = "stale"
    BY <2>2 DEF Strategy
  <2>4. QED
    BY <2>1, <2>3
<1>6. CASE ~AcquireLease /\ ~Crash
  <2>1. CASE UNCHANGED strategies
    BY <1>2, <1>6, <2>1
  <2>2. CASE SaveDocument
    <3>1. target \in Live
      BY <2>2 DEF SaveDocument, TargetIsMarked, Targeting, IsOf
    <3>2. CASE Saveable
      <4>1. PICK n : n = strategies[target].editSequence + 1
        OBVIOUS
      <4>2. strategies' = [strategies EXCEPT ![target].document = Own("current"),
                                             ![target].editSequence = n]
        BY <1>1, <2>2, <3>1, <3>2, <4>1 DEF SaveDocument, Live
      <4>3. strategies'[i].lease = strategies[i].lease
        BY <1>2, <4>2, LeaseStays
      <4>4. QED
        BY <1>2, <1>6, <4>3
    <3>3. CASE ~Saveable
      BY <2>1, <2>2, <3>3 DEF SaveDocument
    <3>4. QED
      BY <3>2, <3>3
  <2>3. CASE \E j \in Ids, d \in UserDocument : UserSaves(j, d)
    <3>1. PICK j \in Live, d \in UserDocument :
             strategies' = [strategies EXCEPT ![j].document = d, ![j].editSequence = @ + 1]
      BY <2>3 DEF UserSaves
    <3>2. PICK n : n = strategies[j].editSequence + 1
      OBVIOUS
    <3>3. strategies' = [strategies EXCEPT ![j].document = d, ![j].editSequence = n]
      BY <1>1, <3>1, <3>2 DEF Live
    <3>4. strategies'[i].lease = strategies[i].lease
      BY <1>2, <3>3, LeaseStays
    <3>5. QED
      BY <1>2, <1>6, <3>4
  <2>4. CASE \E t : strategies' = [strategies EXCEPT ![t].kind = "released"]
    BY <1>2, <1>6, <2>4, LeaseStays
  <2>5. CASE \E t, l : /\ strategies' = [strategies EXCEPT ![t].lease = l]
                     /\ l \in {None, strategies[t].lease}
    <3>1. PICK t, l : /\ strategies' = [strategies EXCEPT ![t].lease = l]
                    /\ l \in {None, strategies[t].lease}
      BY <2>5
    <3>2. strategies[i] \in Strategy
      BY <1>2, EntryType
    <3>3. CASE i = t
      <4>1. strategies'[i] = [strategies[i] EXCEPT !.lease = l]
        BY <1>1, <1>3, <3>1, <3>3
      <4>2. strategies'[i].lease = l
        BY <3>2, <4>1 DEF Strategy
      <4>3. QED
        BY <1>1, <1>2, <1>6, <3>1, <3>3, <4>2
    <3>4. CASE i # t
      BY <1>1, <1>2, <1>3, <1>6, <3>1, <3>4
    <3>5. QED
      BY <3>3, <3>4
  <2>6. CASE ReleaseLease
    <3>1. target \in Ids
      BY <2>6 DEF ReleaseLease, TargetIsMarked, Targeting, IsOf, Live
    <3>2. QED
      BY <2>5, <2>6, <3>1 DEF ReleaseLease, Returned
  <2>7. CASE \E j \in Ids : LeaseRunsOut(j) \/ LeaseLost(j)
    BY <2>5, <2>7 DEF LeaseRunsOut, LeaseLost
  <2>8. CASE Release
    BY <2>1, <2>4, <2>8 DEF Release
  <2>9. CASE \E s \in Samples, d \in BOOLEAN : Creates(New(s, d, Empty))
    <3>1. PICK s \in Samples, d \in BOOLEAN : Creates(New(s, d, Empty))
      BY <2>9
    <3>2. New(s, d, Empty) \in Strategy
      BY NewType, DocumentTypes
    <3>3. strategies'[i] = strategies[i]
      BY <1>2, <3>1, <3>2, CreatesFacts
    <3>4. QED
      BY <1>2, <1>6, <3>3
  <2>10. Create \/ CreateCopy => Creates(New(Sample, TRUE, Empty)) /\ Sample \in Samples
    BY SampleType DEF Create, CreateCopy, ScriptCreates, Looked
  <2>11. UserCreates => \E s \in Samples, d \in BOOLEAN : Creates(New(s, d, Empty))
    BY DEF UserCreates
  <2>12. (\E j \in Ids : UserReleases(j)) => \E t : strategies' = [strategies EXCEPT ![t].kind = "released"]
    BY DEF UserReleases
  <2>13. Start \/ Consider \/ (\E j \in Ids : Look(j)) \/ Reuse \/ Refuse \/ Resume
           \/ ReadSequence \/ Validate \/ SaveFails \/ UNCHANGED vars
         => UNCHANGED strategies
    BY DEF Start, Consider, Look, Reuse, Refuse, Resume, ReadSequence, Validate, SaveFails, vars
  <2>14. QED
    BY <1>6, <2>1, <2>2, <2>3, <2>4, <2>6, <2>7, <2>8, <2>9, <2>10, <2>11, <2>12, <2>13,
       StepsAre DEF OthersStep, SeederStep
<1>7. QED
  BY <1>4, <1>5, <1>6

LEMMA OneLeaseNext ==
    ASSUME WorkInv, [Next]_vars
    PROVE  OneLease'
<1> USE DEF WorkInv
<1> DEFINE Using == {"read", "save", "unlease", "give up"}
<1> SUFFICES ASSUME NEW i \in Live', strategies'[i].lease = "seeder"
             PROVE  i = target' /\ pc' \in Using
  BY DEF OneLease
<1>1. CASE AcquireLease /\ i = target /\ pc' = "read" /\ target' = target
  BY <1>1
<1>2. CASE i \in Live /\ strategies[i].lease = "seeder" /\ ~Crash
  <2>1. i = target /\ pc \in Using
    BY <1>2 DEF OneLease
  <2>2. CASE ReleaseLease
    <3>1. strategies' = [strategies EXCEPT ![target].lease = None]
      BY <1>2, <2>1, <2>2 DEF ReleaseLease, Returned, IsMine
    <3>2. strategies[target] \in Strategy /\ target \in Ids
      BY <1>2, <2>1, EntryType
    <3>3. strategies'[target].lease = None
      <4>1. strategies'[target] = [strategies[target] EXCEPT !.lease = None]
        BY <3>1, <3>2 DEF TypeOK
      <4>2. QED
        BY <3>2, <4>1 DEF Strategy
    <3>4. QED
      BY <2>1, <3>3, NoneAssumption
  <2>3. CASE OthersStep
    BY <2>1, <2>3, StepsAre DEF work
  <2>4. CASE ~ReleaseLease /\ ~OthersStep
    BY <1>2, <2>1, <2>4, StepsAre DEF SeederStep, Start, Consider, Look, Reuse, Refuse, Resume,
         Create, Looked, AcquireLease, ReadSequence, SaveDocument, Validate, Release, CreateCopy,
         SaveFails, work
  <2>5. QED
    BY <2>2, <2>3, <2>4
<1>3. QED
  BY <1>1, <1>2, LeaseTaken

-----------------------------------------------------------------------------
(* The run's choice and its target *)

\* What is listed as a draft of the sample is one, unless a user has changed
\* it, and what is listed as its release is one.
LEMMA ListedRightly ==
    ASSUME WorkInv, pc \in {"look", "validate"}
    PROVE  /\ \A i \in DraftCandidates :
                 IsOf(i, Sample) /\ (pc = "look" => StillDraft(i))
           /\ ReleasedExists => IsReleased(Sample)
<1> USE DEF WorkInv
<1>1. pc \in Calls /\ pc # "done"
  BY DEF Calls
<1>2. pc = "look" => Sample \in Pending
  BY <1>1, SampleType DEF Pending, Targeting
<1>3. \A row \in library : row.kind \in {"draft", "released"}
  BY DEF TypeOK
<1>4. QED
  BY <1>1, <1>2, <1>3 DEF ListedStay, DraftCandidates, SameName, ReleasedExists, IsReleased,
                          IsOf, StillDraft

LEMMA ChoiceIsMarkedNext ==
    ASSUME WorkInv, [Next]_vars
    PROVE  ChoiceIsMarked'
<1> USE DEF WorkInv
<1> SUFFICES ASSUME pc' = "look"
             PROVE  ChoiceIsMarked'
  BY DEF ChoiceIsMarked
<1>1. CASE Consider
  BY <1>1 DEF Consider, ChoiceIsMarked, DraftCandidates, SameName, Sample
<1>2. CASE \E i \in Ids : Look(i)
  <2>1. PICK i \in Ids : Look(i)
    BY <1>2
  <2>2. /\ pc = "look" /\ i \in candidates /\ candidates' = candidates \ {i}
        /\ configured = None
        /\ UNCHANGED <<strategies, library, todo, marked, touched>>
    BY <2>1 DEF Look, history
  <2>3. IsOf(i, Sample) /\ StillDraft(i)
    BY <2>2, ListedRightly DEF ChoiceIsMarked
  <2>4. /\ Sample' = Sample /\ DraftCandidates' = DraftCandidates
        /\ \A j, s : IsOf(j, s)' <=> IsOf(j, s)
    BY <2>2 DEF Sample, DraftCandidates, SameName, IsOf, Live
  <2>5. candidates' \subseteq DraftCandidates'
    BY <2>2, <2>4 DEF ChoiceIsMarked
  <2>6. CASE IsSamples(i)
    <3>1. configured' = i /\ (current' <=> strategies[i].document.key = "current")
          /\ resumable' = resumable
      BY <2>1, <2>6 DEF Look
    <3>2. i \in marked
      BY <2>3, <2>6 DEF IsSamples, HistoryStands, LooksOurs, IsOf
    <3>3. \A j \in {configured', resumable'} \ {None} : IsOf(j, Sample)' /\ j \in marked'
      BY <2>2, <2>3, <2>4, <3>1, <3>2 DEF ChoiceIsMarked, IsOf
    <3>4. current' => Carries(configured)' /\ StillDraft(configured)'
      BY <2>2, <2>3, <3>1 DEF Carries, StillDraft
    <3>5. QED
      BY <2>5, <3>3, <3>4 DEF ChoiceIsMarked, IsOf
  <2>7. CASE ~IsSamples(i)
    <3>1. configured' = None /\ resumable' \in {resumable, i}
          /\ (resumable' # resumable => LooksOurs(strategies[i]))
      BY <2>1, <2>2, <2>7 DEF Look, IsLeftover, LooksOurs
    <3>2. LooksOurs(strategies[i]) => i \in marked
      BY <2>3 DEF HistoryStands, IsOf
    <3>3. \A j \in {configured', resumable'} \ {None} : IsOf(j, Sample) /\ j \in marked
      BY <2>2, <2>3, <3>1, <3>2 DEF ChoiceIsMarked
    <3>4. QED
      BY <2>2, <2>4, <2>5, <3>1, <3>3 DEF ChoiceIsMarked, IsOf
  <2>8. QED
    BY <2>6, <2>7
<1>3. CASE UNCHANGED <<pc, todo, library, choice, work>>
  <2>1. /\ pc = "look" /\ Sample' = Sample
        /\ UNCHANGED <<library, candidates, configured, current, resumable>>
    BY <1>3 DEF Sample, choice
  <2>2. Kept /\ marked \subseteq marked' /\ ~Start
    BY <2>1, KeptNext DEF Kept, Frame, Start
  <2>3. \A i : IsOf(i, Sample) => IsOf(i, Sample)'
    BY <2>1, <2>2, Persistence DEF IsOf
  <2>4. DraftCandidates' = DraftCandidates
    <3>1. \A row \in library : row.id \in Live
      BY <2>1 DEF ListedStay, Calls
    <3>2. \A row \in library : strategies'[row.id].name = strategies[row.id].name
      BY <2>2, <3>1 DEF Kept, Frame, Keeps
    <3>3. SameName' = SameName
      BY <2>1, <3>2 DEF SameName
    <3>4. QED
      BY <3>3 DEF DraftCandidates
  <2>5. configured # None /\ current => Carries(configured)' /\ StillDraft(configured)'
    <3> SUFFICES ASSUME configured # None, current
                 PROVE  Carries(configured)' /\ StillDraft(configured)'
      OBVIOUS
    <3>1. configured \in Live /\ Carries(configured) /\ StillDraft(configured)
      BY <2>1 DEF ChoiceIsMarked, IsOf
    <3>2. \A i \in Live : Carries(i) => i \in touched' \/ strategies'[i].document.key = "current"
      BY <2>2, Persistence DEF Carries
    <3>3. \A i \in Live : StillDraft(i) => i \in touched' \/ strategies'[i].kind = "draft"
      BY <2>1, <2>2, Persistence DEF StillDraft
    <3>4. QED
      BY <2>1, <3>1, <3>2, <3>3 DEF Carries, StillDraft
  <2>6. candidates' \subseteq DraftCandidates'
    BY <2>1, <2>4 DEF ChoiceIsMarked
  <2>7. \A i \in {configured', resumable'} \ {None} : IsOf(i, Sample)' /\ i \in marked'
    BY <2>1, <2>2, <2>3 DEF ChoiceIsMarked
  <2>8. QED
    BY <2>1, <2>5, <2>6, <2>7 DEF ChoiceIsMarked, IsOf
<1>4. QED
  BY <1>1, <1>2, <1>3, StepsAre
     DEF SeederStep, Start, Reuse, Refuse, Resume, Create, CreateCopy, ScriptCreates,
         AcquireLease, ReadSequence, SaveDocument, ReleaseLease, Validate, Release, SaveFails,
         Crash, Fail, NextSample

LEMMA NewTarget ==
    ASSUME WorkInv, [Next]_vars, Create \/ CreateCopy
    PROVE  TargetIsMarked'
<1> USE DEF WorkInv
<1>1. /\ Creates(New(Sample, TRUE, Empty)) /\ target' = NextId /\ pc' = "lease"
      /\ pc # "done" /\ todo' = todo
  BY DEF Create, CreateCopy, ScriptCreates, Looked
<1>2. Sample \in Samples /\ Kept
  BY <1>1, SampleType, KeptNext
<1>3. /\ target' \in Live' /\ strategies'[target'] = New(Sample, TRUE, Empty)
      /\ marked' = Marking(NextId, New(Sample, TRUE, Empty))
  BY <1>1, <1>2, CreatesFacts, NewType, DocumentTypes
<1>4. LooksOurs(New(Sample, TRUE, Empty)) /\ New(Sample, TRUE, Empty).name = Sample
  BY DEF LooksOurs, New, Empty
<1>5. strategies'[target'].name = Sample /\ target' \in marked' /\ Sample' = Sample
  BY <1>1, <1>3, <1>4 DEF Marking, Sample
<1>6. copying' => IsReleased(Sample)'
  <2>1. CASE Create
    BY <2>1 DEF Create
  <2>2. CASE CreateCopy
    <3>1. IsReleased(Sample)
      BY <2>2 DEF CreateCopy, TargetIsMarked, Targeting, IsReleased, IsOf
    <3>2. \E i \in Live' : strategies'[i].name = Sample /\ strategies'[i].kind = "released"
      BY <1>2, <3>1, Persistence DEF IsReleased
    <3>3. QED
      BY <1>5, <3>2 DEF IsReleased
  <2>3. QED
    BY <2>1, <2>2
<1>7. QED
  BY <1>1, <1>3, <1>5, <1>6 DEF TargetIsMarked, IsOf

LEMMA TargetIsMarkedNext ==
    ASSUME WorkInv, [Next]_vars
    PROVE  TargetIsMarked'
<1> USE DEF WorkInv
<1>1. Kept
  BY KeptNext
<1> SUFFICES ASSUME pc' \in Targeting, ~Create, ~CreateCopy
             PROVE  TargetIsMarked'
  BY NewTarget DEF TargetIsMarked
<1>2. CASE Resume
  <2>1. Looked /\ Existing # None /\ target' = Existing /\ ~copying' /\ pc' = "lease"
        /\ UNCHANGED <<strategies, todo, marked>>
    BY <1>2 DEF Resume, history
  <2>2. IsOf(Existing, Sample) /\ Existing \in marked
    BY <2>1 DEF Looked, Existing, ChoiceIsMarked
  <2>3. target' \in Live' /\ strategies'[target'].name = Sample' /\ target' \in marked'
    BY <2>1, <2>2 DEF IsOf, Live, Sample
  <2>4. QED
    BY <2>1, <2>3 DEF TargetIsMarked, IsOf
<1>3. CASE pc \in Targeting /\ target' = target /\ copying' = copying /\ todo' = todo
           /\ (pc # "copy" \/ pc' = "copy")
  <2>1. /\ IsOf(target, Sample) /\ target \in marked
        /\ copying => IsReleased(Sample)
    BY <1>3 DEF TargetIsMarked
  <2>2. /\ target \in Live' /\ strategies'[target].name = Sample /\ target \in marked'
        /\ Keeps(target)
    BY <1>1, <2>1 DEF Kept, Frame, Keeps, IsOf
  <2>3. Sample' = Sample /\ Sample \in Samples /\ ~Start
    BY <1>3, SampleType DEF Sample, Targeting, Start
  <2>4. copying => IsReleased(Sample)'
    <3>1. copying => \E i \in Live' : strategies'[i].name = Sample /\ strategies'[i].kind = "released"
      BY <1>1, <2>1, <2>3, Persistence DEF IsReleased
    <3>2. QED
      BY <2>3, <3>1 DEF IsReleased
  <2>5. Carries(target) => target \in touched' \/ strategies'[target].document.key = "current"
    BY <1>1, <2>1, <2>3, Persistence DEF Carries, IsOf
  <2>6. StillDraft(target) => \/ target \in touched' \/ strategies'[target].kind = "draft"
                              \/ pc = "release" /\ pc' = "copy"
    BY <1>1, <2>1, <2>3, Persistence DEF StillDraft, IsOf
  <2>7. /\ copying => pc' \notin {"release", "copy"}
        /\ pc' = "copy" => strategies'[target].kind = "released"
        /\ pc' \notin {"lease", "copy"} => target \in touched' \/ strategies'[target].kind = "draft"
        /\ pc' \in {"unlease", "validate", "release"} =>
              target \in touched' \/ strategies'[target].document.key = "current"
    <3>1. CASE AcquireLease
      <4>1. pc' = "read" /\ IsDraft /\ pc = "lease"
        BY <3>1 DEF AcquireLease, Fail, Targeting
      <4>2. strategies'[target].kind = "draft" \/ target \in touched'
        BY <2>2, <4>1 DEF IsDraft, Keeps
      <4>3. QED
        BY <4>1, <4>2
    <3>2. CASE ReadSequence \/ SaveFails
      BY <1>3, <2>6, <3>2 DEF ReadSequence, SaveFails, TargetIsMarked, Targeting
    <3>3. CASE SaveDocument
      <4>1. pc = "save" /\ pc' \in {"unlease", "give up"}
        BY <3>3 DEF SaveDocument
      <4>2. pc' = "unlease" => strategies'[target].document.key = "current"
        <5>1. ASSUME pc' = "unlease"
              PROVE  strategies' = [strategies EXCEPT ![target].document = Own("current"),
                                                   ![target].editSequence = @ + 1]
                     /\ created' = created /\ marked' = marked /\ touched' = touched
          BY <3>3, <5>1 DEF SaveDocument
        <5>2. ASSUME pc' = "unlease"
              PROVE  strategies'[target].document = Own("current")
          BY <2>1, <4>1, <5>1, <5>2, KeptIfSaved, DocumentTypes DEF IsOf
        <5>3. QED
          BY <5>2, DocumentTypes
      <4>3. QED
        BY <1>3, <2>6, <4>1, <4>2 DEF TargetIsMarked, Targeting
    <3>4. CASE ReleaseLease
      <4>1. pc \in {"unlease", "give up"} /\ (pc' = "validate" => pc = "unlease")
            /\ pc' \in {"validate", "idle"}
        BY <3>4 DEF ReleaseLease, Fail
      <4>2. QED
        BY <1>3, <2>5, <2>6, <4>1 DEF TargetIsMarked, Targeting
    <3>5. CASE Validate
      <4>1. pc = "validate" /\ (pc' = "release" => ~copying) /\ pc' # "copy"
            /\ pc' \in {"release", "idle", "done", "sample"}
        BY <3>5 DEF Validate, Fail, NextSample
      <4>2. QED
        BY <1>3, <2>5, <2>6, <4>1 DEF TargetIsMarked, Targeting
    <3>6. CASE Release
      <4>1. pc = "release" /\ pc' \in {"copy", "idle"}
            /\ (pc' = "copy" => strategies' = [strategies EXCEPT ![target].kind = "released"])
        BY <3>6 DEF Release, Fail
      <4>2. strategies[target] \in Strategy /\ target \in Ids
        BY <2>1, EntryType DEF IsOf
      <4>3. pc' = "copy" => strategies'[target].kind = "released"
        BY <4>1, <4>2 DEF TypeOK, Strategy
      <4>4. QED
        BY <1>3, <4>1, <4>3 DEF TargetIsMarked, Targeting
    <3>7. CASE pc' = pc
      <4>1. pc = "copy" => strategies'[target].kind = "released"
        BY <2>2, <3>7 DEF TargetIsMarked, Targeting, Keeps
      <4>2. QED
        BY <1>3, <2>5, <2>6, <3>7, <4>1 DEF TargetIsMarked
    <3>8. QED
      BY <1>3, <3>1, <3>2, <3>3, <3>4, <3>5, <3>6, <3>7, StepsAre
         DEF SeederStep, Start, Consider, Look, Reuse, Refuse, Resume, Looked, Crash,
             Fail, NextSample, Targeting
  <2>8. QED
    BY <1>3, <2>2, <2>3, <2>4, <2>7 DEF TargetIsMarked, Carries, StillDraft, IsOf
<1>4. ~Start /\ ~Consider /\ ~(\E i \in Ids : Look(i)) /\ ~Reuse /\ ~Refuse /\ ~Crash
  BY DEF Start, Consider, Look, Looked, Reuse, Refuse, Crash, Fail, NextSample, Targeting
<1>5. CASE UNCHANGED <<pc, todo, work>>
  BY <1>3, <1>5 DEF work
<1>6. QED
  <2>1. AcquireLease \/ ReadSequence \/ SaveDocument \/ SaveFails \/ ReleaseLease \/ Validate
          \/ Release
        => pc \in Targeting /\ target' = target /\ copying' = copying /\ todo' = todo
           /\ (pc # "copy" \/ pc' = "copy")
    BY DEF AcquireLease, ReadSequence, SaveDocument, ReleaseLease, Validate, Release, SaveFails,
           Fail, NextSample, Targeting, work
  <2>2. QED
    BY <1>2, <1>3, <1>4, <1>5, <2>1, StepsAre DEF SeederStep

LEMMA StruckArePreparedNext ==
    ASSUME WorkInv, [Next]_vars
    PROVE  StruckArePrepared'
<1> USE DEF WorkInv
<1>1. Kept
  BY KeptNext
<1>2. ASSUME NEW s \in Samples \ Todo, receipts'[s] = receipts[s], ~Start
      PROVE  Prepared(s)'
  <2>1. Prepared(s)
    BY DEF StruckArePrepared
  <2>2. pc = "release" => strategies[target].name = Sample /\ Sample \in Todo
    BY SampleType DEF TargetIsMarked, Targeting, IsOf
  <2>3. IsReleased(s)'
    BY <1>1, <2>1, Persistence DEF Prepared
  <2>4. PICK i : i = receipts[s]
    OBVIOUS
  <2>5. i \in Live /\ strategies[i].name = s /\ Carries(i) /\ StillDraft(i)
    BY <2>1, <2>4 DEF Prepared, IsOf
  <2>6. ~(i = target /\ pc = "release")
    BY <2>2, <2>5
  <2>7. i \in Live' /\ strategies'[i].name = s
    BY <1>1, <2>5 DEF Kept, Frame, Keeps
  <2>8. /\ i \in touched' \/ strategies'[i].document.key = "current"
        /\ i \in touched' \/ strategies'[i].kind = "draft"
    BY <1>1, <1>2, <2>5, <2>6, Persistence DEF Carries, StillDraft
  <2>9. QED
    BY <1>2, <2>3, <2>4, <2>7, <2>8 DEF Prepared, IsOf, Carries, StillDraft
<1>3. CASE Todo' = Samples
  BY <1>3 DEF StruckArePrepared
<1>4. CASE todo' = todo /\ receipts' = receipts /\ ~Start
  BY <1>2, <1>4 DEF StruckArePrepared, Todo
<1>5. ASSUME NEW i, IsOf(i, Sample), Carries(i), StillDraft(i), IsReleased(Sample), Receives(i),
             NextSample, UNCHANGED <<strategies, touched>>, pc # "done", ~Start
      PROVE  StruckArePrepared'
  <2>1. Todo' = Todo \ {Sample} /\ Sample \in Samples
    BY <1>5, NextSampleFacts, SampleType
  <2>2. receipts' = [receipts EXCEPT ![Sample] = i] /\ receipts \in [Samples -> Ids \cup {None}]
    BY <1>5 DEF Receives, TypeOK
  <2>3. receipts'[Sample] = i /\ \A s \in Samples \ {Sample} : receipts'[s] = receipts[s]
    BY <2>1, <2>2
  <2>4. PICK h : h = Sample
    OBVIOUS
  <2>5. Prepared(h)'
    <3>1. IsReleased(h)' /\ IsOf(i, h)' /\ Carries(i)' /\ StillDraft(i)'
      BY <1>5, <2>4 DEF IsReleased, IsOf, Carries, StillDraft, Live
    <3>2. receipts'[h] = i
      BY <2>3, <2>4
    <3>3. QED
      BY <3>1, <3>2 DEF Prepared, IsReleased, IsOf, Carries, StillDraft
  <2>6. \A s \in Samples \ Todo' : s = h \/ Prepared(s)'
    BY <1>2, <1>5, <2>1, <2>3, <2>4
  <2>7. QED
    BY <2>5, <2>6 DEF StruckArePrepared
<1>6. CASE Reuse
  <2>1. pc = "look" /\ configured # None /\ current /\ ReleasedExists /\ Receives(configured)
        /\ NextSample /\ UNCHANGED <<strategies, touched>> /\ ~Start
    BY <1>6 DEF Reuse, Looked, history, Start
  <2>2. IsReleased(Sample)
    BY <2>1, ListedRightly
  <2>3. IsOf(configured, Sample) /\ Carries(configured) /\ StillDraft(configured)
    BY <2>1 DEF ChoiceIsMarked
  <2>4. QED
    BY <1>5, <2>1, <2>2, <2>3
<1>7. CASE Validate
  <2>1. CASE Fail
    BY <1>3, <2>1, OrderIsSuffix DEF Fail, Forget, Todo
  <2>2. CASE (copying \/ ReleasedExists) /\ ~Fail
    <3>1. pc = "validate" /\ NextSample /\ Receives(target) /\ UNCHANGED <<strategies, touched>>
          /\ ~Start
      BY <1>7, <2>2 DEF Validate, history, Start
    <3>2. IsReleased(Sample)
      BY <2>2, <3>1, ListedRightly DEF TargetIsMarked, Targeting
    <3>3. IsOf(target, Sample) /\ Carries(target) /\ StillDraft(target)
      BY <3>1 DEF TargetIsMarked, Targeting
    <3>4. QED
      BY <1>5, <3>1, <3>2, <3>3
  <2>3. CASE ~copying /\ ~ReleasedExists
    BY <1>4, <1>7, <2>1, <2>3 DEF Validate, Start
  <2>4. QED
    BY <2>1, <2>2, <2>3
<1>8. CASE Fail \/ Start
  BY <1>3, <1>8, OrderIsSuffix DEF Fail, Forget, Start, Todo
<1>9. CASE OthersStep /\ ~Start
  BY <1>4, <1>9, StepsAre DEF work
<1>10. QED
  BY <1>4, <1>6, <1>7, <1>8, <1>9, StepsAre
     DEF SeederStep, Consider, Look, Refuse, Resume, Create, CreateCopy, ScriptCreates,
         AcquireLease, ReadSequence, SaveDocument, ReleaseLease, Release, SaveFails, Crash, work

-----------------------------------------------------------------------------

\* What a library holds of the sample before: at most one strategy of a kind.
LEMMA BeforeFacts ==
    ASSUME NEW s \in Samples, NEW first \in Before(s)
    PROVE  \E n \in 0..2 :
              /\ DOMAIN first = 1..n
              /\ \A i \in 1..n :
                    /\ first[i] \in Strategy /\ first[i] # None
                    /\ first[i].name = s /\ first[i].lease = None
              /\ \A i, j \in 1..n : first[i].kind = first[j].kind => i = j
<1>1. PICK draft :
         /\ draft = New(s, TRUE, Own("old")) /\ draft \in Strategy
         /\ draft.name = s /\ draft.lease = None /\ draft.kind = "draft"
  <2>1. Own("old") \in Document
    BY DocumentTypes
  <2>2. New(s, TRUE, Own("old")) \in Strategy
    BY <2>1 DEF New, Strategy
  <2>3. /\ New(s, TRUE, Own("old")).name = s /\ New(s, TRUE, Own("old")).lease = None
        /\ New(s, TRUE, Own("old")).kind = "draft"
    BY DEF New
  <2>4. QED
    BY <2>2, <2>3
<1>2. PICK old :
         /\ old = [draft EXCEPT !.kind = "released"] /\ old \in Strategy
         /\ old.name = s /\ old.lease = None /\ old.kind = "released"
  <2>1. PICK old : old = [draft EXCEPT !.kind = "released"]
    OBVIOUS
  <2>2. old \in Strategy /\ old.name = s /\ old.lease = None /\ old.kind = "released"
    BY <1>1, <2>1 DEF Strategy
  <2>3. QED
    BY <2>1, <2>2
<1>3. PICK users :
         /\ users = New(s, FALSE, [key |-> None, content |-> "user"]) /\ users \in Strategy
         /\ users.name = s /\ users.lease = None
  <2>1. [key |-> None, content |-> "user"] \in Document
    BY DEF Document
  <2>2. New(s, FALSE, [key |-> None, content |-> "user"]) \in Strategy
    BY <2>1 DEF New, Strategy
  <2>3. /\ New(s, FALSE, [key |-> None, content |-> "user"]).name = s /\ New(s, FALSE, [key |-> None, content |-> "user"]).lease = None
        /\ New(s, FALSE, [key |-> None, content |-> "user"]).kind = "draft"
    BY DEF New
  <2>4. QED
    BY <2>2, <2>3
<1>4. PICK bare :
         /\ bare = New(s, TRUE, Empty) /\ bare \in Strategy
         /\ bare.name = s /\ bare.lease = None
  <2>1. Empty \in Document
    BY DocumentTypes
  <2>2. New(s, TRUE, Empty) \in Strategy
    BY <2>1 DEF New, Strategy
  <2>3. /\ New(s, TRUE, Empty).name = s /\ New(s, TRUE, Empty).lease = None
        /\ New(s, TRUE, Empty).kind = "draft"
    BY DEF New
  <2>4. QED
    BY <2>2, <2>3
<1>5. first \in {<<>>, <<old, draft>>, <<users>>, <<bare>>}
  BY <1>1, <1>2, <1>3, <1>4 DEF Before
<1>6. CASE first = <<>>
  BY <1>6
<1>7. CASE first = <<old, draft>>
  <2>1. DOMAIN first = 1..2 /\ first[1] = old /\ first[2] = draft
    BY <1>7
  <2>2. \A i \in 1..2 : i = 1 \/ i = 2
    OBVIOUS
  <2>3. /\ old # None /\ draft # None
        /\ \A i \in 1..2 : first[i] \in {old, draft} /\ (first[i] = old <=> i = 1)
    BY <1>1, <1>2, <2>1, <2>2, NoneAssumption
  <2>4. \A i, j \in 1..2 : first[i].kind = first[j].kind => i = j
    BY <1>1, <1>2, <2>1, <2>2
  <2>5. \A i \in 1..2 : /\ first[i] \in Strategy /\ first[i] # None
                        /\ first[i].name = s /\ first[i].lease = None
    BY <1>1, <1>2, <2>3
  <2>6. 2 \in 0..2
    OBVIOUS
  <2>7. QED
    BY <2>1, <2>4, <2>5, <2>6
<1>8. ASSUME NEW e \in Strategy, e.name = s, e.lease = None, first = <<e>>
      PROVE  \E n \in 0..2 :
              /\ DOMAIN first = 1..n
              /\ \A i \in 1..n :
                    /\ first[i] \in Strategy /\ first[i] # None
                    /\ first[i].name = s /\ first[i].lease = None
              /\ \A i, j \in 1..n : first[i].kind = first[j].kind => i = j
  <2>1. DOMAIN first = 1..1 /\ first[1] = e
    BY <1>8
  <2>2. QED
    BY <1>8, <2>1, NoneAssumption
<1>9. QED
  BY <1>3, <1>4, <1>5, <1>6, <1>7, <1>8

LEMMA InitLibrary ==
    ASSUME Init
    PROVE  /\ strategies \in [Ids -> {None} \cup Strategy]
           /\ IdsAreDense /\ HistoryStands /\ OthersUntouched
           /\ {created, written, releases, marked} \subseteq SUBSET Ids
           /\ releases \subseteq created /\ \A i \in releases : strategies[i].kind = "released"
           /\ \A i \in Live : strategies[i].lease = None
           /\ \A i, j \in Live : strategies[i].kind = strategies[j].kind => i = j
<1>1. MaxStrategies \in Nat /\ MaxStrategies >= 2 /\ Order[1] \in Samples
  <2>1. Order # <<>> /\ Order \in Seq(Samples) /\ MaxStrategies \in Nat /\ MaxStrategies >= 2
    BY SeedingAssumption
  <2>2. 1 \in DOMAIN Order
    BY <2>1
  <2>3. QED
    BY <2>1, <2>2 DEF Samples
<1>2. PICK first \in Before(Order[1]) :
         /\ strategies = [i \in Ids |-> IF i \in DOMAIN first THEN first[i] ELSE None]
         /\ created = {i \in DOMAIN first : first[i].document.key # None}
         /\ marked = {i \in DOMAIN first : LooksOurs(first[i])}
         /\ written = created
         /\ releases = {i \in created : strategies[i].kind = "released"}
  BY DEF Init
<1>3. PICK n \in 0..2 :
         /\ DOMAIN first = 1..n
         /\ \A i \in 1..n :
               /\ first[i] \in Strategy /\ first[i] # None
               /\ first[i].lease = None
         /\ \A i, j \in 1..n : first[i].kind = first[j].kind => i = j
  BY <1>1, BeforeFacts
<1>4. 1..n \subseteq Ids
  BY <1>1 DEF Ids
<1>5. \A i \in Ids : strategies[i] = IF i \in 1..n THEN first[i] ELSE None
  BY <1>2, <1>3
<1>6. Live = 1..n
  BY <1>3, <1>4, <1>5 DEF Live
<1>7. \A i \in Live : strategies[i] = first[i]
  BY <1>4, <1>5, <1>6
<1>8. strategies \in [Ids -> {None} \cup Strategy]
  <2>1. \A i \in Ids : strategies[i] \in {None} \cup Strategy
    BY <1>3, <1>5
  <2>2. QED
    BY <1>2, <2>1
<1>9. n \in 0..MaxStrategies
  BY <1>1
<1>10. IdsAreDense
  BY <1>6, <1>9 DEF IdsAreDense
<1>11. HistoryStands
  BY <1>2, <1>3, <1>6, <1>7 DEF HistoryStands
<1>12. written \subseteq marked
  BY <1>2, <1>3 DEF LooksOurs
<1>13. {created, written, releases, marked} \subseteq SUBSET Ids
  BY <1>2, <1>3, <1>4
<1>14. QED
  BY <1>2, <1>3, <1>6, <1>7, <1>8, <1>10, <1>11, <1>12, <1>13 DEF OthersUntouched

\* What the script goes by (its listing, the sample in hand, the draft it has
\* chosen, the lease it holds) stays true of the library under other users' steps.
THEOREM WorkHolds == Spec => []WorkInv
<1>1. Init => WorkInv
  <2> SUFFICES ASSUME Init
               PROVE  WorkInv
    OBVIOUS
  <2>1. /\ strategies \in [Ids -> {None} \cup Strategy]
        /\ IdsAreDense /\ HistoryStands /\ OthersUntouched
        /\ {created, written, releases, marked} \subseteq SUBSET Ids
        /\ \A i \in Live : strategies[i].lease = None
    BY InitLibrary
  <2>2. todo \in Suffixes /\ todo # <<>> /\ Todo = Samples /\ pc = "idle"
    BY OrderIsSuffix DEF Init, Todo
  <2>3. faults \in 0..MaxFaults /\ edits \in 0..MaxEdits
    BY SeedingAssumption DEF Init
  <2>4. TypeOK
    BY <2>1, <2>2, <2>3 DEF Init, TypeOK, Suffixes
  <2>5. TodoShrinks /\ ListedStay /\ ChoiceIsMarked /\ TargetIsMarked
    BY <2>2 DEF TodoShrinks, ListedStay, ChoiceIsMarked, TargetIsMarked, Calls, Targeting
  <2>6. OneLease /\ StruckArePrepared
    BY <2>1, <2>2, NoneAssumption DEF OneLease, StruckArePrepared
  <2>7. QED
    BY <2>1, <2>4, <2>5, <2>6 DEF WorkInv
<1>2. WorkInv /\ [Next]_vars => WorkInv'
  <2> SUFFICES ASSUME WorkInv, [Next]_vars
               PROVE  WorkInv'
    OBVIOUS
  <2>1. TypeOK' /\ TodoShrinks' /\ IdsAreDense'
    BY TypeNext, KeptNext DEF WorkInv, Kept
  <2>2. QED
    BY <2>1, ListedStayNext, ChoiceIsMarkedNext, TargetIsMarkedNext, OneLeaseNext,
       StruckArePreparedNext, HistoryStandsNext DEF WorkInv
<1>3. QED
  BY <1>1, <1>2, PTL DEF Spec

\* The script saves and releases only strategies that somebody, the script or a
\* user, made look like a sample's; what it never mistakes for one, it leaves.
THEOREM TouchesItsOwnOnly == Spec => []OthersUntouched
<1>1. WorkInv => OthersUntouched
  BY DEF WorkInv
<1>2. QED
  BY <1>1, WorkHolds, PTL

\* What the script reports as prepared is prepared.
THEOREM DoneMeansPrepared == Spec => []DoneIsPrepared
<1>1. WorkInv => DoneIsPrepared
  <2> SUFFICES ASSUME WorkInv, pc = "done", NEW s \in Samples
               PROVE  /\ Of(s, "released") # {}
                      /\ receipts[s] # None
                      /\ receipts[s] \notin touched =>
                            /\ receipts[s] \in Of(s, "draft")
                            /\ strategies[receipts[s]].document.key = "current"
    BY DEF DoneIsPrepared
  <2>1. todo = <<>>
    BY DEF WorkInv, TodoShrinks
  <2>2. s \notin Todo
    BY <2>1 DEF Todo, Elements
  <2>3. Prepared(s)
    BY <2>2 DEF WorkInv, StruckArePrepared
  <2>4. receipts[s] # None
    BY <2>3, NoneAssumption DEF Prepared, IsOf, Live
  <2>5. QED
    BY <2>3, <2>4 DEF Prepared, IsReleased, IsOf, Carries, StillDraft, Of
<1>2. QED
  BY <1>1, WorkHolds, PTL

-----------------------------------------------------------------------------
(* Where the listing shows the whole library, nothing is made twice.       *)

\* How what the script made in any run grows
LEMMA MadeBy ==
    ASSUME WorkInv, [Next]_vars
    PROVE  /\ \/ releases' = releases
              \/ /\ releases' = releases \cup {target} /\ pc = "release" /\ pc' = "copy"
                 /\ strategies[target].kind = "draft" /\ todo' = todo /\ target' = target
           /\ releases \subseteq releases'
<1>1. CASE Release
  BY <1>1 DEF Release, IsDraft, work
<1>2. CASE ~Release
  BY <1>2, StepsAre DEF SeederStep, OthersStep, Start, Consider, Look, Reuse, Refuse, Resume,
     Create, ScriptCreates, AcquireLease, ReadSequence, SaveDocument, ReleaseLease, Validate,
     CreateCopy, SaveFails, Crash, LeaseRunsOut, LeaseLost, UserSaves, UserReleases,
     UserCreates, UserActs, vars, history
<1>3. QED
  BY <1>1, <1>2

LEMMA WholePage ==
    ASSUME WholeLibraryIsListed, WorkInv, Start
    PROVE  library' = {[id |-> j, kind |-> strategies[j].kind] : j \in Live}
<1> USE DEF WorkInv
<1>1. PICK page \in SUBSET Live :
          /\ Cardinality(page) = IF Cardinality(Live) < PageLimit
                                 THEN Cardinality(Live) ELSE PageLimit
          /\ library' = {[id |-> j, kind |-> strategies[j].kind] : j \in page}
  BY DEF Start
<1>2. IsFiniteSet(Live) /\ Cardinality(Live) \in 0..MaxStrategies
  BY NextIdIsFree
<1>3. Cardinality(page) = Cardinality(Live)
  BY <1>1, <1>2, SeedingAssumption DEF WholeLibraryIsListed
<1>4. page = Live
  BY <1>2, <1>3, FS_Subset
<1>5. QED
  BY <1>1, <1>4

LEMMA OursAreListedNext ==
    ASSUME WholeLibraryIsListed, WorkInv, OnceInv, [Next]_vars
    PROVE  OursAreListed'
<1> USE DEF WorkInv, OnceInv
<1>1. Kept
  BY KeptNext
<1>2. \A i \in releases : i \in Live /\ strategies[i].kind = "released"
  BY DEF OursAreListed
<1>3. ASSUME NEW i \in releases'
      PROVE  i \in Live' /\ strategies'[i].kind = "released"
  <2>1. CASE i \in releases
    BY <1>1, <1>2, <2>1 DEF Kept, Frame, Keeps
  <2>2. CASE i \notin releases
    <3>1. i = target /\ pc' = "copy" /\ target' = target
      BY <2>2, <1>3, MadeBy
    <3>2. QED
      BY <3>1, TargetIsMarkedNext DEF TargetIsMarked, Targeting, IsOf
  <2>3. QED
    BY <2>1, <2>2
<1>4. CASE Start
  <2>1. library' = {[id |-> j, kind |-> strategies[j].kind] : j \in Live}
    BY <1>4, WholePage
  <2>2. UNCHANGED <<strategies, created, releases>>
    BY <1>4 DEF Start
  <2>3. ASSUME NEW i \in Live
        PROVE  \E row \in library' : row.id = i /\ row.kind = strategies[i].kind
    <3>1. [id |-> i, kind |-> strategies[i].kind] \in library'
      BY <2>1
    <3>2. QED
      BY <3>1
  <2>4. \A i \in releases' : \E row \in library' : row.id = i /\ row.kind = "released"
    <3> SUFFICES ASSUME NEW i \in releases
                 PROVE  \E row \in library' : row.id = i /\ row.kind = "released"
      BY <2>2
    <3>1. i \in Live /\ strategies[i].kind = "released"
      BY <1>2
    <3>2. QED
      BY <2>3, <3>1
  <2>5. \A i \in created' : \E row \in library' : row.id = i
    BY <2>2, <2>3 DEF HistoryStands
  <2>6. QED
    BY <1>3, <2>4, <2>5 DEF OursAreListed
<1>5. CASE ~Start /\ pc' \in Calls
  <2>1. pc \in Calls
    BY <1>5, OnlyStartBegins
  <2>2. /\ library' = library /\ Pending' \subseteq Pending
        /\ pc = "release" /\ pc' = "copy" => Sample \notin Pending'
    BY <1>5, <2>1, PendingShrinks
  <2>3. ASSUME NEW i \in releases', strategies'[i].name \in Pending'
        PROVE  \E row \in library' : row.id = i /\ row.kind = "released"
    <3>1. CASE i \in releases
      <4>1. strategies'[i].name = strategies[i].name
        BY <1>1, <1>2, <3>1 DEF Kept, Frame, Keeps
      <4>2. QED
        BY <2>1, <2>2, <2>3, <3>1, <4>1 DEF OursAreListed
    <3>2. CASE i \notin releases
      <4>1. i = target /\ pc = "release" /\ pc' = "copy"
        BY <2>3, <3>2, MadeBy
      <4>2. i \in Live /\ strategies[i].name = Sample
        BY <4>1 DEF TargetIsMarked, Targeting, IsOf
      <4>3. strategies'[i].name = Sample
        BY <1>1, <4>2 DEF Kept, Frame, Keeps
      <4>4. QED
        BY <2>2, <2>3, <4>1, <4>3
    <3>3. QED
      BY <3>1, <3>2
  <2>4. ASSUME NEW i \in created', strategies'[i].name \in Pending'
        PROVE  \/ \E row \in library' : row.id = i
               \/ i = target' /\ pc' \in Targeting
    <3>1. CASE i \notin created
      <4>1. i \in Live' \ Live
        BY <1>1, <2>4, <3>1 DEF Kept, Frame
      <4>2. QED
        BY <1>1, <2>4, <4>1 DEF Kept, Frame, IsNewDraft, Targeting
    <3>2. CASE i \in created
      <4>1. i \in Live /\ strategies[i].name = strategies'[i].name
        BY <1>1, <3>2 DEF Kept, Frame, Keeps, HistoryStands
      <4>2. CASE \E row \in library : row.id = i
        BY <2>2, <4>2
      <4>3. CASE i = target /\ pc \in Targeting
        <5>1. Sample \in Pending'
          BY <2>4, <4>1, <4>3 DEF TargetIsMarked, IsOf
        <5>2. ~NextSample
          <6>1. NextSample => Todo' = Todo \ {Sample} /\ pc' \notin Targeting
            BY <2>1, NextSampleFacts DEF Calls, Targeting
          <6>2. QED
            BY <5>1, <6>1 DEF Pending, Targeting
        <5>3. ~CreateCopy
          BY <5>1 DEF CreateCopy, ScriptCreates, Pending, Targeting, Sample
        <5>4. pc' # "idle"
          BY <1>5 DEF Calls
        <5>5. target' = target /\ pc' \in Targeting
          BY <1>5, <4>3, <5>2, <5>3, <5>4, StepsAre
             DEF SeederStep, Consider, Look, Reuse, Refuse, Resume, Create, Looked,
               AcquireLease, ReadSequence, SaveDocument, ReleaseLease, Validate, Release,
               SaveFails, Crash, Fail, work, Targeting
        <5>6. QED
          BY <4>3, <5>5
      <4>4. QED
        BY <2>1, <2>2, <2>4, <3>2, <4>1, <4>2, <4>3 DEF OursAreListed
    <3>3. QED
      BY <3>1, <3>2
  <2>5. QED
    BY <1>3, <2>3, <2>4 DEF OursAreListed
<1>6. QED
  BY <1>3, <1>4, <1>5 DEF OursAreListed

\* What the script finds missing in the listing is missing in the library.
LEMMA Missing ==
    ASSUME WorkInv, OnceInv
    PROVE  /\ pc = "validate" /\ ~copying /\ ~ReleasedExists =>
                 \A i \in releases : strategies[i].name # Sample
           /\ pc = "look" /\ DraftCandidates = {} =>
                 \A i \in created : strategies[i].name = Sample => strategies[i].kind = "released"
<1> USE DEF WorkInv, OnceInv
<1>1. pc \in {"look", "validate"} => Sample \in Todo /\ pc \in Calls
  BY SampleType DEF Calls
<1>2. ASSUME pc = "validate", ~copying, NEW i \in releases, strategies[i].name = Sample
      PROVE  ReleasedExists
  <2>1. Sample \in Pending
    BY <1>1, <1>2 DEF Pending
  <2>2. PICK row \in library : row.id = i /\ row.kind = "released"
    BY <1>1, <1>2, <2>1 DEF OursAreListed
  <2>3. QED
    BY <1>2, <2>2 DEF ReleasedExists, SameName
<1>3. ASSUME pc = "look", DraftCandidates = {}, NEW i \in created, strategies[i].name = Sample
      PROVE  strategies[i].kind = "released"
  <2>1. Sample \in Pending
    BY <1>1, <1>3 DEF Pending, Targeting
  <2>2. PICK row \in library : row.id = i
    BY <1>1, <1>3, <2>1 DEF OursAreListed, Targeting
  <2>3. row \in SameName
    BY <1>3, <2>2 DEF SameName
  <2>4. row.kind = "released"
    BY <1>3, <2>3 DEF DraftCandidates
  <2>5. QED
    BY <1>1, <1>3, <2>2, <2>4 DEF ListedStay
<1>4. QED
  BY <1>2, <1>3

LEMMA OnlyScriptsStays ==
    ASSUME WorkInv, Kept, NEW s, OnlyScripts(s)'
    PROVE  OnlyScripts(s)
<1> SUFFICES ASSUME NEW i \in Live, strategies[i].name = s
             PROVE  i \in created
  BY DEF OnlyScripts
<1>1. i \in Live' /\ strategies'[i].name = s
  BY DEF Kept, Frame, Keeps
<1>2. i \in created'
  BY <1>1 DEF OnlyScripts
<1>3. QED
  BY <1>2 DEF Kept, Frame

LEMMA NothingTwiceNext ==
    ASSUME WorkInv, OnceInv, [Next]_vars
    PROVE  NothingTwice'
<1> USE DEF WorkInv, OnceInv
<1>1. Kept
  BY KeptNext
<1>2. \A i \in releases : i \in Live /\ strategies'[i].name = strategies[i].name
  BY <1>1 DEF OursAreListed, Kept, Frame, Keeps
<1>3. ASSUME NEW i \in releases', NEW j \in releases', strategies'[i].name = strategies'[j].name
      PROVE  i = j
  <2>1. CASE i \in releases /\ j \in releases
    BY <1>2, <1>3, <2>1 DEF NothingTwice
  <2>2. CASE releases' = releases \cup {target} /\ pc = "release"
    <3>1. strategies'[target].name = Sample
      BY <1>1, <2>2 DEF Kept, Frame, Keeps, TargetIsMarked, Targeting, IsOf
    <3>2. \A k \in releases : strategies'[k].name # Sample
      BY <1>2, <2>2 DEF OnlyWhereMissing
    <3>3. QED
      BY <1>3, <2>1, <2>2, <3>1, <3>2
  <2>3. QED
    BY <2>1, <2>2, MadeBy
<1>4. ASSUME NEW s \in Samples, OnlyScripts(s)',
             NEW i \in Live', strategies'[i].name = s, strategies'[i].kind = "draft",
             NEW j \in Live', strategies'[j].name = s, strategies'[j].kind = "draft"
      PROVE  i = j
  <2>2. i \in created' /\ j \in created'
    BY <1>4 DEF OnlyScripts
  <2>3. OnlyScripts(s)
    BY <1>1, <1>4, OnlyScriptsStays
  <2>4. \A k \in Live : strategies'[k].kind = "draft" =>
           strategies[k].kind = "draft" /\ strategies[k].name = strategies'[k].name
    BY <1>1 DEF Kept, Frame, Keeps
  <2>5. \A k \in Live' \ Live : IsNewDraft(k)
    BY <1>1 DEF Kept, Frame
  <2>6. CASE i \in Live /\ j \in Live
    BY <1>4, <2>3, <2>4, <2>6 DEF NothingTwice
  <2>7. CASE i \notin Live /\ j \notin Live
    BY <2>2, <2>5, <2>7 DEF IsNewDraft
  <2>8. ASSUME NEW k \in Live' \ Live, NEW l \in Live, k \in created', strategies'[k].name = s,
               strategies'[l].name = s, strategies'[l].kind = "draft"
        PROVE  FALSE
    <3>1. /\ s = Sample
          /\ \/ Looked /\ DraftCandidates = {}
             \/ pc = "copy"
      BY <2>5, <2>8 DEF IsNewDraft
    <3>2. strategies[l].kind = "draft" /\ strategies[l].name = s
      BY <2>4, <2>8
    <3>3. l \in created
      BY <2>3, <3>2 DEF OnlyScripts
    <3>4. QED
      BY <2>3, <3>1, <3>2, <3>3, Missing DEF OnlyWhereMissing, Looked
  <2>9. QED
    BY <1>4, <2>2, <2>6, <2>7, <2>8
<1>5. QED
  BY <1>3, <1>4 DEF NothingTwice

LEMMA OnlyWhereMissingNext ==
    ASSUME WorkInv, OnceInv, [Next]_vars
    PROVE  OnlyWhereMissing'
<1> USE DEF WorkInv, OnceInv
<1>1. Kept
  BY KeptNext
<1>2. ASSUME pc' = "release", NEW i \in releases', strategies'[i].name = Sample'
      PROVE  FALSE
  <2>1. i \in releases
    BY <1>2, MadeBy
  <2>2. strategies[i].name = Sample'
    BY <1>1, <1>2, <2>1 DEF OursAreListed, Kept, Frame, Keeps
  <2>3. CASE Validate
    <3>1. pc = "validate" /\ ~copying /\ ~ReleasedExists /\ todo' = todo
      BY <1>2, <2>3 DEF Validate, Fail, NextSample
    <3>2. QED
      BY <2>1, <2>2, <3>1, Missing DEF Sample
  <2>4. CASE pc = "release" /\ todo' = todo
    BY <2>1, <2>2, <2>4 DEF OnlyWhereMissing, Sample
  <2>5. QED
    BY <1>2, <2>3, <2>4, StepsAre
       DEF SeederStep, Start, Consider, Look, Reuse, Refuse, Resume, Create, CreateCopy,
           ScriptCreates, AcquireLease, ReadSequence, SaveDocument, ReleaseLease, Release,
           SaveFails, Crash, Fail, NextSample, Looked
<1>3. ASSUME pc' = "copy", OnlyScripts(Sample)', NEW i \in Live', strategies'[i].name = Sample',
             strategies'[i].kind = "draft"
      PROVE  FALSE
  <2>1. PICK s : s = Sample' /\ OnlyScripts(s)'
    BY <1>3 DEF OnlyScripts
  <2>2. i \in created' /\ OnlyScripts(s)
    <3>1. i \in created'
      BY <1>3, <2>1 DEF OnlyScripts
    <3>2. QED
      BY <1>1, <2>1, <3>1, OnlyScriptsStays
  <2>3. i \in Live
    BY <1>1, <1>3, <2>2 DEF Kept, Frame, IsNewDraft
  <2>4. strategies[i].kind = "draft" /\ strategies[i].name = s
    BY <1>1, <1>3, <2>1, <2>3 DEF Kept, Frame, Keeps
  <2>5. CASE Release
    <3>1. pc = "release" /\ todo' = todo /\ target' = target /\ IsDraft
      BY <1>3, <2>5 DEF Release, Fail, work
    <3>2. target \in Live /\ strategies[target].name = s /\ strategies[target].kind = "draft"
      BY <2>1, <3>1 DEF TargetIsMarked, Targeting, IsOf, IsDraft, Sample
    <3>3. s \in Samples
      BY <3>2, EntryType
    <3>4. i = target
      BY <2>2, <2>3, <2>4, <3>2, <3>3 DEF NothingTwice
    <3>5. strategies'[target'].kind = "released"
      BY <1>3, TargetIsMarkedNext DEF TargetIsMarked, Targeting
    <3>6. QED
      BY <1>3, <3>1, <3>4, <3>5
  <2>6. CASE pc = "copy" /\ todo' = todo
    BY <2>1, <2>2, <2>3, <2>4, <2>6 DEF OnlyWhereMissing, Sample
  <2>7. QED
    BY <1>3, <2>5, <2>6, StepsAre
       DEF SeederStep, Start, Consider, Look, Reuse, Refuse, Resume, Create, CreateCopy,
           ScriptCreates, AcquireLease, ReadSequence, SaveDocument, ReleaseLease, Validate,
           SaveFails, Crash, Fail, NextSample, Looked
<1>4. ASSUME pc' = "copy", OnlyScripts(Sample)'
      PROVE  \A i \in Live' : strategies'[i].name = Sample' => strategies'[i].kind # "draft"
  BY <1>3, <1>4
<1>5. QED
  BY <1>2, <1>4 DEF OnlyWhereMissing

LEMMA AtMostOne ==
    ASSUME NEW S, \A x, y \in S : x = y
    PROVE  Cardinality(S) <= 1
<1>1. CASE S = {}
  BY <1>1, FS_EmptySet
<1>2. CASE S # {}
  <2>1. PICK x : x \in S
    BY <1>2
  <2>2. S = {x}
    BY <2>1
  <2>3. QED
    BY <2>2, FS_Singleton
<1>3. QED
  BY <1>1, <1>2

\* Where the listing shows the whole library, a sample is released once and
\* has one draft where all that carries its name is the script's, however often
\* the script is run and wherever it stops; and a run that ended holds no lease.
THEOREM SeedsOnce ==
    ASSUME WholeLibraryIsListed
    PROVE  Spec => []SeedingInvariant
<1>1. Init => OnceInv
  <2> SUFFICES ASSUME Init
               PROVE  OnceInv
    OBVIOUS
  <2>1. /\ \A i, j \in Live : strategies[i].kind = strategies[j].kind => i = j
        /\ \A i \in releases : i \in Live /\ strategies[i].kind = "released"
    BY InitLibrary DEF HistoryStands
  <2>2. pc = "idle"
    BY DEF Init
  <2>3. QED
    BY <2>1, <2>2 DEF OnceInv, OursAreListed, OnlyWhereMissing, NothingTwice, Calls
<1>2. WorkInv /\ OnceInv /\ [Next]_vars => OnceInv'
  BY OursAreListedNext, NothingTwiceNext, OnlyWhereMissingNext DEF OnceInv
<1>3. WorkInv /\ OnceInv => SeedingInvariant
  <2> SUFFICES ASSUME WorkInv, OnceInv
               PROVE  SeedingInvariant
    OBVIOUS
  <2> USE DEF WorkInv, OnceInv
  <2>1. ReleasedOnce
    <3> SUFFICES ASSUME NEW s \in Samples
                 PROVE  Cardinality({i \in releases : strategies[i].name = s}) <= 1
      BY DEF ReleasedOnce
    <3>1. \A i, j \in {k \in releases : strategies[k].name = s} : i = j
      BY DEF NothingTwice
    <3>2. QED
      BY <3>1, AtMostOne
  <2>2. OneDraft
    <3> SUFFICES ASSUME NEW s \in Samples,
                        \A i \in Live : strategies[i].name = s => i \in created
                 PROVE  Cardinality(Of(s, "draft")) <= 1
      BY DEF OneDraft
    <3>1. \A i, j \in Of(s, "draft") : i = j
      BY DEF Of, NothingTwice, OnlyScripts
    <3>2. QED
      BY <3>1, AtMostOne
  <2>3. LeasesGivenBack
    BY DEF LeasesGivenBack, OneLease
  <2>4. QED
    BY <2>1, <2>2, <2>3 DEF SeedingInvariant
<1>4. QED
  BY <1>1, <1>2, <1>3, WorkHolds, PTL DEF Spec

=============================================================================
