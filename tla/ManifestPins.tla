---------------------------- MODULE ManifestPins ----------------------------
(***************************************************************************)
(* Which dataset manifests a backtest run reads.  A request pins, for its  *)
(* period, a cover among the manifests available then.  The oracle, at any *)
(* later time, computes the cover with an algorithm of its own among the   *)
(* manifests that are available as of the request, and rejects the run if  *)
(* the two differ.  The manifests are those of one instrument and one      *)
(* resolution; others never mix with them.                                 *)
(***************************************************************************)
EXTENDS Naturals, Sequences, FiniteSets

CONSTANTS
    Ids,            \* bound: manifests; their order breaks ties
    Days,           \* bound: the calendar is 0..Days
    MaxRuns         \* bound: runs

ASSUME PinsAssumption ==
    /\ Ids \subseteq Nat /\ IsFiniteSet(Ids)
    /\ Days \in Nat /\ MaxRuns \in Nat

VARIABLES
    manifests,      \* dataset_manifests
    runs,           \* the runs with their pins; one for each instant of a request
    now             \* the instant of the last request or publication

pinsVars == <<manifests, runs, now>>

Manifest == [id : Ids, from : 0..Days, to : 0..Days, revision : Nat \ {0},
             at : Nat, status : {"AVAILABLE", "SUPERSEDED"}]

\* seen is not stored: what was available when the request was answered.
Run == [asOf : Nat, start : 0..Days, end : 0..Days, pins : SUBSET Ids,
        seen : SUBSET Manifest]

PinsTypeOK ==
    /\ manifests \subseteq Manifest
    /\ runs \subseteq Run
    /\ now \in Nat

-----------------------------------------------------------------------------
(* minimum_manifest_cover.                                                 *)

\* Fault: a manifest may begin before the one before it ends.
IsPathOverlapping(path, start, end) ==
    /\ path[1].from <= start /\ path[1].to > start
    /\ \A i \in 1..(Len(path) - 1) :
          path[i].to < end /\ path[i + 1].from <= path[i].to /\ path[i + 1].to > path[i].to
    /\ path[Len(path)].to >= end

\* The first manifest may begin early, each next one begins where the one
\* before it ends, and none but the last reaches the end.
IsPath(path, start, end) ==
    /\ path[1].from <= start /\ path[1].to > start
    /\ \A i \in 1..(Len(path) - 1) :
          path[i].to < end /\ path[i + 1].from = path[i].to /\ path[i + 1].to > path[i].to
    /\ path[Len(path)].to >= end

\* Each manifest of a path covers a day of the period that no other covers.
Paths(candidates, start, end) ==
    {path \in UNION {[1..n -> candidates] : n \in 1..(end - start)} :
        IsPath(path, start, end)}

Times(f, value) == Cardinality({i \in DOMAIN f : f[i] = value})
ValuesOf(f, g) == {f[i] : i \in DOMAIN f} \cup {g[i] : i \in DOMAIN g}

\* Of two vectors as long as each other and sorted from the greatest down:
\* the first is greater, or they are the same
Greater(f, g) ==
    \E v \in ValuesOf(f, g) :
        /\ Times(f, v) > Times(g, v)
        /\ \A w \in ValuesOf(f, g) : w > v => Times(f, w) = Times(g, w)
Same(f, g) == \A v \in ValuesOf(f, g) : Times(f, v) = Times(g, v)

Revisions(path) == [i \in DOMAIN path |-> path[i].revision]
Availability(path) == [i \in DOMAIN path |-> path[i].at]

\* The days of the path before and after the period, whichever it is
Outside(path) == path[Len(path)].to - path[1].from

SmallerIds(p, q) ==
    \E i \in DOMAIN p :
        p[i].id < q[i].id /\ \A j \in 1..(i - 1) : p[j].id = q[j].id

\* Fault: the newest revisions are not preferred.
RanksFirstByAge(p, q) ==
    \/ Len(p) < Len(q)
    \/ Len(p) = Len(q) /\ Greater(Availability(q), Availability(p))
    \/ Len(p) = Len(q) /\ Same(Availability(p), Availability(q)) /\ SmallerIds(p, q)

\* ranking: fewest, newest revisions, newest availability, least outside
RanksFirst(p, q) ==
    \/ Len(p) < Len(q)
    \/ /\ Len(p) = Len(q)
       /\ \/ Greater(Revisions(p), Revisions(q))
          \/ /\ Same(Revisions(p), Revisions(q))
             /\ \/ Greater(Availability(p), Availability(q))
                \/ /\ Same(Availability(p), Availability(q))
                   /\ \/ Outside(p) < Outside(q)
                      \/ Outside(p) = Outside(q) /\ SmallerIds(p, q)

\* The ids of the manifests of the best path; none if there is no path
Cover(candidates, start, end) ==
    LET paths == Paths(candidates, start, end)
        best == CHOOSE p \in paths : \A q \in paths : p = q \/ RanksFirst(p, q)
    IN  IF paths = {} THEN {} ELSE {best[i].id : i \in DOMAIN best}

-----------------------------------------------------------------------------

\* Fault: the instant of the request is not looked at.
CandidatesNow(asOf) == {m \in manifests : m.status = "AVAILABLE"}

\* _candidate_rows
Candidates(asOf) == {m \in manifests : m.status = "AVAILABLE" /\ m.at <= asOf}

PinsInit == manifests = {} /\ runs = {} /\ now = 0

SamePeriod(from, to) == {m \in manifests : m.from = from /\ m.to = to}

\* A publication may become visible later than the instant it names, and it
\* may name one at which a request has been answered.
Instants == 1..(now + 1)

Retired(m) == [m EXCEPT !.status = "SUPERSEDED"]

\* A revision may retire those before it of the same days.
Publish(id, from, to, at, retires) ==
    /\ \A m \in manifests : m.id # id
    /\ from < to
    /\ manifests' =
          (manifests \ SamePeriod(from, to)) \cup
          {IF retires THEN Retired(m) ELSE m : m \in SamePeriod(from, to)} \cup
          {[id |-> id, from |-> from, to |-> to, at |-> at, status |-> "AVAILABLE",
            revision |-> Cardinality(SamePeriod(from, to)) + 1]}
    /\ now' = IF at > now THEN at ELSE now
    /\ UNCHANGED runs

\* Fault: the day after the end is added once more.
RequestDayAfter(start, end) ==
    /\ Cardinality(runs) < MaxRuns /\ start < end
    /\ Cover(Candidates(now + 1), start, end) # {}
    /\ runs' = runs \cup {[asOf |-> now + 1, start |-> start, end |-> end + 1,
                           pins |-> Cover(Candidates(now + 1), start, end),
                           seen |-> Candidates(now + 1)]}
    /\ now' = now + 1
    /\ UNCHANGED manifests

\* end is the day after the last of the run
Request(start, end) ==
    /\ Cardinality(runs) < MaxRuns /\ start < end
    /\ Cover(Candidates(now + 1), start, end) # {}
    /\ runs' = runs \cup {[asOf |-> now + 1, start |-> start, end |-> end,
                           pins |-> Cover(Candidates(now + 1), start, end),
                           seen |-> Candidates(now + 1)]}
    /\ now' = now + 1
    /\ UNCHANGED manifests

PinsNext ==
    \/ \E id \in Ids, from, to \in 0..Days, at \in Instants, retires \in BOOLEAN :
          Publish(id, from, to, at, retires)
    \/ \E start, end \in 0..Days : Request(start, end)

PinsSpec == PinsInit /\ [][PinsNext]_pinsVars

\* What reconcile and reconcile_terminal_inputs require of a run's pins
Verifies(run) == run.pins = Cover(Candidates(run.asOf), run.start, run.end)

-----------------------------------------------------------------------------

\* What a request would have had to choose from, had it been visible
Late(run) == {m \in manifests : /\ m.status = "AVAILABLE" /\ m.at <= run.asOf
                                 /\ m \notin run.seen}

\* No manifest the run pins has been retired.
PinsStand(run) == \A m \in manifests : m.id \in run.pins => m.status = "AVAILABLE"

\* Whatever is published and retired after a request, the oracle accepts the
\* pins of its run as long as none of them is retired, and no longer: newer,
\* better and retired manifests that are not pinned change nothing.  Only a
\* manifest that becomes visible later than it says, as of the request, may.
VerifiesWhilePinsStand ==
    \A run \in runs : Late(run) = {} => (Verifies(run) <=> PinsStand(run))

\* Every day of the period is in exactly one of the manifests
Tiles(set, start, end) ==
    /\ \A day \in start..(end - 1) :
          Cardinality({m \in set : m.from <= day /\ day < m.to}) = 1
    /\ \A m \in set : m.from < end /\ m.to > start

\* The cover found along paths is a smallest set of manifests that tiles the
\* period, and there is one whenever some set does.
CoverIsSmallestTiling ==
    \A start, end \in 0..Days : start < end =>
        LET all == Candidates(now)
            cover == {m \in all : m.id \in Cover(all, start, end)}
            tilings == {set \in SUBSET all : Tiles(set, start, end)}
        IN  /\ tilings # {} => Tiles(cover, start, end)
            /\ \A set \in tilings : Cardinality(cover) <= Cardinality(set)

\* No manifest of a cover has a newer revision over the same days.
CoverIsNewest ==
    \A start, end \in 0..Days : start < end =>
        LET all == Candidates(now)
            cover == Cover(all, start, end)
        IN  \A m, n \in all :
                m.id \in cover /\ m.from = n.from /\ m.to = n.to
                    => n.revision <= m.revision

\* The state is typed, and every cover it admits is a smallest tiling by the
\* newest revisions.
CoversInvariant ==
    /\ PinsTypeOK
    /\ CoverIsSmallestTiling
    /\ CoverIsNewest

=============================================================================
