----------------------------- MODULE PlanClocks ----------------------------
(***************************************************************************)
(* Which market clock each flow of a compiled plan runs on, as the oracle  *)
(* finds it out: require_exact_manifest_pairs compares the run's pins with *)
(* what the plan requires, and exact_flow_resolution then gives each flow  *)
(* its clock.  A flow that names no resolution is position-only.           *)
(*                                                                         *)
(* Plans grow flow by flow, and pins are added one by one; the strategies  *)
(* of SampleCorpus are plans too, one partition for each editor section.   *)
(***************************************************************************)
EXTENDS SampleCorpus, Naturals, FiniteSets

CONSTANTS
    Partitions, Instruments, Clocks,
    MaxFlows        \* bound: flows of a plan

ASSUME FlowsAssumption == MaxFlows \in Nat

VARIABLES
    plan,           \* the flows of the plan's partitions
    pins            \* the instruments and clocks of the pinned manifests

planVars == <<plan, pins>>

Flow == [partition : Partitions, instruments : (SUBSET Instruments) \ {{}},
         explicit : SUBSET Clocks]

PlanTypeOK ==
    /\ \A f \in plan :
          f.instruments # {} /\ f.explicit \subseteq Clocks \cup Resolutions
    /\ \A p \in pins : \E f \in plan : p[1] \in f.instruments

\* What the compiler makes of a strategy: a partition for each section
Compiled(groups) ==
    {[partition |-> g.section, instruments |-> {g.instrument},
      explicit |-> Explicit(g.steps)] : g \in groups}

PlanInit ==
    /\ plan \in {{}} \cup {Compiled(ReleaseProofSamples[k]) :
                              k \in DOMAIN ReleaseProofSamples}
                     \cup {Compiled(s) : s \in LocalSamples}
    /\ pins = {}

AddFlow ==
    /\ Cardinality(plan) < MaxFlows
    /\ \E f \in Flow : plan' = plan \cup {f}
    /\ UNCHANGED pins

\* The pairs a plan's flows name
Traded == UNION {f.instruments : f \in plan}
Named == Traded \X (UNION {f.explicit : f \in plan})

Pin ==
    /\ \E p \in Named : pins' = pins \cup {p}
    /\ UNCHANGED plan

PlanNext == AddFlow \/ Pin

PlanSpec == PlanInit /\ [][PlanNext]_planVars

-----------------------------------------------------------------------------

One(S) == \E r \in S : S = {r}

\* Fault: the clocks of all partitions are put together.
ExplicitAnywhere(p, i) ==
    UNION {f.explicit : f \in {g \in plan : i \in g.instruments}}

\* explicit_by_instrument of a partition
ExplicitFor(p, i) ==
    UNION {f.explicit : f \in {g \in plan : g.partition = p
                                            /\ i \in g.instruments}}

\* The clocks that come into question for an instrument of a flow
Candidates(f, i) ==
    IF f.explicit # {} THEN f.explicit ELSE ExplicitFor(f.partition, i)

\* Fault: no ambiguity is excused.
ExcusedNever(f, allowAmbiguous) == FALSE

\* The only flows whose ambiguity may be excused name no clock.
Excused(f, allowAmbiguous) == allowAmbiguous /\ f.explicit = {}

Clear(f, allowAmbiguous) ==
    /\ f.explicit = {} \/ One(f.explicit)
    /\ \A i \in f.instruments :
          One(Candidates(f, i)) \/ Excused(f, allowAmbiguous)

Required ==
    {p \in Named : \E f \in plan :
        /\ p[1] \in f.instruments
        /\ One(Candidates(f, p[1])) /\ p[2] \in Candidates(f, p[1])}

\* Fault: pins that nothing requires are let through.
AcceptedIfCovered(allowAmbiguous) ==
    /\ \A f \in plan : Clear(f, allowAmbiguous)
    /\ Required \subseteq pins

\* require_exact_manifest_pairs does not raise.
Accepted(allowAmbiguous) ==
    /\ \A f \in plan : Clear(f, allowAmbiguous)
    /\ pins = Required

\* Fault: a flow without a clock of its own takes any that is pinned.
PinnedAnywhere(f) == {p[2] : p \in pins}

PinnedFor(f) == {p[2] : p \in {q \in pins : q[1] \in f.instruments}}

\* exact_flow_resolution raises unless this is one clock.
FlowClocks(f) == IF f.explicit # {} THEN f.explicit ELSE PinnedFor(f)

-----------------------------------------------------------------------------

\* Within a partition, each flow trades one instrument, and an instrument is
\* traded by one partition.
Separate ==
    \A f, g \in plan :
        /\ One(f.instruments)
        /\ f.instruments \cap g.instruments # {} => f.partition = g.partition

\* Where an instrument belongs to one partition and a flow to one instrument,
\* a run whose pins were accepted gets a clock for every flow, and it is the
\* clock the pins were required for.  Where partitions share an instrument, the
\* pins may be accepted and a position-only flow of one of them have two clocks.
AcceptedResolves ==
    Accepted(FALSE) /\ Separate =>
        \A f \in plan : \A i \in f.instruments :
            One(FlowClocks(f)) /\ FlowClocks(f) = Candidates(f, i)

\* No flow of an accepted run is ever given a clock that no flow of its own
\* partition names for one of its instruments, whatever the partitions share.
NoForeignClock ==
    Accepted(FALSE) =>
        \A f \in plan : One(FlowClocks(f)) =>
            \E i \in f.instruments : FlowClocks(f) \subseteq
                UNION {g.explicit : g \in {h \in plan :
                          h.partition = f.partition /\ i \in h.instruments}}

\* Each strategy of the corpus has exactly one set of pins under which it is
\* accepted, except the one that is there to be unavailable: it is refused
\* as a run that executes, and excused as a run that ended UNAVAILABLE.
CorpusIsTyped ==
    \A k \in DOMAIN ReleaseProofSamples :
        (plan = Compiled(ReleaseProofSamples[k]) /\ pins = Required) =>
            /\ Accepted(TRUE)
            /\ Accepted(FALSE) <=> k # "RELEASE_PROOF_UNAVAILABLE_AMBIGUOUS_CLOCK"

\* Plans and pins are typed, and the strategies of the corpus are what their
\* names say.
PlansInvariant ==
    /\ PlanTypeOK
    /\ CorpusIsTyped

=============================================================================
