------------------------ MODULE StrategyFlows_proofs -----------------------
(***************************************************************************)
(* About the flows of a strategy: that accepted pins give each its clock,  *)
(* and what its conditions see at each instant of a replay.                *)
(***************************************************************************)
EXTENDS PlanClocks, TriggerReplay, FiniteSetTheorems, SequenceTheorems,
        WellFoundedInduction, TLAPS

-----------------------------------------------------------------------------
(* Pins and clocks *)

\* The clocks of an instrument's required pairs are those that come into
\* question for the flows that trade it.
LEMMA RequiredClocks ==
    ASSUME NEW f \in plan, NEW i \in f.instruments, NEW r,
           <<i, r>> \in Required
    PROVE  \E g \in plan : i \in g.instruments /\ One(Candidates(g, i))
                           /\ r \in Candidates(g, i)
  BY DEF Required

\* What comes into question for a flow is named by a flow of its partition.
LEMMA CandidatesAreNamed ==
    ASSUME NEW f \in plan, NEW i \in f.instruments, NEW r \in Candidates(f, i)
    PROVE  <<i, r>> \in Named
  <1>1. CASE f.explicit # {}
    BY <1>1 DEF Candidates, Named, Traded
  <1>2. CASE f.explicit = {}
    <2>1. PICK g \in plan : i \in g.instruments /\ r \in g.explicit
      BY <1>2 DEF Candidates, ExplicitFor
    <2> QED BY <2>1 DEF Named, Traded
  <1> QED BY <1>1, <1>2

\* Two flows of a partition that trade the same instrument, each with one
\* clock in question, have the same one if the first is position-only.
LEMMA SameClock ==
    ASSUME NEW f \in plan, NEW g \in plan, NEW i,
           i \in f.instruments, i \in g.instruments, f.partition = g.partition,
           f.explicit = {}, One(Candidates(f, i)), One(Candidates(g, i))
    PROVE  Candidates(g, i) = Candidates(f, i)
  <1>1. CASE g.explicit = {}
    BY <1>1 DEF Candidates
  <1>2. CASE g.explicit # {}
    <2>1. g.explicit \subseteq ExplicitFor(f.partition, i)
      BY DEF ExplicitFor
    <2> QED BY <1>2, <2>1 DEF Candidates, One
  <1> QED BY <1>1, <1>2

\* Where partitions and flows are separate, whatever the plan and the pins:
\* if the pins are accepted, each flow gets the clock they are required for.
LEMMA Resolves == AcceptedResolves
  <1> SUFFICES ASSUME Accepted(FALSE), Separate,
                      NEW f \in plan, NEW i \in f.instruments
               PROVE  One(FlowClocks(f)) /\ FlowClocks(f) = Candidates(f, i)
    BY DEF AcceptedResolves
  <1>1. One(Candidates(f, i))
    BY DEF Accepted, Clear, Excused
  <1>2. CASE f.explicit # {}
    BY <1>1, <1>2 DEF FlowClocks, Candidates
  <1>3. CASE f.explicit = {}
    <2>1. f.instruments = {i}
      BY DEF Separate, One
    <2>2. pins = Required
      BY DEF Accepted
    <2>3. Candidates(f, i) \subseteq PinnedFor(f)
      <3> SUFFICES ASSUME NEW r \in Candidates(f, i) PROVE r \in PinnedFor(f)
        OBVIOUS
      <3>1. <<i, r>> \in Required
        BY <1>1, CandidatesAreNamed DEF Required
      <3> QED BY <3>1, <2>2 DEF PinnedFor
    <2>4. PinnedFor(f) \subseteq Candidates(f, i)
      <3> SUFFICES ASSUME NEW p \in pins, p[1] \in f.instruments
                   PROVE  p[2] \in Candidates(f, i)
        BY DEF PinnedFor
      <3>1. p[1] = i
        BY <2>1
      <3>2. PICK g \in plan : i \in g.instruments /\ One(Candidates(g, i))
                              /\ p[2] \in Candidates(g, i)
        BY <2>2, <3>1 DEF Required
      <3>3. f.partition = g.partition
        BY <3>2 DEF Separate
      <3> QED BY <1>1, <1>3, <3>2, <3>3, SameClock
    <2> QED BY <1>1, <1>3, <2>3, <2>4 DEF FlowClocks, One
  <1> QED BY <1>2, <1>3

\* In every reachable state of the plan and its pins.
THEOREM AcceptedRunsHaveClocks == PlanSpec => []AcceptedResolves
  <1>1. AcceptedResolves
    BY Resolves
  <1> QED BY <1>1, PTL DEF PlanSpec

\* A position-only flow of an accepted run that has one clock has it from an
\* instrument for which its own partition names it.
LEMMA OwnClock ==
    ASSUME NEW f \in plan, Accepted(FALSE), f.explicit = {}, One(PinnedFor(f))
    PROVE  \E i \in f.instruments : PinnedFor(f) = ExplicitFor(f.partition, i)
  <1>1. PICK r : PinnedFor(f) = {r}
    BY DEF One
  <1>2. PICK p \in pins : p[1] \in f.instruments /\ p[2] = r
    BY <1>1 DEF PinnedFor
  <1>3. One(Candidates(f, p[1])) /\ Candidates(f, p[1]) = ExplicitFor(f.partition, p[1])
    BY <1>2 DEF Accepted, Clear, Excused, Candidates
  <1>4. PICK c : Candidates(f, p[1]) = {c}
    BY <1>3 DEF One
  <1>5. <<p[1], c>> \in pins
    <2>1. <<p[1], c>> \in Required
      BY <1>2, <1>3, <1>4, CandidatesAreNamed DEF Required
    <2> QED BY <2>1 DEF Accepted
  <1>6. c = r
    BY <1>1, <1>2, <1>5 DEF PinnedFor
  <1> QED BY <1>1, <1>2, <1>3, <1>4, <1>6

FlowsTrade == \A f \in plan : f.instruments # {}

LEMMA TradeStep == FlowsTrade /\ [PlanNext]_planVars => FlowsTrade'
  BY DEF FlowsTrade, PlanNext, AddFlow, Pin, Flow, planVars

\* Whatever partitions share: a clock is never borrowed from another one.
LEMMA StaysInPartition == FlowsTrade => NoForeignClock
  <1> SUFFICES ASSUME FlowsTrade, Accepted(FALSE), NEW f \in plan, One(FlowClocks(f))
               PROVE  \E i \in f.instruments : FlowClocks(f) \subseteq
                          UNION {g.explicit : g \in {h \in plan :
                             h.partition = f.partition /\ i \in h.instruments}}
    BY DEF NoForeignClock
  <1>1. CASE f.explicit = {}
    BY <1>1, OwnClock DEF FlowClocks, ExplicitFor
  <1>2. CASE f.explicit # {}
    <2>1. PICK i : i \in f.instruments
      BY DEF FlowsTrade
    <2> QED BY <1>2, <2>1 DEF FlowClocks
  <1> QED BY <1>1, <1>2

\* In every reachable state, whatever the partitions share.
THEOREM ClocksStayInPartition == PlanSpec => []NoForeignClock
  <1>1. PlanInit => FlowsTrade
    BY DEF PlanInit, FlowsTrade, Compiled
  <1> QED BY <1>1, TradeStep, StaysInPartition, PTL DEF PlanSpec

-----------------------------------------------------------------------------
(* The strategies of the corpus *)

LEMMA ExplicitOfOne ==
    ASSUME NEW a
    PROVE  Explicit(<<a>>) = {a.resolution} \ {NoResolution}
BY DEF Explicit

LEMMA ExplicitOfTwo ==
    ASSUME NEW a, NEW b
    PROVE  Explicit(<<a, b>>) = {a.resolution, b.resolution} \ {NoResolution}
<1>1. DOMAIN <<a, b>> = {1, 2}
  OBVIOUS
<1>2. <<a, b>>[1] = a /\ <<a, b>>[2] = b
  OBVIOUS
<1>3. QED
  BY <1>1, <1>2 DEF Explicit

\* The cards of one instrument in one section
Beside(sample, g) == {h \in sample : h.section = g.section /\ h.instrument = g.instrument}

\* They name one clock between them.
Clocked(sample) ==
    \A g \in sample : \E r \in Resolutions :
        /\ \A h \in Beside(sample, g) : Explicit(h.steps) \subseteq {r}
        /\ \E h \in Beside(sample, g) : Explicit(h.steps) = {r}

\* Where all cards do, the strategy is accepted under the pins it requires.
LEMMA ClockedIsAccepted ==
    ASSUME NEW sample, Clocked(sample), plan = Compiled(sample), pins = Required
    PROVE  Accepted(FALSE) /\ Accepted(TRUE)
<1>1. ASSUME NEW f \in plan
      PROVE  /\ f.explicit = {} \/ One(f.explicit)
             /\ \A i \in f.instruments : One(Candidates(f, i))
  <2>1. PICK g \in sample : f = [partition |-> g.section, instruments |-> {g.instrument},
                                 explicit |-> Explicit(g.steps)]
    BY DEF Compiled
  <2>2. PICK r \in Resolutions :
          /\ \A h \in Beside(sample, g) : Explicit(h.steps) \subseteq {r}
          /\ \E h \in Beside(sample, g) : Explicit(h.steps) = {r}
    BY DEF Clocked
  <2>3. f.explicit \subseteq {r}
    BY <2>1, <2>2 DEF Beside
  <2>4. ExplicitFor(f.partition, g.instrument) = {r}
    <3>1. ASSUME NEW e \in plan, e.partition = f.partition, g.instrument \in e.instruments
          PROVE  e.explicit \subseteq {r}
      <4>1. PICK h \in sample : e = [partition |-> h.section, instruments |-> {h.instrument},
                                     explicit |-> Explicit(h.steps)]
        BY DEF Compiled
      <4>2. h \in Beside(sample, g)
        BY <2>1, <3>1, <4>1 DEF Beside
      <4>3. QED
        BY <2>2, <4>1, <4>2
    <3>2. \E e \in plan : e.partition = f.partition /\ g.instrument \in e.instruments
                          /\ e.explicit = {r}
      <4>1. PICK h \in Beside(sample, g) : Explicit(h.steps) = {r}
        BY <2>2
      <4> DEFINE e == [partition |-> h.section, instruments |-> {h.instrument},
                       explicit |-> Explicit(h.steps)]
      <4>2. e \in plan
        BY DEF Compiled, Beside
      <4>3. e.partition = f.partition /\ g.instrument \in e.instruments /\ e.explicit = {r}
        BY <2>1, <4>1 DEF Beside
      <4>4. QED
        BY <4>2, <4>3
    <3>3. QED
      BY <3>1, <3>2 DEF ExplicitFor
  <2>5. f.instruments = {g.instrument}
    BY <2>1
  <2>6. QED
    BY <2>3, <2>4, <2>5 DEF One, Candidates
<1>2. QED
  BY <1>1 DEF Accepted, Clear

LEMMA SinglesClocks ==
    ASSUME NEW section, NEW instrument, NEW r, r # NoResolution,
           NEW g \in Single(section, instrument, r)
    PROVE  g.section = section /\ g.instrument = instrument /\ Explicit(g.steps) = {r}
<1>1. g.section = section /\ g.instrument = instrument
  BY DEF Single, Group
<1>2. g.steps = <<Price(r, "GT")>> \/ g.steps = <<Holding(r, 1)>>
  BY DEF Single, Group
<1>3. Price(r, "GT").resolution = r /\ Holding(r, 1).resolution = r
  BY DEF Condition, Price, Holding
<1>4. QED
  BY <1>1, <1>2, <1>3, ExplicitOfOne

\* Where every card of an instrument names its clock, all cards do.
LEMMA ClockedByInstrument ==
    ASSUME NEW sample, NEW clock,
           \A g \in sample : clock[g.instrument] \in Resolutions
                             /\ Explicit(g.steps) = {clock[g.instrument]}
    PROVE  Clocked(sample)
<1>1. SUFFICES ASSUME NEW g \in sample
               PROVE  \E r \in Resolutions :
                         /\ \A h \in Beside(sample, g) : Explicit(h.steps) \subseteq {r}
                         /\ \E h \in Beside(sample, g) : Explicit(h.steps) = {r}
  BY DEF Clocked
<1>2. g \in Beside(sample, g)
  BY DEF Beside
<1>3. \A h \in Beside(sample, g) : h \in sample /\ h.instrument = g.instrument
  BY DEF Beside
<1>4. QED
  BY <1>2, <1>3

LEMMA TargetsNameTheirs ==
    ASSUME NEW s \in DOMAIN Targets
    PROVE  /\ Targets[s].resolution \in Resolutions
           /\ \A target \in Targets[s].buy \cup Targets[s].sell :
                 target.resolution \in {Targets[s].resolution, NoResolution}
<1>1. DOMAIN Targets = {"AAPL", "MSFT", "META", "NVDA"}
  BY DEF Targets
<1>2. CASE s = "AAPL"
  <2> DEFINE t == Targets["AAPL"]
  <2>1. /\ t.resolution = "30m"
        /\ t.buy = {Schedule, Price("30m", "GT"),
                    Condition("PRICE_CHANGE_PERCENT", "30m", "UP", "PREVIOUS_CLOSE", 0)}
        /\ t.sell = {Return("LOSS", 0), Holding("30m", 1)}
    BY DEF Targets
  <2> HIDE DEF t
  <2>2. /\ Schedule.resolution = "30m" /\ Price("30m", "GT").resolution = "30m"
        /\ Condition("PRICE_CHANGE_PERCENT", "30m", "UP", "PREVIOUS_CLOSE", 0).resolution = "30m"
        /\ Return("LOSS", 0).resolution = NoResolution /\ Holding("30m", 1).resolution = "30m"
    BY DEF Condition, Schedule, Price, Return, Holding
  <2>3. \A target \in t.buy \cup t.sell : target.resolution \in {"30m", NoResolution}
    BY <2>1, <2>2
  <2>4. QED
    BY <1>2, <2>1, <2>3 DEF Resolutions, t
<1>3. CASE s = "MSFT"
  <2> DEFINE t == Targets["MSFT"]
  <2>1. /\ t.resolution = "1h"
        /\ t.buy = {VolumeConfirm("1h"), Condition("STREAK", "1h", "UP", "", 2)}
        /\ t.sell = {Condition("PEAK_RETURN", NoResolution, "GTE", "", 0)}
    BY DEF Targets
  <2> HIDE DEF t
  <2>2. /\ VolumeConfirm("1h").resolution = "1h"
        /\ Condition("STREAK", "1h", "UP", "", 2).resolution = "1h"
        /\ Condition("PEAK_RETURN", NoResolution, "GTE", "", 0).resolution = NoResolution
    BY DEF Condition, VolumeConfirm
  <2>3. \A target \in t.buy \cup t.sell : target.resolution \in {"1h", NoResolution}
    BY <2>1, <2>2
  <2>4. QED
    BY <1>3, <2>1, <2>3 DEF Resolutions, t
<1>4. CASE s = "META"
  <2> DEFINE t == Targets["META"]
  <2>1. /\ t.resolution = "4h"
        /\ t.buy = {SmaCross("4h", "UP", 5, 20), Condition("RSI_CROSS", "4h", "UP", "RSI_14", 30)}
        /\ t.sell = {Drawdown("GTE", 0)}
    BY DEF Targets
  <2> HIDE DEF t
  <2>2. /\ SmaCross("4h", "UP", 5, 20).resolution = "4h"
        /\ Condition("RSI_CROSS", "4h", "UP", "RSI_14", 30).resolution = "4h"
        /\ Drawdown("GTE", 0).resolution = NoResolution
    BY DEF Condition, Drawdown, SmaCross
  <2>3. \A target \in t.buy \cup t.sell : target.resolution \in {"4h", NoResolution}
    BY <2>1, <2>2
  <2>4. QED
    BY <1>4, <2>1, <2>3 DEF Resolutions, t
<1>5. CASE s = "NVDA"
  <2> DEFINE t == Targets["NVDA"]
  <2>1. /\ t.resolution = "1d"
        /\ t.buy = {Condition("MACD_CROSS", "1d", "UP", "12/26/9", 37),
                    Condition("BOLLINGER_REVERSAL", "1d", "UP", "2", 20)}
        /\ t.sell = {Condition("HOLDING_PERIOD", "1d", "GTE", "TRADING_DAY", 1)}
    BY DEF Targets
  <2> HIDE DEF t
  <2>2. \A target \in t.buy \cup t.sell : target.resolution \in {"1d", NoResolution}
    BY <2>1 DEF Condition
  <2>3. QED
    BY <1>5, <2>1, <2>2 DEF Resolutions, t
<1>6. QED
  BY <1>1, <1>2, <1>3, <1>4, <1>5

LEMMA FullCatalogClocks ==
    ASSUME NEW g \in FullCatalog
    PROVE  /\ g.instrument \in DOMAIN Targets
           /\ Explicit(g.steps) = {Targets[g.instrument].resolution}
<1>1. PICK s \in DOMAIN Targets :
        \E container \in {"BUY", "SELL"}, target \in Targets[s].buy \cup Targets[s].sell :
            g = Group(s, container, s, <<target, Guard(target, Targets[s].resolution)>>)
  BY DEF FullCatalog
<1> PICK container \in {"BUY", "SELL"}, target \in Targets[s].buy \cup Targets[s].sell :
        g = Group(s, container, s, <<target, Guard(target, Targets[s].resolution)>>)
  BY <1>1
<1> DEFINE r == Targets[s].resolution
<1>2. r \in Resolutions /\ target.resolution \in {r, NoResolution}
  BY TargetsNameTheirs
<1> HIDE DEF r
<1>3. Guard(target, r).resolution = r
  BY DEF Condition, Guard, VolumeGuard, Price
<1>4. r # NoResolution
  BY <1>2 DEF Resolutions, NoResolution
<1>5. g.instrument = s /\ g.steps = <<target, Guard(target, r)>>
  BY <1>1 DEF Group, r
<1>6. Explicit(g.steps) = {r}
  BY <1>2, <1>3, <1>4, <1>5, ExplicitOfTwo
<1>7. QED
  BY <1>5, <1>6 DEF r

Names == {"RELEASE_PROOF_SINGLE_CLOCK", "RELEASE_PROOF_MIXED_CLOCK",
          "FULL_CATALOG_MIXED_RESOLUTION", "RELEASE_PROOF_WARNING",
          "RELEASE_PROOF_NO_SIGNAL", "RELEASE_PROOF_UNAVAILABLE_AMBIGUOUS_CLOCK"}

LEMMA NamesAre == DOMAIN ReleaseProofSamples = Names
BY DEF ReleaseProofSamples, Names

LEMMA SampleClocks ==
    /\ Clocked(ReleaseProofSamples["RELEASE_PROOF_SINGLE_CLOCK"])
    /\ Clocked(ReleaseProofSamples["RELEASE_PROOF_MIXED_CLOCK"])
    /\ Clocked(ReleaseProofSamples["FULL_CATALOG_MIXED_RESOLUTION"])
    /\ Clocked(ReleaseProofSamples["RELEASE_PROOF_WARNING"])
    /\ Clocked(ReleaseProofSamples["RELEASE_PROOF_NO_SIGNAL"])
<1>1. {"30m", "1d"} \subseteq Resolutions /\ "1d" # NoResolution /\ "30m" # NoResolution
  BY DEF Resolutions, NoResolution
<1>2. Clocked(ReleaseProofSamples["RELEASE_PROOF_SINGLE_CLOCK"])
  <2> DEFINE sample == ReleaseProofSamples["RELEASE_PROOF_SINGLE_CLOCK"]
             clock == [s \in {"AAPL"} |-> "1d"]
  <2>1. sample = Single("single", "AAPL", "1d")
    BY DEF ReleaseProofSamples
  <2> HIDE DEF sample
  <2>2. \A g \in sample : clock[g.instrument] \in Resolutions
                          /\ Explicit(g.steps) = {clock[g.instrument]}
    BY <1>1, <2>1, SinglesClocks
  <2> HIDE DEF clock
  <2>3. Clocked(sample)
    BY <2>2, ClockedByInstrument
  <2>4. QED
    BY <2>3 DEF sample
<1>3. Clocked(ReleaseProofSamples["RELEASE_PROOF_MIXED_CLOCK"])
  <2> DEFINE sample == ReleaseProofSamples["RELEASE_PROOF_MIXED_CLOCK"]
             clock == [s \in {"AAPL", "MSFT"} |-> IF s = "AAPL" THEN "30m" ELSE "1d"]
  <2>1. sample = Single("mixed", "AAPL", "30m") \cup Single("mixed", "MSFT", "1d")
    BY DEF ReleaseProofSamples
  <2> HIDE DEF sample
  <2>2. clock["AAPL"] = "30m" /\ clock["MSFT"] = "1d"
    OBVIOUS
  <2> HIDE DEF clock
  <2>3. ASSUME NEW g \in sample
        PROVE  \/ g.instrument = "AAPL" /\ Explicit(g.steps) = {"30m"}
               \/ g.instrument = "MSFT" /\ Explicit(g.steps) = {"1d"}
    <3>1. CASE g \in Single("mixed", "AAPL", "30m")
      BY <1>1, <3>1, SinglesClocks
    <3>2. CASE g \in Single("mixed", "MSFT", "1d")
      BY <1>1, <3>2, SinglesClocks
    <3>3. QED
      BY <2>1, <3>1, <3>2
  <2>4. \A g \in sample : clock[g.instrument] \in Resolutions
                          /\ Explicit(g.steps) = {clock[g.instrument]}
    BY <1>1, <2>2, <2>3
  <2>5. Clocked(sample)
    BY <2>4, ClockedByInstrument
  <2>6. QED
    BY <2>5 DEF sample
<1>4. Clocked(ReleaseProofSamples["FULL_CATALOG_MIXED_RESOLUTION"])
  <2> DEFINE clock == [s \in DOMAIN Targets |-> Targets[s].resolution]
  <2>1. ReleaseProofSamples["FULL_CATALOG_MIXED_RESOLUTION"] = FullCatalog
    BY DEF ReleaseProofSamples
  <2>2. \A g \in FullCatalog : clock[g.instrument] \in Resolutions
                               /\ Explicit(g.steps) = {clock[g.instrument]}
    BY FullCatalogClocks, TargetsNameTheirs
  <2> HIDE DEF clock
  <2>3. QED
    BY <2>1, <2>2, ClockedByInstrument
<1>5. Clocked(ReleaseProofSamples["RELEASE_PROOF_WARNING"])
  <2> DEFINE sample == ReleaseProofSamples["RELEASE_PROOF_WARNING"]
             buy == Group("warning", "BUY", "AAPL", <<Price("1d", "GT")>>)
             sell == Group("warning", "SELL", "AAPL", <<Drawdown("GTE", 10), Drawdown("LT", 5)>>)
  <2>1. sample = {buy, sell}
    BY DEF ReleaseProofSamples
  <2>2. Explicit(buy.steps) = {"1d"}
    <3>1. Price("1d", "GT").resolution = "1d"
      BY DEF Condition, Price
    <3>2. QED
      BY <1>1, <3>1, ExplicitOfOne DEF Group
  <2>3. Explicit(sell.steps) = {}
    <3>1. Drawdown("GTE", 10).resolution = NoResolution /\ Drawdown("LT", 5).resolution = NoResolution
      BY DEF Condition, Drawdown
    <3>2. sell.steps = <<Drawdown("GTE", 10), Drawdown("LT", 5)>>
      BY DEF Group
    <3> HIDE DEF sell
    <3>3. QED
      BY <3>1, <3>2, ExplicitOfTwo
  <2>4. buy.section = sell.section /\ buy.instrument = sell.instrument
    BY DEF Group
  <2> HIDE DEF sample, buy, sell
  <2>5. \A g \in sample : Beside(sample, g) = {buy, sell}
    BY <2>1, <2>4 DEF Beside
  <2>6. Clocked(sample)
    BY <1>1, <2>2, <2>3, <2>5 DEF Clocked
  <2>7. QED
    BY <2>6 DEF sample
<1>6. Clocked(ReleaseProofSamples["RELEASE_PROOF_NO_SIGNAL"])
  <2> DEFINE sample == ReleaseProofSamples["RELEASE_PROOF_NO_SIGNAL"]
             buy == Group("no signal", "BUY", "AAPL", <<Price("1d", "GT"), Price("1d", "LT")>>)
             sell == Group("no signal", "SELL", "AAPL", <<Holding("1d", 1)>>)
             clock == [s \in {"AAPL"} |-> "1d"]
  <2>1. sample = {buy, sell}
    BY DEF ReleaseProofSamples
  <2>2. Explicit(buy.steps) = {"1d"}
    <3>1. Price("1d", "GT").resolution = "1d" /\ Price("1d", "LT").resolution = "1d"
      BY DEF Condition, Price
    <3>2. buy.steps = <<Price("1d", "GT"), Price("1d", "LT")>>
      BY DEF Group
    <3> HIDE DEF buy
    <3>3. QED
      BY <1>1, <3>1, <3>2, ExplicitOfTwo
  <2>3. Explicit(sell.steps) = {"1d"}
    <3>1. Holding("1d", 1).resolution = "1d"
      BY DEF Condition, Holding
    <3>2. QED
      BY <1>1, <3>1, ExplicitOfOne DEF Group
  <2>4. buy.instrument = "AAPL" /\ sell.instrument = "AAPL"
    BY DEF Group
  <2> HIDE DEF sample, buy, sell
  <2>5. \A g \in sample : clock[g.instrument] \in Resolutions
                          /\ Explicit(g.steps) = {clock[g.instrument]}
    BY <1>1, <2>1, <2>2, <2>3, <2>4
  <2> HIDE DEF clock
  <2>6. Clocked(sample)
    BY <2>5, ClockedByInstrument
  <2>7. QED
    BY <2>6 DEF sample
<1>7. QED
  BY <1>2, <1>3, <1>4, <1>5, <1>6

\* The one sample whose position-only card has two clocks beside it
LEMMA AmbiguousIsExcused ==
    ASSUME plan = Compiled(ReleaseProofSamples["RELEASE_PROOF_UNAVAILABLE_AMBIGUOUS_CLOCK"]),
           pins = Required
    PROVE  Accepted(TRUE) /\ ~Accepted(FALSE)
<1> DEFINE a == Group("unavailable", "BUY", "AAPL", <<Price("30m", "GT")>>)
           b == Group("unavailable", "BUY", "AAPL", <<Price("1d", "GT")>>)
           c == Group("unavailable", "SELL", "AAPL", <<Return("PROFIT", 1)>>)
           Made(explicit) == [partition |-> "unavailable", instruments |-> {"AAPL"},
                              explicit |-> explicit]
<1>1. ReleaseProofSamples["RELEASE_PROOF_UNAVAILABLE_AMBIGUOUS_CLOCK"] = {a, b, c}
  BY DEF ReleaseProofSamples
<1>2. /\ "30m" # NoResolution /\ "1d" # NoResolution /\ "30m" # "1d"
  BY DEF NoResolution
<1>3. /\ a.section = "unavailable" /\ a.instrument = "AAPL" /\ a.steps = <<Price("30m", "GT")>>
      /\ b.section = "unavailable" /\ b.instrument = "AAPL" /\ b.steps = <<Price("1d", "GT")>>
      /\ c.section = "unavailable" /\ c.instrument = "AAPL" /\ c.steps = <<Return("PROFIT", 1)>>
  BY DEF Group
<1> HIDE DEF a, b, c
<1>4. Explicit(a.steps) = {"30m"} /\ Explicit(b.steps) = {"1d"} /\ Explicit(c.steps) = {}
  <2>1. /\ Price("30m", "GT").resolution = "30m" /\ Price("1d", "GT").resolution = "1d"
        /\ Return("PROFIT", 1).resolution = NoResolution
    BY DEF Condition, Price, Return
  <2>2. QED
    BY <1>2, <1>3, <2>1, ExplicitOfOne
<1>5. plan = {Made({"30m"}), Made({"1d"}), Made({})}
  BY <1>1, <1>3, <1>4 DEF Compiled
<1>6. \A f \in plan : /\ f.explicit = {"30m"} \/ f.explicit = {"1d"} \/ f.explicit = {}
                      /\ f.partition = "unavailable" /\ f.instruments = {"AAPL"}
  BY <1>5
<1>7. Accepted(TRUE)
  BY <1>6 DEF Accepted, Clear, Excused, One, Candidates
<1>8. PICK f \in plan : f.explicit = {}
  BY <1>5
<1>9. Candidates(f, "AAPL") = ExplicitFor("unavailable", "AAPL")
  BY <1>6, <1>8 DEF Candidates
<1>10. {"30m", "1d"} \subseteq ExplicitFor("unavailable", "AAPL")
  <2>1. PICK g \in plan : g.explicit = {"30m"}
    BY <1>5
  <2>2. PICK h \in plan : h.explicit = {"1d"}
    BY <1>5
  <2>3. QED
    BY <1>6, <2>1, <2>2 DEF ExplicitFor
<1>11. ~One(Candidates(f, "AAPL"))
  BY <1>2, <1>9, <1>10 DEF One
<1>12. QED
  BY <1>6, <1>7, <1>11 DEF Accepted, Clear, Excused

LEMMA CorpusHolds == CorpusIsTyped
<1>1. SUFFICES ASSUME NEW k \in Names, plan = Compiled(ReleaseProofSamples[k]), pins = Required
               PROVE  /\ Accepted(TRUE)
                      /\ Accepted(FALSE) <=> k # "RELEASE_PROOF_UNAVAILABLE_AMBIGUOUS_CLOCK"
  BY NamesAre DEF CorpusIsTyped
<1>2. CASE k = "RELEASE_PROOF_UNAVAILABLE_AMBIGUOUS_CLOCK"
  BY <1>1, <1>2, AmbiguousIsExcused
<1>3. CASE k # "RELEASE_PROOF_UNAVAILABLE_AMBIGUOUS_CLOCK"
  <2>1. Clocked(ReleaseProofSamples[k])
    BY <1>3, SampleClocks DEF Names
  <2>2. QED
    BY <1>1, <1>3, <2>1, ClockedIsAccepted
<1>4. QED
  BY <1>2, <1>3

\* The conditions of the editable samples name resolutions there are.
LEMMA EditableClocks ==
    ASSUME NEW k \in DOMAIN EditableSamples, NEW g \in EditableSamples[k]
    PROVE  Explicit(g.steps) \subseteq Resolutions
<1>1. DOMAIN EditableSamples =
          {"AAPL_MOMENTUM_REVERSAL", "MSFT_STREAK_REVERSAL", "LIQUID_MULTI_ASSET_CYCLE"}
  BY DEF EditableSamples
<1>2. /\ Price("30m", "GT").resolution = "30m" /\ Price("30m", "LT").resolution = "30m"
      /\ VolumeConfirm("30m").resolution = "30m" /\ Holding("30m", 65).resolution = "30m"
      /\ Streak("UP", 2).resolution = "30m" /\ Streak("DOWN", 2).resolution = "30m"
  BY DEF Condition, Price, VolumeConfirm, Holding, Streak
<1>3. ASSUME NEW section, NEW symbols, NEW buy, NEW sell, NEW h \in Sample(section, symbols, buy, sell)
      PROVE  h.steps \in {buy, sell}
  BY DEF Sample, Group
<1>4. g.steps \in {<<Price("30m", "GT"), VolumeConfirm("30m")>>, <<Holding("30m", 65), Price("30m", "LT")>>,
                   <<Streak("UP", 2), VolumeConfirm("30m")>>, <<Price("30m", "GT"), Streak("UP", 2)>>,
                   <<Holding("30m", 65), Streak("DOWN", 2)>>}
  <2>1. CASE k = "AAPL_MOMENTUM_REVERSAL"
    BY <1>3, <2>1 DEF EditableSamples
  <2>2. CASE k = "MSFT_STREAK_REVERSAL"
    BY <1>3, <2>2 DEF EditableSamples
  <2>3. CASE k = "LIQUID_MULTI_ASSET_CYCLE"
    BY <1>3, <2>3 DEF EditableSamples
  <2>4. QED
    BY <1>1, <2>1, <2>2, <2>3
<1>5. "30m" \in Resolutions
  BY DEF Resolutions
<1>6. QED
  BY <1>2, <1>4, <1>5, ExplicitOfTwo

LEMMA CorpusClocks ==
    /\ \A k \in DOMAIN ReleaseProofSamples : \A g \in ReleaseProofSamples[k] :
          Explicit(g.steps) \subseteq Resolutions
    /\ \A s \in LocalSamples : \A g \in s : Explicit(g.steps) \subseteq Resolutions
<1>1. ASSUME NEW sample, Clocked(sample), NEW g \in sample
      PROVE  Explicit(g.steps) \subseteq Resolutions
  <2>1. g \in Beside(sample, g)
    BY DEF Beside
  <2>2. QED
    BY <1>1, <2>1 DEF Clocked
<1>2. ASSUME NEW g \in ReleaseProofSamples["RELEASE_PROOF_UNAVAILABLE_AMBIGUOUS_CLOCK"]
      PROVE  Explicit(g.steps) \subseteq Resolutions
  <2>1. g.steps \in {<<Price("30m", "GT")>>, <<Price("1d", "GT")>>, <<Return("PROFIT", 1)>>}
    BY DEF ReleaseProofSamples, Group
  <2>2. /\ Price("30m", "GT").resolution = "30m" /\ Price("1d", "GT").resolution = "1d"
        /\ Return("PROFIT", 1).resolution = NoResolution
    BY DEF Condition, Price, Return
  <2>3. {"30m", "1d"} \subseteq Resolutions
    BY DEF Resolutions
  <2>4. QED
    BY <2>1, <2>2, <2>3, ExplicitOfOne
<1>3. \A g \in FullCatalog : Explicit(g.steps) \subseteq Resolutions
  BY FullCatalogClocks, TargetsNameTheirs
<1>4. ASSUME NEW k \in Names, NEW g \in ReleaseProofSamples[k]
      PROVE  Explicit(g.steps) \subseteq Resolutions
  <2>1. CASE k = "RELEASE_PROOF_UNAVAILABLE_AMBIGUOUS_CLOCK"
    BY <1>2, <1>4, <2>1
  <2>2. CASE k # "RELEASE_PROOF_UNAVAILABLE_AMBIGUOUS_CLOCK"
    <3>1. Clocked(ReleaseProofSamples[k])
      BY <2>2, SampleClocks DEF Names
    <3>2. QED
      BY <1>1, <1>4, <3>1
  <2>3. QED
    BY <2>1, <2>2
<1>5. QED
  BY <1>3, <1>4, EditableClocks, NamesAre DEF LocalSamples

LEMMA PlansAreTyped == PlanSpec => []PlanTypeOK
<1>1. PlanInit => PlanTypeOK
  BY CorpusClocks DEF PlanInit, PlanTypeOK, Compiled
<1>2. PlanTypeOK /\ [PlanNext]_planVars => PlanTypeOK'
  <2>1. SUFFICES ASSUME PlanTypeOK, [PlanNext]_planVars PROVE PlanTypeOK'
    OBVIOUS
  <2>2. CASE AddFlow
    BY <2>1, <2>2 DEF PlanTypeOK, AddFlow, Flow
  <2>3. CASE Pin
    BY <2>1, <2>3 DEF PlanTypeOK, Pin, Named, Traded
  <2>4. CASE UNCHANGED planVars
    BY <2>1, <2>4 DEF PlanTypeOK, planVars
  <2>5. QED
    BY <2>1, <2>2, <2>3, <2>4 DEF PlanNext
<1>3. QED
  BY <1>1, <1>2, PTL DEF PlanSpec

\* In every reachable state, whatever partitions, instruments and clocks there
\* are: each strategy of the corpus has exactly one set of pins under which it
\* is accepted, but for the one that is there to be unavailable.
THEOREM CorpusIsAccepted == PlanSpec => []PlansInvariant
<1>1. CorpusIsTyped
  BY CorpusHolds
<1>2. QED
  BY <1>1, PlansAreTyped, PTL DEF PlansInvariant

-----------------------------------------------------------------------------
(* The days of a replay *)

LEMMA Lengths ==
    /\ SessionLength \in Nat /\ SessionLength >= 2
    /\ \A d \in Nat : Opens(d) \in Nat /\ Closes(d) \in Nat /\ Closes(d) = Opens(d) + InstantsPerSession
    /\ Horizon \in Nat
  BY ReplayAssumption DEF SessionLength, Opens, Closes, Horizon

LEMMA DayIs ==
    ASSUME NEW t \in Nat
    PROVE  Day(t) \in Nat /\ Opens(Day(t)) <= t /\ t <= Closes(Day(t))
<1>1. SessionLength \in Nat \ {0}
  BY Lengths
<1>2. Day(t) \in Nat /\ Day(t) * SessionLength <= t /\ t < Day(t) * SessionLength + SessionLength
  BY <1>1, Z3 DEF Day
<1>3. QED
  BY <1>2, ReplayAssumption DEF Opens, Closes, SessionLength

\* Days come one after the other.
LEMMA DaysInOrder ==
    ASSUME NEW t \in Nat, NEW u \in Nat, t <= u
    PROVE  Day(t) <= Day(u)
<1> DEFINE d == Day(t)  e == Day(u)
<1>1. d \in Nat /\ e \in Nat /\ Opens(d) <= t /\ u <= Closes(e)
  BY DayIs
<1>2. SUFFICES ASSUME e < d PROVE FALSE
  BY <1>1
<1> HIDE DEF d, e
<1>3. (e + 1) * SessionLength <= d * SessionLength
  BY <1>1, <1>2, Lengths
<1>4. (e + 1) * SessionLength = e * SessionLength + SessionLength
  BY <1>1, Lengths
<1>5. QED
  BY <1>1, <1>3, <1>4, ReplayAssumption DEF Opens, Closes, SessionLength

LEMMA SlotsAreTimes ==
    ASSUME NEW t \in Slots
    PROVE  t \in 1..Horizon /\ t \in Nat /\ t - 1 \in 0..Horizon /\ Day(t) \in Days
<1>1. t \in 1..Horizon /\ t \in Nat /\ t - 1 \in 0..Horizon
  BY Lengths DEF Slots
<1> DEFINE d == Day(t)
<1>2. d \in Nat /\ Opens(d) <= t
  BY <1>1, DayIs
<1>3. d <= Sessions - 1
  <2>1. SUFFICES ASSUME Sessions <= d PROVE FALSE
    BY <1>2, ReplayAssumption
  <2> HIDE DEF d
  <2>2. Sessions * SessionLength <= d * SessionLength
    BY <1>2, <2>1, Lengths, ReplayAssumption
  <2>3. Sessions * SessionLength = (Sessions - 1) * SessionLength + SessionLength
    BY Lengths, ReplayAssumption
  <2>4. QED
    BY <1>1, <1>2, <2>2, <2>3, Lengths, ReplayAssumption DEF Opens, Closes, Horizon, SessionLength
<1>4. QED
  BY <1>1, <1>2, <1>3 DEF Days

LEMMA ClosesAreSlots ==
    ASSUME NEW d \in Days
    PROVE  Closes(d) \in Slots
<1>1. d \in Nat /\ d <= Sessions - 1 /\ InstantsPerSession \in Nat \ {0}
  BY ReplayAssumption DEF Days
<1>2. Opens(d) <= Opens(Sessions - 1)
  BY <1>1, Lengths, ReplayAssumption DEF Opens
<1>3. Closes(d) \in 1..Horizon
  BY <1>1, <1>2, Lengths, ReplayAssumption DEF Closes, Horizon, Opens
<1>4. Closes(d) % SessionLength = InstantsPerSession
  BY <1>1, Lengths, Z3 DEF Closes, Opens, SessionLength
<1>5. QED
  BY <1>1, <1>3, <1>4 DEF Slots

LEMMA BarsAreTimed ==
    ASSUME TypeOK
    PROVE  /\ \A b \in bars : /\ b[1] \in {"30m", Long} /\ b[2] \in Slots
                              /\ b = <<b[1], b[2]>>
           /\ Instants \subseteq Slots /\ Instants \subseteq Nat
  BY ClosesAreSlots, SlotsAreTimes DEF TypeOK, Grid, Instants

\* The next instant is the first of those to come.
LEMMA NextIs ==
    ASSUME TypeOK, NEW t \in Nat, \E u \in Instants : u > t
    PROVE  /\ NextAfter(t) \in Instants /\ NextAfter(t) > t
           /\ \A u \in Instants : u > t => NextAfter(t) <= u
<1> DEFINE S == {u \in Instants : u > t}
<1>1. S # {} /\ S \subseteq Nat
  BY BarsAreTimed
<1>2. PICK u \in S : \A v \in S : <<v, u>> \notin OpToRel(<, Nat)
  <2> HIDE DEF S
  <2>1. QED
    BY <1>1, NatLessThanWellFounded, WFMin
<1>3. \A v \in S : ~(v < u)
  BY <1>1, <1>2 DEF OpToRel
<1>4. u \in Instants /\ u > t /\ \A v \in Instants : v > t => u <= v
  BY <1>1, <1>3
<1>5. QED
  BY <1>4 DEF NextAfter

-----------------------------------------------------------------------------
(* What the fills and the facts say of any instant *)

\* The last fill by t left the position so.
HeldAt(t) == IF AppliedAt(t) = 1 THEN None ELSE fills[AppliedAt(t) - 1].position

\* What was tracked once t was evaluated
TrackAt(t) ==
    IF t = 0 \/ HeldAt(t) = None THEN None
    ELSE [cycle |-> HeldAt(t).cycle, peak |-> facts[t].position.peak,
          bars |-> facts[t].position.bars]

FillsInOrder ==
    /\ fills \in Seq([at : Instants, position : {None} \cup Position])
    /\ \A i, j \in DOMAIN fills : i < j => fills[i].at <= fills[j].at
    /\ \A i \in DOMAIN fills : fills[i].at <= now

AtNow ==
    /\ now \in {0} \cup Instants
    /\ position = IF fills = <<>> THEN None ELSE fills[Len(fills)].position
    /\ track = TrackAt(now)

\* What the facts of t are, once those of u are known
FactsAfter(u, t) == PositionFacts(HeldAt(t), Tracked(TrackAt(u), HeldAt(t), t), t)

FactsFollow ==
    /\ DOMAIN facts = {t \in Instants : t <= now}
    /\ \A u \in {0} \cup DOMAIN facts : \A t \in DOMAIN facts :
          u < t /\ NextAfter(u) = t => facts[t].position = FactsAfter(u, t)

RebuiltFollows ==
    /\ rebuilt.now \in {0} \cup Instants /\ rebuilt.now <= now
    /\ rebuilt.now # 0 => \A u \in Instants : u <= now
    /\ rebuilt.cursor = AppliedAt(rebuilt.now)
    /\ rebuilt.position = HeldAt(rebuilt.now)
    /\ rebuilt.track = TrackAt(rebuilt.now) /\ rebuilt.track \in {None} \cup Track
    /\ DOMAIN rebuilt.facts = {t \in Instants : t <= rebuilt.now}

\* lastDay is that of the last instant evaluated.
LastDayIsSeen ==
    /\ \A t \in Evaluated : Day(t) <= lastDay
    /\ lastDay = -1 \/ \E t \in Evaluated : Day(t) = lastDay
    /\ \A t \in DOMAIN facts : facts[t].evaluated \in BOOLEAN
    /\ \A t \in DOMAIN facts : facts[t].schedule.newTradingDay \in BOOLEAN

TrackIsOwn ==
    IF position = None THEN track = None
    ELSE track \in Track /\ track.cycle = position.cycle

FactsInv ==
    /\ TypeOK /\ FillsInOrder /\ AtNow /\ FactsFollow /\ RebuiltFollows
    /\ TrackIsOwn /\ LastDayIsSeen /\ PositionsAgree /\ EachDayIsNewOnce

LEMMA FillsAre ==
    ASSUME FillsInOrder
    PROVE  /\ Len(fills) \in Nat /\ DOMAIN fills = 1..Len(fills)
           /\ \A i \in 1..Len(fills) : /\ fills[i].at \in Instants
                                       /\ fills[i].position \in {None} \cup Position
<1>1. fills \in Seq([at : Instants, position : {None} \cup Position])
  BY DEF FillsInOrder
<1>2. Len(fills) \in Nat /\ DOMAIN fills = 1..Len(fills)
  BY <1>1, LenProperties
<1>3. \A i \in 1..Len(fills) : fills[i] \in [at : Instants, position : {None} \cup Position]
  BY <1>1, ElementOfSeq
<1>4. QED
  BY <1>2, <1>3

LEMMA AppliedBounds ==
    ASSUME FillsInOrder, NEW t
    PROVE  AppliedAt(t) \in 1..(Len(fills) + 1)
<1> DEFINE A == {i \in DOMAIN fills : fills[i].at <= t}
<1>1. A \subseteq 1..Len(fills) /\ Len(fills) \in Nat
  BY FillsAre
<1> HIDE DEF A
<1>2. Cardinality(A) \in Nat /\ Cardinality(A) <= Len(fills)
  <2> DEFINE n == Len(fills)
  <2>1. n \in Int /\ n >= 0
    BY <1>1
  <2> HIDE DEF n
  <2>2. IsFiniteSet(1..n) /\ Cardinality(1..n) = n
    BY <2>1, FS_Interval
  <2>3. A \in SUBSET (1..n)
    BY <1>1 DEF n
  <2>4. IsFiniteSet(A) /\ Cardinality(A) <= n
    BY <2>2, <2>3, FS_Subset
  <2>5. QED
    BY <2>4, FS_CardinalityType DEF n
<1>3. QED
  BY <1>1, <1>2 DEF AppliedAt, A

LEMMA AppliedGrows ==
    ASSUME TypeOK, FillsInOrder, NEW u \in Nat, NEW t \in Nat, u <= t
    PROVE  AppliedAt(u) <= AppliedAt(t)
<1> DEFINE n == Len(fills)
           A == {i \in DOMAIN fills : fills[i].at <= u}
           B == {i \in DOMAIN fills : fills[i].at <= t}
<1>1. A \subseteq B /\ B \subseteq 1..n /\ n \in Nat
  BY FillsAre, BarsAreTimed
<1> HIDE DEF n, A, B
<1>2. n \in Int
  BY <1>1
<1>3. IsFiniteSet(1..n)
  BY <1>2, FS_Interval
<1>4. IsFiniteSet(B)
  BY <1>1, <1>3, FS_Subset
<1>5. IsFiniteSet(A) /\ Cardinality(A) <= Cardinality(B)
  BY <1>1, <1>4, FS_Subset
<1>6. Cardinality(A) \in Nat /\ Cardinality(B) \in Nat
  BY <1>4, <1>5, FS_CardinalityType
<1>7. AppliedAt(u) = Cardinality(A) + 1 /\ AppliedAt(t) = Cardinality(B) + 1
  BY DEF AppliedAt, A, B
<1>8. QED
  BY <1>5, <1>6, <1>7

LEMMA HeldIsTyped ==
    ASSUME FillsInOrder, NEW t
    PROVE  HeldAt(t) \in {None} \cup Position
<1>1. AppliedAt(t) # 1 => AppliedAt(t) - 1 \in 1..Len(fills)
  BY AppliedBounds, FillsAre
<1>2. QED
  BY <1>1, FillsAre DEF HeldAt

LEMMA AllApplied ==
    ASSUME FillsInOrder, NEW t \in Nat, \A i \in DOMAIN fills : fills[i].at <= t
    PROVE  /\ AppliedAt(t) = Len(fills) + 1
           /\ HeldAt(t) = IF fills = <<>> THEN None ELSE fills[Len(fills)].position
<1>1. {i \in DOMAIN fills : fills[i].at <= t} = 1..Len(fills)
  BY FillsAre
<1>2. Cardinality(1..Len(fills)) = Len(fills) /\ Len(fills) \in Nat
  <2> DEFINE n == Len(fills)
  <2>1. n \in Int /\ n >= 0
    BY FillsAre
  <2> HIDE DEF n
  <2>2. Cardinality(1..n) = n
    BY <2>1, FS_Interval
  <2>3. QED
    BY <2>1, <2>2 DEF n
<1>3. AppliedAt(t) = Len(fills) + 1
  BY <1>1, <1>2 DEF AppliedAt
<1>4. fills = <<>> <=> Len(fills) = 0
  BY EmptySeq DEF FillsInOrder
<1>5. QED
  BY <1>2, <1>3, <1>4 DEF HeldAt

LEMMA NoneApplied ==
    ASSUME TypeOK, FillsInOrder
    PROVE  AppliedAt(0) = 1 /\ HeldAt(0) = None
<1>1. {i \in DOMAIN fills : fills[i].at <= 0} = {}
  BY FillsAre, BarsAreTimed, SlotsAreTimes
<1>2. AppliedAt(0) = 1
  BY <1>1, FS_EmptySet DEF AppliedAt
<1>3. QED
  BY <1>2 DEF HeldAt

LEMMA LargerIs ==
    ASSUME NEW a \in Prices, NEW b \in Prices
    PROVE  /\ Larger(a, b) \in Prices /\ Larger(a, b) \in {a, b}
           /\ a <= Larger(a, b) /\ b <= Larger(a, b)
  BY ReplayAssumption DEF Larger

SameCycle(old, held) == old # None /\ old.cycle = held.cycle

\* A position's track is its own: its cycle, the larger of what the peak was
\* and the close, and one bar more where one ends.
LEMMA TrackedIs ==
    ASSUME TypeOK, NEW old \in {None} \cup Track, NEW held \in Position, NEW t \in Slots
    PROVE  LET peak == IF SameCycle(old, held) THEN old.peak ELSE held.average
               count(r) == IF SameCycle(old, held) THEN old.bars[r] ELSE 0
           IN  /\ Tracked(old, held, t) =
                     [cycle |-> held.cycle, peak |-> Larger(peak, close[t]),
                      bars |-> [r \in {"30m", Long} |->
                                   count(r) + (IF <<r, t>> \in bars THEN 1 ELSE 0)]]
               /\ peak \in Prices /\ \A r \in {"30m", Long} : count(r) \in Nat
<1> DEFINE kept == IF SameCycle(old, held) THEN old
                   ELSE [cycle |-> held.cycle, peak |-> held.average,
                         bars |-> [r \in {"30m", Long} |-> 0]]
           count(r) == IF SameCycle(old, held) THEN old.bars[r] ELSE 0
<1>1. kept \in Track /\ kept.cycle = held.cycle
  BY DEF Track, Position, SameCycle
<1>2. kept.peak = (IF SameCycle(old, held) THEN old.peak ELSE held.average)
  OBVIOUS
<1>3. \A r \in {"30m", Long} : kept.bars[r] = count(r)
  OBVIOUS
<1>4. held # None
  BY NoneAssumption
<1>5. Tracked(old, held, t) = [kept EXCEPT !.peak = Larger(kept.peak, close[t]),
                                          !.bars = [r \in DOMAIN kept.bars |->
                              IF <<r, t>> \in bars THEN kept.bars[r] + 1 ELSE kept.bars[r]]]
  BY <1>4 DEF Tracked, SameCycle
<1> HIDE DEF kept, count
<1>6. DOMAIN kept.bars = {"30m", Long} /\ \A r \in {"30m", Long} : kept.bars[r] \in Nat
  BY <1>1 DEF Track
<1>7. [r \in DOMAIN kept.bars |-> IF <<r, t>> \in bars THEN kept.bars[r] + 1 ELSE kept.bars[r]]
      = [r \in {"30m", Long} |-> count(r) + (IF <<r, t>> \in bars THEN 1 ELSE 0)]
  BY <1>3, <1>6
<1>8. Tracked(old, held, t) = [cycle |-> held.cycle, peak |-> Larger(kept.peak, close[t]),
             bars |-> [r \in {"30m", Long} |-> count(r) + (IF <<r, t>> \in bars THEN 1 ELSE 0)]]
  BY <1>1, <1>5, <1>7 DEF Track
<1>9. kept.peak \in Prices /\ \A r \in {"30m", Long} : count(r) \in Nat
  BY <1>1, <1>3, <1>6 DEF Track
<1>10. QED
  BY <1>2, <1>8, <1>9 DEF count

LEMMA TrackedIsTyped ==
    ASSUME TypeOK, NEW old \in {None} \cup Track, NEW held \in Position, NEW t \in Slots
    PROVE  Tracked(old, held, t) \in Track /\ Tracked(old, held, t).cycle = held.cycle
<1> DEFINE peak == IF SameCycle(old, held) THEN old.peak ELSE held.average
           count(r) == IF SameCycle(old, held) THEN old.bars[r] ELSE 0
           counts == [r \in {"30m", Long} |->
                         count(r) + (IF <<r, t>> \in bars THEN 1 ELSE 0)]
<1>1. /\ Tracked(old, held, t) =
            [cycle |-> held.cycle, peak |-> Larger(peak, close[t]), bars |-> counts]
      /\ peak \in Prices /\ \A r \in {"30m", Long} : count(r) \in Nat
  BY TrackedIs
<1> HIDE DEF peak, count
<1>2. counts \in [{"30m", Long} -> Nat]
  BY <1>1
<1> HIDE DEF counts
<1>3. Larger(peak, close[t]) \in Prices
  BY <1>1, LargerIs DEF TypeOK
<1>4. QED
  BY <1>1, <1>2, <1>3 DEF Track, Position

LEMMA TrackRecord ==
    ASSUME NEW x \in Track
    PROVE  x = [cycle |-> x.cycle, peak |-> x.peak, bars |-> x.bars]
  BY DEF Track

\* So the facts of an instant tell the track.
LEMMA TrackAtIs ==
    ASSUME TypeOK, FillsInOrder, NEW t \in Slots, NEW old \in {None} \cup Track,
           facts[t].position = PositionFacts(HeldAt(t), Tracked(old, HeldAt(t), t), t)
    PROVE  TrackAt(t) = Tracked(old, HeldAt(t), t)
<1>1. t # 0
  BY SlotsAreTimes
<1>2. CASE HeldAt(t) = None
  BY <1>2 DEF TrackAt, Tracked
<1>3. CASE HeldAt(t) # None
  <2> DEFINE held == HeldAt(t)  tracked == Tracked(old, held, t)
  <2>0. tracked = Tracked(old, held, t)
    OBVIOUS
  <2>1. held \in Position
    BY <1>3, HeldIsTyped
  <2>2. facts[t].position.peak = tracked.peak /\ facts[t].position.bars = tracked.bars
    BY <1>3 DEF PositionFacts
  <2> HIDE DEF held
  <2>3. tracked = [cycle |-> held.cycle, peak |-> tracked.peak, bars |-> tracked.bars]
    <3> HIDE DEF tracked
    <3>1. tracked \in Track /\ tracked.cycle = held.cycle
      BY <2>1, <2>0, TrackedIsTyped
    <3>2. QED
      BY <3>1, TrackRecord
  <2>4. QED
    BY <1>1, <1>3, <2>2, <2>3 DEF TrackAt, held
<1>4. QED
  BY <1>2, <1>3

-----------------------------------------------------------------------------
(* The loop *)

Coming == NextAfter(now)

\* What an instant adds to what was.
LEMMA InstantIs ==
    ASSUME TypeOK, FillsInOrder, AtNow, FactsFollow, Instant
    PROVE  /\ now' = Coming /\ Coming \in Instants /\ Coming \in Slots /\ now < Coming
           /\ now \in Nat
           /\ \A u \in Instants : u > now => Coming <= u
           /\ Coming \notin DOMAIN facts /\ DOMAIN facts' = DOMAIN facts \cup {Coming}
           /\ \A u \in DOMAIN facts : facts'[u] = facts[u]
           /\ facts'[Coming] = [position |-> PositionFacts(position', track', Coming),
                                schedule |-> ScheduleFacts(Coming, lastDay),
                                evaluated |-> Allowed(Coming)]
           /\ Instants' = Instants
<1>1. now \in Nat /\ \E u \in Instants : u > now
  BY BarsAreTimed DEF Instant, AtNow
<1>2. /\ Coming \in Instants /\ Coming > now
      /\ \A u \in Instants : u > now => Coming <= u
  BY <1>1, NextIs DEF Coming
<1>3. Coming \in Nat /\ Coming \in Slots
  BY <1>2, BarsAreTimed
<1>4. Coming \notin DOMAIN facts
  BY <1>1, <1>2, <1>3 DEF FactsFollow
<1>5. /\ now' = Coming
      /\ facts' = [u \in DOMAIN facts \cup {Coming} |->
                 IF u \in DOMAIN facts THEN facts[u]
                 ELSE [position |-> PositionFacts(position', track', Coming),
                       schedule |-> ScheduleFacts(Coming, lastDay),
                       evaluated |-> Allowed(Coming)]]
  BY DEF Instant, Coming
<1>6. Instants' = Instants
  BY DEF Instant, Instants
<1> HIDE DEF Coming
<1>7. QED
  BY <1>1, <1>2, <1>3, <1>4, <1>5, <1>6

StoredFills == [at : Instants, position : {None} \cup Position]

\* What may become of what is held: a position only opens where there is none,
\* and one that stays keeps its opening instant.
Became(held, p) ==
    IF held = None THEN p \in Position
    ELSE p = None \/ (p \in Position /\ p.cycle = held.cycle)

LEMMA AfterIs ==
    ASSUME TypeOK, NEW b \in bars, NEW held \in {None} \cup Position, NEW p \in After(b, held)
    PROVE  /\ p \in {None} \cup Position /\ Became(held, p)
           /\ position = None => p # None
<1>1. StartOf(b) \in 0..Horizon
  <2>1. b[1] \in {"30m", Long} /\ b[2] \in Slots
    BY BarsAreTimed
  <2>2. b[2] - 1 \in 0..Horizon /\ b[2] \in 1..Horizon /\ b[2] \in Nat
    BY <2>1, SlotsAreTimes
  <2>3. Opens(Day(b[2])) \in Nat /\ Opens(Day(b[2])) <= b[2]
    BY <2>2, DayIs, Lengths
  <2>4. Opens(Day(b[2])) \in 0..Horizon
    BY <2>2, <2>3, Lengths
  <2>5. QED
    BY <2>2, <2>4 DEF StartOf
<1>2. CASE held = None
  <2>1. PICK a \in Prices : p = [average |-> a, cycle |-> StartOf(b)]
    BY <1>2 DEF After
  <2>2. p \in Position
    BY <1>1, <2>1 DEF Position
  <2>3. QED
    BY <1>2, <2>2, NoneAssumption DEF Became
<1>3. CASE held # None
  <2>1. held \in Position
    BY <1>3
  <2>2. (p = None /\ position # None) \/ \E a \in Prices : p = [held EXCEPT !.average = a]
    BY <1>3 DEF After
  <2>3. (p = None /\ position # None) \/ (p \in Position /\ p.cycle = held.cycle)
    BY <2>1, <2>2 DEF Position
  <2>4. QED
    BY <1>3, <2>3, NoneAssumption DEF Became
<1>4. QED
  BY <1>2, <1>3

\* A bar fills nothing, or leaves one fill.
LEMMA FillsOfIs ==
    ASSUME TypeOK, NEW r, NEW t \in Instants, NEW held \in {None} \cup Position,
           NEW made \in FillsOf(<<r, t>>, held)
    PROVE  /\ made \in Seq(StoredFills)
           /\ \/ made = <<>> /\ Len(made) = 0 /\ LeftBy(held, made) = held
              \/ /\ made # <<>> /\ Len(made) = 1 /\ made[1].at = t
                 /\ made[1].position = LeftBy(held, made)
                 /\ Became(held, LeftBy(held, made))
                 /\ position = None => LeftBy(held, made) # None
           /\ LeftBy(held, made) \in {None} \cup Position
<1>1. CASE made = <<>>
  BY <1>1, EmptySeq DEF LeftBy
<1>2. CASE made # <<>>
  <2>1. <<r, t>> \in bars /\ \E p \in After(<<r, t>>, held) : made = <<[at |-> t, position |-> p]>>
    BY <1>2 DEF FillsOf, Ending
  <2>2. PICK p \in After(<<r, t>>, held) : made = <<[at |-> t, position |-> p]>>
    BY <2>1
  <2>3. /\ p \in {None} \cup Position /\ Became(held, p)
        /\ position = None => p # None
    BY <2>1, AfterIs
  <2>4. [at |-> t, position |-> p] \in StoredFills
    BY <2>3 DEF StoredFills
  <2>5. /\ made \in Seq(StoredFills) /\ Len(made) = 1 /\ made[1].at = t
        /\ made[1].position = p
    BY <2>2, <2>4
  <2>6. LeftBy(held, made) = p
    BY <1>2, <2>5 DEF LeftBy
  <2>7. QED
    BY <1>2, <2>3, <2>5, <2>6
<1>3. QED
  BY <1>1, <1>2

\* None, one or both of the bars that end fill: how the fills go on, and what
\* becomes of the position.
LEMMA FillIs ==
    ASSUME TypeOK, FillsInOrder, AtNow, FactsFollow, Instant
    PROVE  /\ fills' \in Seq(StoredFills) /\ position' \in {None} \cup Position
           /\ Len(fills) \in Nat /\ DOMAIN fills = 1..Len(fills)
           /\ Len(fills') \in Nat /\ DOMAIN fills' = 1..Len(fills')
           /\ \A i \in 1..Len(fills) : fills'[i] = fills[i]
           /\ \A i \in (Len(fills) + 1)..Len(fills') : fills'[i].at = Coming
           /\ \/ Len(fills') = Len(fills) /\ position' = position
              \/ /\ Len(fills') = Len(fills) + 1
                 /\ fills'[Len(fills) + 1].position = position'
                 /\ Became(position, position')
              \/ /\ Len(fills') = Len(fills) + 2
                 /\ fills'[Len(fills) + 2].position = position'
                 /\ Became(position, fills'[Len(fills) + 1].position)
                 /\ Became(fills'[Len(fills) + 1].position, position')
                 /\ position = None => position' # None
<1>1. PICK t : t = Coming
  OBVIOUS
<1>2. PICK n : n = Len(fills)
  OBVIOUS
<1>3. t \in Instants
  BY <1>1, InstantIs
<1>4. /\ fills \in Seq(StoredFills) /\ n \in Nat /\ DOMAIN fills = 1..n
      /\ position \in {None} \cup Position
  BY <1>2, LenProperties DEF TypeOK, FillsInOrder, StoredFills
<1>5. Fill(t)
  BY <1>1 DEF Instant, Coming
<1>6. PICK first \in FillsOf(<<"30m", t>>, position) :
         \E second \in FillsOf(<<Long, t>>, LeftBy(position, first)) :
            /\ fills' = fills \o first \o second
            /\ position' = LeftBy(LeftBy(position, first), second)
  BY <1>5 DEF Fill
<1>7. PICK p : p = LeftBy(position, first)
  OBVIOUS
<1>8. PICK second \in FillsOf(<<Long, t>>, p) :
            fills' = fills \o first \o second /\ position' = LeftBy(p, second)
  BY <1>6, <1>7
<1>9. /\ first \in Seq(StoredFills) /\ p \in {None} \cup Position
      /\ \/ Len(first) = 0 /\ p = position
         \/ /\ Len(first) = 1 /\ first[1].at = t /\ first[1].position = p
            /\ Became(position, p)
            /\ position = None => p # None
  BY <1>3, <1>4, <1>7, FillsOfIs
<1>10. /\ second \in Seq(StoredFills) /\ position' \in {None} \cup Position
       /\ \/ Len(second) = 0 /\ position' = p
          \/ /\ Len(second) = 1 /\ second[1].at = t /\ second[1].position = position'
             /\ Became(p, position')
             /\ position = None => position' # None
  BY <1>3, <1>8, <1>9, FillsOfIs
<1>11. /\ fills \o first \in Seq(StoredFills) /\ Len(fills \o first) = n + Len(first)
       /\ \A i \in 1..(n + Len(first)) : (fills \o first)[i] =
                     IF i <= n THEN fills[i] ELSE first[i - n]
  BY <1>2, <1>4, <1>9, ConcatProperties
<1>12. PICK l : l = n + Len(first)
  OBVIOUS
<1>13. PICK both : both = fills \o first
  OBVIOUS
<1>14. /\ fills' \in Seq(StoredFills) /\ Len(fills') = l + Len(second)
       /\ \A i \in 1..(l + Len(second)) : fills'[i] =
                     IF i <= l THEN both[i] ELSE second[i - l]
  <2>1. both \in Seq(StoredFills) /\ Len(both) = l /\ fills' = both \o second
    BY <1>8, <1>11, <1>12, <1>13
  <2>2. QED
    BY <1>10, <2>1, ConcatProperties
<1>15. Len(fills') \in Nat /\ DOMAIN fills' = 1..Len(fills')
  BY <1>14, LenProperties
<1>16. \A i \in 1..n : fills'[i] = fills[i]
  <2>1. \A i \in 1..n : i \in 1..(n + Len(first)) /\ i \in 1..(l + Len(second)) /\ i <= l
    BY <1>4, <1>9, <1>10, <1>12
  <2>2. QED
    BY <1>4, <1>11, <1>13, <1>14, <2>1
<1>17. CASE Len(first) = 0
  <2>1. l = n /\ p = position
    BY <1>4, <1>9, <1>12, <1>17
  <2>2. Len(second) = 1 => fills'[n + 1] = second[1]
    BY <1>4, <1>14, <2>1
  <2>3. Len(second) \in {0, 1}
    BY <1>10
  <2>4. \A i \in (n + 1)..Len(fills') : fills'[i].at = t
    <3>1. \A i \in (n + 1)..Len(fills') : i = n + 1 /\ Len(second) = 1
      BY <1>4, <1>14, <2>1, <2>3
    <3>2. QED
      BY <1>10, <2>2, <3>1
  <2>5. \/ Len(fills') = n /\ position' = position
        \/ /\ Len(fills') = n + 1 /\ fills'[n + 1].position = position'
           /\ Became(position, position')
    BY <1>4, <1>10, <1>14, <2>1, <2>2
  <2>6. QED
    BY <1>1, <1>2, <1>4, <1>10, <1>14, <1>15, <1>16, <2>4, <2>5
<1>18. CASE Len(first) = 1
  <2>1. /\ l = n + 1 /\ first[1].at = t /\ first[1].position = p
        /\ Became(position, p)
        /\ position = None => p # None
    BY <1>9, <1>12, <1>18
  <2>2. both[n + 1] = first[1]
    BY <1>4, <1>11, <1>13, <1>18
  <2>3. fills'[n + 1] = first[1]
    BY <1>4, <1>10, <1>14, <2>1, <2>2
  <2>4. Len(second) = 1 => fills'[n + 2] = second[1]
    BY <1>4, <1>14, <2>1
  <2>5. Len(second) \in {0, 1}
    BY <1>10
  <2>6. \A i \in (n + 1)..Len(fills') : fills'[i].at = t
    <3>1. \A i \in (n + 1)..Len(fills') : i = n + 1 \/ (i = n + 2 /\ Len(second) = 1)
      BY <1>4, <1>14, <2>1, <2>5
    <3>2. QED
      BY <1>10, <2>1, <2>3, <2>4, <3>1
  <2>7. CASE Len(second) = 0
    <3>1. Len(fills') = n + 1 /\ position' = p
      BY <1>4, <1>10, <1>14, <2>1, <2>7
    <3>2. QED
      BY <1>1, <1>2, <1>4, <1>10, <1>14, <1>15, <1>16, <2>1, <2>3, <2>6, <3>1
  <2>8. CASE Len(second) = 1
    <3>1. Len(fills') = n + 2 /\ fills'[n + 2].position = position'
      BY <1>4, <1>10, <1>14, <2>1, <2>4, <2>8
    <3>2. Became(p, position') /\ (position = None => position' # None)
      BY <1>10, <2>8
    <3>3. QED
      BY <1>1, <1>2, <1>4, <1>10, <1>14, <1>15, <1>16, <2>1, <2>3, <2>6, <3>1, <3>2
  <2>9. QED
    BY <2>5, <2>7, <2>8
<1>19. QED
  BY <1>9, <1>17, <1>18

LEMMA PositionIsTyped ==
    ASSUME TypeOK, FillsInOrder, AtNow, FactsFollow, Instant
    PROVE  position' \in {None} \cup Position
  BY FillIs

LEMMA FillsStayInOrder ==
    ASSUME TypeOK, FillsInOrder, AtNow, FactsFollow, Instant
    PROVE  /\ FillsInOrder'
           /\ position' = IF fills' = <<>> THEN None ELSE fills'[Len(fills')].position
           /\ \A i \in DOMAIN fills : i \in DOMAIN fills' /\ fills'[i] = fills[i]
           /\ \A i \in DOMAIN fills' \ DOMAIN fills : fills'[i].at = Coming
<1>1. PICK n : n = Len(fills)
  OBVIOUS
<1>2. PICK m : m = Len(fills')
  OBVIOUS
<1>3. PICK t : t = Coming
  OBVIOUS
<1>4. /\ n \in Nat /\ m \in Nat /\ n <= m
      /\ DOMAIN fills = 1..n /\ DOMAIN fills' = 1..m
      /\ \A i \in 1..n : fills'[i] = fills[i]
      /\ \A i \in (n + 1)..m : fills'[i].at = t
      /\ fills' \in Seq(StoredFills)
  BY <1>1, <1>2, <1>3, FillIs
<1>5. (m = n /\ position' = position) \/ (m # 0 /\ m # n /\ fills'[m].position = position')
  BY <1>1, <1>2, FillIs
<1>6. now' = t /\ now < t /\ t \in Nat /\ now \in Nat /\ Instants' = Instants
  BY <1>3, InstantIs, SlotsAreTimes
<1>7. \A i \in 1..n : fills[i].at \in Nat /\ fills[i].at <= now
  BY <1>1, <1>4, FillsAre, BarsAreTimed DEF FillsInOrder
<1>8. \A i \in 1..m : fills'[i].at <= t /\ (i \notin 1..n => fills'[i].at = t)
  BY <1>4, <1>6, <1>7
<1>9. \A i, j \in 1..m : i < j => fills'[i].at <= fills'[j].at
  <2>1. SUFFICES ASSUME NEW i \in 1..m, NEW j \in 1..m, i < j
                 PROVE  fills'[i].at <= fills'[j].at
    OBVIOUS
  <2>2. CASE j \in 1..n
    <3>1. i \in 1..n
      BY <1>4, <2>1, <2>2
    <3>2. fills[i].at <= fills[j].at
      BY <1>4, <2>1, <2>2, <3>1 DEF FillsInOrder
    <3>3. QED
      BY <1>4, <2>2, <3>1, <3>2
  <2>3. CASE j \notin 1..n
    BY <1>8, <2>3
  <2>4. QED
    BY <2>2, <2>3
<1>10. FillsInOrder'
  BY <1>4, <1>6, <1>8, <1>9 DEF FillsInOrder, StoredFills
<1>11. position' = IF fills' = <<>> THEN None ELSE fills'[Len(fills')].position
  <2>1. (fills' = <<>> <=> m = 0) /\ (fills = <<>> <=> n = 0)
    BY <1>1, <1>2, <1>4, EmptySeq DEF FillsInOrder
  <2>2. CASE m = n /\ position' = position
    <3>1. position = IF fills = <<>> THEN None ELSE fills[n].position
      BY <1>1 DEF AtNow
    <3>2. n # 0 => fills'[n] = fills[n]
      BY <1>4
    <3>3. QED
      BY <1>2, <2>1, <2>2, <3>1, <3>2
  <2>3. CASE m # 0 /\ m # n /\ fills'[m].position = position'
    BY <1>2, <2>1, <2>3
  <2>4. QED
    BY <1>5, <2>2, <2>3
<1>12. /\ \A i \in DOMAIN fills : i \in DOMAIN fills' /\ fills'[i] = fills[i]
       /\ \A i \in DOMAIN fills' \ DOMAIN fills : fills'[i].at = t
  BY <1>4, <1>8
<1>13. QED
  BY <1>3, <1>10, <1>11, <1>12

\* What was held at an instant that has passed was held then.
LEMMA PastIsKept ==
    ASSUME TypeOK, FillsInOrder, AtNow, FactsFollow, Instant,
           NEW u \in Nat, u <= now
    PROVE  AppliedAt(u)' = AppliedAt(u) /\ HeldAt(u)' = HeldAt(u)
<1>1. \A i \in DOMAIN fills' \ DOMAIN fills : ~(fills'[i].at <= u)
  BY FillsStayInOrder, InstantIs, SlotsAreTimes
<1>2. {i \in DOMAIN fills' : fills'[i].at <= u} = {i \in DOMAIN fills : fills[i].at <= u}
  BY <1>1, FillsStayInOrder
<1>3. AppliedAt(u)' = AppliedAt(u)
  BY <1>2 DEF AppliedAt
<1>4. AppliedAt(u) # 1 => AppliedAt(u) - 1 \in DOMAIN fills
  BY AppliedBounds, FillsAre
<1>5. QED
  BY <1>3, <1>4, FillsStayInOrder DEF HeldAt

LEMMA NowIsHeld ==
    ASSUME TypeOK, FillsInOrder, AtNow, FactsFollow, Instant,
           NEW t \in Nat, t = Coming
    PROVE  HeldAt(t)' = position' /\ AppliedAt(t)' = Len(fills') + 1
<1>1. t \in Nat /\ now' = t
  BY InstantIs, SlotsAreTimes
<1>2. FillsInOrder'
  BY FillsStayInOrder
<1>3. DOMAIN fills' = 1..Len(fills') /\ Len(fills') \in Nat
  BY <1>2, LenProperties DEF FillsInOrder
<1>4. {i \in DOMAIN fills' : fills'[i].at <= t} = 1..Len(fills')
  BY <1>1, <1>2, <1>3 DEF FillsInOrder
<1> DEFINE n == Len(fills')
<1>5. Cardinality(1..n) = n
  <2>1. n \in Int /\ n >= 0
    BY <1>3
  <2> HIDE DEF n
  <2>2. QED
    BY <2>1, FS_Interval
<1>6. AppliedAt(t)' = Len(fills') + 1
  BY <1>4, <1>5 DEF AppliedAt
<1>7. fills' = <<>> <=> Len(fills') = 0
  BY <1>2, EmptySeq DEF FillsInOrder
<1>8. position' = IF fills' = <<>> THEN None ELSE fills'[Len(fills')].position
  BY FillsStayInOrder
<1>9. QED
  BY <1>3, <1>6, <1>7, <1>8 DEF HeldAt

LEMMA TrackIsTyped ==
    ASSUME TypeOK, TrackIsOwn
    PROVE  track \in {None} \cup Track
  BY DEF TrackIsOwn

LEMMA TrackStaysOwn ==
    ASSUME TypeOK, FillsInOrder, AtNow, FactsFollow, TrackIsOwn, Instant
    PROVE  /\ TrackIsOwn' /\ track' \in {None} \cup Track
           /\ track' = Tracked(track, position', Coming)
<1>1. track' = Tracked(track, position', Coming)
  BY DEF Instant, Coming
<1>2. CASE position' = None
  BY <1>1, <1>2 DEF Tracked, TrackIsOwn
<1>3. CASE position' # None
  <2>1. position' \in Position /\ Coming \in Slots
    BY <1>3, PositionIsTyped, InstantIs
  <2>2. track \in {None} \cup Track
    BY TrackIsTyped
  <2> HIDE DEF Coming
  <2>3. track' \in Track /\ track'.cycle = position'.cycle
    BY <1>1, <2>1, <2>2, TrackedIsTyped
  <2>4. QED
    BY <1>1, <1>3, <2>3 DEF TrackIsOwn
<1>4. QED
  BY <1>2, <1>3

LEMMA TypeStays ==
    ASSUME TypeOK, FillsInOrder, AtNow, FactsFollow, RebuiltFollows, TrackIsOwn,
           Instant
    PROVE  TypeOK'
<1>1. /\ Coming \in Slots /\ now' = Coming /\ Coming \in 0..Horizon /\ Day(Coming) \in Days
      /\ Coming \in Nat /\ Instants' = Instants
  BY InstantIs, SlotsAreTimes
<1>2. close' = close /\ bars' = bars /\ rebuilt' = rebuilt
  BY DEF Instant
<1>3. lastDay' \in {lastDay, Day(Coming)}
  BY DEF Instant, Seen, Coming
<1>4. \A i \in DOMAIN fills' : fills'[i].at \in Slots /\ fills'[i].at <= now'
  <2>1. FillsInOrder'
    BY FillsStayInOrder
  <2>2. fills' \in Seq([at : Instants, position : {None} \cup Position])
    BY <1>1, <2>1 DEF FillsInOrder
  <2>3. \A i \in DOMAIN fills' : fills'[i] \in [at : Instants, position : {None} \cup Position]
    BY <2>2, LenProperties, ElementOfSeq
  <2>4. QED
    BY <2>1, <2>3, BarsAreTimed DEF FillsInOrder
<1>5. DOMAIN facts' \subseteq 1..now'
  BY <1>1, InstantIs, SlotsAreTimes, BarsAreTimed DEF TypeOK
<1>6. track' = None \/ (track' \in Track /\ position' # None)
  BY TrackStaysOwn DEF TrackIsOwn
<1>7. position' \in {None} \cup Position
  BY PositionIsTyped
<1> HIDE DEF Coming
<1>8. QED
  BY <1>1, <1>2, <1>3, <1>4, <1>5, <1>6, <1>7 DEF TypeOK

\* What was tracked at an instant that has passed
LEMMA PastTrackIsKept ==
    ASSUME TypeOK, FillsInOrder, AtNow, FactsFollow, Instant,
           NEW u \in {0} \cup DOMAIN facts
    PROVE  TrackAt(u)' = TrackAt(u) /\ HeldAt(u)' = HeldAt(u)
<1>1. u \in Nat /\ u <= now
  BY BarsAreTimed, InstantIs DEF FactsFollow
<1>2. HeldAt(u)' = HeldAt(u)
  BY <1>1, PastIsKept
<1>3. u # 0 => facts'[u] = facts[u]
  BY InstantIs
<1>4. QED
  BY <1>2, <1>3 DEF TrackAt

LEMMA FactsStillFollow ==
    ASSUME TypeOK, FillsInOrder, AtNow, FactsFollow, RebuiltFollows, TrackIsOwn,
           Instant
    PROVE  FactsFollow' /\ AtNow'
<1>0. /\ now' = Coming /\ Coming \in Instants /\ Coming \in Slots /\ now < Coming /\ now \in Nat
      /\ Coming \in Nat /\ Instants' = Instants /\ bars' = bars /\ close' = close
      /\ Coming \notin DOMAIN facts /\ DOMAIN facts' = DOMAIN facts \cup {Coming}
      /\ \A u \in Instants : u > now => Coming <= u
  BY InstantIs, SlotsAreTimes DEF Instant
<1>1. PICK t : t = Coming
  OBVIOUS
<1> HIDE DEF Coming
<1>2. t \in Nat /\ t \in Slots /\ t \in Instants /\ HeldAt(t)' = position'
  BY <1>0, <1>1, NowIsHeld
<1>3. facts'[t].position = PositionFacts(position', track', t)
  BY <1>1, InstantIs
<1>4. track' = Tracked(track, position', t) /\ track \in {None} \cup Track
  BY <1>1, TrackStaysOwn, TrackIsTyped
<1>5. DOMAIN facts' = {u \in Instants' : u <= now'}
  BY <1>0, BarsAreTimed DEF FactsFollow
<1>6. ASSUME NEW u \in {0} \cup DOMAIN facts
      PROVE  TrackAt(u)' = TrackAt(u) /\ HeldAt(u)' = HeldAt(u) /\ u \in Nat /\ u <= now
  BY <1>0, PastTrackIsKept, BarsAreTimed DEF FactsFollow
<1>7. ASSUME NEW u \in {0} \cup DOMAIN facts, u < t, NextAfter(u) = t
      PROVE  facts'[t].position = FactsAfter(u, t)'
  <2>1. u = now
    <3>1. now = 0 \/ now \in Instants
      BY DEF AtNow
    <3>2. u \in Nat /\ u <= now
      BY <1>6
    <3>3. u < now => NextAfter(u) <= now
      BY <1>0, <3>1, <3>2, NextIs
    <3>4. QED
      BY <1>0, <1>1, <1>7, <3>2, <3>3
  <2>2. TrackAt(u)' = track
    BY <1>6, <2>1 DEF AtNow
  <2>3. FactsAfter(u, t)' = PositionFacts(position', Tracked(track, position', t), t)
    BY <1>0, <1>2, <2>2 DEF FactsAfter, PositionFacts, Tracked
  <2>4. QED
    BY <1>3, <1>4, <2>3
<1>8. ASSUME NEW u \in {0} \cup DOMAIN facts, NEW v \in DOMAIN facts, u < v, NextAfter(u) = v
      PROVE  facts'[v].position = FactsAfter(u, v)'
  <2>1. TrackAt(u)' = TrackAt(u) /\ HeldAt(v)' = HeldAt(v)
    BY <1>6
  <2>2. FactsAfter(u, v)' = FactsAfter(u, v)
    BY <1>0, <2>1 DEF FactsAfter, PositionFacts, Tracked
  <2>3. facts[v].position = FactsAfter(u, v)
    BY <1>8 DEF FactsFollow
  <2>4. QED
    BY <2>2, <2>3, InstantIs
<1>9. FactsFollow'
  <2>1. \A u : NextAfter(u)' = NextAfter(u)
    BY <1>0 DEF NextAfter
  <2>2. SUFFICES ASSUME NEW u \in {0} \cup DOMAIN facts', NEW v \in DOMAIN facts', u < v,
                        NextAfter(u) = v
                 PROVE  facts'[v].position = FactsAfter(u, v)'
    BY <1>5, <2>1 DEF FactsFollow
  <2>3. v = t \/ v \in DOMAIN facts
    BY <1>0, <1>1
  <2>4. u # t
    <3>1. v <= t /\ v \in Nat
      <4>1. v \in DOMAIN facts => v \in Nat /\ v <= now
        BY <1>6
      <4>2. QED
        BY <1>0, <1>1, <1>2, <2>3, <4>1
    <3>2. QED
      BY <1>2, <2>2, <3>1
  <2>5. u \in {0} \cup DOMAIN facts
    BY <1>0, <1>1, <2>4
  <2>6. QED
    BY <1>7, <1>8, <2>2, <2>3, <2>5
<1>10. track' = TrackAt(t)'
  <2>1. CASE position' = None
    BY <1>2, <1>4, <2>1 DEF TrackAt, Tracked
  <2>2. CASE position' # None
    <3>1. position' \in Position
      BY <2>2, PositionIsTyped
    <3>2. track' = [cycle |-> position'.cycle, peak |-> track'.peak, bars |-> track'.bars]
      BY <1>2, <1>4, <3>1, TrackedIsTyped, TrackRecord
    <3>3. facts'[t].position.peak = track'.peak /\ facts'[t].position.bars = track'.bars
      BY <1>3, <2>2 DEF PositionFacts
    <3>4. t # 0
      BY <1>2, SlotsAreTimes
    <3>5. QED
      BY <1>2, <2>2, <3>2, <3>3, <3>4 DEF TrackAt
  <2>3. QED
    BY <2>1, <2>2
<1>11. AtNow'
  <2>1. TrackAt(now)' = TrackAt(t)'
    BY <1>0, <1>1 DEF TrackAt, HeldAt, AppliedAt
  <2>2. position' = IF fills' = <<>> THEN None ELSE fills'[Len(fills')].position
    BY FillsStayInOrder
  <2>3. QED
    BY <1>0, <1>10, <2>1, <2>2 DEF AtNow
<1>12. QED
  BY <1>9, <1>11

\* Nothing is rebuilt before the replay is over.
LEMMA RebuiltStillFollows ==
    ASSUME TypeOK, FillsInOrder, AtNow, FactsFollow, RebuiltFollows,
           PositionsAgree, Instant
    PROVE  RebuiltFollows' /\ PositionsAgree'
<1>1. rebuilt' = rebuilt /\ Instants' = Instants /\ now < now' /\ now \in Nat /\ now' \in Nat
      /\ \E u \in Instants : u > now
  BY InstantIs, SlotsAreTimes DEF Instant
<1>2. rebuilt.now = 0 /\ DOMAIN rebuilt.facts = {}
  <2>1. rebuilt.now = 0
    BY <1>1, BarsAreTimed DEF RebuiltFollows
  <2>2. \A u \in Instants : u \in Nat /\ u # 0
    BY BarsAreTimed, SlotsAreTimes
  <2>3. \A u \in Instants : ~(u <= 0)
    BY <2>2
  <2>4. QED
    BY <2>1, <2>3 DEF RebuiltFollows
<1>3. AppliedAt(0)' = AppliedAt(0) /\ HeldAt(0)' = HeldAt(0) /\ TrackAt(0)' = TrackAt(0)
  <2>1. 0 \in Nat /\ 0 <= now
    BY <1>1
  <2>2. QED
    BY <2>1, PastIsKept DEF TrackAt
<1>4. PositionsAgree'
  BY <1>1, <1>2 DEF PositionsAgree
<1>5. RebuiltFollows'
  <2>1. /\ rebuilt.now \in {0} \cup Instants /\ rebuilt.now <= now
        /\ rebuilt.cursor = AppliedAt(0) /\ rebuilt.position = HeldAt(0)
        /\ rebuilt.track = TrackAt(0) /\ rebuilt.track \in {None} \cup Track
        /\ DOMAIN rebuilt.facts = {t \in Instants : t <= rebuilt.now}
    BY <1>2 DEF RebuiltFollows
  <2>2. rebuilt.now <= now'
    BY <1>1, <1>2
  <2>3. /\ AppliedAt(rebuilt.now)' = AppliedAt(0)' /\ HeldAt(rebuilt.now)' = HeldAt(0)'
        /\ TrackAt(rebuilt.now)' = TrackAt(0)'
    BY <1>1, <1>2 DEF TrackAt, HeldAt, AppliedAt
  <2>4. QED
    BY <1>1, <1>2, <1>3, <2>1, <2>2, <2>3 DEF RebuiltFollows
<1>6. QED
  BY <1>4, <1>5

-----------------------------------------------------------------------------
(* build_trigger_contexts *)

LEMMA RebuildFollows ==
    ASSUME TypeOK, FillsInOrder, AtNow, FactsFollow, RebuiltFollows,
           PositionsAgree, Rebuild
    PROVE  TypeOK' /\ RebuiltFollows' /\ PositionsAgree'
<1>1. PICK from : from = rebuilt.now
  OBVIOUS
<1>2. PICK t : t = NextAfter(from)
  OBVIOUS
<1>3. from \in {0} \cup Instants /\ from \in Nat /\ \E u \in Instants : u > from
  BY <1>1, BarsAreTimed DEF RebuiltFollows, Rebuild
<1>4. /\ t \in Instants /\ t > from /\ \A u \in Instants : u > from => t <= u
      /\ t \in Slots /\ t \in Nat /\ t \in 0..Horizon /\ t <= now /\ t # 0
  <2>1. t \in Instants /\ t > from /\ \A u \in Instants : u > from => t <= u
    BY <1>2, <1>3, NextIs
  <2>2. QED
    BY <2>1, BarsAreTimed, SlotsAreTimes, <1>3 DEF Rebuild
<1> DEFINE held == IF AppliedAt(t) = rebuilt.cursor THEN rebuilt.position
                   ELSE fills[AppliedAt(t) - 1].position
           tracked == Tracked(rebuilt.track, held, t)
<1>5. /\ UNCHANGED <<close, bars, now, position, track, lastDay, fills, facts>>
      /\ rebuilt' = [now |-> t, position |-> held, track |-> tracked,
              lastDay |-> Day(t), cursor |-> AppliedAt(t),
              facts |-> [u \in DOMAIN rebuilt.facts \cup {t} |->
                 IF u \in DOMAIN rebuilt.facts THEN rebuilt.facts[u]
                 ELSE [position |-> PositionFacts(held, tracked, t),
                       schedule |-> ScheduleFacts(t, rebuilt.lastDay)]]]
  BY <1>1, <1>2 DEF Rebuild
<1>6. held = HeldAt(t)
  <2>1. AppliedAt(t) \in Nat /\ rebuilt.cursor \in Nat /\ rebuilt.cursor >= 1
    BY AppliedBounds, FillsAre DEF RebuiltFollows
  <2>2. CASE AppliedAt(t) = rebuilt.cursor
    BY <2>2 DEF HeldAt, RebuiltFollows
  <2>3. CASE AppliedAt(t) # rebuilt.cursor
    <3>1. AppliedAt(t) # 1
      <4>1. AppliedAt(from) <= AppliedAt(t) /\ rebuilt.cursor = AppliedAt(from)
        BY <1>1, <1>3, <1>4, AppliedGrows DEF RebuiltFollows
      <4>2. QED
        BY <2>1, <2>3, <4>1
    <3>2. QED
      BY <2>3, <3>1 DEF HeldAt
  <2>4. QED
    BY <2>2, <2>3
<1> HIDE DEF held
<1>7. rebuilt.track = TrackAt(from) /\ rebuilt.track \in {None} \cup Track
  BY <1>1 DEF RebuiltFollows
<1>8. facts[t].position = PositionFacts(held, tracked, t)
  <2>1. t \in DOMAIN facts /\ from \in {0} \cup DOMAIN facts
    BY <1>1, <1>3, <1>4 DEF FactsFollow, RebuiltFollows
  <2>2. facts[t].position = FactsAfter(from, t)
    BY <1>2, <1>4, <2>1 DEF FactsFollow
  <2>3. QED
    BY <2>2, <1>6, <1>7 DEF FactsAfter
<1>9. tracked = TrackAt(t) /\ tracked \in {None} \cup Track
  <2>1. tracked = TrackAt(t)
    BY <1>4, <1>6, <1>7, <1>8, TrackAtIs
  <2>2. tracked \in {None} \cup Track
    <3>1. held \in {None} \cup Position
      BY <1>6, HeldIsTyped
    <3>2. CASE held = None
      BY <3>2 DEF Tracked
    <3>3. CASE held # None
      BY <1>4, <1>7, <3>1, <3>3, TrackedIsTyped
    <3>4. QED
      BY <3>2, <3>3
  <2>3. QED
    BY <2>1, <2>2
<1> HIDE DEF tracked
<1>10. /\ rebuilt'.now = t /\ rebuilt'.position = held /\ rebuilt'.track = tracked
       /\ rebuilt'.cursor = AppliedAt(t)
       /\ DOMAIN rebuilt'.facts = DOMAIN rebuilt.facts \cup {t}
       /\ \A u \in DOMAIN rebuilt.facts : rebuilt'.facts[u] = rebuilt.facts[u]
       /\ t \notin DOMAIN rebuilt.facts
       /\ rebuilt'.facts[t].position = PositionFacts(held, tracked, t)
  <2>1. t \notin DOMAIN rebuilt.facts
    BY <1>1, <1>3, <1>4 DEF RebuiltFollows
  <2>2. QED
    BY <1>5, <2>1
<1>11. TypeOK'
  BY <1>4, <1>5, <1>10 DEF TypeOK
<1>12. \A u : HeldAt(u)' = HeldAt(u) /\ TrackAt(u)' = TrackAt(u) /\ AppliedAt(u)' = AppliedAt(u)
  BY <1>5 DEF TrackAt, HeldAt, AppliedAt
<1>13. RebuiltFollows'
  <2>1. /\ AppliedAt(rebuilt.now)' = AppliedAt(t) /\ HeldAt(rebuilt.now)' = HeldAt(t)
        /\ TrackAt(rebuilt.now)' = TrackAt(t)
    BY <1>5, <1>10 DEF TrackAt, HeldAt, AppliedAt
  <2>2. Instants' = Instants /\ now' = now
    BY <1>5 DEF Instants
  <2>3. DOMAIN rebuilt'.facts = {u \in Instants : u <= t}
    BY <1>1, <1>3, <1>4, <1>10, BarsAreTimed DEF RebuiltFollows
  <2>4. \A u \in Instants : u <= now
    BY DEF Rebuild
  <2>5. QED
    BY <1>4, <1>6, <1>9, <1>10, <2>1, <2>2, <2>3, <2>4 DEF RebuiltFollows
<1>14. PositionsAgree'
  BY <1>5, <1>8, <1>10 DEF PositionsAgree
<1>15. QED
  BY <1>11, <1>13, <1>14

LEMMA RebuildKeepsFacts ==
    ASSUME UNCHANGED <<close, bars, now, position, track, lastDay, fills, facts>>
    PROVE  /\ FillsInOrder => FillsInOrder'
           /\ AtNow => AtNow'
           /\ FactsFollow => FactsFollow'
           /\ TrackIsOwn => TrackIsOwn'
           /\ LastDayIsSeen => LastDayIsSeen'
           /\ EachDayIsNewOnce => EachDayIsNewOnce'
<1>1. Instants' = Instants
  BY DEF Instants
<1>2. \A u : /\ HeldAt(u)' = HeldAt(u) /\ TrackAt(u)' = TrackAt(u)
             /\ AppliedAt(u)' = AppliedAt(u) /\ NextAfter(u)' = NextAfter(u)
  BY <1>1 DEF TrackAt, HeldAt, AppliedAt, NextAfter
<1>3. ASSUME NEW u, NEW t
      PROVE  FactsAfter(u, t)' = FactsAfter(u, t)
  BY <1>2 DEF FactsAfter, PositionFacts, Tracked
<1>4. FillsInOrder => FillsInOrder'
  BY <1>1 DEF FillsInOrder
<1>6. TrackAt(now)' = TrackAt(now)
  BY DEF TrackAt, HeldAt, AppliedAt
<1>7. AtNow => AtNow'
  BY <1>1, <1>6 DEF AtNow
<1>8. FactsFollow => FactsFollow'
  BY <1>1, <1>2, <1>3 DEF FactsFollow
<1>9. TrackIsOwn => TrackIsOwn'
  BY DEF TrackIsOwn
<1>10. LastDayIsSeen => LastDayIsSeen'
  BY DEF LastDayIsSeen, Evaluated
<1>11. EachDayIsNewOnce => EachDayIsNewOnce'
  BY DEF EachDayIsNewOnce, Evaluated
<1>12. QED
  BY <1>4, <1>7, <1>8, <1>9, <1>10, <1>11

-----------------------------------------------------------------------------
(* Trading days *)

LEMMA AllowedIsBoolean == \A t : Allowed(t) \in BOOLEAN
  BY DEF Allowed

\* A day is new at an instant if none before it on that day was evaluated.
LEMMA DaysStaySeen ==
    ASSUME TypeOK, FillsInOrder, AtNow, FactsFollow, LastDayIsSeen, EachDayIsNewOnce, Instant
    PROVE  LastDayIsSeen' /\ EachDayIsNewOnce'
<1>0. PICK t : t = Coming
  OBVIOUS
<1>1. /\ t \in Nat /\ now < t /\ now \in Nat
      /\ t \notin DOMAIN facts /\ DOMAIN facts' = DOMAIN facts \cup {t}
      /\ \A u \in DOMAIN facts : facts'[u] = facts[u]
      /\ facts'[t].schedule.newTradingDay = (lastDay # Day(t))
      /\ facts'[t].evaluated = Allowed(t)
  BY <1>0, InstantIs, SlotsAreTimes DEF ScheduleFacts
<1>2. lastDay' = IF Allowed(t) THEN Day(t) ELSE lastDay
  BY <1>0 DEF Instant, Seen, Coming
<1>3. Evaluated' = IF Allowed(t) THEN Evaluated \cup {t} ELSE Evaluated
  <2>1. \A u \in DOMAIN facts' : facts'[u].evaluated <=> (IF u = t THEN Allowed(t) ELSE facts[u].evaluated)
    BY <1>1
  <2>2. QED
    BY <1>1, <2>1 DEF Evaluated
<1>4. \A u \in Evaluated : u \in Nat /\ u < t /\ Day(u) \in Nat /\ Day(u) <= Day(t)
  <2>1. \A u \in Evaluated : u \in Nat /\ u <= now
    BY BarsAreTimed DEF Evaluated, FactsFollow
  <2>2. QED
    BY <1>1, <2>1, DayIs, DaysInOrder
<1>5. Day(t) \in Nat /\ lastDay \in Int
  BY <1>1, DayIs, ReplayAssumption DEF TypeOK, Days
<1>6. LastDayIsSeen'
  <2>1. \A u \in DOMAIN facts' : /\ facts'[u].evaluated \in BOOLEAN
                                /\ facts'[u].schedule.newTradingDay \in BOOLEAN
    BY <1>1, AllowedIsBoolean DEF LastDayIsSeen
  <2>2. (\A u \in Evaluated' : Day(u) <= lastDay')
        /\ (lastDay' = -1 \/ \E u \in Evaluated' : Day(u) = lastDay')
    BY <1>2, <1>3, <1>4, <1>5 DEF LastDayIsSeen
  <2>3. QED
    BY <2>1, <2>2 DEF LastDayIsSeen
<1>7. ASSUME Allowed(t)
      PROVE  lastDay # Day(t) <=> \A u \in Evaluated' : Day(u) = Day(t) => t <= u
  <2>1. lastDay = Day(t) => \E u \in Evaluated : Day(u) = Day(t)
    BY <1>5 DEF LastDayIsSeen
  <2>2. ASSUME NEW u \in Evaluated, Day(u) = Day(t)
        PROVE  lastDay = Day(t)
    <3>1. Day(t) <= lastDay
      BY <2>2 DEF LastDayIsSeen
    <3>2. lastDay = -1 \/ lastDay <= Day(t)
      BY <1>4 DEF LastDayIsSeen
    <3>3. QED
      BY <1>5, <3>1, <3>2
  <2>3. QED
    BY <1>1, <1>3, <1>4, <1>7, <2>1, <2>2
<1>8. ASSUME NEW u \in Evaluated
      PROVE  facts'[u].schedule.newTradingDay <=> \A v \in Evaluated' : Day(v) = Day(u) => u <= v
  <2>1. facts'[u] = facts[u]
    BY <1>1 DEF Evaluated
  <2>2. facts[u].schedule.newTradingDay <=> \A v \in Evaluated : Day(v) = Day(u) => u <= v
    BY DEF EachDayIsNewOnce
  <2>3. u <= t
    BY <1>1, <1>4
  <2>4. QED
    BY <1>3, <2>1, <2>2, <2>3
<1>9. EachDayIsNewOnce'
  <2>1. SUFFICES ASSUME NEW u \in Evaluated'
                 PROVE  facts'[u].schedule.newTradingDay <=>
                            \A v \in Evaluated' : Day(v) = Day(u) => u <= v
    BY DEF EachDayIsNewOnce
  <2>2. CASE u \in Evaluated
    BY <1>8, <2>2
  <2>3. CASE u \notin Evaluated
    <3>1. u = t /\ Allowed(t)
      BY <1>3, <2>3
    <3>2. QED
      BY <1>1, <1>7, <3>1
  <2>4. QED
    BY <2>2, <2>3
<1>10. QED
  BY <1>6, <1>9

-----------------------------------------------------------------------------
(* Every state of a replay *)

LEMMA FactsInit == Init => FactsInv
<1> SUFFICES ASSUME Init PROVE FactsInv
  OBVIOUS
<1>1. TypeOK
  BY ReplayAssumption, Lengths DEF Init, TypeOK
<1>2. FillsInOrder
  <2>1. fills = <<>> /\ DOMAIN fills = {}
    BY DEF Init
  <2>2. QED
    BY <2>1, EmptySeq DEF FillsInOrder
<1>3. AppliedAt(0) = 1 /\ HeldAt(0) = None /\ TrackAt(0) = None
  BY <1>1, <1>2, NoneApplied DEF TrackAt
<1>4. AtNow
  BY <1>3 DEF Init, AtNow
<1>5. \A t \in Instants : ~(t <= 0)
  BY <1>1, BarsAreTimed, SlotsAreTimes
<1>6. FactsFollow
  BY <1>5 DEF Init, FactsFollow
<1>7. RebuiltFollows
  BY <1>3, <1>5 DEF Init, RebuiltFollows
<1>8. TrackIsOwn /\ LastDayIsSeen /\ PositionsAgree /\ EachDayIsNewOnce
  BY DEF Init, TrackIsOwn, LastDayIsSeen, PositionsAgree, EachDayIsNewOnce, Evaluated
<1>9. QED
  BY <1>1, <1>2, <1>4, <1>6, <1>7, <1>8 DEF FactsInv

LEMMA FactsNext == FactsInv /\ [Next]_vars => FactsInv'
<1> SUFFICES ASSUME FactsInv, [Next]_vars PROVE FactsInv'
  OBVIOUS
<1> USE DEF FactsInv
<1>1. CASE Instant
  <2>1. TypeOK'
    BY <1>1, TypeStays
  <2>2. FillsInOrder'
    BY <1>1, FillsStayInOrder
  <2>3. AtNow' /\ FactsFollow'
    BY <1>1, FactsStillFollow
  <2>4. RebuiltFollows' /\ PositionsAgree'
    BY <1>1, RebuiltStillFollows
  <2>5. TrackIsOwn'
    BY <1>1, TrackStaysOwn
  <2>6. LastDayIsSeen' /\ EachDayIsNewOnce'
    BY <1>1, DaysStaySeen
  <2>7. QED
    BY <2>1, <2>2, <2>3, <2>4, <2>5, <2>6
<1>2. CASE Rebuild
  <2>1. UNCHANGED <<close, bars, now, position, track, lastDay, fills, facts>>
    BY <1>2 DEF Rebuild
  <2>2. TypeOK' /\ RebuiltFollows' /\ PositionsAgree'
    BY <1>2, RebuildFollows
  <2>3. QED
    BY <2>1, <2>2, RebuildKeepsFacts
<1>3. CASE UNCHANGED vars
  <2>1. /\ UNCHANGED <<close, bars, now, position, track, lastDay, fills, facts>>
        /\ rebuilt' = rebuilt
    BY <1>3 DEF vars
  <2>2. TypeOK'
    BY <2>1 DEF TypeOK
  <2>3. PositionsAgree'
    BY <2>1 DEF PositionsAgree
  <2>4. RebuiltFollows'
    <3>1. Instants' = Instants
      BY <2>1 DEF Instants
    <3>2. /\ AppliedAt(rebuilt.now)' = AppliedAt(rebuilt.now)
          /\ HeldAt(rebuilt.now)' = HeldAt(rebuilt.now)
          /\ TrackAt(rebuilt.now)' = TrackAt(rebuilt.now)
      BY <2>1 DEF TrackAt, HeldAt, AppliedAt
    <3>3. QED
      BY <2>1, <3>1, <3>2 DEF RebuiltFollows
  <2>5. QED
    BY <2>1, <2>2, <2>3, <2>4, RebuildKeepsFacts
<1>4. QED
  BY <1>1, <1>2, <1>3 DEF Next

LEMMA FactsInvHolds == Spec => []FactsInv
<1>1. Init => FactsInv
  BY FactsInit
<1>2. FactsInv /\ [Next]_vars => FactsInv'
  BY FactsNext
<1>3. QED
  BY <1>1, <1>2, PTL DEF Spec

\* Whatever is filled when, and whatever bars the history lacks: the position
\* inputs rebuilt from the stored fills are those the replay went by.
THEOREM RebuiltPositionsAgree == Spec => []PositionsAgree
<1>1. FactsInv => PositionsAgree
  BY DEF FactsInv
<1>2. QED
  BY <1>1, FactsInvHolds, PTL

-----------------------------------------------------------------------------
(* Peak and holding bars *)

\* The fills that began a position anew, the instant the newest of them did, and
\* the position as that instant left it
Begun == Openings \ Resumptions
Began == fills[Newest(Begun)].at
FilledAt(u) == {i \in DOMAIN fills : fills[i].at = u}
Left == fills[Newest(FilledAt(Began))].position

\* A position that is held was begun.
OwnIsBegun == position # None => Begun # {} /\ Left \in Position

LEMMA GreatestIs ==
    ASSUME NEW S, S \subseteq Nat, NEW k \in S, \A j \in S : j <= k
    PROVE  Newest(S) = k
<1>1. ASSUME NEW i \in S, \A j \in S : j <= i
      PROVE  i = k
  <2>1. i \in Nat /\ k \in Nat /\ i <= k /\ k <= i
    BY <1>1
  <2>2. QED
    BY <2>1
<1>2. QED
  BY <1>1 DEF Newest

LEMMA GreatestExists ==
    ASSUME NEW n \in Nat, NEW S, S \subseteq 1..n, S # {}
    PROVE  Newest(S) \in S /\ \A j \in S : j <= Newest(S)
<1> DEFINE T == {n - i : i \in S}
<1>0. \A i \in S : n - i \in Nat
  OBVIOUS
<1>1. T \subseteq Nat /\ T # {}
  BY <1>0
<1>2. PICK d \in T : \A e \in T : <<e, d>> \notin OpToRel(<, Nat)
  <2> HIDE DEF T
  <2>1. QED
    BY <1>1, NatLessThanWellFounded, WFMin
<1>3. PICK k \in S : d = n - k
  BY <1>2
<1>4. ASSUME NEW j \in S
      PROVE  j <= k
  <2>1. n - j \in T /\ n - j \in Nat /\ d \in Nat
    BY <1>1, <1>2
  <2>2. ~(n - j < d)
    BY <1>2, <2>1 DEF OpToRel
  <2>3. j \in 1..n /\ k \in 1..n
    OBVIOUS
  <2>4. QED
    BY <1>3, <2>2, <2>3
<1>5. QED
  BY <1>3, <1>4 DEF Newest

\* The bars of r that ended at one of the instants S
BarsOf(r, S) == {b \in bars : b[1] = r /\ b[2] \in S}

LEMMA BarsAreFinite ==
    ASSUME TypeOK
    PROVE  \A r, S : IsFiniteSet(BarsOf(r, S))
<1>1. Horizon \in Int
  BY Lengths
<1>2. IsFiniteSet(1..Horizon)
  BY <1>1, FS_Interval
<1>3. IsFiniteSet({"30m", Long})
  <2>1. IsFiniteSet({} \cup {"30m"})
    BY FS_EmptySet, FS_AddElement
  <2>2. IsFiniteSet(({} \cup {"30m"}) \cup {Long})
    BY <2>1, FS_AddElement
  <2>3. {"30m", Long} = ({} \cup {"30m"}) \cup {Long}
    OBVIOUS
  <2>4. QED
    BY <2>2, <2>3
<1>4. IsFiniteSet({"30m", Long} \X (1..Horizon))
  BY <1>2, <1>3, FS_Product
<1>5. \A r, S : BarsOf(r, S) \subseteq {"30m", Long} \X (1..Horizon)
  <2>1. \A b \in bars : b \in {"30m", Long} \X (1..Horizon)
    BY BarsAreTimed, SlotsAreTimes
  <2>2. QED
    BY <2>1 DEF BarsOf
<1>6. QED
  BY <1>4, <1>5, FS_Subset

LEMMA OneMoreBar ==
    ASSUME TypeOK, NEW S, NEW t \in Slots, t \notin S, NEW r \in {"30m", Long}
    PROVE  Cardinality(BarsOf(r, S \cup {t})) =
               Cardinality(BarsOf(r, S)) + (IF <<r, t>> \in bars THEN 1 ELSE 0)
<1>1. IsFiniteSet(BarsOf(r, S)) /\ Cardinality(BarsOf(r, S)) \in Nat
  BY BarsAreFinite, FS_CardinalityType
<1>2. CASE <<r, t>> \in bars
  <2>1. BarsOf(r, S \cup {t}) = BarsOf(r, S) \cup {<<r, t>>}
    BY <1>2, BarsAreTimed DEF BarsOf
  <2>2. <<r, t>> \notin BarsOf(r, S)
    BY DEF BarsOf
  <2>3. QED
    BY <1>1, <1>2, <2>1, <2>2, FS_AddElement
<1>3. CASE <<r, t>> \notin bars
  <2>1. BarsOf(r, S \cup {t}) = BarsOf(r, S)
    BY <1>3, BarsAreTimed DEF BarsOf
  <2>2. QED
    BY <1>1, <1>3, <2>1
<1>4. QED
  BY <1>2, <1>3

Since(at) == {t \in Instants : at <= t /\ t <= now}

\* Peak and counts since u, with the average price a as u left it
PeakIs(u, a) ==
    /\ \A t \in Since(u) : close[t] <= track.peak
    /\ track.peak \in {a} \cup {close[t] : t \in Since(u)}
    /\ a <= track.peak
    /\ \A r \in {"30m", Long} : track.bars[r] = Cardinality(BarsOf(r, Since(u)))

LEMMA PeakIsOfBegun ==
    PeakAndHoldingAreOwn <=> (position # None => PeakIs(Began, Left.average))
  BY DEF PeakAndHoldingAreOwn, PeakIs, Since, BarsOf, Began, Begun, Left, FilledAt

\* An instant's close and bars are counted in.
LEMMA PeakGrows ==
    ASSUME FactsInv, Instant, NEW u \in Nat, u <= Coming, NEW a \in Prices,
           NEW S, S \subseteq Instants, Coming \notin S,
           {t \in Instants : u <= t /\ t <= Coming} = S \cup {Coming},
           NEW peak \in Prices, \A t \in S : close[t] <= peak,
           peak \in {a} \cup {close[t] : t \in S}, a <= peak,
           track'.peak = Larger(peak, close[Coming]),
           \A r \in {"30m", Long} : track'.bars[r] = Cardinality(BarsOf(r, S))
                                        + (IF <<r, Coming>> \in bars THEN 1 ELSE 0)
    PROVE  PeakIs(u, a)'
<1>1. /\ Coming \in Slots /\ Coming \in Instants /\ now' = Coming /\ Instants' = Instants
      /\ close' = close /\ bars' = bars /\ TypeOK
  BY InstantIs DEF FactsInv, Instant
<1> HIDE DEF Coming
<1>2. Since(u)' = S \cup {Coming}
  BY <1>1 DEF Since
<1>3. close[Coming] \in Prices /\ \A t \in S : close[t] \in Prices
  BY <1>1, BarsAreTimed DEF TypeOK
<1>4. /\ track'.peak \in {peak, close[Coming]}
      /\ peak <= track'.peak /\ close[Coming] <= track'.peak /\ track'.peak \in Prices
  BY <1>3, LargerIs
<1>5. \A p \in Prices : p \in Nat
  BY ReplayAssumption
<1>6. \A t \in S \cup {Coming} : close[t] <= track'.peak
  BY <1>3, <1>4, <1>5
<1>7. track'.peak \in {a} \cup {close[t] : t \in S \cup {Coming}}
  BY <1>4
<1>8. a <= track'.peak
  BY <1>4, <1>5
<1>9. ASSUME NEW r \in {"30m", Long}
      PROVE  track'.bars[r] = Cardinality(BarsOf(r, S \cup {Coming}))
  BY <1>1, OneMoreBar
<1>10. ASSUME NEW r \in {"30m", Long}
       PROVE  track'.bars[r] = Cardinality(BarsOf(r, Since(u)))'
  <2>1. BarsOf(r, Since(u))' = BarsOf(r, S \cup {Coming})
    BY <1>1, <1>2 DEF BarsOf
  <2>2. QED
    BY <1>9, <2>1
<1>11. QED
  BY <1>1, <1>2, <1>6, <1>7, <1>8, <1>10 DEF PeakIs

\* A position either goes on, when nothing new has begun, or has begun with one
\* of the fills of this instant.
LEMMA BegunIs ==
    ASSUME FactsInv, Instant, position' # None
    PROVE  \/ /\ position # None /\ position'.cycle = position.cycle
              /\ Begun' = Begun
           \/ /\ position = None \/ position'.cycle # position.cycle
              /\ \E l \in Begun' : l \in DOMAIN fills' \ DOMAIN fills
<1>1. PICK n : n = Len(fills)
  OBVIOUS
<1>2. PICK m : m = Len(fills')
  OBVIOUS
<1>3. /\ n \in Nat /\ m \in Nat /\ DOMAIN fills = 1..n /\ DOMAIN fills' = 1..m
      /\ \A i \in 1..n : fills'[i] = fills[i]
      /\ \A i \in (n + 1)..m : fills'[i].at = Coming
      /\ \/ m = n /\ position' = position
         \/ /\ m = n + 1 /\ fills'[n + 1].position = position'
            /\ Became(position, position')
         \/ /\ m = n + 2 /\ fills'[n + 2].position = position'
            /\ Became(position, fills'[n + 1].position)
            /\ Became(fills'[n + 1].position, position')
  BY <1>1, <1>2, FillIs DEF FactsInv
<1>4. n = 0 => position = None
  BY <1>1, <1>3, EmptySeq DEF FactsInv, AtNow, FillsInOrder
<1>5. n # 0 => position = fills[n].position
  <2>1. n # 0 => fills # <<>>
    BY <1>1, EmptySeq
  <2>2. QED
    BY <1>1, <2>1 DEF FactsInv, AtNow
<1>6. now < Coming /\ now \in Nat /\ Coming \in Nat
      /\ \A i \in 1..n : fills[i].at \in Nat /\ fills[i].at <= now
  BY <1>1, <1>3, InstantIs, SlotsAreTimes, FillsAre, BarsAreTimed DEF FactsInv, FillsInOrder
<1>7. Openings' = {i \in 1..m : /\ fills'[i].position # None
                                /\ i = 1 \/ fills'[i - 1].position = None}
  BY <1>3 DEF Openings
<1>8. Openings = {i \in 1..n : /\ fills[i].position # None
                               /\ i = 1 \/ fills[i - 1].position = None}
  BY <1>3 DEF Openings
<1>9. n <= m /\ m <= n + 2
  BY <1>3
<1>10. \A i \in 1..n : /\ i \in Openings' <=> i \in Openings
                       /\ i \in Resumptions' <=> i \in Resumptions
  <2>1. SUFFICES ASSUME NEW i \in 1..n
                 PROVE  /\ i \in Openings' <=> i \in Openings
                        /\ i \in Resumptions' <=> i \in Resumptions
    OBVIOUS
  <2>2. /\ i \in 1..m /\ fills'[i] = fills[i]
        /\ i # 1 => fills'[i - 1] = fills[i - 1]
        /\ i > 2 => fills'[i - 2] = fills[i - 2]
    BY <1>3, <1>9
  <2>3. i \in Openings' <=> i \in Openings
    BY <1>7, <1>8, <2>2
  <2>4. QED
    BY <2>2, <2>3 DEF Resumptions
<1>11. \A i \in Openings : i \in 1..n
  BY <1>8
<1>12. (\A i \in Openings' : i \in 1..n \/ i \in Resumptions') => Begun' = Begun
  <2>1. SUFFICES ASSUME \A i \in Openings' : i \in 1..n \/ i \in Resumptions'
                 PROVE  Begun' = Begun
    OBVIOUS
  <2>2. \A i \in Begun' : i \in Begun
    BY <1>10, <2>1 DEF Begun
  <2>3. \A i \in Begun : i \in Begun'
    BY <1>10, <1>11 DEF Begun
  <2>4. QED
    BY <2>2, <2>3
<1>13. CASE position = None
  <2>1. m # n /\ n + 1 \in 1..m /\ fills'[n + 1].position # None
    BY <1>3, <1>13, NoneAssumption DEF Became
  <2>2. n + 1 = 1 \/ fills'[(n + 1) - 1].position = None
    <3>1. n # 0 => (n + 1) - 1 = n /\ n \in 1..n
      BY <1>3
    <3>2. QED
      BY <1>3, <1>5, <1>13, <3>1
  <2>3. n + 1 \in Openings'
    BY <1>7, <2>1, <2>2
  <2>4. n + 1 \notin Resumptions'
    <3>1. SUFFICES ASSUME n + 1 > 2, fills'[(n + 1) - 1].at = fills'[n + 1].at PROVE FALSE
      BY DEF Resumptions
    <3>2. (n + 1) - 1 = n /\ n \in 1..n
      BY <1>3, <3>1
    <3>3. fills'[n].at = fills[n].at /\ fills'[n + 1].at = Coming
      BY <1>3, <2>1, <3>2
    <3>4. QED
      BY <1>6, <3>1, <3>2, <3>3
  <2>5. n + 1 \in Begun' /\ n + 1 \in DOMAIN fills' \ DOMAIN fills
    BY <1>3, <2>1, <2>3, <2>4 DEF Begun
  <2>6. QED
    BY <1>13, <2>5
<1>14. CASE position # None
  <2>1. n # 0 /\ n \in 1..n /\ position = fills[n].position /\ fills'[n] = fills[n]
        /\ (n + 1) - 1 = n /\ (n + 2) - 1 = n + 1 /\ (n + 2) - 2 = n /\ n + 1 # 1
    BY <1>3, <1>4, <1>5, <1>14
  <2>2. n + 1 \notin Openings'
    BY <1>7, <1>14, <2>1
  <2>3. CASE m = n /\ position' = position
    <3>1. \A i \in Openings' : i \in 1..n
      BY <1>7, <2>3
    <3>2. QED
      BY <1>12, <1>14, <2>3, <3>1
  <2>4. CASE m = n + 1 /\ Became(position, position')
    <3>1. \A i \in Openings' : i \in 1..n
      BY <1>3, <1>7, <2>2, <2>4
    <3>2. position'.cycle = position.cycle
      BY <1>14, <2>4 DEF Became
    <3>3. QED
      BY <1>12, <1>14, <3>1, <3>2
  <2>5. CASE /\ m = n + 2 /\ fills'[n + 2].position = position'
             /\ Became(position, fills'[n + 1].position)
             /\ Became(fills'[n + 1].position, position')
    <3>1. \A i \in Openings' : i \in 1..n \/ i = n + 2
      <4>1. \A i \in 1..m : i \in 1..n \/ i = n + 1 \/ i = n + 2
        BY <1>3, <2>5
      <4>2. QED
        BY <1>7, <2>2, <4>1
    <3>2. CASE fills'[n + 1].position # None
      <4>1. n + 2 \notin Openings'
        BY <1>3, <1>7, <2>1, <3>2
      <4>2. position'.cycle = position.cycle
        BY <1>14, <2>5, <3>2 DEF Became
      <4>3. QED
        BY <1>12, <1>14, <3>1, <4>1, <4>2
    <3>3. CASE fills'[n + 1].position = None
      <4>1. n + 2 \in 1..m /\ n + 2 > 2 /\ n + 2 \notin 1..n
        BY <1>3, <2>1, <2>5
      <4>2. n + 2 \in Openings'
        BY <1>7, <2>1, <2>5, <3>3, <4>1
      <4>3. fills'[(n + 2) - 1].at = fills'[n + 2].at
        BY <1>3, <2>1, <2>5
      <4>4. n + 2 \in Resumptions' <=> position.cycle = position'.cycle
        BY <2>1, <2>5, <4>1, <4>2, <4>3 DEF Resumptions
      <4>5. CASE position'.cycle = position.cycle
        BY <1>12, <1>14, <3>1, <4>4, <4>5
      <4>6. CASE position'.cycle # position.cycle
        <5>1. n + 2 \in Begun' /\ n + 2 \in DOMAIN fills' \ DOMAIN fills
          BY <1>3, <4>1, <4>2, <4>4, <4>6 DEF Begun
        <5>2. QED
          BY <4>6, <5>1
      <4>7. QED
        BY <4>5, <4>6
    <3>4. QED
      BY <3>2, <3>3
  <2>6. QED
    BY <1>3, <2>3, <2>4, <2>5
<1>15. QED
  BY <1>13, <1>14

\* Peak and holding of a position that has begun with this instant
LEMMA OpeningPeak ==
    ASSUME FactsInv, Instant, position' # None,
           position = None \/ position'.cycle # position.cycle,
           NEW l \in Begun', l \in DOMAIN fills' \ DOMAIN fills
    PROVE  OwnIsBegun' /\ PeakAndHoldingAreOwn'
<1>1. PICK n : n = Len(fills)
  OBVIOUS
<1>2. PICK m : m = Len(fills')
  OBVIOUS
<1>3. PICK t : t = Coming
  OBVIOUS
<1>4. /\ n \in Nat /\ m \in Nat /\ n <= m /\ DOMAIN fills = 1..n /\ DOMAIN fills' = 1..m
      /\ \A i \in 1..n : fills'[i] = fills[i]
      /\ \A i \in (n + 1)..m : fills'[i].at = t
      /\ m # n => fills'[m].position = position'
      /\ position' \in Position
  BY <1>1, <1>2, <1>3, FillIs DEF FactsInv
<1>5. /\ t \in Slots /\ t \in Instants /\ t \in Nat /\ now < t
      /\ now \in Nat /\ close' = close /\ bars' = bars /\ Instants' = Instants /\ now' = t
  BY <1>3, InstantIs, SlotsAreTimes DEF FactsInv, Instant
<1>6. \A i \in 1..n : fills[i].at \in Nat /\ fills[i].at <= now
  BY <1>1, <1>4, FillsAre, BarsAreTimed DEF FactsInv, FillsInOrder
<1>7. l \in (n + 1)..m /\ m \in (n + 1)..m /\ m # n
  BY <1>4
<1>8. Began' = t
  <2>1. PICK B : B = Begun'
    OBVIOUS
  <2>2. B \subseteq 1..m
    BY <1>4, <2>1 DEF Begun, Openings
  <2>3. PICK k : k = Newest(B)
    OBVIOUS
  <2>4. k \in 1..m /\ l <= k
    BY <1>4, <2>1, <2>2, <2>3, GreatestExists
  <2>5. k \in (n + 1)..m
    BY <1>4, <1>7, <2>4
  <2>6. fills'[k].at = t
    BY <1>4, <2>5
  <2>7. QED
    BY <2>1, <2>3, <2>6 DEF Began, Newest
<1>9. FilledAt(Began)' = (n + 1)..m
  <2>1. FilledAt(Began)' = {i \in 1..m : fills'[i].at = t}
    BY <1>4, <1>8 DEF FilledAt
  <2>2. \A i \in 1..m : fills'[i].at = t <=> i \in (n + 1)..m
    BY <1>4, <1>5, <1>6
  <2>3. \A i \in (n + 1)..m : i \in 1..m
    BY <1>4
  <2>4. QED
    BY <2>1, <2>2, <2>3
<1>10. Left' = position'
  <2>1. (n + 1)..m \subseteq Nat /\ \A i \in (n + 1)..m : i <= m
    BY <1>4
  <2>2. Newest((n + 1)..m) = m
    BY <1>7, <2>1, GreatestIs
  <2>3. QED
    BY <1>4, <1>7, <1>9, <2>2 DEF Left, Newest
<1>11. OwnIsBegun'
  BY <1>4, <1>10 DEF OwnIsBegun
<1>12. /\ track' = Tracked(track, position', t) /\ track \in {None} \cup Track
       /\ ~SameCycle(track, position')
  <2>1. track' = Tracked(track, position', t) /\ track \in {None} \cup Track
    BY <1>3, TrackStaysOwn, TrackIsTyped DEF FactsInv
  <2>2. ~SameCycle(track, position')
    BY DEF SameCycle, FactsInv, TrackIsOwn
  <2>3. QED
    BY <2>1, <2>2
<1>13. PICK a \in Prices : a = position'.average
  BY <1>4 DEF Position
<1>14. /\ track'.peak = Larger(a, close[t])
       /\ \A r \in {"30m", Long} : track'.bars[r] = (IF <<r, t>> \in bars THEN 1 ELSE 0)
  BY <1>4, <1>5, <1>12, <1>13, TrackedIs DEF FactsInv
<1>15. \A r : BarsOf(r, {}) = {} /\ Cardinality(BarsOf(r, {})) = 0
  BY FS_EmptySet DEF BarsOf
<1>16. PICK S : S = {}
  OBVIOUS
<1>17. /\ t <= t /\ S \subseteq Instants /\ t \notin S
       /\ {u \in Instants : t <= u /\ u <= t} = S \cup {t}
  BY <1>5, <1>16, BarsAreTimed DEF FactsInv
<1>18. a <= a
  BY ReplayAssumption
<1>19. \A r \in {"30m", Long} : track'.bars[r] = Cardinality(BarsOf(r, S))
                                     + (IF <<r, t>> \in bars THEN 1 ELSE 0)
  BY <1>14, <1>15, <1>16
<1>20. PeakIs(t, a)'
  <2>1. /\ \A u \in S : close[u] <= a
        /\ a \in {a} \cup {close[u] : u \in S}
    BY <1>16
  <2>2. QED
    BY <1>3, <1>5, <1>14, <1>17, <1>18, <1>19, <2>1, PeakGrows
<1>21. PeakIs(Began, Left.average)'
  BY <1>8, <1>10, <1>13, <1>20 DEF PeakIs, Since
<1>22. PeakAndHoldingAreOwn'
  BY <1>21 DEF PeakAndHoldingAreOwn, PeakIs, Since, BarsOf, Began, Begun,
                Left, FilledAt
<1>23. QED
  BY <1>11, <1>22

\* Peak and holding of a position that goes on
LEMMA KeptPeak ==
    ASSUME FactsInv, OwnIsBegun, PeakAndHoldingAreOwn, Instant,
           position # None, position' # None, position'.cycle = position.cycle,
           Begun' = Begun
    PROVE  OwnIsBegun' /\ PeakAndHoldingAreOwn'
<1>1. PICK n : n = Len(fills)
  OBVIOUS
<1>2. PICK t : t = Coming
  OBVIOUS
<1>3. /\ position \in Position /\ position' \in Position
      /\ track \in Track /\ track.cycle = position.cycle
  BY PositionIsTyped DEF FactsInv, TypeOK, TrackIsOwn
<1>4. /\ t \in Slots /\ t \in Instants /\ t \in Nat /\ now < t
      /\ now \in Nat /\ close' = close /\ bars' = bars
      /\ \A u \in Instants : u > now => t <= u
  BY <1>2, InstantIs, SlotsAreTimes DEF FactsInv, Instant
<1>5. /\ \A i \in DOMAIN fills : i \in DOMAIN fills' /\ fills'[i] = fills[i]
      /\ \A i \in DOMAIN fills' \ DOMAIN fills : fills'[i].at = t
      /\ DOMAIN fills = 1..n /\ n \in Nat
  BY <1>1, <1>2, FillsStayInOrder, FillsAre DEF FactsInv
<1>6. PICK B : B = Begun
  OBVIOUS
<1>7. PICK k : k = Newest(B)
  OBVIOUS
<1>8. k \in B /\ k \in 1..n
  <2>1. B \subseteq 1..n /\ B # {}
    BY <1>5, <1>6 DEF Begun, Openings, OwnIsBegun
  <2>2. QED
    BY <1>5, <1>7, <2>1, GreatestExists
<1>9. PICK u : u = fills[k].at
  OBVIOUS
<1>10. Began = u /\ Began' = u
  <2>1. Began = u
    BY <1>6, <1>7, <1>9 DEF Began
  <2>2. fills'[k] = fills[k]
    BY <1>5, <1>8
  <2>3. Began' = fills'[Newest(Begun')].at
    BY DEF Began, Newest
  <2>4. QED
    BY <1>6, <1>7, <1>9, <2>1, <2>2, <2>3
<1>11. u \in Nat /\ u <= now /\ u # t
  BY <1>1, <1>4, <1>5, <1>8, <1>9, FillsAre, BarsAreTimed DEF FactsInv, FillsInOrder
<1>12. PICK F : F = FilledAt(u)
  OBVIOUS
<1>13. FilledAt(Began)' = F
  <2>1. FilledAt(Began)' = {i \in DOMAIN fills' : fills'[i].at = u}
    BY <1>10 DEF FilledAt
  <2>2. F = {i \in DOMAIN fills : fills[i].at = u}
    BY <1>12 DEF FilledAt
  <2>3. QED
    BY <1>5, <1>11, <2>1, <2>2
<1>14. Left' = Left
  <2>1. F \subseteq 1..n /\ k \in F
    BY <1>5, <1>8, <1>9, <1>12 DEF FilledAt
  <2>2. Newest(F) \in 1..n
    BY <1>5, <2>1, GreatestExists
  <2>3. Left' = fills'[Newest(F)].position
    BY <1>13 DEF Left, Newest
  <2>4. Left = fills[Newest(F)].position
    BY <1>10, <1>12 DEF Left
  <2>5. QED
    BY <1>5, <2>2, <2>3, <2>4
<1>15. PICK a \in Prices : a = Left.average
  BY DEF OwnIsBegun, Position
<1>16. PeakIs(u, a)
  BY <1>10, <1>15, PeakIsOfBegun
<1>17. PICK S : S = Since(u)
  OBVIOUS
<1>18. /\ S \subseteq Instants /\ t \notin S
       /\ {v \in Instants : u <= v /\ v <= t} = S \cup {t}
  <2>1. \A v \in Instants : v \in Nat
    BY BarsAreTimed DEF FactsInv
  <2>2. \A v : v \in S <=> v \in Instants /\ u <= v /\ v <= now
    BY <1>17 DEF Since
  <2>3. t \notin S
    BY <1>4, <2>2
  <2>4. \A v \in Instants : v <= t <=> v <= now \/ v = t
    BY <1>4, <2>1
  <2>5. u <= t
    BY <1>4, <1>11
  <2>6. \A v \in Instants : u <= v /\ v <= t <=> v \in S \cup {t}
    BY <2>2, <2>4, <2>5
  <2>7. QED
    BY <1>4, <2>2, <2>3, <2>6
<1>19. PICK peak \in Prices : peak = track.peak
  BY <1>3 DEF Track
<1>20. /\ \A v \in S : close[v] <= peak
       /\ peak \in {a} \cup {close[v] : v \in S}
       /\ a <= peak
       /\ \A r \in {"30m", Long} : track.bars[r] = Cardinality(BarsOf(r, S))
  BY <1>16, <1>17, <1>19 DEF PeakIs
<1>21. /\ track'.peak = Larger(peak, close[t])
       /\ \A r \in {"30m", Long} :
             track'.bars[r] = track.bars[r] + (IF <<r, t>> \in bars THEN 1 ELSE 0)
  <2>1. track' = Tracked(track, position', t)
    BY <1>2, TrackStaysOwn DEF FactsInv
  <2>2. SameCycle(track, position')
    BY <1>3, NoneAssumption DEF SameCycle
  <2>3. QED
    BY <1>3, <1>4, <1>19, <2>1, <2>2, TrackedIs DEF FactsInv
<1>22. \A r \in {"30m", Long} : track'.bars[r] = Cardinality(BarsOf(r, S))
                                        + (IF <<r, t>> \in bars THEN 1 ELSE 0)
  BY <1>20, <1>21
<1>23. u <= t
  BY <1>4, <1>11
<1>24. PeakIs(u, a)'
  BY <1>2, <1>11, <1>18, <1>20, <1>21, <1>22, <1>23, PeakGrows
<1>25. PeakIs(Began, Left.average)'
  BY <1>10, <1>14, <1>15, <1>24 DEF PeakIs, Since
<1>26. PeakAndHoldingAreOwn'
  BY <1>25 DEF PeakAndHoldingAreOwn, PeakIs, Since, BarsOf, Began, Begun,
                Left, FilledAt
<1>27. OwnIsBegun'
  <2>1. Begun' # {} /\ Left' \in Position
    BY <1>6, <1>8, <1>14 DEF OwnIsBegun
  <2>2. QED
    BY <2>1 DEF OwnIsBegun, Position
<1>28. QED
  BY <1>26, <1>27

LEMMA PeakNext ==
    FactsInv /\ OwnIsBegun /\ PeakAndHoldingAreOwn /\ [Next]_vars
        => OwnIsBegun' /\ PeakAndHoldingAreOwn'
<1> SUFFICES ASSUME FactsInv, OwnIsBegun, PeakAndHoldingAreOwn, [Next]_vars
             PROVE  OwnIsBegun' /\ PeakAndHoldingAreOwn'
  OBVIOUS
<1>1. CASE Instant
  <2>1. CASE position' = None
    BY <2>1 DEF PeakAndHoldingAreOwn, OwnIsBegun
  <2>2. CASE position' # None
    BY <1>1, <2>2, BegunIs, OpeningPeak, KeptPeak
  <2>3. QED
    BY <2>1, <2>2
<1>2. CASE UNCHANGED <<close, bars, now, position, track, fills>>
  <2>1. Instants' = Instants /\ Openings' = Openings /\ Resumptions' = Resumptions
    BY <1>2 DEF Instants, Openings, Resumptions
  <2>2. Begun' = Begun /\ Began' = Began
    BY <1>2, <2>1 DEF Begun, Began, Newest
  <2>3. FilledAt(Began)' = FilledAt(Began)
    BY <1>2, <2>2 DEF FilledAt
  <2>4. Left' = Left
    BY <1>2, <2>3 DEF Left, Newest
  <2>5. OwnIsBegun'
    BY <1>2, <2>2, <2>4 DEF OwnIsBegun, Position
  <2>6. position # None => PeakIs(Began, Left.average)'
    BY <1>2, <2>1, <2>2, <2>4, PeakIsOfBegun DEF PeakIs, Since, BarsOf
  <2>7. PeakAndHoldingAreOwn'
    BY <1>2, <2>6 DEF PeakAndHoldingAreOwn, PeakIs, Since, BarsOf, Began, Begun,
                  Left, FilledAt
  <2>8. QED
    BY <2>5, <2>7
<1>3. QED
  BY <1>1, <1>2 DEF Next, Rebuild, vars

\* Whichever bars fill at an instant, and whatever bars the history lacks: peak
\* and holding period are of the position itself, from the instant it began on;
\* of an earlier one only if, at one instant, it was closed and opened again
\* under the opening instant it had.
THEOREM PeakAndHoldingAreThePositions == Spec => []PeakAndHoldingAreOwn
<1>1. Init => OwnIsBegun /\ PeakAndHoldingAreOwn
  BY DEF Init, PeakAndHoldingAreOwn, OwnIsBegun
<1>2. FactsInv /\ OwnIsBegun /\ PeakAndHoldingAreOwn /\ [Next]_vars
          => OwnIsBegun' /\ PeakAndHoldingAreOwn'
  BY PeakNext
<1>3. QED
  BY <1>1, <1>2, FactsInvHolds, PTL DEF Spec

-----------------------------------------------------------------------------
(* What conditions see *)

UpTo(t) == {b \in bars : b[2] <= t}

\* The closing prices of the bars that ended at S, the newest first
ClosesOf(S) ==
    LET newest(i) == CHOOSE u \in S : Cardinality({v \in S : v > u}) = i - 1
    IN  [i \in 1..Least(Cardinality(S), Window) |-> close[newest(i)]]

LEMMA ClosingsAre ==
    ASSUME NEW history, NEW r, NEW t
    PROVE  Closings(history, r, t) = ClosesOf(Shown(history, r, t))
  BY DEF Closings, ClosesOf

LEMMA ShownByThen ==
    ASSUME NEW t \in Nat
    PROVE  /\ \A r : Shown(UpTo(t), r, t) = Shown(bars, r, t)
           /\ \A r : Closings(UpTo(t), r, t) = Closings(bars, r, t)
           /\ FeatureAt(UpTo(t), t) = FeatureAt(bars, t)
           /\ FeatureAt(UpTo(t), t - 1) = FeatureAt(bars, t - 1)
<1>1. ASSUME NEW r
      PROVE  Shown(UpTo(t), r, t) = Shown(bars, r, t)
  BY DEF Shown, UpTo
<1>2. ASSUME NEW r
      PROVE  Closings(UpTo(t), r, t) = Closings(bars, r, t)
  BY <1>1, ClosingsAre
<1>3. t <= t /\ t - 1 <= t
  OBVIOUS
<1>4. QED
  BY <1>1, <1>2, <1>3 DEF FeatureAt, UpTo

\* The outcome of a condition looks at nothing else of the history.
LEMMA OutcomeByThen ==
    ASSUME NEW t \in Nat, NEW step, NEW held, NEW schedule
    PROVE  Outcome(step, UpTo(t), t, held, schedule) = Outcome(step, bars, t, held, schedule)
<1>1. Holds(step, UpTo(t), t, held, schedule) = Holds(step, bars, t, held, schedule)
  BY ShownByThen DEF Holds
<1>2. Warmup(step, UpTo(t), t) = Warmup(step, bars, t)
  BY ShownByThen DEF Warmup
<1>3. OffItsClock(step, UpTo(t), t) = OffItsClock(step, bars, t)
  BY ShownByThen DEF OffItsClock
<1>4. QED
  BY <1>1, <1>2, <1>3 DEF Outcome

LEMMA FlowByThen ==
    ASSUME NEW t \in Nat, NEW flow, NEW held, NEW schedule
    PROVE  FlowOutcome(flow, UpTo(t), t, held, schedule) = FlowOutcome(flow, bars, t, held, schedule)
<1>1. \A i : Outcome(flow[i], UpTo(t), t, held, schedule) = Outcome(flow[i], bars, t, held, schedule)
  BY OutcomeByThen
<1>2. {i \in DOMAIN flow : Outcome(flow[i], UpTo(t), t, held, schedule) # "TRUE"}
      = {i \in DOMAIN flow : Outcome(flow[i], bars, t, held, schedule) # "TRUE"}
  BY <1>1
<1>3. QED
  BY <1>1, <1>2 DEF FlowOutcome

\* Whatever the flows and the bars: no outcome depends on a bar that ends later.
THEOREM NothingIsForeseen == Spec => []NoHindsight
<1>1. TypeOK => NoHindsight
  <2>1. SUFFICES ASSUME TypeOK, NEW flow \in Flows, NEW t \in Latest
                 PROVE  OutcomeAt(flow, bars, t) = OutcomeAt(flow, {b \in bars : b[2] <= t}, t)
    BY DEF NoHindsight
  <2>2. t \in Nat
    <3>1. t = now
      BY DEF Latest
    <3>2. now \in 0..Horizon
      BY <2>1 DEF TypeOK
    <3>3. QED
      BY <3>1, <3>2, Lengths
  <2>3. QED
    BY <2>2, FlowByThen DEF OutcomeAt, UpTo
<1>2. FactsInv => TypeOK
  BY DEF FactsInv
<1>3. QED
  BY <1>1, <1>2, FactsInvHolds, PTL

-----------------------------------------------------------------------------
(* Sums *)

\* Every nonempty set of naturals has a least element.
LEMMA LeastOf ==
    ASSUME NEW S, S \subseteq Nat, S # {}
    PROVE  \E k \in S : \A j \in S : k <= j
<1>1. PICK k \in S : \A j \in S : <<j, k>> \notin OpToRel(<, Nat)
  BY NatLessThanWellFounded, WFMin
<1>2. ASSUME NEW j \in S
      PROVE  k <= j
  <2>1. j \in Nat /\ k \in Nat
    OBVIOUS
  <2>2. ~(j < k)
    BY <1>1, <2>1 DEF OpToRel
  <2>3. QED
    BY <2>1, <2>2
<1>3. QED
  BY <1>2

First(s) == CHOOSE x \in s : TRUE

\* g sums f over the sets in U, one element after the other.
Sums(g, f, U) ==
    g = [s \in U |-> IF s = {} THEN 0 ELSE f[First(s)] + g[s \ {First(s)}]]

LEMMA SumIs ==
    ASSUME NEW f
    PROVE  SumFunction(f) = (CHOOSE g : Sums(g, f, SUBSET DOMAIN f))[DOMAIN f]
BY DEF SumFunction, SumFunctionOnSet, FoldFunctionOnSet, MapThenFoldSet, Sums, First

LEMMA OneLess ==
    ASSUME NEW s, IsFiniteSet(s), s # {}
    PROVE  /\ First(s) \in s /\ s \ {First(s)} \subseteq s
           /\ Cardinality(s) \in Nat \ {0} /\ Cardinality(s \ {First(s)}) = Cardinality(s) - 1
<1>1. First(s) \in s
  BY DEF First
<1>2. Cardinality(s) \in Nat /\ Cardinality(s) # 0
  BY FS_CardinalityType, FS_EmptySet
<1>3. QED
  BY <1>1, <1>2, FS_RemoveElement

LEMMA SumsExist ==
    ASSUME NEW S, IsFiniteSet(S), NEW f, \A x \in S : f[x] \in Int
    PROVE  \E g : Sums(g, f, SUBSET S)
<1> DEFINE Small(k) == {s \in SUBSET S : Cardinality(s) <= k}
           P(k) == \E g \in [Small(k) -> Int] : Sums(g, f, Small(k))
           C == {k \in Nat : ~P(k)}
<1>1. \A s \in SUBSET S : IsFiniteSet(s) /\ Cardinality(s) \in Nat
                          /\ Cardinality(s) <= Cardinality(S)
  BY FS_Subset, FS_CardinalityType
<1>2. SUFFICES C = {}
  <2>1. Cardinality(S) \in Nat /\ Small(Cardinality(S)) = SUBSET S
    BY <1>1, FS_CardinalityType
  <2>2. P(Cardinality(S))
    BY <1>2, <2>1
  <2>3. QED
    BY <2>1, <2>2
<1>3. SUFFICES ASSUME C # {} PROVE FALSE
  OBVIOUS
<1>4. PICK k \in C : \A j \in C : k <= j
  <2> HIDE DEF C
  <2>1. C \subseteq Nat
    BY DEF C
  <2>2. QED
    BY <1>3, <2>1, LeastOf
<1>5. k \in Nat /\ ~P(k)
  OBVIOUS
<1>6. CASE k = 0
  <2>1. \A s \in Small(0) : s = {}
    BY <1>1, FS_EmptySet
  <2> DEFINE g == [s \in Small(0) |-> 0]
  <2>2. g \in [Small(0) -> Int]
    OBVIOUS
  <2>3. g = [s \in Small(0) |-> IF s = {} THEN 0 ELSE f[First(s)] + g[s \ {First(s)}]]
    BY <2>1
  <2>4. QED
    BY <1>5, <1>6, <2>2, <2>3 DEF Sums
<1>7. CASE k # 0
  <2>1. k - 1 \in Nat /\ k - 1 \notin C
    <3>1. k - 1 \in Nat /\ ~(k <= k - 1)
      BY <1>5, <1>7
    <3> HIDE DEF C
    <3>2. QED
      BY <1>4, <3>1
  <2>2. PICK g \in [Small(k - 1) -> Int] : Sums(g, f, Small(k - 1))
    BY <2>1
  <2> DEFINE h == [s \in Small(k) |-> IF s = {} THEN 0 ELSE f[First(s)] + g[s \ {First(s)}]]
  <2>3. ASSUME NEW s \in Small(k), s # {}
        PROVE  /\ s \ {First(s)} \in Small(k - 1) /\ s \ {First(s)} \in Small(k)
               /\ First(s) \in S
    <3>1. /\ First(s) \in s /\ s \ {First(s)} \subseteq s
          /\ Cardinality(s \ {First(s)}) = Cardinality(s) - 1 /\ Cardinality(s) \in Nat
      BY <1>1, <2>3, OneLess
    <3>2. Cardinality(s) <= k /\ s \in SUBSET S
      BY <2>3
    <3>3. Cardinality(s) - 1 <= k - 1 /\ Cardinality(s) - 1 <= k
      BY <1>5, <3>1, <3>2
    <3>4. QED
      BY <3>1, <3>2, <3>3
  <2>4. h \in [Small(k) -> Int]
    BY <2>3
  <2>5. \A s \in Small(k - 1) : s \in Small(k) /\ h[s] = g[s]
    <3>1. SUFFICES ASSUME NEW s \in Small(k - 1)
                   PROVE  s \in Small(k) /\ h[s] = g[s]
      OBVIOUS
    <3>2. s \in Small(k)
      BY <1>1, <1>5
    <3>3. g[s] = IF s = {} THEN 0 ELSE f[First(s)] + g[s \ {First(s)}]
      BY <2>2 DEF Sums
    <3>4. QED
      BY <3>2, <3>3
  <2>6. \A s \in Small(k) : h[s] = IF s = {} THEN 0 ELSE f[First(s)] + h[s \ {First(s)}]
    BY <2>3, <2>5
  <2>7. Sums(h, f, Small(k))
    <3> HIDE DEF Small
    <3>1. h = [s \in Small(k) |-> h[s]]
      OBVIOUS
    <3> HIDE DEF h
    <3>2. QED
      BY <2>6, <3>1 DEF Sums
  <2>8. QED
    BY <1>5, <2>4, <2>7
<1>8. QED
  BY <1>6, <1>7

\* The sum of integers is one.
LEMMA SumIsInt ==
    ASSUME NEW f, IsFiniteSet(DOMAIN f), \A x \in DOMAIN f : f[x] \in Int
    PROVE  SumFunction(f) \in Int
<1>1. PICK g : g = (CHOOSE h : Sums(h, f, SUBSET DOMAIN f))
  OBVIOUS
<1>2. Sums(g, f, SUBSET DOMAIN f)
  BY <1>1, SumsExist
<1>3. \A s \in SUBSET DOMAIN f : IsFiniteSet(s) /\ Cardinality(s) \in Nat
  BY FS_Subset, FS_CardinalityType
<1> DEFINE C == {Cardinality(s) : s \in {u \in SUBSET DOMAIN f : g[u] \notin Int}}
<1>4. SUFFICES C = {}
  BY <1>1, SumIs
<1>5. SUFFICES ASSUME C # {} PROVE FALSE
  OBVIOUS
<1>6. PICK k \in C : \A j \in C : k <= j
  <2> HIDE DEF C
  <2>1. C \subseteq Nat
    BY <1>3 DEF C
  <2>2. QED
    BY <1>5, <2>1, LeastOf
<1>7. PICK s \in SUBSET DOMAIN f : g[s] \notin Int /\ k = Cardinality(s)
  OBVIOUS
<1>8. g[s] = IF s = {} THEN 0 ELSE f[First(s)] + g[s \ {First(s)}]
  BY <1>2 DEF Sums
<1>9. s # {}
  BY <1>7, <1>8
<1>10. /\ First(s) \in DOMAIN f /\ s \ {First(s)} \in SUBSET DOMAIN f
       /\ Cardinality(s \ {First(s)}) < k
  <2>1. /\ First(s) \in s /\ s \ {First(s)} \subseteq s
        /\ Cardinality(s) \in Nat \ {0} /\ Cardinality(s \ {First(s)}) = Cardinality(s) - 1
    BY <1>3, <1>9, OneLess
  <2>2. QED
    BY <1>7, <2>1
<1>11. g[s \ {First(s)}] \in Int
  <2>1. Cardinality(s \ {First(s)}) \notin C
    BY <1>3, <1>6, <1>7, <1>10
  <2>2. QED
    BY <1>10, <2>1
<1>12. QED
  BY <1>7, <1>8, <1>9, <1>10, <1>11

-----------------------------------------------------------------------------
(* The i-th newest bar *)

Above(S, u) == {v \in S : v > u}
NewestOf(S, i) == CHOOSE u \in S : Cardinality(Above(S, u)) = i - 1

LEMMA ClosesAre ==
    ASSUME NEW S
    PROVE  ClosesOf(S) = [i \in 1..Least(Cardinality(S), Window) |-> close[NewestOf(S, i)]]
BY DEF ClosesOf, NewestOf, Above

\* Above the least of a set are all the others.
LEMMA AboveLeast ==
    ASSUME NEW S, S \subseteq Nat, IsFiniteSet(S), NEW m \in S, \A j \in S : m <= j
    PROVE  Cardinality(Above(S, m)) = Cardinality(S) - 1
<1>1. Above(S, m) = S \ {m}
  <2>1. m \in Nat
    OBVIOUS
  <2>2. ASSUME NEW v \in S
        PROVE  v > m <=> v # m
    <3>1. v \in Nat /\ m <= v
      OBVIOUS
    <3>2. QED
      BY <2>1, <3>1
  <2>3. QED
    BY <2>2 DEF Above
<1>2. QED
  BY <1>1, FS_RemoveElement

LEMMA NewestExists ==
    ASSUME NEW S, S \subseteq Nat, IsFiniteSet(S), NEW i \in Nat, 1 <= i, i <= Cardinality(S)
    PROVE  \E u \in S : Cardinality(Above(S, u)) = i - 1
<1> DEFINE K == {n \in Nat : n >= i - 1 /\ \E u \in S : Cardinality(Above(S, u)) = n}
<1>1. Cardinality(S) \in Nat /\ S # {}
  BY FS_CardinalityType, FS_EmptySet
<1>2. PICK m \in S : \A j \in S : m <= j
  BY <1>1, LeastOf
<1>3. Cardinality(S) - 1 \in K
  <2>1. Cardinality(Above(S, m)) = Cardinality(S) - 1
    BY <1>2, AboveLeast
  <2>2. Cardinality(S) - 1 \in Nat /\ Cardinality(S) - 1 >= i - 1
    BY <1>1
  <2>3. QED
    BY <2>1, <2>2
<1>4. PICK k \in K : \A j \in K : k <= j
  <2>1. K \subseteq Nat /\ K # {}
    BY <1>3
  <2> HIDE DEF K
  <2>2. QED
    BY <2>1, LeastOf
<1>5. PICK u \in S : Cardinality(Above(S, u)) = k
  OBVIOUS
<1>6. k \in Nat /\ k >= i - 1
  OBVIOUS
<1>7. SUFFICES ASSUME k # i - 1 PROVE FALSE
  BY <1>5
<1> DEFINE A == Above(S, u)
<1>8. A \subseteq S /\ A \subseteq Nat /\ IsFiniteSet(A) /\ A # {}
  <2>1. A \subseteq S
    BY DEF Above
  <2>2. IsFiniteSet(A)
    BY <2>1, FS_Subset
  <2>3. k # 0
    BY <1>6, <1>7
  <2>4. QED
    BY <1>5, <2>1, <2>2, <2>3, FS_EmptySet
<1>9. PICK w \in A : \A j \in A : w <= j
  <2> HIDE DEF A
  <2>1. QED
    BY <1>8, LeastOf
<1>10. Above(S, w) = Above(A, w)
  <2>1. w \in Nat /\ u \in Nat /\ w > u
    BY DEF Above
  <2>2. \A v \in S : v > w => v > u
    BY <2>1
  <2>3. QED
    BY <2>2 DEF Above
<1>11. Cardinality(Above(A, w)) = k - 1
  <2> HIDE DEF A
  <2>1. Cardinality(Above(A, w)) = Cardinality(A) - 1
    BY <1>8, <1>9, AboveLeast
  <2>2. Cardinality(A) = k
    BY <1>5 DEF A
  <2>3. QED
    BY <2>1, <2>2
<1>12. k - 1 \in K
  <2>1. k - 1 \in Nat /\ k - 1 >= i - 1
    BY <1>6, <1>7
  <2>2. w \in S
    BY <1>8
  <2> HIDE DEF A
  <2>3. QED
    BY <1>10, <1>11, <2>1, <2>2
<1>13. QED
  <2> HIDE DEF K
  <2>1. ~(k <= k - 1)
    BY <1>6
  <2>2. QED
    BY <1>4, <1>12, <2>1

LEMMA NewestIs ==
    ASSUME NEW S, S \subseteq Nat, IsFiniteSet(S), NEW i \in Nat, 1 <= i, i <= Cardinality(S)
    PROVE  NewestOf(S, i) \in S /\ Cardinality(Above(S, NewestOf(S, i))) = i - 1
BY NewestExists DEF NewestOf

\* No two of a set have as many of it above them.
LEMMA NewestIsOne ==
    ASSUME NEW S, S \subseteq Nat, IsFiniteSet(S), NEW u \in S, NEW w \in S,
           Cardinality(Above(S, u)) = Cardinality(Above(S, w))
    PROVE  u = w
<1>1. ASSUME NEW a \in S, NEW b \in S, a < b
      PROVE  Cardinality(Above(S, a)) # Cardinality(Above(S, b))
  <2>1. /\ Above(S, b) \subseteq Above(S, a) /\ b \in Above(S, a) /\ b \notin Above(S, b)
    <3>1. a \in Nat /\ b \in Nat /\ b > a /\ ~(b > b)
      BY <1>1
    <3>2. ASSUME NEW v \in S, v > b
          PROVE  v > a
      <4>1. v \in Nat
        OBVIOUS
      <4>2. QED
        BY <3>1, <3>2, <4>1
    <3>3. QED
      BY <3>1, <3>2 DEF Above
  <2>2. IsFiniteSet(Above(S, a)) /\ IsFiniteSet(Above(S, b))
    <3>1. Above(S, a) \subseteq S /\ Above(S, b) \subseteq S
      BY DEF Above
    <3>2. QED
      BY <3>1, FS_Subset
  <2>3. Above(S, a) # Above(S, b)
    BY <2>1
  <2>4. QED
    BY <2>1, <2>2, <2>3, FS_Subset
<1>2. ~(u < w) /\ ~(w < u)
  BY <1>1
<1>3. QED
  BY <1>2

\* With a bar after all of S, the i-th newest is the i + 1-th.
LEMMA NewestMovesOn ==
    ASSUME NEW S, S \subseteq Nat, IsFiniteSet(S), NEW t \in Nat, \A s \in S : s < t,
           NEW i \in Nat, 1 <= i, i <= Cardinality(S)
    PROVE  NewestOf(S \cup {t}, i + 1) = NewestOf(S, i)
<1> DEFINE T == S \cup {t}  u == NewestOf(S, i)  w == NewestOf(T, i + 1)
<1>1. u \in S /\ Cardinality(Above(S, u)) = i - 1
  BY NewestIs
<1>2. T \subseteq Nat /\ IsFiniteSet(T) /\ Cardinality(T) = Cardinality(S) + 1
  <2>1. t \notin S
    OBVIOUS
  <2>2. QED
    BY <2>1, FS_AddElement
<1>3. Cardinality(S) \in Nat
  BY FS_CardinalityType
<1>4. w \in T /\ Cardinality(Above(T, w)) = i
  <2> HIDE DEF T
  <2>1. i + 1 \in Nat /\ 1 <= i + 1 /\ i + 1 <= Cardinality(T)
    BY <1>2, <1>3
  <2>2. PICK j \in Nat : j = i + 1
    BY <2>1
  <2>3. NewestOf(T, j) \in T /\ Cardinality(Above(T, NewestOf(T, j))) = j - 1
    BY <1>2, <2>1, <2>2, NewestIs
  <2>4. QED
    BY <2>2, <2>3
<1>5. Cardinality(Above(T, u)) = i
  <2> HIDE DEF u
  <2>1. Above(T, u) = Above(S, u) \cup {t} /\ t \notin Above(S, u)
    BY <1>1 DEF Above
  <2>2. IsFiniteSet(Above(S, u))
    <3>1. Above(S, u) \subseteq S
      BY DEF Above
    <3>2. QED
      BY <3>1, FS_Subset
  <2>3. Cardinality(Above(T, u)) = Cardinality(Above(S, u)) + 1
    BY <2>1, <2>2, FS_AddElement
  <2>4. QED
    BY <1>1, <2>3
<1>6. QED
  <2>1. u \in T
    BY <1>1
  <2> HIDE DEF T, u, w
  <2>2. u = w
    BY <1>2, <1>4, <1>5, <2>1, NewestIsOne
  <2>3. QED
    BY <2>2 DEF u, w, T

-----------------------------------------------------------------------------
(* Crosses *)

LEMMA ShownIs ==
    ASSUME TypeOK, NEW r, NEW t \in Nat
    PROVE  /\ Shown(bars, r, t) \subseteq Slots /\ IsFiniteSet(Shown(bars, r, t))
           /\ \A u \in Shown(bars, r, t) : u <= t
<1>1. Shown(bars, r, t) \subseteq Slots
  BY BarsAreTimed DEF Shown
<1>2. IsFiniteSet(1..Horizon)
  <2> DEFINE n == Horizon
  <2>1. n \in Int
    BY Lengths
  <2> HIDE DEF n
  <2>2. IsFiniteSet(1..n)
    BY <2>1, FS_Interval
  <2>3. QED
    BY <2>2 DEF n
<1>3. Slots \subseteq 1..Horizon
  BY DEF Slots
<1>4. QED
  BY <1>1, <1>2, <1>3, FS_Subset DEF Shown

\* The closes shown are prices, at most Window of them.
LEMMA ClosesAreShown ==
    ASSUME TypeOK, NEW S, S \subseteq Slots, IsFiniteSet(S)
    PROVE  /\ Len(ClosesOf(S)) \in Nat /\ Len(ClosesOf(S)) <= Cardinality(S)
           /\ \A i \in Nat : 1 <= i /\ i <= Len(ClosesOf(S)) =>
                 ClosesOf(S)[i] = close[NewestOf(S, i)] /\ ClosesOf(S)[i] \in Prices
<1> DEFINE L == Least(Cardinality(S), Window)
<1>1. L \in Nat /\ L <= Cardinality(S)
  BY FS_CardinalityType, ReplayAssumption DEF Least
<1>2. Len(ClosesOf(S)) = L
  <2>1. ClosesOf(S) = [i \in 1..L |-> close[NewestOf(S, i)]]
    BY ClosesAre
  <2> HIDE DEF L
  <2>2. QED
    BY <1>1, <2>1
<1>3. ASSUME NEW i \in Nat, 1 <= i, i <= L
      PROVE  ClosesOf(S)[i] = close[NewestOf(S, i)] /\ ClosesOf(S)[i] \in Prices
  <2>1. i \in 1..L
    BY <1>1, <1>3
  <2>2. ClosesOf(S)[i] = close[NewestOf(S, i)]
    <3> HIDE DEF L
    <3>1. QED
      BY <2>1, ClosesAre DEF L
  <2>3. NewestOf(S, i) \in S
    <3>1. S \subseteq Nat
      BY SlotsAreTimes
    <3>2. i <= Cardinality(S)
      BY <1>1, <1>3, FS_CardinalityType
    <3>3. QED
      BY <1>3, <3>1, <3>2, NewestIs
  <2>4. QED
    BY <2>2, <2>3 DEF TypeOK
<1>4. QED
  <2> HIDE DEF L
  <2>1. QED
    BY <1>1, <1>2, <1>3

\* A later bar is the newest, and those shown before follow it.
LEMMA ClosesMoveOn ==
    ASSUME TypeOK, NEW S, S \subseteq Slots, IsFiniteSet(S), NEW t \in Slots, \A s \in S : s < t,
           NEW i \in Nat, 1 <= i, i + 1 <= Len(ClosesOf(S \cup {t})), i <= Len(ClosesOf(S))
    PROVE  ClosesOf(S \cup {t})[i + 1] = ClosesOf(S)[i]
<1>1. S \subseteq Nat /\ t \in Nat /\ S \cup {t} \subseteq Slots /\ IsFiniteSet(S \cup {t})
  BY SlotsAreTimes, FS_AddElement
<1>2. ClosesOf(S)[i] = close[NewestOf(S, i)]
  BY ClosesAreShown
<1>3. i + 1 \in Nat /\ 1 <= i + 1
  OBVIOUS
<1>4. ClosesOf(S \cup {t})[i + 1] = close[NewestOf(S \cup {t}, i + 1)]
  BY <1>1, <1>3, ClosesAreShown
<1>5. i <= Cardinality(S)
  BY ClosesAreShown, FS_CardinalityType
<1>6. QED
  BY <1>1, <1>2, <1>4, <1>5, NewestMovesOn

LEMMA SumMovesOn ==
    ASSUME NEW c, NEW d, NEW k \in Nat, \A i \in 1..k : d[i + 1] = c[i] /\ c[i] \in Int
    PROVE  Sum(d, 2, k) = Sum(c, 1, k) /\ Sum(c, 1, k) \in Int
<1> DEFINE f == [i \in 1..k |-> c[i]]
<1>1. [i \in 1..k |-> c[1 + i - 1]] = f
  <2>1. \A i \in 1..k : 1 + i - 1 = i
    OBVIOUS
  <2>2. QED
    BY <2>1
<1>2. [i \in 1..k |-> d[2 + i - 1]] = f
  <2>1. \A i \in 1..k : 2 + i - 1 = i + 1
    OBVIOUS
  <2>2. QED
    BY <2>1
<1>3. SumFunction(f) \in Int
  <2>1. IsFiniteSet(DOMAIN f) /\ \A x \in DOMAIN f : f[x] \in Int
    <3>1. IsFiniteSet(1..k)
      BY FS_Interval
    <3>2. QED
      BY <3>1
  <2> HIDE DEF f
  <2>2. QED
    BY <2>1, SumIsInt
<1>4. QED
  <2> HIDE DEF f
  <2>1. QED
    BY <1>1, <1>2, <1>3 DEF Sum

\* A flow holds only if each of its conditions does.
LEMMA FlowIsTrue ==
    ASSUME NEW flow \in Flows, NEW history, NEW t, NEW held, NEW schedule,
           FlowOutcome(flow, history, t, held, schedule) = "TRUE", NEW i \in DOMAIN flow
    PROVE  Outcome(flow[i], history, t, held, schedule) = "TRUE"
<1> DEFINE failing == {j \in DOMAIN flow : Outcome(flow[j], history, t, held, schedule) # "TRUE"}
           k == CHOOSE j \in failing : \A l \in failing : j <= l
<1>1. SUFFICES ASSUME failing # {} PROVE FALSE
  OBVIOUS
<1>2. DOMAIN flow \subseteq Nat
  BY ReplayAssumption
<1>3. \E j \in failing : \A l \in failing : j <= l
  <2>1. failing \subseteq Nat
    BY <1>2
  <2> HIDE DEF failing
  <2>2. QED
    BY <1>1, <2>1, LeastOf
<1>4. k \in failing
  <2> HIDE DEF failing
  <2>1. QED
    BY <1>3
<1>5. FlowOutcome(flow, history, t, held, schedule) = Outcome(flow[k], history, t, held, schedule)
  BY <1>1 DEF FlowOutcome
<1>6. QED
  <2> HIDE DEF k
  <2>1. QED
    BY <1>4, <1>5

LEMMA OutcomeIsTrue ==
    ASSUME NEW step, NEW history, NEW t, NEW held, NEW schedule,
           Outcome(step, history, t, held, schedule) = "TRUE"
    PROVE  /\ Holds(step, history, t, held, schedule)
           /\ ~OffItsClock(step, history, t) /\ ~Warmup(step, history, t)
           /\ ~(step.op \in PositionOps /\ held = None)
BY DEF Outcome

LEMMA PricesAreNats == Prices \subseteq Nat \ {0}
BY ReplayAssumption

\* Bars that follow each other: the averages after the one are those before the other.
LEMMA SmaEdge ==
    ASSUME TypeOK, NEW step, step.op = "SMA_CROSS", step.n \in Nat, step.m \in 1..step.n,
           NEW t \in Slots, NEW u \in Slots, t < u,
           Shown(bars, step.resolution, u) = Shown(bars, step.resolution, t) \cup {u},
           NEW held, NEW schedule, NEW held2, NEW schedule2,
           Outcome(step, bars, t, held, schedule) = "TRUE",
           Outcome(step, bars, u, held2, schedule2) = "TRUE"
    PROVE  FALSE
<1> DEFINE S == Shown(bars, step.resolution, t)
           T == S \cup {u}
           c == ClosesOf(S)
           d == ClosesOf(T)
<1>1. /\ S \subseteq Slots /\ IsFiniteSet(S) /\ \A s \in S : s < u
      /\ T \subseteq Slots /\ IsFiniteSet(T)
  <2>1. t \in Nat /\ u \in Nat
    BY SlotsAreTimes
  <2>2. /\ S \subseteq Slots /\ IsFiniteSet(S) /\ \A s \in S : s <= t
    BY <2>1, ShownIs
  <2>3. \A s \in S : s \in Nat
    BY <2>2, SlotsAreTimes
  <2> HIDE DEF S
  <2>4. IsFiniteSet(T)
    BY <2>2, FS_AddElement
  <2>5. QED
    BY <2>1, <2>2, <2>3, <2>4
<1>2. /\ Closings(bars, step.resolution, t) = c
      /\ Closings(bars, step.resolution, u) = d
  BY ClosingsAre
<1>3. Needed(step) = step.n + 1
  BY DEF Needed
<1>4. Len(c) >= step.n + 1 /\ Len(d) >= step.n + 1 /\ Len(c) \in Nat /\ Len(d) \in Nat
  <2>1. ~Warmup(step, bars, t) /\ ~Warmup(step, bars, u)
    BY OutcomeIsTrue
  <2>2. ~(Len(c) < step.n + 1) /\ ~(Len(d) < step.n + 1)
    <3> HIDE DEF c, d
    <3>1. QED
      BY <2>1, <1>2, <1>3 DEF Warmup
  <2>3. Len(c) \in Nat /\ Len(d) \in Nat
    <3> HIDE DEF S, T
    <3>1. QED
      BY <1>1, ClosesAreShown
  <2> HIDE DEF c, d
  <2>4. QED
    BY <2>2, <2>3
<1> HIDE DEF S, T
<1>5. \A i \in 1..step.n : d[i + 1] = c[i] /\ c[i] \in Int
  <2>1. SUFFICES ASSUME NEW i \in 1..step.n
                 PROVE  d[i + 1] = c[i] /\ c[i] \in Int
    OBVIOUS
  <2>2. i \in Nat /\ 1 <= i /\ i + 1 <= Len(d) /\ i <= Len(c)
    <3> HIDE DEF c, d
    <3>1. QED
      BY <1>4, <2>1
  <2>3. d[i + 1] = c[i]
    BY <1>1, <2>2, ClosesMoveOn DEF T
  <2>4. c[i] \in Prices
    BY <1>1, <2>2, ClosesAreShown
  <2>5. \A p \in Prices : p \in Int
    BY PricesAreNats
  <2> HIDE DEF c, d
  <2>6. QED
    BY <2>3, <2>4, <2>5
<1> HIDE DEF c, d
<1> DEFINE x == Spread(c, 1, step.m, step.n)
<1>6. x \in Int /\ Spread(d, 2, step.m, step.n) = x
  <2>1. step.m \in Nat /\ \A i \in 1..step.m : i \in 1..step.n
    OBVIOUS
  <2>2. Sum(d, 2, step.n) = Sum(c, 1, step.n) /\ Sum(c, 1, step.n) \in Int
    BY <1>5, SumMovesOn
  <2>3. Sum(d, 2, step.m) = Sum(c, 1, step.m) /\ Sum(c, 1, step.m) \in Int
    BY <1>5, <2>1, SumMovesOn
  <2>4. PICK a \in Int, b \in Int : a = Sum(c, 1, step.m) /\ b = Sum(c, 1, step.n)
    BY <2>2, <2>3
  <2>5. x = a * step.n - b * step.m
    BY <2>4 DEF Spread
  <2>6. QED
    BY <2>1, <2>2, <2>3, <2>4, <2>5 DEF Spread
<1>7. IF step.how = "UP" THEN x > 0 ELSE x < 0
  <2>1. Crossed(Spread(c, 2, step.m, step.n), x, step.how)
    <3>1. Holds(step, bars, t, held, schedule)
      BY OutcomeIsTrue
    <3>2. QED
      BY <1>2, <3>1 DEF Holds
  <2>2. QED
    BY <2>1 DEF Crossed
<1>8. IF step.how = "UP" THEN x <= 0 ELSE x >= 0
  <2>1. Crossed(Spread(d, 2, step.m, step.n), Spread(d, 1, step.m, step.n), step.how)
    <3>1. Holds(step, bars, u, held2, schedule2)
      BY OutcomeIsTrue
    <3>2. QED
      BY <1>2, <3>1 DEF Holds
  <2>2. QED
    BY <1>6, <2>1 DEF Crossed
<1>9. QED
  <2> HIDE DEF x
  <2>1. QED
    BY <1>6, <1>7, <1>8

\* The RSI value of a boundary is asked for at the next as well.
LEMMA RsiEdge ==
    ASSUME TypeOK, NEW step, step.op = "RSI_CROSS", step.n \in Nat, step.resolution = "30m",
           NEW t \in Slots, NEW u \in Slots, t < u,
           Shown(bars, step.resolution, u) = Shown(bars, step.resolution, t) \cup {u},
           NEW held, NEW schedule, NEW held2, NEW schedule2,
           Outcome(step, bars, t, held, schedule) = "TRUE",
           Outcome(step, bars, u, held2, schedule2) = "TRUE"
    PROVE  FALSE
<1>1. t \in Nat /\ u \in Nat
  BY SlotsAreTimes
<1>2. <<"30m", u - 1>> \in bars
  <2>1. ~Warmup(step, bars, u)
    BY OutcomeIsTrue
  <2>2. None \notin {FeatureAt(bars, u), FeatureAt(bars, u - 1)}
    BY <2>1 DEF Warmup
  <2>3. QED
    BY <2>2 DEF FeatureAt
<1>3. u - 1 \in Shown(bars, "30m", u)
  <2>1. u - 1 <= u
    BY <1>1
  <2>2. QED
    BY <1>2, <2>1 DEF Shown
<1>4. u - 1 = t
  <2>1. u - 1 \in Shown(bars, "30m", t)
    <3>1. u - 1 # u
      BY <1>1
    <3>2. QED
      BY <1>3, <3>1
  <2>2. u - 1 <= t
    BY <1>1, <2>1, ShownIs
  <2>3. QED
    BY <1>1, <2>2
<1> DEFINE x == FeatureAt(bars, t) - step.n
<1>5. x \in Int
  <2>1. FeatureAt(bars, t) = close[t]
    BY <1>2, <1>4 DEF FeatureAt
  <2>2. close[t] \in Prices
    BY DEF TypeOK
  <2>3. PICK p \in Nat : p = close[t]
    BY <2>2, PricesAreNats
  <2>4. x = p - step.n
    BY <2>1, <2>3
  <2>5. QED
    BY <2>4
<1>6. IF step.how = "UP" THEN x > 0 ELSE x < 0
  <2>1. Holds(step, bars, t, held, schedule)
    BY OutcomeIsTrue
  <2>2. Crossed(FeatureAt(bars, t - 1) - step.n, x, step.how)
    BY <2>1 DEF Holds
  <2>3. QED
    BY <2>2 DEF Crossed
<1>7. IF step.how = "UP" THEN x <= 0 ELSE x >= 0
  <2>1. Holds(step, bars, u, held2, schedule2)
    BY OutcomeIsTrue
  <2>2. Crossed(FeatureAt(bars, u - 1) - step.n, FeatureAt(bars, u) - step.n, step.how)
    BY <2>1 DEF Holds
  <2>3. QED
    BY <1>4, <2>2 DEF Crossed
<1>8. QED
  <2> HIDE DEF x
  <2>1. QED
    BY <1>5, <1>6, <1>7

LEMMA CrossesOnce == TypeOK => CrossesAreEdges
<1>1. SUFFICES ASSUME TypeOK, NEW flow \in Flows, Len(flow) = 1,
                      flow[1].op \in {"SMA_CROSS", "RSI_CROSS"},
                      NEW t \in Evaluated, NEW u \in Latest, t < u,
                      {t, u} \subseteq Shown(bars, flow[1].resolution, now),
                      ~\E v \in Shown(bars, flow[1].resolution, now) : t < v /\ v < u,
                      OutcomeAt(flow, bars, t) = "TRUE", OutcomeAt(flow, bars, u) = "TRUE"
               PROVE  FALSE
  BY DEF CrossesAreEdges
<1> DEFINE step == flow[1]
<1>2. /\ 1 \in DOMAIN flow /\ step.n \in Nat
      /\ step.op = "SMA_CROSS" => step.m \in 1..step.n
      /\ step.op = "RSI_CROSS" => step.resolution = "30m"
  <2>1. flow \in Seq(Conditions)
    BY ReplayAssumption
  <2>2. 1 \in DOMAIN flow
    BY <1>1, <2>1
  <2>3. flow[1] \in Conditions
    BY <2>1, <2>2
  <2>4. QED
    BY <2>2, <2>3, ReplayAssumption DEF Conditions
<1>3. u = now /\ now \in Nat /\ t \in Slots /\ u \in Slots /\ t \in Nat
  <2>1. u = now /\ now \in Nat
    BY <1>1, Lengths DEF Latest, TypeOK
  <2>2. Shown(bars, flow[1].resolution, now) \subseteq Slots
    BY <1>1, <2>1, ShownIs
  <2>3. t \in Slots /\ u \in Slots
    BY <1>1, <2>2
  <2>4. QED
    BY <2>1, <2>3, SlotsAreTimes
<1>4. Shown(bars, step.resolution, u) = Shown(bars, step.resolution, t) \cup {u}
  <2> DEFINE r == step.resolution
  <2> HIDE DEF r
  <2>1. \A v \in Shown(bars, r, u) : v \in Nat /\ v <= u
    BY <1>1, <1>3, ShownIs, SlotsAreTimes
  <2>2. \A v \in Shown(bars, r, u) : v <= t \/ v = u
    <3>1. \A v \in Shown(bars, r, u) : ~(t < v /\ v < u)
      BY <1>1, <1>3 DEF r
    <3>2. QED
      BY <1>3, <2>1, <3>1
  <2>3. Shown(bars, r, t) = {v \in Shown(bars, r, u) : v <= t}
    <3>1. \A b \in bars : b[2] \in Nat
      BY <1>1, BarsAreTimed, SlotsAreTimes
    <3>2. \A b \in bars : b[2] <= t => b[2] <= u
      BY <1>1, <1>3, <3>1
    <3>3. QED
      BY <3>2 DEF Shown
  <2>4. u \in Shown(bars, r, u)
    BY <1>1, <1>3 DEF r
  <2>5. QED
    BY <2>2, <2>3, <2>4 DEF r
<1>5. /\ Outcome(step, bars, t, facts[t].position, facts[t].schedule) = "TRUE"
      /\ Outcome(step, bars, u, facts[u].position, facts[u].schedule) = "TRUE"
  BY <1>1, <1>2, FlowIsTrue DEF OutcomeAt
<1> HIDE DEF step
<1>6. CASE step.op = "SMA_CROSS"
  BY <1>1, <1>2, <1>3, <1>4, <1>5, <1>6, SmaEdge
<1>7. CASE step.op = "RSI_CROSS"
  BY <1>1, <1>2, <1>3, <1>4, <1>5, <1>7, RsiEdge
<1>8. QED
  BY <1>1, <1>6, <1>7 DEF step

-----------------------------------------------------------------------------
(* Silence *)

FactsAreTyped ==
    \A t \in DOMAIN facts :
        facts[t].position # None =>
            facts[t].position.peak \in Prices /\ facts[t].position.price \in Prices

LEMMA FactsStayTyped == FactsInv /\ FactsAreTyped /\ [Next]_vars => FactsAreTyped'
<1>1. SUFFICES ASSUME FactsInv, FactsAreTyped, [Next]_vars PROVE FactsAreTyped'
  OBVIOUS
<1>2. CASE UNCHANGED facts
  BY <1>1, <1>2 DEF FactsAreTyped
<1>3. CASE Instant
  <2>1. TypeOK /\ FillsInOrder /\ AtNow /\ FactsFollow /\ RebuiltFollows /\ TrackIsOwn
    BY <1>1 DEF FactsInv
  <2>2. PICK t \in Slots : t = Coming
    BY <1>3, <2>1, InstantIs
  <2>3. /\ DOMAIN facts' = DOMAIN facts \cup {t}
        /\ \A u \in DOMAIN facts : facts'[u] = facts[u]
        /\ facts'[t].position = PositionFacts(position', track', t)
    BY <1>3, <2>1, <2>2, InstantIs
  <2>4. ASSUME position' # None
        PROVE  facts'[t].position.peak \in Prices /\ facts'[t].position.price \in Prices
    <3>1. close' = close /\ close[t] \in Prices
      BY <1>3, <2>1 DEF Instant, TypeOK
    <3>2. track' \in Track
      BY <1>3, <2>1, <2>4, TrackStaysOwn DEF TrackIsOwn
    <3>3. facts'[t].position.peak = track'.peak /\ facts'[t].position.price = close[t]
      BY <2>3, <2>4, <3>1 DEF PositionFacts
    <3>4. QED
      BY <3>1, <3>2, <3>3 DEF Track
  <2>5. position' = None => facts'[t].position = None
    BY <2>3 DEF PositionFacts
  <2>6. QED
    BY <1>1, <2>3, <2>4, <2>5 DEF FactsAreTyped
<1>4. QED
  BY <1>1, <1>2, <1>3 DEF Next, Rebuild, vars

LEMMA FactsTyped == Spec => []FactsAreTyped
<1>1. Init => FactsAreTyped
  BY DEF Init, FactsAreTyped
<1>2. QED
  BY <1>1, FactsStayTyped, FactsInvHolds, PTL DEF Spec

\* The last close cannot be both above and below the one before.
LEMMA PricesDoNotCross ==
    ASSUME TypeOK, NEW t \in Nat, NEW held, NEW schedule,
           Outcome(Price("1d", "GT"), bars, t, held, schedule) = "TRUE",
           Outcome(Price("1d", "LT"), bars, t, held, schedule) = "TRUE"
    PROVE  FALSE
<1> DEFINE c == ClosesOf(Shown(bars, "1d", t))
<1>1. /\ \A operator : Price("1d", operator).op = "PRICE_COMPARE"
      /\ \A operator : Price("1d", operator).resolution = "1d"
      /\ Price("1d", "GT").how = "GT" /\ Price("1d", "LT").how = "LT"
  BY DEF Price, Condition
<1>2. Closings(bars, "1d", t) = c
  BY ClosingsAre
<1>3. Len(c) \in Nat /\ Len(c) >= 2
  <2>1. Len(c) \in Nat
    BY ShownIs, ClosesAreShown
  <2>2. ~Warmup(Price("1d", "GT"), bars, t)
    BY OutcomeIsTrue
  <2>3. Needed(Price("1d", "GT")) = 2
    BY <1>1 DEF Needed
  <2>4. ~(Len(c) < 2)
    <3> HIDE DEF c
    <3>1. QED
      BY <1>1, <1>2, <2>2, <2>3 DEF Warmup
  <2> HIDE DEF c
  <2>5. QED
    BY <2>1, <2>4
<1>4. c[1] \in Nat /\ c[2] \in Nat
  <2>1. /\ Shown(bars, "1d", t) \subseteq Slots /\ IsFiniteSet(Shown(bars, "1d", t))
    BY ShownIs
  <2>2. c[1] \in Prices /\ c[2] \in Prices
    BY <1>3, <2>1, ClosesAreShown
  <2> HIDE DEF c
  <2>3. QED
    BY <2>2, PricesAreNats
<1> HIDE DEF c
<1>5. Compare(c[1], "GT", c[2]) /\ Compare(c[1], "LT", c[2])
  <2>1. Holds(Price("1d", "GT"), bars, t, held, schedule) /\ Holds(Price("1d", "LT"), bars, t, held, schedule)
    BY OutcomeIsTrue
  <2>2. Compare(c[1], "GT", c[2])
    BY <1>1, <1>2, <2>1 DEF Holds
  <2>3. Compare(c[1], "LT", c[2])
    BY <1>1, <1>2, <2>1 DEF Holds
  <2>4. QED
    BY <2>2, <2>3
<1>6. c[1] > c[2] /\ c[1] < c[2]
  BY <1>5 DEF Compare
<1>7. QED
  BY <1>4, <1>6

\* A loss from the peak cannot be both at least a tenth of it and less than a twentieth.
LEMMA DrawdownsDoNotMeet ==
    ASSUME NEW history, NEW t, NEW held, NEW schedule,
           held # None => held.peak \in Prices /\ held.price \in Prices,
           Outcome(Drawdown("GTE", 10), history, t, held, schedule) = "TRUE",
           Outcome(Drawdown("LT", 5), history, t, held, schedule) = "TRUE"
    PROVE  FALSE
<1>1. /\ \A operator, n : Drawdown(operator, n).op = "DRAWDOWN_FROM_PEAK"
      /\ Drawdown("GTE", 10).how = "GTE" /\ Drawdown("GTE", 10).n = 10
      /\ Drawdown("LT", 5).how = "LT" /\ Drawdown("LT", 5).n = 5
  BY DEF Drawdown, Condition
<1>2. held # None
  BY <1>1, OutcomeIsTrue DEF PositionOps
<1>3. PICK peak \in Nat, price \in Nat : peak = held.peak /\ price = held.price
  BY <1>2, PricesAreNats
<1>4. /\ Compare(100 * (peak - price), "GTE", 10 * peak)
      /\ Compare(100 * (peak - price), "LT", 5 * peak)
  <2>1. /\ Holds(Drawdown("GTE", 10), history, t, held, schedule)
        /\ Holds(Drawdown("LT", 5), history, t, held, schedule)
    BY OutcomeIsTrue
  <2>2. Compare(100 * (peak - price), "GTE", 10 * peak)
    BY <1>1, <1>3, <2>1 DEF Holds
  <2>3. Compare(100 * (peak - price), "LT", 5 * peak)
    BY <1>1, <1>3, <2>1 DEF Holds
  <2>4. QED
    BY <2>2, <2>3
<1>5. 100 * (peak - price) >= 10 * peak /\ 100 * (peak - price) < 5 * peak
  BY <1>4 DEF Compare
<1>6. QED
  BY <1>3, <1>5

LEMMA SilentFlowsAre ==
    ASSUME NEW flow \in SilentFlows
    PROVE  \/ flow = <<Price("1d", "GT"), Price("1d", "LT")>>
           \/ flow = <<Drawdown("GTE", 10), Drawdown("LT", 5)>>
<1> DEFINE buy == <<Price("1d", "GT"), Price("1d", "LT")>>
           sell == <<Drawdown("GTE", 10), Drawdown("LT", 5)>>
           none1 == Group("no signal", "BUY", "AAPL", buy)
           none2 == Group("no signal", "SELL", "AAPL", <<Holding("1d", 1)>>)
           warn1 == Group("warning", "BUY", "AAPL", <<Price("1d", "GT")>>)
           warn2 == Group("warning", "SELL", "AAPL", sell)
<1>1. /\ ReleaseProofSamples.RELEASE_PROOF_NO_SIGNAL = {none1, none2}
      /\ ReleaseProofSamples.RELEASE_PROOF_WARNING = {warn1, warn2}
  <2> HIDE DEF buy, sell
  <2>1. QED
    BY DEF ReleaseProofSamples, buy, sell
<1> HIDE DEF buy, sell
<1>2. /\ none1.steps = buy /\ none2.container = "SELL"
      /\ warn1.container = "BUY" /\ warn2.steps = sell
  BY DEF Group
<1> HIDE DEF none1, none2, warn1, warn2
<1>3. PICK g : /\ flow = g.steps
               /\ \/ g \in {none1, none2} /\ g.container = "BUY"
                  \/ g \in {warn1, warn2} /\ g.container = "SELL"
  BY <1>1 DEF SilentFlows
<1>4. flow = buy \/ flow = sell
  BY <1>2, <1>3
<1>5. QED
  BY <1>4 DEF buy, sell

LEMMA SilenceHolds == FactsInv /\ FactsAreTyped => SilentSamplesAreSilent
<1>1. SUFFICES ASSUME FactsInv, FactsAreTyped, NEW flow \in Flows, flow \in SilentFlows,
                      NEW t \in Latest, OutcomeAt(flow, bars, t) = "TRUE"
               PROVE  FALSE
  BY DEF SilentSamplesAreSilent
<1> DEFINE held == facts[t].position  schedule == facts[t].schedule
<1>2. TypeOK /\ t \in Nat /\ t \in DOMAIN facts
  BY <1>1, Lengths DEF FactsInv, TypeOK, Latest, Evaluated
<1>3. \A i \in DOMAIN flow : Outcome(flow[i], bars, t, held, schedule) = "TRUE"
  BY <1>1, FlowIsTrue DEF OutcomeAt
<1>4. held # None => held.peak \in Prices /\ held.price \in Prices
  BY <1>1, <1>2 DEF FactsAreTyped
<1> HIDE DEF held, schedule
<1>5. CASE flow = <<Price("1d", "GT"), Price("1d", "LT")>>
  <2>1. DOMAIN flow = 1..2 /\ flow[1] = Price("1d", "GT") /\ flow[2] = Price("1d", "LT")
    BY <1>5
  <2>2. /\ Outcome(Price("1d", "GT"), bars, t, held, schedule) = "TRUE"
        /\ Outcome(Price("1d", "LT"), bars, t, held, schedule) = "TRUE"
    BY <1>3, <2>1
  <2>3. QED
    BY <1>2, <2>2, PricesDoNotCross
<1>6. CASE flow = <<Drawdown("GTE", 10), Drawdown("LT", 5)>>
  <2>1. DOMAIN flow = 1..2 /\ flow[1] = Drawdown("GTE", 10) /\ flow[2] = Drawdown("LT", 5)
    BY <1>6
  <2>2. /\ Outcome(Drawdown("GTE", 10), bars, t, held, schedule) = "TRUE"
        /\ Outcome(Drawdown("LT", 5), bars, t, held, schedule) = "TRUE"
    BY <1>3, <2>1
  <2>3. QED
    BY <1>4, <2>2, DrawdownsDoNotMeet
<1>7. QED
  BY <1>1, <1>5, <1>6, SilentFlowsAre

\* Whatever the flows, the prices, the bars missing and the fills: a day is new
\* once, a cross is an event, and a contradiction gives no signal.
THEOREM EventsAreEvents == Spec => []ReplayInvariant
<1>1. FactsInv /\ FactsAreTyped => ReplayInvariant
  BY CrossesOnce, SilenceHolds DEF FactsInv, ReplayInvariant
<1>2. QED
  BY <1>1, FactsInvHolds, FactsTyped, PTL

=============================================================================
