--------------------------- MODULE SampleCorpus ----------------------------
(***************************************************************************)
(* The strategies sample_backtest_strategies.py builds, as flows: what the *)
(* semantic document says, without labels and editor layout.               *)
(***************************************************************************)
EXTENDS Sequences, Naturals

Resolutions == {"30m", "1h", "4h", "1d"}
NoResolution == ""

\* how: operator or direction; to: reference, base or unit; n: the number the
\* condition compares with, be it a threshold, a period or an amount; m: the
\* shorter period of a cross.
Condition(op, resolution, how, to, n) ==
    [op |-> op, resolution |-> resolution, how |-> how, to |-> to, n |-> n,
     m |-> 0]

Conditions == [op : STRING, resolution : Resolutions \cup {NoResolution},
               how : STRING, to : STRING, n : Nat, m : Nat]

\* A card for one instrument: its conditions, passed one after the other, end
\* in an order.  section stands for the editor section the card is in.
Group(section, container, instrument, steps) ==
    [section |-> section, container |-> container, instrument |-> instrument,
     steps |-> steps]

Price(resolution, operator) ==
    Condition("PRICE_COMPARE", resolution, operator, "PREVIOUS_CLOSE", 0)
Holding(resolution, n) ==
    Condition("HOLDING_PERIOD", resolution, "GTE", "BAR", n)
Streak(direction, n) == Condition("STREAK", "30m", direction, "", n)
VolumeConfirm(resolution) ==
    Condition("VOLUME_COMPARE", resolution, "GTE", "AVERAGE_VOLUME", 20)
VolumeGuard(resolution) ==
    Condition("VOLUME_COMPARE", resolution, "GTE", "PREVIOUS_VOLUME", 1)
Schedule == Condition("SCHEDULE", "30m", "EVERY_TRADING_DAY", "", 1)
Drawdown(operator, n) ==
    Condition("DRAWDOWN_FROM_PEAK", NoResolution, operator, "", n)
Return(direction, n) ==
    Condition("POSITION_RETURN", NoResolution, direction, "", n)
SmaCross(resolution, direction, short, long) ==
    [Condition("SMA_CROSS", resolution, direction, "", long) EXCEPT !.m = short]

\* The three editable samples: the same two cards for each of its symbols.
Sample(section, symbols, buy, sell) ==
    {Group(section, "BUY", s, buy) : s \in symbols}
        \cup {Group(section, "SELL", s, sell) : s \in symbols}

EditableSamples == [
    AAPL_MOMENTUM_REVERSAL |-> Sample("momentum", {"AAPL"},
        <<Price("30m", "GT"), VolumeConfirm("30m")>>,
        <<Holding("30m", 65), Price("30m", "LT")>>),
    MSFT_STREAK_REVERSAL |-> Sample("streak", {"MSFT"},
        <<Streak("UP", 2), VolumeConfirm("30m")>>,
        <<Holding("30m", 65), Price("30m", "LT")>>),
    LIQUID_MULTI_ASSET_CYCLE |-> Sample("cycle", {"SPY", "QQQ"},
        <<Price("30m", "GT"), Streak("UP", 2)>>,
        <<Holding("30m", 65), Streak("DOWN", 2)>>)]

\* Every block of the catalog, each the target of a card of its own beside a
\* guard that nearly always holds; each symbol has its own resolution.
Targets == [
    AAPL |-> [resolution |-> "30m",
        buy |-> {Schedule, Price("30m", "GT"),
                 Condition("PRICE_CHANGE_PERCENT", "30m", "UP",
                           "PREVIOUS_CLOSE", 0)},
        sell |-> {Return("LOSS", 0), Holding("30m", 1)}],
    MSFT |-> [resolution |-> "1h",
        buy |-> {VolumeConfirm("1h"), Condition("STREAK", "1h", "UP", "", 2)},
        sell |-> {Condition("PEAK_RETURN", NoResolution, "GTE", "", 0)}],
    META |-> [resolution |-> "4h",
        buy |-> {SmaCross("4h", "UP", 5, 20),
                 Condition("RSI_CROSS", "4h", "UP", "RSI_14", 30)},
        sell |-> {Drawdown("GTE", 0)}],
    NVDA |-> [resolution |-> "1d",
        buy |-> {Condition("MACD_CROSS", "1d", "UP", "12/26/9", 37),
                 Condition("BOLLINGER_REVERSAL", "1d", "UP", "2", 20)},
        sell |-> {Condition("HOLDING_PERIOD", "1d", "GTE", "TRADING_DAY",
                            1)}]]

Guard(target, resolution) ==
    IF target.op = "PRICE_COMPARE" THEN VolumeGuard(resolution)
                                   ELSE Price(resolution, "NEQ")

FullCatalog ==
    UNION {LET t == Targets[s]
               Card(container, target) ==
                   Group(s, container, s, <<target, Guard(target, t.resolution)>>)
           IN {Card("BUY", c) : c \in t.buy} \cup {Card("SELL", c) : c \in t.sell}
           : s \in DOMAIN Targets}

\* The corpus of the release proof.
Single(section, instrument, resolution) ==
    {Group(section, "BUY", instrument, <<Price(resolution, "GT")>>),
     Group(section, "SELL", instrument, <<Holding(resolution, 1)>>)}

ReleaseProofSamples == [
    RELEASE_PROOF_SINGLE_CLOCK |-> Single("single", "AAPL", "1d"),
    RELEASE_PROOF_MIXED_CLOCK |->
        Single("mixed", "AAPL", "30m") \cup Single("mixed", "MSFT", "1d"),
    FULL_CATALOG_MIXED_RESOLUTION |-> FullCatalog,
    RELEASE_PROOF_WARNING |->
        {Group("warning", "BUY", "AAPL", <<Price("1d", "GT")>>),
         Group("warning", "SELL", "AAPL",
               <<Drawdown("GTE", 10), Drawdown("LT", 5)>>)},
    RELEASE_PROOF_NO_SIGNAL |->
        {Group("no signal", "BUY", "AAPL",
               <<Price("1d", "GT"), Price("1d", "LT")>>),
         Group("no signal", "SELL", "AAPL", <<Holding("1d", 1)>>)},
    RELEASE_PROOF_UNAVAILABLE_AMBIGUOUS_CLOCK |->
        {Group("unavailable", "BUY", "AAPL", <<Price("30m", "GT")>>),
         Group("unavailable", "BUY", "AAPL", <<Price("1d", "GT")>>),
         Group("unavailable", "SELL", "AAPL", <<Return("PROFIT", 1)>>)}]

\* build_samples
LocalSamples ==
    {EditableSamples[k] : k \in DOMAIN EditableSamples} \cup {FullCatalog}

\* Fault: a condition without a resolution counts as one more clock.
ExplicitOrNone(steps) == {steps[i].resolution : i \in DOMAIN steps}

\* The resolutions a flow names itself
Explicit(steps) ==
    {steps[i].resolution : i \in DOMAIN steps} \ {NoResolution}

=============================================================================
