--------------------------- MODULE TriggerReplay ---------------------------
(***************************************************************************)
(* What a condition of a flow sees at each instant of a replay: the bars   *)
(* that have ended, the position as fills left it and the trading day.     *)
(* The oracle keeps these facts while it replays; build_trigger_contexts   *)
(* makes them again from the stored fills.                                 *)
(*                                                                         *)
(* One instrument with 30m bars and one long bar a session.  A session     *)
(* opens at a multiple of SessionLength; a closed stretch follows its last *)
(* bar.  How fills come about is in module ExecutionBook; here any bar that *)
(* may fill may open, change or close the position, and what is filled of  *)
(* a bar counts as one fill.  The volume, MACD and Bollinger conditions    *)
(* are left out, and RSI values are stood in for by the closes of their    *)
(* bars.                                                                   *)
(***************************************************************************)
EXTENDS SampleCorpus, Integers, FiniteSets, Functions

CONSTANTS
    Flows,              \* steps of the flows that are evaluated
    Prices,
    MissingBars,        \* which bars a history may lack
    InstantsPerSession,
    Sessions,           \* bound: trading days of the run
    Week, Month,        \* of each trading day
    Window,             \* how many bars a condition is shown
    MaxFills,           \* bound: fills of a run
    None

ASSUME ReplayAssumption ==
    /\ Prices \subseteq Nat \ {0}
    /\ InstantsPerSession \in Nat \ {0} /\ Sessions \in Nat \ {0}
    /\ Window \in Nat \ {0} /\ MaxFills \in Nat
    /\ Flows \subseteq Seq(Conditions)
    /\ \A flow \in Flows : \A i \in DOMAIN flow :
          /\ flow[i].op = "SMA_CROSS" => flow[i].m \in 1..flow[i].n
          /\ flow[i].op = "RSI_CROSS" => flow[i].resolution = "30m"

SessionLength == InstantsPerSession + 1
Days == 0..(Sessions - 1)
Day(t) == t \div SessionLength
Opens(d) == d * SessionLength
Closes(d) == Opens(d) + InstantsPerSession
Horizon == Closes(Sessions - 1)
Slots == {t \in 1..Horizon : t % SessionLength # 0}

Long == "1d"
Grid == ({"30m"} \X Slots) \cup ({Long} \X {Closes(d) : d \in Days})
StartOf(bar) == IF bar[1] = Long THEN Opens(Day(bar[2])) ELSE bar[2] - 1

VARIABLES
    close,      \* the closing price of each bar of the grid
    bars,       \* the bars the history has
    now,
    position,   \* its average price and the cycle it belongs to, or None
    track,      \* peak and bars counted since the cycle was first seen
    lastDay,    \* last_schedule_date
    fills,      \* fill_states: after each fill, when, and the position
    facts,      \* history: what the loop saw at each instant
    rebuilt     \* the same from build_trigger_contexts, as far as it has come

vars == <<close, bars, now, position, track, lastDay, fills, facts, rebuilt>>

Position == [average : Prices, cycle : 0..Horizon]
Track == [cycle : 0..Horizon, peak : Prices, bars : [{"30m", Long} -> Nat]]

ASSUME NoneAssumption == None \notin Prices \cup Position \cup Track

TypeOK ==
    /\ close \in [Slots -> Prices]
    /\ bars \subseteq Grid
    /\ now \in 0..Horizon
    /\ position \in {None} \cup Position
    /\ track = None \/ (track \in Track /\ position # None)
    /\ lastDay \in {-1} \cup Days
    /\ \A i \in DOMAIN fills : fills[i].at \in Slots /\ fills[i].at <= now
    /\ DOMAIN facts \subseteq 1..now
    /\ rebuilt.now \in 0..Horizon

Init ==
    /\ close \in [Slots -> Prices]
    /\ \E lacking \in MissingBars : bars = Grid \ lacking
    /\ now = 0 /\ position = None /\ track = None /\ lastDay = -1
    /\ fills = <<>>
    /\ facts = [t \in {} |-> None]
    /\ rebuilt = [now |-> 0, position |-> None, track |-> None, lastDay |-> -1,
                  cursor |-> 1, facts |-> [t \in {} |-> None]]

-----------------------------------------------------------------------------
(* Time                                                                    *)

Ending(t) == {b \in bars : b[2] = t}
Instants == {b[2] : b \in bars}
NextAfter(t) == CHOOSE u \in Instants :
                   u > t /\ \A v \in Instants : v > t => u <= v

RequiredSeries == UNION {Explicit(f) : f \in Flows}

Covered(r, t) ==
    \E b \in bars : b[1] = r /\ StartOf(b) <= t /\ t < b[2]

\* exact_stage_allowed: while the market is open, every required series has a
\* bar around the instant.
Allowed(t) ==
    Opens(Day(t)) <= t /\ t < Closes(Day(t)) => \A r \in RequiredSeries : Covered(r, t)

MayFill(b) ==
    Allowed(IF b[2] < Closes(Day(b[2])) THEN b[2] ELSE StartOf(b))

-----------------------------------------------------------------------------
(* The facts                                                               *)

Larger(a, b) == IF a > b THEN a ELSE b
Least(a, b) == IF a < b THEN a ELSE b

\* Fault: the count of bars starts with the bar after the opening one.
TrackedLate(old, held, t) ==
    IF held = None THEN None
    ELSE IF old # None /\ old.cycle = held.cycle
         THEN [old EXCEPT
                 !.peak = Larger(@, close[t]),
                 !.bars = [r \in DOMAIN @ |->
                              IF <<r, t>> \in bars THEN @[r] + 1 ELSE @[r]]]
         ELSE [cycle |-> held.cycle, peak |-> Larger(held.average, close[t]),
               bars |-> [r \in {"30m", Long} |-> 0]]

\* Fault: a new cycle goes on with the peak of the one before.
TrackedAcross(old, held, t) ==
    IF held = None THEN old
    ELSE [cycle |-> held.cycle,
          peak |-> Larger(IF old = None THEN held.average ELSE old.peak,
                          close[t]),
          bars |-> [r \in {"30m", Long} |->
                      (IF old = None THEN 0 ELSE old.bars[r])
                          + (IF <<r, t>> \in bars THEN 1 ELSE 0)]]

\* tracked_cycle, peak_price and holding_bars with the bars that end now
Tracked(old, held, t) ==
    LET fresh == [cycle |-> held.cycle, peak |-> held.average,
                  bars |-> [r \in {"30m", Long} |-> 0]]
        kept == IF old # None /\ old.cycle = held.cycle THEN old ELSE fresh
    IN  IF held = None THEN None
        ELSE [kept EXCEPT
                !.peak = Larger(@, close[t]),
                !.bars = [r \in DOMAIN @ |->
                             IF <<r, t>> \in bars THEN @[r] + 1 ELSE @[r]]]

PositionFacts(held, tracked, t) ==
    IF held = None THEN None
    ELSE [average |-> held.average, price |-> close[t], peak |-> tracked.peak,
          days |-> Day(t) - Day(held.cycle), bars |-> tracked.bars]

ScheduleFacts(t, last) ==
    LET d == Day(t)
        newDay == last # d
    IN  [sessionClose |-> t >= Closes(d), newTradingDay |-> newDay,
         index |-> d + 1,
         weekFirst |-> newDay /\ (d = 0 \/ Week[d - 1] # Week[d]),
         monthFirst |-> newDay /\ (d = 0 \/ Month[d - 1] # Month[d]),
         monthLast |-> newDay /\ (d = Sessions - 1 \/ Month[d + 1] # Month[d])]

-----------------------------------------------------------------------------
(* The conditions.  An outcome is TRUE, FALSE, or WARMUP if there is too    *)
(* little history; a position condition without one is INPUT_MISSING.      *)

\* Fault: a bar is shown from its start on.
ShownEarly(history, r, t) ==
    {b[2] : b \in {c \in history : c[1] = r /\ StartOf(c) <= t}}

\* When the bars ended that a condition is shown
Shown(history, r, t) == {b[2] : b \in {c \in history : c[1] = r /\ c[2] <= t}}

\* Their closing prices, the newest first
Closings(history, r, t) ==
    LET all == Shown(history, r, t)
        newest(i) == CHOOSE u \in all : Cardinality({v \in all : v > u}) = i - 1
    IN  [i \in 1..Least(Cardinality(all), Window) |-> close[newest(i)]]

Compare(a, operator, b) ==
    [LT |-> a < b, LTE |-> a <= b, GT |-> a > b, GTE |-> a >= b,
     EQ |-> a = b, NEQ |-> a # b][operator]

Sum(c, from, n) == SumFunction([i \in 1..n |-> c[from + i - 1]])
Rising(c, i, direction) ==
    IF direction = "UP" THEN c[i] > c[i + 1] ELSE c[i] < c[i + 1]

\* Short average against long average, over the bars from the i-th newest on
Spread(c, i, short, long) == Sum(c, i, short) * long - Sum(c, i, long) * short

\* Fault: the cross is not asked where the averages were before.
CrossedAbove(before, after, direction) ==
    IF direction = "UP" THEN after > 0 ELSE after < 0

Crossed(before, after, direction) ==
    IF direction = "UP" THEN before <= 0 /\ after > 0
                        ELSE before >= 0 /\ after < 0

\* The RSI value of the bar that started less than a bar before the boundary
FeatureAt(history, boundary) ==
    IF <<"30m", boundary>> \in history THEN close[boundary] ELSE None

Needed(step) ==
    CASE step.op \in {"PRICE_COMPARE", "PRICE_CHANGE_PERCENT"} -> 2
      [] step.op \in {"STREAK", "SMA_CROSS"} -> step.n + 1
      [] OTHER -> 0

PositionOps ==
    {"POSITION_RETURN", "HOLDING_PERIOD", "PEAK_RETURN", "DRAWDOWN_FROM_PEAK"}

Held(step, held, schedule) ==
    \/ step.to = "BAR" /\ held.bars[step.resolution] >= step.n
    \/ step.to = "TRADING_DAY" /\ held.days >= step.n
    \/ step.to = "SESSION_CLOSE" /\ schedule.sessionClose

OnSchedule(interval, schedule) == [
    EVERY_TRADING_DAY |-> schedule.newTradingDay,
    WEEK_FIRST_TRADING_DAY |-> schedule.weekFirst,
    MONTH_FIRST_TRADING_DAY |-> schedule.monthFirst,
    MONTH_LAST_TRADING_DAY |-> schedule.monthLast,
    EVERY_N_TRADING_DAYS |-> /\ schedule.newTradingDay
                             /\ (schedule.index - 1) % interval = 0]

\* evaluate_trigger_step on a condition that has the facts it needs
Holds(step, history, t, held, schedule) ==
    LET c == Closings(history, step.resolution, t)
    IN  CASE step.op = "PRICE_COMPARE" -> Compare(c[1], step.how, c[2])
          [] step.op = "PRICE_CHANGE_PERCENT" ->
                IF step.how = "UP" THEN 100 * (c[1] - c[2]) >= step.n * c[2]
                                   ELSE 100 * (c[2] - c[1]) >= step.n * c[2]
          [] step.op = "STREAK" ->
                \A i \in 1..step.n : Rising(c, i, step.how)
          [] step.op = "SMA_CROSS" ->
                Crossed(Spread(c, 2, step.m, step.n),
                        Spread(c, 1, step.m, step.n), step.how)
          [] step.op = "RSI_CROSS" ->
                Crossed(FeatureAt(history, t - 1) - step.n,
                        FeatureAt(history, t) - step.n, step.how)
          [] step.op = "POSITION_RETURN" ->
                IF step.how = "PROFIT"
                THEN 100 * (held.price - held.average) >= step.n * held.average
                ELSE 100 * (held.average - held.price) >= step.n * held.average
          [] step.op = "PEAK_RETURN" ->
                Compare(100 * (held.peak - held.average), step.how,
                        step.n * held.average)
          [] step.op = "DRAWDOWN_FROM_PEAK" ->
                Compare(100 * (held.peak - held.price), step.how,
                        step.n * held.peak)
          [] step.op = "HOLDING_PERIOD" -> Held(step, held, schedule)
          [] step.op = "SCHEDULE" -> OnSchedule(step.n, schedule)[step.how]

\* A condition on a clock is asked only when a bar of that clock ends.
OffItsClock(step, history, t) ==
    /\ step.resolution # NoResolution
    /\ step.op \notin {"HOLDING_PERIOD", "SCHEDULE"}
    /\ t \notin Shown(history, step.resolution, t)

Warmup(step, history, t) ==
    IF step.op = "RSI_CROSS"
    THEN None \in {FeatureAt(history, t), FeatureAt(history, t - 1)}
    ELSE Len(Closings(history, step.resolution, t)) < Needed(step)

Outcome(step, history, t, held, schedule) ==
    IF step.op \in PositionOps /\ held = None THEN "INPUT_MISSING"
    ELSE IF OffItsClock(step, history, t) THEN "FALSE"
    ELSE IF Warmup(step, history, t) THEN "WARMUP"
    ELSE IF Holds(step, history, t, held, schedule) THEN "TRUE"
    ELSE "FALSE"

\* Fault: one condition is enough.
FlowOutcomeAny(flow, history, t, held, schedule) ==
    IF \E i \in DOMAIN flow :
           Outcome(flow[i], history, t, held, schedule) = "TRUE"
    THEN "TRUE" ELSE "FALSE"

\* The outcome of a flow is that of its first condition that is not TRUE.
FlowOutcome(flow, history, t, held, schedule) ==
    LET outcome(i) == Outcome(flow[i], history, t, held, schedule)
        failing == {i \in DOMAIN flow : outcome(i) # "TRUE"}
    IN  IF failing = {} THEN "TRUE"
        ELSE outcome(CHOOSE i \in failing : \A j \in failing : i <= j)

-----------------------------------------------------------------------------
(* The loop of independent_execution_oracle                                *)

\* What a bar's fills may make of what is held.  Only what was held before the
\* instant can be sold.
After(b, held) ==
    IF held = None
    THEN {[average |-> p, cycle |-> StartOf(b)] : p \in Prices}
    ELSE {[held EXCEPT !.average = p] : p \in Prices}
         \cup IF position = None THEN {} ELSE {None}

FillsOf(b, held) ==
    {<<>>} \cup IF b \in Ending(b[2]) /\ MayFill(b)
               THEN {<<[at |-> b[2], position |-> p]>> : p \in After(b, held)}
               ELSE {}

LeftBy(held, made) == IF made = <<>> THEN held ELSE made[1].position

\* The bars that end at one instant fill one after the other, the shorter first.
Fill(t) ==
    \E first \in FillsOf(<<"30m", t>>, position) :
    \E second \in FillsOf(<<Long, t>>, LeftBy(position, first)) :
        /\ Len(fills) + Len(first) + Len(second) <= MaxFills
        /\ fills' = fills \o first \o second
        /\ position' = LeftBy(LeftBy(position, first), second)

\* Fault: the day counts as seen though its instants were skipped.
SeenAnyway(t) == Day(t)

\* Only an instant that is evaluated makes its day the last one seen.
Seen(t) == IF Allowed(t) THEN Day(t) ELSE lastDay

Instant ==
    /\ \E u \in Instants : u > now
    /\ LET t == NextAfter(now)
       IN  /\ now' = t
           /\ Fill(t)
           /\ track' = Tracked(track, position', t)
           /\ lastDay' = Seen(t)
           /\ facts' = [u \in DOMAIN facts \cup {t} |->
                 IF u \in DOMAIN facts THEN facts[u]
                 ELSE [position |-> PositionFacts(position', track', t),
                       schedule |-> ScheduleFacts(t, lastDay),
                       evaluated |-> Allowed(t)]]
    /\ UNCHANGED <<close, bars, rebuilt>>

-----------------------------------------------------------------------------
(* build_trigger_contexts, once the fills are known                        *)

\* Fault: a fill counts from the instant after it.
AppliedAtLate(t) ==
    Cardinality({i \in DOMAIN fills : fills[i].at < t}) + 1

\* state_cursor after the fills up to this instant were applied
AppliedAt(t) == Cardinality({i \in DOMAIN fills : fills[i].at <= t}) + 1

Rebuild ==
    /\ \A u \in Instants : u <= now
    /\ \E u \in Instants : u > rebuilt.now
    /\ LET t == NextAfter(rebuilt.now)
           cursor == AppliedAt(t)
           held == IF cursor = rebuilt.cursor THEN rebuilt.position
                   ELSE fills[cursor - 1].position
           tracked == Tracked(rebuilt.track, held, t)
       IN  rebuilt' =
             [now |-> t, position |-> held, track |-> tracked,
              lastDay |-> Day(t), cursor |-> cursor,
              facts |-> [u \in DOMAIN rebuilt.facts \cup {t} |->
                 IF u \in DOMAIN rebuilt.facts THEN rebuilt.facts[u]
                 ELSE [position |-> PositionFacts(held, tracked, t),
                       schedule |-> ScheduleFacts(t, rebuilt.lastDay)]]]
    /\ UNCHANGED <<close, bars, now, position, track, lastDay, fills, facts>>

Next == Instant \/ Rebuild

Spec == Init /\ [][Next]_vars

-----------------------------------------------------------------------------

\* The position inputs rebuilt from the stored fills are, at every instant,
\* those the replay had when its conditions were evaluated.
PositionsAgree ==
    \A t \in DOMAIN rebuilt.facts :
        rebuilt.facts[t].position = facts[t].position

Evaluated == {t \in DOMAIN facts : facts[t].evaluated}

\* Each trading day is new to the conditions exactly once, at its first
\* instant that is evaluated, whatever instants a gap suppresses.
EachDayIsNewOnce ==
    \A t \in Evaluated :
        facts[t].schedule.newTradingDay <=>
            \A u \in Evaluated : Day(u) = Day(t) => t <= u

\* The fills that opened a position, and those among them that opened it again
\* at the instant it was closed at, with the opening instant it had had
Openings ==
    {i \in DOMAIN fills :
        fills[i].position # None /\ (i = 1 \/ fills[i - 1].position = None)}
Resumptions ==
    {i \in Openings : /\ i > 2 /\ fills[i - 1].at = fills[i].at
                      /\ fills[i - 2].position.cycle = fills[i].position.cycle}

Newest(S) == CHOOSE i \in S : \A j \in S : j <= i

\* The peak of a position is the highest of its first average price and of the
\* closes since, and its holding period counts every bar since, the entry bar
\* included; nothing of an earlier position remains, unless this one resumed it.
PeakAndHoldingAreOwn ==
    position # None =>
        LET began == fills[Newest(Openings \ Resumptions)].at
            left == fills[Newest({i \in DOMAIN fills : fills[i].at = began})].position
            since == {t \in Instants : began <= t /\ t <= now}
        IN  /\ \A t \in since : close[t] <= track.peak
            /\ track.peak \in {left.average} \cup {close[t] : t \in since}
            /\ left.average <= track.peak
            /\ \A r \in {"30m", Long} :
                  track.bars[r] =
                      Cardinality({b \in bars : b[1] = r /\ b[2] \in since})

\* The instant just evaluated: what was so at an earlier one stays so, and
\* rebuilding changes nothing of it
Latest == {t \in Evaluated : t = now /\ rebuilt.now = 0}

OutcomeAt(flow, history, t) ==
    FlowOutcome(flow, history, t, facts[t].position, facts[t].schedule)

\* No outcome depends on a bar that ends later: without those bars it is the
\* same.
NoHindsight ==
    \A flow \in Flows : \A t \in Latest :
        OutcomeAt(flow, bars, t)
            = OutcomeAt(flow, {b \in bars : b[2] <= t}, t)

\* A cross is an event: two bars of its clock that follow each other never
\* both make it, in either direction.
CrossesAreEdges ==
    \A flow \in Flows :
        (Len(flow) = 1 /\ flow[1].op \in {"SMA_CROSS", "RSI_CROSS"}) =>
            \A t \in Evaluated, u \in Latest :
                /\ t < u
                /\ {t, u} \subseteq Shown(bars, flow[1].resolution, now)
                /\ ~\E v \in Shown(bars, flow[1].resolution, now) : t < v /\ v < u
                => ~(OutcomeAt(flow, bars, t) = "TRUE"
                        /\ OutcomeAt(flow, bars, u) = "TRUE")

\* The sample that is there to give no signal never buys, and the one that is
\* there for its warning never sells, on any market.
SilentFlows ==
    {g.steps : g \in {h \in ReleaseProofSamples.RELEASE_PROOF_NO_SIGNAL
                         : h.container = "BUY"}
                 \cup {h \in ReleaseProofSamples.RELEASE_PROOF_WARNING
                         : h.container = "SELL"}}

SilentSamplesAreSilent ==
    \A flow \in Flows \cap SilentFlows : \A t \in Latest :
        OutcomeAt(flow, bars, t) # "TRUE"

\* The replay is typed, and conditions that stand for an event (a new day, a
\* cross, a contradiction's silence) hold when it happens and only then.
ReplayInvariant ==
    /\ TypeOK
    /\ EachDayIsNewOnce
    /\ CrossesAreEdges
    /\ SilentSamplesAreSilent

=============================================================================
