--------------------------- MODULE ExecutionGates ---------------------------
(***************************************************************************)
(* Which conditions become order attempts in independent_execution_oracle: *)
(* the gate of a flow and an instrument counts its attempts, waits between *)
(* them, and is dropped when the instrument's position cycle is seen to    *)
(* have changed.                                                           *)
(*                                                                         *)
(* Abstractions.  An instant is a number, and so is the time a bar starts: *)
(* that of the instant, or of the session's opening, it starts at.  Bars   *)
(* come in lengths, several for one instrument.  What a condition          *)
(* evaluates to is open, and so is which of the orders a bar could fill it *)
(* fills; how much is in module ExecutionBook.                             *)
(***************************************************************************)
EXTENDS Integers, FiniteSets

CONSTANTS
    Instruments,
    Flows,              \* the flows whose gates are followed
    OtherSides,         \* the sides on which other flows may place orders
    Terminals,          \* what a flow's EMIT_ORDER_CANDIDATE may say
    BarLengths,         \* the sets of lengths an instrument's bars may have
    OtherLengths,       \* those of the strategy's other instruments
    InstantsPerSession,
    Sessions            \* bound: how many sessions the run has

ASSUME BarsAssumption ==
    /\ BarLengths \subseteq SUBSET (Nat \ {0}) /\ OtherLengths \subseteq Nat \ {0}
    /\ OtherSides \subseteq {"BUY", "SELL"}
    /\ InstantsPerSession \in Nat \ {0} /\ Sessions \in Nat \ {0}

VARIABLES
    terminal,   \* of each flow
    lengths,    \* of each instrument's bars
    now,
    evaluated,  \* the last instant that was no gap
    cycle,      \* opened_cycles: the start of the bar that opened a position
    working,    \* the orders an instrument has open
    identity,   \* position_gate_identities
    gates,
    todo,       \* flows and instruments whose gates are still to be asked
    log,        \* history: evaluations since the position cycle began
    blind,      \* history: an evaluation found the position without a bar
    unnoticed   \* history: the position looked as it did before the cycle

history == <<log, blind, unnoticed>>
market == <<terminal, lengths, now, evaluated, cycle, identity>>
vars == <<market, working, gates, todo, history>>

-----------------------------------------------------------------------------

None == -1
Pairs == Flows \X Instruments
Horizon == Sessions * InstantsPerSession

\* Instants are numbered from 1; the last of a session is its close.
Day(t) == (t - 1) \div InstantsPerSession
AtClose(t) == t % InstantsPerSession = 0

\* The opening of a session and the close of the one before are one number.
Opening(t) == Day(t) * InstantsPerSession

\* A session's last bar ends with it, however short.
Ends(t, length) == AtClose(t) \/ (t - Opening(t)) % length = 0
StartOf(t, length) == Opening(t) + (((t - Opening(t)) - 1) \div length) * length

\* The session a candidate of this instant is for
CandidateDay == IF AtClose(now) THEN Day(now) + 1 ELSE Day(now)

Outcomes == {"TRUE", "FALSE", "UNKNOWN"}    \* UNKNOWN: WARMUP, INPUT_MISSING
Sides == {"BUY", "SELL"}

FreshGate == [executions |-> 0, bars |-> 0, session |-> None, rearmed |-> TRUE]

Terminal == [mode : {"once", "every time", "wait"},
             wait : {"rearmed", "bars", "sessions"},
             interval : Nat, most : Nat, side : Sides]

Gate == [executions : Nat, bars : Nat, rearmed : BOOLEAN,
         session : {None} \cup 0..(Sessions - 1)]

Entry == [at : 1..Horizon, outcome : Outcomes, attempt : BOOLEAN,
          day : 0..(Sessions - 1)]

Order == [side : Sides, at : 1..Horizon]

Cycle == {None} \cup 0..(Horizon - 1)

TypeOK ==
    /\ terminal \in [Flows -> Terminal]
    /\ lengths \in [Instruments -> SUBSET (Nat \ {0})]
    /\ now \in 0..Horizon /\ evaluated \in 0..now
    /\ cycle \in [Instruments -> Cycle]
    /\ working \in [Instruments -> SUBSET Order]
    /\ identity \in [Instruments -> Cycle]
    /\ gates \in [Pairs -> Gate]
    /\ todo \subseteq Pairs
    /\ log \in [Pairs -> SUBSET Entry]
    /\ blind \in [Instruments -> BOOLEAN]
    /\ unnoticed \in [Instruments -> BOOLEAN]

Init ==
    /\ terminal \in [Flows -> Terminals]
    /\ lengths \in [Instruments -> BarLengths]
    /\ now = 0 /\ evaluated = 0
    /\ cycle = [i \in Instruments |-> None]
    /\ working = [i \in Instruments |-> {}]
    /\ identity = [i \in Instruments |-> None]
    /\ gates = [p \in Pairs |-> FreshGate]
    /\ todo = {}
    /\ log = [p \in Pairs |-> {}]
    /\ blind = [i \in Instruments |-> FALSE]
    /\ unnoticed = [i \in Instruments |-> FALSE]

-----------------------------------------------------------------------------
(* Instants *)

\* An instant is a gap unless each series has a bar that covers it.  So the
\* bar that ends now is there if one of the instants it covers was none.
MayLack(t, length) == evaluated <= Opening(t) \/ evaluated < StartOf(t, length)

\* What bars of these lengths may end at an instant
Endings(t, all) ==
    {some \in SUBSET {l \in all : Ends(t, l)} :
        \A l \in all : Ends(t, l) /\ l \notin some => MayLack(t, l)}

\* Whether one of these bars finds an order: made before it started, and for
\* its session
Fills(t, some, order) ==
    \E l \in some : Opening(t) <= order.at /\ order.at <= StartOf(t, l)

\* What the fills of an instant make of a position, and whether its cycle has
\* turned: opened by a bar and named by that bar's start, closed, or closed by
\* one bar and opened again by a longer one, which started earlier.
CyclesAfter(i, t, some) ==
    LET finding(side) ==
            {l \in some : \E order \in working[i] :
                              order.side = side /\ Fills(t, {l}, order)} IN
    {<<cycle[i], FALSE>>}
    \cup IF cycle[i] = None THEN {<<StartOf(t, l), TRUE>> : l \in finding("BUY")}
         ELSE {<<None, TRUE>> : l \in finding("SELL")}
              \cup {<<StartOf(t, l), TRUE>> :
                        l \in {m \in finding("BUY") : \E k \in finding("SELL") : k < m}}

\* The orders open after an instant: those of its session no bar found, unless
\* the session is over, perhaps some that were filled in part, and those other
\* flows have made.  A SELL order is only open for shares that are held.
OrdersAfter(i, t, some, held) ==
    LET left == {order \in working[i] : ~AtClose(t) /\ order.at >= Opening(t)}
        joined == [side : OtherSides, at : {t}]
        kept == {order \in left : ~Fills(t, some, order)}
        sound(orders) == {order \in orders : order.side = "SELL" => held} IN
    {sound(kept \cup others) : others \in SUBSET (left \cup joined)}

\* A position is only observed where the instrument has a bar.
Observed(present, i) == IF present[i] # {} THEN cycle'[i] ELSE None

\* Fault: a position that was closed leaves its gates.
DropChangedWhileHeld(seen) ==
    [p \in Pairs |->
        IF seen[p[2]] # None /\ seen[p[2]] # identity[p[2]] THEN FreshGate
        ELSE gates[p]]

DropChanged(seen) ==
    [p \in Pairs |-> IF seen[p[2]] # identity[p[2]] THEN FreshGate ELSE gates[p]]

HasSession(day) == day \in 0..(Sessions - 1)

\* Orders are filled and positions change; the gates of an instrument whose
\* position looks different are dropped.
Trade(t, present) ==
    \E after \in [Instruments -> UNION {CyclesAfter(i, t, present[i]) : i \in Instruments}] :
        /\ \A i \in Instruments : after[i] \in CyclesAfter(i, t, present[i])
        /\ now' = t /\ evaluated' = t
        /\ cycle' = [i \in Instruments |-> after[i][1]]
        /\ \E open \in [Instruments -> UNION {OrdersAfter(i, t, present[i], cycle'[i] # None)
                                             : i \in Instruments}] :
              /\ \A i \in Instruments :
                    open[i] \in OrdersAfter(i, t, present[i], cycle'[i] # None)
              /\ working' = open
        /\ identity' = [i \in Instruments |-> Observed(present, i)]
        /\ gates' = DropChanged(identity')
        /\ log' = [p \in Pairs |-> IF after[p[2]][2] THEN {} ELSE log[p]]
        /\ blind' = [i \in Instruments |->
              ~after[i][2] /\ (blind[i] \/ identity'[i] # cycle'[i])]
        /\ unnoticed' = [i \in Instruments |->
              IF after[i][2] THEN cycle'[i] = identity[i] ELSE unnoticed[i]]
        /\ todo' = IF HasSession(CandidateDay') THEN Pairs ELSE {}
        /\ UNCHANGED <<terminal, lengths>>

Instant ==
    /\ todo = {} /\ now < Horizon
    /\ \E present \in [Instruments -> SUBSET UNION BarLengths] :
          /\ \A i \in Instruments : present[i] \in Endings(now + 1, lengths[i])
          /\ \/ \E i \in Instruments : present[i] # {}
             \/ \E l \in OtherLengths : Ends(now + 1, l)
          /\ Trade(now + 1, present)

\* A gap, or no bar at all.  A close is no gap.
Skip ==
    /\ todo = {} /\ now < Horizon
    /\ AtClose(now + 1) =>
          \A l \in OtherLengths \cup UNION {lengths[i] : i \in Instruments} :
              MayLack(now + 1, l)
    /\ now' = now + 1
    /\ UNCHANGED <<terminal, lengths, evaluated, cycle, working, identity, gates,
                   todo, history>>

-----------------------------------------------------------------------------
(* The gate *)

Counted(g) == [g EXCEPT !.bars = IF g.executions > 0 THEN g.bars + 1 ELSE g.bars]

\* Fault: an evaluation whose condition fails is no bar to wait for.
ObserveUncounted(g, outcome) ==
    IF outcome = "FALSE" THEN [g EXCEPT !.rearmed = TRUE] ELSE g

Observe(g, outcome) ==
    IF outcome = "FALSE" THEN [Counted(g) EXCEPT !.rearmed = TRUE] ELSE Counted(g)

Maximum(terms) == IF terms.mode = "once" THEN 1 ELSE terms.most

\* Fault: the limit is compared before this attempt is counted.
WithinMaximumLate(terms, g) == g.executions <= Maximum(terms)

WithinMaximum(terms, g) == g.executions < Maximum(terms)

Accepts(terms, g, day) ==
    /\ WithinMaximum(terms, g)
    /\ \/ g.executions = 0
       \/ terms.mode = "every time"
       \/ terms.wait = "rearmed" /\ g.rearmed
       \/ terms.wait = "bars" /\ g.bars >= terms.interval
       \/ terms.wait = "sessions" /\ g.session # None
             /\ day - g.session >= terms.interval

\* Fault: the condition need not fail before the next attempt.
AcceptedRearmed(g, day) ==
    [executions |-> g.executions + 1, bars |-> 0, session |-> day, rearmed |-> TRUE]

Accepted(g, day) ==
    [executions |-> g.executions + 1, bars |-> 0, session |-> day, rearmed |-> FALSE]

Noted(p, outcome, attempt) ==
    log' = [log EXCEPT ![p] =
              @ \cup {[at |-> now, outcome |-> outcome, attempt |-> attempt,
                       day |-> CandidateDay]}]
    /\ UNCHANGED <<blind, unnoticed>>

NotTrue(p, outcome) ==
    /\ p \in todo /\ outcome # "TRUE"
    /\ gates' = [gates EXCEPT ![p] = Observe(@, outcome)]
    /\ todo' = todo \ {p}
    /\ Noted(p, outcome, FALSE)
    /\ UNCHANGED <<market, working>>

Gated(p) ==
    LET g == Counted(gates[p]) IN
    /\ p \in todo /\ ~Accepts(terminal[p[1]], g, CandidateDay)
    /\ gates' = [gates EXCEPT ![p] = g]
    /\ todo' = todo \ {p}
    /\ Noted(p, "TRUE", FALSE)
    /\ UNCHANGED <<market, working>>

\* The attempt counts whether it becomes an order, is rejected or declined, or
\* finds no bar to take a reference price from.
Attempt(p, ordered) ==
    LET g == Counted(gates[p])  terms == terminal[p[1]] IN
    /\ p \in todo /\ Accepts(terms, g, CandidateDay)
    /\ ordered /\ terms.side = "SELL" => cycle[p[2]] # None
    /\ gates' = [gates EXCEPT ![p] = Accepted(g, CandidateDay)]
    /\ working' = IF ordered
                  THEN [working EXCEPT ![p[2]] = @ \cup {[side |-> terms.side, at |-> now]}]
                  ELSE working
    /\ todo' = todo \ {p}
    /\ Noted(p, "TRUE", TRUE)
    /\ UNCHANGED market

-----------------------------------------------------------------------------

Next ==
    \/ Instant
    \/ Skip
    \/ \E p \in todo :
          \/ \E outcome \in Outcomes : NotTrue(p, outcome)
          \/ Gated(p)
          \/ \E ordered \in BOOLEAN : Attempt(p, ordered)

Spec == Init /\ [][Next]_vars

-----------------------------------------------------------------------------
(* Properties: docs/backtest-semantic-integrity-audit.md, canonical meanings *)

Attempts(p) == {e \in log[p] : e.attempt}
SinceAttempt(p) == {e \in log[p] : \A a \in Attempts(p) : e.at > a.at}

\* A flow that runs once makes at most one attempt for an instrument in a
\* position cycle, any other at most its maximum, in every cycle through which
\* the position was seen wherever something was evaluated.
WithinLimit ==
    \A p \in Pairs :
        ~blind[p[2]] => Cardinality(Attempts(p)) <= Maximum(terminal[p[1]])

\* What a flow waits for between two attempts in one position cycle: that its
\* condition has failed, that it has been evaluated often enough, this time
\* included, or that enough sessions have passed.
Waited(p) ==
    LET terms == terminal[p[1]] IN
    \/ Attempts(p) = {}
    \/ terms.mode = "every time"
    \/ terms.wait = "rearmed" /\ \E e \in SinceAttempt(p) : e.outcome = "FALSE"
    \/ terms.wait = "bars" /\ Cardinality(SinceAttempt(p)) + 1 >= terms.interval
    \/ terms.wait = "sessions"
          /\ \A a \in Attempts(p) : CandidateDay - a.day >= terms.interval

Decided(p, attempt) ==
    \E e \in log'[p] \ log[p] : e.outcome = "TRUE" /\ e.attempt = attempt

\* No attempt comes before its wait is over, whatever the position did while it
\* was seen.
WaitsAreKept ==
    [][\A p \in Pairs : Decided(p, TRUE) /\ ~blind[p[2]] => Waited(p)]_vars

\* An evaluation that is due is turned away only by the limit: a gate that an
\* earlier position cycle used up does not block a later one, unless the later
\* one looked the same when it began: it was opened at the instant the other was
\* closed, by a bar that started with the one that had opened the other.
DueIsAttempted ==
    [][\A p \in Pairs :
          Decided(p, FALSE) /\ ~unnoticed[p[2]] =>
              ~Waited(p) \/ Cardinality(Attempts(p)) >= Maximum(terminal[p[1]])]_vars

=============================================================================
