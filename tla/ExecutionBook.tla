---------------------------- MODULE ExecutionBook ----------------------------
(***************************************************************************)
(* The execution half of independent_execution_oracle: bars are processed  *)
(* as their ends are reached, in the order of their length, and fill open  *)
(* orders; then candidates of that instant become orders, with a           *)
(* reservation or a rejection.                                             *)
(*                                                                         *)
(* Abstractions.  Amounts of money are whole numbers of the code's quantum *)
(* (MONEY), so that money() only rounds where a rate or a quotient is      *)
(* taken.  A session is a number of slots; a bar spans some of them.  When *)
(* a flow wants an order, and of what size, is left open within what its   *)
(* sizing allows: conditions and gates are in module ExecutionGates.       *)
(***************************************************************************)
EXTENDS Integers, Sequences, FiniteSets, FiniteSetsExt, SequencesExt

CONSTANTS
    Instruments,
    Spans,                  \* bar lengths, in slots of a session
    SlotsPerSession,
    Sessions,               \* bound: how many sessions the run has
    Prices,                 \* opening prices and closes of bars
    Capacities,             \* shares of a bar's volume that may be filled
    Scale,                  \* rates are given in parts of Scale
    FeeRate, SlippageRate, BufferRate,
    InitialCash,
    MaxStrategyNotional, MaxGrossExposure, MaxInstrumentExposure,
    PositionLimits,         \* max_position_notional of an order
    MaxOrders,              \* bound: orders of the run
    MaxQuantity             \* bound: shares of one order

ASSUME BookAssumption ==
    /\ IsFiniteSet(Instruments)
    /\ Spans \subseteq Nat \ {0}
    /\ {SlotsPerSession, Sessions, Scale} \subseteq Nat \ {0}
    /\ Prices \subseteq Nat \ {0} /\ Capacities \subseteq Nat
    /\ {FeeRate, SlippageRate, BufferRate} \subseteq 0..Scale
    /\ {InitialCash, MaxStrategyNotional, MaxGrossExposure,
        MaxInstrumentExposure, MaxOrders, MaxQuantity} \subseteq Nat
    /\ PositionLimits \subseteq Nat

VARIABLES
    now,        \* the instant of the main loop
    due,        \* bars that end now and are still to be processed
    admits,     \* whether candidates are evaluated at this instant
    bar,        \* the bar process_bar is filling from, or NoBar
    orders,     \* in order of submission
    lots,       \* open lots of an instrument, oldest first
    quantity,   \* shares held
    cost,       \* what they cost
    cash,
    opened,     \* opened_cycles: since when an instrument is held, or Never
    ledger      \* debits minus credits of each account

vars == <<now, due, admits, bar, orders, lots, quantity, cost, cash, opened,
          ledger>>
book == <<lots, quantity, cost, cash, opened, ledger>>

-----------------------------------------------------------------------------
(* Sessions and bars *)

Never == -1

\* Sessions are one slot apart.
Opens(day) == day * (SlotsPerSession + 1)
Closes(day) == Opens(day) + SlotsPerSession
Day(t) == t \div (SlotsPerSession + 1)
AtClose(t) == t = Closes(Day(t))
Horizon == Closes(Sessions - 1)

\* Bars that end at t: those whose length divides the time since the open,
\* and at the close the last of each length, however short
Ending(t) ==
    {b \in [instrument : Instruments, span : Spans] :
        t > Opens(Day(t)) /\ (AtClose(t) \/ (t - Opens(Day(t))) % b.span = 0)}

Starts(b) ==
    Opens(Day(now)) + (((now - Opens(Day(now))) - 1) \div b.span) * b.span

-----------------------------------------------------------------------------
(* Money *)

\* money() of a quotient
HalfEven(n, d) ==
    LET whole == n \div d  twice == 2 * (n % d) IN
    IF twice > d \/ (twice = d /\ whole % 2 = 1) THEN whole + 1 ELSE whole

FillPrice(side, base) ==
    HalfEven(base * (IF side = "BUY" THEN Scale + SlippageRate
                     ELSE Scale - SlippageRate), Scale)

Fee(gross) == HalfEven(gross * FeeRate, Scale)
UnitCash(price) == price + Fee(price)
BuyingPower == cash - HalfEven(cash * BufferRate, Scale)
Exposure == SumFunctionOnSet(cost, Instruments)

\* Fault: what is left of a lot keeps the cost of all of it.
ConsumeLotAtFullCost(acc, lot) ==
    LET used == IF acc.left < lot.quantity THEN acc.left ELSE lot.quantity
        usedCost == IF used = lot.quantity THEN lot.cost
                    ELSE HalfEven(lot.cost * used, lot.quantity)
    IN [left |-> acc.left - used,
        cost |-> acc.cost + usedCost,
        rest |-> IF used = lot.quantity THEN acc.rest
                 ELSE Append(acc.rest, [quantity |-> lot.quantity - used,
                                        cost |-> lot.cost])]

\* Fault: a lot that is used up stays in the queue.
ConsumeLotKept(acc, lot) ==
    LET used == IF acc.left < lot.quantity THEN acc.left ELSE lot.quantity
        usedCost == IF used = lot.quantity THEN lot.cost
                    ELSE HalfEven(lot.cost * used, lot.quantity)
    IN [left |-> acc.left - used,
        cost |-> acc.cost + usedCost,
        rest |-> Append(acc.rest, [quantity |-> lot.quantity - used,
                                   cost |-> lot.cost - usedCost])]

\* consume_fifo: a lot that is used up gives its whole cost, the last one a
\* rounded share of it.
ConsumeLot(acc, lot) ==
    LET used == IF acc.left < lot.quantity THEN acc.left ELSE lot.quantity
        usedCost == IF used = lot.quantity THEN lot.cost
                    ELSE HalfEven(lot.cost * used, lot.quantity)
    IN [left |-> acc.left - used,
        cost |-> acc.cost + usedCost,
        rest |-> IF used = lot.quantity THEN acc.rest
                 ELSE Append(acc.rest, [quantity |-> lot.quantity - used,
                                        cost |-> lot.cost - usedCost])]

Consumed(i, shares) ==
    LET after[n \in 0..Len(lots[i])] ==
            IF n = 0 THEN [left |-> shares, cost |-> 0, rest |-> <<>>]
            ELSE ConsumeLot(after[n - 1], lots[i][n])
    IN after[Len(lots[i])]

-----------------------------------------------------------------------------
(* Orders and what they reserve *)

OpenStatus == {"ACCEPTED", "PARTIALLY_FILLED"}

Order == [instrument : Instruments, side : {"BUY", "SELL"},
          remaining : Nat, filled : Nat,
          submitted : Nat, eligible : Nat, expires : Nat,
          reference : Nat, limit : Nat,
          status : OpenStatus \cup {"FILLED", "EXPIRED", "REJECTED"},
          reservedCash : Nat, reservedNotional : Nat, reservedQuantity : Nat]

IsOpen(o) == o.status \in OpenStatus
OpenExcept(k) == {j \in DOMAIN orders \ {k} : IsOpen(orders[j])}

Cashes == [j \in DOMAIN orders |-> orders[j].reservedCash]
Notionals == [j \in DOMAIN orders |-> orders[j].reservedNotional]
Shares == [j \in DOMAIN orders |-> orders[j].reservedQuantity]

ReservedCash(k) == SumFunctionOnSet(Cashes, OpenExcept(k))
ReservedNotional(k) == SumFunctionOnSet(Notionals, OpenExcept(k))
ReservedIn(i, side, k) ==
    {j \in OpenExcept(k) : orders[j].instrument = i /\ orders[j].side = side}
InstrumentReserved(i, k) ==
    SumFunctionOnSet(Notionals, ReservedIn(i, "BUY", k))
SharesReserved(i, k) ==
    SumFunctionOnSet(Shares, ReservedIn(i, "SELL", k))

Released(o) ==
    [o EXCEPT !.reservedCash = 0, !.reservedNotional = 0, !.reservedQuantity = 0]

\* estimated_commitment, at the reference price
Reserving(o) ==
    LET notional == FillPrice("BUY", o.reference) * o.remaining IN
    IF o.side = "SELL" THEN [o EXCEPT !.reservedQuantity = o.remaining]
    ELSE [o EXCEPT !.reservedNotional = notional,
                   !.reservedCash = notional + Fee(notional)]

\* Fault: an order that has been filled in part is left open.
ExpiredIfUnfilled(o, t) ==
    IF o.status = "ACCEPTED" /\ t >= o.expires
    THEN [Released(o) EXCEPT !.status = "EXPIRED"] ELSE o

\* expire_orders; a closed order keeps no reservation
Expired(o, t) ==
    IF IsOpen(o) /\ t >= o.expires THEN [Released(o) EXCEPT !.status = "EXPIRED"]
    ELSE o

-----------------------------------------------------------------------------

NoBar == [capacity |-> 0]
Filling == bar # NoBar

TypeOK ==
    /\ now \in 0..Horizon
    /\ due \subseteq [instrument : Instruments, span : Spans]
    /\ admits \in BOOLEAN
    /\ bar = NoBar \/ bar \in [instrument : Instruments, starts : Nat,
                               price : Prices, capacity : Nat \ {0}, before : Nat,
                               cursor : Nat]
    /\ orders \in Seq(Order)
    /\ lots \in [Instruments -> Seq([quantity : Nat \ {0}, cost : Nat])]
    /\ quantity \in [Instruments -> Nat]
    /\ cost \in [Instruments -> Nat]
    /\ cash \in Int
    /\ opened \in [Instruments -> {Never} \cup 0..Horizon]
    /\ ledger \in [{"CASH", "SECURITY", "FEE_EXPENSE", "REALIZED_PNL"} -> Int]

Init ==
    /\ now = 0 /\ due = {} /\ admits = FALSE /\ bar = NoBar
    /\ orders = <<>>
    /\ lots = [i \in Instruments |-> <<>>]
    /\ quantity = [i \in Instruments |-> 0]
    /\ cost = [i \in Instruments |-> 0]
    /\ cash = InitialCash
    /\ opened = [i \in Instruments |-> Never]
    /\ ledger = [a \in {"CASH", "SECURITY", "FEE_EXPENSE", "REALIZED_PNL"} |-> 0]

\* A held position whose cycle is unknown stops the program with a KeyError
\* once its bars of this instant have been processed.
CyclesKnown == \A i \in Instruments : quantity[i] > 0 => opened[i] # Never

\* The next instant at which bars end.  Some of them may be missing; a gap in
\* any series suppresses all fills and candidates of an instant within a
\* session, but not the candidates of its close.
NextInstant ==
    LET t == IF AtClose(now) THEN now + 2 ELSE now + 1 IN
    /\ due = {} /\ ~Filling /\ CyclesKnown
    /\ now < Horizon
    /\ now' = t
    /\ due' \in SUBSET Ending(t)
    /\ admits' \in BOOLEAN
    /\ due' # {} => admits'
    /\ admits' => due' # {} \/ AtClose(t)
    /\ UNCHANGED <<bar, orders, book>>

-----------------------------------------------------------------------------
(* process_bar *)

\* Shorter bars come first; orders expire even where a bar has no capacity.
StartBar(b, price, capacity) ==
    /\ b \in due /\ ~Filling
    /\ \A c \in due : b.span <= c.span
    /\ due' = due \ {b}
    /\ orders' = [k \in DOMAIN orders |-> Expired(orders[k], Starts(b))]
    /\ bar' = IF capacity = 0 THEN NoBar
              ELSE [instrument |-> b.instrument, starts |-> Starts(b),
                    price |-> price, capacity |-> capacity,
                    before |-> quantity[b.instrument], cursor |-> 0]
    /\ UNCHANGED <<now, admits, book>>

\* Fault: an order may fill from any bar that ends after it was submitted.
EligibleByEnd(o) == o.eligible <= now

Eligible(o) == o.eligible <= bar.starts

Waiting ==
    {k \in DOMAIN orders :
        /\ k > bar.cursor
        /\ IsOpen(orders[k]) /\ orders[k].instrument = bar.instrument
        /\ Eligible(orders[k])}

\* The order whose turn it is
Current(k) == Filling /\ Waiting # {} /\ k = Min(Waiting)

Left(limit) == Max({limit, 0})

\* Fault: the reservations of other orders are ignored.
BuyCapsUnreserved(o, k, price) ==
    {bar.capacity, o.remaining,
     Left(BuyingPower) \div UnitCash(price),
     Left(MaxStrategyNotional - Exposure) \div UnitCash(price),
     Left(MaxGrossExposure - Exposure) \div price,
     Left(o.limit - quantity[o.instrument] * price) \div price,
     Left(MaxInstrumentExposure - cost[o.instrument]) \div price}

BuyCaps(o, k, price) ==
    {bar.capacity, o.remaining,
     Left(BuyingPower - ReservedCash(k)) \div UnitCash(price),
     Left(MaxStrategyNotional - Exposure - ReservedCash(k)) \div UnitCash(price),
     Left(MaxGrossExposure - Exposure - ReservedNotional(k)) \div price,
     Left(o.limit - quantity[o.instrument] * price
            - InstrumentReserved(o.instrument, k)) \div price,
     Left(MaxInstrumentExposure - cost[o.instrument]
            - InstrumentReserved(o.instrument, k)) \div price}

\* Fault: a BUY fills as far as it has reserved, whatever the price is now.
FillQuantityAsReserved(k) ==
    LET o == orders[k] IN
    Min({bar.capacity, o.remaining}
        \cup IF o.side = "SELL" THEN {quantity[o.instrument]} ELSE {})

FillQuantity(k) ==
    LET o == orders[k] IN
    Min(IF o.side = "SELL" THEN {bar.capacity, o.remaining, quantity[o.instrument]}
        ELSE BuyCaps(o, k, FillPrice("BUY", bar.price)))

\* The order after a fill of n shares: what is left is reserved anew.
Filled(o, n) ==
    LET next == [o EXCEPT !.remaining = o.remaining - n, !.filled = o.filled + n]
    IN IF n = o.remaining THEN [Released(next) EXCEPT !.status = "FILLED"]
       ELSE [Reserving(next) EXCEPT !.status = "PARTIALLY_FILLED"]

\* The bar is left when its capacity is used up.
BarAfter(k, n) ==
    IF n = bar.capacity THEN NoBar
    ELSE [bar EXCEPT !.capacity = bar.capacity - n, !.cursor = k]

PassOver(k) ==
    /\ Current(k) /\ FillQuantity(k) = 0
    /\ bar' = [bar EXCEPT !.cursor = k]
    /\ UNCHANGED <<now, due, admits, orders, book>>

FillBuy(k) ==
    LET o == orders[k]  i == o.instrument  n == FillQuantity(k)
        gross == FillPrice("BUY", bar.price) * n  fee == Fee(gross) IN
    /\ Current(k) /\ o.side = "BUY" /\ n > 0
    /\ lots' = [lots EXCEPT ![i] = Append(@, [quantity |-> n, cost |-> gross])]
    /\ quantity' = [quantity EXCEPT ![i] = @ + n]
    /\ cost' = [cost EXCEPT ![i] = @ + gross]
    /\ cash' = cash - gross - fee
    /\ opened' = IF bar.before = 0 THEN [opened EXCEPT ![i] = bar.starts] ELSE opened
    /\ ledger' = [ledger EXCEPT !["SECURITY"] = @ + gross,
                                !["FEE_EXPENSE"] = @ + fee,
                                !["CASH"] = @ - gross - fee]
    /\ orders' = [orders EXCEPT ![k] = Filled(o, n)]
    /\ bar' = BarAfter(k, n)
    /\ UNCHANGED <<now, due, admits>>

FillSell(k) ==
    LET o == orders[k]  i == o.instrument  n == FillQuantity(k)
        gross == FillPrice("SELL", bar.price) * n  fee == Fee(gross)
        basis == Consumed(i, n).cost IN
    /\ Current(k) /\ o.side = "SELL" /\ n > 0
    /\ lots' = [lots EXCEPT ![i] = Consumed(i, n).rest]
    /\ quantity' = [quantity EXCEPT ![i] = @ - n]
    /\ cost' = [cost EXCEPT ![i] = @ - basis]
    /\ cash' = cash + gross - fee
    /\ opened' = IF quantity[i] = n THEN [opened EXCEPT ![i] = Never] ELSE opened
    /\ ledger' = [ledger EXCEPT !["CASH"] = @ + gross - fee,
                                !["FEE_EXPENSE"] = @ + fee,
                                !["SECURITY"] = @ - basis,
                                !["REALIZED_PNL"] = @ - (gross - basis)]
    /\ orders' = [orders EXCEPT ![k] = Filled(o, n)]
    /\ bar' = BarAfter(k, n)
    /\ UNCHANGED <<now, due, admits>>

FinishBar ==
    /\ Filling /\ Waiting = {}
    /\ bar' = NoBar
    /\ UNCHANGED <<now, due, admits, orders, book>>

-----------------------------------------------------------------------------
(* Candidates *)

\* At a close, the next session's hours; none after the last session.
EligibleAt == IF AtClose(now) THEN Opens(Day(now) + 1) ELSE now
ExpiresAt == Closes(Day(EligibleAt))

\* The sizing never asks for more than buying power or the position allow.
Affordable(i, side, n, reference) ==
    IF side = "SELL" THEN n <= quantity[i]
    ELSE n * UnitCash(FillPrice("BUY", reference)) <= BuyingPower

\* Fault: shares that other orders are about to sell are offered again.
ShortBySell(o, k) == quantity[o.instrument] < o.remaining

Short(o, k) == quantity[o.instrument] - SharesReserved(o.instrument, k) < o.remaining

\* reserve_or_reject: the five limits a BUY is checked against
Overcommitted(o, k) ==
    LET wanted == Reserving(o)  i == o.instrument
        held == InstrumentReserved(i, k) IN
    \/ quantity[i] * FillPrice("BUY", o.reference) + held >= o.limit
    \/ wanted.reservedCash > BuyingPower - ReservedCash(k)
    \/ Exposure + ReservedNotional(k) + wanted.reservedCash > MaxStrategyNotional
    \/ Exposure + ReservedNotional(k) + wanted.reservedNotional > MaxGrossExposure
    \/ cost[i] + held + wanted.reservedNotional > MaxInstrumentExposure

Admitted(o, k) ==
    IF IF o.side = "SELL" THEN Short(o, k) ELSE Overcommitted(o, k)
    THEN [o EXCEPT !.status = "REJECTED"]
    ELSE Reserving(o)

Submit(i, side, n, reference, limit) ==
    LET k == Len(orders) + 1
        o == [instrument |-> i, side |-> side, remaining |-> n, filled |-> 0,
              submitted |-> now, eligible |-> EligibleAt, expires |-> ExpiresAt,
              reference |-> reference, limit |-> limit, status |-> "ACCEPTED",
              reservedCash |-> 0, reservedNotional |-> 0, reservedQuantity |-> 0]
    IN
    /\ due = {} /\ ~Filling /\ admits /\ CyclesKnown
    /\ EligibleAt < Horizon
    /\ k <= MaxOrders
    /\ Affordable(i, side, n, reference)
    /\ orders' = Append(orders, Admitted(o, k))
    /\ UNCHANGED <<now, due, admits, bar, book>>

-----------------------------------------------------------------------------

Processing ==
    \/ \E b \in due, price \in Prices, capacity \in Capacities :
          StartBar(b, price, capacity)
    \/ \E k \in DOMAIN orders : PassOver(k) \/ FillBuy(k) \/ FillSell(k)
    \/ FinishBar

Next ==
    \/ NextInstant
    \/ Processing
    \/ \E i \in Instruments, side \in {"BUY", "SELL"}, n \in 1..MaxQuantity,
          reference \in Prices, limit \in PositionLimits :
          Submit(i, side, n, reference, limit)

Spec == Init /\ [][Next]_vars

-----------------------------------------------------------------------------
(* Properties *)

\* Cash never runs out, although orders fill at prices above those they were
\* reserved at, in parts, at the same time, with fees rounded per fill.
Solvent == cash >= 0

\* Shares that open orders are to sell are held: no two orders sell the same
\* shares, so that no fill is cut short by another order's.
SellsAreCovered ==
    \A i \in Instruments : SharesReserved(i, 0) <= quantity[i]

\* Lots, position, cost basis and the double-entry ledger tell one story,
\* however fills split lots and costs are rounded.
BookAgrees ==
    /\ \A i \in Instruments :
          /\ quantity[i] = SumFunction([j \in DOMAIN lots[i] |-> lots[i][j].quantity])
          /\ cost[i] = SumFunction([j \in DOMAIN lots[i] |-> lots[i][j].cost])
    /\ ledger["SECURITY"] = Exposure
    /\ ledger["CASH"] = cash - InitialCash
    /\ ledger["CASH"] + ledger["SECURITY"] + ledger["FEE_EXPENSE"]
          + ledger["REALIZED_PNL"] = 0

\* What is held never cost more than the exposure limits, although fill prices
\* differ from the prices the limits were checked at.
WithinExposure ==
    /\ Exposure <= MaxGrossExposure
    /\ \A i \in Instruments : cost[i] <= MaxInstrumentExposure

\* A fill of one order leaves the cash in place that the others reserve.
FillsSpareReservations ==
    [][\A k \in DOMAIN orders :
          orders[k].side = "BUY" /\ orders'[k].filled > orders[k].filled =>
              ReservedCash(k) <= BuyingPower']_vars

\* An order is filled from bars of the session it was meant for, none of which
\* began before it was submitted.
FillsInItsSession ==
    [][\A k \in DOMAIN orders :
          orders'[k].filled > orders[k].filled =>
              /\ bar.starts >= orders[k].submitted
              /\ Day(bar.starts) = Day(orders[k].expires)]_vars

\* A position cycle begins with the first opening fill and lasts until the
\* position is closed: what is held has a cycle, and what is not has none.
\* (docs/backtest-semantic-integrity-audit.md, canonical execution meanings)
HeldHasCycle ==
    \A i \in Instruments : quantity[i] > 0 <=> opened[i] # Never

\* Nothing is spent, sold or held beyond what there is and what the limits
\* allow: the book's state is typed and within its means.
BookInvariant ==
    /\ TypeOK
    /\ Solvent
    /\ SellsAreCovered
    /\ WithinExposure

=============================================================================
