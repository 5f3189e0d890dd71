------------------------ MODULE ExecutionGates_proofs ------------------------
(***************************************************************************)
(* Bars of any lengths, some of them missing: no flow makes more attempts  *)
(* in a position cycle than its limit allows, or one before its wait is    *)
(* over, while the position is seen; and none that is due is turned away,  *)
(* unless the cycle looked as the one before it did when it began.         *)
(*                                                                         *)
(* The properties count what happened in a position cycle, the code counts *)
(* executions, which it resets when the observed identity changes.  The    *)
(* induction needs what observation and cycle have to do with each other:  *)
(* while a position is seen no reset comes within its cycle, so the gate   *)
(* has counted at least the cycle's attempts; where the beginning of the   *)
(* cycle was noticed it was reset then, and has counted at most those.     *)
(* In either case it remembers of its last attempt what the history says.  *)
(***************************************************************************)
EXTENDS ExecutionGates, FiniteSetTheorems, TLAPS

\* The flows' terminals are well formed.
TerminalsAreTyped == Terminals \subseteq Terminal

\* What is observed of a position is its cycle, or nothing.
CyclesAreObserved ==
    \A i \in Instruments :
        /\ identity[i] \in {None, cycle[i]}
        /\ ~blind[i] => identity[i] = cycle[i]

EntriesAreDated ==
    \A p \in Pairs : \A e \in log[p] :
        /\ e.at <= now
        /\ p \in todo => e.at < now

CountsAgree ==
    \A p \in Pairs :
        /\ IsFiniteSet(Attempts(p))
        /\ gates[p].executions <= Maximum(terminal[p[1]])
        /\ ~blind[p[2]] => Cardinality(Attempts(p)) <= gates[p].executions
        /\ ~unnoticed[p[2]] => gates[p].executions <= Cardinality(Attempts(p))

\* A pair is only asked about at an instant of a session.
AskedInSession == todo # {} => now \in 1..Horizon /\ HasSession(CandidateDay)

GatesInvariant ==
    TypeOK /\ CyclesAreObserved /\ EntriesAreDated /\ CountsAgree /\ AskedInSession

-----------------------------------------------------------------------------

\* The limit of a flow is a number.
LEMMA MaximumType ==
    ASSUME NEW terms \in Terminal
    PROVE  Maximum(terms) \in Nat
BY DEF Maximum, Terminal

\* Counting an evaluation leaves the number of attempts alone.
LEMMA CountedKeeps ==
    ASSUME NEW g \in Gate, NEW outcome
    PROVE  /\ Counted(g) \in Gate /\ Counted(g).executions = g.executions
           /\ Observe(g, outcome) \in Gate
           /\ Observe(g, outcome).executions = g.executions
<1> DEFINE bars == IF g.executions > 0 THEN g.bars + 1 ELSE g.bars
<1>1. g.executions \in Nat /\ bars \in Nat
  BY DEF Gate
<1>2. Counted(g) = [g EXCEPT !.bars = bars]
  BY DEF Counted
<1> HIDE DEF bars
<1>3. Counted(g) \in Gate /\ Counted(g).executions = g.executions
  BY <1>1, <1>2 DEF Gate
<1>4. [Counted(g) EXCEPT !.rearmed = TRUE] \in Gate
  BY <1>3 DEF Gate
<1>5. [Counted(g) EXCEPT !.rearmed = TRUE].executions = Counted(g).executions
  BY <1>3 DEF Gate
<1> QED
  BY <1>3, <1>4, <1>5 DEF Observe

\* An attempt is counted.
LEMMA AcceptedCounts ==
    ASSUME NEW g \in Gate, NEW day \in 0..(Sessions - 1)
    PROVE  Accepted(g, day) \in Gate
           /\ Accepted(g, day).executions = g.executions + 1
BY DEF Accepted, Gate

\* Initially nothing has been attempted.
LEMMA InvariantInit ==
    ASSUME TerminalsAreTyped, Init
    PROVE  GatesInvariant
<1> USE BarsAssumption DEF Init, TerminalsAreTyped
<1>0. Horizon \in Nat
  BY DEF Horizon
<1>1. /\ terminal \in [Flows -> Terminal]
      /\ lengths \in [Instruments -> SUBSET (Nat \ {0})]
  OBVIOUS
<1>2. TypeOK
  BY <1>0, <1>1 DEF TypeOK, FreshGate, Gate, Pairs, None, Cycle
<1>3. CyclesAreObserved /\ EntriesAreDated /\ AskedInSession
  BY DEF CyclesAreObserved, EntriesAreDated, AskedInSession
<1>4. CountsAgree
  <2> SUFFICES ASSUME NEW p \in Pairs
               PROVE  /\ IsFiniteSet(Attempts(p)) /\ Cardinality(Attempts(p)) = 0
                      /\ gates[p].executions = 0 /\ Maximum(terminal[p[1]]) \in Nat
    BY DEF CountsAgree
  <2>1. Attempts(p) = {}
    BY DEF Attempts
  <2>2. terminal[p[1]] \in Terminal
    BY <1>1 DEF Pairs
  <2> QED
    BY <2>1, <2>2, MaximumType, FS_EmptySet DEF FreshGate
<1> QED
  BY <1>2, <1>3, <1>4 DEF GatesInvariant

\* What an evaluation notes, and what that leaves alone.
LEMMA NotedEntry ==
    ASSUME GatesInvariant, NEW p \in todo,
           NEW outcome \in Outcomes, NEW attempt \in BOOLEAN,
           Noted(p, outcome, attempt), UNCHANGED market, todo' = todo \ {p}
    PROVE  /\ log' \in [Pairs -> SUBSET Entry]
           /\ EntriesAreDated' /\ CyclesAreObserved' /\ AskedInSession'
           /\ \A q \in Pairs : q # p => Attempts(q)' = Attempts(q)
           /\ ~attempt => Attempts(p)' = Attempts(p)
           /\ attempt => \E e : e \notin Attempts(p)
                                /\ Attempts(p)' = Attempts(p) \cup {e}
<1> DEFINE e == [at |-> now, outcome |-> outcome, attempt |-> attempt,
                 day |-> CandidateDay]
<1>0. p \in Pairs /\ log \in [Pairs -> SUBSET Entry] /\ now' = now
  BY DEF GatesInvariant, TypeOK, market
<1>1. log' = [log EXCEPT ![p] = @ \cup {e}]
  BY DEF Noted
<1>2. CandidateDay' = CandidateDay
  BY <1>0 DEF CandidateDay, AtClose, Day
<1>3. now \in 1..Horizon /\ CandidateDay \in 0..(Sessions - 1)
  BY DEF GatesInvariant, AskedInSession, HasSession
<1>4. e \in Entry
  BY <1>3 DEF Entry
<1>5. log' \in [Pairs -> SUBSET Entry]
  BY <1>0, <1>1, <1>4
<1>6. EntriesAreDated'
  <2> SUFFICES ASSUME NEW q \in Pairs, NEW f \in log'[q]
               PROVE  f.at <= now /\ (q \in todo' => f.at < now)
    BY <1>0 DEF EntriesAreDated
  <2>1. CASE q = p
    BY <1>0, <1>1, <1>3, <2>1 DEF GatesInvariant, EntriesAreDated
  <2>2. CASE q # p
    BY <1>0, <1>1, <2>2 DEF GatesInvariant, EntriesAreDated
  <2> QED
    BY <2>1, <2>2
<1>7. CyclesAreObserved' /\ AskedInSession'
  BY <1>2 DEF GatesInvariant, CyclesAreObserved, AskedInSession, HasSession, market, Noted
<1>8. \A q \in Pairs : q # p => Attempts(q)' = Attempts(q)
  BY <1>0, <1>1 DEF Attempts
<1>9. log'[p] = log[p] \cup {e}
  BY <1>0, <1>1
<1>10. ~attempt => Attempts(p)' = Attempts(p)
  BY <1>9 DEF Attempts
<1>11. attempt => Attempts(p)' = Attempts(p) \cup {e}
  BY <1>9 DEF Attempts
<1>12. e \notin Attempts(p)
  <2>1. \A f \in log[p] : f.at < now
    BY <1>0 DEF GatesInvariant, EntriesAreDated
  <2> QED
    BY <2>1, <1>3 DEF Attempts
<1> QED
  BY <1>5, <1>6, <1>7, <1>8, <1>10, <1>11, <1>12

\* An evaluation that is no attempt keeps the invariant.
LEMMA ObservedKeeps ==
    ASSUME GatesInvariant, NEW p \in todo, NEW g \in Gate, NEW outcome \in Outcomes,
           g.executions = gates[p].executions,
           gates' = [gates EXCEPT ![p] = g],
           todo' = todo \ {p}, Noted(p, outcome, FALSE), UNCHANGED <<market, working>>
    PROVE  GatesInvariant'
<1>1. /\ log' \in [Pairs -> SUBSET Entry]
      /\ EntriesAreDated' /\ CyclesAreObserved' /\ AskedInSession'
      /\ \A q \in Pairs : Attempts(q)' = Attempts(q)
  <2>1. FALSE \in BOOLEAN
    OBVIOUS
  <2> QED
    BY <2>1, NotedEntry
<1>2. p \in Pairs /\ gates \in [Pairs -> Gate] /\ todo' \subseteq Pairs
  BY DEF GatesInvariant, TypeOK
<1>3. gates' \in [Pairs -> Gate]
  BY <1>2
<1>4. \A q \in Pairs : gates'[q].executions = gates[q].executions
  BY <1>2
<1>5. TypeOK'
  BY <1>1, <1>2, <1>3 DEF GatesInvariant, TypeOK, market, Noted
<1>6. CountsAgree'
  BY <1>1, <1>4 DEF GatesInvariant, CountsAgree, market, Noted
<1> QED
  BY <1>1, <1>5, <1>6 DEF GatesInvariant

\* An attempt keeps the invariant: the gate accepted it below the limit.
LEMMA AttemptKeeps ==
    ASSUME GatesInvariant, NEW p \in Pairs, NEW ordered \in BOOLEAN,
           Attempt(p, ordered)
    PROVE  GatesInvariant'
<1> DEFINE g == Counted(gates[p])
<1>1. p \in todo /\ todo' = todo \ {p} /\ Noted(p, "TRUE", TRUE)
      /\ UNCHANGED market /\ UNCHANGED <<blind, unnoticed>>
      /\ gates' = [gates EXCEPT ![p] = Accepted(g, CandidateDay)]
      /\ WithinMaximum(terminal[p[1]], g)
  BY DEF Attempt, Accepts, Noted
<1>2. PICK e : /\ log' \in [Pairs -> SUBSET Entry]
               /\ EntriesAreDated' /\ CyclesAreObserved' /\ AskedInSession'
               /\ \A q \in Pairs : q # p => Attempts(q)' = Attempts(q)
               /\ e \notin Attempts(p) /\ Attempts(p)' = Attempts(p) \cup {e}
  <2>1. TRUE \in BOOLEAN /\ "TRUE" \in Outcomes
    BY DEF Outcomes
  <2> QED
    BY <1>1, <2>1, NotedEntry
<1>3. /\ gates \in [Pairs -> Gate] /\ terminal[p[1]] \in Terminal
      /\ todo' \subseteq Pairs /\ working \in [Instruments -> SUBSET Order]
      /\ CandidateDay \in 0..(Sessions - 1) /\ now \in 1..Horizon
  BY <1>1 DEF GatesInvariant, TypeOK, AskedInSession, HasSession, Pairs
<1>4. g \in Gate /\ g.executions = gates[p].executions
  BY <1>3, CountedKeeps
<1>5. /\ Accepted(g, CandidateDay) \in Gate
      /\ Accepted(g, CandidateDay).executions = gates[p].executions + 1
  BY <1>3, <1>4, AcceptedCounts
<1> HIDE DEF g
<1>6. gates' \in [Pairs -> Gate]
  BY <1>1, <1>3, <1>5
<1>7. working' \in [Instruments -> SUBSET Order]
  <2>1. [side |-> terminal[p[1]].side, at |-> now] \in Order
    BY <1>3 DEF Terminal, Order
  <2>2. \/ working' = working
        \/ working' = [working EXCEPT
                ![p[2]] = @ \cup {[side |-> terminal[p[1]].side, at |-> now]}]
    BY DEF Attempt
  <2> QED
    BY <1>3, <2>1, <2>2
<1>8. TypeOK'
  BY <1>1, <1>2, <1>3, <1>6, <1>7 DEF GatesInvariant, TypeOK, market
<1>9. CountsAgree'
  <2> SUFFICES ASSUME NEW q \in Pairs
               PROVE  /\ IsFiniteSet(Attempts(q)')
                      /\ gates'[q].executions <= Maximum(terminal[q[1]])
                      /\ ~blind[q[2]] =>
                            Cardinality(Attempts(q)') <= gates'[q].executions
                      /\ ~unnoticed[q[2]] =>
                            gates'[q].executions <= Cardinality(Attempts(q)')
    BY <1>1 DEF CountsAgree, market
  <2>1. CASE q # p
    BY <1>1, <1>2, <1>3, <2>1 DEF GatesInvariant, CountsAgree
  <2>2. CASE q = p
    <3>1. /\ IsFiniteSet(Attempts(p)) /\ Cardinality(Attempts(p)) \in Nat
          /\ ~blind[p[2]] => Cardinality(Attempts(p)) <= gates[p].executions
          /\ ~unnoticed[p[2]] => gates[p].executions <= Cardinality(Attempts(p))
      BY FS_CardinalityType DEF GatesInvariant, CountsAgree
    <3>2. gates'[p].executions = gates[p].executions + 1
      BY <1>1, <1>3, <1>5
    <3>3. gates[p].executions < Maximum(terminal[p[1]])
      BY <1>1, <1>4 DEF WithinMaximum
    <3>4. /\ IsFiniteSet(Attempts(p) \cup {e})
          /\ Cardinality(Attempts(p) \cup {e}) = Cardinality(Attempts(p)) + 1
      BY <1>2, <3>1, FS_AddElement
    <3>5. gates[p].executions \in Nat /\ Maximum(terminal[p[1]]) \in Nat
      BY <1>3, MaximumType DEF Gate
    <3>6. /\ ~blind[p[2]] => Cardinality(Attempts(p)) + 1 <= gates[p].executions + 1
          /\ ~unnoticed[p[2]] => gates[p].executions + 1 <= Cardinality(Attempts(p)) + 1
          /\ gates[p].executions + 1 <= Maximum(terminal[p[1]])
      BY <3>1, <3>3, <3>5
    <3>7. IsFiniteSet(Attempts(p)') /\ Cardinality(Attempts(p)') = Cardinality(Attempts(p)) + 1
      BY <1>2, <3>1, <3>4, FS_AddElement
    <3> QED
      BY <2>2, <3>2, <3>6, <3>7
  <2> QED
    BY <2>1, <2>2
<1> QED
  BY <1>2, <1>8, <1>9 DEF GatesInvariant

\* Rounding down to a multiple leaves a number that is no larger.
LEMMA RoundedDown ==
    ASSUME NEW n \in Nat, NEW m \in Nat \ {0}
    PROVE  (n \div m) * m \in 0..n
<1> DEFINE q == n \div m
           r == n % m
<1>1. q \in Nat /\ r \in Nat /\ n = m * q + r
  OBVIOUS
<1> HIDE DEF q, r
<1>2. m * q \in Nat /\ q * m = m * q
  BY <1>1
<1> QED
  BY <1>1, <1>2 DEF q

\* A bar starts before the instant it ends at, within the session.
LEMMA StartsBefore ==
    ASSUME NEW t \in Nat \ {0}, NEW l \in Nat \ {0}
    PROVE  StartOf(t, l) \in 0..(t - 1)
<1> DEFINE n == InstantsPerSession
           d == (t - 1) \div n
<1>1. n \in Nat \ {0} /\ t - 1 \in Nat
  BY BarsAssumption
<1>2. d * n \in 0..(t - 1)
  BY <1>1, RoundedDown
<1>3. Opening(t) \in 0..(t - 1)
  BY <1>2 DEF Opening, Day
<1>4. (t - Opening(t)) - 1 \in Nat
  BY <1>3
<1>5. (((t - Opening(t)) - 1) \div l) * l \in 0..((t - Opening(t)) - 1)
  BY <1>4, RoundedDown
<1> QED
  BY <1>3, <1>5 DEF StartOf

\* What the fills of an instant leave: a cycle that turns does so where the
\* instrument has a bar.
LEMMA CyclesTurn ==
    ASSUME TypeOK, NEW i \in Instruments, NEW t \in 1..Horizon,
           NEW some \in SUBSET (Nat \ {0}), NEW after \in CyclesAfter(i, t, some)
    PROVE  /\ after[1] \in Cycle /\ after[2] \in BOOLEAN
           /\ after[2] => some # {}
           /\ ~after[2] => after[1] = cycle[i]
<1>1. Horizon \in Nat
  BY BarsAssumption DEF Horizon
<1>2. \A l \in some : StartOf(t, l) \in 0..(Horizon - 1)
  <2> SUFFICES ASSUME NEW l \in some
               PROVE  StartOf(t, l) \in 0..(Horizon - 1)
    OBVIOUS
  <2>1. StartOf(t, l) \in 0..(t - 1)
    BY <1>1, StartsBefore
  <2> QED
    BY <1>1, <2>1
<1>3. cycle[i] \in Cycle /\ None \in Cycle
  BY DEF TypeOK, Cycle
<1>4. \/ after = <<cycle[i], FALSE>>
      \/ some # {} /\ after = <<None, TRUE>>
      \/ \E l \in some : after = <<StartOf(t, l), TRUE>>
  BY DEF CyclesAfter
<1>5. CASE after = <<cycle[i], FALSE>>
  BY <1>3, <1>5
<1>6. CASE some # {} /\ after = <<None, TRUE>>
  BY <1>3, <1>6
<1>7. ASSUME NEW l \in some, after = <<StartOf(t, l), TRUE>>
      PROVE  after[1] \in Cycle /\ after[2] = TRUE /\ some # {}
  BY <1>2, <1>7 DEF Cycle
<1> QED
  BY <1>4, <1>5, <1>6, <1>7

\* An instant at which these bars end: no bar ends that the instrument has not,
\* and a cycle turns as they make it.
Turns(after, present) ==
    /\ present \in [Instruments -> SUBSET (Nat \ {0})]
    /\ \A i \in Instruments :
          /\ after[i][1] \in Cycle /\ after[i][2] \in BOOLEAN
          /\ after[i][2] => present[i] # {}
          /\ ~after[i][2] => after[i][1] = cycle[i]
    /\ cycle' = [i \in Instruments |-> after[i][1]]
    /\ identity' = [i \in Instruments |-> Observed(present, i)]
    /\ gates' = DropChanged(identity')
    /\ log' = [p \in Pairs |-> IF after[p[2]][2] THEN {} ELSE log[p]]
    /\ blind' = [i \in Instruments |->
          ~after[i][2] /\ (blind[i] \/ identity'[i] # cycle'[i])]
    /\ unnoticed' = [i \in Instruments |->
          IF after[i][2] THEN cycle'[i] = identity[i] ELSE unnoticed[i]]

LEMMA TradeTurns ==
    ASSUME TypeOK, Instant
    PROVE  /\ now + 1 \in 1..Horizon /\ now' = now + 1 /\ evaluated' = now + 1 /\ todo = {}
           /\ working' \in [Instruments -> SUBSET Order]
           /\ todo' = IF HasSession(CandidateDay') THEN Pairs ELSE {}
           /\ UNCHANGED <<terminal, lengths>>
           /\ \E after, present : Turns(after, present)
<1> DEFINE t == now + 1
<1>1. Horizon \in Nat /\ now \in 0..Horizon /\ now < Horizon /\ t \in 1..Horizon /\ todo = {}
  BY BarsAssumption DEF Horizon, TypeOK, Instant
<1>2. PICK present \in [Instruments -> SUBSET UNION BarLengths] :
          /\ \A i \in Instruments : present[i] \in Endings(t, lengths[i])
          /\ Trade(t, present)
  BY DEF Instant
<1>3. present \in [Instruments -> SUBSET (Nat \ {0})]
  <2>1. \A i \in Instruments : present[i] \subseteq Nat \ {0}
    BY <1>2 DEF TypeOK, Endings
  <2> QED
    BY <1>2, <2>1
<1>4. PICK after :
          /\ \A i \in Instruments : after[i] \in CyclesAfter(i, t, present[i])
          /\ now' = t /\ evaluated' = t
          /\ cycle' = [i \in Instruments |-> after[i][1]]
          /\ \E open \in [Instruments -> UNION {OrdersAfter(i, t, present[i], cycle'[i] # None)
                                               : i \in Instruments}] :
                /\ \A i \in Instruments :
                      open[i] \in OrdersAfter(i, t, present[i], cycle'[i] # None)
                /\ working' = open
          /\ identity' = [i \in Instruments |-> Observed(present, i)]
          /\ gates' = DropChanged(identity')
          /\ log' = [p \in Pairs |-> IF after[p[2]][2] THEN {} ELSE log[p]]
          /\ blind' = [i \in Instruments |->
                ~after[i][2] /\ (blind[i] \/ identity'[i] # cycle'[i])]
          /\ unnoticed' = [i \in Instruments |->
                IF after[i][2] THEN cycle'[i] = identity[i] ELSE unnoticed[i]]
          /\ todo' = IF HasSession(CandidateDay') THEN Pairs ELSE {}
          /\ UNCHANGED <<terminal, lengths>>
  BY <1>2 DEF Trade
<1>5. Turns(after, present)
  BY <1>1, <1>3, <1>4, CyclesTurn DEF Turns
<1>6. working' \in [Instruments -> SUBSET Order]
  <2>1. \A i \in Instruments : \A open \in OrdersAfter(i, t, present[i], cycle'[i] # None) :
            open \subseteq Order
    <3> SUFFICES ASSUME NEW i \in Instruments,
                        NEW open \in OrdersAfter(i, t, present[i], cycle'[i] # None),
                        NEW order \in open
                 PROVE  order \in Order
      OBVIOUS
    <3>1. order \in working[i] \/ order \in [side : OtherSides, at : {t}]
      BY DEF OrdersAfter
    <3>2. [side : OtherSides, at : {t}] \subseteq Order
      BY <1>1, BarsAssumption DEF Order, Sides
    <3> QED
      BY <3>1, <3>2 DEF TypeOK
  <2>2. PICK open \in [Instruments -> UNION {OrdersAfter(i, t, present[i], cycle'[i] # None)
                                            : i \in Instruments}] :
            /\ \A i \in Instruments :
                  open[i] \in OrdersAfter(i, t, present[i], cycle'[i] # None)
            /\ working' = open
    BY <1>4
  <2> QED
    BY <2>1, <2>2
<1> QED
  BY <1>1, <1>4, <1>5, <1>6

\* What an instant does to what is observed of a position and to its gates.
LEMMA GatesAfter ==
    ASSUME GatesInvariant, NEW after, NEW present, Turns(after, present),
           NEW i \in Instruments
    PROVE  /\ identity'[i] \in {None, cycle'[i]} /\ cycle'[i] \in Cycle
           /\ blind'[i] \in BOOLEAN /\ unnoticed'[i] \in BOOLEAN
           /\ ~blind'[i] => identity'[i] = cycle'[i]
           /\ \A p \in Pairs : p[2] = i =>
                 /\ gates'[p] \in {FreshGate, gates[p]}
                 /\ after[i][2] => log'[p] = {} /\ (~unnoticed'[i] => gates'[p] = FreshGate)
                 /\ ~after[i][2] =>
                       /\ log'[p] = log[p] /\ unnoticed'[i] = unnoticed[i]
                       /\ ~blind'[i] => ~blind[i] /\ gates'[p] = gates[p]
<1>1. /\ cycle'[i] = after[i][1] /\ identity'[i] = Observed(present, i)
      /\ blind'[i] = (~after[i][2] /\ (blind[i] \/ identity'[i] # cycle'[i]))
      /\ unnoticed'[i] = IF after[i][2] THEN cycle'[i] = identity[i] ELSE unnoticed[i]
  BY DEF Turns
<1>2. /\ blind[i] \in BOOLEAN /\ unnoticed[i] \in BOOLEAN
      /\ identity[i] \in {None, cycle[i]} /\ (~blind[i] => identity[i] = cycle[i])
  BY DEF GatesInvariant, TypeOK, CyclesAreObserved
<1>3. /\ identity'[i] \in {None, cycle'[i]}
      /\ after[i][2] => identity'[i] = cycle'[i]
      /\ ~after[i][2] => cycle'[i] = cycle[i]
      /\ after[i][1] \in Cycle /\ after[i][2] \in BOOLEAN
  BY <1>1 DEF Turns, Observed
<1>4. ~blind'[i] => identity'[i] = cycle'[i]
  BY <1>1, <1>3
<1>5. ASSUME NEW p \in Pairs, p[2] = i
      PROVE  /\ gates'[p] = IF identity'[i] # identity[i] THEN FreshGate ELSE gates[p]
             /\ log'[p] = IF after[i][2] THEN {} ELSE log[p]
  BY <1>5 DEF Turns, DropChanged
<1>6. after[i][2] /\ ~unnoticed'[i] => identity'[i] # identity[i]
  BY <1>1, <1>3
<1>7. ~after[i][2] /\ ~blind'[i] => ~blind[i] /\ identity'[i] = identity[i]
  BY <1>1, <1>2, <1>3
<1> QED
  BY <1>1, <1>2, <1>3, <1>4, <1>5, <1>6, <1>7

\* An instant keeps the invariant: a gate is dropped within a cycle only where
\* the position was not seen, and kept across two only where nothing was noticed.
LEMMA TradeKeeps ==
    ASSUME GatesInvariant, TerminalsAreTyped, Instant
    PROVE  GatesInvariant'
<1>0. Horizon \in Nat /\ now \in 0..Horizon
  BY BarsAssumption DEF Horizon, GatesInvariant, TypeOK
<1>1. /\ now' = now + 1 /\ now' \in 1..Horizon /\ evaluated' = now'
      /\ working' \in [Instruments -> SUBSET Order] /\ todo = {}
      /\ todo' = IF HasSession(CandidateDay') THEN Pairs ELSE {}
      /\ UNCHANGED <<terminal, lengths>>
  BY TradeTurns DEF GatesInvariant
<1>2. PICK after, present : Turns(after, present)
  BY TradeTurns DEF GatesInvariant
<1>3. gates \in [Pairs -> Gate] /\ log \in [Pairs -> SUBSET Entry]
      /\ terminal \in [Flows -> Terminal]
  BY DEF GatesInvariant, TypeOK
<1>4. FreshGate \in Gate /\ FreshGate.executions = 0
  BY DEF FreshGate, Gate, None
<1>5. \A p \in Pairs : p[2] \in Instruments
  BY DEF Pairs
<1>6. gates' \in [Pairs -> Gate] /\ log' \in [Pairs -> SUBSET Entry]
      /\ todo' \subseteq Pairs
  BY <1>1, <1>2, <1>3, <1>4 DEF Turns, DropChanged
<1>7. /\ cycle' \in [Instruments -> Cycle] /\ identity' \in [Instruments -> Cycle]
      /\ blind' \in [Instruments -> BOOLEAN] /\ unnoticed' \in [Instruments -> BOOLEAN]
  <2>1. \A i \in Instruments :
            /\ identity'[i] \in {None, cycle'[i]} /\ cycle'[i] \in Cycle
            /\ blind'[i] \in BOOLEAN /\ unnoticed'[i] \in BOOLEAN
    BY <1>2, GatesAfter
  <2>2. None \in Cycle
    BY DEF Cycle
  <2> QED
    BY <1>2, <2>1, <2>2 DEF Turns
<1>8. TypeOK'
  BY <1>0, <1>1, <1>6, <1>7 DEF TypeOK, GatesInvariant
<1>9. CyclesAreObserved' /\ AskedInSession'
  BY <1>1, <1>2, GatesAfter DEF CyclesAreObserved, AskedInSession, HasSession
<1>10. EntriesAreDated'
  <2> SUFFICES ASSUME NEW p \in Pairs, NEW e \in log'[p]
               PROVE  e.at <= now' /\ (p \in todo' => e.at < now')
    BY DEF EntriesAreDated
  <2>1. e \in log[p]
    BY <1>2 DEF Turns
  <2>2. e.at <= now /\ e.at \in 1..Horizon
    BY <2>1, <1>3 DEF GatesInvariant, EntriesAreDated, Entry
  <2> QED
    BY <2>2, <1>0, <1>1
<1>11. CountsAgree'
  <2> SUFFICES ASSUME NEW p \in Pairs
               PROVE  /\ IsFiniteSet(Attempts(p)')
                      /\ gates'[p].executions <= Maximum(terminal[p[1]])
                      /\ ~blind'[p[2]] => Cardinality(Attempts(p)') <= gates'[p].executions
                      /\ ~unnoticed'[p[2]] => gates'[p].executions <= Cardinality(Attempts(p)')
    BY <1>1 DEF CountsAgree
  <2> DEFINE i == p[2]
  <2>1. /\ gates'[p] \in {FreshGate, gates[p]}
        /\ after[i][2] => log'[p] = {} /\ (~unnoticed'[i] => gates'[p] = FreshGate)
        /\ ~after[i][2] =>
              /\ log'[p] = log[p] /\ unnoticed'[i] = unnoticed[i]
              /\ ~blind'[i] => ~blind[i] /\ gates'[p] = gates[p]
    BY <1>2, <1>5, GatesAfter
  <2>2. /\ IsFiniteSet(Attempts(p)) /\ Cardinality(Attempts(p)) \in Nat
        /\ gates[p].executions \in Nat /\ Maximum(terminal[p[1]]) \in Nat
        /\ gates[p].executions <= Maximum(terminal[p[1]])
        /\ ~blind[i] => Cardinality(Attempts(p)) <= gates[p].executions
        /\ ~unnoticed[i] => gates[p].executions <= Cardinality(Attempts(p))
    BY <1>3, MaximumType, FS_CardinalityType
       DEF GatesInvariant, CountsAgree, Gate, Pairs
  <2>3. gates'[p].executions <= Maximum(terminal[p[1]]) /\ gates'[p].executions \in Nat
    BY <1>4, <2>1, <2>2
  <2>4. CASE after[i][2]
    <3>1. Attempts(p)' = {}
      BY <2>1, <2>4 DEF Attempts
    <3>2. IsFiniteSet(Attempts(p)') /\ Cardinality(Attempts(p)') = 0
      BY <3>1, FS_EmptySet
    <3> QED
      BY <1>4, <2>1, <2>3, <2>4, <3>2
  <2>5. CASE ~after[i][2]
    <3>1. Attempts(p)' = Attempts(p)
      BY <2>1, <2>5 DEF Attempts
    <3>2. ~unnoticed'[i] => gates'[p].executions <= Cardinality(Attempts(p))
      BY <1>4, <2>1, <2>2, <2>5
    <3>3. ~blind'[i] => Cardinality(Attempts(p)) <= gates'[p].executions
      BY <2>1, <2>2, <2>5
    <3> QED
      BY <2>2, <2>3, <3>1, <3>2, <3>3
  <2> QED
    BY <2>4, <2>5
<1> QED
  BY <1>8, <1>9, <1>10, <1>11 DEF GatesInvariant

\* Every step keeps the invariant.
LEMMA InvariantNext ==
    ASSUME TerminalsAreTyped, GatesInvariant, [Next]_vars
    PROVE  GatesInvariant'
<1>1. CASE Instant
  BY <1>1, TradeKeeps
<1>2. CASE Skip
  <2>0. now \in 0..Horizon /\ Horizon \in Nat
    BY BarsAssumption DEF GatesInvariant, TypeOK, Horizon
  <2>1. now' = now + 1 /\ now < Horizon /\ todo = {}
        /\ UNCHANGED <<terminal, lengths, evaluated, cycle, working, identity, gates,
                       todo, history>>
    BY <1>2 DEF Skip
  <2>2. TypeOK'
    BY <2>0, <2>1 DEF GatesInvariant, TypeOK, history
  <2>3. EntriesAreDated'
    <3> SUFFICES ASSUME NEW p \in Pairs, NEW e \in log[p]
                 PROVE  e.at <= now'
      BY <2>1 DEF EntriesAreDated, history
    <3>1. e.at <= now /\ e.at \in 1..Horizon
      BY DEF GatesInvariant, EntriesAreDated, TypeOK, Entry
    <3> QED
      BY <2>0, <2>1, <3>1
  <2>4. CountsAgree' /\ CyclesAreObserved' /\ AskedInSession'
    BY <2>1 DEF GatesInvariant, CountsAgree, Attempts, CyclesAreObserved,
                AskedInSession, history
  <2> QED
    BY <2>2, <2>3, <2>4 DEF GatesInvariant
<1>3. CASE \E p \in todo, outcome \in Outcomes : NotTrue(p, outcome)
  <2>1. PICK p \in todo, outcome \in Outcomes : NotTrue(p, outcome)
    BY <1>3
  <2>2. gates[p] \in Gate /\ gates \in [Pairs -> Gate] /\ p \in Pairs
    BY DEF GatesInvariant, TypeOK
  <2>3. gates' = [gates EXCEPT ![p] = Observe(gates[p], outcome)]
    BY <2>1, <2>2 DEF NotTrue
  <2> QED
    BY <2>1, <2>2, <2>3, CountedKeeps, ObservedKeeps DEF NotTrue
<1>4. CASE \E p \in todo : Gated(p)
  <2>1. PICK p \in todo : Gated(p)
    BY <1>4
  <2>2. gates[p] \in Gate
    BY DEF GatesInvariant, TypeOK
  <2>3. "TRUE" \in Outcomes
    BY DEF Outcomes
  <2> QED
    BY <2>1, <2>2, <2>3, CountedKeeps, ObservedKeeps DEF Gated
<1>5. CASE \E p \in todo, ordered \in BOOLEAN : Attempt(p, ordered)
  BY <1>5, AttemptKeeps DEF GatesInvariant, TypeOK
<1>6. CASE UNCHANGED vars
  BY <1>6 DEF GatesInvariant, TypeOK, CyclesAreObserved, EntriesAreDated,
              CountsAgree, AskedInSession, Attempts, HasSession, CandidateDay, vars,
              market, history
<1> QED
  BY <1>1, <1>2, <1>3, <1>4, <1>5, <1>6 DEF Next

\* Whatever bars an instrument has and whichever are missing: the attempts of a
\* position cycle stay within the flow's limit while the position is seen.
THEOREM LimitHolds ==
    ASSUME TerminalsAreTyped
    PROVE  Spec => [](TypeOK /\ WithinLimit)
<1>1. Init => GatesInvariant
  BY InvariantInit
<1>2. GatesInvariant /\ [Next]_vars => GatesInvariant'
  BY InvariantNext
<1>3. GatesInvariant => TypeOK /\ WithinLimit
  <2> SUFFICES ASSUME GatesInvariant, NEW p \in Pairs, ~blind[p[2]]
               PROVE  Cardinality(Attempts(p)) <= Maximum(terminal[p[1]])
    BY DEF GatesInvariant, WithinLimit
  <2>1. /\ Cardinality(Attempts(p)) \in Nat /\ gates[p].executions \in Nat
        /\ Maximum(terminal[p[1]]) \in Nat
    BY MaximumType, FS_CardinalityType
       DEF GatesInvariant, CountsAgree, TypeOK, Gate, Pairs
  <2> QED
    BY <2>1 DEF GatesInvariant, CountsAgree
<1> QED
  BY <1>1, <1>2, <1>3, PTL DEF Spec

-----------------------------------------------------------------------------
(* Waits *)

\* What a gate remembers of the last attempt of its position cycle: how many
\* evaluations came since, whether one of them failed, and its session.
Remembers(p) ==
    /\ gates[p].bars = Cardinality(SinceAttempt(p))
    /\ gates[p].rearmed <=> \E e \in SinceAttempt(p) : e.outcome = "FALSE"
    /\ \E a \in Attempts(p) : a.day = gates[p].session
    /\ \A a \in Attempts(p) : a.day <= gates[p].session

LogsAreFinite ==
    \A p \in Pairs :
        /\ IsFiniteSet(log[p])
        /\ \A e \in log[p] : e.day <= CandidateDay

\* An attempt of the cycle on which nothing has reset, or one that was counted
\* since a reset at the cycle's beginning
Recalled(p) ==
    \/ ~blind[p[2]] /\ Attempts(p) # {}
    \/ ~unnoticed[p[2]] /\ gates[p].executions > 0

GatesRemember == \A p \in Pairs : Recalled(p) => Remembers(p)

WaitsInvariant == GatesInvariant /\ LogsAreFinite /\ GatesRemember

\* Sessions do not go back.
LEMMA DaysAdvance ==
    ASSUME now \in Nat, now' = now + 1
    PROVE  CandidateDay <= CandidateDay' /\ CandidateDay \in Int
<1> DEFINE n == InstantsPerSession
<1>1. n \in Nat \ {0}
  BY BarsAssumption
<1>2. ASSUME NEW t \in Nat, NEW m \in Nat \ {0}
      PROVE  /\ (t - 1) \div m <= t \div m /\ (t - 1) \div m \in Int /\ t \div m \in Int
             /\ t % m = 0 => (t - 1) \div m + 1 <= t \div m
  OBVIOUS
<1>3. Day(now) <= Day(now + 1) /\ Day(now) \in Int /\ Day(now + 1) \in Int
      /\ (AtClose(now) => Day(now) + 1 <= Day(now + 1))
  BY <1>1, <1>2 DEF Day, AtClose
<1>4. CandidateDay' = IF AtClose(now + 1) THEN Day(now + 1) + 1 ELSE Day(now + 1)
  BY DEF CandidateDay, AtClose, Day
<1>5. QED
  BY <1>3, <1>4 DEF CandidateDay

\* An evaluation is counted by a gate that has attempted.
LEMMA CountedSteps ==
    ASSUME NEW g \in Gate
    PROVE  /\ Counted(g) \in Gate
           /\ Counted(g).rearmed = g.rearmed /\ Counted(g).session = g.session
           /\ g.executions > 0 => Counted(g).bars = g.bars + 1
<1> DEFINE bars == IF g.executions > 0 THEN g.bars + 1 ELSE g.bars
<1>1. Counted(g) = [g EXCEPT !.bars = bars]
  BY DEF Counted
<1>2. g.executions > 0 => bars = g.bars + 1
  OBVIOUS
<1> HIDE DEF bars
<1>3. /\ Counted(g).rearmed = g.rearmed
      /\ Counted(g).session = g.session
      /\ Counted(g).bars = bars
  BY <1>1 DEF Gate
<1>4. QED
  BY <1>2, <1>3, CountedKeeps

\* It rearms the gate where the condition fails.
LEMMA ObserveSteps ==
    ASSUME NEW g \in Gate, NEW outcome \in Outcomes
    PROVE  /\ g.executions > 0 => Observe(g, outcome).bars = g.bars + 1
           /\ Observe(g, outcome).session = g.session
           /\ Observe(g, outcome).rearmed <=> outcome = "FALSE" \/ g.rearmed
<1>1. /\ Counted(g) \in Gate
      /\ Counted(g).rearmed = g.rearmed /\ Counted(g).session = g.session
      /\ g.executions > 0 => Counted(g).bars = g.bars + 1
  BY CountedSteps
<1>2. CASE outcome = "FALSE"
  <2>1. Observe(g, outcome) = [Counted(g) EXCEPT !.rearmed = TRUE]
    BY <1>2 DEF Observe
  <2>2. /\ Observe(g, outcome).bars = Counted(g).bars
        /\ Observe(g, outcome).session = Counted(g).session
        /\ Observe(g, outcome).rearmed = TRUE
    BY <1>1, <2>1 DEF Gate
  <2>3. QED
    BY <1>1, <1>2, <2>2
<1>3. CASE outcome # "FALSE"
  BY <1>1, <1>3 DEF Observe
<1>4. QED
  BY <1>2, <1>3

\* An attempt starts the wait anew.
LEMMA AcceptedSteps ==
    ASSUME NEW g \in Gate, NEW day \in 0..(Sessions - 1)
    PROVE  /\ Accepted(g, day).bars = 0 /\ Accepted(g, day).session = day
           /\ Accepted(g, day).rearmed = FALSE
BY DEF Accepted

\* What is noted of an evaluation: an entry later than all that were.
LEMMA NotedAppends ==
    ASSUME GatesInvariant, LogsAreFinite, NEW p \in todo, NEW outcome \in Outcomes,
           NEW attempt \in BOOLEAN, Noted(p, outcome, attempt), now' = now
    PROVE  /\ \A q \in Pairs : q # p => log'[q] = log[q]
           /\ \E e \in Entry \ log[p] :
                 /\ log'[p] = log[p] \cup {e}
                 /\ e.at = now /\ e.outcome = outcome /\ e.attempt = attempt
                 /\ e.day = CandidateDay
           /\ \A f \in log[p] : f.at < now
           /\ LogsAreFinite'
           /\ p \in Pairs
<1> DEFINE e == [at |-> now, outcome |-> outcome, attempt |-> attempt, day |-> CandidateDay]
<1>1. p \in Pairs /\ log \in [Pairs -> SUBSET Entry]
  BY DEF GatesInvariant, TypeOK
<1>2. log' = [log EXCEPT ![p] = log[p] \cup {e}]
  BY <1>1 DEF Noted
<1>3. now \in 1..Horizon /\ CandidateDay \in 0..(Sessions - 1)
  BY DEF GatesInvariant, AskedInSession, HasSession
<1>4. e \in Entry
  BY <1>3 DEF Entry
<1>5. \A f \in log[p] : f.at < now
  BY <1>1 DEF GatesInvariant, EntriesAreDated
<1>6. e \notin log[p]
  BY <1>3, <1>5
<1>7. e.at = now /\ e.outcome = outcome /\ e.attempt = attempt /\ e.day = CandidateDay
  OBVIOUS
<1>8. CandidateDay' = CandidateDay
  BY DEF CandidateDay, AtClose, Day
<1> HIDE DEF e
<1>9. log'[p] = log[p] \cup {e} /\ \A q \in Pairs : q # p => log'[q] = log[q]
  BY <1>1, <1>2
<1>10. LogsAreFinite'
  <2> SUFFICES ASSUME NEW q \in Pairs
               PROVE  IsFiniteSet(log'[q]) /\ \A f \in log'[q] : f.day <= CandidateDay
    BY <1>8 DEF LogsAreFinite
  <2>1. IsFiniteSet(log[q]) /\ \A f \in log[q] : f.day <= CandidateDay
    BY DEF LogsAreFinite
  <2>2. IsFiniteSet(log[q] \cup {e})
    BY <2>1, FS_AddElement
  <2>3. CandidateDay <= CandidateDay
    BY <1>3
  <2>4. QED
    BY <1>7, <1>9, <2>1, <2>2, <2>3
<1>11. QED
  BY <1>1, <1>4, <1>5, <1>6, <1>7, <1>9, <1>10

\* A gate that has attempted remembers one evaluation more.
LEMMA ObservedRemembers ==
    ASSUME WaitsInvariant, NEW p \in todo, NEW outcome \in Outcomes,
           gates' = [gates EXCEPT ![p] = Observe(gates[p], outcome)],
           Noted(p, outcome, FALSE), now' = now
    PROVE  LogsAreFinite' /\ GatesRemember'
<1>0. FALSE \in BOOLEAN
  OBVIOUS
<1>1. PICK e \in Entry \ log[p] :
          /\ log'[p] = log[p] \cup {e}
          /\ e.at = now /\ e.outcome = outcome /\ e.attempt = FALSE /\ e.day = CandidateDay
  BY <1>0, NotedAppends DEF WaitsInvariant
<1>2. /\ \A q \in Pairs : q # p => log'[q] = log[q]
      /\ \A f \in log[p] : f.at < now
      /\ LogsAreFinite' /\ p \in Pairs
  BY <1>0, NotedAppends DEF WaitsInvariant
<1>3. gates \in [Pairs -> Gate] /\ gates[p] \in Gate /\ log \in [Pairs -> SUBSET Entry]
      /\ now \in Nat /\ CandidateDay \in 0..(Sessions - 1)
  BY <1>2 DEF WaitsInvariant, GatesInvariant, TypeOK, AskedInSession, HasSession
<1>4. ASSUME NEW q \in Pairs, q # p, Recalled(q)'
      PROVE  Remembers(q)'
  <2>1. log'[q] = log[q] /\ gates'[q] = gates[q]
    BY <1>2, <1>3, <1>4
  <2>2. Attempts(q)' = Attempts(q)
    BY <2>1 DEF Attempts
  <2>3. SinceAttempt(q)' = SinceAttempt(q)
    BY <2>1, <2>2 DEF SinceAttempt
  <2>4. Recalled(q)
    BY <1>4, <2>1, <2>2 DEF Recalled, Noted
  <2>5. QED
    BY <2>1, <2>2, <2>3, <2>4 DEF WaitsInvariant, GatesRemember, Remembers
<1>5. ASSUME Recalled(p)'
      PROVE  Remembers(p)'
  <2>1. Attempts(p)' = Attempts(p)
    BY <1>1 DEF Attempts
  <2>2. SinceAttempt(p)' = SinceAttempt(p) \cup {e}
    <3>1. \A a \in Attempts(p) : e.at > a.at
      BY <1>1, <1>2 DEF Attempts
    <3>2. QED
      BY <1>1, <2>1, <3>1 DEF SinceAttempt
  <2>3. gates[p].executions > 0 /\ Recalled(p)
    <3>1. gates'[p].executions = gates[p].executions
      <4>1. gates'[p] = Observe(gates[p], outcome)
        BY <1>2, <1>3
      <4>2. QED
        BY <1>3, <4>1, CountedKeeps
    <3>2. Recalled(p)
      BY <1>5, <2>1, <3>1 DEF Recalled, Noted
    <3>3. /\ IsFiniteSet(Attempts(p)) /\ Cardinality(Attempts(p)) \in Nat
          /\ Cardinality(Attempts(p)) = 0 <=> Attempts(p) = {}
          /\ ~blind[p[2]] => Cardinality(Attempts(p)) <= gates[p].executions
          /\ gates[p].executions \in Nat
      BY <1>2, <1>3, FS_EmptySet, FS_CardinalityType
         DEF WaitsInvariant, GatesInvariant, CountsAgree, Gate
    <3>4. QED
      BY <3>2, <3>3 DEF Recalled
  <2>4. Remembers(p)
    BY <1>2, <2>3 DEF WaitsInvariant, GatesRemember
  <2>5. IsFiniteSet(SinceAttempt(p)) /\ e \notin SinceAttempt(p)
    <3>1. IsFiniteSet(log[p]) /\ SinceAttempt(p) \subseteq log[p]
      BY <1>2 DEF WaitsInvariant, LogsAreFinite, SinceAttempt
    <3>2. QED
      BY <1>1, <3>1, FS_Subset
  <2>6. Cardinality(SinceAttempt(p)') = Cardinality(SinceAttempt(p)) + 1
    BY <2>2, <2>5, FS_AddElement
  <2>7. /\ gates'[p].bars = gates[p].bars + 1
        /\ gates'[p].session = gates[p].session
        /\ gates'[p].rearmed <=> outcome = "FALSE" \/ gates[p].rearmed
    <3>1. gates'[p] = Observe(gates[p], outcome)
      BY <1>2, <1>3
    <3>2. /\ Observe(gates[p], outcome).bars = gates[p].bars + 1
          /\ Observe(gates[p], outcome).session = gates[p].session
          /\ Observe(gates[p], outcome).rearmed <=> outcome = "FALSE" \/ gates[p].rearmed
      BY <1>3, <2>3, ObserveSteps
    <3>3. QED
      BY <3>1, <3>2
  <2>8. gates'[p].bars = Cardinality(SinceAttempt(p)')
    BY <2>4, <2>6, <2>7 DEF Remembers
  <2>9. gates'[p].rearmed <=> \E f \in SinceAttempt(p)' : f.outcome = "FALSE"
    BY <1>1, <2>2, <2>4, <2>7 DEF Remembers
  <2>10. QED
    BY <2>1, <2>4, <2>7, <2>8, <2>9 DEF Remembers
<1>6. QED
  BY <1>2, <1>4, <1>5 DEF GatesRemember

\* A gate that has just attempted remembers nothing else.
LEMMA AttemptRemembers ==
    ASSUME WaitsInvariant, NEW p \in todo, NEW ordered \in BOOLEAN, Attempt(p, ordered)
    PROVE  LogsAreFinite' /\ GatesRemember'
<1>0. TRUE \in BOOLEAN /\ "TRUE" \in Outcomes /\ Noted(p, "TRUE", TRUE) /\ now' = now
  BY DEF Outcomes, Attempt, market
<1>1. PICK e \in Entry \ log[p] :
          /\ log'[p] = log[p] \cup {e}
          /\ e.at = now /\ e.outcome = "TRUE" /\ e.attempt = TRUE /\ e.day = CandidateDay
  BY <1>0, NotedAppends DEF WaitsInvariant
<1>2. /\ \A q \in Pairs : q # p => log'[q] = log[q]
      /\ \A f \in log[p] : f.at < now
      /\ LogsAreFinite' /\ p \in Pairs
  BY <1>0, NotedAppends DEF WaitsInvariant
<1>3. gates \in [Pairs -> Gate] /\ gates[p] \in Gate /\ log \in [Pairs -> SUBSET Entry]
      /\ now \in Nat /\ CandidateDay \in 0..(Sessions - 1)
  BY <1>2 DEF WaitsInvariant, GatesInvariant, TypeOK, AskedInSession, HasSession
<1>4. gates' = [gates EXCEPT ![p] = Accepted(Counted(gates[p]), CandidateDay)]
  BY DEF Attempt
<1>5. ASSUME NEW q \in Pairs, q # p, Recalled(q)'
      PROVE  Remembers(q)'
  <2>1. log'[q] = log[q] /\ gates'[q] = gates[q]
    BY <1>2, <1>3, <1>4, <1>5
  <2>2. Attempts(q)' = Attempts(q)
    BY <2>1 DEF Attempts
  <2>3. SinceAttempt(q)' = SinceAttempt(q)
    BY <2>1, <2>2 DEF SinceAttempt
  <2>4. Recalled(q)
    BY <1>0, <1>5, <2>1, <2>2 DEF Recalled, Noted
  <2>5. QED
    BY <2>1, <2>2, <2>3, <2>4 DEF WaitsInvariant, GatesRemember, Remembers
<1>6. Remembers(p)'
  <2>1. e \in Attempts(p)' /\ \A a \in Attempts(p)' : a \in log'[p]
    BY <1>1 DEF Attempts
  <2>2. \A f \in log'[p] : ~(f.at > e.at)
    BY <1>1, <1>2, <1>3 DEF Entry
  <2>3. SinceAttempt(p)' = {}
    BY <2>1, <2>2 DEF SinceAttempt
  <2>4. /\ gates'[p].bars = 0 /\ gates'[p].session = CandidateDay
        /\ gates'[p].rearmed = FALSE
    <3>1. gates'[p] = Accepted(Counted(gates[p]), CandidateDay)
      BY <1>2, <1>3, <1>4
    <3>2. Counted(gates[p]) \in Gate
      BY <1>3, CountedKeeps
    <3>3. /\ Accepted(Counted(gates[p]), CandidateDay).bars = 0
          /\ Accepted(Counted(gates[p]), CandidateDay).session = CandidateDay
          /\ Accepted(Counted(gates[p]), CandidateDay).rearmed = FALSE
      BY <1>3, <3>2, AcceptedSteps
    <3>4. QED
      BY <3>1, <3>3
  <2>5. \A a \in log'[p] : a.day <= CandidateDay
    <3>1. CandidateDay' = CandidateDay
      BY <1>0 DEF CandidateDay, AtClose, Day
    <3>2. QED
      BY <1>2, <3>1 DEF LogsAreFinite
  <2>6. QED
    BY <1>1, <2>1, <2>3, <2>4, <2>5, FS_EmptySet DEF Remembers
<1>7. QED
  BY <1>2, <1>5, <1>6 DEF GatesRemember

\* Where a gate still is to remember something after an instant, the instant has
\* left it and its history alone.
LEMMA TradeRemembers ==
    ASSUME WaitsInvariant, Instant
    PROVE  LogsAreFinite' /\ GatesRemember'
<1>1. /\ now \in Nat /\ log \in [Pairs -> SUBSET Entry] /\ gates \in [Pairs -> Gate]
      /\ now' = now + 1 /\ \A p \in Pairs : p[2] \in Instruments
  BY BarsAssumption, TradeTurns DEF WaitsInvariant, GatesInvariant, TypeOK, Horizon, Pairs
<1>2. PICK after, present : Turns(after, present)
  BY TradeTurns DEF WaitsInvariant, GatesInvariant
<1>3. CandidateDay <= CandidateDay' /\ CandidateDay \in Int /\ CandidateDay' \in Int
  BY <1>1, DaysAdvance, BarsAssumption DEF CandidateDay, AtClose, Day
<1>4. LogsAreFinite'
  <2> SUFFICES ASSUME NEW p \in Pairs
               PROVE  IsFiniteSet(log'[p]) /\ \A e \in log'[p] : e.day <= CandidateDay'
    BY DEF LogsAreFinite
  <2>1. log'[p] = {} \/ log'[p] = log[p]
    BY <1>2 DEF Turns
  <2>2. IsFiniteSet(log[p]) /\ \A e \in log[p] : e.day <= CandidateDay /\ e.day \in Int
    BY <1>1 DEF WaitsInvariant, LogsAreFinite, Entry
  <2>3. QED
    BY <1>3, <2>1, <2>2, FS_EmptySet
<1>5. ASSUME NEW p \in Pairs, Recalled(p)'
      PROVE  Remembers(p)'
  <2> DEFINE i == p[2]
  <2>1. /\ gates'[p] \in {FreshGate, gates[p]}
        /\ after[i][2] => log'[p] = {} /\ (~unnoticed'[i] => gates'[p] = FreshGate)
        /\ ~after[i][2] =>
              /\ log'[p] = log[p] /\ unnoticed'[i] = unnoticed[i]
              /\ ~blind'[i] => ~blind[i] /\ gates'[p] = gates[p]
    BY <1>1, <1>2, GatesAfter DEF WaitsInvariant
  <2>2. FreshGate.executions = 0
    BY DEF FreshGate
  <2>3. ~after[i][2]
    <3>1. ASSUME after[i][2]
          PROVE  FALSE
      <4>1. Attempts(p)' = {}
        BY <2>1, <3>1 DEF Attempts
      <4>2. ~unnoticed'[i] /\ gates'[p].executions > 0
        BY <1>5, <4>1 DEF Recalled
      <4>3. QED
        BY <2>1, <2>2, <3>1, <4>2
    <3>2. QED
      BY <3>1
  <2>4. log'[p] = log[p] /\ gates'[p] = gates[p]
    BY <1>5, <2>1, <2>2, <2>3 DEF Recalled
  <2>5. Attempts(p)' = Attempts(p)
    BY <2>4 DEF Attempts
  <2>6. SinceAttempt(p)' = SinceAttempt(p)
    BY <2>4, <2>5 DEF SinceAttempt
  <2>7. Recalled(p)
    BY <1>5, <2>1, <2>3, <2>4, <2>5 DEF Recalled
  <2>8. QED
    BY <2>4, <2>5, <2>6, <2>7 DEF WaitsInvariant, GatesRemember, Remembers
<1>6. QED
  BY <1>4, <1>5 DEF GatesRemember

\* An evaluation that is turned away is observed as any other is.
LEMMA WaitsNext ==
    ASSUME TerminalsAreTyped, WaitsInvariant, [Next]_vars
    PROVE  WaitsInvariant'
<1>1. GatesInvariant'
  BY InvariantNext DEF WaitsInvariant
<1>2. CASE Instant
  BY <1>1, <1>2, TradeRemembers DEF WaitsInvariant
<1>3. CASE Skip
  <2>1. now \in Nat /\ now' = now + 1 /\ UNCHANGED <<gates, log, blind, unnoticed>>
    BY <1>3, BarsAssumption DEF WaitsInvariant, GatesInvariant, TypeOK, Horizon, Skip, history
  <2>2. CandidateDay <= CandidateDay' /\ CandidateDay \in Int /\ CandidateDay' \in Int
    BY <2>1, DaysAdvance, BarsAssumption DEF CandidateDay, AtClose, Day
  <2>3. LogsAreFinite'
    BY <2>1, <2>2 DEF WaitsInvariant, LogsAreFinite, GatesInvariant, TypeOK, Entry
  <2>4. GatesRemember'
    BY <2>1 DEF WaitsInvariant, GatesRemember, Recalled, Remembers, SinceAttempt, Attempts
  <2>5. QED
    BY <1>1, <2>3, <2>4 DEF WaitsInvariant
<1>4. ASSUME NEW p \in todo, NEW outcome \in Outcomes, NotTrue(p, outcome)
      PROVE  WaitsInvariant'
  <2>1. gates' = [gates EXCEPT ![p] = Observe(gates[p], outcome)]
    BY <1>4 DEF NotTrue, WaitsInvariant, GatesInvariant, TypeOK
  <2>2. QED
    BY <1>1, <1>4, <2>1, ObservedRemembers DEF NotTrue, WaitsInvariant, market
<1>5. ASSUME NEW p \in todo, Gated(p)
      PROVE  WaitsInvariant'
  <2>1. "TRUE" \in Outcomes /\ Observe(gates[p], "TRUE") = Counted(gates[p])
    BY DEF Outcomes, Observe
  <2>2. gates' = [gates EXCEPT ![p] = Observe(gates[p], "TRUE")]
    BY <1>5, <2>1 DEF Gated
  <2>3. QED
    BY <1>1, <1>5, <2>1, <2>2, ObservedRemembers DEF Gated, WaitsInvariant, market
<1>6. ASSUME NEW p \in todo, NEW ordered \in BOOLEAN, Attempt(p, ordered)
      PROVE  WaitsInvariant'
  BY <1>1, <1>6, AttemptRemembers DEF WaitsInvariant
<1>7. CASE UNCHANGED vars
  BY <1>1, <1>7 DEF WaitsInvariant, LogsAreFinite, GatesRemember, Recalled, Remembers,
     SinceAttempt, Attempts, CandidateDay, AtClose, Day, vars, market, history
<1>8. QED
  BY <1>2, <1>3, <1>4, <1>5, <1>6, <1>7 DEF Next

\* What a gate that remembers says of the wait.
LEMMA GateIsWait ==
    ASSUME WaitsInvariant, NEW p \in todo, Recalled(p), Attempts(p) # {},
           gates[p].executions > 0
    PROVE  Accepts(terminal[p[1]], Counted(gates[p]), CandidateDay) <=>
              Waited(p) /\ gates[p].executions < Maximum(terminal[p[1]])
<1> DEFINE terms == terminal[p[1]]
           g == Counted(gates[p])
<1>1. /\ p \in Pairs /\ gates[p] \in Gate /\ terms \in Terminal
      /\ CandidateDay \in 0..(Sessions - 1)
  BY DEF WaitsInvariant, GatesInvariant, TypeOK, AskedInSession, HasSession, Pairs
<1>2. g.executions = gates[p].executions /\ g.executions # 0
  BY <1>1, CountedKeeps
<1>3. Remembers(p)
  BY <1>1 DEF WaitsInvariant, GatesRemember
<1>4. /\ g.rearmed = gates[p].rearmed /\ g.session = gates[p].session
      /\ g.bars = gates[p].bars + 1
  BY <1>1, CountedSteps
<1>5. g.rearmed <=> \E e \in SinceAttempt(p) : e.outcome = "FALSE"
  BY <1>3, <1>4 DEF Remembers
<1>6. g.bars = Cardinality(SinceAttempt(p)) + 1
  BY <1>3, <1>4 DEF Remembers
<1>7. (g.session # None /\ CandidateDay - g.session >= terms.interval) <=>
          \A a \in Attempts(p) : CandidateDay - a.day >= terms.interval
  <2>1. \A a \in Attempts(p) : a.day \in Nat
    BY <1>1 DEF Attempts, WaitsInvariant, GatesInvariant, TypeOK, Entry
  <2>2. PICK a \in Attempts(p) : a.day = g.session
    BY <1>3, <1>4 DEF Remembers
  <2>3. \A b \in Attempts(p) : b.day <= g.session
    BY <1>3, <1>4 DEF Remembers
  <2>4. g.session \in Nat
    BY <2>1, <2>2
  <2>5. terms.interval \in Nat
    BY <1>1 DEF Terminal
  <2> HIDE DEF g, terms
  <2>6. g.session # None
    BY <2>4 DEF None
  <2>7. QED
    BY <1>1, <2>1, <2>2, <2>3, <2>4, <2>5, <2>6
<1> HIDE DEF g, terms
<1>8. QED
  BY <1>2, <1>5, <1>6, <1>7 DEF Accepts, Waited, WithinMaximum, terms, g

\* A gate that has counted the attempts of the cycle accepts only what is due.
LEMMA AcceptedIsDue ==
    ASSUME WaitsInvariant, NEW p \in todo, ~blind[p[2]],
           Accepts(terminal[p[1]], Counted(gates[p]), CandidateDay)
    PROVE  Waited(p)
<1>1. CASE Attempts(p) = {}
  BY <1>1 DEF Waited
<1>2. CASE Attempts(p) # {}
  <2>1. /\ IsFiniteSet(Attempts(p)) /\ Cardinality(Attempts(p)) \in Nat
        /\ Cardinality(Attempts(p)) = 0 <=> Attempts(p) = {}
        /\ Cardinality(Attempts(p)) <= gates[p].executions
        /\ gates[p].executions \in Nat
    BY FS_EmptySet, FS_CardinalityType
       DEF WaitsInvariant, GatesInvariant, TypeOK, CountsAgree, Gate
  <2>2. gates[p].executions > 0
    BY <1>2, <2>1
  <2>3. Recalled(p)
    BY <1>2 DEF Recalled
  <2>4. QED
    BY <1>2, <2>2, <2>3, GateIsWait
<1>3. QED
  BY <1>1, <1>2

\* A gate that has counted nothing but the attempts of the cycle turns away only
\* what is not due or over the limit.
LEMMA TurnedAwayIsNotDue ==
    ASSUME WaitsInvariant, NEW p \in todo, ~unnoticed[p[2]],
           ~Accepts(terminal[p[1]], Counted(gates[p]), CandidateDay)
    PROVE  ~Waited(p) \/ Cardinality(Attempts(p)) >= Maximum(terminal[p[1]])
<1>1. /\ IsFiniteSet(Attempts(p)) /\ Cardinality(Attempts(p)) \in Nat
      /\ Cardinality(Attempts(p)) = 0 <=> Attempts(p) = {}
      /\ gates[p].executions <= Cardinality(Attempts(p))
      /\ gates[p].executions \in Nat /\ gates[p] \in Gate
      /\ Maximum(terminal[p[1]]) \in Nat
  BY FS_EmptySet, FS_CardinalityType, MaximumType
     DEF WaitsInvariant, GatesInvariant, TypeOK, CountsAgree, Gate, Pairs
<1>2. CASE gates[p].executions = 0
  <2>1. Counted(gates[p]).executions = 0
    BY <1>1, <1>2, CountedKeeps
  <2>2. ~(0 < Maximum(terminal[p[1]]))
    BY <2>1 DEF Accepts, WithinMaximum
  <2>3. QED
    BY <1>1, <2>2
<1>3. CASE gates[p].executions > 0
  <2>1. Attempts(p) # {} /\ Recalled(p)
    BY <1>1, <1>3 DEF Recalled
  <2>2. ~Waited(p) \/ ~(gates[p].executions < Maximum(terminal[p[1]]))
    BY <1>3, <2>1, GateIsWait
  <2>3. QED
    BY <1>1, <2>2
<1>4. QED
  BY <1>1, <1>2, <1>3

\* The step that decides on a pair is the one that notes it.
LEMMA DecidedBy ==
    ASSUME WaitsInvariant, [Next]_vars, NEW p \in Pairs, NEW attempt \in BOOLEAN,
           Decided(p, attempt)
    PROVE  /\ p \in todo
           /\ attempt => \E ordered \in BOOLEAN : Attempt(p, ordered)
           /\ ~attempt => Gated(p)
<1>1. log \in [Pairs -> SUBSET Entry] /\ todo \subseteq Pairs
  BY DEF WaitsInvariant, GatesInvariant, TypeOK
<1>2. PICK e \in log'[p] \ log[p] : e.outcome = "TRUE" /\ e.attempt = attempt
  BY DEF Decided
<1>3. ASSUME NEW q \in todo, NEW outcome \in Outcomes, NEW tried \in BOOLEAN,
             Noted(q, outcome, tried)
      PROVE  q = p /\ outcome = "TRUE" /\ tried = attempt
  <2> DEFINE f == [at |-> now, outcome |-> outcome, attempt |-> tried, day |-> CandidateDay]
  <2>1. log' = [log EXCEPT ![q] = log[q] \cup {f}] /\ q \in Pairs
    BY <1>1, <1>3 DEF Noted
  <2>2. q = p /\ e = f
    BY <1>1, <1>2, <2>1
  <2>3. QED
    BY <1>2, <2>2
<1>4. CASE Instant \/ Skip \/ UNCHANGED vars
  BY <1>1, <1>2, <1>4 DEF Instant, Trade, Skip, vars, history
<1>5. ASSUME NEW q \in todo, NEW outcome \in Outcomes, NotTrue(q, outcome)
      PROVE  FALSE
  BY <1>3, <1>5 DEF NotTrue
<1>6. ASSUME NEW q \in todo, Gated(q)
      PROVE  q = p /\ attempt = FALSE
  BY <1>3, <1>6 DEF Gated, Outcomes
<1>7. ASSUME NEW q \in todo, NEW ordered \in BOOLEAN, Attempt(q, ordered)
      PROVE  q = p /\ attempt = TRUE
  BY <1>3, <1>7 DEF Attempt, Outcomes
<1>8. QED
  BY <1>4, <1>5, <1>6, <1>7 DEF Next

\* Initially no gate has anything to remember.
LEMMA WaitsInit ==
    ASSUME TerminalsAreTyped, Init
    PROVE  WaitsInvariant
BY InvariantInit, FS_EmptySet
   DEF Init, WaitsInvariant, LogsAreFinite, GatesRemember, Recalled, Attempts, FreshGate

\* No attempt comes before its wait is over, while the position is seen.
THEOREM WaitsHold ==
    ASSUME TerminalsAreTyped
    PROVE  Spec => WaitsAreKept
<1>1. WaitsInvariant /\ [Next]_vars =>
        [\A p \in Pairs : Decided(p, TRUE) /\ ~blind[p[2]] => Waited(p)]_vars
  <2> SUFFICES ASSUME WaitsInvariant, [Next]_vars, NEW p \in Pairs, Decided(p, TRUE),
                      ~blind[p[2]]
               PROVE  Waited(p)
    OBVIOUS
  <2>1. p \in todo /\ \E ordered \in BOOLEAN : Attempt(p, ordered)
    BY DecidedBy
  <2>2. QED
    BY <2>1, AcceptedIsDue DEF Attempt
<1>2. Init => WaitsInvariant
  BY WaitsInit
<1>3. WaitsInvariant /\ [Next]_vars => WaitsInvariant'
  BY WaitsNext
<1>4. QED
  BY <1>1, <1>2, <1>3, PTL DEF Spec, WaitsAreKept

\* An evaluation that is due is turned away only by the limit, unless its cycle
\* looked as the one before did when it began.
THEOREM DueHolds ==
    ASSUME TerminalsAreTyped
    PROVE  Spec => DueIsAttempted
<1>1. WaitsInvariant /\ [Next]_vars =>
        [\A p \in Pairs : Decided(p, FALSE) /\ ~unnoticed[p[2]] =>
            ~Waited(p) \/ Cardinality(Attempts(p)) >= Maximum(terminal[p[1]])]_vars
  <2> SUFFICES ASSUME WaitsInvariant, [Next]_vars, NEW p \in Pairs,
                      Decided(p, FALSE), ~unnoticed[p[2]]
               PROVE  ~Waited(p) \/ Cardinality(Attempts(p)) >= Maximum(terminal[p[1]])
    OBVIOUS
  <2>1. p \in todo /\ Gated(p)
    BY DecidedBy
  <2>2. QED
    BY <2>1, TurnedAwayIsNotDue DEF Gated
<1>2. Init => WaitsInvariant
  BY WaitsInit
<1>3. WaitsInvariant /\ [Next]_vars => WaitsInvariant'
  BY WaitsNext
<1>4. QED
  BY <1>1, <1>2, <1>3, PTL DEF Spec, DueIsAttempted

=============================================================================
