---------------------------- MODULE AttemptLedger ----------------------------
(***************************************************************************)
(* What section 3 and 4 of the backtest execution contract promise of a    *)
(* run's attempts, without locks, snapshots or sessions: a ledger with one *)
(* entry per attempt, of which the last may be held until a deadline.      *)
(* Every step is atomic and sees the clock of the moment it happens.       *)
(***************************************************************************)
EXTENDS Naturals, Sequences

CONSTANT Runs

VARIABLES
    clock,      \* database time
    entries,    \* per run, one entry for each attempt
    deadline,   \* per run, the end of the last lease granted
    cancelled   \* per run, whether cancellation was requested

ledgerVars == <<clock, entries, deadline, cancelled>>

Open == "retry"
Decided == {"succeeded", "closed"}
EntryKind == {"held", Open} \cup Decided

Init ==
    /\ clock = 0
    /\ entries = [r \in Runs |-> <<>>]
    /\ deadline = [r \in Runs |-> 0]
    /\ cancelled = [r \in Runs |-> FALSE]

Last(r) == entries[r][Len(entries[r])]
Held(r) == entries[r] # <<>> /\ Last(r) = "held"
Settled(r, kind) == [entries[r] EXCEPT ![Len(entries[r])] = kind]

\* Some new deadline for r, the others as they were
NewDeadline(r) ==
    /\ deadline'[r] \in Nat
    /\ deadline' = [deadline EXCEPT ![r] = deadline'[r]]

\* A new holder, where nobody holds the run and no outcome is decided
Grant(r) ==
    /\ ~cancelled[r]
    /\ entries[r] # <<>> => Last(r) = Open
    /\ entries' = [entries EXCEPT ![r] = Append(@, "held")]
    /\ NewDeadline(r)
    /\ UNCHANGED <<clock, cancelled>>

\* A new holder replaces one whose deadline has passed
TakeOver(r) ==
    /\ ~cancelled[r]
    /\ Held(r) /\ deadline[r] <= clock
    /\ entries' = [entries EXCEPT ![r] = Append(Settled(r, Open), "held")]
    /\ NewDeadline(r)
    /\ UNCHANGED <<clock, cancelled>>

Renew(r) ==
    /\ Held(r)
    /\ NewDeadline(r)
    /\ UNCHANGED <<clock, entries, cancelled>>

\* The held entry gets its outcome, which is no success once the run is to
\* be cancelled
Settle(r, kind) ==
    /\ Held(r)
    /\ kind = "succeeded" => ~cancelled[r]
    /\ entries' = [entries EXCEPT ![r] = Settled(r, kind)]
    /\ UNCHANGED <<clock, deadline, cancelled>>

Cancel(r) ==
    /\ cancelled' = [cancelled EXCEPT ![r] = TRUE]
    /\ UNCHANGED <<clock, entries, deadline>>

Advance ==
    /\ clock' = clock + 1
    /\ UNCHANGED <<entries, deadline, cancelled>>

Next ==
    \/ \E r \in Runs :
          \/ Grant(r)
          \/ TakeOver(r)
          \/ Renew(r)
          \/ \E kind \in {Open} \cup Decided : Settle(r, kind)
          \/ Cancel(r)
    \/ Advance

Spec == Init /\ [][Next]_ledgerVars
=============================================================================
