-------------------------- MODULE MCExecutionBook --------------------------
(* Instances of ExecutionBook for TLC. *)
EXTENDS ExecutionBook, TLC

\* A third order, and bars beside three orders, only of the instrument that the
\* first two are for.
ThirdOfOneInstrument ==
    Len(orders) = 3 =>
        /\ \A k \in 1..3 : orders[k].instrument = orders[1].instrument
        /\ \A b \in due : b.instrument = orders[1].instrument

Interchangeable == Permutations(Instruments)

=============================================================================
