-------------------------- MODULE MCTriggerReplay --------------------------
(* Instances of TriggerReplay for TLC. *)
EXTENDS TriggerReplay

\* Flows of the corpus, and shorter variants of others in it
CorpusFlows ==
    SilentFlows \cup
    {<<Price("30m", "GT")>>,
     <<Schedule, Price("30m", "NEQ")>>,
     <<Holding("30m", 1), Price("30m", "LT")>>,
     <<Return("PROFIT", 1)>>,
     <<SmaCross("30m", "UP", 1, 2)>>,
     <<Condition("RSI_CROSS", "30m", "DOWN", "RSI_14", 10)>>}

ThreePrices == {9, 10, 12}
\* All bars, or all but the last short one of the second session, which leaves
\* the session's first instant in a gap
LastShortBar == {{}, {<<"30m", Closes(1)>>}}
OneWeekADay == [d \in Days |-> d]
OneMonth == [d \in Days |-> d \div 2]

=============================================================================
