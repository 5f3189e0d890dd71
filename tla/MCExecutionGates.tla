-------------------------- MODULE MCExecutionGates --------------------------
(* Instances of ExecutionGates for TLC. *)
EXTENDS ExecutionGates

CONSTANT i1

AnyTerminal ==
    {t \in [mode : {"once", "every time", "wait"},
            wait : {"rearmed", "bars", "sessions"},
            interval : {2}, most : {2, 3}, side : Sides] :
        /\ t.mode # "wait" => t.wait = "rearmed"
        /\ t.mode = "once" => t.most = 2}
BothSides == {"BUY", "SELL"}
SomeLengths == {{1}, {2}, {1, 2}}
OneInstant == {1}

=============================================================================
