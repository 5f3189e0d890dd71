------------------------- MODULE MCBacktestObjects -------------------------
(* Instances of BacktestObjects for TLC. *)
EXTENDS BacktestObjects, TLC

\* Sessions and objects are interchangeable: no operator singles one out.
Interchangeable == Permutations(Sessions) \cup Permutations(Objects)

\* No row, no bytes, no call about it
Untouched(o) == bytes[o] = "none" /\ \A s \in Sessions : o \notin tx[s].objs

\* Objects come into play together only in the run's first attempt, while they
\* are staged under their first token and not held.  A third attempt, which is
\* about who may adopt and delete, meets no holds.
OneOrFresh ==
    \/ /\ \E o \in Objects : Untouched(o)
       /\ Len(attempts) = 3 => \A o \in Objects : ~rows[o].held
    \/ /\ Len(attempts) <= 1
       /\ \A s \in Sessions : tx[s].op \notin {"transition", "reissue"}
       /\ \A o \in Objects :
             /\ issued[o] <= 1
             /\ rows[o].status \in {"ABSENT", "STAGED"} /\ ~rows[o].held

=============================================================================
