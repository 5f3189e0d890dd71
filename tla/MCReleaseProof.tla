--------------------------- MODULE MCReleaseProof ---------------------------
(* Instances of ReleaseProof for TLC. *)
EXTENDS ReleaseProof

CONSTANTS clock30, typed

ThreeRuns == <<clock30, clock30, typed>>

=============================================================================
