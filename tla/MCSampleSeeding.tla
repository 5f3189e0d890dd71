-------------------------- MODULE MCSampleSeeding --------------------------
(* Instances of SampleSeeding for TLC. *)
EXTENDS SampleSeeding

CONSTANTS aapl, msft

TwoSamples == <<aapl, msft>>

=============================================================================
