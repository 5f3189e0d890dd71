-------------------------- MODULE MCMarketObjects --------------------------
(* Instances of MarketObjects for TLC. *)
EXTENDS MarketObjects

CONSTANTS bars, fixture, macd

\* A source that the baseline restores and one that the seeder fills
TwoSources == <<bars, fixture>>
SeededSource == <<fixture>>

\* An output of the pipeline
OneOutput == {macd}

=============================================================================
