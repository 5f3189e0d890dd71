--------------------------- MODULE MCManifestPins ---------------------------
(* The instance of ManifestPins for TLC. *)
EXTENDS ManifestPins

\* Three manifests can tile three days one by one, overlap, and replace one
\* another; requests do not change what is published.
ThreeIds == 1..3

=============================================================================
