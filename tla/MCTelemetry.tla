----------------------------- MODULE MCTelemetry -----------------------------
(* Telemetry on a small instance; handlers and nodes are interchangeable.  *)
EXTENDS Telemetry, TLC

TelemetrySymmetry == Permutations(Requests) \cup Permutations(Nodes)
=============================================================================
