------------------------------ MODULE MCMonitor -----------------------------
(* Monitor on a small instance; handlers are interchangeable.             *)
EXTENDS Monitor, TLC

MonitorSymmetry == Permutations(Requests)
=============================================================================
