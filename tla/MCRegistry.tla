------------------------------ MODULE MCRegistry -----------------------------
(* Registry on a small instance, for TLC: requests and keys are            *)
(* interchangeable; ids, codes and serials are not, since the specification *)
(* draws them with CHOOSE.                                                 *)
EXTENDS Registry, TLC

RequestSymmetry == Permutations(Requests) \cup Permutations(Keys)
=============================================================================
