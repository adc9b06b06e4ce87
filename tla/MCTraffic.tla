------------------------------ MODULE MCTraffic ------------------------------
(* Traffic on a small instance: the agent's clock is right, or set back.   *)
EXTENDS Traffic

SmallSkews == {-1, 0}
=============================================================================
