--------------------------- MODULE MCFleetRollout ---------------------------
(* Small instances of FleetRollout. *)
EXTENDS FleetRollout

CONSTANTS v1, v2

\* Docker: web on two hosts, a worker on one, a role's hosts all at once.
\* Native: three hosts, two at a time.
SmallLists == [m \in Modes |-> IF m = "docker" THEN <<2, 1>> ELSE <<3>>]

SmallSizes == [m \in Modes |-> IF m = "docker" THEN {0} ELSE {2}]
=============================================================================
