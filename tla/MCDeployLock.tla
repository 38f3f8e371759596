---------------------------- MODULE MCDeployLock ----------------------------
(* Small instances of DeployLock. *)
EXTENDS DeployLock

CONSTANTS d1, d2, d3, d4, h1, h2

\* One config for all; one whose last edit swapped the hosts.
SameLists == [d \in Deployers |-> <<h1, h2>>]
SwappedLists == [d \in Deployers |-> IF d = d3 THEN <<h2, h1>> ELSE <<h1, h2>>]

OperatorHosts == <<h1, h2>>
=============================================================================
