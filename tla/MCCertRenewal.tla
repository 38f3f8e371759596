----------------------------- MODULE MCCertRenewal -----------------------------
(***************************************************************************)
(* CertRenewal on a proxy with two apps, one of which has a second name: a *)
(* timer of that app that renews, beside an operator who runs the rest.    *)
(***************************************************************************)
EXTENDS CertRenewal

MCPrimary == [b \in Apps |-> IF b = "p" THEN 1 ELSE 2]
MCNames == [b \in Apps |-> IF b = "p" THEN {1, 3} ELSE {2}]
MCConfigs == [a \in Actors |-> IF a = "timer" THEN {"p"} ELSE Apps]
MCKinds ==
    [a \in Actors |->
        IF a = "timer" THEN {"renew_all", "renew_host"}
        ELSE {"renew", "issue", "remove", "upgrade", "proxy_restart", "purge", "start", "stop"}]
=============================================================================
