---------------------------- MODULE ServiceLock ----------------------------
(***************************************************************************)
(* What the deploy lock promises a service whose hosts every invocation    *)
(* locks.  A lock taken stands until somebody runs an rm against it: the   *)
(* Release of a deploy that had it, or `qifa lock release`.  That its      *)
(* owner died does not end it, nobody takes it while another stands, and   *)
(* no rm, the operator's included, ends the lock of a deploy at work.      *)
(***************************************************************************)
CONSTANT Deployers

VARIABLES
    owners,     \* the invocations whose lock stands
    working,    \* those of them still doing what they locked for
    clearing    \* a Release of a lock, or a `qifa lock release`, is running

svars == <<owners, working, clearing>>

Init ==
    /\ owners = {}
    /\ working = {}
    /\ clearing \in BOOLEAN

Take(d) ==
    /\ owners = {}
    /\ owners' = {d}
    /\ working' = {d}

\* The command under the lock ends, or dies; the lock stands.
Finish(d) ==
    /\ d \in working
    /\ working' = working \ {d}
    /\ UNCHANGED owners

Clear(d) ==
    /\ clearing
    /\ d \in owners \ working
    /\ owners' = owners \ {d}
    /\ UNCHANGED working

\* Whether a release is under way is the environment's.
Next ==
    /\ clearing' \in BOOLEAN
    /\ \/ \E d \in Deployers : Take(d) \/ Finish(d) \/ Clear(d)
       \/ UNCHANGED <<owners, working>>

Spec == Init /\ [][Next]_svars
============================================================================
