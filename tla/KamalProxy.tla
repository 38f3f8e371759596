------------------------------ MODULE KamalProxy ------------------------------
(***************************************************************************)
(* The kamal-proxy container of one host as internal/proxy drives it: the  *)
(* container, and the state volume that outlives it, with the routes that  *)
(* are registered and the certificates that lego writes into it.           *)
(*                                                                         *)
(* What kamal-proxy itself does is taken from what the code relies on: it  *)
(* reads a certificate when a route is deployed and not again, keeps its   *)
(* routes in the volume, and takes them up again when it starts.           *)
(***************************************************************************)
EXTENDS Naturals

CONSTANTS
    Apps,           \* services routed by this proxy, each with its own qifa.yaml
    Domains,        \* host names that may have a certificate; a name is its rank
    Build,          \* the build the registry has under the configured image tag
    Primary         \* app -> the name its certificate is filed under

ASSUME ProxyAssumption ==
    Build \in Nat /\ Domains \subseteq Nat /\ Apps # {} /\ Primary \in [Apps -> Domains]

VARIABLES
    proxy,          \* the state of the container called kamal-proxy
    image,          \* the build of the proxy image it was made from
    local,          \* the build the host has under that tag, which moves
    served,         \* app -> the certificate its route loaded; 0: no route
    store           \* host name -> the certificate file in the volume

proxyVars == <<proxy, image, local, served, store>>

\* A certificate: which one it is (0: there is none), the names it is for,
\* whether it is due for renewal, and whether the proxy's account may read it.
NoCert == [gen |-> 0, names |-> {}, due |-> FALSE, readable |-> FALSE]

Cert == [gen : Nat, names : SUBSET Nat, due : BOOLEAN, readable : BOOLEAN]

ProxyTypeOK ==
    /\ proxy \in {"absent", "stopped", "running"}
    /\ image \in Nat /\ local \in Nat
    /\ served \in [Apps -> Nat]
    /\ store \in [Domains -> Cert]

Has(h) == store[h].gen # 0

Loads(a) == Has(Primary[a]) /\ store[Primary[a]].readable

\* kamal-proxy starting: the routes of the volume, each with the certificate
\* its file holds now; one whose file it cannot load is not taken up.
Restored ==
    [a \in Apps |-> IF served[a] # 0 /\ Loads(a) THEN store[Primary[a]].gen ELSE 0]

-----------------------------------------------------------------------------
(* One remote command each *)

\* docker pull of the configured tag.
PullImage == local' = Build /\ UNCHANGED <<proxy, image, served, store>>

\* docker rm -f kamal-proxy, where docker does it: the volume stays.  It, docker
\* stop and docker volume rm run before a `|| true`, so that a command which
\* succeeds may have done nothing; whether it did is the caller's choice.
RemoveContainer == proxy' = "absent" /\ UNCHANGED <<image, local, served, store>>

\* bootCommand: nothing if it runs, else a new container in place of any
\* that is there.  One that exits at once, its port taken, fails the command.
BootContainer(stays) ==
    IF proxy = "running" THEN UNCHANGED proxyVars
    ELSE /\ proxy' = IF stays THEN "running" ELSE "stopped"
         /\ image' = local
         /\ served' = IF stays THEN Restored ELSE served
         /\ UNCHANGED <<local, store>>

StartContainer ==
    /\ proxy' = IF proxy = "absent" THEN "absent" ELSE "running"
    /\ served' = IF proxy = "stopped" THEN Restored ELSE served
    /\ UNCHANGED <<image, local, store>>

\* docker stop kamal-proxy, where docker does it.
StopContainer ==
    /\ proxy' = IF proxy = "running" THEN "stopped" ELSE proxy
    /\ UNCHANGED <<image, local, served, store>>

\* docker volume rm, which docker refuses while a container uses it: the
\* proxy's, or, in use, lego's.
PurgeVolume(inUse) ==
    IF inUse \/ proxy # "absent" THEN UNCHANGED proxyVars
    ELSE /\ served' = [a \in Apps |-> 0]
         /\ store' = [h \in Domains |-> NoCert]
         /\ UNCHANGED <<proxy, image, local>>

\* kamal-proxy deploy: a certificate that fails to load leaves the old route.
Registers(a) == proxy = "running" /\ Loads(a)

DeployRoute(a) ==
    /\ served' = IF Registers(a)
                 THEN [served EXCEPT ![a] = store[Primary[a]].gen] ELSE served
    /\ UNCHANGED <<proxy, image, local, store>>
=============================================================================
