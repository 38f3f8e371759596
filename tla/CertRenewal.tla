------------------------------ MODULE CertRenewal ------------------------------
(***************************************************************************)
(* Certificates: `qifa cert issue | renew | renew --all | remove`          *)
(* (internal/cert, internal/app/cert.go) on the proxy's host, beside the   *)
(* commands that start an app or manage its kamal-proxy, one remote        *)
(* command per step.                                                       *)
(*                                                                         *)
(* No command here takes a lock.  A remote command may fail and change     *)
(* nothing ("refused": no connection, no such image, an order the CA turns *)
(* down), be executed with its answer lost ("lost"), or be refused by      *)
(* docker behind a `|| true` ("hidden"); the proxy's container may exit at *)
(* once ("exits"); a run may be killed ("crash").  An app's own container  *)
(* may exit, and docker restart it, at any time.                           *)
(*                                                                         *)
(* lego is a step that reads the certificate and one, minutes later, that  *)
(* writes the new one; it goes on when its connection or its qifa is gone. *)
(***************************************************************************)
EXTENDS KamalProxy

CONSTANTS
    Actors,         \* qifa invocations that may run side by side
    Names,          \* app -> the names its proxy config lists
    Configs,        \* actor -> the apps whose config it may run with
    Kinds,          \* actor -> the commands it runs
    Envs,           \* whether the run is given provider credentials
    Faults,
    Flaky,          \* the apps whose container may exit
    MaxOps          \* bound: how many commands are run in all

Renewals == {"renew", "renew_host", "renew_all"}
CertKinds == Renewals \cup {"issue", "remove"}
ProxyKinds == {"boot", "proxy_start", "proxy_stop", "proxy_restart", "upgrade",
               "proxy_remove", "purge"}
AllKinds == CertKinds \cup ProxyKinds \cup {"start", "stop"}

ASSUME CertAssumption ==
    /\ \A a \in Apps : Primary[a] \in Names[a] /\ Names[a] \subseteq Nat
    /\ Configs \in [Actors -> SUBSET Apps]
    /\ Kinds \in [Actors -> SUBSET AllKinds]
    /\ Envs \subseteq BOOLEAN
    /\ Faults \subseteq {"refused", "lost", "hidden", "exits", "crash"}
    /\ Flaky \subseteq Apps
    /\ MaxOps \in Nat

VARIABLES
    newest,         \* app -> the state of its newest container
    late,           \* the orders of lego that have no run to report to
    creds,          \* the credential files left in /dev/shm, by their nonces
    cut,            \* of those, whose command was lost, refused or killed
    issued,         \* how many certificates lego has written
    op,             \* actor -> its command in progress, or its last
    began

vars == <<proxyVars, newest, late, creds, cut, issued, op, began>>

PCs == {"idle", "list", "info", "push", "lego", "order", "perms", "clean", "readback",
        "find", "register", "look", "up", "ensure", "down", "unlink",
        "pull", "rm", "boot", "stopproxy", "startproxy", "purge"}

Nonces == (1..MaxOps) \X Domains

Op == [kind : AllKinds \cup {"none"}, app : Apps, pc : PCs, id : 0..MaxOps,
       env : BOOLEAN,                   \* it has credentials to push
       host : Domains,                  \* whose certificate is being worked on
       listed : SUBSET Domains, todo : SUBSET Domains,     \* RenewAll's hosts
       prev : Nat,                      \* the certificate before, 0: not read
       names : SUBSET Nat,              \* what lego is asked for
       found : Nat,                     \* the certificate that lego found
       failed : SUBSET Domains, renewed : SUBSET Domains,
       wrote : SUBSET (Domains \X Nat), \* history: what lego wrote for this run
       stuck : BOOLEAN,                 \* history: the old proxy is still there
       err : BOOLEAN, result : {"none", "ok", "failed"}]

\* What lego is about to write, and the kind of command it is for.
Order == [host : Domains, names : SUBSET Nat, found : Nat, kind : AllKinds \cup {"none"}]

TypeOK ==
    /\ ProxyTypeOK
    /\ newest \in [Apps -> {"running", "restarting", "exited"}]
    /\ late \subseteq Order
    /\ cut \subseteq creds /\ creds \subseteq Nonces
    /\ issued \in Nat
    /\ op \in [Actors -> Op]
    /\ began \in 0..MaxOps

Nonce(o) == <<o.id, o.host>>

Idle == [kind |-> "none", app |-> CHOOSE b \in Apps : TRUE, pc |-> "idle", id |-> 0,
         env |-> FALSE, host |-> CHOOSE h \in Domains : TRUE, listed |-> {}, todo |-> {}, prev |-> 0,
         names |-> {}, found |-> 0, failed |-> {}, renewed |-> {}, wrote |-> {},
         stuck |-> FALSE, err |-> FALSE,
         result |-> "none"]

Outcomes == {"ok"} \cup (Faults \cap {"refused", "lost"})
HiddenOutcomes == Outcomes \cup (Faults \cap {"hidden"})
Executed(x) == x \notin {"refused", "hidden"}
Reads == {"ok"} \cup (Faults \cap {"refused"})

Over(o, result) == [Idle EXCEPT !.failed = o.failed, !.result = result]
Ok(o) == Over(o, "ok")
Failed(o) == Over(o, "failed")
Ended(o) == IF o.err THEN Failed(o) ELSE Ok(o)

First(s) == CHOOSE h \in s : \A g \in s : h <= g

Goes(a, o) == op' = [op EXCEPT ![a] = o]
At(a, pc) == op[a].pc = pc

-----------------------------------------------------------------------------
(* What the code decides between two commands *)

\* Mutant: what was renewed but cannot be served from here is not reported.
ServingSilent(o) ==
    IF Primary[o.app] \in o.renewed THEN [o EXCEPT !.pc = "find", !.err = o.failed # {}]
    ELSE Ended([o EXCEPT !.err = o.failed # {}])

\* serveRenewed: only this config's own certificate can be served from here;
\* any other that was renewed is reported as an error.
Serving(o) ==
    LET own == Primary[o.app]
        errs == o.failed # {} \/ o.renewed \ {own} # {}
    IN  IF own \in o.renewed THEN [o EXCEPT !.pc = "find", !.err = errs]
        ELSE Ended([o EXCEPT !.err = errs])

\* RenewAll's loop: the next host in the sorted list.
NextHost(o) ==
    IF o.todo = {} THEN Serving(o)
    ELSE [o EXCEPT !.host = First(o.todo), !.todo = @ \ {First(o.todo)},
                   !.pc = "info", !.err = FALSE]

\* Mutant: the first host that fails ends the run.
HostFailedStops(o) == Failed([o EXCEPT !.failed = @ \cup {o.host}])

\* RenewAll goes on past a host that fails; any other command returns.
HostFailed(o) ==
    IF o.kind = "renew_all" THEN NextHost([o EXCEPT !.failed = @ \cup {o.host}])
    ELSE Failed(o)

\* Mutant: names that cannot be read are taken to be the host's alone.
InfoReadRegardless(o, seen) ==
    [o EXCEPT !.prev = IF seen THEN store[o.host].gen ELSE 0, !.pc = "push",
              !.names = IF o.kind # "renew_all" THEN @
                        ELSE IF seen THEN store[o.host].names ELSE {o.host}]

\* RenewAll asks for the names of the certificate on disk, and leaves a
\* certificate alone whose names it cannot read.
InfoRead(o, seen) ==
    IF seen
    THEN [o EXCEPT !.prev = store[o.host].gen, !.pc = "push",
                   !.names = IF o.kind = "renew_all"
                             THEN store[o.host].names \cup {o.host} ELSE @]
    ELSE IF o.kind = "renew_all" THEN HostFailed(o)
    ELSE [o EXCEPT !.prev = 0, !.pc = "push"]

\* certChanged
Compared(o, seen) ==
    IF ~seen THEN HostFailed(o)
    ELSE NextHost(IF store[o.host].gen # o.prev
                  THEN [o EXCEPT !.renewed = @ \cup {o.host}] ELSE o)

-----------------------------------------------------------------------------
(* The commands *)

\* proxy.host and proxy.hosts: the names the app's certificate must carry.
AppNames(app) == Names[app]

Begins(a, kind, app, first) ==
    /\ kind \in Kinds[a] /\ At(a, "idle") /\ began < MaxOps
    /\ Goes(a, [first EXCEPT !.kind = kind, !.app = app, !.id = began + 1])
    /\ began' = began + 1
    /\ UNCHANGED <<proxyVars, newest, late, creds, cut, issued>>

BeginIssue(a, app, h) ==
    \E names \in {{h}, {h} \cup AppNames(app)}, env \in Envs :
        Begins(a, "issue", Idle.app,
               [Idle EXCEPT !.host = h, !.names = names, !.env = env, !.pc = "push"])

\* Alone it is for the app's own name with the config's other names; else for
\* the names it is given, or for every certificate there is.
BeginRenew(a, app, h) ==
    \E kind \in Renewals, env \in Envs :
        /\ kind = "renew_host" \/ h = Primary[app]
        /\ Begins(a, kind, app,
                  [Idle EXCEPT !.host = h, !.env = env,
                               !.names = IF kind = "renew" THEN AppNames(app) ELSE {h},
                               !.pc = IF kind = "renew_all" THEN "list" ELSE "info"])

BeginRemove(a, h) == Begins(a, "remove", Idle.app, [Idle EXCEPT !.host = h, !.pc = "unlink"])

BeginApp(a, app) ==
    \/ Begins(a, "start", app, [Idle EXCEPT !.pc = "look"])
    \/ Begins(a, "stop", app, [Idle EXCEPT !.pc = "down"])

ProxyFirst(kind) ==
    CASE kind \in {"boot", "upgrade"} -> "pull"
      [] kind \in {"proxy_stop", "proxy_restart"} -> "stopproxy"
      [] kind = "proxy_start" -> "startproxy"
      [] kind \in {"proxy_remove", "purge"} -> "rm"

BeginProxy(a) ==
    \E kind \in ProxyKinds : Begins(a, kind, Idle.app, [Idle EXCEPT !.pc = ProxyFirst(kind)])

-----------------------------------------------------------------------------
(* qifa cert ... *)

ListCerts(a) ==
    /\ At(a, "list")
    /\ \E x \in Reads :
         LET here == {h \in Domains : Has(h)} IN
         Goes(a, IF x = "ok" THEN NextHost([op[a] EXCEPT !.listed = here, !.todo = here])
                 ELSE Failed(op[a]))
    /\ UNCHANGED <<proxyVars, newest, late, creds, cut, issued, began>>

CertInfo(a) ==
    /\ At(a, "info")
    /\ \E x \in Reads : Goes(a, InfoRead(op[a], x = "ok" /\ Has(op[a].host)))
    /\ UNCHANGED <<proxyVars, newest, late, creds, cut, issued, began>>

\* An upload that fails returns a cleanup that does nothing.
PushEnv(a) ==
    /\ At(a, "push")
    /\ \E x \in IF op[a].env THEN Outcomes ELSE {"ok"} :
         LET there == IF Executed(x) /\ op[a].env THEN {Nonce(op[a])} ELSE {} IN
         /\ creds' = creds \cup there
         /\ cut' = IF x = "ok" THEN cut ELSE cut \cup there
         /\ Goes(a, IF x = "ok" THEN [op[a] EXCEPT !.pc = "lego"] ELSE HostFailed(op[a]))
    /\ UNCHANGED <<proxyVars, newest, late, issued, began>>

OrderOf(o) == [host |-> o.host, names |-> o.names, found |-> o.found, kind |-> o.kind]

\* lego writes the certificate it has been given, for its own account.
Writes(h, names) ==
    /\ store' = [store EXCEPT ![h] = [gen |-> issued + 1, names |-> names,
                                      due |-> FALSE, readable |-> FALSE]]
    /\ issued' = issued + 1

\* lego run is get-or-renew: a certificate that is not due is left alone.
StartLego(a) ==
    LET o == op[a]
        due == ~Has(o.host) \/ store[o.host].due
    IN  /\ At(a, "lego")
        /\ \E x \in Reads :
             Goes(a, IF x # "ok" THEN [o EXCEPT !.pc = "clean", !.err = TRUE]
                     ELSE IF due THEN [o EXCEPT !.pc = "order", !.found = store[o.host].gen]
                     ELSE [o EXCEPT !.pc = "perms"])
        /\ UNCHANGED <<proxyVars, newest, late, creds, cut, issued, began>>

\* It writes whatever there is by now; an order that is refused, or whose
\* connection is lost, is an error.
EndLego(a) ==
    LET o == op[a]
    IN  /\ At(a, "order")
        /\ \E x \in Outcomes :
             /\ IF x = "ok" THEN Writes(o.host, o.names) ELSE UNCHANGED <<store, issued>>
             /\ late' = IF x = "lost" THEN late \cup {OrderOf(o)} ELSE late
             /\ Goes(a, [o EXCEPT !.pc = IF x = "ok" THEN "perms" ELSE "clean", !.err = x # "ok",
                                  !.wrote = IF x = "ok" THEN @ \cup {<<o.host, issued + 1>>} ELSE @])
        /\ UNCHANGED <<proxy, image, local, served, newest, creds, cut, began>>

\* An order without its run ends all the same, and nobody sees to its file.
LateLego(w) ==
    /\ late' = late \ {w}
    /\ \/ Writes(w.host, w.names)
       \/ "refused" \in Faults /\ UNCHANGED <<store, issued>>
    /\ UNCHANGED <<proxy, image, local, served, newest, creds, cut, op, began>>

\* The whole directory, whichever certificate was renewed.
FixCertPerms(a) ==
    /\ At(a, "perms")
    /\ \E x \in Outcomes :
         /\ store' = IF Executed(x)
                     THEN [h \in Domains |-> [store[h] EXCEPT !.readable = Has(h)]] ELSE store
         /\ Goes(a, [op[a] EXCEPT !.pc = "clean", !.err = x # "ok"])
    /\ UNCHANGED <<proxy, image, local, served, newest, late, creds, cut, issued, began>>

\* Mutant: the credentials are removed on success only.
CleanEnvOnSuccess(a) ==
    LET o == op[a] IN
    /\ At(a, "clean")
    /\ creds' = IF o.err THEN creds ELSE creds \ {Nonce(o)}
    /\ Goes(a, IF o.err THEN HostFailed(o)
               ELSE IF o.kind = "issue" THEN Ok(o) ELSE [o EXCEPT !.pc = "readback"])
    /\ UNCHANGED <<proxyVars, newest, late, cut, issued, began>>

\* Deferred, and runs after a failure and a cancellation too.
CleanEnv(a) ==
    LET o == op[a] IN
    /\ At(a, "clean")
    /\ \E x \in IF o.env THEN Outcomes ELSE {"ok"} :
         /\ creds' = IF Executed(x) THEN creds \ {Nonce(o)} ELSE creds
         /\ cut' = IF Executed(x) THEN cut ELSE cut \cup {Nonce(o)}
    /\ Goes(a, IF o.err THEN HostFailed(o)
               ELSE IF o.kind = "issue" THEN Ok(o) ELSE [o EXCEPT !.pc = "readback"])
    /\ UNCHANGED <<proxyVars, newest, late, issued, began>>

ReadBack(a) ==
    /\ At(a, "readback")
    /\ \E x \in Reads : Goes(a, Compared(op[a], x = "ok" /\ Has(op[a].host)))
    /\ UNCHANGED <<proxyVars, newest, late, creds, cut, issued, began>>

\* ReregisterProxy looks at the newest container; that it does not run, or is
\* being restarted, is no error.
FindRunning(a) ==
    /\ At(a, "find")
    /\ \E x \in Reads :
         Goes(a, IF x # "ok" THEN Failed(op[a])
                 ELSE IF newest[op[a].app] = "running" THEN [op[a] EXCEPT !.pc = "register"]
                 ELSE Ended(op[a]))
    /\ UNCHANGED <<proxyVars, newest, late, creds, cut, issued, began>>

Register(a) ==
    LET b == op[a].app IN
    /\ At(a, "register")
    /\ \E x \in Outcomes :
         /\ IF Executed(x) THEN DeployRoute(b) ELSE UNCHANGED proxyVars
         /\ Goes(a, IF x = "ok" /\ Registers(b) THEN Ended(op[a]) ELSE Failed(op[a]))
    /\ UNCHANGED <<newest, late, creds, cut, issued, began>>

RemoveCert(a) ==
    /\ At(a, "unlink")
    /\ \E x \in Outcomes :
         /\ store' = IF Executed(x) THEN [store EXCEPT ![op[a].host] = NoCert] ELSE store
         /\ Goes(a, IF x = "ok" THEN Ok(op[a]) ELSE Failed(op[a]))
    /\ UNCHANGED <<proxy, image, local, served, newest, late, creds, cut, issued, began>>

\* `qifa start`: the newest container unless it runs, or is being restarted,
\* then its route.
StartFinds(a) ==
    /\ At(a, "look")
    /\ \E x \in Reads :
         Goes(a, IF x # "ok" THEN Failed(op[a])
                 ELSE [op[a] EXCEPT !.pc = IF newest[op[a].app] = "exited" THEN "up" ELSE "ensure"])
    /\ UNCHANGED <<proxyVars, newest, late, creds, cut, issued, began>>

StartApp(a) ==
    /\ At(a, "up")
    /\ \E x \in Outcomes :
         /\ newest' = IF Executed(x) THEN [newest EXCEPT ![op[a].app] = "running"] ELSE newest
         /\ Goes(a, IF x = "ok" THEN [op[a] EXCEPT !.pc = "ensure"] ELSE Failed(op[a]))
    /\ UNCHANGED <<proxyVars, late, creds, cut, issued, began>>

EnsureRunning(a) ==
    /\ At(a, "ensure")
    /\ \E x \in Reads :
         Goes(a, IF x = "ok" /\ proxy = "running" THEN [op[a] EXCEPT !.pc = "register"]
                 ELSE Failed(op[a]))
    /\ UNCHANGED <<proxyVars, newest, late, creds, cut, issued, began>>

\* `qifa stop` leaves the route.
StopApp(a) ==
    /\ At(a, "down")
    /\ \E x \in HiddenOutcomes :
         /\ newest' = IF Executed(x) THEN [newest EXCEPT ![op[a].app] = "exited"] ELSE newest
         /\ Goes(a, IF x \in {"ok", "hidden"} THEN Ok(op[a]) ELSE Failed(op[a]))
    /\ UNCHANGED <<proxyVars, late, creds, cut, issued, began>>

-----------------------------------------------------------------------------
(* qifa proxy ... *)

\* Mutant: an upgrade takes the image the host has.
PullIfAbsent(a) ==
    /\ At(a, "pull")
    /\ Goes(a, [op[a] EXCEPT !.pc = IF op[a].kind = "upgrade" THEN "rm" ELSE "boot"])
    /\ UNCHANGED <<proxyVars, newest, late, creds, cut, issued, began>>

\* pullProxyImage: an upgrade pulls whatever the host has; a boot only if it
\* has none, and here it has one.
PullProxyImage(a) ==
    /\ At(a, "pull")
    /\ \E x \in Outcomes :
         /\ IF op[a].kind = "upgrade" /\ Executed(x) THEN PullImage ELSE UNCHANGED proxyVars
         /\ Goes(a, IF x # "ok" THEN Failed(op[a])
                    ELSE [op[a] EXCEPT !.pc = IF op[a].kind = "upgrade" THEN "rm" ELSE "boot"])
    /\ UNCHANGED <<newest, late, creds, cut, issued, began>>

\* Docker may keep the container behind the command's back.
ProxyRemove(a) ==
    LET next(x) == [op[a] EXCEPT !.pc = IF op[a].kind = "purge" THEN "purge" ELSE "boot",
                                 !.stuck = x = "hidden"]
    IN  /\ At(a, "rm")
        /\ \E x \in HiddenOutcomes :
             /\ IF Executed(x) THEN RemoveContainer ELSE UNCHANGED proxyVars
             /\ Goes(a, IF x \notin {"ok", "hidden"} THEN Failed(op[a])
                        ELSE IF op[a].kind = "proxy_remove" THEN Ok(op[a]) ELSE next(x))
        /\ UNCHANGED <<newest, late, creds, cut, issued, began>>

ProxyPurge(a) ==
    /\ At(a, "purge")
    /\ \E x \in HiddenOutcomes :
         /\ IF Executed(x) THEN PurgeVolume(late # {} \/ \E b \in Actors : At(b, "order"))
            ELSE UNCHANGED proxyVars
         /\ Goes(a, IF x \in {"ok", "hidden"} THEN Ok(op[a]) ELSE Failed(op[a]))
    /\ UNCHANGED <<newest, late, creds, cut, issued, began>>

ProxyBoot(a) ==
    /\ At(a, "boot")
    /\ \E x \in Outcomes \cup (Faults \cap {"exits"}) :
         /\ IF Executed(x) THEN BootContainer(x # "exits") ELSE UNCHANGED proxyVars
         /\ Goes(a, IF x = "ok" \/ (x = "exits" /\ proxy = "running") THEN Ok(op[a])
                    ELSE Failed(op[a]))
    /\ UNCHANGED <<newest, late, creds, cut, issued, began>>

ProxyStart(a) ==
    /\ At(a, "startproxy")
    /\ \E x \in Outcomes :
         /\ IF Executed(x) THEN StartContainer ELSE UNCHANGED proxyVars
         /\ Goes(a, IF x = "ok" /\ proxy # "absent" THEN Ok(op[a]) ELSE Failed(op[a]))
    /\ UNCHANGED <<newest, late, creds, cut, issued, began>>

ProxyStop(a) ==
    /\ At(a, "stopproxy")
    /\ \E x \in HiddenOutcomes :
         /\ IF Executed(x) THEN StopContainer ELSE UNCHANGED proxyVars
         /\ Goes(a, IF x \notin {"ok", "hidden"} THEN Failed(op[a])
                    ELSE IF op[a].kind = "proxy_stop" THEN Ok(op[a])
                    ELSE [op[a] EXCEPT !.pc = "startproxy"])
    /\ UNCHANGED <<newest, late, creds, cut, issued, began>>

-----------------------------------------------------------------------------
(* Kills, time, and the whole *)

\* A process that is killed runs no deferred cleanup, and leaves lego to it.
Crash(a) ==
    /\ "crash" \in Faults /\ ~At(a, "idle")
    /\ late' = IF At(a, "order") THEN late \cup {OrderOf(op[a])} ELSE late
    /\ cut' = cut \cup (creds \cap {Nonce(op[a])})
    /\ Goes(a, Idle)
    /\ UNCHANGED <<proxyVars, newest, creds, issued, began>>

\* An app's container exits, and docker has it restarting until it stays up.
Flap(b) ==
    /\ b \in Flaky
    /\ \/ newest[b] = "running" /\ newest' = [newest EXCEPT ![b] = "restarting"]
       \/ newest[b] = "restarting" /\ newest' = [newest EXCEPT ![b] = "running"]
    /\ UNCHANGED <<proxyVars, late, creds, cut, issued, op, began>>

Step(a) ==
    \/ ListCerts(a) \/ CertInfo(a) \/ PushEnv(a) \/ StartLego(a) \/ EndLego(a) \/ FixCertPerms(a)
    \/ CleanEnv(a) \/ ReadBack(a) \/ FindRunning(a) \/ Register(a) \/ RemoveCert(a)
    \/ StartFinds(a) \/ StartApp(a) \/ EnsureRunning(a) \/ StopApp(a)
    \/ PullProxyImage(a) \/ ProxyRemove(a) \/ ProxyPurge(a)
    \/ ProxyBoot(a) \/ ProxyStart(a) \/ ProxyStop(a)

Next ==
    \/ \E a \in Actors :
         \/ \E b \in Configs[a] :
              BeginApp(a, b) \/ \E h \in Domains : BeginIssue(a, b, h) \/ BeginRenew(a, b, h)
         \/ BeginProxy(a) \/ \E h \in Domains : BeginRemove(a, h)
         \/ Step(a) \/ Crash(a)
    \/ \E w \in late : LateLego(w)
    \/ \E b \in Apps : Flap(b)

\* The names of every config that keeps its certificate under h.
Issued(h) == {h} \cup UNION {Names[b] : b \in {b \in Apps : Primary[b] = h}}

\* At first every app runs; either none has a certificate or route, or each is
\* routed with its own, for its names.  Some certificate is due, and the host has
\* an old build of the proxy.
Init ==
    /\ proxy = "running" /\ image = 1 /\ local = 1
    /\ \E there \in {{}, Domains}, due \in (SUBSET Domains) \ {{}} :
         store = [h \in Domains |->
                    IF h \in there
                    THEN [gen |-> 1, names |-> Issued(h), due |-> h \in due, readable |-> TRUE]
                    ELSE NoCert]
    /\ served = [b \in Apps |-> store[Primary[b]].gen]
    /\ newest = [b \in Apps |-> "running"]
    /\ late = {} /\ creds = {} /\ cut = {} /\ issued = 1
    /\ op = [a \in Actors |-> Idle]
    /\ began = 0

Spec == Init /\ [][Next]_vars

-----------------------------------------------------------------------------
(* Properties *)

\* The step with which a's command ends, other than by being killed.
Ends(a) == ~At(a, "idle") /\ At(a, "idle")' /\ op'[a].result \in {"ok", "failed"}

\* A renewal that reports success leaves no app whose newest container is
\* running on a certificate older than one it had lego write: what it cannot
\* serve itself it reports (serveRenewed), whatever else is run beside it.
RenewalIsServed ==
    [][\A a \in Actors :
         Ends(a) /\ op[a].kind \in Renewals /\ op'[a].result = "ok" =>
           \A c \in op[a].wrote, b \in Apps :
             Primary[b] = c[1] /\ newest[b] = "running" => served'[b] >= c[2]]_vars

\* The step replaces the certificate that w, an order of RenewAll, has found.
Replaces(w) ==
    /\ w.kind = "renew_all"
    /\ store[w.host].gen = w.found /\ store'[w.host].gen # w.found

\* Renewing everything never shrinks the certificate that it renews: each is
\* asked for again with the names it has on disk (RenewAll, sanExtras), also
\* when its names could not be read, another run came between that and lego, or
\* the order outlived its run.  Only what replaced it while the order was under
\* way is lost.
RenewAllKeepsNames ==
    [][/\ \A a \in Actors :
            At(a, "order") /\ op'[a].pc = "perms" /\ Replaces(OrderOf(op[a])) =>
              store[op[a].host].names \subseteq store'[op[a].host].names
       /\ \A w \in late \ late' :
            Replaces(w) => store[w.host].names \subseteq store'[w.host].names]_vars

\* One bad certificate does not block the others: when `renew --all` ends,
\* each it listed and does not name as failed is there no more or is not due.
RenewAllAttendsAll ==
    [][\A a \in Actors :
         Ends(a) /\ op[a].kind = "renew_all" =>
           \A h \in op[a].listed \ op'[a].failed : ~Has(h) \/ ~store[h].due]_vars

\* Provider credentials stay on the host only if the run was killed or the
\* command that wrote or was to remove them went wrong: no failure of lego,
\* of the CA or of what comes after leaves them (pushEnv's deferred cleanup).
NoStrayCredentials ==
    creds \subseteq cut \cup {Nonce(op[a]) : a \in {a \in Actors : op[a].pc \in {"lego", "order", "perms", "clean"}}}

\* An upgrade that reports success leaves the proxy on the build that the
\* configured tag names in the registry, not the one the host had, unless docker
\* refused to remove the old container and the command did not say so.
UpgradeTakesNewBuild ==
    [][\A a \in Actors :
         Ends(a) /\ op[a].kind = "upgrade" /\ op'[a].result = "ok" =>
           proxy' = "running" /\ (image' = Build \/ op[a].stuck)]_vars
=============================================================================
