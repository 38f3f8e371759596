-------------------------- MODULE ContainerRollout --------------------------
(***************************************************************************)
(* One role on one host of the Docker backend (internal/deploy/deploy.go): *)
(* what a deploy, a rollback and the commands beside them do to the role's *)
(* containers and to its kamal-proxy route, one remote command per step.   *)
(*                                                                         *)
(* A container has its place in the order of creation, by which the code    *)
(* chooses among them.  Whether an app answers is decided when its         *)
(* container is run.  A command over SSH may not reach the host            *)
(* ("refused"), may be executed with its answer lost ("lost"), or may be   *)
(* refused by docker behind a `|| true` ("hidden").  Deploy and rollback   *)
(* hold the lock of DeployLock, here one variable; nothing else takes it.  *)
(***************************************************************************)
EXTENDS Naturals, FiniteSets

CONSTANTS
    Actors,         \* qifa invocations that may run side by side
    Versions,
    Roles,          \* what the role's config may make of it: see UseProxy
    Retain,         \* prune.retain
    Kinds,          \* the commands that are run
    Faults,         \* a subset of {"refused", "lost", "hidden"}
    MaxOps,         \* bound: how many commands are run in all
    NoName, NoVersion, Nobody

RoleKinds == {"proxied", "extra_ports", "published", "internal"}

Locked == {"deploy", "rollback", "rollback_to"}
Pinned == {"deploy", "rollback_to", "reconcile"}
AllKinds == Locked \cup {"reconcile", "sweep", "prune", "stop", "start",
                         "restart", "remove", "reregister"}

\* A version's container is called by its canonical name, or by the alternate
\* one, which appends "-r": the second component counts the "-r".
NameOf(v) == <<v, 0>>
AltOf(n) == <<n[1], n[2] + 1>>
Names == Versions \X {0, 1}

ASSUME NoneAssumption ==
    NoName \notin Names /\ NoVersion \notin Versions /\ Nobody \notin Actors

ASSUME RolloutAssumption ==
    /\ Roles \subseteq RoleKinds
    /\ Retain \in Nat \ {0} /\ MaxOps \in Nat
    /\ Kinds \subseteq AllKinds
    /\ Faults \subseteq {"refused", "lost", "hidden"}

VARIABLES
    containers, \* name -> the role's container of that name, or Absent
    route,      \* the container kamal-proxy sends the service's requests to
    lock,       \* who holds the deploy lock
    op,         \* actor -> its command in progress, or its last
    before,     \* actor -> what its command found when it began
    last,       \* the actor whose command was the last to begin
    started,    \* how many commands have begun
    role        \* what the config makes of the role

vars == <<containers, route, lock, op, before, last, started, role>>

UseProxy == role \in {"proxied", "extra_ports"}
HoldsPort == role \in {"extra_ports", "published"}
Overlaps == role = "proxied"

\* at is the place in the order of creation: a later container has a higher one.
Container == [state : {"absent", "created", "running", "restarting", "exited"},
              good : BOOLEAN, at : Nat]
Absent == [state |-> "absent", good |-> FALSE, at |-> 0]

Loops == {"sweeping", "pruning", "removing"}

PCs == {"idle", "inspect", "sweep", "choose", "find", "stopprev", "rmname",
        "run", "rmfailed", "health", "switch", "cleanup", "prune", "stopfind",
        "stopone", "startfind", "startone", "regfind", "register", "unroute",
        "removefind"} \cup Loops

Op == [kind : AllKinds \cup {"none"}, version : Versions \cup {NoVersion},
       pc : PCs, name : Names \cup {NoName}, prev : Names \cup {NoName},
       same : BOOLEAN, todo : [Names -> Nat], result : {"none", "ok", "failed"}]

Before == [live : BOOLEAN, settled : BOOLEAN, version : Versions \cup {NoVersion},
           target : Versions \cup {NoVersion}]

TypeOK ==
    /\ containers \in [Names -> Container]
    /\ route \in Names \cup {NoName}
    /\ lock \in Actors \cup {Nobody}
    /\ op \in [Actors -> Op]
    /\ before \in [Actors -> Before]
    /\ last \in Actors \cup {Nobody}
    /\ started \in 0..MaxOps
    /\ role \in Roles

-----------------------------------------------------------------------------
(* What docker has and does *)

There == {n \in Names : containers[n].state # "absent"}
Live == {n \in Names : containers[n].state \in {"running", "restarting"}}

\* ListContainersByService: newest first.
Newest(S) ==
    IF S = {} THEN NoName
    ELSE CHOOSE n \in S : \A m \in S : containers[m].at <= containers[n].at

Answers(n) ==
    n \in Names /\ containers[n].state = "running" /\ containers[n].good
Serving == Answers(route)

\* docker rm -f, which is content with a container that is not there.
Without(n) == [containers EXCEPT ![n] = Absent]

Marked(n, s) ==
    IF n \in There THEN [containers EXCEPT ![n].state = s] ELSE containers

Stopped(n) == Marked(n, "exited")

\* docker run
With(n, s, good) ==
    [containers EXCEPT ![n] =
       [state |-> s, good |-> good,
        at |-> IF There = {} THEN 1 ELSE containers[Newest(There)].at + 1]]

\* A container whose app does not answer runs idly or is restarted for ever.
StatesOf(good) == IF good THEN {"running"} ELSE {"running", "restarting"}

\* The published port n wants is held by another container of the role; or
\* it may be by another service's.
PortTaken(n) ==
    HoldsPort /\ Live \ {n} # {}

-----------------------------------------------------------------------------
(* What the code makes of a list *)

\* findRunningContainerInfo
FirstLive == Newest(Live)

VersionOf(n) == IF n = NoName THEN NoVersion ELSE n[1]

\* findPreviousVersion: the newest container of another version than the one
\* that runs.
PreviousVersion ==
    VersionOf(Newest({n \in There : n[1] # VersionOf(FirstLive)}))

\* Mutant: a redeploy takes the name of the container it replaces.
NameReused(v) == NameOf(v)

\* Mutant: the alternate name of whatever name serves the version.
NameGrows(v) ==
    IF Overlaps /\ VersionOf(FirstLive) = v THEN AltOf(FirstLive) ELSE NameOf(v)

NameFor(v) ==
    IF Overlaps /\ FirstLive = NameOf(v) THEN AltOf(NameOf(v)) ELSE NameOf(v)

\* SweepStaleContainers removes every running container but the newest.
Orphans == Live \ {FirstLive}

NewerStopped(n) == {m \in There \ Live : containers[m].at > containers[n].at}

\* Mutant: retain counts the running container too.
SurplusCountsLive ==
    {n \in There \ Live : Cardinality(NewerStopped(n)) + 1 >= Retain}

\* The stopped containers beyond the newest Retain, which Prune removes.
Surplus == {n \in There \ Live : Cardinality(NewerStopped(n)) >= Retain}

\* findDrift reports nothing: the version runs under one of its two names,
\* and the proxy points at that one.
InSync(v) ==
    LET runs(n) == containers[n].state = "running"
        wanted == IF runs(NameOf(v)) THEN NameOf(v) ELSE AltOf(NameOf(v))
    IN  runs(wanted) /\ (UseProxy => route = wanted)

-----------------------------------------------------------------------------
(* Steps of a command *)

\* What a loop goes through: the names it listed, with their places in the list.
Nothing == [n \in Names |-> 0]
Listed(S) == [n \in Names |-> IF n \in S THEN containers[n].at ELSE 0]

Goto(o, l) == [o EXCEPT !.pc = l]
Finish(o, result) == [o EXCEPT !.pc = "idle", !.result = result]

\* A failing prune is a warning at the end of a deploy that succeeded.
Failed(o) ==
    Finish(o, IF o.kind \in {"deploy", "reconcile"} /\ o.pc \in {"prune", "pruning"}
              THEN "ok" ELSE "failed")

\* a's command goes on as o; when it is over, the deferred Release runs.
Becomes(a, o) ==
    /\ op' = [op EXCEPT ![a] = o]
    /\ lock' = IF o.pc = "idle" /\ lock = a THEN Nobody ELSE lock
    /\ UNCHANGED <<before, last, started, role>>

\* How a command that reached the host may come back; `docker rm` and `docker
\* stop` hide docker's own error besides.
Replies == {"ok"} \cup (Faults \cap {"lost"})
HiddenReplies == {"ok"} \cup (Faults \cap {"lost", "hidden"})

After(o, reply, next) == IF reply = "lost" THEN Failed(o) ELSE next

Remove(a, n, next) ==
    \E r \in HiddenReplies :
        /\ containers' = IF r = "hidden" THEN containers ELSE Without(n)
        /\ Becomes(a, After(op[a], r, next))

Stop(a, n, next) ==
    \E r \in HiddenReplies :
        /\ containers' = IF r = "hidden" THEN containers ELSE Stopped(n)
        /\ Becomes(a, After(op[a], r, next))

Entry(kind) ==
    CASE kind = "deploy" -> "sweep"
      [] kind = "rollback" -> "choose"
      [] kind = "rollback_to" -> "choose"
      [] kind = "reconcile" -> "inspect"
      [] kind = "sweep" -> "sweep"
      [] kind = "prune" -> "prune"
      [] kind = "stop" -> "stopfind"
      [] kind = "restart" -> "stopfind"
      [] kind = "start" -> "startfind"
      [] kind = "remove" -> "unroute"
      [] kind = "reregister" -> "regfind"

\* What a's command finds when it begins; a reconcile's when it has looked.
Opens(a) ==
    /\ before' = [before EXCEPT ![a] =
                     [live |-> Serving /\ route = FirstLive,
                      settled |-> Serving /\ Live = {route}
                                  /\ route = Newest(There),
                      version |-> VersionOf(route),
                      target |-> PreviousVersion]]
    /\ last' = a

\* A command that finds the lock taken changes nothing, and has no step.
Begin(a) ==
    /\ op[a].pc = "idle"
    /\ started < MaxOps
    /\ \E k \in Kinds, v \in Versions \cup {NoVersion} :
         /\ v # NoVersion <=> k \in Pinned
         /\ k \in Locked => lock = Nobody
         /\ lock' = IF k \in Locked THEN a ELSE lock
         /\ op' = [op EXCEPT ![a] =
                     [kind |-> k, version |-> v, pc |-> Entry(k),
                      name |-> NoName, prev |-> NoName, same |-> FALSE,
                      todo |-> Nothing, result |-> "none"]]
    /\ started' = started + 1
    /\ IF op'[a].kind = "reconcile"
         THEN last' = (IF last = a THEN Nobody ELSE last) /\ UNCHANGED before
         ELSE Opens(a)
    /\ UNCHANGED <<containers, route, role>>

\* Any remote command of the command may fail to reach its host; a failing
\* docker run and a failing `kamal-proxy remove` have steps of their own.
Fail(a) ==
    /\ "refused" \in Faults
    /\ op[a].pc \notin {"idle", "run", "rmfailed", "unroute"}
    /\ Becomes(a, Failed(op[a]))
    /\ UNCHANGED <<containers, route>>

-----------------------------------------------------------------------------
(* Deploy and rollback *)

\* Reconcile looks without the lock, then deploys if anything differs.
Inspect(a) ==
    /\ op[a].pc = "inspect"
    /\ LET sync == InSync(op[a].version)
       IN  IF ~sync /\ lock # Nobody
             THEN Becomes(a, Failed(op[a]))
             ELSE /\ op' = [op EXCEPT ![a] = IF sync THEN Finish(@, "ok")
                                                    ELSE Goto(@, "sweep")]
                  /\ lock' = IF sync THEN lock ELSE a
                  /\ Opens(a)
                  /\ UNCHANGED <<started, role>>
    /\ UNCHANGED <<containers, route>>

Swept(o) == IF o.kind = "sweep" THEN Finish(o, "ok") ELSE Goto(o, "find")

Sweep(a) ==
    /\ op[a].pc = "sweep"
    /\ Becomes(a, IF Orphans = {} THEN Swept(op[a])
                  ELSE [op[a] EXCEPT !.pc = "sweeping", !.todo = Listed(Orphans)])
    /\ UNCHANGED <<containers, route>>

\* One container of a loop over a list read before: of sweep, prune, remove.
RemoveNext(a) ==
    /\ op[a].pc \in Loops
    /\ \E n \in Names :
         LET o == [op[a] EXCEPT !.todo[n] = 0]
         IN  /\ op[a].todo[n] > 0
             /\ \A m \in Names : op[a].todo[m] <= op[a].todo[n]
             /\ Remove(a, n, IF o.todo # Nothing THEN o
                             ELSE IF o.pc = "sweeping" THEN Swept(o)
                             ELSE Finish(o, "ok"))
    /\ UNCHANGED route

\* The version to go back to: named, and then present, or the previous one.
Choose(a) ==
    /\ op[a].pc = "choose"
    /\ LET v == IF op[a].kind = "rollback" THEN PreviousVersion
                ELSE op[a].version
       IN  Becomes(a, IF \E n \in There : n[1] = v
                      THEN [op[a] EXCEPT !.version = v, !.pc = "find"]
                      ELSE Failed(op[a]))
    /\ UNCHANGED <<containers, route>>

\* Mutant: a role that cannot overlap is rolled out like one that can.
MustStopFirstNever(n) == FALSE

MustStopFirst(n) == n # NoName /\ ~Overlaps

\* deployHost: the container that runs, and the name the new one will have.
Find(a) ==
    /\ op[a].pc = "find"
    /\ Becomes(a, [op[a] EXCEPT
                     !.prev = FirstLive,
                     !.name = NameFor(op[a].version),
                     !.same = VersionOf(FirstLive) = op[a].version,
                     !.pc = IF MustStopFirst(FirstLive) THEN "stopprev" ELSE "rmname"])
    /\ UNCHANGED <<containers, route>>

StopPrevious(a) ==
    /\ op[a].pc = "stopprev"
    /\ Stop(a, op[a].prev, [op[a] EXCEPT !.prev = NoName, !.pc = "rmname"])
    /\ UNCHANGED route

RemoveNamesake(a) ==
    /\ op[a].pc = "rmname"
    /\ Remove(a, op[a].name, Goto(op[a], "run"))
    /\ UNCHANGED route

\* docker run makes the newest container; it refuses a name that is taken, and
\* leaves a container that never ran when the port is.
Run(a) ==
    /\ op[a].pc = "run"
    /\ LET n == op[a].name
       IN  \/ /\ n \notin There /\ ~PortTaken(n)
              /\ \E g \in BOOLEAN : \E s \in StatesOf(g) : containers' = With(n, s, g)
              /\ \E r \in Replies :
                   Becomes(a, Goto(op[a], IF r = "ok" THEN "health" ELSE "rmfailed"))
           \/ /\ n \in There \/ "refused" \in Faults
              /\ Becomes(a, Goto(op[a], "rmfailed"))
              /\ UNCHANGED containers
           \/ /\ n \notin There /\ HoldsPort
              /\ \E g \in BOOLEAN : containers' = With(n, "created", g)
              /\ Becomes(a, Goto(op[a], "rmfailed"))
    /\ UNCHANGED route

\* Mutant: docker is trusted to leave nothing of a run that failed.
RemoveFailedSkipped(a) ==
    /\ op[a].pc = "rmfailed"
    /\ Becomes(a, Failed(op[a]))
    /\ UNCHANGED <<containers, route>>

\* `_ = d.remoteDocker.StopAndRemove`: once, whatever comes of it.
RemoveFailed(a) ==
    /\ op[a].pc = "rmfailed"
    /\ \/ containers' = Without(op[a].name)
       \/ Faults \cap {"refused", "hidden"} # {} /\ UNCHANGED containers
    /\ Becomes(a, Failed(op[a]))
    /\ UNCHANGED route

\* Mutant: the switch comes before the health check's verdict.
HealthIgnored(a) ==
    /\ op[a].pc = "health"
    /\ Becomes(a, Goto(op[a], IF UseProxy THEN "switch" ELSE "cleanup"))
    /\ UNCHANGED <<containers, route>>

\* An unhealthy container is left as it is.
Health(a) ==
    /\ op[a].pc = "health"
    /\ IF Answers(op[a].name)
         THEN Becomes(a, Goto(op[a], IF UseProxy THEN "switch" ELSE "cleanup"))
         ELSE Becomes(a, Failed(op[a]))
    /\ UNCHANGED <<containers, route>>

\* kamal-proxy keeps the old route unless the new target answers.
Switch(a) ==
    /\ op[a].pc \in {"switch", "register"}
    /\ IF Answers(op[a].name)
         THEN /\ route' = op[a].name
              /\ \E r \in Replies :
                   Becomes(a, After(op[a], r,
                              IF op[a].pc = "switch" THEN Goto(op[a], "cleanup")
                                                     ELSE Finish(op[a], "ok")))
         ELSE /\ Becomes(a, Failed(op[a]))
              /\ UNCHANGED route
    /\ UNCHANGED containers

RolledOut(o) ==
    IF o.kind \in {"rollback", "rollback_to"} THEN Finish(o, "ok")
                                              ELSE Goto(o, "prune")

\* Mutant: the prior container is left running.
CleanupSkipped(a) ==
    /\ op[a].pc = "cleanup"
    /\ Becomes(a, RolledOut(op[a]))
    /\ UNCHANGED <<containers, route>>

\* The prior container is stopped and kept to roll back to, unless it is of
\* the version just deployed.
Cleanup(a) ==
    /\ op[a].pc = "cleanup"
    /\ IF op[a].prev \in {NoName, op[a].name}
         THEN Becomes(a, RolledOut(op[a])) /\ UNCHANGED containers
         ELSE IF op[a].same
           THEN Remove(a, op[a].prev, RolledOut(op[a]))
           ELSE Stop(a, op[a].prev, RolledOut(op[a]))
    /\ UNCHANGED route

Prune(a) ==
    /\ op[a].pc = "prune"
    /\ Becomes(a, IF Surplus = {} THEN Finish(op[a], "ok")
                  ELSE [op[a] EXCEPT !.pc = "pruning", !.todo = Listed(Surplus)])
    /\ UNCHANGED <<containers, route>>

-----------------------------------------------------------------------------
(* Stop, start, restart, remove, and the re-registration after a renewal *)

BeStopped(o) == IF o.kind = "restart" THEN Goto(o, "startfind") ELSE Finish(o, "ok")

StopFind(a) ==
    /\ op[a].pc = "stopfind"
    /\ Becomes(a, IF FirstLive = NoName THEN BeStopped(op[a])
                  ELSE [op[a] EXCEPT !.prev = FirstLive, !.pc = "stopone"])
    /\ UNCHANGED <<containers, route>>

StopOne(a) ==
    /\ op[a].pc = "stopone"
    /\ Stop(a, op[a].prev, BeStopped(op[a]))
    /\ UNCHANGED route

BeRunning(o) == IF UseProxy THEN Goto(o, "register") ELSE Finish(o, "ok")

StartFind(a) ==
    /\ op[a].pc = "startfind"
    /\ Becomes(a, IF There = {} THEN Failed(op[a])
                  ELSE LET o == [op[a] EXCEPT !.name = Newest(There)]
                       IN  IF o.name \in Live THEN BeRunning(o)
                                              ELSE Goto(o, "startone"))
    /\ UNCHANGED <<containers, route>>

StartOne(a) ==
    LET n == op[a].name
    IN  /\ op[a].pc = "startone"
        /\ IF n \in There /\ ~PortTaken(n)
             THEN /\ \E s \in StatesOf(containers[n].good) :
                       containers' = Marked(n, s)
                  /\ \E r \in Replies :
                       Becomes(a, After(op[a], r, BeRunning(op[a])))
             ELSE Becomes(a, Failed(op[a])) /\ UNCHANGED containers
        /\ UNCHANGED route

ReregisterFind(a) ==
    /\ op[a].pc = "regfind"
    /\ Becomes(a, IF UseProxy /\ There # {} /\ containers[Newest(There)].state = "running"
                  THEN [op[a] EXCEPT !.name = Newest(There), !.pc = "register"]
                  ELSE Finish(op[a], "ok"))
    /\ UNCHANGED <<containers, route>>

\* A failing `kamal-proxy remove` is a warning.
Unroute(a) ==
    /\ op[a].pc = "unroute"
    /\ \/ UseProxy /\ route' = NoName
       \/ (~UseProxy \/ "refused" \in Faults) /\ UNCHANGED route
    /\ Becomes(a, Goto(op[a], "removefind"))
    /\ UNCHANGED containers

RemoveFind(a) ==
    /\ op[a].pc = "removefind"
    /\ Becomes(a, IF There = {} THEN Finish(op[a], "ok")
                  ELSE [op[a] EXCEPT !.pc = "removing", !.todo = Listed(There)])
    /\ UNCHANGED <<containers, route>>

-----------------------------------------------------------------------------

Init ==
    /\ containers = [n \in Names |-> Absent]
    /\ route = NoName
    /\ lock = Nobody
    /\ op = [a \in Actors |->
               [kind |-> "none", version |-> NoVersion, pc |-> "idle",
                name |-> NoName, prev |-> NoName, same |-> FALSE,
                todo |-> Nothing, result |-> "none"]]
    /\ before = [a \in Actors |->
                   [live |-> FALSE, settled |-> FALSE, version |-> NoVersion,
                    target |-> NoVersion]]
    /\ last = Nobody
    /\ started = 0
    /\ role \in Roles

Step(a) ==
    \/ Inspect(a) \/ Sweep(a) \/ RemoveNext(a) \/ Choose(a) \/ Find(a)
    \/ StopPrevious(a) \/ RemoveNamesake(a) \/ Run(a) \/ RemoveFailed(a)
    \/ Health(a) \/ Switch(a) \/ Cleanup(a) \/ Prune(a)
    \/ StopFind(a) \/ StopOne(a) \/ StartFind(a) \/ StartOne(a)
    \/ ReregisterFind(a) \/ Unroute(a) \/ RemoveFind(a)
    \/ Fail(a)

Next == \E a \in Actors : Begin(a) \/ Step(a)

Spec == Init /\ [][Next]_vars

-----------------------------------------------------------------------------
(* Properties *)

RollsOut(k) == k \in {"deploy", "reconcile", "rollback", "rollback_to"}

\* a rolls out under the lock, or did, and nothing has begun since.
Current(a) ==
    RollsOut(op[a].kind) /\ (lock = a \/ (op[a].pc = "idle" /\ last = a))

Succeeded(a) == op[a].pc = "idle" /\ last = a /\ op[a].result = "ok"

\* Zero downtime: where two containers may overlap, a deploy or a rollback that
\* finds the newest running container serving never interrupts the service,
\* whether it succeeds or fails, and at whichever step.
NeverStopsServing ==
    Overlaps => \A a \in Actors :
        Current(a) /\ before[a].live => Serving

\* A deploy that reports success leaves its version running alone, answering,
\* with the route on it and nothing for reconcile to find, whatever earlier
\* commands left behind.
SuccessConverges ==
    \A a \in Actors :
        op[a].kind = "deploy" /\ Succeeded(a) =>
            /\ InSync(op[a].version)
            /\ \E n \in Names : Live = {n} /\ Answers(n)

\* What a plain rollback goes back to after a successful deploy: the version
\* that ran before, alone and serving, or, redeploying that version, the
\* target there was.
RollbackTargetKept ==
    \A a \in Actors :
        op[a].kind = "deploy" /\ Succeeded(a) /\ before[a].settled =>
            PreviousVersion = IF op[a].version = before[a].version
                                THEN before[a].target ELSE before[a].version

\* "Two versions of a non-proxied role cannot run side by side": they would
\* share the service alias.
AliasUnshared == ~UseProxy => \A m, n \in Live : m = n

\* A docker run that fails leaves nothing behind: no container that never ran
\* is there for a later start or rollback to take for a version.
FailedRunLeavesNothing ==
    (\A a \in Actors : op[a].pc = "idle") =>
        \A n \in Names : containers[n].state # "created"

\* The sweep at the start of a deploy removes what earlier deploys left half
\* done, never the container that serves.
SweepSparesServing ==
    [][\A a \in Actors :
          op[a].pc = "sweeping" /\ op[a].kind = "deploy" /\ Serving => Serving']_vars

\* A reconcile that finds nothing to do, or has done it, leaves its version
\* running and answering.
ReconcileConverges ==
    \A a \in Actors :
        op[a].kind = "reconcile" /\ Succeeded(a) =>
            InSync(op[a].version) /\ \E n \in Names : n[1] = op[a].version /\ Answers(n)
=============================================================================
