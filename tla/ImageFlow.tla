------------------------------- MODULE ImageFlow -------------------------------
(***************************************************************************)
(* Which image a deploy or a reconcile ends up running: how the reference  *)
(* is resolved, built, pushed and pulled (deploy.go's resolveImage,        *)
(* prepareImage and pullImage, internal/docker's Build, Push and Pull).    *)
(*                                                                         *)
(* One tag is followed, the one qifa.yaml names (without a builder) or the *)
(* version names (with one: --version and --allow-dirty use a tag again).  *)
(* A content is the revision it was built from.  Hosts are rolled out one  *)
(* after the other; FleetRollout models the batches, ContainerRollout what *)
(* happens to the containers.                                              *)
(***************************************************************************)
EXTENDS Naturals, Sequences, FiniteSets

CONSTANTS
    HostList,       \* the hosts, in the order of the rollout
    Actors,         \* qifa invocations of this service
    Configs,        \* the configurations considered: [source, policy]
    Retries,        \* QIFA_PULL_RETRIES: attempts after the first
    MaxRevisions,   \* bound: revisions of the program
    MaxOps,         \* bound: invocations in all
    MaxLate         \* bound: transfers that outlive their connection

\* Where the image comes from: pulled as it is, loaded by CI, or built by qifa,
\* here or on a builder host, for one platform or several, or on every target.
Sources == {"registry", "local", "built_local", "built_remote", "multi_local",
            "multi_remote", "per_target"}
Policies == {"always", "missing"}
Hosts == {HostList[i] : i \in DOMAIN HostList}
First == HostList[1]

ASSUME ImageAssumption ==
    /\ HostList \in Seq(Hosts) /\ HostList # <<>> /\ Cardinality(Hosts) = Len(HostList)
    /\ Hosts \cap {"builder", "registry"} = {} /\ "free" \notin Actors
    /\ Configs \subseteq [source : Sources, policy : Policies]
    /\ {Retries, MaxRevisions, MaxOps, MaxLate} \subseteq Nat /\ MaxRevisions > 0

Revisions == 1..MaxRevisions
None == 0

VARIABLES
    conf,           \* the configuration, the same throughout
    newest,         \* the checkout's revision; without a builder, what CI built last
    reg,            \* the content the registry has under the tag
    built,          \* the content the build machine has under the tag
    tag,            \* host -> the content it has under the tag
    has,            \* host -> the contents it has, by digest
    late,           \* builds and transfers that go on after the connection broke
    running,        \* host -> the container that runs: its content and version
    lock,           \* the actor that holds the deploy lock
    op,             \* actor -> its invocation in progress
    asked,          \* history: contents brought by a deploy, or where there was none
    began

vars == <<conf, newest, reg, built, tag, has, late, running, lock, op, asked, began>>

world == <<conf, newest, reg, built, tag, has, late, running, lock, asked>>

PCs == {"idle", "resolve", "verify", "exists", "pull", "digest", "drift", "lock",
        "build", "push", "host", "run"}

\* A reference: the tag, or a digest (the content itself).
Refs == {None} \cup Revisions

Op == [kind : {"none", "deploy", "reconcile"}, pc : PCs,
       drifted : BOOLEAN,           \* a reconcile that goes on to deploy
       rolling : BOOLEAN,           \* it holds the lock
       ref : Refs, at : 1..Len(HostList), tries : 0..Retries,
       made : Refs,                 \* history: what it built
       clean : BOOLEAN,             \* history: nothing was late when it built
       held : Refs,                 \* history: the first host's tag when it began
       result : {"none", "ok", "failed"}]

TypeOK ==
    /\ conf \in Configs
    /\ newest \in Revisions /\ reg \in Refs /\ built \in Refs
    /\ tag \in [Hosts -> Refs] /\ has \in [Hosts -> SUBSET Revisions]
    /\ late \subseteq [host : Hosts \cup {"builder", "registry"}, ref : Refs, content : Revisions]
    /\ running \in [Hosts -> [content : Refs, version : Refs]]
    /\ lock \in Actors \cup {"free"}
    /\ op \in [Actors -> Op]
    /\ asked \subseteq Revisions /\ began \in 0..MaxOps

Idle == [kind |-> "none", pc |-> "idle", drifted |-> FALSE, rolling |-> FALSE,
         ref |-> None, at |-> 1, tries |-> 0, made |-> None, clean |-> TRUE, held |-> None, result |-> "none"]

At(a, pc) == op[a].pc = pc
Goes(a, o) == op' = [op EXCEPT ![a] = o]
Host(o) == HostList[o.at]
Over(result) == [Idle EXCEPT !.result = result]

\* The deferred release goes with whatever ends the deploy.
Ends(a, result) ==
    /\ Goes(a, Over(result))
    /\ lock' = IF lock = a THEN "free" ELSE lock

HasBuilder == conf.source \notin {"registry", "local"}

\* IsDigestPinned
Pinned(ref) == ref # None

\* Mutant: the policy is not looked at.
SkipPullAlways(ref) == TRUE

\* SkipPullIfPresent
SkipPullIfPresent(ref) == conf.policy # "always" \/ Pinned(ref)

\* Mutant: preferLocalImages is not set.
AsksByPolicy(o) == SkipPullIfPresent(o.ref)

\* pullImage: whether it asks the host first.  Reconcile sets preferLocalImages.
AsksFirst(o) == o.kind = "reconcile" \/ SkipPullIfPresent(o.ref)

\* ImageExists
ImageExists(h, ref) == IF Pinned(ref) THEN ref \in has[h] ELSE tag[h] # None

\* Mutant: the container is made from the tag of qifa.yaml.
ContentOfTag(h, ref) == tag[h]

\* What a container made from ref on h has in it.
Content(h, ref) == IF Pinned(ref) THEN ref ELSE tag[h]

\* What a host has after a transfer of c under ref has come to its end there.
Arrives(h, ref, c) ==
    /\ has' = [has EXCEPT ![h] = @ \cup {c}]
    /\ tag' = IF Pinned(ref) THEN tag ELSE [tag EXCEPT ![h] = c]

Fetch(o) == [o EXCEPT !.pc = IF AsksFirst(o) THEN "exists" ELSE "pull", !.tries = 0]

Fetched(o) == [o EXCEPT !.pc = IF o.rolling THEN "run" ELSE "digest", !.tries = 0]

Resolved(o) == [o EXCEPT !.pc = IF o.kind = "reconcile" /\ ~o.drifted THEN "drift" ELSE "lock"]

-----------------------------------------------------------------------------
(* Resolution: no lock is held yet *)

Begin(a) ==
    /\ At(a, "idle") /\ began < MaxOps
    /\ \E kind \in {"deploy", "reconcile"} :
         Goes(a, [Idle EXCEPT !.kind = kind, !.pc = "resolve", !.held = tag[First]])
    /\ began' = began + 1
    /\ UNCHANGED world

\* resolveImage: with a builder the tag itself, else by what the hosts have.
ResolveImage(a) ==
    /\ At(a, "resolve")
    /\ Goes(a, IF HasBuilder THEN Resolved(op[a])
               ELSE IF conf.source = "local" THEN [op[a] EXCEPT !.pc = "verify", !.at = 1]
               ELSE [Fetch([op[a] EXCEPT !.ref = None]) EXCEPT !.at = 1])
    /\ UNCHANGED <<world, began>>

\* EnsureDocker, the upload of credentials or a query that cannot be made.
Fails(a) ==
    /\ op[a].pc \in {"resolve", "verify", "exists", "digest", "drift", "build", "host", "run"}
    /\ Ends(a, "failed")
    /\ UNCHANGED <<conf, newest, reg, built, tag, has, late, running, asked, began>>

\* source: local: every host must have the image before any is touched.
Verify(a) ==
    /\ At(a, "verify")
    /\ IF tag[Host(op[a])] = None THEN Ends(a, "failed")
       ELSE /\ Goes(a, IF op[a].at < Len(HostList) THEN [op[a] EXCEPT !.at = @ + 1]
                       ELSE Resolved(op[a]))
            /\ UNCHANGED lock
    /\ UNCHANGED <<conf, newest, reg, built, tag, has, late, running, asked, began>>

\* pullImage: present, or to be pulled.
CheckPresent(a) ==
    /\ At(a, "exists")
    /\ Goes(a, IF ImageExists(Host(op[a]), op[a].ref) THEN Fetched(op[a])
               ELSE [op[a] EXCEPT !.pc = "pull"])
    /\ UNCHANGED <<world, began>>

\* Classify: what docker printed tells a fault of the network, which may pass,
\* from one that stays.
Faults == {"transient", "lasting"}
Retryable(fault) == fault = "transient"

\* streamWatched: a command over a connection that broke is over too, or goes on
\* where it runs.  One that failed for good is over.
LeavesLate(fault, at, ref, c) ==
    \/ late' = late
    \/ /\ fault = "transient" /\ c # None /\ Cardinality(late) < MaxLate
       /\ late' = late \cup {[host |-> at, ref |-> ref, content |-> c]}

Again(a) == Goes(a, [op[a] EXCEPT !.tries = @ + 1]) /\ UNCHANGED lock

\* An attempt fails, the n-th of them, and another follows if the fault looks
\* transient and attempts are left.
FailsOrAgain(a, fault) ==
    IF Retryable(fault) /\ op[a].tries < Retries THEN Again(a) ELSE Ends(a, "failed")

\* Pull, one attempt.
Pull(a) ==
    LET o == op[a]
        h == Host(o)
        c == IF Pinned(o.ref) THEN o.ref ELSE reg
    IN  /\ At(a, "pull")
        /\ \/ /\ c # None
              /\ Arrives(h, o.ref, c)
              /\ Goes(a, Fetched(o)) /\ UNCHANGED <<late, lock>>
           \/ /\ \E fault \in Faults :
                   /\ FailsOrAgain(a, fault)
                   /\ LeavesLate(fault, h, o.ref, c)
              /\ UNCHANGED <<tag, has>>
        /\ asked' = IF (o.kind = "deploy" \/ o.held = None) /\ c # None THEN asked \cup {c} ELSE asked
        /\ UNCHANGED <<conf, newest, reg, built, running, began>>

\* The digest the first host's tag has now is what every host gets.
ImageDigest(a) ==
    /\ At(a, "digest")
    /\ Goes(a, Resolved([op[a] EXCEPT !.ref = tag[First]]))
    /\ UNCHANGED <<world, began>>

\* Reconcile: nothing to do where every host runs the version, which is the
\* digest, or the tag where there is none.
FindDrift(a) ==
    /\ At(a, "drift")
    /\ IF \A h \in Hosts : running[h].content # None /\ running[h].version = op[a].ref
       THEN Goes(a, Over("ok"))
       ELSE Goes(a, [op[a] EXCEPT !.pc = "resolve", !.drifted = TRUE, !.ref = None])
    /\ UNCHANGED <<world, began>>

-----------------------------------------------------------------------------
(* The deploy, under the lock *)

AcquireLock(a) ==
    /\ At(a, "lock")
    /\ IF lock = "free"
       THEN /\ lock' = a
            /\ Goes(a, [op[a] EXCEPT !.rolling = TRUE, !.at = 1,
                          !.pc = IF HasBuilder /\ conf.source # "per_target"
                                 THEN "build" ELSE "host"])
       ELSE Ends(a, "failed")
    /\ UNCHANGED <<conf, newest, reg, built, tag, has, late, running, asked, began>>

\* The checkout, or builder.ref, as it is when the build takes it: the version
\* was resolved before.
Context == newest

Made(o, c, pc) == [o EXCEPT !.pc = pc, !.made = c, !.clean = late = {}, !.tries = 0]

LocalBuild(a) ==
    /\ At(a, "build") /\ conf.source = "built_local"
    /\ built' = Context
    /\ Goes(a, Made(op[a], Context, "push"))
    /\ UNCHANGED <<conf, newest, reg, tag, has, late, running, lock, asked, began>>

\* Once, over SSH.
RemoteBuild(a) ==
    /\ At(a, "build") /\ conf.source = "built_remote"
    /\ \/ /\ built' = Context
          /\ Goes(a, Made(op[a], Context, "push"))
          /\ UNCHANGED <<late, lock>>
       \/ /\ UNCHANGED built
          /\ \E fault \in Faults : LeavesLate(fault, "builder", None, Context)
          /\ Ends(a, "failed")
    /\ UNCHANGED <<conf, newest, reg, tag, has, running, asked, began>>

\* Several platforms are built and pushed in one, so a failure may have pushed.
LocalBuildxPush(a) ==
    /\ At(a, "build") /\ conf.source = "multi_local"
    /\ reg' = Context
    /\ \/ Goes(a, Made(op[a], Context, "host")) /\ UNCHANGED lock
       \/ Ends(a, "failed")
    /\ UNCHANGED <<conf, newest, built, tag, has, late, running, asked, began>>

RemoteBuildxPush(a) ==
    /\ At(a, "build") /\ conf.source = "multi_remote"
    /\ \/ /\ reg' = Context
          /\ Goes(a, Made(op[a], Context, "host"))
          /\ UNCHANGED <<late, lock>>
       \/ /\ UNCHANGED reg
          /\ \E fault \in Faults : LeavesLate(fault, "registry", None, Context)
          /\ Ends(a, "failed")
    /\ UNCHANGED <<conf, newest, built, tag, has, running, asked, began>>

\* The docker that built pushes what it has under the tag by now: once here ...
LocalPush(a) ==
    /\ At(a, "push") /\ conf.source = "built_local"
    /\ \/ /\ reg' = built
          /\ Goes(a, [op[a] EXCEPT !.pc = "host"]) /\ UNCHANGED lock
       \/ reg' = reg /\ Ends(a, "failed")
    /\ UNCHANGED <<conf, newest, built, tag, has, late, running, asked, began>>

\* ... and on a builder host with attempts as for a pull.
RemotePush(a) ==
    /\ At(a, "push") /\ conf.source = "built_remote"
    /\ \/ /\ reg' = built /\ late' = late
          /\ Goes(a, [op[a] EXCEPT !.pc = "host", !.tries = 0]) /\ UNCHANGED lock
       \/ /\ reg' = reg
          /\ \E fault \in Faults :
               FailsOrAgain(a, fault) /\ LeavesLate(fault, "registry", None, built)
    /\ UNCHANGED <<conf, newest, built, tag, has, running, asked, began>>

\* deployHost up to the image: it is there, or is pulled ...
DeployHost(a) ==
    /\ At(a, "host") /\ conf.source # "per_target"
    /\ Goes(a, IF conf.source = "local" THEN [op[a] EXCEPT !.pc = "run"] ELSE Fetch(op[a]))
    /\ UNCHANGED <<world, began>>

\* ... or is built there.
BuildOnHost(a) ==
    LET h == Host(op[a]) IN
    /\ At(a, "host") /\ conf.source = "per_target"
    /\ \/ /\ Arrives(h, None, Context)
          /\ Goes(a, [op[a] EXCEPT !.pc = "run"])
          /\ UNCHANGED <<late, lock>>
       \/ /\ UNCHANGED <<tag, has>>
          /\ \E fault \in Faults : LeavesLate(fault, h, None, Context)
          /\ Ends(a, "failed")
    /\ UNCHANGED <<conf, newest, reg, built, running, asked, began>>

\* The new container serves, or fails its checks with the old one in place or
\* gone before it.
RunContainer(a) ==
    LET o == op[a]
        h == Host(o)
        new == [content |-> Content(h, o.ref), version |-> o.ref]
    IN  /\ At(a, "run")
        /\ \/ /\ running' = [running EXCEPT ![h] = new]
              /\ IF o.at = Len(HostList) THEN Ends(a, "ok")
                 ELSE Goes(a, [o EXCEPT !.pc = "host", !.at = @ + 1]) /\ UNCHANGED lock
           \/ /\ running' = [running EXCEPT ![h] = [new EXCEPT !.content = None]]
              /\ Ends(a, "failed")
        /\ UNCHANGED <<conf, newest, reg, built, tag, has, late, asked, began>>

-----------------------------------------------------------------------------
(* What happens outside *)

\* A commit in the checkout; without a builder CI builds it and moves the tag.
Commit ==
    /\ newest < MaxRevisions
    /\ newest' = newest + 1
    /\ reg' = IF conf.source = "registry" THEN newest + 1 ELSE reg
    /\ UNCHANGED <<conf, built, tag, has, late, running, lock, op, asked, began>>

\* source: local: CI loads what it built last on one host.
Load(h) ==
    /\ conf.source = "local" /\ tag[h] # newest
    /\ Arrives(h, None, newest)
    /\ UNCHANGED <<conf, newest, reg, built, late, running, lock, op, asked, began>>

\* A transfer whose connection broke comes to its end.
LateArrives(t) ==
    /\ late' = late \ {t}
    /\ CASE t.host = "registry" -> reg' = t.content /\ UNCHANGED <<tag, has, built>>
         [] t.host = "builder" -> built' = t.content /\ UNCHANGED <<tag, has, reg>>
         [] t.host \in Hosts -> Arrives(t.host, t.ref, t.content) /\ UNCHANGED <<reg, built>>
    /\ UNCHANGED <<conf, newest, running, lock, op, asked, began>>

Next ==
    \/ \E a \in Actors :
         \/ Begin(a) \/ ResolveImage(a) \/ Verify(a) \/ CheckPresent(a) \/ Pull(a)
         \/ ImageDigest(a) \/ FindDrift(a) \/ AcquireLock(a)
         \/ LocalBuild(a) \/ RemoteBuild(a) \/ LocalBuildxPush(a) \/ RemoteBuildxPush(a)
         \/ LocalPush(a) \/ RemotePush(a) \/ DeployHost(a) \/ BuildOnHost(a)
         \/ RunContainer(a) \/ Fails(a)
    \/ Commit
    \/ \E h \in Hosts : Load(h)
    \/ \E t \in late : LateArrives(t)

\* Nothing deployed yet, or revision 1 everywhere: by digest, with the tag
\* on the first host only, or by the tag.
Init ==
    /\ conf \in Configs
    /\ newest = 1 /\ built = None /\ late = {} /\ lock = "free"
    /\ \E deployed \in BOOLEAN :
         /\ reg = IF deployed \/ conf.source = "registry" THEN 1 ELSE None
         /\ tag = [h \in Hosts |->
                     IF deployed /\ (conf.source # "registry" \/ h = First) THEN 1 ELSE None]
         /\ has = [h \in Hosts |-> IF deployed THEN {1} ELSE {}]
         /\ running = [h \in Hosts |->
              [content |-> IF deployed THEN 1 ELSE None,
               version |-> IF deployed /\ conf.source = "registry" THEN 1 ELSE None]]
    /\ op = [a \in Actors |-> Idle]
    /\ asked = {} /\ began = 0

Spec == Init /\ [][Next]_vars

-----------------------------------------------------------------------------
(* Properties *)

Succeeds(a) == At(a, "run") /\ op'[a].result = "ok"

\* Without a builder, a deploy that succeeds has every host on the one content
\* its digest names, though the tag moved on, CI loaded nothing alike and an
\* abandoned pull came to its end between two hosts (resolveImage).
OneContent ==
    [][\A a \in Actors :
         Succeeds(a) /\ conf.source = "registry" =>
           \A h \in Hosts : running'[h].content = op[a].ref]_vars

\* With a builder that pushes and pull_policy: always, every host of a deploy
\* that succeeds runs what that deploy built, under a tag used before too: no
\* retry, however late an earlier attempt ends, brings back another image.  A
\* transfer of an earlier deploy that still goes on when this one builds is
\* excepted, and so is a reconcile, which takes what the host has (pullImage).
RunsWhatWasBuilt ==
    [][\A a \in Actors :
         Succeeds(a) /\ op[a].clean /\ op[a].kind = "deploy" /\ op[a].made # None
           /\ conf.policy = "always" =>
             \A h \in Hosts : running'[h].content = op[a].made]_vars

\* An unattended reconcile starts nothing that no deploy has brought here, unless
\* the host had no image at all: it does not follow the tag where that has moved
\* in the registry (pullImage).
ReconcileNeverUpgrades ==
    [][\A a \in Actors, h \in Hosts :
         op[a].kind = "reconcile" /\ op[a].held # None /\ conf.source = "registry"
           /\ At(a, "run") /\ running'[h] # running[h] =>
             running'[h].content \in asked \cup {None, op[a].held}]_vars
=============================================================================
