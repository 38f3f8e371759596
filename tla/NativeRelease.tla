---------------------------- MODULE NativeRelease ----------------------------
(***************************************************************************)
(* One host of the native backend (internal/native): release directories,  *)
(* the `current` link, the env file, the unit files and their processes,   *)
(* as setup, deploy, rollback, reconcile, prune, stop, start, restart and  *)
(* remove change them.  The config either ships releases or, `installed`,  *)
(* runs a program that somebody else puts on the server.                   *)
(*                                                                         *)
(* Each step is one remote script.  A script may not reach the host        *)
(* ("refused"), run with its answer lost ("lost") or stop half way         *)
(* ("half"), and qifa may die between two of them ("crash").  An rm -rf of *)
(* one directory is not cut in two.                                        *)
(*                                                                         *)
(* A process is what it was started from: a release (None if installed),   *)
(* its contents and an env.  Works says which pass a health check.         *)
(***************************************************************************)
EXTENDS Naturals, FiniteSets

CONSTANTS
    Actors,         \* qifa invocations that may run side by side
    Ids, Sums, Envs,
    Empty,          \* the env file `qifa setup` makes
    Builds,         \* the <<release, contents, env>> there are to deploy
    Works,          \* the <<release, contents, env>> that become healthy
    NUnits,         \* roles on the host, one unit each
    Retain,         \* prune.retain
    Kinds,          \* the commands that are run
    Faults,         \* a subset of {"refused", "lost", "half", "crash"}
    MaxOps,         \* bound: how many commands are run in all
    None

Deploying == {"deploy", "reconcile"}
Locked == {"deploy", "rollback", "rollback_to"}
OfReleases == {"rollback", "rollback_to", "prune"}
AllKinds == Locked \cup OfReleases \cup
            {"reconcile", "stop", "start", "restart", "setup", "remove", "purge"}

ASSUME NativeAssumption ==
    /\ None \notin Ids \cup Sums \cup Envs \cup Actors
    /\ None \notin (Ids \cup {None}) \X Sums \X (Envs \cup {None})
    /\ Empty \in Envs
    /\ Builds \subseteq Ids \X Sums \X Envs
    /\ Works \subseteq (Ids \cup {None}) \X Sums \X (Envs \cup {None})
    /\ NUnits \in Nat \ {0} /\ MaxOps \in Nat
    /\ Retain \in Nat /\ Retain >= 2
    /\ Kinds \subseteq AllKinds
    /\ Faults \subseteq {"refused", "lost", "half", "crash"}

VARIABLES
    rel,        \* release -> its contents (None: not there), when it was
                \* staged, and when it last passed (.qifa-ok; 0: never)
    current,    \* the release `current` points at
    env,        \* etc/env; setup makes it, so None: no install directory
    envPrev,    \* etc/env.prev
    files,      \* the units that have a unit file
    installed,  \* the config has no native.artifact
    program,    \* the contents of the installed program
    version,    \* etc/version, of an installed program
    proc,       \* unit -> what its process was started from, None if stopped
    clock,      \* the host's clock, for the times in rel
    lock, op,   \* as in ContainerRollout
    before,     \* actor -> what its command found when it began
    started

place == <<files, installed, program, version>>

vars == <<rel, current, env, envPrev, proc, clock, lock, op, before, started, place>>

host == <<rel, current, env, envPrev, proc, clock, place>>

Units == 1..NUnits
Process == ((Ids \cup {None}) \X Sums \X (Envs \cup {None})) \cup {None}

PCs == {"idle", "inspect", "preflight", "stage", "activate", "installenv",
        "choose", "switch", "restart", "health", "revert", "stopunits", "markok",
        "route", "prunefind", "pruning", "each", "setup", "teardown"}

Results == {"none", "ok", "failed", "restored", "rollback_failed", "crashed"}

Op == [kind : AllKinds \cup {"none"}, pc : PCs, id : Ids \cup {None},
       sum : Sums \cup {None}, env : Envs \cup {None}, prev : Ids \cup {None},
       had : BOOLEAN, unit : Units, back : BOOLEAN, del : SUBSET Ids, result : Results]

Before == [serial : 0..MaxOps, current : Ids \cup {None},
           env : Envs \cup {None}, proc : [Units -> Process], steady : BOOLEAN]

TypeOK ==
    /\ rel \in [Ids -> [sum : Sums \cup {None}, staged : Nat, ok : Nat]]
    /\ current \in Ids \cup {None}
    /\ env \in Envs \cup {None}
    /\ envPrev \in Envs \cup {None}
    /\ proc \in [Units -> Process]
    /\ files \subseteq Units
    /\ installed \in BOOLEAN
    /\ program \in Sums \cup {None}
    /\ version \in Ids \cup {None}
    /\ clock \in Nat
    /\ lock \in Actors \cup {None}
    /\ op \in [Actors -> Op]
    /\ before \in [Actors -> Before]
    /\ started \in 0..MaxOps

-----------------------------------------------------------------------------
(* The inventory *)

Present(i) == rel[i].sum # None

Absent == [sum |-> None, staged |-> 0, ok |-> 0]

\* rollbackTarget: the most recently healthy release that is not live.
Candidates == {i \in Ids : Present(i) /\ i # current /\ rel[i].ok > 0}
RollbackTarget ==
    IF Candidates = {} THEN None
    ELSE CHOOSE i \in Candidates : \A j \in Candidates : rel[j].ok <= rel[i].ok

\* Mutant: only the live release is kept whatever its age.
PruneSetDropsTarget ==
    {i \in Ids : /\ Present(i)
                 /\ Cardinality({j \in Ids : Present(j) /\ rel[j].staged > rel[i].staged}) >= Retain
                 /\ i # current}

\* pruneSet: everything beyond the newest Retain, but for the live release
\* and the rollback target.
PruneSet ==
    {i \in Ids : /\ Present(i)
                 /\ Cardinality({j \in Ids : Present(j) /\ rel[j].staged > rel[i].staged}) >= Retain
                 /\ i \notin {current, RollbackTarget}}

\* What a unit's process is started from.
Launch ==
    IF installed THEN <<None, program, env>>
    ELSE IF current # None /\ Present(current)
           THEN <<current, rel[current].sum, env>> ELSE None

\* Every unit runs what it would be started from, and there is something.
Steady == Launch # None /\ env # None /\ \A u \in Units : proc[u] = Launch

HealthyUnits == \A u \in Units : proc[u] \in Works

-----------------------------------------------------------------------------
(* Steps of a command *)

Goto(o, l) == [o EXCEPT !.pc = l, !.unit = 1]
Finish(o, result) == [o EXCEPT !.pc = "idle", !.result = result]

Becomes(a, o) ==
    /\ op' = [op EXCEPT ![a] = o]
    /\ lock' = IF o.pc = "idle" /\ lock = a THEN None ELSE lock
    /\ UNCHANGED <<before, started>>

\* recover: back to the release before, or, with none, the units stopped;
\* with an installed program, to the env before, if there was a file.
Recover(o) ==
    IF (IF installed THEN ~o.had ELSE o.prev = None)
      THEN Goto(o, "stopunits") ELSE Goto([o EXCEPT !.back = TRUE], "revert")

\* Where a failing step leads.  A failed prune is a deploy's warning, and so
\* is an env.prev of an installed program that cannot be removed.
Failed(o) ==
    CASE o.pc \in {"restart", "health"} /\ ~o.back -> Recover(o)
      [] o.pc \in {"restart", "health", "revert"} /\ o.back -> Finish(o, "rollback_failed")
      [] o.pc = "markok" /\ installed -> Goto(o, "route")
      [] o.pc \in {"prunefind", "pruning"} /\ o.kind # "prune" -> Finish(o, "ok")
      [] OTHER -> Finish(o, "failed")

\* The replies of a script that has run.
Replies == {"ok"} \cup (Faults \cap {"lost"})

After(o, reply, next) == IF reply = "lost" THEN Failed(o) ELSE next

Entry(kind) ==
    CASE kind = "deploy" -> "preflight"
      [] kind = "reconcile" -> "inspect"
      [] kind \in {"rollback", "rollback_to"} -> "choose"
      [] kind = "prune" -> "prunefind"
      [] kind = "setup" -> "setup"
      [] kind \in {"remove", "purge"} -> "teardown"
      [] OTHER -> "each"

\* The scripts whose `cd` finds the install directory, and whose systemctl
\* finds the unit file and the sudo rule beside it.
Possible(o) ==
    /\ o.pc \in {"stage", "activate", "installenv", "revert", "pruning"} => env # None
    /\ o.pc \in {"restart", "each"} => o.unit \in files

\* The build and the pack come before; a command that finds the lock taken
\* changes nothing.  There is nothing to roll back or prune of an installed
\* program.
Begin(a) ==
    /\ op[a].pc = "idle"
    /\ started < MaxOps
    /\ \E k \in Kinds, i \in Ids \cup {None}, s \in Sums \cup {None},
          e \in Envs \cup {None} :
         /\ IF k \in Deploying THEN <<i, s, e>> \in Builds
            ELSE s = None /\ e = None /\ (i # None <=> k = "rollback_to")
         /\ installed => k \notin OfReleases
         /\ k \in Locked => lock = None
         /\ lock' = IF k \in Locked THEN a ELSE lock
         /\ op' = [op EXCEPT ![a] =
                     [kind |-> k, pc |-> Entry(k), id |-> i, sum |-> s, env |-> e,
                      prev |-> None, had |-> FALSE, unit |-> 1, back |-> FALSE, del |-> {},
                      result |-> "none"]]
    /\ started' = started + 1
    /\ before' = [before EXCEPT ![a] = [serial |-> started', current |-> current,
                                        env |-> env, proc |-> proc,
                                        steady |-> Steady]]
    /\ UNCHANGED host

\* The command's next script does not reach the host, or cannot begin there.
Fail(a) ==
    /\ Possible(op[a]) => "refused" \in Faults
    /\ op[a].pc \notin {"idle", "stopunits"}
    /\ Becomes(a, Failed(op[a]))
    /\ UNCHANGED host

\* qifa dies, and `qifa lock release` frees its lock.
Crash(a) ==
    /\ "crash" \in Faults
    /\ op[a].pc # "idle"
    /\ Becomes(a, Finish(op[a], "crashed"))
    /\ UNCHANGED host

-----------------------------------------------------------------------------
(* Deploy *)

\* Reconcile reads the inventory without the lock.  A unit whose process
\* crashes may still be seen active.
Inspect(a) ==
    LET o == op[a]
        same == IF installed THEN version = o.id
                ELSE current = o.id /\ rel[o.id].ok > 0
    IN  /\ o.pc = "inspect"
        /\ \/ /\ same /\ \A u \in Units : proc[u] # None
              /\ Becomes(a, Finish(o, "ok"))
           \/ /\ (~same \/ ~HealthyUnits)
              /\ IF lock = None
                   THEN /\ op' = [op EXCEPT ![a].pc = "preflight"]
                        /\ lock' = a
                        /\ UNCHANGED <<before, started>>
                   ELSE Becomes(a, Failed(o))
        /\ UNCHANGED host

\* checkHost, under the lock: `qifa setup` has been here.
Preflight(a) ==
    /\ op[a].pc = "preflight"
    /\ Becomes(a, IF env = None \/ files # Units THEN Failed(op[a])
                  ELSE Goto(op[a], IF installed THEN "installenv" ELSE "stage"))
    /\ UNCHANGED host

\* Mutant: a release that is live is staged again like any other.
CanReplaceAny(i) == TRUE

CanReplace(i) == i # current

\* stageScript: the same contents are reused; other contents under the id
\* replace it, unless it is live.  A bad archive is found out once the old
\* directory has gone.
Stage(a) ==
    LET o == op[a]
        now == clock + 1
    IN  /\ o.pc = "stage" /\ Possible(o)
        /\ \/ /\ Present(o.id) /\ rel[o.id].sum = o.sum
              /\ \E r \in Replies : Becomes(a, After(o, r, Goto(o, "activate")))
              /\ UNCHANGED <<rel, clock>>
           \/ /\ Present(o.id) /\ rel[o.id].sum # o.sum /\ ~CanReplace(o.id)
              /\ Becomes(a, Failed(o))
              /\ UNCHANGED <<rel, clock>>
           \/ /\ rel[o.id].sum # o.sum /\ (Present(o.id) => CanReplace(o.id))
              /\ rel' = [rel EXCEPT ![o.id] = [sum |-> o.sum, staged |-> now, ok |-> 0]]
              /\ clock' = now
              /\ \E r \in Replies : Becomes(a, After(o, r, Goto(o, "activate")))
           \/ /\ rel[o.id].sum # o.sum /\ (Present(o.id) => CanReplace(o.id))
              /\ rel' = [rel EXCEPT ![o.id] = Absent]
              /\ Becomes(a, Failed(o))
              /\ UNCHANGED clock
        /\ UNCHANGED <<current, env, envPrev, proc, place>>

\* activateScript: env to env.prev, the new env in place, then the link.
Activate(a) ==
    LET o == op[a]
    IN  /\ o.pc = "activate" /\ Possible(o)
        /\ envPrev' = env
        /\ \/ /\ env' = o.env
              /\ current' = o.id
              /\ \E r \in Replies :
                   Becomes(a, After(o, r, Goto([o EXCEPT !.prev = current], "restart")))
           \/ /\ "half" \in Faults
              /\ env' \in {env, o.env}
              /\ Becomes(a, Failed(o))
              /\ UNCHANGED current
        /\ UNCHANGED <<rel, proc, clock, place>>

\* Mutant: the loop runs one unit too far.
RestartUnitPastEnd(a) ==
    LET o == op[a]
    IN  /\ o.pc = "restart" /\ Possible(o)
        /\ proc' = [proc EXCEPT ![o.unit] = Launch]
        /\ Becomes(a, IF o.unit > NUnits THEN Goto(o, "health")
                      ELSE [o EXCEPT !.unit = @ + 1])
        /\ UNCHANGED <<rel, current, env, envPrev, clock, place>>

\* One unit of restartAndCheck's loop.
RestartUnit(a) ==
    LET o == op[a]
    IN  /\ o.pc = "restart" /\ Possible(o)
        /\ proc' = [proc EXCEPT ![o.unit] = Launch]
        /\ \E r \in Replies :
             Becomes(a, After(o, r, IF o.unit = NUnits THEN Goto(o, "health")
                                    ELSE [o EXCEPT !.unit = @ + 1]))
        /\ UNCHANGED <<rel, current, env, envPrev, clock, place>>

Healthy(a) ==
    /\ op[a].pc = "health"
    /\ HealthyUnits
    /\ Becomes(a, IF op[a].back THEN Finish(op[a], "restored")
                                ELSE Goto(op[a], "markok"))
    /\ UNCHANGED host

Unhealthy(a) ==
    /\ op[a].pc = "health"
    /\ ~HealthyUnits
    /\ Becomes(a, Failed(op[a]))
    /\ UNCHANGED host

\* revertScript: env.prev back in place if there is one, then the link.
Revert(a) ==
    LET o == op[a]
    IN  /\ o.pc = "revert" /\ Possible(o) /\ ~installed
        /\ env' = IF envPrev = None THEN env ELSE envPrev
        /\ envPrev' = None
        /\ \/ /\ current' = o.prev
              /\ \E r \in Replies : Becomes(a, After(o, r, Goto(o, "restart")))
           \/ /\ "half" \in Faults
              /\ Becomes(a, Failed(o))
              /\ UNCHANGED current
        /\ UNCHANGED <<rel, proc, clock, place>>

\* A first deploy that fails: errors of the stop are ignored.
StopUnit(a) ==
    LET o == op[a]
    IN  /\ o.pc = "stopunits"
        /\ \/ proc' = [proc EXCEPT ![o.unit] = None]
           \/ "refused" \in Faults /\ UNCHANGED proc
        /\ Becomes(a, IF o.unit = NUnits THEN Finish(o, "failed")
                      ELSE [o EXCEPT !.unit = @ + 1])
        /\ UNCHANGED <<rel, current, env, envPrev, clock, place>>

\* Mutant: the release is not marked.
MarkOKForgets(a) ==
    /\ op[a].pc = "markok" /\ ~installed
    /\ envPrev' = None
    /\ Becomes(a, IF op[a].kind \in Deploying THEN Goto(op[a], "route")
                                              ELSE Finish(op[a], "ok"))
    /\ UNCHANGED <<rel, current, env, proc, clock, place>>

\* markOKScript: `touch` needs the release's directory.  A rollback ends here.
MarkOK(a) ==
    LET o == op[a]
        now == clock + 1
    IN  /\ o.pc = "markok" /\ ~installed
        /\ \/ /\ Present(o.id)
              /\ rel' = [rel EXCEPT ![o.id].ok = now]
              /\ clock' = now
              /\ \/ /\ envPrev' = None
                    /\ \E r \in Replies :
                         Becomes(a, After(o, r, IF o.kind \in Deploying
                                                  THEN Goto(o, "route")
                                                  ELSE Finish(o, "ok")))
                 \/ /\ "half" \in Faults
                    /\ Becomes(a, Failed(o))
                    /\ UNCHANGED envPrev
           \/ /\ ~Present(o.id)
              /\ Becomes(a, Failed(o))
              /\ UNCHANGED <<rel, clock, envPrev>>
        /\ UNCHANGED <<current, env, proc, place>>

\* registerRoute names the host's own address, the same for every release.
Route(a) ==
    /\ op[a].pc = "route"
    /\ \E r \in Replies : Becomes(a, After(op[a], r, IF installed THEN Finish(op[a], "ok")
                                                       ELSE Goto(op[a], "prunefind")))
    /\ UNCHANGED host

\* prune, at the end of a deploy or as a command that takes no lock.
PruneFind(a) ==
    /\ op[a].pc = "prunefind"
    /\ Becomes(a, IF PruneSet = {} THEN Finish(op[a], "ok")
                  ELSE [op[a] EXCEPT !.pc = "pruning", !.del = PruneSet])
    /\ UNCHANGED host

Without(D) == [i \in Ids |-> IF i \in D THEN Absent ELSE rel[i]]

\* removeReleasesScript: one rm -rf after the other.
PruneRemove(a) ==
    LET o == op[a]
    IN  /\ o.pc = "pruning" /\ Possible(o)
        /\ \/ /\ rel' = Without(o.del)
              /\ \E r \in Replies : Becomes(a, After(o, r, Finish(o, "ok")))
           \/ /\ "half" \in Faults
              /\ \E D \in SUBSET o.del : rel' = Without(D)
              /\ Becomes(a, Failed(o))
        /\ UNCHANGED <<current, env, envPrev, proc, clock, place>>

-----------------------------------------------------------------------------
(* Deploy of an installed program *)

\* installEnvScript: env to env.prev, the new env in place, and the version.
\* It says whether there was a file; since setup makes one, there always was.
InstallEnv(a) ==
    LET o == op[a]
    IN  /\ o.pc = "installenv" /\ Possible(o)
        /\ envPrev' = env
        /\ \/ /\ env' = o.env
              /\ version' = o.id
              /\ \E r \in Replies :
                   Becomes(a, After(o, r, Goto([o EXCEPT !.had = env # None], "restart")))
           \/ /\ "half" \in Faults
              /\ env' \in {env, o.env}
              /\ Becomes(a, Failed(o))
              /\ UNCHANGED version
        /\ UNCHANGED <<rel, current, proc, clock, files, installed, program>>

\* revertEnvScript: etc/version stays what the failed deploy wrote.
RevertEnv(a) ==
    LET o == op[a]
    IN  /\ o.pc = "revert" /\ Possible(o) /\ installed
        /\ env' = IF envPrev = None THEN env ELSE envPrev
        /\ envPrev' = None
        /\ \E r \in Replies :
             Becomes(a, IF envPrev = None THEN Failed(o)
                        ELSE After(o, r, Goto(o, "restart")))
        /\ UNCHANGED <<rel, current, proc, clock, place>>

\* After the health check; a failure is a warning.
ForgetEnvPrev(a) ==
    LET o == op[a]
    IN  /\ o.pc = "markok" /\ installed
        /\ envPrev' = None
        /\ \E r \in Replies : Becomes(a, After(o, r, Goto(o, "route")))
        /\ UNCHANGED <<rel, current, env, proc, clock, place>>

\* Somebody puts another build of the program on the server.
Reinstall ==
    /\ installed
    /\ program' \in Sums \ {program}
    /\ UNCHANGED <<rel, current, env, envPrev, proc, clock, lock, op, before,
                   started, files, installed, version>>

-----------------------------------------------------------------------------
(* Setup and remove, which run as root and take no lock *)

\* setupScript: directories, an env file if there is none, and the unit files.
Setup(a) ==
    LET o == op[a]
    IN  /\ o.pc = "setup"
        /\ env' = IF env = None THEN Empty ELSE env
        /\ \/ /\ files' = Units
              /\ \E r \in Replies : Becomes(a, After(o, r, Finish(o, "ok")))
           \/ /\ "half" \in Faults
              /\ \E n \in 0..NUnits - 1 : files' = files \cup 1..n
              /\ Becomes(a, Failed(o))
        /\ UNCHANGED <<rel, current, envPrev, proc, clock, installed, program, version>>

\* The first n units are stopped and lose their files.
UnitsGone(n) ==
    /\ files' = files \ 1..n
    /\ proc' = [u \in Units |-> IF u <= n THEN None ELSE proc[u]]

\* teardownScript; with --purge the install directory goes last.
Teardown(a) ==
    LET o == op[a]
    IN  /\ o.pc = "teardown"
        /\ \/ /\ UnitsGone(NUnits)
              /\ IF o.kind = "purge"
                   THEN /\ rel' = [i \in Ids |-> Absent]
                        /\ current' = None /\ env' = None
                        /\ envPrev' = None /\ version' = None
                   ELSE UNCHANGED <<rel, current, env, envPrev, version>>
              /\ \E r \in Replies : Becomes(a, After(o, r, Finish(o, "ok")))
           \/ /\ "half" \in Faults
              /\ \E n \in 1..NUnits : UnitsGone(n)
              /\ Becomes(a, Failed(o))
              /\ UNCHANGED <<rel, current, env, envPrev, version>>
        /\ UNCHANGED <<clock, installed, program>>

-----------------------------------------------------------------------------
(* Rollback, and the commands on the units *)

Choose(a) ==
    LET o == op[a]
        target == IF o.kind = "rollback" THEN RollbackTarget ELSE o.id
    IN  /\ o.pc = "choose"
        /\ Becomes(a, IF target = None \/ ~(target \in Ids /\ Present(target))
                        THEN Failed(o)
                      ELSE IF target = current THEN Finish([o EXCEPT !.id = target], "ok")
                      ELSE Goto([o EXCEPT !.id = target], "switch"))
        /\ UNCHANGED host

\* Mutant: an env.prev left by an earlier deploy stays.
SwitchKeepsEnvPrev(a) ==
    LET o == op[a]
    IN  /\ o.pc = "switch"
        /\ Present(o.id)
        /\ current' = o.id
        /\ Becomes(a, Goto([o EXCEPT !.prev = current], "restart"))
        /\ UNCHANGED <<rel, env, envPrev, proc, clock, place>>

\* switchScript: no env changes, and none is there to go back to.
Switch(a) ==
    LET o == op[a]
    IN  /\ o.pc = "switch"
        /\ \/ /\ Present(o.id)
              /\ envPrev' = None
              /\ current' = o.id
              /\ \E r \in Replies :
                   Becomes(a, After(o, r, Goto([o EXCEPT !.prev = current], "restart")))
           \/ /\ Present(o.id) /\ "half" \in Faults
              /\ envPrev' = None
              /\ Becomes(a, Failed(o))
              /\ UNCHANGED current
           \/ /\ ~Present(o.id)
              /\ Becomes(a, Failed(o))
              /\ UNCHANGED <<envPrev, current>>
        /\ UNCHANGED <<rel, env, proc, clock, place>>

\* One unit of stop, start or restart, which take no lock.
EachUnit(a) ==
    LET o == op[a]
    IN  /\ o.pc = "each" /\ Possible(o)
        /\ proc' = [proc EXCEPT ![o.unit] =
                      CASE o.kind = "stop" -> None
                        [] o.kind = "start" -> IF @ = None THEN Launch ELSE @
                        [] OTHER -> Launch]
        /\ \E r \in Replies :
             Becomes(a, After(o, r, IF o.unit = NUnits THEN Finish(o, "ok")
                                    ELSE [o EXCEPT !.unit = @ + 1]))
        /\ UNCHANGED <<rel, current, env, envPrev, clock, place>>

-----------------------------------------------------------------------------

\* A host that has been set up, for a config of either kind.
Init ==
    /\ rel = [i \in Ids |-> Absent]
    /\ current = None /\ env = Empty /\ envPrev = None
    /\ files = Units /\ version = None
    /\ installed \in BOOLEAN
    /\ program \in IF installed THEN Sums ELSE {None}
    /\ proc = [u \in Units |-> None]
    /\ clock = 0
    /\ lock = None
    /\ op = [a \in Actors |->
               [kind |-> "none", pc |-> "idle", id |-> None, sum |-> None,
                env |-> None, prev |-> None, had |-> FALSE, unit |-> 1, back |-> FALSE,
                del |-> {}, result |-> "none"]]
    /\ before = [a \in Actors |->
                   [serial |-> 0, current |-> None, env |-> None,
                    proc |-> [u \in Units |-> None], steady |-> FALSE]]
    /\ started = 0

Step(a) ==
    \/ Inspect(a) \/ Preflight(a) \/ Stage(a) \/ Activate(a) \/ RestartUnit(a)
    \/ Healthy(a) \/ Unhealthy(a) \/ Revert(a) \/ StopUnit(a) \/ MarkOK(a)
    \/ Route(a) \/ PruneFind(a) \/ PruneRemove(a) \/ Choose(a) \/ Switch(a)
    \/ InstallEnv(a) \/ RevertEnv(a) \/ ForgetEnvPrev(a)
    \/ Setup(a) \/ Teardown(a) \/ EachUnit(a) \/ Fail(a) \/ Crash(a)

Next == (\E a \in Actors : Begin(a) \/ Step(a)) \/ Reinstall

Spec == Init /\ [][Next]_vars

-----------------------------------------------------------------------------
(* Properties *)

\* a's command is over and nothing has begun since.
Ended(a) == op[a].pc = "idle" /\ before[a].serial = started

\* "(the program itself is whatever is installed)"
AsBefore(a) ==
    /\ current = before[a].current
    /\ env = before[a].env
    /\ \A u \in Units :
         \/ proc[u] = before[a].proc[u]
         \/ installed /\ proc[u] # None /\ proc[u][3] = env

\* "On a host whose new release fails to start or to pass its health check,
\* the previous release is restored": what says it restored has put release,
\* env and processes back together, for deploy and rollback, and whatever
\* earlier commands left half done.
RestoredIsAsBefore ==
    \A a \in Actors :
        Ended(a) /\ op[a].result = "restored" /\ before[a].steady => AsBefore(a)

\* A deploy or rollback that reports success has every unit running the
\* release that is live and marked healthy, or, installed, a build of the
\* program that was there, with the env that is installed.
OkIsLive ==
    \A a \in Actors :
        /\ Ended(a) /\ op[a].result = "ok"
        /\ op[a].kind \in Locked
        /\ op[a].kind = "deploy" \/ op[a].id # before[a].current
        => /\ IF installed THEN version = op[a].id /\ env = op[a].env
                           ELSE current = op[a].id /\ rel[current].ok > 0
           /\ \A u \in Units : /\ proc[u] \in Works
                                /\ proc[u][3] = env
                                /\ ~installed => proc[u] = Launch

\* "If the program does not come back healthy, [...] on a first deploy, it is
\* stopped": the first command of a host, when it is a deploy of an installed
\* program that fails, leaves no unit running.  It does not hold: the env file
\* that setup made is taken for a previous deploy's.
FirstFailureStops ==
    \A a \in Actors :
        /\ Ended(a) /\ installed /\ op[a].kind = "deploy"
        /\ before[a].serial = 1 /\ op[a].result # "ok"
        => \A u \in Units : proc[u] = None

\* The release `current` points at is on disk.
LiveIsPresent == current # None => Present(current)

\* Pruning spares the release a rollback would go to, however old.
PruneSparesTarget ==
    [][\A a \in Actors : op[a].pc = "pruning" => RollbackTarget' = RollbackTarget]_vars
=============================================================================
