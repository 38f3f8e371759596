---------------------------- MODULE FleetRollout ----------------------------
(***************************************************************************)
(* One deploy or rollback over all roles and hosts (internal/fleet,        *)
(* internal/state, and Deploy and Rollback of both backends): the roles in *)
(* order, each role's hosts in batches, a batch's hosts in parallel, and   *)
(* what the audit log says of it.                                          *)
(*                                                                         *)
(* A place <<r, i>> is the i-th host of the r-th role; the native backend  *)
(* walks one list, of all its hosts.  What happens on a place is           *)
(* ContainerRollout's and NativeRelease's, and is here one step that       *)
(* begins and one that ends: the service there may be down in between, and *)
(* a place that fails may be left on either version, up or down, or, in    *)
(* Docker, with a newer container running that serves nothing.  The next   *)
(* deploy's sweep takes that one for the active one, and removes the one   *)
(* that serves.  Runs hold the lock of DeployLock and follow one another.  *)
(***************************************************************************)
EXTENDS Integers, Sequences

CONSTANTS
    Versions,
    Modes,          \* the backends: a subset of {"docker", "native"}
    Lengths,        \* backend -> how many hosts each list has, in order
    BatchSizes,     \* backend -> what rollout.batch_size may be
    Faults,         \* a subset of {"host", "early", "append", "cancel", "crash"}
    MaxRuns,        \* bound: how many runs begin in all
    None

ASSUME FleetAssumption ==
    /\ None \notin Versions
    /\ Modes \subseteq {"docker", "native"}
    /\ Lengths \in [Modes -> Seq(Nat)]
    /\ BatchSizes \in [Modes -> SUBSET Int]
    /\ Faults \subseteq {"host", "early", "append", "cancel", "crash"}
    /\ MaxRuns \in Nat

VARIABLES
    at,         \* place -> the version there
    up,         \* place -> whether it serves
    has,        \* place -> the versions there are to go back to
    stray,      \* place -> the version of a newer container that only runs
    status,     \* run -> its last status in the audit log, as Snapshot reads it
    run,        \* the run in progress, or the last one
    runs,       \* how many runs have begun; the last one's id
    mode, batch \* the config: the backend, and rollout.batch_size

vars == <<at, up, has, stray, status, run, runs, mode, batch>>

Lists == Lengths[mode]
Places == UNION {{<<r, i>> : i \in 1..Lists[r]} : r \in 1..Len(Lists)}

Statuses == {"none", "Pending", "Starting", "Succeeded", "Failed", "RolledBack"}

PCs == {"idle", "find", "open", "hook", "sweep", "prepare", "roll", "batch", "close", "post"}

Run == [kind : {"none", "deploy", "rollback"}, version : Versions \cup {None},
        pc : PCs, role : Nat, from : Nat, busy : SUBSET Places,
        changing : SUBSET Places, errs : BOOLEAN, sound : BOOLEAN,
        swept : SUBSET Places,
        result : {"none", "ok", "failed", "crashed"}]

TypeOK ==
    /\ mode \in Modes /\ batch \in BatchSizes[mode]
    /\ at \in [Places -> Versions \cup {None}]
    /\ up \in [Places -> BOOLEAN]
    /\ has \in [Places -> SUBSET Versions]
    /\ stray \in [Places -> Versions \cup {None}]
    /\ status \in [1..MaxRuns -> Statuses]
    /\ run \in Run
    /\ runs \in 0..MaxRuns

-----------------------------------------------------------------------------

\* Mutant: batch_size is taken as it is.
SizeUnclamped(r) == IF batch > Lists[r] THEN Lists[r] ELSE batch

\* Batches' size: 0 or less is all of the hosts at once.  A Docker rollback
\* takes them one by one.
Size(r) ==
    IF mode = "docker" /\ run.kind = "rollback" THEN 1
    ELSE IF batch <= 0 \/ batch > Lists[r] THEN Lists[r] ELSE batch

\* Mutant: the last batch is sliced as long as the others.
BatchPastEnd == {<<run.role, run.from + k>> : k \in 1..Size(run.role)}

\* The hosts of the batch that begins at run.from.
Batch == {p \in Places : p[1] = run.role /\ run.from < p[2] /\ p[2] <= run.from + Size(run.role)}

Records(s) == status' = [status EXCEPT ![runs] = s]

\* "Starting" stands for every status between Pending and the end: Building,
\* Pushing, Pulling, Starting, HealthChecking, SwitchingTraffic.  A Docker run
\* records them as it goes, as far as it comes.
Progress ==
    \/ mode = "docker" /\ Records("Starting")
    \/ UNCHANGED status

places == <<at, up, has, stray>>
config == <<runs, mode, batch>>

Ends(result) == run' = [run EXCEPT !.pc = "idle", !.result = result]
Goes(l) == run' = [run EXCEPT !.pc = l]

\* Audit.Fail, whose own error is dropped.
RecordsFailure ==
    /\ \/ Records("Failed")
       \/ "append" \in Faults /\ UNCHANGED status
    /\ Ends("failed")

-----------------------------------------------------------------------------
(* Before any host changes *)

Begin ==
    /\ run.pc = "idle" /\ runs < MaxRuns
    /\ \E k \in {"deploy", "rollback"}, v \in Versions \cup {None} :
         /\ v = None => k = "rollback"
         /\ run' = [kind |-> k, version |-> v,
                    pc |-> IF k = "deploy" THEN "open" ELSE "find",
                    role |-> 1, from |-> 0, busy |-> {}, changing |-> {},
                    errs |-> FALSE, sound |-> \A p \in Places : up[p],
                    swept |-> {}, result |-> "none"]
    /\ runs' = runs + 1
    /\ UNCHANGED <<places, status, mode, batch>>

\* Where a rollback looks for a version to choose: the native one at the first
\* host.  Which of these it takes is the other modules' concern.
Targets ==
    IF run.version # None THEN {run.version}
    ELSE UNION {has[p] : p \in IF mode = "docker" THEN Places
                               ELSE {q \in Places : q = <<1, 1>>}}

\* A version chosen by Docker's plain rollback need not be on every host; any
\* other has to be.
Find ==
    /\ run.pc = "find"
    /\ \/ \E v \in Targets :
            IF (mode = "docker" /\ run.version = None) \/ \A p \in Places : v \in has[p]
              THEN run' = [run EXCEPT !.version = v, !.pc = "open"]
              ELSE Ends("failed")
       \/ (Targets = {} \/ "early" \in Faults) /\ Ends("failed")
    /\ UNCHANGED <<places, status, config>>

\* The run's first record.
Open ==
    /\ run.pc = "open"
    /\ \/ /\ Records(IF run.kind = "deploy" THEN "Pending"
                     ELSE IF mode = "docker" THEN "RolledBack" ELSE "Starting")
          /\ Goes(IF mode = "docker" THEN "hook"
                  ELSE IF run.kind = "deploy" THEN "prepare" ELSE "roll")
       \/ "append" \in Faults /\ Ends("failed") /\ UNCHANGED status
    /\ UNCHANGED <<places, config>>

\* Docker: pre_build, or the env of a rollback; a failure is not recorded.
Hook ==
    /\ run.pc = "hook"
    /\ \/ Goes(IF run.kind = "deploy" THEN "sweep" ELSE "roll")
       \/ "early" \in Faults /\ Ends("failed")
    /\ UNCHANGED <<places, status, config>>

\* Mutant: sawActive is set once for the whole walk.
SweepSawActiveOnce ==
    /\ run.pc = "sweep"
    /\ LET gone == {p \in Places : up[p] /\ p # <<1, 1>>}
       IN  /\ at' = [p \in Places |-> IF p \in gone THEN stray[p] ELSE at[p]]
           /\ up' = [p \in Places |-> up[p] /\ p \notin gone]
           /\ stray' = [p \in Places |-> IF p \in gone THEN None ELSE stray[p]]
    /\ Goes("prepare")
    /\ UNCHANGED <<has, status, config>>

\* Docker: the files, and SweepStaleContainers over every role's hosts.  Of the
\* running containers of a place it keeps the newest; a removal may fail behind
\* docker's back, and an error ends the run with the hosts before it swept.
Sweep ==
    /\ run.pc = "sweep"
    /\ \E gone \in SUBSET {p \in Places : stray[p] # None} :
         /\ at' = [p \in Places |-> IF p \in gone THEN stray[p] ELSE at[p]]
         /\ up' = [p \in Places |-> up[p] /\ p \notin gone]
         /\ has' = [p \in Places |-> IF p \in gone THEN has[p] \ {at[p]} ELSE has[p]]
         /\ stray' = [p \in Places |-> IF p \in gone THEN None ELSE stray[p]]
         /\ \/ /\ "host" \in Faults \/ gone = {p \in Places : stray[p] # None}
               /\ run' = [run EXCEPT !.pc = "prepare", !.swept = gone]
               /\ UNCHANGED status
            \/ /\ "early" \in Faults
               /\ run' = [run EXCEPT !.pc = "idle", !.swept = gone, !.result = "failed"]
               /\ Records("Failed") \/ ("append" \in Faults /\ UNCHANGED status)
    /\ UNCHANGED config

\* Docker: the image and the env.
Prepare ==
    /\ run.pc = "prepare" /\ mode = "docker"
    /\ \/ Progress /\ Goes("roll")
       \/ "early" \in Faults /\ RecordsFailure
       \/ "append" \in Faults /\ Ends("failed") /\ UNCHANGED status
    /\ UNCHANGED <<places, config>>

\* Native: every host is checked, and gets its files, before any changes.
Preflight ==
    /\ run.pc = "prepare" /\ mode = "native"
    /\ \/ Records("Starting") /\ Goes("roll")
       \/ "early" \in Faults /\ RecordsFailure
       \/ "append" \in Faults /\ Ends("failed") /\ UNCHANGED status
    /\ UNCHANGED <<places, config>>

-----------------------------------------------------------------------------
(* The rollout *)

Failing == IF mode = "native" \/ run.kind = "deploy" THEN RecordsFailure
           ELSE Ends("failed") /\ UNCHANGED status

\* The next batch, the next list, or the end; a wait between two batches may
\* be interrupted.
NextBatch ==
    /\ run.pc = "roll"
    /\ \/ /\ run.role <= Len(Lists) /\ run.from < Lists[run.role]
          /\ run' = [run EXCEPT !.pc = "batch", !.busy = Batch, !.errs = FALSE]
          /\ UNCHANGED status
       \/ /\ run.role <= Len(Lists) /\ run.from >= Lists[run.role]
          /\ run' = [run EXCEPT !.role = @ + 1, !.from = 0]
          /\ UNCHANGED status
       \/ /\ run.role > Len(Lists)
          /\ Goes("close")
          /\ UNCHANGED status
       \/ /\ "cancel" \in Faults /\ run.role <= Len(Lists)
          /\ mode = "native" \/ run.kind = "deploy"
          /\ 0 < run.from /\ run.from < Lists[run.role]
          /\ RecordsFailure
    /\ UNCHANGED <<places, config>>

\* A native rollback passes over a host where the release is live already.
HostSkip(p) ==
    /\ p \in run.busy \ run.changing
    /\ mode = "native" /\ run.kind = "rollback" /\ at[p] = run.version
    /\ run' = [run EXCEPT !.busy = @ \ {p}]
    /\ UNCHANGED <<places, status, config>>

HostBegin(p) ==
    /\ p \in run.busy \ run.changing
    /\ ~(mode = "native" /\ run.kind = "rollback" /\ at[p] = run.version)
    /\ run' = [run EXCEPT !.changing = @ \cup {p}]
    /\ \E b \in {up[p], FALSE} : up' = [up EXCEPT ![p] = b]
    /\ Progress
    /\ UNCHANGED <<at, has, stray, config>>

HostOk(p) ==
    /\ p \in run.changing
    /\ run' = [run EXCEPT !.busy = @ \ {p}, !.changing = @ \ {p}]
    /\ at' = [at EXCEPT ![p] = run.version]
    /\ up' = [up EXCEPT ![p] = TRUE]
    /\ has' = [has EXCEPT ![p] = @ \cup {run.version}]
    /\ stray' = [stray EXCEPT ![p] = None]
    /\ IF mode = "docker" THEN Records("Starting") ELSE UNCHANGED status
    /\ UNCHANGED config

\* What an unfinished rollout leaves in front of what serves at p: what was
\* there, its own container, or nothing.
Strays(p) == IF mode = "docker" THEN {stray[p], run.version, None} ELSE {None}

\* At whatever point it fails, and whether or not its recovery succeeds.
HostFails(p) ==
    /\ "host" \in Faults
    /\ p \in run.changing
    /\ run' = [run EXCEPT !.busy = @ \ {p}, !.changing = @ \ {p}, !.errs = TRUE]
    /\ \E v \in {at[p], run.version}, b \in BOOLEAN :
         /\ b => v # None
         /\ at' = [at EXCEPT ![p] = v]
         /\ up' = [up EXCEPT ![p] = b]
         /\ \E w \in IF b /\ v = at[p] THEN Strays(p) ELSE {None} :
              stray' = [stray EXCEPT ![p] = w]
    /\ \E s \in {{}, {run.version}} : has' = [has EXCEPT ![p] = @ \cup s]
    /\ Progress
    /\ UNCHANGED config

\* Mutant: the first failure ends the batch.
BatchFailsFast ==
    /\ run.pc = "batch"
    /\ IF run.errs THEN Failing
       ELSE /\ run.busy = {}
            /\ run' = [run EXCEPT !.pc = "roll", !.from = @ + Size(run.role)]
            /\ UNCHANGED status
    /\ UNCHANGED <<places, config>>

\* Mutant: the failures of a batch are told at the end.
BatchGoesOn ==
    /\ run.pc = "batch" /\ run.busy = {}
    /\ run' = [run EXCEPT !.pc = "roll", !.from = @ + Size(run.role)]
    /\ UNCHANGED <<places, status, config>>

\* wg.Wait: all of the batch is over.
BatchDone ==
    /\ run.pc = "batch" /\ run.busy = {}
    /\ IF run.errs THEN Failing
       ELSE /\ run' = [run EXCEPT !.pc = "roll", !.from = @ + Size(run.role)]
            /\ UNCHANGED status
    /\ UNCHANGED <<places, config>>

-----------------------------------------------------------------------------
(* Afterwards *)

Close ==
    /\ run.pc = "close"
    /\ \/ /\ Records(IF run.kind = "deploy" THEN "Succeeded" ELSE "RolledBack")
          /\ IF run.kind = "deploy" THEN Goes("post") ELSE Ends("ok")
       \/ "append" \in Faults /\ Ends("failed") /\ UNCHANGED status
    /\ UNCHANGED <<places, config>>

\* post_deploy; the prune that follows only warns.
Post ==
    /\ run.pc = "post"
    /\ Ends("ok") \/ ("early" \in Faults /\ Ends("failed"))
    /\ UNCHANGED <<places, status, config>>

\* qifa dies, whatever its hosts have come to; the operator clears its lock.
Crash ==
    /\ "crash" \in Faults
    /\ run.pc # "idle"
    /\ \E moved \in SUBSET run.changing, serving \in SUBSET run.changing :
         /\ at' = [p \in Places |-> IF p \in moved THEN run.version ELSE at[p]]
         /\ up' = [p \in Places |-> up[p] \/ (p \in serving /\ at'[p] # None)]
         /\ has' = [p \in Places |->
                      has[p] \cup (IF p \in moved THEN {run.version} ELSE {})]
         /\ \E left \in [run.changing -> Versions \cup {None}] :
              /\ \A p \in run.changing :
                   left[p] \in IF p \notin moved /\ up'[p] THEN Strays(p) ELSE {None}
              /\ stray' = [p \in Places |->
                            IF p \in run.changing THEN left[p] ELSE stray[p]]
    /\ run' = [run EXCEPT !.pc = "idle", !.result = "crashed",
                          !.busy = {}, !.changing = {}]
    /\ UNCHANGED <<status, config>>

-----------------------------------------------------------------------------

\* New hosts, or a service that has been deployed before.
Init ==
    /\ mode \in Modes /\ batch \in BatchSizes[mode]
    /\ \E v \in Versions \cup {None} :
         /\ at = [p \in Places |-> v]
         /\ up = [p \in Places |-> v # None]
         /\ has = [p \in Places |-> IF v = None THEN {} ELSE Versions]
    /\ stray = [p \in Places |-> None]
    /\ status = [i \in 1..MaxRuns |-> "none"]
    /\ run = [kind |-> "none", version |-> None, pc |-> "idle", role |-> 1,
              from |-> 0, busy |-> {}, changing |-> {}, errs |-> FALSE,
              sound |-> FALSE, swept |-> {}, result |-> "none"]
    /\ runs = 0

Host(p) == HostSkip(p) \/ HostBegin(p) \/ HostOk(p) \/ HostFails(p)

Step ==
    \/ Find \/ Open \/ Hook \/ Sweep \/ Prepare \/ Preflight
    \/ NextBatch \/ BatchDone
    \/ \E p \in Places : Host(p)
    \/ Close \/ Post

Next == Begin \/ Step \/ Crash

Spec == Init /\ [][Next]_vars

\* A run goes on: its commands, hooks and health checks return or time out.
FairSpec == Spec /\ WF_vars(Step)

-----------------------------------------------------------------------------
(* Properties *)

\* A rollout that begins with every place serving takes no more of them down
\* than one batch, failures and crashes included: any two places that are down
\* are of one role and less than a batch apart.  Only the places where its
\* sweep met what an earlier run had left are down besides.
OneBatchDown ==
    run.sound =>
        \A p, q \in Places \ run.swept :
            ~up[p] /\ ~up[q] => p[1] = q[1] /\ p[2] - q[2] < Size(p[1])

\* "Succeeded" in the log means that every host of every role runs the version
\* and serves it, and that the next deploy's sweep will take none of them down;
\* "RolledBack" of a native rollback, that they run it.
LogTellsSuccess ==
    runs > 0 =>
        /\ status[runs] = "Succeeded" =>
             \A p \in Places : at[p] = run.version /\ up[p] /\ stray[p] = None
        /\ mode = "native" /\ status[runs] = "RolledBack" =>
             \A p \in Places : at[p] = run.version

\* A run that is over has no host still changing, so that its lock is not
\* released under one.
EndedIsQuiet == run.pc = "idle" => run.busy = {}

\* On any host failure the remaining batches are skipped: a place begins only
\* when all that are a batch or more before it, and all of the roles before,
\* have the version.
BatchesInOrder ==
    [][\A p \in Places : p \in run'.changing \ run.changing =>
          \A q \in Places :
              q[1] < p[1] \/ (q[1] = p[1] /\ q[2] + Size(p[1]) <= p[2])
              => at[q] = run.version]_vars

\* What the log says at the end it goes on saying: no host of a run records
\* anything after its Succeeded or Failed.
TerminalIsLast ==
    [][\A i \in 1..MaxRuns :
          status[i] \in {"Succeeded", "Failed"} => status'[i] = status[i]]_vars

\* Every run comes to an end, whatever batch_size is and whichever hosts fail.
RunEnds == run.pc # "idle" ~> run.pc = "idle"
=============================================================================
