# qifa: TLA+ models and proofs

qifa deploys an application to one or more servers over SSH: as containers
behind kamal-proxy (the Docker backend) or as release directories run by
systemd or launchd (the native backend). There is no agent on a server: every
state change is a shell command sent by a `qifa` process on somebody's machine,
and that process, its connection or the server may fail between any two of
them. The modules here model what those sequences of commands do to a host.

## The system

| Part (source) | State it keeps | Operations | What is hard | What makes it correct |
|---|---|---|---|---|
| Deploy lock (`internal/lock/lock.go`) | a directory and a `holder.json` per host; in memory, `held` | `Acquire`, `Release`, `ForceRelease`, `Status` | contenders, a failure on the n-th host, a lost reply, a dead holder | one holder; it is named; losers and winners clean up or say so; nobody waits |
| Docker deployer (`internal/deploy`) | a role's containers on a host, kamal-proxy's route | `Deploy`, `Rollback`, `Reconcile`, sweep, prune, stop, start, restart, remove, `ReregisterProxy` | failures between run, health check, switch and cleanup; unlocked commands beside a deploy; names reused | no downtime; success means the version runs alone and routed; the rollback target survives |
| Native deployer (`internal/native`) | release directories and their `.qifa-ok`, `current`, `etc/env`, `etc/env.prev`, processes | deploy, rollback, reconcile, prune, stop, start, restart | two files and a link that must change together; half executed scripts; interrupted deploys | what says "restored" is; success means healthy and marked; prune spares what is needed |
| Fleet (`internal/fleet`) | the batches, the audit log | `Batches`, `Audit`, the order of hosts | hosts of a batch in parallel; one failing | a failing batch stops the rest; each host's result is recorded once |
| State log (`internal/state`) | an append-only log of deployments | append, `Snapshot`, `LatestSuccessful` | a run that dies; concurrent appends | what the log says last is what happened |
| Images (`internal/deploy`, `internal/docker`, `internal/dockererr`) | the tag in the registry, on the build machine and on each host; the contents a host has | resolve, build, push, pull with retries, digest | a tag moves between two commands; a transfer outlives its connection and ends late | all hosts run one content, the one that was asked for |
| Backup and restore (`deploy.go:1028`) | the artifact, the staged copies on the host, the backup directory | `Backup`, retention, `Restore` | kills, failed downloads, a command that goes on without its `qifa` | what is reported is there, one is always kept, a restore brings it back |
| Docker client (`internal/docker`) | none of its own | run, stop, rm, list, build, pull, push | docker's errors behind `\|\| true` | what its callers promise |
| kamal-proxy driver (`internal/proxy`) | the proxy's container and its volume of routes and certificates | deploy, remove, boot, start, stop, upgrade, purge, maintenance | a registration that fails leaves the old route; a restart reads the volume again | the route points at something that answers; an upgrade upgrades |
| Certificates (`internal/cert`, `internal/app/cert.go`) | files per domain; the provider's credentials in `/dev/shm` while lego runs | issue, renew, renew all, remove, re-register | one certificate of several failing; a kill with credentials on the host; a registration that fails | what was renewed is served or reported; no certificate shrinks or is skipped; credentials go |
| Installed programs (`internal/native/installed.go`) | env, a version file | deploy, revert | the program is replaced by others; the first deploy is told from later ones by a file | a revert restores the env that ran |
| Setup and remove (`internal/native/setup.go`) | directories, the env file, unit files | setup, preflight, teardown | half executed, as root, beside nothing else | a deploy does not begin without them |
| Configuration, CLI, hooks, secrets, registry login, doctor, logs | none that outlives a run | parse, dispatch, report | | |

The deployers call the lock around deploy and rollback (`deploy.go:82`,
`native.go:168`), and the docker client, the proxy driver and the native scripts
for every step; `reconcile` looks without the lock and then calls the deploy.
Stop, start, restart, prune, remove, sweep, backup, restore and everything about
certificates never take the lock. That is where the interleavings come from.

## Modules

| Module | Models |
|---|---|
| `ServiceLock` | the abstract promise of the lock: whose stands, who is at work under it |
| `DeployLock` | `internal/lock/lock.go`, one remote command per action |
| `DeployLockProofs` | theorems about `DeployLock` |
| `ContainerRollout` | one role on one host of the Docker backend |
| `ContainerRolloutProofs` | theorems about `ContainerRollout` |
| `NativeRelease` | one host of the native backend, with releases or an installed program |
| `NativeReleaseProofs` | theorems about `NativeRelease` |
| `FleetRollout` | one deploy or rollback over all roles and hosts, either backend, and its record in the log |
| `FleetRolloutProofs` | theorems about `FleetRollout` |
| `ImageFlow` | which image a deploy or reconcile ends up running, over all hosts |
| `ImageFlowProofs` | theorems about `ImageFlow` |
| `KamalProxy` | the kamal-proxy container of one host, its routes and certificates |
| `CertRenewal` | the certificate commands beside those that manage apps and the proxy; extends `KamalProxy` |
| `CertRenewalProofs` | theorems about `CertRenewal` |
| `BackupRestore` | backup, retention and restore |
| `BackupRestoreProofs` | theorems about `BackupRestore` |
| `LeastNumber` | a set of natural numbers has a least member: a lemma of three proof modules |
| `MCDeployLock`, `MCContainerRollout`, `MCNativeRelease`, `MCFleetRollout`, `MCImageFlow`, `MCCertRenewal` | the instances TLC checks |

**DeployLock.** `dir[h]` is whose `mkdir` made the lock directory of host `h`
and `holder[h]` whom its `holder.json` names; `held[d]` and `released[d]` are
how far `Acquire`'s and `Release`'s loops have come through the deployer's host
list; `warned[d]` is what Release's error names. `MkdirOk`, `MkdirFails`,
`UploadOk`, `UploadFails`, `ReleaseOk` and `ReleaseFails` are the commands and
how each may end; a failing action keeps whatever the command did before its
reply was lost. `ForceStart` and `ForceRelease` are `qifa lock release`. The
code never asks whether a lock is stale; `ForcePolicy` says when the operator
begins one: "never", "quiet" (while no `qifa` runs, though deploys may start beside
his loop) or "any". It is implemented against `ServiceLock`, where `owners` are
those whose lock stands, dead or alive, and `clearing` is whether somebody is running
an `rm` against a lock: without that, a lock once taken never goes.

**ContainerRollout.** `containers[n]` is the container of name `n`, if it is there, and
its `at` the place in the order of creation, which is the order of
`ListContainersByService` and of every choice in the code: the newest live container
(`Newest(Live)`) is "the running one" (`findRunningContainerInfo`), the rest are swept.
A container has a version, one of two names (`containerName`, `alternateName`),
a docker state, and whether its app answers (`good`), settled when it is run.
`op[a]` is an invocation: its command, its program counter, and the local
variables it carries from one remote command to the next (`prev`, `name`,
`same`, and in `todo` the names a loop has listed, with their places). `role` is what
the config makes of the role: proxied, proxied with extra ports, with a published port,
or internal; it decides between an overlapping rollout and one that stops the old
container first. `before` and `last` are history for the properties.

**NativeRelease.** `rel` has for each release directory the contents in it, when
it was staged and when it last passed; `current`, `env` and `envPrev` are the
link and the two env files; a unit's process is what it was started from:
release, contents, env. `Works` says which of these pass a health check. A step
is one script of `scripts.go`, which may not arrive, arrive with its answer
lost, or, where it has several effects, stop half way (a switch that has removed `etc/env.prev` and not
yet moved the link, a prune that has removed some of its releases); the `rm -rf` of one
directory is not cut in two. `installed` is a config
without `native.artifact`: its deploys are `InstallEnv`, the same restart and health
check, `RevertEnv` and `ForgetEnvPrev`, and `Reinstall` is somebody else putting
another build of the program on the server at any moment. `Setup` and `Teardown` are
`setupScript` and `teardownScript`, `files` the unit files they write and remove, and
`env = None` a host without install directory; `Possible` is what of these a script
needs before it can begin, and `Preflight` what `checkHost` asks for.

**FleetRollout.** A place `<<r, i>>` is the i-th host of the r-th role in the order
of `OrderedRoles`; the native backend walks one list. `run` is the run in progress:
`role` and `from` are where `Deploy`'s loop and `Batches`' loop have come to, `busy`
are the goroutines of the batch that have not returned, `changing` those that have
begun to change their host, `errs` whether one has failed. `status` is the last
status of each deployment in the audit log, which is what `Snapshot` returns; the
ids of deployments are taken to differ. What happens on one host is the other two
modules' subject and is here `HostBegin` and then `HostOk` or `HostFails`, which may
leave either version there, up or down, and for Docker a newer container in front of
the one that serves (`stray`). `Sweep` is `SweepStaleContainers` over every host of every
role, before the first batch: it removes what serves behind a stray, and `run.swept` is
where it did. `Prepare` (the image and env) and `Preflight` (native) leave the hosts as
they were. The other actions before and after the rollout are those steps of `Deploy` and `Rollback` that write to the log or return: which
failures go through `Audit.Fail` and which do not is the difference between
`RecordsFailure` and `Ends("failed")`. The lock is `DeployLock`'s and here taken as
held, so runs follow one another; after a crash the operator has cleared it.

**ImageFlow.** One tag, and what it names in each place: `reg` the registry, `built`
the build machine, `tag[h]` a host; `has[h]` is what a host has by digest. A content is
the revision it was built from, `newest` what a build takes now. `conf.source` is where
images come from: the registry, loaded by CI (`source: local`), or built by qifa, here,
on a builder host, in one step for several platforms, or on each target. `ResolveImage`
to `FindDrift` run before the lock, `LocalBuild` to `RunContainer` under it. A build,
pull or push over a connection that broke may go on: it is in `late` and
`LateArrives` ends it at any later time. `Commit` and `Load` are the world's. A failing
`RunContainer` leaves the host without a container, which is the worst of what
`ContainerRollout` allows.

**KamalProxy, CertRenewal.** `KamalProxy` is the container (`proxy`, `image`), the image
the host has (`local`) and the volume: `store` for the certificates and `served` for
the one each app's route has loaded. What kamal-proxy does is external: it
loads a certificate when a route is deployed or when it starts, not in between. Each of its
operators is one remote command of `internal/proxy`. `CertRenewal` has the
invocations: `ListCerts` to `ReadBack` are `RenewAll`'s loop, once round for the other
commands (`pushEnv`, lego, the permissions, the deferred cleanup, `certChanged`);
`FindRunning` and `Register` are `ReregisterProxy`; the rest are `issue`, `remove`,
`start`, `stop` and the `proxy` commands. lego is two steps: `StartLego` reads the
certificate and decides whether it is due, and `EndLego` writes, minutes later, over
whatever is there by then. An order whose connection or `qifa` is gone is in `late`, and
`LateLego` ends it. `newest[b]` is the state of an app's newest container, which docker
may have restarting (`Flap`): `start` and `stop` take that for running, `ReregisterProxy`
does not, and skips the app without an error. Commands before a `|| true` may come back
well and have done nothing (`HiddenOutcomes`); `stuck` says so of an upgrade's `docker rm`.
`creds` are the credential files on the host and `cut` those whose own command was lost,
refused or killed.

**BackupRestore.** `data` is a revision of the service's data; a file holds the revision
it was written from, or is `Torn` when no single command wrote it from start to end.
`writers` are the backup commands still running, whether their `qifa` lives or not;
`staged[s]` is the copy in the host's `/tmp`; `dir[n]` is the backup directory's file of
that name, its content and its time, by which `pruneBackups` goes. `CreateFile` and
`Download` are two steps: a kill between them leaves a partial file. `incoming` is what a
restore puts where its command reads.

All of them leave out text: command lines, formats, log output, the configuration
file. Times are ranks. A command that only reads and decides nothing has no step.

Some assumptions are the models' own. Nonces and stamps differ: two invocations do not
begin a backup in the same second, no two containers of a role are created in the same
second, and two deployments do not share an id. A version
does not itself end in `-r`, the suffix of the alternate name (`deploy.go:475`).
Backup has one host; its restore command replaces the data in one step or fails with
the data as it was or half done. A digest names one content for ever.

## Runs

Bounds are the sets in each `.cfg` and `MaxOps`, the number of commands begun in
all. Every run stops when its commands are used up, so deadlock is not checked.

| Run | Question | Instance | Outcome |
|---|---|---|---|
| `LockFaults` | Is the lock exclusive, honest and non-blocking when anything may fail? | 3 deployers, 2 hosts, one config with the hosts swapped; refused, lost, crash | holds |
| `LockContention` | Does one contender win, do losers leave nothing, and is it one lock for the service? | 4 deployers, same list, crashes, an operator who begins to clear while no `qifa` runs | holds |
| `RolloutAlone` | Whatever sequence of commands came before, do deploy and rollback keep their promises? | 1 invocation at a time, 3 versions, 4 kinds of role, all 11 commands, refused and lost, 5 commands | holds |
| `RolloutBeside` | The same for deploy, rollback and reconcile side by side | 2 invocations, 2 versions, 4 kinds of role, 5 commands | holds |
| `RolloutSweep` | Does the sweep spare the container that serves? | 1 invocation, 2 versions | violated |
| `NativeFaults` | Are release, env and processes consistent after every outcome? | 3 releases and 5 builds, or an installed program replaced at any time; every command, setup and remove included, and every fault, 4 commands | holds |
| `NativePruneRace` | May `prune` run beside a rollback? | 2 invocations, 3 releases | violated |
| `NativeFirstDeploy` | Is an installed program stopped when its first deploy fails? | 1 deploy, no fault | violated |
| `FleetBatches` | Does a rollout over several hosts stop where it fails, and does its record say what happened? | Docker: two hosts and a role of one more, a role at once; native: three hosts, two at a time; 2 runs, every fault | holds |
| `CertDaily` | Is what a renewal brought served or reported, whatever runs beside it? | 2 apps with a certificate each, one with two names; a timer that renews one or all beside an operator with 8 kinds of command, one command each or two of one, every fault | holds |
| `ImageSources` | Do all hosts end up with the image that was asked for? | 2 hosts, 7 sources, both policies, 2 invocations at a time, 3 in all, 2 revisions, one retry, one late transfer | holds |
| `BackupKeeps` | Is a reported backup there, kept and restorable? | one saver and one restorer, both modes, retain 0, 1 and 2, 3 invocations, 2 revisions | holds |

Why the bounds are enough: the lock's interesting cases need a winner, a loser
holding another host, and a third that comes later; two hosts are the fewest with
a partial acquisition. A fourth deployer, in `LockContention`, can come after a dead
holder, its clearing and two contenders. A role's two names and the retained container
make three versions the fewest with a surplus to prune; the longest scenario known
(deploy, failed deploy, redeploy, then a rollback or another deploy) has four
commands, and five are run. Three releases with `prune.retain` 2 are the fewest
where the rollback target is older than what prune keeps by age. Versions and
invocations of `ContainerRollout` are interchangeable, hence its symmetry sets;
no run with symmetry checks liveness. Three native hosts in batches of two are the
fewest with a last batch that is shorter, two Docker roles the fewest with an order
between them, and two runs the fewest where a rollback follows a deploy that left
the hosts on different versions; larger fleets are what the proofs cover. Two apps are
the fewest where a renewal touches a certificate that is not its own, and two commands
at once the fewest where one replaces what the other has read. Two `renew --all` at once
are not in the instance, nor a third command beside them; the proofs cover any number.
Two hosts are the fewest that can disagree, three deploys the fewest where a transfer left by the first ends in
the third, and retain 2 is the least that keeps a backup beside the newest. `ImageSources`
takes its interchangeable invocations as a symmetry set. A native host has one unit in
the runs, and `batch_size` is 0 or 2: several units, and a size below zero or above the
list, are covered by the theorems alone.

### What the properties say

* `MutualExclusion`: invocations with a common host are never both past `Acquire`.
  `ImplementsServiceLock`: where all have the same hosts, a lock is taken only when none
  stands, the death of its owner does not end it, only an `rm` run against it does, and
  nobody's `rm`, the operator's included, ends that of a deploy at work, though deploys start beside
  his loop over the hosts. It is more than exclusion, which a dead owner's lock that
  vanished would not break. `HolderNamesLocker`: what `lock status` prints is who holds
  it. `OnlyMakerRemoves`: a loser's cleanup never removes the winner's directory.
  `WinnersLeftoverIsReported`, `FailedAcquireLeavesNothing`: nothing is left behind
  silently. `OneContenderWins` needs equal host orders: two
  configs with swapped hosts can turn each other away, which the code accepts.
  `EveryRunEnds`: a contender never waits.
* `NeverStopsServing`: an overlapping rollout that finds the newest running
  container serving never interrupts the service, at any step of success or
  failure. `SuccessConverges`: success leaves the version running alone, answering
  and routed, whatever was left behind. `RollbackTargetKept`: a plain rollback
  after a successful deploy goes to what ran before. `AliasUnshared`: two versions
  of a role without proxy never run together. `FailedRunLeavesNothing`: no
  container that never ran is left for `start` to find.
* `RestoredIsAsBefore`: "restored" means release, env and every unit's process are
  what they were, whatever interrupted commands left in `etc/env.prev`; of an installed
  program, which others may have replaced, the env.
  `OkIsLive`: success means the units run the live, marked release with the
  installed env. `LiveIsPresent`: `current` never dangles. `PruneSparesTarget`:
  pruning never changes what a rollback would choose.
* `OneBatchDown`: a rollout that begins with every host serving never has two hosts down
  that are not of one batch of one role, even if it fails or dies. It is not said of
  hosts whose serving container the run's own sweep removed, on all hosts at once: that
  is the first disagreement below. What the sweep may not do is touch any other host.
  `BatchesInOrder`: no host
  begins unless all that are a batch or more before it have the version.
  `EndedIsQuiet`: `Batches` returns, and the lock with it, only when no host of the
  batch is still at work, though another has failed. `LogTellsSuccess`: what the log
  calls a success is one on every host; Docker's "RolledBack" is written before
  anything happens and is left out. `TerminalIsLast`: none of a batch's parallel
  appends comes after the run's last word. `RunEnds`: no `batch_size` makes the loop
  stand still.
* `RenewalIsServed`: a renewal that reports success leaves no app whose newest container
  is running on a certificate older than one it had written, though another run renewed,
  restarted the proxy or purged it meanwhile. An app whose newest container is being
  restarted is passed over. `RenewAllKeepsNames`: an order of `renew --all` drops no name
  of the certificate that lego found when it began, though others issued after the
  names were read and though the order outlive its run. What is written while
  it is under way is lost. `RenewAllAttendsAll`: a certificate that is due and listed is renewed
  or named as failed, whatever happens to the ones before it. `NoStrayCredentials`:
  credentials outlive their command only if the process was killed or the very command
  that writes or removes them went wrong. `UpgradeTakesNewBuild`: an upgrade that reports
  success leaves the proxy running, on the build the tag now names unless docker kept
  the old container and `|| true` hid it.
* `OneContent`: without a builder, all hosts of a successful deploy run the content its
  digest names, though the tag moves. `RunsWhatWasBuilt`: with one, and `pull_policy:
  always`, they run what that deploy built, under whatever tag was used before; a
  transfer an earlier deploy left, still going on as this one builds, is excepted.
  `ReconcileNeverUpgrades`: an unattended reconcile starts nothing that no deploy asked
  for.
* `ReportedIsThere`: a backup that ends well has left its data under its name, the
  retention notwithstanding, unless two commands wrote the artifact at once, which is
  excepted from all three. `AlwaysOneKept`: once there has been a complete backup there
  is always one, though kills leave partial files that count as backups. `RoundTrip`: a
  restore of it brings back the data as they were, also while it is being pruned.

### Disagreements between code and docs

Each is a run that TLC finds violated, and an entry of `findings` in
`PROJECT.json` with the line and the sentence it contradicts.

1. **The sweep removes the container that serves** (`deploy.go:1983`). A failed
   health check leaves its container running, and newest. The next deploy's sweep
   keeps that one and removes the older one the proxy routes to, on every host where
   that is so and before the first batch begins (`Sweep` in `FleetRollout`).
2. **`prune` beside a rollback** (`ops.go:134`). The releases to remove are chosen
   by one command and removed by another, without the lock; a rollback to one of
   them in between makes the live release vanish.
3. **The first deploy of an installed program is not stopped when it fails**
   (`installed.go:59`). Whether there is an env to go back to is whether `etc/env`
   exists, and `qifa setup`, which a deploy needs, always makes an empty one
   (`setup.go:149`). The program is restarted on the empty env, where
   `docs/native.md:106` says that on a first deploy it is stopped.

The same models show, with other constants or a property of the reader's own:

* `lock release` with two hosts (`lock.go:88`): the directories go one after another,
  whoever they belong to by then. A deploy that locks host 1 behind the operator and
  host 2 before him loses host 2, and another enters. It is not enough that every lock he
  sees is stale when he begins: an `Acquire` under way is enough, so `ForcePolicy =
  "quiet"` is that no `qifa` runs at all. `ImplementsServiceLock` and `MutualExclusion`
  with four deployers and `ForcePolicy = "any"`;
* a re-registration beside a deploy (`deploy.go:678`): the route goes back to the
  container the deploy is about to stop: `NeverStopsServing` with two actors and
  `"reregister"`;
* reconcile says "in sync" (`reconcile.go:84`) of a container that runs and does not
  answer: `ReconcileConverges` with an internal role;
* a losing `Acquire` whose own `Release` fails leaves a directory and does not say
  so (`lock.go:49`, `:57`): `LeftoverIsReported` with `Faults = {"refused"}`;
* a `mkdir` whose reply was lost leaves a directory that blocks the next deploy:
  `FailedAcquireLeavesNothing` with `Faults = {"lost"}`;
* a plain Docker rollback may go to a version that never passed a health check
  (`deploy.go:590`), where the native backend's cannot (`ops.go:119`);
* a rollback after a deploy that failed its health check removes the serving
  container by name before its replacement runs (`deploy.go:395`);
* a rollback whose `docker run` did run, its reply lost, removes that container again
  (`deploy.go:399`). If it had taken the name the proxy routes to, requests are served
  between the two, and a reconcile that looks just then finds everything in order:
  `NeverStopsServing` with two actors, `"reconcile"` and `Faults = {"lost"}`;
* `qifa start` beside a deploy, or a `docker stop` that fails behind `|| true`
  (`docker.go:626`), leaves two versions of a role without proxy running:
  `AliasUnshared` with two actors and `"start"`, or with `Faults = {"hidden"}`;
* a native deploy that fails in `activate`, `markok` or the route returns without
  `recover` (`native.go:422`), although the comment at line 409 says that any
  failure restores the previous release;
* a Docker rollback that fails on a host leaves the log saying `RolledBack`, or a
  status on the way, where a native one says `Failed` (`deploy.go:528`), and a failing
  `pre_build` hook leaves its deployment `Pending` (`deploy.go:103`), although
  `DESIGN.md:295` says that the log has "failures that never produced a container":
  in `FleetRollout`, `run.result = "failed" => status[runs] = "Failed"` does not hold;
* redeploying a native release whose first deploy was killed takes that release
  itself for the one to fall back to (`scripts.go:92`);
* a failed deploy of an installed program leaves its version in `etc/version`
  (`installed.go:65`), so that the next reconcile finds the host "in sync";
* a renewal that wrote a certificate and could then not register it reports so, but
  the next one finds nothing changed (`app/cert.go:349`) and exits 0 with the old one
  served, although the usage text at line 105 calls it safe to run daily;
* an order takes minutes and locks nothing (`cert.go:440`): a certificate with more names
  that another run writes meanwhile is overwritten by one with the names read before,
  although the usage text (`app/cert.go:96`) says that with `renew --all` "multi-domain
  certs keep every name": `RenewAllKeepsNames` without the
  test on `w.found` in `Replaces`;
* a renewal passes over an app whose newest container is restarting (`deploy.go:680`),
  with exit 0 (`app/cert.go:369`), though an older container may serve the route with
  the old certificate: `RenewalIsServed` without its condition on `newest`;
* a proxy upgrade whose `docker rm -f ... || true` did not remove the container
  (`proxy.go:167`) finds it running (`proxy.go:268`) and reports success on the old
  build, although the comment at line 161 says that it re-creates the container:
  `UpgradeTakesNewBuild` without `stuck`;
* under the default `pull_policy: missing` (`config.go:647`; the comment at
  `deploy.go:918` still calls `always` the default) a second build under a tag used
  before is built, pushed and not run: `RunsWhatWasBuilt` without its last conjunct. A
  reconcile with a builder pushes a build its hosts then do not pull, and hosts
  that each build for themselves may build different revisions under one version;
* two backups at once: with `retain: 1` (`Savers = {s1, s2}`), or with an artifact
  name without `${STAMP}` (`Stamped = FALSE`), `AlwaysOneKept` does not hold; and partial
  files count as backups where `config.go:116` speaks of backups to keep;
* a container-mode restore with `restore.artifact` set removes a file of that path on
  the host itself (`deploy.go:1313`): `hostFile`.

Read in the code and not modelled: two writers share one buffer in `runLocalCapture`
(`docker.go:717`), which `ssh.go:118` warns of; a host's registry credentials are
staged in one directory for all services (`registry.go:72`); a version is resolved before the
build takes its context (`deploy.go:855`), so an edit in between is built under the older
name; `/tmp/qifa-build-*` stays on the builder; a teardown hides a stop
that failed behind `|| true`; the certificate commands use the first of
`proxy_boot.hosts` alone.

## Fairness

Two runs assume any. `LockFaults` assumes weak fairness of each deployer's own steps,
`FleetBatches` of the run's (`Step`), whichever host or outcome comes next. A started qifa runs its commands one after another and each returns or times out;
nothing is assumed of when a deployer starts, of crashes, of which outcome a
command has, or of the operator. The modules of one host check safety only.

## Proofs

Each component of the core has a proof module, and every safety and action property
that a passing run checks is a theorem there, proved for any number of hosts, actors,
versions and faults, and any kinds of command. The theorems rest on the named
assumptions of the modules, on which TLC evaluates every instance, and on the hypotheses
in the tables. A hypothesis is there because the property is false without it, as TLC
shows on a small instance, or because the code gives no more; none is there for the
proof's sake.

In every module the property is the easy part. What is proved by induction is a
conjunction of named parts that say, for each program counter, what a command knows of
the host from what it read before, and who else may have changed it since. An action has
one lemma saying what it does to its command and to the host, and one step in the proof of
each invariant. The actions that are alike (all that lose an answer, all that fail) share
a lemma about what they leave. Two properties about one history share an invariant.

### Deploy lock

| Theorem | States | Hypothesis |
|---|---|---|
| `LockTypeOK` | `[]TypeOK` | |
| `LockWinnersLeftoverIsReported` | `[]WinnersLeftoverIsReported` | |
| `LockFailedAcquireLeavesNothing` | `[]FailedAcquireLeavesNothing` | `Faults \subseteq {"crash"}` |
| `LockOneContenderWins` | `[]OneContenderWins` | `Faults \subseteq {"crash"}`, `SameLists`: one order of hosts for all |
| `LockMutualExclusion` | `[]MutualExclusion` | `ForcePolicy = "never"` |
| `LockHolderNamesLocker` | `[]HolderNamesLocker` | `ForcePolicy = "never"` |
| `LockOnlyMakerRemoves` | `OnlyMakerRemoves` | `ForcePolicy = "never"` |
| `LockImplementsServiceLock` | `ImplementsServiceLock` | the same, and `OneService`: all deployers have the same hosts |

`MutualExclusion` is not inductive: it says nothing of an acquirer half way. `Inv` adds,
for each deployer, `Progress` (its counters fit its program counter), `Owned` (each host
it holds, has just made the directory of, or has still to clear has `dir[h] = d`) and
`Named` (and `holder.json` says so). `Owned` is what a rival's failing `mkdir`
preserves, for it touches only hosts that are `Free`; two deployers past `Acquire` own
every host of both lists, and a common host has one owner. `OnlyMakerRemoves` follows
because a Release visits only owned hosts. For the refinement, `WorkersStand` says that who
is at work has its directories, `LastUploadAlone` that who is about to have the last one owns all, so that no
other lock stands, and `StandingKept` that the lock of one past `Acquire` goes only by its own
Release. What is left behind needs the converse, `Accounted`:
a directory of a deployer's making is one it is at, has yet to release, or has named.
That holds whoever forces a release. `OneContenderWins`, about invocations of which none
dies, has an invariant of its own, `Contended`: while nobody has won, at most one
contender has its first host's lock, and there is one as soon as anybody has given up.
An operator whose policy is "any" can take a directory that is not stale (see
the disagreements), which is why four theorems exclude him; that he may begin while no
`qifa` runs is model-checked. A `mkdir` that is refused
or whose reply is lost really leaves a directory, which is why the other two speak of
crashes only.

### Fleet

| Theorem | States |
|---|---|
| `FleetTypeOK` | `[]TypeOK` |
| `FleetOneBatchDown` | `[]OneBatchDown` |
| `FleetLogTellsSuccess` | `[]LogTellsSuccess` |
| `FleetEndedIsQuiet` | `[]EndedIsQuiet` |
| `FleetBatchesInOrder` | `BatchesInOrder` |
| `FleetTerminalIsLast` | `TerminalIsLast` |

They hold for either backend, any lists of hosts (empty ones included), any integer
`batch_size`, any faults and any number of runs, under `FleetAssumption` alone, the sweep
before the first batch included. `IInv`
adds `Shape` (the batch in progress is the one that begins at `from`, and only a batch in
progress has hosts busy), `Covered` (every place behind `from`, or done in a batch
without failure, has the version, and for a deploy serves it), `Down` (what is down is
being changed, or has failed, in this batch, or was swept) and `Unsettled` (the record of a run in
progress is not final). `Covered` gives `LogTellsSuccess` when the last list is behind,
and `BatchesInOrder` when a host begins; `Down` gives `OneBatchDown`, since two places of
one batch are less than its size apart; `Shape` and `Unsettled` give the other two, for a
host that records something is busy, so the batch is not over.

### Rollout of a role on a host

| Theorem | States | Hypothesis |
|---|---|---|
| `RolloutTypeOK` | `[]TypeOK` | |
| `RolloutFailedRunLeavesNothing` | `[]FailedRunLeavesNothing` | no `"refused"`, no `"hidden"` |
| `RolloutNeverStopsServing` | `[]NeverStopsServing` | `Guarded` |
| `RolloutAliasUnshared` | `[]AliasUnshared` | `Exclusive`, no `"hidden"` |
| `RolloutSuccessConverges` | `[]SuccessConverges` | `Exclusive`, no `"hidden"` |
| `RolloutRollbackTargetKept` | `[]RollbackTargetKept` | `Exclusive` |

`Exclusive` is that commands run one at a time, of any kind, or that all of them are
those that roll out: deploy and rollback under the lock, reconcile which looks first.
`qifa start`, `stop`, `remove` and the re-registration after a renewal take no lock, and
beside a deploy each of them breaks one of the properties. `Guarded` is `Exclusive`
without a reconcile beside another rollout where replies may be lost: see the
disagreements for what happens then. A `docker stop` or `rm` that fails behind `|| true`
leaves a second version running, and `docker run`'s container stays when its removal
cannot be sent; hence the rest. `RollbackTargetKept` needs none of that: a container that
could not be stopped is still there to go back to.

`Base` is the type invariant with `Ordered` (no two containers have one place in the order
of creation), `Fits` (a command is where its kind can be, with the locals that step needs)
and `Holds` (it has the lock exactly while it rolls out). That is what makes the name of a
new container differ from the one it replaces. On it rest: `Tried` (a container that never
ran is about to be removed by who tried to run it); `AllKnow` (`prev` and `name` are
still the newest live containers they were when they were looked up, and what a loop has
still to remove is not the one that serves), the heart of all of it; `Serves` and
`Spares` (where the route is at each step, so that no step removes its target);
`NewestLives` (where two may not overlap, what is live is the newest container, which is
why stopping "the running one" is enough); `AllConverged` from `AllLone` (after the
sweep nothing runs but what the deploy replaces); and `AllKeep`, which ties what a
rollback would go to, `TargetFrom`, to what was there when the deploy began, through the
sweep, the replacement of a container of the same version, and the prune, for any
`prune.retain` above zero: the target either still runs, or is the newest container that
does not, which is the one a prune keeps.

### Native releases

| Theorem | States | Hypothesis |
|---|---|---|
| `NativeTypeOK` | `[]TypeOK` | |
| `NativeLiveIsPresent` | `[]LiveIsPresent` | one actor, or nobody prunes or purges |
| `NativePruneSparesTarget` | `PruneSparesTarget` | one actor, or nobody prunes or purges |
| `NativeRestoredIsAsBefore` | `[]RestoredIsAsBefore` | one actor, or all take the lock |
| `NativeOkIsLive` | `[]OkIsLive` | one actor, or all take the lock |

`qifa prune` beside a rollback is what `NativePruneRace` finds violated; a deploy prunes
too, but under the lock. Stop, start and restart without the lock make a unit run, or
not, behind the deploy that is checking it. A reconcile is left out of the second
alternative because it looks before it locks, so that what it found is not what it
begins with. All faults are in: scripts that are refused, half done, or lose their answer,
and a `qifa` that dies at any step.

`SafeInv` has `Marks` (no two releases passed their health check at one time, so the
newest is one release) and `Safe` (what a command is about to make live is there; what it
is about to remove is what would be chosen now). `TrackInv` follows one command from what
it found: `Begun` until it changes anything, `CanTurn` (as long as it may have to turn
back, `etc/env.prev` and `prev` hold what ran before, whatever an earlier command left
there), `TurnedBack` and `Deployed` for the units its loops have come past. It is claimed
for the command that began last, which with one actor, or one lock, is the only one.

### Images

| Theorem | States |
|---|---|
| `ImageTypeOK` | `[]TypeOK` |
| `ImageOneContent` | `OneContent` |
| `ImageRunsWhatWasBuilt` | `RunsWhatWasBuilt` |
| `ImageReconcileNeverUpgrades` | `ReconcileNeverUpgrades` |

These have no hypothesis but `ImageAssumption`: the fleet's list names each host once, and
no host is called what the model calls the other places. `Inv` has `Digest` (a command of a
config without builder goes by the digest the first host's tag had), `Done` (the hosts
that are done run it), `Built` (what was built is what is pushed, pulled and run, and a
transfer that is late brings the same) and `Known` with `LateKnown` (the first host's tag
has what it had when a reconcile began or what some deploy brought).

### Certificates

| Theorem | States | Hypothesis |
|---|---|---|
| `CertTypeOK` | `[]TypeOK` | |
| `CertNoStrayCredentials` | `[]NoStrayCredentials` | |
| `CertRenewAllAttendsAll` | `RenewAllAttendsAll` | |
| `CertRenewAllKeepsNames` | `RenewAllKeepsNames` | |
| `CertUpgradeTakesNewBuild` | `UpgradeTakesNewBuild` | |
| `CertRenewalIsServed` | `RenewalIsServed` | no two apps have one primary host |

kamal-proxy refuses two services one host, and a renewal registers the app of its own
config alone (`serveRenewed`); an app that shared the host would go on with the
certificate it has. `Inv` says of each certificate that was listed that it is still to do,
failed, settled or in work (`Attended`); of each that was written that it is known to be
new or to have failed, or about to be compared with an older one (`Accounted`), and that
nothing older replaces it (`Newest`); of the names that those of the certificate that is
due are asked for (`Asks`), and of an order under way, with its run or without, that it
asks for those of the certificate it found, if that is there still (`Orders`); of a proxy
being upgraded that a container made from an older build is one docker did not remove
(`Upgrading`); and of the credential files whose they are (`Files`,
`Numbered`).

### Backup and restore

| Theorem | States | Hypothesis |
|---|---|---|
| `BackupTypeOK` | `[]TypeOK` | `Stamped` |
| `BackupReportedIsThere` | `ReportedIsThere` | `Stamped`, one saver |
| `BackupAlwaysOneKept` | `[]AlwaysOneKept` | `Stamped`, one saver |
| `BackupRoundTrip` | `RoundTrip` | `Stamped`, one restorer |
| `RoundTripUnderOwnPaths` | `RoundTrip` under the default path | `Stamped` |

`Stamped` is the default `artifact_name`; without `${STAMP}` every backup overwrites the
one before it. Nothing locks backups: two savers prune each other's, and two restorers
with `restore.artifact` set use one path, so the last theorem, which allows any number of
them, is about the default path. Savers and restorers run side by side, and a killed
saver's command goes on. `Fresh` says that stamps are not used twice, `Writing` and
`Moving` that the data of a backup that had the artifact to itself come unchanged from the
command through the staged copy to the file, `Kept` that a reported file is never
written again, and `Restoring` what a restore has read. `Filed` and `Remains` are about
retention: a saver's own file is the newest when it prunes.

### Only model-checked

`EveryRunEnds` and `RunEnds` are liveness, which the prover does not do. The violations
(`RolloutSweep`, `NativePruneRace`, `NativeFirstDeploy`) are counterexamples. The
refinement of `ServiceLock` is proved without an operator and checked with one; that it is
the only refinement is for want of other abstract specifications, not of proof. No module has a `RECURSIVE` operator.

## Plan

In order of what matters most.

1. An abstract `Rollout` ("at most one version is served; it changes only to one that
   answers") implemented by `ContainerRollout` for overlapping roles, with `Spares` and
   `AllKnow` as the invariant.
2. `AliasUnshared` and `SuccessConverges` where docker's errors are hidden: what remains
   true when a `docker stop` fails behind `|| true`.
3. `FleetRollout` with the hosts' steps those of `NativeRelease` (INSTANCE per host), to
   show that its `HostBegin`, `HostOk` and `HostFails` are what those hosts do.
4. Maintenance mode and accessories; the native certificates and native kamal-proxy.

## Not modelled

Accessories, maintenance mode, launchd (whose start waits for health) and the native
kamal-proxy and its certificates are left for the plan. Configuration, the command line,
secrets, hooks and version keep no state between commands: what they decide are the
CONSTANTS. Registry login and its credentials are taken to be right. The SSH client is the
channel whose failures the models enumerate; its dialling and authentication are not
theirs. Packing and rendering write files once, with no state machine. Doctor, logs
and status only read, and the end-to-end tests are programs of their own.
