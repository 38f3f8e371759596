----------------------------- MODULE DeployLock -----------------------------
(***************************************************************************)
(* The per-service deploy lock (internal/lock/lock.go): a directory in     *)
(* /tmp on every target host, made with mkdir, marked with a holder.json,  *)
(* removed with rm -rf.  A deployer is one run of a qifa command that      *)
(* takes the lock (deploy, rollback); an operator may run                  *)
(* `qifa lock release` beside them.                                        *)
(*                                                                         *)
(* Every step is one remote command.  Over SSH a command is executed and   *)
(* acknowledged, not executed at all ("refused"), or executed with its     *)
(* answer lost ("lost"); a deployer can also die ("crash").  Faults says   *)
(* which of the three can happen.  The `cat` of the holder in the error    *)
(* path and Status only read, and have no step.                            *)
(***************************************************************************)
EXTENDS Naturals, Sequences

CONSTANTS
    Deployers,      \* runs of qifa that take the lock
    Hosts,          \* target hosts
    HostList,       \* the hosts each deployer locks, in its config's order
    Faults,         \* what can go wrong: a subset of FaultKinds
    ForcePolicy,    \* when `qifa lock release` is run: see ForceStart
    OperatorList,   \* the hosts it clears, in order
    Free            \* no lock directory, and no holder

FaultKinds == {"refused", "lost", "crash"}

ASSUME ListAssumption ==
    /\ OperatorList \in Seq(Hosts)
    /\ HostList \in [Deployers -> Seq(Hosts)]
    /\ \A d \in Deployers :
         /\ Len(HostList[d]) > 0
         /\ \A i, j \in 1..Len(HostList[d]) :
              HostList[d][i] = HostList[d][j] => i = j

ASSUME FreeAssumption == Free \notin Deployers

ASSUME FaultAssumption ==
    /\ Faults \subseteq FaultKinds
    /\ ForcePolicy \in {"never", "quiet", "any"}

VARIABLES
    dir,        \* host -> whose mkdir made the lock directory there, or Free
    holder,     \* host -> whom holder.json there names, or Free
    pc,         \* deployer -> what it does next
    held,       \* deployer -> how many of its hosts, in order, are in l.held
    released,   \* deployer -> how many of those Release has dealt with
    won,        \* deployers whose Acquire returned without an error
    warned,     \* deployer -> hosts its output names as left locked
    force       \* the host a running `qifa lock release` is at, 0 if none runs

vars == <<dir, holder, pc, held, released, won, warned, force>>

PCs == {"idle", "mkdir", "upload", "locked", "release", "done", "crashed"}

TypeOK ==
    /\ dir \in [Hosts -> Deployers \cup {Free}]
    /\ holder \in [Hosts -> Deployers \cup {Free}]
    /\ pc \in [Deployers -> PCs]
    /\ held \in [Deployers -> Nat]
    /\ released \in [Deployers -> Nat]
    /\ \A d \in Deployers :
         released[d] <= held[d] /\ held[d] <= Len(HostList[d])
    /\ won \subseteq Deployers
    /\ warned \in [Deployers -> SUBSET Hosts]
    /\ force \in 0..Len(OperatorList)

Init ==
    /\ dir = [h \in Hosts |-> Free]
    /\ holder = [h \in Hosts |-> Free]
    /\ pc = [d \in Deployers |-> "idle"]
    /\ held = [d \in Deployers |-> 0]
    /\ released = [d \in Deployers |-> 0]
    /\ won = {}
    /\ warned = [d \in Deployers |-> {}]
    /\ force = 0

-----------------------------------------------------------------------------
(* Helpers *)

\* Mutant: the loop tries the host it has just taken again.
TargetLags(d) == HostList[d][IF held[d] = 0 THEN 1 ELSE held[d]]

\* The host Acquire's loop is at, and the one Release's loop is at.
Target(d) == HostList[d][held[d] + 1]
Clearing(d) == HostList[d][released[d] + 1]

\* The n-th host is dealt with; Acquire's error path and Deploy's deferred
\* call both run Release, which visits the hosts of l.held in order.
ReleaseFrom(n) == IF n = 0 THEN "done" ELSE "release"

-----------------------------------------------------------------------------
(* Acquire *)

Start(d) ==
    /\ pc[d] = "idle"
    /\ pc' = [pc EXCEPT ![d] = "mkdir"]
    /\ UNCHANGED <<dir, holder, held, released, won, warned, force>>

\* Mutant: mkdir -p, which takes a directory that exists for its own.
MkdirParents(d) ==
    /\ pc[d] = "mkdir"
    /\ dir' = [dir EXCEPT ![Target(d)] = d]
    /\ pc' = [pc EXCEPT ![d] = "upload"]
    /\ UNCHANGED <<holder, held, released, won, warned, force>>

\* Mutant: a directory whose maker is gone is taken over.
MkdirTakesOver(d) ==
    /\ pc[d] = "mkdir"
    /\ dir[Target(d)] \in {Free} \cup {e \in Deployers : pc[e] \in {"done", "crashed"}}
    /\ dir' = [dir EXCEPT ![Target(d)] = d]
    /\ pc' = [pc EXCEPT ![d] = "upload"]
    /\ UNCHANGED <<holder, held, released, won, warned, force>>

\* `mkdir dir` is atomic on the host and fails when the directory exists.
MkdirOk(d) ==
    /\ pc[d] = "mkdir"
    /\ dir[Target(d)] = Free
    /\ dir' = [dir EXCEPT ![Target(d)] = d]
    /\ pc' = [pc EXCEPT ![d] = "upload"]
    /\ UNCHANGED <<holder, held, released, won, warned, force>>

\* Mutant: the host whose mkdir failed is released with the others.
MkdirFailsHeld(d) ==
    /\ pc[d] = "mkdir"
    /\ dir[Target(d)] # Free
    /\ held' = [held EXCEPT ![d] = @ + 1]
    /\ pc' = [pc EXCEPT ![d] = "release"]
    /\ UNCHANGED <<dir, holder, released, won, warned, force>>

\* Mutant: the error path returns without a Release.
MkdirFailsKeeps(d) ==
    /\ pc[d] = "mkdir"
    /\ dir[Target(d)] # Free
    /\ pc' = [pc EXCEPT ![d] = "done"]
    /\ UNCHANGED <<dir, holder, held, released, won, warned, force>>

\* Mutant: a taken host is waited for with the others held.
MkdirWaits(d) ==
    /\ pc[d] = "mkdir"
    /\ "refused" \in Faults /\ dir[Target(d)] = Free
    /\ pc' = [pc EXCEPT ![d] = ReleaseFrom(held[d])]
    /\ UNCHANGED <<dir, holder, held, released, won, warned, force>>

\* A failing mkdir releases the hosts already held; the host it failed on is
\* not one of them, whatever happened there.
MkdirFails(d) ==
    /\ pc[d] = "mkdir"
    /\ \/ dir[Target(d)] # Free /\ UNCHANGED dir
       \/ "refused" \in Faults /\ UNCHANGED dir
       \/ /\ "lost" \in Faults
          /\ dir[Target(d)] = Free
          /\ dir' = [dir EXCEPT ![Target(d)] = d]
    /\ pc' = [pc EXCEPT ![d] = ReleaseFrom(held[d])]
    /\ UNCHANGED <<holder, held, released, won, warned, force>>

\* What an executed upload of holder.json does: it makes the directory again
\* if it has gone (mkdir -p), and names d whoever made it.
WriteHolder(d) ==
    /\ holder' = [holder EXCEPT ![Target(d)] = d]
    /\ dir' = [dir EXCEPT ![Target(d)] = IF @ = Free THEN d ELSE @]

UploadOk(d) ==
    /\ pc[d] = "upload"
    /\ WriteHolder(d)
    /\ held' = [held EXCEPT ![d] = @ + 1]
    /\ IF held[d] + 1 = Len(HostList[d])
         THEN /\ pc' = [pc EXCEPT ![d] = "locked"]
              /\ won' = won \cup {d}
         ELSE /\ pc' = [pc EXCEPT ![d] = "mkdir"]
              /\ UNCHANGED won
    /\ UNCHANGED <<released, warned, force>>

\* Mutant: a holder.json that could not be written does not stop Acquire.
UploadIgnored(d) ==
    /\ pc[d] = "upload"
    /\ "refused" \in Faults
    /\ held' = [held EXCEPT ![d] = @ + 1]
    /\ pc' = [pc EXCEPT ![d] =
                 IF held[d] + 1 = Len(HostList[d]) THEN "locked" ELSE "mkdir"]
    /\ UNCHANGED <<dir, holder, released, won, warned, force>>

\* Here the host counts as held, so that Release clears it too.
UploadFails(d) ==
    /\ pc[d] = "upload"
    /\ \/ "refused" \in Faults /\ UNCHANGED <<dir, holder>>
       \/ "lost" \in Faults /\ WriteHolder(d)
    /\ held' = [held EXCEPT ![d] = @ + 1]
    /\ pc' = [pc EXCEPT ![d] = "release"]
    /\ UNCHANGED <<released, won, warned, force>>

-----------------------------------------------------------------------------
(* Release: deferred by Deploy and Rollback, and Acquire's own error path *)

\* The command under the lock is over, well or badly.
EndDeploy(d) ==
    /\ pc[d] = "locked"
    /\ pc' = [pc EXCEPT ![d] = "release"]
    /\ UNCHANGED <<dir, holder, held, released, won, warned, force>>

\* Mutant: the end of l.held is missed by one.
NextReleaseLate(d) ==
    /\ released' = [released EXCEPT ![d] = @ + 1]
    /\ pc' = [pc EXCEPT ![d] = IF released[d] = held[d] THEN "done" ELSE @]

NextRelease(d) ==
    /\ released' = [released EXCEPT ![d] = @ + 1]
    /\ pc' = [pc EXCEPT ![d] = IF released[d] + 1 = held[d] THEN "done" ELSE @]

\* rm -rf asks nobody whose the directory is.
Clear(h) ==
    /\ dir' = [dir EXCEPT ![h] = Free]
    /\ holder' = [holder EXCEPT ![h] = Free]

ReleaseOk(d) ==
    /\ pc[d] = "release"
    /\ Clear(Clearing(d))
    /\ NextRelease(d)
    /\ UNCHANGED <<held, won, warned, force>>

\* Mutant: Release returns its first error.
ReleaseStops(d) ==
    /\ pc[d] = "release"
    /\ "refused" \in Faults
    /\ warned' = [warned EXCEPT ![d] = @ \cup {Clearing(d)}]
    /\ pc' = [pc EXCEPT ![d] = "done"]
    /\ UNCHANGED <<dir, holder, held, released, won, force>>

\* Release carries on past a failure and names the host in its error, which
\* Deploy prints and Acquire's error path drops.
ReleaseFails(d) ==
    /\ pc[d] = "release"
    /\ \/ "refused" \in Faults /\ UNCHANGED <<dir, holder>>
       \/ "lost" \in Faults /\ Clear(Clearing(d))
    /\ warned' = IF d \in won
                   THEN [warned EXCEPT ![d] = @ \cup {Clearing(d)}]
                   ELSE warned
    /\ NextRelease(d)
    /\ UNCHANGED <<held, won, force>>

Crash(d) ==
    /\ "crash" \in Faults
    /\ pc[d] \in {"mkdir", "upload", "locked", "release"}
    /\ pc' = [pc EXCEPT ![d] = "crashed"]
    /\ UNCHANGED <<dir, holder, held, released, won, warned, force>>

-----------------------------------------------------------------------------
(* `qifa lock release` *)

Dead(d) == pc[d] \in {"done", "crashed"}

StaleLock(h) == dir[h] # Free /\ Dead(dir[h])

\* The code asks for nothing.  The policy is the operator's: "any" moment, or
\* only while no qifa is running ("quiet"); one may be started during the loop.
ForceStart ==
    /\ ForcePolicy # "never"
    /\ force = 0 /\ OperatorList # <<>>
    /\ \E h \in Hosts : StaleLock(h)
    /\ ForcePolicy = "quiet" => \A d \in Deployers : Dead(d) \/ pc[d] = "idle"
    /\ force' = 1
    /\ UNCHANGED <<dir, holder, pc, held, released, won, warned>>

\* One host of ForceRelease's loop, which carries on past a failure.
ForceRelease ==
    /\ force > 0
    /\ \/ Clear(OperatorList[force])
       \/ Faults \cap {"refused", "lost"} # {} /\ UNCHANGED <<dir, holder>>
    /\ force' = IF force = Len(OperatorList) THEN 0 ELSE force + 1
    /\ UNCHANGED <<pc, held, released, won, warned>>

-----------------------------------------------------------------------------

Step(d) ==
    \/ MkdirOk(d) \/ MkdirFails(d)
    \/ UploadOk(d) \/ UploadFails(d)
    \/ EndDeploy(d)
    \/ ReleaseOk(d) \/ ReleaseFails(d)

Next ==
    \/ \E d \in Deployers : Start(d) \/ Step(d) \/ Crash(d)
    \/ ForceStart
    \/ ForceRelease

Spec == Init /\ [][Next]_vars

\* A started qifa keeps running its commands, each of which returns.
FairSpec == Spec /\ \A d \in Deployers : WF_vars(Step(d))

-----------------------------------------------------------------------------
(* Properties *)

HostsOf(d) == {HostList[d][i] : i \in 1..Len(HostList[d])}

\* Two invocations whose configs share a host are never both past Acquire:
\* "created via mkdir (atomic) so two concurrent acquirers can't both succeed".
MutualExclusion ==
    \A d, e \in Deployers :
        /\ pc[d] = "locked" /\ pc[e] = "locked"
        /\ HostsOf(d) \cap HostsOf(e) # {}
        => d = e

\* The lock names whoever holds it, on every one of its hosts: what
\* `qifa lock status` and a losing Acquire print is the deploy in progress,
\* never an earlier one or a loser's.
HolderNamesLocker ==
    \A d \in Deployers : pc[d] = "locked" =>
        \A h \in HostsOf(d) : dir[h] = d /\ holder[h] = d

\* A deploy that held the lock and is over leaves no directory behind that its
\* warning does not name.
WinnersLeftoverIsReported ==
    \A h \in Hosts : \A d \in won :
        dir[h] = d /\ pc[d] = "done" => h \in warned[d]

\* The same for every invocation, losers included: Release "reports the hosts
\* it could not clear. A failure here is worth saying out loud".
LeftoverIsReported ==
    \A h \in Hosts : \A d \in Deployers :
        dir[h] = d /\ pc[d] = "done" => h \in warned[d]

\* "If any host's lock can't be taken, hosts already locked are released": as
\* long as every rm works, a failed Acquire leaves no directory of its own.
FailedAcquireLeavesNothing ==
    \A h \in Hosts : \A d \in Deployers \ won : pc[d] = "done" => dir[h] # d

\* When nothing fails and nobody is left half way, at least one of the
\* invocations that ran got the lock: contenders never all turn each other
\* away.
OneContenderWins ==
    /\ \A d \in Deployers : pc[d] \in {"idle", "done"}
    /\ \E d \in Deployers : pc[d] = "done"
    => won # {}

\* A lock directory goes only by the Release of the deployer that made it: a
\* loser's error path never removes the winner's lock.
OnlyMakerRemoves ==
    [][\A h \in Hosts : \A d \in Deployers :
          dir[h] = d /\ dir'[h] # d => pc[d] = "release" /\ h = Clearing(d)]_vars

\* Every invocation comes to its end, if only by crashing, whatever it fails on
\* and whoever holds the locks it wants.
EveryRunEnds ==
    \A d \in Deployers : pc[d] = "mkdir" ~> Dead(d)

\* The deployers past Acquire of whose lock some directory is still there.
Standing == {d \in won : \E h \in Hosts : dir[h] = d}

Lock == INSTANCE ServiceLock WITH
    owners <- Standing,
    working <- {d \in Deployers : pc[d] = "locked"},
    clearing <- force > 0 \/ \E d \in won : pc[d] = "release"

\* The lock of the whole service: taken only when no other stands, standing
\* after the death of its owner until an rm is run against it, and never ended
\* under a deploy at work, also when deploys start beside the loop of an
\* operator's `qifa lock release`.
ImplementsServiceLock == Lock!Spec
=============================================================================
