----------------------------- MODULE BackupRestore -----------------------------
(***************************************************************************)
(* qifa backup and qifa restore (internal/deploy/deploy.go): the command   *)
(* that writes the artifact, its way through the host's /tmp into the      *)
(* backup directory, the retention there, and the way back.                *)
(*                                                                         *)
(* No lock is taken: savers and restorers interleave, and a command whose  *)
(* qifa is gone keeps writing.  One host, the first that runs the service. *)
(* Invocations begin in different seconds, so their stamps differ.         *)
(***************************************************************************)
EXTENDS Integers, FiniteSets

CONSTANTS
    Savers,         \* those who run qifa backup
    Restorers,      \* those who run qifa restore
    Modes,          \* backup.mode and restore.mode: "container", "host"
    Retains,        \* backup.retain, 0 for no limit
    Stamped,        \* backup.artifact_name has ${STAMP}, as the default has
    MaxRevisions,   \* bound: states of the service's data
    MaxOps          \* bound: invocations in all

ASSUME BackupAssumption ==
    /\ Modes \subseteq {"container", "host"} /\ Retains \subseteq Nat
    /\ Stamped \in BOOLEAN /\ Savers \cap Restorers = {}
    /\ MaxRevisions \in Nat \ {0} /\ MaxOps \in Nat

Actors == Savers \cup Restorers
Stamps == 1..MaxOps
Revisions == 1..MaxRevisions
Half == MaxRevisions + 1    \* the data after a restore that broke off
Torn == 0                   \* a file no single command wrote from start to end
Data == Revisions \cup {Half}
Contents == Data \cup {Torn}
None == -1
Places == {"default", "own"}

VARIABLES
    conf,           \* [mode, retain, place: whether restore.artifact is set]
    data,           \* the service's data
    newest,         \* the last state the service itself wrote
    artifact,       \* backup.artifact, in the container or on the host
    writers,        \* commands that write it, of living invocations or not
    staged,         \* stamp -> /tmp/qifa-backup-<service>-<stamp> on the host
    dir,            \* name -> the file in the backup directory, and its time
    clock,          \* the time, for those in dir
    incoming,       \* path -> what a restore put there for its command to read
    hostFile,       \* a file of the host's own where restore.artifact points
    op,             \* actor -> its invocation in progress
    overlapped,     \* history: two commands have written the artifact at once
    reported,       \* history: the backups logged as complete
    began

vars == <<conf, data, newest, artifact, writers, staged, dir, clock, incoming, hostFile,
          op, overlapped, reported, began>>

Names == Stamps \cup {0}
File == [content : Contents \cup {None}, at : Nat]
Writers == [stamp : Stamps, rev : Contents, alone : BOOLEAN]

PCs == {"idle", "command", "copy", "rm", "create", "download", "unstage",
        "prune", "stat", "read", "upload", "apply", "clean"}

Op == [pc : PCs, stamp : Names, rev : Contents, alone : BOOLEAN, from : Names,
       result : {"none", "ok", "failed"}]

TypeOK ==
    /\ conf \in [mode : Modes, retain : Retains, place : Places]
    /\ data \in Data /\ newest \in Revisions
    /\ artifact \in Contents \cup {None}
    /\ writers \subseteq Writers
    /\ staged \in [Stamps -> Contents \cup {None}]
    /\ dir \in [Names -> File] /\ clock \in Nat
    /\ incoming \in [Names -> Contents \cup {None}]
    /\ hostFile \in BOOLEAN
    /\ op \in [Actors -> Op]
    /\ overlapped \in BOOLEAN
    /\ reported \subseteq [name : Names, rev : Contents, alone : BOOLEAN]
    /\ began \in 0..MaxOps

\* alone is history: no other command wrote the artifact while the backup's did;
\* the file a restore takes was such a backup and reported complete before.
Idle == [pc |-> "idle", stamp |-> 0, rev |-> Torn, alone |-> FALSE, from |-> 0,
         result |-> "none"]

At(a, pc) == op[a].pc = pc
Goes(a, pc) == op' = [op EXCEPT ![a].pc = pc]
Ends(a, result) == op' = [op EXCEPT ![a] = [Idle EXCEPT !.result = result]]

\* expand(tmpl)
Name(a) == IF Stamped THEN op[a].stamp ELSE 0

\* restore.artifact, or a path with the stamp in it.
Path(a) == IF conf.place = "own" THEN 0 ELSE op[a].stamp

NoFile == [content |-> None, at |-> 0]
Exists(n) == dir[n].content # None

\* Written now, with the content c.
Wrote(n, c) ==
    /\ dir' = [dir EXCEPT ![n] = [content |-> c, at |-> clock + 1]]
    /\ clock' = clock + 1

-----------------------------------------------------------------------------
(* Backup *)

\* firstRunning, and what the artifact, the stage and the file are called.
BeginBackup(a) ==
    /\ a \in Savers /\ At(a, "idle") /\ began < MaxOps
    /\ began' = began + 1
    /\ op' = [b \in Actors |->
                 IF b = a THEN [Idle EXCEPT !.pc = "command", !.stamp = began + 1,
                                            !.rev = data, !.alone = writers = {}]
                 ELSE [op[b] EXCEPT !.alone = @ /\ op[b].pc \notin {"command", "copy"}]]
    /\ writers' = {[w EXCEPT !.alone = FALSE] : w \in writers}
                    \cup {[stamp |-> began + 1, rev |-> data, alone |-> writers = {}]}
    /\ artifact' = Torn
    /\ overlapped' = (overlapped \/ writers # {})
    /\ UNCHANGED <<conf, data, newest, staged, dir, clock, incoming, hostFile,
                   reported>>

\* The command comes to its end, whether its qifa still waits for it or not,
\* or fails.  The artifact is its own if no other wrote meanwhile; one that
\* has been taken away may not be there again.
CommandEnds(w) ==
    /\ w \in writers
    /\ writers' = writers \ {w}
    /\ \/ /\ artifact' \in IF artifact # None THEN {IF w.alone THEN w.rev ELSE Torn}
                           ELSE IF w.alone THEN {None, w.rev} ELSE {None}
          /\ op' = [a \in Actors |->
                      IF At(a, "command") /\ op[a].stamp = w.stamp
                      THEN [op[a] EXCEPT !.pc = "copy", !.alone = w.alone] ELSE op[a]]
       \/ /\ UNCHANGED artifact
          /\ op' = [a \in Actors |->
                      IF At(a, "command") /\ op[a].stamp = w.stamp
                      THEN [Idle EXCEPT !.result = "failed"] ELSE op[a]]
    /\ UNCHANGED <<conf, data, newest, staged, dir, clock, incoming, hostFile,
                   overlapped, reported, began>>

\* docker cp to the host's /tmp, or mv there in host mode.
Stage(a) ==
    /\ At(a, "copy") /\ artifact # None
    /\ staged' = [staged EXCEPT ![op[a].stamp] = artifact]
    /\ IF conf.mode = "host" THEN artifact' = None /\ Goes(a, "create")
       ELSE Goes(a, "rm") /\ UNCHANGED artifact
    /\ UNCHANGED <<conf, data, newest, writers, dir, clock, incoming, hostFile,
                   overlapped, reported, began>>

\* docker exec rm -f: its failure is not looked at.
RemoveArtifact(a) ==
    /\ At(a, "rm")
    /\ artifact' \in {None, artifact}
    /\ Goes(a, "create")
    /\ UNCHANGED <<conf, data, newest, writers, staged, dir, clock, incoming,
                   hostFile, overlapped, reported, began>>

\* pruneBackups: the newest by their times stay.
Newer(files, n) == {m \in Names : files[m].content # None /\ files[m].at > files[n].at}
Pruned(files) ==
    [n \in Names |->
       IF Cardinality(Newer(files, n)) < conf.retain THEN files[n] ELSE NoFile]

\* Mutant: room is made before the new file is there.
CreatePruned(a) ==
    /\ At(a, "create")
    /\ LET files == [dir EXCEPT ![Name(a)] = [content |-> Torn, at |-> clock + 1]]
       IN  dir' = IF conf.retain > 0 THEN Pruned(files) ELSE files
    /\ clock' = clock + 1
    /\ Goes(a, "download")
    /\ UNCHANGED <<conf, data, newest, artifact, writers, staged, incoming, hostFile,
                   overlapped, reported, began>>

\* os.Create: what was there under the name is gone.
CreateFile(a) ==
    /\ At(a, "create")
    /\ Wrote(Name(a), Torn)
    /\ Goes(a, "download")
    /\ UNCHANGED <<conf, data, newest, artifact, writers, staged, incoming, hostFile,
                   overlapped, reported, began>>

\* Mutant: the error of a download is only logged.
DownloadUnchecked(a) ==
    /\ At(a, "download")
    /\ (UNCHANGED <<dir, clock>> \/ Wrote(Name(a), staged[op[a].stamp]))
    /\ Goes(a, "unstage")
    /\ UNCHANGED <<conf, data, newest, artifact, writers, staged, incoming, hostFile,
                   overlapped, reported, began>>

\* Download: done, if the file has not been unlinked meanwhile with the content
\* in it; or it fails, and the file is removed; or only its Close fails, and what
\* was written stays.
Download(a) ==
    /\ At(a, "download")
    /\ \/ /\ staged[op[a].stamp] # None
          /\ IF Exists(Name(a)) THEN Wrote(Name(a), staged[op[a].stamp])
             ELSE UNCHANGED <<dir, clock>>
          /\ Goes(a, "unstage")
       \/ /\ dir' \in {dir, [dir EXCEPT ![Name(a)] = NoFile]}
          /\ Ends(a, "failed") /\ UNCHANGED clock
    /\ UNCHANGED <<conf, data, newest, artifact, writers, staged, incoming, hostFile,
                   overlapped, reported, began>>

\* rm -f of the staged file: its failure is not looked at.
Unstage(a) ==
    /\ At(a, "unstage")
    /\ \E left \in {None, staged[op[a].stamp]} :
         staged' = [staged EXCEPT ![op[a].stamp] = left]
    /\ Goes(a, IF conf.retain > 0 THEN "prune" ELSE "stat")
    /\ UNCHANGED <<conf, data, newest, artifact, writers, dir, clock, incoming,
                   hostFile, overlapped, reported, began>>

Prune(a) ==
    /\ At(a, "prune")
    /\ dir' = Pruned(dir)
    /\ Goes(a, "stat")
    /\ UNCHANGED <<clock, conf, data, newest, artifact, writers, staged, incoming,
                   hostFile, overlapped, reported, began>>

\* "backup complete" is logged if the file is there; the exit status is 0 anyway.
Report(a) ==
    /\ At(a, "stat")
    /\ reported' = IF ~Exists(Name(a)) THEN reported
                   ELSE reported \cup
                          {[name |-> Name(a), rev |-> op[a].rev, alone |-> op[a].alone]}
    /\ Ends(a, "ok")
    /\ UNCHANGED <<conf, data, newest, artifact, writers, staged, dir, clock,
                   incoming, hostFile, overlapped, began>>

-----------------------------------------------------------------------------
(* Restore *)

KnownGood(n) == \E k \in reported : k.name = n /\ k.alone

\* Restore of a file the operator names.
BeginRestore(a) ==
    /\ a \in Restorers /\ At(a, "idle") /\ began < MaxOps
    /\ began' = began + 1
    /\ \E n \in Names :
         /\ Exists(n)
         /\ op' = [op EXCEPT ![a] = [Idle EXCEPT !.pc = "read", !.stamp = began + 1,
                                       !.from = n, !.alone = KnownGood(n)]]
    /\ UNCHANGED <<conf, data, newest, artifact, writers, staged, dir, clock,
                   incoming, hostFile, overlapped, reported>>

\* ReadFile: all of it, before anything is sent.
ReadBackup(a) ==
    /\ At(a, "read")
    /\ IF ~Exists(op[a].from) THEN Ends(a, "failed")
       ELSE op' = [op EXCEPT ![a].pc = "upload", ![a].rev = dir[op[a].from].content]
    /\ UNCHANGED <<conf, data, newest, artifact, writers, staged, dir, clock,
                   incoming, hostFile, overlapped, reported, began>>

\* Mutant: a file an earlier restore left is taken.
UploadIfAbsent(a) ==
    /\ At(a, "upload")
    /\ incoming' = IF incoming[Path(a)] = None
                   THEN [incoming EXCEPT ![Path(a)] = op[a].rev] ELSE incoming
    /\ Goes(a, "apply")
    /\ UNCHANGED <<conf, data, newest, artifact, writers, staged, dir, clock,
                   hostFile, overlapped, reported, began>>

\* Upload to the host's /tmp, then docker cp or mv to where the command reads.
\* In host mode without restore.artifact the staged file is that.
UploadBackup(a) ==
    /\ At(a, "upload")
    /\ incoming' = [incoming EXCEPT ![Path(a)] = op[a].rev]
    /\ hostFile' = (hostFile /\ ~(conf.mode = "host" /\ conf.place = "own"))
    /\ Goes(a, "apply")
    /\ UNCHANGED <<conf, data, newest, artifact, writers, staged, dir, clock,
                   overlapped, reported, began>>

\* The restore command, taken to replace the data in one step, or failing.
Apply(a) ==
    /\ At(a, "apply")
    /\ \/ /\ incoming[Path(a)] # None
          /\ data' = IF incoming[Path(a)] = Torn THEN Half ELSE incoming[Path(a)]
          /\ Goes(a, "clean")
       \/ data' \in {data, Half} /\ Ends(a, "failed")
    /\ UNCHANGED <<conf, newest, artifact, writers, staged, dir, clock, incoming,
                   hostFile, overlapped, reported, began>>

\* rm -f in the container, and of both paths on the host in either mode: a file
\* of the host's own at restore.artifact goes too.
CleanUp(a) ==
    /\ At(a, "clean")
    /\ incoming' = [incoming EXCEPT ![Path(a)] = None]
    /\ hostFile' = (hostFile /\ conf.place = "default")
    /\ Ends(a, "ok")
    /\ UNCHANGED <<conf, data, newest, artifact, writers, staged, dir, clock,
                   overlapped, reported, began>>

-----------------------------------------------------------------------------
(* Faults, and the service *)

\* A step over SSH fails, or there is nothing to copy, and the invocation ends
\* with what it has staged left behind.  A command it waited for goes on.
Breaks(a) ==
    /\ op[a].pc \in {"command", "copy", "create", "upload", "apply"}
    /\ Ends(a, "failed")
    /\ UNCHANGED <<conf, data, newest, artifact, writers, staged, dir, clock,
                   incoming, hostFile, overlapped, reported, began>>

\* The invocation is killed: nothing is cleaned up, a partial file stays.
Killed(a) ==
    /\ ~At(a, "idle")
    /\ Ends(a, "none")
    /\ UNCHANGED <<conf, data, newest, artifact, writers, staged, dir, clock,
                   incoming, hostFile, overlapped, reported, began>>

Write ==
    /\ newest < MaxRevisions
    /\ newest' = newest + 1 /\ data' = newest + 1
    /\ UNCHANGED <<conf, artifact, writers, staged, dir, clock, incoming, hostFile,
                   op, overlapped, reported, began>>

Next ==
    \/ \E a \in Actors :
         \/ BeginBackup(a) \/ Stage(a) \/ RemoveArtifact(a) \/ CreateFile(a)
         \/ Download(a) \/ Unstage(a) \/ Prune(a) \/ Report(a)
         \/ BeginRestore(a) \/ ReadBackup(a) \/ UploadBackup(a) \/ Apply(a) \/ CleanUp(a)
         \/ Breaks(a) \/ Killed(a)
    \/ \E w \in writers : CommandEnds(w)
    \/ Write

Init ==
    /\ conf \in [mode : Modes, retain : Retains, place : Places]
    /\ data = 1 /\ newest = 1
    /\ artifact = None /\ writers = {}
    /\ staged = [s \in Stamps |-> None] /\ incoming = [p \in Names |-> None]
    /\ dir = [n \in Names |-> NoFile] /\ clock = 0 /\ hostFile = TRUE
    /\ op = [a \in Actors |-> Idle]
    /\ overlapped = FALSE /\ reported = {} /\ began = 0

Spec == Init /\ [][Next]_vars

-----------------------------------------------------------------------------
(* Properties *)

Reports(a) == At(a, "stat") /\ op'[a].pc = "idle" /\ op'[a].result = "ok"

\* A backup that ends well has left, under its name, the data as it was when its
\* command began, whatever earlier invocations left on the host, a restore going
\* on and the retention (Backup), unless another command wrote the same artifact
\* in between.
ReportedIsThere ==
    [][\A a \in Savers :
         Reports(a) /\ op[a].alone =>
           dir'[Name(a)].content = op[a].rev]_vars

\* Once a backup has been reported complete there is always a complete one: no
\* retention counts a partial file left by a killed run against all of them, and
\* no failed download takes one along (Backup, pruneBackups).  Excepted is a run
\* in which two commands wrote the artifact at once.
AlwaysOneKept ==
    reported # {} /\ ~overlapped => \E n \in Names : dir[n].content \in Data

\* A restore whose command succeeds, of a file known to be complete, brings back
\* the data as they were when that backup's command began (Restore), also while
\* the next backup prunes the file and after a restore that left its own behind.
RoundTrip ==
    [][\A a \in Restorers, k \in reported :
         At(a, "apply") /\ op'[a].pc = "clean" /\ op[a].alone /\ k.name = op[a].from =>
           data' = k.rev]_vars
=============================================================================
