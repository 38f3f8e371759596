------------------------ MODULE BackupRestoreProofs ------------------------
(***************************************************************************)
(* Proofs about backup and restore, for any operators, modes, retention    *)
(* and failures, where artifact names carry their stamp, as they do by     *)
(* default.                                                                *)
(***************************************************************************)
EXTENDS BackupRestore, FiniteSetTheorems, TLAPS

LEMMA Sets ==
    /\ 0 \in Names /\ Stamps \subseteq Names
    /\ Data \subseteq Contents /\ Torn \in Contents /\ Half \in Data
    /\ Torn \notin Data /\ None \notin Contents
    /\ Revisions \subseteq Data /\ 1 \in Revisions
BY BackupAssumption DEF Names, Stamps, Data, Contents, Torn, Half, None, Revisions

Active(a) == op[a].pc # "idle"
In(a, pcs) == op[a].pc \in pcs

\* Who does what.
Parts ==
    /\ \A a \in Restorers : In(a, {"idle", "read", "upload", "apply", "clean"})
    /\ \A a \in Savers : ~In(a, {"read", "upload", "apply", "clean"})
    /\ \A a \in Savers : Active(a) => op[a].rev \in Data

\* A stamp has one invocation; nothing is called by a stamp yet to come, and
\* no backup under way has been reported.
Fresh ==
    /\ \A a \in Actors : Active(a) => op[a].stamp \in 1..began
    /\ \A a, b \in Actors : Active(a) /\ Active(b) /\ a # b => op[a].stamp # op[b].stamp
    /\ \A w \in writers : w.stamp \in 1..began
    /\ \A n \in Names : Exists(n) => n \in 0..began
    /\ \A k \in reported : k.name \in 1..began
    /\ \A k \in reported, a \in Actors : Active(a) => op[a].stamp # k.name

\* A command that is alone so far is the only one, and its artifact, once it
\* has ended, is what it wrote until another begins.
Writing ==
    /\ \A w \in writers : w.alone => writers = {w}
    /\ \A a \in Actors, w \in writers :
         At(a, "command") /\ op[a].stamp = w.stamp => w.rev = op[a].rev
    /\ \A a \in Actors :
         At(a, "copy") /\ op[a].alone => writers = {} /\ artifact \in {op[a].rev, None}

\* What such a command wrote, on its way to the backup directory and there.
Moving ==
    /\ \A a \in Actors : In(a, {"rm", "create", "download"}) /\ op[a].alone =>
         staged[op[a].stamp] = op[a].rev
    /\ \A a \in Actors :
         In(a, {"unstage", "prune", "stat"}) /\ op[a].alone /\ Exists(op[a].stamp) =>
           dir[op[a].stamp].content = op[a].rev

\* A backup known to be good is that for as long as it is there.
Kept ==
    /\ \A j, k \in reported : j.name = k.name => j = k
    /\ \A k \in reported : k.rev \in Data
    /\ \A k \in reported : k.alone /\ Exists(k.name) => dir[k.name].content = k.rev

\* What a restore has read of one.
Restoring ==
    /\ \A a \in Actors : At(a, "read") /\ op[a].alone => KnownGood(op[a].from)
    /\ \A a \in Actors : In(a, {"upload", "apply"}) /\ op[a].alone =>
         \E k \in reported : k.name = op[a].from /\ k.alone /\ k.rev = op[a].rev

Inv == TypeOK /\ Parts /\ Fresh /\ Writing /\ Moving /\ Kept /\ Restoring

\* With one restorer, nobody else puts a file where its command reads.
Placed == \A a \in Actors : At(a, "apply") => incoming[Path(a)] = op[a].rev

\* With one saver, its own file is the newest and is there until it has
\* pruned, and some complete backup is not being written now.
Filed ==
    /\ \A a \in Actors : In(a, {"download", "unstage", "prune", "stat"}) => Exists(op[a].stamp)
    /\ \A a \in Actors : In(a, {"unstage", "prune"}) =>
         \A n \in Names \ {op[a].stamp} : dir[n].at < dir[op[a].stamp].at
    /\ \A n \in Names : dir[n].at <= clock
    /\ \A a \in Actors : At(a, "prune") => conf.retain > 0

Sole ==
    ~overlapped => /\ \A a \in Savers : Active(a) => op[a].alone
                   /\ \A w \in writers : w.alone

Before == {"command", "copy", "rm", "create", "download"}

Remains ==
    reported # {} /\ ~overlapped =>
      \E n \in Names : /\ dir[n].content \in Data
                       /\ \A a \in Actors : In(a, Before) => op[a].stamp # n

OneInv == Filed /\ Sole /\ Remains

-----------------------------------------------------------------------------
(* What a step does to the invocations *)

\* a goes on, its locals as they were; the others do not move.
Moves(a, pcs) ==
    /\ op'[a].pc \in pcs
    /\ op'[a].stamp = op[a].stamp /\ op'[a].rev = op[a].rev
    /\ op'[a].alone = op[a].alone /\ op'[a].from = op[a].from

Stops(a) == op'[a].pc = "idle" /\ ~op'[a].alone

OnlyOf(a) ==
    /\ op' \in [Actors -> Op]
    /\ \A b \in Actors \ {a} : op'[b] = op[b]

LEMMA GoesOn ==
    ASSUME TypeOK, NEW a \in Actors, NEW l \in PCs, Goes(a, l)
    PROVE  Moves(a, {l}) /\ OnlyOf(a)
<1>1. op[a] \in Op
  BY DEF TypeOK
<1>2. op' = [op EXCEPT ![a] = [op[a] EXCEPT !.pc = l]]
  BY DEF Goes
<1>3. [op[a] EXCEPT !.pc = l] \in Op
  BY <1>1 DEF Op
<1>4. op'[a] = [op[a] EXCEPT !.pc = l] /\ OnlyOf(a)
  BY <1>2, <1>3 DEF TypeOK, OnlyOf
<1> QED
  BY <1>1, <1>4 DEF Moves, Op

LEMMA ComesToEnd ==
    ASSUME TypeOK, NEW a \in Actors, NEW r \in {"none", "ok", "failed"}, Ends(a, r)
    PROVE  Stops(a) /\ OnlyOf(a)
<1>1. [Idle EXCEPT !.result = r] \in Op
  BY Sets DEF Idle, Op, PCs
<1>2. op'[a] = [Idle EXCEPT !.result = r] /\ OnlyOf(a)
  BY <1>1 DEF TypeOK, OnlyOf, Ends
<1> QED
  BY <1>2 DEF Stops, Idle

Begins(a) ==
    /\ op' \in [Actors -> Op]
    /\ op'[a].pc = "command" /\ op'[a].stamp = began + 1
    /\ op'[a].rev = data /\ op'[a].alone = (writers = {})
    /\ \A b \in Actors \ {a} :
         /\ op'[b].pc = op[b].pc /\ op'[b].stamp = op[b].stamp
         /\ op'[b].rev = op[b].rev /\ op'[b].from = op[b].from
         /\ op'[b].alone => op[b].alone /\ ~In(b, {"command", "copy"})

\* Whoever waited for w goes on or stops; its qifa may be gone.
Finishes(w) ==
    /\ op' \in [Actors -> Op]
    /\ \A b \in Actors :
         \/ op'[b] = op[b] /\ ~(At(b, "command") /\ op[b].stamp = w.stamp)
         \/ op[b].pc = "command" /\ Stops(b)
         \/ /\ op[b].pc = "command" /\ op[b].stamp = w.stamp /\ op'[b].pc = "copy"
            /\ op'[b].stamp = op[b].stamp /\ op'[b].rev = op[b].rev
            /\ op'[b].from = op[b].from /\ op'[b].alone = w.alone
            /\ artifact' \in {None, IF w.alone THEN w.rev ELSE Torn}

Chooses(a) ==
    /\ OnlyOf(a)
    /\ op'[a].pc = "read" /\ op'[a].stamp = began + 1
    /\ op'[a].alone => KnownGood(op'[a].from)

Reads(a) ==
    /\ OnlyOf(a)
    /\ \/ Stops(a)
       \/ /\ op'[a].pc = "upload" /\ Exists(op[a].from)
          /\ op'[a].stamp = op[a].stamp /\ op'[a].from = op[a].from
          /\ op'[a].alone = op[a].alone /\ op'[a].rev = dir[op[a].from].content

LEMMA BackupBegins ==
    ASSUME TypeOK, NEW a \in Actors, BeginBackup(a)
    PROVE  Begins(a)
<1> DEFINE mine == [Idle EXCEPT !.pc = "command", !.stamp = began + 1,
                                !.rev = data, !.alone = writers = {}]
           hers(b) == [op[b] EXCEPT !.alone = @ /\ op[b].pc \notin {"command", "copy"}]
<1>1. op' = [b \in Actors |-> IF b = a THEN mine ELSE hers(b)]
  BY DEF BeginBackup
<1>2. /\ mine \in Op /\ mine.pc = "command" /\ mine.stamp = began + 1
      /\ mine.rev = data /\ mine.alone = (writers = {})
  <2>1. began \in 0..MaxOps /\ data \in Data
    BY DEF TypeOK
  <2>2. began + 1 \in Stamps
    <3>1. began < MaxOps
      BY DEF BeginBackup
    <3> QED
      BY <2>1, <3>1, BackupAssumption DEF Stamps
  <2> QED
    BY <2>1, <2>2, Sets DEF Idle, Op, PCs
<1>3. ASSUME NEW b \in Actors
      PROVE  /\ hers(b) \in Op /\ hers(b).pc = op[b].pc /\ hers(b).stamp = op[b].stamp
             /\ hers(b).rev = op[b].rev /\ hers(b).from = op[b].from
             /\ hers(b).alone => op[b].alone /\ ~In(b, {"command", "copy"})
  BY DEF TypeOK, Op, In
<1> HIDE DEF mine, hers
<1> QED
  BY <1>1, <1>2, <1>3 DEF Begins

LEMMA CommandFinishes ==
    ASSUME TypeOK, NEW w \in writers, CommandEnds(w)
    PROVE  Finishes(w)
<1> DEFINE done(b) == [op[b] EXCEPT !.pc = "copy", !.alone = w.alone]
           failed == [Idle EXCEPT !.result = "failed"]
<1>1. ASSUME NEW b \in Actors
      PROVE  /\ done(b) \in Op /\ done(b).pc = "copy" /\ done(b).alone = w.alone
             /\ done(b).stamp = op[b].stamp /\ done(b).rev = op[b].rev
             /\ done(b).from = op[b].from
  <2>1. w.alone \in BOOLEAN /\ op[b] \in Op
    BY DEF TypeOK, Writers
  <2>2. done(b) \in Op
    BY <2>1 DEF Op, PCs
  <2>3. done(b).pc = "copy" /\ done(b).stamp = op[b].stamp /\ done(b).rev = op[b].rev
        /\ done(b).from = op[b].from
    BY <2>1 DEF Op
  <2>4. done(b).alone = w.alone
    BY <2>1 DEF Op
  <2> QED
    BY <2>2, <2>3, <2>4
<1>2. failed \in Op /\ failed.pc = "idle" /\ ~failed.alone
  BY Sets DEF Op, PCs, Idle
<1>3. \/ /\ artifact' \in {None, IF w.alone THEN w.rev ELSE Torn}
         /\ op' = [b \in Actors |-> IF At(b, "command") /\ op[b].stamp = w.stamp
                                    THEN done(b) ELSE op[b]]
      \/ op' = [b \in Actors |-> IF At(b, "command") /\ op[b].stamp = w.stamp
                                 THEN failed ELSE op[b]]
  BY DEF CommandEnds
<1> HIDE DEF done, failed
<1>4. op' \in [Actors -> Op]
  BY <1>1, <1>2, <1>3 DEF TypeOK
<1>5. ASSUME NEW b \in Actors, ~(At(b, "command") /\ op[b].stamp = w.stamp)
      PROVE  op'[b] = op[b]
  BY <1>3, <1>5
<1>6. ASSUME NEW b \in Actors, At(b, "command"), op[b].stamp = w.stamp
      PROVE  \/ op'[b] = failed
             \/ op'[b] = done(b) /\ artifact' \in {None, IF w.alone THEN w.rev ELSE Torn}
  BY <1>3, <1>6
<1> QED
  BY <1>1, <1>2, <1>4, <1>5, <1>6 DEF Stops, Finishes, At

LEMMA RestoreBegins ==
    ASSUME TypeOK, NEW a \in Actors, BeginRestore(a)
    PROVE  Chooses(a)
<1>1. PICK n \in Names :
        op' = [op EXCEPT ![a] = [Idle EXCEPT !.pc = "read", !.stamp = began + 1,
                                   !.from = n, !.alone = KnownGood(n)]]
  BY DEF BeginRestore
<1> DEFINE mine == [Idle EXCEPT !.pc = "read", !.stamp = began + 1,
                                !.from = n, !.alone = KnownGood(n)]
<1>2. /\ mine \in Op /\ mine.pc = "read" /\ mine.stamp = began + 1
      /\ mine.from = n /\ (mine.alone => KnownGood(n))
  <2>1. began + 1 \in Stamps
    BY BackupAssumption DEF BeginRestore, TypeOK, Stamps
  <2> QED
    BY <2>1, Sets DEF Idle, Op, PCs, KnownGood
<1>3. op' = [op EXCEPT ![a] = mine]
  BY <1>1
<1> HIDE DEF mine
<1>4. op'[a] = mine /\ OnlyOf(a)
  BY <1>2, <1>3 DEF TypeOK, OnlyOf
<1> QED
  BY <1>2, <1>4 DEF Chooses

LEMMA RestoreReads ==
    ASSUME TypeOK, NEW a \in Actors, ReadBackup(a)
    PROVE  Reads(a)
<1>1. op[a] \in Op /\ op[a].pc = "read"
  BY DEF TypeOK, ReadBackup, At
<1>2. CASE ~Exists(op[a].from)
  BY <1>2, ComesToEnd DEF ReadBackup, Reads
<1>3. CASE Exists(op[a].from)
  <2> DEFINE c == dir[op[a].from].content
  <2>1. c \in Contents
    BY <1>1, <1>3 DEF TypeOK, Op, File, Exists
  <2>2. op' = [op EXCEPT ![a] = [op[a] EXCEPT !.pc = "upload", !.rev = c]]
    BY <1>1, <1>3 DEF ReadBackup
  <2>3. [op[a] EXCEPT !.pc = "upload", !.rev = c] \in Op
    BY <1>1, <2>1 DEF Op, PCs
  <2>4. op'[a] = [op[a] EXCEPT !.pc = "upload", !.rev = c] /\ OnlyOf(a)
    BY <2>2, <2>3 DEF TypeOK, OnlyOf
  <2> QED
    BY <1>1, <1>3, <2>4 DEF Op, Reads
<1> QED
  BY <1>2, <1>3

\* What each of the other actions does to the invocation it is of.
LEMMA Acts ==
    ASSUME TypeOK, NEW a \in Actors
    PROVE
    /\ Stage(a) => OnlyOf(a) /\ Moves(a, {"rm", "create"})
    /\ RemoveArtifact(a) => OnlyOf(a) /\ Moves(a, {"create"})
    /\ CreateFile(a) => OnlyOf(a) /\ Moves(a, {"download"})
    /\ Download(a) => OnlyOf(a) /\ (Moves(a, {"unstage"}) \/ Stops(a))
    /\ Unstage(a) => OnlyOf(a) /\ Moves(a, {"prune", "stat"})
    /\ Prune(a) => OnlyOf(a) /\ Moves(a, {"stat"})
    /\ Report(a) => OnlyOf(a) /\ Stops(a)
    /\ UploadBackup(a) => OnlyOf(a) /\ Moves(a, {"apply"})
    /\ Apply(a) => OnlyOf(a) /\ (Moves(a, {"clean"}) \/ Stops(a))
    /\ CleanUp(a) => OnlyOf(a) /\ Stops(a)
    /\ Breaks(a) => OnlyOf(a) /\ Stops(a)
    /\ Killed(a) => OnlyOf(a) /\ Stops(a)
<1>1. ASSUME Stage(a) PROVE OnlyOf(a) /\ Moves(a, {"rm", "create"})
  BY <1>1, GoesOn DEF Stage, PCs, Moves
<1>2. ASSUME RemoveArtifact(a) PROVE OnlyOf(a) /\ Moves(a, {"create"})
  BY <1>2, GoesOn DEF RemoveArtifact, PCs, Moves
<1>3. ASSUME CreateFile(a) PROVE OnlyOf(a) /\ Moves(a, {"download"})
  BY <1>3, GoesOn DEF CreateFile, PCs, Moves
<1>4. ASSUME Download(a) PROVE OnlyOf(a) /\ (Moves(a, {"unstage"}) \/ Stops(a))
  BY <1>4, GoesOn, ComesToEnd DEF Download, PCs, Moves
<1>5. ASSUME Unstage(a) PROVE OnlyOf(a) /\ Moves(a, {"prune", "stat"})
  BY <1>5, GoesOn DEF Unstage, PCs, Moves
<1>6. ASSUME Prune(a) PROVE OnlyOf(a) /\ Moves(a, {"stat"})
  BY <1>6, GoesOn DEF Prune, PCs, Moves
<1>7. ASSUME Report(a) PROVE OnlyOf(a) /\ Stops(a)
  BY <1>7, ComesToEnd DEF Report, PCs
<1>8. ASSUME UploadBackup(a) PROVE OnlyOf(a) /\ Moves(a, {"apply"})
  BY <1>8, GoesOn DEF UploadBackup, PCs, Moves
<1>9. ASSUME Apply(a) PROVE OnlyOf(a) /\ (Moves(a, {"clean"}) \/ Stops(a))
  BY <1>9, GoesOn, ComesToEnd DEF Apply, PCs, Moves
<1>10. ASSUME CleanUp(a) PROVE OnlyOf(a) /\ Stops(a)
  BY <1>10, ComesToEnd DEF CleanUp, PCs
<1>11. ASSUME Breaks(a) PROVE OnlyOf(a) /\ Stops(a)
  BY <1>11, ComesToEnd DEF Breaks, PCs
<1>12. ASSUME Killed(a) PROVE OnlyOf(a) /\ Stops(a)
  BY <1>12, ComesToEnd DEF Killed, PCs
<1> QED
  BY <1>1, <1>2, <1>3, <1>4, <1>5, <1>6, <1>7, <1>8, <1>9, <1>10, <1>11, <1>12

LEMMA StageInv ==
    ASSUME Stamped, Inv, NEW a \in Actors, Stage(a)
    PROVE  Inv'
<1> USE DEF Stage, At, In
<1>t. TypeOK /\ Parts /\ Fresh /\ Writing /\ Moving /\ Kept /\ Restoring
  BY DEF Inv
<1>o. (Moves(a, {"rm", "create"})) /\ OnlyOf(a)
  BY <1>t, Acts
<1>s. Active(a) /\ op[a] \in Op /\ op[a].stamp \in 1..began /\ 1..began \subseteq Stamps
  BY <1>t, BackupAssumption DEF TypeOK, Fresh, Active, Stamps
<1>1. TypeOK'
  BY <1>t, <1>o, <1>s, Sets DEF TypeOK, Op, OnlyOf, File, Name
<1>2. Parts'
  BY <1>t, <1>o, <1>s DEF Parts, Actors, OnlyOf, Moves, Stops, Active
<1>3. Fresh'
  <2>1. UNCHANGED <<writers, dir, reported, began>>
    OBVIOUS
  <2> HIDE DEF Stage
  <2> QED
    BY <1>t, <1>o, <1>s, <2>1 DEF TypeOK, Fresh, OnlyOf, Moves, Active, Exists
<1>4. Writing'
  BY <1>t, <1>o DEF Writing, OnlyOf, Moves, Stops
<1>5. Moving'
  <2>1. /\ op[a].pc = "copy" /\ UNCHANGED dir /\ artifact # None
        /\ \A b \in Actors : Active(b) => op[b].stamp \in Stamps
    BY <1>t, <1>s DEF Fresh
  <2>2. /\ staged'[op[a].stamp] = artifact
        /\ \A n \in Stamps \ {op[a].stamp} : staged'[n] = staged[n]
    BY <1>t, <1>s DEF TypeOK
  <2>3. op[a].alone => artifact = op[a].rev
    BY <1>t, <2>1 DEF Writing
  <2>4. \A b \in Actors \ {a} : Active(b) => op[b].stamp # op[a].stamp
    BY <1>t, <1>s DEF Fresh
  <2> HIDE DEF Stage
  <2> QED
    BY <1>t, <1>o, <2>1, <2>2, <2>3, <2>4 DEF Moving, OnlyOf, Moves, Active, Exists
<1>6. Kept'
  BY <1>t, <1>s DEF TypeOK, Kept, Fresh, Moving, Parts, Actors, Active, Exists, Name, File
<1>7. Restoring'
  BY <1>t, <1>o DEF Restoring, OnlyOf, Moves, Stops, KnownGood
<1> QED
  BY <1>1, <1>2, <1>3, <1>4, <1>5, <1>6, <1>7 DEF Inv

LEMMA RemoveArtifactInv ==
    ASSUME Stamped, Inv, NEW a \in Actors, RemoveArtifact(a)
    PROVE  Inv'
<1> USE DEF RemoveArtifact, At, In
<1>t. TypeOK /\ Parts /\ Fresh /\ Writing /\ Moving /\ Kept /\ Restoring
  BY DEF Inv
<1>o. (Moves(a, {"create"})) /\ OnlyOf(a)
  BY <1>t, Acts
<1>s. Active(a) /\ op[a] \in Op /\ op[a].stamp \in 1..began /\ 1..began \subseteq Stamps
  BY <1>t, BackupAssumption DEF TypeOK, Fresh, Active, Stamps
<1>1. TypeOK'
  BY <1>t, <1>o, <1>s, Sets DEF TypeOK, Op, OnlyOf, File, Name
<1>2. Parts'
  BY <1>t, <1>o, <1>s DEF Parts, Actors, OnlyOf, Moves, Stops, Active
<1>3. Fresh'
  <2>1. UNCHANGED <<writers, dir, reported, began>>
    OBVIOUS
  <2> HIDE DEF RemoveArtifact
  <2> QED
    BY <1>t, <1>o, <1>s, <2>1 DEF TypeOK, Fresh, OnlyOf, Moves, Stops, Active, Exists
<1>4. Writing'
  BY <1>t, <1>o DEF Writing, OnlyOf, Moves, Stops
<1>5. Moving'
  BY <1>t, <1>o, <1>s DEF TypeOK, Moving, Fresh, Writing, OnlyOf, Moves, Stops, Active,
     Exists, Name, File
<1>6. Kept'
  BY <1>t, <1>s DEF TypeOK, Kept, Fresh, Moving, Parts, Actors, Active, Exists, Name, File
<1>7. Restoring'
  BY <1>t, <1>o DEF Restoring, OnlyOf, Moves, Stops, KnownGood
<1> QED
  BY <1>1, <1>2, <1>3, <1>4, <1>5, <1>6, <1>7 DEF Inv

LEMMA CreateFileInv ==
    ASSUME Stamped, Inv, NEW a \in Actors, CreateFile(a)
    PROVE  Inv'
<1> USE DEF CreateFile, At, In, Wrote
<1>t. TypeOK /\ Parts /\ Fresh /\ Writing /\ Moving /\ Kept /\ Restoring
  BY DEF Inv
<1>o. (Moves(a, {"download"})) /\ OnlyOf(a)
  BY <1>t, Acts
<1>s. Active(a) /\ op[a] \in Op /\ op[a].stamp \in 1..began /\ 1..began \subseteq Stamps
  BY <1>t, BackupAssumption DEF TypeOK, Fresh, Active, Stamps
<1>1. TypeOK'
  BY <1>t, <1>o, <1>s, Sets DEF TypeOK, Op, OnlyOf, File, Name
<1>2. Parts'
  BY <1>t, <1>o, <1>s DEF Parts, Actors, OnlyOf, Moves, Stops, Active
<1>3. Fresh'
  <2>1. UNCHANGED <<writers, reported, began>>
    OBVIOUS
  <2>2. \A n \in Names : Exists(n)' => Exists(n) \/ n = op[a].stamp
    BY <1>t, <1>s DEF TypeOK, Name, Exists
  <2> HIDE DEF CreateFile
  <2> QED
    BY <1>t, <1>o, <1>s, <2>1, <2>2 DEF TypeOK, Fresh, OnlyOf, Moves, Stops, Active, Exists
<1>4. Writing'
  BY <1>t, <1>o DEF Writing, OnlyOf, Moves, Stops
<1>5. Moving'
  BY <1>t, <1>o, <1>s DEF TypeOK, Moving, Fresh, Writing, OnlyOf, Moves, Stops, Active,
     Exists, Name, File
<1>6. Kept'
  BY <1>t, <1>s DEF TypeOK, Kept, Fresh, Moving, Parts, Actors, Active, Exists, Name, File
<1>7. Restoring'
  BY <1>t, <1>o DEF Restoring, OnlyOf, Moves, Stops, KnownGood
<1> QED
  BY <1>1, <1>2, <1>3, <1>4, <1>5, <1>6, <1>7 DEF Inv

LEMMA DownloadInv ==
    ASSUME Stamped, Inv, NEW a \in Actors, Download(a)
    PROVE  Inv'
<1> USE DEF Download, At, In, Wrote, NoFile, Exists
<1>t. TypeOK /\ Parts /\ Fresh /\ Writing /\ Moving /\ Kept /\ Restoring
  BY DEF Inv
<1>o. (Moves(a, {"unstage"}) \/ Stops(a)) /\ OnlyOf(a)
  BY <1>t, Acts
<1>s. Active(a) /\ op[a] \in Op /\ op[a].stamp \in 1..began /\ 1..began \subseteq Stamps
  BY <1>t, BackupAssumption DEF TypeOK, Fresh, Active, Stamps
<1>1. TypeOK'
  <2>1. Name(a) \in Names /\ staged[op[a].stamp] \in Contents \cup {None}
    BY <1>t, <1>s, Sets DEF TypeOK, Name
  <2>2. dir' \in [Names -> File] /\ clock' \in Nat
    BY <1>t, <2>1, Sets DEF TypeOK, File
  <2> QED
    BY <1>t, <1>o, <2>2 DEF TypeOK, OnlyOf
<1>2. Parts'
  BY <1>t, <1>o, <1>s DEF Parts, Actors, OnlyOf, Moves, Stops, Active
<1>3. Fresh'
  <2>1. \A n \in Names : Exists(n)' => Exists(n)
    BY <1>t, <1>s DEF TypeOK, Name
  <2>2. UNCHANGED <<writers, reported, began>>
    OBVIOUS
  <2> HIDE DEF Download
  <2> QED
    BY <1>t, <1>o, <1>s, <2>1, <2>2 DEF TypeOK, Fresh, OnlyOf, Moves, Stops, Active
<1>4. Writing'
  BY <1>t, <1>o DEF Writing, OnlyOf, Moves, Stops
<1>5. Moving'
  <2>1. \A b \in Actors \ {a} :
          op'[b] = op[b] /\ (Active(b) => op[b].stamp # op[a].stamp)
    BY <1>t, <1>s, <1>o DEF Fresh, OnlyOf
  <2>2. \A n \in Names \ {op[a].stamp} : dir'[n] = dir[n]
    BY <1>t, <1>s, Sets DEF TypeOK, Name
  <2>3. \A b \in Actors : Active(b) => op[b].stamp \in Names
    BY <1>t, Sets DEF TypeOK, Op
  <2>4. \A b \in Actors \ {a} :
          /\ (In(b, {"rm", "create", "download"}) /\ op[b].alone =>
                staged[op[b].stamp] = op[b].rev)'
          /\ (In(b, {"unstage", "prune", "stat"}) /\ op[b].alone /\ Exists(op[b].stamp) =>
                dir[op[b].stamp].content = op[b].rev)'
    BY <1>t, <2>1, <2>2, <2>3 DEF Moving, Active
  <2>5. ASSUME op'[a].pc = "unstage", op'[a].alone
        PROVE  dir'[op[a].stamp].content \in {None, op[a].rev}
    <3>1. op[a].alone /\ staged[op[a].stamp] = op[a].rev /\ Name(a) = op[a].stamp
      BY <1>t, <1>o, <2>5 DEF Moving, Moves, Stops, Name
    <3>2. ~Ends(a, "failed")
      BY <1>t, <2>5, ComesToEnd DEF Stops
    <3> QED
      BY <1>t, <1>s, <3>1, <3>2, Sets DEF TypeOK, File
  <2> QED
    BY <1>o, <2>4, <2>5 DEF Moving, Moves, Stops
<1>6. Kept'
  BY <1>t, <1>s DEF TypeOK, Kept, Fresh, Moving, Parts, Actors, Active, Exists, Name, File
<1>7. Restoring'
  BY <1>t, <1>o DEF Restoring, OnlyOf, Moves, Stops, KnownGood
<1> QED
  BY <1>1, <1>2, <1>3, <1>4, <1>5, <1>6, <1>7 DEF Inv

LEMMA UnstageInv ==
    ASSUME Stamped, Inv, NEW a \in Actors, Unstage(a)
    PROVE  Inv'
<1> USE DEF Unstage, At, In
<1>t. TypeOK /\ Parts /\ Fresh /\ Writing /\ Moving /\ Kept /\ Restoring
  BY DEF Inv
<1>o. (Moves(a, {"prune", "stat"})) /\ OnlyOf(a)
  BY <1>t, Acts
<1>s. Active(a) /\ op[a] \in Op /\ op[a].stamp \in 1..began /\ 1..began \subseteq Stamps
  BY <1>t, BackupAssumption DEF TypeOK, Fresh, Active, Stamps
<1>1. TypeOK'
  BY <1>t, <1>o, <1>s, Sets DEF TypeOK, Op, OnlyOf, File, Name
<1>2. Parts'
  BY <1>t, <1>o, <1>s DEF Parts, Actors, OnlyOf, Moves, Stops, Active
<1>3. Fresh'
  <2>1. UNCHANGED <<writers, dir, reported, began>>
    OBVIOUS
  <2> HIDE DEF Unstage
  <2> QED
    BY <1>t, <1>o, <1>s, <2>1 DEF TypeOK, Fresh, OnlyOf, Moves, Stops, Active, Exists
<1>4. Writing'
  BY <1>t, <1>o DEF Writing, OnlyOf, Moves, Stops
<1>5. Moving'
  <2>1. /\ op[a].pc = "unstage" /\ UNCHANGED dir
        /\ \A b \in Actors : Active(b) => op[b].stamp \in Stamps
    BY <1>t, <1>s DEF Fresh
  <2>2. \A n \in Stamps \ {op[a].stamp} : staged'[n] = staged[n]
    BY <1>t, <1>s DEF TypeOK
  <2>3. \A b \in Actors \ {a} : Active(b) => op[b].stamp # op[a].stamp
    BY <1>t, <1>s DEF Fresh
  <2> HIDE DEF Unstage
  <2> QED
    BY <1>t, <1>o, <2>1, <2>2, <2>3 DEF Moving, OnlyOf, Moves, Active, Exists
<1>6. Kept'
  BY <1>t, <1>s DEF TypeOK, Kept, Fresh, Moving, Parts, Actors, Active, Exists, Name, File
<1>7. Restoring'
  BY <1>t, <1>o DEF Restoring, OnlyOf, Moves, Stops, KnownGood
<1> QED
  BY <1>1, <1>2, <1>3, <1>4, <1>5, <1>6, <1>7 DEF Inv

LEMMA PruneInv ==
    ASSUME Stamped, Inv, NEW a \in Actors, Prune(a)
    PROVE  Inv'
<1> USE DEF Prune, At, In, Pruned, NoFile
<1>t. TypeOK /\ Parts /\ Fresh /\ Writing /\ Moving /\ Kept /\ Restoring
  BY DEF Inv
<1>o. (Moves(a, {"stat"})) /\ OnlyOf(a)
  BY <1>t, Acts
<1>s. Active(a) /\ op[a] \in Op /\ op[a].stamp \in 1..began /\ 1..began \subseteq Stamps
  BY <1>t, BackupAssumption DEF TypeOK, Fresh, Active, Stamps
<1>1. TypeOK'
  BY <1>t, <1>o, <1>s, Sets DEF TypeOK, Op, OnlyOf, File, Name
<1>2. Parts'
  BY <1>t, <1>o, <1>s DEF Parts, Actors, OnlyOf, Moves, Stops, Active
<1>3. Fresh'
  <2>1. \A n \in Names : dir'[n] = dir[n] \/ dir'[n].content = None
    OBVIOUS
  <2>2. UNCHANGED <<writers, reported, began>>
    OBVIOUS
  <2> HIDE DEF Prune, Pruned, NoFile
  <2> QED
    BY <1>t, <1>o, <1>s, <2>1, <2>2 DEF TypeOK, Fresh, OnlyOf, Moves, Stops, Active, Exists
<1>4. Writing'
  BY <1>t, <1>o DEF Writing, OnlyOf, Moves, Stops
<1>5. Moving'
  <2>1. \A n \in Names : dir'[n].content # None => dir'[n] = dir[n]
    OBVIOUS
  <2>2. \A b \in Actors : Active(b) => op[b].stamp \in Names
    BY <1>t, Sets DEF TypeOK, Op
  <2>3. UNCHANGED staged
    OBVIOUS
  <2>4. op[a].stamp \in Names /\ op[a].pc = "prune"
    BY <1>s, Sets
  <2> HIDE DEF Prune, Pruned, NoFile
  <2>5. \A b \in Actors \ {a} : op'[b] = op[b]
    BY <1>o DEF OnlyOf
  <2> QED
    BY <1>t, <1>o, <2>1, <2>2, <2>3, <2>4, <2>5 DEF Moving, Moves, Active, Exists
<1>6. Kept'
  BY <1>t, <1>s DEF TypeOK, Kept, Fresh, Moving, Parts, Actors, Active, Exists, Name, File
<1>7. Restoring'
  BY <1>t, <1>o DEF Restoring, OnlyOf, Moves, Stops, KnownGood
<1> QED
  BY <1>1, <1>2, <1>3, <1>4, <1>5, <1>6, <1>7 DEF Inv

LEMMA ReportInv ==
    ASSUME Stamped, Inv, NEW a \in Actors, Report(a)
    PROVE  Inv'
<1> USE DEF Report, At, In, Exists
<1>t. TypeOK /\ Parts /\ Fresh /\ Writing /\ Moving /\ Kept /\ Restoring
  BY DEF Inv
<1>o. (Stops(a)) /\ OnlyOf(a)
  BY <1>t, Acts
<1>s. Active(a) /\ op[a] \in Op /\ op[a].stamp \in 1..began /\ 1..began \subseteq Stamps
  BY <1>t, BackupAssumption DEF TypeOK, Fresh, Active, Stamps
<1>1. TypeOK'
  BY <1>t, <1>o, <1>s, Sets DEF TypeOK, Op, OnlyOf, File, Name
<1>2. Parts'
  BY <1>t, <1>o, <1>s DEF Parts, Actors, OnlyOf, Moves, Stops, Active
<1>3. Fresh'
  <2>1. /\ UNCHANGED <<writers, dir, began>>
        /\ \A k \in reported' : k \in reported \/ k.name = op[a].stamp
    BY DEF Name
  <2> HIDE DEF Report
  <2> QED
    BY <1>t, <1>o, <1>s, <2>1 DEF TypeOK, Fresh, OnlyOf, Moves, Stops, Active, Exists
<1>4. Writing'
  BY <1>t, <1>o DEF Writing, OnlyOf, Moves, Stops
<1>5. Moving'
  BY <1>t, <1>o, <1>s DEF TypeOK, Moving, Fresh, Writing, OnlyOf, Moves, Stops, Active,
     Exists, Name, File
<1>6. Kept'
  BY <1>t, <1>s DEF TypeOK, Kept, Fresh, Moving, Parts, Actors, Active, Exists, Name, File
<1>7. Restoring'
  BY <1>t, <1>o DEF Restoring, OnlyOf, Moves, Stops, KnownGood
<1> QED
  BY <1>1, <1>2, <1>3, <1>4, <1>5, <1>6, <1>7 DEF Inv

LEMMA UploadBackupInv ==
    ASSUME Stamped, Inv, NEW a \in Actors, UploadBackup(a)
    PROVE  Inv'
<1> USE DEF UploadBackup, At, In
<1>t. TypeOK /\ Parts /\ Fresh /\ Writing /\ Moving /\ Kept /\ Restoring
  BY DEF Inv
<1>o. (Moves(a, {"apply"})) /\ OnlyOf(a)
  BY <1>t, Acts
<1>s. Active(a) /\ op[a] \in Op /\ op[a].stamp \in 1..began /\ 1..began \subseteq Stamps
  BY <1>t, BackupAssumption DEF TypeOK, Fresh, Active, Stamps
<1>1. TypeOK'
  BY <1>t, <1>o, <1>s, Sets DEF TypeOK, Op, OnlyOf, File, Name
<1>2. Parts'
  BY <1>t, <1>o, <1>s DEF Parts, Actors, OnlyOf, Moves, Stops, Active
<1>3. Fresh'
  <2>1. UNCHANGED <<writers, dir, reported, began>>
    OBVIOUS
  <2> HIDE DEF UploadBackup
  <2> QED
    BY <1>t, <1>o, <1>s, <2>1 DEF TypeOK, Fresh, OnlyOf, Moves, Stops, Active, Exists
<1>4. Writing'
  BY <1>t, <1>o DEF Writing, OnlyOf, Moves, Stops
<1>5. Moving'
  BY <1>t, <1>o, <1>s DEF TypeOK, Moving, Fresh, Writing, OnlyOf, Moves, Stops, Active,
     Exists, Name, File
<1>6. Kept'
  BY <1>t, <1>s DEF TypeOK, Kept, Fresh, Moving, Parts, Actors, Active, Exists, Name, File
<1>7. Restoring'
  BY <1>t, <1>o DEF Restoring, OnlyOf, Moves, Stops, KnownGood
<1> QED
  BY <1>1, <1>2, <1>3, <1>4, <1>5, <1>6, <1>7 DEF Inv

LEMMA ApplyInv ==
    ASSUME Stamped, Inv, NEW a \in Actors, Apply(a)
    PROVE  Inv'
<1> USE DEF Apply, At, In
<1>t. TypeOK /\ Parts /\ Fresh /\ Writing /\ Moving /\ Kept /\ Restoring
  BY DEF Inv
<1>o. (Moves(a, {"clean"}) \/ Stops(a)) /\ OnlyOf(a)
  BY <1>t, Acts
<1>s. Active(a) /\ op[a] \in Op /\ op[a].stamp \in 1..began /\ 1..began \subseteq Stamps
  BY <1>t, BackupAssumption DEF TypeOK, Fresh, Active, Stamps
<1>1. TypeOK'
  <2>1. incoming[Path(a)] \in Contents \cup {None}
    BY <1>t, <1>s, Sets DEF TypeOK, Path
  <2>2. data' \in Data
    BY <1>t, <2>1, Sets DEF TypeOK, Contents
  <2> QED
    BY <1>t, <1>o, <2>2 DEF TypeOK, OnlyOf
<1>2. Parts'
  BY <1>t, <1>o, <1>s DEF Parts, Actors, OnlyOf, Moves, Stops, Active
<1>3. Fresh'
  <2>1. UNCHANGED <<writers, dir, reported, began>>
    OBVIOUS
  <2> HIDE DEF Apply
  <2> QED
    BY <1>t, <1>o, <1>s, <2>1 DEF TypeOK, Fresh, OnlyOf, Moves, Stops, Active, Exists
<1>4. Writing'
  BY <1>t, <1>o DEF Writing, OnlyOf, Moves, Stops
<1>5. Moving'
  BY <1>t, <1>o, <1>s DEF TypeOK, Moving, Fresh, Writing, OnlyOf, Moves, Stops, Active,
     Exists, Name, File
<1>6. Kept'
  BY <1>t, <1>s DEF TypeOK, Kept, Fresh, Moving, Parts, Actors, Active, Exists, Name, File
<1>7. Restoring'
  BY <1>t, <1>o DEF Restoring, OnlyOf, Moves, Stops, KnownGood
<1> QED
  BY <1>1, <1>2, <1>3, <1>4, <1>5, <1>6, <1>7 DEF Inv

LEMMA CleanUpInv ==
    ASSUME Stamped, Inv, NEW a \in Actors, CleanUp(a)
    PROVE  Inv'
<1> USE DEF CleanUp, At, In
<1>t. TypeOK /\ Parts /\ Fresh /\ Writing /\ Moving /\ Kept /\ Restoring
  BY DEF Inv
<1>o. (Stops(a)) /\ OnlyOf(a)
  BY <1>t, Acts
<1>s. Active(a) /\ op[a] \in Op /\ op[a].stamp \in 1..began /\ 1..began \subseteq Stamps
  BY <1>t, BackupAssumption DEF TypeOK, Fresh, Active, Stamps
<1>1. TypeOK'
  BY <1>t, <1>o, <1>s, Sets DEF TypeOK, Op, OnlyOf, File, Name
<1>2. Parts'
  BY <1>t, <1>o, <1>s DEF Parts, Actors, OnlyOf, Moves, Stops, Active
<1>3. Fresh'
  <2>1. UNCHANGED <<writers, dir, reported, began>>
    OBVIOUS
  <2> HIDE DEF CleanUp
  <2> QED
    BY <1>t, <1>o, <1>s, <2>1 DEF TypeOK, Fresh, OnlyOf, Moves, Stops, Active, Exists
<1>4. Writing'
  BY <1>t, <1>o DEF Writing, OnlyOf, Moves, Stops
<1>5. Moving'
  BY <1>t, <1>o, <1>s DEF TypeOK, Moving, Fresh, Writing, OnlyOf, Moves, Stops, Active,
     Exists, Name, File
<1>6. Kept'
  BY <1>t, <1>s DEF TypeOK, Kept, Fresh, Moving, Parts, Actors, Active, Exists, Name, File
<1>7. Restoring'
  BY <1>t, <1>o DEF Restoring, OnlyOf, Moves, Stops, KnownGood
<1> QED
  BY <1>1, <1>2, <1>3, <1>4, <1>5, <1>6, <1>7 DEF Inv

LEMMA BreaksInv ==
    ASSUME Stamped, Inv, NEW a \in Actors, Breaks(a)
    PROVE  Inv'
<1> USE DEF Breaks, At, In
<1>t. TypeOK /\ Parts /\ Fresh /\ Writing /\ Moving /\ Kept /\ Restoring
  BY DEF Inv
<1>o. (Stops(a)) /\ OnlyOf(a)
  BY <1>t, Acts
<1>s. Active(a) /\ op[a] \in Op /\ op[a].stamp \in 1..began /\ 1..began \subseteq Stamps
  BY <1>t, BackupAssumption DEF TypeOK, Fresh, Active, Stamps
<1>1. TypeOK'
  BY <1>t, <1>o, <1>s, Sets DEF TypeOK, Op, OnlyOf, File, Name
<1>2. Parts'
  BY <1>t, <1>o, <1>s DEF Parts, Actors, OnlyOf, Moves, Stops, Active
<1>3. Fresh'
  <2>1. UNCHANGED <<writers, dir, reported, began>>
    OBVIOUS
  <2> HIDE DEF Breaks
  <2> QED
    BY <1>t, <1>o, <1>s, <2>1 DEF TypeOK, Fresh, OnlyOf, Moves, Stops, Active, Exists
<1>4. Writing'
  BY <1>t, <1>o DEF Writing, OnlyOf, Moves, Stops
<1>5. Moving'
  BY <1>t, <1>o, <1>s DEF TypeOK, Moving, Fresh, Writing, OnlyOf, Moves, Stops, Active,
     Exists, Name, File
<1>6. Kept'
  BY <1>t, <1>s DEF TypeOK, Kept, Fresh, Moving, Parts, Actors, Active, Exists, Name, File
<1>7. Restoring'
  BY <1>t, <1>o DEF Restoring, OnlyOf, Moves, Stops, KnownGood
<1> QED
  BY <1>1, <1>2, <1>3, <1>4, <1>5, <1>6, <1>7 DEF Inv

LEMMA KilledInv ==
    ASSUME Stamped, Inv, NEW a \in Actors, Killed(a)
    PROVE  Inv'
<1> USE DEF Killed, At, In
<1>t. TypeOK /\ Parts /\ Fresh /\ Writing /\ Moving /\ Kept /\ Restoring
  BY DEF Inv
<1>o. (Stops(a)) /\ OnlyOf(a)
  BY <1>t, Acts
<1>s. Active(a) /\ op[a] \in Op /\ op[a].stamp \in 1..began /\ 1..began \subseteq Stamps
  BY <1>t, BackupAssumption DEF TypeOK, Fresh, Active, Stamps
<1>1. TypeOK'
  BY <1>t, <1>o, <1>s, Sets DEF TypeOK, Op, OnlyOf, File, Name
<1>2. Parts'
  BY <1>t, <1>o, <1>s DEF Parts, Actors, OnlyOf, Moves, Stops, Active
<1>3. Fresh'
  <2>1. UNCHANGED <<writers, dir, reported, began>>
    OBVIOUS
  <2> HIDE DEF Killed
  <2> QED
    BY <1>t, <1>o, <1>s, <2>1 DEF TypeOK, Fresh, OnlyOf, Moves, Stops, Active, Exists
<1>4. Writing'
  BY <1>t, <1>o DEF Writing, OnlyOf, Moves, Stops
<1>5. Moving'
  BY <1>t, <1>o, <1>s DEF TypeOK, Moving, Fresh, Writing, OnlyOf, Moves, Stops, Active,
     Exists, Name, File
<1>6. Kept'
  BY <1>t, <1>s DEF TypeOK, Kept, Fresh, Moving, Parts, Actors, Active, Exists, Name, File
<1>7. Restoring'
  BY <1>t, <1>o DEF Restoring, OnlyOf, Moves, Stops, KnownGood
<1> QED
  BY <1>1, <1>2, <1>3, <1>4, <1>5, <1>6, <1>7 DEF Inv

LEMMA BeginBackupInv ==
    ASSUME Stamped, Inv, NEW a \in Actors, BeginBackup(a)
    PROVE  Inv'
<1> USE DEF At, In
<1>t. TypeOK /\ Parts /\ Fresh /\ Writing /\ Moving /\ Kept /\ Restoring
  BY DEF Inv
<1>s. /\ a \in Savers /\ a \notin Restorers
      /\ began \in Nat /\ began' = began + 1 /\ began + 1 \in Stamps
      /\ UNCHANGED <<conf, data, newest, staged, dir, clock, incoming, hostFile, reported>>
      /\ artifact' = Torn /\ data \in Data
  <2>1. /\ a \in Savers /\ began < MaxOps /\ began' = began + 1 /\ artifact' = Torn
        /\ UNCHANGED <<conf, data, newest, staged, dir, clock, incoming, hostFile, reported>>
    BY DEF BeginBackup
  <2>2. began \in 0..MaxOps /\ data \in Data
    BY <1>t DEF TypeOK
  <2> QED
    BY <2>1, <2>2, BackupAssumption DEF Stamps
<1>o. Begins(a)
  BY <1>t, BackupBegins
<1>w. /\ \A w \in writers' :
           \/ w = [stamp |-> began + 1, rev |-> data, alone |-> writers = {}]
           \/ ~w.alone /\ \E v \in writers : w.stamp = v.stamp /\ w.rev = v.rev
      /\ writers' \subseteq Writers
      /\ \A w \in writers' : w.alone => writers' = {w}
  <2> DEFINE mine == [stamp |-> began + 1, rev |-> data, alone |-> writers = {}]
             hers(w) == [w EXCEPT !.alone = FALSE]
  <2>1. writers' = {hers(w) : w \in writers} \cup {mine}
    BY DEF BeginBackup
  <2>2. mine \in Writers /\ mine.stamp = began + 1 /\ (mine.alone => writers = {})
    BY <1>s, Sets DEF Writers
  <2>3. ASSUME NEW w \in writers
        PROVE  /\ hers(w) \in Writers /\ ~hers(w).alone
               /\ hers(w).stamp = w.stamp /\ hers(w).rev = w.rev
    BY <1>t DEF TypeOK, Writers
  <2> HIDE DEF mine, hers
  <2>4. \A w \in writers' :
          \/ w = mine
          \/ ~w.alone /\ \E v \in writers : w.stamp = v.stamp /\ w.rev = v.rev
    BY <2>1, <2>3
  <2>5. writers' \subseteq Writers
    BY <2>1, <2>2, <2>3
  <2>6. \A w \in writers' : w.alone => writers' = {w}
    BY <2>1, <2>2, <2>3
  <2> USE DEF mine
  <2> QED
    BY <2>4, <2>5, <2>6
<1> USE DEF Begins
<1>1. TypeOK'
  <2>1. overlapped' \in BOOLEAN /\ began' \in 0..MaxOps
    <3>1. overlapped' = (overlapped \/ writers # {})
      BY DEF BeginBackup
    <3>2. overlapped' \in BOOLEAN
      BY <3>1
    <3> QED
      BY <1>s, <3>2, BackupAssumption DEF Stamps
  <2> QED
    BY <1>t, <1>s, <1>o, <1>w, <2>1, Sets DEF TypeOK
<1>2. Parts'
  BY <1>t, <1>s, <1>o DEF Parts, Active, Actors
<1>3. Fresh'
  <2>1. \A b \in Actors \ {a} : Active(b)' => op'[b].stamp \in 1..began
    BY <1>t, <1>o DEF Fresh, Active
  <2> QED
    BY <1>t, <1>s, <1>o, <1>w, <2>1 DEF Fresh, Active, Exists
<1>4. Writing'
  <2>1. \A w \in writers : w.stamp # began + 1
    BY <1>t, <1>s DEF Fresh
  <2>2. \A b \in Actors \ {a} : Active(b) => op[b].stamp # began + 1
    BY <1>t, <1>s DEF Fresh
  <2>3. \A w \in writers' : w.alone => writers' = {w}
    BY <1>w
  <2>4. ASSUME NEW b \in Actors, NEW w \in writers', op'[b].pc = "command",
               op'[b].stamp = w.stamp
        PROVE  w.rev = op'[b].rev
    BY <1>t, <1>o, <1>w, <2>1, <2>2, <2>4 DEF Writing, Active
  <2>5. \A b \in Actors : op'[b].pc = "copy" => ~op'[b].alone
    BY <1>o
  <2> QED
    BY <2>3, <2>4, <2>5 DEF Writing
<1>5. Moving'
  BY <1>t, <1>s, <1>o DEF Moving, Exists
<1>6. Kept'
  BY <1>t, <1>s DEF Kept, Exists
<1>7. Restoring'
  BY <1>t, <1>s, <1>o DEF Restoring, KnownGood
<1> QED
  BY <1>1, <1>2, <1>3, <1>4, <1>5, <1>6, <1>7 DEF Inv

LEMMA CommandEndsInv ==
    ASSUME Stamped, Inv, NEW w \in writers, CommandEnds(w)
    PROVE  Inv'
<1> USE DEF At, In
<1>t. TypeOK /\ Parts /\ Fresh /\ Writing /\ Moving /\ Kept /\ Restoring
  BY DEF Inv
<1>s. /\ UNCHANGED <<conf, data, newest, staged, dir, clock, incoming, hostFile,
                     overlapped, reported, began>>
      /\ writers' = writers \ {w} /\ w \in Writers
  BY <1>t DEF CommandEnds, TypeOK
<1>o. Finishes(w)
  BY <1>t, CommandFinishes
<1>a. artifact' \in Contents \cup {None}
  BY <1>t, <1>s, Sets DEF CommandEnds, TypeOK, Writers
<1> USE DEF Finishes
<1>1. TypeOK'
  BY <1>t, <1>s, <1>o, <1>a DEF TypeOK
<1>2. Parts'
  BY <1>t, <1>s, <1>o DEF Parts, Actors, Stops, Active
<1>3. Fresh'
  BY <1>t, <1>s, <1>o DEF Fresh, Stops, Active, Exists
<1>4. Writing'
  <2>1. \A v \in writers' : ~v.alone
    BY <1>t, <1>s DEF Writing
  <2>2. \A b \in Actors : op'[b].pc = "command" => op'[b] = op[b]
    BY <1>o DEF Stops
  <2>3. ASSUME NEW b \in Actors, op'[b].pc = "copy", op'[b].alone
        PROVE  writers' = {} /\ artifact' \in {op'[b].rev, None}
    <3>1. op'[b] # op[b]
      BY <1>t, <1>s, <2>3 DEF Writing
    <3>2. w.alone /\ op[b].stamp = w.stamp /\ op[b].pc = "command" /\ op'[b].rev = op[b].rev
          /\ artifact' \in {None, w.rev}
      BY <1>o, <2>3, <3>1 DEF Stops
    <3> QED
      BY <1>t, <1>s, <3>2 DEF Writing
  <2> QED
    BY <1>t, <1>s, <2>1, <2>2, <2>3 DEF Writing
<1>5. Moving'
  BY <1>t, <1>s, <1>o DEF Moving, Stops, Exists
<1>6. Kept'
  BY <1>t, <1>s DEF Kept, Exists
<1>7. Restoring'
  BY <1>t, <1>s, <1>o DEF Restoring, KnownGood, Stops
<1> QED
  BY <1>1, <1>2, <1>3, <1>4, <1>5, <1>6, <1>7 DEF Inv

LEMMA BeginRestoreInv ==
    ASSUME Stamped, Inv, NEW a \in Actors, BeginRestore(a)
    PROVE  Inv'
<1> USE DEF At, In
<1>t. TypeOK /\ Parts /\ Fresh /\ Writing /\ Moving /\ Kept /\ Restoring
  BY DEF Inv
<1>s. /\ a \in Restorers /\ a \notin Savers
      /\ began \in Nat /\ began' = began + 1 /\ began + 1 \in Stamps /\ began' \in 0..MaxOps
      /\ UNCHANGED <<conf, data, newest, artifact, writers, staged, dir, clock, incoming,
                     hostFile, overlapped, reported>>
  BY <1>t, BackupAssumption DEF BeginRestore, TypeOK, Stamps
<1>o. Chooses(a)
  BY <1>t, RestoreBegins
<1> USE DEF Chooses
<1>1. TypeOK'
  BY <1>t, <1>s, <1>o DEF TypeOK, OnlyOf
<1>2. Parts'
  BY <1>t, <1>s, <1>o DEF Parts, Active, Actors, OnlyOf
<1>3. Fresh'
  BY <1>t, <1>s, <1>o DEF Fresh, Active, Exists, OnlyOf
<1>4. Writing'
  BY <1>t, <1>s, <1>o DEF Writing, OnlyOf
<1>5. Moving'
  BY <1>t, <1>s, <1>o DEF Moving, Exists, OnlyOf
<1>6. Kept'
  BY <1>t, <1>s DEF Kept, Exists
<1>7. Restoring'
  BY <1>t, <1>s, <1>o DEF Restoring, KnownGood, OnlyOf
<1> QED
  BY <1>1, <1>2, <1>3, <1>4, <1>5, <1>6, <1>7 DEF Inv

LEMMA ReadBackupInv ==
    ASSUME Stamped, Inv, NEW a \in Actors, ReadBackup(a)
    PROVE  Inv'
<1> USE DEF At, In
<1>t. TypeOK /\ Parts /\ Fresh /\ Writing /\ Moving /\ Kept /\ Restoring
  BY DEF Inv
<1>s. /\ op[a].pc = "read" /\ op[a] \in Op
      /\ UNCHANGED <<conf, data, newest, artifact, writers, staged, dir, clock, incoming,
                     hostFile, overlapped, reported, began>>
  BY <1>t DEF ReadBackup, TypeOK
<1>o. Reads(a)
  BY <1>t, RestoreReads
<1> USE DEF Reads
<1>1. TypeOK'
  BY <1>t, <1>s, <1>o DEF TypeOK, OnlyOf
<1>2. Parts'
  BY <1>t, <1>s, <1>o DEF Parts, Active, Actors, OnlyOf, Stops
<1>3. Fresh'
  BY <1>t, <1>s, <1>o DEF Fresh, Active, Exists, OnlyOf, Stops
<1>4. Writing'
  BY <1>t, <1>s, <1>o DEF Writing, OnlyOf, Stops
<1>5. Moving'
  BY <1>t, <1>s, <1>o DEF Moving, Exists, OnlyOf, Stops
<1>6. Kept'
  BY <1>t, <1>s DEF Kept, Exists
<1>7. Restoring'
  <2>1. op'[a].pc = "upload" /\ op'[a].alone =>
          \E k \in reported : k.name = op'[a].from /\ k.alone /\ k.rev = op'[a].rev
    <3>1. SUFFICES ASSUME op'[a].pc = "upload", op'[a].alone
          PROVE  \E k \in reported : k.name = op'[a].from /\ k.alone /\ k.rev = op'[a].rev
      OBVIOUS
    <3>2. /\ Exists(op[a].from) /\ op'[a].from = op[a].from /\ op[a].alone
          /\ op'[a].rev = dir[op[a].from].content
      BY <1>o, <3>1 DEF Stops
    <3>3. PICK k \in reported : k.name = op[a].from /\ k.alone
      BY <1>t, <1>s, <3>2 DEF Restoring, KnownGood
    <3>4. dir[k.name].content = k.rev
      BY <1>t, <3>2, <3>3 DEF Kept
    <3> QED
      BY <3>2, <3>3, <3>4
  <2> QED
    BY <1>t, <1>s, <1>o, <2>1 DEF Restoring, KnownGood, OnlyOf, Stops
<1> QED
  BY <1>1, <1>2, <1>3, <1>4, <1>5, <1>6, <1>7 DEF Inv

LEMMA WriteInv == Inv /\ Write => Inv'
<1> SUFFICES ASSUME Inv, Write PROVE Inv'
  OBVIOUS
<1>t. TypeOK /\ Parts /\ Fresh /\ Writing /\ Moving /\ Kept /\ Restoring
  BY DEF Inv
<1>1. TypeOK'
  BY <1>t, BackupAssumption DEF Write, TypeOK, Data, Revisions
<1>2. Parts' /\ Fresh' /\ Writing' /\ Moving' /\ Kept' /\ Restoring'
  BY <1>t DEF Write, Parts, Fresh, Writing, Moving, Kept, Restoring, KnownGood, Exists, In,
     At, Active
<1> QED
  BY <1>1, <1>2 DEF Inv

LEMMA InitInv == Init => Inv
<1> SUFFICES ASSUME Init PROVE Inv
  OBVIOUS
<1>1. Idle \in Op
  BY Sets DEF Idle, Op, PCs
<1>2. TypeOK
  <2>1. op \in [Actors -> Op]
    BY <1>1 DEF Init
  <2>2. /\ staged \in [Stamps -> Contents \cup {None}] /\ dir \in [Names -> File]
        /\ incoming \in [Names -> Contents \cup {None}]
    BY DEF Init, File, NoFile
  <2>3. /\ artifact \in Contents \cup {None} /\ writers \subseteq Writers
        /\ reported \subseteq [name : Names, rev : Contents, alone : BOOLEAN]
        /\ conf \in [mode : Modes, retain : Retains, place : Places]
        /\ clock \in Nat /\ hostFile \in BOOLEAN /\ overlapped \in BOOLEAN
    BY DEF Init
  <2>4. data \in Data /\ newest \in Revisions /\ began \in 0..MaxOps
    BY Sets, BackupAssumption DEF Init
  <2> QED
    BY <2>1, <2>2, <2>3, <2>4 DEF TypeOK
<1>3. Parts /\ Fresh /\ Writing /\ Moving /\ Kept /\ Restoring
  BY DEF Init, Idle, Parts, Fresh, Writing, Moving, Kept, Restoring, Actors, In, At, Active,
         Exists, NoFile
<1> QED
  BY <1>2, <1>3 DEF Inv

LEMMA StepInv == Stamped /\ Inv /\ [Next]_vars => Inv'
<1> SUFFICES ASSUME Stamped, Inv, [Next]_vars PROVE Inv'
  OBVIOUS
<1>1. CASE UNCHANGED vars
  BY <1>1 DEF vars, Inv, TypeOK, Parts, Fresh, Writing, Moving, Kept, Restoring, KnownGood,
              Exists, In, At, Active
<1>2. CASE \E a \in Actors :
              \/ BeginBackup(a) \/ Stage(a) \/ RemoveArtifact(a) \/ CreateFile(a)
              \/ Download(a) \/ Unstage(a) \/ Prune(a) \/ Report(a)
  BY <1>2, BeginBackupInv, StageInv, RemoveArtifactInv, CreateFileInv, DownloadInv,
     UnstageInv, PruneInv, ReportInv
<1>3. CASE \E a \in Actors :
              \/ BeginRestore(a) \/ ReadBackup(a) \/ UploadBackup(a) \/ Apply(a)
              \/ CleanUp(a) \/ Breaks(a) \/ Killed(a)
  BY <1>3, BeginRestoreInv, ReadBackupInv, UploadBackupInv, ApplyInv, CleanUpInv,
     BreaksInv, KilledInv
<1> QED
  BY <1>1, <1>2, <1>3, CommandEndsInv, WriteInv DEF Next

LEMMA Invariant == Stamped => (Spec => []Inv)
<1> SUFFICES ASSUME Stamped PROVE Spec => []Inv
  OBVIOUS
<1>1. Inv /\ [Next]_vars => Inv'
  BY StepInv
<1> QED
  BY <1>1, InitInv, PTL DEF Spec

\* Every variable has its type in every reachable state (Backup, Restore), where
\* artifact names have their stamp.
THEOREM BackupTypeOK == Stamped => (Spec => []TypeOK)
<1> SUFFICES ASSUME Stamped PROVE Spec => []TypeOK
  OBVIOUS
<1>1. Inv => TypeOK
  BY DEF Inv
<1> QED
  BY <1>1, Invariant, PTL

-----------------------------------------------------------------------------
(* Restores, with any number of savers beside them *)

\* Nobody else's file can come where this command reads.
Apart == conf.place = "default" \/ \A a, b \in Restorers : a = b

LEMMA PathsDiffer ==
    ASSUME Inv, Apart, NEW a \in Actors, NEW b \in Actors \ {a},
           In(a, {"upload", "apply", "clean"}), In(b, {"upload", "apply", "clean"})
    PROVE  Path(a) # Path(b) /\ Path(a) \in Names
<1>1. a \in Restorers /\ b \in Restorers
  BY DEF Inv, Parts, In, Actors
<1>2. conf.place = "default"
  BY <1>1 DEF Apart
<1>3. op[a].stamp # op[b].stamp /\ op[a].stamp \in Names
  BY DEF Inv, TypeOK, Op, Fresh, Active, In
<1> QED
  BY <1>2, <1>3 DEF Path

PlacedApart == Apart => Placed

LEMMA StepPlaced == Inv /\ PlacedApart /\ [Next]_vars => PlacedApart'
<1> SUFFICES ASSUME Inv, PlacedApart, [Next]_vars, Apart', NEW a \in Actors, At(a, "apply")'
             PROVE  (incoming[Path(a)] = op[a].rev)'
  BY DEF PlacedApart, Placed
<1>t. TypeOK /\ Parts
  BY DEF Inv
<1>c. UNCHANGED conf
  BY DEF vars, Next, BeginBackup, Stage, RemoveArtifact, CreateFile, Download, Unstage, Prune,
         Report, BeginRestore, ReadBackup, UploadBackup, Apply, CleanUp, Breaks, Killed,
         CommandEnds, Write
<1>p. Apart /\ Placed
  BY <1>c DEF Apart, PlacedApart
<1>1. CASE /\ op'[a].pc = op[a].pc /\ op'[a].stamp = op[a].stamp /\ op'[a].rev = op[a].rev
           /\ UNCHANGED incoming
  BY <1>1, <1>c, <1>p DEF Placed, Path, At
<1>2. ASSUME NEW b \in Actors \ {a}, UploadBackup(b) \/ CleanUp(b)
      PROVE  (incoming[Path(a)] = op[a].rev)'
  <2>1. op'[a] = op[a] /\ In(b, {"upload", "clean"})
    BY <1>t, <1>2, Acts DEF OnlyOf, UploadBackup, CleanUp, At, In
  <2>2. Path(a) # Path(b) /\ Path(a) \in Names
    BY <1>p, <2>1, PathsDiffer DEF In, At
  <2>3. incoming'[Path(a)] = incoming[Path(a)]
    BY <1>2, <1>t, <2>2 DEF UploadBackup, CleanUp, TypeOK
  <2>4. UNCHANGED Path(a)
    BY <1>c, <2>1 DEF Path
  <2> QED
    BY <1>p, <2>1, <2>3, <2>4 DEF Placed, At
<1>3. CASE UploadBackup(a)
  <2>1. op'[a].stamp = op[a].stamp /\ op'[a].rev = op[a].rev
    BY <1>3, <1>t, Acts DEF Moves
  <2>2. Path(a) \in Names /\ UNCHANGED Path(a)
    BY <1>t, <1>c, <2>1, Sets DEF Path, TypeOK, Op
  <2> QED
    BY <1>3, <1>t, <2>1, <2>2 DEF UploadBackup, TypeOK
<1>4. CASE UNCHANGED vars
  BY <1>1, <1>4 DEF vars
<1>5. ASSUME NEW b \in Actors,
             \/ Stage(b) \/ RemoveArtifact(b) \/ CreateFile(b) \/ Download(b) \/ Unstage(b)
             \/ Prune(b) \/ Report(b) \/ Apply(b) \/ CleanUp(b) \/ Breaks(b) \/ Killed(b)
             \/ UploadBackup(b)
      PROVE  (incoming[Path(a)] = op[a].rev)'
  <2>1. CASE b = a
    BY <1>3, <1>5, <2>1, <1>t, Acts DEF Moves, Stops, At
  <2>2. CASE b # a
    <3>1. op'[a] = op[a]
      BY <1>5, <1>t, <2>2, Acts DEF OnlyOf
    <3>2. CASE ~(UploadBackup(b) \/ CleanUp(b))
      BY <1>1, <1>5, <3>1, <3>2 DEF Stage, RemoveArtifact, CreateFile, Download, Unstage, Prune,
         Report, Apply, Breaks, Killed
    <3> QED
      BY <1>2, <2>2, <3>2
  <2> QED
    BY <2>1, <2>2
<1>6. ASSUME NEW b \in Actors, BeginBackup(b) \/ BeginRestore(b) \/ ReadBackup(b)
      PROVE  (incoming[Path(a)] = op[a].rev)'
  <2>1. /\ UNCHANGED incoming /\ op'[b].pc # "apply"
        /\ b # a => /\ op'[a].pc = op[a].pc /\ op'[a].stamp = op[a].stamp
                    /\ op'[a].rev = op[a].rev
    <3>1. CASE BeginBackup(b)
      <4>1. UNCHANGED incoming
        BY <3>1 DEF BeginBackup
      <4> QED
        BY <1>t, <3>1, <4>1, BackupBegins DEF Begins
    <3>2. CASE BeginRestore(b)
      BY <1>t, <3>2, RestoreBegins DEF BeginRestore, Chooses, OnlyOf
    <3>3. CASE ReadBackup(b)
      BY <1>t, <3>3, RestoreReads DEF ReadBackup, Reads, OnlyOf, Stops
    <3> QED
      BY <1>6, <3>1, <3>2, <3>3
  <2> QED
    BY <1>1, <2>1 DEF At
<1>7. ASSUME NEW w \in writers, CommandEnds(w)
      PROVE  (incoming[Path(a)] = op[a].rev)'
  BY <1>1, <1>7, <1>t, CommandFinishes DEF CommandEnds, Finishes, Stops, At
<1>8. CASE Write
  BY <1>1, <1>8 DEF Write
<1> QED
  BY <1>4, <1>5, <1>6, <1>7, <1>8 DEF Next

\* The step of a restore whose command succeeds is Apply.
LEMMA Applies ==
    ASSUME TypeOK, Next, NEW a \in Actors, At(a, "apply"), op'[a].pc = "clean"
    PROVE  Apply(a) /\ ~Ends(a, "failed")
<1>1. ASSUME NEW b \in Actors \ {a} PROVE OnlyOf(b) => op'[a].pc = "apply"
  BY DEF OnlyOf, At
<1>2. ASSUME NEW b \in Actors,
             \/ Stage(b) \/ RemoveArtifact(b) \/ CreateFile(b) \/ Download(b) \/ Unstage(b)
             \/ Prune(b) \/ Report(b) \/ UploadBackup(b) \/ Apply(b) \/ CleanUp(b)
             \/ Breaks(b) \/ Killed(b)
      PROVE  Apply(a)
  BY <1>1, <1>2, Acts DEF Moves, Stops
<1>3. ASSUME NEW b \in Actors PROVE ~(BeginBackup(b) \/ BeginRestore(b) \/ ReadBackup(b))
  BY <1>1, BackupBegins, RestoreBegins, RestoreReads DEF Begins, Chooses, Reads, Stops, At
<1>4. ASSUME NEW w \in writers PROVE ~CommandEnds(w)
  BY CommandFinishes DEF Finishes, At
<1>5. ~Write
  BY DEF Write, At
<1>6. ~Ends(a, "failed")
  BY ComesToEnd DEF Stops
<1> QED
  BY <1>2, <1>3, <1>4, <1>5, <1>6 DEF Next

LEMMA StepRoundTrip ==
    ASSUME Inv, Placed, Next, NEW a \in Restorers, NEW k \in reported,
           At(a, "apply"), op'[a].pc = "clean", op[a].alone, k.name = op[a].from
    PROVE  data' = k.rev
<1>1. a \in Actors /\ Apply(a) /\ ~Ends(a, "failed")
  BY Applies DEF Inv, Actors
<1>2. data' = IF incoming[Path(a)] = Torn THEN Half ELSE incoming[Path(a)]
  BY <1>1 DEF Apply
<1>3. PICK j \in reported : j.name = op[a].from /\ j.rev = op[a].rev
  BY <1>1 DEF Inv, Restoring, At, In
<1>4. k.rev = op[a].rev /\ k.rev \in Data
  BY <1>3 DEF Inv, Kept
<1>5. incoming[Path(a)] = k.rev
  BY <1>1, <1>4 DEF Placed
<1> QED
  BY <1>2, <1>4, <1>5, Sets

\* A restore whose command succeeds, of a file known to be complete, brings back
\* the data as they were when that backup's command began, with any number of
\* backups going on and any retention: where one restores at a time.
THEOREM BackupRoundTrip ==
    ASSUME Stamped, \A a, b \in Restorers : a = b
    PROVE  Spec => RoundTrip
<1>1. Init => PlacedApart
  BY DEF Init, PlacedApart, Placed, At, Idle
<1>2. Spec => [](Inv /\ PlacedApart)
  BY <1>1, StepPlaced, Invariant, PTL DEF Spec
<1>3. PlacedApart => Placed
  BY DEF PlacedApart, Apart
<1>4. Inv /\ PlacedApart /\ [Next]_vars =>
        [\A a \in Restorers, k \in reported :
           At(a, "apply") /\ op'[a].pc = "clean" /\ op[a].alone /\ k.name = op[a].from =>
             data' = k.rev]_vars
  BY <1>3, StepRoundTrip
<1> QED
  BY <1>2, <1>4, PTL DEF Spec, RoundTrip

\* The same with any number of restorers, where restore.artifact is not set.
THEOREM RoundTripUnderOwnPaths ==
    ASSUME Stamped
    PROVE  Spec => [][conf.place = "default" =>
             \A a \in Restorers, k \in reported :
               At(a, "apply") /\ op'[a].pc = "clean" /\ op[a].alone /\ k.name = op[a].from =>
                 data' = k.rev]_vars
<1>1. Init => PlacedApart
  BY DEF Init, PlacedApart, Placed, At, Idle
<1>2. Spec => [](Inv /\ PlacedApart)
  BY <1>1, StepPlaced, Invariant, PTL DEF Spec
<1>3. PlacedApart /\ conf.place = "default" => Placed
  BY DEF PlacedApart, Apart
<1>4. Inv /\ PlacedApart /\ [Next]_vars =>
        [conf.place = "default" =>
           \A a \in Restorers, k \in reported :
             At(a, "apply") /\ op'[a].pc = "clean" /\ op[a].alone /\ k.name = op[a].from =>
               data' = k.rev]_vars
  BY <1>3, StepRoundTrip
<1> QED
  BY <1>2, <1>4, PTL DEF Spec

-----------------------------------------------------------------------------
(* Backups, one at a time, with any number of restorers beside them *)

OneSaver == \A a, b \in Savers : a = b

\* Whoever is at a step of a backup is the saver.
LEMMA OnlySaver ==
    ASSUME Inv, OneSaver, NEW a \in Actors, NEW b \in Actors,
           op[a].pc \notin {"idle", "read", "upload", "apply", "clean"},
           op[b].pc \notin {"idle", "read", "upload", "apply", "clean"}
    PROVE  a = b
BY DEF Inv, Parts, In, Actors, OneSaver

\* What matters of a step that leaves the backup directory and the retention
\* alone: no invocation comes nearer to its end.
LEMMA DirStays ==
    ASSUME Filed, UNCHANGED <<conf, dir, clock>>,
           \A a \in Actors :
              \/ op'[a].stamp = op[a].stamp /\ op'[a].pc = op[a].pc
              \/ op'[a].pc \notin {"download", "unstage", "prune", "stat"}
    PROVE  Filed'
BY DEF Filed, In, At, Exists

LEMMA StepSole ==
    ASSUME Inv, OneSaver, Sole, Next
    PROVE  Sole'
<1> SUFFICES ASSUME ~overlapped' PROVE /\ \A a \in Savers : Active(a)' => op'[a].alone
                                       /\ \A w \in writers' : w.alone
  BY DEF Sole
<1>t. TypeOK /\ Parts /\ Savers \subseteq Actors
  BY DEF Inv, Actors
<1>1. ASSUME NEW b \in Actors, BeginBackup(b)
      PROVE  /\ \A a \in Savers : Active(a)' => op'[a].alone
             /\ \A w \in writers' : w.alone
  <2>1. overlapped' = (overlapped \/ writers # {}) /\ b \in Savers
    BY <1>1 DEF BeginBackup
  <2>2. writers = {}
    BY <2>1
  <2>3. op'[b].alone /\ \A a \in Savers : a = b
    BY <1>1, <1>t, <2>1, <2>2, BackupBegins DEF Begins, OneSaver
  <2>4. writers' = {[stamp |-> began + 1, rev |-> data, alone |-> TRUE]}
    BY <1>1, <2>2 DEF BeginBackup
  <2> QED
    BY <2>3, <2>4
<1>2. CASE ~\E b \in Actors : BeginBackup(b)
  <2>1. UNCHANGED overlapped /\ writers' \subseteq writers
    BY <1>2 DEF Next, Stage, RemoveArtifact, CreateFile, Download, Unstage, Prune, Report,
       BeginRestore, ReadBackup, UploadBackup, Apply, CleanUp, Breaks, Killed, CommandEnds,
       Write
  <2>2. /\ \A a \in Savers : Active(a) => op[a].alone
        /\ \A w \in writers : w.alone
    BY <2>1 DEF Sole
  <2>3. ASSUME NEW a \in Savers, op'[a].pc # "idle", op[a].pc # "idle"
        PROVE  op'[a].alone
    <3>1. op[a].alone /\ ~In(a, {"read", "upload", "apply", "clean"})
      BY <1>t, <2>2, <2>3 DEF Active, Parts
    <3>2. ASSUME NEW b \in Actors,
                 \/ Stage(b) \/ RemoveArtifact(b) \/ CreateFile(b) \/ Download(b) \/ Unstage(b)
                 \/ Prune(b) \/ Report(b) \/ UploadBackup(b) \/ Apply(b) \/ CleanUp(b)
                 \/ Breaks(b) \/ Killed(b)
          PROVE  op'[a].alone
      BY <1>t, <2>3, <3>1, <3>2, Acts DEF Moves, Stops, OnlyOf
    <3>3. ASSUME NEW b \in Actors, BeginRestore(b) \/ ReadBackup(b)
          PROVE  op'[a].alone
      <4>1. op[b].pc \in {"idle", "read"}
        BY <3>3 DEF BeginRestore, ReadBackup, At
      <4>2. OnlyOf(b)
        BY <1>t, <3>3, RestoreBegins, RestoreReads DEF Chooses, Reads
      <4> QED
        BY <1>t, <2>3, <3>1, <4>1, <4>2 DEF OnlyOf, In
    <3>4. ASSUME NEW w \in writers, CommandEnds(w)
          PROVE  op'[a].alone
      BY <1>t, <2>2, <2>3, <3>1, <3>4, CommandFinishes DEF Finishes, Stops
    <3>5. CASE Write
      BY <3>1, <3>5 DEF Write
    <3> QED
      BY <1>2, <3>2, <3>3, <3>4, <3>5 DEF Next
  <2>4. ASSUME NEW a \in Savers, op[a].pc = "idle"
        PROVE  op'[a].pc = "idle"
    <3>1. a \notin Restorers
      BY BackupAssumption
    <3>2. ASSUME NEW b \in Actors,
                 \/ Stage(b) \/ RemoveArtifact(b) \/ CreateFile(b) \/ Download(b) \/ Unstage(b)
                 \/ Prune(b) \/ Report(b) \/ UploadBackup(b) \/ Apply(b) \/ CleanUp(b)
                 \/ Breaks(b) \/ Killed(b)
          PROVE  op'[a].pc = "idle"
      <4>1. b # a
        BY <2>4, <3>2 DEF Stage, RemoveArtifact, CreateFile, Download, Unstage, Prune, Report,
           UploadBackup, Apply, CleanUp, Breaks, Killed, At
      <4> QED
        BY <1>t, <2>4, <3>2, <4>1, Acts DEF OnlyOf
    <3>3. ASSUME NEW b \in Actors, BeginRestore(b) \/ ReadBackup(b)
          PROVE  op'[a].pc = "idle"
      <4>1. b # a
        BY <2>4, <3>1, <3>3 DEF BeginRestore, ReadBackup, At
      <4> QED
        BY <1>t, <2>4, <3>3, <4>1, RestoreBegins, RestoreReads DEF Chooses, Reads, OnlyOf
    <3>4. ASSUME NEW w \in writers, CommandEnds(w)
          PROVE  op'[a].pc = "idle"
      BY <1>t, <2>4, <3>4, CommandFinishes DEF Finishes
    <3>5. CASE Write
      BY <2>4, <3>5 DEF Write
    <3> QED
      BY <1>2, <3>2, <3>3, <3>4, <3>5 DEF Next
  <2> QED
    BY <2>1, <2>2, <2>3, <2>4 DEF Active
<1> QED
  BY <1>1, <1>2

\* While the saver moves alone, nobody else is at a step of a backup.
LEMMA OthersOut ==
    ASSUME Inv, OneSaver, NEW a \in Actors, OnlyOf(a),
           In(a, {"copy", "rm", "create", "download", "unstage", "prune", "stat"}),
           NEW b \in Actors \ {a}
    PROVE  op'[b].pc \in {"idle", "read", "upload", "apply", "clean"}
<1>1. op'[b] = op[b] /\ op[b].pc \in PCs
  BY DEF OnlyOf, Inv, TypeOK, Op
<1> QED
  BY <1>1, OnlySaver DEF In, PCs

\* The newest file stays, and with it the only one of a saver that prunes.
LEMMA PruneSparesOwn ==
    ASSUME Stamped, Inv, Filed, NEW a \in Actors, Prune(a)
    PROVE  dir'[op[a].stamp] = dir[op[a].stamp]
<1> DEFINE n == op[a].stamp
<1>1. n \in Names /\ op[a].pc = "prune" /\ conf.retain > 0 /\ conf.retain \in Nat
  BY BackupAssumption DEF Inv, TypeOK, Op, Filed, Prune, At
<1>2. \A m \in Names : ~(dir[m].at > dir[n].at)
  BY <1>1 DEF Inv, TypeOK, File, Filed, In
<1>3. Newer(dir, n) = {}
  BY <1>2 DEF Newer
<1>4. Cardinality(Newer(dir, n)) < conf.retain
  BY <1>1, <1>3, FS_EmptySet
<1> QED
  BY <1>1, <1>4 DEF Prune, Pruned

LEMMA StepFiled ==
    ASSUME Stamped, Inv, OneSaver, Filed, Next
    PROVE  Filed'
<1>t. TypeOK /\ Fresh
  BY DEF Inv
<1>f. ASSUME NEW n \in Names
      PROVE  dir[n] \in File /\ dir[n].at \in Nat /\ clock \in Nat /\ dir[n].at <= clock
  BY <1>t DEF TypeOK, File, Filed
<1>1. ASSUME NEW a \in Actors, CreateFile(a) PROVE Filed'
  <2>1. op[a].stamp \in Names /\ Name(a) = op[a].stamp /\ UNCHANGED conf
    BY <1>1, <1>t DEF TypeOK, Op, Name, CreateFile
  <2>2. OnlyOf(a) /\ op'[a].pc = "download" /\ op'[a].stamp = op[a].stamp /\ op[a].pc = "create"
    BY <1>1, <1>t, Acts DEF Moves, CreateFile, At
  <2>3. \A b \in Actors \ {a} : op'[b].pc \in {"idle", "read", "upload", "apply", "clean"}
    BY <2>2, OthersOut DEF In
  <2>4. dir' = [dir EXCEPT ![op[a].stamp] = [content |-> Torn, at |-> clock + 1]]
        /\ clock' = clock + 1
    BY <1>1, <2>1 DEF CreateFile, Wrote
  <2>5. Exists(op[a].stamp)' /\ \A n \in Names : dir'[n].at <= clock'
    BY <1>t, <1>f, <2>1, <2>2, <2>4 DEF TypeOK, Exists, Torn, None
  <2> QED
    BY <2>2, <2>3, <2>5 DEF Filed, In, At, Exists
<1>2. ASSUME NEW a \in Actors, Download(a) PROVE Filed'
  <2>1. op[a].stamp \in Names /\ Name(a) = op[a].stamp /\ UNCHANGED conf
    BY <1>2, <1>t DEF TypeOK, Op, Name, Download
  <2>2. OnlyOf(a) /\ op[a].pc = "download" /\ Exists(op[a].stamp)
    BY <1>2, <1>t, Acts DEF Download, At, Filed, In
  <2>3. \A b \in Actors \ {a} : op'[b].pc \in {"idle", "read", "upload", "apply", "clean"}
    BY <2>2, OthersOut DEF In
  <2>4. CASE Goes(a, "unstage")
    <3>1. op'[a].pc = "unstage" /\ op'[a].stamp = op[a].stamp
      BY <1>t, <2>4, GoesOn DEF PCs, Moves
    <3>2. ~Ends(a, "failed")
      BY <1>t, <3>1, ComesToEnd DEF Stops
    <3>3. /\ staged[op[a].stamp] # None /\ clock' = clock + 1
          /\ dir' = [dir EXCEPT ![op[a].stamp] = [content |-> staged[op[a].stamp], at |-> clock + 1]]
      BY <1>2, <2>1, <2>2, <3>2 DEF Download, Wrote
    <3>4. /\ Exists(op[a].stamp)' /\ \A n \in Names : dir'[n].at <= clock'
          /\ \A n \in Names \ {op[a].stamp} : dir'[n].at < dir'[op[a].stamp].at
      BY <1>t, <1>f, <2>1, <3>1, <3>3 DEF TypeOK, Exists
    <3> QED
      BY <2>3, <3>1, <3>4 DEF Filed, In, At, Exists
  <2>5. CASE ~Goes(a, "unstage")
    <3>1. /\ dir' \in {dir, [dir EXCEPT ![op[a].stamp] = NoFile]} /\ clock' = clock
          /\ op'[a].pc = "idle"
      BY <1>2, <1>t, <2>1, <2>5, ComesToEnd DEF Download, Stops
    <3>2. \A n \in Names : dir'[n].at <= clock'
      BY <1>t, <1>f, <2>1, <3>1 DEF TypeOK, NoFile
    <3> QED
      BY <2>3, <3>1, <3>2 DEF Filed, In, At
  <2> QED
    BY <2>4, <2>5
<1>3. ASSUME NEW a \in Actors, Unstage(a) PROVE Filed'
  <2>1. OnlyOf(a) /\ op[a].pc = "unstage" /\ op'[a].stamp = op[a].stamp
        /\ UNCHANGED <<conf, dir, clock>>
    BY <1>3, <1>t, Acts DEF Moves, Unstage, At
  <2>2. \A b \in Actors \ {a} : op'[b].pc \in {"idle", "read", "upload", "apply", "clean"}
    BY <2>1, OthersOut DEF In
  <2>3. \/ conf.retain > 0 /\ op'[a].pc = "prune"
        \/ op'[a].pc = "stat"
    BY <1>3, <1>t, GoesOn DEF Unstage, Moves, PCs
  <2> QED
    BY <2>1, <2>2, <2>3 DEF Filed, In, At, Exists
<1>4. ASSUME NEW a \in Actors, Prune(a) PROVE Filed'
  <2>1. OnlyOf(a) /\ op[a].pc = "prune" /\ op'[a].stamp = op[a].stamp /\ op'[a].pc = "stat"
        /\ UNCHANGED <<conf, clock>>
    BY <1>4, <1>t, Acts DEF Moves, Prune, At
  <2>2. \A b \in Actors \ {a} : op'[b].pc \in {"idle", "read", "upload", "apply", "clean"}
    BY <2>1, OthersOut DEF In
  <2>3. Exists(op[a].stamp)'
    BY <1>4, <2>1, PruneSparesOwn DEF Filed, In, Exists
  <2>4. \A n \in Names : dir'[n].at <= clock'
    BY <1>4, <1>f, <2>1 DEF Prune, Pruned, NoFile
  <2> QED
    BY <2>1, <2>2, <2>3, <2>4 DEF Filed, In, At, Exists
<1>5. ASSUME NEW a \in Actors,
             \/ Stage(a) \/ RemoveArtifact(a) \/ Report(a) \/ UploadBackup(a) \/ Apply(a)
             \/ CleanUp(a) \/ Breaks(a) \/ Killed(a)
      PROVE  Filed'
  <2>1. OnlyOf(a) /\ op'[a].pc \notin {"download", "unstage", "prune", "stat"}
    BY <1>5, <1>t, Acts DEF Moves, Stops
  <2>2. UNCHANGED <<conf, dir, clock>>
    BY <1>5 DEF Stage, RemoveArtifact, Report, UploadBackup, Apply, CleanUp, Breaks, Killed
  <2> QED
    BY <2>1, <2>2, DirStays DEF OnlyOf
<1>6. ASSUME NEW a \in Actors, BeginBackup(a) PROVE Filed'
  <2>1. UNCHANGED <<conf, dir, clock>>
    BY <1>6 DEF BeginBackup
  <2> QED
    BY <1>6, <1>t, <2>1, BackupBegins, DirStays DEF Begins
<1>7. ASSUME NEW a \in Actors, BeginRestore(a) \/ ReadBackup(a) PROVE Filed'
  <2>1. UNCHANGED <<conf, dir, clock>>
    BY <1>7 DEF BeginRestore, ReadBackup
  <2> QED
    BY <1>7, <1>t, <2>1, RestoreBegins, RestoreReads, DirStays DEF Chooses, Reads, OnlyOf, Stops
<1>8. ASSUME NEW w \in writers, CommandEnds(w) PROVE Filed'
  <2>1. UNCHANGED <<conf, dir, clock>>
    BY <1>8 DEF CommandEnds
  <2> QED
    BY <1>8, <1>t, <2>1, CommandFinishes, DirStays DEF Finishes, Stops
<1>9. CASE Write
  BY <1>9, DirStays DEF Write
<1> QED
  BY <1>1, <1>2, <1>3, <1>4, <1>5, <1>6, <1>7, <1>8, <1>9 DEF Next

\* The backups there are of complete data, and not being written now.
Good(n) ==
    /\ n \in Names /\ dir[n].content \in Data
    /\ \A a \in Actors : In(a, Before) => op[a].stamp # n

LEMMA GoodStays ==
    ASSUME Inv, UNCHANGED dir, NEW n, Good(n),
           \A a \in Actors :
              \/ op'[a].pc \notin Before
              \/ op[a].pc \in Before /\ op'[a].stamp = op[a].stamp
              \/ op'[a].stamp = began + 1
    PROVE  Good(n)'
<1>1. n \in 0..began /\ began \in Nat
  BY BackupAssumption, Sets DEF Inv, TypeOK, Fresh, Exists, Good
<1> QED
  BY <1>1 DEF Good, In

\* A backup alone with its artifact is good once it has been downloaded.
LEMMA OwnIsGood ==
    ASSUME Stamped, Inv, OneSaver, Filed, Sole, ~overlapped, NEW a \in Actors,
           In(a, {"unstage", "prune", "stat"})
    PROVE  dir[op[a].stamp].content \in Data /\ op[a].stamp \in Names
<1>1. a \in Savers /\ Active(a)
  BY DEF Inv, Parts, Actors, In, Active
<1>2. op[a].alone /\ op[a].rev \in Data /\ op[a].stamp \in Names
  BY <1>1 DEF Inv, TypeOK, Parts, Op, Sole
<1>3. Exists(op[a].stamp)
  BY DEF Filed, In
<1>4. dir[op[a].stamp].content = op[a].rev
  BY <1>2, <1>3 DEF Inv, Moving, In
<1> QED
  BY <1>2, <1>4

LEMMA StepRemains ==
    ASSUME Stamped, Inv, OneInv, OneSaver, Next
    PROVE  Remains'
<1> SUFFICES ASSUME reported' # {}, ~overlapped' PROVE \E n \in Names : Good(n)'
  BY DEF Remains, Good
<1>t. TypeOK /\ Fresh /\ Filed /\ Sole /\ Remains
  BY DEF Inv, OneInv
<1>o. ~overlapped
  <2>1. CASE \E b \in Actors : BeginBackup(b)
    BY <2>1 DEF BeginBackup
  <2>2. CASE ~\E b \in Actors : BeginBackup(b)
    BY <2>2 DEF Next, Stage, RemoveArtifact, CreateFile, Download, Unstage, Prune, Report,
       BeginRestore, ReadBackup, UploadBackup, Apply, CleanUp, Breaks, Killed, CommandEnds, Write
  <2> QED
    BY <2>1, <2>2
<1>1. ASSUME NEW a \in Actors, Report(a) PROVE \E n \in Names : Good(n)'
  <2>1. OnlyOf(a) /\ op[a].pc = "stat" /\ op'[a].pc = "idle" /\ UNCHANGED dir
    BY <1>1, <1>t, Acts DEF Report, Stops, At
  <2>2. \A b \in Actors \ {a} : op'[b].pc \in {"idle", "read", "upload", "apply", "clean"}
    BY <2>1, OthersOut DEF In
  <2>3. PICK n \in Names : n = op[a].stamp /\ dir[n].content \in Data
    BY <1>t, <1>o, <2>1, OwnIsGood DEF In
  <2>4. Good(n)'
    BY <2>1, <2>2, <2>3 DEF Good, In, Before
  <2> QED
    BY <2>4
<1>2. ASSUME NEW a \in Actors, Prune(a) PROVE \E n \in Names : Good(n)'
  <2>1. OnlyOf(a) /\ op[a].pc = "prune" /\ op'[a].pc = "stat" /\ op'[a].stamp = op[a].stamp
    BY <1>2, <1>t, Acts DEF Prune, Moves, At
  <2>2. \A b \in Actors \ {a} : op'[b].pc \in {"idle", "read", "upload", "apply", "clean"}
    BY <2>1, OthersOut DEF In
  <2>3. PICK n \in Names : n = op[a].stamp /\ dir[n].content \in Data
    BY <1>t, <1>o, <2>1, OwnIsGood DEF In
  <2>4. dir'[n] = dir[n]
    BY <1>2, <1>t, <2>3, PruneSparesOwn
  <2>5. Good(n)'
    BY <2>1, <2>2, <2>3, <2>4 DEF Good, In, Before
  <2> QED
    BY <2>5
<1>3. CASE UNCHANGED reported
  <2>1. PICK n \in Names : Good(n)
    BY <1>t, <1>o, <1>3 DEF Remains, Good
  <2>2. ASSUME NEW a \in Actors, CreateFile(a) \/ Download(a) PROVE Good(n)'
    <3>1. op[a].stamp \in Names /\ Name(a) = op[a].stamp /\ op[a].pc \in Before
      BY <2>2, <1>t DEF TypeOK, Op, Name, CreateFile, Download, At, Before
    <3>2. op[a].stamp # n
      BY <2>1, <3>1 DEF Good, In
    <3>3. dir'[n] = dir[n]
      BY <1>t, <2>2, <3>1, <3>2 DEF CreateFile, Download, Wrote, TypeOK
    <3>4. OnlyOf(a) /\ (op'[a].stamp = op[a].stamp \/ op'[a].pc \notin Before)
      BY <1>t, <2>2, Acts DEF Moves, Stops, Before
    <3> QED
      BY <2>1, <3>2, <3>3, <3>4 DEF Good, In, OnlyOf
  <2>3. ASSUME NEW a \in Actors,
               \/ Stage(a) \/ RemoveArtifact(a) \/ Unstage(a) \/ UploadBackup(a) \/ Apply(a)
               \/ CleanUp(a) \/ Breaks(a) \/ Killed(a)
        PROVE  Good(n)'
    <3>1. /\ OnlyOf(a)
          /\ \/ op'[a].pc \notin Before
             \/ op[a].pc \in Before /\ op'[a].stamp = op[a].stamp
      BY <2>3, <1>t, Acts DEF Moves, Stops, Before, Stage, RemoveArtifact, At
    <3>2. UNCHANGED dir
      BY <2>3 DEF Stage, RemoveArtifact, Unstage, UploadBackup, Apply, CleanUp, Breaks, Killed
    <3> QED
      BY <2>1, <3>1, <3>2, GoodStays DEF OnlyOf
  <2>4. ASSUME NEW a \in Actors, BeginBackup(a) PROVE Good(n)'
    <3>1. UNCHANGED dir
      BY <2>4 DEF BeginBackup
    <3> QED
      BY <1>t, <2>1, <2>4, <3>1, BackupBegins, GoodStays DEF Begins
  <2>5. ASSUME NEW a \in Actors, BeginRestore(a) \/ ReadBackup(a) PROVE Good(n)'
    <3>1. UNCHANGED dir
      BY <2>5 DEF BeginRestore, ReadBackup
    <3> QED
      BY <1>t, <2>1, <2>5, <3>1, RestoreBegins, RestoreReads, GoodStays
         DEF Chooses, Reads, OnlyOf, Stops, Before
  <2>6. ASSUME NEW w \in writers, CommandEnds(w) PROVE Good(n)'
    <3>1. UNCHANGED dir
      BY <2>6 DEF CommandEnds
    <3> QED
      BY <1>t, <2>1, <2>6, <3>1, CommandFinishes, GoodStays DEF Finishes, Stops, Before
  <2>7. CASE Write
    BY <2>1, <2>7, GoodStays DEF Write
  <2> QED
    BY <1>1, <1>2, <2>1, <2>2, <2>3, <2>4, <2>5, <2>6, <2>7 DEF Next
<1>4. CASE ~UNCHANGED reported
  <2>1. \E a \in Actors : Report(a)
    BY <1>4 DEF Next, BeginBackup, Stage, RemoveArtifact, CreateFile, Download, Unstage, Prune,
       BeginRestore, ReadBackup, UploadBackup, Apply, CleanUp, Breaks, Killed, CommandEnds, Write
  <2> QED
    BY <1>1, <2>1
<1> QED
  BY <1>3, <1>4

LEMMA OneInvariant ==
    ASSUME Stamped, OneSaver
    PROVE  Spec => [](Inv /\ OneInv)
<1>1. Init => OneInv
  <2>1. Init => Filed
    BY DEF Init, Filed, In, At, Idle, NoFile
  <2>2. Init => Sole /\ Remains
    BY DEF Init, Sole, Remains, Active, Idle, Actors
  <2> QED
    BY <2>1, <2>2 DEF OneInv
<1>2. Inv /\ OneInv /\ [Next]_vars => OneInv'
  <2> SUFFICES ASSUME Inv, OneInv, [Next]_vars PROVE OneInv'
    OBVIOUS
  <2>1. CASE UNCHANGED vars
    BY <2>1 DEF vars, OneInv, Filed, Sole, Remains, Active, In, At, Exists
  <2>2. CASE Next
    BY <2>2, StepFiled, StepSole, StepRemains DEF OneInv
  <2> QED
    BY <2>1, <2>2
<1> QED
  BY <1>1, <1>2, Invariant, PTL DEF Spec

\* Once a backup has been reported complete there always is a complete one,
\* whatever breaks and whatever the retention: where one backs up at a time.
THEOREM BackupAlwaysOneKept ==
    ASSUME Stamped, \A a, b \in Savers : a = b
    PROVE  Spec => []AlwaysOneKept
<1>1. OneInv => AlwaysOneKept
  BY DEF OneInv, Remains, AlwaysOneKept
<1>2. OneSaver
  BY DEF OneSaver
<1> QED
  BY <1>1, <1>2, OneInvariant, PTL

LEMMA StepReported ==
    ASSUME Stamped, Inv, OneInv, Next, NEW a \in Savers, Reports(a), op[a].alone
    PROVE  dir'[Name(a)].content = op[a].rev
<1>1. a \in Actors /\ op[a].pc = "stat" /\ op'[a].pc = "idle" /\ TypeOK
  BY DEF Reports, At, Actors, Inv
<1>2. dir[Name(a)].content = op[a].rev
  BY <1>1 DEF OneInv, Filed, In, Inv, Moving, Name
<1>3. ASSUME NEW b \in Actors,
             \/ Stage(b) \/ RemoveArtifact(b) \/ CreateFile(b) \/ Download(b) \/ Unstage(b)
             \/ Prune(b) \/ UploadBackup(b) \/ Apply(b) \/ CleanUp(b)
      PROVE  FALSE
  <2>1. b # a
    BY <1>1, <1>3 DEF Stage, RemoveArtifact, CreateFile, Download, Unstage, Prune,
       UploadBackup, Apply, CleanUp, At
  <2> QED
    BY <1>1, <1>3, <2>1, Acts DEF OnlyOf
<1>4. ASSUME NEW b \in Actors, BeginBackup(b) \/ BeginRestore(b) \/ ReadBackup(b)
      PROVE  FALSE
  <2>1. b # a
    BY <1>1, <1>4 DEF BeginBackup, BeginRestore, ReadBackup, At
  <2> QED
    BY <1>1, <1>4, <2>1, BackupBegins, RestoreBegins, RestoreReads
       DEF Begins, Chooses, Reads, OnlyOf
<1>5. ASSUME NEW w \in writers PROVE ~CommandEnds(w)
  BY <1>1, CommandFinishes DEF Finishes
<1>6. ~Write
  BY <1>1 DEF Write
<1>7. UNCHANGED dir
  BY <1>3, <1>4, <1>5, <1>6 DEF Next, Report, Breaks, Killed
<1> QED
  BY <1>2, <1>7

\* A backup that ends well has left, under its name, the data as it was when its
\* command began, whatever the retention and whatever earlier runs left.
THEOREM BackupReportedIsThere ==
    ASSUME Stamped, \A a, b \in Savers : a = b
    PROVE  Spec => ReportedIsThere
<1>1. Inv /\ OneInv /\ [Next]_vars =>
        [\A a \in Savers :
           Reports(a) /\ op[a].alone => dir'[Name(a)].content = op[a].rev]_vars
  BY StepReported
<1>2. OneSaver
  BY DEF OneSaver
<1> QED
  BY <1>1, <1>2, OneInvariant, PTL DEF Spec, ReportedIsThere
=============================================================================
