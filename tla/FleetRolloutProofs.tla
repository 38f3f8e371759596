------------------------- MODULE FleetRolloutProofs -------------------------
(***************************************************************************)
(* Theorems about FleetRollout, for any backend, host lists, batch size,   *)
(* faults and number of runs.                                              *)
(***************************************************************************)
EXTENDS FleetRollout, TLAPS

Before(p) == p[1] < run.role \/ (p[1] = run.role /\ p[2] <= run.from)
Done(p) == at[p] = run.version /\ (run.kind = "deploy" => up[p] /\ stray[p] = None)

Early == {"find", "open", "hook", "sweep", "prepare"}
Middle == {"roll", "batch", "close"}

\* Where a run is in its lists.
Shape ==
    /\ run.role > 0
    /\ run.changing \subseteq run.busy
    /\ run.pc # "batch" => run.busy = {}
    /\ run.pc = "batch" => /\ run.busy \subseteq Batch
                           /\ run.role \in 1..Len(Lists)
    /\ run.pc \in Early => run.role = 1 /\ run.from = 0
    /\ run.pc \in Early \ {"prepare"} => run.swept = {}
    /\ run.pc = "close" => run.role > Len(Lists)
    /\ run.pc # "idle" => runs > 0
    /\ run.pc \notin {"idle", "find"} => run.version \in Versions

\* Until it ends, a run's record does not say that it has.
Unsettled ==
    /\ \A i \in 1..MaxRuns : i > runs => status[i] = "none"
    /\ run.pc \in Early \cup Middle =>
         /\ status[runs] \notin {"Succeeded", "Failed"}
         /\ mode = "native" => status[runs] # "RolledBack"

\* Every place the run has passed has the version.
Covered ==
    run.pc \in Middle =>
        \A p \in Places :
            \/ Before(p)
            \/ run.pc = "batch" /\ ~run.errs /\ p \in Batch \ run.busy
            => Done(p)

\* What is down and was not swept is being changed, or has failed, in the batch.
Down ==
    run.sound =>
        /\ run.pc \notin {"batch", "idle"} => \A p \in Places \ run.swept : up[p]
        /\ run.pc = "batch" =>
             \A p \in Places \ run.swept : ~up[p] => p \in Batch /\ (p \in run.changing \/ run.errs)

IInv == TypeOK /\ Shape /\ Unsettled /\ Covered /\ Down /\ OneBatchDown /\ LogTellsSuccess

-----------------------------------------------------------------------------
(* Lists, places and batches *)

\* The lists of the backend in use are sequences of lengths.
LEMMA ListFacts ==
    ASSUME mode \in Modes
    PROVE  /\ Len(Lists) \in Nat
           /\ \A r \in 1..Len(Lists) : Lists[r] \in Nat
  BY FleetAssumption DEF FleetAssumption, Lists

\* A place is a position of one of the lists.
LEMMA PlaceFacts ==
    ASSUME mode \in Modes, NEW p \in Places
    PROVE  p[1] \in 1..Len(Lists) /\ p[2] \in 1..Lists[p[1]]
  <1>1. PICK r \in 1..Len(Lists) : p \in {<<r, i>> : i \in 1..Lists[r]}
    BY DEF Places
  <1>2. PICK i \in 1..Lists[r] : p = <<r, i>>
    BY <1>1
  <1> QED
    BY <1>2

\* A batch has a length, and is not empty while there are hosts left.
LEMMA SizeFacts ==
    ASSUME TypeOK, NEW r \in 1..Len(Lists)
    PROVE  Size(r) \in Nat
  <1>1. Lists[r] \in Nat
    BY ListFacts DEF TypeOK
  <1>2. batch \in Int
    BY FleetAssumption DEF FleetAssumption, TypeOK
  <1> QED
    BY <1>1, <1>2 DEF Size

\* None is the only thing a run's version may be that is not a version.
LEMMA VersionFacts ==
    ASSUME TypeOK
    PROVE  /\ run.version \in Versions <=> run.version # None
           /\ UNION {has[p] : p \in Places} \subseteq Versions
           /\ runs \in Nat /\ runs <= MaxRuns
  <1>1. run.version \in Versions \cup {None}
    BY DEF TypeOK, Run
  <1> QED
    BY <1>1, FleetAssumption DEF FleetAssumption, TypeOK

-----------------------------------------------------------------------------
(* The invariant holds at first *)

LEMMA InitInv == Init => IInv
  <1> SUFFICES ASSUME Init PROVE IInv
    OBVIOUS
  <1>1. TypeOK
    BY FleetAssumption DEF Init, TypeOK, Run, FleetAssumption, PCs, Statuses
  <1>2. Shape /\ Unsettled /\ Covered /\ Down
    BY FleetAssumption DEF Init, Shape, Unsettled, Covered, Down, Early, Middle, FleetAssumption
  <1>3. OneBatchDown /\ LogTellsSuccess
    BY DEF Init, OneBatchDown, LogTellsSuccess
  <1> QED
    BY <1>1, <1>2, <1>3 DEF IInv

-----------------------------------------------------------------------------
(* Each step keeps it *)

\* The config is fixed, and with it the lists, the places and, for one run,
\* the size of its batches.
LEMMA ConfigFacts ==
    ASSUME UNCHANGED <<mode, batch>>
    PROVE  /\ Lists' = Lists /\ Places' = Places
           /\ run'.kind = run.kind => \A r : Size(r)' = Size(r)
           /\ run'.kind = run.kind /\ run'.role = run.role /\ run'.from = run.from
                => Batch' = Batch
  BY DEF Lists, Places, Size, Batch

\* What an EXCEPT leaves alone.
SameJob ==
    /\ run'.kind = run.kind /\ run'.version = run.version
    /\ run'.sound = run.sound /\ run'.swept = run.swept
SameSpot == run'.role = run.role /\ run'.from = run.from
SameHosts == run'.busy = run.busy /\ run'.changing = run.changing /\ run'.errs = run.errs

LEMMA GoesFacts ==
    ASSUME TypeOK, UNCHANGED <<mode, batch>>, NEW l \in PCs, Goes(l)
    PROVE  run' \in Run' /\ run'.pc = l /\ SameJob /\ SameSpot /\ SameHosts
  <1>1. Places' = Places
    BY ConfigFacts
  <1>2. run \in Run
    BY DEF TypeOK
  <1> QED
    BY <1>1, <1>2 DEF Run, Goes, SameJob, SameSpot, SameHosts

LEMMA EndsFacts ==
    ASSUME TypeOK, UNCHANGED <<mode, batch>>, NEW x \in {"ok", "failed"}, Ends(x)
    PROVE  run' \in Run' /\ run'.pc = "idle" /\ SameJob /\ SameSpot /\ SameHosts
  <1>1. Places' = Places
    BY ConfigFacts
  <1>2. run \in Run
    BY DEF TypeOK
  <1> QED
    BY <1>1, <1>2 DEF Run, Ends, PCs, SameJob, SameSpot, SameHosts

\* A record is the run's, and no other's.
LEMMA RecordFacts ==
    ASSUME TypeOK, runs > 0, NEW s \in Statuses, Records(s)
    PROVE  /\ status' \in [1..MaxRuns -> Statuses]
           /\ status'[runs] = s
           /\ \A i \in 1..MaxRuns : i # runs => status'[i] = status[i]
  <1>1. status \in [1..MaxRuns -> Statuses]
    BY DEF TypeOK
  <1>2. runs \in 1..MaxRuns
    BY VersionFacts
  <1> QED
    BY <1>1, <1>2 DEF Records

\* A step that touches no host keeps the types if the run it leaves is one.
LEMMA QuietTypeOK ==
    ASSUME TypeOK, UNCHANGED <<places, config>>, run' \in Run', runs > 0,
           status' = status \/ \E s \in Statuses : Records(s)
    PROVE  TypeOK'
  <1>1. Places' = Places
    BY ConfigFacts DEF config
  <1>2. status' \in [1..MaxRuns -> Statuses]
    BY DEF TypeOK, Records
  <1> QED
    BY <1>1, <1>2 DEF TypeOK, places, config

\* The end of a run, with or without a record of its failure.
LEMMA EndInv ==
    ASSUME IInv, UNCHANGED <<places, config>>, run.pc # "idle", run.busy = {},
           NEW x \in {"ok", "failed"}, Ends(x),
           status' = status \/ Records("Failed")
    PROVE  IInv'
  <1>1. Lists' = Lists /\ Places' = Places
    BY ConfigFacts DEF config
  <1>2. run' \in Run' /\ run'.pc = "idle" /\ SameJob /\ SameSpot /\ SameHosts
    BY EndsFacts DEF IInv, config
  <1>3. runs > 0 /\ runs \in 1..MaxRuns
    BY VersionFacts DEF IInv, Shape
  <1>4. TypeOK'
    BY <1>2, <1>3, QuietTypeOK DEF IInv, Statuses
  <1>5. Shape' /\ Covered' /\ Down'
    BY <1>2 DEF IInv, Shape, Covered, Down, Early, Middle, SameSpot, SameHosts
  <1>6. Unsettled'
    <2>1. \A i \in 1..MaxRuns : i > runs => status'[i] = status[i]
      BY <1>3, RecordFacts DEF IInv, Statuses
    <2> QED
      BY <1>2, <2>1 DEF IInv, Unsettled, Early, Middle, config
  <1>7. OneBatchDown'
    <2>1. \A r : Size(r)' = Size(r)
      BY <1>2, ConfigFacts DEF config, SameJob
    <2> QED
      BY <1>1, <1>2, <2>1 DEF IInv, OneBatchDown, SameJob, places
  <1>8. LogTellsSuccess'
    BY <1>1, <1>2, <1>3 DEF IInv, TypeOK, LogTellsSuccess, SameJob, places, config, Records
  <1> QED
    BY <1>4, <1>5, <1>6, <1>7, <1>8 DEF IInv

LEMMA BeginInv == IInv /\ Begin => IInv'
  <1> SUFFICES ASSUME IInv, Begin PROVE IInv'
    OBVIOUS
  <1>1. Lists' = Lists /\ Places' = Places
    BY ConfigFacts DEF Begin
  <1>2. runs \in Nat /\ MaxRuns \in Nat /\ runs' = runs + 1 /\ runs' \in 1..MaxRuns
    BY VersionFacts, FleetAssumption DEF IInv, FleetAssumption, Begin
  <1>3. UNCHANGED <<at, up, has, stray, status, mode, batch>>
    BY DEF Begin, places
  <1>4. /\ run' \in Run' /\ run'.pc \in {"open", "find"}
        /\ run'.pc = "open" => run'.version \in Versions
        /\ run'.role = 1 /\ run'.from = 0 /\ run'.busy = {} /\ run'.changing = {}
        /\ run'.sound = (\A p \in Places : up[p]) /\ run'.swept = {}
    <2>1. PICK k \in {"deploy", "rollback"}, v \in Versions \cup {None} :
            /\ v = None => k = "rollback"
            /\ run' = [kind |-> k, version |-> v,
                       pc |-> IF k = "deploy" THEN "open" ELSE "find",
                       role |-> 1, from |-> 0, busy |-> {}, changing |-> {},
                       errs |-> FALSE, sound |-> \A p \in Places : up[p],
                       swept |-> {}, result |-> "none"]
      BY DEF Begin
    <2>2. (\A p \in Places : up[p]) \in BOOLEAN
      OBVIOUS
    <2> QED
      BY <1>1, <2>1, <2>2 DEF Run, PCs
  <1>5. TypeOK'
    BY <1>1, <1>2, <1>3, <1>4 DEF IInv, TypeOK
  <1>6. status'[runs'] = "none"
    BY <1>2, <1>3 DEF IInv, Unsettled
  <1>7. Shape'
    BY <1>2, <1>4 DEF Shape, Early
  <1>8. Unsettled'
    BY <1>2, <1>3, <1>6 DEF IInv, Unsettled
  <1>9. Covered' /\ Down'
    BY <1>1, <1>3, <1>4 DEF Covered, Down, Middle
  <1>10. OneBatchDown'
    BY <1>1, <1>3, <1>4 DEF OneBatchDown
  <1>11. LogTellsSuccess'
    BY <1>6 DEF LogTellsSuccess
  <1> QED
    BY <1>5, <1>7, <1>8, <1>9, <1>10, <1>11 DEF IInv

LEMMA FindInv == IInv /\ Find => IInv'
  <1> SUFFICES ASSUME IInv, Find PROVE IInv'
    OBVIOUS
  <1>1. Lists' = Lists /\ Places' = Places
    BY ConfigFacts DEF Find, config, Ends
  <1>2. Targets \subseteq Versions
    BY VersionFacts DEF IInv, Targets
  <1>3. CASE \E v \in Versions : run' = [run EXCEPT !.version = v, !.pc = "open"]
    <2>1. PICK v \in Versions : run' = [run EXCEPT !.version = v, !.pc = "open"]
      BY <1>3
    <2>2. /\ run' \in Run' /\ run'.pc = "open" /\ run'.version \in Versions
          /\ run'.kind = run.kind /\ run'.sound = run.sound /\ run'.swept = run.swept /\ SameSpot /\ SameHosts
      BY <1>1, <2>1 DEF IInv, TypeOK, Run, PCs, SameSpot, SameHosts
    <2>3. runs > 0 /\ run.pc = "find" /\ UNCHANGED <<places, status, config>>
      BY DEF IInv, Shape, Find
    <2>4. TypeOK'
      BY <2>2, <2>3, QuietTypeOK DEF IInv
    <2>5. Shape' /\ Unsettled' /\ Covered' /\ Down'
      BY <1>1, <2>2, <2>3 DEF IInv, Shape, Unsettled, Covered, Down, Early, Middle,
         SameSpot, SameHosts, places, config
    <2>6. \A r : Size(r)' = Size(r)
      BY <2>2, <2>3, ConfigFacts DEF config
    <2>7. OneBatchDown'
      BY <1>1, <2>2, <2>3, <2>6 DEF IInv, OneBatchDown, places
    <2>8. LogTellsSuccess'
      BY <2>2, <2>3 DEF IInv, Unsettled, LogTellsSuccess, Early, config
    <2> QED
      BY <2>4, <2>5, <2>7, <2>8 DEF IInv
  <1>4. CASE Ends("failed")
    BY <1>4, EndInv DEF IInv, Shape, Find
  <1> QED
    BY <1>2, <1>3, <1>4 DEF Find

\* The steps before the rollout, and their records.
LEMMA EarlyInv ==
    ASSUME IInv, UNCHANGED <<places, config>>, run.pc \in Early \ {"find"},
           NEW l \in {"hook", "sweep", "prepare", "roll"}, Goes(l),
           run.pc = "prepare" => l = "roll",
           \/ status' = status
           \/ \E s \in {"Pending", "Starting", "RolledBack"} :
                Records(s) /\ (mode = "native" => s # "RolledBack")
    PROVE  IInv'
  <1>1. Lists' = Lists /\ Places' = Places /\ UNCHANGED <<at, up, stray, runs, mode, batch>>
    BY ConfigFacts DEF config, places
  <1>2. run' \in Run' /\ run'.pc = l /\ SameJob /\ SameSpot /\ SameHosts
    BY GoesFacts DEF IInv, config, PCs
  <1>3. runs > 0 /\ run.role = 1 /\ run.from = 0 /\ run.busy = {} /\ run.version \in Versions
    BY DEF IInv, Shape, Early
  <1>4. TypeOK'
    BY <1>2, <1>3, QuietTypeOK DEF IInv, Statuses
  <1>5. Shape'
    BY <1>1, <1>2, <1>3 DEF IInv, Shape, Early, SameJob, SameSpot, SameHosts
  <1>6. Unsettled'
    <2>1. \A i \in 1..MaxRuns : i > runs => status'[i] = status[i]
      BY <1>3, RecordFacts DEF IInv, Statuses
    <2>2. /\ status'[runs] \notin {"Succeeded", "Failed"}
          /\ mode = "native" => status'[runs] # "RolledBack"
      BY <1>3, RecordFacts DEF IInv, Statuses, Unsettled
    <2> QED
      BY <1>1, <2>1, <2>2 DEF IInv, Unsettled
  <1>7. Covered'
    <2>1. \A p \in Places : ~Before(p)'
      BY <1>1, <1>2, <1>3, PlaceFacts, ListFacts DEF IInv, TypeOK, Before, SameSpot
    <2> QED
      BY <1>1, <1>2, <2>1 DEF Covered
  <1>8. Down'
    BY <1>1, <1>2 DEF IInv, Down, Early, SameJob
  <1>9. OneBatchDown'
    BY <1>1, <1>2, <1>8 DEF Down, OneBatchDown
  <1>10. LogTellsSuccess'
    BY <1>2, <1>6 DEF Unsettled, LogTellsSuccess, Early, Middle
  <1> QED
    BY <1>4, <1>5, <1>6, <1>7, <1>8, <1>9, <1>10 DEF IInv

LEMMA OpenInv == IInv /\ Open => IInv'
  <1> SUFFICES ASSUME IInv, Open PROVE IInv'
    OBVIOUS
  <1>1. run.pc \in Early \ {"find"} /\ run.pc # "idle" /\ run.busy = {}
    BY DEF IInv, Shape, Open, Early
  <1>2. UNCHANGED <<places, config>>
    BY DEF Open
  <1>3. CASE Ends("failed") /\ UNCHANGED status
    BY <1>1, <1>2, <1>3, EndInv
  <1>4. CASE \E l \in {"hook", "prepare", "roll"}, s \in {"Pending", "Starting", "RolledBack"} :
               Goes(l) /\ Records(s) /\ (mode = "native" => s # "RolledBack")
    BY <1>1, <1>2, <1>4, EarlyInv DEF Open
  <1> QED
    BY <1>3, <1>4 DEF Open

LEMMA HookInv == IInv /\ Hook => IInv'
  <1> SUFFICES ASSUME IInv, Hook PROVE IInv'
    OBVIOUS
  <1>1. run.pc \in Early \ {"find"} /\ run.pc # "idle" /\ run.busy = {}
    BY DEF IInv, Shape, Hook, Early
  <1>2. UNCHANGED <<places, config, status>>
    BY DEF Hook
  <1>3. CASE Ends("failed")
    BY <1>1, <1>2, <1>3, EndInv
  <1>4. CASE \E l \in {"sweep", "roll"} : Goes(l)
    BY <1>1, <1>2, <1>4, EarlyInv DEF Hook
  <1> QED
    BY <1>3, <1>4 DEF Hook

LEMMA PrepareInv == IInv /\ Prepare => IInv'
  <1> SUFFICES ASSUME IInv, Prepare PROVE IInv'
    OBVIOUS
  <1>1. run.pc \in Early \ {"find"} /\ run.pc # "idle" /\ run.busy = {}
    BY DEF IInv, Shape, Prepare, Early
  <1>2. UNCHANGED <<places, config>>
    BY DEF Prepare
  <1>3. CASE Ends("failed") /\ (status' = status \/ Records("Failed"))
    BY <1>1, <1>2, <1>3, EndInv
  <1>4. CASE Goes("roll") /\ (status' = status \/ Records("Starting"))
    BY <1>1, <1>2, <1>4, EarlyInv DEF Prepare
  <1> QED
    BY <1>3, <1>4 DEF Prepare, Progress, RecordsFailure

LEMMA PreflightInv == IInv /\ Preflight => IInv'
  <1> SUFFICES ASSUME IInv, Preflight PROVE IInv'
    OBVIOUS
  <1>1. run.pc \in Early \ {"find"} /\ run.pc # "idle" /\ run.busy = {}
    BY DEF IInv, Shape, Preflight, Early
  <1>2. UNCHANGED <<places, config>>
    BY DEF Preflight
  <1>3. CASE Ends("failed") /\ (status' = status \/ Records("Failed"))
    BY <1>1, <1>2, <1>3, EndInv
  <1>4. CASE Goes("roll") /\ (status' = status \/ Records("Starting"))
    BY <1>1, <1>2, <1>4, EarlyInv DEF Preflight
  <1> QED
    BY <1>3, <1>4 DEF Preflight, RecordsFailure

\* The sweep takes down what it records, and nothing else.
LEMMA SweepInv == IInv /\ Sweep => IInv'
  <1> SUFFICES ASSUME IInv, Sweep PROVE IInv'
    OBVIOUS
  <1>1. run.pc = "sweep" /\ UNCHANGED config
    BY DEF Sweep
  <1>2. Lists' = Lists /\ Places' = Places /\ UNCHANGED <<runs, mode, batch>> /\ run \in Run
    BY <1>1, ConfigFacts DEF config, IInv, TypeOK
  <1>3. PICK gone \in SUBSET {p \in Places : stray[p] # None} :
         /\ at' = [p \in Places |-> IF p \in gone THEN stray[p] ELSE at[p]]
         /\ up' = [p \in Places |-> up[p] /\ p \notin gone]
         /\ has' = [p \in Places |-> IF p \in gone THEN has[p] \ {at[p]} ELSE has[p]]
         /\ stray' = [p \in Places |-> IF p \in gone THEN None ELSE stray[p]]
         /\ \/ /\ run' = [run EXCEPT !.pc = "prepare", !.swept = gone]
               /\ UNCHANGED status
            \/ /\ run' = [run EXCEPT !.pc = "idle", !.swept = gone, !.result = "failed"]
               /\ Records("Failed") \/ UNCHANGED status
    BY DEF Sweep
  <1>4. /\ run' \in Run' /\ run'.pc \in {"prepare", "idle"} /\ run'.swept = gone
        /\ run'.kind = run.kind /\ run'.version = run.version /\ run'.sound = run.sound
        /\ SameSpot /\ SameHosts
        /\ run'.pc = "prepare" => status' = status
        /\ status' = status \/ Records("Failed")
    BY <1>2, <1>3 DEF Run, PCs, SameSpot, SameHosts
  <1>5. /\ at \in [Places -> Versions \cup {None}] /\ up \in [Places -> BOOLEAN]
        /\ has \in [Places -> SUBSET Versions] /\ stray \in [Places -> Versions \cup {None}]
    BY DEF IInv, TypeOK
  <1>6. /\ runs > 0 /\ run.role = 1 /\ run.from = 0 /\ run.busy = {}
        /\ run.changing = {} /\ run.version \in Versions /\ run.swept = {}
    BY <1>1 DEF IInv, Shape, Early
  <1>7. /\ \A i \in 1..MaxRuns : i > runs => status'[i] = status[i]
        /\ status' \in [1..MaxRuns -> Statuses]
        /\ status'[runs] \in {status[runs], "Failed"}
    <2>1. CASE status' = status
      BY <2>1 DEF IInv, TypeOK
    <2>2. CASE Records("Failed")
      BY <1>6, <2>2, RecordFacts DEF IInv, Statuses
    <2> QED
      BY <1>4, <2>1, <2>2
  <1>8. TypeOK'
    <2>1. at' \in [Places -> Versions \cup {None}]
      BY <1>3, <1>5
    <2>2. up' \in [Places -> BOOLEAN]
      BY <1>3, <1>5
    <2>3. has' \in [Places -> SUBSET Versions]
      BY <1>3, <1>5
    <2>4. stray' \in [Places -> Versions \cup {None}]
      BY <1>3, <1>5
    <2> QED
      BY <1>2, <1>4, <1>7, <2>1, <2>2, <2>3, <2>4 DEF IInv, TypeOK
  <1>9. Shape'
    BY <1>2, <1>4, <1>6 DEF Shape, Early, SameSpot, SameHosts
  <1>10. Unsettled'
    BY <1>1, <1>2, <1>4, <1>7 DEF IInv, Unsettled, Early, Middle
  <1>11. Covered'
    BY <1>4 DEF Covered, Middle
  <1>12. run.sound => \A p \in Places \ gone : up'[p]
    BY <1>1, <1>3, <1>6 DEF IInv, Down
  <1>13. Down' /\ OneBatchDown'
    BY <1>2, <1>4, <1>12 DEF Down, OneBatchDown
  <1>14. LogTellsSuccess'
    <2>1. /\ status'[runs] # "Succeeded"
          /\ mode = "native" => status'[runs] # "RolledBack"
      BY <1>1, <1>7 DEF IInv, Unsettled, Early
    <2> QED
      BY <1>2, <2>1 DEF LogTellsSuccess
  <1> QED
    BY <1>8, <1>9, <1>10, <1>11, <1>13, <1>14 DEF IInv

LEMMA PostInv == IInv /\ Post => IInv'
  <1> SUFFICES ASSUME IInv, Post PROVE IInv'
    OBVIOUS
  <1>1. run.pc # "idle" /\ run.busy = {} /\ UNCHANGED <<places, config, status>>
    BY DEF IInv, Shape, Post
  <1> QED
    BY <1>1, EndInv DEF Post

\* A step of the rollout that touches neither a host nor the log.
LEMMA MoveInv ==
    ASSUME IInv, UNCHANGED <<places, config, status>>, run.pc \in Middle,
           run' \in Run', run'.pc \in Middle, SameJob,
           Shape', Covered', run'.pc = "batch" => run.pc = "roll",
           run.pc = "batch" => ~run.errs /\ run.busy = {}
    PROVE  IInv'
  <1>1. Lists' = Lists /\ Places' = Places /\ UNCHANGED <<at, up, stray, runs, mode, batch>>
    BY ConfigFacts DEF config, places
  <1>2. runs > 0 /\ run.changing \subseteq run.busy
    BY DEF IInv, Shape, Middle
  <1>3. TypeOK'
    BY <1>2, QuietTypeOK DEF IInv
  <1>4. Unsettled'
    BY <1>1 DEF IInv, Unsettled
  <1>5. run.sound => \A p \in Places \ run.swept : up[p]
    BY <1>2 DEF IInv, Down, Middle
  <1>6. Down' /\ OneBatchDown'
    BY <1>1, <1>5 DEF Down, OneBatchDown, SameJob
  <1>7. LogTellsSuccess'
    BY <1>4 DEF Unsettled, LogTellsSuccess, Early, Middle
  <1> QED
    BY <1>3, <1>4, <1>6, <1>7 DEF IInv

LEMMA NextBatchInv == IInv /\ NextBatch => IInv'
  <1> SUFFICES ASSUME IInv, NextBatch PROVE IInv'
    OBVIOUS
  <1>1. UNCHANGED <<places, config>> /\ run.pc = "roll" /\ run.busy = {} /\ run.pc \in Middle
    BY DEF IInv, Shape, NextBatch, Middle
  <1>2. Lists' = Lists /\ Places' = Places /\ UNCHANGED <<at, up, stray, runs, mode, batch>>
    BY <1>1, ConfigFacts DEF config, places
  <1>3. run \in Run /\ mode \in Modes /\ Len(Lists) \in Nat
    BY ListFacts DEF IInv, TypeOK
  <1>4. run.role \in Nat /\ run.from \in Nat
    BY <1>3 DEF Run
  <1>5. runs > 0 /\ run.version \in Versions /\ \A p \in Places : Before(p) => Done(p)
    BY <1>1 DEF IInv, Shape, Covered, Middle
  <1>6. CASE /\ run.role <= Len(Lists) /\ run.from < Lists[run.role]
             /\ run' = [run EXCEPT !.pc = "batch", !.busy = Batch, !.errs = FALSE]
             /\ UNCHANGED status
    <2>1. Batch \subseteq Places
      BY DEF Batch
    <2>2. /\ run' \in Run' /\ run'.pc = "batch" /\ run'.busy = Batch /\ ~run'.errs
          /\ SameJob /\ SameSpot /\ run'.changing = run.changing
      BY <1>2, <1>3, <1>6, <2>1 DEF Run, PCs, SameJob, SameSpot
    <2>3. Batch' = Batch
      BY <1>2, <2>2, ConfigFacts DEF SameJob, SameSpot
    <2>4. run.role > 0
      BY DEF IInv, Shape
    <2>5. Shape'
      BY <1>1, <1>2, <1>3, <1>4, <1>5, <1>6, <2>2, <2>3, <2>4
         DEF IInv, Shape, Early, SameJob, SameSpot
    <2>6. Covered'
      BY <1>2, <1>5, <2>2, <2>3 DEF Covered, Before, Done, SameJob, SameSpot
    <2> QED
      BY <1>1, <1>6, <2>2, <2>5, <2>6, MoveInv DEF Middle
  <1>7. CASE /\ run.role <= Len(Lists) /\ run.from >= Lists[run.role]
             /\ run' = [run EXCEPT !.role = @ + 1, !.from = 0]
             /\ UNCHANGED status
    <2>1. /\ run' \in Run' /\ run'.pc = "roll" /\ run'.role = run.role + 1 /\ run'.from = 0
          /\ SameJob /\ SameHosts
      <3>1. PICK n \in Nat : n = run.role + 1
        BY <1>4
      <3>2. run' = [run EXCEPT !.role = n, !.from = 0]
        BY <1>7, <3>1
      <3> QED
        BY <1>1, <1>2, <1>3, <3>1, <3>2 DEF Run, SameJob, SameHosts
    <2>2. Shape'
      BY <1>1, <1>2, <1>4, <1>5, <2>1 DEF IInv, Shape, Early, SameJob, SameHosts
    <2>3. ASSUME NEW p \in Places, Before(p)'
          PROVE  Before(p)
      <3>1. p[1] \in 1..Len(Lists) /\ p[2] \in 1..Lists[p[1]] /\ Lists[p[1]] \in Nat
        BY <1>3, PlaceFacts, ListFacts
      <3> QED
        BY <1>4, <1>7, <2>1, <2>3, <3>1 DEF Before
    <2>4. Covered'
      BY <1>2, <1>5, <2>1, <2>3 DEF Covered, Done, SameJob
    <2> QED
      BY <1>1, <1>7, <2>1, <2>2, <2>4, MoveInv DEF Middle
  <1>8. CASE run.role > Len(Lists) /\ Goes("close") /\ UNCHANGED status
    <2>1. run' \in Run' /\ run'.pc = "close" /\ SameJob /\ SameSpot /\ SameHosts
      BY <1>2, <1>8, GoesFacts DEF IInv, PCs
    <2>2. Shape'
      BY <1>1, <1>2, <1>5, <1>8, <2>1 DEF IInv, Shape, Early, SameJob, SameSpot, SameHosts
    <2>3. Covered'
      BY <1>2, <1>5, <2>1 DEF Covered, Before, Done, SameJob, SameSpot
    <2> QED
      BY <1>1, <1>8, <2>1, <2>2, <2>3, MoveInv DEF Middle
  <1>9. CASE RecordsFailure
    BY <1>1, <1>9, EndInv DEF RecordsFailure
  <1> QED
    BY <1>6, <1>7, <1>8, <1>9 DEF NextBatch

LEMMA BatchDoneInv == IInv /\ BatchDone => IInv'
  <1> SUFFICES ASSUME IInv, BatchDone PROVE IInv'
    OBVIOUS
  <1>1. UNCHANGED <<places, config>> /\ run.pc = "batch" /\ run.busy = {} /\ run.pc \in Middle
    BY DEF BatchDone, Middle
  <1>2. Lists' = Lists /\ Places' = Places /\ UNCHANGED <<at, up, stray, runs, mode, batch>>
    BY <1>1, ConfigFacts DEF config, places
  <1>3. CASE run.errs
    BY <1>1, <1>3, EndInv DEF BatchDone, Failing, RecordsFailure
  <1>4. CASE ~run.errs
    <2>1. /\ run' = [run EXCEPT !.pc = "roll", !.from = @ + Size(run.role)]
          /\ UNCHANGED status
      BY <1>4 DEF BatchDone
    <2>2. run.role \in 1..Len(Lists) /\ runs > 0 /\ run.version \in Versions
      BY <1>1 DEF IInv, Shape
    <2>3. Size(run.role) \in Nat /\ run \in Run /\ run.from \in Nat /\ run.role \in Nat
      BY <2>2, SizeFacts DEF IInv, TypeOK, Run
    <2>4. /\ run' \in Run' /\ run'.pc = "roll" /\ run'.role = run.role
          /\ run'.from = run.from + Size(run.role) /\ SameJob /\ SameHosts
      <3>1. PICK n \in Nat : n = run.from + Size(run.role)
        BY <2>3
      <3>2. run' = [run EXCEPT !.pc = "roll", !.from = n]
        BY <2>1, <3>1
      <3> QED
        BY <1>2, <2>3, <3>1, <3>2 DEF Run, PCs, SameJob, SameHosts
    <2>5. Shape'
      BY <1>1, <1>2, <2>2, <2>4 DEF IInv, Shape, Early, SameJob, SameHosts
    <2>6. ASSUME NEW p \in Places, Before(p)'
          PROVE  Before(p) \/ p \in Batch
      <3>1. p[1] \in 1..Len(Lists) /\ p[2] \in 1..Lists[p[1]]
        BY PlaceFacts DEF IInv, TypeOK
      <3> QED
        BY <2>3, <2>4, <2>6, <3>1 DEF Before, Batch
    <2>7. \A p \in Places : Before(p) \/ p \in Batch => Done(p)
      BY <1>1, <1>4 DEF IInv, Covered
    <2>8. Covered'
      BY <1>2, <2>4, <2>6, <2>7 DEF Covered, Done, SameJob
    <2> QED
      BY <1>1, <1>4, <2>1, <2>4, <2>5, <2>8, MoveInv DEF Middle
  <1> QED
    BY <1>3, <1>4 DEF IInv, TypeOK, Run

\* Success: all of the places are behind.
LEMMA CloseInv == IInv /\ Close => IInv'
  <1> SUFFICES ASSUME IInv, Close PROVE IInv'
    OBVIOUS
  <1>1. /\ UNCHANGED <<places, config>> /\ run.pc = "close" /\ run.busy = {} /\ runs > 0
        /\ run.role > Len(Lists) /\ run.version \in Versions
    BY DEF IInv, Shape, Close
  <1>2. Lists' = Lists /\ Places' = Places /\ UNCHANGED <<at, up, stray, runs, mode, batch>>
    BY <1>1, ConfigFacts DEF config, places
  <1>3. CASE Ends("failed") /\ UNCHANGED status
    BY <1>1, <1>3, EndInv
  <1>4. CASE /\ Records(IF run.kind = "deploy" THEN "Succeeded" ELSE "RolledBack")
             /\ IF run.kind = "deploy" THEN Goes("post") ELSE Ends("ok")
    <2>1. \A p \in Places : Done(p)
      <3>1. ASSUME NEW p \in Places PROVE Before(p)
        BY <1>1, PlaceFacts, ListFacts DEF IInv, TypeOK, Run, Before
      <3> QED
        BY <1>1, <3>1 DEF IInv, Covered, Middle
    <2>2. run' \in Run' /\ run'.pc \in {"post", "idle"} /\ SameJob /\ SameSpot /\ SameHosts
      BY <1>2, <1>4, GoesFacts, EndsFacts DEF IInv, PCs
    <2>3. /\ \A i \in 1..MaxRuns : i > runs => status'[i] = status[i]
          /\ status'[runs] = IF run.kind = "deploy" THEN "Succeeded" ELSE "RolledBack"
      BY <1>1, <1>4, RecordFacts DEF IInv, Statuses
    <2>4. TypeOK'
      BY <1>1, <1>4, <2>2, QuietTypeOK DEF IInv, Statuses
    <2>5. Shape' /\ Covered'
      BY <1>1, <1>2, <2>2 DEF IInv, Shape, Covered, Early, Middle, SameJob, SameSpot, SameHosts
    <2>6. Unsettled'
      BY <1>2, <2>2, <2>3 DEF IInv, Unsettled, Early, Middle
    <2>7. Down' /\ OneBatchDown'
      BY <1>1, <1>2, <2>2 DEF IInv, Down, OneBatchDown, SameJob
    <2>8. LogTellsSuccess'
      BY <1>2, <2>1, <2>2, <2>3 DEF LogTellsSuccess, Done, SameJob
    <2> QED
      BY <2>4, <2>5, <2>6, <2>7, <2>8 DEF IInv
  <1> QED
    BY <1>3, <1>4 DEF Close

-----------------------------------------------------------------------------
(* The steps of a host *)

\* A host that is rolled out is one of the batch's.
LEMMA BusyFacts ==
    ASSUME IInv, NEW p \in run.busy
    PROVE  /\ run.pc = "batch" /\ run.busy \subseteq Batch /\ p \in Places
           /\ run.role \in 1..Len(Lists) /\ runs > 0 /\ run.version \in Versions
           /\ run.changing \subseteq run.busy
  <1>1. run.pc = "batch"
    BY DEF IInv, Shape
  <1> QED
    BY <1>1 DEF IInv, Shape, Batch

\* What the steps of one host have in common: they leave the others alone, and
\* the host, if it is done, with the version.
LEMMA HostInv ==
    ASSUME IInv, NEW p \in run.busy, UNCHANGED config,
           run' \in Run', run'.pc = "batch", SameJob, SameSpot,
           run'.changing \subseteq run'.busy, run'.busy \subseteq run.busy,
           run.busy \ {p} \subseteq run'.busy, run.changing \ {p} \subseteq run'.changing,
           run.errs => run'.errs,
           status' = status \/ Records("Starting"),
           at' \in [Places -> Versions \cup {None}],
           up' \in [Places -> BOOLEAN],
           has' \in [Places -> SUBSET Versions],
           stray' \in [Places -> Versions \cup {None}],
           \A q \in Places : q # p => at'[q] = at[q] /\ up'[q] = up[q] /\ stray'[q] = stray[q],
           p \notin run'.busy /\ ~run'.errs => Done(p)',
           run.sound /\ p \notin run.swept /\ ~up'[p] => p \in run'.changing \/ run'.errs
    PROVE  IInv'
  <1>1. Lists' = Lists /\ Places' = Places /\ Batch' = Batch /\ UNCHANGED <<runs, mode, batch>>
    BY ConfigFacts DEF config, SameJob, SameSpot
  <1>2. /\ run.pc = "batch" /\ run.busy \subseteq Batch /\ p \in Batch
        /\ run.role \in 1..Len(Lists) /\ runs > 0 /\ run.version \in Versions
    BY BusyFacts
  <1>3. /\ \A i \in 1..MaxRuns : i > runs => status'[i] = status[i]
        /\ status'[runs] = status[runs] \/ status'[runs] = "Starting"
        /\ status' \in [1..MaxRuns -> Statuses]
    <2>1. CASE status' = status
      BY <2>1 DEF IInv, TypeOK
    <2>2. CASE Records("Starting")
      BY <1>2, <2>2, RecordFacts DEF IInv, Statuses
    <2> QED
      BY <2>1, <2>2
  <1>4. TypeOK'
    BY <1>1, <1>3 DEF IInv, TypeOK
  <1>5. Shape'
    BY <1>1, <1>2 DEF IInv, Shape, Early, SameJob, SameSpot
  <1>6. Unsettled'
    BY <1>1, <1>2, <1>3 DEF IInv, Unsettled, Early, Middle
  <1>7. Covered'
    <2>1. ASSUME NEW q \in Places, Before(q)
          PROVE  Done(q)'
      <3>1. q # p
        <4>1. p[1] = run.role /\ run.from < p[2] /\ p \in Places
          BY <1>2 DEF Batch
        <4>2. run.role \in Nat /\ run.from \in Nat
          BY DEF IInv, TypeOK, Run
        <4>3. p[2] \in 1..Lists[p[1]] /\ Lists[p[1]] \in Nat
          BY <1>2, <4>1, PlaceFacts, ListFacts DEF IInv, TypeOK
        <4> QED
          BY <2>1, <4>1, <4>2, <4>3 DEF Before
      <3>2. Done(q)
        BY <1>2, <2>1 DEF IInv, Covered, Middle
      <3> QED
        BY <3>1, <3>2 DEF Done, SameJob
    <2>2. ASSUME NEW q \in Batch \ run'.busy, ~run'.errs
          PROVE  Done(q)'
      <3>1. CASE q = p
        BY <2>2, <3>1
      <3>2. CASE q # p
        <4>1. q \in Batch \ run.busy /\ q \in Places
          BY <2>2, <3>2 DEF Batch
        <4>2. Done(q)
          BY <1>2, <2>2, <4>1 DEF IInv, Covered, Middle
        <4> QED
          BY <3>2, <4>1, <4>2 DEF Done, SameJob
      <3> QED
        BY <3>1, <3>2
    <2> QED
      BY <1>1, <2>1, <2>2 DEF Covered, Before, SameSpot
  <1>8. Down'
    <2>1. ASSUME run.sound, NEW q \in Places \ run.swept, ~up'[q]
          PROVE  q \in Batch /\ (q \in run'.changing \/ run'.errs)
      <3>1. CASE q = p
        BY <1>2, <2>1, <3>1
      <3>2. CASE q # p
        BY <1>2, <2>1, <3>2 DEF IInv, Down
      <3> QED
        BY <3>1, <3>2
    <2> QED
      BY <1>1, <2>1 DEF Down, SameJob
  <1>9. OneBatchDown'
    <2>1. ASSUME run.sound, NEW q \in Places \ run.swept, ~up'[q]
          PROVE  /\ q[1] = run.role /\ q[2] \in Nat
                 /\ run.from < q[2] /\ q[2] <= run.from + Size(run.role)
      <3>1. q \in Batch
        BY <1>1, <1>8, <2>1 DEF Down, SameJob
      <3>2. q[2] \in 1..Lists[q[1]]
        BY PlaceFacts DEF IInv, TypeOK
      <3> QED
        BY <3>1, <3>2 DEF Batch
    <2>2. Size(run.role) \in Nat /\ run.from \in Nat
      BY <1>2, SizeFacts DEF IInv, TypeOK, Run
    <2>3. \A r : Size(r)' = Size(r)
      BY <1>1, ConfigFacts DEF SameJob
    <2>4. ASSUME run.sound, NEW q \in Places \ run.swept, NEW s \in Places \ run.swept,
                 ~up'[q], ~up'[s]
          PROVE  q[1] = s[1] /\ q[2] - s[2] < Size(q[1])
      BY <2>1, <2>2, <2>4
    <2> QED
      BY <1>1, <2>3, <2>4 DEF OneBatchDown, SameJob
  <1>10. LogTellsSuccess'
    BY <1>6 DEF Unsettled, LogTellsSuccess, Middle
  <1> QED
    BY <1>4, <1>5, <1>6, <1>7, <1>8, <1>9, <1>10 DEF IInv

LEMMA HostSkipInv == ASSUME NEW p \in Places PROVE IInv /\ HostSkip(p) => IInv'
  <1> SUFFICES ASSUME IInv, HostSkip(p) PROVE IInv'
    OBVIOUS
  <1>1. /\ p \in run.busy /\ p \notin run.changing /\ UNCHANGED <<places, status, config>>
        /\ run.kind = "rollback" /\ at[p] = run.version
        /\ run' = [run EXCEPT !.busy = @ \ {p}]
    BY DEF HostSkip
  <1>2. run.pc = "batch" /\ run.changing \subseteq run.busy
    BY <1>1, BusyFacts
  <1>3. Places' = Places /\ run \in Run
    BY <1>1, ConfigFacts DEF config, IInv, TypeOK
  <1>4. /\ run' \in Run' /\ run'.pc = "batch" /\ run'.busy = run.busy \ {p}
        /\ run'.changing = run.changing /\ run'.errs = run.errs /\ SameJob /\ SameSpot
    BY <1>1, <1>2, <1>3 DEF Run, SameJob, SameSpot
  <1>5. UNCHANGED <<at, up, has, stray>> /\ UNCHANGED config /\ status' = status
    BY <1>1 DEF places
  <1>6. at \in [Places -> Versions \cup {None}] /\ up \in [Places -> BOOLEAN]
        /\ has \in [Places -> SUBSET Versions] /\ stray \in [Places -> Versions \cup {None}]
    BY DEF IInv, TypeOK
  <1>7. Done(p)'
    BY <1>1, <1>4, <1>5 DEF Done, SameJob
  <1>8. run.sound /\ p \notin run.swept /\ ~up'[p] => run'.errs
    BY <1>1, <1>2, <1>4, <1>5 DEF IInv, Down
  <1> QED
    BY <1>1, <1>2, <1>4, <1>5, <1>6, <1>7, <1>8, HostInv

LEMMA HostBeginInv == ASSUME NEW p \in Places PROVE IInv /\ HostBegin(p) => IInv'
  <1> SUFFICES ASSUME IInv, HostBegin(p) PROVE IInv'
    OBVIOUS
  <1>1. /\ p \in run.busy /\ UNCHANGED <<at, has, stray, config>>
        /\ run' = [run EXCEPT !.changing = @ \cup {p}]
        /\ status' = status \/ Records("Starting")
    BY DEF HostBegin, Progress
  <1>2. run.pc = "batch" /\ run.changing \subseteq run.busy
    BY <1>1, BusyFacts
  <1>3. Places' = Places /\ run \in Run
    BY <1>1, ConfigFacts DEF config, IInv, TypeOK
  <1>4. /\ run' \in Run' /\ run'.pc = "batch" /\ run'.busy = run.busy
        /\ run'.changing = run.changing \cup {p} /\ run'.errs = run.errs /\ SameJob /\ SameSpot
    BY <1>1, <1>2, <1>3 DEF Run, SameJob, SameSpot
  <1>5. at \in [Places -> Versions \cup {None}] /\ has \in [Places -> SUBSET Versions]
        /\ stray \in [Places -> Versions \cup {None}]
    BY DEF IInv, TypeOK
  <1>6. up' \in [Places -> BOOLEAN] /\ \A q \in Places : q # p => up'[q] = up[q]
    <2>1. up \in [Places -> BOOLEAN]
      BY DEF IInv, TypeOK
    <2>2. PICK b \in {up[p], FALSE} : up' = [up EXCEPT ![p] = b]
      BY DEF HostBegin
    <2> QED
      BY <2>1, <2>2
  <1> QED
    BY <1>1, <1>2, <1>4, <1>5, <1>6, HostInv

LEMMA HostOkInv == ASSUME NEW p \in Places PROVE IInv /\ HostOk(p) => IInv'
  <1> SUFFICES ASSUME IInv, HostOk(p) PROVE IInv'
    OBVIOUS
  <1>1. /\ p \in run.changing /\ UNCHANGED config
        /\ run' = [run EXCEPT !.busy = @ \ {p}, !.changing = @ \ {p}]
        /\ at' = [at EXCEPT ![p] = run.version]
        /\ up' = [up EXCEPT ![p] = TRUE]
        /\ has' = [has EXCEPT ![p] = @ \cup {run.version}]
        /\ stray' = [stray EXCEPT ![p] = None]
        /\ status' = status \/ Records("Starting")
    BY DEF HostOk
  <1>2. run.changing \subseteq run.busy /\ p \in run.busy
    BY <1>1 DEF IInv, Shape
  <1>3. run.pc = "batch" /\ run.version \in Versions
    BY <1>2, BusyFacts
  <1>4. Places' = Places /\ run \in Run
    BY <1>1, ConfigFacts DEF config, IInv, TypeOK
  <1>5. /\ run' \in Run' /\ run'.pc = "batch" /\ run'.busy = run.busy \ {p}
        /\ run'.changing = run.changing \ {p} /\ run'.errs = run.errs /\ SameJob /\ SameSpot
    BY <1>1, <1>3, <1>4 DEF Run, SameJob, SameSpot
  <1>6. /\ at \in [Places -> Versions \cup {None}] /\ up \in [Places -> BOOLEAN]
        /\ has \in [Places -> SUBSET Versions] /\ stray \in [Places -> Versions \cup {None}]
    BY DEF IInv, TypeOK
  <1>7. /\ at' \in [Places -> Versions \cup {None}] /\ up' \in [Places -> BOOLEAN]
        /\ has' \in [Places -> SUBSET Versions] /\ stray' \in [Places -> Versions \cup {None}]
    BY <1>1, <1>3, <1>6
  <1>8. /\ \A q \in Places : q # p => at'[q] = at[q] /\ up'[q] = up[q] /\ stray'[q] = stray[q]
        /\ at'[p] = run.version /\ up'[p] /\ stray'[p] = None
    BY <1>1, <1>6
  <1>9. Done(p)'
    BY <1>5, <1>8 DEF Done, SameJob
  <1> QED
    BY <1>1, <1>2, <1>5, <1>7, <1>8, <1>9, HostInv

LEMMA HostFailsInv == ASSUME NEW p \in Places PROVE IInv /\ HostFails(p) => IInv'
  <1> SUFFICES ASSUME IInv, HostFails(p) PROVE IInv'
    OBVIOUS
  <1>1. /\ p \in run.changing /\ UNCHANGED config
        /\ run' = [run EXCEPT !.busy = @ \ {p}, !.changing = @ \ {p}, !.errs = TRUE]
        /\ status' = status \/ Records("Starting")
    BY DEF HostFails, Progress
  <1>2. run.changing \subseteq run.busy /\ p \in run.busy
    BY <1>1 DEF IInv, Shape
  <1>3. run.pc = "batch" /\ run.version \in Versions
    BY <1>2, BusyFacts
  <1>4. Places' = Places /\ run \in Run
    BY <1>1, ConfigFacts DEF config, IInv, TypeOK
  <1>5. /\ run' \in Run' /\ run'.pc = "batch" /\ run'.busy = run.busy \ {p}
        /\ run'.changing = run.changing \ {p} /\ run'.errs /\ SameJob /\ SameSpot
    BY <1>1, <1>3, <1>4 DEF Run, SameJob, SameSpot
  <1>6. /\ at \in [Places -> Versions \cup {None}] /\ up \in [Places -> BOOLEAN]
        /\ has \in [Places -> SUBSET Versions] /\ stray \in [Places -> Versions \cup {None}]
    BY DEF IInv, TypeOK
  <1>7. PICK v \in {at[p], run.version}, b \in BOOLEAN, w \in {stray[p], run.version, None} :
          /\ at' = [at EXCEPT ![p] = v] /\ up' = [up EXCEPT ![p] = b]
          /\ stray' = [stray EXCEPT ![p] = w]
    BY DEF HostFails, Strays
  <1>8. PICK s \in {{}, {run.version}} : has' = [has EXCEPT ![p] = @ \cup s]
    BY DEF HostFails
  <1>9. /\ at' \in [Places -> Versions \cup {None}] /\ up' \in [Places -> BOOLEAN]
        /\ stray' \in [Places -> Versions \cup {None}]
        /\ \A q \in Places : q # p => at'[q] = at[q] /\ up'[q] = up[q] /\ stray'[q] = stray[q]
    BY <1>3, <1>6, <1>7
  <1>10. has' \in [Places -> SUBSET Versions]
    BY <1>3, <1>6, <1>8
  <1> QED
    BY <1>1, <1>2, <1>5, <1>9, <1>10, HostInv

\* A crash leaves no host worse than its steps did.
LEMMA CrashInv == IInv /\ Crash => IInv'
  <1> SUFFICES ASSUME IInv, Crash PROVE IInv'
    OBVIOUS
  <1>1. /\ run.pc # "idle" /\ UNCHANGED <<status, config>>
        /\ run' = [run EXCEPT !.pc = "idle", !.result = "crashed",
                              !.busy = {}, !.changing = {}]
    BY DEF Crash
  <1>2. Lists' = Lists /\ Places' = Places /\ UNCHANGED <<runs, mode, batch>> /\ run \in Run
    BY <1>1, ConfigFacts DEF config, IInv, TypeOK
  <1>3. /\ run' \in Run' /\ run'.pc = "idle" /\ run'.busy = {} /\ run'.changing = {}
        /\ SameJob /\ SameSpot
    BY <1>1, <1>2 DEF Run, PCs, SameJob, SameSpot
  <1>4. PICK moved \in SUBSET run.changing, serving \in SUBSET run.changing :
          /\ at' = [p \in Places |-> IF p \in moved THEN run.version ELSE at[p]]
          /\ up' = [p \in Places |-> up[p] \/ (p \in serving /\ at'[p] # None)]
          /\ has' = [p \in Places |->
                      has[p] \cup (IF p \in moved THEN {run.version} ELSE {})]
          /\ \E left \in [run.changing -> Versions \cup {None}] :
                stray' = [p \in Places |-> IF p \in run.changing THEN left[p] ELSE stray[p]]
    BY DEF Crash
  <1>5. /\ at \in [Places -> Versions \cup {None}] /\ up \in [Places -> BOOLEAN]
        /\ has \in [Places -> SUBSET Versions] /\ stray \in [Places -> Versions \cup {None}]
    BY DEF IInv, TypeOK
  <1>6. moved # {} => run.pc = "batch" /\ run.version \in Versions
    BY <1>4 DEF IInv, Shape
  <1>7. TypeOK'
    <2>1. at' \in [Places -> Versions \cup {None}]
      BY <1>4, <1>5, <1>6
    <2>2. has' \in [Places -> SUBSET Versions]
      BY <1>4, <1>5, <1>6
    <2>3. up' \in [Places -> BOOLEAN]
      BY <1>4, <1>5
    <2>4. stray' \in [Places -> Versions \cup {None}]
      BY <1>4, <1>5
    <2> QED
      BY <1>1, <1>2, <1>3, <2>1, <2>2, <2>3, <2>4 DEF IInv, TypeOK
  <1>8. Shape' /\ Covered' /\ Down'
    BY <1>3 DEF IInv, Shape, Covered, Down, Early, Middle, SameSpot
  <1>9. Unsettled'
    BY <1>1, <1>2, <1>3 DEF IInv, Unsettled, Early, Middle
  <1>10. OneBatchDown'
    <2>1. \A p \in Places : ~up'[p] => ~up[p]
      BY <1>4
    <2>2. \A r : Size(r)' = Size(r)
      BY <1>2, <1>3, ConfigFacts DEF SameJob
    <2> QED
      BY <1>2, <1>3, <2>1, <2>2 DEF IInv, OneBatchDown, SameJob
  <1>11. LogTellsSuccess'
    <2>1. CASE run.changing = {}
      <3>1. \A p \in Places : at'[p] = at[p] /\ (up[p] => up'[p]) /\ stray'[p] = stray[p]
        BY <1>4, <2>1
      <3> QED
        BY <1>1, <1>2, <1>3, <3>1 DEF IInv, LogTellsSuccess, SameJob
    <2>2. CASE run.changing # {}
      <3>1. status'[runs] = status[runs] /\ run.pc \in Middle
        BY <1>1, <2>2 DEF Middle, IInv, Shape
      <3> QED
        BY <1>2, <3>1 DEF IInv, Unsettled, LogTellsSuccess
    <2> QED
      BY <2>1, <2>2
  <1> QED
    BY <1>7, <1>8, <1>9, <1>10, <1>11 DEF IInv

-----------------------------------------------------------------------------
(* The theorems *)

LEMMA StutterInv == IInv /\ UNCHANGED vars => IInv'
  <1> SUFFICES ASSUME IInv, UNCHANGED vars PROVE IInv'
    OBVIOUS
  <1>1. Lists' = Lists /\ Places' = Places /\ Batch' = Batch /\ \A r : Size(r)' = Size(r)
    BY ConfigFacts DEF vars
  <1> QED
    BY <1>1 DEF IInv, TypeOK, Run, Shape, Unsettled, Covered, Down, OneBatchDown,
       LogTellsSuccess, Before, Done, vars

LEMMA InvHolds == Spec => []IInv
  <1>1. Init => IInv
    BY InitInv
  <1>2. IInv /\ [Next]_vars => IInv'
    BY StutterInv, BeginInv, CrashInv, FindInv, OpenInv, HookInv, SweepInv, PrepareInv, PreflightInv, NextBatchInv,
       BatchDoneInv, CloseInv, PostInv, HostSkipInv, HostBeginInv, HostOkInv, HostFailsInv
       DEF Next, Step, Host
  <1> QED
    BY <1>1, <1>2, PTL DEF Spec

\* Type correctness, for every backend and host list (the state of Deploy and
\* Rollback, and the statuses of the log).
THEOREM FleetTypeOK == Spec => []TypeOK
  <1>1. IInv => TypeOK
    BY DEF IInv
  <1> QED
    BY <1>1, InvHolds, PTL

\* fleet.Batches has at most one batch of one role down, whatever fails, besides
\* the hosts that SweepStaleContainers took down before it.
THEOREM FleetOneBatchDown == Spec => []OneBatchDown
  <1>1. IInv => OneBatchDown
    BY DEF IInv
  <1> QED
    BY <1>1, InvHolds, PTL

\* A deploy the log calls Succeeded has every host of every role serving it,
\* and a native rollback it calls RolledBack has them running it.
THEOREM FleetLogTellsSuccess == Spec => []LogTellsSuccess
  <1>1. IInv => LogTellsSuccess
    BY DEF IInv
  <1> QED
    BY <1>1, InvHolds, PTL

\* Batches waits for all of a batch's hosts before its error ends the run.
THEOREM FleetEndedIsQuiet == Spec => []EndedIsQuiet
  <1>1. IInv => EndedIsQuiet
    BY DEF IInv, Shape, EndedIsQuiet
  <1> QED
    BY <1>1, InvHolds, PTL

\* No step but HostBegin begins a host.
LEMMA BeginsFacts ==
    ASSUME IInv, Next, NEW p \in run'.changing \ run.changing
    PROVE  HostBegin(p) /\ p \in Places
  <1>1. run \in Run
    BY DEF IInv, TypeOK
  <1>2. CASE Begin
    BY <1>2 DEF Begin
  <1>3. CASE Crash
    BY <1>1, <1>3 DEF Crash, Run
  <1>4. CASE Find
    BY <1>1, <1>4 DEF Find, Ends, Run
  <1>5. CASE Open \/ Hook \/ Sweep \/ Prepare \/ Preflight \/ Close \/ Post
    BY <1>1, <1>5 DEF Open, Hook, Sweep, Prepare, Preflight, Close, Post, RecordsFailure, Ends, Goes, Run
  <1>6. CASE NextBatch \/ BatchDone
    BY <1>1, <1>6 DEF NextBatch, BatchDone, Failing, RecordsFailure, Ends, Goes, Run
  <1>7. CASE \E q \in Places : Host(q)
    <2>1. PICK q \in Places : Host(q)
      BY <1>7
    <2>2. CASE HostSkip(q) \/ HostOk(q) \/ HostFails(q)
      BY <1>1, <2>2 DEF HostSkip, HostOk, HostFails, Run
    <2>3. CASE HostBegin(q)
      <3>1. run'.changing = run.changing \cup {q}
        BY <1>1, <2>3 DEF HostBegin, Run
      <3> QED
        BY <2>3, <3>1
    <2> QED
      BY <2>1, <2>2, <2>3 DEF Host
  <1> QED
    BY <1>2, <1>3, <1>4, <1>5, <1>6, <1>7 DEF Next, Step

\* Batches goes to no further host after a failure: what is a batch or more
\* behind has the version.
THEOREM FleetBatchesInOrder == Spec => BatchesInOrder
  <1>1. ASSUME IInv, [Next]_vars,
               NEW p \in Places, p \in run'.changing \ run.changing,
               NEW q \in Places,
               q[1] < p[1] \/ (q[1] = p[1] /\ q[2] + Size(p[1]) <= p[2])
        PROVE  at[q] = run.version
    <2>1. Next
      BY <1>1 DEF vars
    <2>2. p \in run.busy
      BY <1>1, <2>1, BeginsFacts DEF HostBegin
    <2>3. run.pc = "batch" /\ p \in Batch /\ run.role \in 1..Len(Lists)
      BY <1>1, <2>2, BusyFacts
    <2>4. p[1] = run.role /\ p[2] <= run.from + Size(run.role)
      BY <2>3 DEF Batch
    <2>5. Size(run.role) \in Nat /\ run.from \in Nat
      BY <1>1, <2>3, SizeFacts DEF IInv, TypeOK, Run
    <2>6. p[2] \in Nat /\ q[2] \in Nat
      <3>1. \A s \in Places : s[2] \in 1..Lists[s[1]]
        BY <1>1, PlaceFacts DEF IInv, TypeOK
      <3> QED
        BY <1>1, <3>1
    <2>7. Before(q)
      BY <1>1, <2>4, <2>5, <2>6 DEF Before
    <2> QED
      BY <1>1, <2>3, <2>7 DEF IInv, Covered, Middle, Done
  <1>2. IInv /\ [Next]_vars =>
          [\A p \in Places : p \in run'.changing \ run.changing =>
              \A q \in Places :
                  q[1] < p[1] \/ (q[1] = p[1] /\ q[2] + Size(p[1]) <= p[2])
                  => at[q] = run.version]_vars
    BY <1>1
  <1> QED
    BY <1>2, InvHolds, PTL DEF Spec, BatchesInOrder

\* A step writes to the log only while the run's record is open.
LEMMA StatusFacts ==
    ASSUME IInv, Next, status' # status
    PROVE  /\ run.pc \in Early \cup Middle /\ runs > 0
           /\ \E s \in Statuses : Records(s)
  <1>1. CASE Begin \/ Crash \/ Find \/ Hook \/ Post
    BY <1>1 DEF Begin, Crash, Find, Hook, Post
  <1>2. CASE Open \/ Sweep \/ Prepare \/ Preflight \/ Close
    BY <1>2 DEF Open, Sweep, Prepare, Preflight, Close, Progress, RecordsFailure, Early, Middle, IInv, Shape, Statuses
  <1>3. CASE NextBatch \/ BatchDone
    BY <1>3 DEF NextBatch, BatchDone, Failing, RecordsFailure, Middle, IInv, Shape, Statuses
  <1>4. CASE \E p \in Places : Host(p)
    <2>1. PICK p \in Places : Host(p)
      BY <1>4
    <2>2. p \in run.busy
      BY <2>1 DEF Host, HostSkip, HostBegin, HostOk, HostFails, IInv, Shape
    <2>3. run.pc = "batch" /\ runs > 0
      BY <2>2, BusyFacts
    <2>4. Records("Starting")
      BY <2>1 DEF Host, HostSkip, HostBegin, HostOk, HostFails, Progress
    <2> QED
      BY <2>3, <2>4 DEF Middle, Statuses
  <1> QED
    BY <1>1, <1>2, <1>3, <1>4 DEF Next, Step

\* No host, and no later run, writes over a record that says how a run ended.
THEOREM FleetTerminalIsLast == Spec => TerminalIsLast
  <1>1. ASSUME IInv, [Next]_vars,
               NEW i \in 1..MaxRuns, status[i] \in {"Succeeded", "Failed"}
        PROVE  status'[i] = status[i]
    <2>1. CASE status' = status
      BY <2>1
    <2>2. CASE status' # status
      <3>1. /\ run.pc \in Early \cup Middle /\ runs > 0
            /\ \E s \in Statuses : Records(s)
        BY <1>1, <2>2, StatusFacts DEF vars
      <3>2. i # runs
        BY <1>1, <3>1 DEF IInv, Unsettled
      <3> QED
        BY <1>1, <3>1, <3>2, RecordFacts DEF IInv
    <2> QED
      BY <2>1, <2>2
  <1>2. IInv /\ [Next]_vars =>
          [\A i \in 1..MaxRuns :
              status[i] \in {"Succeeded", "Failed"} => status'[i] = status[i]]_vars
    BY <1>1
  <1> QED
    BY <1>2, InvHolds, PTL DEF Spec, TerminalIsLast
=============================================================================
