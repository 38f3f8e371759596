-------------------------- MODULE DeployLockProofs --------------------------
(***************************************************************************)
(* Proofs about the deploy lock, for any deployers, hosts and host lists,  *)
(* whatever commands are refused, lose their answer or crash.  What is     *)
(* left behind is accounted for also when somebody runs `qifa lock         *)
(* release`; that the lock excludes needs that nobody does.                *)
(***************************************************************************)
EXTENDS DeployLock, TLAPS

\* What the deployer's place in the code says about l.held.
Progress(d) ==
    /\ released[d] \in Nat /\ held[d] \in Nat
    /\ released[d] <= held[d] /\ held[d] <= Len(HostList[d])
    /\ pc[d] = "idle" => held[d] = 0
    /\ pc[d] \in {"idle", "mkdir", "upload", "locked"} => released[d] = 0
    /\ pc[d] \in {"mkdir", "upload"} => held[d] < Len(HostList[d])
    /\ pc[d] = "locked" => held[d] = Len(HostList[d])
    /\ pc[d] = "release" => released[d] < held[d]

\* No command fails other than by its qifa's death.
Reliable == Faults \subseteq {"crash"}

\* A directory of the deployer's making is one it is at, or has yet to
\* release, or has named as left.
Accounted(d) ==
    /\ d \in won => pc[d] \notin {"idle", "mkdir", "upload"}
    /\ \A h \in Hosts : dir[h] = d =>
         /\ pc[d] # "idle"
         /\ pc[d] \in {"mkdir", "locked"} => \E i \in 1..held[d] : h = HostList[d][i]
         /\ pc[d] = "upload" => \E i \in 1..held[d] + 1 : h = HostList[d][i]
         /\ pc[d] = "release" /\ (d \in won \/ Reliable) =>
              h \in warned[d] \/ \E i \in released[d] + 1..held[d] : h = HostList[d][i]
         /\ pc[d] = "done" /\ (d \in won \/ Reliable) => h \in warned[d]
    /\ Reliable => warned[d] = {}

Base == TypeOK /\ \A d \in Deployers : Progress(d) /\ Accounted(d)

\* The directories a live deployer made and has not removed are still its own.
Owned(d) ==
    /\ pc[d] \in {"mkdir", "upload", "locked", "release"} =>
         \A i \in 1..Len(HostList[d]) :
           released[d] < i /\ i <= held[d] => dir[HostList[d][i]] = d
    /\ pc[d] = "upload" => dir[Target(d)] = d

\* As long as it goes on, they name it.
Named(d) ==
    pc[d] \in {"mkdir", "upload", "locked"} =>
      \A i \in 1..held[d] : holder[HostList[d][i]] = d

Inv ==
    /\ Base
    /\ force = 0
    /\ \A d \in Deployers : Owned(d) /\ Named(d)

\* The places a deployer's cursors point at are hosts of its list.
LEMMA CursorHosts ==
    ASSUME NEW d \in Deployers, Progress(d)
    PROVE  /\ Len(HostList[d]) \in Nat /\ Len(HostList[d]) > 0
           /\ \A i \in 1..Len(HostList[d]) : HostList[d][i] \in Hosts
           /\ pc[d] \in {"mkdir", "upload"} =>
                held[d] + 1 \in 1..Len(HostList[d]) /\ Target(d) \in Hosts
           /\ pc[d] = "release" =>
                released[d] + 1 \in 1..Len(HostList[d]) /\ Clearing(d) \in Hosts
<1>1. HostList[d] \in Seq(Hosts)
  BY ListAssumption
<1>2. Len(HostList[d]) \in Nat /\ Len(HostList[d]) > 0
  BY <1>1, ListAssumption
<1>3. \A i \in 1..Len(HostList[d]) : HostList[d][i] \in Hosts
  BY <1>1
<1> QED
  BY <1>2, <1>3 DEF Progress, Target, Clearing

LEMMA InitInv == Init => Inv
<1> SUFFICES ASSUME Init PROVE Inv
  OBVIOUS
<1>1. ASSUME NEW d \in Deployers PROVE HostList[d] \in Seq(Hosts) /\ Len(HostList[d]) > 0
  BY ListAssumption
<1>2. OperatorList \in Seq(Hosts)
  BY ListAssumption
<1>3. TypeOK
  BY <1>1, <1>2 DEF Init, TypeOK, PCs
<1>4. ASSUME NEW d \in Deployers
      PROVE  Progress(d) /\ Accounted(d) /\ Owned(d) /\ Named(d)
  <2>1. Progress(d) /\ Owned(d) /\ Named(d)
    BY <1>1 DEF Init, Progress, Owned, Named
  <2>2. Accounted(d)
    BY FreeAssumption DEF Init, Accounted
  <2> QED
    BY <2>1, <2>2
<1> QED
  BY <1>3, <1>4 DEF Init, Inv, Base

-----------------------------------------------------------------------------
(* Nothing is forgotten, whoever forces a release *)

\* A step of d leaves the other deployers' places and cursors alone, and
\* makes no directory theirs.
Apart(d) ==
    \A e \in Deployers \ {d} :
        /\ pc'[e] = pc[e] /\ held'[e] = held[e] /\ released'[e] = released[e]
        /\ warned'[e] = warned[e] /\ (e \in won' => e \in won) /\ (e \in won => e \in won')
        /\ \A h \in Hosts : dir'[h] = e => dir[h] = e

LEMMA OthersAccounted ==
    ASSUME Base, NEW d \in Deployers, Apart(d), NEW e \in Deployers \ {d}
    PROVE  Progress(e)' /\ Accounted(e)'
BY DEF Base, Apart, Progress, Accounted

LEMMA StepBase ==
    ASSUME Base, NEW d \in Deployers, Start(d) \/ Step(d) \/ Crash(d)
    PROVE  Base'
<1> USE FreeAssumption
<1>t. TypeOK /\ Progress(d) /\ Accounted(d)
  BY DEF Base
<1>h. /\ Len(HostList[d]) \in Nat /\ Len(HostList[d]) > 0
      /\ \A i \in 1..Len(HostList[d]) : HostList[d][i] \in Hosts
      /\ pc[d] \in {"mkdir", "upload"} =>
           held[d] + 1 \in 1..Len(HostList[d]) /\ Target(d) \in Hosts
      /\ pc[d] = "release" =>
           released[d] + 1 \in 1..Len(HostList[d]) /\ Clearing(d) \in Hosts
  BY <1>t, CursorHosts
<1>q. SUFFICES TypeOK' /\ Progress(d)' /\ Accounted(d)' /\ Apart(d)
  BY OthersAccounted DEF Base
<1>r. Reliable => "refused" \notin Faults /\ "lost" \notin Faults
  BY DEF Reliable
<1>1. CASE Start(d)
  <2>1. pc' \in [Deployers -> PCs] /\ force' \in 0..Len(OperatorList)
    BY <1>1, <1>t DEF Start, TypeOK, PCs
  <2>2. /\ dir' \in [Hosts -> Deployers \cup {Free}]
        /\ holder' \in [Hosts -> Deployers \cup {Free}]
    BY <1>1, <1>t, <1>h DEF Start, TypeOK
  <2>3. held' \in [Deployers -> Nat] /\ released' \in [Deployers -> Nat]
    BY <1>1, <1>t DEF Start, TypeOK
  <2>4. \A e \in Deployers : released'[e] <= held'[e] /\ held'[e] <= Len(HostList[e])
    BY <1>1, <1>t, <1>h DEF Start, TypeOK, Progress
  <2>5. won' \subseteq Deployers /\ warned' \in [Deployers -> SUBSET Hosts]
    BY <1>1, <1>t, <1>h DEF Start, TypeOK
  <2>6. Apart(d)
    BY <1>1, <1>t, <1>h DEF Start, TypeOK, Apart
  <2>7. Progress(d)'
    BY <1>1, <1>t, <1>h DEF Start, TypeOK, Progress
  <2>8. Accounted(d)'
    BY <1>1, <1>t, <1>h, <1>r DEF Start, TypeOK, Progress, Accounted
  <2> QED
    BY <2>1, <2>2, <2>3, <2>4, <2>5, <2>6, <2>7, <2>8 DEF TypeOK
<1>2. CASE MkdirOk(d)
  <2>1. pc' \in [Deployers -> PCs] /\ force' \in 0..Len(OperatorList)
    BY <1>2, <1>t DEF MkdirOk, TypeOK, PCs
  <2>2. /\ dir' \in [Hosts -> Deployers \cup {Free}]
        /\ holder' \in [Hosts -> Deployers \cup {Free}]
    BY <1>2, <1>t, <1>h DEF MkdirOk, TypeOK
  <2>3. held' \in [Deployers -> Nat] /\ released' \in [Deployers -> Nat]
    BY <1>2, <1>t DEF MkdirOk, TypeOK
  <2>4. \A e \in Deployers : released'[e] <= held'[e] /\ held'[e] <= Len(HostList[e])
    BY <1>2, <1>t, <1>h DEF MkdirOk, TypeOK, Progress
  <2>5. won' \subseteq Deployers /\ warned' \in [Deployers -> SUBSET Hosts]
    BY <1>2, <1>t, <1>h DEF MkdirOk, TypeOK
  <2>6. Apart(d)
    BY <1>2, <1>t, <1>h DEF MkdirOk, TypeOK, Apart
  <2>7. Progress(d)'
    BY <1>2, <1>t, <1>h DEF MkdirOk, TypeOK, Progress
  <2>8. Accounted(d)'
    BY <1>2, <1>t, <1>h, <1>r DEF MkdirOk, Target, TypeOK, Progress, Accounted
  <2> QED
    BY <2>1, <2>2, <2>3, <2>4, <2>5, <2>6, <2>7, <2>8 DEF TypeOK
<1>3. CASE MkdirFails(d)
  <2>1. pc' \in [Deployers -> PCs] /\ force' \in 0..Len(OperatorList)
    BY <1>3, <1>t DEF MkdirFails, ReleaseFrom, TypeOK, PCs
  <2>2. /\ dir' \in [Hosts -> Deployers \cup {Free}]
        /\ holder' \in [Hosts -> Deployers \cup {Free}]
    <3>1. dir' = dir \/ dir' = [dir EXCEPT ![Target(d)] = d]
      BY <1>3 DEF MkdirFails
    <3>2. holder' = holder
      BY <1>3 DEF MkdirFails
    <3> QED
      BY <3>1, <3>2, <1>t DEF TypeOK
  <2>3. held' \in [Deployers -> Nat] /\ released' \in [Deployers -> Nat]
    BY <1>3, <1>t DEF MkdirFails, ReleaseFrom, TypeOK
  <2>4. \A e \in Deployers : released'[e] <= held'[e] /\ held'[e] <= Len(HostList[e])
    BY <1>3, <1>t, <1>h DEF MkdirFails, ReleaseFrom, TypeOK, Progress
  <2>5. won' \subseteq Deployers /\ warned' \in [Deployers -> SUBSET Hosts]
    BY <1>3, <1>t, <1>h DEF MkdirFails, ReleaseFrom, TypeOK
  <2>6. Apart(d)
    BY <1>3, <1>t, <1>h DEF MkdirFails, ReleaseFrom, TypeOK, Apart
  <2>7. Progress(d)'
    BY <1>3, <1>t, <1>h DEF MkdirFails, ReleaseFrom, TypeOK, Progress
  <2>8. Accounted(d)'
    BY <1>3, <1>t, <1>h, <1>r DEF MkdirFails, ReleaseFrom, TypeOK, Progress, Accounted
  <2> QED
    BY <2>1, <2>2, <2>3, <2>4, <2>5, <2>6, <2>7, <2>8 DEF TypeOK
<1>4. CASE UploadOk(d)
  <2>1. pc' \in [Deployers -> PCs] /\ force' \in 0..Len(OperatorList)
    BY <1>4, <1>t DEF UploadOk, WriteHolder, TypeOK, PCs
  <2>2. /\ dir' \in [Hosts -> Deployers \cup {Free}]
        /\ holder' \in [Hosts -> Deployers \cup {Free}]
    BY <1>4, <1>t, <1>h DEF UploadOk, WriteHolder, TypeOK
  <2>3. held' \in [Deployers -> Nat] /\ released' \in [Deployers -> Nat]
    BY <1>4, <1>t DEF UploadOk, WriteHolder, TypeOK
  <2>4. \A e \in Deployers : released'[e] <= held'[e] /\ held'[e] <= Len(HostList[e])
    BY <1>4, <1>t, <1>h DEF UploadOk, WriteHolder, TypeOK, Progress
  <2>5. won' \subseteq Deployers /\ warned' \in [Deployers -> SUBSET Hosts]
    BY <1>4, <1>t, <1>h DEF UploadOk, WriteHolder, TypeOK
  <2>6. Apart(d)
    BY <1>4, <1>t, <1>h DEF UploadOk, WriteHolder, TypeOK, Apart
  <2>7. Progress(d)'
    BY <1>4, <1>t, <1>h DEF UploadOk, WriteHolder, TypeOK, Progress
  <2>8. Accounted(d)'
    BY <1>4, <1>t, <1>h, <1>r DEF UploadOk, WriteHolder, Target, TypeOK, Progress, Accounted
  <2> QED
    BY <2>1, <2>2, <2>3, <2>4, <2>5, <2>6, <2>7, <2>8 DEF TypeOK
<1>5. CASE UploadFails(d)
  <2>1. pc' \in [Deployers -> PCs] /\ force' \in 0..Len(OperatorList)
    BY <1>5, <1>t DEF UploadFails, WriteHolder, TypeOK, PCs
  <2>2. /\ dir' \in [Hosts -> Deployers \cup {Free}]
        /\ holder' \in [Hosts -> Deployers \cup {Free}]
    <3>w. pc[d] = "upload" /\ Target(d) \in Hosts
      BY <1>5, <1>h DEF UploadFails
    <3>1. CASE WriteHolder(d)
      BY <1>t, <3>w, <3>1 DEF WriteHolder, TypeOK
    <3>2. CASE UNCHANGED <<dir, holder>>
      BY <1>t, <3>2 DEF TypeOK
    <3> QED
      BY <1>5, <3>1, <3>2 DEF UploadFails
  <2>3. held' \in [Deployers -> Nat] /\ released' \in [Deployers -> Nat]
    BY <1>5, <1>t DEF UploadFails, WriteHolder, TypeOK
  <2>4. \A e \in Deployers : released'[e] <= held'[e] /\ held'[e] <= Len(HostList[e])
    BY <1>5, <1>t, <1>h DEF UploadFails, WriteHolder, TypeOK, Progress
  <2>5. won' \subseteq Deployers /\ warned' \in [Deployers -> SUBSET Hosts]
    BY <1>5, <1>t, <1>h DEF UploadFails, WriteHolder, TypeOK
  <2>6. Apart(d)
    BY <1>5, <1>t, <1>h DEF UploadFails, WriteHolder, TypeOK, Apart
  <2>7. Progress(d)'
    BY <1>5, <1>t, <1>h DEF UploadFails, WriteHolder, TypeOK, Progress
  <2>8. Accounted(d)'
    BY <1>5, <1>t, <1>h, <1>r DEF UploadFails, WriteHolder, TypeOK, Progress, Accounted
  <2> QED
    BY <2>1, <2>2, <2>3, <2>4, <2>5, <2>6, <2>7, <2>8 DEF TypeOK
<1>6. CASE EndDeploy(d)
  <2>1. pc' \in [Deployers -> PCs] /\ force' \in 0..Len(OperatorList)
    BY <1>6, <1>t DEF EndDeploy, TypeOK, PCs
  <2>2. /\ dir' \in [Hosts -> Deployers \cup {Free}]
        /\ holder' \in [Hosts -> Deployers \cup {Free}]
    BY <1>6, <1>t, <1>h DEF EndDeploy, TypeOK
  <2>3. held' \in [Deployers -> Nat] /\ released' \in [Deployers -> Nat]
    BY <1>6, <1>t DEF EndDeploy, TypeOK
  <2>4. \A e \in Deployers : released'[e] <= held'[e] /\ held'[e] <= Len(HostList[e])
    BY <1>6, <1>t, <1>h DEF EndDeploy, TypeOK, Progress
  <2>5. won' \subseteq Deployers /\ warned' \in [Deployers -> SUBSET Hosts]
    BY <1>6, <1>t, <1>h DEF EndDeploy, TypeOK
  <2>6. Apart(d)
    BY <1>6, <1>t, <1>h DEF EndDeploy, TypeOK, Apart
  <2>7. Progress(d)'
    BY <1>6, <1>t, <1>h DEF EndDeploy, TypeOK, Progress
  <2>8. Accounted(d)'
    BY <1>6, <1>t, <1>h, <1>r DEF EndDeploy, TypeOK, Progress, Accounted
  <2> QED
    BY <2>1, <2>2, <2>3, <2>4, <2>5, <2>6, <2>7, <2>8 DEF TypeOK
<1>7. CASE ReleaseOk(d)
  <2>1. pc' \in [Deployers -> PCs] /\ force' \in 0..Len(OperatorList)
    BY <1>7, <1>t DEF ReleaseOk, Clear, NextRelease, TypeOK, PCs
  <2>2. /\ dir' \in [Hosts -> Deployers \cup {Free}]
        /\ holder' \in [Hosts -> Deployers \cup {Free}]
    BY <1>7, <1>t, <1>h DEF ReleaseOk, Clear, NextRelease, TypeOK
  <2>3. held' \in [Deployers -> Nat] /\ released' \in [Deployers -> Nat]
    BY <1>7, <1>t DEF ReleaseOk, Clear, NextRelease, TypeOK
  <2>4. \A e \in Deployers : released'[e] <= held'[e] /\ held'[e] <= Len(HostList[e])
    BY <1>7, <1>t, <1>h DEF ReleaseOk, Clear, NextRelease, TypeOK, Progress
  <2>5. won' \subseteq Deployers /\ warned' \in [Deployers -> SUBSET Hosts]
    BY <1>7, <1>t, <1>h DEF ReleaseOk, Clear, NextRelease, TypeOK
  <2>6. Apart(d)
    BY <1>7, <1>t, <1>h DEF ReleaseOk, Clear, NextRelease, TypeOK, Apart
  <2>7. Progress(d)'
    BY <1>7, <1>t, <1>h DEF ReleaseOk, Clear, NextRelease, TypeOK, Progress
  <2>8. Accounted(d)'
    BY <1>7, <1>t, <1>h, <1>r DEF ReleaseOk, Clear, NextRelease, Clearing, TypeOK, Progress, Accounted
  <2> QED
    BY <2>1, <2>2, <2>3, <2>4, <2>5, <2>6, <2>7, <2>8 DEF TypeOK
<1>8. CASE ReleaseFails(d)
  <2>1. pc' \in [Deployers -> PCs] /\ force' \in 0..Len(OperatorList)
    BY <1>8, <1>t DEF ReleaseFails, Clear, NextRelease, TypeOK, PCs
  <2>2. /\ dir' \in [Hosts -> Deployers \cup {Free}]
        /\ holder' \in [Hosts -> Deployers \cup {Free}]
    <3>1. CASE Clear(Clearing(d))
      BY <1>8, <1>t, <1>h, <3>1 DEF ReleaseFails, Clear, TypeOK
    <3>2. CASE UNCHANGED <<dir, holder>>
      BY <1>t, <3>2 DEF TypeOK
    <3> QED
      BY <1>8, <3>1, <3>2 DEF ReleaseFails
  <2>3. held' \in [Deployers -> Nat] /\ released' \in [Deployers -> Nat]
    BY <1>8, <1>t DEF ReleaseFails, Clear, NextRelease, TypeOK
  <2>4. \A e \in Deployers : released'[e] <= held'[e] /\ held'[e] <= Len(HostList[e])
    BY <1>8, <1>t, <1>h DEF ReleaseFails, Clear, NextRelease, TypeOK, Progress
  <2>5. won' \subseteq Deployers /\ warned' \in [Deployers -> SUBSET Hosts]
    BY <1>8, <1>t, <1>h DEF ReleaseFails, Clear, NextRelease, TypeOK
  <2>6. Apart(d)
    BY <1>8, <1>t, <1>h DEF ReleaseFails, Clear, NextRelease, TypeOK, Apart
  <2>7. Progress(d)'
    BY <1>8, <1>t, <1>h DEF ReleaseFails, Clear, NextRelease, TypeOK, Progress
  <2>8. Accounted(d)'
    BY <1>8, <1>t, <1>h, <1>r DEF ReleaseFails, Clear, NextRelease, Clearing, TypeOK, Progress, Accounted
  <2> QED
    BY <2>1, <2>2, <2>3, <2>4, <2>5, <2>6, <2>7, <2>8 DEF TypeOK
<1>9. CASE Crash(d)
  <2>1. pc' \in [Deployers -> PCs] /\ force' \in 0..Len(OperatorList)
    BY <1>9, <1>t DEF Crash, TypeOK, PCs
  <2>2. /\ dir' \in [Hosts -> Deployers \cup {Free}]
        /\ holder' \in [Hosts -> Deployers \cup {Free}]
    BY <1>9, <1>t, <1>h DEF Crash, TypeOK
  <2>3. held' \in [Deployers -> Nat] /\ released' \in [Deployers -> Nat]
    BY <1>9, <1>t DEF Crash, TypeOK
  <2>4. \A e \in Deployers : released'[e] <= held'[e] /\ held'[e] <= Len(HostList[e])
    BY <1>9, <1>t, <1>h DEF Crash, TypeOK, Progress
  <2>5. won' \subseteq Deployers /\ warned' \in [Deployers -> SUBSET Hosts]
    BY <1>9, <1>t, <1>h DEF Crash, TypeOK
  <2>6. Apart(d)
    BY <1>9, <1>t, <1>h DEF Crash, TypeOK, Apart
  <2>7. Progress(d)'
    BY <1>9, <1>t, <1>h DEF Crash, TypeOK, Progress
  <2>8. Accounted(d)'
    BY <1>9, <1>t, <1>h, <1>r DEF Crash, TypeOK, Progress, Accounted
  <2> QED
    BY <2>1, <2>2, <2>3, <2>4, <2>5, <2>6, <2>7, <2>8 DEF TypeOK
<1> QED
  BY <1>1, <1>2, <1>3, <1>4, <1>5, <1>6, <1>7, <1>8, <1>9 DEF Step

LEMMA NextBase ==
    ASSUME Base, [Next]_vars
    PROVE  Base'
<1>1. CASE \E d \in Deployers : Start(d) \/ Step(d) \/ Crash(d)
  BY <1>1, StepBase
<1>2. CASE ForceStart
  <2>1. TypeOK'
    BY <1>2, ListAssumption DEF ForceStart, Base, TypeOK
  <2> QED
    BY <1>2, <2>1 DEF ForceStart, Base, Progress, Accounted
<1>3. CASE ForceRelease
  <2>1. force \in 1..Len(OperatorList) /\ OperatorList[force] \in Hosts
    BY <1>3, ListAssumption DEF ForceRelease, Base, TypeOK
  <2>2. /\ dir' \in [Hosts -> Deployers \cup {Free}]
        /\ holder' \in [Hosts -> Deployers \cup {Free}]
        /\ \A h \in Hosts : dir'[h] = dir[h] \/ dir'[h] = Free
    BY <1>3, <2>1 DEF ForceRelease, Clear, Base, TypeOK
  <2>3. force' \in 0..Len(OperatorList) /\ UNCHANGED <<pc, held, released, won, warned>>
    BY <1>3, <2>1, ListAssumption DEF ForceRelease
  <2>4. TypeOK'
    BY <2>2, <2>3 DEF Base, TypeOK
  <2>5. ASSUME NEW d \in Deployers PROVE Progress(d)' /\ Accounted(d)'
    BY <2>2, <2>3, FreeAssumption DEF Base, Progress, Accounted
  <2> QED
    BY <2>4, <2>5 DEF Base
<1>4. CASE UNCHANGED vars
  <2>1. TypeOK'
    BY <1>4 DEF vars, Base, TypeOK
  <2> QED
    BY <1>4, <2>1 DEF vars, Base, Progress, Accounted
<1> QED
  BY <1>1, <1>2, <1>3, <1>4 DEF Next

LEMMA BaseInvariant == Spec => []Base
<1>1. Init => Base
  BY InitInv DEF Inv
<1>2. Base /\ [Next]_vars => Base'
  BY NextBase
<1> QED
  BY <1>1, <1>2, PTL DEF Spec

\* Type correctness, with the bounds on the two cursors into the host list.
THEOREM LockTypeOK == Spec => []TypeOK
<1>1. Base => TypeOK
  BY DEF Base
<1> QED
  BY <1>1, BaseInvariant, PTL

\* A deploy that held the lock and is over leaves no directory behind that its
\* warning does not name, whatever failed, and whoever forces a release.
THEOREM LockWinnersLeftoverIsReported == Spec => []WinnersLeftoverIsReported
<1>1. Base => WinnersLeftoverIsReported
  BY DEF Base, TypeOK, Accounted, WinnersLeftoverIsReported
<1> QED
  BY <1>1, BaseInvariant, PTL

\* As long as every command that is sent works, a failed Acquire leaves no
\* directory of its own, whoever dies and whoever forces a release.
THEOREM LockFailedAcquireLeavesNothing ==
    ASSUME Faults \subseteq {"crash"}
    PROVE  Spec => []FailedAcquireLeavesNothing
<1>1. Base => FailedAcquireLeavesNothing
  BY DEF Base, Reliable, Accounted, FailedAcquireLeavesNothing
<1> QED
  BY <1>1, BaseInvariant, PTL

-----------------------------------------------------------------------------
(* The lock excludes *)

\* A step of d leaves every directory that is another's, and its holder.
Frame(d) ==
    \A e \in Deployers \ {d} :
        /\ pc'[e] = pc[e] /\ held'[e] = held[e] /\ released'[e] = released[e]
        /\ \A h \in Hosts : dir[h] = e => dir'[h] = e /\ holder'[h] = holder[h]

\* Under such a step the other deployers keep their part of the invariant.
LEMMA OthersKept ==
    ASSUME Inv, NEW d \in Deployers, Frame(d), NEW e \in Deployers \ {d}
    PROVE  Owned(e)' /\ Named(e)'
<1>1. pc'[e] = pc[e] /\ held'[e] = held[e] /\ released'[e] = released[e]
  BY DEF Frame
<1>2. Progress(e) /\ Owned(e) /\ Named(e)
  BY DEF Inv, Base
<1>4. \A i \in 1..Len(HostList[e]) : HostList[e][i] \in Hosts
  BY <1>2, CursorHosts
<1>5. \A h \in Hosts : dir[h] = e => dir'[h] = e /\ holder'[h] = holder[h]
  BY DEF Frame
<1>6. pc[e] = "upload" => Target(e) \in Hosts /\ Target(e)' = Target(e)
  BY <1>1, <1>2, CursorHosts DEF Target
<1>7. Owned(e)'
  BY <1>1, <1>2, <1>4, <1>5, <1>6 DEF Owned
<1>8. Named(e)'
  BY <1>1, <1>2, <1>4, <1>5 DEF Owned, Named, Progress
<1> QED
  BY <1>7, <1>8

\* The step of one deployer: its own part of the invariant, then the frame.
LEMMA StepInv ==
    ASSUME Inv, NEW d \in Deployers, Start(d) \/ Step(d) \/ Crash(d)
    PROVE  Inv'
<1> USE FreeAssumption
<1>t. TypeOK /\ force = 0 /\ Progress(d) /\ Owned(d) /\ Named(d)
  BY DEF Inv, Base
<1>h. /\ Len(HostList[d]) \in Nat /\ Len(HostList[d]) > 0
      /\ \A i \in 1..Len(HostList[d]) : HostList[d][i] \in Hosts
      /\ pc[d] \in {"mkdir", "upload"} =>
           held[d] + 1 \in 1..Len(HostList[d]) /\ Target(d) \in Hosts
      /\ pc[d] = "release" =>
           released[d] + 1 \in 1..Len(HostList[d]) /\ Clearing(d) \in Hosts
  BY <1>t, CursorHosts
<1>l. \A i, j \in 1..Len(HostList[d]) : HostList[d][i] = HostList[d][j] => i = j
  BY ListAssumption
<1>o. pc[d] = "release" => dir[Clearing(d)] = d
  BY <1>t, <1>h DEF Owned, Progress, Clearing
<1>f. force' = 0
  BY <1>t DEF Start, Step, Crash, MkdirOk, MkdirFails, UploadOk, UploadFails, EndDeploy,
     ReleaseOk, ReleaseFails
<1>b. Base'
  BY StepBase DEF Inv
<1>q. SUFFICES Owned(d)' /\ Named(d)' /\ Frame(d)
  BY OthersKept, <1>f, <1>b DEF Inv
<1>1. CASE Start(d)
  <2>1. Frame(d)
    BY <1>1, <1>t, <1>h DEF Start, TypeOK, Frame
  <2>2. Owned(d)'
    BY <1>1, <1>t, <1>h DEF Start, Target, TypeOK, Progress, Owned
  <2>3. Named(d)'
    BY <1>1, <1>t, <1>h DEF Start, TypeOK, Progress, Named
  <2> QED
    BY <2>1, <2>2, <2>3
<1>2. CASE MkdirOk(d)
  <2>1. Frame(d)
    BY <1>2, <1>t, <1>h DEF MkdirOk, TypeOK, Frame
  <2>2. Owned(d)'
    BY <1>2, <1>t, <1>h DEF MkdirOk, Target, TypeOK, Progress, Owned
  <2>3. Named(d)'
    BY <1>2, <1>t, <1>h DEF MkdirOk, Target, TypeOK, Progress, Named
  <2> QED
    BY <2>1, <2>2, <2>3
<1>3. CASE MkdirFails(d)
  <2>1. Frame(d)
    BY <1>3, <1>t, <1>h DEF MkdirFails, ReleaseFrom, TypeOK, Frame
  <2>2. Owned(d)'
    BY <1>3, <1>t, <1>h DEF MkdirFails, ReleaseFrom, Target, TypeOK, Progress, Owned
  <2>3. Named(d)'
    BY <1>3, <1>t, <1>h DEF MkdirFails, ReleaseFrom, TypeOK, Progress, Named
  <2> QED
    BY <2>1, <2>2, <2>3
<1>4. CASE UploadOk(d)
  <2>1. Frame(d)
    BY <1>4, <1>t, <1>h DEF UploadOk, WriteHolder, TypeOK, Frame, Owned
  <2>2. Owned(d)'
    BY <1>4, <1>t, <1>h, <1>l DEF UploadOk, WriteHolder, Target, TypeOK, Progress, Owned
  <2>3. Named(d)'
    BY <1>4, <1>t, <1>h, <1>l DEF UploadOk, WriteHolder, Target, TypeOK, Progress, Named
  <2> QED
    BY <2>1, <2>2, <2>3
<1>5. CASE UploadFails(d)
  <2>1. Frame(d)
    BY <1>5, <1>t, <1>h DEF UploadFails, WriteHolder, TypeOK, Frame, Owned
  <2>2. Owned(d)'
    BY <1>5, <1>t, <1>h, <1>l DEF UploadFails, WriteHolder, Target, TypeOK, Progress, Owned
  <2>3. Named(d)'
    BY <1>5, <1>t, <1>h, <1>l DEF UploadFails, WriteHolder, Target, TypeOK, Progress, Named
  <2> QED
    BY <2>1, <2>2, <2>3
<1>6. CASE EndDeploy(d)
  <2>1. Frame(d)
    BY <1>6, <1>t, <1>h DEF EndDeploy, TypeOK, Frame
  <2>2. Owned(d)'
    BY <1>6, <1>t, <1>h DEF EndDeploy, Target, TypeOK, Progress, Owned
  <2>3. Named(d)'
    BY <1>6, <1>t, <1>h DEF EndDeploy, TypeOK, Progress, Named
  <2> QED
    BY <2>1, <2>2, <2>3
<1>7. CASE ReleaseOk(d)
  <2>1. Frame(d)
    BY <1>7, <1>t, <1>h, <1>o DEF ReleaseOk, Clear, NextRelease, TypeOK, Frame
  <2>2. Owned(d)'
    BY <1>7, <1>t, <1>h, <1>l DEF ReleaseOk, Clear, NextRelease, Clearing, TypeOK, Progress, Owned
  <2>3. Named(d)'
    BY <1>7, <1>t, <1>h, <1>l DEF ReleaseOk, Clear, NextRelease, Clearing, TypeOK, Progress, Named
  <2> QED
    BY <2>1, <2>2, <2>3
<1>8. CASE ReleaseFails(d)
  <2>1. Frame(d)
    BY <1>8, <1>t, <1>h, <1>o DEF ReleaseFails, Clear, NextRelease, TypeOK, Frame
  <2>2. Owned(d)'
    BY <1>8, <1>t, <1>h, <1>l DEF ReleaseFails, Clear, NextRelease, Clearing, TypeOK, Progress, Owned
  <2>3. Named(d)'
    BY <1>8, <1>t, <1>h, <1>l DEF ReleaseFails, Clear, NextRelease, Clearing, TypeOK, Progress, Named
  <2> QED
    BY <2>1, <2>2, <2>3
<1>9. CASE Crash(d)
  <2>1. Frame(d)
    BY <1>9, <1>t, <1>h DEF Crash, TypeOK, Frame
  <2>2. Owned(d)'
    BY <1>9, <1>t, <1>h DEF Crash, Target, TypeOK, Progress, Owned
  <2>3. Named(d)'
    BY <1>9, <1>t, <1>h DEF Crash, TypeOK, Progress, Named
  <2> QED
    BY <2>1, <2>2, <2>3
<1> QED
  BY <1>1, <1>2, <1>3, <1>4, <1>5, <1>6, <1>7, <1>8, <1>9 DEF Step

\* Every step of the system keeps the invariant when nobody forces a release.
LEMMA NextInv ==
    ASSUME ForcePolicy = "never", Inv, [Next]_vars
    PROVE  Inv'
<1>1. CASE \E d \in Deployers : Start(d) \/ Step(d) \/ Crash(d)
  BY <1>1, StepInv
<1>2. CASE ForceStart
  BY <1>2 DEF ForceStart
<1>3. CASE ForceRelease
  BY <1>3 DEF ForceRelease, Inv
<1>4. CASE UNCHANGED vars
  <2>1. Base' /\ force' = 0
    BY <1>4, NextBase DEF vars, Inv
  <2>2. ASSUME NEW d \in Deployers PROVE Owned(d)' /\ Named(d)'
    BY <1>4 DEF vars, Inv, Owned, Named, Target
  <2> QED
    BY <2>1, <2>2 DEF Inv
<1> QED
  BY <1>1, <1>2, <1>3, <1>4 DEF Next

\* The inductive invariant holds throughout every behaviour.
THEOREM LockInvariant == ForcePolicy = "never" => (Spec => []Inv)
<1> SUFFICES ASSUME ForcePolicy = "never" PROVE Spec => []Inv
  OBVIOUS
<1>1. Inv /\ [Next]_vars => Inv'
  BY NextInv
<1> QED
  BY InitInv, <1>1, PTL DEF Spec

-----------------------------------------------------------------------------

\* A deployer past Acquire has made every one of its directories, and they name it.
LEMMA LockedOwnsAll ==
    ASSUME Inv, NEW d \in Deployers, pc[d] = "locked"
    PROVE  \A h \in HostsOf(d) : dir[h] = d /\ holder[h] = d
<1>1. Progress(d) /\ Owned(d) /\ Named(d)
  BY DEF Inv, Base
<1>2. released[d] = 0 /\ held[d] = Len(HostList[d]) /\ Len(HostList[d]) \in Nat
  BY <1>1 DEF Progress
<1> QED
  BY <1>1, <1>2 DEF Owned, Named, HostsOf

\* The lock names whoever holds it, on every one of its hosts.
THEOREM LockHolderNamesLocker == ForcePolicy = "never" => (Spec => []HolderNamesLocker)
<1>1. Inv => HolderNamesLocker
  BY LockedOwnsAll DEF HolderNamesLocker
<1> QED
  BY <1>1, LockInvariant, PTL

LEMMA InvMutex == Inv => MutualExclusion
<1> SUFFICES ASSUME Inv, NEW d \in Deployers, NEW e \in Deployers,
                    pc[d] = "locked", pc[e] = "locked",
                    NEW h \in HostsOf(d) \cap HostsOf(e)
             PROVE  d = e
  BY DEF MutualExclusion
<1> QED
  BY LockedOwnsAll

\* No two invocations whose configs share a host are past Acquire at once.
THEOREM LockMutualExclusion == ForcePolicy = "never" => (Spec => []MutualExclusion)
  BY InvMutex, LockInvariant, PTL

-----------------------------------------------------------------------------

\* What a step does to a directory that some deployer made.
LEMMA StepRemovesOwn ==
    ASSUME Inv, ForcePolicy = "never", Next,
           NEW h \in Hosts, NEW d \in Deployers, dir[h] = d, dir'[h] # d
    PROVE  pc[d] = "release" /\ h = Clearing(d)
<1>t. TypeOK /\ d # Free
  BY FreeAssumption DEF Inv, Base
<1>1. ~ForceStart /\ ~ForceRelease
  BY DEF ForceStart, ForceRelease, Inv
<1>2. PICK e \in Deployers : Start(e) \/ Step(e) \/ Crash(e)
  BY <1>1 DEF Next
<1>3. pc[e] \in {"mkdir", "upload"} => Target(e) \in Hosts
  BY CursorHosts DEF Inv, Base
<1>4. pc[e] = "release" => Clearing(e) \in Hosts /\ dir[Clearing(e)] = e
  <2>1. Owned(e) /\ Progress(e)
    BY DEF Inv, Base
  <2> QED
    BY <2>1, CursorHosts DEF Owned, Progress, Clearing
<1>5. ~Start(e) /\ ~Crash(e) /\ ~EndDeploy(e)
  BY DEF Start, Crash, EndDeploy
<1>6. ~MkdirOk(e) /\ ~MkdirFails(e)
  BY <1>t, <1>3 DEF MkdirOk, MkdirFails, TypeOK
<1>7. ~UploadOk(e) /\ ~UploadFails(e)
  BY <1>t, <1>3 DEF UploadOk, UploadFails, WriteHolder, TypeOK
<1>8. CASE ReleaseOk(e) \/ ReleaseFails(e)
  <2>1. h = Clearing(e) /\ pc[e] = "release"
    BY <1>8, <1>t, <1>4 DEF ReleaseOk, ReleaseFails, Clear, TypeOK
  <2> QED
    BY <2>1, <1>4
<1> QED
  BY <1>2, <1>5, <1>6, <1>7, <1>8 DEF Step

\* A lock directory goes only by its maker's Release.
THEOREM LockOnlyMakerRemoves == ForcePolicy = "never" => (Spec => OnlyMakerRemoves)
<1> SUFFICES ASSUME ForcePolicy = "never" PROVE Spec => OnlyMakerRemoves
  OBVIOUS
<1>1. ASSUME Inv, [Next]_vars
      PROVE  [\A h \in Hosts : \A d \in Deployers :
                dir[h] = d /\ dir'[h] # d =>
                  pc[d] = "release" /\ h = Clearing(d)]_vars
  <2>1. CASE Next
    BY <1>1, <2>1, StepRemovesOwn
  <2>2. CASE UNCHANGED vars
    BY <2>2
  <2> QED
    BY <1>1, <2>1, <2>2
<1> QED
  BY <1>1, LockInvariant, PTL DEF Spec, OnlyMakerRemoves

-----------------------------------------------------------------------------
(* The lock implements ServiceLock when all configs list the same hosts. *)

OneService == \A d, e \in Deployers : HostsOf(d) = HostsOf(e)

\* A deployer makes directories on its own hosts, and is at work only once
\* its Acquire has returned.
Confined ==
    \A d \in Deployers :
        /\ \A h \in Hosts : dir[h] = d => h \in HostsOf(d)
        /\ pc[d] = "locked" => d \in won

LEMMA InitConfined == Init => Confined
  BY FreeAssumption DEF Init, Confined

LEMMA StepConfined ==
    ASSUME Base, Confined, [Next]_vars
    PROVE  Confined'
<1>1. CASE UNCHANGED vars
  BY <1>1 DEF vars, Confined
<1>2. ASSUME NEW d \in Deployers, Start(d) \/ Step(d) \/ Crash(d)
      PROVE  Confined'
  <2>t. TypeOK /\ Progress(d)
    BY DEF Base
  <2>h. /\ pc[d] \in {"mkdir", "upload"} => Target(d) \in Hosts /\ Target(d) \in HostsOf(d)
        /\ pc[d] = "release" => Clearing(d) \in Hosts
    BY <2>t, CursorHosts DEF HostsOf, Target
  <2>1. \A h \in Hosts : dir'[h] \in {dir[h], Free} \/ (dir'[h] = d /\ h \in HostsOf(d))
    <3>1. CASE Start(d) \/ EndDeploy(d) \/ Crash(d)
      BY <3>1 DEF Start, EndDeploy, Crash
    <3>2. CASE MkdirOk(d) \/ MkdirFails(d)
      BY <3>2, <2>t, <2>h DEF MkdirOk, MkdirFails, TypeOK
    <3>3. CASE UploadOk(d) \/ UploadFails(d)
      BY <3>3, <2>t, <2>h DEF UploadOk, UploadFails, WriteHolder, TypeOK
    <3>4. CASE ReleaseOk(d) \/ ReleaseFails(d)
      BY <3>4, <2>t, <2>h DEF ReleaseOk, ReleaseFails, Clear, TypeOK
    <3> QED
      BY <1>2, <3>1, <3>2, <3>3, <3>4 DEF Step
  <2>2. won \subseteq won' /\ \A e \in Deployers : pc'[e] = "locked" => pc[e] = "locked" \/ e \in won'
    <3>1. CASE Start(d) \/ EndDeploy(d) \/ Crash(d)
      BY <3>1, <2>t DEF Start, EndDeploy, Crash, TypeOK
    <3>2. CASE MkdirOk(d) \/ MkdirFails(d)
      BY <3>2, <2>t DEF MkdirOk, MkdirFails, ReleaseFrom, TypeOK
    <3>3. CASE UploadOk(d) \/ UploadFails(d)
      BY <3>3, <2>t DEF UploadOk, UploadFails, TypeOK
    <3>4. CASE ReleaseOk(d) \/ ReleaseFails(d)
      BY <3>4, <2>t DEF ReleaseOk, ReleaseFails, NextRelease, TypeOK
    <3> QED
      BY <1>2, <3>1, <3>2, <3>3, <3>4 DEF Step
  <2>3. \A e \in Deployers : HostsOf(e)' = HostsOf(e)
    BY DEF HostsOf
  <2> QED
    BY <2>1, <2>2, <2>3, FreeAssumption DEF Confined
<1>3. CASE ForceStart \/ ForceRelease
  <2>1. /\ UNCHANGED <<pc, won>>
        /\ \A h \in Hosts : dir'[h] \in {dir[h], Free}
    <3>1. CASE ForceStart
      BY <3>1 DEF ForceStart
    <3>2. CASE ForceRelease
      <4>1. OperatorList[force] \in Hosts
        BY <3>2, ListAssumption DEF ForceRelease, Base, TypeOK
      <4> QED
        BY <3>2, <4>1 DEF ForceRelease, Clear, Base, TypeOK
    <3> QED
      BY <1>3, <3>1, <3>2
  <2> QED
    BY <2>1, FreeAssumption DEF Confined, HostsOf
<1> QED
  BY <1>1, <1>2, <1>3 DEF Next

\* The deployers at work, and what "an rm is running" is.
AtWork == {d \in Deployers : pc[d] = "locked"}
Clearances == force > 0 \/ \E d \in won : pc[d] = "release"

\* The lock of a deploy at work stands.
LEMMA WorkersStand ==
    ASSUME Inv, Confined
    PROVE  AtWork \subseteq Standing
<1> SUFFICES ASSUME NEW d \in Deployers, pc[d] = "locked" PROVE d \in Standing
  BY DEF AtWork
<1>1. Progress(d)
  BY DEF Inv, Base
<1>2. HostList[d][1] \in HostsOf(d) /\ HostList[d][1] \in Hosts
  BY <1>1, CursorHosts DEF HostsOf
<1>3. dir[HostList[d][1]] = d
  BY <1>2, LockedOwnsAll
<1> QED
  BY <1>2, <1>3 DEF Standing, Confined

\* A deployer with its last holder.json to write has all the directories.
LEMMA LastUploadAlone ==
    ASSUME Inv, Confined, OneService, NEW d \in Deployers,
           pc[d] = "upload", held[d] + 1 = Len(HostList[d])
    PROVE  Standing = {} /\ \E h \in Hosts : dir[h] = d
<1>1. TypeOK /\ Progress(d) /\ Owned(d) /\ Accounted(d)
  BY DEF Inv, Base
<1>2. /\ Len(HostList[d]) \in Nat /\ held[d] \in Nat /\ released[d] = 0
      /\ Target(d) \in Hosts /\ Target(d) = HostList[d][Len(HostList[d])]
  BY <1>1, CursorHosts DEF Progress, Target
<1>3. \A h \in HostsOf(d) : dir[h] = d
  <2> SUFFICES ASSUME NEW i \in 1..Len(HostList[d]) PROVE dir[HostList[d][i]] = d
    BY DEF HostsOf
  <2>1. CASE i <= held[d]
    BY <2>1, <1>1, <1>2 DEF Owned
  <2>2. CASE i = Len(HostList[d])
    BY <2>2, <1>1, <1>2 DEF Owned
  <2> QED
    BY <2>1, <2>2, <1>2
<1>4. d \notin won
  BY <1>1 DEF Accounted
<1>5. ASSUME NEW e \in won, NEW h \in Hosts, dir[h] = e PROVE FALSE
  <2>1. e \in Deployers /\ h \in HostsOf(e)
    BY <1>1, <1>5 DEF TypeOK, Confined
  <2>2. h \in HostsOf(d)
    BY <2>1 DEF OneService
  <2> QED
    BY <1>3, <1>4, <1>5, <2>2
<1> QED
  BY <1>1, <1>2, <1>5 DEF Standing, Owned

\* What a step that leaves `won` and the other deployers' directories alone
\* does to the locks that stand.
LEMMA StandingKept ==
    ASSUME won' = won, \A e \in won : (\E h \in Hosts : dir'[h] = e) <=> \E h \in Hosts : dir[h] = e
    PROVE  Standing' = Standing
BY DEF Standing

\* A step is Take when a deployer writes its last holder.json, Finish when the
\* command under the lock ends or dies, Clear when a Release removes the last
\* directory of a lock, and otherwise leaves the locks as they are.
LEMMA StepRefines ==
    ASSUME Inv, Confined, OneService, [Next]_vars, ForcePolicy = "never",
           (AtWork \subseteq Standing)'
    PROVE  \/ \E d \in Deployers :
                \/ Standing = {} /\ Standing' = {d} /\ AtWork' = {d}
                \/ d \in AtWork /\ AtWork' = AtWork \ {d} /\ Standing' = Standing
                \/ /\ Clearances
                   /\ d \in Standing \ AtWork /\ Standing' = Standing \ {d}
                   /\ AtWork' = AtWork
           \/ Standing' = Standing /\ AtWork' = AtWork
<1> USE FreeAssumption
<1>t. TypeOK
  BY DEF Inv, Base
<1>w. \A e \in won : e \in Deployers /\ e # Free
  BY <1>t DEF TypeOK
<1>1. CASE UNCHANGED vars
  BY <1>1 DEF vars, Standing, AtWork
<1>2. ASSUME NEW d \in Deployers, Start(d) \/ MkdirOk(d) \/ MkdirFails(d) \/ UploadFails(d)
      PROVE  Standing' = Standing /\ AtWork' = AtWork
  <2>p. Progress(d) /\ Owned(d) /\ Accounted(d)
    BY DEF Inv, Base
  <2>h. pc[d] \in {"mkdir", "upload"} => Target(d) \in Hosts
    BY <2>p, CursorHosts
  <2>1. won' = won /\ d \notin won /\ AtWork' = AtWork
    <3>1. CASE Start(d)
      BY <3>1, <1>t, <2>p DEF Start, TypeOK, AtWork, Accounted
    <3>2. CASE MkdirOk(d) \/ MkdirFails(d)
      BY <3>2, <1>t, <2>p DEF MkdirOk, MkdirFails, ReleaseFrom, TypeOK, AtWork, Accounted
    <3>3. CASE UploadFails(d)
      BY <3>3, <1>t, <2>p DEF UploadFails, TypeOK, AtWork, Accounted
    <3> QED
      BY <1>2, <3>1, <3>2, <3>3
  <2>2. \A h \in Hosts : dir'[h] = dir[h] \/ (dir[h] \in {Free, d} /\ dir'[h] = d)
    <3>1. CASE Start(d)
      BY <3>1 DEF Start
    <3>2. CASE MkdirOk(d) \/ MkdirFails(d)
      BY <3>2, <1>t, <2>h DEF MkdirOk, MkdirFails, TypeOK
    <3>3. CASE UploadFails(d)
      BY <3>3, <1>t, <2>h, <2>p DEF UploadFails, WriteHolder, TypeOK, Owned
    <3> QED
      BY <1>2, <3>1, <3>2, <3>3
  <2>3. \A e \in won, h \in Hosts : dir'[h] = e <=> dir[h] = e
    BY <2>1, <2>2, <1>w
  <2> QED
    BY <2>1, <2>3, StandingKept
<1>3. ASSUME NEW d \in Deployers, UploadOk(d)
      PROVE  \/ Standing = {} /\ Standing' = {d} /\ AtWork' = {d}
             \/ Standing' = Standing /\ AtWork' = AtWork
  <2>p. Progress(d) /\ Owned(d) /\ Accounted(d) /\ pc[d] = "upload" /\ d \notin won
    BY <1>3 DEF Inv, Base, UploadOk, Accounted
  <2>h. Target(d) \in Hosts /\ dir[Target(d)] = d
    BY <2>p, CursorHosts DEF Owned
  <2>1. \A h \in Hosts : dir'[h] = dir[h]
    BY <1>3, <1>t, <2>h DEF UploadOk, WriteHolder, TypeOK
  <2>2. CASE held[d] + 1 = Len(HostList[d])
    <3>1. Standing = {}
      BY <2>p, <2>2, LastUploadAlone
    <3>2. won' = won \cup {d} /\ pc' = [pc EXCEPT ![d] = "locked"]
      BY <1>3, <2>2 DEF UploadOk
    <3>3. Standing' = {d}
      BY <3>1, <3>2, <2>1, <2>h DEF Standing
    <3>4. d \in AtWork'
      BY <3>2, <1>t DEF AtWork, TypeOK
    <3>5. AtWork' = {d}
      BY <3>3, <3>4
    <3> QED
      BY <3>1, <3>3, <3>5
  <2>3. CASE held[d] + 1 # Len(HostList[d])
    <3>1. won' = won /\ pc' = [pc EXCEPT ![d] = "mkdir"]
      BY <1>3, <2>3 DEF UploadOk
    <3>2. AtWork' = AtWork
      BY <3>1, <2>p, <1>t DEF AtWork, TypeOK
    <3> QED
      BY <3>1, <3>2, <2>1, StandingKept
  <2> QED
    BY <2>2, <2>3
<1>4. ASSUME NEW d \in Deployers, EndDeploy(d) \/ Crash(d)
      PROVE  \/ d \in AtWork /\ AtWork' = AtWork \ {d} /\ Standing' = Standing
             \/ Standing' = Standing /\ AtWork' = AtWork
  <2>1. Standing' = Standing
    BY <1>4 DEF EndDeploy, Crash, Standing
  <2>2. \E p \in PCs \ {"locked"} : pc' = [pc EXCEPT ![d] = p]
    BY <1>4 DEF EndDeploy, Crash, PCs
  <2>3. IF pc[d] = "locked" THEN AtWork' = AtWork \ {d} ELSE AtWork' = AtWork
    BY <2>2, <1>t DEF AtWork, TypeOK
  <2> QED
    BY <2>1, <2>3 DEF AtWork
<1>5. ASSUME NEW d \in Deployers, ReleaseOk(d) \/ ReleaseFails(d)
      PROVE  \/ /\ Clearances
                /\ d \in Standing \ AtWork /\ Standing' = Standing \ {d}
                /\ AtWork' = AtWork
             \/ Standing' = Standing /\ AtWork' = AtWork
  <2>p. Progress(d) /\ Owned(d) /\ pc[d] = "release" /\ won' = won
    BY <1>5 DEF Inv, Base, ReleaseOk, ReleaseFails
  <2>h. Clearing(d) \in Hosts /\ dir[Clearing(d)] = d
    BY <2>p, CursorHosts DEF Owned, Progress, Clearing
  <2>1. \A h \in Hosts : dir'[h] = dir[h] \/ (dir[h] = d /\ dir'[h] = Free)
    BY <1>5, <1>t, <2>h DEF ReleaseOk, ReleaseFails, Clear, TypeOK
  <2>2. AtWork' = AtWork
    BY <1>5, <2>p, <1>t DEF ReleaseOk, ReleaseFails, NextRelease, AtWork, TypeOK
  <2>3. \A e \in won \ {d}, h \in Hosts : dir'[h] = e <=> dir[h] = e
    BY <2>1, <1>w
  <2>4. CASE d \notin won \/ \E h \in Hosts : dir'[h] = d
    <3>1. \A e \in won : (\E h \in Hosts : dir'[h] = e) <=> \E h \in Hosts : dir[h] = e
      BY <2>3, <2>4, <2>h
    <3> QED
      BY <3>1, <2>2, <2>p, StandingKept
  <2>5. CASE d \in won /\ \A h \in Hosts : dir'[h] # d
    <3>1. Standing' = Standing \ {d}
      BY <2>3, <2>5, <2>p DEF Standing
    <3>2. d \in Standing \ AtWork /\ Clearances
      BY <2>5, <2>h, <2>p DEF Standing, AtWork, Clearances
    <3> QED
      BY <3>1, <3>2, <2>2
  <2> QED
    BY <2>4, <2>5
<1>6. ~ForceStart /\ ~ForceRelease
  BY DEF ForceStart, ForceRelease, Inv
<1>7. ASSUME NEW d \in Deployers, Start(d) \/ Step(d) \/ Crash(d)
      PROVE  \/ Standing' = Standing /\ AtWork' = AtWork
             \/ Standing = {} /\ Standing' = {d} /\ AtWork' = {d}
             \/ d \in AtWork /\ AtWork' = AtWork \ {d} /\ Standing' = Standing
             \/ /\ Clearances
                /\ d \in Standing \ AtWork /\ Standing' = Standing \ {d}
                /\ AtWork' = AtWork
  BY <1>2, <1>3, <1>4, <1>5, <1>7 DEF Step
<1> QED
  BY <1>1, <1>6, <1>7 DEF Next

\* The lock implements the lock of the whole service: it is taken only when no
\* other stands, outlives its owner's death, and is never ended under a deploy
\* at work.
THEOREM LockImplementsServiceLock ==
    ForcePolicy = "never" /\ OneService => (Spec => ImplementsServiceLock)
<1> SUFFICES ASSUME ForcePolicy = "never", OneService PROVE Spec => ImplementsServiceLock
  OBVIOUS
<1>1. Init => Lock!Init
  BY DEF Init, Lock!Init, Standing
<1>2. Init => Confined
  BY InitConfined
<1>3. Inv /\ Confined /\ [Next]_vars => Confined'
  BY StepConfined DEF Inv
<1>4. Inv /\ Confined => AtWork \subseteq Standing
  BY WorkersStand
<1>5. ASSUME Inv, Confined, [Next]_vars, (AtWork \subseteq Standing)'
      PROVE  [Lock!Next]_Lock!svars
  <2>1. Clearances' \in BOOLEAN
    BY DEF Clearances
  <2>2. \/ \E d \in Deployers :
             \/ Standing = {} /\ Standing' = {d} /\ AtWork' = {d}
             \/ d \in AtWork /\ AtWork' = AtWork \ {d} /\ Standing' = Standing
             \/ /\ Clearances
                /\ d \in Standing \ AtWork /\ Standing' = Standing \ {d}
                /\ AtWork' = AtWork
        \/ Standing' = Standing /\ AtWork' = AtWork
    BY <1>5, StepRefines
  <2> QED
    BY <2>1, <2>2 DEF Lock!Next, Lock!Take, Lock!Finish, Lock!Clear, AtWork, Clearances
<1> QED
  BY <1>1, <1>2, <1>3, <1>4, <1>5, LockInvariant, PTL DEF Spec, ImplementsServiceLock, Lock!Spec

-----------------------------------------------------------------------------
(* Contenders do not all turn each other away *)

SameLists == \A d, e \in Deployers : HostList[d] = HostList[e]

Unharmed == \A d \in Deployers : pc[d] # "crashed"

\* d has the lock of its first host and is at a later one, or at its holder.
Contends(d) == pc[d] = "upload" \/ (pc[d] = "mkdir" /\ held[d] > 0)

\* While nobody has died or won, there is at most the one contender, and there
\* is one as soon as anybody has given up.
Contended ==
    Unharmed /\ won = {} =>
      /\ force = 0
      /\ \A d \in Deployers : pc[d] \in {"idle", "mkdir", "upload", "done"}
      /\ \A d \in Deployers : pc[d] = "upload" => dir[Target(d)] = d
      /\ \A d \in Deployers : Contends(d) => dir[HostList[d][1]] = d
      /\ (\E d \in Deployers : pc[d] = "done") => \E e \in Deployers : Contends(e)

\* Whose directory there is contends.
LEMMA MakerContends ==
    ASSUME Reliable, Base, Contended, Unharmed, won = {}, NEW h \in Hosts, dir[h] # Free
    PROVE  dir[h] \in Deployers /\ Contends(dir[h])
<1>1. dir[h] \in Deployers
  BY DEF Base, TypeOK
<1> DEFINE d == dir[h]
<1>2. pc[d] \in {"mkdir", "upload", "done"} /\ pc[d] # "done"
  BY <1>1 DEF Base, Accounted, Contended
<1>3. pc[d] = "mkdir" => held[d] > 0
  BY <1>1 DEF Base, Accounted, Progress
<1> QED
  BY <1>1, <1>2, <1>3 DEF Contends

LEMMA StepContended ==
    ASSUME Reliable, SameLists, Base, Contended, [Next]_vars
    PROVE  Contended'
<1> SUFFICES ASSUME Unharmed', won' = {}
             PROVE  /\ force' = 0
                    /\ \A d \in Deployers : pc'[d] \in {"idle", "mkdir", "upload", "done"}
                    /\ \A d \in Deployers : pc'[d] = "upload" => (dir[Target(d)] = d)'
                    /\ \A d \in Deployers : Contends(d)' => dir'[HostList[d][1]] = d
                    /\ (\E d \in Deployers : pc'[d] = "done") =>
                          \E e \in Deployers : Contends(e)'
  BY DEF Contended
<1> USE FreeAssumption
<1>r. "refused" \notin Faults /\ "lost" \notin Faults
  BY DEF Reliable
<1>t. TypeOK /\ \A d \in Deployers : Progress(d) /\ Accounted(d)
  BY DEF Base
<1>u. Unharmed /\ won = {}
  <2>1. won \subseteq won'
    BY DEF Next, vars, Start, Step, Crash, MkdirOk, MkdirFails, UploadOk, UploadFails,
       EndDeploy, ReleaseOk, ReleaseFails, ForceStart, ForceRelease
  <2>2. ASSUME NEW d \in Deployers, pc[d] = "crashed" PROVE pc'[d] = "crashed"
    <3>1. ASSUME NEW e \in Deployers, Start(e) \/ Step(e) \/ Crash(e) PROVE pc'[d] = "crashed"
      BY <1>t, <2>2, <3>1 DEF TypeOK, Start, Step, Crash, MkdirOk, MkdirFails, UploadOk,
         UploadFails, EndDeploy, ReleaseOk, ReleaseFails, NextRelease
    <3> QED
      BY <2>2, <3>1 DEF Next, vars, ForceStart, ForceRelease
  <2> QED
    BY <2>1, <2>2 DEF Unharmed
<1>c. /\ force = 0
      /\ \A d \in Deployers : pc[d] \in {"idle", "mkdir", "upload", "done"}
      /\ \A d \in Deployers : pc[d] = "upload" => dir[Target(d)] = d
      /\ \A d \in Deployers : Contends(d) => dir[HostList[d][1]] = d
      /\ (\E d \in Deployers : pc[d] = "done") => \E e \in Deployers : Contends(e)
  BY <1>u DEF Contended
<1>h. ASSUME NEW d \in Deployers
      PROVE  /\ HostList[d][1] \in Hosts /\ held[d] \in Nat
             /\ pc[d] \in {"mkdir", "upload"} =>
                  held[d] + 1 \in 1..Len(HostList[d]) /\ Target(d) \in Hosts
  BY <1>t, CursorHosts DEF Progress
<1>1. ASSUME NEW d \in Deployers, Start(d) PROVE Contended'
  BY <1>1, <1>t, <1>c, <1>h DEF Start, TypeOK, Progress, Contends, Contended, Target
<1>2. ASSUME NEW d \in Deployers, MkdirOk(d) PROVE Contended'
  <2>1. /\ pc[d] = "mkdir" /\ dir[Target(d)] = Free /\ Target(d) \in Hosts
        /\ dir' = [dir EXCEPT ![Target(d)] = d] /\ pc' = [pc EXCEPT ![d] = "upload"]
        /\ UNCHANGED <<held, force>>
    BY <1>2, <1>h DEF MkdirOk
  <2>2. held[d] = 0 => Target(d) = HostList[d][1]
    BY DEF Target
  <2>3. \A e \in Deployers : Target(e)' = Target(e)
    BY <2>1 DEF Target
  <2>4. \A h \in Hosts : dir'[h] = IF h = Target(d) THEN d ELSE dir[h]
    BY <1>t, <2>1 DEF TypeOK
  <2>5. \A e \in Deployers : pc'[e] = IF e = d THEN "upload" ELSE pc[e]
    BY <1>t, <2>1 DEF TypeOK
  <2>6. \A e \in Deployers : pc'[e] = "upload" => (dir[Target(e)] = e)'
    BY <1>c, <1>h, <2>1, <2>3, <2>4, <2>5
  <2>7. dir'[HostList[d][1]] = d
    BY <1>c, <1>h, <2>1, <2>2, <2>4 DEF Contends
  <2>8. \A e \in Deployers : Contends(e)' => dir'[HostList[e][1]] = e
    BY <1>c, <1>h, <2>1, <2>4, <2>5, <2>7 DEF Contends
  <2>9. Contends(d)'
    BY <2>5 DEF Contends
  <2> QED
    BY <1>c, <2>1, <2>5, <2>6, <2>8, <2>9 DEF Contended
<1>3. ASSUME NEW d \in Deployers, MkdirFails(d) PROVE Contended'
  <2>1. /\ pc[d] = "mkdir" /\ dir[Target(d)] # Free /\ Target(d) \in Hosts
        /\ UNCHANGED <<dir, held, force>> /\ pc' = [pc EXCEPT ![d] = ReleaseFrom(held[d])]
    BY <1>3, <1>r, <1>h DEF MkdirFails
  <2>2. PICK e \in Deployers : dir[Target(d)] = e /\ Contends(e)
    BY <1>u, <2>1, MakerContends
  <2>3. held[d] = 0
    <3>1. SUFFICES ASSUME held[d] > 0 PROVE FALSE
      BY <1>h
    <3>2. dir[HostList[d][1]] = d /\ dir[HostList[e][1]] = e /\ HostList[d] = HostList[e]
      BY <1>c, <2>1, <2>2, <3>1 DEF Contends, SameLists
    <3>3. PICK i \in 1..held[d] : Target(d) = HostList[d][i]
      BY <1>t, <2>1, <2>2, <3>2 DEF Accounted
    <3>4. held[d] + 1 \in 1..Len(HostList[d]) /\ i \in 1..Len(HostList[d]) /\ i # held[d] + 1
      BY <1>h, <2>1, <1>t, CursorHosts
    <3> QED
      BY <3>3, <3>4, ListAssumption DEF Target
  <2>4. e # d
    BY <2>1, <2>2, <2>3 DEF Contends
  <2>5. \A f \in Deployers : pc'[f] = IF f = d THEN "done" ELSE pc[f]
    BY <1>t, <2>1, <2>3 DEF TypeOK, ReleaseFrom
  <2>6. Contends(e)'
    BY <2>1, <2>2, <2>4, <2>5 DEF Contends
  <2> QED
    BY <1>c, <2>1, <2>5, <2>6 DEF Contended, Contends, Target
<1>4. ASSUME NEW d \in Deployers, UploadOk(d) PROVE Contended'
  <2>1. /\ pc[d] = "upload" /\ WriteHolder(d) /\ held' = [held EXCEPT ![d] = @ + 1]
        /\ pc' = [pc EXCEPT ![d] = "mkdir"] /\ UNCHANGED force
    BY <1>4 DEF UploadOk
  <2>2. dir[Target(d)] = d /\ dir[HostList[d][1]] = d /\ Target(d) \in Hosts
    BY <1>c, <1>h, <2>1 DEF Contends
  <2>3. \A h \in Hosts : dir'[h] = dir[h]
    BY <1>t, <2>1, <2>2 DEF WriteHolder, TypeOK
  <2>4. /\ \A e \in Deployers : pc'[e] = IF e = d THEN "mkdir" ELSE pc[e]
        /\ \A e \in Deployers : held'[e] = IF e = d THEN held[d] + 1 ELSE held[e]
    BY <1>t, <2>1 DEF TypeOK
  <2>5. \A e \in Deployers \ {d} : Target(e)' = Target(e)
    BY <2>4 DEF Target
  <2>6. Contends(d)' /\ \A e \in Deployers \ {d} : Contends(e)' = Contends(e)
    BY <1>h, <2>4 DEF Contends
  <2>7. \A e \in Deployers : pc'[e] = "upload" => (dir[Target(e)] = e)'
    BY <1>c, <1>h, <2>3, <2>4, <2>5
  <2>8. \A e \in Deployers : Contends(e)' => dir'[HostList[e][1]] = e
    BY <1>c, <1>h, <2>2, <2>3, <2>6
  <2> QED
    BY <1>c, <2>1, <2>4, <2>6, <2>7, <2>8 DEF Contended
<1>5. ASSUME NEW d \in Deployers,
             UploadFails(d) \/ EndDeploy(d) \/ ReleaseOk(d) \/ ReleaseFails(d) \/ Crash(d)
      PROVE  FALSE
  <2>1. ~UploadFails(d)
    BY <1>r DEF UploadFails
  <2>2. ~EndDeploy(d) /\ ~ReleaseOk(d) /\ ~ReleaseFails(d)
    BY <1>c DEF EndDeploy, ReleaseOk, ReleaseFails
  <2>3. ~Crash(d)
    BY <1>t DEF Crash, TypeOK, Unharmed
  <2> QED
    BY <1>5, <2>1, <2>2, <2>3
<1>6. ~ForceStart
  <2>1. ASSUME NEW h \in Hosts, StaleLock(h) PROVE FALSE
    BY <1>u, <2>1, MakerContends DEF StaleLock, Dead, Contends
  <2> QED
    BY <2>1 DEF ForceStart
<1>7. ~ForceRelease
  BY <1>c DEF ForceRelease
<1>8. CASE UNCHANGED vars
  BY <1>c, <1>8 DEF vars, Contends, Target
<1> QED
  BY <1>1, <1>2, <1>3, <1>4, <1>5, <1>6, <1>7, <1>8 DEF Next, Step, Contended

\* Invocations of one config of which none dies never all turn each other away:
\* as soon as they are over, one of them has had the lock.
THEOREM LockOneContenderWins ==
    ASSUME Faults \subseteq {"crash"}, SameLists
    PROVE  Spec => []OneContenderWins
<1>1. Init => Contended
  BY DEF Init, Contended, Contends
<1>2. Base /\ Contended /\ [Next]_vars => Contended'
  BY StepContended DEF Reliable
<1>3. Contended => OneContenderWins
  BY DEF Contended, OneContenderWins, Unharmed, Contends
<1> QED
  BY <1>1, <1>2, <1>3, BaseInvariant, PTL DEF Spec
=============================================================================
