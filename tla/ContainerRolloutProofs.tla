------------------------ MODULE ContainerRolloutProofs ------------------------
(***************************************************************************)
(* Proofs about one role on one host of the Docker backend, for any        *)
(* versions, invocations, kinds of role and number of commands.            *)
(***************************************************************************)
EXTENDS ContainerRollout, LeastNumber, FiniteSetTheorems, TLAPS

-----------------------------------------------------------------------------
(* The invariants *)

\* The steps that only a deploy, a rollback or a reconcile takes.
Rolling == {"choose", "find", "stopprev", "rmname", "run", "rmfailed", "health",
            "switch", "cleanup"}
Named == Rolling \ {"choose", "find", "stopprev"}
RolloutPCs == {"idle", "inspect", "sweep", "sweeping", "prune", "pruning"} \cup Rolling

AtWork(a) == op[a].pc \notin {"idle", "inspect"}

\* No two containers have one place in the order of creation; where two may not
\* overlap, none has an alternate name.
Ordered ==
    /\ \E k \in Nat : \A n \in Names : containers[n].at <= k
    /\ \A n \in There : containers[n].at > 0
    /\ \A m, n \in There : containers[m].at = containers[n].at => m = n
    /\ ~Overlaps => \A n \in There : n[2] = 0

\* A command is where its kind takes it, with what its step needs.
Fits(o) ==
    /\ o.kind \in Kinds \cup {"none"}
    /\ o.kind = "none" => o.pc = "idle"
    /\ o.pc = "inspect" => o.kind = "reconcile"
    /\ o.pc = "choose" => o.kind \in {"rollback", "rollback_to"}
    /\ o.pc \in Rolling => RollsOut(o.kind)
    /\ RollsOut(o.kind) => o.pc \in RolloutPCs
    /\ o.pc \in {"sweep", "sweeping"} => o.kind \in {"deploy", "reconcile", "sweep"}
    /\ o.pc \in {"prune", "pruning"} => o.kind \in {"deploy", "reconcile", "prune"}
    /\ o.kind \in Pinned \/ o.pc \in Rolling \ {"choose"} => o.version \in Versions
    /\ o.pc \in {"stopprev"} \cup Named =>
         /\ o.name \in Names /\ o.name[1] = o.version
         /\ ~Overlaps => o.name[2] = 0
    /\ o.pc \in Named => o.name # o.prev
    /\ o.pc \in {"startone", "register"} => o.name \in Names
    /\ o.pc \in {"stopprev", "stopone"} => o.prev \in Names
    /\ o.pc = "stopprev" => ~Overlaps

\* It has the lock exactly while it rolls out.
Holds(a) == lock = a <=> (RollsOut(op[a].kind) /\ AtWork(a))

Base == TypeOK /\ Ordered /\ \A a \in Actors : Fits(op[a]) /\ Holds(a)

\* A container that never ran is about to be removed by who tried to run it.
Tried ==
    \A n \in Names : containers[n].state = "created" =>
        \E a \in Actors : op[a].pc = "rmfailed" /\ op[a].name = n

\* Commands that take no lock do not run beside others.
Exclusive == (\A a, b \in Actors : a = b) \/ Kinds \subseteq Locked \cup {"reconcile"}

\* What a's command has read of the containers is so, no other being at work.
Knows(a) ==
    LET o == op[a]
    IN  /\ o.pc = "sweeping" => \A n \in Names : n = FirstLive => o.todo[n] = 0
        /\ o.pc = "stopprev" => o.prev = FirstLive
        /\ Overlaps /\ o.pc \in {"rmname", "run"} => o.prev = FirstLive
        /\ Overlaps /\ o.pc = "rmfailed" /\ "lost" \notin Faults => o.prev = FirstLive
        /\ o.pc \in {"health", "switch", "cleanup"} => o.name = FirstLive
        /\ o.pc \in {"switch", "cleanup"} => Answers(o.name)
        /\ o.pc = "cleanup" /\ UseProxy => route = o.name
        /\ o.pc = "pruning" => \A n \in Live : o.todo[n] = 0

\* Where the route is while a's rollout goes on, given that it serves.
Spares(a) ==
    LET o == op[a]
    IN  /\ o.pc \in {"sweep", "sweeping", "choose", "find"} => route = FirstLive
        /\ o.pc \in {"rmname", "run"} => route = o.prev
        /\ o.pc = "rmfailed" => route # o.name
        /\ o.pc \in {"health", "switch"} => route \in {o.prev, o.name}

Serves ==
    Overlaps => \A a \in Actors :
        Current(a) /\ before[a].live => Serving /\ \A b \in Actors : Spares(b)

Clean(a) == op[a].kind \in {"deploy", "reconcile"}

\* Once a's deploy has swept, nothing runs but what it goes on to replace.
Lone(a) ==
    LET o == op[a]
    IN  /\ o.pc = "sweeping" => \A n \in Live : n = FirstLive \/ o.todo[n] > 0
        /\ Clean(a) /\ o.pc = "find" => Live \subseteq {FirstLive}
        /\ Clean(a) /\ o.pc \in {"stopprev", "rmname", "run"} => Live \subseteq {o.prev}
        /\ Clean(a) /\ o.pc \in {"health", "switch", "cleanup"} => Live \subseteq {o.prev, o.name}

Settled(a) ==
    /\ op[a].name \in Names /\ op[a].name[1] = op[a].version
    /\ Live = {op[a].name} /\ Answers(op[a].name)
    /\ UseProxy => route = op[a].name

Converged(a) ==
    /\ Clean(a) /\ op[a].pc \in {"prune", "pruning"} => Settled(a)
    /\ op[a].kind = "deploy" /\ Succeeded(a) => Settled(a)

\* Where two containers may not overlap, only the newest one may be live.
NewestLives ==
    ~Overlaps =>
        /\ \A n \in Live : n = Newest(There)
        /\ \A a \in Actors :
             /\ op[a].pc \in {"rmname", "run"} => Live = {}
             /\ op[a].pc = "startone" => op[a].name = Newest(There) /\ op[a].name \notin Live

\* The container, and the version, a plain rollback would go to, if v ran.
Target(v) == Newest({n \in There : n[1] # v})
TargetFrom(v) == VersionOf(Target(v))

\* A deploy that began on a host where one container, the newest, ran and served.
Tracked(a) ==
    op[a].kind = "deploy" /\ before[a].settled /\ (AtWork(a) \/ Succeeded(a))

Dead == There \ Live

\* What it would go back to is what the deploy is to leave.
Aims(a) ==
    TargetFrom(op[a].version) =
      IF op[a].version = before[a].version THEN before[a].target ELSE before[a].version

\* The container it replaces is the one that ran, the newest but its own.
Replaces(a) ==
    LET o == op[a]
        v == before[a].version
    IN  /\ o.pc # "sweeping"
        /\ o.pc \in {"sweep", "find"} =>
             /\ FirstLive \in Names /\ FirstLive[1] = v /\ Live = {FirstLive}
             /\ FirstLive = Newest(There)
        /\ o.pc \in {"stopprev"} \cup Named => (o.same <=> o.version = v)
        /\ o.pc \in Named =>
             IF Overlaps
               THEN /\ o.prev \in Live /\ o.prev[1] = v
                    /\ \A m \in There \ {o.name} : containers[m].at <= containers[o.prev].at
               ELSE o.prev = NoName

Landing(a) == op[a].pc \in {"prune", "pruning"}

\* Its version runs; what a rollback would start runs too, if it could not be
\* stopped, or is the newest that does not, and is not pruned.
Spared(a) ==
    LET t == Target(op[a].version)
    IN  /\ Landing(a) \/ Succeeded(a) => VersionOf(FirstLive) = op[a].version
        /\ Landing(a) /\ t \in Dead =>
             /\ t = Newest(Dead)
             /\ op[a].pc = "pruning" => op[a].todo[t] = 0

Keeps(a) == Tracked(a) => Aims(a) /\ Replaces(a) /\ Spared(a)
-----------------------------------------------------------------------------
(* Containers and their order *)

States == {"absent", "created", "running", "restarting", "exited"}
LiveStates == {"running", "restarting"}

ThereIn(c) == {n \in Names : c[n].state # "absent"}
LiveIn(c) == {n \in Names : c[n].state \in LiveStates}

Top(c, S) == IF S = {} THEN NoName
             ELSE CHOOSE n \in S : \A m \in S : c[m].at <= c[n].at
OnTop(c, S, n) == n \in S /\ \A m \in S : c[m].at <= c[n].at

Orderly(c) ==
    /\ c \in [Names -> Container]
    /\ \E k \in Nat : \A n \in Names : c[n].at <= k
    /\ \A n \in ThereIn(c) : c[n].at > 0
    /\ \A m, n \in ThereIn(c) : c[m].at = c[n].at => m = n

\* What a container has.
LEMMA FieldsAre ==
    ASSUME NEW c \in [Names -> Container], NEW n \in Names
    PROVE  /\ c[n] \in Container
           /\ c[n].state \in States /\ c[n].good \in BOOLEAN /\ c[n].at \in Nat
BY DEF Container, States

\* Of some containers one is the newest, and one only.
LEMMA TopIs ==
    ASSUME NEW c, Orderly(c), NEW S \in SUBSET ThereIn(c)
    PROVE  /\ S = {} => Top(c, S) = NoName
           /\ S # {} => OnTop(c, S, Top(c, S)) /\ Top(c, S) \in Names
           /\ \A n : OnTop(c, S, n) => n = Top(c, S)
<1>1. S \subseteq Names /\ \A n \in S : c[n].at \in Nat
  BY FieldsAre DEF Orderly, ThereIn
<1>2. ASSUME NEW m, NEW n, OnTop(c, S, m), OnTop(c, S, n) PROVE m = n
  <2>1. c[m].at \in Nat /\ c[n].at \in Nat /\ c[m].at <= c[n].at /\ c[n].at <= c[m].at
    BY <1>1, <1>2 DEF OnTop
  <2>2. c[m].at = c[n].at
    BY <2>1
  <2> QED
    BY <2>2, <1>2 DEF OnTop, Orderly
<1>3. CASE S = {}
  BY <1>3 DEF Top, OnTop
<1>4. CASE S # {}
  <2>1. PICK k \in Nat : \A n \in Names : c[n].at <= k
    BY DEF Orderly
  <2> DEFINE D == {k - c[n].at : n \in S}
  <2>2. D \in SUBSET Nat
    BY <2>1, <1>1
  <2>3. D # {}
    BY <1>4
  <2>4. PICK d \in D : \A e \in D : d <= e
    BY <2>2, <2>3, LeastExists
  <2>5. PICK n \in S : d = k - c[n].at
    BY <2>4
  <2>6. ASSUME NEW m \in S PROVE c[m].at <= c[n].at
    <3>1. k - c[n].at <= k - c[m].at
      BY <2>4, <2>5
    <3> QED
      BY <3>1, <1>1
  <2>7. OnTop(c, S, n)
    BY <2>6 DEF OnTop
  <2>8. OnTop(c, S, Top(c, S))
    BY <2>7, <1>4 DEF OnTop, Top
  <2> QED
    BY <2>8, <1>2, <1>1, <1>4 DEF OnTop
<1> QED
  BY <1>3, <1>4

\* What the host has, before a step and after it.
LEMMA ViewsAre ==
    /\ There = ThereIn(containers) /\ Live = LiveIn(containers)
    /\ There' = ThereIn(containers') /\ Live' = LiveIn(containers')
    /\ FirstLive = Top(containers, Live) /\ FirstLive' = Top(containers', Live')
    /\ Newest(There) = Top(containers, There)
    /\ Newest(There)' = Top(containers', There')
    /\ Newest(Dead) = Top(containers, Dead)
    /\ Newest(Dead)' = Top(containers', Dead')
<1>1. There = ThereIn(containers) /\ There' = ThereIn(containers')
  BY DEF There, ThereIn
<1>2. Live = LiveIn(containers) /\ Live' = LiveIn(containers')
  BY DEF Live, LiveIn, LiveStates
<1>3. FirstLive = Top(containers, Live) /\ FirstLive' = Top(containers', Live')
  BY DEF FirstLive, Newest, Top
<1>4. Newest(There) = Top(containers, There) /\ Newest(There)' = Top(containers', There')
  BY DEF Newest, Top
<1>5. Newest(Dead) = Top(containers, Dead) /\ Newest(Dead)' = Top(containers', Dead')
  BY DEF Newest, Top
<1> QED
  BY <1>1, <1>2, <1>3, <1>4, <1>5

LEMMA SubsetsAre ==
    ASSUME NEW c
    PROVE  LiveIn(c) \subseteq ThereIn(c) /\ ThereIn(c) \subseteq Names
BY DEF LiveIn, ThereIn, LiveStates

LEMMA OrderlyIs ==
    /\ TypeOK /\ Ordered => Orderly(containers)
    /\ containers' \in [Names -> Container] /\ Orderly(containers') /\ role' = role
         /\ (~Overlaps => \A n \in There' : n[2] = 0) => Ordered'
BY ViewsAre DEF TypeOK, Ordered, Orderly, Overlaps

-----------------------------------------------------------------------------
(* What docker's commands do *)

\* docker rm -f takes one container away.
Dropped(n) ==
    /\ Orderly(containers')
    /\ There' = There \ {n} /\ Live' = Live \ {n}
    /\ \A m \in Names \ {n} : containers'[m] = containers[m]

LEMMA WithoutIs ==
    ASSUME Orderly(containers), NEW n \in Names, containers' = Without(n)
    PROVE  Dropped(n)
<1>1. containers \in [Names -> Container]
  BY DEF Orderly
<1>2. containers'[n] = Absent /\ \A m \in Names \ {n} : containers'[m] = containers[m]
  BY <1>1 DEF Without
<1>3. Absent \in Container /\ Absent.state = "absent" /\ Absent.at = 0
  BY DEF Absent, Container
<1>4. containers' \in [Names -> Container]
  BY <1>1, <1>3 DEF Without
<1>5. There' = There \ {n} /\ Live' = Live \ {n}
  BY <1>2, <1>3 DEF There, Live
<1>6. \E k \in Nat : \A m \in Names : containers'[m].at <= k
  <2>1. PICK k \in Nat : \A m \in Names : containers[m].at <= k
    BY DEF Orderly
  <2> QED
    BY <2>1, <1>2, <1>3
<1>7. Orderly(containers')
  <2>1. There' \subseteq There /\ There \subseteq Names /\ n \notin There'
    BY <1>5 DEF There
  <2>2. \A m \in There' : containers'[m].at = containers[m].at
    BY <2>1, <1>2
  <2>3. \A l, m \in There' : containers'[l].at = containers'[m].at => l = m
    BY <2>1, <2>2, ViewsAre DEF Orderly
  <2>4. \A m \in There' : containers'[m].at > 0
    BY <2>1, <2>2, ViewsAre DEF Orderly
  <2> QED
    BY <1>4, <1>6, <2>3, <2>4, ViewsAre DEF Orderly
<1> QED
  BY <1>2, <1>5, <1>7 DEF Dropped

\* docker stop, and start, change the state of a container that is there.
Turned(n, s) ==
    /\ Orderly(containers') /\ n \in There
    /\ There' = There
    /\ Live' = (IF s \in LiveStates THEN Live \cup {n} ELSE Live \ {n})
    /\ containers'[n].state = s /\ containers'[n].good = containers[n].good
    /\ \A m \in Names : containers'[m].at = containers[m].at
    /\ \A m \in Names \ {n} : containers'[m] = containers[m]

LEMMA MarkedIs ==
    ASSUME Orderly(containers), NEW n \in There, NEW s \in States \ {"absent"},
           containers' = Marked(n, s)
    PROVE  Turned(n, s)
<1> n \in Names
  BY DEF There
<1>1. containers \in [Names -> Container] /\ containers' = [containers EXCEPT ![n].state = s]
  BY DEF Orderly, Marked
<1>2. /\ containers' = [containers EXCEPT ![n] = [containers[n] EXCEPT !.state = s]]
      /\ containers[n] \in Container
  BY <1>1
<1> DEFINE new == [containers[n] EXCEPT !.state = s]
<1>3. new \in Container /\ new.state = s /\ new.good = containers[n].good /\ new.at = containers[n].at
  BY <1>2 DEF Container, States
<1> HIDE DEF new
<1>4. containers' \in [Names -> Container]
  BY <1>1, <1>2, <1>3 DEF new
<1>5. containers'[n] = new /\ \A m \in Names \ {n} : containers'[m] = containers[m]
  BY <1>1, <1>2 DEF new
<1>6. \A m \in Names : containers'[m].at = containers[m].at
  BY <1>3, <1>5
<1>7. There' = There
  BY <1>3, <1>5 DEF There
<1>8. Live' = (IF s \in LiveStates THEN Live \cup {n} ELSE Live \ {n})
  BY <1>3, <1>5 DEF Live, LiveStates
<1>9. Orderly(containers')
  <2>1. There \subseteq Names
    BY DEF There
  <2>2. \A l, m \in There' : containers'[l].at = containers'[m].at => l = m
    BY <2>1, <1>6, <1>7, ViewsAre DEF Orderly
  <2>3. \A m \in There' : containers'[m].at > 0
    BY <2>1, <1>6, <1>7, ViewsAre DEF Orderly
  <2>4. \E k \in Nat : \A m \in Names : containers'[m].at <= k
    BY <1>6 DEF Orderly
  <2> QED
    BY <1>4, <2>2, <2>3, <2>4, ViewsAre DEF Orderly
<1> QED
  BY <1>3, <1>5, <1>6, <1>7, <1>8, <1>9 DEF Turned

LEMMA StoppedIs ==
    ASSUME Orderly(containers), NEW n \in Names, containers' = Stopped(n)
    PROVE  Turned(n, "exited") \/ (n \notin There /\ containers' = containers)
<1>1. CASE n \in There
  BY <1>1, MarkedIs DEF Stopped, States
<1>2. CASE n \notin There
  BY <1>2 DEF Stopped, Marked
<1> QED
  BY <1>1, <1>2

\* docker run makes the newest container.
Added(n, s, g) ==
    /\ Orderly(containers') /\ n \notin There
    /\ There' = There \cup {n}
    /\ Live' = (IF s \in LiveStates THEN Live \cup {n} ELSE Live)
    /\ containers'[n].state = s /\ containers'[n].good = g
    /\ OnTop(containers', There', n)
    /\ \A m \in Names \ {n} : containers'[m] = containers[m]

LEMMA WithIs ==
    ASSUME Orderly(containers), NEW n \in Names, n \notin There,
           NEW s \in States \ {"absent"}, NEW g \in BOOLEAN, containers' = With(n, s, g)
    PROVE  Added(n, s, g)
<1> DEFINE t == IF There = {} THEN 1 ELSE containers[Newest(There)].at + 1
           new == [state |-> s, good |-> g, at |-> t]
<1>1. containers \in [Names -> Container]
  BY DEF Orderly
<1>2. t \in Nat /\ t > 0 /\ \A m \in There : containers[m].at < t
  <2>1. CASE There = {}
    BY <2>1
  <2>2. CASE There # {}
    <3>1. OnTop(containers, There, Newest(There)) /\ Newest(There) \in Names
      BY <2>2, TopIs, ViewsAre
    <3>2. There \subseteq Names
      BY DEF There
    <3>3. containers[Newest(There)].at \in Nat /\ \A m \in There : containers[m].at \in Nat
      BY <3>1, <3>2, <1>1, FieldsAre
    <3> QED
      BY <3>1, <3>3, <2>2 DEF OnTop
  <2> QED
    BY <2>1, <2>2
<1>3. containers' = [containers EXCEPT ![n] = new]
  BY DEF With
<1> HIDE DEF t
<1>4. new \in Container /\ new.state = s /\ new.good = g /\ new.at = t
  BY <1>2 DEF Container, States
<1> HIDE DEF new
<1>5. containers'[n] = new /\ \A m \in Names \ {n} : containers'[m] = containers[m]
  BY <1>1, <1>3
<1>6. containers' \in [Names -> Container]
  BY <1>1, <1>3, <1>4
<1>7. There' = There \cup {n}
  BY <1>4, <1>5 DEF There
<1>8. Live' = (IF s \in LiveStates THEN Live \cup {n} ELSE Live)
  <2>1. n \notin Live
    BY DEF Live, There
  <2> QED
    BY <2>1, <1>4, <1>5 DEF Live, LiveStates
<1>9. \A m \in Names : containers[m].at \in Nat
  BY <1>1, FieldsAre
<1>10. OnTop(containers', There', n)
  <2>1. There \subseteq Names
    BY DEF There
  <2> QED
    BY <2>1, <1>2, <1>4, <1>5, <1>7, <1>9 DEF OnTop
<1>11. \E k \in Nat : \A m \in Names : containers'[m].at <= k
  <2>1. PICK k \in Nat : \A m \in Names : containers[m].at <= k
    BY DEF Orderly
  <2>2. k + t \in Nat /\ \A m \in Names : containers'[m].at <= k + t
    BY <2>1, <1>2, <1>4, <1>5, <1>9
  <2> QED
    BY <2>2
<1>12. \A m \in There' : containers'[m].at > 0
  BY <1>2, <1>4, <1>5, <1>7, ViewsAre DEF Orderly, There
<1>13. ASSUME NEW l \in There', NEW m \in There', containers'[l].at = containers'[m].at
       PROVE  l = m
  <2>1. There \subseteq Names
    BY DEF There
  <2>2. \A k \in There : containers'[k].at # t
    BY <2>1, <1>2, <1>5, <1>9
  <2> QED
    BY <2>1, <2>2, <1>4, <1>5, <1>7, <1>13, ViewsAre DEF Orderly
<1>14. Orderly(containers')
  BY <1>6, <1>11, <1>12, <1>13, ViewsAre DEF Orderly
<1> QED
  BY <1>4, <1>5, <1>7, <1>8, <1>10, <1>14 DEF Added
-----------------------------------------------------------------------------
(* What a step does to its command *)

\* The command is over.
Over(o, p) ==
    /\ o \in Op /\ o.pc = "idle" /\ o.result \in {"ok", "failed"}
    /\ o.kind = p.kind /\ o.version = p.version /\ o.name = p.name

\* It goes on at another step, with what it had.
On(o, p, l) ==
    /\ o \in Op /\ o.pc = l
    /\ o.kind = p.kind /\ o.version = p.version /\ o.name = p.name
    /\ o.prev = p.prev /\ o.same = p.same /\ o.todo = p.todo

LEMMA FieldsOfOp ==
    ASSUME NEW o \in Op
    PROVE  /\ o.kind \in AllKinds \cup {"none"} /\ o.version \in Versions \cup {NoVersion}
           /\ o.pc \in PCs /\ o.name \in Names \cup {NoName} /\ o.prev \in Names \cup {NoName}
           /\ o.same \in BOOLEAN /\ o.todo \in [Names -> Nat]
           /\ o.result \in {"none", "ok", "failed"}
BY DEF Op

LEMMA GotoIs ==
    ASSUME NEW o \in Op, NEW l \in PCs
    PROVE  On(Goto(o, l), o, l)
<1> DEFINE n == [o EXCEPT !.pc = l]
<1>1. n \in Op
  BY DEF Op
<1>2. /\ n.pc = l /\ n.kind = o.kind /\ n.version = o.version /\ n.name = o.name
      /\ n.prev = o.prev /\ n.todo = o.todo
  BY DEF Op
<1>3. n.same = o.same
  BY DEF Op
<1> QED
  BY <1>1, <1>2, <1>3 DEF Goto, On

LEMMA FinishIs ==
    ASSUME NEW o \in Op, NEW r \in {"ok", "failed"}
    PROVE  Over(Finish(o, r), o) /\ Finish(o, r).result = r
<1> DEFINE n == [o EXCEPT !.pc = "idle", !.result = r]
<1>0. "idle" \in PCs
  BY DEF PCs
<1>1. n \in Op
  BY <1>0 DEF Op
<1>2. /\ n.pc = "idle" /\ n.kind = o.kind /\ n.version = o.version /\ n.name = o.name
      /\ n.result = r
  BY DEF Op
<1> QED
  BY <1>1, <1>2 DEF Finish, Over

\* Only a prune that fails at the end of a deploy lets it succeed.
LEMMA FailedIs ==
    ASSUME NEW o \in Op
    PROVE  /\ Over(Failed(o), o)
           /\ Failed(o).result = "ok" => o.pc \in {"prune", "pruning"}
BY FinishIs DEF Failed

LEMMA OverFits ==
    ASSUME NEW p, NEW o, Fits(p), Over(o, p)
    PROVE  Fits(o)
BY DEF Fits, Over, Rolling, Named, RolloutPCs

\* Nobody else's command changes, and this one has not just begun.
Turn(a) ==
    /\ \A b \in Actors \ {a} : op'[b] = op[b]
    /\ op'[a].kind = op[a].kind /\ op'[a].pc # "inspect"
    /\ before' = before /\ last' = last /\ role' = role

\* Names go by what the role may use.
Plain == ~Overlaps => \A n \in There : n[2] = 0

LEMMA BecomesIs ==
    ASSUME Base, NEW a \in Actors, NEW o \in Op, AtWork(a) \/ o.pc = "idle",
           Becomes(a, o), o.kind = op[a].kind, o.pc # "inspect", Fits(o),
           Orderly(containers'), Plain', route' \in Names \cup {NoName}
    PROVE  Base' /\ Turn(a) /\ op'[a] = o
<1>1. op \in [Actors -> Op] /\ lock \in Actors \cup {Nobody}
  BY DEF Base, TypeOK
<1>2. /\ op' = [op EXCEPT ![a] = o] /\ op'[a] = o
      /\ \A b \in Actors \ {a} : op'[b] = op[b]
  BY <1>1 DEF Becomes
<1>3. Turn(a)
  BY <1>2 DEF Turn, Becomes
<1>4. TypeOK'
  <2>1. op' \in [Actors -> Op]
    BY <1>1, <1>2
  <2>2. lock' \in Actors \cup {Nobody}
    BY <1>1 DEF Becomes
  <2>3. containers' \in [Names -> Container]
    BY DEF Orderly
  <2> QED
    BY <2>1, <2>2, <2>3 DEF Base, TypeOK, Becomes
<1>5. Ordered'
  <2>1. role' = role /\ (~Overlaps => \A n \in There' : n[2] = 0)
    BY <1>3 DEF Turn, Plain, Overlaps
  <2>2. containers' \in [Names -> Container]
    BY DEF Orderly
  <2> QED
    BY <2>1, <2>2, OrderlyIs
<1>7. ASSUME NEW b \in Actors PROVE Holds(b)'
  <2>1. Holds(b)
    BY DEF Base
  <2>2. Nobody \notin Actors
    BY NoneAssumption
  <2>3. CASE b = a
    <3>1. lock' = a <=> (lock = a /\ o.pc # "idle")
      BY <2>2 DEF Becomes
    <3> QED
      BY <2>1, <2>3, <3>1, <1>2 DEF Holds, AtWork
  <2>4. CASE b # a
    <3>1. lock' = b <=> lock = b
      BY <2>2, <2>4 DEF Becomes
    <3>2. op'[b] = op[b]
      BY <1>2, <2>4
    <3> QED
      BY <2>1, <3>1, <3>2 DEF Holds, AtWork
  <2> QED
    BY <2>3, <2>4
<1>8. \A b \in Actors : Fits(op[b])' /\ Holds(b)'
  <2>1. \A b \in Actors : Fits(op[b])'
    <3> TAKE b \in Actors
    <3>1. Fits(op'[b])
      BY <1>2 DEF Base
    <3> QED
      BY <3>1, <1>3 DEF Fits, Overlaps, Turn
  <2> QED
    BY <2>1, <1>7
<1> QED
  BY <1>2, <1>3, <1>4, <1>5, <1>8 DEF Base

LEMMA BaseIs ==
    ASSUME Base
    PROVE  /\ Orderly(containers) /\ Plain /\ route \in Names \cup {NoName}
           /\ \A a \in Actors : op[a] \in Op /\ Fits(op[a]) /\ Holds(a)
           /\ role \in RoleKinds
BY OrderlyIs, RolloutAssumption DEF Base, TypeOK, Ordered, Plain

\* A step that leaves the containers alone, or removes or changes some.
LEMMA StillPlain ==
    ASSUME Base, There' \subseteq There, role' = role
    PROVE  Plain'
BY BaseIs DEF Plain, Overlaps

LEMMA UnchangedIs ==
    ASSUME Base, containers' = containers
    PROVE  Orderly(containers') /\ There' = There /\ Live' = Live
BY BaseIs, ViewsAre

\* The names a version may have.
LEMMA NamesAre ==
    ASSUME NEW v \in Versions
    PROVE  /\ NameOf(v) \in Names /\ NameOf(v)[1] = v /\ NameOf(v)[2] = 0
           /\ AltOf(NameOf(v)) \in Names /\ AltOf(NameOf(v))[1] = v
           /\ AltOf(NameOf(v)) # NameOf(v)
           /\ \A n \in Names : n[1] = v => n \in {NameOf(v), AltOf(NameOf(v))}
BY DEF Names, NameOf, AltOf

LEMMA VersionsAre ==
    ASSUME NEW n \in Names
    PROVE  n[1] \in Versions /\ n # NoName /\ VersionOf(n) = n[1]
BY NoneAssumption DEF Names, VersionOf

\* How docker rm and docker stop come back, and what they have done.
Removes(n) == Dropped(n) \/ (containers' = containers /\ "hidden" \in Faults)
Stops(n) ==
    \/ Turned(n, "exited")
    \/ containers' = containers /\ ("hidden" \in Faults \/ n \notin There)

LEMMA RemoveIs ==
    ASSUME Base, NEW a \in Actors, NEW n \in Names, NEW next, Remove(a, n, next)
    PROVE  /\ Removes(n) /\ Orderly(containers') /\ There' \subseteq There
           /\ Becomes(a, next) \/ Becomes(a, Failed(op[a]))
<1>1. PICK r \in HiddenReplies :
           /\ containers' = IF r = "hidden" THEN containers ELSE Without(n)
           /\ Becomes(a, After(op[a], r, next))
  BY DEF Remove
<1>2. Becomes(a, next) \/ Becomes(a, Failed(op[a]))
  BY <1>1 DEF After
<1>3. CASE r = "hidden"
  <2>1. containers' = containers /\ "hidden" \in Faults
    BY <1>1, <1>3 DEF HiddenReplies
  <2> QED
    BY <2>1, <1>2, UnchangedIs DEF Removes
<1>4. CASE r # "hidden"
  <2>1. containers' = Without(n)
    BY <1>1, <1>4
  <2>2. Dropped(n)
    BY <2>1, WithoutIs, BaseIs
  <2> QED
    BY <2>2, <1>2 DEF Removes, Dropped
<1> QED
  BY <1>3, <1>4

LEMMA StopIs ==
    ASSUME Base, NEW a \in Actors, NEW n \in Names, NEW next, Stop(a, n, next)
    PROVE  /\ Stops(n) /\ Orderly(containers') /\ There' \subseteq There
           /\ Becomes(a, next) \/ Becomes(a, Failed(op[a]))
<1>1. PICK r \in HiddenReplies :
           /\ containers' = IF r = "hidden" THEN containers ELSE Stopped(n)
           /\ Becomes(a, After(op[a], r, next))
  BY DEF Stop
<1>2. Becomes(a, next) \/ Becomes(a, Failed(op[a]))
  BY <1>1 DEF After
<1>3. CASE r = "hidden"
  <2>1. containers' = containers /\ "hidden" \in Faults
    BY <1>1, <1>3 DEF HiddenReplies
  <2> QED
    BY <2>1, <1>2, UnchangedIs DEF Stops
<1>4. CASE r # "hidden"
  <2>1. containers' = Stopped(n)
    BY <1>1, <1>4
  <2>2. Turned(n, "exited") \/ (n \notin There /\ containers' = containers)
    BY <2>1, StoppedIs, BaseIs
  <2> QED
    BY <2>2, <1>2, UnchangedIs DEF Stops, Turned
<1> QED
  BY <1>3, <1>4

\* A step after which the command is over.
LEMMA OverDoes ==
    ASSUME Base, NEW a \in Actors, NEW o, Over(o, op[a]), Becomes(a, o),
           Orderly(containers'), There' \subseteq There, route' \in Names \cup {NoName}
    PROVE  Base' /\ Turn(a) /\ op'[a] = o
<1>1. Fits(o) /\ o \in Op /\ o.kind = op[a].kind /\ o.pc # "inspect"
  BY OverFits, BaseIs DEF Over
<1>2. o.pc = "idle" /\ Plain'
  BY StillPlain DEF Becomes, Over
<1> QED
  BY <1>1, <1>2, BecomesIs

\* A failing command.
Fails(a) == Over(op'[a], op[a]) /\ (op'[a].result = "ok" => op[a].pc \in {"prune", "pruning"})

LEMMA FailsDoes ==
    ASSUME Base, NEW a \in Actors, Becomes(a, Failed(op[a])),
           Orderly(containers'), There' \subseteq There, route' \in Names \cup {NoName}
    PROVE  Base' /\ Turn(a) /\ Fails(a)
<1>1. Over(Failed(op[a]), op[a])
  BY FailedIs, BaseIs
<1>2. Base' /\ Turn(a) /\ op'[a] = Failed(op[a])
  BY <1>1, OverDoes
<1> QED
  BY <1>1, <1>2, FailedIs, BaseIs DEF Fails

\* One that ends well.
Ends(a) == Over(op'[a], op[a]) /\ op'[a].result = "ok"

LEMMA EndsDoes ==
    ASSUME Base, NEW a \in Actors, Becomes(a, Finish(op[a], "ok")),
           Orderly(containers'), There' \subseteq There, route' \in Names \cup {NoName}
    PROVE  Base' /\ Turn(a) /\ Ends(a)
<1>1. Over(Finish(op[a], "ok"), op[a]) /\ Finish(op[a], "ok").result = "ok"
  BY FinishIs, BaseIs
<1>2. Base' /\ Turn(a) /\ op'[a] = Finish(op[a], "ok")
  BY <1>1, OverDoes
<1> QED
  BY <1>1, <1>2 DEF Ends

\* One that goes on as it is.
LEMMA GoesDoes ==
    ASSUME Base, NEW a \in Actors, AtWork(a), NEW l \in PCs \ {"inspect"},
           Becomes(a, Goto(op[a], l)), Fits(Goto(op[a], l)),
           Orderly(containers'), Plain', route' \in Names \cup {NoName}
    PROVE  Base' /\ Turn(a) /\ On(op'[a], op[a], l)
<1>1. On(Goto(op[a], l), op[a], l)
  BY GotoIs, BaseIs
<1>2. Base' /\ Turn(a) /\ op'[a] = Goto(op[a], l)
  BY <1>1, BecomesIs DEF On
<1> QED
  BY <1>1, <1>2

\* The pcs are strings of their own.
LEMMA PCsAre ==
    /\ Rolling \subseteq PCs /\ Loops \subseteq PCs /\ RolloutPCs \subseteq PCs
    /\ {"startfind", "startone", "register", "removefind", "stopone"} \subseteq PCs
BY DEF PCs, Rolling, Loops, RolloutPCs

LEMMA InFits ==
    ASSUME NEW p, Fits(p)
    PROVE  /\ p.pc \in Rolling => RollsOut(p.kind)
           /\ p.pc \in {"sweep", "sweeping"} => p.kind \in {"deploy", "reconcile", "sweep"}
           /\ p.pc \in {"prune", "pruning"} => p.kind \in {"deploy", "reconcile", "prune"}
           /\ p.pc \in Rolling \ {"choose"} => p.version \in Versions
           /\ p.pc \in {"stopprev"} \cup Named =>
                /\ p.name \in Names /\ p.name[1] = p.version
                /\ ~Overlaps => p.name[2] = 0
           /\ p.pc \in Named => p.name # p.prev
           /\ p.pc \in {"startone", "register"} => p.name \in Names
           /\ p.pc \in {"stopprev", "stopone"} => p.prev \in Names
           /\ p.pc = "stopprev" => ~Overlaps
BY DEF Fits

-----------------------------------------------------------------------------
(* What the steps of a rollout do *)

\* What the sweep's end makes of its command.
LEMMA SweptFits ==
    ASSUME NEW p \in Op, Fits(p), p.pc \in {"sweep", "sweeping"}
    PROVE  /\ p.kind = "sweep" => Over(Swept(p), p)
           /\ p.kind # "sweep" => On(Swept(p), p, "find")
           /\ Fits(Swept(p)) /\ Swept(p).pc # "inspect"
<1>1. CASE p.kind = "sweep"
  <2>1. Over(Swept(p), p)
    BY <1>1, FinishIs DEF Swept
  <2> QED
    BY <2>1, <1>1, OverFits DEF Over
<1>2. CASE p.kind # "sweep"
  <2>1. On(Swept(p), p, "find")
    BY <1>2, GotoIs, PCsAre DEF Swept, Rolling
  <2>2. p.kind \in {"deploy", "reconcile"}
    BY <1>2 DEF Fits
  <2>3. Fits(Swept(p))
    BY <2>1, <2>2 DEF On, Fits, Rolling, Named, RolloutPCs, RollsOut, Pinned
  <2> QED
    BY <1>2, <2>1, <2>3 DEF On
<1> QED
  BY <1>1, <1>2

\* It has listed what it goes through.
Lists(a, l, S) ==
    /\ op'[a] \in Op /\ op'[a].pc = l
    /\ op'[a].version = op[a].version /\ op'[a].name = op[a].name
    /\ \A n \in Names : op'[a].todo[n] > 0 <=> n \in S

LEMMA ListedIs ==
    ASSUME Base, NEW S \in SUBSET There
    PROVE  /\ Listed(S) \in [Names -> Nat]
           /\ \A n \in Names : Listed(S)[n] > 0 <=> n \in S
<1>1. containers \in [Names -> Container]
  BY DEF Base, TypeOK
<1>2. \A n \in Names : containers[n].at \in Nat /\ (n \in There => containers[n].at > 0)
  BY <1>1, FieldsAre, BaseIs, ViewsAre DEF Orderly
<1> QED
  BY <1>2 DEF Listed

\* A command that begins to go through a list.
LEMMA ListsDoes ==
    ASSUME Base, NEW a \in Actors, AtWork(a), NEW S \in SUBSET There, NEW l \in Loops,
           Becomes(a, [op[a] EXCEPT !.pc = l, !.todo = Listed(S)]),
           l = "sweeping" => op[a].pc = "sweep", l = "pruning" => op[a].pc = "prune",
           l = "removing" => ~RollsOut(op[a].kind) /\ op[a].kind \notin Pinned,
           containers' = containers, route' \in Names \cup {NoName}
    PROVE  Base' /\ Turn(a) /\ Lists(a, l, S)
<1> DEFINE p == op[a]
           n == [p EXCEPT !.pc = l, !.todo = Listed(S)]
<1>1. p \in Op /\ Fits(p) /\ l \in PCs
  BY BaseIs, PCsAre
<1>2. Listed(S) \in [Names -> Nat] /\ \A m \in Names : Listed(S)[m] > 0 <=> m \in S
  BY ListedIs
<1> DEFINE t == Listed(S)
<1> HIDE DEF t
<1>3. n \in Op
  BY <1>1, <1>2 DEF Op, t
<1>4. /\ n.pc = l /\ n.kind = p.kind /\ n.version = p.version /\ n.name = p.name
      /\ n.todo = Listed(S)
  BY <1>1 DEF Op
<1> HIDE DEF n, p
<1>5. Fits(n)
  <2>1. CASE l = "sweeping"
    <3>1. p.pc = "sweep"
      BY <2>1 DEF p
    <3> QED
      BY <2>1, <3>1, <1>1, <1>4 DEF Fits, Rolling, Named, RolloutPCs
  <2>2. CASE l = "pruning"
    <3>1. p.pc = "prune"
      BY <2>2 DEF p
    <3> QED
      BY <2>2, <3>1, <1>1, <1>4 DEF Fits, Rolling, Named, RolloutPCs
  <2>3. CASE l = "removing"
    <3>1. ~RollsOut(p.kind) /\ p.kind \notin Pinned /\ p.pc \notin {"idle"}
      BY <2>3 DEF p, AtWork
    <3> QED
      BY <2>3, <3>1, <1>1, <1>4 DEF Fits, Rolling, Named, RolloutPCs
  <2> QED
    BY <2>1, <2>2, <2>3 DEF Loops
<1>6. Becomes(a, n) /\ n.kind = op[a].kind /\ n.pc # "inspect"
  BY <1>4 DEF n, p, Loops
<1>7. Orderly(containers') /\ Plain'
  BY UnchangedIs, StillPlain DEF Becomes
<1>8. Base' /\ Turn(a) /\ op'[a] = n
  BY <1>3, <1>5, <1>6, <1>7, BecomesIs
<1> QED
  BY <1>8, <1>3, <1>4, <1>2 DEF Lists, p

LEMMA SweepDoes ==
    ASSUME Base, NEW a \in Actors, Sweep(a)
    PROVE  /\ op[a].pc = "sweep" /\ Base' /\ Turn(a)
           /\ containers' = containers /\ route' = route
           /\ \/ Orphans = {} /\ op[a].kind = "sweep" /\ Over(op'[a], op[a])
              \/ Orphans = {} /\ op[a].kind # "sweep" /\ On(op'[a], op[a], "find")
              \/ Orphans # {} /\ Lists(a, "sweeping", Orphans)
<1>1. op[a].pc = "sweep" /\ AtWork(a) /\ containers' = containers /\ route' = route
  BY DEF Sweep, AtWork
<1>2. op[a] \in Op /\ Fits(op[a]) /\ route' \in Names \cup {NoName}
  BY <1>1, BaseIs
<1>3. CASE Orphans = {}
  <2>1. Becomes(a, Swept(op[a]))
    BY <1>3 DEF Sweep
  <2>2. Swept(op[a]) \in Op /\ Swept(op[a]).kind = op[a].kind
    BY SweptFits, <1>1, <1>2 DEF Over, On
  <2>3. Orderly(containers') /\ Plain'
    BY <1>1, <2>1, UnchangedIs, StillPlain DEF Becomes
  <2>4. Base' /\ Turn(a) /\ op'[a] = Swept(op[a])
    BY <1>1, <1>2, <2>1, <2>2, <2>3, SweptFits, BecomesIs
  <2> QED
    BY <1>1, <1>2, <1>3, <2>4, SweptFits
<1>4. CASE Orphans # {}
  <2>1. Becomes(a, [op[a] EXCEPT !.pc = "sweeping", !.todo = Listed(Orphans)])
    BY <1>4 DEF Sweep
  <2>2. Orphans \in SUBSET There
    BY ViewsAre, SubsetsAre DEF Orphans
  <2>3. "sweeping" \in Loops
    BY DEF Loops
  <2>4. Base' /\ Turn(a) /\ Lists(a, "sweeping", Orphans)
    BY <1>1, <1>2, <2>1, <2>2, <2>3, ListsDoes
  <2> QED
    BY <1>1, <1>4, <2>4
<1> QED
  BY <1>3, <1>4

\* A loop's next.
LEMMA RemoveNextDoes ==
    ASSUME Base, NEW a \in Actors, RemoveNext(a)
    PROVE  /\ op[a].pc \in Loops /\ Base' /\ Turn(a) /\ route' = route
           /\ \E n \in Names :
                /\ op[a].todo[n] > 0 /\ Removes(n)
                /\ \/ Fails(a)
                   \/ /\ op'[a].pc = op[a].pc /\ op'[a].todo = [op[a].todo EXCEPT ![n] = 0]
                      /\ op'[a].version = op[a].version /\ op'[a].name = op[a].name
                   \/ /\ \A m \in Names \ {n} : op[a].todo[m] = 0
                      /\ \/ op[a].pc = "sweeping" /\ op[a].kind # "sweep"
                              /\ op'[a].pc = "find" /\ op'[a].version = op[a].version
                         \/ op[a].kind = "sweep" /\ Over(op'[a], op[a])
                         \/ op[a].pc # "sweeping" /\ Ends(a)
<1> DEFINE p == op[a]
<1>1. p.pc \in Loops /\ AtWork(a) /\ route' = route
  BY DEF RemoveNext, AtWork, Loops
<1>2. p \in Op /\ Fits(p) /\ route' \in Names \cup {NoName} /\ p.todo \in [Names -> Nat]
  BY <1>1, BaseIs, FieldsOfOp
<1>3. PICK n \in Names :
         LET o == [p EXCEPT !.todo[n] = 0]
         IN  /\ p.todo[n] > 0
             /\ Remove(a, n, IF o.todo # Nothing THEN o
                             ELSE IF o.pc = "sweeping" THEN Swept(o)
                             ELSE Finish(o, "ok"))
  BY DEF RemoveNext
<1> DEFINE t == [p.todo EXCEPT ![n] = 0]
           o == [p EXCEPT !.todo = t]
           next == IF o.todo # Nothing THEN o
                   ELSE IF o.pc = "sweeping" THEN Swept(o) ELSE Finish(o, "ok")
<1>4. t \in [Names -> Nat] /\ [p EXCEPT !.todo[n] = 0] = o
  BY <1>2 DEF Op
<1>5. Remove(a, n, next)
  BY <1>3, <1>4
<1> HIDE DEF t
<1>6. o \in Op
  BY <1>2, <1>4 DEF Op
<1>7. o.pc = p.pc /\ o.kind = p.kind /\ o.version = p.version /\ o.name = p.name /\ o.todo = t
  BY <1>2 DEF Op
<1>8. o.prev = p.prev
  BY <1>2 DEF Op
<1> HIDE DEF o, next, p
<1>9. Fits(o)
  BY <1>2, <1>7, <1>8 DEF Fits
<1>10. /\ Removes(n) /\ Orderly(containers') /\ There' \subseteq There
       /\ Becomes(a, next) \/ Becomes(a, Failed(op[a]))
  BY <1>5, RemoveIs
<1>11. CASE Becomes(a, Failed(op[a]))
  <2>1. Base' /\ Turn(a) /\ Fails(a)
    BY <1>1, <1>2, <1>10, <1>11, FailsDoes
  <2> QED
    BY <1>1, <1>3, <1>10, <2>1 DEF p
<1>12. CASE Becomes(a, next)
  <2>1. Plain'
    BY <1>10, <1>12, StillPlain DEF Becomes
  <2>2. CASE t # Nothing
    <3>1. next = o /\ o.pc # "inspect" /\ o.kind = op[a].kind
      BY <2>2, <1>1, <1>7 DEF next, Loops, p
    <3>2. Base' /\ Turn(a) /\ op'[a] = o
      BY <3>1, <1>1, <1>2, <1>6, <1>9, <1>10, <1>12, <2>1, BecomesIs
    <3> QED
      BY <3>2, <1>1, <1>3, <1>7, <1>10 DEF p, t
  <2>3. CASE t = Nothing
    <3>1. \A m \in Names \ {n} : p.todo[m] = 0
      BY <2>3, <1>2 DEF t, Nothing
    <3>2. CASE p.pc = "sweeping"
      <4>1. next = Swept(o) /\ o.pc = "sweeping"
        BY <2>3, <3>2, <1>7 DEF next
      <4>2. Swept(o) \in Op /\ Swept(o).kind = p.kind /\ Fits(Swept(o)) /\ Swept(o).pc # "inspect"
        BY <4>1, <1>6, <1>7, <1>9, SweptFits DEF Over, On
      <4>3. Base' /\ Turn(a) /\ op'[a] = Swept(o)
        BY <4>1, <4>2, <1>1, <1>2, <1>10, <1>12, <2>1, BecomesIs DEF p
      <4>4. CASE p.kind = "sweep"
        <5>1. Over(op'[a], op[a])
          BY <4>1, <4>3, <4>4, <1>6, <1>7, <1>9, SweptFits DEF Over, p
        <5> QED
          BY <5>1, <4>3, <4>4, <3>1, <1>1, <1>3, <1>10 DEF p
      <4>5. CASE p.kind # "sweep"
        <5>1. op'[a].pc = "find" /\ op'[a].version = op[a].version
          BY <4>1, <4>3, <4>5, <1>6, <1>7, <1>9, SweptFits DEF On, p
        <5> QED
          BY <5>1, <4>3, <4>5, <3>1, <3>2, <1>1, <1>3, <1>10 DEF p
      <4> QED
        BY <4>4, <4>5
    <3>3. CASE p.pc # "sweeping"
      <4>1. next = Finish(o, "ok")
        BY <2>3, <3>3, <1>7 DEF next
      <4>2. Over(Finish(o, "ok"), p) /\ Finish(o, "ok").result = "ok"
        BY <1>6, <1>7, FinishIs DEF Over
      <4>3. Base' /\ Turn(a) /\ op'[a] = Finish(o, "ok")
        BY <4>1, <4>2, <1>1, <1>2, <1>10, <1>12, OverDoes DEF p
      <4>4. Ends(a)
        BY <4>2, <4>3 DEF Ends, p
      <4> QED
        BY <4>4, <4>3, <3>1, <3>3, <1>1, <1>3, <1>10 DEF p
    <3> QED
      BY <3>2, <3>3
  <2> QED
    BY <2>2, <2>3
<1> QED
  BY <1>10, <1>11, <1>12

LEMMA ChooseDoes ==
    ASSUME Base, NEW a \in Actors, Choose(a)
    PROVE  /\ op[a].pc = "choose" /\ Base' /\ Turn(a)
           /\ containers' = containers /\ route' = route
           /\ Fails(a) \/ op'[a].pc = "find"
<1>1. op[a].pc = "choose" /\ AtWork(a) /\ containers' = containers /\ route' = route
  BY DEF Choose, AtWork
<1>2. /\ op[a] \in Op /\ Fits(op[a]) /\ route' \in Names \cup {NoName}
      /\ Orderly(containers') /\ There' = There
  BY <1>1, BaseIs, UnchangedIs
<1>3. PICK v : Becomes(a, IF \E n \in There : n[1] = v
                          THEN [op[a] EXCEPT !.version = v, !.pc = "find"]
                          ELSE Failed(op[a]))
  BY DEF Choose
<1>4. Plain'
  BY <1>2, <1>3, StillPlain DEF Becomes
<1>5. CASE \E n \in There : n[1] = v
  <2> DEFINE o == [op[a] EXCEPT !.version = v, !.pc = "find"]
  <2>1. v \in Versions /\ "find" \in PCs
    BY <1>5, VersionsAre DEF There, PCs
  <2>2. o \in Op
    BY <1>2, <2>1 DEF Op
  <2>3. o.pc = "find" /\ o.version = v /\ o.kind = op[a].kind
    BY <1>2 DEF Op
  <2>4. Becomes(a, o)
    BY <1>3, <1>5
  <2> HIDE DEF o
  <2>5. Fits(o)
    BY <1>1, <1>2, <2>1, <2>3 DEF Fits, Rolling, Named, RolloutPCs, RollsOut
  <2>6. Base' /\ Turn(a) /\ op'[a] = o
    BY <1>1, <1>2, <1>4, <2>2, <2>3, <2>4, <2>5, BecomesIs
  <2> QED
    BY <1>1, <2>3, <2>6
<1>6. CASE ~\E n \in There : n[1] = v
  <2>1. Becomes(a, Failed(op[a]))
    BY <1>3, <1>6
  <2> QED
    BY <1>1, <1>2, <2>1, FailsDoes
<1> QED
  BY <1>5, <1>6

\* What Find settles.
Found(a) ==
    LET o == op'[a]
    IN  /\ o.version = op[a].version /\ o.prev = FirstLive
        /\ o.name = NameFor(o.version)
        /\ o.same <=> VersionOf(FirstLive) = o.version
        /\ IF MustStopFirst(FirstLive) THEN o.pc = "stopprev" ELSE o.pc = "rmname"

LEMMA NameForIs ==
    ASSUME Base, NEW v \in Versions
    PROVE  /\ NameFor(v) \in Names /\ NameFor(v)[1] = v
           /\ ~Overlaps => NameFor(v)[2] = 0
           /\ Overlaps \/ FirstLive = NoName => NameFor(v) # FirstLive
           /\ NameFor(v) \in {NameOf(v), AltOf(NameOf(v))}
<1>1. NoName \notin Names
  BY NoneAssumption
<1> QED
  BY <1>1, NamesAre DEF NameFor

LEMMA FirstLiveIs ==
    ASSUME Base
    PROVE  /\ FirstLive \in Names \cup {NoName} /\ (FirstLive = NoName <=> Live = {})
           /\ Live # {} => OnTop(containers, Live, FirstLive)
           /\ VersionOf(FirstLive) \in Versions \cup {NoVersion}
<1>1. Live \in SUBSET ThereIn(containers) /\ Live \subseteq Names /\ NoName \notin Names
  BY ViewsAre, SubsetsAre, NoneAssumption DEF Live
<1>2. /\ Live = {} => FirstLive = NoName
      /\ Live # {} => OnTop(containers, Live, FirstLive) /\ FirstLive \in Names
  BY <1>1, TopIs, ViewsAre, BaseIs
<1>3. FirstLive \in Names \cup {NoName} /\ (FirstLive = NoName <=> Live = {})
  BY <1>1, <1>2
<1> QED
  BY <1>2, <1>3, VersionsAre DEF VersionOf

LEMMA FindDoes ==
    ASSUME Base, NEW a \in Actors, Find(a)
    PROVE  /\ op[a].pc = "find" /\ Base' /\ Turn(a)
           /\ containers' = containers /\ route' = route /\ Found(a)
<1> DEFINE p == op[a]
           l == IF MustStopFirst(FirstLive) THEN "stopprev" ELSE "rmname"
           s == VersionOf(FirstLive) = p.version
           f == FirstLive
           m == NameFor(p.version)
           o == [p EXCEPT !.prev = f, !.name = m, !.same = s, !.pc = l]
<1>1. p.pc = "find" /\ AtWork(a) /\ containers' = containers /\ route' = route
  BY DEF Find, AtWork
<1>2. /\ p \in Op /\ Fits(p) /\ route' \in Names \cup {NoName}
      /\ Orderly(containers') /\ There' = There /\ p.version \in Versions
  BY <1>1, BaseIs, UnchangedIs, InFits DEF Rolling
<1>3. Becomes(a, o)
  BY DEF Find
<1>4. f \in Names \cup {NoName} /\ m \in Names /\ l \in PCs /\ s \in BOOLEAN
  <2>1. f \in Names \cup {NoName}
    BY FirstLiveIs
  <2>2. m \in Names
    BY <1>2, NameForIs
  <2>3. l \in PCs
    BY DEF PCs
  <2>4. s \in BOOLEAN
    OBVIOUS
  <2> QED
    BY <2>1, <2>2, <2>3, <2>4
<1>5. l = "stopprev" <=> (f # NoName /\ ~Overlaps)
  BY DEF MustStopFirst
<1>6. /\ m[1] = p.version /\ (~Overlaps => m[2] = 0)
      /\ Overlaps \/ f = NoName => m # f
  BY <1>2, NameForIs
<1> HIDE DEF f, m, s, l
<1>7. o \in Op
  BY <1>2, <1>4 DEF Op
<1>8. /\ o.pc = l /\ o.prev = f /\ o.name = m
      /\ o.version = p.version /\ o.kind = p.kind
  BY <1>2 DEF Op
<1>9. o.same = s
  BY <1>2 DEF Op
<1> HIDE DEF o, p
<1>10. l \in {"stopprev", "rmname"}
  BY DEF l
<1>11. Fits(o)
  BY <1>1, <1>2, <1>4, <1>5, <1>6, <1>8, <1>10 DEF Fits, Rolling, Named, RolloutPCs, RollsOut
<1>12. Plain'
  BY <1>2, <1>3, StillPlain DEF Becomes
<1>13. Base' /\ Turn(a) /\ op'[a] = o
  BY <1>1, <1>2, <1>3, <1>7, <1>8, <1>10, <1>11, <1>12, BecomesIs DEF p
<1>14. Found(a)
  BY <1>13, <1>8, <1>9 DEF Found, p, f, m, s, l
<1> QED
  BY <1>1, <1>13, <1>14 DEF p

LEMMA StopPreviousDoes ==
    ASSUME Base, NEW a \in Actors, StopPrevious(a)
    PROVE  /\ op[a].pc = "stopprev" /\ Base' /\ Turn(a) /\ route' = route
           /\ op[a].prev \in Names /\ Stops(op[a].prev)
           /\ \/ Fails(a)
              \/ /\ op'[a].pc = "rmname" /\ op'[a].prev = NoName
                 /\ op'[a].version = op[a].version /\ op'[a].name = op[a].name
                 /\ op'[a].same = op[a].same
<1> DEFINE p == op[a]
           o == [p EXCEPT !.prev = NoName, !.pc = "rmname"]
<1>1. p.pc = "stopprev" /\ AtWork(a) /\ route' = route /\ Stop(a, p.prev, o)
  BY DEF StopPrevious, AtWork
<1>2. p \in Op /\ Fits(p) /\ route' \in Names \cup {NoName} /\ p.prev \in Names
  BY <1>1, BaseIs, InFits
<1>3. "rmname" \in PCs
  BY DEF PCs
<1>4. o \in Op
  BY <1>2, <1>3 DEF Op
<1>5. /\ o.pc = "rmname" /\ o.prev = NoName /\ o.name = p.name
      /\ o.version = p.version /\ o.kind = p.kind
  BY <1>2 DEF Op
<1>6. o.same = p.same
  BY <1>2 DEF Op
<1> HIDE DEF o
<1>7. /\ Stops(p.prev) /\ Orderly(containers') /\ There' \subseteq There
      /\ Becomes(a, o) \/ Becomes(a, Failed(p))
  BY <1>1, <1>2, StopIs
<1>8. CASE Becomes(a, Failed(p))
  BY <1>1, <1>2, <1>7, <1>8, FailsDoes
<1>9. CASE Becomes(a, o)
  <2>1. p.name # NoName
    BY <1>1, <1>2, NoneAssumption, InFits
  <2>2. Fits(o)
    BY <1>1, <1>2, <1>5, <2>1 DEF Fits, Rolling, Named, RolloutPCs
  <2>3. Plain'
    BY <1>7, <1>9, StillPlain DEF Becomes
  <2>4. Base' /\ Turn(a) /\ op'[a] = o
    BY <1>1, <1>2, <1>4, <1>5, <1>7, <1>9, <2>2, <2>3, BecomesIs
  <2> QED
    BY <1>1, <1>2, <1>5, <1>6, <1>7, <2>4
<1> QED
  BY <1>7, <1>8, <1>9

LEMMA RemoveNamesakeDoes ==
    ASSUME Base, NEW a \in Actors, RemoveNamesake(a)
    PROVE  /\ op[a].pc = "rmname" /\ Base' /\ Turn(a) /\ route' = route
           /\ op[a].name \in Names /\ Removes(op[a].name)
           /\ Fails(a) \/ On(op'[a], op[a], "run")
<1> DEFINE p == op[a]
<1>1. p.pc = "rmname" /\ AtWork(a) /\ route' = route /\ Remove(a, p.name, Goto(p, "run"))
  BY DEF RemoveNamesake, AtWork
<1>2. p \in Op /\ Fits(p) /\ route' \in Names \cup {NoName} /\ p.name \in Names
  BY <1>1, BaseIs, InFits DEF Named, Rolling
<1>3. /\ Removes(p.name) /\ Orderly(containers') /\ There' \subseteq There
      /\ Becomes(a, Goto(p, "run")) \/ Becomes(a, Failed(p))
  BY <1>1, <1>2, RemoveIs
<1>4. CASE Becomes(a, Failed(p))
  BY <1>1, <1>2, <1>3, <1>4, FailsDoes
<1>5. CASE Becomes(a, Goto(p, "run"))
  <2>1. On(Goto(p, "run"), p, "run") /\ "run" \in PCs
    BY <1>2, GotoIs DEF PCs
  <2>2. Fits(Goto(p, "run"))
    BY <1>1, <1>2, <2>1 DEF On, Fits, Rolling, Named, RolloutPCs
  <2>3. Plain'
    BY <1>3, <1>5, StillPlain DEF Becomes
  <2>4. Base' /\ Turn(a) /\ On(op'[a], op[a], "run")
    BY <1>1, <1>2, <1>3, <1>5, <2>1, <2>2, <2>3, GoesDoes
  <2> QED
    BY <1>1, <1>2, <1>3, <2>4
<1> QED
  BY <1>3, <1>4, <1>5

LEMMA AddedPlain ==
    ASSUME Base, NEW n \in Names, ~Overlaps => n[2] = 0, There' = There \cup {n}, role' = role
    PROVE  Plain'
BY BaseIs DEF Plain, Overlaps

\* docker run has made its container and come back, or has not.
Runs(a) ==
    LET n == op[a].name
    IN  \/ /\ \E s \in LiveStates, g \in BOOLEAN : Added(n, s, g)
           /\ \/ On(op'[a], op[a], "health")
              \/ On(op'[a], op[a], "rmfailed") /\ "lost" \in Faults
        \/ containers' = containers /\ On(op'[a], op[a], "rmfailed")
        \/ (\E g \in BOOLEAN : Added(n, "created", g)) /\ On(op'[a], op[a], "rmfailed")

LEMMA RunDoes ==
    ASSUME Base, NEW a \in Actors, Run(a)
    PROVE  /\ op[a].pc = "run" /\ Base' /\ Turn(a) /\ route' = route
           /\ op[a].name \in Names /\ Runs(a)
<1> DEFINE p == op[a]
<1>1. p.pc = "run" /\ AtWork(a) /\ route' = route
  BY DEF Run, AtWork
<1>2. /\ p \in Op /\ Fits(p) /\ route' \in Names \cup {NoName} /\ p.name \in Names
      /\ Orderly(containers) /\ (~Overlaps => p.name[2] = 0)
  BY <1>1, BaseIs, InFits DEF Named, Rolling
<1>3. ASSUME NEW l \in {"health", "rmfailed"} PROVE On(Goto(p, l), p, l) /\ Fits(Goto(p, l)) /\ l \in PCs
  <2>1. On(Goto(p, l), p, l) /\ l \in PCs
    BY <1>2, GotoIs DEF PCs
  <2> QED
    BY <1>1, <1>2, <2>1 DEF On, Fits, Rolling, Named, RolloutPCs
<1>4. ASSUME NEW l \in {"health", "rmfailed"}, Becomes(a, Goto(p, l)),
             Orderly(containers'), There' \in {There, There \cup {p.name}}
      PROVE  Base' /\ Turn(a) /\ On(op'[a], op[a], l)
  <2>1. role' = role
    BY <1>4 DEF Becomes
  <2>2. Plain'
    BY <2>1, <1>2, <1>4, StillPlain, AddedPlain
  <2> QED
    BY <1>1, <1>2, <1>3, <1>4, <2>2, GoesDoes
<1>5. \/ /\ p.name \notin There
         /\ \E g \in BOOLEAN : \E s \in StatesOf(g) : containers' = With(p.name, s, g)
         /\ \E r \in Replies : Becomes(a, Goto(p, IF r = "ok" THEN "health" ELSE "rmfailed"))
      \/ Becomes(a, Goto(p, "rmfailed")) /\ containers' = containers
      \/ /\ p.name \notin There /\ Becomes(a, Goto(p, "rmfailed"))
         /\ \E g \in BOOLEAN : containers' = With(p.name, "created", g)
  BY DEF Run
<1>6. CASE /\ p.name \notin There
           /\ \E g \in BOOLEAN : \E s \in StatesOf(g) : containers' = With(p.name, s, g)
           /\ \E r \in Replies : Becomes(a, Goto(p, IF r = "ok" THEN "health" ELSE "rmfailed"))
  <2>1. PICK g \in BOOLEAN : \E s \in StatesOf(g) : containers' = With(p.name, s, g)
    BY <1>6
  <2>2. PICK s \in StatesOf(g) : containers' = With(p.name, s, g)
    BY <2>1
  <2>3. s \in LiveStates /\ s \in States \ {"absent"}
    BY <2>2 DEF StatesOf, LiveStates, States
  <2>4. Added(p.name, s, g)
    BY <1>2, <1>6, <2>2, <2>3, WithIs
  <2>5. Orderly(containers') /\ There' = There \cup {p.name}
    BY <2>4 DEF Added
  <2>6. \/ Becomes(a, Goto(p, "health"))
        \/ Becomes(a, Goto(p, "rmfailed")) /\ "lost" \in Faults
    BY <1>6 DEF Replies
  <2>7. \/ Base' /\ Turn(a) /\ On(op'[a], op[a], "health")
        \/ Base' /\ Turn(a) /\ On(op'[a], op[a], "rmfailed") /\ "lost" \in Faults
    BY <2>5, <2>6, <1>4
  <2>8. \E t \in LiveStates, h \in BOOLEAN : Added(op[a].name, t, h)
    BY <2>3, <2>4
  <2> QED
    BY <1>1, <1>2, <2>7, <2>8 DEF Runs
<1>7. CASE Becomes(a, Goto(p, "rmfailed")) /\ containers' = containers
  <2>1. Base' /\ Turn(a) /\ On(op'[a], op[a], "rmfailed")
    BY <1>4, <1>7, UnchangedIs
  <2> QED
    BY <1>1, <1>2, <1>7, <2>1 DEF Runs
<1>8. CASE /\ p.name \notin There /\ Becomes(a, Goto(p, "rmfailed"))
           /\ \E g \in BOOLEAN : containers' = With(p.name, "created", g)
  <2>1. PICK g \in BOOLEAN : containers' = With(p.name, "created", g)
    BY <1>8
  <2>2. Added(p.name, "created", g)
    BY <1>2, <1>8, <2>1, WithIs DEF States
  <2>3. Orderly(containers') /\ There' = There \cup {p.name}
    BY <2>2 DEF Added
  <2>4. Base' /\ Turn(a) /\ On(op'[a], op[a], "rmfailed")
    BY <1>4, <1>8, <2>3
  <2> QED
    BY <1>1, <1>2, <2>2, <2>4 DEF Runs
<1> QED
  BY <1>5, <1>6, <1>7, <1>8

LEMMA RemoveFailedDoes ==
    ASSUME Base, NEW a \in Actors, RemoveFailed(a)
    PROVE  /\ op[a].pc = "rmfailed" /\ Base' /\ Turn(a) /\ route' = route
           /\ op[a].name \in Names /\ Fails(a)
           /\ \/ Dropped(op[a].name)
              \/ containers' = containers /\ Faults \cap {"refused", "hidden"} # {}
<1>1. /\ op[a].pc = "rmfailed" /\ AtWork(a) /\ route' = route
      /\ Becomes(a, Failed(op[a]))
  BY DEF RemoveFailed, AtWork
<1>2. op[a].name \in Names /\ route' \in Names \cup {NoName} /\ Orderly(containers)
  BY <1>1, BaseIs, InFits DEF Named, Rolling
<1>3. \/ containers' = Without(op[a].name)
      \/ containers' = containers /\ Faults \cap {"refused", "hidden"} # {}
  BY DEF RemoveFailed
<1>4. CASE containers' = Without(op[a].name)
  <2>1. Dropped(op[a].name)
    BY <1>2, <1>4, WithoutIs
  <2>2. Orderly(containers') /\ There' \subseteq There
    BY <2>1 DEF Dropped
  <2> QED
    BY <1>1, <1>2, <2>1, <2>2, FailsDoes
<1>5. CASE containers' = containers /\ Faults \cap {"refused", "hidden"} # {}
  <2>1. Orderly(containers') /\ There' \subseteq There
    BY <1>5, UnchangedIs
  <2> QED
    BY <1>1, <1>2, <1>5, <2>1, FailsDoes
<1> QED
  BY <1>3, <1>4, <1>5

\* A step that leaves the containers as they are.
LEMMA StillDoes ==
    ASSUME Base, NEW a \in Actors, AtWork(a), containers' = containers,
           route' \in Names \cup {NoName}
    PROVE  /\ Becomes(a, Failed(op[a])) => Base' /\ Turn(a) /\ Fails(a)
           /\ Becomes(a, Finish(op[a], "ok")) => Base' /\ Turn(a) /\ Ends(a)
           /\ \A l \in PCs \ {"inspect"} :
                Becomes(a, Goto(op[a], l)) /\ Fits(Goto(op[a], l))
                  => Base' /\ Turn(a) /\ On(op'[a], op[a], l)
<1>1. Orderly(containers') /\ There' \subseteq There
  BY UnchangedIs
<1>2. ASSUME role' = role PROVE Plain'
  BY <1>1, <1>2, StillPlain
<1>3. Becomes(a, Failed(op[a])) => Base' /\ Turn(a) /\ Fails(a)
  BY <1>1, FailsDoes
<1>4. Becomes(a, Finish(op[a], "ok")) => Base' /\ Turn(a) /\ Ends(a)
  BY <1>1, EndsDoes
<1>5. ASSUME NEW l \in PCs \ {"inspect"}, Becomes(a, Goto(op[a], l)), Fits(Goto(op[a], l))
      PROVE  Base' /\ Turn(a) /\ On(op'[a], op[a], l)
  <2>1. Plain'
    BY <1>2, <1>5 DEF Becomes
  <2> QED
    BY <1>1, <1>5, <2>1, GoesDoes
<1> QED
  BY <1>3, <1>4, <1>5

\* What comes next in a rollout.
LEMMA NextFits ==
    ASSUME NEW p \in Op, Fits(p), p.pc \in Named, NEW l \in Named \cup {"prune"},
           l = "prune" => p.kind \in {"deploy", "reconcile"}
    PROVE  On(Goto(p, l), p, l) /\ Fits(Goto(p, l)) /\ l \in PCs \ {"inspect"}
<1>1. l \in PCs \ {"inspect"}
  BY DEF Named, Rolling, PCs
<1>2. On(Goto(p, l), p, l)
  BY <1>1, GotoIs
<1>3. Fits(Goto(p, l))
  BY <1>2 DEF On, Fits, Rolling, Named, RolloutPCs, RollsOut
<1> QED
  BY <1>1, <1>2, <1>3

LEMMA HealthDoes ==
    ASSUME Base, NEW a \in Actors, Health(a)
    PROVE  /\ op[a].pc = "health" /\ Base' /\ Turn(a)
           /\ containers' = containers /\ route' = route
           /\ \/ Fails(a)
              \/ /\ Answers(op[a].name)
                 /\ On(op'[a], op[a], IF UseProxy THEN "switch" ELSE "cleanup")
<1>1. op[a].pc = "health" /\ AtWork(a) /\ containers' = containers /\ route' = route
  BY DEF Health, AtWork
<1>2. op[a] \in Op /\ Fits(op[a]) /\ route' \in Names \cup {NoName}
  BY <1>1, BaseIs
<1> DEFINE l == IF UseProxy THEN "switch" ELSE "cleanup"
<1>3. l \in Named /\ op[a].pc \in Named
  BY <1>1 DEF Named, Rolling
<1>4. \/ Answers(op[a].name) /\ Becomes(a, Goto(op[a], l))
      \/ Becomes(a, Failed(op[a]))
  BY DEF Health
<1> HIDE DEF l
<1>5. l \in PCs \ {"inspect"} /\ Fits(Goto(op[a], l))
  BY <1>2, <1>3, NextFits DEF Named, Rolling
<1>6. \/ Base' /\ Turn(a) /\ Fails(a)
      \/ Answers(op[a].name) /\ Base' /\ Turn(a) /\ On(op'[a], op[a], l)
  BY <1>1, <1>2, <1>4, <1>5, StillDoes
<1> QED
  BY <1>1, <1>6 DEF l

LEMMA SwitchDoes ==
    ASSUME Base, NEW a \in Actors, Switch(a)
    PROVE  /\ op[a].pc \in {"switch", "register"} /\ Base' /\ Turn(a)
           /\ containers' = containers /\ op[a].name \in Names
           /\ \/ Fails(a) /\ route' = route
              \/ /\ Answers(op[a].name) /\ route' = op[a].name
                 /\ \/ Fails(a)
                    \/ op[a].pc = "switch" /\ On(op'[a], op[a], "cleanup")
                    \/ op[a].pc = "register" /\ Ends(a)
<1>1. op[a].pc \in {"switch", "register"} /\ AtWork(a) /\ containers' = containers
  BY DEF Switch, AtWork
<1>2. op[a] \in Op /\ Fits(op[a]) /\ op[a].name \in Names
  BY <1>1, BaseIs, InFits DEF Named, Rolling
<1>3. CASE Answers(op[a].name)
  <2>1. route' = op[a].name
    BY <1>3 DEF Switch
  <2>2. \/ Becomes(a, Failed(op[a]))
        \/ op[a].pc = "switch" /\ Becomes(a, Goto(op[a], "cleanup"))
        \/ op[a].pc = "register" /\ Becomes(a, Finish(op[a], "ok"))
    BY <1>1, <1>3 DEF Switch, After
  <2>3. op[a].pc = "switch" => "cleanup" \in PCs \ {"inspect"} /\ Fits(Goto(op[a], "cleanup"))
    BY <1>2, NextFits DEF Named, Rolling
  <2> QED
    BY <1>1, <1>2, <1>3, <2>1, <2>2, <2>3, StillDoes
<1>4. CASE ~Answers(op[a].name)
  <2>1. Becomes(a, Failed(op[a])) /\ route' = route
    BY <1>4 DEF Switch
  <2>2. route' \in Names \cup {NoName}
    BY <2>1, BaseIs
  <2> QED
    BY <1>1, <1>2, <2>1, <2>2, StillDoes
<1> QED
  BY <1>3, <1>4

\* What the end of a rollout makes of its command.
RolledOn(a) ==
    IF op[a].kind \in {"rollback", "rollback_to"} THEN Ends(a)
                                                   ELSE On(op'[a], op[a], "prune")

LEMMA RolledOutFits ==
    ASSUME NEW p \in Op, Fits(p), p.pc = "cleanup"
    PROVE  /\ Fits(RolledOut(p)) /\ RolledOut(p).pc # "inspect" /\ RolledOut(p) \in Op
           /\ RolledOut(p).kind = p.kind
           /\ IF p.kind \in {"rollback", "rollback_to"}
                THEN Over(RolledOut(p), p) /\ RolledOut(p).result = "ok"
                ELSE On(RolledOut(p), p, "prune")
<1>1. CASE p.kind \in {"rollback", "rollback_to"}
  <2>1. Over(RolledOut(p), p) /\ RolledOut(p).result = "ok"
    BY <1>1, FinishIs DEF RolledOut
  <2> QED
    BY <1>1, <2>1, OverFits DEF Over
<1>2. CASE p.kind \notin {"rollback", "rollback_to"}
  <2>1. p.kind \in {"deploy", "reconcile"} /\ p.pc \in Named /\ RolledOut(p) = Goto(p, "prune")
    BY <1>2 DEF Fits, RollsOut, Named, Rolling, RolledOut
  <2>2. On(RolledOut(p), p, "prune") /\ Fits(RolledOut(p))
    BY <2>1, NextFits
  <2> QED
    BY <1>2, <2>2 DEF On
<1> QED
  BY <1>1, <1>2

LEMMA CleanupDoes ==
    ASSUME Base, NEW a \in Actors, Cleanup(a)
    PROVE  /\ op[a].pc = "cleanup" /\ Base' /\ Turn(a) /\ route' = route
           /\ \/ op[a].prev \in {NoName, op[a].name} /\ containers' = containers /\ RolledOn(a)
              \/ /\ op[a].prev \in Names \ {op[a].name}
                 /\ IF op[a].same THEN Removes(op[a].prev) ELSE Stops(op[a].prev)
                 /\ Fails(a) \/ RolledOn(a)
<1> DEFINE p == op[a]
<1>1. p.pc = "cleanup" /\ AtWork(a) /\ route' = route
  BY DEF Cleanup, AtWork
<1>2. p \in Op /\ Fits(p) /\ route' \in Names \cup {NoName} /\ p.prev \in Names \cup {NoName}
  BY <1>1, BaseIs, FieldsOfOp
<1>3. ASSUME Becomes(a, RolledOut(p)), Orderly(containers'), There' \subseteq There
      PROVE  Base' /\ Turn(a) /\ RolledOn(a)
  <2>1. Plain'
    BY <1>3, StillPlain DEF Becomes
  <2>2. Base' /\ Turn(a) /\ op'[a] = RolledOut(p)
    BY <1>1, <1>2, <1>3, <2>1, RolledOutFits, BecomesIs
  <2> QED
    BY <1>1, <1>2, <2>2, RolledOutFits DEF RolledOn, Ends
<1>4. CASE p.prev \in {NoName, p.name}
  <2>1. Becomes(a, RolledOut(p)) /\ containers' = containers
    BY <1>4 DEF Cleanup
  <2> QED
    BY <1>1, <1>3, <1>4, <2>1, UnchangedIs
<1>5. CASE p.prev \notin {NoName, p.name}
  <2>1. p.prev \in Names \ {p.name}
    BY <1>2, <1>5
  <2>2. IF p.same THEN Remove(a, p.prev, RolledOut(p)) ELSE Stop(a, p.prev, RolledOut(p))
    BY <1>5 DEF Cleanup
  <2>3. /\ IF p.same THEN Removes(p.prev) ELSE Stops(p.prev)
        /\ Orderly(containers') /\ There' \subseteq There
        /\ Becomes(a, RolledOut(p)) \/ Becomes(a, Failed(p))
    BY <2>1, <2>2, RemoveIs, StopIs
  <2>4. Base' /\ Turn(a) /\ (Fails(a) \/ RolledOn(a))
    BY <1>1, <1>2, <1>3, <2>3, FailsDoes
  <2> QED
    BY <1>1, <2>1, <2>3, <2>4
<1> QED
  BY <1>4, <1>5

LEMMA PruneDoes ==
    ASSUME Base, NEW a \in Actors, Prune(a)
    PROVE  /\ op[a].pc = "prune" /\ Base' /\ Turn(a)
           /\ containers' = containers /\ route' = route
           /\ Ends(a) \/ Lists(a, "pruning", Surplus)
<1>1. op[a].pc = "prune" /\ AtWork(a) /\ containers' = containers /\ route' = route
  BY DEF Prune, AtWork
<1>2. op[a] \in Op /\ Fits(op[a]) /\ route' \in Names \cup {NoName}
  BY <1>1, BaseIs
<1>3. CASE Surplus = {}
  <2>1. Becomes(a, Finish(op[a], "ok"))
    BY <1>3 DEF Prune
  <2> QED
    BY <1>1, <1>2, <2>1, StillDoes
<1>4. CASE Surplus # {}
  <2>1. Becomes(a, [op[a] EXCEPT !.pc = "pruning", !.todo = Listed(Surplus)])
    BY <1>4 DEF Prune
  <2>2. Surplus \in SUBSET There
    BY DEF Surplus
  <2>3. "pruning" \in Loops
    BY DEF Loops
  <2>4. Base' /\ Turn(a) /\ Lists(a, "pruning", Surplus)
    BY <1>1, <1>2, <2>1, <2>2, <2>3, ListsDoes
  <2> QED
    BY <1>1, <2>4
<1> QED
  BY <1>3, <1>4

-----------------------------------------------------------------------------
(* The commands beside them *)

\* A step that changes no container.
Aside(a) ==
    /\ Base' /\ Turn(a) /\ containers' = containers
    /\ Fails(a) \/ Ends(a) \/ op'[a].pc \in PCs \ (RolloutPCs \ {"idle"})
    /\ op'[a].pc = "startone" =>
         op'[a].name = Newest(There) /\ op'[a].name \in There \ Live

\* A step with which a command goes on where it likes.
LEMMA GoesAside ==
    ASSUME Base, NEW a \in Actors, AtWork(a), ~RollsOut(op[a].kind),
           containers' = containers, route' \in Names \cup {NoName},
           NEW o \in Op, o.kind = op[a].kind, Becomes(a, o),
           o.pc \in {"stopone", "startfind", "startone", "register", "removefind", "removing"},
           o.pc \in {"startone", "register"} => o.name \in Names,
           o.pc = "stopone" => o.prev \in Names
    PROVE  Base' /\ Turn(a) /\ op'[a] = o
<1>1. Fits(op[a]) /\ op[a].kind # "none" /\ op[a].kind \notin Pinned
  <2>1. Fits(op[a])
    BY BaseIs
  <2>2. op[a].pc # "idle" /\ op[a].pc # "inspect"
    BY DEF AtWork
  <2> QED
    BY <2>1, <2>2 DEF Fits, Pinned, RollsOut
<1>2. Fits(o)
  BY <1>1 DEF Fits, Rolling, Named, RolloutPCs
<1>3. Orderly(containers') /\ Plain'
  BY UnchangedIs, StillPlain DEF Becomes
<1> QED
  BY <1>2, <1>3, BecomesIs

LEMMA UnlockedAre ==
    ASSUME Base, NEW a \in Actors,
           op[a].pc \in {"stopfind", "stopone", "startfind", "startone", "regfind",
                         "register", "unroute", "removefind", "removing"}
    PROVE  AtWork(a) /\ ~RollsOut(op[a].kind) /\ op[a].kind \notin Pinned
BY BaseIs DEF Fits, AtWork, RolloutPCs, Rolling, Pinned, RollsOut

LEMMA StopFindDoes ==
    ASSUME Base, NEW a \in Actors, StopFind(a)
    PROVE  op[a].pc = "stopfind" /\ Aside(a) /\ route' = route
<1>1. /\ op[a].pc = "stopfind" /\ containers' = containers /\ route' = route
      /\ AtWork(a) /\ ~RollsOut(op[a].kind)
  BY UnlockedAre DEF StopFind
<1>2. op[a] \in Op /\ route' \in Names \cup {NoName}
  BY <1>1, BaseIs
<1>3. \/ Becomes(a, Goto(op[a], "startfind"))
      \/ Becomes(a, Finish(op[a], "ok"))
      \/ /\ FirstLive # NoName
         /\ Becomes(a, [op[a] EXCEPT !.prev = FirstLive, !.pc = "stopone"])
  BY DEF StopFind, BeStopped
<1>4. CASE Becomes(a, Finish(op[a], "ok"))
  BY <1>1, <1>2, <1>4, StillDoes DEF Aside, Fails, Ends, Over
<1>5. CASE Becomes(a, Goto(op[a], "startfind"))
  <2>1. On(Goto(op[a], "startfind"), op[a], "startfind") /\ "startfind" \in PCs
    BY <1>2, GotoIs, PCsAre
  <2>2. Base' /\ Turn(a) /\ op'[a].pc = "startfind"
    BY <1>1, <1>2, <1>5, <2>1, GoesAside DEF On
  <2> QED
    BY <1>1, <2>1, <2>2 DEF Aside, Fails, Ends, Over, RolloutPCs, Rolling
<1>6. CASE /\ FirstLive # NoName
           /\ Becomes(a, [op[a] EXCEPT !.prev = FirstLive, !.pc = "stopone"])
  <2> DEFINE f == FirstLive
             o == [op[a] EXCEPT !.prev = f, !.pc = "stopone"]
  <2>1. f \in Names /\ "stopone" \in PCs /\ Becomes(a, o)
    BY <1>6, FirstLiveIs, PCsAre
  <2> HIDE DEF f
  <2>2. o \in Op
    BY <1>2, <2>1 DEF Op
  <2>3. o.pc = "stopone" /\ o.prev = f /\ o.kind = op[a].kind
    BY <1>2 DEF Op
  <2> HIDE DEF o
  <2>4. Base' /\ Turn(a) /\ op'[a] = o
    BY <1>1, <1>2, <2>1, <2>2, <2>3, GoesAside
  <2> QED
    BY <1>1, <2>1, <2>3, <2>4 DEF Aside, Fails, Ends, Over, RolloutPCs, Rolling
<1> QED
  BY <1>3, <1>4, <1>5, <1>6

LEMMA StopOneDoes ==
    ASSUME Base, NEW a \in Actors, StopOne(a)
    PROVE  /\ op[a].pc = "stopone" /\ Base' /\ Turn(a) /\ route' = route
           /\ op[a].prev \in Names /\ Stops(op[a].prev)
           /\ op'[a].pc \in {"idle", "startfind"}
<1>1. /\ op[a].pc = "stopone" /\ route' = route
      /\ AtWork(a) /\ ~RollsOut(op[a].kind) /\ op[a].kind \notin Pinned
  BY UnlockedAre DEF StopOne
<1>2. op[a] \in Op /\ Fits(op[a]) /\ route' \in Names \cup {NoName} /\ op[a].prev \in Names
  BY <1>1, BaseIs, InFits
<1>3. /\ Stops(op[a].prev) /\ Orderly(containers') /\ There' \subseteq There
      /\ Becomes(a, BeStopped(op[a])) \/ Becomes(a, Failed(op[a]))
  BY <1>2, StopIs DEF StopOne
<1>4. CASE Becomes(a, Failed(op[a]))
  BY <1>1, <1>2, <1>3, <1>4, FailsDoes DEF Fails, Over
<1>5. CASE Becomes(a, Finish(op[a], "ok"))
  BY <1>1, <1>2, <1>3, <1>5, EndsDoes DEF Ends, Over
<1>6. CASE Becomes(a, Goto(op[a], "startfind"))
  <2>1. On(Goto(op[a], "startfind"), op[a], "startfind") /\ "startfind" \in PCs \ {"inspect"}
    BY <1>2, GotoIs, PCsAre
  <2>2. Fits(Goto(op[a], "startfind"))
    BY <1>1, <1>2, <2>1 DEF On, Fits, Rolling, Named, RolloutPCs
  <2>3. Plain'
    BY <1>3, <1>6, StillPlain DEF Becomes
  <2>4. Base' /\ Turn(a) /\ On(op'[a], op[a], "startfind")
    BY <1>1, <1>2, <1>3, <1>6, <2>1, <2>2, <2>3, GoesDoes
  <2> QED
    BY <1>1, <1>2, <1>3, <2>4 DEF On
<1> QED
  BY <1>3, <1>4, <1>5, <1>6 DEF BeStopped

\* `start` and what restarts a container.
LEMMA NewestThere ==
    ASSUME Base, There # {}
    PROVE  /\ Newest(There) \in There /\ Newest(There) \in Names
           /\ OnTop(containers, There, Newest(There))
BY TopIs, ViewsAre, BaseIs DEF OnTop

LEMMA StartFindDoes ==
    ASSUME Base, NEW a \in Actors, StartFind(a)
    PROVE  op[a].pc = "startfind" /\ Aside(a) /\ route' = route
<1>1. /\ op[a].pc = "startfind" /\ containers' = containers /\ route' = route
      /\ AtWork(a) /\ ~RollsOut(op[a].kind)
  BY UnlockedAre DEF StartFind
<1>2. op[a] \in Op /\ route' \in Names \cup {NoName}
  BY <1>1, BaseIs
<1>3. CASE There = {}
  <2>1. Becomes(a, Failed(op[a]))
    BY <1>3 DEF StartFind
  <2> QED
    BY <1>1, <1>2, <2>1, StillDoes DEF Aside, Fails, Ends, Over
<1>4. CASE There # {}
  <2> DEFINE f == Newest(There)
             o == [op[a] EXCEPT !.name = f]
  <2>1. f \in There /\ f \in Names
    BY <1>4, NewestThere
  <2>2. \/ f \in Live /\ UseProxy /\ Becomes(a, Goto(o, "register"))
        \/ f \in Live /\ Becomes(a, Finish(o, "ok"))
        \/ f \notin Live /\ Becomes(a, Goto(o, "startone"))
    <3>1. o.name = f
      BY <1>2 DEF Op
    <3>2. Becomes(a, IF o.name \in Live THEN BeRunning(o) ELSE Goto(o, "startone"))
      BY <1>4 DEF StartFind
    <3> QED
      BY <3>1, <3>2 DEF BeRunning
  <2> HIDE DEF f
  <2>3. o \in Op
    BY <1>2, <2>1 DEF Op
  <2>4. /\ o.name = f /\ o.kind = op[a].kind /\ o.version = op[a].version
    BY <1>2 DEF Op
  <2> HIDE DEF o
  <2>5. ASSUME NEW l \in {"register", "startone"}, Becomes(a, Goto(o, l))
        PROVE  Base' /\ Turn(a) /\ op'[a].pc = l /\ op'[a].name = f
    <3>1. On(Goto(o, l), o, l)
      BY <2>3, GotoIs, PCsAre
    <3> QED
      BY <1>1, <1>2, <2>1, <2>4, <2>5, <3>1, GoesAside DEF On
  <2>6. CASE Becomes(a, Finish(o, "ok"))
    <3>1. Over(Finish(o, "ok"), o) /\ Finish(o, "ok").result = "ok"
      BY <2>3, FinishIs
    <3>2. Finish(o, "ok") \in Op /\ Finish(o, "ok").pc = "idle" /\ Finish(o, "ok").kind = op[a].kind
          /\ Finish(o, "ok").version = op[a].version
      BY <3>1, <2>4 DEF Over
    <3>3. Fits(Finish(o, "ok"))
      BY <3>2, BaseIs DEF Fits, Rolling, Named, RolloutPCs
    <3>4. Orderly(containers') /\ Plain'
      BY <1>1, <2>6, UnchangedIs, StillPlain DEF Becomes
    <3>5. Base' /\ Turn(a) /\ op'[a] = Finish(o, "ok")
      BY <1>1, <1>2, <2>6, <3>2, <3>3, <3>4, BecomesIs
    <3>6. op'[a].pc \in PCs \ (RolloutPCs \ {"idle"}) /\ op'[a].pc # "startone"
      BY <3>2, <3>5 DEF PCs
    <3> QED
      BY <1>1, <3>5, <3>6 DEF Aside, Fails, Ends, Over
  <2>7. {"register", "startone"} \subseteq PCs \ (RolloutPCs \ {"idle"})
    BY DEF PCs, RolloutPCs, Rolling
  <2>8. CASE Becomes(a, Goto(o, "register"))
    BY <1>1, <2>5, <2>7, <2>8 DEF Aside, Fails, Ends, Over
  <2>9. CASE f \notin Live /\ Becomes(a, Goto(o, "startone"))
    BY <1>1, <2>1, <2>5, <2>7, <2>9 DEF Aside, Fails, Ends, Over, f
  <2> QED
    BY <2>2, <2>6, <2>8, <2>9
<1> QED
  BY <1>3, <1>4

LEMMA StartOneDoes ==
    ASSUME Base, NEW a \in Actors, StartOne(a)
    PROVE  /\ op[a].pc = "startone" /\ Base' /\ Turn(a) /\ route' = route
           /\ op[a].name \in Names /\ op'[a].pc \in {"idle", "register"}
           /\ \/ containers' = containers
              \/ \E s \in LiveStates : Turned(op[a].name, s)
<1> DEFINE p == op[a]
<1>1. /\ p.pc = "startone" /\ route' = route
      /\ AtWork(a) /\ ~RollsOut(p.kind) /\ p.kind \notin Pinned
  BY UnlockedAre DEF StartOne
<1>2. /\ p \in Op /\ Fits(p) /\ route' \in Names \cup {NoName} /\ p.name \in Names
      /\ Orderly(containers)
  BY <1>1, BaseIs, InFits
<1>3. ASSUME Orderly(containers'), There' \subseteq There,
             \/ Becomes(a, Failed(p))
             \/ Becomes(a, Finish(p, "ok"))
             \/ Becomes(a, Goto(p, "register"))
      PROVE  Base' /\ Turn(a) /\ op'[a].pc \in {"idle", "register"}
  <2>1. On(Goto(p, "register"), p, "register") /\ "register" \in PCs \ {"inspect"}
    BY <1>2, GotoIs, PCsAre
  <2>2. Fits(Goto(p, "register"))
    BY <1>1, <1>2, <2>1 DEF On, Fits, Rolling, Named, RolloutPCs
  <2>3. Plain'
    BY <1>3, StillPlain DEF Becomes
  <2> QED
    BY <1>1, <1>2, <1>3, <2>1, <2>2, <2>3, GoesDoes, FailsDoes, EndsDoes DEF Fails, Ends, Over, On
<1>4. CASE p.name \in There /\ ~PortTaken(p.name)
  <2>1. PICK s \in StatesOf(containers[p.name].good) : containers' = Marked(p.name, s)
    BY <1>4 DEF StartOne
  <2>2. s \in LiveStates /\ s \in States \ {"absent"}
    BY <2>1 DEF StatesOf, LiveStates, States
  <2>3. Turned(p.name, s)
    BY <1>2, <1>4, <2>1, <2>2, MarkedIs
  <2>4. \/ Becomes(a, Failed(p))
        \/ Becomes(a, Finish(p, "ok"))
        \/ Becomes(a, Goto(p, "register"))
    BY <1>4 DEF StartOne, After, BeRunning
  <2> QED
    BY <1>1, <1>2, <1>3, <2>2, <2>3, <2>4 DEF Turned
<1>5. CASE ~(p.name \in There /\ ~PortTaken(p.name))
  <2>1. Becomes(a, Failed(p)) /\ containers' = containers
    BY <1>5 DEF StartOne
  <2> QED
    BY <1>1, <1>2, <1>3, <2>1, UnchangedIs
<1> QED
  BY <1>4, <1>5

LEMMA ReregisterFindDoes ==
    ASSUME Base, NEW a \in Actors, ReregisterFind(a)
    PROVE  op[a].pc = "regfind" /\ Aside(a) /\ route' = route
<1>1. /\ op[a].pc = "regfind" /\ containers' = containers /\ route' = route
      /\ AtWork(a) /\ ~RollsOut(op[a].kind)
  BY UnlockedAre DEF ReregisterFind
<1>2. op[a] \in Op /\ route' \in Names \cup {NoName}
  BY <1>1, BaseIs
<1>3. \/ Becomes(a, Finish(op[a], "ok"))
      \/ /\ There # {}
         /\ Becomes(a, [op[a] EXCEPT !.name = Newest(There), !.pc = "register"])
  BY DEF ReregisterFind
<1>4. CASE Becomes(a, Finish(op[a], "ok"))
  BY <1>1, <1>2, <1>4, StillDoes DEF Aside, Fails, Ends, Over
<1>5. CASE /\ There # {}
           /\ Becomes(a, [op[a] EXCEPT !.name = Newest(There), !.pc = "register"])
  <2> DEFINE f == Newest(There)
             o == [op[a] EXCEPT !.name = f, !.pc = "register"]
  <2>1. f \in Names /\ "register" \in PCs /\ Becomes(a, o)
    BY <1>5, NewestThere, PCsAre
  <2> HIDE DEF f
  <2>2. o \in Op
    BY <1>2, <2>1 DEF Op
  <2>3. o.pc = "register" /\ o.name = f /\ o.kind = op[a].kind
    BY <1>2 DEF Op
  <2> HIDE DEF o
  <2>4. Base' /\ Turn(a) /\ op'[a] = o
    BY <1>1, <1>2, <2>1, <2>2, <2>3, GoesAside
  <2> QED
    BY <1>1, <2>1, <2>3, <2>4 DEF Aside, Fails, Ends, Over, RolloutPCs, Rolling
<1> QED
  BY <1>3, <1>4, <1>5

LEMMA UnrouteDoes ==
    ASSUME Base, NEW a \in Actors, Unroute(a)
    PROVE  op[a].pc = "unroute" /\ Aside(a)
<1>1. /\ op[a].pc = "unroute" /\ containers' = containers
      /\ AtWork(a) /\ ~RollsOut(op[a].kind)
  BY UnlockedAre DEF Unroute
<1>2. op[a] \in Op /\ route' \in Names \cup {NoName}
  BY <1>1, BaseIs DEF Unroute
<1>3. Becomes(a, Goto(op[a], "removefind"))
  BY DEF Unroute
<1>4. On(Goto(op[a], "removefind"), op[a], "removefind") /\ "removefind" \in PCs
  BY <1>2, GotoIs, PCsAre
<1>5. Base' /\ Turn(a) /\ op'[a].pc = "removefind"
  BY <1>1, <1>2, <1>3, <1>4, GoesAside DEF On
<1> QED
  BY <1>1, <1>4, <1>5 DEF Aside, Fails, Ends, Over, RolloutPCs, Rolling

LEMMA RemoveFindDoes ==
    ASSUME Base, NEW a \in Actors, RemoveFind(a)
    PROVE  op[a].pc = "removefind" /\ Aside(a) /\ route' = route
<1>1. /\ op[a].pc = "removefind" /\ containers' = containers /\ route' = route
      /\ AtWork(a) /\ ~RollsOut(op[a].kind) /\ op[a].kind \notin Pinned
  BY UnlockedAre DEF RemoveFind
<1>2. op[a] \in Op /\ route' \in Names \cup {NoName}
  BY <1>1, BaseIs
<1>3. CASE Becomes(a, Finish(op[a], "ok"))
  BY <1>1, <1>2, <1>3, StillDoes DEF Aside, Fails, Ends, Over
<1>4. CASE Becomes(a, [op[a] EXCEPT !.pc = "removing", !.todo = Listed(There)])
  <2>1. "removing" \in Loops /\ "removing" \in PCs \ (RolloutPCs \ {"idle"})
    BY DEF Loops, PCs, RolloutPCs, Rolling
  <2>2. Base' /\ Turn(a) /\ Lists(a, "removing", There)
    BY <1>1, <1>2, <1>4, <2>1, ListsDoes
  <2> QED
    BY <1>1, <2>1, <2>2 DEF Lists, Aside, Fails, Ends, Over
<1> QED
  BY <1>3, <1>4 DEF RemoveFind

LEMMA FailDoes ==
    ASSUME Base, NEW a \in Actors, Fail(a)
    PROVE  /\ op[a].pc \notin {"idle", "run", "rmfailed"} /\ "refused" \in Faults
           /\ containers' = containers /\ route' = route
           /\ Base' /\ Turn(a) /\ Fails(a)
<1>1. /\ op[a].pc \notin {"idle", "run", "rmfailed"} /\ "refused" \in Faults
      /\ containers' = containers /\ route' = route /\ Becomes(a, Failed(op[a]))
  BY DEF Fail
<1>2. Orderly(containers') /\ There' \subseteq There /\ route' \in Names \cup {NoName}
  BY <1>1, UnchangedIs, BaseIs
<1> QED
  BY <1>1, <1>2, FailsDoes

-----------------------------------------------------------------------------
(* How a command begins *)

\* What a command finds when it begins.
Finds(a) ==
    LET b == before'[a]
    IN  /\ last' = a
        /\ \A c \in Actors \ {a} : before'[c] = before[c]
        /\ b.live <=> Serving /\ route = FirstLive
        /\ b.settled <=> Serving /\ Live = {route} /\ route = Newest(There)
        /\ b.version = VersionOf(route)
        /\ b.target = PreviousVersion

LEMMA OpensIs ==
    ASSUME Base, NEW a \in Actors, Opens(a)
    PROVE  before' \in [Actors -> Before] /\ last' \in Actors /\ Finds(a)
<1> DEFINE l == Serving /\ route = FirstLive
           s == Serving /\ Live = {route} /\ route = Newest(There)
           v == VersionOf(route)
           t == PreviousVersion
           r == [live |-> l, settled |-> s, version |-> v, target |-> t]
<1>1. before \in [Actors -> Before] /\ route \in Names \cup {NoName}
  BY DEF Base, TypeOK
<1>2. before' = [before EXCEPT ![a] = r] /\ last' = a
  BY DEF Opens
<1>3. l \in BOOLEAN /\ s \in BOOLEAN
  OBVIOUS
<1>4. v \in Versions \cup {NoVersion}
  BY <1>1, VersionsAre DEF VersionOf
<1>5. t \in Versions \cup {NoVersion}
  <2> DEFINE S == {n \in There : n[1] # VersionOf(FirstLive)}
  <2>1. S \in SUBSET ThereIn(containers) /\ t = VersionOf(Top(containers, S))
    BY ViewsAre DEF PreviousVersion, Newest, Top
  <2>2. Top(containers, S) \in Names \cup {NoName}
    BY <2>1, TopIs, BaseIs
  <2> QED
    BY <2>1, <2>2, VersionsAre DEF VersionOf
<1> HIDE DEF l, s, v, t
<1>6. r \in Before
  BY <1>3, <1>4, <1>5 DEF Before
<1>7. r.version = v /\ r.target = t
  OBVIOUS
<1>8. r.live = l /\ r.settled = s
  OBVIOUS
<1> HIDE DEF r
<1>9. before' \in [Actors -> Before]
  BY <1>1, <1>2, <1>6
<1>10. before'[a] = r /\ \A c \in Actors \ {a} : before'[c] = before[c]
  BY <1>1, <1>2
<1>11. before'[a].live <=> l
  BY <1>8, <1>10
<1>12. before'[a].settled <=> s
  BY <1>8, <1>10
<1> QED
  BY <1>2, <1>7, <1>9, <1>10, <1>11, <1>12 DEF Finds, l, s, v, t

\* A command other than a reconcile begins; a reconcile will have to look first.
Begun(a) ==
    /\ op[a].pc = "idle" /\ op'[a].pc # "idle" /\ op'[a].result = "none"
    /\ op'[a].kind \in Kinds /\ op'[a].pc = Entry(op'[a].kind)
    /\ op'[a].kind \in Locked => lock = Nobody
    /\ IF op'[a].kind = "reconcile"
         THEN before' = before /\ last' \in {last, Nobody} \ {a}
         ELSE Finds(a)

\* A step that changes one command.
Alone(a) ==
    /\ \A b \in Actors \ {a} : op'[b] = op[b]
    /\ containers' = containers /\ route' = route /\ role' = role

LEMMA EntryFits ==
    ASSUME NEW k \in Kinds, NEW v \in Versions \cup {NoVersion}, v # NoVersion <=> k \in Pinned,
           NEW o \in Op, o.kind = k, o.version = v, o.pc = Entry(k)
    PROVE  /\ Fits(o) /\ o.pc # "idle" /\ (o.pc = "inspect" <=> k = "reconcile")
           /\ RollsOut(k) <=> k \in Locked \cup {"reconcile"}
<1>1. k \in AllKinds /\ (k \in Pinned => v \in Versions)
  BY RolloutAssumption
<1>2. /\ k = "deploy" => o.pc = "sweep"
      /\ k \in {"rollback", "rollback_to"} => o.pc = "choose"
      /\ k = "reconcile" => o.pc = "inspect"
      /\ k = "sweep" => o.pc = "sweep"
      /\ k = "prune" => o.pc = "prune"
      /\ k \in {"stop", "restart"} => o.pc = "stopfind"
      /\ k = "start" => o.pc = "startfind"
      /\ k = "remove" => o.pc = "unroute"
      /\ k = "reregister" => o.pc = "regfind"
  BY DEF Entry
<1>3. Fits(o)
  BY <1>1, <1>2 DEF Fits, Rolling, Named, RolloutPCs, RollsOut, AllKinds, Locked, Pinned
<1> QED
  BY <1>1, <1>2, <1>3 DEF RollsOut, AllKinds, Locked

LEMMA BeginDoes ==
    ASSUME Base, NEW a \in Actors, Begin(a)
    PROVE  Base' /\ Alone(a) /\ Begun(a)
<1>1. PICK k \in Kinds, v \in Versions \cup {NoVersion} :
         /\ v # NoVersion <=> k \in Pinned
         /\ k \in Locked => lock = Nobody
         /\ lock' = IF k \in Locked THEN a ELSE lock
         /\ op' = [op EXCEPT ![a] =
                     [kind |-> k, version |-> v, pc |-> Entry(k),
                      name |-> NoName, prev |-> NoName, same |-> FALSE,
                      todo |-> Nothing, result |-> "none"]]
  BY DEF Begin
<1> DEFINE n == Nothing
           e == Entry(k)
           o == [kind |-> k, version |-> v, pc |-> e, name |-> NoName, prev |-> NoName,
                 same |-> FALSE, todo |-> n, result |-> "none"]
<1>2. /\ op \in [Actors -> Op] /\ lock \in Actors \cup {Nobody} /\ before \in [Actors -> Before]
      /\ op[a].pc = "idle" /\ started \in 0..MaxOps /\ started < MaxOps /\ MaxOps \in Nat
  BY RolloutAssumption DEF Base, TypeOK, Begin
<1>3. n \in [Names -> Nat] /\ e \in PCs /\ k \in AllKinds
  <2>1. n \in [Names -> Nat]
    BY DEF Nothing
  <2>2. k \in AllKinds
    BY RolloutAssumption
  <2>3. e \in PCs
    BY <2>2 DEF Entry, PCs, AllKinds, Locked
  <2> QED
    BY <2>1, <2>2, <2>3
<1>4. op' = [op EXCEPT ![a] = o]
  BY <1>1
<1> HIDE DEF n, e
<1>5. o \in Op
  BY <1>3 DEF Op
<1>6. o.kind = k /\ o.version = v /\ o.pc = e /\ o.result = "none"
  OBVIOUS
<1> HIDE DEF o
<1>7. op' \in [Actors -> Op] /\ op'[a] = o /\ \A b \in Actors \ {a} : op'[b] = op[b]
  BY <1>2, <1>4, <1>5
<1>8. Alone(a)
  BY <1>7 DEF Begin, Alone
<1>9. /\ Fits(o) /\ o.pc # "idle" /\ (o.pc = "inspect" <=> k = "reconcile")
      /\ RollsOut(k) <=> k \in Locked \cup {"reconcile"}
  BY <1>1, <1>5, <1>6, EntryFits DEF e
<1>10. /\ before' \in [Actors -> Before] /\ last' \in Actors \cup {Nobody}
       /\ IF op'[a].kind = "reconcile"
            THEN before' = before /\ last' \in {last, Nobody} \ {a}
            ELSE Finds(a)
  <2>1. CASE op'[a].kind = "reconcile"
    <3>1. last' = (IF last = a THEN Nobody ELSE last) /\ before' = before
      BY <2>1 DEF Begin
    <3>2. last \in Actors \cup {Nobody} /\ Nobody # a
      BY NoneAssumption DEF Base, TypeOK
    <3> QED
      BY <2>1, <3>1, <3>2, <1>2
  <2>2. CASE op'[a].kind # "reconcile"
    BY <2>2, OpensIs DEF Begin
  <2> QED
    BY <2>1, <2>2
<1>11. Begun(a)
  BY <1>1, <1>2, <1>6, <1>7, <1>9, <1>10 DEF Begun, e
<1>12. TypeOK'
  <2>1. started' \in 0..MaxOps
    BY <1>2 DEF Begin
  <2>2. lock' \in Actors \cup {Nobody}
    BY <1>1, <1>2
  <2> QED
    BY <2>1, <2>2, <1>7, <1>8, <1>10 DEF Base, TypeOK, Alone
<1>13. Ordered'
  <2>1. Orderly(containers') /\ Plain' /\ containers' \in [Names -> Container]
    BY <1>8, UnchangedIs, StillPlain DEF Alone, Orderly
  <2> QED
    BY <2>1, <1>8, OrderlyIs DEF Plain, Alone, Overlaps
<1>14. ASSUME NEW b \in Actors PROVE Fits(op[b])' /\ Holds(b)'
  <2>1. Fits(op'[b])
    BY <1>7, <1>9, BaseIs
  <2>2. Fits(op[b])'
    BY <2>1, <1>8 DEF Fits, Overlaps, Alone
  <2>3. Holds(b)
    BY BaseIs
  <2>4. CASE b = a
    <3>1. lock # a
      BY <2>3, <2>4, <1>2 DEF Holds, AtWork
    <3> QED
      BY <2>2, <2>4, <3>1, <1>1, <1>6, <1>7, <1>9 DEF Holds, AtWork, Locked
  <2>5. CASE b # a
    <3>1. lock' = b <=> lock = b
      BY <1>1, <2>5, NoneAssumption
    <3>2. op'[b] = op[b]
      BY <1>7, <2>5
    <3> QED
      BY <2>2, <2>3, <3>1, <3>2 DEF Holds, AtWork
  <2> QED
    BY <2>4, <2>5
<1> QED
  BY <1>8, <1>11, <1>12, <1>13, <1>14 DEF Base

\* A reconcile has looked.
Looked(a) ==
    \/ Fails(a) /\ before' = before /\ last' = last
    \/ Finds(a) /\ InSync(op[a].version) /\ Ends(a)
    \/ Finds(a) /\ lock = Nobody /\ On(op'[a], op[a], "sweep")

LEMMA InspectDoes ==
    ASSUME Base, NEW a \in Actors, Inspect(a)
    PROVE  op[a].pc = "inspect" /\ Base' /\ Alone(a) /\ Looked(a)
<1> DEFINE p == op[a]
           sync == InSync(p.version)
           o == IF sync THEN Finish(p, "ok") ELSE Goto(p, "sweep")
<1>1. p.pc = "inspect" /\ containers' = containers /\ route' = route
  BY DEF Inspect
<1>2. /\ op \in [Actors -> Op] /\ p \in Op /\ Fits(p) /\ lock \in Actors \cup {Nobody}
      /\ route' \in Names \cup {NoName} /\ p.kind = "reconcile" /\ lock # a
      /\ Orderly(containers') /\ There' \subseteq There
  <2>1. op \in [Actors -> Op] /\ p \in Op /\ Fits(p) /\ lock \in Actors \cup {Nobody} /\ Holds(a)
    BY DEF Base, TypeOK
  <2>2. p.kind = "reconcile"
    BY <2>1, <1>1 DEF Fits
  <2>3. lock # a
    BY <2>1, <1>1 DEF Holds, AtWork
  <2> QED
    BY <2>1, <2>2, <2>3, <1>1, UnchangedIs, BaseIs
<1>3. CASE ~sync /\ lock # Nobody
  <2>1. Becomes(a, Failed(op[a]))
    BY <1>3 DEF Inspect
  <2>2. Base' /\ Turn(a) /\ Fails(a)
    BY <2>1, <1>2, FailsDoes
  <2> QED
    BY <2>2, <1>1 DEF Looked, Turn, Alone
<1>4. CASE ~(~sync /\ lock # Nobody)
  <2>1. /\ op' = [op EXCEPT ![a] = o] /\ lock' = (IF sync THEN lock ELSE a)
        /\ Opens(a) /\ UNCHANGED <<started, role>>
    BY <1>4 DEF Inspect
  <2>2. "sweep" \in PCs
    BY DEF PCs
  <2>3. /\ sync => Over(o, p) /\ o.result = "ok"
        /\ ~sync => On(o, p, "sweep") /\ lock = Nobody
    BY <2>2, <1>2, <1>4, FinishIs, GotoIs
  <2> HIDE DEF sync, o
  <2>4. o \in Op /\ o.kind = p.kind /\ (o.pc = "idle" <=> sync) /\ o.pc # "inspect" /\ o.version = p.version
        /\ o.pc \in {"idle", "sweep"}
    BY <2>3 DEF Over, On
  <2>5. Fits(o)
    BY <2>4, <1>2 DEF Fits, Rolling, Named, RolloutPCs, RollsOut
  <2>6. op' \in [Actors -> Op] /\ op'[a] = o /\ \A b \in Actors \ {a} : op'[b] = op[b]
    BY <1>2, <2>1, <2>4
  <2>7. before' \in [Actors -> Before] /\ last' \in Actors /\ Finds(a)
    BY <2>1, OpensIs
  <2>8. Alone(a)
    BY <1>1, <2>1, <2>6 DEF Alone
  <2>9. Looked(a)
    BY <2>3, <2>6, <2>7 DEF Looked, Ends, sync
  <2>10. TypeOK'
    <3>1. lock' \in Actors \cup {Nobody}
      BY <1>2, <2>1
    <3>2. containers' \in [Names -> Container]
      BY <1>2 DEF Orderly
    <3> QED
      BY <3>1, <3>2, <1>2, <2>1, <2>6, <2>7 DEF Base, TypeOK
  <2>11. Ordered'
    <3>1. Plain' /\ containers' \in [Names -> Container]
      BY <1>2, <2>1, StillPlain DEF Orderly
    <3> QED
      BY <3>1, <1>2, <2>1, OrderlyIs DEF Plain, Overlaps
  <2>12. ASSUME NEW b \in Actors PROVE Fits(op[b])' /\ Holds(b)'
    <3>1. Fits(op'[b])
      BY <2>5, <2>6, BaseIs
    <3>2. Fits(op[b])'
      BY <3>1, <2>1 DEF Fits, Overlaps
    <3>3. CASE b = a
      <4>1. lock' = a <=> ~sync
        BY <1>2, <2>1
      <4>2. RollsOut(o.kind)
        BY <1>2, <2>4 DEF RollsOut
      <4> QED
        BY <3>2, <3>3, <4>1, <4>2, <2>4, <2>6 DEF Holds, AtWork
    <3>4. CASE b # a
      <4>1. lock' = b <=> lock = b
        BY <2>1, <2>3, <3>4, NoneAssumption
      <4>2. op'[b] = op[b] /\ Holds(b)
        BY <2>6, <3>4, BaseIs
      <4> QED
        BY <3>2, <4>1, <4>2 DEF Holds, AtWork
    <3> QED
      BY <3>3, <3>4
  <2> QED
    BY <1>1, <2>8, <2>9, <2>10, <2>11, <2>12 DEF Base
<1> QED
  BY <1>3, <1>4

-----------------------------------------------------------------------------
(* Type correctness *)

LEMMA InitIs ==
    ASSUME Init
    PROVE  /\ Base /\ There = {} /\ Live = {}
           /\ \A a \in Actors : op[a].pc = "idle" /\ op[a].kind = "none"
<1> DEFINE n == Nothing
           o == [kind |-> "none", version |-> NoVersion, pc |-> "idle", name |-> NoName,
                 prev |-> NoName, same |-> FALSE, todo |-> n, result |-> "none"]
           r == [live |-> FALSE, settled |-> FALSE, version |-> NoVersion, target |-> NoVersion]
<1>1. containers = [m \in Names |-> Absent] /\ Absent \in Container
  BY DEF Init, Absent, Container
<1>2. There = {} /\ Live = {}
  BY <1>1 DEF There, Live, Absent
<1>3. op = [a \in Actors |-> o] /\ before = [a \in Actors |-> r]
  BY DEF Init
<1>4. n \in [Names -> Nat] /\ "idle" \in PCs
  BY DEF Nothing, PCs
<1> HIDE DEF n
<1>5. o \in Op /\ r \in Before
  BY <1>4 DEF Op, Before
<1>6. o.pc = "idle" /\ o.kind = "none"
  OBVIOUS
<1> HIDE DEF o, r
<1>7. TypeOK
  <2>1. lock \in Actors \cup {Nobody} /\ last \in Actors \cup {Nobody}
        /\ route \in Names \cup {NoName} /\ role \in Roles
    BY DEF Init
  <2>2. started \in 0..MaxOps
    BY RolloutAssumption DEF Init
  <2> QED
    BY <2>1, <2>2, <1>1, <1>3, <1>5 DEF TypeOK
<1>8. Ordered
  <2>1. \A m \in Names : containers[m].at <= 0
    BY <1>1 DEF Absent
  <2> QED
    BY <2>1, <1>2 DEF Ordered
<1>9. \A a \in Actors : op[a] = o
  BY <1>3
<1>10. Fits(o)
  BY <1>6 DEF Fits, Rolling, Named, RolloutPCs, RollsOut, Pinned
<1>11. \A a \in Actors : Holds(a)
  <2>1. lock = Nobody /\ Nobody \notin Actors
    BY NoneAssumption DEF Init
  <2> QED
    BY <2>1, <1>6, <1>9 DEF Holds, AtWork
<1> QED
  BY <1>2, <1>6, <1>7, <1>8, <1>9, <1>10, <1>11 DEF Base

\* A step changes one container at most: removed, stopped or started, or run.
Moved(a) ==
    \/ containers' = containers
    \/ \E n \in Names : Dropped(n)
    \/ \E n \in Names : \E s \in {"exited"} \cup LiveStates : Turned(n, s)
    \/ op[a].pc = "run" /\ Runs(a)

LEMMA StepIs ==
    ASSUME Base, NEW a \in Actors, Begin(a) \/ Step(a)
    PROVE  /\ Base' /\ Moved(a) /\ \A b \in Actors \ {a} : op'[b] = op[b]
           /\ role' = role
           /\ op[a].pc = "rmfailed" =>
                /\ op[a].name \in Names
                /\ \/ Dropped(op[a].name)
                   \/ containers' = containers /\ Faults \cap {"refused", "hidden"} # {}
<1>1. CASE Begin(a)
  BY <1>1, BeginDoes DEF Moved, Alone, Begun
<1>2. CASE Inspect(a)
  BY <1>2, InspectDoes DEF Moved, Alone
<1>3. CASE Sweep(a)
  BY <1>3, SweepDoes DEF Moved, Turn
<1>4. CASE RemoveNext(a)
  BY <1>4, RemoveNextDoes DEF Moved, Turn, Removes, Loops
<1>5. CASE Choose(a)
  BY <1>5, ChooseDoes DEF Moved, Turn
<1>6. CASE Find(a)
  BY <1>6, FindDoes DEF Moved, Turn
<1>7. CASE StopPrevious(a)
  BY <1>7, StopPreviousDoes DEF Moved, Turn, Stops
<1>8. CASE RemoveNamesake(a)
  BY <1>8, RemoveNamesakeDoes DEF Moved, Turn, Removes
<1>9. CASE Run(a)
  BY <1>9, RunDoes DEF Moved, Turn
<1>10. CASE RemoveFailed(a)
  BY <1>10, RemoveFailedDoes DEF Moved, Turn
<1>11. CASE Health(a)
  BY <1>11, HealthDoes DEF Moved, Turn
<1>12. CASE Switch(a)
  BY <1>12, SwitchDoes DEF Moved, Turn
<1>13. CASE Cleanup(a)
  BY <1>13, CleanupDoes DEF Moved, Turn, Removes, Stops
<1>14. CASE Prune(a)
  BY <1>14, PruneDoes DEF Moved, Turn
<1>15. CASE StopFind(a)
  BY <1>15, StopFindDoes DEF Moved, Turn, Aside
<1>16. CASE StopOne(a)
  BY <1>16, StopOneDoes DEF Moved, Turn, Stops
<1>17. CASE StartFind(a)
  BY <1>17, StartFindDoes DEF Moved, Turn, Aside
<1>18. CASE StartOne(a)
  BY <1>18, StartOneDoes DEF Moved, Turn
<1>19. CASE ReregisterFind(a)
  BY <1>19, ReregisterFindDoes DEF Moved, Turn, Aside
<1>20. CASE Unroute(a)
  BY <1>20, UnrouteDoes DEF Moved, Turn, Aside
<1>21. CASE RemoveFind(a)
  BY <1>21, RemoveFindDoes DEF Moved, Turn, Aside
<1>22. CASE Fail(a)
  BY <1>22, FailDoes DEF Moved, Turn
<1> QED
  BY <1>1, <1>2, <1>3, <1>4, <1>5, <1>6, <1>7, <1>8, <1>9, <1>10, <1>11, <1>12, <1>13,
     <1>14, <1>15, <1>16, <1>17, <1>18, <1>19, <1>20, <1>21, <1>22 DEF Step

LEMMA StutterIs ==
    ASSUME Base, UNCHANGED vars
    PROVE  Base'
BY DEF vars, Base, TypeOK, Ordered, Fits, Holds, AtWork, There, Overlaps

\* Whatever the commands and the faults, the state stays one the code may be in:
\* the lock is held by exactly the command that rolls out, and every command is
\* at a step its kind takes.
THEOREM RolloutBase == Spec => []Base
<1>1. Init => Base
  BY InitIs
<1>2. Base /\ [Next]_vars => Base'
  BY StepIs, StutterIs DEF Next
<1> QED
  BY <1>1, <1>2, PTL DEF Spec

\* In particular every name a redeploy makes is one of a version's two names.
THEOREM RolloutTypeOK == Spec => []TypeOK
<1>1. Base => TypeOK
  BY DEF Base
<1> QED
  BY <1>1, RolloutBase, PTL

-----------------------------------------------------------------------------
(* What a failed docker run leaves *)

LEMMA TriedStep ==
    ASSUME Base, Tried, Faults \cap {"refused", "hidden"} = {}, NEW a \in Actors,
           Begin(a) \/ Step(a)
    PROVE  Tried'
<1>1. /\ Base' /\ Moved(a) /\ \A b \in Actors \ {a} : op'[b] = op[b]
      /\ op[a].pc = "rmfailed" => op[a].name \in Names /\ Dropped(op[a].name)
  BY StepIs
<1>2. \A n \in Names : Dropped(n) => containers'[n].state = "absent"
  BY DEF Dropped, There
<1> SUFFICES ASSUME NEW n \in Names, containers'[n].state = "created"
             PROVE  \E b \in Actors : op'[b].pc = "rmfailed" /\ op'[b].name = n
  BY DEF Tried
<1>3. CASE containers[n].state = "created"
  <2>1. PICK b \in Actors : op[b].pc = "rmfailed" /\ op[b].name = n
    BY <1>3 DEF Tried
  <2>2. b # a
    BY <2>1, <1>1, <1>2
  <2> QED
    BY <2>1, <2>2, <1>1
<1>4. CASE containers[n].state # "created"
  <2>1. containers' # containers
    BY <1>4
  <2>2. ~\E m \in Names : Dropped(m)
    BY <1>2, <1>4 DEF Dropped
  <2>3. ~\E m \in Names : \E s \in {"exited"} \cup LiveStates : Turned(m, s)
    BY <1>4 DEF Turned, LiveStates
  <2>4. Runs(a)
    BY <2>1, <2>2, <2>3, <1>1 DEF Moved
  <2>5. PICK g \in BOOLEAN : Added(op[a].name, "created", g) /\ On(op'[a], op[a], "rmfailed")
    BY <2>1, <2>4, <1>4 DEF Runs, Added, LiveStates
  <2>6. n = op[a].name
    BY <2>5, <1>4 DEF Added
  <2> QED
    BY <2>5, <2>6 DEF On
<1> QED
  BY <1>3, <1>4

\* Unless docker refuses to remove a container, or cannot be reached to, no
\* container that never ran is left when no command goes on: the deploy that
\* tried to run it has removed it, whatever the order of the commands.
THEOREM RolloutFailedRunLeavesNothing ==
    ASSUME Faults \cap {"refused", "hidden"} = {}
    PROVE  Spec => []FailedRunLeavesNothing
<1>1. Init => Base /\ Tried
  BY InitIs DEF Tried, There
<1>2. Base /\ Tried /\ [Next]_vars => Base' /\ Tried'
  <2>1. Tried /\ UNCHANGED vars => Tried'
    BY DEF Tried, vars
  <2> QED
    BY <2>1, StepIs, StutterIs, TriedStep DEF Next
<1>3. Tried => FailedRunLeavesNothing
  BY DEF Tried, FailedRunLeavesNothing
<1> QED
  BY <1>1, <1>2, <1>3, PTL DEF Spec

-----------------------------------------------------------------------------
(* One command at work at a time *)

\* Two commands at work would both have the lock.
LEMMA OneAtWork ==
    ASSUME Base, Exclusive, NEW a \in Actors, NEW b \in Actors, AtWork(a), AtWork(b)
    PROVE  a = b
<1>1. CASE \A c, d \in Actors : c = d
  BY <1>1
<1>2. CASE Kinds \subseteq Locked \cup {"reconcile"}
  <2>1. ASSUME NEW c \in Actors, AtWork(c) PROVE lock = c
    <3>1. Fits(op[c]) /\ Holds(c)
      BY BaseIs
    <3>2. op[c].kind \in Locked \cup {"reconcile"}
      BY <1>2, <2>1, <3>1 DEF Fits, AtWork
    <3> QED
      BY <2>1, <3>1, <3>2 DEF Holds, RollsOut, Locked
  <2> QED
    BY <2>1
<1> QED
  BY <1>1, <1>2 DEF Exclusive

\* A command not at work has but its look, and its failing, for steps.
LEMMA NotAtWork ==
    ASSUME NEW a \in Actors, ~AtWork(a), Step(a)
    PROVE  Inspect(a) \/ (Fail(a) /\ op[a].pc = "inspect")
BY DEF AtWork, Step, Sweep, RemoveNext, Loops, Choose, Find, StopPrevious, RemoveNamesake, Run,
       RemoveFailed, Health, Switch, Cleanup, Prune, StopFind, StopOne, StartFind, StartOne,
       ReregisterFind, Unroute, RemoveFind, Fail

\* What others do while a command is at work changes nothing on the host.
LEMMA Isolated ==
    ASSUME Base, Exclusive, NEW a \in Actors, NEW b \in Actors \ {a}, AtWork(b),
           Begin(a) \/ Step(a)
    PROVE  Alone(a) /\ op'[b] = op[b] /\ op[a].pc \in {"idle", "inspect"}
<1>1. op[a].pc \in {"idle", "inspect"}
  BY OneAtWork DEF AtWork
<1>2. CASE Begin(a)
  BY <1>1, <1>2, BeginDoes DEF Alone
<1>3. CASE Step(a)
  <2>1. Inspect(a) \/ Fail(a)
    BY <1>1, <1>3, NotAtWork DEF AtWork
  <2> QED
    BY <1>1, <2>1, InspectDoes, FailDoes DEF Alone, Turn
<1> QED
  BY <1>2, <1>3

\* Where nothing changes on the host, it has what it had.
LEMMA SameHost ==
    ASSUME containers' = containers, role' = role
    PROVE  /\ There' = There /\ Live' = Live /\ FirstLive' = FirstLive
           /\ Newest(There)' = Newest(There) /\ Dead' = Dead /\ Newest(Dead)' = Newest(Dead)
           /\ Overlaps' = Overlaps /\ UseProxy' = UseProxy /\ PreviousVersion' = PreviousVersion
           /\ \A n : (Answers(n)' <=> Answers(n))
           /\ \A v : Target(v)' = Target(v) /\ TargetFrom(v)' = TargetFrom(v)
BY DEF There, Live, FirstLive, Newest, Dead, Overlaps, UseProxy, PreviousVersion, VersionOf,
       Answers, TargetFrom, Target

\* The newest live container stays the newest while it is left alone.
LEMMA FirstLiveKept ==
    ASSUME Base, Base', Live' \subseteq Live, FirstLive = NoName \/ FirstLive \in Live',
           \A m \in Live' : containers'[m] = containers[m]
    PROVE  FirstLive' = FirstLive
<1>1. Live' \in SUBSET ThereIn(containers') /\ Orderly(containers') /\ FirstLive' = Top(containers', Live')
  <2>1. Orderly(containers')
    BY OrderlyIs DEF Base, TypeOK, Ordered, Orderly, There, ThereIn
  <2> QED
    BY <2>1, ViewsAre, SubsetsAre
<1>2. CASE FirstLive = NoName
  <2>1. Live' = {}
    BY <1>2, FirstLiveIs
  <2> QED
    BY <2>1, <1>1, <1>2, TopIs
<1>3. CASE FirstLive # NoName
  <2>1. OnTop(containers, Live, FirstLive) /\ FirstLive \in Live'
    BY <1>3, FirstLiveIs
  <2>2. OnTop(containers', Live', FirstLive)
    BY <2>1 DEF OnTop
  <2> QED
    BY <2>2, <1>1, TopIs
<1> QED
  BY <1>2, <1>3

\* Removing or stopping another container leaves it so.
LEMMA OthersLeaveIt ==
    ASSUME Base, Base', NEW n, Removes(n) \/ Stops(n), n # FirstLive
    PROVE  /\ FirstLive' = FirstLive /\ Live' \subseteq Live
           /\ "hidden" \notin Faults => Live' = Live \ {n}
           /\ \A m \in Names \ {n} : containers'[m] = containers[m]
<1>1. /\ Live' \subseteq Live /\ \A m \in Names \ {n} : containers'[m] = containers[m]
      /\ Live' = Live \ {n} \/ (containers' = containers /\ Live' = Live)
      /\ "hidden" \notin Faults => Live' = Live \ {n}
  <2>1. CASE Dropped(n)
    BY <2>1 DEF Dropped
  <2>2. CASE Turned(n, "exited")
    BY <2>2 DEF Turned, LiveStates
  <2>3. CASE containers' = containers /\ ("hidden" \in Faults \/ n \notin There)
    <3>1. Live' = Live /\ Live \subseteq There
      BY <2>3, SameHost, SubsetsAre, ViewsAre
    <3> QED
      BY <2>3, <3>1
  <2> QED
    BY <2>1, <2>2, <2>3 DEF Removes, Stops
<1>2. n \notin Live' \/ containers' = containers
  BY <1>1
<1>3. Live \subseteq Names
  BY DEF Live
<1>4. FirstLive = NoName \/ FirstLive \in Live'
  BY <1>1, FirstLiveIs DEF OnTop
<1> QED
  BY <1>1, <1>2, <1>3, <1>4, FirstLiveKept

-----------------------------------------------------------------------------
(* What a rollout has read stays so *)

\* A step leads to none of the places where a rollout relies on what it read.
Relies == {"sweeping", "stopprev", "rmname", "run", "rmfailed", "health", "switch",
           "cleanup", "pruning"}

LEMMA RunsFirst ==
    ASSUME Base, Base', NEW n \in Names, NEW s, NEW g, Added(n, s, g)
    PROVE  /\ s \in LiveStates => FirstLive' = n
           /\ s \notin LiveStates => FirstLive' = FirstLive
<1>1. CASE s \in LiveStates
  <2>1. Live' = Live \cup {n} /\ OnTop(containers', There', n) /\ Orderly(containers')
    BY <1>1 DEF Added
  <2>2. Live' \subseteq There'
    BY ViewsAre, SubsetsAre
  <2>3. OnTop(containers', Live', n)
    BY <2>1, <2>2 DEF OnTop
  <2> QED
    BY <1>1, <2>1, <2>2, <2>3, TopIs, ViewsAre
<1>2. CASE s \notin LiveStates
  <2>1. Live' = Live /\ \A m \in Names \ {n} : containers'[m] = containers[m]
    BY <1>2 DEF Added
  <2>2. n \notin Live /\ Live \subseteq Names
    BY DEF Added, Live, There
  <2>3. FirstLive = NoName \/ FirstLive \in Live'
    BY <2>1, FirstLiveIs DEF OnTop
  <2> QED
    BY <1>2, <2>1, <2>2, <2>3, FirstLiveKept
<1> QED
  BY <1>1, <1>2

LEMMA KnowsOwn ==
    ASSUME Base, NEW a \in Actors, Knows(a), Begin(a) \/ Step(a)
    PROVE  Knows(a)'
<1> SUFFICES ASSUME op'[a].pc \in Relies PROVE Knows(a)'
  BY DEF Relies, Knows
<1>0. /\ Base' /\ op[a] \in Op /\ Fits(op[a]) /\ Live \subseteq Names
  BY StepIs, BaseIs DEF Live
<1>1. CASE Begin(a)
  <2>1. op'[a].pc = Entry(op'[a].kind) /\ op'[a].kind \in AllKinds
    BY <1>1, BeginDoes, RolloutAssumption DEF Begun
  <2> QED
    BY <2>1 DEF Relies, Entry, AllKinds, Locked
<1>2. CASE Inspect(a)
  BY <1>2, InspectDoes DEF Looked, Fails, Ends, Over, On, Relies
<1>3. CASE Sweep(a)
  <2>1. Lists(a, "sweeping", Orphans) /\ Turn(a) /\ containers' = containers
    BY <1>3, SweepDoes DEF Relies, Over, On
  <2>2. op'[a].todo \in [Names -> Nat] /\ op'[a].pc = "sweeping" /\ FirstLive' = FirstLive
    BY <2>1, SameHost, FieldsOfOp DEF Lists, Turn
  <2>3. \A n \in Names : n = FirstLive' => op'[a].todo[n] = 0
    BY <2>1, <2>2 DEF Lists, Orphans
  <2> QED
    BY <2>2, <2>3 DEF Knows
<1>4. CASE RemoveNext(a)
  <2>1. op[a].pc \in Loops /\ Turn(a) /\ op[a].todo \in [Names -> Nat]
    BY <1>0, <1>4, RemoveNextDoes, FieldsOfOp
  <2>2. PICK n \in Names :
           /\ op[a].todo[n] > 0 /\ Removes(n)
           /\ op'[a].pc = op[a].pc /\ op'[a].todo = [op[a].todo EXCEPT ![n] = 0]
    BY <1>4, RemoveNextDoes DEF Relies, Fails, Ends, Over
  <2>3. CASE op[a].pc = "sweeping"
    <3>1. n # FirstLive
      BY <2>2, <2>3 DEF Knows
    <3>2. FirstLive' = FirstLive
      BY <2>2, <3>1, <1>0, OthersLeaveIt
    <3>3. \A m \in Names : m = FirstLive' => op'[a].todo[m] = 0
      BY <3>1, <3>2, <2>1, <2>2, <2>3 DEF Knows
    <3> QED
      BY <2>2, <2>3, <3>3 DEF Knows
  <2>4. CASE op[a].pc = "pruning"
    <3>1. Live' \subseteq Live
      BY <2>2, SameHost, UnchangedIs DEF Removes, Dropped
    <3>2. \A m \in Live' : op'[a].todo[m] = 0
      BY <3>1, <1>0, <2>1, <2>2, <2>4 DEF Knows
    <3> QED
      BY <2>2, <2>4, <3>2 DEF Knows
  <2>5. CASE op[a].pc = "removing"
    BY <2>2, <2>5 DEF Relies
  <2> QED
    BY <2>1, <2>3, <2>4, <2>5 DEF Loops
<1>5. CASE Choose(a)
  BY <1>5, ChooseDoes DEF Relies, Fails, Over
<1>6. CASE Find(a)
  <2>1. Found(a) /\ FirstLive' = FirstLive
    BY <1>6, FindDoes, SameHost DEF Turn
  <2>2. op'[a].pc \in {"stopprev", "rmname"} /\ op'[a].prev = FirstLive'
    BY <2>1 DEF Found
  <2> QED
    BY <2>2 DEF Knows
<1>7. CASE StopPrevious(a)
  <2>1. op'[a].pc = "rmname" /\ role' = role /\ op[a].pc = "stopprev"
    BY <1>7, StopPreviousDoes DEF Relies, Fails, Over, Turn
  <2>2. ~Overlaps'
    BY <2>1, <1>0, InFits DEF Overlaps
  <2> QED
    BY <2>1, <2>2 DEF Knows
<1>8. CASE RemoveNamesake(a)
  <2>1. /\ op[a].pc = "rmname" /\ On(op'[a], op[a], "run") /\ role' = role
        /\ op[a].name \in Names /\ Removes(op[a].name)
    BY <1>8, RemoveNamesakeDoes DEF Relies, Fails, Over, Turn
  <2>2. ASSUME Overlaps' PROVE op'[a].prev = FirstLive'
    <3>1. op[a].prev = FirstLive
      BY <2>1, <2>2 DEF Knows, Overlaps
    <3>2. op[a].name # FirstLive
      BY <3>1, <2>1, <1>0, InFits DEF Named, Rolling
    <3> QED
      BY <3>1, <3>2, <2>1, <1>0, OthersLeaveIt DEF On
  <2> QED
    BY <2>1, <2>2 DEF Knows, On
<1>9. CASE Run(a)
  <2>1. op[a].pc = "run" /\ Turn(a) /\ op[a].name \in Names /\ Runs(a)
    BY <1>9, RunDoes
  <2>2. CASE On(op'[a], op[a], "health")
    <3>1. \E s \in LiveStates, g \in BOOLEAN : Added(op[a].name, s, g)
      BY <2>1, <2>2 DEF Runs, On
    <3>2. FirstLive' = op[a].name
      BY <3>1, <2>1, <1>0, RunsFirst
    <3> QED
      BY <2>2, <3>2 DEF Knows, On
  <2>3. CASE On(op'[a], op[a], "rmfailed")
    <3>1. ASSUME Overlaps', "lost" \notin Faults PROVE op'[a].prev = FirstLive'
      <4>1. op[a].prev = FirstLive
        BY <3>1, <2>1 DEF Knows, Overlaps, Turn
      <4>2. containers' = containers \/ \E g \in BOOLEAN : Added(op[a].name, "created", g)
        BY <3>1, <2>1, <2>3 DEF Runs, On
      <4>3. FirstLive' = FirstLive
        BY <4>2, <2>1, <1>0, RunsFirst, SameHost DEF Turn, LiveStates
      <4> QED
        BY <4>1, <4>3, <2>3 DEF On
    <3> QED
      BY <2>3, <3>1 DEF Knows, On
  <2> QED
    BY <2>1, <2>2, <2>3 DEF Runs
<1>10. CASE RemoveFailed(a)
  BY <1>10, RemoveFailedDoes DEF Relies, Fails, Over
<1>11. CASE Health(a)
  <2>1. /\ op[a].pc = "health" /\ Turn(a) /\ containers' = containers /\ Answers(op[a].name)
        /\ On(op'[a], op[a], IF UseProxy THEN "switch" ELSE "cleanup")
    BY <1>11, HealthDoes DEF Relies, Fails, Over
  <2>2. FirstLive' = FirstLive /\ UseProxy' = UseProxy
    BY <2>1, SameHost DEF Turn
  <2>3. op'[a].name = op[a].name /\ op'[a].name = FirstLive' /\ op'[a].pc \in {"switch", "cleanup"}
        /\ (op'[a].pc = "cleanup" => ~UseProxy')
    BY <2>1, <2>2 DEF Knows, On
  <2>4. Answers(op[a].name)'
    BY <2>1, <2>3 DEF Answers
  <2> QED
    BY <2>3, <2>4 DEF Knows
<1>12. CASE Switch(a)
  <2>1. /\ op[a].pc = "switch" /\ Turn(a) /\ containers' = containers /\ Answers(op[a].name)
        /\ route' = op[a].name /\ On(op'[a], op[a], "cleanup")
    BY <1>12, SwitchDoes DEF Relies, Fails, Ends, Over
  <2>2. FirstLive' = FirstLive
    BY <2>1, SameHost DEF Turn
  <2>3. op'[a].name = op[a].name /\ op'[a].name = FirstLive' /\ op'[a].pc = "cleanup"
    BY <2>1, <2>2 DEF Knows, On
  <2>4. Answers(op[a].name)'
    BY <2>1, <2>3 DEF Answers
  <2> QED
    BY <2>1, <2>3, <2>4 DEF Knows
<1>13. CASE Cleanup(a)
  BY <1>13, CleanupDoes DEF Relies, Fails, Over, RolledOn, Ends, On
<1>14. CASE Prune(a)
  <2>1. Lists(a, "pruning", Surplus) /\ Turn(a) /\ containers' = containers
    BY <1>14, PruneDoes DEF Relies, Ends, Over
  <2>2. op'[a].todo \in [Names -> Nat] /\ op'[a].pc = "pruning" /\ Live' = Live
    BY <2>1, SameHost, FieldsOfOp DEF Lists, Turn
  <2>3. \A n \in Live' : op'[a].todo[n] = 0
    BY <2>1, <2>2, <1>0 DEF Lists, Surplus
  <2> QED
    BY <2>2, <2>3 DEF Knows
<1>15. CASE StopFind(a) \/ StartFind(a) \/ ReregisterFind(a) \/ Unroute(a) \/ RemoveFind(a)
  <2>1. Aside(a)
    BY <1>15, StopFindDoes, StartFindDoes, ReregisterFindDoes, UnrouteDoes, RemoveFindDoes
  <2> QED
    BY <2>1 DEF Aside, Relies, RolloutPCs, Rolling, Fails, Ends, Over
<1>16. CASE StopOne(a) \/ StartOne(a)
  BY <1>16, StopOneDoes, StartOneDoes DEF Relies
<1>17. CASE Fail(a)
  BY <1>17, FailDoes DEF Relies, Fails, Over
<1> QED
  BY <1>1, <1>2, <1>3, <1>4, <1>5, <1>6, <1>7, <1>8, <1>9, <1>10, <1>11, <1>12, <1>13,
     <1>14, <1>15, <1>16, <1>17 DEF Step

\* What the commands know stays so, while one at most is at work.
AllKnow == \A a \in Actors : Knows(a)

LEMMA KnowsStep ==
    ASSUME Base, AllKnow, Exclusive, NEW a \in Actors, Begin(a) \/ Step(a)
    PROVE  AllKnow'
<1> SUFFICES ASSUME NEW b \in Actors PROVE Knows(b)'
  BY DEF AllKnow
<1>1. CASE b = a
  BY <1>1, KnowsOwn DEF AllKnow
<1>2. CASE b # a /\ AtWork(b)
  <2>1. op'[b] = op[b] /\ Alone(a)
    BY <1>2, Isolated
  <2>2. /\ FirstLive' = FirstLive /\ Live' = Live /\ Overlaps' = Overlaps
        /\ UseProxy' = UseProxy /\ route' = route
    BY <2>1, SameHost DEF Alone
  <2>3. Answers(op[b].name)' <=> Answers(op[b].name)
    BY <2>1 DEF Answers, Alone
  <2> QED
    BY <2>1, <2>2, <2>3 DEF AllKnow, Knows
<1>3. CASE b # a /\ ~AtWork(b)
  <2>1. op'[b] = op[b]
    BY <1>3, StepIs
  <2> QED
    BY <1>3, <2>1 DEF AtWork, Knows
<1> QED
  BY <1>1, <1>2, <1>3

LEMMA KnowsStutter ==
    ASSUME AllKnow, UNCHANGED vars
    PROVE  AllKnow'
<1> SUFFICES ASSUME NEW a \in Actors PROVE Knows(a)'
  BY DEF AllKnow
<1>1. op' = op /\ route' = route /\ Knows(a) /\ containers' = containers /\ role' = role
  BY DEF vars, AllKnow
<1>2. FirstLive' = FirstLive /\ Live' = Live /\ Overlaps' = Overlaps /\ UseProxy' = UseProxy
  BY <1>1, SameHost
<1>3. Answers(op[a].name)' <=> Answers(op[a].name)
  BY <1>1 DEF Answers
<1> QED
  BY <1>1, <1>2, <1>3 DEF Knows

-----------------------------------------------------------------------------
(* The service is never interrupted *)

\* One actor, or commands under the lock and, unless an answer may be lost, a
\* reconcile, which looks before it takes the lock.
Guarded ==
    \/ \A a, b \in Actors : a = b
    \/ Kinds \subseteq Locked
    \/ Kinds \subseteq Locked \cup {"reconcile"} /\ "lost" \notin Faults

LEMMA GuardedIs == Guarded => Exclusive
BY DEF Guarded, Exclusive

\* A reconcile that still looks is not the last to have begun.
Waits == \A a \in Actors : op[a].pc = "inspect" => last # a

\* Where a rollout has to leave the route, a route on the newest live container is.
LEMMA SparesNewest ==
    ASSUME Base, NEW b \in Actors, Knows(b), Overlaps, Serving, route = FirstLive,
           op[b].pc = "rmfailed" => "lost" \notin Faults
    PROVE  Spares(b)
<1>1. op[b].pc \in Named => op[b].name # op[b].prev
  BY BaseIs, InFits
<1>2. op[b].pc = "rmfailed" => op[b].pc \in Named
  BY DEF Named, Rolling
<1> QED
  BY <1>1, <1>2 DEF Spares, Knows

\* A container that answers goes on answering while it is left alone.
LEMMA StillServing ==
    ASSUME Serving, route' = route, containers'[route] = containers[route]
    PROVE  Serving'
BY DEF Serving, Answers

LEMMA ServesOwn ==
    ASSUME Base, NEW a \in Actors, AtWork(a), RollsOut(op[a].kind), Overlaps,
           Knows(a), Spares(a), Serving, Step(a)
    PROVE  Serving' /\ Spares(a)'
<1> DEFINE p == op[a]
<1>0. /\ Base' /\ p \in Op /\ Fits(p) /\ route \in Names /\ route \in Live /\ route \in There
      /\ UseProxy /\ containers[route].state = "running"
  BY StepIs, BaseIs DEF Serving, Answers, Live, There, UseProxy, Overlaps
<1>1. CASE Inspect(a)
  BY <1>1 DEF Inspect, AtWork
<1>2. CASE Sweep(a)
  <2>1. /\ containers' = containers /\ route' = route /\ Turn(a) /\ op[a].pc = "sweep"
        /\ op'[a].pc \in {"idle", "find", "sweeping"}
    BY <1>2, SweepDoes DEF Over, On, Lists
  <2>2. FirstLive' = FirstLive
    BY <2>1, SameHost DEF Turn
  <2> QED
    BY <2>1, <2>2, StillServing DEF Spares
<1>3. CASE RemoveNext(a)
  <2>1. PICK n \in Names :
           /\ op[a].todo[n] > 0 /\ Removes(n)
           /\ op'[a].pc \in {"idle", op[a].pc} \/ (op'[a].pc = "find" /\ op[a].pc = "sweeping")
    BY <1>3, RemoveNextDoes DEF Over, Ends, Fails
  <2>2. op[a].pc \in Loops /\ Turn(a) /\ route' = route /\ op[a].todo \in [Names -> Nat]
    BY <1>3, <1>0, RemoveNextDoes, FieldsOfOp
  <2>3. CASE op[a].pc = "sweeping"
    <3>1. n # FirstLive /\ route = FirstLive
      BY <2>1, <2>2, <2>3 DEF Knows, Spares
    <3>2. FirstLive' = FirstLive /\ containers'[route] = containers[route]
      BY <2>1, <3>1, <1>0, OthersLeaveIt
    <3>3. op'[a].pc \in {"idle", "sweeping", "find"}
      BY <2>1, <2>3
    <3>4. Serving'
      BY <2>2, <3>2, StillServing
    <3> QED
      BY <2>2, <3>1, <3>2, <3>3, <3>4 DEF Spares
  <2>4. CASE op[a].pc = "pruning"
    <3>1. n # route
      BY <2>1, <2>2, <2>4, <1>0 DEF Knows
    <3>2. containers'[route] = containers[route]
      BY <2>1, <3>1, <1>0 DEF Removes, Dropped
    <3>3. op'[a].pc \in {"idle", "pruning"}
      BY <2>1, <2>4
    <3>4. Serving'
      BY <2>2, <3>2, StillServing
    <3> QED
      BY <3>3, <3>4 DEF Spares
  <2>5. CASE op[a].pc = "removing"
    BY <2>5, UnlockedAre
  <2> QED
    BY <2>2, <2>3, <2>4, <2>5 DEF Loops
<1>4. CASE Choose(a)
  <2>1. /\ containers' = containers /\ route' = route /\ Turn(a) /\ op[a].pc = "choose"
        /\ op'[a].pc \in {"idle", "find"}
    BY <1>4, ChooseDoes DEF Fails, Over
  <2>2. FirstLive' = FirstLive
    BY <2>1, SameHost DEF Turn
  <2> QED
    BY <2>1, <2>2, StillServing DEF Spares
<1>5. CASE Find(a)
  <2>1. /\ containers' = containers /\ route' = route /\ op[a].pc = "find"
        /\ op'[a].pc = "rmname" /\ op'[a].prev = FirstLive
    BY <1>5, FindDoes DEF Found, MustStopFirst
  <2> QED
    BY <2>1, StillServing DEF Spares
<1>6. CASE StopPrevious(a)
  BY <1>0, <1>6, InFits DEF StopPrevious
<1>7. CASE RemoveNamesake(a)
  <2>1. /\ op[a].pc = "rmname" /\ route' = route /\ Removes(op[a].name)
        /\ op'[a].pc \in {"idle", "run"} /\ (op'[a].pc = "run" => op'[a].prev = op[a].prev)
    BY <1>7, RemoveNamesakeDoes DEF Fails, Over, On
  <2>2. op[a].name # route
    BY <2>1, <1>0, InFits DEF Spares, Named, Rolling
  <2>3. containers'[route] = containers[route]
    BY <2>1, <2>2, <1>0 DEF Removes, Dropped
  <2> QED
    BY <2>1, <2>3, StillServing DEF Spares
<1>8. CASE Run(a)
  <2>1. op[a].pc = "run" /\ route' = route /\ Runs(a)
    BY <1>8, RunDoes
  <2>2. containers'[route] = containers[route]
    BY <2>1, <1>0 DEF Runs, Added
  <2>3. op[a].name # op[a].prev /\ route = op[a].prev
    BY <2>1, <1>0, InFits DEF Spares, Named, Rolling
  <2>4. op'[a].pc \in {"health", "rmfailed"} /\ op'[a].name = op[a].name /\ op'[a].prev = op[a].prev
    BY <2>1 DEF Runs, On
  <2> QED
    BY <2>1, <2>2, <2>3, <2>4, StillServing DEF Spares
<1>9. CASE RemoveFailed(a)
  <2>1. /\ op[a].pc = "rmfailed" /\ route' = route /\ op'[a].pc = "idle"
        /\ Dropped(op[a].name) \/ containers' = containers
    BY <1>9, RemoveFailedDoes DEF Fails, Over
  <2>2. containers'[route] = containers[route]
    BY <2>1, <1>0 DEF Spares, Dropped
  <2> QED
    BY <2>1, <2>2, StillServing DEF Spares
<1>10. CASE Health(a)
  <2>1. /\ op[a].pc = "health" /\ containers' = containers /\ route' = route
        /\ op'[a].pc = "idle" \/ On(op'[a], op[a], "switch")
    BY <1>0, <1>10, HealthDoes DEF Fails, Over
  <2> QED
    BY <2>1, StillServing DEF Spares, On
<1>11. CASE Switch(a)
  <2>1. op[a].pc # "register"
    BY UnlockedAre
  <2>2. /\ containers' = containers /\ op'[a].pc \in {"idle", "cleanup"}
        /\ route' = route \/ (route' = op[a].name /\ Answers(op[a].name))
    BY <2>1, <1>11, SwitchDoes DEF Fails, Ends, Over, On
  <2>3. Serving'
    BY <2>2 DEF Serving, Answers
  <2> QED
    BY <2>2, <2>3 DEF Spares
<1>12. CASE Cleanup(a)
  <2>1. /\ op[a].pc = "cleanup" /\ route' = route /\ op'[a].pc \in {"idle", "prune"}
    BY <1>12, CleanupDoes DEF Fails, Ends, Over, RolledOn, On
  <2>2. route = op[a].name
    BY <2>1, <1>0 DEF Knows
  <2>3. containers'[route] = containers[route]
    BY <2>2, <1>0, <1>12, CleanupDoes DEF Removes, Stops, Dropped, Turned
  <2> QED
    BY <2>1, <2>3, StillServing DEF Spares
<1>13. CASE Prune(a)
  <2>1. /\ containers' = containers /\ route' = route /\ op'[a].pc \in {"idle", "pruning"}
    BY <1>13, PruneDoes DEF Ends, Over, Lists
  <2> QED
    BY <2>1, StillServing DEF Spares
<1>14. CASE StopFind(a) \/ StopOne(a) \/ StartFind(a) \/ StartOne(a) \/ ReregisterFind(a)
            \/ Unroute(a) \/ RemoveFind(a)
  BY <1>14, UnlockedAre DEF StopFind, StopOne, StartFind, StartOne, ReregisterFind, Unroute, RemoveFind
<1>15. CASE Fail(a)
  <2>1. containers' = containers /\ route' = route /\ op'[a].pc = "idle"
    BY <1>15, FailDoes DEF Fails, Over
  <2> QED
    BY <2>1, StillServing DEF Spares
<1> QED
  BY <1>1, <1>2, <1>3, <1>4, <1>5, <1>6, <1>7, <1>8, <1>9, <1>10, <1>11, <1>12, <1>13,
     <1>14, <1>15 DEF Step

\* What a step does to which commands roll out, and since when.
LEMMA TurnIs ==
    ASSUME Base, NEW a \in Actors, AtWork(a), Step(a)
    PROVE  Turn(a)
<1>1. ~Inspect(a)
  BY DEF Inspect, AtWork
<1> QED
  BY <1>1, SweepDoes, RemoveNextDoes, ChooseDoes, FindDoes, StopPreviousDoes, RemoveNamesakeDoes,
     RunDoes, RemoveFailedDoes, HealthDoes, SwitchDoes, CleanupDoes, PruneDoes, StopFindDoes,
     StopOneDoes, StartFindDoes, StartOneDoes, ReregisterFindDoes, UnrouteDoes, RemoveFindDoes,
     FailDoes DEF Step, Aside

LEMMA CurrentWas ==
    ASSUME Base, Base', NEW a \in Actors, AtWork(a), Turn(a), NEW b \in Actors, Current(b)'
    PROVE  Current(b) /\ before'[b] = before[b]
<1>1. op'[b].kind = op[b].kind /\ before'[b] = before[b] /\ last' = last
  BY DEF Turn
<1>2. RollsOut(op[b].kind) /\ (lock' = b \/ (op'[b].pc = "idle" /\ last = b))
  BY <1>1 DEF Current
<1>3. Holds(b) /\ Holds(b)' /\ Holds(a)
  BY DEF Base
<1>4. CASE b = a
  BY <1>1, <1>2, <1>3, <1>4 DEF Holds, Current
<1>5. CASE b # a
  <2>1. op'[b] = op[b]
    BY <1>5 DEF Turn
  <2> QED
    BY <2>1, <1>1, <1>2, <1>3 DEF Holds, Current, AtWork
<1> QED
  BY <1>4, <1>5

LEMMA ServesStep ==
    ASSUME Base, AllKnow, Waits, Serves, Guarded, NEW a \in Actors, Begin(a) \/ Step(a)
    PROVE  Waits' /\ Serves'
<1>0. Exclusive /\ Base' /\ AllKnow' /\ \A b \in Actors \ {a} : op'[b] = op[b]
  BY GuardedIs, StepIs, KnowsStep
<1>1. CASE Begin(a)
  <2>1. Alone(a) /\ Begun(a)
    BY <1>1, BeginDoes
  <2>2. /\ containers' = containers /\ route' = route /\ role' = role /\ FirstLive' = FirstLive
        /\ Overlaps' = Overlaps /\ (Serving' <=> Serving)
    BY <2>1, SameHost DEF Alone, Serving, Answers
  <2>3. op'[a].kind \in AllKinds /\ (op'[a].pc = "inspect" <=> op'[a].kind = "reconcile")
        /\ op'[a].pc \notin Rolling \ {"choose"} /\ lock # a
    <3>1. op'[a].kind \in AllKinds /\ op'[a].pc = Entry(op'[a].kind) /\ Holds(a)
      BY <2>1, RolloutAssumption DEF Begun, Base
    <3>2. lock # a
      BY <2>1, <3>1 DEF Holds, AtWork, Begun
    <3> QED
      BY <3>1, <3>2 DEF Entry, AllKinds, Locked, Rolling
  <2>4. Waits'
    <3> SUFFICES ASSUME NEW b \in Actors, op'[b].pc = "inspect" PROVE last' # b
      BY DEF Waits
    <3>1. CASE b = a
      BY <3>1, <2>1, <2>3 DEF Begun
    <3>2. CASE b # a
      <4>1. last # b
        BY <3>2, <1>0 DEF Waits
      <4>2. last' \in {last, Nobody, a}
        BY <2>1 DEF Begun, Finds
      <4> QED
        BY <3>2, <4>1, <4>2, NoneAssumption
    <3> QED
      BY <3>1, <3>2
  <2>5. ASSUME NEW b \in Actors, Overlaps', Current(b)', before'[b].live
        PROVE  Serving' /\ \A c \in Actors : Spares(c)'
    <3>0. Holds(a)' /\ Holds(b)' /\ Holds(b) /\ RollsOut(op'[b].kind)
      BY <1>0, <2>5 DEF Base, Current
    <3>1. op'[a].kind \in Locked => \A c \in Actors : ~(RollsOut(op[c].kind) /\ AtWork(c))
      BY <2>1, BaseIs, NoneAssumption DEF Begun, Holds
    <3>2. CASE b = a
      <4>1. op'[a].pc # "idle" /\ op'[a].kind \in Locked
        BY <3>2, <2>1, <2>3, <2>5, <3>0 DEF Begun, Current, Holds, AtWork, RollsOut, Locked
      <4>2. Finds(a)
        BY <4>1, <2>1 DEF Begun, Locked
      <4>3. Serving /\ route = FirstLive
        BY <3>2, <4>2, <2>5 DEF Finds
      <4>4. ASSUME NEW c \in Actors PROVE op'[c].pc # "rmfailed"
        <5>1. CASE c = a
          BY <5>1, <2>3 DEF Rolling
        <5>2. CASE c # a
          BY <5>2, <1>0, <3>1, <4>1, BaseIs DEF Fits, Rolling, AtWork
        <5> QED
          BY <5>1, <5>2
      <4>5. ASSUME NEW c \in Actors PROVE Spares(c)'
        <5>1. Knows(c)' /\ Serving' /\ route' = FirstLive'
          BY <1>0, <2>2, <4>3 DEF AllKnow
        <5>2. op'[c].pc \in Named => op'[c].name # op'[c].prev
          BY <1>0 DEF Base, Fits
        <5> QED
          BY <5>1, <5>2, <4>4, <2>2, <2>5 DEF Spares, Knows, Named, Rolling
      <4> QED
        BY <2>2, <4>3, <4>5
    <3>3. CASE b # a
      <4>1. op'[b] = op[b]
        BY <3>3, <1>0
      <4>2. lock' = b => lock = b
        BY <3>0, <4>1 DEF Holds, AtWork
      <4>3. op'[a].kind = "reconcile"
        <5>1. op'[a].kind \in Locked \cup {"reconcile"}
          BY <3>3, <2>1, <1>0 DEF Exclusive, Begun
        <5>2. ASSUME op'[a].kind \in Locked PROVE FALSE
          <6>1. lock = Nobody /\ last' = a
            BY <5>2, <2>1 DEF Begun, Locked, Finds
          <6> QED
            BY <6>1, <4>2, <3>3, <2>5, NoneAssumption DEF Current
        <5> QED
          BY <5>1, <5>2
      <4>4. before'[b] = before[b] /\ (last' = b => last = b)
        BY <4>3, <2>1, NoneAssumption DEF Begun
      <4>5. Serving /\ \A c \in Actors : Spares(c)
        BY <4>1, <4>2, <4>4, <2>2, <2>5 DEF Serves, Current
      <4>6. Spares(a)'
        BY <4>3, <2>3 DEF Spares
      <4>7. ASSUME NEW c \in Actors \ {a} PROVE Spares(c)'
        BY <1>0, <2>2, <4>5 DEF Spares
      <4> QED
        BY <2>2, <4>5, <4>6, <4>7
    <3> QED
      BY <3>2, <3>3
  <2> QED
    BY <2>4, <2>5 DEF Serves
<1>2. CASE Inspect(a)
  <2>1. Alone(a) /\ Looked(a) /\ op[a].pc = "inspect" /\ last # a
    BY <1>2, InspectDoes DEF Waits
  <2>2. /\ containers' = containers /\ route' = route /\ role' = role /\ FirstLive' = FirstLive
        /\ Overlaps' = Overlaps /\ (Serving' <=> Serving)
    BY <2>1, SameHost DEF Alone, Serving, Answers
  <2>3. op[a].kind = "reconcile" /\ lock # a /\ op'[a].pc \in {"idle", "sweep"}
        /\ (Fails(a) => op'[a].pc = "idle")
    <3>1. Fits(op[a]) /\ Holds(a)
      BY DEF Base
    <3> QED
      BY <2>1, <3>1 DEF Fits, Holds, AtWork, Looked, Fails, Ends, Over, On
  <2>4. Waits'
    <3>1. last' \in {last, a}
      BY <2>1 DEF Looked, Finds
    <3> QED
      BY <2>3, <3>1, <1>0 DEF Waits
  <2>5. ASSUME NEW b \in Actors, Overlaps', Current(b)', before'[b].live
        PROVE  Serving' /\ \A c \in Actors : Spares(c)'
    <3>0. Holds(a)' /\ Holds(b)' /\ Holds(b) /\ RollsOut(op'[b].kind)
      BY <1>0, <2>5 DEF Base, Current
    <3>1. b # a => (lock' = b => lock = b)
      BY <3>0, <1>0 DEF Holds, AtWork
    <3>2. CASE Finds(a) /\ (b = a \/ op'[a].pc = "sweep")
      <4>1. b = a
        <5>1. last' = a /\ (op'[a].pc = "sweep" => lock = Nobody)
          BY <3>2, <2>1 DEF Finds, Looked, Ends, Over, Fails
        <5> QED
          BY <5>1, <3>1, <3>2, <2>5, NoneAssumption DEF Current
      <4>2. Serving /\ route = FirstLive
        BY <4>1, <3>2, <2>5 DEF Finds
      <4>3. ASSUME NEW c \in Actors \ {a}, op[c].pc = "rmfailed" PROVE "lost" \notin Faults
        <5>1. a # c /\ op[a].kind \in Kinds /\ AtWork(c) /\ op[a].kind \notin Locked
          BY <4>3, <2>1, <2>3, BaseIs DEF Fits, AtWork, Locked
        <5> QED
          BY <5>1 DEF Guarded
      <4>4. ASSUME NEW c \in Actors PROVE Spares(c)'
        <5>1. CASE c = a
          BY <5>1, <2>2, <2>3, <4>2 DEF Spares
        <5>2. CASE c # a
          <6>1. Spares(c)
            BY <5>2, <4>2, <4>3, <2>2, <2>5, SparesNewest DEF AllKnow
          <6> QED
            BY <5>2, <6>1, <1>0, <2>2 DEF Spares
        <5> QED
          BY <5>1, <5>2
      <4> QED
        BY <2>2, <4>2, <4>4
    <3>3. CASE ~(Finds(a) /\ (b = a \/ op'[a].pc = "sweep"))
      <4>1. op'[a].pc = "idle"
        BY <3>3, <2>1, <2>3 DEF Looked, Ends, Over
      <4>2. b # a
        <5>1. ASSUME b = a PROVE FALSE
          <6>1. last' = last
            BY <5>1, <3>3, <2>1 DEF Looked
          <6>2. lock' = a
            BY <6>1, <5>1, <2>1, <2>5 DEF Current
          <6> QED
            BY <6>2, <4>1, <3>0 DEF Holds, AtWork
        <5> QED
          BY <5>1
      <4>3. op'[b] = op[b] /\ before'[b] = before[b] /\ (last' = b => last = b)
        BY <4>2, <1>0, <2>1 DEF Looked, Finds
      <4>4. Serving /\ \A c \in Actors : Spares(c)
        BY <4>2, <4>3, <3>1, <2>2, <2>5 DEF Serves, Current
      <4>5. Spares(a)'
        BY <4>1 DEF Spares
      <4>6. ASSUME NEW c \in Actors \ {a} PROVE Spares(c)'
        BY <1>0, <2>2, <4>4 DEF Spares
      <4> QED
        BY <2>2, <4>4, <4>5, <4>6
    <3> QED
      BY <3>2, <3>3
  <2> QED
    BY <2>4, <2>5 DEF Serves
<1>3. CASE Step(a) /\ ~Inspect(a) /\ ~AtWork(a)
  <2>1. Fail(a) /\ op[a].pc = "inspect"
    BY <1>3, NotAtWork
  <2>2. /\ containers' = containers /\ route' = route /\ Turn(a) /\ op'[a].pc = "idle"
    BY <2>1, FailDoes DEF Fails, Over
  <2>3. /\ FirstLive' = FirstLive /\ Overlaps' = Overlaps /\ (Serving' <=> Serving)
        /\ last' = last /\ before' = before
    BY <2>2, SameHost DEF Turn, Serving, Answers
  <2>4. Waits'
    BY <2>2, <2>3, <1>0 DEF Waits
  <2>5. ASSUME NEW b \in Actors, Overlaps', Current(b)', before'[b].live
        PROVE  Serving' /\ \A c \in Actors : Spares(c)'
    <3>1. Holds(b)' /\ Holds(b) /\ last # a
      BY <1>0, <2>1 DEF Base, Waits
    <3>2. b # a
      BY <2>2, <2>3, <2>5, <3>1 DEF Current, Holds, AtWork
    <3>3. Current(b)
      BY <3>1, <3>2, <1>0, <2>3, <2>5 DEF Current, Holds, AtWork
    <3>4. Serving /\ \A c \in Actors : Spares(c)
      BY <3>3, <2>3, <2>5 DEF Serves
    <3>5. Spares(a)'
      BY <2>2 DEF Spares
    <3>6. ASSUME NEW c \in Actors \ {a} PROVE Spares(c)'
      BY <1>0, <2>2, <2>3, <3>4 DEF Spares
    <3> QED
      BY <2>3, <3>4, <3>5, <3>6
  <2> QED
    BY <2>4, <2>5 DEF Serves
<1>4. CASE Step(a) /\ AtWork(a)
  <2>1. Turn(a) /\ role' = role /\ last' = last /\ op'[a].pc # "inspect"
    BY <1>4, TurnIs DEF Turn
  <2>2. Waits'
    BY <2>1, <1>0 DEF Waits
  <2>3. ASSUME NEW b \in Actors, Overlaps', Current(b)', before'[b].live
        PROVE  Serving' /\ \A c \in Actors : Spares(c)'
    <3>1. Current(b) /\ before[b].live /\ Overlaps
      BY <1>0, <1>4, <2>1, <2>3, CurrentWas DEF Overlaps
    <3>2. Serving /\ Spares(a) /\ Knows(a)
      BY <3>1 DEF Serves, AllKnow
    <3>3. RollsOut(op[a].kind)
      <4>1. CASE \A c, d \in Actors : c = d
        BY <4>1, <3>1 DEF Current
      <4>2. CASE Kinds \subseteq Locked \cup {"reconcile"}
        BY <4>2, <1>4, BaseIs DEF Fits, AtWork, RollsOut, Locked
      <4> QED
        BY <4>1, <4>2, <1>0 DEF Exclusive
    <3>4. Serving' /\ Spares(a)'
      BY <1>4, <3>1, <3>2, <3>3, ServesOwn
    <3>5. ASSUME NEW c \in Actors \ {a} PROVE Spares(c)'
      <4>1. ~AtWork(c) /\ op'[c] = op[c]
        BY <1>0, <1>4, OneAtWork
      <4> QED
        BY <4>1 DEF AtWork, Spares
    <3> QED
      BY <3>4, <3>5
  <2> QED
    BY <2>2, <2>3 DEF Serves
<1> QED
  BY <1>1, <1>2, <1>3, <1>4

LEMMA ServesStutter ==
    ASSUME Waits, Serves, UNCHANGED vars
    PROVE  Waits' /\ Serves'
<1>1. /\ op' = op /\ route' = route /\ containers' = containers /\ role' = role
      /\ lock' = lock /\ last' = last /\ before' = before
  BY DEF vars
<1>2. FirstLive' = FirstLive /\ Overlaps' = Overlaps /\ (Serving' <=> Serving)
  BY <1>1, SameHost DEF Serving, Answers
<1>3. \A b \in Actors : (Current(b)' <=> Current(b)) /\ (Spares(b)' <=> Spares(b))
  BY <1>1, <1>2 DEF Current, Spares
<1> QED
  BY <1>1, <1>2, <1>3 DEF Waits, Serves

\* Where containers may overlap, a deploy or a rollback that finds the newest
\* container serving never interrupts the service, at no step and however it
\* fails, as long as what runs beside it takes the lock.
THEOREM RolloutNeverStopsServing ==
    ASSUME Guarded
    PROVE  Spec => []NeverStopsServing
<1> DEFINE I == Base /\ AllKnow /\ Waits /\ Serves
<1>1. Init => I
  <2> SUFFICES ASSUME Init PROVE I
    OBVIOUS
  <2>1. Base /\ \A a \in Actors : op[a].pc = "idle" /\ op[a].kind = "none"
    BY InitIs
  <2>2. AllKnow /\ Waits
    BY <2>1 DEF AllKnow, Knows, Waits
  <2>3. Serves
    BY <2>1 DEF Serves, Current, RollsOut
  <2> QED
    BY <2>1, <2>2, <2>3
<1>2. I /\ [Next]_vars => I'
  <2>1. ASSUME I, NEW a \in Actors, Begin(a) \/ Step(a) PROVE I'
    BY <2>1, StepIs, KnowsStep, ServesStep, GuardedIs
  <2>2. ASSUME I, UNCHANGED vars PROVE I'
    BY <2>2, StutterIs, KnowsStutter, ServesStutter
  <2> QED
    BY <2>1, <2>2 DEF Next
<1>3. I => NeverStopsServing
  BY DEF Serves, NeverStopsServing
<1> QED
  BY <1>1, <1>2, <1>3, PTL DEF Spec

-----------------------------------------------------------------------------
(* The service alias is not shared *)

\* A removal or a stop that docker does not hide.
LEMMA Goes ==
    ASSUME Base, "hidden" \notin Faults, NEW n \in Names, Removes(n) \/ Stops(n)
    PROVE  /\ There' \subseteq There /\ There \ {n} \subseteq There' /\ Live' = Live \ {n}
           /\ \A m \in Names : m \in There' => containers'[m].at = containers[m].at
           /\ \A m \in Names \ {n} : containers'[m] = containers[m]
<1>1. CASE Dropped(n)
  BY <1>1 DEF Dropped, There
<1>2. CASE Turned(n, "exited")
  BY <1>2 DEF Turned, LiveStates
<1>3. CASE containers' = containers /\ n \notin There
  <2>1. There' = There /\ Live' = Live /\ n \notin Live
    BY <1>3, UnchangedIs, ViewsAre, SubsetsAre
  <2> QED
    BY <2>1, <1>3
<1> QED
  BY <1>1, <1>2, <1>3 DEF Removes, Stops

LEMMA OrderlyNow ==
    ASSUME Base'
    PROVE  /\ Orderly(containers') /\ There' \subseteq ThereIn(containers')
           /\ Live' \subseteq There' /\ There' \subseteq Names
<1>1. Orderly(containers')
  BY ViewsAre DEF Base, TypeOK, Ordered, Orderly
<1> QED
  BY <1>1, ViewsAre, SubsetsAre

LEMMA NewestKept ==
    ASSUME Base, Base', NEW m \in There', m = Newest(There), There' \subseteq There,
           \A n \in Names : n \in There' => containers'[n].at = containers[n].at
    PROVE  m = Newest(There)'
<1>1. OnTop(containers, There, m)
  BY NewestThere
<1>2. OnTop(containers', There', m)
  BY <1>1 DEF OnTop, There
<1> QED
  BY <1>2, TopIs, ViewsAre, OrderlyNow

\* The same, of what a step changes.
LEMMA FewerLive ==
    ASSUME Base, Base', \A n \in Live : n = Newest(There),
           Live' \subseteq Live, There' \subseteq There,
           \A n \in Names : n \in There' => containers'[n].at = containers[n].at
    PROVE  \A n \in Live' : n = Newest(There)'
<1>1. Live' \subseteq There'
  BY ViewsAre, SubsetsAre
<1> QED
  BY <1>1, NewestKept

LEMMA NewestLivesOwn ==
    ASSUME Base, "hidden" \notin Faults, ~Overlaps, NewestLives, NEW a \in Actors,
           Knows(a), Begin(a) \/ Step(a)
    PROVE  /\ \A n \in Live' : n = Newest(There)'
           /\ op'[a].pc \in {"rmname", "run"} => Live' = {}
           /\ op'[a].pc = "startone" =>
                op'[a].name = Newest(There)' /\ op'[a].name \notin Live'
<1>0. /\ Base' /\ op[a] \in Op /\ Fits(op[a]) /\ Live \subseteq Names /\ Live \subseteq There
      /\ \A n \in Live : n = Newest(There)
      /\ op[a].pc \in {"rmname", "run"} => Live = {}
      /\ op[a].pc = "startone" => op[a].name = Newest(There) /\ op[a].name \notin Live
  <2>1. Live \subseteq Names /\ Live \subseteq There
    BY ViewsAre, SubsetsAre
  <2> QED
    BY <2>1, StepIs, BaseIs DEF NewestLives
<1> DEFINE Places == {"rmname", "run", "startone"}
<1>1. ASSUME containers' = containers, role' = role, op'[a].pc \notin Places
      PROVE  /\ \A n \in Live' : n = Newest(There)'
             /\ op'[a].pc \in {"rmname", "run"} => Live' = {}
             /\ op'[a].pc = "startone" =>
                  op'[a].name = Newest(There)' /\ op'[a].name \notin Live'
  BY <1>0, <1>1, SameHost
<1>2. ASSUME NEW n \in Names, Removes(n) \/ Stops(n), op'[a].pc \notin Places
      PROVE  /\ \A m \in Live' : m = Newest(There)'
             /\ op'[a].pc \in {"rmname", "run"} => Live' = {}
             /\ op'[a].pc = "startone" =>
                  op'[a].name = Newest(There)' /\ op'[a].name \notin Live'
  <2>1. \A m \in Live' : m = Newest(There)'
    BY <1>0, <1>2, Goes, FewerLive
  <2> QED
    BY <2>1, <1>2
<1>3. CASE Begin(a)
  <2>1. op'[a].pc = Entry(op'[a].kind) /\ op'[a].kind \in AllKinds /\ Alone(a)
    BY <1>3, BeginDoes, RolloutAssumption DEF Begun
  <2>2. op'[a].pc \notin Places
    BY <2>1 DEF Entry, AllKinds, Locked
  <2> QED
    BY <1>1, <2>1, <2>2 DEF Alone
<1>4. CASE Inspect(a)
  BY <1>1, <1>4, InspectDoes DEF Looked, Fails, Ends, Over, On, Alone
<1>5. CASE Sweep(a)
  BY <1>1, <1>5, SweepDoes DEF Turn, Over, On, Lists
<1>6. CASE RemoveNext(a)
  <2>1. PICK n \in Names : Removes(n) /\ op'[a].pc \in {"idle", "find", op[a].pc}
    BY <1>6, RemoveNextDoes DEF Fails, Ends, Over
  <2>2. op[a].pc \in Loops
    BY <1>6, RemoveNextDoes
  <2> QED
    BY <1>2, <2>1, <2>2 DEF Loops
<1>7. CASE Choose(a)
  BY <1>1, <1>7, ChooseDoes DEF Turn, Fails, Over
<1>8. CASE Find(a)
  <2>1. Found(a) /\ containers' = containers /\ Turn(a)
    BY <1>8, FindDoes
  <2>2. op'[a].pc = "rmname" => Live' = {}
    BY <2>1, FirstLiveIs, SameHost DEF Found, MustStopFirst, Turn
  <2>3. op'[a].pc \in {"stopprev", "rmname"}
    BY <2>1 DEF Found
  <2> QED
    BY <1>0, <2>1, <2>2, <2>3, SameHost DEF Turn
<1>9. CASE StopPrevious(a)
  <2>1. /\ op[a].pc = "stopprev" /\ op[a].prev \in Names /\ Stops(op[a].prev)
        /\ op'[a].pc \in {"idle", "rmname"}
    BY <1>9, StopPreviousDoes DEF Fails, Over
  <2>2. op[a].prev = FirstLive
    BY <2>1 DEF Knows
  <2>3. Live = {op[a].prev}
    BY <2>1, <2>2, <1>0, FirstLiveIs, NoneAssumption DEF OnTop
  <2>4. Live' = {}
    BY <2>1, <2>3, Goes
  <2> QED
    BY <2>1, <2>4
<1>10. CASE RemoveNamesake(a)
  <2>1. /\ op[a].pc = "rmname" /\ op[a].name \in Names /\ Removes(op[a].name)
        /\ op'[a].pc \in {"idle", "run"}
    BY <1>10, RemoveNamesakeDoes DEF Fails, Over, On
  <2>2. Live' = {}
    BY <2>1, <1>0, Goes
  <2> QED
    BY <2>1, <2>2
<1>11. CASE Run(a)
  <2>1. op[a].pc = "run" /\ op[a].name \in Names /\ Runs(a) /\ Live = {} /\ role' = role
    BY <1>0, <1>11, RunDoes DEF Turn
  <2>2. op'[a].pc \in {"health", "rmfailed"}
    BY <2>1 DEF Runs, On
  <2>3. CASE containers' = containers
    BY <1>1, <2>1, <2>2, <2>3
  <2>4. CASE \E s, g : Added(op[a].name, s, g)
    <3>1. Live' \subseteq {op[a].name} /\ OnTop(containers', There', op[a].name)
      BY <2>1, <2>4 DEF Added
    <3>2. op[a].name = Newest(There)'
      BY <3>1, <1>0, TopIs, ViewsAre, OrderlyNow
    <3> QED
      BY <3>1, <3>2, <2>2
  <2> QED
    BY <2>1, <2>3, <2>4 DEF Runs
<1>12. CASE RemoveFailed(a)
  <2>1. /\ op'[a].pc = "idle" /\ op[a].name \in Names /\ role' = role
        /\ Dropped(op[a].name) \/ containers' = containers
    BY <1>12, RemoveFailedDoes DEF Fails, Over, Turn
  <2> QED
    BY <1>1, <1>2, <2>1 DEF Removes
<1>13. CASE Health(a)
  BY <1>1, <1>13, HealthDoes DEF Turn, Fails, Over, On
<1>14. CASE Switch(a)
  BY <1>1, <1>14, SwitchDoes DEF Turn, Fails, Ends, Over, On
<1>15. CASE Cleanup(a)
  <2>1. op'[a].pc \in {"idle", "prune"} /\ role' = role
    BY <1>15, CleanupDoes DEF RolledOn, Fails, Ends, Over, On, Turn
  <2>2. containers' = containers \/ \E n \in Names : Removes(n) \/ Stops(n)
    BY <1>15, CleanupDoes
  <2> QED
    BY <1>1, <1>2, <2>1, <2>2
<1>16. CASE Prune(a)
  BY <1>1, <1>16, PruneDoes DEF Turn, Ends, Over, Lists
<1>17. CASE StopFind(a) \/ StartFind(a) \/ ReregisterFind(a) \/ Unroute(a) \/ RemoveFind(a)
  <2>1. Aside(a)
    BY <1>17, StopFindDoes, StartFindDoes, ReregisterFindDoes, UnrouteDoes, RemoveFindDoes
  <2>2. op'[a].pc \notin {"rmname", "run"} /\ containers' = containers /\ role' = role
    BY <2>1 DEF Aside, Turn, Fails, Ends, Over, RolloutPCs, Rolling
  <2> QED
    BY <1>0, <2>1, <2>2, SameHost DEF Aside
<1>18. CASE StopOne(a)
  BY <1>2, <1>18, StopOneDoes
<1>19. CASE StartOne(a)
  <2>1. /\ op[a].pc = "startone" /\ op[a].name \in Names /\ op'[a].pc \in {"idle", "register"}
        /\ role' = role
        /\ containers' = containers \/ \E s \in LiveStates : Turned(op[a].name, s)
    BY <1>19, StartOneDoes DEF Turn
  <2>2. CASE containers' = containers
    BY <1>1, <2>1, <2>2
  <2>3. CASE \E s \in LiveStates : Turned(op[a].name, s)
    <3>1. /\ There' = There /\ Live' = Live \cup {op[a].name} /\ op[a].name \in There
          /\ \A m \in Names : containers'[m].at = containers[m].at
      BY <2>3 DEF Turned
    <3>2. op[a].name = Newest(There)'
      BY <1>0, <2>1, <3>1, NewestKept
    <3>3. \A n \in Live : n = Newest(There)'
      BY <1>0, <3>1, NewestKept
    <3> QED
      BY <2>1, <3>1, <3>2, <3>3
  <2> QED
    BY <2>1, <2>2, <2>3
<1>20. CASE Fail(a)
  BY <1>1, <1>20, FailDoes DEF Turn, Fails, Over
<1> QED
  BY <1>3, <1>4, <1>5, <1>6, <1>7, <1>8, <1>9, <1>10, <1>11, <1>12, <1>13, <1>14, <1>15,
     <1>16, <1>17, <1>18, <1>19, <1>20 DEF Step

LEMMA NewestLivesStep ==
    ASSUME Base, Exclusive, "hidden" \notin Faults, AllKnow, NewestLives, NEW a \in Actors,
           Begin(a) \/ Step(a)
    PROVE  NewestLives'
<1> SUFFICES ASSUME ~Overlaps' PROVE NewestLives'
  BY DEF NewestLives
<1>1. ~Overlaps /\ Base'
  BY StepIs DEF Overlaps
<1>2. /\ \A n \in Live' : n = Newest(There)'
      /\ op'[a].pc \in {"rmname", "run"} => Live' = {}
      /\ op'[a].pc = "startone" =>
           op'[a].name = Newest(There)' /\ op'[a].name \notin Live'
  BY <1>1, NewestLivesOwn DEF AllKnow
<1>3. ASSUME NEW b \in Actors \ {a}
      PROVE  /\ op'[b].pc \in {"rmname", "run"} => Live' = {}
             /\ op'[b].pc = "startone" =>
                  op'[b].name = Newest(There)' /\ op'[b].name \notin Live'
  <2>1. op'[b] = op[b]
    BY StepIs
  <2>2. CASE AtWork(b)
    <3>1. Alone(a)
      BY <2>2, Isolated
    <3>2. Live' = Live /\ Newest(There)' = Newest(There)
      BY <3>1, SameHost DEF Alone
    <3> QED
      BY <2>1, <3>2, <1>1 DEF NewestLives
  <2>3. CASE ~AtWork(b)
    BY <2>1, <2>3 DEF AtWork
  <2> QED
    BY <2>2, <2>3
<1> QED
  BY <1>2, <1>3 DEF NewestLives

\* Two versions of a role that kamal-proxy does not front never run side by
\* side, as long as no command runs beside one that takes the lock and docker
\* does what it is told or says that it did not.
THEOREM RolloutAliasUnshared ==
    ASSUME Exclusive, "hidden" \notin Faults
    PROVE  Spec => []AliasUnshared
<1> DEFINE I == Base /\ AllKnow /\ NewestLives
<1>1. Init => I
  <2> SUFFICES ASSUME Init PROVE I
    OBVIOUS
  <2>1. Base /\ Live = {} /\ \A a \in Actors : op[a].pc = "idle"
    BY InitIs
  <2> QED
    BY <2>1 DEF AllKnow, Knows, NewestLives
<1>2. I /\ [Next]_vars => I'
  <2>1. ASSUME I, NEW a \in Actors, Begin(a) \/ Step(a) PROVE I'
    BY <2>1, StepIs, KnowsStep, NewestLivesStep
  <2>2. ASSUME I, UNCHANGED vars PROVE I'
    <3>1. op' = op /\ containers' = containers /\ role' = role
      BY <2>2 DEF vars
    <3>2. NewestLives'
      BY <2>2, <3>1, SameHost DEF NewestLives
    <3> QED
      BY <2>2, <3>2, StutterIs, KnowsStutter
  <2> QED
    BY <2>1, <2>2 DEF Next
<1>3. I => AliasUnshared
  BY DEF NewestLives, AliasUnshared, Overlaps, UseProxy
<1> QED
  BY <1>1, <1>2, <1>3, PTL DEF Spec

-----------------------------------------------------------------------------
(* A deploy that succeeds leaves its version alone *)

\* While a deploy is the last command to have begun and is over, none is at work.
Rests ==
    \A a \in Actors : op[a].kind = "deploy" /\ op[a].pc = "idle" /\ last = a =>
        \A b \in Actors : ~AtWork(b)

AllLone == \A a \in Actors : Lone(a)
AllConverged == \A a \in Actors : Converged(a)

LEMMA RestsStep ==
    ASSUME Base, Exclusive, Rests, NEW a \in Actors, Begin(a) \/ Step(a)
    PROVE  Rests'
<1>0. Base' /\ \A b \in Actors \ {a} : op'[b] = op[b]
  BY StepIs
<1> SUFFICES ASSUME NEW b \in Actors, op'[b].kind = "deploy", op'[b].pc = "idle", last' = b,
                    NEW c \in Actors, AtWork(c)'
             PROVE  FALSE
  BY DEF Rests
<1>1. CASE AtWork(a) /\ Step(a)
  <2>1. Turn(a)
    BY <1>1, TurnIs
  <2>2. b = a
    <3>1. ASSUME b # a PROVE FALSE
      <4>1. op[b].kind = "deploy" /\ op[b].pc = "idle" /\ last = b
        BY <3>1, <1>0, <2>1 DEF Turn
      <4> QED
        BY <4>1, <1>1 DEF Rests
    <3> QED
      BY <3>1
  <2>3. AtWork(c) /\ c # a
    BY <2>2, <1>0 DEF AtWork
  <2> QED
    BY <2>3, <1>1, OneAtWork
<1>2. CASE ~AtWork(a) /\ Step(a)
  <2>1. Inspect(a) \/ (Fail(a) /\ op[a].pc = "inspect")
    BY <1>2, NotAtWork
  <2>2. /\ op[a].kind = "reconcile" /\ op'[a].kind = "reconcile"
        /\ op'[a].pc = "idle" \/ (op'[a].pc = "sweep" /\ last' = a)
        /\ last' \in {last, a}
    <3>1. op[a].kind = "reconcile"
      BY <2>1, BaseIs DEF Fits, Inspect
    <3> QED
      BY <2>1, <3>1, InspectDoes, FailDoes DEF Looked, Fails, Ends, Over, On, Finds, Turn
  <2>3. b # a /\ op'[b] = op[b] /\ last = b
    BY <2>2, <1>0
  <2>4. c # a
    BY <2>2, <2>3 DEF AtWork
  <2> QED
    BY <2>3, <2>4, <1>0 DEF Rests, AtWork
<1>3. CASE Begin(a)
  <2>1. Begun(a) /\ b # a
    BY <1>3, BeginDoes DEF Begun
  <2>2. op'[a].kind = "reconcile" /\ last = b
    BY <2>1, NoneAssumption DEF Begun, Finds
  <2>3. ~AtWork(a)'
    BY <2>1, <2>2 DEF Begun, AtWork, Entry
  <2> QED
    BY <2>1, <2>2, <2>3, <1>0 DEF Rests, AtWork
<1> QED
  BY <1>1, <1>2, <1>3

\* Of what others do while a command is at work, or rests.
LEMMA SettledSame ==
    ASSUME NEW a \in Actors, containers' = containers, role' = role, Settled(a),
           op'[a].name = op[a].name, op'[a].version = op[a].version,
           UseProxy => route' = route
    PROVE  Settled(a)'
<1>1. Live' = Live /\ UseProxy' = UseProxy
  BY SameHost
<1>2. Answers(op[a].name)'
  BY DEF Settled, Answers
<1> QED
  BY <1>1, <1>2 DEF Settled

\* A step of the command itself.
LEMMA LoneOwn ==
    ASSUME Base, "hidden" \notin Faults, NEW a \in Actors, Knows(a), Lone(a), Begin(a) \/ Step(a)
    PROVE  Lone(a)'
<1> DEFINE Alones == {"sweeping", "find", "stopprev", "rmname", "run", "health", "switch", "cleanup"}
<1> SUFFICES ASSUME op'[a].pc \in Alones PROVE Lone(a)'
  BY DEF Lone
<1>0. /\ Base' /\ op[a] \in Op /\ Fits(op[a]) /\ Live \subseteq Names /\ Live \subseteq There
      /\ NoName \notin Names
  <2>1. Live \subseteq Names /\ Live \subseteq There
    BY ViewsAre, SubsetsAre
  <2> QED
    BY <2>1, StepIs, BaseIs, NoneAssumption
<1>1. CASE Begin(a)
  <2>1. op'[a].pc = Entry(op'[a].kind) /\ op'[a].kind \in AllKinds
    BY <1>1, BeginDoes, RolloutAssumption DEF Begun
  <2> QED
    BY <2>1 DEF Entry, AllKinds, Locked
<1>2. CASE Inspect(a)
  BY <1>2, InspectDoes DEF Looked, Fails, Ends, Over, On
<1>3. CASE Sweep(a)
  <2>1. Turn(a) /\ containers' = containers
    BY <1>3, SweepDoes
  <2>2. FirstLive' = FirstLive /\ Live' = Live
    BY <2>1, SameHost DEF Turn
  <2>3. CASE Orphans = {}
    <3>1. op'[a].pc = "find" /\ Live \subseteq {FirstLive}
      BY <1>3, <2>3, SweepDoes DEF Over, On, Orphans
    <3> QED
      BY <2>2, <3>1 DEF Lone
  <2>4. CASE Orphans # {}
    <3>1. Lists(a, "sweeping", Orphans)
      BY <1>3, <2>4, SweepDoes
    <3>2. \A n \in Live' : n = FirstLive' \/ op'[a].todo[n] > 0
      BY <1>0, <2>2, <3>1 DEF Lists, Orphans
    <3> QED
      BY <3>1, <3>2 DEF Lone, Lists
  <2> QED
    BY <2>3, <2>4
<1>4. CASE RemoveNext(a)
  <2>1. op[a].pc \in Loops /\ Turn(a) /\ op[a].todo \in [Names -> Nat]
    BY <1>0, <1>4, RemoveNextDoes, FieldsOfOp
  <2>2. op[a].pc = "sweeping"
    <3>1. op'[a].pc \in {"find", "idle", op[a].pc} /\ (op'[a].pc = "find" => op[a].pc = "sweeping")
      BY <1>4, RemoveNextDoes DEF Fails, Ends, Over, Loops
    <3> QED
      BY <2>1, <3>1 DEF Loops
  <2>3. PICK n \in Names :
           /\ op[a].todo[n] > 0 /\ Removes(n)
           /\ \/ op'[a].pc = "sweeping" /\ op'[a].todo = [op[a].todo EXCEPT ![n] = 0]
              \/ op'[a].pc = "find" /\ \A m \in Names \ {n} : op[a].todo[m] = 0
    BY <1>4, <2>2, RemoveNextDoes DEF Fails, Ends, Over
  <2>4. n # FirstLive
    BY <2>2, <2>3 DEF Knows
  <2>5. FirstLive' = FirstLive /\ Live' = Live \ {n}
    BY <2>3, <2>4, <1>0, OthersLeaveIt
  <2>6. \A m \in Live : m = FirstLive \/ op[a].todo[m] > 0
    BY <2>2 DEF Lone
  <2>7. CASE op'[a].pc = "sweeping"
    <3>1. \A m \in Live' : m = FirstLive' \/ op'[a].todo[m] > 0
      BY <1>0, <2>1, <2>3, <2>5, <2>6, <2>7
    <3> QED
      BY <2>7, <3>1 DEF Lone
  <2>8. CASE op'[a].pc = "find"
    <3>1. \A m \in Names \ {n} : op[a].todo[m] = 0
      BY <2>3, <2>8
    <3>2. Live' \subseteq {FirstLive'}
      BY <1>0, <2>1, <2>5, <2>6, <3>1
    <3> QED
      BY <2>8, <3>2 DEF Lone
  <2> QED
    BY <2>3, <2>7, <2>8
<1>5. CASE Choose(a)
  <2>1. op'[a].pc \in {"idle", "find"} /\ op'[a].kind \in {"rollback", "rollback_to"}
    BY <1>0, <1>5, ChooseDoes DEF Fails, Over, Fits, Turn
  <2> QED
    BY <2>1 DEF Lone, Clean
<1>6. CASE Find(a)
  <2>1. Found(a) /\ Turn(a) /\ containers' = containers /\ op[a].pc = "find"
    BY <1>6, FindDoes
  <2>2. Live' = Live /\ op'[a].prev = FirstLive /\ op'[a].pc \in {"stopprev", "rmname"}
    BY <2>1, SameHost DEF Turn, Found
  <2> QED
    BY <2>1, <2>2 DEF Lone, Clean, Turn
<1>7. CASE StopPrevious(a)
  <2>1. /\ op[a].pc = "stopprev" /\ Turn(a) /\ op[a].prev \in Names /\ Stops(op[a].prev)
        /\ op'[a].pc = "rmname"
    BY <1>7, StopPreviousDoes DEF Fails, Over
  <2>2. Live' = Live \ {op[a].prev}
    BY <2>1, Goes
  <2> QED
    BY <2>1, <2>2 DEF Lone, Clean, Turn
<1>8. CASE RemoveNamesake(a)
  <2>1. /\ op[a].pc = "rmname" /\ Turn(a) /\ op[a].name \in Names /\ Removes(op[a].name)
        /\ op'[a].pc = "run" /\ op'[a].prev = op[a].prev
    BY <1>8, RemoveNamesakeDoes DEF Fails, Over, On
  <2>2. Live' \subseteq Live
    BY <2>1, Goes
  <2> QED
    BY <2>1, <2>2 DEF Lone, Clean, Turn
<1>9. CASE Run(a)
  <2>1. op[a].pc = "run" /\ Turn(a) /\ Runs(a) /\ op'[a].pc = "health"
    BY <1>9, RunDoes DEF Runs, On
  <2>2. /\ \E s \in LiveStates, g \in BOOLEAN : Added(op[a].name, s, g)
        /\ op'[a].prev = op[a].prev /\ op'[a].name = op[a].name
    BY <2>1 DEF Runs, On
  <2>3. Live' = Live \cup {op[a].name}
    BY <2>2 DEF Added
  <2> QED
    BY <2>1, <2>2, <2>3 DEF Lone, Clean, Turn
<1>10. CASE RemoveFailed(a)
  BY <1>10, RemoveFailedDoes DEF Fails, Over
<1>11. CASE Health(a) \/ Switch(a)
  <2>1. /\ Turn(a) /\ containers' = containers /\ op[a].pc \in {"health", "switch"}
        /\ op'[a].pc \in {"switch", "cleanup"}
        /\ op'[a].prev = op[a].prev /\ op'[a].name = op[a].name
    BY <1>11, HealthDoes, SwitchDoes DEF Fails, Ends, Over, On
  <2>2. Live' = Live
    BY <2>1, SameHost DEF Turn
  <2> QED
    BY <2>1, <2>2 DEF Lone, Clean, Turn
<1>12. CASE Cleanup(a)
  BY <1>12, CleanupDoes DEF Fails, Ends, Over, RolledOn, On
<1>13. CASE Prune(a)
  BY <1>13, PruneDoes DEF Ends, Over, Lists
<1>14. CASE StopFind(a) \/ StartFind(a) \/ ReregisterFind(a) \/ Unroute(a) \/ RemoveFind(a)
  <2>1. Aside(a)
    BY <1>14, StopFindDoes, StartFindDoes, ReregisterFindDoes, UnrouteDoes, RemoveFindDoes
  <2> QED
    BY <2>1 DEF Aside, RolloutPCs, Rolling, Fails, Ends, Over
<1>15. CASE StopOne(a) \/ StartOne(a)
  BY <1>15, StopOneDoes, StartOneDoes
<1>16. CASE Fail(a)
  BY <1>16, FailDoes DEF Fails, Over
<1> QED
  BY <1>1, <1>2, <1>3, <1>4, <1>5, <1>6, <1>7, <1>8, <1>9, <1>10, <1>11, <1>12, <1>13,
     <1>14, <1>15, <1>16 DEF Step

\* Where a deploy has rolled out, or is over having done so.
Landed(a) ==
    \/ Clean(a) /\ op[a].pc \in {"prune", "pruning"}
    \/ op[a].kind = "deploy" /\ op[a].pc = "idle" /\ op[a].result = "ok"

LEMMA LandedOwn ==
    ASSUME Base, "hidden" \notin Faults, NEW a \in Actors, Knows(a), Lone(a), Converged(a),
           Begin(a) \/ Step(a), Landed(a)'
    PROVE  Settled(a)'
<1>0. /\ Base' /\ op[a] \in Op /\ Fits(op[a]) /\ Live \subseteq Names /\ Live \subseteq There
      /\ NoName \notin Names
  <2>1. Live \subseteq Names /\ Live \subseteq There
    BY ViewsAre, SubsetsAre
  <2> QED
    BY <2>1, StepIs, BaseIs, NoneAssumption
<1>1. CASE Begin(a)
  <2>1. op'[a].pc = Entry(op'[a].kind) /\ op'[a].kind \in AllKinds /\ op'[a].pc # "idle"
    BY <1>1, BeginDoes, RolloutAssumption DEF Begun
  <2> QED
    BY <2>1 DEF Entry, AllKinds, Locked, Landed, Clean
<1>2. CASE Inspect(a)
  <2>1. op[a].pc = "inspect" /\ Looked(a)
    BY <1>2, InspectDoes
  <2>2. op'[a].pc \in {"idle", "sweep"} /\ op'[a].kind = "reconcile"
    BY <2>1, <1>0 DEF Looked, Fails, Ends, Over, On, Fits
  <2> QED
    BY <2>2 DEF Landed
<1>3. CASE Cleanup(a)
  <2>1. op[a].pc = "cleanup" /\ Turn(a) /\ route' = route /\ role' = role
    BY <1>3, CleanupDoes DEF Turn
  <2>2. Clean(a) /\ RolledOn(a)
    <3>1. Fails(a) \/ RolledOn(a)
      BY <1>3, CleanupDoes
    <3>2. ~Fails(a)
      BY <2>1 DEF Fails, Over, Landed
    <3>3. op[a].kind \notin {"rollback", "rollback_to"}
      BY <2>1 DEF Landed, Clean, Turn
    <3>4. Clean(a)
      BY <2>1, <3>3, <1>0 DEF Clean, Fits, Rolling, RollsOut
    <3> QED
      BY <3>1, <3>2, <3>4
  <2>3. op'[a].name = op[a].name /\ op'[a].version = op[a].version
    BY <2>2 DEF Clean, RolledOn, On
  <2>4. /\ op[a].name \in Names /\ op[a].name[1] = op[a].version
        /\ Live \subseteq {op[a].prev, op[a].name} /\ Answers(op[a].name)
        /\ UseProxy => route = op[a].name
    BY <2>1, <2>2, <1>0, InFits DEF Lone, Knows, Named, Rolling
  <2>5. op[a].name \in Live /\ containers[op[a].name].state = "running"
    BY <2>4 DEF Live, Answers
  <2>6. Live' = {op[a].name} /\ containers'[op[a].name] = containers[op[a].name]
    <3>1. CASE op[a].prev \in {NoName, op[a].name} /\ containers' = containers
      BY <2>1, <2>4, <2>5, <3>1, <1>0, SameHost
    <3>2. CASE /\ op[a].prev \in Names \ {op[a].name}
               /\ IF op[a].same THEN Removes(op[a].prev) ELSE Stops(op[a].prev)
      <4>1. /\ Live' = Live \ {op[a].prev}
            /\ containers'[op[a].name] = containers[op[a].name]
        BY <3>2, <2>4, Goes
      <4> QED
        BY <4>1, <2>4, <2>5, <3>2
    <3> QED
      BY <3>1, <3>2, <1>3, CleanupDoes
  <2>7. Answers(op[a].name)'
    BY <2>3, <2>4, <2>6 DEF Answers
  <2> QED
    BY <2>1, <2>3, <2>4, <2>6, <2>7 DEF Settled, UseProxy
<1>4. ASSUME op[a].pc \in {"prune", "pruning"}, Turn(a), op'[a].name = op[a].name,
             op'[a].version = op[a].version, route' = route,
             \/ containers' = containers
             \/ \E n \in Names : Removes(n) /\ n \notin Live
      PROVE  Settled(a)'
  <2>1. Clean(a)
    <3>1. op[a].kind \in {"deploy", "reconcile"}
      BY <1>4 DEF Landed, Clean, Turn
    <3> QED
      BY <3>1 DEF Clean
  <2>2. Settled(a) /\ role' = role
    BY <1>4, <2>1 DEF Converged, Turn
  <2>3. CASE containers' = containers
    BY <1>4, <2>2, <2>3, SettledSame
  <2>4. CASE \E n \in Names : Removes(n) /\ n \notin Live
    <3>1. PICK n \in Names : Removes(n) /\ n \notin Live
      BY <2>4
    <3>2. Live' = Live /\ \A m \in Names \ {n} : containers'[m] = containers[m]
      BY <3>1, Goes
    <3>3. containers'[op[a].name] = containers[op[a].name]
      BY <2>2, <3>1, <3>2 DEF Settled
    <3>4. Answers(op[a].name)'
      BY <1>4, <2>2, <3>3 DEF Settled, Answers
    <3> QED
      BY <1>4, <2>2, <3>2, <3>4 DEF Settled, UseProxy
  <2> QED
    BY <1>4, <2>3, <2>4
<1>5. CASE RemoveNext(a)
  <2>1. PICK n \in Names :
           /\ op[a].todo[n] > 0 /\ Removes(n)
           /\ \/ Fails(a)
              \/ /\ op'[a].pc = op[a].pc
                 /\ op'[a].version = op[a].version /\ op'[a].name = op[a].name
              \/ op'[a].pc = "find"
              \/ op[a].kind = "sweep"
              \/ op[a].pc # "sweeping" /\ Ends(a)
    BY <1>5, RemoveNextDoes
  <2>2. op[a].pc \in Loops /\ Turn(a) /\ route' = route /\ op[a].todo \in [Names -> Nat]
    BY <1>0, <1>5, RemoveNextDoes, FieldsOfOp
  <2>3. op[a].pc = "pruning" /\ op'[a].name = op[a].name /\ op'[a].version = op[a].version
    <3>1. op[a].kind \in {"deploy", "reconcile"}
      BY <2>2 DEF Landed, Clean, Turn
    <3>2. op[a].pc # "removing"
      BY <3>1, UnlockedAre DEF RollsOut
    <3>3. op[a].pc # "sweeping"
      BY <2>1, <3>1 DEF Landed, Fails, Over
    <3> QED
      BY <2>1, <2>2, <3>1, <3>2, <3>3 DEF Loops, Fails, Ends, Over, Landed
  <2>4. n \notin Live
    BY <2>1, <2>2, <2>3 DEF Knows
  <2> QED
    BY <1>4, <2>1, <2>2, <2>3, <2>4
<1>6. CASE Prune(a)
  BY <1>4, <1>6, PruneDoes DEF Ends, Over, Lists
<1>7. CASE Fail(a)
  <2>1. /\ containers' = containers /\ route' = route /\ Turn(a) /\ Fails(a)
    BY <1>7, FailDoes
  <2>2. op[a].pc \in {"prune", "pruning"}
    BY <2>1 DEF Fails, Over, Landed
  <2> QED
    BY <1>4, <2>1, <2>2 DEF Fails, Over
<1>8. CASE \/ Sweep(a) \/ Choose(a) \/ Find(a) \/ StopPrevious(a) \/ RemoveNamesake(a)
           \/ Run(a) \/ RemoveFailed(a) \/ Health(a) \/ Switch(a)
  <2>1. \/ op'[a].pc \notin {"idle", "prune", "pruning"}
        \/ Fails(a) /\ op[a].pc \notin {"prune", "pruning"}
        \/ op[a].kind = "sweep" /\ op'[a].kind = "sweep"
        \/ op[a].pc = "register" /\ op'[a].kind = op[a].kind
    <3>1. CASE Sweep(a)
      BY <3>1, SweepDoes DEF Over, On, Lists
    <3>2. CASE Choose(a)
      BY <3>2, ChooseDoes
    <3>3. CASE Find(a)
      BY <3>3, FindDoes DEF Found
    <3>4. CASE StopPrevious(a)
      BY <3>4, StopPreviousDoes
    <3>5. CASE RemoveNamesake(a)
      BY <3>5, RemoveNamesakeDoes DEF On
    <3>6. CASE Run(a)
      BY <3>6, RunDoes DEF Runs, On
    <3>7. CASE RemoveFailed(a)
      BY <3>7, RemoveFailedDoes
    <3>8. CASE Health(a)
      BY <3>8, HealthDoes DEF On
    <3>9. CASE Switch(a)
      BY <3>9, SwitchDoes DEF On, Turn
    <3> QED
      BY <1>8, <3>1, <3>2, <3>3, <3>4, <3>5, <3>6, <3>7, <3>8, <3>9
  <2>2. op[a].pc = "register" => ~RollsOut(op[a].kind)
    BY UnlockedAre
  <2> QED
    BY <2>1, <2>2 DEF Landed, Clean, Fails, Over, RollsOut
<1>9. CASE StopFind(a) \/ StopOne(a) \/ StartFind(a) \/ StartOne(a) \/ ReregisterFind(a)
            \/ Unroute(a) \/ RemoveFind(a)
  <2>1. ~RollsOut(op[a].kind) /\ op'[a].kind = op[a].kind
    BY <1>9, UnlockedAre, TurnIs DEF StopFind, StopOne, StartFind, StartOne, ReregisterFind,
       Unroute, RemoveFind, Turn, Step
  <2> QED
    BY <2>1 DEF Landed, Clean, RollsOut
<1> QED
  BY <1>1, <1>2, <1>3, <1>5, <1>6, <1>7, <1>8, <1>9 DEF Step

\* What a step of another does to a deploy that is over and was the last to begin.
LEMMA RestStays ==
    ASSUME Base, Rests, NEW a \in Actors, Begin(a) \/ Step(a), NEW b \in Actors \ {a},
           ~AtWork(b), op[b].kind = "deploy", Succeeded(b)'
    PROVE  /\ op'[b] = op[b] /\ Succeeded(b)
           /\ containers' = containers /\ route' = route /\ role' = role
           /\ before'[b] = before[b]
<1>1. op'[b] = op[b] /\ last' = b /\ op[b].pc = "idle" /\ op[b].result = "ok"
  BY StepIs DEF Succeeded
<1>2. last' \in {last, a, Nobody} /\ before'[b] = before[b]
  <2>1. CASE Begin(a)
    BY <2>1, BeginDoes DEF Begun, Finds
  <2>2. CASE Inspect(a)
    BY <2>2, InspectDoes DEF Looked, Finds
  <2>3. CASE Step(a) /\ AtWork(a)
    BY <2>3, TurnIs DEF Turn
  <2>4. CASE Fail(a)
    BY <2>4, FailDoes DEF Turn
  <2> QED
    BY <2>1, <2>2, <2>3, <2>4, NotAtWork
<1>3. last = b
  BY <1>1, <1>2, NoneAssumption
<1>4. ~AtWork(a)
  BY <1>1, <1>3 DEF Rests
<1>5. containers' = containers /\ route' = route /\ role' = role
  <2>1. CASE Begin(a)
    BY <2>1, BeginDoes DEF Alone
  <2>2. CASE Step(a)
    BY <2>2, <1>4, NotAtWork, InspectDoes, FailDoes DEF Alone, Turn
  <2> QED
    BY <2>1, <2>2
<1> QED
  BY <1>1, <1>2, <1>3, <1>5 DEF Succeeded

LEMMA ConvergedStep ==
    ASSUME Base, Exclusive, "hidden" \notin Faults, AllKnow, Rests, AllLone, AllConverged,
           NEW a \in Actors, Begin(a) \/ Step(a)
    PROVE  AllLone' /\ AllConverged'
<1>1. Lone(a)' /\ Converged(a)'
  <2>1. Landed(a)' => Settled(a)'
    BY LandedOwn DEF AllKnow, AllLone, AllConverged
  <2> QED
    BY <2>1, LoneOwn DEF AllKnow, AllLone, Converged, Landed, Succeeded, Clean
<1>2. ASSUME NEW b \in Actors \ {a}, AtWork(b) PROVE Lone(b)' /\ Converged(b)'
  <2>1. op'[b] = op[b] /\ containers' = containers /\ route' = route /\ role' = role
    BY <1>2, Isolated DEF Alone
  <2>2. Live' = Live /\ FirstLive' = FirstLive
    BY <2>1, SameHost
  <2>3. Lone(b)'
    BY <2>1, <2>2 DEF AllLone, Lone, Clean
  <2>4. Settled(b) => Settled(b)'
    BY <2>1, SettledSame
  <2> QED
    BY <1>2, <2>1, <2>3, <2>4 DEF AllConverged, Converged, Clean, Succeeded, AtWork
<1>3. ASSUME NEW b \in Actors \ {a}, ~AtWork(b) PROVE Lone(b)' /\ Converged(b)'
  <2>1. op'[b] = op[b] /\ op[b].pc \in {"idle", "inspect"}
    BY <1>3, StepIs DEF AtWork
  <2>2. Lone(b)'
    BY <2>1 DEF Lone
  <2>3. ASSUME op[b].kind = "deploy", Succeeded(b)' PROVE Settled(b)'
    <3>1. /\ Succeeded(b) /\ containers' = containers /\ route' = route /\ role' = role
      BY <1>3, <2>3, RestStays
    <3>2. Settled(b)
      BY <2>3, <3>1 DEF AllConverged, Converged
    <3> QED
      BY <2>1, <3>1, <3>2, SettledSame
  <2> QED
    BY <2>1, <2>2, <2>3 DEF Converged
<1> QED
  BY <1>1, <1>2, <1>3 DEF AllLone, AllConverged

LEMMA ConvergedStutter ==
    ASSUME Rests, AllLone, AllConverged, UNCHANGED vars
    PROVE  Rests' /\ AllLone' /\ AllConverged'
<1>1. /\ op' = op /\ containers' = containers /\ role' = role /\ route' = route
      /\ last' = last
  BY DEF vars
<1>2. AllLone'
  BY <1>1, SameHost DEF AllLone, Lone, Clean
<1>3. \A a \in Actors : Settled(a) => Settled(a)'
  BY <1>1, SettledSame
<1>4. AllConverged'
  BY <1>1, <1>3 DEF AllConverged, Converged, Clean, Succeeded
<1>5. Rests'
  BY <1>1 DEF Rests, AtWork
<1> QED
  BY <1>2, <1>4, <1>5

LEMMA SettledConverges ==
    ASSUME NEW a \in Actors, Settled(a), op[a].version \in Versions
    PROVE  InSync(op[a].version) /\ \E n \in Names : Live = {n} /\ Answers(n)
<1> DEFINE v == op[a].version
           n == op[a].name
<1>1. n \in {NameOf(v), AltOf(NameOf(v))} /\ NameOf(v) \in Names /\ AltOf(NameOf(v)) # NameOf(v)
  BY NamesAre DEF Settled
<1>2. containers[n].state = "running" /\ n \in Names /\ Live = {n} /\ (UseProxy => route = n)
  BY DEF Settled, Answers
<1>3. n # NameOf(v) => containers[NameOf(v)].state # "running"
  BY <1>1, <1>2 DEF Live
<1>4. InSync(v)
  BY <1>1, <1>2, <1>3 DEF InSync
<1> QED
  BY <1>2, <1>4 DEF Settled

\* A deploy that reports success leaves its version alone and answering, with
\* the route on it and nothing for a reconcile to find, whatever went before it.
THEOREM RolloutSuccessConverges ==
    ASSUME Exclusive, "hidden" \notin Faults
    PROVE  Spec => []SuccessConverges
<1> DEFINE I == Base /\ AllKnow /\ Rests /\ AllLone /\ AllConverged
<1>1. Init => I
  <2> SUFFICES ASSUME Init PROVE I
    OBVIOUS
  <2>1. Base /\ Live = {} /\ \A a \in Actors : op[a].pc = "idle" /\ op[a].kind = "none"
    BY InitIs
  <2> QED
    BY <2>1 DEF AllKnow, Knows, Rests, AllLone, Lone, AllConverged, Converged
<1>2. I /\ [Next]_vars => I'
  <2>1. ASSUME I, NEW a \in Actors, Begin(a) \/ Step(a) PROVE I'
    BY <2>1, StepIs, KnowsStep, RestsStep, ConvergedStep
  <2>2. ASSUME I, UNCHANGED vars PROVE I'
    BY <2>2, StutterIs, KnowsStutter, ConvergedStutter
  <2> QED
    BY <2>1, <2>2 DEF Next
<1>3. I => SuccessConverges
  <2> SUFFICES ASSUME I, NEW a \in Actors, op[a].kind = "deploy", Succeeded(a)
               PROVE  InSync(op[a].version) /\ \E n \in Names : Live = {n} /\ Answers(n)
    BY DEF SuccessConverges
  <2>1. Settled(a)
    BY DEF AllConverged, Converged
  <2>2. op[a].version \in Versions
    BY BaseIs DEF Fits, Pinned
  <2> QED
    BY <2>1, <2>2, SettledConverges
<1> QED
  BY <1>1, <1>2, <1>3, PTL DEF Spec

-----------------------------------------------------------------------------
(* What a rollback would go back to is kept *)

LEMMA AimsSame ==
    ASSUME Base, Base', NEW a \in Actors, Aims(a), before'[a] = before[a],
           op'[a].version = op[a].version,
           \A n \in Names : n[1] # op[a].version =>
             (n \in There' <=> n \in There) /\ containers'[n].at = containers[n].at
    PROVE  Aims(a)'
<1>1. PICK w : w = op[a].version
  OBVIOUS
<1> DEFINE S == {n \in There : n[1] # w}
<1>2. There \subseteq Names /\ There' \subseteq Names
  BY DEF There
<1>3. {n \in There' : n[1] # w} = S
  BY <1>1, <1>2
<1>4. TargetFrom(w) = VersionOf(Top(containers, S)) /\ TargetFrom(w)' = VersionOf(Top(containers', S))
  <2>1. TargetFrom(w) = VersionOf(Top(containers, S))
    BY DEF TargetFrom, Target, Newest, Top
  <2>2. TargetFrom(w)' = VersionOf(Top(containers', {n \in There' : n[1] # w}))
    BY DEF TargetFrom, Target, Newest, Top, VersionOf
  <2> QED
    BY <2>1, <2>2, <1>3
<1>5. Top(containers', S) = Top(containers, S)
  <2>1. /\ Orderly(containers) /\ S \in SUBSET ThereIn(containers)
        /\ Orderly(containers') /\ S \in SUBSET ThereIn(containers')
    BY <1>3, BaseIs, OrderlyNow, ViewsAre
  <2>2. CASE S = {}
    BY <2>2 DEF Top
  <2>3. CASE S # {}
    <3>1. OnTop(containers, S, Top(containers, S))
      BY <2>1, <2>3, TopIs
    <3>2. OnTop(containers', S, Top(containers, S))
      BY <3>1, <1>1, <1>2 DEF OnTop
    <3> QED
      BY <3>2, <2>1, <2>3, TopIs
  <2> QED
    BY <2>2, <2>3
<1>6. TargetFrom(op[a].version)' = TargetFrom(op[a].version)
  <2>1. TargetFrom(op[a].version) = TargetFrom(w)
    BY <1>1
  <2>2. TargetFrom(op[a].version)' = TargetFrom(w)'
    BY <1>1 DEF TargetFrom, Target
  <2> QED
    BY <2>1, <2>2, <1>4, <1>5
<1> QED
  BY <1>6 DEF Aims

\* A deploy that begins where one container, the newest, runs and serves.
LEMMA KeepsBegin ==
    ASSUME Base, NEW a \in Actors, Begin(a), Tracked(a)'
    PROVE  Aims(a)' /\ Replaces(a)' /\ Spared(a)'
<1>1. /\ op'[a].kind = "deploy" /\ op'[a].pc = "sweep" /\ Finds(a) /\ before'[a].settled
      /\ containers' = containers /\ role' = role /\ Base'
  BY BeginDoes DEF Begun, Alone, Tracked, Entry
<1>2. /\ Serving /\ Live = {route} /\ route = Newest(There)
      /\ before'[a].version = VersionOf(route) /\ before'[a].target = PreviousVersion
  BY <1>1 DEF Finds
<1>3. route = FirstLive /\ route \in Names /\ VersionOf(route) = route[1]
      /\ OnTop(containers, There, route) /\ route \in There
  <2>1. route \in Names /\ route \in There
    BY <1>2 DEF Serving, Answers, There
  <2>2. route = FirstLive
    BY <1>2, FirstLiveIs DEF OnTop
  <2> QED
    BY <2>1, <2>2, <1>2, NewestThere, VersionsAre
<1>4. Live' = Live /\ FirstLive' = FirstLive /\ Newest(There)' = Newest(There) /\ There' = There
      /\ \A w : TargetFrom(w)' = TargetFrom(w)
  BY <1>1, SameHost
<1>5. PICK w : w = op'[a].version
  OBVIOUS
<1>6. TargetFrom(w) = IF w = route[1] THEN PreviousVersion ELSE route[1]
  <2>1. CASE w = route[1]
    BY <2>1, <1>3 DEF TargetFrom, Target, PreviousVersion
  <2>2. CASE w # route[1]
    <3> DEFINE S == {n \in There : n[1] # w}
    <3>1. OnTop(containers, S, route)
      BY <2>2, <1>3 DEF OnTop
    <3>2. Top(containers, S) = route
      BY <3>1, BaseIs, TopIs, ViewsAre DEF OnTop
    <3> QED
      BY <2>2, <3>2, <1>3 DEF TargetFrom, Target, Newest, Top
  <2> QED
    BY <2>1, <2>2
<1>7. TargetFrom(op[a].version)' = TargetFrom(w)
  <2>1. TargetFrom(op[a].version)' = TargetFrom(w)'
    BY <1>5 DEF TargetFrom, Target
  <2> QED
    BY <2>1, <1>4
<1>8. Aims(a)'
  BY <1>2, <1>3, <1>5, <1>6, <1>7 DEF Aims
<1>9. Replaces(a)'
  BY <1>1, <1>2, <1>3, <1>4 DEF Replaces, Named, Rolling
<1>10. Spared(a)'
  BY <1>1 DEF Spared, Landing, Succeeded
<1> QED
  BY <1>8, <1>9, <1>10

\* The two names of a version.
LEMMA TwoNames ==
    ASSUME NEW m \in Names, NEW n \in Names, NEW l \in Names, m[1] = n[1], l[1] = n[1],
           m # n
    PROVE  /\ l \in {m, n}
           /\ m[2] = 0 => n[2] # 0
BY DEF Names

\* The newest that is stopped is beyond no count of newer ones.
LEMMA NewestNotSurplus ==
    ASSUME Base, Dead # {}
    PROVE  Newest(Dead) \notin Surplus /\ Newest(Dead) \in Dead /\ OnTop(containers, Dead, Newest(Dead))
<1>1. Dead \in SUBSET ThereIn(containers) /\ Dead \subseteq Names
  BY ViewsAre, SubsetsAre DEF Dead
<1>2. OnTop(containers, Dead, Newest(Dead)) /\ Newest(Dead) \in Dead
  BY <1>1, TopIs, ViewsAre, BaseIs DEF OnTop
<1> DEFINE d == Newest(Dead)
<1>3. \A m \in Dead : containers[m].at \in Nat
  BY <1>1, BaseIs, FieldsAre DEF Orderly
<1>4. NewerStopped(d) = {}
  <2>1. ASSUME NEW m \in Dead PROVE ~(containers[m].at > containers[d].at)
    BY <1>2, <1>3 DEF OnTop
  <2> HIDE DEF d
  <2> QED
    BY <2>1 DEF NewerStopped, Dead
<1>5. Cardinality(NewerStopped(d)) = 0
  BY <1>4, FS_EmptySet
<1>6. ~(Cardinality(NewerStopped(d)) >= Retain)
  BY <1>5, RolloutAssumption
<1> QED
  BY <1>2, <1>6 DEF Surplus

\* After a step too, the newest that is stopped is the one on top.
LEMMA NewestDeadNow ==
    ASSUME Base'
    PROVE  /\ Dead' # {} => Newest(Dead)' \in Dead'
           /\ \A n : OnTop(containers', Dead', n) => Newest(Dead)' = n
<1>1. Dead' \in SUBSET ThereIn(containers') /\ Orderly(containers')
  BY OrderlyNow DEF Dead
<1> QED
  BY <1>1, TopIs, ViewsAre DEF OnTop

\* The container a rollback would go to is the newest of another version.
LEMMA TargetIs ==
    ASSUME Base, NEW w
    PROVE  /\ \A n \in There : n[1] # w => OnTop(containers, {m \in There : m[1] # w}, Target(w))
           /\ (\A n \in There : n[1] = w) => Target(w) = NoName
           /\ \A n : OnTop(containers, {m \in There : m[1] # w}, n) => Target(w) = n
<1> DEFINE S == {m \in There : m[1] # w}
<1>1. Orderly(containers) /\ S \in SUBSET ThereIn(containers)
  BY BaseIs, ViewsAre
<1>2. Target(w) = Top(containers, S)
  BY DEF Target, Newest, Top
<1>3. (\A n \in There : n[1] = w) => S = {}
  OBVIOUS
<1> QED
  BY <1>1, <1>2, <1>3, TopIs

LEMMA TargetNow ==
    ASSUME Base', NEW w
    PROVE  \A n : OnTop(containers', {m \in There' : m[1] # w}, n) => Target(w)' = n
<1> DEFINE S == {m \in There' : m[1] # w}
<1>1. Orderly(containers') /\ S \in SUBSET ThereIn(containers')
  BY OrderlyNow
<1>2. Target(w)' = Top(containers', S)
  BY DEF Target, Newest, Top
<1> QED
  BY <1>1, <1>2, TopIs

\* Where no stopped container is of its version, the newest of them is what a
\* rollback would go to, unless that runs.
LEMMA SparedNow ==
    ASSUME Base', NEW w, \A d \in Dead' : d[1] # w, Target(w)' \in Dead'
    PROVE  Target(w)' = Newest(Dead)'
<1> DEFINE S == {m \in There' : m[1] # w}
           t == Target(w)'
<1>1. Orderly(containers') /\ S \in SUBSET ThereIn(containers') /\ Dead' \subseteq S
  BY OrderlyNow DEF Dead
<1>2. t = Top(containers', S)
  BY DEF Target, Newest, Top
<1>3. S # {} => OnTop(containers', S, t)
  BY <1>1, <1>2, TopIs
<1>4. t \in Dead'
  OBVIOUS
<1> HIDE DEF t, S
<1>5. OnTop(containers', Dead', t)
  BY <1>1, <1>3, <1>4 DEF OnTop
<1> QED
  BY <1>5, NewestDeadNow DEF t

\* A prune that spares that container leaves it the one to go to.
LEMMA AimsPruned ==
    ASSUME Base, Base', NEW w, NEW n \in Names, n # Target(w),
           There' = There \ {n}, \A m \in Names \ {n} : containers'[m] = containers[m]
    PROVE  Target(w)' = Target(w)
<1> DEFINE S == {m \in There : m[1] # w}
           T == {m \in There' : m[1] # w}
           t == Target(w)
<1>1. There \subseteq Names /\ T = S \ {n}
  BY DEF There
<1>2. CASE S = {}
  BY <1>1, <1>2 DEF Target, Newest
<1>3. CASE S # {}
  <2>1. OnTop(containers, S, t)
    BY <1>3, TargetIs
  <2>2. t # n
    OBVIOUS
  <2> HIDE DEF t
  <2>3. OnTop(containers', T, t)
    BY <2>1, <2>2, <1>1 DEF OnTop
  <2> QED
    BY <2>3, TargetNow DEF t
<1> QED
  BY <1>2, <1>3

LEMMA SparedIs ==
    ASSUME NEW a \in Actors, NEW w, op'[a].version = w,
           Landing(a)' \/ Succeeded(a)' => FirstLive' \in Names /\ FirstLive'[1] = w,
           Landing(a)' /\ Target(w)' \in Dead' =>
             /\ Target(w)' = Newest(Dead)'
             /\ op'[a].pc = "pruning" => op'[a].todo[Target(w)'] = 0
    PROVE  Spared(a)'
<1>1. Target(op[a].version)' = Target(w)'
  BY DEF Target, Newest, There
<1>2. Landing(a)' \/ Succeeded(a)' => VersionOf(FirstLive)' = w
  BY NoneAssumption DEF VersionOf
<1> QED
  BY <1>1, <1>2 DEF Spared

LEMMA KeepsOwn ==
    ASSUME Base, NEW a \in Actors, Knows(a), Keeps(a), Step(a), Tracked(a)'
    PROVE  Aims(a)' /\ Replaces(a)' /\ Spared(a)'
<1>0. /\ Base' /\ op[a] \in Op /\ Fits(op[a]) /\ Live \subseteq Names /\ Live \subseteq There
      /\ There \subseteq Names /\ NoName \notin Names
  BY StepIs, BaseIs, NoneAssumption, ViewsAre, SubsetsAre DEF There
<1>1. AtWork(a) /\ op'[a].kind = "deploy"
  <2>1. ASSUME ~AtWork(a) PROVE op'[a].kind = "reconcile"
    <3>1. op[a].pc = "inspect" => op[a].kind = "reconcile"
      BY <1>0 DEF Fits
    <3> QED
      BY <2>1, <3>1, NotAtWork, InspectDoes, FailDoes DEF Looked, Fails, Ends, Over, On, Turn
  <2> QED
    BY <2>1 DEF Tracked
<1>2. /\ Turn(a) /\ op[a].kind = "deploy" /\ before'[a] = before[a] /\ Tracked(a) /\ role' = role
      /\ Overlaps' = Overlaps
  <2>1. Turn(a)
    BY <1>1, TurnIs
  <2> QED
    BY <2>1, <1>1 DEF Turn, Tracked, Overlaps
<1>3. Aims(a) /\ Replaces(a) /\ Spared(a)
  BY <1>2 DEF Keeps
<1>4. RollsOut(op[a].kind) /\ op[a].version \in Versions
  BY <1>0, <1>2 DEF RollsOut, Fits, Pinned
\* It has not failed, but for its prune.
<1>5. Fails(a) => op[a].pc \in {"prune", "pruning"}
  BY DEF Fails, Over, Tracked, AtWork, Succeeded
\* What a step that leaves the other versions' containers alone keeps.
<1>6. ASSUME op'[a].version = op[a].version, containers' = containers
      PROVE  Aims(a)'
  <2>1. There' = There
    BY <1>2, <1>6, SameHost
  <2> QED
    BY <2>1, <1>0, <1>2, <1>3, <1>6, AimsSame
<1>7. ASSUME containers' = containers
      PROVE  /\ There' = There /\ Live' = Live /\ FirstLive' = FirstLive
             /\ Newest(There)' = Newest(There) /\ Dead' = Dead /\ Newest(Dead)' = Newest(Dead)
             /\ \A v : Target(v)' = Target(v)
  BY <1>2, <1>7, SameHost
<1>w. PICK w : w = op[a].version
  OBVIOUS
<1>l. ASSUME Landing(a) PROVE FirstLive \in Names /\ FirstLive[1] = w
  <2>1. VersionOf(FirstLive) = w /\ w \in Versions
    BY <1>l, <1>w, <1>3, <1>4 DEF Spared
  <2> QED
    BY <2>1, FirstLiveIs, NoneAssumption DEF VersionOf
<1>8. CASE Inspect(a)
  BY <1>1, <1>8 DEF Inspect, AtWork
<1>9. CASE Sweep(a)
  <2>1. op[a].pc = "sweep" /\ containers' = containers
    BY <1>9, SweepDoes
  <2>2. Orphans = {}
    BY <2>1, <1>3 DEF Replaces, Orphans
  <2>3. On(op'[a], op[a], "find")
    BY <1>2, <1>9, <2>2, SweepDoes
  <2>4. Replaces(a)'
    BY <2>1, <2>3, <1>2, <1>3, <1>7 DEF Replaces, On, Named, Rolling
  <2> QED
    BY <2>1, <2>3, <2>4, <1>6 DEF On, Spared, Landing, Succeeded
<1>10. CASE Choose(a)
  BY <1>0, <1>2, <1>10 DEF Choose, Fits
<1>11. CASE Find(a)
  <2>1. op[a].pc = "find" /\ containers' = containers /\ Found(a)
    BY <1>11, FindDoes
  <2>2. /\ FirstLive \in Names /\ FirstLive[1] = before[a].version /\ FirstLive = Newest(There)
        /\ FirstLive \in Live /\ FirstLive \in There /\ \A m \in There : containers[m].at <= containers[FirstLive].at
    <3>1. /\ FirstLive \in Names /\ FirstLive[1] = before[a].version /\ FirstLive = Newest(There)
          /\ Live = {FirstLive}
      BY <2>1, <1>3 DEF Replaces
    <3> QED
      BY <3>1, <1>0, NewestThere DEF OnTop
  <2>3. op'[a].same <=> op'[a].version = before'[a].version
    BY <2>1, <2>2, <1>2, VersionsAre DEF Found
  <2>4. op'[a].pc \in {"stopprev", "rmname"} /\ (op'[a].pc = "rmname" => Overlaps)
    BY <2>1, <2>2, <1>0 DEF Found, MustStopFirst
  <2>5. op'[a].prev = FirstLive /\ op'[a].version = op[a].version
    BY <2>1 DEF Found
  <2>6. Replaces(a)'
    <3>1. /\ There' = There /\ Live' = Live /\ before'[a].version = before[a].version /\ Overlaps' = Overlaps
          /\ FirstLive \in Live
      BY <2>1, <2>2, <1>2, <1>7
    <3>2. /\ op'[a].prev \in Live' /\ op'[a].prev[1] = before'[a].version
          /\ \A m \in There' : containers'[m].at <= containers'[op'[a].prev].at
      BY <3>1, <2>1, <2>2, <2>5
    <3> QED
      BY <3>1, <3>2, <2>3, <2>4 DEF Replaces, Named, Rolling
  <2> QED
    BY <2>1, <2>4, <2>5, <2>6, <1>6 DEF Spared, Landing, Succeeded
<1>12. CASE StopPrevious(a)
  <2>1. /\ op[a].pc = "stopprev" /\ op[a].prev \in Names /\ Stops(op[a].prev) /\ ~Overlaps
        /\ op'[a].pc = "rmname" /\ op'[a].prev = NoName
        /\ op'[a].version = op[a].version /\ op'[a].same = op[a].same
    BY <1>0, <1>5, <1>12, StopPreviousDoes, InFits
  <2>2. There' = There /\ \A m \in Names : containers'[m].at = containers[m].at
    BY <2>1, UnchangedIs DEF Stops, Turned
  <2>3. Aims(a)'
    BY <2>1, <2>2, <1>0, <1>2, <1>3, AimsSame
  <2>4. Replaces(a)'
    BY <2>1, <1>2, <1>3 DEF Replaces, Named, Rolling
  <2> QED
    BY <2>1, <2>3, <2>4 DEF Spared, Landing, Succeeded
<1>13. CASE RemoveNamesake(a)
  <2>1. /\ op[a].pc = "rmname" /\ op[a].name \in Names /\ Removes(op[a].name)
        /\ On(op'[a], op[a], "run") /\ op[a].pc \in Named
    BY <1>5, <1>13, RemoveNamesakeDoes DEF Named, Rolling
  <2>2. op[a].name # op[a].prev /\ op[a].name[1] = op[a].version
    BY <2>1, <1>0, InFits
  <2>3. \/ There' = There \ {op[a].name} /\ Live' = Live \ {op[a].name}
        \/ There' = There /\ Live' = Live
    BY <2>1, <1>7 DEF Removes, Dropped
  <2>4. \A m \in Names \ {op[a].name} :
           containers'[m] = containers[m] /\ (m \in There' <=> m \in There) /\ (m \in Live' <=> m \in Live)
    BY <2>1, <2>3 DEF Removes, Dropped
  <2>5. Aims(a)'
    BY <2>1, <2>2, <2>4, <1>0, <1>2, <1>3, AimsSame DEF On
  <2>6. Replaces(a)'
    BY <2>1, <2>2, <2>3, <2>4, <1>0, <1>2, <1>3 DEF Replaces, On, Named, Rolling
  <2> QED
    BY <2>1, <2>5, <2>6 DEF Spared, On, Landing, Succeeded
<1>14. CASE Run(a)
  <2>1. op[a].pc = "run" /\ op[a].name \in Names /\ Runs(a) /\ op[a].pc \in Named
    BY <1>14, RunDoes DEF Named, Rolling
  <2>2. op[a].name # op[a].prev /\ op[a].name[1] = op[a].version
    BY <2>1, <1>0, InFits
  <2>3. \E l \in {"health", "rmfailed"} : On(op'[a], op[a], l)
    BY <2>1 DEF Runs
  <2>4. /\ There' = There \/ There' = There \cup {op[a].name}
        /\ \A m \in Names \ {op[a].name} : containers'[m] = containers[m]
        /\ Live \subseteq Live'
    BY <2>1, <1>7 DEF Runs, Added
  <2>5. Aims(a)'
    BY <2>2, <2>3, <2>4, <1>0, <1>2, <1>3, AimsSame DEF On
  <2>6. /\ op'[a].prev = op[a].prev /\ op'[a].name = op[a].name /\ op'[a].version = op[a].version
        /\ op'[a].same = op[a].same /\ op'[a].pc \in {"health", "rmfailed"}
    BY <2>3 DEF On
  <2>7. Replaces(a)'
    BY <2>1, <2>2, <2>4, <2>6, <1>0, <1>2, <1>3 DEF Replaces, Named, Rolling
  <2> QED
    BY <2>5, <2>6, <2>7 DEF Spared, Landing, Succeeded
<1>15. CASE RemoveFailed(a)
  BY <1>5, <1>15, RemoveFailedDoes
<1>16. CASE Health(a) \/ Switch(a)
  <2>1. op[a].pc \in {"health", "switch"}
    BY <1>4, <1>16, HealthDoes, SwitchDoes, UnlockedAre
  <2>2. /\ containers' = containers /\ op'[a].pc \in {"switch", "cleanup"}
        /\ op'[a].prev = op[a].prev /\ op'[a].name = op[a].name /\ op'[a].version = op[a].version
        /\ op'[a].same = op[a].same
    BY <1>5, <1>16, <2>1, HealthDoes, SwitchDoes DEF On
  <2>3. Replaces(a)'
    BY <2>1, <2>2, <1>2, <1>3, <1>7 DEF Replaces, Named, Rolling
  <2> QED
    BY <2>2, <2>3, <1>6 DEF Spared, Landing, Succeeded
<1>17. CASE Cleanup(a)
  <2>1. op[a].pc = "cleanup" /\ op[a].pc \in Named
    BY <1>17, CleanupDoes DEF Named, Rolling
  <2>2. On(op'[a], op[a], "prune")
    BY <1>2, <1>5, <1>17, <2>1, CleanupDoes DEF RolledOn
  <2>3. /\ op'[a].name = op[a].name /\ op'[a].version = op[a].version /\ op'[a].pc = "prune"
    BY <2>2 DEF On
  <2>4. /\ op[a].same <=> op[a].version = before[a].version
        /\ IF Overlaps
             THEN /\ op[a].prev \in Live /\ op[a].prev[1] = before[a].version
                  /\ \A m \in There \ {op[a].name} : containers[m].at <= containers[op[a].prev].at
             ELSE op[a].prev = NoName
        /\ op[a].name # op[a].prev /\ op[a].name \in Names /\ op[a].name[1] = w
        /\ ~Overlaps => op[a].name[2] = 0
    BY <2>1, <1>0, <1>3, <1>w, InFits DEF Replaces
  <2>5. op[a].name = FirstLive /\ op[a].name \in Live
    BY <2>1, <2>4 DEF Knows, Answers, Live
  <2>6. \/ containers' = containers
        \/ /\ Overlaps /\ op[a].prev \in Names
           /\ IF op[a].same THEN Dropped(op[a].prev) ELSE Turned(op[a].prev, "exited")
    BY <1>0, <1>17, <2>4, CleanupDoes DEF Removes, Stops
  <2>7. /\ Live' \subseteq Live /\ op[a].name \in Live'
        /\ \A m \in Live' : containers'[m] = containers[m]
    BY <2>4, <2>5, <2>6, <1>0, <1>7 DEF Dropped, Turned, LiveStates
  <2>8. FirstLive' \in Names /\ FirstLive'[1] = w
    BY <2>4, <2>5, <2>7, <1>0, FirstLiveKept
  <2>9. Replaces(a)'
    BY <2>3 DEF Replaces, Named, Rolling
  <2>10. CASE ~Overlaps \/ op[a].same
    <3>1. \A d \in Dead' : d \in There /\ d # op[a].name /\ (Overlaps => d # op[a].prev)
      BY <2>4, <2>6, <2>7, <2>10, <1>0, <1>7 DEF Dead, Dropped
    <3>2. \A d \in Dead' : d[1] # w
      <4>1. CASE ~Overlaps
        <5>1. \A d \in Dead' : d \in Names /\ d # op[a].name /\ d[2] = 0
          BY <3>1, <4>1, <1>0, BaseIs DEF Plain
        <5> QED
          BY <5>1, <4>1, <2>4, TwoNames
      <4>2. CASE Overlaps
        <5>1. op[a].prev \in Names /\ op[a].prev[1] = w
          BY <4>2, <2>4, <2>10, <1>0, <1>w
        <5>2. \A d \in Dead' : d \in Names /\ d # op[a].name /\ d # op[a].prev
          BY <3>1, <4>2, <1>0
        <5> QED
          BY <5>1, <5>2, <2>4, TwoNames
      <4> QED
        BY <4>1, <4>2
    <3>3. Target(w)' \in Dead' => Target(w)' = Newest(Dead)'
      BY <3>2, <1>0, SparedNow
    <3>4. Spared(a)'
      BY <2>3, <2>8, <3>3, <1>w, SparedIs
    <3>5. ASSUME containers' # containers PROVE Aims(a)'
      <4>1. /\ There' = There \ {op[a].prev} /\ op[a].prev[1] = op[a].version
            /\ \A m \in Names \ {op[a].prev} : containers'[m] = containers[m]
        BY <2>4, <2>6, <2>10, <3>5 DEF Dropped
      <4> QED
        BY <2>3, <4>1, <1>0, <1>2, <1>3, AimsSame
    <3> QED
      BY <2>3, <2>9, <3>4, <3>5, <1>6
  <2>11. CASE Overlaps /\ ~op[a].same
    <3>1. /\ There' = There /\ \A m \in Names : containers'[m].at = containers[m].at
      BY <2>6, <2>11, <1>7 DEF Turned
    <3>2. /\ op[a].prev \in There' /\ op[a].prev \in Names /\ op[a].prev[1] # w
          /\ \A m \in There' \ {op[a].name} : containers'[m].at <= containers'[op[a].prev].at
      BY <2>4, <2>11, <3>1, <1>0, <1>w
    <3>3. Aims(a)'
      BY <2>3, <3>1, <1>0, <1>2, <1>3, AimsSame
    <3>4. Target(w)' = op[a].prev
      <4>1. OnTop(containers', {m \in There' : m[1] # w}, op[a].prev)
        BY <3>2, <2>4 DEF OnTop
      <4> QED
        BY <4>1, <1>0, TargetNow
    <3>5. op[a].prev \in Dead' => op[a].prev = Newest(Dead)'
      <4>1. ASSUME op[a].prev \in Dead' PROVE OnTop(containers', Dead', op[a].prev)
        BY <3>2, <2>7, <4>1 DEF OnTop, Dead
      <4> QED
        BY <4>1, <1>0, NewestDeadNow
    <3>6. Spared(a)'
      BY <2>3, <2>8, <3>4, <3>5, <1>w, SparedIs
    <3> QED
      BY <2>9, <3>3, <3>6
  <2> QED
    BY <2>10, <2>11
<1>18. CASE Prune(a)
  <2>1. op[a].pc = "prune" /\ containers' = containers
    BY <1>18, PruneDoes
  <2>2. op'[a].version = op[a].version /\ op'[a].pc \in {"idle", "pruning"}
    BY <1>18, PruneDoes DEF Ends, Over, Lists
  <2>3. Replaces(a)'
    BY <2>2 DEF Replaces, Named, Rolling
  <2>4. Spared(a)'
    <3>1. /\ FirstLive' = FirstLive /\ Target(w)' = Target(w) /\ Dead' = Dead
          /\ Newest(Dead)' = Newest(Dead) /\ FirstLive \in Names /\ FirstLive[1] = w
      BY <2>1, <1>7, <1>l DEF Landing
    <3>2. Target(w) \in Dead => Target(w) = Newest(Dead)
      BY <2>1, <1>3, <1>w DEF Spared, Landing
    <3>3. ASSUME op'[a].pc = "pruning", Target(w) \in Dead PROVE op'[a].todo[Target(w)] = 0
      <4>1. Lists(a, "pruning", Surplus) /\ op'[a].todo \in [Names -> Nat]
        BY <1>18, <3>3, PruneDoes, FieldsOfOp DEF Ends, Over, Lists
      <4>2. Target(w) \in Names /\ Target(w) \notin Surplus
        BY <3>2, <3>3, <1>0, NewestNotSurplus DEF Dead
      <4> QED
        BY <4>1, <4>2 DEF Lists
    <3> QED
      BY <2>2, <3>1, <3>2, <3>3, <1>w, SparedIs
  <2> QED
    BY <2>1, <2>2, <2>3, <2>4, <1>6
<1>19. CASE RemoveNext(a)
  <2>1. op[a].pc \in Loops /\ op[a].todo \in [Names -> Nat]
    BY <1>0, <1>19, RemoveNextDoes, FieldsOfOp
  <2>2. op[a].pc = "pruning"
    BY <2>1, <1>3, <1>4, UnlockedAre DEF Loops, Replaces
  <2>3. PICK n \in Names :
           /\ op[a].todo[n] > 0 /\ Removes(n)
           /\ op'[a].version = op[a].version
           /\ \/ op'[a].pc = "idle"
              \/ op'[a].pc = "pruning" /\ op'[a].todo = [op[a].todo EXCEPT ![n] = 0]
    BY <1>19, <2>2, RemoveNextDoes DEF Fails, Ends, Over
  <2>4. n \notin Live /\ Landing(a)
    BY <2>1, <2>2, <2>3 DEF Knows, Landing
  <2>5. Target(w) \in Dead =>
           Target(w) = Newest(Dead) /\ op[a].todo[Target(w)] = 0 /\ Target(w) \in Names
    BY <2>2, <2>4, <1>0, <1>3, <1>w DEF Spared, Dead
  <2>6. Target(w)' = Target(w) /\ FirstLive' = FirstLive
        /\ Dead' \subseteq Dead /\ (Target(w) \in Dead' => Target(w) = Newest(Dead)')
    <3>1. CASE containers' = containers
      BY <3>1, <2>5, <1>7
    <3>2. CASE Dropped(n)
      <4>1. /\ There' = There \ {n} /\ Live' = Live /\ Dead' = Dead \ {n} /\ Dead \subseteq Names
            /\ \A m \in Names \ {n} : containers'[m] = containers[m]
        BY <3>2, <2>4, <1>0 DEF Dropped, Dead
      <4>2. n # Target(w)
        <5>1. Target(w) \in There \cup {NoName}
          BY <1>0, TargetIs DEF OnTop
        <5> QED
          BY <5>1, <2>3, <2>4, <2>5, <1>0 DEF Dead
      <4>3. Target(w)' = Target(w)
        BY <4>1, <4>2, <1>0, AimsPruned
      <4>4. FirstLive' = FirstLive
        <5>1. FirstLive \in Live
          BY <2>4, <1>l, <1>0, FirstLiveIs DEF OnTop
        <5>2. \A m \in Live' : containers'[m] = containers[m]
          BY <4>1, <2>4, <1>0
        <5> QED
          BY <5>1, <5>2, <4>1, <1>0, FirstLiveKept
      <4>5. ASSUME Target(w) \in Dead' PROVE Target(w) = Newest(Dead)'
        <5>1. OnTop(containers, Dead, Target(w))
          BY <4>1, <4>5, <2>5, NewestNotSurplus
        <5>2. OnTop(containers', Dead', Target(w))
          BY <5>1, <4>1, <4>5 DEF OnTop
        <5> QED
          BY <5>2, <1>0, NewestDeadNow
      <4> QED
        BY <4>1, <4>3, <4>4, <4>5
    <3> QED
      BY <3>1, <3>2, <2>3 DEF Removes
  <2>7. Spared(a)'
    <3>1. ASSUME op'[a].pc = "pruning", Target(w) \in Dead PROVE op'[a].todo[Target(w)] = 0
      BY <2>1, <2>3, <2>5, <3>1
    <3> QED
      BY <2>3, <2>4, <2>6, <3>1, <1>l, <1>w, SparedIs
  <2>8. Aims(a)'
    <3>1. TargetFrom(op[a].version)' = TargetFrom(w)'
      BY <2>3, <1>w DEF TargetFrom, Target, Newest, There, VersionOf
    <3>2. TargetFrom(w)' = TargetFrom(w)
      BY <2>6 DEF TargetFrom, VersionOf
    <3> QED
      BY <3>1, <3>2, <2>3, <1>2, <1>3, <1>w DEF Aims
  <2>9. Replaces(a)'
    BY <2>3 DEF Replaces, Named, Rolling
  <2> QED
    BY <2>7, <2>8, <2>9
<1>20. CASE StopFind(a) \/ StopOne(a) \/ StartFind(a) \/ StartOne(a) \/ ReregisterFind(a)
            \/ Unroute(a) \/ RemoveFind(a)
  BY <1>4, <1>20, UnlockedAre DEF StopFind, StopOne, StartFind, StartOne, ReregisterFind,
     Unroute, RemoveFind
<1>21. CASE Fail(a)
  <2>1. containers' = containers /\ op'[a].pc = "idle" /\ op'[a].version = op[a].version
    BY <1>21, FailDoes DEF Fails, Over
  <2>2. Landing(a)
    BY <1>5, <1>21, FailDoes DEF Landing
  <2>3. Replaces(a)'
    BY <2>1 DEF Replaces, Named, Rolling
  <2>4. Spared(a)'
    BY <2>1, <2>2, <1>7, <1>l, <1>w, SparedIs DEF Landing
  <2> QED
    BY <2>1, <2>3, <2>4, <1>6
<1> QED
  BY <1>8, <1>9, <1>10, <1>11, <1>12, <1>13, <1>14, <1>15, <1>16, <1>17, <1>18, <1>19,
     <1>20, <1>21 DEF Step

AllKeep == \A a \in Actors : Keeps(a)

LEMMA KeepsSame ==
    ASSUME NEW a \in Actors, Keeps(a), Tracked(a), op'[a] = op[a], before'[a] = before[a],
           containers' = containers, role' = role, Succeeded(a)' => Succeeded(a)
    PROVE  Keeps(a)'
<1>1. /\ FirstLive' = FirstLive /\ Live' = Live /\ There' = There /\ Newest(There)' = Newest(There)
      /\ Dead' = Dead /\ Newest(Dead)' = Newest(Dead) /\ Overlaps' = Overlaps
      /\ \A v : Target(v)' = Target(v)
  BY SameHost
<1>2. TargetFrom(op[a].version)' = TargetFrom(op[a].version)
  BY DEF TargetFrom, Target, Newest, VersionOf, There
<1>3. Aims(a)'
  BY <1>2 DEF Keeps, Aims
<1>4. Replaces(a)'
  BY <1>1 DEF Keeps, Replaces
<1>5. Spared(a)'
  <2>1. VersionOf(FirstLive)' = VersionOf(FirstLive)
    BY <1>1 DEF VersionOf
  <2>2. Target(op[a].version)' = Target(op[a].version)
    BY <1>1 DEF Target, Newest
  <2>3. Spared(a) /\ Landing(a)' = Landing(a)
    BY DEF Keeps, Landing
  <2> QED
    BY <2>1, <2>2, <2>3, <1>1 DEF Spared, Landing
<1> QED
  BY <1>3, <1>4, <1>5 DEF Keeps

LEMMA KeepsStep ==
    ASSUME Base, Exclusive, AllKnow, Rests, AllKeep, NEW a \in Actors, Begin(a) \/ Step(a)
    PROVE  AllKeep'
<1>1. Keeps(a)'
  BY KeepsBegin, KeepsOwn DEF AllKnow, AllKeep, Keeps
<1>2. ASSUME NEW b \in Actors \ {a} PROVE Keeps(b)'
  <2> SUFFICES ASSUME Tracked(b)' PROVE Keeps(b)'
    BY DEF Keeps
  <2>1. op'[b] = op[b]
    BY StepIs
  <2>2. CASE AtWork(b)
    <3>1. containers' = containers /\ role' = role /\ op[a].pc \in {"idle", "inspect"}
      BY <2>2, Isolated DEF Alone
    <3>2. before'[b] = before[b]
      <4>1. CASE Begin(a)
        BY <4>1, BeginDoes DEF Begun, Finds
      <4>2. CASE Step(a)
        BY <3>1, <4>2, NotAtWork, InspectDoes, FailDoes DEF Looked, Finds, Turn, AtWork
      <4> QED
        BY <4>1, <4>2
    <3> QED
      BY <2>1, <2>2, <3>1, <3>2, KeepsSame DEF AllKeep, Tracked, AtWork, Succeeded
  <2>3. CASE ~AtWork(b)
    <3>1. op[b].kind = "deploy" /\ Succeeded(b)'
      BY <2>1, <2>3 DEF Tracked, AtWork
    <3>2. /\ op'[b] = op[b] /\ Succeeded(b) /\ containers' = containers /\ role' = role
          /\ before'[b] = before[b]
      BY <2>3, <3>1, RestStays
    <3>3. Tracked(b)
      BY <3>1, <3>2 DEF Tracked
    <3> QED
      BY <3>2, <3>3, KeepsSame DEF AllKeep
  <2> QED
    BY <2>2, <2>3
<1> QED
  BY <1>1, <1>2 DEF AllKeep

\* After a deploy that succeeded on a host where one container, the newest, ran
\* and served, a plain rollback goes back to that container's version, or, where
\* the deploy was of that version again, to what it would have gone back to.
THEOREM RolloutRollbackTargetKept ==
    ASSUME Exclusive
    PROVE  Spec => []RollbackTargetKept
<1> DEFINE I == Base /\ AllKnow /\ Rests /\ AllKeep
<1>1. Init => I
  <2> SUFFICES ASSUME Init PROVE I
    OBVIOUS
  <2>1. Base /\ Live = {} /\ \A a \in Actors : op[a].pc = "idle" /\ op[a].kind = "none"
    BY InitIs
  <2> QED
    BY <2>1 DEF AllKnow, Knows, Rests, AllKeep, Keeps, Tracked
<1>2. I /\ [Next]_vars => I'
  <2>1. ASSUME I, NEW a \in Actors, Begin(a) \/ Step(a) PROVE I'
    BY <2>1, StepIs, KnowsStep, RestsStep, KeepsStep
  <2>2. ASSUME I, UNCHANGED vars PROVE I'
    <3>1. /\ op' = op /\ containers' = containers /\ role' = role /\ before' = before /\ last' = last
      BY <2>2 DEF vars
    <3>2. AllKeep'
      <4> SUFFICES ASSUME NEW a \in Actors, Tracked(a)' PROVE Keeps(a)'
        BY DEF AllKeep, Keeps
      <4>1. Tracked(a)
        BY <3>1 DEF Tracked, AtWork, Succeeded
      <4> QED
        BY <2>2, <3>1, <4>1, KeepsSame DEF AllKeep, Succeeded
    <3>3. Rests'
      <4>1. Rests
        BY <2>2
      <4> QED
        BY <3>1, <4>1 DEF Rests, AtWork
    <3> QED
      BY <2>2, <3>2, <3>3, StutterIs, KnowsStutter
  <2> QED
    BY <2>1, <2>2 DEF Next
<1>3. I => RollbackTargetKept
  <2> SUFFICES ASSUME I, NEW a \in Actors, op[a].kind = "deploy", Succeeded(a), before[a].settled
               PROVE  PreviousVersion = IF op[a].version = before[a].version
                                          THEN before[a].target ELSE before[a].version
    BY DEF RollbackTargetKept
  <2>1. Spared(a) /\ Aims(a)
    BY DEF AllKeep, Keeps, Tracked
  <2>2. VersionOf(FirstLive) = op[a].version
    BY <2>1 DEF Spared
  <2>3. PreviousVersion = TargetFrom(op[a].version)
    BY <2>2 DEF PreviousVersion, TargetFrom, Target
  <2> QED
    BY <2>1, <2>3 DEF Aims
<1> QED
  BY <1>1, <1>2, <1>3, PTL DEF Spec
=============================================================================
