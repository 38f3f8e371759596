------------------------- MODULE NativeReleaseProofs -------------------------
(***************************************************************************)
(* Proofs about one host of the native backend, for any releases, builds,  *)
(* units, commands and faults.                                             *)
(***************************************************************************)
EXTENDS NativeRelease, LeastNumber, TLAPS

Rollbacks == {"rollback", "rollback_to"}

\* Where a command changes releases, and holds the lock, but for a prune.
Rolling == {"preflight", "stage", "activate", "installenv", "choose", "switch",
            "restart", "health", "revert", "stopunits", "markok", "route"}
Pruning == {"prunefind", "pruning"}

In(a, pcs) == op[a].pc \in pcs

\* What an actor at a step is about.
Suits(a) ==
    /\ op[a].kind \in Kinds \cup {"none"}
    /\ In(a, {"inspect"}) => op[a].kind = "reconcile"
    /\ In(a, Rolling) => op[a].kind \in Locked \cup {"reconcile"}
    /\ In(a, {"preflight", "stage", "activate", "installenv"}) => op[a].kind \in Deploying
    /\ In(a, {"choose", "switch"}) => op[a].kind \in Rollbacks
    /\ In(a, Pruning) => op[a].kind \in Deploying \cup {"prune"}
    /\ In(a, {"teardown"}) => op[a].kind \in {"remove", "purge"}
    /\ In(a, {"setup"}) => op[a].kind = "setup"
    /\ In(a, {"each"}) => op[a].kind \in {"stop", "start", "restart"}
    /\ op[a].kind \in Deploying =>
         op[a].id \in Ids /\ op[a].sum \in Sums /\ op[a].env \in Envs
    /\ In(a, Rolling \ {"choose"}) => op[a].id \in Ids
    /\ In(a, {"route"}) => op[a].kind \in Deploying
    /\ In(a, {"installenv"}) => installed
    /\ installed => op[a].kind \notin OfReleases /\ op[a].prev = None
    /\ In(a, {"stage", "activate", "choose", "switch"} \cup Pruning) => ~installed

Locks(a) == In(a, Rolling) \/ (In(a, Pruning) /\ op[a].kind # "prune")
Holds(a) == Locks(a) => lock = a

Program == installed => program \in Sums

Base == /\ TypeOK /\ Program
        /\ \A a \in Actors : Suits(a)
        /\ \A a \in Actors : Holds(a)

-----------------------------------------------------------------------------
(* What a step does to its command *)

Kin(n, o) ==
    /\ n.kind = o.kind /\ n.id = o.id /\ n.sum = o.sum /\ n.env = o.env
    /\ n.prev = o.prev /\ n.had = o.had /\ n.del = o.del

\* o goes on as n.
Leads(n, o, l) == Kin(n, o) /\ n.pc = l /\ n.unit = 1 /\ n.back = o.back
Stops(n, o, r) == Kin(n, o) /\ n.pc = "idle" /\ n.result \in r

\* The ways in which a step may fail.
Fails(n, o) ==
    /\ Kin(n, o)
    /\ \/ /\ n.pc = "revert" /\ n.back
          /\ o.pc \in {"restart", "health"} /\ ~o.back
          /\ IF installed THEN o.had ELSE o.prev # None
       \/ n.pc = "stopunits" /\ o.pc \in {"restart", "health"} /\ ~o.back
       \/ n.pc = "route" /\ o.pc = "markok" /\ installed
       \/ n.pc = "idle" /\ n.result = "ok" /\ o.pc \in Pruning /\ o.kind # "prune"
       \/ n.pc = "idle" /\ n.result \in {"failed", "rollback_failed"}

LEMMA GotoLeads ==
    ASSUME NEW o \in Op, NEW l \in PCs
    PROVE  Goto(o, l) \in Op /\ Leads(Goto(o, l), o, l)
<1>1. 1 \in Units
  BY NativeAssumption DEF Units
<1>2. Goto(o, l) \in Op
  BY <1>1 DEF Goto, Op
<1>3. Goto(o, l).back = o.back /\ Goto(o, l).had = o.had
  BY DEF Goto, Op
<1> QED
  BY <1>2, <1>3 DEF Goto, Op, Leads, Kin

LEMMA FinishStops ==
    ASSUME NEW o \in Op, NEW r \in Results
    PROVE  Finish(o, r) \in Op /\ Stops(Finish(o, r), o, {r})
BY DEF Finish, Op, Stops, Kin, PCs

LEMMA FailedFails ==
    ASSUME NEW o \in Op, o.pc \notin {"idle", "stopunits"}
    PROVE  Failed(o) \in Op /\ Fails(Failed(o), o)
<1>1. CASE o.pc \in {"restart", "health"} /\ ~o.back
  <2>1. Failed(o) = Recover(o)
    BY <1>1 DEF Failed
  <2>2. CASE IF installed THEN ~o.had ELSE o.prev = None
    <3>1. Failed(o) = Goto(o, "stopunits")
      BY <2>1, <2>2 DEF Recover
    <3> QED
      BY <1>1, <3>1, GotoLeads DEF Fails, Leads, PCs
  <2>3. CASE ~(IF installed THEN ~o.had ELSE o.prev = None)
    <3>1. Failed(o) = Goto([o EXCEPT !.back = TRUE], "revert")
      BY <2>1, <2>3 DEF Recover
    <3>2. [o EXCEPT !.back = TRUE] \in Op /\ Kin([o EXCEPT !.back = TRUE], o)
      BY DEF Op, Kin
    <3>3. [o EXCEPT !.back = TRUE].back
      BY DEF Op
    <3>4. Goto([o EXCEPT !.back = TRUE], "revert") \in Op
          /\ Leads(Goto([o EXCEPT !.back = TRUE], "revert"), [o EXCEPT !.back = TRUE], "revert")
      BY <3>2, GotoLeads DEF PCs
    <3>5. Kin(Failed(o), o) /\ Failed(o).pc = "revert" /\ Failed(o).back
      BY <3>1, <3>2, <3>3, <3>4 DEF Leads, Kin
    <3> QED
      BY <1>1, <2>3, <3>1, <3>4, <3>5 DEF Fails
  <2> QED
    BY <2>2, <2>3
<1>2. CASE ~(o.pc \in {"restart", "health"} /\ ~o.back) /\ o.pc = "markok" /\ installed
  <2>1. Failed(o) = Goto(o, "route")
    BY <1>2 DEF Failed
  <2> QED
    BY <1>2, <2>1, GotoLeads DEF Fails, Leads, PCs
<1>3. CASE o.pc \in {"restart", "health", "revert"} /\ o.back
  <2>1. Failed(o) = Finish(o, "rollback_failed")
    BY <1>3 DEF Failed
  <2> QED
    BY <2>1, FinishStops DEF Fails, Stops, Results
<1>4. CASE o.pc \in {"prunefind", "pruning"} /\ o.kind # "prune"
  <2>1. Failed(o) = Finish(o, "ok")
    BY <1>4 DEF Failed
  <2> QED
    BY <1>4, <2>1, FinishStops DEF Fails, Stops, Results, Pruning
<1>5. CASE /\ ~(o.pc \in {"restart", "health"} /\ ~o.back)
           /\ ~(o.pc = "markok" /\ installed)
           /\ ~(o.pc \in {"restart", "health", "revert"} /\ o.back)
           /\ ~(o.pc \in {"prunefind", "pruning"} /\ o.kind # "prune")
  <2>1. Failed(o) = Finish(o, "failed")
    BY <1>5 DEF Failed
  <2> QED
    BY <2>1, FinishStops DEF Fails, Stops, Results
<1> QED
  BY <1>1, <1>2, <1>3, <1>4, <1>5

\* The others, and what they found when they began, are left alone; whoever
\* stops gives the lock back.
Turn(a) ==
    /\ op' \in [Actors -> Op]
    /\ \A b \in Actors \ {a} : op'[b] = op[b]
    /\ lock' = IF op'[a].pc = "idle" /\ lock = a THEN None ELSE lock
    /\ lock' \in Actors \cup {None}
    /\ before' = before /\ started' = started

LEMMA BecomesTurn ==
    ASSUME TypeOK, NEW a \in Actors, NEW o \in Op, Becomes(a, o)
    PROVE  Turn(a) /\ op'[a] = o
<1>1. op' = [op EXCEPT ![a] = o] /\ op \in [Actors -> Op]
  BY DEF Becomes, TypeOK
<1>2. lock \in Actors \cup {None}
  BY DEF TypeOK
<1> QED
  BY <1>1, <1>2 DEF Becomes, Turn

LEMMA FailedTurn ==
    ASSUME TypeOK, NEW a \in Actors, op[a].pc \notin {"idle", "stopunits"},
           Becomes(a, Failed(op[a]))
    PROVE  Turn(a) /\ Fails(op'[a], op[a])
<1>1. op[a] \in Op
  BY DEF TypeOK
<1> QED
  BY <1>1, FailedFails, BecomesTurn

LEMMA AfterTurn ==
    ASSUME TypeOK, NEW a \in Actors, op[a].pc \notin {"idle", "stopunits"},
           NEW n \in Op, NEW r \in Replies, Becomes(a, After(op[a], r, n))
    PROVE  Turn(a) /\ (op'[a] = n \/ Fails(op'[a], op[a]))
<1>1. op[a] \in Op
  BY DEF TypeOK
<1>2. After(op[a], r, n) \in {n, Failed(op[a])}
  BY DEF After
<1> QED
  BY <1>1, <1>2, FailedFails, BecomesTurn

LEMMA GotoTurn ==
    ASSUME TypeOK, NEW a \in Actors, NEW l \in PCs, Becomes(a, Goto(op[a], l))
    PROVE  Turn(a) /\ Leads(op'[a], op[a], l)
<1>1. op[a] \in Op
  BY DEF TypeOK
<1> QED
  BY <1>1, GotoLeads, BecomesTurn

LEMMA FinishTurn ==
    ASSUME TypeOK, NEW a \in Actors, NEW r \in Results, Becomes(a, Finish(op[a], r))
    PROVE  Turn(a) /\ Stops(op'[a], op[a], {r})
<1>1. op[a] \in Op
  BY DEF TypeOK
<1> QED
  BY <1>1, FinishStops, BecomesTurn

LEMMA LaunchType ==
    ASSUME TypeOK, Program
    PROVE  Launch \in Process
<1>1. CASE installed
  BY <1>1 DEF Launch, Process, TypeOK, Program
<1>2. CASE ~installed /\ current # None /\ Present(current)
  <2>1. current \in Ids /\ rel[current].sum \in Sums
    BY <1>2 DEF TypeOK, Present
  <2> QED
    BY <1>2, <2>1 DEF Launch, Process, TypeOK
<1> QED
  BY <1>1, <1>2 DEF Launch, Process

-----------------------------------------------------------------------------
(* What each action does *)

LEMMA BeginDoes ==
    ASSUME TypeOK, NEW a \in Actors, Begin(a)
    PROVE  /\ op[a].pc = "idle" /\ op' \in [Actors -> Op]
           /\ \A b \in Actors \ {a} : op'[b] = op[b] /\ before'[b] = before[b]
           /\ op'[a].kind \in Kinds /\ op'[a].pc = Entry(op'[a].kind)
           /\ op'[a].prev = None /\ op'[a].back = FALSE
           /\ installed => op'[a].kind \notin OfReleases
           /\ op'[a].kind \in Deploying =>
                op'[a].id \in Ids /\ op'[a].sum \in Sums /\ op'[a].env \in Envs
           /\ op'[a].kind \in Locked => lock = None
           /\ lock' = IF op'[a].kind \in Locked THEN a ELSE lock
           /\ lock' \in Actors \cup {None}
           /\ started' = started + 1 /\ started' \in 0..MaxOps
           /\ before' \in [Actors -> Before]
           /\ before'[a] = [serial |-> started', current |-> current, env |-> env,
                            proc |-> proc, steady |-> Steady]
           /\ UNCHANGED host
<1>1. PICK k \in Kinds, i \in Ids \cup {None}, s \in Sums \cup {None}, e \in Envs \cup {None} :
         /\ IF k \in Deploying THEN <<i, s, e>> \in Builds
            ELSE s = None /\ e = None /\ (i # None <=> k = "rollback_to")
         /\ installed => k \notin OfReleases
         /\ k \in Locked => lock = None
         /\ lock' = IF k \in Locked THEN a ELSE lock
         /\ op' = [op EXCEPT ![a] =
                     [kind |-> k, pc |-> Entry(k), id |-> i, sum |-> s, env |-> e,
                      prev |-> None, had |-> FALSE, unit |-> 1, back |-> FALSE, del |-> {},
                      result |-> "none"]]
  BY DEF Begin
<1> DEFINE n == [kind |-> k, pc |-> Entry(k), id |-> i, sum |-> s, env |-> e,
                 prev |-> None, had |-> FALSE, unit |-> 1, back |-> FALSE, del |-> {},
                 result |-> "none"]
<1>2. k \in AllKinds /\ 1 \in Units
  BY NativeAssumption DEF Units
<1>3. Entry(k) \in PCs
  BY <1>2 DEF Entry, PCs, AllKinds, Locked, OfReleases
<1>4. n \in Op
  BY <1>2, <1>3 DEF Op, Results
<1>5. /\ n.kind = k /\ n.pc = Entry(k) /\ n.id = i /\ n.sum = s /\ n.env = e
      /\ n.prev = None /\ n.back = FALSE
  OBVIOUS
<1> HIDE DEF n
<1>6. op' = [op EXCEPT ![a] = n] /\ op \in [Actors -> Op]
  BY <1>1 DEF n, TypeOK
<1>7. op' \in [Actors -> Op] /\ op'[a] = n /\ \A b \in Actors \ {a} : op'[b] = op[b]
  BY <1>4, <1>6
<1>8. k \in Deploying => i \in Ids /\ s \in Sums /\ e \in Envs
  BY <1>1, NativeAssumption
<1>9. /\ started' = started + 1 /\ started < MaxOps /\ op[a].pc = "idle"
      /\ before' = [before EXCEPT ![a] = [serial |-> started', current |-> current,
                                          env |-> env, proc |-> proc, steady |-> Steady]]
      /\ UNCHANGED host
  BY DEF Begin
<1>10. started' \in 0..MaxOps
  BY <1>9, NativeAssumption DEF TypeOK
<1>11. [serial |-> started', current |-> current, env |-> env, proc |-> proc,
        steady |-> Steady] \in Before
  <2>1. Steady \in BOOLEAN
    BY DEF Steady
  <2> QED
    BY <1>10, <2>1 DEF TypeOK, Before
<1>12. /\ before' \in [Actors -> Before]
       /\ before'[a] = [serial |-> started', current |-> current, env |-> env,
                        proc |-> proc, steady |-> Steady]
       /\ \A b \in Actors \ {a} : before'[b] = before[b]
  BY <1>9, <1>11 DEF TypeOK
<1>13. lock' \in Actors \cup {None}
  BY <1>1 DEF TypeOK
<1> QED
  BY <1>1, <1>5, <1>7, <1>8, <1>9, <1>10, <1>12, <1>13

\* A reconcile takes the lock, which is free.
Takes(a) ==
    /\ op' \in [Actors -> Op]
    /\ \A b \in Actors \ {a} : op'[b] = op[b]
    /\ lock = None /\ lock' = a
    /\ before' = before /\ started' = started

LEMMA InspectDoes ==
    ASSUME TypeOK, NEW a \in Actors, Inspect(a)
    PROVE  /\ op[a].pc = "inspect" /\ UNCHANGED host
           /\ \/ Turn(a) /\ Stops(op'[a], op[a], {"ok"})
              \/ Turn(a) /\ Fails(op'[a], op[a])
              \/ /\ Takes(a) /\ Kin(op'[a], op[a]) /\ op'[a].pc = "preflight"
                 /\ op'[a].back = op[a].back
<1>1. op[a].pc = "inspect" /\ UNCHANGED host
  BY DEF Inspect
<1>2. \/ Becomes(a, Finish(op[a], "ok"))
      \/ Becomes(a, Failed(op[a]))
      \/ /\ op' = [op EXCEPT ![a].pc = "preflight"] /\ lock = None /\ lock' = a
         /\ UNCHANGED <<before, started>>
  BY DEF Inspect
<1>3. ASSUME op' = [op EXCEPT ![a].pc = "preflight"], lock = None, lock' = a,
             UNCHANGED <<before, started>>
      PROVE  /\ Takes(a) /\ Kin(op'[a], op[a]) /\ op'[a].pc = "preflight"
             /\ op'[a].back = op[a].back
  <2>1. op \in [Actors -> Op] /\ op[a] \in Op
    BY DEF TypeOK
  <2>2. op' = [op EXCEPT ![a] = [op[a] EXCEPT !.pc = "preflight"]]
    BY <1>3
  <2>3. [op[a] EXCEPT !.pc = "preflight"] \in Op
    BY <2>1 DEF Op, PCs
  <2>4. /\ op' \in [Actors -> Op] /\ op'[a] = [op[a] EXCEPT !.pc = "preflight"]
        /\ \A b \in Actors \ {a} : op'[b] = op[b]
    BY <2>1, <2>2, <2>3
  <2>5. Kin([op[a] EXCEPT !.pc = "preflight"], op[a])
    BY <2>1 DEF Kin, Op
  <2>6. op'[a].back = op[a].back
    BY <2>1, <2>4 DEF Op
  <2> QED
    BY <1>3, <2>1, <2>4, <2>5, <2>6 DEF Takes, Op
<1> QED
  BY <1>1, <1>2, <1>3, FinishTurn, FailedTurn DEF Results

LEMMA PreflightDoes ==
    ASSUME TypeOK, NEW a \in Actors, Preflight(a)
    PROVE  /\ op[a].pc = "preflight" /\ UNCHANGED host /\ Turn(a)
           /\ \/ Leads(op'[a], op[a], IF installed THEN "installenv" ELSE "stage")
              \/ Fails(op'[a], op[a])
<1>1. op[a].pc = "preflight" /\ UNCHANGED host
  BY DEF Preflight
<1>2. \/ Becomes(a, Failed(op[a]))
      \/ Becomes(a, Goto(op[a], IF installed THEN "installenv" ELSE "stage"))
  BY DEF Preflight
<1> QED
  BY <1>1, <1>2, FailedTurn, GotoTurn DEF PCs

\* The contents of every other release and of the live one stay.
LEMMA StageDoes ==
    ASSUME TypeOK, NEW a \in Actors, op[a].id \in Ids, op[a].sum \in Sums, Stage(a)
    PROVE  /\ op[a].pc = "stage" /\ UNCHANGED <<current, env, envPrev, proc, place>>
           /\ Turn(a)
           /\ \/ Leads(op'[a], op[a], "activate") /\ Present(op[a].id)'
              \/ Fails(op'[a], op[a])
           /\ rel' \in [Ids -> [sum : Sums \cup {None}, staged : Nat, ok : Nat]]
           /\ clock' \in Nat /\ clock' >= clock
           /\ \A i \in Ids \ {op[a].id} : rel'[i] = rel[i]
           /\ \/ rel'[op[a].id] = rel[op[a].id]
              \/ rel'[op[a].id].ok = 0 /\ (Present(op[a].id) => op[a].id # current)
<1> DEFINE i == op[a].id
           now == clock + 1
<1>1. op[a].pc = "stage" /\ UNCHANGED <<current, env, envPrev, proc, place>>
  BY DEF Stage
<1>t. /\ rel \in [Ids -> [sum : Sums \cup {None}, staged : Nat, ok : Nat]]
      /\ clock \in Nat /\ None \notin Sums
  BY NativeAssumption DEF TypeOK
<1>g. Goto(op[a], "activate") \in Op /\ Leads(Goto(op[a], "activate"), op[a], "activate")
  BY GotoLeads DEF TypeOK, PCs
<1>2. CASE /\ Present(i) /\ rel[i].sum = op[a].sum
           /\ \E r \in Replies : Becomes(a, After(op[a], r, Goto(op[a], "activate")))
           /\ UNCHANGED <<rel, clock>>
  <2>1. Turn(a) /\ (Leads(op'[a], op[a], "activate") \/ Fails(op'[a], op[a]))
    BY <1>1, <1>2, <1>g, AfterTurn
  <2>2. op[a].id' = op[a].id
    BY <2>1 DEF Fails, Leads, Kin
  <2>3. Present(op[a].id)'
    BY <1>2, <2>2 DEF Present
  <2> QED
    BY <1>1, <1>t, <1>2, <2>1, <2>3
<1>3. CASE /\ Becomes(a, Failed(op[a]))
           /\ UNCHANGED <<rel, clock>>
  <2>1. Turn(a) /\ Fails(op'[a], op[a])
    BY <1>1, <1>3, FailedTurn
  <2> QED
    BY <1>1, <1>t, <1>3, <2>1
<1>4. CASE /\ Present(i) => i # current
           /\ rel' = [rel EXCEPT ![i] = [sum |-> op[a].sum, staged |-> now, ok |-> 0]]
           /\ clock' = now
           /\ \E r \in Replies : Becomes(a, After(op[a], r, Goto(op[a], "activate")))
  <2>1. Turn(a) /\ (Leads(op'[a], op[a], "activate") \/ Fails(op'[a], op[a]))
    BY <1>1, <1>4, <1>g, AfterTurn
  <2>2. /\ rel' \in [Ids -> [sum : Sums \cup {None}, staged : Nat, ok : Nat]]
        /\ rel'[i].sum = op[a].sum /\ rel'[i].ok = 0
        /\ \A j \in Ids \ {i} : rel'[j] = rel[j]
    BY <1>t, <1>4
  <2>3. Present(op[a].id)'
    <3>1. op[a].id' = op[a].id
      BY <2>1 DEF Fails, Leads, Kin
    <3> QED
      BY <1>t, <2>2, <3>1 DEF Present
  <2> QED
    BY <1>1, <1>t, <1>4, <2>1, <2>2, <2>3
<1>5. CASE /\ Present(i) => i # current
           /\ rel' = [rel EXCEPT ![i] = Absent]
           /\ Becomes(a, Failed(op[a]))
           /\ UNCHANGED clock
  <2>1. Turn(a) /\ Fails(op'[a], op[a])
    BY <1>1, <1>5, FailedTurn
  <2>2. /\ rel' \in [Ids -> [sum : Sums \cup {None}, staged : Nat, ok : Nat]]
        /\ rel'[i].ok = 0
        /\ \A j \in Ids \ {i} : rel'[j] = rel[j]
    BY <1>t, <1>5 DEF Absent
  <2> QED
    BY <1>1, <1>t, <1>5, <2>1, <2>2
<1> QED
  BY <1>2, <1>3, <1>4, <1>5 DEF Stage, CanReplace

LEMMA ActivateDoes ==
    ASSUME TypeOK, NEW a \in Actors, Activate(a)
    PROVE  /\ op[a].pc = "activate" /\ env # None
           /\ UNCHANGED <<rel, proc, clock, place>>
           /\ Turn(a) /\ envPrev' = env
           /\ \/ /\ env' = op[a].env /\ current' = op[a].id
                 /\ \/ /\ op'[a].pc = "restart" /\ op'[a].prev = current
                       /\ op'[a].unit = 1 /\ op'[a].back = op[a].back
                       /\ op'[a].kind = op[a].kind /\ op'[a].id = op[a].id
                       /\ op'[a].sum = op[a].sum /\ op'[a].env = op[a].env
                    \/ Fails(op'[a], op[a])
              \/ current' = current /\ env' \in {env, op[a].env} /\ Fails(op'[a], op[a])
<1> DEFINE n == [op[a] EXCEPT !.prev = current]
<1>1. /\ op[a].pc = "activate" /\ env # None /\ envPrev' = env
      /\ UNCHANGED <<rel, proc, clock, place>>
  BY DEF Activate, Possible
<1>2. op[a] \in Op /\ current \in Ids \cup {None}
  BY DEF TypeOK
<1>3. n \in Op /\ n.back = op[a].back
  BY <1>2 DEF Op
<1>4. /\ n.prev = current /\ n.kind = op[a].kind /\ n.id = op[a].id
      /\ n.sum = op[a].sum /\ n.env = op[a].env
  BY <1>2 DEF Op
<1> HIDE DEF n
<1>5. Goto(n, "restart") \in Op /\ Leads(Goto(n, "restart"), n, "restart")
  BY <1>3, GotoLeads DEF PCs
<1>6. CASE /\ env' = op[a].env /\ current' = op[a].id
           /\ \E r \in Replies : Becomes(a, After(op[a], r, Goto(n, "restart")))
  <2>1. Turn(a) /\ (op'[a] = Goto(n, "restart") \/ Fails(op'[a], op[a]))
    BY <1>1, <1>5, <1>6, AfterTurn
  <2>2. CASE op'[a] = Goto(n, "restart")
    BY <1>1, <1>3, <1>4, <1>5, <1>6, <2>1, <2>2 DEF Leads, Kin
  <2> QED
    BY <1>1, <1>6, <2>1, <2>2
<1>7. CASE env' \in {env, op[a].env} /\ Becomes(a, Failed(op[a])) /\ UNCHANGED current
  BY <1>1, <1>7, FailedTurn
<1> QED
  BY <1>6, <1>7 DEF Activate, n

LEMMA RestartUnitDoes ==
    ASSUME TypeOK, NEW a \in Actors, RestartUnit(a)
    PROVE  /\ op[a].pc = "restart"
           /\ UNCHANGED <<rel, current, env, envPrev, clock, place>>
           /\ Turn(a) /\ proc' = [proc EXCEPT ![op[a].unit] = Launch]
           /\ \/ Leads(op'[a], op[a], "health") /\ op[a].unit = NUnits
              \/ /\ Kin(op'[a], op[a]) /\ op'[a].back = op[a].back
                 /\ op'[a].pc = "restart" /\ op'[a].unit = op[a].unit + 1
              \/ Fails(op'[a], op[a])
<1> DEFINE n == [op[a] EXCEPT !.unit = @ + 1]
<1>1. /\ op[a].pc = "restart" /\ proc' = [proc EXCEPT ![op[a].unit] = Launch]
      /\ UNCHANGED <<rel, current, env, envPrev, clock, place>>
  BY DEF RestartUnit
<1>2. op[a] \in Op
  BY DEF TypeOK
<1>3. ASSUME op[a].unit # NUnits
      PROVE  /\ n \in Op /\ Kin(n, op[a]) /\ n.pc = op[a].pc
             /\ n.unit = op[a].unit + 1 /\ n.back = op[a].back
  <2>1. op[a].unit \in Units /\ op[a].unit + 1 \in Units
    BY <1>2, <1>3, NativeAssumption DEF Op, Units
  <2>2. n \in Op /\ n.unit = op[a].unit + 1 /\ n.pc = op[a].pc
    BY <1>2, <2>1 DEF Op
  <2>3. n.back = op[a].back /\ n.had = op[a].had
    BY <1>2 DEF Op
  <2> QED
    BY <1>2, <2>2, <2>3 DEF Op, Kin
<1>4. Goto(op[a], "health") \in Op /\ Leads(Goto(op[a], "health"), op[a], "health")
  BY <1>2, GotoLeads DEF PCs
<1>5. PICK r \in Replies :
        Becomes(a, After(op[a], r, IF op[a].unit = NUnits THEN Goto(op[a], "health") ELSE n))
  BY DEF RestartUnit
<1> HIDE DEF n
<1>6. CASE op[a].unit = NUnits
  BY <1>1, <1>4, <1>5, <1>6, AfterTurn
<1>7. CASE op[a].unit # NUnits
  BY <1>1, <1>3, <1>5, <1>7, AfterTurn
<1> QED
  BY <1>6, <1>7

LEMMA HealthDoes ==
    ASSUME TypeOK, NEW a \in Actors, Healthy(a) \/ Unhealthy(a)
    PROVE  /\ op[a].pc = "health" /\ UNCHANGED host /\ Turn(a)
           /\ \/ HealthyUnits /\ op[a].back /\ Stops(op'[a], op[a], {"restored"})
              \/ HealthyUnits /\ ~op[a].back /\ Leads(op'[a], op[a], "markok")
              \/ Fails(op'[a], op[a])
<1>1. op[a].pc = "health" /\ UNCHANGED host
  BY DEF Healthy, Unhealthy
<1>2. \/ HealthyUnits /\ op[a].back /\ Becomes(a, Finish(op[a], "restored"))
      \/ HealthyUnits /\ ~op[a].back /\ Becomes(a, Goto(op[a], "markok"))
      \/ Becomes(a, Failed(op[a]))
  BY DEF Healthy, Unhealthy
<1> QED
  BY <1>1, <1>2, FinishTurn, GotoTurn, FailedTurn DEF Results, PCs

LEMMA RevertDoes ==
    ASSUME TypeOK, NEW a \in Actors, Revert(a)
    PROVE  /\ op[a].pc = "revert" /\ ~installed /\ UNCHANGED <<rel, proc, clock, place>>
           /\ Turn(a) /\ env' = (IF envPrev = None THEN env ELSE envPrev)
           /\ envPrev' = None
           /\ \/ current' = op[a].prev /\ Leads(op'[a], op[a], "restart")
              \/ current' \in {current, op[a].prev} /\ Fails(op'[a], op[a])
<1>1. /\ op[a].pc = "revert" /\ ~installed /\ UNCHANGED <<rel, proc, clock, place>>
      /\ env' = (IF envPrev = None THEN env ELSE envPrev) /\ envPrev' = None
  BY DEF Revert
<1>2. Goto(op[a], "restart") \in Op /\ Leads(Goto(op[a], "restart"), op[a], "restart")
  BY GotoLeads DEF TypeOK, PCs
<1>3. CASE /\ current' = op[a].prev
           /\ \E r \in Replies : Becomes(a, After(op[a], r, Goto(op[a], "restart")))
  BY <1>1, <1>2, <1>3, AfterTurn
<1>4. CASE Becomes(a, Failed(op[a])) /\ UNCHANGED current
  BY <1>1, <1>4, FailedTurn
<1> QED
  BY <1>3, <1>4 DEF Revert

LEMMA StopUnitDoes ==
    ASSUME TypeOK, NEW a \in Actors, StopUnit(a)
    PROVE  /\ op[a].pc = "stopunits"
           /\ UNCHANGED <<rel, current, env, envPrev, clock, place>>
           /\ Turn(a) /\ proc' \in [Units -> Process]
           /\ \/ Stops(op'[a], op[a], {"failed"})
              \/ Kin(op'[a], op[a]) /\ op'[a].pc = "stopunits"
<1> DEFINE n == [op[a] EXCEPT !.unit = @ + 1]
<1>1. /\ op[a].pc = "stopunits"
      /\ proc' = proc \/ proc' = [proc EXCEPT ![op[a].unit] = None]
      /\ UNCHANGED <<rel, current, env, envPrev, clock, place>>
      /\ Becomes(a, IF op[a].unit = NUnits THEN Finish(op[a], "failed") ELSE n)
  BY DEF StopUnit
<1>2. op[a] \in Op /\ proc \in [Units -> Process]
  BY DEF TypeOK
<1>3. proc' \in [Units -> Process]
  BY <1>1, <1>2 DEF Process
<1>4. ASSUME op[a].unit # NUnits
      PROVE  n \in Op /\ Kin(n, op[a]) /\ n.pc = "stopunits"
  <2>1. op[a].unit \in Units /\ op[a].unit + 1 \in Units
    BY <1>2, <1>4, NativeAssumption DEF Op, Units
  <2>2. n \in Op /\ n.pc = "stopunits"
    BY <1>1, <1>2, <2>1 DEF Op
  <2>3. n.had = op[a].had
    BY <1>2 DEF Op
  <2> QED
    BY <1>2, <2>2, <2>3 DEF Op, Kin
<1> HIDE DEF n
<1>5. CASE op[a].unit = NUnits
  BY <1>1, <1>3, <1>5, FinishTurn DEF Results
<1>6. CASE op[a].unit # NUnits
  BY <1>1, <1>3, <1>4, <1>6, BecomesTurn
<1> QED
  BY <1>5, <1>6

LEMMA MarkOKDoes ==
    ASSUME TypeOK, NEW a \in Actors, op[a].id \in Ids, MarkOK(a)
    PROVE  /\ op[a].pc = "markok" /\ ~installed
           /\ UNCHANGED <<current, env, proc, place>>
           /\ Turn(a)
           /\ rel' \in [Ids -> [sum : Sums \cup {None}, staged : Nat, ok : Nat]]
           /\ clock' \in Nat /\ clock' >= clock
           /\ envPrev' \in {envPrev, None}
           /\ \A i \in Ids : rel'[i].sum = rel[i].sum /\ rel'[i].staged = rel[i].staged
           /\ \A i \in Ids \ {op[a].id} : rel'[i] = rel[i]
           /\ \/ rel' = rel
              \/ rel'[op[a].id].ok = clock + 1 /\ clock' = clock + 1
           /\ \/ /\ op[a].kind \in Deploying /\ Leads(op'[a], op[a], "route")
                 /\ rel'[op[a].id].ok > 0 /\ Present(op[a].id)
              \/ /\ op[a].kind \notin Deploying /\ Stops(op'[a], op[a], {"ok"})
                 /\ rel'[op[a].id].ok > 0 /\ Present(op[a].id)
              \/ Fails(op'[a], op[a])
<1> DEFINE i == op[a].id
           now == clock + 1
           n == IF op[a].kind \in Deploying THEN Goto(op[a], "route") ELSE Finish(op[a], "ok")
<1>1. op[a].pc = "markok" /\ ~installed /\ UNCHANGED <<current, env, proc, place>>
  BY DEF MarkOK
<1>t. /\ rel \in [Ids -> [sum : Sums \cup {None}, staged : Nat, ok : Nat]]
      /\ clock \in Nat /\ op[a] \in Op
  BY DEF TypeOK
<1>2. /\ n \in Op
      /\ \/ op[a].kind \in Deploying /\ Leads(n, op[a], "route")
         \/ op[a].kind \notin Deploying /\ Stops(n, op[a], {"ok"})
  BY <1>t, GotoLeads, FinishStops DEF PCs, Results
<1>3. CASE Present(i) /\ rel' = [rel EXCEPT ![i].ok = now] /\ clock' = now
  <2>1. \/ envPrev' = None /\ \E r \in Replies : Becomes(a, After(op[a], r, n))
        \/ Becomes(a, Failed(op[a])) /\ UNCHANGED envPrev
    BY <1>1, <1>3 DEF MarkOK
  <2>2. /\ rel' \in [Ids -> [sum : Sums \cup {None}, staged : Nat, ok : Nat]]
        /\ \A j \in Ids : rel'[j].sum = rel[j].sum /\ rel'[j].staged = rel[j].staged
        /\ \A j \in Ids \ {i} : rel'[j] = rel[j]
        /\ rel'[i].ok = now
    BY <1>t, <1>3
  <2>3. /\ Turn(a)
        /\ \/ Fails(op'[a], op[a])
           \/ op[a].kind \in Deploying /\ Leads(op'[a], op[a], "route")
           \/ op[a].kind \notin Deploying /\ Stops(op'[a], op[a], {"ok"})
    <3> HIDE DEF n
    <3> QED
      BY <1>1, <1>2, <2>1, AfterTurn, FailedTurn
  <2>4. envPrev' \in {envPrev, None} /\ clock' \in Nat /\ clock' >= clock /\ rel'[i].ok > 0
    BY <1>t, <1>3, <2>1, <2>2
  <2> QED
    BY <1>1, <1>3, <2>2, <2>3, <2>4
<1>4. CASE Becomes(a, Failed(op[a])) /\ UNCHANGED <<rel, clock, envPrev>>
  BY <1>1, <1>t, <1>4, FailedTurn
<1> QED
  BY <1>3, <1>4 DEF MarkOK

LEMMA RouteDoes ==
    ASSUME TypeOK, NEW a \in Actors, Route(a)
    PROVE  /\ op[a].pc = "route" /\ UNCHANGED host /\ Turn(a)
           /\ \/ installed /\ Stops(op'[a], op[a], {"ok"})
              \/ ~installed /\ Leads(op'[a], op[a], "prunefind")
              \/ Fails(op'[a], op[a])
<1> DEFINE n == IF installed THEN Finish(op[a], "ok") ELSE Goto(op[a], "prunefind")
<1>1. op[a].pc = "route" /\ UNCHANGED host
      /\ \E r \in Replies : Becomes(a, After(op[a], r, n))
  BY DEF Route
<1>2. /\ n \in Op
      /\ \/ installed /\ Stops(n, op[a], {"ok"})
         \/ ~installed /\ Leads(n, op[a], "prunefind")
  BY GotoLeads, FinishStops DEF PCs, Results, TypeOK
<1> HIDE DEF n
<1> QED
  BY <1>1, <1>2, AfterTurn

LEMMA PruneFindDoes ==
    ASSUME TypeOK, NEW a \in Actors, PruneFind(a)
    PROVE  /\ op[a].pc = "prunefind" /\ UNCHANGED host /\ Turn(a)
           /\ \/ Stops(op'[a], op[a], {"ok"})
              \/ /\ op'[a].pc = "pruning" /\ op'[a].del = PruneSet
                 /\ op'[a].kind = op[a].kind /\ op'[a].id = op[a].id
                 /\ op'[a].sum = op[a].sum /\ op'[a].env = op[a].env
<1> DEFINE n == [op[a] EXCEPT !.pc = "pruning", !.del = PruneSet]
<1>1. /\ op[a].pc = "prunefind" /\ UNCHANGED host
      /\ \/ Becomes(a, Finish(op[a], "ok"))
         \/ Becomes(a, n)
  BY DEF PruneFind
<1>2. op[a] \in Op /\ PruneSet \in SUBSET Ids
  BY DEF TypeOK, PruneSet
<1>3. /\ n \in Op /\ n.pc = "pruning" /\ n.del = PruneSet /\ n.kind = op[a].kind
      /\ n.id = op[a].id /\ n.sum = op[a].sum /\ n.env = op[a].env
  BY <1>2 DEF Op, PCs
<1> HIDE DEF n
<1>4. CASE Becomes(a, Finish(op[a], "ok"))
  BY <1>1, <1>4, FinishTurn DEF Results
<1>5. CASE Becomes(a, n)
  BY <1>1, <1>3, <1>5, BecomesTurn
<1> QED
  BY <1>1, <1>4, <1>5

LEMMA PruneRemoveDoes ==
    ASSUME TypeOK, NEW a \in Actors, PruneRemove(a)
    PROVE  /\ op[a].pc = "pruning"
           /\ UNCHANGED <<current, env, envPrev, proc, clock, place>>
           /\ Turn(a)
           /\ \E D \in SUBSET op[a].del : rel' = Without(D)
           /\ Stops(op'[a], op[a], {"ok"}) \/ Fails(op'[a], op[a])
<1>1. /\ op[a].pc = "pruning"
      /\ UNCHANGED <<current, env, envPrev, proc, clock, place>>
      /\ \E D \in SUBSET op[a].del : rel' = Without(D)
      /\ \/ \E r \in Replies : Becomes(a, After(op[a], r, Finish(op[a], "ok")))
         \/ Becomes(a, Failed(op[a]))
  BY DEF PruneRemove
<1>2. Finish(op[a], "ok") \in Op /\ Stops(Finish(op[a], "ok"), op[a], {"ok"})
  BY FinishStops DEF TypeOK, Results
<1>3. CASE \E r \in Replies : Becomes(a, After(op[a], r, Finish(op[a], "ok")))
  BY <1>1, <1>2, <1>3, AfterTurn
<1>4. CASE Becomes(a, Failed(op[a]))
  BY <1>1, <1>4, FailedTurn
<1> QED
  BY <1>1, <1>3, <1>4

LEMMA InstallEnvDoes ==
    ASSUME TypeOK, NEW a \in Actors, InstallEnv(a)
    PROVE  /\ op[a].pc = "installenv" /\ env # None
           /\ UNCHANGED <<rel, current, proc, clock, files, installed, program>>
           /\ Turn(a) /\ envPrev' = env
           /\ \/ /\ env' = op[a].env /\ version' = op[a].id
                 /\ \/ /\ op'[a].pc = "restart" /\ op'[a].had /\ op'[a].prev = op[a].prev
                       /\ op'[a].unit = 1 /\ op'[a].back = op[a].back
                       /\ op'[a].kind = op[a].kind /\ op'[a].id = op[a].id
                       /\ op'[a].sum = op[a].sum /\ op'[a].env = op[a].env
                    \/ Fails(op'[a], op[a])
              \/ version' = version /\ env' \in {env, op[a].env} /\ Fails(op'[a], op[a])
<1> DEFINE n == [op[a] EXCEPT !.had = env # None]
<1>1. /\ op[a].pc = "installenv" /\ env # None /\ envPrev' = env
      /\ UNCHANGED <<rel, current, proc, clock, files, installed, program>>
  BY DEF InstallEnv, Possible
<1>2. op[a] \in Op
  BY DEF TypeOK
<1>3. n \in Op
  BY <1>2 DEF Op
<1>h. n.back = op[a].back /\ n.had
  BY <1>1, <1>2 DEF Op
<1>4. /\ n.kind = op[a].kind /\ n.id = op[a].id /\ n.sum = op[a].sum /\ n.env = op[a].env
      /\ n.prev = op[a].prev
  BY <1>2 DEF Op
<1> HIDE DEF n
<1>5. Goto(n, "restart") \in Op /\ Leads(Goto(n, "restart"), n, "restart")
  BY <1>3, GotoLeads DEF PCs
<1>6. CASE /\ env' = op[a].env /\ version' = op[a].id
           /\ \E r \in Replies : Becomes(a, After(op[a], r, Goto(n, "restart")))
  <2>1. Turn(a) /\ (op'[a] = Goto(n, "restart") \/ Fails(op'[a], op[a]))
    BY <1>1, <1>5, <1>6, AfterTurn
  <2>2. CASE op'[a] = Goto(n, "restart")
    BY <1>1, <1>h, <1>4, <1>5, <1>6, <2>1, <2>2 DEF Leads, Kin
  <2> QED
    BY <1>1, <1>6, <2>1, <2>2
<1>7. CASE env' \in {env, op[a].env} /\ Becomes(a, Failed(op[a])) /\ UNCHANGED version
  BY <1>1, <1>7, FailedTurn
<1> QED
  BY <1>6, <1>7 DEF InstallEnv, n

LEMMA RevertEnvDoes ==
    ASSUME TypeOK, NEW a \in Actors, RevertEnv(a)
    PROVE  /\ op[a].pc = "revert" /\ installed
           /\ UNCHANGED <<rel, current, proc, clock, place>>
           /\ Turn(a) /\ env' = (IF envPrev = None THEN env ELSE envPrev)
           /\ envPrev' = None
           /\ \/ envPrev # None /\ Leads(op'[a], op[a], "restart")
              \/ Fails(op'[a], op[a])
<1>1. /\ op[a].pc = "revert" /\ installed
      /\ UNCHANGED <<rel, current, proc, clock, place>>
      /\ env' = (IF envPrev = None THEN env ELSE envPrev) /\ envPrev' = None
      /\ \E r \in Replies : Becomes(a, IF envPrev = None THEN Failed(op[a])
                                       ELSE After(op[a], r, Goto(op[a], "restart")))
  BY DEF RevertEnv
<1>2. Goto(op[a], "restart") \in Op /\ Leads(Goto(op[a], "restart"), op[a], "restart")
  BY GotoLeads DEF TypeOK, PCs
<1>3. CASE envPrev = None
  BY <1>1, <1>3, FailedTurn
<1>4. CASE envPrev # None
  BY <1>1, <1>2, <1>4, AfterTurn
<1> QED
  BY <1>3, <1>4

LEMMA ForgetEnvPrevDoes ==
    ASSUME TypeOK, NEW a \in Actors, ForgetEnvPrev(a)
    PROVE  /\ op[a].pc = "markok" /\ installed /\ envPrev' = None
           /\ UNCHANGED <<rel, current, env, proc, clock, place>>
           /\ Turn(a)
           /\ Leads(op'[a], op[a], "route") \/ Fails(op'[a], op[a])
<1>1. /\ op[a].pc = "markok" /\ installed /\ envPrev' = None
      /\ UNCHANGED <<rel, current, env, proc, clock, place>>
      /\ \E r \in Replies : Becomes(a, After(op[a], r, Goto(op[a], "route")))
  BY DEF ForgetEnvPrev
<1>2. Goto(op[a], "route") \in Op /\ Leads(Goto(op[a], "route"), op[a], "route")
  BY GotoLeads DEF TypeOK, PCs
<1> QED
  BY <1>1, <1>2, AfterTurn

LEMMA SetupDoes ==
    ASSUME TypeOK, NEW a \in Actors, Setup(a)
    PROVE  /\ op[a].pc = "setup"
           /\ UNCHANGED <<rel, current, envPrev, proc, clock, installed, program, version>>
           /\ Turn(a) /\ env' \in Envs \cup {None} /\ files' \subseteq Units
           /\ Stops(op'[a], op[a], {"ok"}) \/ Fails(op'[a], op[a])
<1>1. /\ op[a].pc = "setup"
      /\ UNCHANGED <<rel, current, envPrev, proc, clock, installed, program, version>>
      /\ env' = IF env = None THEN Empty ELSE env
      /\ \/ /\ files' = Units
            /\ \E r \in Replies : Becomes(a, After(op[a], r, Finish(op[a], "ok")))
         \/ /\ \E n \in 0..NUnits - 1 : files' = files \cup 1..n
            /\ Becomes(a, Failed(op[a]))
  BY DEF Setup
<1>2. Finish(op[a], "ok") \in Op /\ Stops(Finish(op[a], "ok"), op[a], {"ok"})
  BY FinishStops DEF TypeOK, Results
<1>3. env' \in Envs \cup {None}
  BY <1>1, NativeAssumption DEF TypeOK
<1>4. files' \subseteq Units
  <2>1. ASSUME NEW n \in 0..NUnits - 1 PROVE 1..n \subseteq Units
    BY NativeAssumption DEF Units
  <2> QED
    BY <1>1, <2>1 DEF TypeOK
<1>5. Turn(a) /\ (Stops(op'[a], op[a], {"ok"}) \/ Fails(op'[a], op[a]))
  BY <1>1, <1>2, AfterTurn, FailedTurn
<1> QED
  BY <1>1, <1>3, <1>4, <1>5

LEMMA TeardownDoes ==
    ASSUME TypeOK, NEW a \in Actors, Teardown(a)
    PROVE  /\ op[a].pc = "teardown" /\ UNCHANGED <<clock, installed, program>>
           /\ Turn(a) /\ files' \subseteq Units /\ proc' \in [Units -> Process]
           /\ \/ UNCHANGED <<rel, current, env, envPrev, version>>
              \/ /\ op[a].kind = "purge"
                 /\ rel' = [i \in Ids |-> Absent]
                 /\ current' = None /\ env' = None /\ envPrev' = None /\ version' = None
           /\ Stops(op'[a], op[a], {"ok"}) \/ Fails(op'[a], op[a])
<1>1. /\ op[a].pc = "teardown" /\ UNCHANGED <<clock, installed, program>>
      /\ \/ UNCHANGED <<rel, current, env, envPrev, version>>
         \/ /\ op[a].kind = "purge"
            /\ rel' = [i \in Ids |-> Absent]
            /\ current' = None /\ env' = None /\ envPrev' = None /\ version' = None
  BY DEF Teardown
<1>2. Finish(op[a], "ok") \in Op /\ Stops(Finish(op[a], "ok"), op[a], {"ok"})
  BY FinishStops DEF TypeOK, Results
<1>3. Turn(a) /\ (Stops(op'[a], op[a], {"ok"}) \/ Fails(op'[a], op[a]))
  <2>1. \/ \E r \in Replies : Becomes(a, After(op[a], r, Finish(op[a], "ok")))
        \/ Becomes(a, Failed(op[a]))
    BY DEF Teardown
  <2> QED
    BY <1>1, <1>2, <2>1, AfterTurn, FailedTurn
<1>4. PICK n \in Nat : UnitsGone(n)
  BY NativeAssumption DEF Teardown
<1>5. files' \subseteq Units /\ proc' \in [Units -> Process]
  <2>1. files' \subseteq Units
    BY <1>4 DEF UnitsGone, TypeOK
  <2>2. None \in Process
    BY DEF Process
  <2> QED
    BY <1>4, <2>1, <2>2 DEF UnitsGone, TypeOK
<1> QED
  BY <1>1, <1>3, <1>5

LEMMA ChooseDoes ==
    ASSUME TypeOK, NEW a \in Actors, Choose(a)
    PROVE  /\ op[a].pc = "choose" /\ UNCHANGED host /\ Turn(a)
           /\ \/ Fails(op'[a], op[a])
              \/ /\ op'[a].kind = op[a].kind /\ op'[a].sum = op[a].sum
                 /\ op'[a].env = op[a].env /\ op'[a].back = op[a].back
                 /\ op'[a].id \in Ids
                 /\ \/ /\ op'[a].pc = "switch" /\ op'[a].id # current
                    \/ /\ op'[a].pc = "idle" /\ op'[a].result = "ok"
                       /\ op'[a].id = current
<1> DEFINE t == IF op[a].kind = "rollback" THEN RollbackTarget ELSE op[a].id
           n == [op[a] EXCEPT !.id = t]
<1>1. /\ op[a].pc = "choose" /\ UNCHANGED host
      /\ \/ Becomes(a, Failed(op[a]))
         \/ t \in Ids /\ t = current /\ Becomes(a, Finish(n, "ok"))
         \/ t \in Ids /\ t # current /\ Becomes(a, Goto(n, "switch"))
  BY DEF Choose
<1>2. op[a] \in Op
  BY DEF TypeOK
<1>3. ASSUME t \in Ids
      PROVE  /\ n \in Op /\ n.id = t /\ n.kind = op[a].kind /\ n.sum = op[a].sum
             /\ n.env = op[a].env
  BY <1>2, <1>3 DEF Op
<1>4. ASSUME t \in Ids
      PROVE  n.back = op[a].back
  BY <1>2, <1>4 DEF Op
<1> HIDE DEF t, n
<1>5. CASE Becomes(a, Failed(op[a]))
  BY <1>1, <1>5, FailedTurn
<1>6. CASE t \in Ids /\ t = current /\ Becomes(a, Finish(n, "ok"))
  <2>1. Finish(n, "ok") \in Op /\ Stops(Finish(n, "ok"), n, {"ok"})
    BY <1>3, <1>6, FinishStops DEF Results
  <2>2. Finish(n, "ok").back = n.back
    BY <1>3, <1>6 DEF Finish, Op
  <2> QED
    BY <1>1, <1>3, <1>4, <1>6, <2>1, <2>2, BecomesTurn DEF Stops, Kin
<1>7. CASE t \in Ids /\ t # current /\ Becomes(a, Goto(n, "switch"))
  <2>1. Goto(n, "switch") \in Op /\ Leads(Goto(n, "switch"), n, "switch")
    BY <1>3, <1>7, GotoLeads DEF PCs
  <2> QED
    BY <1>1, <1>3, <1>4, <1>7, <2>1, BecomesTurn DEF Leads, Kin
<1> QED
  BY <1>1, <1>5, <1>6, <1>7

LEMMA SwitchDoes ==
    ASSUME TypeOK, NEW a \in Actors, Switch(a)
    PROVE  /\ op[a].pc = "switch" /\ UNCHANGED <<rel, env, proc, clock, place>>
           /\ Turn(a)
           /\ \/ /\ Present(op[a].id) /\ envPrev' = None /\ current' = op[a].id
                 /\ \/ /\ op'[a].pc = "restart" /\ op'[a].prev = current
                       /\ op'[a].unit = 1 /\ op'[a].back = op[a].back
                       /\ op'[a].kind = op[a].kind /\ op'[a].id = op[a].id
                       /\ op'[a].sum = op[a].sum /\ op'[a].env = op[a].env
                    \/ Fails(op'[a], op[a])
              \/ /\ envPrev' \in {envPrev, None} /\ current' = current
                 /\ Fails(op'[a], op[a])
<1> DEFINE n == [op[a] EXCEPT !.prev = current]
<1>1. op[a].pc = "switch" /\ UNCHANGED <<rel, env, proc, clock, place>>
  BY DEF Switch
<1>2. op[a] \in Op /\ current \in Ids \cup {None}
  BY DEF TypeOK
<1>3. n \in Op /\ n.back = op[a].back
  BY <1>2 DEF Op
<1>4. /\ n.prev = current /\ n.kind = op[a].kind /\ n.id = op[a].id
      /\ n.sum = op[a].sum /\ n.env = op[a].env
  BY <1>2 DEF Op
<1> HIDE DEF n
<1>5. Goto(n, "restart") \in Op /\ Leads(Goto(n, "restart"), n, "restart")
  BY <1>3, GotoLeads DEF PCs
<1>6. CASE /\ Present(op[a].id) /\ envPrev' = None /\ current' = op[a].id
           /\ \E r \in Replies : Becomes(a, After(op[a], r, Goto(n, "restart")))
  <2>1. Turn(a) /\ (op'[a] = Goto(n, "restart") \/ Fails(op'[a], op[a]))
    BY <1>1, <1>5, <1>6, AfterTurn
  <2>2. CASE op'[a] = Goto(n, "restart")
    BY <1>1, <1>3, <1>4, <1>5, <1>6, <2>1, <2>2 DEF Leads, Kin
  <2> QED
    BY <1>1, <1>6, <2>1, <2>2
<1>7. CASE Becomes(a, Failed(op[a])) /\ envPrev' \in {envPrev, None} /\ current' = current
  BY <1>1, <1>7, FailedTurn
<1> QED
  BY <1>6, <1>7 DEF Switch, n

LEMMA EachUnitDoes ==
    ASSUME TypeOK, Program, NEW a \in Actors, EachUnit(a)
    PROVE  /\ op[a].pc = "each"
           /\ UNCHANGED <<rel, current, env, envPrev, clock, place>>
           /\ Turn(a) /\ proc' \in [Units -> Process]
           /\ \/ Stops(op'[a], op[a], {"ok"})
              \/ Kin(op'[a], op[a]) /\ op'[a].pc = "each"
              \/ Fails(op'[a], op[a])
<1> DEFINE n == [op[a] EXCEPT !.unit = @ + 1]
<1>1. /\ op[a].pc = "each"
      /\ UNCHANGED <<rel, current, env, envPrev, clock, place>>
      /\ \/ proc' = proc
         \/ proc' = [proc EXCEPT ![op[a].unit] = None]
         \/ proc' = [proc EXCEPT ![op[a].unit] = Launch]
  BY DEF EachUnit, TypeOK
<1>2. op[a] \in Op /\ proc \in [Units -> Process]
  BY DEF TypeOK
<1>3. proc' \in [Units -> Process]
  BY <1>1, <1>2, LaunchType DEF Process
<1>4. ASSUME op[a].unit # NUnits
      PROVE  n \in Op /\ Kin(n, op[a]) /\ n.pc = op[a].pc
  <2>1. op[a].unit \in Units /\ op[a].unit + 1 \in Units
    BY <1>2, <1>4, NativeAssumption DEF Op, Units
  <2>2. n \in Op /\ n.pc = op[a].pc
    BY <1>2, <2>1 DEF Op
  <2>3. n.had = op[a].had
    BY <1>2 DEF Op
  <2> QED
    BY <1>2, <2>2, <2>3 DEF Op, Kin
<1>5. Finish(op[a], "ok") \in Op /\ Stops(Finish(op[a], "ok"), op[a], {"ok"})
  BY <1>2, FinishStops DEF Results
<1>6. PICK r \in Replies :
        Becomes(a, After(op[a], r, IF op[a].unit = NUnits THEN Finish(op[a], "ok") ELSE n))
  BY DEF EachUnit
<1> HIDE DEF n
<1>7. CASE op[a].unit = NUnits
  BY <1>1, <1>3, <1>5, <1>6, <1>7, AfterTurn
<1>8. CASE op[a].unit # NUnits
  BY <1>1, <1>3, <1>4, <1>6, <1>8, AfterTurn
<1> QED
  BY <1>7, <1>8

LEMMA FailDoes ==
    ASSUME TypeOK, NEW a \in Actors, Fail(a)
    PROVE  /\ op[a].pc \notin {"idle", "stopunits"} /\ UNCHANGED host /\ Turn(a)
           /\ Fails(op'[a], op[a])
BY FailedTurn DEF Fail

LEMMA CrashDoes ==
    ASSUME TypeOK, NEW a \in Actors, Crash(a)
    PROVE  /\ op[a].pc # "idle" /\ UNCHANGED host /\ Turn(a)
           /\ Stops(op'[a], op[a], {"crashed"})
BY FinishTurn DEF Crash, Results

-----------------------------------------------------------------------------
(* Types, what a command is about, and the lock *)

HostTypes ==
    /\ rel \in [Ids -> [sum : Sums \cup {None}, staged : Nat, ok : Nat]]
    /\ current \in Ids \cup {None}
    /\ env \in Envs \cup {None}
    /\ envPrev \in Envs \cup {None}
    /\ proc \in [Units -> Process]
    /\ files \subseteq Units
    /\ installed \in BOOLEAN
    /\ program \in Sums \cup {None}
    /\ version \in Ids \cup {None}
    /\ clock \in Nat

LEMMA InitBase == Init => Base
<1> SUFFICES ASSUME Init PROVE Base
  OBVIOUS
<1>1. None \in Process /\ 1 \in Units
  BY NativeAssumption DEF Process, Units
<1>2. HostTypes
  BY <1>1, NativeAssumption DEF Init, HostTypes, Absent
<1>3. op \in [Actors -> Op]
  BY <1>1 DEF Init, Op, PCs, Results
<1>4. before \in [Actors -> Before]
  BY <1>1, NativeAssumption DEF Init, Before
<1>5. TypeOK
  <2>1. lock \in Actors \cup {None} /\ started \in 0..MaxOps
    BY NativeAssumption DEF Init
  <2> QED
    BY <1>2, <1>3, <1>4, <2>1 DEF TypeOK, HostTypes
<1>6. ASSUME NEW a \in Actors
      PROVE  op[a].pc = "idle" /\ op[a].kind = "none" /\ op[a].prev = None
  BY DEF Init
<1>7. \A a \in Actors : Suits(a) /\ Holds(a)
  BY <1>6 DEF Suits, Holds, Locks, In, Rolling, Pruning, Deploying, OfReleases
<1>8. Program
  BY DEF Init, Program
<1> QED
  BY <1>5, <1>7, <1>8 DEF Base

LEMMA FailsSuits ==
    ASSUME NEW a \in Actors, Suits(a), Fails(op'[a], op[a]), installed' = installed,
           op[a].pc \notin {"idle", "stopunits"}
    PROVE  Suits(a)' /\ (Locks(a)' => Locks(a))
BY DEF Suits, Fails, Kin, Locks, In, Rolling, Pruning, Deploying, Locked, Rollbacks, OfReleases

LEMMA StopsSuits ==
    ASSUME NEW a \in Actors, NEW r, Suits(a), Stops(op'[a], op[a], r), installed' = installed
    PROVE  Suits(a)' /\ ~Locks(a)'
BY DEF Suits, Stops, Kin, Locks, In, Rolling, Pruning

\* Who holds the lock keeps it until it stops.
LEMMA TurnBase ==
    ASSUME Base, NEW a \in Actors, Turn(a), installed' = installed, program' = program,
           HostTypes', Suits(a)', Locks(a)' => Locks(a)
    PROVE  Base'
<1>1. op'[a] \in Op /\ \A b \in Actors \ {a} : op'[b] = op[b]
  BY DEF Turn
<1>2. Holds(a)'
  <2> SUFFICES ASSUME Locks(a)' PROVE lock' = a
    BY DEF Holds
  <2>1. lock = a
    BY DEF Base, Holds
  <2>2. op'[a].pc # "idle"
    BY DEF Locks, In, Rolling, Pruning
  <2> QED
    BY <2>1, <2>2 DEF Turn
<1>3. ASSUME NEW b \in Actors \ {a} PROVE Suits(b)' /\ Holds(b)'
  <2>1. Suits(b)'
    BY <1>1 DEF Base, Suits, In
  <2>2. Locks(b)' => lock = b
    BY <1>1 DEF Base, Holds, Locks, In
  <2>3. a # b /\ None \notin Actors
    BY NativeAssumption
  <2> QED
    BY <2>1, <2>2, <2>3 DEF Turn, Holds
<1>4. \A b \in Actors : Suits(b)' /\ Holds(b)'
  BY <1>2, <1>3
<1>5. TypeOK'
  BY DEF Base, TypeOK, HostTypes, Turn
<1>6. Program'
  BY DEF Base, Program
<1> QED
  BY <1>4, <1>5, <1>6 DEF Base

LEMMA BeginBase ==
    ASSUME Base, NEW a \in Actors, Begin(a)
    PROVE  Base'
<1> DEFINE k == op'[a].kind
<1>1. TypeOK
  BY DEF Base
<1>2. /\ op[a].pc = "idle" /\ op' \in [Actors -> Op]
      /\ \A b \in Actors \ {a} : op'[b] = op[b]
      /\ k \in Kinds /\ op'[a].pc = Entry(k)
      /\ installed => k \notin OfReleases
      /\ op'[a].prev = None
      /\ k \in Deploying => op'[a].id \in Ids /\ op'[a].sum \in Sums /\ op'[a].env \in Envs
      /\ k \in Locked => lock = None
      /\ lock' = IF k \in Locked THEN a ELSE lock
      /\ lock' \in Actors \cup {None}
      /\ started' \in 0..MaxOps /\ before' \in [Actors -> Before]
      /\ UNCHANGED host
  BY <1>1, BeginDoes
<1> HIDE DEF k
<1>3. k \in AllKinds
  BY <1>2, NativeAssumption
<1>4. Suits(a)' /\ (Locks(a)' => k \in Locked)
  <2>1. op'[a].kind = k
    BY DEF k
  <2>2. \/ k = "deploy" /\ op'[a].pc = "preflight"
        \/ k = "reconcile" /\ op'[a].pc = "inspect"
        \/ k \in Rollbacks /\ op'[a].pc = "choose"
        \/ k = "prune" /\ op'[a].pc = "prunefind"
        \/ k = "setup" /\ op'[a].pc = "setup"
        \/ k \in {"remove", "purge"} /\ op'[a].pc = "teardown"
        \/ k \in {"stop", "start", "restart"} /\ op'[a].pc = "each"
    BY <1>2, <1>3 DEF Entry, AllKinds, Locked, OfReleases, Rollbacks
  <2>3. installed' = installed
    BY <1>2 DEF host, place
  <2> QED
    BY <1>2, <2>1, <2>2, <2>3
    DEF Suits, Locks, In, Rolling, Pruning, Deploying, Locked, OfReleases, Rollbacks
<1>5. Holds(a)'
  BY <1>2, <1>4 DEF Holds
<1>6. ASSUME NEW b \in Actors \ {a} PROVE Suits(b)' /\ Holds(b)'
  <2>1. installed' = installed
    BY <1>2 DEF host, place
  <2>2. Suits(b)'
    BY <1>2, <2>1 DEF Base, Suits, In
  <2>3. Locks(b)' => lock = b
    BY <1>2 DEF Base, Holds, Locks, In
  <2>4. b # None
    BY NativeAssumption
  <2> QED
    BY <1>2, <2>2, <2>3, <2>4 DEF Holds
<1>7. TypeOK' /\ Program'
  BY <1>1, <1>2 DEF TypeOK, host, place, Base, Program
<1>8. \A b \in Actors : Suits(b)' /\ Holds(b)'
  BY <1>4, <1>5, <1>6
<1> QED
  BY <1>7, <1>8 DEF Base

LEMMA StepBase ==
    ASSUME Base, NEW a \in Actors, Step(a)
    PROVE  Base'
<1>t. TypeOK /\ Program /\ Suits(a) /\ Holds(a) /\ HostTypes /\ op[a] \in Op
  BY DEF Base, TypeOK, HostTypes
<1>i. In(a, {"stage", "activate", "installenv"}) =>
         op[a].id \in Ids /\ op[a].sum \in Sums /\ op[a].env \in Envs
  BY <1>t DEF Suits, In
<1>m. In(a, Rolling \ {"choose"}) => op[a].id \in Ids
  BY <1>t DEF Suits
<1>e. op[a].env \in Envs \cup {None} /\ op[a].prev \in Ids \cup {None}
      /\ op[a].id \in Ids \cup {None}
  BY <1>t DEF Op
<1>1. CASE Inspect(a)
  <2>1. /\ op[a].pc = "inspect" /\ UNCHANGED host
        /\ \/ Turn(a) /\ Stops(op'[a], op[a], {"ok"})
           \/ Turn(a) /\ Fails(op'[a], op[a])
           \/ Takes(a) /\ Kin(op'[a], op[a]) /\ op'[a].pc = "preflight"
    BY <1>t, <1>1, InspectDoes
  <2>2. HostTypes' /\ installed' = installed /\ program' = program
    BY <1>t, <2>1 DEF HostTypes, host, place
  <2>3. CASE Turn(a)
    <3>1. Suits(a)' /\ (Locks(a)' => Locks(a))
      <4>1. CASE Stops(op'[a], op[a], {"ok"})
        BY <1>t, <2>2, <4>1, StopsSuits
      <4>2. CASE Fails(op'[a], op[a])
        BY <1>t, <2>1, <2>2, <4>2, FailsSuits
      <4>3. CASE Takes(a)
        BY <2>3, <4>3, NativeAssumption DEF Takes, Turn
      <4> QED
        BY <2>1, <4>1, <4>2, <4>3
    <3> QED
      BY <2>2, <2>3, <3>1, TurnBase
  <2>4. CASE Takes(a) /\ Kin(op'[a], op[a]) /\ op'[a].pc = "preflight"
    <3>1. Suits(a)'
      BY <1>t, <2>1, <2>2, <2>4
      DEF Suits, Locks, In, Rolling, Pruning, Deploying, Locked, Rollbacks, OfReleases, Leads, Kin
    <3>2. ASSUME NEW b \in Actors \ {a} PROVE Suits(b)' /\ Holds(b)'
      <4>1. op'[b] = op[b] /\ lock = None /\ b # None
        BY <2>4, NativeAssumption DEF Takes
      <4>2. Suits(b)'
        BY <2>2, <4>1 DEF Base, Suits, In
      <4>3. Locks(b)' => lock = b
        BY <4>1 DEF Base, Holds, Locks, In
      <4> QED
        BY <4>1, <4>2, <4>3 DEF Holds
    <3>3. \A b \in Actors : Suits(b)' /\ Holds(b)'
      BY <2>4, <3>1, <3>2 DEF Holds, Takes
    <3>4. TypeOK' /\ Program'
      BY <1>t, <2>2, <2>4 DEF TypeOK, HostTypes, Takes, Program
    <3> QED
      BY <3>3, <3>4 DEF Base
  <2> QED
    BY <2>1, <2>3, <2>4
<1>2. CASE Preflight(a)
  <2>1. /\ op[a].pc = "preflight" /\ Turn(a)
        /\ \/ installed /\ Leads(op'[a], op[a], "installenv")
           \/ ~installed /\ Leads(op'[a], op[a], "stage")
           \/ Fails(op'[a], op[a])
    BY <1>t, <1>2, PreflightDoes
  <2>2. HostTypes' /\ installed' = installed /\ program' = program
    BY <1>t, <1>e, <1>2, PreflightDoes DEF HostTypes, host, place
  <2>3. Suits(a)' /\ (Locks(a)' => Locks(a))
    <3>1. CASE installed /\ Leads(op'[a], op[a], "installenv")
      BY <1>t, <1>m, <2>1, <2>2, <3>1 DEF Suits, Locks, In, Rolling, Pruning, Deploying,
           Locked, Rollbacks, OfReleases, Leads, Kin
    <3>2. CASE ~installed /\ Leads(op'[a], op[a], "stage")
      BY <1>t, <1>m, <2>1, <2>2, <3>2 DEF Suits, Locks, In, Rolling, Pruning, Deploying,
           Locked, Rollbacks, OfReleases, Leads, Kin
    <3>3. CASE Fails(op'[a], op[a])
      BY <1>t, <2>1, <2>2, <3>3, FailsSuits
    <3> QED
      BY <2>1, <3>1, <3>2, <3>3
  <2> QED
    BY <2>1, <2>2, <2>3, TurnBase
<1>3. CASE Stage(a)
  <2>1. /\ op[a].pc = "stage" /\ Turn(a)
        /\ \/ Leads(op'[a], op[a], "activate")
           \/ Fails(op'[a], op[a])
    BY <1>t, <1>i, <1>3, StageDoes DEF Stage, In
  <2>2. HostTypes' /\ installed' = installed /\ program' = program
    BY <1>t, <1>e, <1>i, <1>3, StageDoes DEF HostTypes, host, place, Stage, In
  <2>3. Suits(a)' /\ (Locks(a)' => Locks(a))
    <3>1. CASE Leads(op'[a], op[a], "activate")
      BY <1>t, <1>m, <2>1, <2>2, <3>1 DEF Suits, Locks, In, Rolling, Pruning, Deploying,
           Locked, Rollbacks, OfReleases, Leads, Kin
    <3>2. CASE Fails(op'[a], op[a])
      BY <1>t, <2>1, <2>2, <3>2, FailsSuits
    <3> QED
      BY <2>1, <3>1, <3>2
  <2> QED
    BY <2>1, <2>2, <2>3, TurnBase
<1>4. CASE Activate(a)
  <2>1. /\ op[a].pc = "activate" /\ Turn(a)
        /\ \/ /\ op'[a].pc = "restart"
              /\ op'[a].kind = op[a].kind /\ op'[a].id = op[a].id
              /\ op'[a].sum = op[a].sum /\ op'[a].env = op[a].env
           \/ Fails(op'[a], op[a])
    BY <1>t, <1>4, ActivateDoes
  <2>2. HostTypes' /\ installed' = installed /\ program' = program
    BY <1>t, <1>e, <1>4, ActivateDoes DEF HostTypes, host, place
  <2>3. Suits(a)' /\ (Locks(a)' => Locks(a))
    <3>1. CASE /\ op'[a].pc = "restart"
               /\ op'[a].kind = op[a].kind /\ op'[a].id = op[a].id
               /\ op'[a].sum = op[a].sum /\ op'[a].env = op[a].env
      BY <1>t, <1>m, <2>1, <2>2, <3>1 DEF Suits, Locks, In, Rolling, Pruning, Deploying,
           Locked, Rollbacks, OfReleases, Leads, Kin
    <3>2. CASE Fails(op'[a], op[a])
      BY <1>t, <2>1, <2>2, <3>2, FailsSuits
    <3> QED
      BY <2>1, <3>1, <3>2
  <2> QED
    BY <2>1, <2>2, <2>3, TurnBase
<1>5. CASE RestartUnit(a)
  <2>1. /\ op[a].pc = "restart" /\ Turn(a)
        /\ \/ Leads(op'[a], op[a], "health")
           \/ Kin(op'[a], op[a]) /\ op'[a].pc = "restart"
           \/ Fails(op'[a], op[a])
    BY <1>t, <1>5, RestartUnitDoes
  <2>2. HostTypes' /\ installed' = installed /\ program' = program
    BY <1>t, <1>e, <1>5, RestartUnitDoes, LaunchType DEF HostTypes, host, place
  <2>3. Suits(a)' /\ (Locks(a)' => Locks(a))
    <3>1. CASE Leads(op'[a], op[a], "health")
      BY <1>t, <1>m, <2>1, <2>2, <3>1 DEF Suits, Locks, In, Rolling, Pruning, Deploying,
           Locked, Rollbacks, OfReleases, Leads, Kin
    <3>2. CASE Kin(op'[a], op[a]) /\ op'[a].pc = "restart"
      BY <1>t, <1>m, <2>1, <2>2, <3>2 DEF Suits, Locks, In, Rolling, Pruning, Deploying,
           Locked, Rollbacks, OfReleases, Leads, Kin
    <3>3. CASE Fails(op'[a], op[a])
      BY <1>t, <2>1, <2>2, <3>3, FailsSuits
    <3> QED
      BY <2>1, <3>1, <3>2, <3>3
  <2> QED
    BY <2>1, <2>2, <2>3, TurnBase
<1>6. CASE Healthy(a)
  <2>1. /\ op[a].pc = "health" /\ Turn(a)
        /\ \/ Stops(op'[a], op[a], {"restored"})
           \/ Leads(op'[a], op[a], "markok")
           \/ Fails(op'[a], op[a])
    BY <1>t, <1>6, HealthDoes
  <2>2. HostTypes' /\ installed' = installed /\ program' = program
    BY <1>t, <1>e, <1>6, HealthDoes DEF HostTypes, host, place
  <2>3. Suits(a)' /\ (Locks(a)' => Locks(a))
    <3>1. CASE Stops(op'[a], op[a], {"restored"})
      BY <1>t, <2>2, <3>1, StopsSuits
    <3>2. CASE Leads(op'[a], op[a], "markok")
      BY <1>t, <1>m, <2>1, <2>2, <3>2 DEF Suits, Locks, In, Rolling, Pruning, Deploying,
           Locked, Rollbacks, OfReleases, Leads, Kin
    <3>3. CASE Fails(op'[a], op[a])
      BY <1>t, <2>1, <2>2, <3>3, FailsSuits
    <3> QED
      BY <2>1, <3>1, <3>2, <3>3
  <2> QED
    BY <2>1, <2>2, <2>3, TurnBase
<1>7. CASE Unhealthy(a)
  <2>1. /\ op[a].pc = "health" /\ Turn(a)
        /\ \/ Stops(op'[a], op[a], {"restored"})
           \/ Leads(op'[a], op[a], "markok")
           \/ Fails(op'[a], op[a])
    BY <1>t, <1>7, HealthDoes
  <2>2. HostTypes' /\ installed' = installed /\ program' = program
    BY <1>t, <1>e, <1>7, HealthDoes DEF HostTypes, host, place
  <2>3. Suits(a)' /\ (Locks(a)' => Locks(a))
    <3>1. CASE Stops(op'[a], op[a], {"restored"})
      BY <1>t, <2>2, <3>1, StopsSuits
    <3>2. CASE Leads(op'[a], op[a], "markok")
      BY <1>t, <1>m, <2>1, <2>2, <3>2 DEF Suits, Locks, In, Rolling, Pruning, Deploying,
           Locked, Rollbacks, OfReleases, Leads, Kin
    <3>3. CASE Fails(op'[a], op[a])
      BY <1>t, <2>1, <2>2, <3>3, FailsSuits
    <3> QED
      BY <2>1, <3>1, <3>2, <3>3
  <2> QED
    BY <2>1, <2>2, <2>3, TurnBase
<1>8. CASE Revert(a)
  <2>1. /\ op[a].pc = "revert" /\ Turn(a)
        /\ \/ Leads(op'[a], op[a], "restart")
           \/ Fails(op'[a], op[a])
    BY <1>t, <1>8, RevertDoes
  <2>2. HostTypes' /\ installed' = installed /\ program' = program
    BY <1>t, <1>e, <1>8, RevertDoes DEF HostTypes, host, place
  <2>3. Suits(a)' /\ (Locks(a)' => Locks(a))
    <3>1. CASE Leads(op'[a], op[a], "restart")
      BY <1>t, <1>m, <2>1, <2>2, <3>1 DEF Suits, Locks, In, Rolling, Pruning, Deploying,
           Locked, Rollbacks, OfReleases, Leads, Kin
    <3>2. CASE Fails(op'[a], op[a])
      BY <1>t, <2>1, <2>2, <3>2, FailsSuits
    <3> QED
      BY <2>1, <3>1, <3>2
  <2> QED
    BY <2>1, <2>2, <2>3, TurnBase
<1>9. CASE StopUnit(a)
  <2>1. /\ op[a].pc = "stopunits" /\ Turn(a)
        /\ \/ Stops(op'[a], op[a], {"failed"})
           \/ Kin(op'[a], op[a]) /\ op'[a].pc = "stopunits"
    BY <1>t, <1>9, StopUnitDoes
  <2>2. HostTypes' /\ installed' = installed /\ program' = program
    BY <1>t, <1>e, <1>9, StopUnitDoes DEF HostTypes, host, place
  <2>3. Suits(a)' /\ (Locks(a)' => Locks(a))
    <3>1. CASE Stops(op'[a], op[a], {"failed"})
      BY <1>t, <2>2, <3>1, StopsSuits
    <3>2. CASE Kin(op'[a], op[a]) /\ op'[a].pc = "stopunits"
      BY <1>t, <1>m, <2>1, <2>2, <3>2 DEF Suits, Locks, In, Rolling, Pruning, Deploying,
           Locked, Rollbacks, OfReleases, Leads, Kin
    <3> QED
      BY <2>1, <3>1, <3>2
  <2> QED
    BY <2>1, <2>2, <2>3, TurnBase
<1>10. CASE MarkOK(a)
  <2>1. /\ op[a].pc = "markok" /\ Turn(a)
        /\ \/ op[a].kind \in Deploying /\ Leads(op'[a], op[a], "route")
           \/ Stops(op'[a], op[a], {"ok"})
           \/ Fails(op'[a], op[a])
    BY <1>t, <1>m, <1>10, MarkOKDoes DEF MarkOK, In, Rolling
  <2>2. HostTypes' /\ installed' = installed /\ program' = program
    BY <1>t, <1>e, <1>m, <1>10, MarkOKDoes DEF HostTypes, host, place, MarkOK, In, Rolling
  <2>3. Suits(a)' /\ (Locks(a)' => Locks(a))
    <3>1. CASE op[a].kind \in Deploying /\ Leads(op'[a], op[a], "route")
      BY <1>t, <1>m, <2>1, <2>2, <3>1 DEF Suits, Locks, In, Rolling, Pruning, Deploying,
           Locked, Rollbacks, OfReleases, Leads, Kin
    <3>2. CASE Stops(op'[a], op[a], {"ok"})
      BY <1>t, <2>2, <3>2, StopsSuits
    <3>3. CASE Fails(op'[a], op[a])
      BY <1>t, <2>1, <2>2, <3>3, FailsSuits
    <3> QED
      BY <2>1, <3>1, <3>2, <3>3
  <2> QED
    BY <2>1, <2>2, <2>3, TurnBase
<1>11. CASE Route(a)
  <2>1. /\ op[a].pc = "route" /\ Turn(a)
        /\ \/ Stops(op'[a], op[a], {"ok"})
           \/ op[a].kind \in Deploying /\ ~installed /\ Leads(op'[a], op[a], "prunefind")
           \/ Fails(op'[a], op[a])
    BY <1>t, <1>11, RouteDoes DEF Suits, In
  <2>2. HostTypes' /\ installed' = installed /\ program' = program
    BY <1>t, <1>e, <1>11, RouteDoes DEF HostTypes, host, place, Suits, In
  <2>3. Suits(a)' /\ (Locks(a)' => Locks(a))
    <3>1. CASE Stops(op'[a], op[a], {"ok"})
      BY <1>t, <2>2, <3>1, StopsSuits
    <3>2. CASE op[a].kind \in Deploying /\ ~installed /\ Leads(op'[a], op[a], "prunefind")
      BY <1>t, <1>m, <2>1, <2>2, <3>2 DEF Suits, Locks, In, Rolling, Pruning, Deploying,
           Locked, Rollbacks, OfReleases, Leads, Kin
    <3>3. CASE Fails(op'[a], op[a])
      BY <1>t, <2>1, <2>2, <3>3, FailsSuits
    <3> QED
      BY <2>1, <3>1, <3>2, <3>3
  <2> QED
    BY <2>1, <2>2, <2>3, TurnBase
<1>12. CASE PruneFind(a)
  <2>1. /\ op[a].pc = "prunefind" /\ Turn(a)
        /\ \/ Stops(op'[a], op[a], {"ok"})
           \/ /\ op'[a].pc = "pruning"
              /\ op'[a].kind = op[a].kind /\ op'[a].id = op[a].id
              /\ op'[a].sum = op[a].sum /\ op'[a].env = op[a].env
    BY <1>t, <1>12, PruneFindDoes
  <2>2. HostTypes' /\ installed' = installed /\ program' = program
    BY <1>t, <1>e, <1>12, PruneFindDoes DEF HostTypes, host, place
  <2>3. Suits(a)' /\ (Locks(a)' => Locks(a))
    <3>1. CASE Stops(op'[a], op[a], {"ok"})
      BY <1>t, <2>2, <3>1, StopsSuits
    <3>2. CASE /\ op'[a].pc = "pruning"
               /\ op'[a].kind = op[a].kind /\ op'[a].id = op[a].id
               /\ op'[a].sum = op[a].sum /\ op'[a].env = op[a].env
      BY <1>t, <1>m, <2>1, <2>2, <3>2 DEF Suits, Locks, In, Rolling, Pruning, Deploying,
           Locked, Rollbacks, OfReleases, Leads, Kin
    <3> QED
      BY <2>1, <3>1, <3>2
  <2> QED
    BY <2>1, <2>2, <2>3, TurnBase
<1>13. CASE PruneRemove(a)
  <2>1. /\ op[a].pc = "pruning" /\ Turn(a)
        /\ \/ Stops(op'[a], op[a], {"ok"})
           \/ Fails(op'[a], op[a])
    BY <1>t, <1>13, PruneRemoveDoes
  <2>2. HostTypes' /\ installed' = installed /\ program' = program
    BY <1>t, <1>e, <1>13, PruneRemoveDoes DEF HostTypes, host, place, Without, Absent
  <2>3. Suits(a)' /\ (Locks(a)' => Locks(a))
    <3>1. CASE Stops(op'[a], op[a], {"ok"})
      BY <1>t, <2>2, <3>1, StopsSuits
    <3>2. CASE Fails(op'[a], op[a])
      BY <1>t, <2>1, <2>2, <3>2, FailsSuits
    <3> QED
      BY <2>1, <3>1, <3>2
  <2> QED
    BY <2>1, <2>2, <2>3, TurnBase
<1>14. CASE Choose(a)
  <2>1. /\ op[a].pc = "choose" /\ Turn(a)
        /\ \/ /\ op'[a].pc = "switch" /\ op'[a].kind = op[a].kind /\ op'[a].id \in Ids
              /\ op'[a].sum = op[a].sum /\ op'[a].env = op[a].env
           \/ /\ op'[a].pc = "idle" /\ op'[a].kind = op[a].kind /\ op'[a].id \in Ids
              /\ op'[a].sum = op[a].sum /\ op'[a].env = op[a].env
           \/ Fails(op'[a], op[a])
    BY <1>t, <1>14, ChooseDoes
  <2>2. HostTypes' /\ installed' = installed /\ program' = program
    BY <1>t, <1>e, <1>14, ChooseDoes DEF HostTypes, host, place
  <2>3. Suits(a)' /\ (Locks(a)' => Locks(a))
    <3>1. CASE /\ op'[a].pc = "switch" /\ op'[a].kind = op[a].kind /\ op'[a].id \in Ids
               /\ op'[a].sum = op[a].sum /\ op'[a].env = op[a].env
      BY <1>t, <1>m, <2>1, <2>2, <3>1 DEF Suits, Locks, In, Rolling, Pruning, Deploying,
           Locked, Rollbacks, OfReleases, Leads, Kin
    <3>2. CASE /\ op'[a].pc = "idle" /\ op'[a].kind = op[a].kind /\ op'[a].id \in Ids
               /\ op'[a].sum = op[a].sum /\ op'[a].env = op[a].env
      BY <1>t, <1>m, <2>1, <2>2, <3>2 DEF Suits, Locks, In, Rolling, Pruning, Deploying,
           Locked, Rollbacks, OfReleases, Leads, Kin
    <3>3. CASE Fails(op'[a], op[a])
      BY <1>t, <2>1, <2>2, <3>3, FailsSuits
    <3> QED
      BY <2>1, <3>1, <3>2, <3>3
  <2> QED
    BY <2>1, <2>2, <2>3, TurnBase
<1>15. CASE Switch(a)
  <2>1. /\ op[a].pc = "switch" /\ Turn(a)
        /\ \/ /\ op'[a].pc = "restart"
              /\ op'[a].kind = op[a].kind /\ op'[a].id = op[a].id
              /\ op'[a].sum = op[a].sum /\ op'[a].env = op[a].env
           \/ Fails(op'[a], op[a])
    BY <1>t, <1>15, SwitchDoes
  <2>2. HostTypes' /\ installed' = installed /\ program' = program
    BY <1>t, <1>e, <1>15, SwitchDoes DEF HostTypes, host, place
  <2>3. Suits(a)' /\ (Locks(a)' => Locks(a))
    <3>1. CASE /\ op'[a].pc = "restart"
               /\ op'[a].kind = op[a].kind /\ op'[a].id = op[a].id
               /\ op'[a].sum = op[a].sum /\ op'[a].env = op[a].env
      BY <1>t, <1>m, <2>1, <2>2, <3>1 DEF Suits, Locks, In, Rolling, Pruning, Deploying,
           Locked, Rollbacks, OfReleases, Leads, Kin
    <3>2. CASE Fails(op'[a], op[a])
      BY <1>t, <2>1, <2>2, <3>2, FailsSuits
    <3> QED
      BY <2>1, <3>1, <3>2
  <2> QED
    BY <2>1, <2>2, <2>3, TurnBase
<1>16. CASE InstallEnv(a)
  <2>1. /\ op[a].pc = "installenv" /\ Turn(a)
        /\ \/ /\ op'[a].pc = "restart"
              /\ op'[a].kind = op[a].kind /\ op'[a].id = op[a].id
              /\ op'[a].sum = op[a].sum /\ op'[a].env = op[a].env /\ op'[a].prev = op[a].prev
           \/ Fails(op'[a], op[a])
    BY <1>t, <1>16, InstallEnvDoes
  <2>2. HostTypes' /\ installed' = installed /\ program' = program
    BY <1>t, <1>e, <1>16, InstallEnvDoes DEF HostTypes, host, place
  <2>3. Suits(a)' /\ (Locks(a)' => Locks(a))
    <3>1. CASE /\ op'[a].pc = "restart"
               /\ op'[a].kind = op[a].kind /\ op'[a].id = op[a].id
               /\ op'[a].sum = op[a].sum /\ op'[a].env = op[a].env /\ op'[a].prev = op[a].prev
      BY <1>t, <1>m, <2>1, <2>2, <3>1 DEF Suits, Locks, In, Rolling, Pruning, Deploying,
           Locked, Rollbacks, OfReleases, Leads, Kin
    <3>2. CASE Fails(op'[a], op[a])
      BY <1>t, <2>1, <2>2, <3>2, FailsSuits
    <3> QED
      BY <2>1, <3>1, <3>2
  <2> QED
    BY <2>1, <2>2, <2>3, TurnBase
<1>17. CASE RevertEnv(a)
  <2>1. /\ op[a].pc = "revert" /\ Turn(a)
        /\ \/ Leads(op'[a], op[a], "restart")
           \/ Fails(op'[a], op[a])
    BY <1>t, <1>17, RevertEnvDoes
  <2>2. HostTypes' /\ installed' = installed /\ program' = program
    BY <1>t, <1>e, <1>17, RevertEnvDoes DEF HostTypes, host, place
  <2>3. Suits(a)' /\ (Locks(a)' => Locks(a))
    <3>1. CASE Leads(op'[a], op[a], "restart")
      BY <1>t, <1>m, <2>1, <2>2, <3>1 DEF Suits, Locks, In, Rolling, Pruning, Deploying,
           Locked, Rollbacks, OfReleases, Leads, Kin
    <3>2. CASE Fails(op'[a], op[a])
      BY <1>t, <2>1, <2>2, <3>2, FailsSuits
    <3> QED
      BY <2>1, <3>1, <3>2
  <2> QED
    BY <2>1, <2>2, <2>3, TurnBase
<1>18. CASE ForgetEnvPrev(a)
  <2>1. /\ op[a].pc = "markok" /\ Turn(a)
        /\ \/ installed /\ Leads(op'[a], op[a], "route")
           \/ Fails(op'[a], op[a])
    BY <1>t, <1>18, ForgetEnvPrevDoes
  <2>2. HostTypes' /\ installed' = installed /\ program' = program
    BY <1>t, <1>e, <1>18, ForgetEnvPrevDoes DEF HostTypes, host, place
  <2>3. Suits(a)' /\ (Locks(a)' => Locks(a))
    <3>1. CASE installed /\ Leads(op'[a], op[a], "route")
      BY <1>t, <1>m, <2>1, <2>2, <3>1 DEF Suits, Locks, In, Rolling, Pruning, Deploying,
           Locked, Rollbacks, OfReleases, Leads, Kin
    <3>2. CASE Fails(op'[a], op[a])
      BY <1>t, <2>1, <2>2, <3>2, FailsSuits
    <3> QED
      BY <2>1, <3>1, <3>2
  <2> QED
    BY <2>1, <2>2, <2>3, TurnBase
<1>19. CASE Setup(a)
  <2>1. /\ op[a].pc = "setup" /\ Turn(a)
        /\ \/ Stops(op'[a], op[a], {"ok"})
           \/ Fails(op'[a], op[a])
    BY <1>t, <1>19, SetupDoes
  <2>2. HostTypes' /\ installed' = installed /\ program' = program
    BY <1>t, <1>e, <1>19, SetupDoes DEF HostTypes, host, place
  <2>3. Suits(a)' /\ (Locks(a)' => Locks(a))
    <3>1. CASE Stops(op'[a], op[a], {"ok"})
      BY <1>t, <2>2, <3>1, StopsSuits
    <3>2. CASE Fails(op'[a], op[a])
      BY <1>t, <2>1, <2>2, <3>2, FailsSuits
    <3> QED
      BY <2>1, <3>1, <3>2
  <2> QED
    BY <2>1, <2>2, <2>3, TurnBase
<1>20. CASE Teardown(a)
  <2>1. /\ op[a].pc = "teardown" /\ Turn(a)
        /\ \/ Stops(op'[a], op[a], {"ok"})
           \/ Fails(op'[a], op[a])
    BY <1>t, <1>20, TeardownDoes
  <2>2. HostTypes' /\ installed' = installed /\ program' = program
    BY <1>t, <1>e, <1>20, TeardownDoes DEF HostTypes, host, place, Absent
  <2>3. Suits(a)' /\ (Locks(a)' => Locks(a))
    <3>1. CASE Stops(op'[a], op[a], {"ok"})
      BY <1>t, <2>2, <3>1, StopsSuits
    <3>2. CASE Fails(op'[a], op[a])
      BY <1>t, <2>1, <2>2, <3>2, FailsSuits
    <3> QED
      BY <2>1, <3>1, <3>2
  <2> QED
    BY <2>1, <2>2, <2>3, TurnBase
<1>21. CASE EachUnit(a)
  <2>1. /\ op[a].pc = "each" /\ Turn(a)
        /\ \/ Stops(op'[a], op[a], {"ok"})
           \/ Kin(op'[a], op[a]) /\ op'[a].pc = "each"
           \/ Fails(op'[a], op[a])
    BY <1>t, <1>21, EachUnitDoes
  <2>2. HostTypes' /\ installed' = installed /\ program' = program
    BY <1>t, <1>e, <1>21, EachUnitDoes DEF HostTypes, host, place
  <2>3. Suits(a)' /\ (Locks(a)' => Locks(a))
    <3>1. CASE Stops(op'[a], op[a], {"ok"})
      BY <1>t, <2>2, <3>1, StopsSuits
    <3>2. CASE Kin(op'[a], op[a]) /\ op'[a].pc = "each"
      BY <1>t, <1>m, <2>1, <2>2, <3>2 DEF Suits, Locks, In, Rolling, Pruning, Deploying,
           Locked, Rollbacks, OfReleases, Leads, Kin
    <3>3. CASE Fails(op'[a], op[a])
      BY <1>t, <2>1, <2>2, <3>3, FailsSuits
    <3> QED
      BY <2>1, <3>1, <3>2, <3>3
  <2> QED
    BY <2>1, <2>2, <2>3, TurnBase
<1>22. CASE Fail(a)
  <2>1. /\ op[a].pc \notin {"idle", "stopunits"} /\ Turn(a)
        /\ \/ Fails(op'[a], op[a])
    BY <1>t, <1>22, FailDoes
  <2>2. HostTypes' /\ installed' = installed /\ program' = program
    BY <1>t, <1>e, <1>22, FailDoes DEF HostTypes, host, place
  <2>3. Suits(a)' /\ (Locks(a)' => Locks(a))
    <3>1. CASE Fails(op'[a], op[a])
      BY <1>t, <2>1, <2>2, <3>1, FailsSuits
    <3> QED
      BY <2>1, <3>1
  <2> QED
    BY <2>1, <2>2, <2>3, TurnBase
<1>23. CASE Crash(a)
  <2>1. /\ op[a].pc # "idle" /\ Turn(a)
        /\ \/ Stops(op'[a], op[a], {"crashed"})
    BY <1>t, <1>23, CrashDoes
  <2>2. HostTypes' /\ installed' = installed /\ program' = program
    BY <1>t, <1>e, <1>23, CrashDoes DEF HostTypes, host, place
  <2>3. Suits(a)' /\ (Locks(a)' => Locks(a))
    <3>1. CASE Stops(op'[a], op[a], {"crashed"})
      BY <1>t, <2>2, <3>1, StopsSuits
    <3> QED
      BY <2>1, <3>1
  <2> QED
    BY <2>1, <2>2, <2>3, TurnBase
<1> QED
  BY <1>1, <1>2, <1>3, <1>4, <1>5, <1>6, <1>7, <1>8, <1>9, <1>10, <1>11, <1>12, <1>13, <1>14,
     <1>15, <1>16, <1>17, <1>18, <1>19, <1>20, <1>21, <1>22, <1>23 DEF Step

LEMMA NextBase == Base /\ [Next]_vars => Base'
<1> SUFFICES ASSUME Base, [Next]_vars PROVE Base'
  OBVIOUS
<1>1. CASE \E a \in Actors : Begin(a)
  BY <1>1, BeginBase
<1>2. CASE \E a \in Actors : Step(a)
  BY <1>2, StepBase
<1>3. CASE Reinstall
  <2>1. /\ installed /\ program' \in Sums
        /\ UNCHANGED <<rel, current, env, envPrev, proc, clock, lock, op, before,
                       started, files, installed, version>>
    BY <1>3 DEF Reinstall
  <2>2. TypeOK' /\ Program'
    BY <2>1 DEF Base, TypeOK, Program
  <2>3. \A a \in Actors : Suits(a)' /\ Holds(a)'
    BY <2>1 DEF Base, Suits, Holds, Locks, In
  <2> QED
    BY <2>2, <2>3 DEF Base
<1>4. CASE UNCHANGED vars
  <2>1. TypeOK' /\ Program'
    BY <1>4 DEF Base, TypeOK, Program, vars, place
  <2>2. \A a \in Actors : Suits(a)' /\ Holds(a)'
    BY <1>4 DEF Base, Suits, Holds, Locks, In, vars, place
  <2> QED
    BY <2>1, <2>2 DEF Base
<1> QED
  BY <1>1, <1>2, <1>3, <1>4 DEF Next

LEMMA BaseInvariant == Spec => []Base
<1>1. Init => Base
  BY InitBase
<1>2. Base /\ [Next]_vars => Base'
  BY NextBase
<1> QED
  BY <1>1, <1>2, PTL DEF Spec

\* The state stays what it is said to be, for any actors, builds, units,
\* commands and faults.
THEOREM NativeTypeOK == Spec => []TypeOK
<1>1. Base => TypeOK
  BY DEF Base
<1> QED
  BY <1>1, BaseInvariant, PTL

-----------------------------------------------------------------------------
(* The live release, and the one to roll back to *)

\* A release is removed under the lock, or nothing runs beside the removal.
NoRemover == (\A a, b \in Actors : a = b) \/ Kinds \cap {"prune", "purge"} = {}

\* What a command is about to make live is there; what it is about to remove
\* is what would be chosen now.
Safe(a) ==
    /\ In(a, {"activate"}) => Present(op[a].id)
    /\ In(a, {"restart", "health", "revert"}) /\ op[a].prev # None => Present(op[a].prev)
    /\ In(a, {"pruning"}) => op[a].del = PruneSet

\* No two releases were marked at one time.
Marks ==
    /\ \A i \in Ids : rel[i].ok <= clock
    /\ \A i, j \in Ids : i # j /\ rel[i].ok = rel[j].ok => rel[i].ok = 0

SafeInv == Base /\ LiveIsPresent /\ Marks /\ \A a \in Actors : Safe(a)

\* Two actors with one lock, or none that removes without it.
LEMMA Alone ==
    ASSUME NoRemover, Base, NEW a \in Actors, NEW b \in Actors \ {a},
           Locks(a) \/ op[a].kind \in {"prune", "purge"},
           Locks(b) \/ op[b].kind \in {"prune", "purge"}
    PROVE  FALSE
<1>1. Kinds \cap {"prune", "purge"} = {}
  BY DEF NoRemover
<1>2. op[a].kind \notin {"prune", "purge"} /\ op[b].kind \notin {"prune", "purge"}
  BY <1>1 DEF Base, Suits
<1> QED
  BY <1>2 DEF Base, Holds

LEMMA OthersSafe ==
    ASSUME NoRemover, SafeInv, NEW a \in Actors, NEW b \in Actors \ {a}, op'[b] = op[b],
           \/ UNCHANGED <<rel, current>>
           \/ Locks(a) \/ op[a].kind \in {"prune", "purge"}
    PROVE  Safe(b)'
<1>1. CASE UNCHANGED <<rel, current>>
  <2>1. PruneSet' = PruneSet
    BY <1>1 DEF PruneSet, Present, RollbackTarget, Candidates
  <2>2. op[b].id' = op[b].id /\ op[b].prev' = op[b].prev /\ op[b].pc' = op[b].pc
    OBVIOUS
  <2>3. Present(op[b].id)' = Present(op[b].id) /\ Present(op[b].prev)' = Present(op[b].prev)
    BY <1>1, <2>2 DEF Present
  <2> QED
    BY <2>1, <2>2, <2>3 DEF SafeInv, Safe, In
<1>2. CASE Locks(a) \/ op[a].kind \in {"prune", "purge"}
  <2>1. ~(Locks(b) \/ op[b].kind \in {"prune", "purge"})
    BY <1>2, Alone DEF SafeInv
  <2>2. ~In(b, {"activate", "restart", "health", "revert", "pruning"})
    BY <2>1 DEF Locks, In, Rolling, Pruning
  <2> QED
    BY <2>2 DEF Safe, In
<1> QED
  BY <1>1, <1>2

\* A step that leaves the releases and the link as they are, and does not
\* come to where they are about to change.
LEMMA StaysSafe ==
    ASSUME NoRemover, SafeInv, NEW a \in Actors, UNCHANGED <<rel, current, clock>>,
           \A b \in Actors \ {a} : op'[b] = op[b],
           Safe(a)'
    PROVE  LiveIsPresent' /\ Marks' /\ \A b \in Actors : Safe(b)'
<1>1. \A b \in Actors \ {a} : Safe(b)'
  BY OthersSafe
<1>2. LiveIsPresent' /\ Marks'
  BY DEF SafeInv, LiveIsPresent, Present, Marks
<1> QED
  BY <1>1, <1>2

LEMMA PathsSafe ==
    ASSUME NEW a \in Actors, op'[a].pc \notin {"activate", "restart", "health", "revert", "pruning"}
    PROVE  Safe(a)'
BY DEF Safe, In

\* A command that is turning back, or goes on with its units.
LEMMA KinSafe ==
    ASSUME NEW a \in Actors, Safe(a), rel' = rel, In(a, {"restart", "health", "revert"}),
           op'[a].prev = op[a].prev, op'[a].pc \notin {"activate", "pruning"}
    PROVE  Safe(a)'
BY DEF Safe, In, Present

LEMMA FailsSafe ==
    ASSUME NEW a \in Actors, Safe(a), rel' = rel, Fails(op'[a], op[a])
    PROVE  Safe(a)'
<1>1. CASE In(a, {"restart", "health", "revert"})
  BY <1>1, KinSafe DEF Fails, Kin
<1>2. CASE ~In(a, {"restart", "health", "revert"})
  BY <1>2, PathsSafe DEF Fails, In
<1> QED
  BY <1>1, <1>2

LEMMA StopsSafe ==
    ASSUME NEW a \in Actors, NEW r, Stops(op'[a], op[a], r)
    PROVE  Safe(a)'
BY PathsSafe DEF Stops

LEMMA StepSafe ==
    ASSUME NoRemover, SafeInv, NEW a \in Actors, Step(a)
    PROVE  LiveIsPresent' /\ Marks' /\ \A b \in Actors : Safe(b)'
<1>t. TypeOK /\ Program /\ Suits(a) /\ Holds(a) /\ Safe(a) /\ LiveIsPresent /\ Marks
  BY DEF SafeInv, Base
<1>r. /\ rel \in [Ids -> [sum : Sums \cup {None}, staged : Nat, ok : Nat]]
      /\ clock \in Nat /\ current \in Ids \cup {None}
  BY <1>t DEF TypeOK
<1>i. In(a, Rolling \ {"choose"}) => op[a].id \in Ids
  BY <1>t DEF Suits
<1>s. In(a, {"stage"}) => op[a].sum \in Sums
  BY <1>t DEF Suits, In
<1>o. ASSUME Turn(a), Locks(a) \/ op[a].kind \in {"prune", "purge"}
      PROVE  \A b \in Actors \ {a} : Safe(b)'
  BY <1>o, OthersSafe DEF Turn
<1>l. In(a, Rolling) => Locks(a)
  BY DEF Locks
<1>1. CASE Inspect(a)
  <2>1. /\ UNCHANGED host /\ \A b \in Actors \ {a} : op'[b] = op[b]
        /\ \/ Stops(op'[a], op[a], {"ok"})
           \/ Fails(op'[a], op[a])
           \/ op'[a].pc = "preflight"
    BY <1>t, <1>1, InspectDoes DEF Turn, Takes
  <2>2. UNCHANGED <<rel, current, clock>>
    BY <2>1 DEF host
  <2>3. Safe(a)'
    BY <1>t, <2>1, <2>2, StopsSafe, FailsSafe, PathsSafe
  <2> QED
    BY <2>1, <2>2, <2>3, StaysSafe
<1>3. CASE Stage(a)
  <2>1. op[a].pc = "stage" /\ op[a].id \in Ids /\ op[a].sum \in Sums
    BY <1>3, <1>i, <1>s DEF Stage, In, Rolling
  <2>2. /\ UNCHANGED current /\ Turn(a)
        /\ \/ Leads(op'[a], op[a], "activate") /\ Present(op[a].id)'
           \/ Fails(op'[a], op[a])
        /\ rel' \in [Ids -> [sum : Sums \cup {None}, staged : Nat, ok : Nat]]
        /\ clock' \in Nat /\ clock' >= clock
        /\ \A i \in Ids \ {op[a].id} : rel'[i] = rel[i]
        /\ \/ rel'[op[a].id] = rel[op[a].id]
           \/ rel'[op[a].id].ok = 0 /\ (Present(op[a].id) => op[a].id # current)
    BY <1>t, <1>3, <2>1, StageDoes
  <2>3. LiveIsPresent'
    BY <1>t, <1>r, <2>1, <2>2 DEF LiveIsPresent, Present
  <2>4. Marks'
    BY <1>t, <1>r, <2>1, <2>2 DEF Marks
  <2>5. Safe(a)'
    <3>1. CASE Leads(op'[a], op[a], "activate") /\ Present(op[a].id)'
      BY <3>1 DEF Leads, Safe, In
    <3>2. CASE Fails(op'[a], op[a])
      BY <2>1, <3>2, PathsSafe DEF Fails
    <3> QED
      BY <2>2, <3>1, <3>2
  <2>6. Locks(a)
    BY <2>1, <1>l DEF In, Rolling
  <2> QED
    BY <1>o, <2>2, <2>3, <2>4, <2>5, <2>6
<1>4. CASE Activate(a)
  <2>1. /\ op[a].pc = "activate" /\ UNCHANGED <<rel, clock>> /\ Turn(a)
        /\ \/ /\ current' = op[a].id
              /\ \/ op'[a].pc = "restart" /\ op'[a].prev = current
                 \/ Fails(op'[a], op[a])
           \/ current' = current /\ Fails(op'[a], op[a])
    BY <1>t, <1>4, ActivateDoes
  <2>2. Present(op[a].id) /\ Locks(a)
    BY <1>t, <1>l, <2>1 DEF Safe, In, Rolling
  <2>3. LiveIsPresent' /\ Marks'
    BY <1>t, <2>1, <2>2 DEF LiveIsPresent, Present, Marks
  <2>4. Safe(a)'
    <3>1. CASE op'[a].pc = "restart" /\ op'[a].prev = current
      BY <1>t, <2>1, <3>1 DEF Safe, In, LiveIsPresent, Present
    <3>2. CASE Fails(op'[a], op[a])
      BY <1>t, <2>1, <3>2, FailsSafe
    <3> QED
      BY <2>1, <3>1, <3>2
  <2> QED
    BY <1>o, <2>1, <2>2, <2>3, <2>4
<1>5. CASE RestartUnit(a)
  <2>1. /\ op[a].pc = "restart" /\ UNCHANGED <<rel, current, clock>> /\ Turn(a)
        /\ op'[a].prev = op[a].prev
        /\ \/ op'[a].pc \in {"health", "restart"}
           \/ Fails(op'[a], op[a])
    BY <1>t, <1>5, RestartUnitDoes DEF Leads, Kin, Fails
  <2>2. Safe(a)'
    BY <1>t, <2>1, FailsSafe, KinSafe DEF In
  <2> QED
    BY <2>1, <2>2, StaysSafe DEF Turn
<1>6. CASE Healthy(a) \/ Unhealthy(a)
  <2>1. /\ UNCHANGED host /\ Turn(a)
        /\ \/ op'[a].pc \in {"idle", "markok"}
           \/ Fails(op'[a], op[a])
    BY <1>t, <1>6, HealthDoes DEF Leads, Stops
  <2>2. UNCHANGED <<rel, current, clock>>
    BY <2>1 DEF host
  <2>3. Safe(a)'
    BY <1>t, <2>1, <2>2, FailsSafe, PathsSafe
  <2> QED
    BY <2>1, <2>2, <2>3, StaysSafe DEF Turn
<1>7. CASE Revert(a)
  <2>1. /\ op[a].pc = "revert" /\ UNCHANGED <<rel, clock>> /\ Turn(a)
        /\ current' \in {current, op[a].prev}
        /\ \/ Leads(op'[a], op[a], "restart")
           \/ Fails(op'[a], op[a])
    BY <1>t, <1>7, RevertDoes
  <2>2. Locks(a) /\ (op[a].prev # None => Present(op[a].prev))
    BY <1>t, <1>l, <2>1 DEF Safe, In, Rolling
  <2>3. LiveIsPresent' /\ Marks'
    BY <1>t, <2>1, <2>2 DEF LiveIsPresent, Present, Marks
  <2>4. Safe(a)'
    BY <1>t, <2>1, FailsSafe, KinSafe DEF In, Leads, Kin
  <2> QED
    BY <1>o, <2>1, <2>2, <2>3, <2>4
<1>8. CASE MarkOK(a)
  <2>1. op[a].pc = "markok" /\ op[a].id \in Ids /\ Locks(a)
    BY <1>8, <1>i, <1>l DEF MarkOK, In, Rolling
  <2>2. /\ UNCHANGED current /\ Turn(a)
        /\ rel' \in [Ids -> [sum : Sums \cup {None}, staged : Nat, ok : Nat]]
        /\ clock' \in Nat /\ clock' >= clock
        /\ \A i \in Ids : rel'[i].sum = rel[i].sum
        /\ \A i \in Ids \ {op[a].id} : rel'[i] = rel[i]
        /\ \/ rel' = rel
           \/ rel'[op[a].id].ok = clock + 1 /\ clock' = clock + 1
        /\ \/ op'[a].pc \in {"route", "idle"}
           \/ Fails(op'[a], op[a])
    BY <1>t, <1>8, <2>1, MarkOKDoes DEF Leads, Stops
  <2>3. LiveIsPresent'
    BY <1>t, <1>r, <2>2 DEF LiveIsPresent, Present
  <2>4. Marks'
    <3>1. CASE rel' = rel
      BY <1>t, <1>r, <2>2, <3>1 DEF Marks
    <3>2. CASE rel'[op[a].id].ok = clock + 1 /\ clock' = clock + 1
      BY <1>t, <1>r, <2>1, <2>2, <3>2 DEF Marks
    <3> QED
      BY <2>2, <3>1, <3>2
  <2>5. Safe(a)'
    BY <2>1, <2>2, PathsSafe DEF Fails
  <2> QED
    BY <1>o, <2>1, <2>2, <2>3, <2>4, <2>5
<1>9. CASE PruneFind(a)
  <2>1. /\ UNCHANGED host /\ Turn(a)
        /\ \/ op'[a].pc = "idle"
           \/ op'[a].pc = "pruning" /\ op'[a].del = PruneSet
    BY <1>t, <1>9, PruneFindDoes DEF Stops
  <2>2. UNCHANGED <<rel, current, clock>>
    BY <2>1 DEF host
  <2>3. PruneSet' = PruneSet
    BY <2>2 DEF PruneSet, Present, RollbackTarget, Candidates
  <2>4. Safe(a)'
    BY <2>1, <2>3 DEF Safe, In
  <2> QED
    BY <2>1, <2>2, <2>4, StaysSafe DEF Turn
<1>10. CASE PruneRemove(a)
  <2>1. /\ op[a].pc = "pruning" /\ UNCHANGED <<current, clock>> /\ Turn(a)
        /\ \A i \in Ids : rel'[i] = rel[i] \/ (i \in op[a].del /\ rel'[i] = Absent)
        /\ \/ op'[a].pc = "idle"
           \/ Fails(op'[a], op[a])
    BY <1>t, <1>10, PruneRemoveDoes DEF Stops, Without
  <2>2. current \notin op[a].del
    BY <1>t, <2>1 DEF Safe, In, PruneSet
  <2>3. Locks(a) \/ op[a].kind \in {"prune", "purge"}
    BY <1>t, <2>1 DEF Locks, In, Pruning
  <2>4. LiveIsPresent'
    BY <1>t, <1>r, <2>1, <2>2 DEF LiveIsPresent, Present
  <2>5. Marks'
    BY <1>t, <1>r, <2>1 DEF Marks, Absent
  <2>6. Safe(a)'
    BY <2>1, PathsSafe DEF Fails
  <2> QED
    BY <1>o, <2>1, <2>3, <2>4, <2>5, <2>6
<1>11. CASE Switch(a)
  <2>1. /\ op[a].pc = "switch" /\ UNCHANGED <<rel, clock>> /\ Turn(a)
        /\ \/ /\ Present(op[a].id) /\ current' = op[a].id
              /\ \/ op'[a].pc = "restart" /\ op'[a].prev = current
                 \/ Fails(op'[a], op[a])
           \/ current' = current /\ Fails(op'[a], op[a])
    BY <1>t, <1>11, SwitchDoes
  <2>2. Locks(a)
    BY <1>l, <2>1 DEF In, Rolling
  <2>3. LiveIsPresent' /\ Marks'
    BY <1>t, <2>1 DEF LiveIsPresent, Present, Marks
  <2>4. Safe(a)'
    <3>1. CASE op'[a].pc = "restart" /\ op'[a].prev = current
      BY <1>t, <2>1, <3>1 DEF Safe, In, LiveIsPresent, Present
    <3>2. CASE Fails(op'[a], op[a])
      BY <1>t, <2>1, <3>2, FailsSafe
    <3> QED
      BY <2>1, <3>1, <3>2
  <2> QED
    BY <1>o, <2>1, <2>2, <2>3, <2>4
<1>12. CASE Teardown(a)
  <2>1. /\ op[a].pc = "teardown" /\ UNCHANGED clock /\ Turn(a)
        /\ \/ UNCHANGED <<rel, current>>
           \/ op[a].kind = "purge" /\ rel' = [i \in Ids |-> Absent] /\ current' = None
        /\ \/ op'[a].pc = "idle"
           \/ Fails(op'[a], op[a])
    BY <1>t, <1>12, TeardownDoes DEF Stops
  <2>2. Safe(a)'
    BY <2>1, PathsSafe DEF Fails
  <2>3. CASE UNCHANGED <<rel, current>>
    BY <2>1, <2>2, <2>3, StaysSafe DEF Turn
  <2>4. CASE op[a].kind = "purge" /\ rel' = [i \in Ids |-> Absent] /\ current' = None
    <3>1. LiveIsPresent' /\ Marks'
      BY <1>r, <2>1, <2>4 DEF LiveIsPresent, Present, Marks, Absent
    <3> QED
      BY <1>o, <2>1, <2>2, <2>4, <3>1
  <2> QED
    BY <2>1, <2>3, <2>4
<1>13. CASE RevertEnv(a)
  <2>1. /\ op[a].pc = "revert" /\ UNCHANGED <<rel, current, clock>> /\ Turn(a)
        /\ \/ Leads(op'[a], op[a], "restart")
           \/ Fails(op'[a], op[a])
    BY <1>t, <1>13, RevertEnvDoes
  <2>2. Safe(a)'
    BY <1>t, <2>1, FailsSafe, KinSafe DEF In, Leads, Kin
  <2> QED
    BY <2>1, <2>2, StaysSafe DEF Turn
<1>14. CASE InstallEnv(a)
  <2>1. /\ op[a].pc = "installenv" /\ UNCHANGED <<rel, current, clock>> /\ Turn(a)
        /\ \/ op'[a].pc = "restart" /\ op'[a].prev = op[a].prev
           \/ Fails(op'[a], op[a])
    BY <1>t, <1>14, InstallEnvDoes
  <2>2. Safe(a)'
    <3>1. installed /\ op[a].prev = None
      BY <1>t, <2>1 DEF Suits, In
    <3> QED
      BY <1>t, <2>1, <3>1, FailsSafe DEF Safe, In
  <2> QED
    BY <2>1, <2>2, StaysSafe DEF Turn
<1>15. CASE Preflight(a) \/ Route(a) \/ Choose(a) \/ ForgetEnvPrev(a) \/ Setup(a)
             \/ EachUnit(a) \/ StopUnit(a) \/ Fail(a) \/ Crash(a)
  <2>1. /\ UNCHANGED <<rel, current, clock>> /\ Turn(a)
        /\ \/ op'[a].pc \in {"installenv", "stage", "route", "prunefind", "switch",
                             "idle", "each", "stopunits"}
           \/ Fails(op'[a], op[a])
    <3>1. CASE Preflight(a)
      BY <1>t, <3>1, PreflightDoes DEF host, Leads
    <3>2. CASE Route(a)
      BY <1>t, <3>2, RouteDoes DEF host, Leads, Stops
    <3>3. CASE Choose(a)
      BY <1>t, <3>3, ChooseDoes DEF host
    <3>4. CASE ForgetEnvPrev(a)
      BY <1>t, <3>4, ForgetEnvPrevDoes DEF Leads
    <3>5. CASE Setup(a)
      BY <1>t, <3>5, SetupDoes DEF Stops
    <3>6. CASE EachUnit(a)
      BY <1>t, <3>6, EachUnitDoes DEF Stops
    <3>7. CASE StopUnit(a)
      BY <1>t, <3>7, StopUnitDoes DEF Stops
    <3>8. CASE Fail(a)
      BY <1>t, <3>8, FailDoes DEF host
    <3>9. CASE Crash(a)
      BY <1>t, <3>9, CrashDoes DEF host, Stops
    <3> QED
      BY <1>15, <3>1, <3>2, <3>3, <3>4, <3>5, <3>6, <3>7, <3>8, <3>9
  <2>2. Safe(a)'
    BY <1>t, <2>1, FailsSafe, PathsSafe
  <2> QED
    BY <2>1, <2>2, StaysSafe DEF Turn
<1> QED
  BY <1>1, <1>3, <1>4, <1>5, <1>6, <1>7, <1>8, <1>9, <1>10, <1>11, <1>12, <1>13, <1>14, <1>15
  DEF Step

LEMMA NextSafe == NoRemover /\ SafeInv /\ [Next]_vars => SafeInv'
<1> SUFFICES ASSUME NoRemover, SafeInv, [Next]_vars PROVE SafeInv'
  OBVIOUS
<1>1. Base'
  BY NextBase DEF SafeInv
<1>2. ASSUME NEW a \in Actors, Begin(a)
      PROVE  LiveIsPresent' /\ Marks' /\ \A b \in Actors : Safe(b)'
  <2>1. /\ UNCHANGED host /\ \A b \in Actors \ {a} : op'[b] = op[b]
        /\ op'[a].pc = Entry(op'[a].kind) /\ op'[a].kind \in AllKinds
    BY <1>2, BeginDoes, NativeAssumption DEF SafeInv, Base
  <2>2. UNCHANGED <<rel, current, clock>>
    BY <2>1 DEF host
  <2>3. Entry(op'[a].kind) \notin {"activate", "restart", "health", "revert", "pruning"}
    BY <2>1 DEF Entry, AllKinds, Locked, OfReleases
  <2>4. Safe(a)'
    BY <2>1, <2>3, PathsSafe
  <2> QED
    BY <2>1, <2>2, <2>4, StaysSafe
<1>3. ASSUME NEW a \in Actors, Step(a)
      PROVE  LiveIsPresent' /\ Marks' /\ \A b \in Actors : Safe(b)'
  BY <1>3, StepSafe
<1>4. CASE Reinstall \/ UNCHANGED vars
  <2>1. UNCHANGED <<rel, current, clock, op>>
    BY <1>4 DEF Reinstall, vars
  <2>2. PruneSet' = PruneSet
    BY <2>1 DEF PruneSet, Present, RollbackTarget, Candidates
  <2>3. LiveIsPresent' /\ Marks'
    BY <2>1 DEF SafeInv, LiveIsPresent, Present, Marks
  <2>4. \A a \in Actors : Safe(a)'
    BY <2>1, <2>2 DEF SafeInv, Safe, In, Present
  <2> QED
    BY <1>1, <2>3, <2>4 DEF SafeInv
<1> QED
  BY <1>1, <1>2, <1>3, <1>4 DEF Next, SafeInv

LEMMA SafeInvariant == NoRemover => (Spec => []SafeInv)
<1> SUFFICES ASSUME NoRemover PROVE Spec => []SafeInv
  OBVIOUS
<1>1. Init => SafeInv
  <2> SUFFICES ASSUME Init PROVE SafeInv
    OBVIOUS
  <2>1. Base
    BY InitBase
  <2>2. LiveIsPresent /\ Marks
    BY DEF Init, LiveIsPresent, Marks, Absent
  <2>3. \A a \in Actors : Safe(a)
    BY DEF Init, Safe, In
  <2> QED
    BY <2>1, <2>2, <2>3 DEF SafeInv
<1>2. SafeInv /\ [Next]_vars => SafeInv'
  BY NextSafe
<1> QED
  BY <1>1, <1>2, PTL DEF Spec

\* `current` never dangles, whatever runs side by side and fails, as long as
\* nothing that takes no lock removes releases beside a deploy or a rollback.
THEOREM NativeLiveIsPresent ==
    ASSUME (\A a, b \in Actors : a = b) \/ Kinds \cap {"prune", "purge"} = {}
    PROVE  Spec => []LiveIsPresent
<1>1. NoRemover
  BY DEF NoRemover
<1>2. SafeInv => LiveIsPresent
  BY DEF SafeInv
<1> QED
  BY <1>1, <1>2, SafeInvariant, PTL

\* Of releases that have passed a health check, one was the last to.
LEMMA LatestExists ==
    ASSUME TypeOK, Marks, Candidates # {}
    PROVE  \E m \in Candidates : \A j \in Candidates : rel[j].ok <= rel[m].ok
<1> DEFINE S == {clock - rel[i].ok : i \in Candidates}
<1>1. /\ Candidates \subseteq Ids /\ clock \in Nat
      /\ \A i \in Ids : rel[i].ok \in Nat /\ rel[i].ok <= clock
  BY DEF TypeOK, Marks, Candidates
<1>2. S \subseteq Nat /\ S # {}
  BY <1>1
<1>3. PICK n \in S : \A k \in S : n <= k
  <2>1. S \in SUBSET Nat
    BY <1>2
  <2> HIDE DEF S
  <2> QED
    BY <1>2, <2>1, LeastExists
<1>4. PICK m \in Candidates : n = clock - rel[m].ok
  BY <1>3
<1>5. ASSUME NEW j \in Candidates PROVE rel[j].ok <= rel[m].ok
  <2>1. clock - rel[m].ok <= clock - rel[j].ok
    BY <1>3, <1>4
  <2> QED
    BY <1>1, <2>1
<1> QED
  BY <1>5

LEMMA TargetStays ==
    ASSUME TypeOK, Marks, current' = current,
           NEW D \in SUBSET PruneSet, rel' = Without(D)
    PROVE  RollbackTarget' = RollbackTarget
<1> DEFINE t == RollbackTarget
<1>t. rel \in [Ids -> [sum : Sums \cup {None}, staged : Nat, ok : Nat]]
  BY DEF TypeOK
<1>1. \A i \in Ids : rel'[i] = IF i \in D THEN Absent ELSE rel[i]
  BY DEF Without
<1>2. Candidates' = Candidates \ D
  BY <1>1, <1>t DEF Candidates, Present, Absent
<1>3. CASE Candidates = {}
  BY <1>2, <1>3 DEF RollbackTarget
<1>4. CASE Candidates # {}
  <2>1. t \in Candidates /\ \A j \in Candidates : rel[j].ok <= rel[t].ok
    BY <1>4, LatestExists DEF RollbackTarget
  <2>2. t \notin PruneSet
    BY DEF PruneSet
  <2>3. t \in Candidates' /\ Candidates' # {}
    BY <1>2, <2>1, <2>2
  <2>4. \A j \in Candidates' : j \in Candidates /\ j \in Ids /\ rel'[j] = rel[j]
    BY <1>1, <1>2 DEF Candidates
  <2>5. RollbackTarget' = CHOOSE i \in Candidates' : \A j \in Candidates' : rel'[j].ok <= rel'[i].ok
    BY <2>3 DEF RollbackTarget
  <2> DEFINE P(i) == \A j \in Candidates' : rel'[j].ok <= rel'[i].ok
  <2>6. P(t)
    BY <2>1, <2>3, <2>4
  <2>7. ASSUME NEW i \in Candidates', P(i) PROVE i = t
    <3>1. rel[t].ok <= rel[i].ok /\ rel[i].ok <= rel[t].ok
      BY <2>1, <2>3, <2>4, <2>7
    <3>2. i \in Ids /\ t \in Ids /\ rel[i].ok \in Nat /\ rel[t].ok \in Nat /\ rel[t].ok > 0
      BY <1>t, <2>1, <2>4 DEF Candidates
    <3> QED
      BY <3>1, <3>2 DEF Marks
  <2> HIDE DEF t
  <2>8. (CHOOSE i \in Candidates' : P(i)) = t
    BY <2>3, <2>6, <2>7
  <2> QED
    BY <2>5, <2>8 DEF t
<1> QED
  BY <1>3, <1>4

\* Pruning never changes what a rollback would go back to.
THEOREM NativePruneSparesTarget ==
    ASSUME (\A a, b \in Actors : a = b) \/ Kinds \cap {"prune", "purge"} = {}
    PROVE  Spec => PruneSparesTarget
<1>0. NoRemover
  BY DEF NoRemover
<1>1. ASSUME SafeInv, [Next]_vars, NEW a \in Actors, op[a].pc = "pruning"
      PROVE  RollbackTarget' = RollbackTarget
  <2>t. TypeOK /\ Program /\ Marks /\ Safe(a) /\ \A c \in Actors : Suits(c)
    BY <1>1 DEF SafeInv, Base
  <2>a. Locks(a) \/ op[a].kind \in {"prune", "purge"}
    BY <1>1 DEF Locks, In, Pruning
  <2>u. ASSUME UNCHANGED <<rel, current>> PROVE RollbackTarget' = RollbackTarget
    BY <2>u DEF RollbackTarget, Candidates, Present
  <2>1. CASE \E c \in Actors : Begin(c)
    <3>1. UNCHANGED host
      BY <2>t, <2>1, BeginDoes
    <3> QED
      BY <2>u, <3>1 DEF host
  <2>2. CASE Reinstall \/ UNCHANGED vars
    BY <2>2, <2>u DEF Reinstall, vars
  <2>3. ASSUME NEW c \in Actors, Step(c) PROVE RollbackTarget' = RollbackTarget
    <3>1. CASE c = a
      <4>1. \/ PruneRemove(a) \/ Fail(a) \/ Crash(a)
        BY <1>1, <2>3, <3>1
        DEF Step, Inspect, Preflight, Stage, Activate, RestartUnit, Healthy, Unhealthy,
            Revert, StopUnit, MarkOK, Route, PruneFind, Choose, Switch, InstallEnv,
            RevertEnv, ForgetEnvPrev, Setup, Teardown, EachUnit
      <4>2. CASE PruneRemove(a)
        <5>1. op[a].del = PruneSet
          BY <1>1, <2>t DEF Safe, In
        <5> QED
          BY <2>t, <4>2, <5>1, PruneRemoveDoes, TargetStays
      <4>3. CASE Fail(a) \/ Crash(a)
        BY <2>u, <4>3 DEF Fail, Crash, host
      <4> QED
        BY <4>1, <4>2, <4>3
    <3>2. CASE c # a
      <4>1. ~(Locks(c) \/ op[c].kind \in {"prune", "purge"})
        BY <1>0, <1>1, <2>a, <3>2, Alone DEF SafeInv
      <4>2. ~In(c, Rolling) /\ ~In(c, Pruning) /\ op[c].kind # "purge"
        BY <4>1 DEF Locks
      <4>3. UNCHANGED <<rel, current>>
        <5>1. ~Stage(c) /\ ~Activate(c) /\ ~Revert(c) /\ ~MarkOK(c) /\ ~PruneRemove(c)
              /\ ~Switch(c)
          BY <4>2 DEF In, Rolling, Pruning, Stage, Activate, Revert, MarkOK, PruneRemove, Switch
        <5>2. CASE Inspect(c) \/ Preflight(c) \/ Healthy(c) \/ Unhealthy(c) \/ Route(c)
                   \/ PruneFind(c) \/ Choose(c) \/ Fail(c) \/ Crash(c)
          BY <5>2 DEF Inspect, Preflight, Healthy, Unhealthy, Route, PruneFind, Choose,
                      Fail, Crash, host
        <5>3. CASE RestartUnit(c) \/ StopUnit(c) \/ EachUnit(c) \/ InstallEnv(c)
                   \/ RevertEnv(c) \/ ForgetEnvPrev(c) \/ Setup(c)
          BY <5>3 DEF RestartUnit, StopUnit, EachUnit, InstallEnv, RevertEnv,
                      ForgetEnvPrev, Setup
        <5>4. CASE Teardown(c)
          BY <2>t, <4>2, <5>4, TeardownDoes
        <5> QED
          BY <2>3, <5>1, <5>2, <5>3, <5>4 DEF Step
      <4> QED
        BY <2>u, <4>3
    <3> QED
      BY <3>1, <3>2
  <2> QED
    BY <1>1, <2>1, <2>2, <2>3 DEF Next
<1>2. SafeInv /\ [Next]_vars =>
        [\A a \in Actors : op[a].pc = "pruning" => RollbackTarget' = RollbackTarget]_vars
  BY <1>1
<1>3. Spec => []SafeInv
  BY <1>0, SafeInvariant
<1> QED
  BY <1>2, <1>3, PTL DEF Spec, PruneSparesTarget

-----------------------------------------------------------------------------
(* What a command that says it has succeeded, or restored, leaves *)

\* Nothing runs beside a command: there is one actor, or all take the lock.
Solitary == (\A a, b \in Actors : a = b) \/ Kinds \subseteq Locked

\* Commands are numbered as they begin, and one that runs is the last begun.
Serials ==
    /\ \A a \in Actors : before[a].serial <= started
    /\ \A a \in Actors : op[a].pc # "idle" => before[a].serial = started /\ started > 0
    /\ \A a, b \in Actors : a # b /\ before[a].serial = before[b].serial => before[a].serial = 0
    /\ started = 0 => \A a \in Actors : op[a].result = "none"

Latest(a) == before[a].serial = started /\ started > 0

\* Where nothing has changed but what is not live.
Early == {"inspect", "preflight", "stage", "activate", "installenv", "choose", "switch"}

Begun(a) ==
    In(a, Early) => /\ current = before[a].current /\ env = before[a].env
                    /\ proc = before[a].proc /\ ~op[a].back

\* What ran when the command began is what its release, still there, would
\* be started as.
Known(a) ==
    In(a, Early \cup {"restart", "health", "revert"}) /\ before[a].steady =>
      /\ before[a].env # None
      /\ ~installed =>
           /\ before[a].current \in Ids /\ Present(before[a].current)
           /\ \A u \in Units :
                before[a].proc[u] = <<before[a].current, rel[before[a].current].sum, before[a].env>>

\* There is the env to go back to, and the release.
CanTurn(a) ==
    /\ In(a, {"revert"}) => op[a].back
    /\ In(a, {"revert"}) \/ (In(a, {"restart", "health"}) /\ ~op[a].back) =>
         (before[a].steady =>
            /\ installed => envPrev = before[a].env /\ current = before[a].current
            /\ ~installed => /\ op[a].prev = before[a].current
                             /\ IF envPrev = None THEN env = before[a].env
                                                  ELSE envPrev = before[a].env)

\* The units the loop has come past.
Done(a) == IF In(a, {"restart"}) THEN {u \in Units : u < op[a].unit} ELSE Units

Again(a, u) ==
    \/ proc[u] = before[a].proc[u]
    \/ installed /\ proc[u] # None /\ proc[u][3] = env

TurnedBack(a) ==
    In(a, {"restart", "health"}) /\ op[a].back /\ before[a].steady =>
      /\ current = before[a].current /\ env = before[a].env
      /\ \A u \in Done(a) : Again(a, u)

\* On the way to success: the new release is live, and what runs is it.
Ahead(a) ==
    \/ In(a, {"restart", "health"}) /\ ~op[a].back
    \/ In(a, {"markok", "route"})
    \/ In(a, Pruning) /\ op[a].kind # "prune"

Runs(u) == IF installed THEN proc[u] # None /\ proc[u][3] = env ELSE proc[u] = Launch

Deployed(a) ==
    /\ Ahead(a) =>
         /\ IF installed THEN version = op[a].id /\ env = op[a].env ELSE current = op[a].id
         /\ \A u \in Done(a) : Runs(u)
    /\ Ahead(a) /\ ~In(a, {"restart", "health"}) => \A u \in Units : proc[u] \in Works
    /\ Ahead(a) /\ ~In(a, {"restart", "health", "markok"}) /\ ~installed =>
         rel[op[a].id].ok > 0 /\ Present(op[a].id)

Restored(a) ==
    In(a, {"idle"}) /\ op[a].result = "restored" /\ before[a].steady => AsBefore(a)

Succeeded(a) ==
    /\ In(a, {"idle"}) /\ op[a].result = "ok"
    /\ op[a].kind \in Locked
    /\ op[a].kind = "deploy" \/ op[a].id # before[a].current
    => /\ IF installed THEN version = op[a].id /\ env = op[a].env
                       ELSE current = op[a].id /\ rel[current].ok > 0
       /\ \A u \in Units : /\ proc[u] \in Works
                           /\ proc[u][3] = env
                           /\ ~installed => proc[u] = Launch

Phase(a) ==
    /\ Begun(a) /\ Known(a) /\ CanTurn(a) /\ TurnedBack(a)
    /\ Deployed(a) /\ Restored(a) /\ Succeeded(a)

TrackInv == SafeInv /\ Serials /\ \A a \in Actors : Latest(a) => Phase(a)

LEMMA OneActs ==
    ASSUME Solitary, Base, NEW a \in Actors, NEW b \in Actors,
           op[a].pc # "idle", op[b].pc # "idle"
    PROVE  a = b
<1>1. CASE \A c, d \in Actors : c = d
  BY <1>1
<1>2. CASE Kinds \subseteq Locked
  <2>1. ASSUME NEW c \in Actors, op[c].pc # "idle" PROVE lock = c
    <3>1. op[c].kind \in Locked \cup {"none"} /\ op[c].pc \in PCs
      BY <1>2 DEF Base, Suits, TypeOK, Op
    <3>2. op[c].pc \in Rolling \cup Pruning
      BY <2>1, <3>1 DEF Base, Suits, In, PCs, Rolling, Pruning, Locked
    <3>3. Locks(c)
      BY <3>1, <3>2 DEF Locks, In, Locked
    <3> QED
      BY <3>3 DEF Base, Holds
  <2> QED
    BY <2>1
<1> QED
  BY <1>1, <1>2 DEF Solitary

LEMMA BeginsAlone ==
    ASSUME Solitary, Base, NEW a \in Actors, Begin(a), NEW b \in Actors
    PROVE  op[b].pc = "idle"
<1>1. op[a].pc = "idle" /\ op'[a].kind \in Kinds /\ (op'[a].kind \in Locked => lock = None)
  BY BeginDoes DEF Base
<1>2. CASE \A c, d \in Actors : c = d
  BY <1>1, <1>2
<1>3. CASE Kinds \subseteq Locked
  <2>1. lock = None /\ b # None
    BY <1>1, <1>3, NativeAssumption
  <2>2. ~Locks(b)
    BY <2>1 DEF Base, Holds
  <2>3. op[b].kind \in Locked \cup {"none"} /\ op[b].pc \in PCs
    BY <1>3 DEF Base, Suits, TypeOK, Op
  <2> QED
    BY <2>2, <2>3 DEF Base, Suits, Locks, In, PCs, Rolling, Pruning, Locked
<1> QED
  BY <1>2, <1>3 DEF Solitary

\* A process that would be started now is one, and has the env there is.
LEMMA Launched ==
    ASSUME TypeOK, Program, Launch # None
    PROVE  Launch[3] = env
BY DEF Launch

LEMMA WorksRun == None \notin Works
BY NativeAssumption

-----------------------------------------------------------------------------
(* One step of a command *)

\* A command that has stopped short, or is not about a release.
LEMMA StopsShort ==
    ASSUME NEW a \in Actors,
           \/ op'[a].pc = "idle" /\ op'[a].result \notin {"ok", "restored"}
           \/ op'[a].pc \in {"idle", "each", "setup", "teardown"} \cup Pruning
              /\ op'[a].kind \notin Locked /\ (op'[a].pc = "idle" => op'[a].result # "restored")
              /\ (op'[a].pc \in Pruning => op'[a].kind = "prune")
           \/ op'[a].pc = "stopunits"
    PROVE  Phase(a)'
BY DEF Phase, Begun, Known, CanTurn, TurnedBack, Deployed, Restored, Succeeded, Ahead, In,
       Early, Pruning

LEMMA FailsShort ==
    ASSUME NEW a \in Actors, Fails(op'[a], op[a]),
           op[a].pc \notin {"restart", "health"},
           op[a].pc = "markok" => ~installed,
           op[a].pc \in Pruning => op[a].kind = "prune"
    PROVE  Phase(a)'
BY StopsShort DEF Fails

\* A command whose new release does not start or pass turns back.
LEMMA TurnsBack ==
    ASSUME NEW a \in Actors, Phase(a), Fails(op'[a], op[a]), op[a].pc \in {"restart", "health"},
           before' = before, UNCHANGED <<rel, current, env, envPrev, installed>>
    PROVE  Phase(a)'
<1>1. CASE op'[a].pc = "revert"
  <2>1. ~op[a].back /\ op'[a].back /\ op'[a].prev = op[a].prev
    BY <1>1 DEF Fails, Kin
  <2>2. Known(a)'
    BY <1>1, <2>1 DEF Phase, Known, In, Present
  <2>3. CanTurn(a)'
    BY <1>1, <2>1 DEF Phase, CanTurn, In
  <2>4. Begun(a)' /\ TurnedBack(a)' /\ Deployed(a)' /\ Restored(a)' /\ Succeeded(a)'
    BY <1>1 DEF Begun, TurnedBack, Deployed, Restored, Succeeded, Ahead, In, Early, Pruning
  <2> QED
    BY <2>2, <2>3, <2>4 DEF Phase
<1>2. CASE op'[a].pc # "revert"
  BY <1>2, StopsShort DEF Fails, Pruning
<1> QED
  BY <1>1, <1>2

\* The release is live and every unit runs it healthily: what comes after
\* the health check changes nothing of that.
LEMMA GoesOn ==
    ASSUME NEW a \in Actors, op'[a].pc \in {"markok", "route"} \cup Pruning,
           Ahead(a)',
           /\ IF installed' THEN version' = op'[a].id /\ env' = op'[a].env
                            ELSE current' = op'[a].id
           /\ \A u \in Units : Runs(u)' /\ proc'[u] \in Works,
           ~installed' /\ op'[a].pc # "markok" => rel'[op'[a].id].ok > 0 /\ Present(op[a].id)'
    PROVE  Phase(a)'
<1>1. Begun(a)' /\ Known(a)' /\ CanTurn(a)' /\ TurnedBack(a)' /\ Restored(a)' /\ Succeeded(a)'
  BY DEF Begun, Known, CanTurn, TurnedBack, Restored, Succeeded, In, Early, Pruning
<1>2. Done(a)' = Units
  BY DEF Done, In, Pruning
<1>3. Deployed(a)'
  BY <1>2 DEF Deployed, In, Pruning
<1> QED
  BY <1>1, <1>3 DEF Phase

LEMMA EndsWell ==
    ASSUME TypeOK, Program, NEW a \in Actors, op'[a].pc = "idle", op'[a].result = "ok",
           UNCHANGED <<installed, env, program, current, proc>>,
           ~installed => Launch' = Launch,
           /\ IF installed THEN version' = op'[a].id /\ env = op'[a].env
                           ELSE current = op'[a].id
           /\ \A u \in Units : Runs(u) /\ proc[u] \in Works,
           ~installed => rel'[op'[a].id].ok > 0
    PROVE  Phase(a)'
<1>1. Begun(a)' /\ Known(a)' /\ CanTurn(a)' /\ TurnedBack(a)' /\ Restored(a)' /\ Deployed(a)'
  BY DEF Begun, Known, CanTurn, TurnedBack, Restored, Deployed, Ahead, In, Early, Pruning
<1>2. ASSUME NEW u \in Units
      PROVE  proc[u][3] = env /\ (~installed => proc'[u] = Launch')
  <2>1. CASE installed
    BY <2>1 DEF Runs
  <2>2. CASE ~installed
    <3>1. proc[u] = Launch /\ Launch # None
      BY <2>2, WorksRun DEF Runs
    <3> QED
      BY <2>2, <3>1, Launched
  <2> QED
    BY <2>1, <2>2
<1>3. Succeeded(a)'
  BY <1>2 DEF Succeeded, In
<1> QED
  BY <1>1, <1>3 DEF Phase

LEMMA LaunchSame ==
    ASSUME UNCHANGED <<installed, program, env, current>>,
           current # None => Present(current)' = Present(current),
           current # None /\ Present(current) => rel'[current].sum = rel[current].sum
    PROVE  Launch' = Launch
<1>1. CASE installed
  BY <1>1 DEF Launch
<1>2. CASE ~installed /\ current # None /\ Present(current)
  <2>1. Present(current)'
    BY <1>2
  <2>2. Launch = <<current, rel[current].sum, env>>
    BY <1>2 DEF Launch
  <2>3. Launch' = <<current', rel'[current'].sum, env'>>
    BY <1>2, <2>1 DEF Launch
  <2> QED
    BY <1>2, <2>2, <2>3
<1>3. CASE ~installed /\ ~(current # None /\ Present(current))
  BY <1>3 DEF Launch, Present
<1> QED
  BY <1>1, <1>2, <1>3

\* The new release is in place and its units are to be restarted.
LEMMA SetsOut ==
    ASSUME NEW a \in Actors, op'[a].pc = "restart", op'[a].unit = 1, ~op'[a].back,
           IF installed THEN version' = op'[a].id /\ env' = op'[a].env
                        ELSE current' = op'[a].id,
           In(a, {"activate", "installenv", "switch"}), Known(a),
           UNCHANGED <<rel, installed, before>>,
           before[a].steady =>
             /\ installed => envPrev' = before[a].env /\ current' = before[a].current
             /\ ~installed => /\ op'[a].prev = before[a].current
                              /\ IF envPrev' = None THEN env' = before[a].env
                                                    ELSE envPrev' = before[a].env
    PROVE  Phase(a)'
<1>1. Known(a)'
  BY DEF Known, In, Early, Present
<1>2. CanTurn(a)'
  BY DEF CanTurn, In
<1>3. Done(a)' = {}
  BY DEF Done, In, Units
<1>4. Deployed(a)'
  BY <1>3 DEF Deployed, Ahead, In, Pruning
<1>5. Begun(a)' /\ TurnedBack(a)' /\ Restored(a)' /\ Succeeded(a)'
  BY DEF Begun, TurnedBack, Restored, Succeeded, In, Early
<1> QED
  BY <1>1, <1>2, <1>4, <1>5 DEF Phase

\* Nothing has changed yet.
LEMMA StaysEarly ==
    ASSUME NEW a \in Actors, op'[a].pc \in Early, op'[a].back = op[a].back,
           In(a, Early), Begun(a), Known(a),
           UNCHANGED <<current, env, proc, installed, before>>,
           current # None => rel'[current] = rel[current]
    PROVE  Phase(a)'
<1>1. Begun(a)'
  BY DEF Begun, In
<1>2. Known(a)'
  BY NativeAssumption DEF Known, Begun, In, Present
<1>3. CanTurn(a)' /\ TurnedBack(a)' /\ Deployed(a)' /\ Restored(a)' /\ Succeeded(a)'
  BY DEF CanTurn, TurnedBack, Deployed, Restored, Succeeded, Ahead, In, Early, Pruning
<1> QED
  BY <1>1, <1>2, <1>3 DEF Phase

LEMMA RestartTrack ==
    ASSUME Base, NEW a \in Actors, Phase(a), RestartUnit(a)
    PROVE  Phase(a)'
<1>t. TypeOK /\ Program /\ proc \in [Units -> Process]
  BY DEF Base, TypeOK
<1>u. PICK u \in Units : u = op[a].unit
  BY <1>t DEF TypeOK, Op
<1>1. /\ op[a].pc = "restart" /\ before' = before
      /\ UNCHANGED <<rel, current, env, envPrev, clock, place>>
      /\ proc' = [proc EXCEPT ![u] = Launch]
      /\ \/ /\ Kin(op'[a], op[a]) /\ op'[a].back = op[a].back
            /\ \/ op'[a].pc = "health" /\ u = NUnits
               \/ op'[a].pc = "restart" /\ op'[a].unit = u + 1
         \/ Fails(op'[a], op[a])
  BY <1>t, <1>u, RestartUnitDoes DEF Leads, Turn
<1>2. UNCHANGED <<installed, program, version>> /\ Launch' = Launch
  <2>1. UNCHANGED <<installed, program, version>>
    BY <1>1 DEF place
  <2> QED
    BY <1>1, <2>1, LaunchSame DEF Present
<1>3. CASE Fails(op'[a], op[a])
  BY <1>1, <1>2, <1>3, TurnsBack
<1>4. CASE /\ Kin(op'[a], op[a]) /\ op'[a].back = op[a].back
           /\ \/ op'[a].pc = "health" /\ u = NUnits
              \/ op'[a].pc = "restart" /\ op'[a].unit = u + 1
  <2>1. Known(a)'
    BY <1>1, <1>2, <1>4 DEF Phase, Known, In, Present
  <2>2. CanTurn(a)'
    BY <1>1, <1>2, <1>4 DEF Phase, CanTurn, In, Kin
  <2>3. \A v \in Done(a)' : v \in Units /\ (v = u \/ (v \in Done(a) /\ v # u))
    <3>1. Done(a) = {v \in Units : v < u}
      BY <1>1, <1>u DEF Done, In
    <3>2. CASE op'[a].pc = "health" /\ u = NUnits
      BY <1>t, <3>1, <3>2, NativeAssumption DEF Done, In, Units
    <3>3. CASE op'[a].pc = "restart" /\ op'[a].unit = u + 1
      <4>1. Done(a)' = {v \in Units : v < u + 1}
        BY <3>3 DEF Done, In
      <4> QED
        BY <1>t, <3>1, <4>1, NativeAssumption DEF Units
    <3> QED
      BY <1>4, <3>2, <3>3
  <2>4. proc'[u] = Launch /\ \A v \in Units : v # u => proc'[v] = proc[v]
    BY <1>t, <1>1
  <2>5. installed => Launch # None /\ Launch[3] = env
    BY <1>t, NativeAssumption DEF Launch, Program, TypeOK
  <2>6. TurnedBack(a)'
    <3> SUFFICES ASSUME op[a].back, before[a].steady
                 PROVE  /\ current = before[a].current /\ env = before[a].env
                        /\ \A v \in Done(a)' : Again(a, v)'
      BY <1>1, <1>4 DEF TurnedBack
    <3>1. /\ current = before[a].current /\ env = before[a].env
          /\ \A v \in Done(a) : Again(a, v)
      BY <1>1 DEF Phase, TurnedBack, In
    <3>2. Again(a, u)'
      <4>1. CASE installed
        BY <1>1, <1>2, <2>4, <2>5, <4>1 DEF Again
      <4>2. CASE ~installed
        <5>1. /\ current # None /\ Present(current)
              /\ before[a].proc[u] = <<current, rel[current].sum, env>>
          BY <1>t, <1>1, <3>1, <4>2, NativeAssumption DEF Phase, Known, In
        <5>2. Launch = <<current, rel[current].sum, env>>
          BY <4>2, <5>1 DEF Launch
        <5> QED
          BY <1>1, <2>4, <5>1, <5>2 DEF Again
      <4> QED
        BY <4>1, <4>2
    <3>3. ASSUME NEW v \in Done(a), v \in Units, v # u PROVE Again(a, v)'
      BY <1>1, <1>2, <2>4, <3>1, <3>3 DEF Again
    <3> QED
      BY <2>3, <3>1, <3>2, <3>3
  <2>7. Deployed(a)'
    <3>1. Ahead(a)' => Ahead(a) /\ In(a, {"restart"}) /\ In(a, {"restart", "health"})'
      BY <1>1, <1>4 DEF Ahead, In, Pruning
    <3>2. Ahead(a) => /\ IF installed THEN version = op[a].id /\ env = op[a].env
                                      ELSE current = op[a].id
                      /\ \A v \in Done(a) : Runs(v)
      BY DEF Phase, Deployed
    <3>3. Runs(u)'
      BY <1>1, <1>2, <2>4, <2>5 DEF Runs
    <3>4. ASSUME NEW v \in Done(a), v \in Units, v # u, Runs(v) PROVE Runs(v)'
      BY <1>1, <1>2, <2>4, <3>4 DEF Runs
    <3>5. op'[a].id = op[a].id /\ op'[a].env = op[a].env
      BY <1>4 DEF Kin
    <3>6. Ahead(a)' => \A v \in Done(a)' : Runs(v)'
      BY <2>3, <3>1, <3>2, <3>3, <3>4
    <3>7. Ahead(a)' => IF installed' THEN version' = op'[a].id /\ env' = op'[a].env
                                     ELSE current' = op'[a].id
      BY <1>1, <1>2, <3>1, <3>2, <3>5
    <3> QED
      BY <3>1, <3>6, <3>7 DEF Deployed, In
  <2>8. Begun(a)' /\ Restored(a)' /\ Succeeded(a)'
    BY <1>4 DEF Begun, Restored, Succeeded, In, Early
  <2> QED
    BY <2>1, <2>2, <2>6, <2>7, <2>8 DEF Phase
<1> QED
  BY <1>1, <1>3, <1>4

LEMMA HealthTrack ==
    ASSUME Base, NEW a \in Actors, Phase(a), Healthy(a) \/ Unhealthy(a)
    PROVE  Phase(a)'
<1>t. TypeOK /\ Program
  BY DEF Base
<1>1. /\ op[a].pc = "health" /\ UNCHANGED host /\ before' = before
      /\ \/ HealthyUnits /\ op[a].back /\ Stops(op'[a], op[a], {"restored"})
         \/ HealthyUnits /\ ~op[a].back /\ Leads(op'[a], op[a], "markok")
         \/ Fails(op'[a], op[a])
  BY <1>t, HealthDoes DEF Turn
<1>2. UNCHANGED <<rel, current, env, envPrev, proc, installed, program, version>>
  BY <1>1 DEF host, place
<1>d. Done(a) = Units
  BY <1>1 DEF Done, In
<1>3. CASE HealthyUnits /\ op[a].back /\ Stops(op'[a], op[a], {"restored"})
  <2>1. op'[a].pc = "idle" /\ op'[a].result = "restored"
    BY <1>3 DEF Stops
  <2>2. before[a].steady =>
          /\ current = before[a].current /\ env = before[a].env
          /\ \A u \in Units : Again(a, u)
    BY <1>1, <1>3, <1>d DEF Phase, TurnedBack, In
  <2>3. Restored(a)'
    BY <1>1, <1>2, <2>2 DEF Restored, AsBefore, Again
  <2>4. Begun(a)' /\ Known(a)' /\ CanTurn(a)' /\ TurnedBack(a)' /\ Deployed(a)' /\ Succeeded(a)'
    BY <2>1 DEF Begun, Known, CanTurn, TurnedBack, Deployed, Succeeded, Ahead, In, Early, Pruning
  <2> QED
    BY <2>3, <2>4 DEF Phase
<1>4. CASE HealthyUnits /\ ~op[a].back /\ Leads(op'[a], op[a], "markok")
  <2>1. op'[a].pc = "markok" /\ op'[a].id = op[a].id /\ op'[a].env = op[a].env
    BY <1>4 DEF Leads, Kin
  <2>2. Ahead(a) /\ Ahead(a)'
    BY <1>1, <1>4, <2>1 DEF Ahead, In
  <2>3. /\ IF installed THEN version = op[a].id /\ env = op[a].env ELSE current = op[a].id
        /\ \A u \in Units : Runs(u)
    BY <1>d, <2>2 DEF Phase, Deployed
  <2>4. Launch' = Launch
    BY <1>2, LaunchSame DEF Present
  <2>5. \A u \in Units : Runs(u)' /\ proc'[u] \in Works
    BY <1>2, <1>4, <2>3, <2>4 DEF Runs, HealthyUnits
  <2> QED
    BY <1>2, <2>1, <2>2, <2>3, <2>5, GoesOn
<1>5. CASE Fails(op'[a], op[a])
  BY <1>1, <1>2, <1>5, TurnsBack
<1> QED
  BY <1>1, <1>3, <1>4, <1>5

LEMMA RevertTrack ==
    ASSUME Base, NEW a \in Actors, Phase(a), Revert(a) \/ RevertEnv(a)
    PROVE  Phase(a)'
<1>t. TypeOK
  BY DEF Base
<1>1. /\ op[a].pc = "revert" /\ before' = before /\ UNCHANGED <<rel, proc, place>>
      /\ env' = (IF envPrev = None THEN env ELSE envPrev)
      /\ \/ /\ Leads(op'[a], op[a], "restart")
            /\ IF installed THEN current' = current /\ envPrev # None
                            ELSE current' = op[a].prev
         \/ Fails(op'[a], op[a])
  BY <1>t, RevertDoes, RevertEnvDoes DEF Turn
<1>2. installed' = installed
  BY <1>1 DEF place
<1>3. CASE Fails(op'[a], op[a])
  BY <1>1, <1>3, FailsShort DEF Pruning
<1>4. CASE /\ Leads(op'[a], op[a], "restart")
           /\ IF installed THEN current' = current /\ envPrev # None
                           ELSE current' = op[a].prev
  <2>1. op[a].back /\ op'[a].back /\ op'[a].pc = "restart" /\ op'[a].unit = 1
    BY <1>1, <1>4 DEF Phase, CanTurn, In, Leads
  <2>2. Known(a)'
    BY <1>1, <1>2, <2>1 DEF Phase, Known, In, Present
  <2>3. CanTurn(a)'
    BY <2>1 DEF CanTurn, In
  <2>4. before[a].steady => current' = before[a].current /\ env' = before[a].env
    BY <1>1, <1>4 DEF Phase, CanTurn, In
  <2>5. Done(a)' = {}
    BY <2>1 DEF Done, In, Units
  <2>6. TurnedBack(a)'
    BY <1>1, <2>4, <2>5 DEF TurnedBack
  <2>7. Begun(a)' /\ Deployed(a)' /\ Restored(a)' /\ Succeeded(a)'
    BY <2>1 DEF Begun, Deployed, Restored, Succeeded, Ahead, In, Early, Pruning
  <2> QED
    BY <2>2, <2>3, <2>6, <2>7 DEF Phase
<1> QED
  BY <1>1, <1>3, <1>4

LEMMA MarkTrack ==
    ASSUME Base, NEW a \in Actors, Phase(a), MarkOK(a) \/ ForgetEnvPrev(a)
    PROVE  Phase(a)'
<1>t. TypeOK /\ Program /\ Suits(a)
  BY DEF Base
<1>p. op[a].pc = "markok" /\ op[a].id \in Ids
  BY <1>t DEF MarkOK, ForgetEnvPrev, Suits, In, Rolling
<1>1. /\ before' = before /\ UNCHANGED <<current, env, proc, place>>
      /\ \A i \in Ids : rel'[i].sum = rel[i].sum
      /\ \/ /\ Kin(op'[a], op[a])
            /\ \/ op'[a].pc = "route" /\ op[a].kind \in Deploying
               \/ op'[a].pc = "idle" /\ op'[a].result = "ok" /\ ~installed
            /\ ~installed => rel'[op[a].id].ok > 0 /\ Present(op[a].id)
         \/ ~installed /\ Fails(op'[a], op[a])
         \/ installed /\ Fails(op'[a], op[a]) /\ UNCHANGED <<rel, current, env, proc>>
  <2>1. CASE MarkOK(a)
    BY <1>t, <1>p, <2>1, MarkOKDoes DEF Turn, Leads, Stops
  <2>2. CASE ForgetEnvPrev(a)
    <3>1. op[a].kind \in Deploying
      BY <1>p, <1>t, <2>2, NativeAssumption
      DEF ForgetEnvPrev, Suits, In, Rolling, Locked, Deploying, OfReleases
    <3> QED
      BY <1>t, <2>2, <3>1, ForgetEnvPrevDoes DEF Turn, Leads, Kin
  <2> QED
    BY <2>1, <2>2
<1>2. UNCHANGED <<installed, program, version>>
  BY <1>1 DEF place
<1>3. /\ IF installed THEN version = op[a].id /\ env = op[a].env ELSE current = op[a].id
      /\ \A u \in Units : Runs(u) /\ proc[u] \in Works
  BY <1>p DEF Phase, Deployed, Ahead, Done, In
<1>4. Launch' = Launch
  <2>1. current \in Ids \cup {None}
    BY <1>t DEF TypeOK
  <2> QED
    BY <1>1, <1>2, <2>1, LaunchSame DEF Present
<1>5. CASE ~installed /\ Fails(op'[a], op[a])
  BY <1>p, <1>5, FailsShort DEF Pruning
<1>6. ASSUME op'[a].pc = "route", op'[a].id = op[a].id, op'[a].env = op[a].env,
             ~installed => rel'[op[a].id].ok > 0 /\ Present(op[a].id)
      PROVE  Phase(a)'
  <2>1. Ahead(a)'
    BY <1>6 DEF Ahead, In
  <2>2. ~installed => Present(op[a].id)'
    BY <1>p, <1>1, <1>6 DEF Present
  <2>3. \A u \in Units : Runs(u)' /\ proc'[u] \in Works
    BY <1>1, <1>2, <1>3, <1>4 DEF Runs
  <2> QED
    BY <1>1, <1>2, <1>3, <1>6, <2>1, <2>2, <2>3, GoesOn
<1>7. CASE installed /\ Fails(op'[a], op[a])
  <2>1. CASE op'[a].pc = "route"
    BY <1>6, <1>7, <2>1 DEF Fails, Kin
  <2>2. CASE op'[a].pc # "route"
    BY <1>p, <1>7, <2>2, StopsShort DEF Fails, Pruning
  <2> QED
    BY <2>1, <2>2
<1>8. CASE /\ Kin(op'[a], op[a])
           /\ \/ op'[a].pc = "route" /\ op[a].kind \in Deploying
              \/ op'[a].pc = "idle" /\ op'[a].result = "ok" /\ ~installed
           /\ ~installed => rel'[op[a].id].ok > 0 /\ Present(op[a].id)
  <2>1. op'[a].id = op[a].id /\ op'[a].env = op[a].env
    BY <1>8 DEF Kin
  <2>2. CASE op'[a].pc = "route"
    BY <1>6, <1>8, <2>1, <2>2
  <2>3. CASE op'[a].pc = "idle" /\ op'[a].result = "ok" /\ ~installed
    BY <1>t, <1>1, <1>2, <1>3, <1>4, <1>8, <2>1, <2>3, EndsWell
  <2> QED
    BY <1>8, <2>2, <2>3
<1> QED
  BY <1>1, <1>5, <1>7, <1>8

\* The rest of a deploy, after the release is marked.
LEMMA TailTrack ==
    ASSUME SafeInv, NEW a \in Actors, Phase(a),
           \/ Route(a) \/ PruneFind(a) \/ PruneRemove(a)
           \/ Fail(a) /\ In(a, Pruning \cup {"route"})
    PROVE  Phase(a)'
<1>t. TypeOK /\ Program /\ Suits(a) /\ Safe(a)
  BY DEF SafeInv, Base
<1>p. In(a, Pruning \cup {"route"})
  BY DEF Route, PruneFind, PruneRemove, In, Pruning
<1>r. rel \in [Ids -> [sum : Sums \cup {None}, staged : Nat, ok : Nat]]
      /\ current \in Ids \cup {None}
  BY <1>t DEF TypeOK
<1>1. /\ before' = before /\ UNCHANGED <<current, env, proc, place>>
      /\ rel' = rel \/ \E D \in SUBSET PruneSet : rel' = Without(D)
      /\ \/ /\ op'[a].kind = op[a].kind /\ op'[a].id = op[a].id /\ op'[a].env = op[a].env
            /\ \/ op'[a].pc = "idle" /\ op'[a].result = "ok"
               \/ op'[a].pc \in Pruning
         \/ Fails(op'[a], op[a])
  <2>1. CASE Route(a) \/ PruneFind(a)
    BY <1>t, <2>1, RouteDoes, PruneFindDoes DEF Turn, Leads, Stops, Kin, host, Pruning
  <2>2. CASE PruneRemove(a)
    <3>1. op[a].del = PruneSet
      BY <1>t, <2>2, PruneRemoveDoes DEF Safe, In
    <3> QED
      BY <1>t, <2>2, <3>1, PruneRemoveDoes DEF Turn, Stops, Kin
  <2>3. CASE Fail(a)
    BY <1>t, <2>3, FailDoes DEF Turn, host
  <2> QED
    BY <2>1, <2>2, <2>3
<1>2. UNCHANGED <<installed, program, version>>
  BY <1>1 DEF place
<1>3. /\ op'[a].kind = op[a].kind /\ op'[a].id = op[a].id /\ op'[a].env = op[a].env
      /\ \/ op'[a].pc = "idle" /\ op'[a].result = "ok"
         \/ op'[a].pc \in Pruning
         \/ op'[a].pc = "idle" /\ op'[a].result \in {"failed", "rollback_failed"}
  BY <1>1, <1>p DEF Fails, Kin, In, Pruning
<1>4. CASE op'[a].pc = "idle" /\ op'[a].result \in {"failed", "rollback_failed"}
  BY <1>4, StopsShort
<1>5. CASE op[a].kind = "prune"
  BY <1>3, <1>5, StopsShort DEF Locked, Pruning
<1>6. CASE op[a].kind # "prune" /\ (op'[a].pc = "idle" => op'[a].result = "ok")
  <2>1. Ahead(a) /\ Done(a) = Units
    BY <1>p, <1>6 DEF Ahead, Done, In, Pruning
  <2>2. /\ IF installed THEN version = op[a].id /\ env = op[a].env ELSE current = op[a].id
        /\ \A u \in Units : Runs(u) /\ proc[u] \in Works
        /\ ~installed => rel[op[a].id].ok > 0 /\ Present(op[a].id)
    BY <1>p, <2>1 DEF Phase, Deployed, In, Pruning
  <2>3. current \in Ids => rel'[current] = rel[current]
    BY <1>1, <1>r DEF PruneSet, Without
  <2>4. Launch' = Launch
    BY <1>1, <1>2, <1>r, <2>3, LaunchSame DEF Present
  <2>5. op[a].id \in Ids
    BY <1>t, <1>p, <1>6
    DEF Suits, In, Pruning, Rolling, Deploying
  <2>6. ~installed => rel'[op[a].id] = rel[op[a].id]
    BY <2>2, <2>3, <2>5
  <2>7. CASE op'[a].pc = "idle" /\ op'[a].result = "ok"
    BY <1>t, <1>1, <1>2, <1>3, <2>2, <2>4, <2>6, <2>7, EndsWell
  <2>8. CASE op'[a].pc \in Pruning
    <3>1. Ahead(a)'
      BY <1>3, <1>6, <2>8 DEF Ahead, In
    <3>2. ~installed => Present(op[a].id)'
      BY <1>3, <2>2, <2>6 DEF Present
    <3>3. \A u \in Units : Runs(u)' /\ proc'[u] \in Works
      BY <1>1, <1>2, <2>2, <2>4 DEF Runs
    <3> QED
      BY <1>1, <1>2, <1>3, <2>2, <2>6, <2>8, <3>1, <3>2, <3>3, GoesOn
  <2> QED
    BY <1>3, <1>6, <2>7, <2>8
<1>7. \/ op'[a].pc = "idle" /\ op'[a].result \in {"failed", "rollback_failed"}
      \/ op'[a].pc = "idle" => op'[a].result = "ok"
  BY <1>3 DEF Pruning
<1> QED
  BY <1>4, <1>5, <1>6, <1>7

\* Before the new release is in place, and putting it there.
LEMMA HeadTrack ==
    ASSUME Base, NEW a \in Actors, Phase(a),
           \/ Inspect(a) \/ Preflight(a) \/ Stage(a) \/ Activate(a)
           \/ InstallEnv(a) \/ Choose(a) \/ Switch(a)
    PROVE  Phase(a)'
<1>t. TypeOK /\ Program /\ Suits(a)
  BY DEF Base
<1>p. In(a, {"inspect", "preflight", "stage", "activate", "installenv", "choose", "switch"})
  BY DEF Inspect, Preflight, Stage, Activate, InstallEnv, Choose, Switch, In
<1>b. /\ In(a, Early) /\ Begun(a) /\ Known(a)
      /\ current = before[a].current /\ env = before[a].env
      /\ proc = before[a].proc /\ ~op[a].back
  BY <1>p DEF Phase, Begun, In, Early
<1>f. ASSUME Fails(op'[a], op[a]) PROVE Phase(a)'
  BY <1>p, <1>f, FailsShort DEF In, Pruning
<1>1. CASE Inspect(a) \/ Preflight(a)
  <2>1. /\ UNCHANGED host /\ before' = before
        /\ \/ op'[a].pc \in Early /\ op'[a].back = op[a].back
           \/ Fails(op'[a], op[a])
           \/ In(a, {"inspect"}) /\ Stops(op'[a], op[a], {"ok"})
    BY <1>t, <1>1, InspectDoes, PreflightDoes DEF Turn, Takes, Leads, Early, In
  <2>2. UNCHANGED <<rel, current, env, proc, installed>>
    BY <2>1 DEF host, place
  <2>3. CASE In(a, {"inspect"}) /\ Stops(op'[a], op[a], {"ok"})
    <3>1. op'[a].kind = "reconcile" /\ op'[a].pc = "idle" /\ op'[a].result = "ok"
      BY <1>t, <2>3 DEF Suits, Stops, Kin
    <3> QED
      BY <3>1, StopsShort DEF Locked, Pruning
  <2> QED
    BY <1>b, <1>f, <2>1, <2>2, <2>3, StaysEarly
<1>2. CASE Stage(a)
  <2>1. op[a].pc = "stage" /\ op[a].id \in Ids /\ op[a].sum \in Sums
    BY <1>t, <1>2 DEF Stage, Suits, In, Rolling
  <2>2. /\ UNCHANGED <<current, env, envPrev, proc, place>> /\ before' = before
        /\ Leads(op'[a], op[a], "activate") \/ Fails(op'[a], op[a])
        /\ \A i \in Ids \ {op[a].id} : rel'[i] = rel[i]
        /\ \/ rel'[op[a].id] = rel[op[a].id]
           \/ Present(op[a].id) => op[a].id # current
    BY <1>t, <1>2, <2>1, StageDoes DEF Turn
  <2>3. CASE Leads(op'[a], op[a], "activate")
    <3>1. installed' = installed /\ ~installed
      BY <1>t, <2>1, <2>2 DEF place, Suits, In
    <3>2. op'[a].pc \in Early /\ op'[a].back = op[a].back /\ ~op'[a].back
      BY <1>b, <2>3 DEF Leads, Early
    <3>3. Begun(a)'
      BY <1>b, <2>2, <3>2 DEF Begun
    <3>4. Known(a)'
      <4> SUFFICES ASSUME before[a].steady PROVE Known(a)'
        BY <2>2 DEF Known
      <4>1. /\ before[a].env # None
            /\ before[a].current \in Ids /\ Present(before[a].current)
            /\ \A u \in Units : before[a].proc[u] =
                 <<before[a].current, rel[before[a].current].sum, before[a].env>>
        BY <1>b, <3>1 DEF Known, In, Early
      <4>2. rel'[before[a].current] = rel[before[a].current]
        BY <1>b, <2>2, <4>1
      <4> QED
        BY <2>2, <4>1, <4>2 DEF Known, Present
    <3>5. CanTurn(a)' /\ TurnedBack(a)' /\ Deployed(a)' /\ Restored(a)' /\ Succeeded(a)'
      BY <2>3 DEF Leads, CanTurn, TurnedBack, Deployed, Restored, Succeeded, Ahead, In, Pruning
    <3> QED
      BY <3>3, <3>4, <3>5 DEF Phase
  <2> QED
    BY <1>f, <2>2, <2>3
<1>3. CASE Activate(a) \/ InstallEnv(a) \/ Switch(a)
  <2>1. /\ In(a, {"activate", "installenv", "switch"})
        /\ IF In(a, {"installenv"}) THEN installed ELSE ~installed
    BY <1>t, <1>3 DEF Activate, InstallEnv, Switch, Suits, In
  <2>2. /\ before' = before /\ UNCHANGED <<rel, installed>>
        /\ \/ /\ op'[a].pc = "restart" /\ op'[a].unit = 1 /\ op'[a].back = op[a].back
              /\ IF installed THEN version' = op'[a].id /\ env' = op'[a].env
                              ELSE current' = op'[a].id /\ op'[a].prev = current
              /\ installed => envPrev' = env /\ current' = current
              /\ ~installed => envPrev' = env \/ (envPrev' = None /\ env' = env)
           \/ Fails(op'[a], op[a])
    <3>1. CASE Activate(a)
      <4>1. ~installed
        BY <2>1, <3>1 DEF Activate, In
      <4> QED
        BY <1>t, <3>1, <4>1, ActivateDoes DEF Turn, place
    <3>2. CASE InstallEnv(a)
      <4>1. installed
        BY <2>1, <3>2 DEF InstallEnv, In
      <4> QED
        BY <1>t, <3>2, <4>1, InstallEnvDoes DEF Turn
    <3>3. CASE Switch(a)
      <4>1. ~installed
        BY <2>1, <3>3 DEF Switch, In
      <4> QED
        BY <1>t, <3>3, <4>1, SwitchDoes DEF Turn, place
    <3> QED
      BY <1>3, <3>1, <3>2, <3>3
  <2>3. before[a].steady => env # None
    BY <1>b DEF Known, In, Early
  <2>4. CASE Fails(op'[a], op[a])
    BY <1>f, <2>4
  <2>5. CASE op'[a].pc = "restart"
    <3>1. ~Fails(op'[a], op[a])
      BY <2>5 DEF Fails
    <3>2. before[a].steady =>
             /\ installed => envPrev' = before[a].env /\ current' = before[a].current
             /\ ~installed => /\ op'[a].prev = before[a].current
                              /\ IF envPrev' = None THEN env' = before[a].env
                                                    ELSE envPrev' = before[a].env
      BY <1>b, <2>2, <2>3, <3>1
    <3>3. /\ op'[a].unit = 1 /\ ~op'[a].back
          /\ IF installed THEN version' = op'[a].id /\ env' = op'[a].env
                          ELSE current' = op'[a].id
      BY <1>b, <2>2, <3>1
    <3> QED
      BY <1>b, <2>1, <2>2, <2>5, <3>2, <3>3, SetsOut
  <2> QED
    BY <2>2, <2>4, <2>5
<1>4. CASE Choose(a)
  <2>1. /\ op[a].pc = "choose" /\ UNCHANGED host /\ before' = before
        /\ \/ Fails(op'[a], op[a])
           \/ op'[a].pc = "switch" /\ op'[a].back = op[a].back
           \/ /\ op'[a].pc = "idle" /\ op'[a].result = "ok"
              /\ op'[a].id = current /\ op'[a].kind = op[a].kind
    BY <1>t, <1>4, ChooseDoes DEF Turn
  <2>2. UNCHANGED <<rel, current, env, proc, installed>>
    BY <2>1 DEF host, place
  <2>3. CASE op'[a].pc = "switch" /\ op'[a].back = op[a].back
    BY <1>b, <2>1, <2>2, <2>3, StaysEarly DEF Early
  <2>4. CASE /\ op'[a].pc = "idle" /\ op'[a].result = "ok"
             /\ op'[a].id = current /\ op'[a].kind = op[a].kind
    <3>1. op[a].kind \in Rollbacks
      BY <1>t, <2>1 DEF Suits, In
    <3>2. Succeeded(a)'
      BY <1>b, <2>1, <2>4, <3>1 DEF Succeeded, Rollbacks
    <3>3. Begun(a)' /\ Known(a)' /\ CanTurn(a)' /\ TurnedBack(a)' /\ Deployed(a)' /\ Restored(a)'
      BY <2>4 DEF Begun, Known, CanTurn, TurnedBack, Deployed, Restored, Ahead, In, Early, Pruning
    <3> QED
      BY <3>2, <3>3 DEF Phase
  <2> QED
    BY <1>f, <2>1, <2>3, <2>4
<1> QED
  BY <1>1, <1>2, <1>3, <1>4

LEMMA StepPhase ==
    ASSUME SafeInv, NEW a \in Actors, Phase(a), Step(a)
    PROVE  Phase(a)'
<1>t. Base /\ TypeOK /\ Program /\ Suits(a)
  BY DEF SafeInv, Base
<1>1. CASE StopUnit(a)
  <2>1. \/ Stops(op'[a], op[a], {"failed"})
        \/ op'[a].pc = "stopunits"
    BY <1>t, <1>1, StopUnitDoes
  <2> QED
    BY <2>1, StopsShort DEF Stops
<1>2. CASE Setup(a) \/ Teardown(a) \/ EachUnit(a)
  <2>1. /\ In(a, {"setup", "teardown", "each"})
        /\ \/ Stops(op'[a], op[a], {"ok"})
           \/ Kin(op'[a], op[a]) /\ op'[a].pc = "each"
           \/ Fails(op'[a], op[a])
    BY <1>t, <1>2, SetupDoes, TeardownDoes, EachUnitDoes DEF In
  <2>2. op[a].kind \notin Locked
    BY <1>t, <2>1 DEF Suits, In, Locked
  <2>3. CASE Stops(op'[a], op[a], {"ok"}) \/ (Kin(op'[a], op[a]) /\ op'[a].pc = "each")
    BY <2>2, <2>3, StopsShort DEF Stops, Kin, Pruning
  <2>4. CASE Fails(op'[a], op[a])
    BY <2>1, <2>4, FailsShort DEF In, Pruning
  <2> QED
    BY <2>1, <2>3, <2>4
<1>3. CASE Crash(a)
  <2>1. Stops(op'[a], op[a], {"crashed"})
    BY <1>t, <1>3, CrashDoes
  <2> QED
    BY <2>1, StopsShort DEF Stops
<1>4. CASE Fail(a)
  <2>1. Fails(op'[a], op[a]) /\ UNCHANGED host /\ before' = before
    BY <1>t, <1>4, FailDoes DEF Turn
  <2>2. UNCHANGED <<rel, current, env, envPrev, proc, installed, program, version>>
    BY <2>1 DEF host, place
  <2>3. CASE op[a].pc \in {"restart", "health"}
    BY <2>1, <2>2, <2>3, TurnsBack
  <2>4. CASE op[a].pc = "markok" /\ installed
    <3>1. CASE op'[a].pc = "route"
      <4>1. op'[a].id = op[a].id /\ op'[a].env = op[a].env
        BY <2>1 DEF Fails, Kin
      <4>2. /\ version = op[a].id /\ env = op[a].env
            /\ \A u \in Units : Runs(u) /\ proc[u] \in Works
        BY <2>4 DEF Phase, Deployed, Ahead, Done, In
      <4>3. \A u \in Units : Runs(u)' /\ proc'[u] \in Works
        BY <2>2, <2>4, <4>2 DEF Runs
      <4>4. Ahead(a)'
        BY <3>1 DEF Ahead, In
      <4> QED
        BY <2>2, <2>4, <3>1, <4>1, <4>2, <4>3, <4>4, GoesOn
    <3>2. CASE op'[a].pc # "route"
      BY <2>1, <2>4, <3>2, StopsShort DEF Fails, Pruning
    <3> QED
      BY <3>1, <3>2
  <2>5. CASE In(a, Pruning)
    BY <1>4, <2>5, TailTrack DEF In
  <2>6. CASE op[a].pc \notin {"restart", "health"} /\ ~(op[a].pc = "markok" /\ installed)
             /\ ~In(a, Pruning)
    BY <2>1, <2>6, FailsShort DEF In
  <2> QED
    BY <2>3, <2>4, <2>5, <2>6
<1>5. CASE RestartUnit(a)
  BY <1>t, <1>5, RestartTrack
<1>6. CASE Healthy(a) \/ Unhealthy(a)
  BY <1>t, <1>6, HealthTrack
<1>7. CASE Revert(a) \/ RevertEnv(a)
  BY <1>t, <1>7, RevertTrack
<1>8. CASE MarkOK(a) \/ ForgetEnvPrev(a)
  BY <1>t, <1>8, MarkTrack
<1>9. CASE Route(a) \/ PruneFind(a) \/ PruneRemove(a)
  BY <1>9, TailTrack
<1>10. CASE \/ Inspect(a) \/ Preflight(a) \/ Stage(a) \/ Activate(a)
            \/ InstallEnv(a) \/ Choose(a) \/ Switch(a)
  BY <1>t, <1>10, HeadTrack
<1> QED
  BY <1>1, <1>2, <1>3, <1>4, <1>5, <1>6, <1>7, <1>8, <1>9, <1>10 DEF Step

\* What every step is: the others wait, and nobody begins.
LEMMA StepActs ==
    ASSUME Base, NEW a \in Actors, Step(a)
    PROVE  /\ op[a].pc # "idle" /\ before' = before /\ started' = started
           /\ \A b \in Actors \ {a} : op'[b] = op[b]
<1>t. TypeOK /\ Program /\ Suits(a)
  BY DEF Base
<1>i. In(a, {"stage"}) => op[a].id \in Ids /\ op[a].sum \in Sums
  BY <1>t DEF Suits, In
<1>m. In(a, {"markok"}) => op[a].id \in Ids
  BY <1>t DEF Suits, In, Rolling
<1>1. CASE Inspect(a)
  BY <1>t, <1>1, InspectDoes DEF Turn, Takes
<1>2. CASE Stage(a)
  BY <1>t, <1>i, <1>2, StageDoes DEF Turn, Stage, In
<1>3. CASE MarkOK(a)
  BY <1>t, <1>m, <1>3, MarkOKDoes DEF Turn, MarkOK, In
<1>4. CASE Preflight(a) \/ Activate(a) \/ RestartUnit(a) \/ Healthy(a) \/ Unhealthy(a)
  BY <1>t, <1>4, PreflightDoes, ActivateDoes, RestartUnitDoes, HealthDoes DEF Turn
<1>5. CASE Revert(a) \/ StopUnit(a) \/ Route(a) \/ PruneFind(a) \/ PruneRemove(a)
  BY <1>t, <1>5, RevertDoes, StopUnitDoes, RouteDoes, PruneFindDoes, PruneRemoveDoes DEF Turn
<1>6. CASE Choose(a) \/ Switch(a) \/ InstallEnv(a) \/ RevertEnv(a) \/ ForgetEnvPrev(a)
  BY <1>t, <1>6, ChooseDoes, SwitchDoes, InstallEnvDoes, RevertEnvDoes, ForgetEnvPrevDoes
  DEF Turn
<1>7. CASE Setup(a) \/ Teardown(a) \/ EachUnit(a) \/ Fail(a) \/ Crash(a)
  BY <1>t, <1>7, SetupDoes, TeardownDoes, EachUnitDoes, FailDoes, CrashDoes DEF Turn
<1> QED
  BY <1>1, <1>2, <1>3, <1>4, <1>5, <1>6, <1>7 DEF Step

LEMMA StepTrack ==
    ASSUME Solitary, TrackInv, NEW a \in Actors, Step(a)
    PROVE  Serials' /\ \A b \in Actors : Latest(b)' => Phase(b)'
<1>t. Base /\ SafeInv /\ Serials
  BY DEF TrackInv, SafeInv
<1>n. /\ started \in Nat
      /\ \A b \in Actors : before[b].serial \in Nat
  BY <1>t DEF Base, TypeOK, Before
<1>1. /\ op[a].pc # "idle" /\ before' = before /\ started' = started
      /\ \A b \in Actors \ {a} : op'[b] = op[b]
  BY <1>t, StepActs
<1>2. Latest(a)
  BY <1>t, <1>1 DEF Serials, Latest
<1>3. Phase(a)'
  BY <1>t, <1>2, StepPhase DEF TrackInv
<1>4. ASSUME NEW b \in Actors \ {a} PROVE op'[b].pc = "idle" /\ ~Latest(b)'
  <2>1. op[b].pc = "idle"
    BY <1>t, <1>1, OneActs
  <2>2. before[b].serial # started
    BY <1>t, <1>2, <1>n DEF Serials, Latest
  <2> QED
    BY <1>1, <2>1, <2>2 DEF Latest
<1>5. Serials'
  <2>1. started > 0
    BY <1>2 DEF Latest
  <2>2. \A b \in Actors : op'[b].pc # "idle" => before[b].serial = started
    BY <1>2, <1>4 DEF Latest
  <2> QED
    BY <1>t, <1>1, <1>n, <2>1, <2>2 DEF Serials
<1> QED
  BY <1>3, <1>4, <1>5

LEMMA BeginTrack ==
    ASSUME Solitary, TrackInv, NEW a \in Actors, Begin(a)
    PROVE  Serials' /\ \A b \in Actors : Latest(b)' => Phase(b)'
<1>t. Base /\ TypeOK /\ Serials
  BY DEF TrackInv, SafeInv, Base
<1>n. /\ started \in Nat
      /\ \A b \in Actors : before[b].serial \in Nat
  BY <1>t DEF TypeOK, Before
<1>1. /\ \A b \in Actors \ {a} : op'[b] = op[b] /\ before'[b] = before[b]
      /\ op'[a].kind \in Kinds /\ op'[a].pc = Entry(op'[a].kind) /\ op'[a].back = FALSE
      /\ started' = started + 1
      /\ before'[a] = [serial |-> started', current |-> current, env |-> env,
                       proc |-> proc, steady |-> Steady]
      /\ UNCHANGED host
  BY <1>t, BeginDoes
<1>2. UNCHANGED <<rel, current, env, proc, installed>>
  BY <1>1 DEF host, place
<1>3. /\ before'[a].serial = started + 1 /\ before'[a].current = current
      /\ before'[a].env = env /\ before'[a].proc = proc
  BY <1>1
<1>s. before'[a].steady <=> Steady
  BY <1>1
<1>4. \A b \in Actors \ {a} : op'[b].pc = "idle" /\ before'[b].serial <= started
  BY <1>t, <1>1, BeginsAlone DEF Serials
<1>5. Serials'
  <2>1. ASSUME NEW b \in Actors, NEW c \in Actors, b # c, before'[b].serial = before'[c].serial
        PROVE  before'[b].serial = 0
    <3>1. b # a /\ c # a
      BY <1>n, <1>3, <1>4, <2>1
    <3> QED
      BY <1>t, <1>1, <2>1, <3>1 DEF Serials
  <2>2. \A b \in Actors : before'[b].serial <= started'
    BY <1>n, <1>1, <1>3, <1>4
  <2>3. \A b \in Actors : op'[b].pc # "idle" => before'[b].serial = started' /\ started' > 0
    BY <1>n, <1>1, <1>3, <1>4
  <2>4. started' # 0
    BY <1>n, <1>1
  <2> QED
    BY <2>1, <2>2, <2>3, <2>4 DEF Serials
<1>6. Phase(a)'
  <2>1. \/ op'[a].pc \in {"preflight", "inspect", "choose"}
        \/ op'[a].pc = "prunefind" /\ op'[a].kind = "prune"
        \/ op'[a].pc \in {"setup", "teardown", "each"} /\ op'[a].kind \notin Locked
    BY <1>1, NativeAssumption DEF Entry, AllKinds, Locked, OfReleases
  <2>2. CASE op'[a].pc \in {"preflight", "inspect", "choose"}
    <3>1. Begun(a)'
      BY <1>1, <1>2, <1>3 DEF Begun
    <3>2. Known(a)'
      <4> SUFFICES ASSUME Steady PROVE Known(a)'
        BY <1>s DEF Known
      <4>1. /\ env # None
            /\ ~installed => /\ current \in Ids /\ Present(current)
                             /\ \A u \in Units : proc[u] = <<current, rel[current].sum, env>>
        BY <1>t DEF Steady, Launch, TypeOK
      <4> QED
        BY <1>2, <1>3, <4>1 DEF Known, Present
    <3>3. CanTurn(a)' /\ TurnedBack(a)' /\ Deployed(a)' /\ Restored(a)' /\ Succeeded(a)'
      BY <2>2 DEF CanTurn, TurnedBack, Deployed, Restored, Succeeded, Ahead, In, Pruning
    <3> QED
      BY <3>1, <3>2, <3>3 DEF Phase
  <2>3. CASE op'[a].pc = "prunefind" /\ op'[a].kind = "prune"
    BY <2>3, StopsShort DEF Pruning, Locked
  <2>4. CASE op'[a].pc \in {"setup", "teardown", "each"} /\ op'[a].kind \notin Locked
    BY <2>4, StopsShort DEF Pruning
  <2> QED
    BY <2>1, <2>2, <2>3, <2>4
<1>7. ASSUME NEW b \in Actors \ {a} PROVE ~Latest(b)'
  BY <1>n, <1>1, <1>4 DEF Latest
<1> QED
  BY <1>5, <1>6, <1>7

LEMMA ReinstallTrack ==
    ASSUME TrackInv, Reinstall \/ UNCHANGED vars
    PROVE  Serials' /\ \A b \in Actors : Latest(b)' => Phase(b)'
<1>1. /\ UNCHANGED <<rel, current, env, envPrev, proc, op, before, started, installed, version>>
      /\ installed \/ program' = program
  BY DEF Reinstall, vars, place
<1>2. ~installed => Launch' = Launch
  BY <1>1, LaunchSame DEF Present
<1>3. Serials'
  BY <1>1 DEF TrackInv, Serials
<1>4. ASSUME NEW b \in Actors, Latest(b)' PROVE Phase(b)'
  <2>1. Phase(b)
    BY <1>1, <1>4 DEF TrackInv, Latest
  <2>2. Begun(b)' /\ Known(b)' /\ CanTurn(b)'
    BY <1>1, <2>1 DEF Phase, Begun, Known, CanTurn, In, Present
  <2>3. TurnedBack(b)'
    BY <1>1, <2>1 DEF Phase, TurnedBack, Done, Again, In
  <2>4. Deployed(b)'
    <3>1. Ahead(b)' = Ahead(b) /\ Done(b)' = Done(b)
      BY <1>1 DEF Ahead, Done, In
    <3>2. \A u \in Units : Runs(u) => Runs(u)'
      BY <1>1, <1>2 DEF Runs
    <3>3. Ahead(b)' => /\ IF installed' THEN version' = op'[b].id /\ env' = op'[b].env
                                        ELSE current' = op'[b].id
                       /\ \A u \in Done(b)' : Runs(u)'
      BY <1>1, <2>1, <3>1, <3>2 DEF Phase, Deployed, Done
    <3>4. /\ Ahead(b)' /\ ~In(b, {"restart", "health"})' => \A u \in Units : proc'[u] \in Works
          /\ Ahead(b)' /\ ~In(b, {"restart", "health", "markok"})' /\ ~installed' =>
               rel'[op'[b].id].ok > 0 /\ Present(op[b].id)'
      BY <1>1, <2>1, <3>1 DEF Phase, Deployed, In, Present
    <3> QED
      BY <3>3, <3>4 DEF Deployed
  <2>5. Restored(b)'
    BY <1>1, <2>1 DEF Phase, Restored, AsBefore, In
  <2>6. Succeeded(b)'
    BY <1>1, <1>2, <2>1 DEF Phase, Succeeded, In
  <2> QED
    BY <2>2, <2>3, <2>4, <2>5, <2>6 DEF Phase
<1> QED
  BY <1>3, <1>4

LEMMA NextTrack ==
    ASSUME Solitary, TrackInv, [Next]_vars, SafeInv'
    PROVE  TrackInv'
<1>1. Serials' /\ \A b \in Actors : Latest(b)' => Phase(b)'
  BY StepTrack, BeginTrack, ReinstallTrack DEF Next
<1> QED
  BY <1>1 DEF TrackInv

\* Nothing removes releases beside a command that is alone.
LEMMA SolitaryNoRemover == Solitary => NoRemover
BY DEF Solitary, NoRemover, Locked

LEMMA TrackInvariant == Solitary => (Spec => []TrackInv)
<1> SUFFICES ASSUME Solitary PROVE Spec => []TrackInv
  OBVIOUS
<1>1. Init => Serials /\ \A a \in Actors : ~Latest(a)
  BY DEF Init, Serials, Latest
<1>2. Init /\ SafeInv => TrackInv
  BY <1>1 DEF TrackInv
<1>3. TrackInv /\ [Next]_vars /\ SafeInv' => TrackInv'
  BY NextTrack
<1>4. Spec => []SafeInv
  BY SolitaryNoRemover, SafeInvariant
<1> QED
  BY <1>2, <1>3, <1>4, PTL DEF Spec

\* "On a host whose new release fails to start or to pass its health check,
\* the previous release is restored": whatever scripts are lost, refused or
\* half done, a deploy or rollback that says so has put the release, the env
\* and the processes back, if nothing else ran beside it.
THEOREM NativeRestoredIsAsBefore ==
    ASSUME (\A a, b \in Actors : a = b) \/ Kinds \subseteq Locked
    PROVE  Spec => []RestoredIsAsBefore
<1>1. Solitary
  BY DEF Solitary
<1>2. TrackInv => RestoredIsAsBefore
  <2> SUFFICES ASSUME TrackInv, NEW a \in Actors, Ended(a), op[a].result = "restored",
                      before[a].steady
               PROVE  AsBefore(a)
    BY DEF RestoredIsAsBefore
  <2>1. started > 0
    BY DEF TrackInv, SafeInv, Base, TypeOK, Serials
  <2>2. Restored(a)
    BY <2>1 DEF TrackInv, Latest, Ended, Phase
  <2> QED
    BY <2>2 DEF Restored, Ended, In
<1> QED
  BY <1>1, <1>2, TrackInvariant, PTL

\* A deploy or a rollback that reports success has every unit healthy on the
\* release that is live and marked, with the env that is installed.
THEOREM NativeOkIsLive ==
    ASSUME (\A a, b \in Actors : a = b) \/ Kinds \subseteq Locked
    PROVE  Spec => []OkIsLive
<1>1. Solitary
  BY DEF Solitary
<1>2. TrackInv => OkIsLive
  <2> SUFFICES ASSUME TrackInv PROVE OkIsLive
    OBVIOUS
  <2>1. ASSUME NEW a \in Actors, Ended(a), op[a].result = "ok" PROVE Succeeded(a)
    <3>1. started > 0
      BY <2>1 DEF TrackInv, SafeInv, Base, TypeOK, Serials
    <3> QED
      BY <2>1, <3>1 DEF TrackInv, Latest, Ended, Phase
  <2> QED
    BY <2>1 DEF OkIsLive, Succeeded, Ended, In
<1> QED
  BY <1>1, <1>2, TrackInvariant, PTL

=============================================================================
