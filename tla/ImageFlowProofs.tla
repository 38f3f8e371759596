---------------------------- MODULE ImageFlowProofs ----------------------------
(***************************************************************************)
(* Proofs about the image a rollout ends up with, for any hosts, actors,   *)
(* configurations and retries.                                             *)
(***************************************************************************)
EXTENDS ImageFlow, TLAPS

In(a, pcs) == op[a].pc \in pcs

\* Where an invocation is: what it holds, and how it names its image.
Suits(a) ==
    /\ ~In(a, {"idle"}) => op[a].kind # "none" /\ op[a].result = "none"
    /\ op[a].rolling => lock = a
    /\ In(a, {"build", "push", "host", "run"}) => op[a].rolling
    /\ In(a, {"idle", "resolve", "verify", "digest", "drift", "lock"}) => ~op[a].rolling
    /\ In(a, {"exists", "pull", "digest"}) /\ ~op[a].rolling =>
         conf.source = "registry" /\ op[a].ref = None /\ op[a].at = 1
    /\ In(a, {"build"}) => op[a].at = 1
    /\ In(a, {"verify"}) => conf.source = "local"
    /\ conf.source # "registry" => op[a].ref = None

\* Without a builder it goes by a digest, which the first host's tag had.
Digest(a) ==
    conf.source = "registry" =>
      /\ In(a, {"digest"}) => tag[First] # None
      /\ In(a, {"drift", "lock"}) \/ op[a].rolling => op[a].ref # None

\* The hosts that are done run it.
Done(a) ==
    conf.source = "registry" /\ op[a].rolling =>
      \A i \in 1..(op[a].at - 1) : running[HostList[i]].content = op[a].ref

\* What was built is what is pushed, pulled and started, and a transfer that
\* goes on brings the same.
Built(a) ==
    /\ op[a].made # None =>
         /\ conf.source \in {"built_local", "built_remote", "multi_local", "multi_remote"}
         /\ op[a].rolling /\ ~In(a, {"build"})
    /\ op[a].made # None /\ op[a].clean /\ op[a].kind = "deploy" /\ conf.policy = "always" =>
         /\ ~In(a, {"exists"})
         /\ \A t \in late : t.content = op[a].made
         /\ In(a, {"push"}) => built = op[a].made
         /\ In(a, {"host", "pull", "run"}) => reg = op[a].made
         /\ In(a, {"run"}) => tag[Host(op[a])] = op[a].made
         /\ \A i \in 1..(op[a].at - 1) : running[HostList[i]].content = op[a].made

\* Since it began, the first host's tag has what it had then, or what a deploy
\* brought.
Known(a) ==
    conf.source = "registry" /\ op[a].held # None =>
      /\ tag[First] \in asked \cup {op[a].held} /\ tag[First] # None
      /\ op[a].ref \in asked \cup {None, op[a].held}
      /\ op[a].kind = "reconcile" /\ In(a, {"pull"}) => op[a].ref # None

LateKnown ==
    conf.source = "registry" => \A t \in late : t.ref = None => t.content \in asked

Inv == /\ TypeOK /\ LateKnown
       /\ \A a \in Actors : Suits(a) /\ Digest(a) /\ Done(a) /\ Built(a) /\ Known(a)

-----------------------------------------------------------------------------
(* Hosts, and what a step does to its invocation *)

LEMMA HostsAre ==
    /\ First \in Hosts /\ Len(HostList) \in Nat /\ 1 \in 1..Len(HostList)
    /\ \A i \in 1..Len(HostList) : HostList[i] \in Hosts
    /\ \A h \in Hosts : \E i \in 1..Len(HostList) : h = HostList[i]
<1>1. HostList \in Seq(Hosts) /\ HostList # <<>>
  BY ImageAssumption
<1>2. Len(HostList) \in Nat /\ Len(HostList) > 0 /\ DOMAIN HostList = 1..Len(HostList)
  BY <1>1
<1>3. 1 \in 1..Len(HostList)
  BY <1>2
<1> QED
  BY <1>2, <1>3 DEF First, Hosts

LEMMA RefsAre == Revisions \subseteq Refs /\ None \in Refs /\ None \notin Revisions /\ 1 \in Revisions
  BY ImageAssumption DEF Refs, Revisions, None

\* All but where it is, and by what it goes.
Kin(n, o) ==
    /\ n.kind = o.kind /\ n.rolling = o.rolling /\ n.made = o.made /\ n.clean = o.clean
    /\ n.held = o.held /\ n.result = o.result

Near(n, o) == Kin(n, o) /\ n.ref = o.ref /\ n.at = o.at

LEMMA IdleIs ==
    /\ Idle \in Op /\ Idle.kind = "none" /\ Idle.pc = "idle" /\ Idle.rolling = FALSE
    /\ Idle.ref = None /\ Idle.at = 1 /\ Idle.made = None /\ Idle.held = None
    /\ Idle.result = "none" /\ Idle.clean = TRUE
<1>1. 0 \in 0..Retries /\ 1 \in 1..Len(HostList)
  BY HostsAre, ImageAssumption
<1>2. Idle \in Op
  BY <1>1, RefsAre DEF Idle, Op, PCs
<1> QED
  BY <1>2 DEF Idle

LEMMA OverIs ==
    ASSUME NEW r \in {"ok", "failed"}
    PROVE  /\ Over(r) \in Op /\ Over(r).kind = "none" /\ Over(r).pc = "idle"
           /\ Over(r).rolling = FALSE /\ Over(r).ref = None /\ Over(r).made = None
           /\ Over(r).held = None /\ Over(r).result = r
<1> DEFINE n == [Idle EXCEPT !.result = r]
<1>1. Over(r) = n
  BY DEF Over
<1>2. n \in Op /\ n.rolling = Idle.rolling
  BY IdleIs DEF Op
<1> QED
  BY <1>1, <1>2, IdleIs DEF Op

\* It goes on at l.
LEMMA GoesIs ==
    ASSUME NEW o \in Op, NEW l \in PCs
    PROVE  /\ [o EXCEPT !.pc = l] \in Op /\ [o EXCEPT !.pc = l].pc = l
           /\ Near([o EXCEPT !.pc = l], o) /\ [o EXCEPT !.pc = l].drifted = o.drifted
<1> DEFINE n == [o EXCEPT !.pc = l]
<1>1. n \in Op
  BY DEF Op
<1>2. n.rolling = o.rolling /\ n.clean = o.clean /\ n.drifted = o.drifted
  BY DEF Op
<1> QED
  BY <1>1, <1>2 DEF Op, Near, Kin

\* It goes on at l with attempts to count.
LEMMA CountsIs ==
    ASSUME NEW o \in Op, NEW l \in PCs
    PROVE  /\ [o EXCEPT !.pc = l, !.tries = 0] \in Op /\ [o EXCEPT !.pc = l, !.tries = 0].pc = l
           /\ Near([o EXCEPT !.pc = l, !.tries = 0], o)
<1> DEFINE n == [o EXCEPT !.pc = l, !.tries = 0]
<1>1. 0 \in 0..Retries
  BY ImageAssumption
<1>2. n \in Op
  BY <1>1 DEF Op
<1>3. n.rolling = o.rolling /\ n.clean = o.clean
  BY DEF Op
<1> QED
  BY <1>2, <1>3 DEF Op, Near, Kin

LEMMA FetchIs ==
    ASSUME NEW o \in Op
    PROVE  /\ Fetch(o) \in Op /\ Near(Fetch(o), o)
           /\ Fetch(o).pc = IF AsksFirst(o) THEN "exists" ELSE "pull"
<1>1. (IF AsksFirst(o) THEN "exists" ELSE "pull") \in PCs
  BY DEF PCs
<1> QED
  BY <1>1, CountsIs DEF Fetch

LEMMA FetchedIs ==
    ASSUME NEW o \in Op
    PROVE  /\ Fetched(o) \in Op /\ Near(Fetched(o), o)
           /\ Fetched(o).pc = IF o.rolling THEN "run" ELSE "digest"
<1>1. (IF o.rolling THEN "run" ELSE "digest") \in PCs
  BY DEF PCs
<1> QED
  BY <1>1, CountsIs DEF Fetched

LEMMA ResolvedIs ==
    ASSUME NEW o \in Op
    PROVE  /\ Resolved(o) \in Op /\ Near(Resolved(o), o)
           /\ Resolved(o).pc \in {"drift", "lock"}
<1>1. (IF o.kind = "reconcile" /\ ~o.drifted THEN "drift" ELSE "lock") \in PCs
  BY DEF PCs
<1> QED
  BY <1>1, GoesIs DEF Resolved

LEMMA GoesTurn ==
    ASSUME TypeOK, NEW a \in Actors, NEW n \in Op, Goes(a, n)
    PROVE  op' \in [Actors -> Op] /\ op'[a] = n /\ \A b \in Actors \ {a} : op'[b] = op[b]
BY DEF TypeOK, Goes
LEMMA GoesOn ==
    ASSUME TypeOK, NEW a \in Actors, NEW l \in PCs, Goes(a, [op[a] EXCEPT !.pc = l])
    PROVE  /\ op' \in [Actors -> Op] /\ \A b \in Actors \ {a} : op'[b] = op[b]
           /\ Near(op'[a], op[a]) /\ op'[a].pc = l
<1> DEFINE n == [op[a] EXCEPT !.pc = l]
<1>1. n \in Op /\ Near(n, op[a]) /\ n.pc = l
  BY GoesIs DEF TypeOK
<1> HIDE DEF n
<1>2. op' \in [Actors -> Op] /\ op'[a] = n /\ \A b \in Actors \ {a} : op'[b] = op[b]
  BY <1>1, GoesTurn DEF n
<1> QED
  BY <1>1, <1>2
-----------------------------------------------------------------------------
(* What a step does to the rest *)

Track(a) == Suits(a) /\ Digest(a) /\ Done(a) /\ Built(a) /\ Known(a)

\* Where it stands, what has come, and what only the lock's holder touches.
Drift(a) ==
    /\ conf' = conf /\ asked \subseteq asked'
    /\ lock' = lock \/ lock \in {a, "free"}
    /\ \A h \in Hosts : tag[h] # None => tag'[h] # None
    /\ conf.source = "registry" => tag'[First] = tag[First] \/ tag'[First] \in asked'
    /\ ~op[a].rolling => running' = running /\ (HasBuilder => UNCHANGED <<reg, built, tag, late>>)

Types ==
    /\ newest \in Revisions /\ reg \in Refs /\ built \in Refs
    /\ tag \in [Hosts -> Refs] /\ has \in [Hosts -> SUBSET Revisions]
    /\ late \subseteq [host : Hosts \cup {"builder", "registry"}, ref : Refs, content : Revisions]
    /\ running \in [Hosts -> [content : Refs, version : Refs]]
    /\ lock \in Actors \cup {"free"} /\ asked \subseteq Revisions /\ began \in 0..MaxOps

\* A step of a, all told.
Does(a) ==
    /\ op' \in [Actors -> Op] /\ \A b \in Actors \ {a} : op'[b] = op[b]
    /\ Track(a)' /\ Drift(a) /\ LateKnown' /\ Types'

LEMMA OthersTrack ==
    ASSUME Inv, NEW a \in Actors, Drift(a), NEW b \in Actors \ {a}, op'[b] = op[b]
    PROVE  Track(b)'
<1>t. /\ TypeOK /\ Suits(b) /\ Suits(a) /\ Digest(b) /\ Done(b) /\ Built(b) /\ Known(b)
      /\ op[b] \in Op /\ op[a] \in Op /\ "free" \notin Actors
  BY ImageAssumption DEF Inv, TypeOK
<1>1. op[b].rolling => lock = b /\ lock' = b /\ ~op[a].rolling
  BY <1>t DEF Suits, Drift
<1>2. Suits(b)'
  BY <1>t, <1>1 DEF Suits, In, Drift
<1>3. Digest(b)'
  BY <1>t, HostsAre DEF Digest, In, Drift
<1>4. Done(b)'
  BY <1>t, <1>1 DEF Done, Drift
<1>5. Built(b)'
  <2>1. CASE op[b].made = None
    BY <2>1 DEF Built
  <2>2. CASE op[b].made # None
    <3>1. op[b].rolling /\ HasBuilder
      BY <1>t, <2>2 DEF Built, HasBuilder
    <3>2. running' = running /\ UNCHANGED <<reg, built, tag, late, conf>>
      BY <1>1, <3>1 DEF Drift
    <3>3. Host(op[b])' = Host(op[b])
      BY DEF Host
    <3> QED
      BY <1>t, <3>2, <3>3 DEF Built, In
  <2> QED
    BY <2>1, <2>2
<1>6. Known(b)'
  BY <1>t, HostsAre DEF Known, In, Drift
<1> QED
  BY <1>2, <1>3, <1>4, <1>5, <1>6 DEF Track

\* It is over.
LEMMA OverTrack ==
    ASSUME TypeOK, NEW a \in Actors, NEW r \in {"ok", "failed"}, Goes(a, Over(r))
    PROVE  /\ op' \in [Actors -> Op] /\ \A b \in Actors \ {a} : op'[b] = op[b]
           /\ Track(a)' /\ op'[a].pc = "idle" /\ op'[a].result = r
<1>1. op' \in [Actors -> Op] /\ op'[a] = Over(r) /\ \A b \in Actors \ {a} : op'[b] = op[b]
  BY OverIs, GoesTurn
<1>2. /\ op'[a].kind = "none" /\ op'[a].pc = "idle" /\ ~op'[a].rolling /\ op'[a].ref = None
      /\ op'[a].made = None /\ op'[a].held = None /\ op'[a].result = r
  BY <1>1, OverIs
<1> QED
  BY <1>1, <1>2 DEF Track, Suits, Digest, Done, Built, Known, In

LEMMA EndsTrack ==
    ASSUME Inv, NEW a \in Actors, NEW r \in {"ok", "failed"}, Ends(a, r)
    PROVE  /\ op' \in [Actors -> Op] /\ \A b \in Actors \ {a} : op'[b] = op[b]
           /\ Track(a)' /\ (lock' = lock \/ lock = a) /\ lock' \in Actors \cup {"free"}
           /\ op'[a].pc = "idle" /\ op'[a].result = r
BY OverTrack DEF Inv, TypeOK, Ends

\* Nothing else changes.
LEMMA StillDrifts ==
    ASSUME Inv, UNCHANGED <<conf, newest, reg, built, tag, has, late, running, asked>>,
           NEW a \in Actors, lock' = lock \/ lock \in {a, "free"}, lock' \in Actors \cup {"free"},
           began' \in 0..MaxOps
    PROVE  Drift(a) /\ LateKnown' /\ Types'
BY DEF Inv, TypeOK, Types, LateKnown, Drift
-----------------------------------------------------------------------------
(* Steps before the lock *)

\* What is known of an actor before its step.
Before(a) ==
    /\ TypeOK /\ op[a] \in Op /\ Host(op[a]) \in Hosts
    /\ Suits(a) /\ Digest(a) /\ Done(a) /\ Built(a) /\ Known(a) /\ LateKnown

LEMMA BeforeIs ==
    ASSUME Inv, NEW a \in Actors
    PROVE  Before(a)
BY HostsAre DEF Inv, Before, TypeOK, Op, Host

\* A step of one that holds no lock and leaves the hosts as they are.
LEMMA FreeTrack ==
    ASSUME Inv, NEW a \in Actors, ~op[a].rolling, ~op'[a].rolling,
           op'[a].kind = op[a].kind, op'[a].made = op[a].made, op'[a].held = op[a].held,
           op'[a].result = op[a].result, ~In(a, {"idle"}),
           UNCHANGED <<conf, tag, asked>>,
           op'[a].pc \in {"resolve", "verify", "exists", "pull", "digest", "drift", "lock"},
           op'[a].pc \in {"exists", "pull", "digest"} =>
             conf.source = "registry" /\ op'[a].ref = None /\ op'[a].at = 1,
           op'[a].pc = "verify" => conf.source = "local",
           conf.source # "registry" => op'[a].ref = None,
           op'[a].pc = "digest" => tag[First] # None,
           conf.source = "registry" /\ op'[a].pc \in {"drift", "lock"} => op'[a].ref # None,
           op'[a].ref \in {None, op[a].ref, tag[First]},
           op'[a].pc = "pull" => op[a].kind # "reconcile" \/ tag[First] = None
    PROVE  Track(a)'
<1>t. Suits(a) /\ Built(a) /\ Known(a)
  BY BeforeIs DEF Before
<1>1. Suits(a)'
  BY <1>t DEF Suits, In
<1>2. Digest(a)' /\ Done(a)'
  BY DEF Digest, Done, In
<1>3. Built(a)'
  BY <1>t DEF Built
<1>4. Known(a)'
  BY <1>t DEF Known, In
<1> QED
  BY <1>1, <1>2, <1>3, <1>4 DEF Track

LEMMA BeginDoes ==
    ASSUME Inv, NEW a \in Actors, Begin(a)
    PROVE  Does(a)
<1>t. Before(a)
  BY BeforeIs
<1>1. began' \in 0..MaxOps /\ UNCHANGED world
  BY <1>t, ImageAssumption DEF Begin, Before, TypeOK
<1>2. PICK kind \in {"deploy", "reconcile"} :
        Goes(a, [Idle EXCEPT !.kind = kind, !.pc = "resolve", !.held = tag[First]])
  BY DEF Begin
<1> DEFINE n == [Idle EXCEPT !.kind = kind, !.pc = "resolve", !.held = tag[First]]
<1>3. tag[First] \in Refs /\ "resolve" \in PCs
  BY <1>t, HostsAre DEF Before, TypeOK, PCs
<1>4. n \in Op
  BY <1>3, IdleIs DEF Op
<1>5. n.rolling = FALSE
  BY IdleIs DEF Op
<1>6. /\ n.kind = kind /\ n.pc = "resolve" /\ n.held = tag[First] /\ n.ref = None
      /\ n.made = None /\ n.result = "none"
  BY IdleIs DEF Op
<1> HIDE DEF n
<1>7. op' \in [Actors -> Op] /\ op'[a] = n /\ \A b \in Actors \ {a} : op'[b] = op[b]
  BY <1>t, <1>2, <1>4, GoesTurn DEF Before, n
<1>8. Track(a)'
  BY <1>1, <1>5, <1>6, <1>7 DEF Track, Suits, Digest, Done, Built, Known, In, world
<1> QED
  BY <1>1, <1>7, <1>8, StillDrifts DEF Does, Before, world, Inv, TypeOK

\* Nothing but the invocation has changed.
LEMMA StillDoes ==
    ASSUME Inv, NEW a \in Actors, UNCHANGED <<world, began>>, op' \in [Actors -> Op],
           \A b \in Actors \ {a} : op'[b] = op[b], Track(a)'
    PROVE  Does(a)
<1>1. began' \in 0..MaxOps /\ lock' \in Actors \cup {"free"}
  BY DEF world, Inv, TypeOK
<1> QED
  BY <1>1, StillDrifts DEF Does, world

LEMMA ResolveDoes ==
    ASSUME Inv, NEW a \in Actors, ResolveImage(a)
    PROVE  Does(a)
<1>t. Before(a) /\ op[a] \in Op /\ TypeOK /\ Suits(a)
  BY BeforeIs DEF Before
<1>1. op[a].pc = "resolve" /\ UNCHANGED <<world, began>> /\ ~op[a].rolling
  BY <1>t DEF ResolveImage, At, Suits, In
<1>w. UNCHANGED <<conf, tag, asked>>
  BY <1>1 DEF world
<1>2. CASE HasBuilder
  <2>1. Goes(a, Resolved(op[a])) /\ conf.source # "registry"
    BY <1>2 DEF ResolveImage, HasBuilder
  <2>2. /\ op' \in [Actors -> Op] /\ \A b \in Actors \ {a} : op'[b] = op[b]
        /\ Near(op'[a], op[a]) /\ op'[a].pc \in {"drift", "lock"}
    BY <1>t, <2>1, ResolvedIs, GoesTurn
  <2>3. op'[a].ref = None
    BY <1>t, <2>1, <2>2 DEF Suits, Near
  <2>4. Track(a)'
    BY <1>1, <1>w, <2>1, <2>2, <2>3, FreeTrack DEF Near, Kin, In
  <2> QED
    BY <1>1, <2>2, <2>4, StillDoes
<1>3. CASE conf.source = "local"
  <2> DEFINE n == [op[a] EXCEPT !.pc = "verify", !.at = 1]
  <2>1. Goes(a, n)
    BY <1>3 DEF ResolveImage, HasBuilder
  <2>2. n \in Op
    <3>1. "verify" \in PCs
      BY DEF PCs
    <3> QED
      BY <1>t, <3>1, HostsAre DEF Op
  <2>3. n.rolling = op[a].rolling
    BY <1>t DEF Op
  <2>4. /\ n.pc = "verify" /\ n.kind = op[a].kind /\ n.made = op[a].made /\ n.held = op[a].held
        /\ n.result = op[a].result /\ n.ref = op[a].ref
    BY <1>t DEF Op
  <2> HIDE DEF n
  <2>5. op' \in [Actors -> Op] /\ op'[a] = n /\ \A b \in Actors \ {a} : op'[b] = op[b]
    BY <1>t, <2>1, <2>2, GoesTurn
  <2>6. op[a].ref = None
    BY <1>t, <1>3 DEF Suits
  <2>7. Track(a)'
    BY <1>1, <1>3, <1>w, <2>3, <2>4, <2>5, <2>6, FreeTrack DEF In
  <2> QED
    BY <1>1, <2>5, <2>7, StillDoes
<1>4. CASE conf.source \notin {"local"} /\ ~HasBuilder
  <2> DEFINE m == [op[a] EXCEPT !.ref = None]
             n == [Fetch(m) EXCEPT !.at = 1]
  <2>1. Goes(a, n) /\ conf.source = "registry"
    BY <1>4 DEF ResolveImage, HasBuilder
  <2>2. m \in Op
    BY <1>t, RefsAre DEF Op
  <2>3. m.rolling = op[a].rolling
    BY <1>t DEF Op
  <2>4. /\ m.kind = op[a].kind /\ m.made = op[a].made /\ m.held = op[a].held
        /\ m.result = op[a].result /\ m.ref = None
    BY <1>t DEF Op
  <2> HIDE DEF m
  <2>5. PICK q \in Op : q = Fetch(m) /\ Near(q, m) /\ q.pc = IF AsksFirst(m) THEN "exists" ELSE "pull"
    BY <2>2, FetchIs
  <2>6. n = [q EXCEPT !.at = 1]
    BY <2>5
  <2> HIDE DEF n
  <2>7. n \in Op
    BY <2>6, HostsAre DEF Op
  <2>8. n.rolling = q.rolling
    BY <2>6 DEF Op
  <2>9. /\ n.kind = q.kind /\ n.made = q.made /\ n.held = q.held /\ n.at = 1
        /\ n.result = q.result /\ n.ref = q.ref /\ n.pc = q.pc
    BY <2>6, HostsAre DEF Op
  <2>10. op' \in [Actors -> Op] /\ op'[a] = n /\ \A b \in Actors \ {a} : op'[b] = op[b]
    BY <1>t, <2>1, <2>7, GoesTurn
  <2>11. /\ op'[a].kind = op[a].kind /\ op'[a].made = op[a].made /\ op'[a].held = op[a].held
         /\ op'[a].at = 1 /\ op'[a].result = op[a].result /\ op'[a].ref = None
         /\ ~op'[a].rolling /\ op'[a].pc \in {"exists", "pull"}
         /\ op'[a].pc = "pull" => op[a].kind # "reconcile"
    BY <1>1, <2>3, <2>4, <2>5, <2>8, <2>9, <2>10 DEF Near, Kin, AsksFirst
  <2>12. Track(a)'
    BY <1>1, <1>w, <2>1, <2>11, FreeTrack DEF In
  <2> QED
    BY <1>1, <2>10, <2>12, StillDoes
<1> QED
  BY <1>2, <1>3, <1>4

LEMMA EndsDoes ==
    ASSUME Inv, NEW a \in Actors, NEW r \in {"ok", "failed"}, Ends(a, r),
           UNCHANGED <<conf, newest, reg, built, tag, has, late, running, asked, began>>
    PROVE  Does(a)
<1>1. /\ op' \in [Actors -> Op] /\ \A b \in Actors \ {a} : op'[b] = op[b]
      /\ Track(a)' /\ (lock' = lock \/ lock = a) /\ lock' \in Actors \cup {"free"}
  BY EndsTrack
<1>2. began' \in 0..MaxOps
  BY DEF Inv, TypeOK
<1> QED
  BY <1>1, <1>2, StillDrifts DEF Does

LEMMA VerifyDoes ==
    ASSUME Inv, NEW a \in Actors, Verify(a)
    PROVE  Does(a)
<1>t. Before(a) /\ op[a] \in Op /\ TypeOK /\ Suits(a)
  BY BeforeIs DEF Before
<1>1. /\ op[a].pc = "verify" /\ ~op[a].rolling /\ conf.source = "local" /\ op[a].ref = None
      /\ UNCHANGED <<conf, newest, reg, built, tag, has, late, running, asked, began>>
  BY <1>t DEF Verify, At, Suits, In
<1> DEFINE n == [op[a] EXCEPT !.at = @ + 1]
<1>2. \/ Ends(a, "failed")
      \/ Goes(a, n) /\ op[a].at < Len(HostList) /\ UNCHANGED lock
      \/ Goes(a, Resolved(op[a])) /\ UNCHANGED lock
  BY DEF Verify
<1>3. CASE Ends(a, "failed")
  BY <1>1, <1>3, EndsDoes
<1>4. CASE Goes(a, n) /\ op[a].at < Len(HostList) /\ UNCHANGED lock
  <2>1. op[a].at + 1 \in 1..Len(HostList)
    BY <1>t, <1>4, HostsAre DEF Op
  <2>2. n \in Op
    BY <1>t, <2>1 DEF Op
  <2>3. n.rolling = op[a].rolling
    BY <1>t DEF Op
  <2>4. /\ n.pc = "verify" /\ n.kind = op[a].kind /\ n.made = op[a].made /\ n.held = op[a].held
        /\ n.result = op[a].result /\ n.ref = op[a].ref
    BY <1>t, <1>1 DEF Op
  <2> HIDE DEF n
  <2>5. op' \in [Actors -> Op] /\ op'[a] = n /\ \A b \in Actors \ {a} : op'[b] = op[b]
    BY <1>t, <1>4, <2>2, GoesTurn
  <2>6. Track(a)'
    BY <1>1, <2>3, <2>4, <2>5, FreeTrack DEF In
  <2> QED
    BY <1>1, <1>4, <2>5, <2>6, StillDoes DEF world
<1>5. CASE Goes(a, Resolved(op[a])) /\ UNCHANGED lock
  <2>1. /\ op' \in [Actors -> Op] /\ \A b \in Actors \ {a} : op'[b] = op[b]
        /\ Near(op'[a], op[a]) /\ op'[a].pc \in {"drift", "lock"}
    BY <1>t, <1>5, ResolvedIs, GoesTurn
  <2>2. Track(a)'
    BY <1>1, <2>1, FreeTrack DEF Near, Kin, In
  <2> QED
    BY <1>1, <1>5, <2>1, <2>2, StillDoes DEF world
<1> QED
  BY <1>2, <1>3, <1>4, <1>5

LEMMA DigestDoes ==
    ASSUME Inv, NEW a \in Actors, ImageDigest(a)
    PROVE  Does(a)
<1>t. Before(a) /\ op[a] \in Op /\ TypeOK /\ Suits(a) /\ Digest(a)
  BY BeforeIs DEF Before
<1>1. /\ op[a].pc = "digest" /\ ~op[a].rolling /\ conf.source = "registry" /\ tag[First] # None
      /\ UNCHANGED <<world, began>>
  BY <1>t DEF ImageDigest, At, Suits, Digest, In
<1> DEFINE m == [op[a] EXCEPT !.ref = tag[First]]
<1>2. tag[First] \in Refs
  BY <1>t, HostsAre DEF TypeOK
<1>3. m \in Op
  BY <1>t, <1>2 DEF Op
<1>4. m.rolling = op[a].rolling
  BY <1>t DEF Op
<1>5. /\ m.kind = op[a].kind /\ m.made = op[a].made /\ m.held = op[a].held
      /\ m.result = op[a].result /\ m.ref = tag[First]
  BY <1>t DEF Op
<1>6. Goes(a, Resolved(m))
  BY DEF ImageDigest
<1> HIDE DEF m
<1>7. PICK q \in Op : q = m
  BY <1>3
<1>8. Resolved(q) \in Op /\ Near(Resolved(q), q) /\ Resolved(q).pc \in {"drift", "lock"}
  BY ResolvedIs
<1>9. op' \in [Actors -> Op] /\ op'[a] = Resolved(q) /\ \A b \in Actors \ {a} : op'[b] = op[b]
  BY <1>t, <1>6, <1>7, <1>8, GoesTurn
<1>10. /\ op'[a].kind = op[a].kind /\ op'[a].made = op[a].made /\ op'[a].held = op[a].held
       /\ op'[a].result = op[a].result /\ op'[a].ref = tag[First]
       /\ ~op'[a].rolling /\ op'[a].pc \in {"drift", "lock"}
  BY <1>1, <1>4, <1>5, <1>7, <1>8, <1>9 DEF Near, Kin
<1>11. Track(a)'
  BY <1>1, <1>10, FreeTrack DEF In, world
<1> QED
  BY <1>1, <1>9, <1>11, StillDoes

LEMMA FindDriftDoes ==
    ASSUME Inv, NEW a \in Actors, FindDrift(a)
    PROVE  Does(a)
<1>t. Before(a) /\ op[a] \in Op /\ TypeOK /\ Suits(a)
  BY BeforeIs DEF Before
<1>1. op[a].pc = "drift" /\ ~op[a].rolling /\ UNCHANGED <<world, began>>
  BY <1>t DEF FindDrift, At, Suits, In
<1> DEFINE n == [op[a] EXCEPT !.pc = "resolve", !.drifted = TRUE, !.ref = None]
<1>2. Goes(a, Over("ok")) \/ Goes(a, n)
  BY DEF FindDrift
<1>3. CASE Goes(a, Over("ok"))
  <2>1. /\ op' \in [Actors -> Op] /\ \A b \in Actors \ {a} : op'[b] = op[b]
        /\ Track(a)'
    BY <1>t, <1>3, OverTrack
  <2> QED
    BY <1>1, <2>1, StillDoes
<1>4. CASE Goes(a, n)
  <2>1. n \in Op
    <3>1. "resolve" \in PCs
      BY DEF PCs
    <3> QED
      BY <1>t, <3>1, RefsAre DEF Op
  <2>2. n.rolling = op[a].rolling
    BY <1>t DEF Op
  <2>3. /\ n.pc = "resolve" /\ n.kind = op[a].kind /\ n.made = op[a].made /\ n.held = op[a].held
        /\ n.result = op[a].result /\ n.ref = None
    BY <1>t DEF Op
  <2> HIDE DEF n
  <2>4. op' \in [Actors -> Op] /\ op'[a] = n /\ \A b \in Actors \ {a} : op'[b] = op[b]
    BY <1>t, <1>4, <2>1, GoesTurn
  <2>5. Track(a)'
    BY <1>1, <2>2, <2>3, <2>4, FreeTrack DEF In, world
  <2> QED
    BY <1>1, <2>4, <2>5, StillDoes
<1> QED
  BY <1>2, <1>3, <1>4
-----------------------------------------------------------------------------
(* Pulls, under the lock and before it *)

LEMMA FailsDoes ==
    ASSUME Inv, NEW a \in Actors, Fails(a)
    PROVE  Does(a)
BY EndsDoes DEF Fails

\* One that goes on, by the same reference at the same host, to a step where
\* nothing more is asked of it than of one that pulls.
LEMMA NearTrack ==
    ASSUME Inv, NEW a \in Actors, Near(op'[a], op[a]), UNCHANGED <<conf, running>>,
           In(a, {"exists", "pull", "host"}), lock' = lock,
           op'[a].pc \in {"exists", "pull", "digest", "run"},
           op'[a].pc = "digest" => ~op[a].rolling /\ tag'[First] # None,
           op'[a].pc = "run" => op[a].rolling,
           op'[a].pc = "pull" => \/ In(a, {"pull"}) \/ op[a].ref # None
                                 \/ op[a].kind # "reconcile" \/ tag[First] = None
                                 \/ conf.source # "registry",
           \* what it builds upon
           op[a].made # None /\ op[a].clean /\ op[a].kind = "deploy" /\ conf.policy = "always" =>
             /\ op'[a].pc # "exists" /\ UNCHANGED reg /\ \A t \in late' : t.content = op[a].made
             /\ op'[a].pc = "run" => tag'[Host(op[a])] = op[a].made,
           \* the first host's tag
           asked \subseteq asked',
           conf.source = "registry" =>
             /\ tag[First] # None => tag'[First] # None
             /\ tag'[First] = tag[First] \/ tag'[First] \in asked'
    PROVE  Track(a)'
<1>t. Suits(a) /\ Digest(a) /\ Done(a) /\ Built(a) /\ Known(a)
  BY BeforeIs DEF Before
<1>1. /\ op'[a].kind = op[a].kind /\ op'[a].rolling = op[a].rolling /\ op'[a].made = op[a].made
      /\ op'[a].clean = op[a].clean /\ op'[a].held = op[a].held /\ op'[a].result = op[a].result
      /\ op'[a].ref = op[a].ref /\ op'[a].at = op[a].at
  BY DEF Near, Kin
<1>2. Suits(a)'
  BY <1>t, <1>1 DEF Suits, In
<1>3. Digest(a)'
  BY <1>t, <1>1 DEF Digest, In
<1>4. Done(a)'
  BY <1>t, <1>1 DEF Done
<1>5. Built(a)'
  <2>1. Host(op[a])' = Host(op[a])
    BY <1>1 DEF Host
  <2> QED
    BY <1>t, <1>1, <2>1 DEF Built, In
<1>6. Known(a)'
  BY <1>t, <1>1 DEF Known, In
<1> QED
  BY <1>2, <1>3, <1>4, <1>5, <1>6 DEF Track

LEMMA CheckDoes ==
    ASSUME Inv, NEW a \in Actors, CheckPresent(a)
    PROVE  Does(a)
<1>t. Before(a) /\ op[a] \in Op /\ TypeOK /\ Suits(a) /\ Built(a) /\ Digest(a)
  BY BeforeIs DEF Before
<1>1. op[a].pc = "exists" /\ UNCHANGED <<world, began>>
  BY DEF CheckPresent, At
<1>w. UNCHANGED <<conf, running, reg, tag, late, asked, lock>>
  BY <1>1 DEF world
<1>2. ~op[a].rolling => Host(op[a]) = First /\ op[a].ref = None
  BY <1>t, <1>1 DEF Suits, In, Host, First
<1>3. ~(op[a].made # None /\ op[a].clean /\ op[a].kind = "deploy" /\ conf.policy = "always")
  BY <1>t, <1>1 DEF Built, In
<1>4. CASE ImageExists(Host(op[a]), op[a].ref)
  <2>1. Goes(a, Fetched(op[a]))
    BY <1>4 DEF CheckPresent
  <2>2. /\ op' \in [Actors -> Op] /\ \A b \in Actors \ {a} : op'[b] = op[b]
        /\ Near(op'[a], op[a]) /\ op'[a].pc = IF op[a].rolling THEN "run" ELSE "digest"
    BY <1>t, <2>1, FetchedIs, GoesTurn
  <2>3. ~op[a].rolling => tag[First] # None
    BY <1>2, <1>4 DEF ImageExists, Pinned
  <2>4. Track(a)'
    BY <1>1, <1>3, <1>w, <2>2, <2>3, NearTrack DEF In
  <2> QED
    BY <1>1, <2>2, <2>4, StillDoes
<1>5. CASE ~ImageExists(Host(op[a]), op[a].ref)
  <2>0. "pull" \in PCs
    BY DEF PCs
  <2>1. Goes(a, [op[a] EXCEPT !.pc = "pull"])
    BY <1>5 DEF CheckPresent
  <2>2. /\ op' \in [Actors -> Op] /\ \A b \in Actors \ {a} : op'[b] = op[b]
        /\ Near(op'[a], op[a]) /\ op'[a].pc = "pull"
    BY <1>t, <2>0, <2>1, GoesOn
  <2>3. conf.source # "registry" \/ op[a].ref # None \/ tag[First] = None
    BY <1>2, <1>5, <1>t DEF ImageExists, Pinned, Digest
  <2>4. Track(a)'
    BY <1>1, <1>3, <1>w, <2>2, <2>3, NearTrack DEF In
  <2> QED
    BY <1>1, <2>2, <2>4, StillDoes
<1> QED
  BY <1>4, <1>5

\* An attempt that fails, and what it may leave behind.
LEMMA AttemptIs ==
    ASSUME Inv, NEW a \in Actors, NEW fault \in Faults, FailsOrAgain(a, fault)
    PROVE  /\ op' \in [Actors -> Op] /\ \A b \in Actors \ {a} : op'[b] = op[b]
           /\ lock' \in Actors \cup {"free"} /\ (lock' = lock \/ lock = a)
           /\ \/ Track(a)'
              \/ Near(op'[a], op[a]) /\ op'[a].pc = op[a].pc /\ lock' = lock
<1>t. TypeOK /\ op[a] \in Op
  BY DEF Inv, TypeOK
<1>1. CASE Ends(a, "failed")
  BY <1>1, EndsTrack
<1>2. CASE Again(a) /\ op[a].tries < Retries
  <2> DEFINE n == [op[a] EXCEPT !.tries = @ + 1]
  <2>1. op[a].tries + 1 \in 0..Retries
    BY <1>t, <1>2, ImageAssumption DEF Op
  <2>2. n \in Op
    BY <1>t, <2>1 DEF Op
  <2>3. n.rolling = op[a].rolling /\ n.clean = op[a].clean
    BY <1>t DEF Op
  <2>4. Near(n, op[a]) /\ n.pc = op[a].pc
    BY <1>t, <2>3 DEF Op, Near, Kin
  <2> HIDE DEF n
  <2>5. op' \in [Actors -> Op] /\ op'[a] = n /\ \A b \in Actors \ {a} : op'[b] = op[b]
    BY <1>t, <1>2, <2>2, GoesTurn DEF Again, n
  <2> QED
    BY <1>t, <1>2, <2>4, <2>5 DEF Again, TypeOK
<1> QED
  BY <1>1, <1>2 DEF FailsOrAgain

LEMMA LateIs ==
    ASSUME TypeOK, NEW fault, NEW at \in Hosts \cup {"builder", "registry"}, NEW ref \in Refs,
           NEW c \in Refs, LeavesLate(fault, at, ref, c)
    PROVE  /\ late' \subseteq [host : Hosts \cup {"builder", "registry"}, ref : Refs, content : Revisions]
           /\ \A t \in late' : t \in late \/ (t.ref = ref /\ t.content = c /\ c # None)
<1>1. late' = late \/ (c # None /\ late' = late \cup {[host |-> at, ref |-> ref, content |-> c]})
  BY DEF LeavesLate
<1>2. c # None => c \in Revisions
  BY DEF Refs, None
<1> QED
  BY <1>1, <1>2 DEF TypeOK

LEMMA PullDoes ==
    ASSUME Inv, NEW a \in Actors, Pull(a)
    PROVE  Does(a)
<1>t. /\ Before(a) /\ op[a] \in Op /\ TypeOK /\ Suits(a) /\ Digest(a) /\ Built(a) /\ Known(a)
      /\ LateKnown /\ Host(op[a]) \in Hosts
  BY BeforeIs DEF Before
<1> DEFINE c == IF Pinned(op[a].ref) THEN op[a].ref ELSE reg
           h == Host(op[a])
           counts == (op[a].kind = "deploy" \/ op[a].held = None) /\ c # None
<1>1. /\ op[a].pc = "pull" /\ UNCHANGED <<conf, newest, reg, built, running, began>>
      /\ asked' = IF counts THEN asked \cup {c} ELSE asked
      /\ \/ /\ c # None /\ Arrives(h, op[a].ref, c) /\ Goes(a, Fetched(op[a]))
            /\ UNCHANGED <<late, lock>>
         \/ /\ \E fault \in Faults : FailsOrAgain(a, fault) /\ LeavesLate(fault, h, op[a].ref, c)
            /\ UNCHANGED <<tag, has>>
  BY DEF Pull, At
<1>2. c \in Refs /\ (c # None => c \in Revisions)
  BY <1>t DEF TypeOK, Op, Refs, None
<1>k. op[a].kind \in {"deploy", "reconcile"}
  BY <1>t, <1>1 DEF Suits, In, Op
<1>3. conf.source = "registry" /\ op[a].ref = None =>
        ~op[a].rolling /\ op[a].at = 1 /\ h = First /\ (c # None => c \in asked')
  <2> SUFFICES ASSUME conf.source = "registry", op[a].ref = None
               PROVE  ~op[a].rolling /\ op[a].at = 1 /\ h = First /\ (c # None => c \in asked')
    OBVIOUS
  <2>1. ~op[a].rolling
    BY <1>t DEF Digest
  <2>2. op[a].at = 1 /\ h = First
    BY <1>t, <1>1, <2>1 DEF Suits, In, Host, First
  <2>3. op[a].kind = "reconcile" => op[a].held = None
    BY <1>t, <1>1 DEF Known, In
  <2> QED
    BY <1>1, <1>k, <2>1, <2>2, <2>3
<1>4. ~op[a].rolling => conf.source = "registry" /\ op[a].ref = None /\ ~HasBuilder
  BY <1>t, <1>1 DEF Suits, In, HasBuilder
<1>5. asked \subseteq asked' /\ asked' \subseteq Revisions
  BY <1>t, <1>1, <1>2 DEF TypeOK
<1>6. op[a].made # None => op[a].ref = None /\ HasBuilder
  BY <1>t DEF Suits, Built, HasBuilder
<1>7. op[a].made # None /\ op[a].clean /\ op[a].kind = "deploy" /\ conf.policy = "always" =>
        c = op[a].made /\ (\A t \in late : t.content = op[a].made)
  BY <1>t, <1>1, <1>6 DEF Built, In, Pinned
<1>8. CASE /\ c # None /\ Arrives(h, op[a].ref, c) /\ Goes(a, Fetched(op[a]))
           /\ UNCHANGED <<late, lock>>
  <2> HIDE DEF c
  <2>1. /\ op' \in [Actors -> Op] /\ \A b \in Actors \ {a} : op'[b] = op[b]
        /\ Near(op'[a], op[a]) /\ op'[a].pc = IF op[a].rolling THEN "run" ELSE "digest"
    BY <1>t, <1>8, FetchedIs, GoesTurn
  <2>2. /\ tag' \in [Hosts -> Refs] /\ has' \in [Hosts -> SUBSET Revisions]
        /\ \A g \in Hosts : tag[g] # None => tag'[g] # None
        /\ op[a].ref = None => tag'[h] = c
        /\ op[a].ref # None => tag' = tag
    BY <1>t, <1>2, <1>8, RefsAre DEF Arrives, TypeOK, Pinned
  <2>3. conf.source = "registry" =>
          /\ tag[First] # None => tag'[First] # None
          /\ tag'[First] = tag[First] \/ tag'[First] \in asked'
    BY <1>3, <1>8, <2>2, HostsAre
  <2>4. ~op[a].rolling => tag'[First] # None
    BY <1>3, <1>4, <1>8, <2>2
  <2>5. Track(a)'
    BY <1>1, <1>5, <1>6, <1>7, <1>8, <2>1, <2>2, <2>3, <2>4, NearTrack DEF In
  <2>6. Drift(a)
    BY <1>1, <1>4, <1>5, <1>8, <2>2, <2>3 DEF Drift
  <2>7. LateKnown' /\ Types'
    BY <1>t, <1>1, <1>5, <1>8, <2>2 DEF LateKnown, Types, TypeOK
  <2> QED
    BY <2>1, <2>5, <2>6, <2>7 DEF Does
<1>9. CASE /\ \E fault \in Faults : FailsOrAgain(a, fault) /\ LeavesLate(fault, h, op[a].ref, c)
           /\ UNCHANGED <<tag, has>>
  <2>1. PICK fault \in Faults : FailsOrAgain(a, fault) /\ LeavesLate(fault, h, op[a].ref, c)
    BY <1>9
  <2>r. op[a].ref \in Refs
    BY <1>t DEF Op
  <2> HIDE DEF c
  <2>2. /\ late' \subseteq [host : Hosts \cup {"builder", "registry"}, ref : Refs, content : Revisions]
        /\ \A t \in late' : t \in late \/ (t.ref = op[a].ref /\ t.content = c /\ c # None)
    BY <1>t, <1>2, <2>1, <2>r, LateIs
  <2>3. /\ op' \in [Actors -> Op] /\ \A b \in Actors \ {a} : op'[b] = op[b]
        /\ lock' \in Actors \cup {"free"} /\ (lock' = lock \/ lock = a)
        /\ \/ Track(a)'
           \/ Near(op'[a], op[a]) /\ op'[a].pc = op[a].pc /\ lock' = lock
    BY <2>1, AttemptIs
  <2>4. ASSUME Near(op'[a], op[a]), op'[a].pc = op[a].pc, lock' = lock
        PROVE  Track(a)'
    BY <1>1, <1>5, <1>7, <1>9, <2>2, <2>4, NearTrack DEF In
  <2>5. Drift(a)
    BY <1>1, <1>4, <1>5, <1>9, <2>3 DEF Drift
  <2>6. LateKnown'
    BY <1>t, <1>1, <1>3, <1>5, <2>2 DEF LateKnown
  <2>7. Types'
    BY <1>t, <1>1, <1>5, <1>9, <2>2, <2>3 DEF Types, TypeOK
  <2> QED
    BY <2>3, <2>4, <2>5, <2>6, <2>7 DEF Does
<1> QED
  BY <1>1, <1>8, <1>9
-----------------------------------------------------------------------------
(* Steps under the lock *)

LEMMA AcquireDoes ==
    ASSUME Inv, NEW a \in Actors, AcquireLock(a)
    PROVE  Does(a)
<1>t. /\ Before(a) /\ op[a] \in Op /\ TypeOK /\ Suits(a) /\ Digest(a) /\ Built(a) /\ Known(a)
  BY BeforeIs DEF Before
<1>1. /\ op[a].pc = "lock" /\ ~op[a].rolling
      /\ UNCHANGED <<conf, newest, reg, built, tag, has, late, running, asked, began>>
  BY <1>t DEF AcquireLock, At, Suits, In
<1> DEFINE l == IF HasBuilder /\ conf.source # "per_target" THEN "build" ELSE "host"
           n == [op[a] EXCEPT !.rolling = TRUE, !.at = 1, !.pc = l]
<1>2. \/ lock = "free" /\ lock' = a /\ Goes(a, n)
      \/ Ends(a, "failed")
  BY DEF AcquireLock
<1>3. CASE Ends(a, "failed")
  BY <1>1, <1>3, EndsDoes
<1>4. CASE lock = "free" /\ lock' = a /\ Goes(a, n)
  <2>1. l \in PCs /\ l \in {"build", "host"}
    BY DEF PCs
  <2> HIDE DEF l
  <2>2. n \in Op
    BY <1>t, <2>1, HostsAre DEF Op
  <2>3. n.rolling = TRUE /\ n.clean = op[a].clean
    BY <1>t DEF Op
  <2>4. /\ n.pc = l /\ n.kind = op[a].kind /\ n.made = op[a].made /\ n.held = op[a].held
        /\ n.result = op[a].result /\ n.ref = op[a].ref /\ n.at = 1
    BY <1>t, HostsAre DEF Op
  <2> HIDE DEF n
  <2>5. op' \in [Actors -> Op] /\ op'[a] = n /\ \A b \in Actors \ {a} : op'[b] = op[b]
    BY <1>t, <1>4, <2>2, GoesTurn
  <2>6. /\ op'[a].rolling /\ op'[a].pc \in {"build", "host"} /\ op'[a].kind = op[a].kind
        /\ op'[a].made = op[a].made /\ op'[a].held = op[a].held
        /\ op'[a].result = op[a].result /\ op'[a].ref = op[a].ref /\ op'[a].at = 1
    BY <2>1, <2>3, <2>4, <2>5
  <2>7. op[a].made = None
    BY <1>t, <1>1 DEF Built
  <2>8. Suits(a)' /\ Digest(a)' /\ Done(a)' /\ Built(a)' /\ Known(a)'
    BY <1>t, <1>1, <1>4, <2>6, <2>7 DEF Suits, Digest, Done, Built, Known, In
  <2>9. Drift(a) /\ LateKnown' /\ Types'
    BY <1>t, <1>1, <1>4, StillDrifts DEF TypeOK
  <2> QED
    BY <2>5, <2>8, <2>9 DEF Does, Track
<1> QED
  BY <1>2, <1>3, <1>4

\* What is written to the builder, to the registry or to neither.
LEMMA WorldDrifts ==
    ASSUME Inv, NEW a \in Actors, op[a].rolling, conf.source # "registry",
           UNCHANGED <<conf, newest, asked, began, running>>,
           built' \in Refs, reg' \in Refs,
           tag' \in [Hosts -> Refs], has' \in [Hosts -> SUBSET Revisions],
           \A h \in Hosts : tag[h] # None => tag'[h] # None,
           late' \subseteq [host : Hosts \cup {"builder", "registry"}, ref : Refs, content : Revisions],
           lock' \in Actors \cup {"free"}, lock' = lock \/ lock = a
    PROVE  Drift(a) /\ LateKnown' /\ Types'
BY DEF Inv, TypeOK, Types, LateKnown, Drift

LEMMA BuildDoes ==
    ASSUME Inv, NEW a \in Actors,
           LocalBuild(a) \/ RemoteBuild(a) \/ LocalBuildxPush(a) \/ RemoteBuildxPush(a)
    PROVE  Does(a)
<1>t. /\ Before(a) /\ op[a] \in Op /\ TypeOK /\ Suits(a) /\ Digest(a) /\ Built(a) /\ Known(a)
  BY BeforeIs DEF Before
<1>1. /\ op[a].pc = "build" /\ op[a].rolling /\ op[a].at = 1
      /\ conf.source \in {"built_local", "built_remote", "multi_local", "multi_remote"}
      /\ UNCHANGED <<conf, newest, tag, has, asked, began, running>>
  BY <1>t DEF LocalBuild, RemoteBuild, LocalBuildxPush, RemoteBuildxPush, At, Suits, In
<1>2. newest \in Revisions /\ newest \in Refs /\ newest # None
  BY <1>t, RefsAre DEF TypeOK
<1>3. PICK l \in {"push", "host"} :
        \/ /\ Goes(a, Made(op[a], newest, l)) /\ UNCHANGED <<late, lock>>
           /\ l = "push" => built' = newest /\ reg' = reg
           /\ l = "host" => reg' = newest /\ built' = built
        \/ /\ Ends(a, "failed") /\ reg' \in {reg, newest} /\ built' = built
           /\ \/ UNCHANGED late
              \/ \E fault \in Faults, at \in {"builder", "registry"} :
                   LeavesLate(fault, at, None, newest)
  BY DEF LocalBuild, RemoteBuild, LocalBuildxPush, RemoteBuildxPush, Context
<1>4. built' \in Refs /\ reg' \in Refs
  BY <1>t, <1>2, <1>3 DEF TypeOK
<1>5. CASE /\ Goes(a, Made(op[a], newest, l)) /\ UNCHANGED <<late, lock>>
           /\ l = "push" => built' = newest /\ reg' = reg
           /\ l = "host" => reg' = newest /\ built' = built
  <2> DEFINE n == [op[a] EXCEPT !.pc = l, !.made = newest, !.clean = late = {}, !.tries = 0]
  <2>0. l \in PCs /\ 0 \in 0..Retries /\ (late = {}) \in BOOLEAN
    BY ImageAssumption DEF PCs
  <2>1. n \in Op
    BY <1>t, <1>2, <2>0 DEF Op
  <2>2. n.rolling = op[a].rolling /\ n.clean = (late = {})
    BY <1>t DEF Op
  <2>3. /\ n.pc = l /\ n.kind = op[a].kind /\ n.made = newest /\ n.held = op[a].held
        /\ n.result = op[a].result /\ n.ref = op[a].ref /\ n.at = op[a].at
    BY <1>t DEF Op
  <2>4. Goes(a, n)
    BY <1>5 DEF Made
  <2> HIDE DEF n
  <2>5. op' \in [Actors -> Op] /\ op'[a] = n /\ \A b \in Actors \ {a} : op'[b] = op[b]
    BY <1>t, <2>1, <2>4, GoesTurn
  <2>6. /\ op'[a].rolling /\ op'[a].pc = l /\ op'[a].kind = op[a].kind
        /\ op'[a].made = newest /\ op'[a].held = op[a].held /\ op'[a].clean = (late = {})
        /\ op'[a].result = op[a].result /\ op'[a].ref = op[a].ref /\ op'[a].at = 1
    BY <1>1, <2>2, <2>3, <2>5
  <2>7. Suits(a)' /\ Digest(a)' /\ Done(a)' /\ Known(a)'
    BY <1>t, <1>1, <1>5, <2>6 DEF Suits, Digest, Done, Known, In
  <2>8. Built(a)'
    <3>1. op'[a].clean => \A t \in late' : t.content = newest
      BY <1>5, <2>6
    <3>2. \A i \in 1..(op'[a].at - 1) : running'[HostList[i]].content = newest
      BY <2>6
    <3>3. /\ op'[a].pc \in {"push", "host"} /\ conf' = conf
          /\ op'[a].pc = "push" => built' = newest
          /\ op'[a].pc = "host" => reg' = newest
      BY <1>1, <1>5, <2>6
    <3> QED
      BY <1>1, <2>6, <3>1, <3>2, <3>3 DEF Built, In
  <2>9. Drift(a) /\ LateKnown' /\ Types'
    BY <1>t, <1>1, <1>4, <1>5, WorldDrifts DEF TypeOK
  <2> QED
    BY <2>5, <2>7, <2>8, <2>9 DEF Does, Track
<1>6. CASE /\ Ends(a, "failed")
           /\ \/ UNCHANGED late
              \/ \E fault \in Faults, at \in {"builder", "registry"} :
                   LeavesLate(fault, at, None, newest)
  <2>1. /\ op' \in [Actors -> Op] /\ \A b \in Actors \ {a} : op'[b] = op[b]
        /\ Track(a)' /\ (lock' = lock \/ lock = a) /\ lock' \in Actors \cup {"free"}
    BY <1>6, EndsTrack
  <2>2. late' \subseteq [host : Hosts \cup {"builder", "registry"}, ref : Refs, content : Revisions]
    BY <1>t, <1>2, <1>6, RefsAre, LateIs DEF TypeOK
  <2>3. Drift(a) /\ LateKnown' /\ Types'
    BY <1>t, <1>1, <1>4, <2>1, <2>2, WorldDrifts DEF TypeOK
  <2> QED
    BY <2>1, <2>3 DEF Does
<1> QED
  BY <1>3, <1>5, <1>6

LEMMA PushDoes ==
    ASSUME Inv, NEW a \in Actors, LocalPush(a) \/ RemotePush(a)
    PROVE  Does(a)
<1>t. /\ Before(a) /\ op[a] \in Op /\ TypeOK /\ Suits(a) /\ Digest(a) /\ Done(a) /\ Built(a)
      /\ Known(a)
  BY BeforeIs DEF Before
<1>1. /\ op[a].pc = "push" /\ op[a].rolling /\ conf.source \in {"built_local", "built_remote"}
      /\ UNCHANGED <<conf, newest, built, tag, has, asked, began, running>>
  BY <1>t DEF LocalPush, RemotePush, At, Suits, In
<1>2. \/ /\ reg' = built /\ UNCHANGED <<late, lock>>
         /\ \/ Goes(a, [op[a] EXCEPT !.pc = "host"])
            \/ Goes(a, [op[a] EXCEPT !.pc = "host", !.tries = 0])
      \/ reg' = reg /\ Ends(a, "failed") /\ UNCHANGED late
      \/ /\ reg' = reg
         /\ \E fault \in Faults : FailsOrAgain(a, fault) /\ LeavesLate(fault, "registry", None, built)
  BY DEF LocalPush, RemotePush
<1>3. built' \in Refs /\ reg' \in Refs /\ built \in Refs
  BY <1>t, <1>1, <1>2 DEF TypeOK
\* It goes on with what was pushed, or tries again.
<1>4. ASSUME Near(op'[a], op[a]), lock' = lock,
             \/ op'[a].pc = "host" /\ reg' = built
             \/ op'[a].pc = "push",
             \A t \in late' : t \in late \/ t.content = built
      PROVE  Track(a)'
  <2>1. /\ op'[a].kind = op[a].kind /\ op'[a].rolling = op[a].rolling /\ op'[a].made = op[a].made
        /\ op'[a].clean = op[a].clean /\ op'[a].held = op[a].held /\ op'[a].result = op[a].result
        /\ op'[a].ref = op[a].ref /\ op'[a].at = op[a].at
    BY <1>4 DEF Near, Kin
  <2>2. Suits(a)' /\ Digest(a)' /\ Done(a)' /\ Known(a)'
    BY <1>t, <1>1, <1>4, <2>1 DEF Suits, Digest, Done, Known, In
  <2>3. Built(a)'
    BY <1>t, <1>1, <1>4, <2>1 DEF Built, In
  <2> QED
    BY <2>2, <2>3 DEF Track
<1>5. CASE /\ reg' = built /\ UNCHANGED <<late, lock>>
           /\ \/ Goes(a, [op[a] EXCEPT !.pc = "host"])
              \/ Goes(a, [op[a] EXCEPT !.pc = "host", !.tries = 0])
  <2>1. "host" \in PCs
    BY DEF PCs
  <2>2. /\ op' \in [Actors -> Op] /\ \A b \in Actors \ {a} : op'[b] = op[b]
        /\ Near(op'[a], op[a]) /\ op'[a].pc = "host"
    <3>1. CASE Goes(a, [op[a] EXCEPT !.pc = "host"])
      BY <1>t, <2>1, <3>1, GoesOn
    <3>2. CASE Goes(a, [op[a] EXCEPT !.pc = "host", !.tries = 0])
      <4> DEFINE n == [op[a] EXCEPT !.pc = "host", !.tries = 0]
      <4>1. n \in Op /\ n.pc = "host" /\ Near(n, op[a])
        BY <1>t, <2>1, CountsIs
      <4> HIDE DEF n
      <4>2. op' \in [Actors -> Op] /\ op'[a] = n /\ \A b \in Actors \ {a} : op'[b] = op[b]
        BY <1>t, <3>2, <4>1, GoesTurn DEF n
      <4> QED
        BY <4>1, <4>2
    <3> QED
      BY <1>5, <3>1, <3>2
  <2>3. Track(a)'
    BY <1>4, <1>5, <2>2
  <2>4. Drift(a) /\ LateKnown' /\ Types'
    BY <1>t, <1>1, <1>3, <1>5, WorldDrifts DEF TypeOK
  <2> QED
    BY <2>2, <2>3, <2>4 DEF Does
<1>6. CASE reg' = reg /\ Ends(a, "failed") /\ UNCHANGED late
  BY <1>1, <1>6, EndsDoes
<1>7. CASE /\ reg' = reg
           /\ \E fault \in Faults : FailsOrAgain(a, fault) /\ LeavesLate(fault, "registry", None, built)
  <2>1. PICK fault \in Faults : FailsOrAgain(a, fault) /\ LeavesLate(fault, "registry", None, built)
    BY <1>7
  <2>2. /\ late' \subseteq [host : Hosts \cup {"builder", "registry"}, ref : Refs, content : Revisions]
        /\ \A t \in late' : t \in late \/ (t.ref = None /\ t.content = built /\ built # None)
    BY <1>t, <1>3, <2>1, RefsAre, LateIs
  <2>3. /\ op' \in [Actors -> Op] /\ \A b \in Actors \ {a} : op'[b] = op[b]
        /\ lock' \in Actors \cup {"free"} /\ (lock' = lock \/ lock = a)
        /\ \/ Track(a)'
           \/ Near(op'[a], op[a]) /\ op'[a].pc = op[a].pc /\ lock' = lock
    BY <2>1, AttemptIs
  <2>4. Track(a)'
    BY <1>1, <1>4, <2>2, <2>3
  <2>5. Drift(a) /\ LateKnown' /\ Types'
    BY <1>t, <1>1, <1>3, <2>2, <2>3, WorldDrifts DEF TypeOK
  <2> QED
    BY <2>3, <2>4, <2>5 DEF Does
<1> QED
  BY <1>2, <1>5, <1>6, <1>7

LEMMA HostDoes ==
    ASSUME Inv, NEW a \in Actors, DeployHost(a)
    PROVE  Does(a)
<1>t. /\ Before(a) /\ op[a] \in Op /\ TypeOK /\ Suits(a) /\ Digest(a) /\ Done(a) /\ Built(a)
      /\ Known(a)
  BY BeforeIs DEF Before
<1>1. op[a].pc = "host" /\ op[a].rolling /\ UNCHANGED <<world, began>>
  BY <1>t DEF DeployHost, At, Suits, In
<1>w. UNCHANGED <<conf, running, reg, tag, late, asked, lock>>
  BY <1>1 DEF world
<1>2. CASE conf.source = "local"
  <2>0. "run" \in PCs
    BY DEF PCs
  <2>1. Goes(a, [op[a] EXCEPT !.pc = "run"])
    BY <1>2 DEF DeployHost
  <2>2. /\ op' \in [Actors -> Op] /\ \A b \in Actors \ {a} : op'[b] = op[b]
        /\ Near(op'[a], op[a]) /\ op'[a].pc = "run"
    BY <1>t, <2>0, <2>1, GoesOn
  <2>3. op[a].made = None
    BY <1>t, <1>2 DEF Built
  <2>4. Track(a)'
    BY <1>1, <1>w, <1>2, <2>2, <2>3, NearTrack DEF In
  <2> QED
    BY <1>1, <2>2, <2>4, StillDoes
<1>3. CASE conf.source # "local"
  <2>1. Goes(a, Fetch(op[a]))
    BY <1>3 DEF DeployHost
  <2>2. /\ op' \in [Actors -> Op] /\ \A b \in Actors \ {a} : op'[b] = op[b]
        /\ Near(op'[a], op[a]) /\ op'[a].pc = IF AsksFirst(op[a]) THEN "exists" ELSE "pull"
    BY <1>t, <2>1, FetchIs, GoesTurn
  <2>3. /\ op[a].made # None => conf.source # "registry" /\ op[a].ref = None
        /\ op[a].kind = "reconcile" => op'[a].pc = "exists"
        /\ op[a].kind = "deploy" /\ conf.policy = "always" /\ op[a].ref = None => op'[a].pc = "pull"
    BY <1>t, <2>2 DEF Suits, Built, AsksFirst, SkipPullIfPresent, Pinned
  <2>4. Track(a)'
    BY <1>t, <1>1, <1>w, <2>2, <2>3, NearTrack DEF In, Built
  <2> QED
    BY <1>1, <2>2, <2>4, StillDoes
<1> QED
  BY <1>2, <1>3

LEMMA OnHostDoes ==
    ASSUME Inv, NEW a \in Actors, BuildOnHost(a)
    PROVE  Does(a)
<1>t. /\ Before(a) /\ op[a] \in Op /\ TypeOK /\ Suits(a) /\ Digest(a) /\ Done(a) /\ Built(a)
      /\ Known(a) /\ Host(op[a]) \in Hosts
  BY BeforeIs DEF Before
<1>1. /\ op[a].pc = "host" /\ op[a].rolling /\ conf.source = "per_target"
      /\ UNCHANGED <<conf, newest, reg, built, running, asked, began>>
  BY <1>t DEF BuildOnHost, At, Suits, In
<1>2. newest \in Revisions /\ newest \in Refs /\ newest # None /\ None \in Refs
  BY <1>t, RefsAre DEF TypeOK
<1>3. \/ /\ Arrives(Host(op[a]), None, newest) /\ UNCHANGED <<late, lock>>
         /\ Goes(a, [op[a] EXCEPT !.pc = "run"])
      \/ /\ UNCHANGED <<tag, has>> /\ Ends(a, "failed")
         /\ \E fault \in Faults : LeavesLate(fault, Host(op[a]), None, newest)
  BY DEF BuildOnHost, Context
<1>4. CASE /\ Arrives(Host(op[a]), None, newest) /\ UNCHANGED <<late, lock>>
           /\ Goes(a, [op[a] EXCEPT !.pc = "run"])
  <2>0. "run" \in PCs
    BY DEF PCs
  <2>1. /\ op' \in [Actors -> Op] /\ \A b \in Actors \ {a} : op'[b] = op[b]
        /\ Near(op'[a], op[a]) /\ op'[a].pc = "run"
    BY <1>t, <1>4, <2>0, GoesOn
  <2>2. op[a].made = None
    BY <1>t, <1>1 DEF Built
  <2>3. Track(a)'
    BY <1>1, <1>4, <2>1, <2>2, NearTrack DEF In
  <2>4. /\ tag' \in [Hosts -> Refs] /\ has' \in [Hosts -> SUBSET Revisions]
        /\ \A h \in Hosts : tag[h] # None => tag'[h] # None
    BY <1>t, <1>2, <1>4 DEF Arrives, TypeOK
  <2>5. Drift(a) /\ LateKnown' /\ Types'
    BY <1>t, <1>1, <1>4, <2>4, WorldDrifts DEF TypeOK
  <2> QED
    BY <2>1, <2>3, <2>5 DEF Does
<1>5. CASE /\ UNCHANGED <<tag, has>> /\ Ends(a, "failed")
           /\ \E fault \in Faults : LeavesLate(fault, Host(op[a]), None, newest)
  <2>1. /\ op' \in [Actors -> Op] /\ \A b \in Actors \ {a} : op'[b] = op[b]
        /\ Track(a)' /\ (lock' = lock \/ lock = a) /\ lock' \in Actors \cup {"free"}
    BY <1>5, EndsTrack
  <2>2. late' \subseteq [host : Hosts \cup {"builder", "registry"}, ref : Refs, content : Revisions]
    BY <1>t, <1>2, <1>5, LateIs
  <2>3. Drift(a) /\ LateKnown' /\ Types'
    BY <1>t, <1>1, <1>5, <2>1, <2>2, WorldDrifts DEF TypeOK
  <2> QED
    BY <2>1, <2>3 DEF Does
<1> QED
  BY <1>3, <1>4, <1>5

\* A container starts, and the next host follows.
LEMMA RunIs ==
    ASSUME Inv, NEW a \in Actors, RunContainer(a)
    PROVE  /\ op[a].pc = "run" /\ op[a].rolling
           /\ UNCHANGED <<conf, newest, reg, built, tag, has, late, asked, began>>
           /\ running' \in [Hosts -> [content : Refs, version : Refs]]
           /\ \A h \in Hosts \ {Host(op[a])} : running'[h] = running[h]
           /\ \/ /\ running'[Host(op[a])].content = Content(Host(op[a]), op[a].ref)
                 /\ \/ op[a].at = Len(HostList) /\ Ends(a, "ok")
                    \/ /\ op[a].at # Len(HostList) /\ UNCHANGED lock
                       /\ Goes(a, [op[a] EXCEPT !.pc = "host", !.at = @ + 1])
              \/ running'[Host(op[a])].content = None /\ Ends(a, "failed")
<1>t. TypeOK /\ op[a] \in Op /\ Suits(a) /\ Host(op[a]) \in Hosts
  BY BeforeIs DEF Before
<1>1. op[a].pc = "run" /\ op[a].rolling
  BY <1>t DEF RunContainer, At, Suits, In
<1> DEFINE h == Host(op[a])
           new == [content |-> Content(h, op[a].ref), version |-> op[a].ref]
<1>2. new \in [content : Refs, version : Refs]
  BY <1>t DEF Content, TypeOK, Op
<1>3. [new EXCEPT !.content = None] \in [content : Refs, version : Refs]
  BY <1>2, RefsAre
<1>4. running \in [Hosts -> [content : Refs, version : Refs]]
  BY <1>t DEF TypeOK
<1>5. \/ /\ running' = [running EXCEPT ![h] = new]
         /\ \/ op[a].at = Len(HostList) /\ Ends(a, "ok")
            \/ /\ op[a].at # Len(HostList) /\ UNCHANGED lock
               /\ Goes(a, [op[a] EXCEPT !.pc = "host", !.at = @ + 1])
      \/ running' = [running EXCEPT ![h] = [new EXCEPT !.content = None]] /\ Ends(a, "failed")
  BY DEF RunContainer
<1>6. UNCHANGED <<conf, newest, reg, built, tag, has, late, asked, began>>
  BY DEF RunContainer
<1>7. new.content = Content(h, op[a].ref) /\ [new EXCEPT !.content = None].content = None
  OBVIOUS
<1> HIDE DEF new, h
<1>h. h \in Hosts
  BY <1>t DEF h
<1>8. /\ running' \in [Hosts -> [content : Refs, version : Refs]]
      /\ \A g \in Hosts \ {h} : running'[g] = running[g]
      /\ running'[h] = new \/ running'[h] = [new EXCEPT !.content = None]
  BY <1>2, <1>3, <1>4, <1>5, <1>h
<1>9. CASE /\ running' = [running EXCEPT ![h] = new]
           /\ \/ op[a].at = Len(HostList) /\ Ends(a, "ok")
              \/ /\ op[a].at # Len(HostList) /\ UNCHANGED lock
                 /\ Goes(a, [op[a] EXCEPT !.pc = "host", !.at = @ + 1])
  <2>1. running'[h].content = Content(h, op[a].ref)
    BY <1>4, <1>7, <1>9, <1>h
  <2> QED
    BY <1>1, <1>6, <1>8, <1>9, <2>1 DEF h
<1>10. CASE running' = [running EXCEPT ![h] = [new EXCEPT !.content = None]] /\ Ends(a, "failed")
  <2>1. running'[h].content = None
    BY <1>4, <1>7, <1>10, <1>h
  <2> QED
    BY <1>1, <1>6, <1>8, <1>10, <2>1 DEF h
<1> QED
  BY <1>5, <1>9, <1>10

LEMMA RunDoes ==
    ASSUME Inv, NEW a \in Actors, RunContainer(a)
    PROVE  Does(a)
<1>t. /\ Before(a) /\ op[a] \in Op /\ TypeOK /\ Suits(a) /\ Digest(a) /\ Done(a) /\ Built(a)
      /\ Known(a) /\ LateKnown /\ Host(op[a]) \in Hosts
  BY BeforeIs DEF Before
<1>1. /\ op[a].pc = "run" /\ op[a].rolling
      /\ UNCHANGED <<conf, newest, reg, built, tag, has, late, asked, began>>
      /\ running' \in [Hosts -> [content : Refs, version : Refs]]
      /\ \A h \in Hosts \ {Host(op[a])} : running'[h] = running[h]
      /\ \/ /\ running'[Host(op[a])].content = Content(Host(op[a]), op[a].ref)
            /\ \/ op[a].at = Len(HostList) /\ Ends(a, "ok")
               \/ /\ op[a].at # Len(HostList) /\ UNCHANGED lock
                  /\ Goes(a, [op[a] EXCEPT !.pc = "host", !.at = @ + 1])
         \/ running'[Host(op[a])].content = None /\ Ends(a, "failed")
  BY RunIs
<1>2. ASSUME lock' = lock \/ lock = a, lock' \in Actors \cup {"free"}
      PROVE  Drift(a) /\ LateKnown' /\ Types'
  BY <1>t, <1>1, <1>2 DEF Drift, LateKnown, Types, TypeOK
<1>3. CASE Ends(a, "ok") \/ Ends(a, "failed")
  <2>1. /\ op' \in [Actors -> Op] /\ \A b \in Actors \ {a} : op'[b] = op[b]
        /\ Track(a)' /\ (lock' = lock \/ lock = a) /\ lock' \in Actors \cup {"free"}
    BY <1>3, EndsTrack
  <2> QED
    BY <1>2, <2>1 DEF Does
<1>4. CASE /\ running'[Host(op[a])].content = Content(Host(op[a]), op[a].ref)
           /\ op[a].at # Len(HostList) /\ UNCHANGED lock
           /\ Goes(a, [op[a] EXCEPT !.pc = "host", !.at = @ + 1])
  <2> DEFINE n == [op[a] EXCEPT !.pc = "host", !.at = @ + 1]
  <2>1. op[a].at + 1 \in 1..Len(HostList) /\ op[a].at \in 1..Len(HostList) /\ "host" \in PCs
    BY <1>t, <1>4, HostsAre DEF Op, PCs
  <2>2. n \in Op
    BY <1>t, <2>1 DEF Op
  <2>3. n.rolling = op[a].rolling /\ n.clean = op[a].clean
    BY <1>t DEF Op
  <2>4. /\ n.pc = "host" /\ n.kind = op[a].kind /\ n.made = op[a].made /\ n.held = op[a].held
        /\ n.result = op[a].result /\ n.ref = op[a].ref /\ n.at = op[a].at + 1
    BY <1>t DEF Op
  <2> HIDE DEF n
  <2>5. op' \in [Actors -> Op] /\ op'[a] = n /\ \A b \in Actors \ {a} : op'[b] = op[b]
    BY <1>t, <1>4, <2>2, GoesTurn DEF n
  <2>6. /\ op'[a].rolling /\ op'[a].pc = "host" /\ op'[a].kind = op[a].kind
        /\ op'[a].made = op[a].made /\ op'[a].held = op[a].held /\ op'[a].clean = op[a].clean
        /\ op'[a].result = op[a].result /\ op'[a].ref = op[a].ref
        /\ op'[a].at = op[a].at + 1
    BY <1>1, <2>3, <2>4, <2>5
  <2>7. Suits(a)' /\ Digest(a)' /\ Known(a)'
    BY <1>t, <1>1, <1>4, <2>6 DEF Suits, Digest, Known, In
  <2>8. ASSUME NEW c, Content(Host(op[a]), op[a].ref) = c,
               \A i \in 1..(op[a].at - 1) : running[HostList[i]].content = c
        PROVE  \A i \in 1..(op'[a].at - 1) : running'[HostList[i]].content = c
    <3> SUFFICES ASSUME NEW i \in 1..op[a].at
                 PROVE  running'[HostList[i]].content = c
      BY <2>1, <2>6
    <3>1. i \in 1..Len(HostList) /\ HostList[i] \in Hosts
      BY <2>1, HostsAre
    <3>2. CASE HostList[i] = Host(op[a])
      BY <1>4, <2>8, <3>2
    <3>3. CASE HostList[i] # Host(op[a])
      <4>1. i # op[a].at
        BY <3>3 DEF Host
      <4>2. i \in 1..(op[a].at - 1)
        BY <2>1, <4>1
      <4> QED
        BY <1>1, <2>8, <3>1, <3>3, <4>2
    <3> QED
      BY <3>2, <3>3
  <2>9. Done(a)'
    <3> SUFFICES ASSUME conf.source = "registry"
                 PROVE  \A i \in 1..(op'[a].at - 1) : running'[HostList[i]].content = op[a].ref
      BY <1>1, <2>6 DEF Done
    <3>1. Content(Host(op[a]), op[a].ref) = op[a].ref
      BY <1>t, <1>1 DEF Digest, Content, Pinned
    <3>2. \A i \in 1..(op[a].at - 1) : running[HostList[i]].content = op[a].ref
      BY <1>t, <1>1 DEF Done
    <3> QED
      BY <2>8, <3>1, <3>2
  <2>10. Built(a)'
    <3>1. ASSUME op[a].made # None, op[a].clean, op[a].kind = "deploy", conf.policy = "always"
          PROVE  \A i \in 1..(op'[a].at - 1) : running'[HostList[i]].content = op[a].made
      <4>1. conf.source # "registry" /\ op[a].ref = None
        BY <1>t, <3>1 DEF Suits, Built
      <4>2. Content(Host(op[a]), op[a].ref) = op[a].made
        BY <1>t, <1>1, <3>1, <4>1 DEF Built, In, Content, Pinned
      <4>3. \A i \in 1..(op[a].at - 1) : running[HostList[i]].content = op[a].made
        BY <1>t, <3>1 DEF Built
      <4> QED
        BY <2>8, <4>2, <4>3
    <3> QED
      BY <1>t, <1>1, <2>6, <3>1 DEF Built, In
  <2> QED
    BY <1>2, <1>4, <1>t, <2>5, <2>7, <2>9, <2>10 DEF Does, Track, TypeOK
<1> QED
  BY <1>1, <1>3, <1>4

Step(a) ==
    \/ Begin(a) \/ ResolveImage(a) \/ Verify(a) \/ CheckPresent(a) \/ Pull(a)
    \/ ImageDigest(a) \/ FindDrift(a) \/ AcquireLock(a)
    \/ LocalBuild(a) \/ RemoteBuild(a) \/ LocalBuildxPush(a) \/ RemoteBuildxPush(a)
    \/ LocalPush(a) \/ RemotePush(a) \/ DeployHost(a) \/ BuildOnHost(a)
    \/ RunContainer(a) \/ Fails(a)

LEMMA StepDoes ==
    ASSUME Inv, NEW a \in Actors, Step(a)
    PROVE  Does(a)
BY BeginDoes, ResolveDoes, VerifyDoes, CheckDoes, PullDoes, DigestDoes, FindDriftDoes,
   AcquireDoes, BuildDoes, PushDoes, HostDoes, OnHostDoes, RunDoes, FailsDoes DEF Step
-----------------------------------------------------------------------------
(* Commits, loads and what comes late *)

Outside == Commit \/ (\E h \in Hosts : Load(h)) \/ (\E t \in late : LateArrives(t))

LEMMA ArrivesIs ==
    ASSUME TypeOK, NEW h \in Hosts, NEW ref, NEW c \in Revisions, Arrives(h, ref, c)
    PROVE  /\ tag' \in [Hosts -> Refs] /\ has' \in [Hosts -> SUBSET Revisions]
           /\ \A g \in Hosts : tag[g] # None => tag'[g] # None
           /\ \A g \in Hosts : tag'[g] = tag[g] \/ (g = h /\ ref = None /\ tag'[g] = c)
BY RefsAre DEF Arrives, TypeOK, Pinned

\* What comes from outside: what is late arrives, whoever waits.
LEMMA OutsideIs ==
    ASSUME Inv, Outside
    PROVE  /\ UNCHANGED <<conf, running, lock, op, asked, began>> /\ late' \subseteq late
           /\ newest' \in Revisions /\ reg' \in Refs /\ built' \in Refs
           /\ tag' \in [Hosts -> Refs] /\ has' \in [Hosts -> SUBSET Revisions]
           /\ \A h \in Hosts : tag[h] # None => tag'[h] # None
           /\ conf.source = "registry" => tag'[First] = tag[First] \/ tag'[First] \in asked
           /\ HasBuilder =>
                /\ reg' = reg \/ \E t \in late : reg' = t.content
                /\ built' = built \/ \E t \in late : built' = t.content
                /\ \A h \in Hosts : tag'[h] = tag[h] \/ \E t \in late : tag'[h] = t.content
<1>t. TypeOK /\ LateKnown
  BY DEF Inv
<1>1. CASE Commit
  <2>1. newest + 1 \in Revisions /\ newest + 1 \in Refs
    BY <1>t, <1>1, ImageAssumption DEF Commit, TypeOK, Revisions, Refs
  <2> QED
    BY <1>t, <1>1, <2>1 DEF Commit, TypeOK, HasBuilder
<1>2. ASSUME NEW h \in Hosts, Load(h)
      PROVE  /\ UNCHANGED <<conf, newest, reg, built, late, running, lock, op, asked, began>>
             /\ conf.source = "local"
             /\ tag' \in [Hosts -> Refs] /\ has' \in [Hosts -> SUBSET Revisions]
             /\ \A g \in Hosts : tag[g] # None => tag'[g] # None
  <2>1. newest \in Revisions
    BY <1>t DEF TypeOK
  <2>2. Arrives(h, None, newest)
    BY <1>2 DEF Load
  <2> QED
    BY <1>t, <1>2, <2>1, <2>2, ArrivesIs DEF Load
<1>3. CASE \E h \in Hosts : Load(h)
  BY <1>t, <1>2, <1>3 DEF TypeOK, HasBuilder
<1>4. CASE \E t \in late : LateArrives(t)
  <2>1. PICK t \in late : LateArrives(t)
    BY <1>4
  <2>2. t.host \in Hosts \cup {"builder", "registry"} /\ t.ref \in Refs /\ t.content \in Revisions
    BY <1>t DEF TypeOK
  <2>3. /\ UNCHANGED <<conf, newest, running, lock, op, asked, began>> /\ late' \subseteq late
    BY <2>1 DEF LateArrives
  <2>4. \/ t.host = "registry" /\ reg' = t.content /\ UNCHANGED <<tag, has, built>>
        \/ t.host = "builder" /\ built' = t.content /\ UNCHANGED <<tag, has, reg>>
        \/ t.host \in Hosts /\ Arrives(t.host, t.ref, t.content) /\ UNCHANGED <<reg, built>>
    BY <2>1, <2>2, ImageAssumption DEF LateArrives
  <2>5. CASE t.host = "registry" /\ reg' = t.content /\ UNCHANGED <<tag, has, built>>
    BY <1>t, <2>2, <2>3, <2>5, RefsAre DEF TypeOK
  <2>6. CASE t.host = "builder" /\ built' = t.content /\ UNCHANGED <<tag, has, reg>>
    BY <1>t, <2>2, <2>3, <2>6, RefsAre DEF TypeOK
  <2>7. CASE t.host \in Hosts /\ Arrives(t.host, t.ref, t.content) /\ UNCHANGED <<reg, built>>
    <3>1. /\ tag' \in [Hosts -> Refs] /\ has' \in [Hosts -> SUBSET Revisions]
          /\ \A g \in Hosts : tag[g] # None => tag'[g] # None
          /\ \A g \in Hosts :
               tag'[g] = tag[g] \/ (g = t.host /\ t.ref = None /\ tag'[g] = t.content)
      BY <1>t, <2>2, <2>7, ArrivesIs
    <3>2. conf.source = "registry" => tag'[First] = tag[First] \/ tag'[First] \in asked
      BY <1>t, <3>1, HostsAre DEF LateKnown
    <3> QED
      BY <1>t, <2>3, <2>7, <3>1, <3>2 DEF TypeOK
  <2> QED
    BY <2>4, <2>5, <2>6, <2>7
<1> QED
  BY <1>1, <1>3, <1>4 DEF Outside

LEMMA OutsideTrack ==
    ASSUME Inv, Outside, NEW a \in Actors
    PROVE  Track(a)'
<1>t. /\ Before(a) /\ op[a] \in Op /\ Suits(a) /\ Digest(a) /\ Done(a) /\ Built(a)
      /\ Known(a) /\ Host(op[a]) \in Hosts
  BY BeforeIs DEF Before
<1>1. /\ UNCHANGED <<conf, running, lock, op, asked>> /\ late' \subseteq late
      /\ \A h \in Hosts : tag[h] # None => tag'[h] # None
      /\ conf.source = "registry" => tag'[First] = tag[First] \/ tag'[First] \in asked
      /\ HasBuilder =>
           /\ reg' = reg \/ \E t \in late : reg' = t.content
           /\ built' = built \/ \E t \in late : built' = t.content
           /\ \A h \in Hosts : tag'[h] = tag[h] \/ \E t \in late : tag'[h] = t.content
  BY OutsideIs
<1>2. Suits(a)' /\ Digest(a)' /\ Done(a)' /\ Known(a)'
  BY <1>t, <1>1, HostsAre DEF Suits, Digest, Done, Known, In
<1>3. Built(a)'
  <2>1. op[a].made # None => HasBuilder
    BY <1>t DEF Built, HasBuilder
  <2>2. Host(op[a])' = Host(op[a])
    BY <1>1 DEF Host
  <2> QED
    BY <1>t, <1>1, <2>1, <2>2 DEF Built, In
<1> QED
  BY <1>2, <1>3 DEF Track
-----------------------------------------------------------------------------
(* The invariant *)

LEMMA InitInv == Init => Inv
<1> SUFFICES ASSUME Init PROVE Inv
  OBVIOUS
<1>1. \A a \in Actors : op[a] = Idle
  BY DEF Init
<1>2. 1 \in Revisions /\ 1 \in Refs /\ None \in Refs /\ 0 \in 0..MaxOps
  BY RefsAre, ImageAssumption
<1>3. TypeOK
  <2>1. conf \in Configs /\ newest = 1 /\ built = None /\ late = {} /\ lock = "free"
        /\ op \in [Actors -> Op] /\ asked = {} /\ began = 0
    BY IdleIs DEF Init
  <2>2. /\ reg \in Refs /\ tag \in [Hosts -> Refs] /\ has \in [Hosts -> SUBSET Revisions]
        /\ running \in [Hosts -> [content : Refs, version : Refs]]
    BY <1>2 DEF Init
  <2> QED
    BY <1>2, <2>1, <2>2 DEF TypeOK
<1>4. LateKnown
  BY DEF Init, LateKnown
<1>5. ASSUME NEW a \in Actors
      PROVE  Suits(a) /\ Digest(a) /\ Done(a) /\ Built(a) /\ Known(a)
  BY <1>1, IdleIs DEF Suits, Digest, Done, Built, Known, In
<1> QED
  BY <1>3, <1>4, <1>5 DEF Inv

LEMMA NextIs ==
    ASSUME Next
    PROVE  (\E a \in Actors : Step(a)) \/ Outside
BY DEF Next, Step, Outside

LEMMA NextInv == Inv /\ [Next]_vars => Inv'
<1> SUFFICES ASSUME Inv, [Next]_vars PROVE Inv'
  OBVIOUS
<1>c. conf \in Configs
  BY DEF Inv, TypeOK
<1>1. ASSUME NEW a \in Actors, Step(a) PROVE Inv'
  <2>1. Does(a)
    BY <1>1, StepDoes
  <2>2. \A b \in Actors \ {a} : Track(b)'
    BY <2>1, OthersTrack DEF Does
  <2>3. TypeOK'
    BY <1>c, <2>1 DEF Does, Types, Drift, TypeOK
  <2> QED
    BY <2>1, <2>2, <2>3 DEF Inv, Does, Track
<1>2. CASE Outside
  <2>1. \A a \in Actors : Track(a)'
    BY <1>2, OutsideTrack
  <2>2. TypeOK' /\ LateKnown'
    BY <1>2, OutsideIs DEF Inv, TypeOK, LateKnown
  <2> QED
    BY <2>1, <2>2 DEF Inv, Track
<1>3. CASE UNCHANGED vars
  <2>1. UNCHANGED <<conf, newest, reg, built, tag, has, late, running, lock, op, asked, began>>
    BY <1>3 DEF vars
  <2>2. TypeOK' /\ LateKnown'
    BY <2>1 DEF Inv, TypeOK, LateKnown
  <2>3. ASSUME NEW a \in Actors PROVE Track(a)'
    BY <2>1 DEF Inv, Track, Suits, Digest, Done, Built, Known, In, Host
  <2> QED
    BY <2>2, <2>3 DEF Inv, Track
<1> QED
  BY <1>1, <1>2, <1>3, NextIs

\* The strengthening holds in every reachable state.
LEMMA ImageInvariant == Spec => []Inv
<1>1. Init => Inv
  BY InitInv
<1>2. Inv /\ [Next]_vars => Inv'
  BY NextInv
<1> QED
  BY <1>1, <1>2, PTL DEF Spec
-----------------------------------------------------------------------------
(* The theorems *)

\* Every variable keeps its type, however transfers fail and come late.
THEOREM ImageTypeOK == Spec => []TypeOK
<1>1. Inv => TypeOK
  BY DEF Inv
<1> QED
  BY <1>1, ImageInvariant, PTL

\* The step with which a deploy succeeds starts the last host's container.
LEMMA SucceedsRuns ==
    ASSUME Inv, Next, NEW a \in Actors, Succeeds(a)
    PROVE  /\ RunContainer(a) /\ op[a].at = Len(HostList)
           /\ running'[Host(op[a])].content = Content(Host(op[a]), op[a].ref)
<1>t. /\ Before(a) /\ op[a] \in Op /\ TypeOK /\ Suits(a)
  BY BeforeIs DEF Before
<1>1. op[a].pc = "run" /\ op'[a].result = "ok" /\ op[a].result = "none"
  BY <1>t DEF Succeeds, At, Suits, In
<1>2. Step(a)
  <2>1. CASE Outside
    BY <1>1, <2>1, OutsideIs
  <2>2. ASSUME NEW b \in Actors, Step(b) PROVE Step(a)
    <3>1. b = a
      BY <1>1, <2>2, StepDoes DEF Does
    <3> QED
      BY <2>2, <3>1
  <2> QED
    BY <2>1, <2>2, NextIs
<1>3. RunContainer(a) \/ Fails(a)
  BY <1>1, <1>2 DEF Step, Begin, ResolveImage, Verify, CheckPresent, Pull, ImageDigest, FindDrift,
     AcquireLock, LocalBuild, RemoteBuild, LocalBuildxPush, RemoteBuildxPush, LocalPush,
     RemotePush, DeployHost, BuildOnHost, At
<1>4. ~Ends(a, "failed")
  BY <1>1, EndsTrack
<1>5. RunContainer(a)
  BY <1>3, <1>4 DEF Fails
<1>6. /\ running'[Host(op[a])].content = Content(Host(op[a]), op[a].ref)
      /\ \/ op[a].at = Len(HostList) /\ Ends(a, "ok")
         \/ Goes(a, [op[a] EXCEPT !.pc = "host", !.at = @ + 1])
  BY <1>4, <1>5, RunIs
<1>7. ~Goes(a, [op[a] EXCEPT !.pc = "host", !.at = @ + 1])
  BY <1>t, <1>1 DEF Goes, TypeOK, Op
<1> QED
  BY <1>5, <1>6, <1>7

\* When it has, each host runs what those before the last one run.
LEMMA AllRun ==
    ASSUME Inv, Next, NEW a \in Actors, Succeeds(a), NEW c,
           Content(Host(op[a]), op[a].ref) = c,
           \A i \in 1..(op[a].at - 1) : running[HostList[i]].content = c,
           NEW h \in Hosts
    PROVE  running'[h].content = c
<1>1. /\ RunContainer(a) /\ op[a].at = Len(HostList)
      /\ running'[Host(op[a])].content = c
  BY SucceedsRuns
<1>2. \A g \in Hosts \ {Host(op[a])} : running'[g] = running[g]
  BY <1>1, RunIs
<1>3. PICK i \in 1..Len(HostList) : h = HostList[i]
  BY HostsAre
<1>4. CASE i = op[a].at
  BY <1>1, <1>3, <1>4 DEF Host
<1>5. CASE i # op[a].at
  <2>1. i \in 1..(op[a].at - 1)
    BY <1>1, <1>3, <1>5, HostsAre
  <2> QED
    BY <1>1, <1>2, <1>3, <2>1
<1> QED
  BY <1>4, <1>5

\* Without a builder, a deploy that succeeds has every host on the one content
\* its digest names (resolveImage), whatever moves the tag meanwhile.
THEOREM ImageOneContent == Spec => OneContent
<1>1. Inv /\ [Next]_vars =>
        [\A a \in Actors :
           Succeeds(a) /\ conf.source = "registry" =>
             \A h \in Hosts : running'[h].content = op[a].ref]_vars
  <2> SUFFICES ASSUME Inv, Next, NEW a \in Actors, Succeeds(a), conf.source = "registry",
                      NEW h \in Hosts
               PROVE  running'[h].content = op[a].ref
    OBVIOUS
  <2>t. Suits(a) /\ Digest(a) /\ Done(a) /\ op[a].pc = "run"
    BY BeforeIs DEF Before, Succeeds, At
  <2>1. op[a].rolling /\ op[a].ref # None
    BY <2>t DEF Suits, Digest, In
  <2>2. Content(Host(op[a]), op[a].ref) = op[a].ref
    BY <2>1 DEF Content, Pinned
  <2>3. \A i \in 1..(op[a].at - 1) : running[HostList[i]].content = op[a].ref
    BY <2>t, <2>1 DEF Done
  <2> QED
    BY <2>2, <2>3, AllRun
<1> QED
  BY <1>1, ImageInvariant, PTL DEF Spec, OneContent

\* With pull_policy: always, every host of a deploy that succeeds runs what it
\* built (prepareImage), unless a transfer of an earlier one went on when it did:
\* no retry of its own brings back another image.
THEOREM ImageRunsWhatWasBuilt == Spec => RunsWhatWasBuilt
<1>1. Inv /\ [Next]_vars =>
        [\A a \in Actors :
           Succeeds(a) /\ op[a].clean /\ op[a].kind = "deploy" /\ op[a].made # None
             /\ conf.policy = "always" =>
               \A h \in Hosts : running'[h].content = op[a].made]_vars
  <2> SUFFICES ASSUME Inv, Next, NEW a \in Actors, Succeeds(a), op[a].clean,
                      op[a].kind = "deploy", op[a].made # None, conf.policy = "always",
                      NEW h \in Hosts
               PROVE  running'[h].content = op[a].made
    OBVIOUS
  <2>t. Suits(a) /\ Built(a) /\ op[a].pc = "run"
    BY BeforeIs DEF Before, Succeeds, At
  <2>1. op[a].ref = None
    BY <2>t DEF Suits, Built
  <2>2. Content(Host(op[a]), op[a].ref) = op[a].made
    BY <2>t, <2>1 DEF Built, In, Content, Pinned
  <2>3. \A i \in 1..(op[a].at - 1) : running[HostList[i]].content = op[a].made
    BY <2>t DEF Built
  <2> QED
    BY <2>2, <2>3, AllRun
<1> QED
  BY <1>1, ImageInvariant, PTL DEF Spec, RunsWhatWasBuilt

\* An unattended reconcile starts nothing that no deploy brought here, where
\* the first host had an image when it began: it asks the host first (pullImage).
THEOREM ImageReconcileNeverUpgrades == Spec => ReconcileNeverUpgrades
<1>1. Inv /\ [Next]_vars =>
        [\A a \in Actors, h \in Hosts :
           op[a].kind = "reconcile" /\ op[a].held # None /\ conf.source = "registry"
             /\ At(a, "run") /\ running'[h] # running[h] =>
               running'[h].content \in asked \cup {None, op[a].held}]_vars
  <2> SUFFICES ASSUME Inv, Next, NEW a \in Actors, NEW h \in Hosts, op[a].kind = "reconcile",
                      op[a].held # None, conf.source = "registry", op[a].pc = "run",
                      running'[h] # running[h]
               PROVE  running'[h].content \in asked \cup {None, op[a].held}
    BY DEF At
  <2>t. Suits(a) /\ Digest(a) /\ Known(a)
    BY BeforeIs DEF Before
  <2>1. op[a].rolling /\ op[a].ref # None /\ lock = a
    BY <2>t DEF Suits, Digest, In
  <2>2. PICK b \in Actors : Step(b) /\ op[b].rolling
    <3>1. ~Outside
      BY OutsideIs
    <3>2. PICK b \in Actors : Step(b)
      BY <3>1, NextIs
    <3> QED
      BY <3>2, StepDoes DEF Does, Drift
  <2>3. b = a
    BY <2>1, <2>2, BeforeIs DEF Before, Suits
  <2>4. RunContainer(a)
    <3>1. RunContainer(a) \/ Fails(a)
      BY <2>2, <2>3 DEF Step, Begin, ResolveImage, Verify, CheckPresent, Pull, ImageDigest,
         FindDrift, AcquireLock, LocalBuild, RemoteBuild, LocalBuildxPush, RemoteBuildxPush,
         LocalPush, RemotePush, DeployHost, BuildOnHost, At
    <3> QED
      BY <3>1 DEF Fails
  <2>5. h = Host(op[a]) /\ running'[h].content \in {None, Content(h, op[a].ref)}
    BY <2>4, RunIs
  <2>6. Content(h, op[a].ref) = op[a].ref
    BY <2>1 DEF Content, Pinned
  <2>7. op[a].ref \in asked \cup {None, op[a].held}
    BY <2>t DEF Known
  <2> QED
    BY <2>5, <2>6, <2>7
<1> QED
  BY <1>1, ImageInvariant, PTL DEF Spec, ReconcileNeverUpgrades
=============================================================================
