--------------------------- MODULE CertRenewalProofs ---------------------------
(***************************************************************************)
(* Proofs about certificates and the proxy that serves them, for any apps, *)
(* names, commands, actors and faults.                                     *)
(***************************************************************************)
EXTENDS CertRenewal, LeastNumber, TLAPS

In(a, pcs) == op[a].pc \in pcs

\* What an actor at a step is about.
Suits(a) ==
    /\ In(a, {"list"}) => op[a].kind = "renew_all" /\ op[a].listed = {}
    /\ In(a, {"info", "readback", "find"}) => op[a].kind \in Renewals
    /\ In(a, {"push", "lego", "order", "perms", "clean"}) => op[a].kind \in Renewals \cup {"issue"}
    /\ In(a, {"register"}) => op[a].kind \in Renewals \cup {"start"}
    /\ In(a, {"unlink"}) => op[a].kind = "remove"
    /\ In(a, {"look", "up", "ensure"}) => op[a].kind = "start"
    /\ In(a, {"down"}) => op[a].kind = "stop"
    /\ In(a, {"pull"}) => op[a].kind \in {"boot", "upgrade"}
    /\ In(a, {"rm"}) => op[a].kind \in {"upgrade", "proxy_remove", "purge"}
    /\ In(a, {"boot"}) => op[a].kind \in {"boot", "upgrade"}
    /\ In(a, {"stopproxy"}) => op[a].kind \in {"proxy_stop", "proxy_restart"}
    /\ In(a, {"startproxy"}) => op[a].kind \in {"proxy_start", "proxy_restart"}
    /\ In(a, {"purge"}) => op[a].kind = "purge"

\* A certificate that need not be renewed.
Settled(h) == ~Has(h) \/ ~store[h].due

Working == {"info", "push", "lego", "order", "perms", "clean", "readback"}

\* Each certificate of the list is still to do, failed, settled or in work,
\* and the one in work is settled once lego has seen to it.
Attended(a) ==
    /\ In(a, {"perms", "readback"}) \/ (In(a, {"clean"}) /\ ~op[a].err) => Settled(op[a].host)
    /\ op[a].kind = "renew_all" /\ In(a, {"find", "register"}) => op[a].todo = {}
    /\ op[a].kind = "renew_all" =>
         \A h \in op[a].listed : \/ h \in op[a].todo \cup op[a].failed
                                 \/ Settled(h)
                                 \/ In(a, Working) /\ op[a].host = h

\* What lego wrote is known to have failed or to be new, or is about to be
\* compared with an older one.
Accounted(a) ==
    /\ In(a, {"push", "lego", "order"}) => op[a].prev <= issued
    /\ op[a].kind \in Renewals =>
         \A c \in op[a].wrote :
           \/ c[1] \in op[a].failed \cup op[a].renewed
           \/ In(a, {"perms", "clean", "readback"}) /\ c[1] = op[a].host /\ op[a].prev < c[2]
    /\ In(a, {"find", "register"}) /\ op[a].kind \in Renewals /\ ~op[a].err =>
         op[a].failed = {} /\ op[a].renewed \subseteq {Primary[op[a].app]}

\* What a run wrote under a name is there no more, or there is that or newer.
Newest(a) ==
    \A c \in op[a].wrote :
      c[2] <= issued /\ (Has(c[1]) => store[c[1]].gen >= c[2])

\* An order for names, of a run that found f: they are the names of f, if that
\* is the certificate still.
Asked(h, names, f) == f <= issued /\ (store[h].gen = f => store[h].names \subseteq names)

\* The names asked for are those of the certificate that is due.
Asks(a) ==
    op[a].kind = "renew_all" =>
      /\ In(a, {"push", "lego"}) /\ ~Settled(op[a].host) =>
           store[op[a].host].names \subseteq op[a].names
      /\ In(a, {"order"}) => Asked(op[a].host, op[a].names, op[a].found)

Orders == \A w \in late : w.kind = "renew_all" => Asked(w.host, w.names, w.found)

\* The new build is there, and so is no container made from an older one that
\* docker did remove.
Upgrading(a) ==
    op[a].kind = "upgrade" =>
      /\ In(a, {"rm", "boot"}) => local = Build
      /\ In(a, {"boot"}) /\ proxy # "absent" => image = Build \/ op[a].stuck

\* The certificates of the volume were written one after the other.
Volume ==
    \A h \in Domains : store[h].gen <= issued /\ (~Has(h) => store[h].names = {})

Holding == {"lego", "order", "perms", "clean"}

\* Which credential files are there: each in its own name.
Files(a) ==
    /\ In(a, {"list"}) => \A h \in Domains : <<op[a].id, h>> \notin cut
    /\ In(a, Working) => /\ op[a].host \notin op[a].todo
                         /\ \A h \in op[a].todo : <<op[a].id, h>> \notin cut
    /\ In(a, Working \ {"readback"}) => Nonce(op[a]) \notin cut
    /\ In(a, Holding) /\ op[a].env => Nonce(op[a]) \in creds

Numbered ==
    /\ \A a \in Actors : op[a].id <= began /\ (op[a].pc # "idle" => op[a].id # 0)
    /\ \A a, b \in Actors : a # b /\ op[a].id = op[b].id => op[a].id = 0
    /\ \A n \in creds : n[1] <= began

Inv == /\ TypeOK /\ Volume /\ Orders /\ Numbered /\ NoStrayCredentials
       /\ \A a \in Actors :
            /\ Suits(a) /\ Attended(a) /\ Accounted(a) /\ Newest(a) /\ Asks(a)
            /\ Upgrading(a) /\ Files(a)

-----------------------------------------------------------------------------
(* What a step does to its command *)

\* All but where it is and whether something went wrong.
Kin(n, o) ==
    /\ n.kind = o.kind /\ n.app = o.app /\ n.id = o.id /\ n.env = o.env
    /\ n.host = o.host /\ n.listed = o.listed /\ n.todo = o.todo /\ n.prev = o.prev
    /\ n.names = o.names /\ n.failed = o.failed /\ n.renewed = o.renewed
    /\ n.wrote = o.wrote /\ n.found = o.found /\ n.stuck = o.stuck

\* It is over.
Stops(n, o, results) ==
    /\ n.pc = "idle" /\ n.kind = "none" /\ n.id = 0 /\ n.wrote = {}
    /\ n.listed = {} /\ n.todo = {}
    /\ n.failed = o.failed /\ n.result \in results

\* It goes on with the next certificate.
Takes(n, o) ==
    /\ n.kind = o.kind /\ n.app = o.app /\ n.id = o.id /\ n.env = o.env
    /\ n.listed = o.listed /\ n.failed = o.failed /\ n.renewed = o.renewed /\ n.wrote = o.wrote
    /\ n.pc = "info" /\ n.host \in o.todo /\ n.todo = o.todo \ {n.host}

\* It has its own certificate to serve, and whatever else to report.
Serves(n, o) ==
    /\ Kin(n, o) /\ n.pc = "find" /\ o.todo = {}
    /\ ~n.err => o.failed = {} /\ o.renewed \subseteq {Primary[o.app]}

\* There is no certificate left to renew.
Moves(n, o) ==
    \/ Takes(n, o)
    \/ Serves(n, o)
    \/ /\ o.todo = {} /\ Stops(n, o, {"ok", "failed"})
       /\ n.result = "ok" => o.failed = {} /\ o.renewed = {}

LEMMA DomainsAre == Domains \subseteq Nat /\ Domains # {} /\ Apps # {}
<1>1. PICK b \in Apps : TRUE
  BY CertAssumption, ProxyAssumption
<1> QED
  BY <1>1, ProxyAssumption

LEMMA IdleIs ==
    /\ Idle \in Op
    /\ Idle.kind = "none" /\ Idle.pc = "idle" /\ Idle.id = 0 /\ Idle.wrote = {}
    /\ Idle.listed = {} /\ Idle.todo = {} /\ Idle.prev = 0 /\ Idle.result = "none"
    /\ Idle.failed = {} /\ Idle.renewed = {} /\ Idle.names = {}
    /\ Idle.err = FALSE /\ Idle.env = FALSE
<1>1. (CHOOSE b \in Apps : TRUE) \in Apps /\ (CHOOSE h \in Domains : TRUE) \in Domains
  BY DomainsAre
<1>2. 0 \in 0..MaxOps
  BY CertAssumption
<1>3. Idle \in Op
  BY <1>1, <1>2 DEF Idle, Op, PCs
<1> QED
  BY <1>3 DEF Idle

LEMMA FirstIs ==
    ASSUME NEW s \in SUBSET Domains, s # {}
    PROVE  First(s) \in s
<1>1. s \in SUBSET Nat
  BY DomainsAre
<1>2. \E h \in s : \A g \in s : h <= g
  BY <1>1, LeastExists
<1> QED
  BY <1>2 DEF First

LEMMA OverIs ==
    ASSUME NEW o \in Op, NEW r \in {"ok", "failed"}
    PROVE  Over(o, r) \in Op /\ Stops(Over(o, r), o, {r})
<1>1. o.failed \in SUBSET Domains
  BY DEF Op
<1>2. Over(o, r) = [Idle EXCEPT !.failed = o.failed, !.result = r]
  BY DEF Over
<1>3. Over(o, r) \in Op
  <2>1. Idle \in Op
    BY IdleIs
  <2> QED
    BY <1>1, <1>2, <2>1 DEF Op
<1> QED
  BY <1>1, <1>2, <1>3, IdleIs DEF Op, Stops

\* It goes on at l.
LEMMA GoesIs ==
    ASSUME NEW o \in Op, NEW l \in PCs
    PROVE  /\ [o EXCEPT !.pc = l] \in Op /\ Kin([o EXCEPT !.pc = l], o)
           /\ [o EXCEPT !.pc = l].pc = l
           /\ [o EXCEPT !.pc = l].err = o.err
<1>1. [o EXCEPT !.pc = l] \in Op
  BY DEF Op
<1>2. [o EXCEPT !.pc = l].env = o.env /\ [o EXCEPT !.pc = l].err = o.err
  BY DEF Op
<1> QED
  BY <1>1, <1>2 DEF Op, Kin

LEMMA NextHostIs ==
    ASSUME NEW o \in Op
    PROVE  NextHost(o) \in Op /\ Moves(NextHost(o), o)
<1>1. CASE o.todo # {}
  <2> DEFINE h == First(o.todo)
             n == [o EXCEPT !.host = h, !.todo = @ \ {h}, !.pc = "info", !.err = FALSE]
  <2>1. o.todo \in SUBSET Domains /\ h \in o.todo /\ h \in Domains
    BY <1>1, FirstIs DEF Op
  <2>2. NextHost(o) = n
    BY <1>1 DEF NextHost
  <2> HIDE DEF h
  <2>3. n \in Op
    BY <2>1 DEF Op, PCs
  <2>4. n.env = o.env
    BY DEF Op
  <2>5. Takes(n, o)
    BY <2>1, <2>3, <2>4 DEF Op, Takes
  <2> QED
    BY <2>2, <2>3, <2>5 DEF Moves
<1>2. CASE o.todo = {}
  <2> DEFINE own == Primary[o.app]
             errs == o.failed # {} \/ o.renewed \ {own} # {}
             n == [o EXCEPT !.pc = "find", !.err = errs]
             q == [o EXCEPT !.err = errs]
  <2>1. NextHost(o) = IF own \in o.renewed THEN n ELSE Ended(q)
    BY <1>2 DEF NextHost, Serving
  <2>2. errs \in BOOLEAN
    OBVIOUS
  <2> HIDE DEF own, errs
  <2>3. CASE own \in o.renewed
    <3>0. "find" \in PCs
      BY DEF PCs
    <3>1. n \in Op
      BY <2>2, <3>0 DEF Op
    <3>2. n.env = o.env
      BY DEF Op
    <3>3. n.err = errs
      BY DEF Op
    <3>4. Kin(n, o) /\ n.pc = "find"
      BY <3>1, <3>2 DEF Op, Kin
    <3>5. ~n.err => o.failed = {} /\ o.renewed \subseteq {own}
      BY <3>3 DEF errs
    <3> QED
      BY <1>2, <2>1, <2>3, <3>1, <3>4, <3>5 DEF Moves, Serves, own
  <2>4. CASE own \notin o.renewed
    <3>1. q \in Op
      BY <2>2 DEF Op
    <3>2. q.err = errs
      BY DEF Op
    <3>3. q.failed = o.failed
      BY DEF Op
    <3> HIDE DEF q
    <3>4. NextHost(o) = IF errs THEN Over(q, "failed") ELSE Over(q, "ok")
      BY <2>1, <2>4, <3>2 DEF Ended, Ok, Failed
    <3>5. Over(q, "failed") \in Op /\ Stops(Over(q, "failed"), q, {"failed"})
      BY <3>1, OverIs
    <3>6. Over(q, "ok") \in Op /\ Stops(Over(q, "ok"), q, {"ok"})
      BY <3>1, OverIs
    <3>7. ~errs => o.failed = {} /\ o.renewed = {}
      BY <2>4 DEF errs
    <3>8. NextHost(o) \in Op /\ Stops(NextHost(o), o, {"ok", "failed"})
      BY <3>3, <3>4, <3>5, <3>6 DEF Stops
    <3>9. NextHost(o).result = "ok" => ~errs
      BY <3>4, <3>5 DEF Stops
    <3> QED
      BY <1>2, <3>7, <3>8, <3>9 DEF Moves
  <2> QED
    BY <2>3, <2>4
<1> QED
  BY <1>1, <1>2

\* A host that fails is not the end of `renew --all`.
HostFails(n, o) ==
    IF o.kind = "renew_all"
    THEN \E q \in Op : /\ Moves(n, q) /\ q.failed = o.failed \cup {o.host}
                       /\ q.kind = o.kind /\ q.app = o.app /\ q.id = o.id /\ q.env = o.env
                       /\ q.listed = o.listed /\ q.todo = o.todo /\ q.renewed = o.renewed
                       /\ q.wrote = o.wrote /\ q.host = o.host
    ELSE Stops(n, o, {"failed"})

LEMMA HostFailedIs ==
    ASSUME NEW o \in Op
    PROVE  HostFailed(o) \in Op /\ HostFails(HostFailed(o), o)
<1>1. CASE o.kind = "renew_all"
  <2> DEFINE q == [o EXCEPT !.failed = @ \cup {o.host}]
  <2>1. q \in Op
    BY DEF Op
  <2>2. q.env = o.env
    BY DEF Op
  <2>3. /\ q.failed = o.failed \cup {o.host}
        /\ q.kind = o.kind /\ q.app = o.app /\ q.id = o.id
        /\ q.listed = o.listed /\ q.todo = o.todo /\ q.renewed = o.renewed
        /\ q.wrote = o.wrote /\ q.host = o.host
    BY DEF Op
  <2>4. HostFailed(o) = NextHost(q)
    BY <1>1 DEF HostFailed
  <2> HIDE DEF q
  <2>5. NextHost(q) \in Op /\ Moves(NextHost(q), q)
    BY <2>1, NextHostIs
  <2> QED
    BY <1>1, <2>1, <2>2, <2>3, <2>4, <2>5 DEF HostFails
<1>2. CASE o.kind # "renew_all"
  BY <1>2, OverIs DEF HostFailed, HostFails, Failed
<1> QED
  BY <1>1, <1>2
-----------------------------------------------------------------------------
(* What any step may do to the host *)

LEMMA GoesTurn ==
    ASSUME TypeOK, NEW a \in Actors, NEW n \in Op, Goes(a, n)
    PROVE  op' \in [Actors -> Op] /\ op'[a] = n /\ \A b \in Actors \ {a} : op'[b] = op[b]
BY DEF TypeOK, Goes

Gone(h) == store'[h].gen = 0 /\ store'[h].names = {}
New(h) == store'[h].gen = issued' /\ issued' = issued + 1 /\ ~store'[h].due
Stays(h) == /\ store'[h].gen = store[h].gen /\ store'[h].names = store[h].names
            /\ store'[h].due => store[h].due

\* A certificate goes, or a new one comes, which is not due; a container made
\* now is made from the build there is, and that becomes the configured one.
Drift ==
    /\ issued' \in Nat /\ issued' >= issued
    /\ \A h \in Domains : Gone(h) \/ New(h) \/ Stays(h)
    /\ local' \in {local, Build}
    /\ proxy' # "absent" => image' = local' \/ (proxy # "absent" /\ image' = image)

LEMMA QuietDrifts ==
    ASSUME TypeOK, UNCHANGED <<store, issued, proxy, image, local>>
    PROVE  Drift
BY DEF TypeOK, Drift, Stays

LEMMA SettledStays ==
    ASSUME Drift, NEW h \in Domains, Settled(h)
    PROVE  Settled(h)'
BY DEF Drift, Gone, New, Stays, Settled, Has

LEMMA NewestStays ==
    ASSUME TypeOK, Volume, Drift, NEW a \in Actors, Newest(a), op'[a].wrote = op[a].wrote
    PROVE  Newest(a)'
<1> SUFFICES ASSUME NEW c \in op[a].wrote
             PROVE  c[2] <= issued' /\ (store'[c[1]].gen # 0 => store'[c[1]].gen >= c[2])
  BY DEF Newest, Has
<1>1. c \in Domains \X Nat
  BY DEF TypeOK, Op
<1>2. c[1] \in Domains /\ c[2] \in Nat /\ c[2] <= issued /\ (Has(c[1]) => store[c[1]].gen >= c[2])
  BY <1>1 DEF Newest
<1>3. issued \in Nat /\ issued' \in Nat /\ issued' >= issued /\ store[c[1]].gen \in Nat
  BY <1>2 DEF TypeOK, ProxyTypeOK, Cert, Drift
<1>4. Gone(c[1]) \/ New(c[1]) \/ Stays(c[1])
  BY <1>2 DEF Drift
<1> QED
  BY <1>2, <1>3, <1>4 DEF Gone, New, Stays, Has

LEMMA AskedStays ==
    ASSUME TypeOK, Drift, NEW h \in Domains, NEW names \in SUBSET Nat, NEW f \in Nat,
           Asked(h, names, f)
    PROVE  Asked(h, names, f)'
<1>1. issued \in Nat /\ issued' \in Nat /\ issued' >= issued /\ f <= issued
  BY DEF TypeOK, Drift, Asked
<1>2. CASE Gone(h)
  BY <1>1, <1>2 DEF Gone, Asked
<1>3. CASE New(h)
  BY <1>1, <1>3 DEF New, Asked
<1>4. CASE Stays(h)
  BY <1>1, <1>4 DEF Stays, Asked
<1> QED
  BY <1>2, <1>3, <1>4 DEF Drift

\* Of an actor that waits.
LEMMA OthersTrack ==
    ASSUME Inv, Drift, NEW b \in Actors, op'[b] = op[b]
    PROVE  Suits(b)' /\ Attended(b)' /\ Accounted(b)' /\ Newest(b)' /\ Asks(b)' /\ Upgrading(b)'
<1>t. /\ TypeOK /\ Volume /\ op[b] \in Op
      /\ Suits(b) /\ Attended(b) /\ Accounted(b) /\ Newest(b) /\ Asks(b) /\ Upgrading(b)
  BY DEF Inv, TypeOK
<1>h. op[b].host \in Domains /\ op[b].listed \subseteq Domains
  BY <1>t DEF Op
<1>1. Suits(b)'
  BY <1>t DEF Suits, In
<1>2. Attended(b)'
  <2>1. ASSUME NEW h \in Domains, Settled(h) PROVE Settled(h)'
    BY <2>1, SettledStays
  <2>2. In(b, {"perms", "readback"}) \/ (In(b, {"clean"}) /\ ~op[b].err) => Settled(op[b].host)'
    <3>1. op[b].host' = op[b].host
      OBVIOUS
    <3> QED
      BY <1>t, <1>h, <2>1, <3>1 DEF Attended, Settled, Has
  <2> QED
    BY <1>t, <1>h, <2>1, <2>2 DEF Attended, In
<1>3. Accounted(b)'
  <2>1. op[b].prev <= issued => op[b].prev <= issued'
    BY <1>t DEF Drift, TypeOK, Op
  <2> QED
    BY <1>t, <2>1 DEF Accounted, In
<1>4. Newest(b)'
  BY <1>t, NewestStays
<1>5. Asks(b)'
  <2> SUFFICES ASSUME op[b].kind = "renew_all"
               PROVE  /\ In(b, {"push", "lego"}) /\ ~(store'[op[b].host].gen = 0 \/ ~store'[op[b].host].due) =>
                           store'[op[b].host].names \subseteq op[b].names
                      /\ In(b, {"order"}) => Asked(op[b].host, op[b].names, op[b].found)'
    BY DEF Asks, In, Settled, Has
  <2>1. ASSUME In(b, {"push", "lego"}), store'[op[b].host].gen # 0, store'[op[b].host].due
        PROVE  store'[op[b].host].names \subseteq op[b].names
    <3>1. Stays(op[b].host)
      BY <1>h, <2>1 DEF Drift, Gone, New
    <3>2. ~Settled(op[b].host)
      BY <2>1, <3>1 DEF Stays, Settled, Has
    <3> QED
      BY <1>t, <2>1, <3>1, <3>2 DEF Asks, Stays
  <2>2. ASSUME In(b, {"order"}) PROVE Asked(op[b].host, op[b].names, op[b].found)'
    <3>1. PICK h \in Domains, names \in SUBSET Nat, f \in Nat :
            h = op[b].host /\ names = op[b].names /\ f = op[b].found
      BY <1>t DEF Op
    <3>2. Asked(h, names, f)'
      BY <1>t, <2>2, <3>1, AskedStays DEF Asks
    <3> QED
      BY <3>1, <3>2 DEF Asked
  <2> QED
    BY <2>1, <2>2
<1>6. Upgrading(b)'
  BY <1>t DEF Upgrading, In, Drift
<1> QED
  BY <1>1, <1>2, <1>3, <1>4, <1>5, <1>6

\* What is cut is a run's own file, and so is what goes.
Own(a) == {n \in Nonces : n[1] = op[a].id}

LEMMA OthersFiles ==
    ASSUME Inv, NEW a \in Actors, NEW b \in Actors \ {a}, op'[b] = op[b], op[a].id # 0,
           cut' \subseteq cut \cup Own(a), creds \subseteq creds' \cup Own(a)
    PROVE  Files(b)'
<1>1. Files(b) /\ Numbered /\ op[b] \in Op
  BY DEF Inv, TypeOK
<1>2. op[b].pc # "idle" => op[b].id # op[a].id
  BY <1>1 DEF Numbered
<1>3. ASSUME NEW h, op[b].id # op[a].id, <<op[b].id, h>> \notin cut PROVE <<op[b].id, h>> \notin cut'
  BY <1>3 DEF Own
<1>4. ASSUME op[b].id # op[a].id, Nonce(op[b]) \in creds PROVE Nonce(op[b]) \in creds'
  BY <1>4 DEF Own, Nonce
<1>5. Nonce(op[b])' = Nonce(op[b])
  BY DEF Nonce
<1>6. In(b, {"list"} \cup Working) => op[b].id # op[a].id
  BY <1>2 DEF In, Working
<1>7. In(b, {"list"}) => \A h \in Domains : <<op[b].id, h>> \notin cut'
  BY <1>1, <1>3, <1>6 DEF Files, In
<1>8. In(b, Working) => op[b].host \notin op[b].todo /\ \A h \in op[b].todo : <<op[b].id, h>> \notin cut'
  BY <1>1, <1>3, <1>6 DEF Files, In, Working, Holding
<1>9. In(b, Working \ {"readback"}) => Nonce(op[b]) \notin cut'
  BY <1>1, <1>3, <1>6 DEF Files, In, Working, Holding, Nonce
<1>10. In(b, Holding) /\ op[b].env => Nonce(op[b]) \in creds'
  BY <1>1, <1>4, <1>6 DEF Files, In, Working, Holding
<1> QED
  BY <1>5, <1>7, <1>8, <1>9, <1>10 DEF Files, In
-----------------------------------------------------------------------------
(* What a run says when it ends *)

\* Its own app is on what it wrote, and it wrote nothing else.
Served(a) ==
    op[a].kind \in Renewals /\ op'[a].result = "ok" =>
      \A c \in op[a].wrote : /\ c[1] = Primary[op[a].app]
                             /\ newest[op[a].app] = "running" => served'[op[a].app] >= c[2]

Attends(a) ==
    op[a].kind = "renew_all" =>
      \A h \in op[a].listed \ op'[a].failed : Settled(h)

Upgraded(a) ==
    op[a].kind = "upgrade" /\ op'[a].result = "ok" =>
      proxy' = "running" /\ (image' = Build \/ op[a].stuck)

\* It keeps its number until it is over.
Keeps(a) == op'[a].id = op[a].id \/ (op'[a].id = 0 /\ op'[a].pc = "idle")

Reports(a) == Ends(a) => Served(a) /\ Attends(a) /\ Upgraded(a)

Track(a) ==
    /\ Suits(a) /\ Attended(a) /\ Accounted(a) /\ Newest(a) /\ Asks(a)
    /\ Upgrading(a) /\ Files(a)

LEMMA StopsTrack ==
    ASSUME NEW a \in Actors, NEW o, NEW R, Stops(op'[a], o, R)
    PROVE  Track(a)'
BY DEF Stops, Track, Suits, Attended, Accounted, Newest, Asks, Upgrading, Files, In, Working, Holding, Renewals

\* The next certificate, or the end of a renewal.
LEMMA MovesTrack ==
    ASSUME Inv, NEW a \in Actors, NEW q \in Op, Moves(op'[a], q), op'[a] \in Op,
           UNCHANGED <<store, issued>>,
           q.kind = op[a].kind, op[a].kind \in Renewals,
           q.listed = op[a].listed \/ op[a].listed = {},
           q.wrote = op[a].wrote, q.app = op[a].app, q.id = op[a].id,
           q.kind = "renew_all" => \A h \in q.listed : h \in q.todo \cup q.failed \/ Settled(h),
           \A c \in q.wrote : c[1] \in q.failed \cup q.renewed,
           \A h \in q.todo : <<q.id, h>> \notin cut'
    PROVE  Track(a)' /\ Reports(a) /\ Keeps(a)
<1>t. TypeOK /\ Newest(a)
  BY DEF Inv
<1>k. q.kind # "upgrade" /\ op[a].kind # "upgrade"
  BY DEF Renewals
<1>s. \A h \in Domains : Settled(h)' <=> Settled(h)
  BY DEF Settled, Has
<1>d. q.listed \subseteq Domains /\ q.todo \subseteq Domains
  BY DEF Op
<1>1. CASE Takes(op'[a], q)
  <2>1. /\ op'[a].kind = q.kind /\ op'[a].app = q.app /\ op'[a].id = q.id
        /\ op'[a].listed = q.listed /\ op'[a].failed = q.failed /\ op'[a].renewed = q.renewed
        /\ op'[a].wrote = q.wrote
        /\ op'[a].pc = "info" /\ op'[a].host \in q.todo /\ op'[a].todo = q.todo \ {op'[a].host}
    BY <1>1 DEF Takes
  <2>2. Suits(a)'
    BY <2>1 DEF Suits, In
  <2>3. Attended(a)'
    BY <1>s, <1>d, <2>1 DEF Attended, In, Working
  <2>4. Accounted(a)'
    BY <2>1 DEF Accounted, In
  <2>5. Newest(a)'
    BY <1>t, <2>1 DEF Newest, Has
  <2>6. Asks(a)' /\ Upgrading(a)'
    BY <1>k, <2>1 DEF Asks, Upgrading, In
  <2>7. Files(a)'
    <3>1. Nonce(op[a])' = <<q.id, op'[a].host>>
      BY <2>1 DEF Nonce
    <3> QED
      BY <2>1, <3>1 DEF Files, In, Working, Holding
  <2>8. Reports(a)
    BY <2>1 DEF Reports, Ends, At
  <2> QED
    BY <2>1, <2>2, <2>3, <2>4, <2>5, <2>6, <2>7, <2>8 DEF Track, Keeps
<1>2. CASE Serves(op'[a], q)
  <2>1. /\ op'[a].kind = q.kind /\ op'[a].app = q.app /\ op'[a].id = q.id
        /\ op'[a].listed = q.listed /\ op'[a].failed = q.failed /\ op'[a].renewed = q.renewed
        /\ op'[a].wrote = q.wrote /\ op'[a].pc = "find" /\ op'[a].todo = {} /\ q.todo = {}
        /\ ~op'[a].err => q.failed = {} /\ q.renewed \subseteq {Primary[q.app]}
    BY <1>2 DEF Serves, Kin
  <2>2. Suits(a)'
    BY <2>1 DEF Suits, In
  <2>3. Attended(a)'
    BY <1>s, <1>d, <2>1 DEF Attended, In, Working
  <2>4. Accounted(a)'
    BY <2>1 DEF Accounted, In
  <2>5. Newest(a)'
    BY <1>t, <2>1 DEF Newest, Has
  <2>6. Asks(a)' /\ Upgrading(a)' /\ Files(a)'
    BY <1>k, <2>1 DEF Asks, Upgrading, Files, In, Working, Holding
  <2>7. Reports(a)
    BY <2>1 DEF Reports, Ends, At
  <2> QED
    BY <2>1, <2>2, <2>3, <2>4, <2>5, <2>6, <2>7 DEF Track, Keeps
<1>3. CASE /\ q.todo = {} /\ Stops(op'[a], q, {"ok", "failed"})
           /\ op'[a].result = "ok" => q.failed = {} /\ q.renewed = {}
  <2>1. Track(a)'
    BY <1>3, StopsTrack
  <2>2. op'[a].failed = q.failed
    BY <1>3 DEF Stops
  <2>3. Served(a)
    BY <1>3 DEF Served
  <2>4. Attends(a)
    BY <1>3, <2>2 DEF Attends
  <2> QED
    BY <1>3, <1>k, <2>1, <2>3, <2>4 DEF Reports, Upgraded, Keeps, Stops
<1> QED
  BY <1>1, <1>2, <1>3 DEF Moves

\* A command that goes on, or ends, with nothing of its own record changed.
LEMMA KinTrack ==
    ASSUME Inv, Drift, NEW a \in Actors, Kin(op'[a], op[a]), op'[a].err = op[a].err,
           ~In(a, Working \cup {"list"}), op'[a].pc \notin Working \cup {"list", "find", "idle"},
           op'[a].pc = "register" => op[a].pc = "find" \/ op[a].kind = "start",
           Suits(a)', Upgrading(a)'
    PROVE  Track(a)' /\ Reports(a) /\ Keeps(a)
<1>t. /\ TypeOK /\ Volume /\ Attended(a) /\ Accounted(a) /\ Newest(a) /\ op[a] \in Op
  BY DEF Inv, TypeOK
<1>1. /\ op'[a].kind = op[a].kind /\ op'[a].listed = op[a].listed /\ op'[a].todo = op[a].todo
      /\ op'[a].wrote = op[a].wrote /\ op'[a].failed = op[a].failed
      /\ op'[a].renewed = op[a].renewed /\ op'[a].app = op[a].app
  BY DEF Kin
<1>2. Attended(a)'
  <2>1. ASSUME NEW h \in op[a].listed, Settled(h) PROVE Settled(h)'
    BY <1>t, <2>1, SettledStays DEF Op
  <2> QED
    BY <1>t, <1>1, <2>1 DEF Attended, In, Working
<1>3. Accounted(a)'
  BY <1>t, <1>1 DEF Accounted, In, Working, Renewals
<1>4. Newest(a)'
  BY <1>t, <1>1, NewestStays
<1>5. Asks(a)' /\ Files(a)' /\ Reports(a)
  BY DEF Asks, Files, Reports, Ends, At, In, Working, Holding
<1> QED
  BY <1>2, <1>3, <1>4, <1>5 DEF Track, Keeps, Kin
-----------------------------------------------------------------------------
(* The steps of a renewal *)

\* What a step of a is, and what one that begins no command is.
Turns(a) ==
    /\ op' \in [Actors -> Op] /\ \A b \in Actors \ {a} : op'[b] = op[b]
    /\ Track(a)' /\ Reports(a) /\ Drift

Does(a) == Turns(a) /\ Keeps(a)

\* A run that fails at a certificate, and has lego's files on record.
LEMMA HostFailsTrack ==
    ASSUME Inv, NEW a \in Actors, HostFails(op'[a], op[a]), op'[a] \in Op,
           UNCHANGED <<store, issued>>, In(a, Working), op[a].kind \in Renewals \cup {"issue"},
           \A h \in op[a].todo : <<op[a].id, h>> \notin cut'
    PROVE  Track(a)' /\ Reports(a) /\ Keeps(a)
<1>t. TypeOK /\ Attended(a) /\ Accounted(a)
  BY DEF Inv
<1>1. CASE op[a].kind = "renew_all"
  <2>1. PICK q \in Op :
          /\ Moves(op'[a], q) /\ q.failed = op[a].failed \cup {op[a].host}
          /\ q.kind = op[a].kind /\ q.app = op[a].app /\ q.id = op[a].id
          /\ q.listed = op[a].listed /\ q.todo = op[a].todo /\ q.renewed = op[a].renewed
          /\ q.wrote = op[a].wrote
    BY <1>1 DEF HostFails
  <2>2. q.kind = "renew_all" => \A h \in q.listed : h \in q.todo \cup q.failed \/ Settled(h)
    BY <1>t, <1>1, <2>1 DEF Attended
  <2>3. op[a].kind \in Renewals
    BY <1>1 DEF Renewals
  <2>4. \A c \in q.wrote : c[1] \in q.failed \cup q.renewed
    BY <1>t, <2>1, <2>3 DEF Accounted
  <2> QED
    BY <2>1, <2>2, <2>3, <2>4, MovesTrack
<1>2. CASE op[a].kind # "renew_all"
  <2>1. Stops(op'[a], op[a], {"failed"})
    BY <1>2 DEF HostFails
  <2>2. Reports(a)
    BY <1>2, <2>1 DEF Stops, Reports, Served, Attends, Upgraded
  <2> QED
    BY <2>1, <2>2, StopsTrack DEF Keeps, Stops
<1> QED
  BY <1>1, <1>2

LEMMA ListDoes ==
    ASSUME Inv, NEW a \in Actors, ListCerts(a)
    PROVE  Does(a)
<1>t. TypeOK /\ op[a] \in Op /\ Suits(a) /\ Accounted(a) /\ Files(a)
  BY DEF Inv, TypeOK
<1>1. /\ op[a].pc = "list" /\ UNCHANGED <<proxyVars, creds, cut, issued>>
      /\ op[a].kind = "renew_all" /\ op[a].listed = {}
  BY <1>t DEF ListCerts, At, Suits, In
<1>2. UNCHANGED <<store, issued, proxy, image, local>> /\ Drift
  BY <1>t, <1>1, QuietDrifts DEF proxyVars
<1> DEFINE here == {h \in Domains : Has(h)}
           o == [op[a] EXCEPT !.listed = here, !.todo = here]
<1>3. Goes(a, NextHost(o)) \/ Goes(a, Failed(op[a]))
  BY DEF ListCerts
<1>4. CASE Goes(a, NextHost(o))
  <2>1. o \in Op
    BY <1>t DEF Op
  <2>2. o.kind = op[a].kind /\ o.listed = here /\ o.todo = here /\ o.app = op[a].app
        /\ o.wrote = op[a].wrote /\ o.failed = op[a].failed /\ o.renewed = op[a].renewed
        /\ o.id = op[a].id
    BY <1>t DEF Op
  <2> HIDE DEF o
  <2>3. PICK q \in Op : q = o
    BY <2>1
  <2>4. NextHost(q) \in Op /\ Moves(NextHost(q), q)
    BY NextHostIs
  <2>5. op' \in [Actors -> Op] /\ op'[a] = NextHost(q) /\ \A b \in Actors \ {a} : op'[b] = op[b]
    BY <1>t, <1>4, <2>3, <2>4, GoesTurn
  <2>6. \A c \in q.wrote : c[1] \in q.failed \cup q.renewed
    BY <1>t, <1>1, <2>2, <2>3 DEF Accounted, In, Renewals
  <2>7. \A h \in q.todo : <<q.id, h>> \notin cut'
    BY <1>t, <1>1, <2>2, <2>3 DEF Files, In
  <2>8. op[a].kind \in Renewals
    BY <1>1 DEF Renewals
  <2>9. Moves(op'[a], q) /\ op'[a] \in Op
    BY <2>4, <2>5
  <2> HIDE DEF here
  <2>10. Track(a)' /\ Reports(a) /\ Keeps(a)
    BY <1>1, <1>2, <2>2, <2>3, <2>6, <2>7, <2>8, <2>9, MovesTrack
  <2> QED
    BY <1>2, <2>5, <2>10 DEF Does, Turns
<1>5. CASE Goes(a, Failed(op[a]))
  <2>1. /\ op' \in [Actors -> Op] /\ \A b \in Actors \ {a} : op'[b] = op[b]
        /\ Stops(op'[a], op[a], {"failed"})
    BY <1>t, <1>5, OverIs, GoesTurn DEF Failed
  <2>2. Reports(a)
    BY <1>1, <2>1 DEF Stops, Reports, Served, Attends, Upgraded
  <2> QED
    BY <1>2, <2>1, <2>2, StopsTrack DEF Does, Turns, Keeps, Stops
<1> QED
  BY <1>3, <1>4, <1>5

LEMMA InfoDoes ==
    ASSUME Inv, NEW a \in Actors, CertInfo(a)
    PROVE  Does(a)
<1>t. /\ TypeOK /\ op[a] \in Op /\ Suits(a) /\ Attended(a) /\ Accounted(a) /\ Newest(a)
      /\ Files(a) /\ Volume
  BY DEF Inv, TypeOK
<1>1. /\ op[a].pc = "info" /\ UNCHANGED <<proxyVars, creds, cut, issued>>
      /\ op[a].kind \in Renewals
  BY <1>t DEF CertInfo, At, Suits, In
<1>2. UNCHANGED <<store, issued, proxy, image, local>> /\ Drift
  BY <1>t, <1>1, QuietDrifts DEF proxyVars
<1>h. /\ op[a].host \in Domains /\ store[op[a].host] \in Cert
      /\ Domains \subseteq Nat
  BY <1>t, DomainsAre DEF Op, TypeOK, ProxyTypeOK
<1> DEFINE o == op[a]
           n == [o EXCEPT !.prev = store[o.host].gen, !.pc = "push",
                          !.names = IF o.kind = "renew_all"
                                    THEN store[o.host].names \cup {o.host} ELSE @]
           m == [o EXCEPT !.prev = 0, !.pc = "push"]
<1>3. \/ Goes(a, n)
      \/ Goes(a, HostFailed(o)) /\ o.kind = "renew_all"
      \/ Goes(a, m) /\ o.kind # "renew_all"
  BY DEF CertInfo, InfoRead
<1>4. CASE Goes(a, n) \/ (Goes(a, m) /\ o.kind # "renew_all")
  <2> DEFINE p == IF Goes(a, n) THEN n ELSE m
  <2>1. p \in Op
    <3>1. store[o.host].gen \in Nat /\ store[o.host].names \cup {o.host} \in SUBSET Nat
      BY <1>h DEF Cert
    <3>2. "push" \in PCs
      BY DEF PCs
    <3>3. n \in Op
      BY <1>t, <3>1, <3>2 DEF Op
    <3>4. m \in Op
      BY <1>t, <3>2 DEF Op
    <3> QED
      BY <3>3, <3>4
  <2>2. Goes(a, p)
    BY <1>4
  <2>3. /\ p.kind = o.kind /\ p.listed = o.listed /\ p.todo = o.todo /\ p.wrote = o.wrote
        /\ p.failed = o.failed /\ p.renewed = o.renewed /\ p.id = o.id /\ p.host = o.host
        /\ p.pc = "push" /\ p.prev \in {0, store[o.host].gen} /\ p.app = o.app
    BY <1>t DEF Op
  <2>4. o.kind = "renew_all" => p.names = store[o.host].names \cup {o.host}
    BY <1>t, <1>4 DEF Op
  <2> HIDE DEF p, n, m
  <2>5. op' \in [Actors -> Op] /\ op'[a] = p /\ \A b \in Actors \ {a} : op'[b] = op[b]
    BY <1>t, <2>1, <2>2, GoesTurn
  <2>6. /\ op'[a].kind = o.kind /\ op'[a].listed = o.listed /\ op'[a].todo = o.todo
        /\ op'[a].wrote = o.wrote /\ op'[a].failed = o.failed /\ op'[a].renewed = o.renewed
        /\ op'[a].id = o.id /\ op'[a].host = o.host /\ op'[a].pc = "push"
        /\ op'[a].prev \in {0, store[o.host].gen}
        /\ o.kind = "renew_all" => op'[a].names = store[o.host].names \cup {o.host}
    BY <2>3, <2>4, <2>5
  <2> HIDE DEF o
  <2>7. Suits(a)' /\ Upgrading(a)'
    BY <1>1, <2>6 DEF Suits, Upgrading, In, o, Renewals
  <2>8. Attended(a)'
    BY <1>t, <1>1, <1>2, <2>6 DEF Attended, Settled, Has, In, Working, o
  <2>9. Accounted(a)'
    <3>1. op'[a].prev <= issued'
      <4>1. issued \in Nat /\ store[o.host].gen <= issued
        BY <1>t, <1>h DEF Volume, TypeOK, o
      <4>2. issued' = issued
        BY <1>2
      <4> QED
        BY <2>6, <4>1, <4>2
    <3> QED
      BY <1>t, <1>1, <2>6, <3>1 DEF Accounted, In, o
  <2>10. Newest(a)'
    BY <1>t, <1>2, <2>6, NewestStays DEF o
  <2>11. Asks(a)'
    BY <1>2, <2>6 DEF Asks, In, o
  <2>12. Files(a)'
    BY <1>t, <1>1, <2>6 DEF Files, In, Working, Holding, Nonce, o
  <2>13. Reports(a)
    BY <2>6 DEF Reports, Ends, At
  <2> QED
    BY <1>2, <2>5, <2>6, <2>7, <2>8, <2>9, <2>10, <2>11, <2>12, <2>13
    DEF Does, Turns, Keeps, Track, o
<1>5. CASE Goes(a, HostFailed(o)) /\ o.kind = "renew_all"
  <2>1. /\ op' \in [Actors -> Op] /\ \A b \in Actors \ {a} : op'[b] = op[b]
        /\ HostFails(op'[a], op[a])
    BY <1>t, <1>5, HostFailedIs, GoesTurn
  <2>2. Track(a)' /\ Reports(a) /\ Keeps(a)
    BY <1>t, <1>1, <1>2, <2>1, HostFailsTrack DEF Files, In, Working, Holding
  <2> QED
    BY <1>2, <2>1, <2>2 DEF Does, Turns
<1> QED
  BY <1>3, <1>4, <1>5

LEMMA PushDoes ==
    ASSUME Inv, NEW a \in Actors, PushEnv(a)
    PROVE  Does(a)
<1>t. /\ TypeOK /\ op[a] \in Op /\ Suits(a) /\ Attended(a) /\ Accounted(a) /\ Newest(a)
      /\ Asks(a) /\ Files(a) /\ Volume
  BY DEF Inv, TypeOK
<1>1. /\ op[a].pc = "push" /\ UNCHANGED <<proxyVars, issued>>
      /\ op[a].kind \in Renewals \cup {"issue"}
  BY <1>t DEF PushEnv, At, Suits, In
<1>2. UNCHANGED <<store, issued, proxy, image, local>> /\ Drift
  BY <1>t, <1>1, QuietDrifts DEF proxyVars
<1> DEFINE n == [op[a] EXCEPT !.pc = "lego"]
<1>3. /\ cut' \subseteq cut \cup {Nonce(op[a])}
      /\ \/ Goes(a, n) /\ cut' = cut /\ (op[a].env => Nonce(op[a]) \in creds')
         \/ Goes(a, HostFailed(op[a]))
  BY DEF PushEnv, Executed
<1>4. CASE Goes(a, n) /\ cut' = cut /\ (op[a].env => Nonce(op[a]) \in creds')
  <2>0. "lego" \in PCs
    BY DEF PCs
  <2>1. n \in Op /\ Kin(n, op[a]) /\ n.pc = "lego"
    BY <1>t, <2>0, GoesIs
  <2> HIDE DEF n
  <2>2. op' \in [Actors -> Op] /\ op'[a] = n /\ \A b \in Actors \ {a} : op'[b] = op[b]
    BY <1>t, <1>4, <2>1, GoesTurn
  <2>3. Kin(op'[a], op[a]) /\ op'[a].pc = "lego"
    BY <2>1, <2>2
  <2>4. Suits(a)' /\ Upgrading(a)' /\ Reports(a)
    BY <1>1, <2>3 DEF Suits, Upgrading, Reports, Ends, At, In, Kin, Renewals
  <2>5. Attended(a)'
    BY <1>t, <1>1, <1>2, <2>3 DEF Attended, Settled, Has, In, Working, Kin
  <2>6. Accounted(a)'
    BY <1>t, <1>1, <1>2, <2>3 DEF Accounted, In, Kin
  <2>7. Newest(a)'
    BY <1>t, <1>2, <2>3, NewestStays DEF Kin
  <2>8. Asks(a)'
    <3>1. op'[a].host = op[a].host /\ op'[a].names = op[a].names /\ op'[a].kind = op[a].kind
      BY <2>3 DEF Kin
    <3> QED
      BY <1>t, <1>1, <1>2, <2>3, <3>1 DEF Asks, Settled, Has, In
  <2>9. Files(a)'
    <3>1. /\ op'[a].host = op[a].host /\ op'[a].id = op[a].id /\ op'[a].todo = op[a].todo
          /\ op'[a].env = op[a].env
      BY <2>3 DEF Kin
    <3> QED
      BY <1>t, <1>1, <1>4, <2>3, <3>1 DEF Files, In, Working, Holding, Nonce
  <2> QED
    BY <1>2, <2>2, <2>3, <2>4, <2>5, <2>6, <2>7, <2>8, <2>9 DEF Does, Turns, Keeps, Track, Kin
<1>5. CASE Goes(a, HostFailed(op[a]))
  <2>1. /\ op' \in [Actors -> Op] /\ \A b \in Actors \ {a} : op'[b] = op[b]
        /\ HostFails(op'[a], op[a])
    BY <1>t, <1>5, HostFailedIs, GoesTurn
  <2>2. \A h \in op[a].todo : <<op[a].id, h>> \notin cut'
    BY <1>t, <1>1, <1>3 DEF Files, In, Working, Holding, Nonce
  <2>3. Track(a)' /\ Reports(a) /\ Keeps(a)
    BY <1>t, <1>1, <1>2, <2>1, <2>2, HostFailsTrack DEF In, Working
  <2> QED
    BY <1>2, <2>1, <2>3 DEF Does, Turns
<1> QED
  BY <1>3, <1>4, <1>5

\* lego keeps the number and the host of its run.
Holds(a) == op'[a].pc \in Holding /\ op'[a].id = op[a].id /\ op'[a].host = op[a].host

LEMMA StartLegoDoes ==
    ASSUME Inv, NEW a \in Actors, StartLego(a)
    PROVE  Does(a) /\ Holds(a)
<1>t. /\ TypeOK /\ op[a] \in Op /\ Suits(a) /\ Attended(a) /\ Accounted(a) /\ Newest(a)
      /\ Asks(a) /\ Files(a) /\ Volume
  BY DEF Inv, TypeOK
<1>1. /\ op[a].pc = "lego" /\ op[a].kind \in Renewals \cup {"issue"}
      /\ UNCHANGED <<proxyVars, creds, cut, issued>>
  BY <1>t DEF StartLego, At, Suits, In
<1>2. UNCHANGED <<store, issued, proxy, image, local>> /\ Drift
  BY <1>t, <1>1, QuietDrifts DEF proxyVars
<1>h. /\ op[a].host \in Domains /\ issued \in Nat /\ store[op[a].host].gen \in Nat
      /\ op[a].found \in Nat /\ op[a].err \in BOOLEAN
      /\ store[op[a].host].gen <= issued
  BY <1>t DEF Op, TypeOK, ProxyTypeOK, Cert, Volume
<1>3. PICK l \in {"clean", "order", "perms"}, e \in BOOLEAN, f \in Nat :
        /\ Goes(a, [op[a] EXCEPT !.pc = l, !.err = e, !.found = f])
        /\ l = "clean" => e
        /\ l = "order" => f = store[op[a].host].gen /\ (Has(op[a].host) => ~Settled(op[a].host))
        /\ l = "perms" => Settled(op[a].host)
  <2>1. CASE Goes(a, [op[a] EXCEPT !.pc = "clean", !.err = TRUE])
    <3>1. [op[a] EXCEPT !.pc = "clean", !.err = TRUE]
            = [op[a] EXCEPT !.pc = "clean", !.err = TRUE, !.found = op[a].found]
      BY <1>t DEF Op
    <3> QED
      BY <1>h, <2>1, <3>1
  <2>2. CASE /\ Goes(a, [op[a] EXCEPT !.pc = "order", !.found = store[op[a].host].gen])
             /\ ~Has(op[a].host) \/ store[op[a].host].due
    <3>1. [op[a] EXCEPT !.pc = "order", !.found = store[op[a].host].gen]
            = [op[a] EXCEPT !.pc = "order", !.err = op[a].err, !.found = store[op[a].host].gen]
      BY <1>t DEF Op
    <3>2. Has(op[a].host) => ~Settled(op[a].host)
      BY <2>2 DEF Settled
    <3> QED
      BY <1>h, <2>2, <3>1, <3>2
  <2>3. CASE /\ Goes(a, [op[a] EXCEPT !.pc = "perms"])
             /\ ~(~Has(op[a].host) \/ store[op[a].host].due)
    <3>1. [op[a] EXCEPT !.pc = "perms"]
            = [op[a] EXCEPT !.pc = "perms", !.err = op[a].err, !.found = op[a].found]
      BY <1>t DEF Op
    <3>2. Settled(op[a].host)
      BY <2>3 DEF Settled
    <3> QED
      BY <1>h, <2>3, <3>1, <3>2
  <2> QED
    BY <2>1, <2>2, <2>3 DEF StartLego
<1> DEFINE n == [op[a] EXCEPT !.pc = l, !.err = e, !.found = f]
<1>4. n \in Op
  <2>1. l \in PCs
    BY DEF PCs
  <2> QED
    BY <1>t, <2>1 DEF Op
<1>5. n.err = e /\ n.env = op[a].env
  BY <1>t DEF Op
<1>6. /\ n.pc = l /\ n.found = f /\ n.wrote = op[a].wrote
      /\ n.kind = op[a].kind /\ n.app = op[a].app /\ n.id = op[a].id /\ n.host = op[a].host
      /\ n.listed = op[a].listed /\ n.todo = op[a].todo /\ n.prev = op[a].prev
      /\ n.names = op[a].names /\ n.failed = op[a].failed /\ n.renewed = op[a].renewed
  BY <1>t DEF Op
<1> HIDE DEF n
<1>7. op' \in [Actors -> Op] /\ op'[a] = n /\ \A b \in Actors \ {a} : op'[b] = op[b]
  BY <1>t, <1>3, <1>4, GoesTurn DEF n
<1>8. /\ op'[a].err = e /\ op'[a].env = op[a].env
      /\ op'[a].pc = l /\ op'[a].found = f /\ op'[a].wrote = op[a].wrote
      /\ op'[a].kind = op[a].kind /\ op'[a].app = op[a].app /\ op'[a].id = op[a].id
      /\ op'[a].host = op[a].host /\ op'[a].listed = op[a].listed /\ op'[a].todo = op[a].todo
      /\ op'[a].prev = op[a].prev /\ op'[a].names = op[a].names
      /\ op'[a].failed = op[a].failed /\ op'[a].renewed = op[a].renewed
  BY <1>5, <1>6, <1>7
<1>9. Suits(a)' /\ Upgrading(a)' /\ Reports(a)
  BY <1>1, <1>8 DEF Suits, Upgrading, Reports, Ends, At, In, Renewals
<1>10. Attended(a)'
  <2>1. op[a].kind = "renew_all" =>
          \A h \in op[a].listed : h \in op[a].todo \cup op[a].failed \/ Settled(h) \/ op[a].host = h
    BY <1>t DEF Attended
  <2> QED
    BY <1>1, <1>2, <1>3, <1>8, <2>1 DEF Attended, Settled, Has, In, Working
<1>11. Accounted(a)'
  BY <1>t, <1>1, <1>2, <1>8 DEF Accounted, In
<1>12. Newest(a)'
  BY <1>t, <1>2, <1>8, NewestStays
<1>13. Asks(a)'
  <2> SUFFICES ASSUME op[a].kind = "renew_all", l = "order"
               PROVE  /\ f <= issued
                      /\ store[op[a].host].gen = f => store[op[a].host].names \subseteq op[a].names
    BY <1>2, <1>8 DEF Asks, Asked, In
  <2>1. ~Has(op[a].host) => store[op[a].host].names = {}
    BY <1>t, <1>h DEF Volume
  <2> QED
    BY <1>t, <1>1, <1>h, <1>3, <2>1 DEF Asks, In
<1>14. Files(a)'
  BY <1>t, <1>1, <1>8 DEF Files, In, Working, Holding, Nonce
<1> QED
  BY <1>2, <1>7, <1>8, <1>9, <1>10, <1>11, <1>12, <1>13, <1>14
  DEF Does, Turns, Keeps, Track, Holds, Holding

LEMMA EndLegoDoes ==
    ASSUME Inv, NEW a \in Actors, EndLego(a)
    PROVE  Does(a) /\ Holds(a)
<1>t. /\ TypeOK /\ op[a] \in Op /\ Suits(a) /\ Attended(a) /\ Accounted(a) /\ Newest(a)
      /\ Files(a) /\ Volume
  BY DEF Inv, TypeOK
<1>1. op[a].pc = "order" /\ op[a].kind \in Renewals \cup {"issue"}
  BY <1>t DEF EndLego, At, Suits, In
<1>h. op[a].host \in Domains /\ issued \in Nat /\ store \in [Domains -> Cert]
      /\ op[a].names \in SUBSET Nat
  BY <1>t DEF Op, TypeOK, ProxyTypeOK
<1>2. PICK x \in Outcomes :
        /\ IF x = "ok" THEN Writes(op[a].host, op[a].names) ELSE UNCHANGED <<store, issued>>
        /\ Goes(a, [op[a] EXCEPT !.pc = IF x = "ok" THEN "perms" ELSE "clean", !.err = x # "ok",
                                 !.wrote = IF x = "ok" THEN @ \cup {<<op[a].host, issued + 1>>} ELSE @])
  BY DEF EndLego
<1>3. UNCHANGED <<proxy, image, local, creds, cut>>
  BY DEF EndLego
<1> DEFINE wrote == x = "ok"
           n == [op[a] EXCEPT !.pc = IF x = "ok" THEN "perms" ELSE "clean", !.err = x # "ok",
                              !.wrote = IF wrote THEN @ \cup {<<op[a].host, issued + 1>>} ELSE @]
<1>4. /\ wrote => /\ store' = [store EXCEPT ![op[a].host] = [gen |-> issued + 1, names |-> op[a].names,
                                                      due |-> FALSE, readable |-> FALSE]]
                  /\ issued' = issued + 1
      /\ ~wrote => store' = store /\ issued' = issued
      /\ Goes(a, n)
  BY <1>2 DEF Writes
<1>5. <<op[a].host, issued + 1>> \in Domains \X Nat
  BY <1>h
<1>6. n \in Op
  <2>1. /\ (IF x = "ok" THEN "perms" ELSE "clean") \in PCs
        /\ op[a].wrote \cup {<<op[a].host, issued + 1>>} \in SUBSET (Domains \X Nat)
    BY <1>t, <1>5 DEF Op, PCs
  <2>2. PICK l \in PCs, e \in BOOLEAN, w \in SUBSET (Domains \X Nat) :
          n = [op[a] EXCEPT !.pc = l, !.err = e, !.wrote = w]
    <3> DEFINE l == IF x = "ok" THEN "perms" ELSE "clean"
               w == IF wrote
                    THEN op[a].wrote \cup {<<op[a].host, issued + 1>>} ELSE op[a].wrote
    <3>1. l \in PCs /\ (x # "ok") \in BOOLEAN
      BY <2>1
    <3>2. w \in SUBSET (Domains \X Nat)
      BY <1>t, <2>1 DEF Op
    <3>3. n = [op[a] EXCEPT !.pc = l, !.err = (x # "ok"), !.wrote = w]
      BY <1>t DEF Op
    <3> QED
      BY <3>1, <3>2, <3>3
  <2> HIDE DEF n
  <2> QED
    BY <1>t, <2>2 DEF Op
<1>7. n.err = (x # "ok") /\ n.env = op[a].env
  BY <1>t DEF Op
<1>8. /\ n.pc = IF x = "ok" THEN "perms" ELSE "clean"
      /\ n.wrote = IF wrote THEN op[a].wrote \cup {<<op[a].host, issued + 1>>} ELSE op[a].wrote
      /\ n.kind = op[a].kind /\ n.app = op[a].app /\ n.id = op[a].id /\ n.host = op[a].host
      /\ n.listed = op[a].listed /\ n.todo = op[a].todo /\ n.prev = op[a].prev
      /\ n.names = op[a].names /\ n.failed = op[a].failed /\ n.renewed = op[a].renewed
  BY <1>t DEF Op
<1> HIDE DEF n
<1>9. op' \in [Actors -> Op] /\ op'[a] = n /\ \A b \in Actors \ {a} : op'[b] = op[b]
  BY <1>t, <1>4, <1>6, GoesTurn
<1>10. /\ op'[a].err = (x # "ok") /\ op'[a].env = op[a].env
       /\ op'[a].pc = IF x = "ok" THEN "perms" ELSE "clean"
       /\ op'[a].wrote = IF wrote THEN op[a].wrote \cup {<<op[a].host, issued + 1>>} ELSE op[a].wrote
       /\ op'[a].kind = op[a].kind /\ op'[a].app = op[a].app /\ op'[a].id = op[a].id
       /\ op'[a].host = op[a].host /\ op'[a].listed = op[a].listed /\ op'[a].todo = op[a].todo
       /\ op'[a].prev = op[a].prev /\ op'[a].failed = op[a].failed
       /\ op'[a].renewed = op[a].renewed
  BY <1>7, <1>8, <1>9
<1>11. ASSUME wrote
       PROVE  /\ issued' = issued + 1 /\ store'[op[a].host].gen = issued + 1
              /\ ~store'[op[a].host].due
              /\ \A h \in Domains \ {op[a].host} : store'[h] = store[h]
  BY <1>4, <1>h, <1>11
<1>12. ASSUME ~wrote PROVE store' = store /\ issued' = issued
  BY <1>4, <1>12
<1>p. UNCHANGED <<proxy, image, local>> /\ local' \in {local, Build}
      /\ (proxy' # "absent" => image' = local' \/ (proxy # "absent" /\ image' = image))
  BY <1>3
<1>13. Drift
  <2>1. CASE wrote
    <3>1. issued' \in Nat /\ issued' >= issued
      BY <1>h, <1>11, <2>1
    <3>2. New(op[a].host)
      BY <1>11, <2>1 DEF New
    <3>3. \A h \in Domains \ {op[a].host} : Stays(h)
      BY <1>11, <2>1 DEF Stays
    <3> QED
      BY <1>p, <3>1, <3>2, <3>3 DEF Drift
  <2>2. CASE ~wrote
    BY <1>t, <1>12, <1>p, <2>2, QuietDrifts
  <2> QED
    BY <2>1, <2>2
<1>14. x = "ok" => Settled(op[a].host)'
  <2> SUFFICES ASSUME x = "ok" PROVE ~store'[op[a].host].due \/ store'[op[a].host].gen = 0
    BY <1>10 DEF Settled, Has
  <2>1. CASE wrote
    BY <1>11, <2>1
  <2>2. CASE ~wrote
    BY <1>12, <2>2 DEF Settled, Has
  <2> QED
    BY <2>1, <2>2
<1> HIDE DEF wrote
<1>15. Suits(a)' /\ Upgrading(a)' /\ Reports(a) /\ Asks(a)'
  BY <1>1, <1>10 DEF Suits, Upgrading, Reports, Ends, At, Asks, In, Renewals
<1>16. Attended(a)'
  <2>1. \A h \in Domains : Settled(h) => Settled(h)'
    BY <1>13, SettledStays
  <2>2. op[a].listed \subseteq Domains
    BY <1>t DEF Op
  <2>3. op[a].kind = "renew_all" =>
          \A h \in op[a].listed : h \in op[a].todo \cup op[a].failed \/ Settled(h)' \/ op[a].host = h
    BY <1>t, <2>1, <2>2 DEF Attended
  <2>4. op'[a].pc \in {"perms", "clean"} /\ (op'[a].pc = "clean" => op'[a].err)
        /\ (op'[a].pc = "perms" => x = "ok")
    BY <1>10
  <2>5. In(a, {"perms", "readback"})' \/ (In(a, {"clean"}) /\ ~op[a].err)' => Settled(op[a].host)'
    BY <1>14, <2>4 DEF In
  <2> QED
    BY <1>10, <2>3, <2>4, <2>5 DEF Attended, In, Working
<1>17. Accounted(a)'
  <2>1. op'[a].pc \in {"perms", "clean"}
    BY <1>10
  <2>2. op[a].kind \in Renewals =>
          \A c \in op[a].wrote : c[1] \in op[a].failed \cup op[a].renewed
    BY <1>t, <1>1 DEF Accounted, In
  <2>3. op[a].prev < issued + 1
    BY <1>t, <1>1, <1>h DEF Accounted, In, Op
  <2>4. op'[a].kind \in Renewals =>
          \A c \in op'[a].wrote :
            \/ c[1] \in op'[a].failed \cup op'[a].renewed
            \/ c[1] = op'[a].host /\ op'[a].prev < c[2]
    BY <1>10, <2>2, <2>3
  <2> QED
    BY <2>1, <2>4 DEF Accounted, In
<1>18. Newest(a)'
  <2>1. ASSUME NEW c \in op[a].wrote
        PROVE  c[2] <= issued' /\ (store'[c[1]].gen # 0 => store'[c[1]].gen >= c[2])
    <3>1. c[1] \in Domains /\ c[2] \in Nat /\ c[2] <= issued
          /\ (store[c[1]].gen # 0 => store[c[1]].gen >= c[2])
      BY <1>t DEF Op, Newest, Has
    <3>2. issued' \in Nat /\ issued' >= issued /\ (Gone(c[1]) \/ New(c[1]) \/ Stays(c[1]))
      BY <1>13, <3>1 DEF Drift
    <3> QED
      BY <1>h, <3>1, <3>2 DEF Gone, New, Stays
  <2>2. wrote => /\ issued + 1 <= issued'
                 /\ store'[op[a].host].gen >= issued + 1
    BY <1>h, <1>11
  <2>3. \A c \in op'[a].wrote : c \in op[a].wrote \/ (wrote /\ c = <<op[a].host, issued + 1>>)
    BY <1>10
  <2> QED
    BY <2>1, <2>2, <2>3 DEF Newest, Has
<1>19. Files(a)'
  BY <1>t, <1>1, <1>3, <1>10 DEF Files, In, Working, Holding, Nonce
<1> QED
  BY <1>9, <1>10, <1>13, <1>15, <1>16, <1>17, <1>18, <1>19
  DEF Does, Turns, Keeps, Track, Holds, Holding

LEMMA PermsDoes ==
    ASSUME Inv, NEW a \in Actors, FixCertPerms(a)
    PROVE  Does(a)
<1>t. /\ TypeOK /\ op[a] \in Op /\ Suits(a) /\ Attended(a) /\ Accounted(a) /\ Newest(a)
      /\ Files(a) /\ Volume
  BY DEF Inv, TypeOK
<1>1. /\ op[a].pc = "perms" /\ op[a].kind \in Renewals \cup {"issue"}
      /\ UNCHANGED <<proxy, image, local, creds, cut, issued>>
  BY <1>t DEF FixCertPerms, At, Suits, In
<1>h. store \in [Domains -> Cert] /\ issued \in Nat
  BY <1>t DEF TypeOK, ProxyTypeOK
<1>2. PICK x \in Outcomes : Goes(a, [op[a] EXCEPT !.pc = "clean", !.err = x # "ok"])
  BY DEF FixCertPerms
<1> DEFINE n == [op[a] EXCEPT !.pc = "clean", !.err = x # "ok"]
<1>3. n \in Op
  <2>1. "clean" \in PCs /\ (x # "ok") \in BOOLEAN
    BY DEF PCs
  <2> QED
    BY <1>t, <2>1 DEF Op
<1>4. n.env = op[a].env
  BY <1>t DEF Op
<1>5. Kin(n, op[a]) /\ n.pc = "clean"
  BY <1>t, <1>4 DEF Op, Kin
<1> HIDE DEF n
<1>6. op' \in [Actors -> Op] /\ op'[a] = n /\ \A b \in Actors \ {a} : op'[b] = op[b]
  BY <1>t, <1>2, <1>3, GoesTurn DEF n
<1>7. Kin(op'[a], op[a]) /\ op'[a].pc = "clean"
  BY <1>5, <1>6
<1>8. /\ op'[a].kind = op[a].kind /\ op'[a].app = op[a].app /\ op'[a].id = op[a].id
      /\ op'[a].host = op[a].host /\ op'[a].listed = op[a].listed /\ op'[a].todo = op[a].todo
      /\ op'[a].prev = op[a].prev /\ op'[a].failed = op[a].failed
      /\ op'[a].renewed = op[a].renewed /\ op'[a].wrote = op[a].wrote /\ op'[a].env = op[a].env
  BY <1>7 DEF Kin
<1>9. Drift
  <2>1. \A h \in Domains : Stays(h)
    BY <1>h DEF FixCertPerms, Stays, Cert
  <2>2. issued' \in Nat /\ issued' >= issued
    BY <1>h, <1>1
  <2>3. local' \in {local, Build}
        /\ (proxy' # "absent" => image' = local' \/ (proxy # "absent" /\ image' = image))
    BY <1>1
  <2> QED
    BY <2>1, <2>2, <2>3 DEF Drift
<1>10. Suits(a)' /\ Upgrading(a)' /\ Reports(a) /\ Asks(a)'
  BY <1>1, <1>7, <1>8 DEF Suits, Upgrading, Reports, Ends, At, Asks, In, Renewals
<1>11. Attended(a)'
  <2>1. \A h \in Domains : Settled(h) => Settled(h)'
    BY <1>9, SettledStays
  <2>2. op[a].listed \subseteq Domains /\ op[a].host \in Domains
    BY <1>t DEF Op
  <2>3. op[a].kind = "renew_all" =>
          \A h \in op[a].listed : h \in op[a].todo \cup op[a].failed \/ Settled(h)' \/ op[a].host = h
    BY <1>t, <2>1, <2>2 DEF Attended
  <2>4. Settled(op[a].host)'
    <3>1. Settled(op[a].host)
      BY <1>t, <1>1 DEF Attended, In
    <3>2. op[a].host' = op[a].host
      BY <1>8
    <3> QED
      BY <2>1, <2>2, <3>1, <3>2 DEF Settled, Has
  <2> QED
    BY <1>7, <1>8, <2>3, <2>4 DEF Attended, In, Working
<1>12. Accounted(a)'
  BY <1>t, <1>1, <1>7, <1>8 DEF Accounted, In
<1>13. Newest(a)'
  BY <1>t, <1>8, <1>9, NewestStays
<1>14. Files(a)'
  BY <1>t, <1>1, <1>7, <1>8 DEF Files, In, Working, Holding, Nonce
<1> QED
  BY <1>6, <1>8, <1>9, <1>10, <1>11, <1>12, <1>13, <1>14 DEF Does, Turns, Keeps, Track

LEMMA CleanDoes ==
    ASSUME Inv, NEW a \in Actors, CleanEnv(a)
    PROVE  Does(a)
<1>t. /\ TypeOK /\ op[a] \in Op /\ Suits(a) /\ Attended(a) /\ Accounted(a) /\ Newest(a)
      /\ Files(a) /\ Volume
  BY DEF Inv, TypeOK
<1>1. /\ op[a].pc = "clean" /\ op[a].kind \in Renewals \cup {"issue"}
      /\ UNCHANGED <<proxyVars, issued>> /\ cut' \subseteq cut \cup {Nonce(op[a])}
  BY <1>t DEF CleanEnv, At, Suits, In
<1>2. UNCHANGED <<store, issued, proxy, image, local>> /\ Drift
  BY <1>t, <1>1, QuietDrifts DEF proxyVars
<1>f. op[a].host \notin op[a].todo /\ \A h \in op[a].todo : <<op[a].id, h>> \notin cut'
  BY <1>t, <1>1 DEF Files, In, Working, Holding, Nonce
<1> DEFINE n == [op[a] EXCEPT !.pc = "readback"]
<1>3. \/ op[a].err /\ Goes(a, HostFailed(op[a]))
      \/ op[a].kind = "issue" /\ Goes(a, Over(op[a], "ok"))
      \/ ~op[a].err /\ op[a].kind # "issue" /\ Goes(a, n)
  BY DEF CleanEnv, Ok
<1>4. CASE Goes(a, HostFailed(op[a]))
  <2>1. /\ op' \in [Actors -> Op] /\ \A b \in Actors \ {a} : op'[b] = op[b]
        /\ HostFails(op'[a], op[a])
    BY <1>t, <1>4, HostFailedIs, GoesTurn
  <2>2. Track(a)' /\ Reports(a) /\ Keeps(a)
    BY <1>t, <1>1, <1>2, <1>f, <2>1, HostFailsTrack DEF In, Working
  <2> QED
    BY <1>2, <2>1, <2>2 DEF Does, Turns
<1>5. CASE op[a].kind = "issue" /\ Goes(a, Over(op[a], "ok"))
  <2>1. /\ op' \in [Actors -> Op] /\ \A b \in Actors \ {a} : op'[b] = op[b]
        /\ Stops(op'[a], op[a], {"ok"})
    BY <1>t, <1>5, OverIs, GoesTurn
  <2>2. Reports(a)
    BY <1>5 DEF Reports, Served, Attends, Upgraded, Renewals
  <2> QED
    BY <1>2, <2>1, <2>2, StopsTrack DEF Does, Turns, Keeps, Stops
<1>6. CASE ~op[a].err /\ op[a].kind # "issue" /\ Goes(a, n)
  <2>0. "readback" \in PCs
    BY DEF PCs
  <2>1. n \in Op /\ Kin(n, op[a]) /\ n.pc = "readback"
    BY <1>t, <2>0, GoesIs
  <2> HIDE DEF n
  <2>2. op' \in [Actors -> Op] /\ op'[a] = n /\ \A b \in Actors \ {a} : op'[b] = op[b]
    BY <1>t, <1>6, <2>1, GoesTurn
  <2>3. Kin(op'[a], op[a]) /\ op'[a].pc = "readback"
    BY <2>1, <2>2
  <2>4. /\ op'[a].kind = op[a].kind /\ op'[a].id = op[a].id
        /\ op'[a].host = op[a].host /\ op'[a].listed = op[a].listed /\ op'[a].todo = op[a].todo
        /\ op'[a].prev = op[a].prev /\ op'[a].failed = op[a].failed
        /\ op'[a].renewed = op[a].renewed /\ op'[a].wrote = op[a].wrote
    BY <2>3 DEF Kin
  <2>5. Suits(a)' /\ Upgrading(a)' /\ Reports(a) /\ Asks(a)'
    BY <1>1, <1>6, <2>3, <2>4 DEF Suits, Upgrading, Reports, Ends, At, Asks, In, Renewals
  <2>6. Attended(a)'
    BY <1>t, <1>1, <1>2, <1>6, <2>3, <2>4 DEF Attended, Settled, Has, In, Working
  <2>7. Accounted(a)'
    BY <1>t, <1>1, <2>3, <2>4 DEF Accounted, In
  <2>8. Newest(a)'
    BY <1>t, <1>2, <2>4, NewestStays
  <2>9. Files(a)'
    BY <1>f, <2>3, <2>4 DEF Files, In, Working, Holding
  <2> QED
    BY <1>2, <2>2, <2>4, <2>5, <2>6, <2>7, <2>8, <2>9 DEF Does, Turns, Keeps, Track
<1> QED
  BY <1>3, <1>4, <1>5, <1>6

LEMMA ReadDoes ==
    ASSUME Inv, NEW a \in Actors, ReadBack(a)
    PROVE  Does(a)
<1>t. /\ TypeOK /\ op[a] \in Op /\ Suits(a) /\ Attended(a) /\ Accounted(a) /\ Newest(a)
      /\ Files(a) /\ Volume
  BY DEF Inv, TypeOK
<1>1. /\ op[a].pc = "readback" /\ op[a].kind \in Renewals
      /\ UNCHANGED <<proxyVars, creds, cut, issued>>
  BY <1>t DEF ReadBack, At, Suits, In
<1>2. UNCHANGED <<store, issued, proxy, image, local>> /\ Drift
  BY <1>t, <1>1, QuietDrifts DEF proxyVars
<1>f. \A h \in op[a].todo : <<op[a].id, h>> \notin cut'
  BY <1>t, <1>1 DEF Files, In, Working, Holding
<1>h. op[a].host \in Domains /\ store \in [Domains -> Cert]
  BY <1>t DEF Op, TypeOK, ProxyTypeOK
<1> DEFINE n == [op[a] EXCEPT !.renewed = @ \cup {op[a].host}]
<1>3. \/ Goes(a, HostFailed(op[a]))
      \/ Has(op[a].host) /\ Goes(a, NextHost(IF store[op[a].host].gen # op[a].prev
                                             THEN n ELSE op[a]))
  BY DEF ReadBack, Compared
<1>4. CASE Goes(a, HostFailed(op[a]))
  <2>1. /\ op' \in [Actors -> Op] /\ \A b \in Actors \ {a} : op'[b] = op[b]
        /\ HostFails(op'[a], op[a])
    BY <1>t, <1>4, HostFailedIs, GoesTurn
  <2>2. Track(a)' /\ Reports(a) /\ Keeps(a)
    BY <1>t, <1>1, <1>2, <1>f, <2>1, HostFailsTrack DEF In, Working
  <2> QED
    BY <1>2, <2>1, <2>2 DEF Does, Turns
<1>5. CASE Has(op[a].host) /\ Goes(a, NextHost(IF store[op[a].host].gen # op[a].prev
                                               THEN n ELSE op[a]))
  <2>1. n \in Op
    BY <1>t DEF Op
  <2>2. /\ n.kind = op[a].kind /\ n.app = op[a].app /\ n.id = op[a].id
        /\ n.listed = op[a].listed /\ n.todo = op[a].todo /\ n.wrote = op[a].wrote
        /\ n.failed = op[a].failed /\ n.renewed = op[a].renewed \cup {op[a].host}
    BY <1>t DEF Op
  <2> HIDE DEF n
  <2>3. PICK q \in Op : q = IF store[op[a].host].gen # op[a].prev THEN n ELSE op[a]
    BY <1>t, <2>1
  <2>4. /\ q.kind = op[a].kind /\ q.app = op[a].app /\ q.id = op[a].id
        /\ q.listed = op[a].listed /\ q.todo = op[a].todo /\ q.wrote = op[a].wrote
        /\ q.failed = op[a].failed
        /\ op[a].renewed \subseteq q.renewed
        /\ store[op[a].host].gen # op[a].prev => op[a].host \in q.renewed
    BY <2>2, <2>3
  <2>5. NextHost(q) \in Op /\ Moves(NextHost(q), q)
    BY NextHostIs
  <2>6. op' \in [Actors -> Op] /\ op'[a] = NextHost(q) /\ \A b \in Actors \ {a} : op'[b] = op[b]
    BY <1>t, <1>5, <2>3, <2>5, GoesTurn
  <2>7. Moves(op'[a], q) /\ op'[a] \in Op
    BY <2>5, <2>6
  <2>8. q.kind = "renew_all" => \A h \in q.listed : h \in q.todo \cup q.failed \/ Settled(h)
    BY <1>t, <1>1, <2>4 DEF Attended, In
  <2>9. \A c \in q.wrote : c[1] \in q.failed \cup q.renewed
    <3> SUFFICES ASSUME NEW c \in op[a].wrote, c[1] = op[a].host, op[a].prev < c[2]
                 PROVE  op[a].host \in q.renewed
      BY <1>t, <1>1, <2>4 DEF Accounted, In
    <3>1. store[op[a].host].gen >= c[2] /\ c[2] \in Nat
      BY <1>t, <1>5 DEF Newest, Op
    <3>2. store[op[a].host].gen \in Nat /\ op[a].prev \in Nat
      BY <1>t, <1>h DEF Cert, Op
    <3> QED
      BY <2>4, <3>1, <3>2
  <2>10. Track(a)' /\ Reports(a) /\ Keeps(a)
    BY <1>1, <1>2, <1>f, <2>4, <2>7, <2>8, <2>9, MovesTrack
  <2> QED
    BY <1>2, <2>6, <2>10 DEF Does, Turns
<1> QED
  BY <1>3, <1>4, <1>5
-----------------------------------------------------------------------------
(* The steps that serve a certificate, and the other commands *)

LEMMA KamalDrifts ==
    ASSUME TypeOK, UNCHANGED issued,
           \/ UNCHANGED proxyVars \/ PullImage \/ RemoveContainer \/ StartContainer
           \/ StopContainer \/ \E u \in BOOLEAN : PurgeVolume(u)
           \/ BootContainer(TRUE) \/ BootContainer(FALSE)
           \/ \E b \in Apps : DeployRoute(b)
    PROVE  Drift
<1>t. issued \in Nat /\ proxy \in {"absent", "stopped", "running"}
  BY DEF TypeOK, ProxyTypeOK
<1>1. ASSUME UNCHANGED store, local' \in {local, Build},
             proxy' # "absent" => image' = local' \/ (proxy # "absent" /\ image' = image)
      PROVE  Drift
  BY <1>t, <1>1 DEF Drift, Stays
<1>2. CASE UNCHANGED proxyVars \/ PullImage
  BY <1>1, <1>2 DEF proxyVars, PullImage
<1>3. CASE RemoveContainer \/ StartContainer \/ StopContainer
  BY <1>1, <1>3 DEF RemoveContainer, StartContainer, StopContainer
<1>4. CASE \E u \in BOOLEAN : PurgeVolume(u)
  <2>1. PICK u \in BOOLEAN : PurgeVolume(u)
    BY <1>4
  <2>2. CASE u \/ proxy # "absent"
    BY <1>1, <2>1, <2>2 DEF PurgeVolume, proxyVars
  <2>3. CASE ~(u \/ proxy # "absent")
    <3>1. \A h \in Domains : Gone(h)
      BY <2>1, <2>3 DEF PurgeVolume, Gone, NoCert
    <3> QED
      BY <1>t, <2>1, <2>3, <3>1 DEF PurgeVolume, Drift
  <2> QED
    BY <2>2, <2>3
<1>6. CASE BootContainer(TRUE) \/ BootContainer(FALSE)
  BY <1>1, <1>6 DEF BootContainer, proxyVars
<1>7. CASE \E b \in Apps : DeployRoute(b)
  BY <1>1, <1>7 DEF DeployRoute
<1> QED
  BY <1>2, <1>3, <1>4, <1>6, <1>7

\* A command that ends.
LEMMA OverDoes ==
    ASSUME Inv, Drift, NEW a \in Actors, NEW r \in {"ok", "failed"}, Goes(a, Over(op[a], r)),
           In(a, {"find", "register"}) \/ op[a].kind \notin Renewals,
           r = "ok" => Served(a) /\ Upgraded(a)
    PROVE  Does(a)
<1>t. TypeOK /\ op[a] \in Op /\ Attended(a)
  BY DEF Inv, TypeOK
<1>1. /\ op' \in [Actors -> Op] /\ \A b \in Actors \ {a} : op'[b] = op[b]
      /\ Stops(op'[a], op[a], {r})
  BY <1>t, OverIs, GoesTurn
<1>2. Attends(a)
  BY <1>t, <1>1 DEF Attends, Attended, Stops, In, Working, Renewals
<1>3. Served(a) /\ Upgraded(a)
  BY <1>1 DEF Served, Upgraded, Stops
<1> QED
  BY <1>1, <1>2, <1>3, StopsTrack DEF Does, Turns, Keeps, Stops, Reports

\* A command that goes on at l.
LEMMA GoesOn ==
    ASSUME TypeOK, NEW a \in Actors, NEW l \in PCs, Goes(a, [op[a] EXCEPT !.pc = l])
    PROVE  /\ op' \in [Actors -> Op] /\ \A b \in Actors \ {a} : op'[b] = op[b]
           /\ Kin(op'[a], op[a]) /\ op'[a].pc = l /\ op'[a].err = op[a].err
           /\ op'[a].kind = op[a].kind
<1> DEFINE n == [op[a] EXCEPT !.pc = l]
<1>1. n \in Op /\ Kin(n, op[a]) /\ n.pc = l /\ n.err = op[a].err
  BY GoesIs DEF TypeOK
<1> HIDE DEF n
<1>2. op' \in [Actors -> Op] /\ op'[a] = n /\ \A b \in Actors \ {a} : op'[b] = op[b]
  BY <1>1, GoesTurn DEF n
<1> QED
  BY <1>1, <1>2 DEF Kin

\* What a renewal wrote is what it serves.
LEMMA OwnOnly ==
    ASSUME Inv, NEW a \in Actors, In(a, {"find", "register"}), op[a].kind \in Renewals,
           ~op[a].err, NEW c \in op[a].wrote
    PROVE  c[1] = Primary[op[a].app] /\ c[2] \in Nat /\ (Has(c[1]) => store[c[1]].gen >= c[2])
<1>t. op[a] \in Op /\ Accounted(a) /\ Newest(a)
  BY DEF Inv, TypeOK
<1> QED
  BY <1>t DEF Accounted, Newest, In, Op

LEMMA FindDoes ==
    ASSUME Inv, NEW a \in Actors, FindRunning(a)
    PROVE  Does(a)
<1>t. TypeOK /\ op[a] \in Op /\ Suits(a)
  BY DEF Inv, TypeOK
<1>1. op[a].pc = "find" /\ In(a, {"find", "register"}) /\ op[a].kind \in Renewals
  BY <1>t DEF FindRunning, At, Suits, In
<1>2. Drift
  BY <1>t, QuietDrifts DEF FindRunning, proxyVars
<1>3. \/ Goes(a, Over(op[a], "failed"))
      \/ Goes(a, [op[a] EXCEPT !.pc = "register"])
      \/ Goes(a, Over(op[a], "ok")) /\ newest[op[a].app] # "running" /\ ~op[a].err
  BY DEF FindRunning, Ended, Ok, Failed
<1>4. CASE Goes(a, Over(op[a], "failed"))
  BY <1>1, <1>2, <1>4, OverDoes
<1>5. CASE Goes(a, Over(op[a], "ok")) /\ newest[op[a].app] # "running" /\ ~op[a].err
  <2>1. Served(a) /\ Upgraded(a)
    BY <1>1, <1>5, OwnOnly DEF Served, Upgraded, Renewals
  <2> QED
    BY <1>1, <1>2, <1>5, <2>1, OverDoes
<1>6. CASE Goes(a, [op[a] EXCEPT !.pc = "register"])
  <2>1. "register" \in PCs
    BY DEF PCs
  <2>2. /\ op' \in [Actors -> Op] /\ \A b \in Actors \ {a} : op'[b] = op[b]
        /\ Kin(op'[a], op[a]) /\ op'[a].pc = "register" /\ op'[a].err = op[a].err
        /\ op'[a].kind = op[a].kind
    BY <1>t, <1>6, <2>1, GoesOn
  <2>3. Suits(a)' /\ Upgrading(a)'
    BY <1>1, <2>2 DEF Suits, Upgrading, In
  <2>4. Track(a)' /\ Reports(a) /\ Keeps(a)
    BY <1>1, <1>2, <2>2, <2>3, KinTrack DEF In, Working
  <2> QED
    BY <1>2, <2>2, <2>4 DEF Does, Turns
<1> QED
  BY <1>3, <1>4, <1>5, <1>6

LEMMA RegisterDoes ==
    ASSUME Inv, NEW a \in Actors, Register(a)
    PROVE  Does(a)
<1>t. TypeOK /\ op[a] \in Op /\ Suits(a) /\ op[a].app \in Apps
  BY DEF Inv, TypeOK, Op
<1>1. op[a].pc = "register" /\ In(a, {"find", "register"}) /\ op[a].kind \in Renewals \cup {"start"}
  BY <1>t DEF Register, At, Suits, In
<1>2. Drift
  BY <1>t, KamalDrifts DEF Register
<1>3. \/ Goes(a, Over(op[a], "failed"))
      \/ /\ Goes(a, Over(op[a], "ok")) /\ Registers(op[a].app) /\ DeployRoute(op[a].app)
         /\ ~op[a].err
  BY DEF Register, Ended, Ok, Failed, Executed
<1>4. CASE Goes(a, Over(op[a], "failed"))
  BY <1>1, <1>2, <1>4, OverDoes
<1>5. CASE /\ Goes(a, Over(op[a], "ok")) /\ Registers(op[a].app) /\ DeployRoute(op[a].app)
           /\ ~op[a].err
  <2>1. Has(Primary[op[a].app])
    BY <1>5 DEF Registers, Loads
  <2>2. served'[op[a].app] = store[Primary[op[a].app]].gen
    BY <1>t, <1>5 DEF DeployRoute, TypeOK, ProxyTypeOK
  <2>3. Served(a)
    BY <1>1, <1>5, <2>1, <2>2, OwnOnly DEF Served
  <2>4. Upgraded(a)
    BY <1>1 DEF Upgraded, Renewals
  <2> QED
    BY <1>1, <1>2, <1>5, <2>3, <2>4, OverDoes
<1> QED
  BY <1>3, <1>4, <1>5

\* A command that is no renewal and no upgrade ends.
LEMMA PlainDoes ==
    ASSUME Inv, Drift, NEW a \in Actors, op[a].kind \notin Renewals \cup {"upgrade"},
           Goes(a, Over(op[a], "ok")) \/ Goes(a, Over(op[a], "failed"))
    PROVE  Does(a)
<1>1. Served(a) /\ Upgraded(a)
  BY DEF Served, Upgraded
<1> QED
  BY <1>1, OverDoes

\* A command of another kind goes on.
LEMMA PlainGoes ==
    ASSUME Inv, Drift, NEW a \in Actors, Suits(a), op[a].kind \notin Renewals,
           NEW l \in PCs, Goes(a, [op[a] EXCEPT !.pc = l]),
           ~In(a, Working \cup {"list"}), l \notin Working \cup {"list", "find", "idle"},
           \/ l = "register" /\ op[a].kind = "start"
           \/ l \in {"up", "ensure"} /\ op[a].kind = "start"
           \/ l = "startproxy" /\ op[a].kind = "proxy_restart"
           \/ l = "purge" /\ op[a].kind = "purge"
           \/ l = "boot" /\ op[a].kind = "boot"
           \/ l = "rm" /\ op[a].kind = "upgrade" /\ local' = Build
    PROVE  Does(a)
<1>1. /\ op' \in [Actors -> Op] /\ \A b \in Actors \ {a} : op'[b] = op[b]
      /\ Kin(op'[a], op[a]) /\ op'[a].pc = l /\ op'[a].err = op[a].err
      /\ op'[a].kind = op[a].kind
  BY GoesOn DEF Inv
<1>2. Suits(a)'
  BY <1>1 DEF Suits, In
<1>3. Upgrading(a)'
  BY <1>1 DEF Upgrading, In
<1>4. Track(a)' /\ Reports(a) /\ Keeps(a)
  BY <1>1, <1>2, <1>3, KinTrack
<1> QED
  BY <1>1, <1>4 DEF Does, Turns

LEMMA RemoveDoes ==
    ASSUME Inv, NEW a \in Actors, RemoveCert(a)
    PROVE  Does(a)
<1>t. TypeOK /\ op[a] \in Op /\ Suits(a)
  BY DEF Inv, TypeOK
<1>1. op[a].kind = "remove"
  BY <1>t DEF RemoveCert, At, Suits, In
<1>2. Drift
  <2>1. \A h \in Domains : Gone(h) \/ Stays(h)
    BY <1>t DEF RemoveCert, Gone, Stays, NoCert, TypeOK, ProxyTypeOK
  <2> QED
    BY <1>t, <2>1 DEF RemoveCert, Drift, TypeOK
<1>3. Goes(a, Over(op[a], "ok")) \/ Goes(a, Over(op[a], "failed"))
  BY DEF RemoveCert, Ok, Failed
<1> QED
  BY <1>1, <1>2, <1>3, PlainDoes DEF Renewals

LEMMA StartDoes ==
    ASSUME Inv, NEW a \in Actors, StartFinds(a) \/ StartApp(a) \/ EnsureRunning(a)
    PROVE  Does(a)
<1>t. TypeOK /\ op[a] \in Op /\ Suits(a)
  BY DEF Inv, TypeOK
<1>1. In(a, {"look", "up", "ensure"}) /\ op[a].kind = "start"
  BY <1>t DEF StartFinds, StartApp, EnsureRunning, At, Suits, In
<1>2. Drift
  BY <1>t, QuietDrifts DEF StartFinds, StartApp, EnsureRunning, proxyVars
<1>3. \/ Goes(a, Over(op[a], "failed"))
      \/ \E l \in {"up", "ensure", "register"} : Goes(a, [op[a] EXCEPT !.pc = l])
  BY DEF StartFinds, StartApp, EnsureRunning, Failed
<1>4. CASE Goes(a, Over(op[a], "failed"))
  BY <1>1, <1>2, <1>4, PlainDoes DEF Renewals
<1>5. CASE \E l \in {"up", "ensure", "register"} : Goes(a, [op[a] EXCEPT !.pc = l])
  <2>1. PICK l \in {"up", "ensure", "register"} : Goes(a, [op[a] EXCEPT !.pc = l])
    BY <1>5
  <2>2. /\ l \in PCs /\ l \notin Working \cup {"list", "find", "idle"}
        /\ ~In(a, Working \cup {"list"}) /\ op[a].kind \notin Renewals
    BY <1>1 DEF PCs, Working, In, Renewals
  <2> QED
    BY <1>t, <1>1, <1>2, <2>1, <2>2, PlainGoes
<1> QED
  BY <1>3, <1>4, <1>5

LEMMA StopAppDoes ==
    ASSUME Inv, NEW a \in Actors, StopApp(a)
    PROVE  Does(a)
<1>t. TypeOK /\ op[a] \in Op /\ Suits(a)
  BY DEF Inv, TypeOK
<1>1. op[a].kind = "stop"
  BY <1>t DEF StopApp, At, Suits, In
<1>2. Drift
  BY <1>t, QuietDrifts DEF StopApp, proxyVars
<1>3. Goes(a, Over(op[a], "ok")) \/ Goes(a, Over(op[a], "failed"))
  BY DEF StopApp, Ok, Failed
<1> QED
  BY <1>1, <1>2, <1>3, PlainDoes DEF Renewals

LEMMA PullDoes ==
    ASSUME Inv, NEW a \in Actors, PullProxyImage(a)
    PROVE  Does(a)
<1>t. TypeOK /\ op[a] \in Op /\ Suits(a)
  BY DEF Inv, TypeOK
<1>1. /\ op[a].kind \in {"boot", "upgrade"} /\ op[a].kind \notin Renewals
      /\ ~In(a, Working \cup {"list"})
  BY <1>t DEF PullProxyImage, At, Suits, In, Renewals, Working
<1>2. Drift
  BY <1>t, KamalDrifts DEF PullProxyImage
<1>3. \/ Goes(a, Over(op[a], "failed"))
      \/ op[a].kind = "upgrade" /\ local' = Build /\ Goes(a, [op[a] EXCEPT !.pc = "rm"])
      \/ op[a].kind = "boot" /\ Goes(a, [op[a] EXCEPT !.pc = "boot"])
  BY <1>1 DEF PullProxyImage, Failed, Executed, PullImage
<1>4. CASE Goes(a, Over(op[a], "failed"))
  BY <1>1, <1>2, <1>4, OverDoes
<1>5. "rm" \in PCs /\ "boot" \in PCs /\ {"rm", "boot"} \cap (Working \cup {"list", "find", "idle"}) = {}
  BY DEF PCs, Working
<1>6. CASE op[a].kind = "upgrade" /\ local' = Build /\ Goes(a, [op[a] EXCEPT !.pc = "rm"])
  BY <1>t, <1>1, <1>2, <1>5, <1>6, PlainGoes
<1>7. CASE op[a].kind = "boot" /\ Goes(a, [op[a] EXCEPT !.pc = "boot"])
  BY <1>t, <1>1, <1>2, <1>5, <1>7, PlainGoes
<1> QED
  BY <1>3, <1>4, <1>6, <1>7

LEMMA ProxyRemoveDoes ==
    ASSUME Inv, NEW a \in Actors, ProxyRemove(a)
    PROVE  Does(a)
<1>t. TypeOK /\ op[a] \in Op /\ Suits(a) /\ Upgrading(a)
  BY DEF Inv, TypeOK
<1>1. /\ op[a].kind \in {"upgrade", "proxy_remove", "purge"} /\ op[a].kind \notin Renewals
      /\ ~In(a, Working \cup {"list"}) /\ In(a, {"rm", "boot"})
  BY <1>t DEF ProxyRemove, At, Suits, In, Renewals, Working
<1>2. Drift
  BY <1>t, KamalDrifts DEF ProxyRemove
<1> DEFINE n(l, k) == [op[a] EXCEPT !.pc = l, !.stuck = k]
<1>3. \/ Goes(a, Over(op[a], "failed"))
      \/ op[a].kind = "proxy_remove" /\ Goes(a, Over(op[a], "ok"))
      \/ \E l \in {"purge", "boot"}, k \in BOOLEAN :
           /\ Goes(a, n(l, k))
           /\ l = "purge" => op[a].kind = "purge"
           /\ l = "boot" => op[a].kind = "upgrade" /\ local' = local /\ (k \/ proxy' = "absent")
  <2>1. PICK x \in HiddenOutcomes :
          /\ IF Executed(x) THEN RemoveContainer ELSE UNCHANGED proxyVars
          /\ Goes(a, IF x \notin {"ok", "hidden"} THEN Failed(op[a])
                     ELSE IF op[a].kind = "proxy_remove" THEN Ok(op[a])
                     ELSE n(IF op[a].kind = "purge" THEN "purge" ELSE "boot", x = "hidden"))
    BY DEF ProxyRemove
  <2>2. local' = local /\ (x = "ok" => proxy' = "absent")
    BY <2>1 DEF Executed, RemoveContainer, proxyVars
  <2> HIDE DEF n
  <2>3. (x = "hidden") \in BOOLEAN /\ (x \in {"ok", "hidden"} /\ x # "hidden" => x = "ok")
    OBVIOUS
  <2> QED
    BY <1>1, <2>1, <2>2, <2>3 DEF Ok, Failed
<1>4. CASE Goes(a, Over(op[a], "failed"))
  BY <1>1, <1>2, <1>4, OverDoes
<1>5. CASE op[a].kind = "proxy_remove" /\ Goes(a, Over(op[a], "ok"))
  BY <1>2, <1>5, PlainDoes DEF Renewals
<1>6. CASE \E l \in {"purge", "boot"}, k \in BOOLEAN :
             /\ Goes(a, n(l, k))
             /\ l = "purge" => op[a].kind = "purge"
             /\ l = "boot" => op[a].kind = "upgrade" /\ local' = local /\ (k \/ proxy' = "absent")
  <2>1. PICK l \in {"purge", "boot"}, k \in BOOLEAN :
          /\ Goes(a, n(l, k))
          /\ l = "purge" => op[a].kind = "purge"
          /\ l = "boot" => op[a].kind = "upgrade" /\ local' = local /\ (k \/ proxy' = "absent")
    BY <1>6
  <2>2. l \in PCs /\ l \notin Working \cup {"list", "find", "idle", "register"}
    BY DEF PCs, Working
  <2>3. n(l, k) \in Op
    BY <1>t, <2>2 DEF Op
  <2>4. n(l, k).stuck = k /\ n(l, k).err = op[a].err
    BY <1>t DEF Op
  <2>5. LET m == n(l, k) IN
          /\ m.pc = l /\ m.kind = op[a].kind /\ m.listed = op[a].listed /\ m.todo = op[a].todo
          /\ m.wrote = op[a].wrote /\ m.failed = op[a].failed /\ m.renewed = op[a].renewed
          /\ m.id = op[a].id
    BY <1>t DEF Op
  <2>6. PICK q \in Op : q = n(l, k)
    BY <2>3
  <2> HIDE DEF n
  <2>7. op' \in [Actors -> Op] /\ op'[a] = q /\ \A b \in Actors \ {a} : op'[b] = op[b]
    BY <1>t, <2>1, <2>6, GoesTurn
  <2>8. /\ op'[a].stuck = k /\ op'[a].err = op[a].err
        /\ op'[a].pc = l /\ op'[a].kind = op[a].kind
        /\ op'[a].listed = op[a].listed /\ op'[a].todo = op[a].todo
        /\ op'[a].wrote = op[a].wrote /\ op'[a].failed = op[a].failed
        /\ op'[a].renewed = op[a].renewed /\ op'[a].id = op[a].id
    BY <2>4, <2>5, <2>6, <2>7
  <2>9. Suits(a)'
    BY <1>1, <2>1, <2>2, <2>8 DEF Suits, In, Working
  <2>10. Upgrading(a)'
    BY <1>t, <1>1, <2>1, <2>8 DEF Upgrading, In
  <2>11. Newest(a)'
    BY <1>t, <1>2, <2>8, NewestStays DEF Inv
  <2>12. Attended(a)' /\ Accounted(a)'
    BY <1>1, <2>2, <2>8 DEF Attended, Accounted, In, Working, Renewals
  <2>13. Asks(a)' /\ Files(a)' /\ Reports(a)
    BY <2>1, <2>8 DEF Asks, Files, Reports, Ends, At, In, Working, Holding
  <2> QED
    BY <1>2, <2>7, <2>8, <2>9, <2>10, <2>11, <2>12, <2>13 DEF Does, Turns, Keeps, Track
<1> QED
  BY <1>3, <1>4, <1>5, <1>6

LEMMA PurgeDoes ==
    ASSUME Inv, NEW a \in Actors, ProxyPurge(a) \/ ProxyStart(a)
    PROVE  Does(a)
<1>t. TypeOK /\ op[a] \in Op /\ Suits(a)
  BY DEF Inv, TypeOK
<1>1. op[a].kind \notin Renewals \cup {"upgrade"}
  BY <1>t DEF ProxyPurge, ProxyStart, At, Suits, In, Renewals
<1>2. Drift
  <2>1. CASE ProxyPurge(a)
    <3>1. UNCHANGED proxyVars \/ PurgeVolume(TRUE) \/ PurgeVolume(FALSE)
      BY <2>1 DEF ProxyPurge, PurgeVolume
    <3> QED
      BY <1>t, <2>1, <3>1, KamalDrifts DEF ProxyPurge
  <2>2. CASE ProxyStart(a)
    BY <1>t, <2>2, KamalDrifts DEF ProxyStart
  <2> QED
    BY <2>1, <2>2
<1>3. Goes(a, Over(op[a], "ok")) \/ Goes(a, Over(op[a], "failed"))
  BY DEF ProxyPurge, ProxyStart, Ok, Failed
<1> QED
  BY <1>1, <1>2, <1>3, PlainDoes

LEMMA BootDoes ==
    ASSUME Inv, NEW a \in Actors, ProxyBoot(a)
    PROVE  Does(a)
<1>t. TypeOK /\ op[a] \in Op /\ Suits(a) /\ Upgrading(a)
  BY DEF Inv, TypeOK
<1>1. /\ op[a].pc = "boot" /\ op[a].kind \in {"boot", "upgrade"} /\ op[a].kind \notin Renewals
      /\ In(a, {"boot"}) /\ In(a, {"rm", "boot"})
  BY <1>t DEF ProxyBoot, At, Suits, In, Renewals
<1>2. Drift
  <2>1. BootContainer(TRUE) \/ BootContainer(FALSE) \/ UNCHANGED proxyVars
    BY DEF ProxyBoot
  <2> QED
    BY <1>t, <2>1, KamalDrifts DEF ProxyBoot
<1>3. \/ Goes(a, Over(op[a], "failed"))
      \/ /\ Goes(a, Over(op[a], "ok"))
         /\ BootContainer(TRUE) \/ (BootContainer(FALSE) /\ proxy = "running")
  BY DEF ProxyBoot, Ok, Failed, Executed
<1>4. CASE Goes(a, Over(op[a], "failed"))
  BY <1>1, <1>2, <1>4, OverDoes
<1>5. CASE /\ Goes(a, Over(op[a], "ok"))
           /\ BootContainer(TRUE) \/ (BootContainer(FALSE) /\ proxy = "running")
  <2>1. op[a].kind = "upgrade" => proxy' = "running" /\ (image' = Build \/ op[a].stuck)
    BY <1>t, <1>1, <1>5 DEF Upgrading, BootContainer, proxyVars
  <2>2. Served(a) /\ Upgraded(a)
    BY <1>1, <2>1 DEF Served, Upgraded
  <2> QED
    BY <1>1, <1>2, <1>5, <2>2, OverDoes
<1> QED
  BY <1>3, <1>4, <1>5

LEMMA ProxyStopDoes ==
    ASSUME Inv, NEW a \in Actors, ProxyStop(a)
    PROVE  Does(a)
<1>t. TypeOK /\ op[a] \in Op /\ Suits(a)
  BY DEF Inv, TypeOK
<1>1. /\ op[a].kind \in {"proxy_stop", "proxy_restart"}
      /\ op[a].kind \notin Renewals \cup {"upgrade"} /\ ~In(a, Working \cup {"list"})
  BY <1>t DEF ProxyStop, At, Suits, In, Renewals, Working
<1>2. Drift
  BY <1>t, KamalDrifts DEF ProxyStop
<1>3. \/ Goes(a, Over(op[a], "ok")) \/ Goes(a, Over(op[a], "failed"))
      \/ op[a].kind = "proxy_restart" /\ Goes(a, [op[a] EXCEPT !.pc = "startproxy"])
  BY <1>1 DEF ProxyStop, Ok, Failed
<1>4. CASE Goes(a, Over(op[a], "ok")) \/ Goes(a, Over(op[a], "failed"))
  BY <1>1, <1>2, <1>4, PlainDoes
<1>5. CASE op[a].kind = "proxy_restart" /\ Goes(a, [op[a] EXCEPT !.pc = "startproxy"])
  <2>1. "startproxy" \in PCs /\ "startproxy" \notin Working \cup {"list", "find", "idle"}
    BY DEF PCs, Working
  <2> QED
    BY <1>t, <1>1, <1>2, <1>5, <2>1, PlainGoes
<1> QED
  BY <1>3, <1>4, <1>5
-----------------------------------------------------------------------------
(* A command begins, or is killed *)

\* The first step of each kind.
Starts(kind, pc) ==
    \/ kind = "issue" /\ pc = "push"
    \/ kind \in {"renew", "renew_host"} /\ pc = "info"
    \/ kind = "renew_all" /\ pc = "list"
    \/ kind = "remove" /\ pc = "unlink"
    \/ kind = "start" /\ pc = "look"
    \/ kind = "stop" /\ pc = "down"
    \/ kind \in {"boot", "upgrade"} /\ pc = "pull"
    \/ kind \in {"proxy_stop", "proxy_restart"} /\ pc = "stopproxy"
    \/ kind = "proxy_start" /\ pc = "startproxy"
    \/ kind \in {"proxy_remove", "purge"} /\ pc = "rm"

Blank(n) ==
    /\ n.listed = {} /\ n.todo = {} /\ n.prev = 0 /\ n.failed = {} /\ n.renewed = {}
    /\ n.wrote = {} /\ n.err = FALSE

LEMMA BeginsDoes ==
    ASSUME Inv, NEW a \in Actors, NEW kind \in AllKinds, NEW app \in Apps, NEW first \in Op,
           Blank(first), Starts(kind, first.pc), Begins(a, kind, app, first)
    PROVE  /\ Turns(a) /\ op[a].pc = "idle" /\ op'[a].id = began + 1 /\ began' = began + 1
           /\ began + 1 \in 0..MaxOps /\ UNCHANGED <<proxyVars, newest, late, creds, cut, issued>>
<1>t. TypeOK /\ Numbered /\ MaxOps \in Nat
  BY CertAssumption DEF Inv
<1>1. /\ op[a].pc = "idle" /\ began < MaxOps /\ began' = began + 1
      /\ UNCHANGED <<proxyVars, newest, late, creds, cut, issued>>
  BY DEF Begins, At
<1>2. began + 1 \in 0..MaxOps /\ began \in Nat
  BY <1>t, <1>1 DEF TypeOK
<1> DEFINE n == [first EXCEPT !.kind = kind, !.app = app, !.id = began + 1]
<1>3. n \in Op
  BY <1>2 DEF Op
<1>4. n.err = first.err
  BY DEF Op
<1>5. /\ n.kind = kind /\ n.id = began + 1 /\ n.pc = first.pc
      /\ n.listed = {} /\ n.todo = {} /\ n.prev = 0 /\ n.failed = {} /\ n.renewed = {}
      /\ n.wrote = {}
  BY DEF Op, Blank
<1>6. PICK q \in Op : q = n
  BY <1>3
<1> HIDE DEF n
<1>7. op' \in [Actors -> Op] /\ op'[a] = q /\ \A b \in Actors \ {a} : op'[b] = op[b]
  BY <1>t, <1>6, GoesTurn DEF Begins, n
<1>8. /\ op'[a].kind = kind /\ op'[a].id = began + 1 /\ op'[a].pc = first.pc
      /\ op'[a].listed = {} /\ op'[a].todo = {} /\ op'[a].prev = 0 /\ op'[a].wrote = {}
  BY <1>5, <1>6, <1>7
<1>9. Drift
  BY <1>t, <1>1, QuietDrifts DEF proxyVars
<1>10. Suits(a)' /\ Upgrading(a)'
  BY <1>8 DEF Suits, Upgrading, Starts, In, Renewals
<1>11. Attended(a)'
  BY <1>8 DEF Attended, Starts, In
<1>12. Accounted(a)'
  <2>1. 0 <= issued'
    BY <1>t, <1>1 DEF TypeOK
  <2> QED
    BY <1>8, <2>1 DEF Accounted, Starts, In
<1>13. Newest(a)' /\ Asks(a)'
  BY <1>8 DEF Newest, Asks, Starts, In
<1>14. Files(a)'
  <2>1. ASSUME NEW h PROVE <<began + 1, h>> \notin cut'
    BY <1>t, <1>1, <1>2 DEF TypeOK, Numbered
  <2> QED
    BY <1>8, <2>1 DEF Files, Starts, In, Working, Holding, Nonce
<1>15. Reports(a)
  BY <1>1 DEF Reports, Ends, At
<1> QED
  BY <1>1, <1>2, <1>7, <1>8, <1>9, <1>10, <1>11, <1>12, <1>13, <1>14, <1>15 DEF Turns, Track

Begin(a) ==
    \/ \E b \in Apps :
         BeginApp(a, b) \/ \E h \in Domains : BeginIssue(a, b, h) \/ BeginRenew(a, b, h)
    \/ BeginProxy(a) \/ \E h \in Domains : BeginRemove(a, h)

\* Each begins as one of Starts, with nothing done.
LEMMA BeginIs ==
    ASSUME NEW a \in Actors, Begin(a)
    PROVE  \E kind \in AllKinds, app \in Apps, first \in Op :
             Blank(first) /\ Starts(kind, first.pc) /\ Begins(a, kind, app, first)
<1>i. Idle \in Op /\ Idle.app \in Apps /\ Blank(Idle)
  BY IdleIs DEF Op, Blank
<1>p. ASSUME NEW l \in PCs
      PROVE  /\ [Idle EXCEPT !.pc = l] \in Op /\ Blank([Idle EXCEPT !.pc = l])
             /\ [Idle EXCEPT !.pc = l].pc = l
  BY <1>i DEF Op, Blank
<1>1. CASE \E b \in Apps, h \in Domains : BeginIssue(a, b, h)
  <2>1. PICK b \in Apps, h \in Domains : BeginIssue(a, b, h)
    BY <1>1
  <2>2. PICK names \in {{h}, {h} \cup AppNames(b)}, env \in Envs :
          Begins(a, "issue", Idle.app, [Idle EXCEPT !.host = h, !.names = names, !.env = env, !.pc = "push"])
    BY <2>1 DEF BeginIssue
  <2> DEFINE f == [Idle EXCEPT !.host = h, !.names = names, !.env = env, !.pc = "push"]
  <2>3. names \in SUBSET Nat /\ env \in BOOLEAN
    BY CertAssumption, DomainsAre DEF AppNames
  <2>4. f \in Op
    <3>1. "push" \in PCs
      BY DEF PCs
    <3> QED
      BY <1>i, <2>3, <3>1 DEF Op
  <2>5. Blank(f) /\ f.pc = "push"
    BY <1>i DEF Op, Blank
  <2> HIDE DEF f
  <2> QED
    BY <1>i, <2>2, <2>4, <2>5 DEF Starts, AllKinds, CertKinds, f
<1>2. CASE \E b \in Apps, h \in Domains : BeginRenew(a, b, h)
  <2>1. PICK b \in Apps, h \in Domains : BeginRenew(a, b, h)
    BY <1>2
  <2>2. PICK kind \in Renewals, env \in Envs :
          Begins(a, kind, b,
                 [Idle EXCEPT !.host = h, !.env = env,
                              !.names = IF kind = "renew" THEN AppNames(b) ELSE {h},
                              !.pc = IF kind = "renew_all" THEN "list" ELSE "info"])
    BY <2>1 DEF BeginRenew
  <2> DEFINE names == IF kind = "renew" THEN AppNames(b) ELSE {h}
             l == IF kind = "renew_all" THEN "list" ELSE "info"
             f == [Idle EXCEPT !.host = h, !.env = env, !.names = names, !.pc = l]
  <2>3. names \in SUBSET Nat /\ env \in BOOLEAN
    BY CertAssumption, DomainsAre DEF AppNames
  <2>4. l \in PCs /\ Starts(kind, l) /\ kind \in AllKinds
    BY DEF PCs, Starts, Renewals, AllKinds, CertKinds
  <2> HIDE DEF names, l
  <2>5. f \in Op
    BY <1>i, <2>3, <2>4 DEF Op
  <2>6. Blank(f) /\ f.pc = l
    BY <1>i DEF Op, Blank
  <2>7. Begins(a, kind, b, f)
    BY <2>2 DEF names, l
  <2> HIDE DEF f
  <2> QED
    BY <2>4, <2>5, <2>6, <2>7
<1>3. CASE \E h \in Domains : BeginRemove(a, h)
  <2>1. PICK h \in Domains : Begins(a, "remove", Idle.app, [Idle EXCEPT !.host = h, !.pc = "unlink"])
    BY <1>3 DEF BeginRemove
  <2> DEFINE f == [Idle EXCEPT !.host = h, !.pc = "unlink"]
  <2>2. f \in Op
    BY <1>i DEF Op, PCs
  <2>3. Blank(f) /\ f.pc = "unlink"
    BY <1>i DEF Op, Blank
  <2> HIDE DEF f
  <2> QED
    BY <1>i, <2>1, <2>2, <2>3 DEF Starts, AllKinds, CertKinds, f
<1>4. CASE \E b \in Apps : BeginApp(a, b)
  <2>1. "look" \in PCs /\ "down" \in PCs
    BY DEF PCs
  <2>2. PICK b \in Apps : BeginApp(a, b)
    BY <1>4
  <2>3. \/ Begins(a, "start", b, [Idle EXCEPT !.pc = "look"])
        \/ Begins(a, "stop", b, [Idle EXCEPT !.pc = "down"])
    BY <2>2 DEF BeginApp
  <2>4. "start" \in AllKinds /\ "stop" \in AllKinds /\ Starts("start", "look") /\ Starts("stop", "down")
    BY DEF AllKinds, Starts
  <2> QED
    BY <1>p, <2>1, <2>3, <2>4
<1>5. CASE BeginProxy(a)
  <2>1. PICK kind \in ProxyKinds :
          Begins(a, kind, Idle.app, [Idle EXCEPT !.pc = ProxyFirst(kind)])
    BY <1>5 DEF BeginProxy
  <2>2. ProxyFirst(kind) \in PCs /\ Starts(kind, ProxyFirst(kind)) /\ kind \in AllKinds
    BY DEF ProxyKinds, ProxyFirst, PCs, Starts, AllKinds
  <2> QED
    BY <1>i, <1>p, <2>1, <2>2
<1> QED
  BY <1>1, <1>2, <1>3, <1>4, <1>5 DEF Begin

LEMMA CrashDoes ==
    ASSUME Inv, NEW a \in Actors, Crash(a)
    PROVE  Does(a) /\ op'[a] = Idle
<1>t. TypeOK
  BY DEF Inv
<1>1. op' \in [Actors -> Op] /\ op'[a] = Idle /\ \A b \in Actors \ {a} : op'[b] = op[b]
  BY <1>t, IdleIs, GoesTurn DEF Crash
<1>2. Stops(op'[a], Idle, {"none"})
  BY <1>1, IdleIs DEF Stops
<1>3. Reports(a)
  BY <1>1, IdleIs DEF Reports, Ends
<1>4. Drift
  BY <1>t, QuietDrifts DEF Crash, proxyVars
<1> QED
  BY <1>1, <1>2, <1>3, <1>4, StopsTrack DEF Does, Turns, Keeps, Stops

\* Every step is one of these.
LEMMA StepDoes ==
    ASSUME Inv, NEW a \in Actors, Step(a)
    PROVE  Does(a)
BY ListDoes, InfoDoes, PushDoes, StartLegoDoes, EndLegoDoes, PermsDoes, CleanDoes, ReadDoes,
   FindDoes, RegisterDoes, RemoveDoes, StartDoes, StopAppDoes, PullDoes, ProxyRemoveDoes, PurgeDoes,
   BootDoes, ProxyStopDoes DEF Step
-----------------------------------------------------------------------------
(* The invariant *)

Held(n) == n.pc \in Holding

\* What a step of the command in progress does to the credential files: one
\* that comes is a's and is held or cut, one that goes is a's, and what a
\* lets go of is cut or gone.
LEMMA StepFiles ==
    ASSUME Inv, NEW a \in Actors, Step(a)
    PROVE  /\ began' = began /\ op[a].pc # "idle"
           /\ cut \subseteq cut' /\ cut' \subseteq cut \cup {Nonce(op[a])}
           /\ creds \subseteq creds' \cup {Nonce(op[a])}
           /\ creds' \subseteq creds \cup {Nonce(op[a])}
           /\ cut' \subseteq creds'
           /\ Nonce(op[a]) \in creds' =>
                \/ Nonce(op[a]) \in cut'
                \/ Held(op'[a]) /\ Nonce(op'[a]) = Nonce(op[a])
                \/ Nonce(op[a]) \in creds /\ ~Held(op[a])
<1>t. TypeOK /\ op[a] \in Op /\ Files(a) /\ cut \subseteq creds
  BY DEF Inv, TypeOK
<1>1. CASE PushEnv(a)
  <2>1. op[a].pc = "push" /\ began' = began
    BY <1>1 DEF PushEnv, At
  <2>2. \/ /\ creds' \subseteq creds \cup {Nonce(op[a])} /\ creds \subseteq creds'
           /\ cut' = cut /\ Goes(a, [op[a] EXCEPT !.pc = "lego"])
        \/ /\ creds' = creds \cup {Nonce(op[a])} /\ cut' = cut \cup {Nonce(op[a])}
        \/ creds' = creds /\ cut' = cut
    BY <1>1 DEF PushEnv, Executed
  <2>3. ASSUME Goes(a, [op[a] EXCEPT !.pc = "lego"])
        PROVE  Held(op'[a]) /\ Nonce(op'[a]) = Nonce(op[a])
    <3>1. "lego" \in PCs
      BY DEF PCs
    <3>2. Kin(op'[a], op[a]) /\ op'[a].pc = "lego"
      BY <1>t, <2>3, <3>1, GoesOn
    <3> QED
      BY <3>2 DEF Kin, Held, Holding, Nonce
  <2> QED
    BY <1>t, <2>1, <2>2, <2>3 DEF Held, Holding
<1>2. CASE StartLego(a) \/ EndLego(a)
  <2>1. op[a].pc \in Holding /\ began' = began /\ creds' = creds /\ cut' = cut
    BY <1>2 DEF StartLego, EndLego, At, Holding
  <2>3. Held(op'[a]) /\ Nonce(op'[a]) = Nonce(op[a])
    BY <1>2, StartLegoDoes, EndLegoDoes DEF Holds, Held, Nonce
  <2> QED
    BY <1>t, <2>1, <2>3 DEF Holding
<1>3. CASE FixCertPerms(a)
  <2>1. op[a].pc = "perms" /\ began' = began /\ creds' = creds /\ cut' = cut
    BY <1>3 DEF FixCertPerms, At
  <2>2. PICK x \in Outcomes : Goes(a, [op[a] EXCEPT !.pc = "clean", !.err = x # "ok"])
    BY <1>3 DEF FixCertPerms
  <2>3. Held(op'[a]) /\ Nonce(op'[a]) = Nonce(op[a])
    BY <1>t, <2>2 DEF Goes, Held, Holding, Nonce, TypeOK, Op
  <2> QED
    BY <1>t, <2>1, <2>3
<1>4. CASE CleanEnv(a)
  <2>1. op[a].pc = "clean" /\ began' = began
    BY <1>4 DEF CleanEnv, At
  <2>2. Nonce(op[a]) \notin cut /\ (op[a].env => Nonce(op[a]) \in creds)
    BY <1>t, <2>1 DEF Files, In, Working, Holding
  <2>3. \/ creds' = creds \ {Nonce(op[a])} /\ cut' = cut
        \/ creds' = creds /\ cut' = cut \cup {Nonce(op[a])} /\ op[a].env
    BY <1>4 DEF CleanEnv, Executed
  <2> QED
    BY <1>t, <2>1, <2>2, <2>3
<1>5. CASE ~(PushEnv(a) \/ StartLego(a) \/ EndLego(a) \/ FixCertPerms(a) \/ CleanEnv(a))
  <2>1. /\ began' = began /\ creds' = creds /\ cut' = cut
        /\ op[a].pc \notin {"idle"} \cup Holding
    BY <1>5 DEF Step, ListCerts, CertInfo, ReadBack, FindRunning, Register, RemoveCert,
                StartFinds, StartApp, EnsureRunning, StopApp, PullProxyImage, ProxyRemove,
                ProxyPurge, ProxyBoot, ProxyStart, ProxyStop, At, Holding
  <2> QED
    BY <1>t, <2>1 DEF Held
<1> QED
  BY <1>1, <1>2, <1>3, <1>4, <1>5

\* The step that begins a command, and the one that goes on with it.
LEMMA TurnFiles ==
    ASSUME Inv, NEW a \in Actors, Begin(a) \/ Step(a) \/ Crash(a)
    PROVE  /\ Turns(a)
           /\ NoStrayCredentials' /\ Numbered' /\ cut' \subseteq creds' /\ creds' \subseteq Nonces
           /\ began' \in 0..MaxOps
           /\ \A b \in Actors \ {a} : Files(b)'
<1>t. /\ TypeOK /\ op[a] \in Op /\ Numbered /\ NoStrayCredentials
      /\ cut \subseteq creds /\ creds \subseteq Nonces /\ began \in 0..MaxOps
      /\ MaxOps \in Nat
  BY CertAssumption DEF Inv, TypeOK
<1>ids. \A b \in Actors : op[b].id \in 0..MaxOps
  BY <1>t DEF TypeOK, Op
<1>1. CASE Begin(a)
  <2>1. PICK kind \in AllKinds, app \in Apps, first \in Op :
          Blank(first) /\ Starts(kind, first.pc) /\ Begins(a, kind, app, first)
    BY <1>1, BeginIs
  <2>2. /\ Turns(a) /\ op[a].pc = "idle" /\ op'[a].id = began + 1 /\ began' = began + 1
        /\ began + 1 \in 0..MaxOps /\ UNCHANGED <<creds, cut>>
    BY <2>1, BeginsDoes
  <2>3. \A b \in Actors \ {a} : op'[b] = op[b]
    BY <2>2 DEF Turns
  <2>4. NoStrayCredentials'
    <3> SUFFICES ASSUME NEW n \in creds, n \notin cut
                 PROVE  \E b \in Actors : op'[b].pc \in Holding /\ n = Nonce(op'[b])
      BY <2>2 DEF NoStrayCredentials, Holding
    <3>1. PICK b \in Actors : op[b].pc \in Holding /\ n = Nonce(op[b])
      BY <1>t DEF NoStrayCredentials, Holding
    <3>2. op'[b] = op[b]
      BY <2>2, <2>3, <3>1 DEF Holding
    <3> QED
      BY <3>1, <3>2
  <2>5. Numbered'
    <3>1. \A b \in Actors \ {a} : op[b].id <= began
      BY <1>t DEF Numbered
    <3>2. \A n \in creds : n[1] \in Nat /\ n[1] <= began
      BY <1>t DEF Numbered, Nonces
    <3>3. \A b \in Actors : op'[b].id <= began' /\ (op'[b].pc # "idle" => op'[b].id # 0)
      BY <1>t, <1>ids, <2>2, <2>3, <3>1 DEF Numbered
    <3>4. \A b, c \in Actors : b # c /\ op'[b].id = op'[c].id => op'[b].id = 0
      BY <1>t, <1>ids, <2>2, <2>3, <3>1 DEF Numbered
    <3>5. \A n \in creds' : n[1] <= began'
      BY <1>t, <2>2, <3>2
    <3> QED
      BY <3>3, <3>4, <3>5 DEF Numbered
  <2>6. \A b \in Actors \ {a} : Files(b)'
    BY <2>2, <2>3 DEF Inv, Files, In, Nonce
  <2> QED
    BY <1>t, <2>2, <2>4, <2>5, <2>6
<1>2. CASE Step(a)
  <2> DEFINE mine == Nonce(op[a])
  <2>1. Turns(a) /\ Keeps(a)
    BY <1>2, StepDoes DEF Does
  <2>2. \A b \in Actors \ {a} : op'[b] = op[b]
    BY <2>1 DEF Turns
  <2>3. /\ began' = began /\ op[a].pc # "idle"
        /\ cut \subseteq cut' /\ cut' \subseteq cut \cup {mine}
        /\ creds \subseteq creds' \cup {mine} /\ creds' \subseteq creds \cup {mine}
        /\ cut' \subseteq creds'
        /\ mine \in creds' =>
             \/ mine \in cut'
             \/ Held(op'[a]) /\ Nonce(op'[a]) = mine
             \/ mine \in creds /\ ~Held(op[a])
    BY <1>2, StepFiles
  <2>4. op[a].id # 0 /\ op[a].id \in 1..MaxOps /\ op[a].id <= began
    BY <1>t, <1>ids, <2>3 DEF Numbered
  <2>5. mine \in Nonces /\ mine \in Own(a) /\ mine[1] = op[a].id
    BY <1>t, <2>4 DEF Nonce, Nonces, Own, Op
  <2>6. NoStrayCredentials'
    <3> SUFFICES ASSUME NEW n \in creds', n \notin cut'
                 PROVE  \E b \in Actors : Held(op'[b]) /\ n = Nonce(op'[b])
      BY DEF NoStrayCredentials, Held, Holding
    <3>1. CASE n = mine /\ Held(op'[a]) /\ Nonce(op'[a]) = mine
      BY <3>1
    <3>2. CASE n \in creds /\ (n # mine \/ ~Held(op[a]))
      <4>1. PICK b \in Actors : Held(op[b]) /\ n = Nonce(op[b])
        BY <1>t, <2>3, <3>2 DEF NoStrayCredentials, Held, Holding
      <4>2. op'[b] = op[b]
        BY <2>2, <3>2, <4>1
      <4> QED
        BY <4>1, <4>2
    <3> QED
      BY <2>3, <3>1, <3>2
  <2>7. Numbered'
    <3>1. op'[a].id = op[a].id \/ (op'[a].id = 0 /\ op'[a].pc = "idle")
      BY <2>1 DEF Keeps
    <3>2. \A b \in Actors : op'[b].id <= began' /\ (op'[b].pc # "idle" => op'[b].id # 0)
      BY <1>t, <2>2, <2>3, <2>4, <3>1 DEF Numbered
    <3>3. \A b, c \in Actors : b # c /\ op'[b].id = op'[c].id => op'[b].id = 0
      BY <1>t, <2>2, <3>1 DEF Numbered
    <3>4. \A n \in creds' : n[1] <= began'
      BY <1>t, <2>3, <2>4, <2>5 DEF Numbered
    <3> QED
      BY <3>2, <3>3, <3>4 DEF Numbered
  <2> HIDE DEF mine
  <2>8. \A b \in Actors \ {a} : Files(b)'
    BY <2>2, <2>3, <2>4, <2>5, OthersFiles
  <2> QED
    BY <1>t, <2>1, <2>3, <2>5, <2>6, <2>7, <2>8
<1>3. CASE Crash(a)
  <2>1. Turns(a) /\ op'[a] = Idle
    BY <1>3, CrashDoes DEF Does
  <2>2. \A b \in Actors \ {a} : op'[b] = op[b]
    BY <2>1 DEF Turns
  <2>3. /\ op[a].pc # "idle" /\ cut' = cut \cup (creds \cap {Nonce(op[a])})
        /\ creds' = creds /\ began' = began
    BY <1>3 DEF Crash, At
  <2>4. op[a].id # 0
    BY <1>t, <2>3 DEF Numbered
  <2>5. NoStrayCredentials'
    <3> SUFFICES ASSUME NEW n \in creds, n \notin cut'
                 PROVE  \E b \in Actors : op'[b].pc \in Holding /\ n = Nonce(op'[b])
      BY <2>3 DEF NoStrayCredentials, Holding
    <3>1. PICK b \in Actors : op[b].pc \in Holding /\ n = Nonce(op[b])
      BY <1>t, <2>3 DEF NoStrayCredentials, Holding
    <3>2. op'[b] = op[b]
      BY <2>2, <2>3, <3>1
    <3> QED
      BY <3>1, <3>2
  <2>6. Numbered'
    <3>1. op'[a].id = 0 /\ op'[a].pc = "idle" /\ 0 <= began
      BY <1>t, <2>1, IdleIs
    <3> QED
      BY <1>t, <2>2, <2>3, <3>1 DEF Numbered
  <2>7. cut' \subseteq cut \cup Own(a)
    BY <1>t, <2>3 DEF Own, Nonce
  <2>8. \A b \in Actors \ {a} : Files(b)'
    BY <2>2, <2>3, <2>4, <2>7, OthersFiles
  <2> QED
    BY <1>t, <2>1, <2>3, <2>5, <2>6, <2>8
<1> QED
  BY <1>1, <1>2, <1>3

LEMMA VolumeStays ==
    ASSUME TypeOK, Volume, Drift
    PROVE  Volume'
<1> SUFFICES ASSUME NEW h \in Domains
             PROVE  store'[h].gen <= issued' /\ (store'[h].gen = 0 => store'[h].names = {})
  BY DEF Volume, Has
<1>1. /\ store[h].gen \in Nat /\ issued \in Nat /\ issued' \in Nat /\ issued' >= issued
      /\ store[h].gen <= issued /\ (store[h].gen = 0 => store[h].names = {})
  BY DEF TypeOK, ProxyTypeOK, Cert, Drift, Volume, Has
<1>2. Gone(h) \/ New(h) \/ Stays(h)
  BY DEF Drift
<1> QED
  BY <1>1, <1>2 DEF Gone, New, Stays

LEMMA RestoredIs ==
    ASSUME ProxyTypeOK
    PROVE  Restored \in [Apps -> Nat]
<1>1. \A b \in Apps : store[Primary[b]].gen \in Nat
  BY ProxyAssumption DEF ProxyTypeOK, Cert
<1> QED
  BY <1>1 DEF Restored

\* What a remote command leaves of the proxy.
LEMMA KamalTypes ==
    ASSUME ProxyTypeOK,
           \/ UNCHANGED proxyVars \/ PullImage \/ RemoveContainer \/ StartContainer
           \/ StopContainer \/ \E u \in BOOLEAN : PurgeVolume(u)
           \/ BootContainer(TRUE) \/ BootContainer(FALSE)
           \/ \E b \in Apps : DeployRoute(b)
    PROVE  ProxyTypeOK'
<1>a. Build \in Nat /\ Restored \in [Apps -> Nat]
  BY ProxyAssumption, RestoredIs
<1>1. CASE UNCHANGED proxyVars \/ PullImage \/ RemoveContainer \/ StopContainer
  BY <1>a, <1>1 DEF proxyVars, PullImage, RemoveContainer, StopContainer, ProxyTypeOK
<1>2. CASE StartContainer
  BY <1>a, <1>2 DEF StartContainer, ProxyTypeOK
<1>3. CASE \E u \in BOOLEAN : PurgeVolume(u)
  <2>1. NoCert \in Cert
    BY DEF NoCert, Cert
  <2>2. PICK u \in BOOLEAN : PurgeVolume(u)
    BY <1>3
  <2> QED
    BY <2>1, <2>2 DEF PurgeVolume, proxyVars, ProxyTypeOK
<1>4. CASE BootContainer(TRUE) \/ BootContainer(FALSE)
  BY <1>a, <1>4 DEF BootContainer, proxyVars, ProxyTypeOK
<1>5. CASE \E b \in Apps : DeployRoute(b)
  <2>1. PICK b \in Apps : DeployRoute(b)
    BY <1>5
  <2>2. store[Primary[b]].gen \in Nat
    BY <2>1, ProxyAssumption DEF ProxyTypeOK, Cert
  <2>3. served' \in [Apps -> Nat]
    BY <2>1, <2>2 DEF DeployRoute, ProxyTypeOK
  <2> QED
    BY <2>1, <2>3 DEF DeployRoute, ProxyTypeOK
<1> QED
  BY <1>1, <1>2, <1>3, <1>4, <1>5

States == {"running", "restarting", "exited"}

LEMMA WritesTypes ==
    ASSUME TypeOK, NEW h \in Domains, NEW names \in SUBSET Nat, Writes(h, names)
    PROVE  store' \in [Domains -> Cert]
<1>1. issued \in Nat /\ store \in [Domains -> Cert]
  BY DEF TypeOK, ProxyTypeOK
<1>2. [gen |-> issued + 1, names |-> names, due |-> FALSE, readable |-> FALSE] \in Cert
  BY <1>1 DEF Cert
<1> QED
  BY <1>1, <1>2 DEF Writes

LEMMA StepTypes ==
    ASSUME Inv, NEW a \in Actors, Step(a)
    PROVE  ProxyTypeOK' /\ newest' \in [Apps -> States] /\ late' \subseteq Order
             /\ late' \subseteq late \cup (IF In(a, {"order"}) THEN {OrderOf(op[a])} ELSE {})
<1>t. /\ TypeOK /\ ProxyTypeOK /\ newest \in [Apps -> States] /\ late \subseteq Order /\ op[a].app \in Apps
      /\ op[a].names \in SUBSET Nat /\ issued \in Nat /\ store \in [Domains -> Cert]
  BY DEF Inv, TypeOK, ProxyTypeOK, Op, States
<1>1. CASE \/ PullProxyImage(a) \/ ProxyRemove(a) \/ ProxyPurge(a) \/ ProxyBoot(a)
           \/ ProxyStart(a) \/ ProxyStop(a) \/ Register(a)
  <2>1. UNCHANGED <<newest, late>>
    BY <1>1 DEF PullProxyImage, ProxyRemove, ProxyPurge, ProxyBoot, ProxyStart, ProxyStop, Register
  <2>2. \/ UNCHANGED proxyVars \/ PullImage \/ RemoveContainer \/ StartContainer
        \/ StopContainer \/ \E u \in BOOLEAN : PurgeVolume(u)
        \/ BootContainer(TRUE) \/ BootContainer(FALSE)
        \/ DeployRoute(op[a].app)
    <3>1. CASE ProxyPurge(a)
      <4>1. UNCHANGED proxyVars \/ PurgeVolume(TRUE) \/ PurgeVolume(FALSE)
        BY <3>1 DEF ProxyPurge, PurgeVolume
      <4> QED
        BY <4>1
    <3>2. CASE ~ProxyPurge(a)
      BY <1>1, <3>2 DEF PullProxyImage, ProxyRemove, ProxyBoot, ProxyStart, ProxyStop, Register
    <3> QED
      BY <3>1, <3>2
  <2> QED
    BY <1>t, <2>1, <2>2, KamalTypes
<1>2. CASE EndLego(a)
  <2>1. UNCHANGED <<proxy, image, local, served, newest>>
    BY <1>2 DEF EndLego
  <2>2. store' = store \/ Writes(op[a].host, op[a].names)
    BY <1>2 DEF EndLego
  <2>3. store' \in [Domains -> Cert]
    BY <1>t, <2>2, WritesTypes DEF TypeOK, Op
  <2>4. In(a, {"order"}) /\ (late' = late \/ late' = late \cup {OrderOf(op[a])})
    BY <1>2 DEF EndLego, At, In
  <2>5. OrderOf(op[a]) \in Order
    BY <1>t DEF TypeOK, Op, OrderOf, Order
  <2> QED
    BY <1>t, <2>1, <2>3, <2>4, <2>5 DEF ProxyTypeOK
<1>3. CASE FixCertPerms(a)
  <2>1. UNCHANGED <<proxy, image, local, served, newest, late>>
    BY <1>3 DEF FixCertPerms
  <2>2. ASSUME NEW h \in Domains PROVE [store[h] EXCEPT !.readable = Has(h)] \in Cert
    <3>1. store[h] \in Cert /\ Has(h) \in BOOLEAN
      BY <1>t DEF Has
    <3> QED
      BY <3>1 DEF Cert
  <2>3. store' = store \/ store' = [h \in Domains |-> [store[h] EXCEPT !.readable = Has(h)]]
    BY <1>3 DEF FixCertPerms
  <2>4. store' \in [Domains -> Cert]
    BY <1>t, <2>2, <2>3
  <2> QED
    BY <1>t, <2>1, <2>4 DEF ProxyTypeOK
<1>4. CASE RemoveCert(a)
  <2>1. UNCHANGED <<proxy, image, local, served, newest, late>>
    BY <1>4 DEF RemoveCert
  <2>2. NoCert \in Cert
    BY DEF NoCert, Cert
  <2>3. store' \in [Domains -> Cert]
    BY <1>t, <1>4, <2>2 DEF RemoveCert
  <2> QED
    BY <1>t, <2>1, <2>3 DEF ProxyTypeOK
<1>5. CASE \/ ListCerts(a) \/ CertInfo(a) \/ PushEnv(a) \/ StartLego(a) \/ CleanEnv(a) \/ ReadBack(a)
           \/ FindRunning(a) \/ StartFinds(a) \/ StartApp(a) \/ EnsureRunning(a) \/ StopApp(a)
  <2>1. UNCHANGED proxyVars
    BY <1>5 DEF ListCerts, CertInfo, PushEnv, StartLego, CleanEnv, ReadBack, FindRunning, StartFinds,
                StartApp, EnsureRunning, StopApp
  <2>2. newest' \in [Apps -> States] /\ late' = late
    BY <1>t, <1>5 DEF ListCerts, CertInfo, PushEnv, StartLego, CleanEnv, ReadBack, FindRunning, StartFinds,
                      StartApp, EnsureRunning, StopApp, States
  <2> QED
    BY <1>t, <2>1, <2>2, KamalTypes
<1> QED
  BY <1>1, <1>2, <1>3, <1>4, <1>5 DEF Step

LEMMA InitInv == Init => Inv
<1> SUFFICES ASSUME Init PROVE Inv
  OBVIOUS
<1>i. /\ Idle \in Op /\ Idle.pc = "idle" /\ Idle.id = 0 /\ Idle.kind = "none" /\ Idle.wrote = {}
  BY IdleIs
<1>1. PICK there \in {{}, Domains}, due \in (SUBSET Domains) \ {{}} :
        store = [h \in Domains |->
                   IF h \in there
                   THEN [gen |-> 1, names |-> Issued(h), due |-> h \in due, readable |-> TRUE]
                   ELSE NoCert]
  BY DEF Init
<1>2. \A h \in Domains : Issued(h) \in SUBSET Nat
  BY CertAssumption, DomainsAre DEF Issued
<1>3. store \in [Domains -> Cert]
  <2>1. ASSUME NEW h \in Domains
        PROVE  [gen |-> 1, names |-> Issued(h), due |-> h \in due, readable |-> TRUE] \in Cert
               /\ NoCert \in Cert
    BY <1>2, <2>1 DEF Cert, NoCert
  <2> QED
    BY <1>1, <2>1
<1>4. Volume
  <2>1. ASSUME NEW h \in Domains
        PROVE  store[h].gen <= issued /\ (store[h].gen = 0 => store[h].names = {})
    BY <1>1, <2>1 DEF Init, NoCert
  <2> QED
    BY <2>1 DEF Volume, Has
<1>5. ProxyTypeOK
  <2>1. \A b \in Apps : store[Primary[b]].gen \in Nat
    BY <1>3, ProxyAssumption DEF Cert
  <2> QED
    BY <1>3, <2>1 DEF Init, ProxyTypeOK
<1>6. TypeOK
  <2>1. 0 \in 0..MaxOps
    BY CertAssumption
  <2> QED
    BY <1>5, <1>i, <2>1 DEF Init, TypeOK
<1>7. \A a \in Actors : op[a] = Idle
  BY DEF Init
<1>8. Numbered /\ Orders /\ NoStrayCredentials
  BY <1>7, <1>i DEF Init, Numbered, Orders, NoStrayCredentials
<1>9. ASSUME NEW a \in Actors
      PROVE  /\ Suits(a) /\ Attended(a) /\ Accounted(a) /\ Newest(a) /\ Asks(a)
             /\ Upgrading(a) /\ Files(a)
  BY <1>7, <1>i DEF Suits, Attended, Accounted, Newest, Asks, Upgrading, Files, In, Working, Holding, Renewals
<1> QED
  BY <1>4, <1>6, <1>8, <1>9 DEF Inv

LEMMA NextIs ==
    ASSUME Next
    PROVE  \/ \E a \in Actors : Begin(a) \/ Step(a) \/ Crash(a)
           \/ \E w \in late : LateLego(w)
           \/ \E b \in Apps : Flap(b)
<1>1. \A a \in Actors : Configs[a] \subseteq Apps
  BY CertAssumption
<1> QED
  BY <1>1 DEF Next, Begin

\* The orders that have lost their run, and the one that may be about to.
LEMMA OrdersStay ==
    ASSUME Inv, Drift, NEW a \in Actors,
           late' \subseteq late \cup (IF In(a, {"order"}) THEN {OrderOf(op[a])} ELSE {})
    PROVE  Orders'
<1>t. TypeOK /\ op[a] \in Op /\ late \subseteq Order /\ Orders /\ Asks(a)
  BY DEF Inv, TypeOK
<1> SUFFICES ASSUME NEW w \in late', w.kind = "renew_all"
             PROVE  Asked(w.host, w.names, w.found)'
  BY DEF Orders
<1>o. OrderOf(op[a]) \in Order
  BY <1>t DEF Op, OrderOf, Order
<1>1. w \in Order /\ Asked(w.host, w.names, w.found)
  <2>1. CASE w \in late
    BY <1>t, <2>1 DEF Orders
  <2>2. CASE In(a, {"order"}) /\ w = OrderOf(op[a])
    <3>1. w.kind = op[a].kind /\ w.host = op[a].host /\ w.names = op[a].names /\ w.found = op[a].found
      BY <2>2 DEF OrderOf
    <3> QED
      BY <1>t, <1>o, <2>2, <3>1 DEF Asks
  <2> QED
    BY <2>1, <2>2
<1>2. PICK h \in Domains, names \in SUBSET Nat, f \in Nat :
        h = w.host /\ names = w.names /\ f = w.found
  BY <1>1 DEF Order
<1>3. Asked(h, names, f)'
  BY <1>t, <1>1, <1>2, AskedStays
<1> QED
  BY <1>2, <1>3 DEF Asked

\* What becomes of a step that no run takes.
LEMMA WorldDoes ==
    ASSUME Inv,
           (\E w \in late : LateLego(w)) \/ (\E b \in Apps : Flap(b)) \/ UNCHANGED vars
    PROVE  /\ UNCHANGED <<creds, cut, op, began>> /\ Drift /\ ProxyTypeOK'
           /\ newest' \in [Apps -> States] /\ late' \subseteq late
<1>t. /\ TypeOK /\ ProxyTypeOK /\ newest \in [Apps -> States] /\ late \subseteq Order
      /\ issued \in Nat /\ store \in [Domains -> Cert]
  BY DEF Inv, TypeOK, ProxyTypeOK, States
<1>1. CASE \E w \in late : LateLego(w)
  <2>1. PICK w \in late : LateLego(w)
    BY <1>1
  <2>2. /\ UNCHANGED <<proxy, image, local, served, newest, creds, cut, op, began>>
        /\ late' \subseteq late
        /\ Writes(w.host, w.names) \/ UNCHANGED <<store, issued>>
    BY <2>1 DEF LateLego
  <2>3. w.host \in Domains /\ w.names \in SUBSET Nat
    BY <1>t DEF Order
  <2>4. CASE Writes(w.host, w.names)
    <3>1. store' \in [Domains -> Cert]
      BY <1>t, <2>3, <2>4, WritesTypes
    <3>2. New(w.host) /\ issued' = issued + 1 /\ \A h \in Domains \ {w.host} : Stays(h)
      BY <1>t, <2>3, <2>4 DEF Writes, New, Stays
    <3>3. Drift
      BY <1>t, <2>2, <3>2 DEF Drift
    <3> QED
      BY <1>t, <2>2, <3>1, <3>3 DEF ProxyTypeOK
  <2>5. CASE UNCHANGED <<store, issued>>
    BY <1>t, <2>2, <2>5, QuietDrifts DEF ProxyTypeOK
  <2> QED
    BY <2>2, <2>4, <2>5
<1>2. CASE \E b \in Apps : Flap(b)
  <2>1. PICK b \in Apps : Flap(b)
    BY <1>2
  <2>2. UNCHANGED <<proxyVars, late, creds, cut, issued, op, began>>
    BY <2>1 DEF Flap
  <2>3. newest' \in [Apps -> States]
    BY <1>t, <2>1 DEF Flap, States
  <2> QED
    BY <1>t, <2>2, <2>3, QuietDrifts DEF proxyVars, ProxyTypeOK
<1>3. CASE UNCHANGED vars
  BY <1>t, <1>3, QuietDrifts DEF vars, proxyVars, ProxyTypeOK
<1> QED
  BY <1>1, <1>2, <1>3

LEMMA NextInv == Inv /\ [Next]_vars => Inv'
<1> SUFFICES ASSUME Inv, [Next]_vars PROVE Inv'
  OBVIOUS
<1>t. /\ TypeOK /\ Volume /\ ProxyTypeOK /\ newest \in [Apps -> States] /\ late \subseteq Order
  BY DEF Inv, TypeOK, States
<1>1. ASSUME NEW a \in Actors, Begin(a) \/ Step(a) \/ Crash(a)
      PROVE  Inv'
  <2>2. /\ Turns(a)
        /\ NoStrayCredentials' /\ Numbered' /\ cut' \subseteq creds' /\ creds' \subseteq Nonces
        /\ began' \in 0..MaxOps
        /\ \A b \in Actors \ {a} : Files(b)'
    BY <1>1, TurnFiles
  <2>3. /\ op' \in [Actors -> Op] /\ \A b \in Actors \ {a} : op'[b] = op[b]
        /\ Track(a)' /\ Drift
    BY <2>2 DEF Turns
  <2>4. /\ ProxyTypeOK' /\ newest' \in [Apps -> States] /\ late' \subseteq Order
        /\ late' \subseteq late \cup (IF In(a, {"order"}) THEN {OrderOf(op[a])} ELSE {})
    <3>1. CASE Begin(a)
      <4>1. UNCHANGED <<proxyVars, newest, late>>
        BY <3>1 DEF Begin, BeginApp, BeginIssue, BeginRenew, BeginProxy, BeginRemove, Begins
      <4> QED
        BY <1>t, <4>1, KamalTypes
    <3>2. CASE Crash(a)
      <4>1. /\ UNCHANGED <<proxyVars, newest>>
            /\ late' \subseteq late \cup (IF In(a, {"order"}) THEN {OrderOf(op[a])} ELSE {})
        BY <3>2 DEF Crash, At, In
      <4>2. OrderOf(op[a]) \in Order
        BY <1>t DEF TypeOK, Op, OrderOf, Order
      <4> QED
        BY <1>t, <4>1, <4>2, KamalTypes
    <3>3. CASE Step(a)
      BY <3>3, StepTypes
    <3> QED
      BY <1>1, <3>1, <3>2, <3>3
  <2>5. TypeOK'
    BY <2>2, <2>3, <2>4 DEF TypeOK, Drift, States
  <2>6. Volume' /\ Orders'
    BY <1>t, <2>3, <2>4, VolumeStays, OrdersStay
  <2>7. ASSUME NEW b \in Actors \ {a}
        PROVE  Suits(b)' /\ Attended(b)' /\ Accounted(b)' /\ Newest(b)' /\ Asks(b)' /\ Upgrading(b)'
    BY <2>3, OthersTrack
  <2> QED
    BY <2>2, <2>3, <2>5, <2>6, <2>7 DEF Inv, Track
<1>2. CASE (\E w \in late : LateLego(w)) \/ (\E b \in Apps : Flap(b)) \/ UNCHANGED vars
  <2>1. /\ UNCHANGED <<creds, cut, op, began>> /\ Drift /\ ProxyTypeOK'
        /\ newest' \in [Apps -> States] /\ late' \subseteq late
    BY <1>2, WorldDoes
  <2>2. TypeOK'
    BY <1>t, <2>1 DEF TypeOK, Drift, States
  <2>3. Numbered' /\ NoStrayCredentials'
    BY <2>1 DEF Inv, Numbered, NoStrayCredentials, Nonce
  <2>4. Volume'
    BY <1>t, <2>1, VolumeStays
  <2>5. Orders'
    <3> SUFFICES ASSUME NEW w \in late, w.kind = "renew_all"
                 PROVE  Asked(w.host, w.names, w.found)'
      BY <2>1 DEF Orders
    <3>1. PICK h \in Domains, names \in SUBSET Nat, f \in Nat :
            h = w.host /\ names = w.names /\ f = w.found
      BY <1>t DEF Order
    <3>2. Asked(h, names, f)
      BY <3>1 DEF Inv, Orders
    <3>3. Asked(h, names, f)'
      BY <1>t, <2>1, <3>2, AskedStays
    <3> QED
      BY <3>1, <3>3 DEF Asked
  <2>6. ASSUME NEW a \in Actors
        PROVE  Suits(a)' /\ Attended(a)' /\ Accounted(a)' /\ Newest(a)' /\ Asks(a)' /\ Upgrading(a)'
    BY <2>1, OthersTrack
  <2>7. ASSUME NEW a \in Actors PROVE Files(a)'
    BY <2>1 DEF Inv, Files, In, Nonce
  <2> QED
    BY <2>2, <2>3, <2>4, <2>5, <2>6, <2>7 DEF Inv
<1> QED
  BY <1>1, <1>2, NextIs

\* The strengthening holds in every reachable state.
LEMMA CertInvariant == Spec => []Inv
<1>1. Init => Inv
  BY InitInv
<1>2. Inv /\ [Next]_vars => Inv'
  BY NextInv
<1> QED
  BY <1>1, <1>2, PTL DEF Spec
-----------------------------------------------------------------------------
(* The theorems *)

\* Every variable keeps its type, with any commands side by side; among the
\* files of credentials that are there are those that were cut off.
THEOREM CertTypeOK == Spec => []TypeOK
<1>1. Inv => TypeOK
  BY DEF Inv
<1> QED
  BY <1>1, CertInvariant, PTL

\* However lego, the CA or what comes after fails, provider credentials stay on
\* the host only if a run was killed or one of the two commands that write and
\* remove them went wrong (pushEnv's deferred cleanup).
THEOREM CertNoStrayCredentials == Spec => []NoStrayCredentials
<1>1. Inv => NoStrayCredentials
  BY DEF Inv
<1> QED
  BY <1>1, CertInvariant, PTL

\* What is reported when a command ends.
LEMMA EndReports ==
    ASSUME Inv, Next, NEW a \in Actors, Ends(a)
    PROVE  Served(a) /\ Attends(a) /\ Upgraded(a)
<1>0. op'[a] # op[a]
  BY DEF Ends, At
<1>1. PICK b \in Actors : Begin(b) \/ Step(b) \/ Crash(b)
  BY <1>0, NextIs, WorldDoes
<1>2. Turns(b)
  BY <1>1, TurnFiles
<1>3. b = a
  BY <1>0, <1>2 DEF Turns
<1> QED
  BY <1>2, <1>3 DEF Turns, Reports

\* A run of `cert renew --all` that ends has seen to every certificate it listed:
\* it names it as failed, or it is there no more or not due (RenewAll's loop).
THEOREM CertRenewAllAttendsAll == Spec => RenewAllAttendsAll
<1>1. Inv /\ [Next]_vars =>
        [\A a \in Actors :
           Ends(a) /\ op[a].kind = "renew_all" =>
             \A h \in op[a].listed \ op'[a].failed : ~Has(h) \/ ~store[h].due]_vars
  <2> SUFFICES ASSUME Inv, Next, NEW a \in Actors, Ends(a), op[a].kind = "renew_all",
                      NEW h \in op[a].listed \ op'[a].failed
               PROVE  ~Has(h) \/ ~store[h].due
    OBVIOUS
  <2>1. Attends(a)
    BY EndReports
  <2> QED
    BY <2>1 DEF Attends, Settled
<1> QED
  BY <1>1, CertInvariant, PTL DEF Spec, RenewAllAttendsAll

\* An upgrade that reports success leaves the proxy running the build that its
\* image tag names in the registry (pullProxyImage, then rm and boot), unless
\* docker refused the rm behind its `|| true`.
THEOREM CertUpgradeTakesNewBuild == Spec => UpgradeTakesNewBuild
<1>1. Inv /\ [Next]_vars =>
        [\A a \in Actors :
           Ends(a) /\ op[a].kind = "upgrade" /\ op'[a].result = "ok" =>
             proxy' = "running" /\ (image' = Build \/ op[a].stuck)]_vars
  <2> SUFFICES ASSUME Inv, Next, NEW a \in Actors, Ends(a), op[a].kind = "upgrade",
                      op'[a].result = "ok"
               PROVE  proxy' = "running" /\ (image' = Build \/ op[a].stuck)
    OBVIOUS
  <2>1. Upgraded(a)
    BY EndReports
  <2> QED
    BY <2>1 DEF Upgraded
<1> QED
  BY <1>1, CertInvariant, PTL DEF Spec, UpgradeTakesNewBuild

\* A renewal that reports success leaves no app whose newest container runs on a
\* certificate older than one it had lego write, when no two apps file theirs
\* under one name: of two that do, serveRenewed registers only the one it is
\* run for.
THEOREM CertRenewalIsServed ==
    ASSUME \A b, c \in Apps : Primary[b] = Primary[c] => b = c
    PROVE  Spec => RenewalIsServed
<1>1. Inv /\ [Next]_vars =>
        [\A a \in Actors :
           Ends(a) /\ op[a].kind \in Renewals /\ op'[a].result = "ok" =>
             \A c \in op[a].wrote, b \in Apps :
               Primary[b] = c[1] /\ newest[b] = "running" => served'[b] >= c[2]]_vars
  <2> SUFFICES ASSUME Inv, Next, NEW a \in Actors, Ends(a), op[a].kind \in Renewals,
                      op'[a].result = "ok", NEW c \in op[a].wrote, NEW b \in Apps,
                      Primary[b] = c[1], newest[b] = "running"
               PROVE  served'[b] >= c[2]
    OBVIOUS
  <2>1. Served(a)
    BY EndReports
  <2>2. op[a].app \in Apps
    BY DEF Inv, TypeOK, Op
  <2>3. /\ c[1] = Primary[op[a].app]
        /\ newest[op[a].app] = "running" => served'[op[a].app] >= c[2]
    BY <2>1 DEF Served
  <2>4. b = op[a].app
    BY <2>2, <2>3
  <2> QED
    BY <2>3, <2>4
<1> QED
  BY <1>1, CertInvariant, PTL DEF Spec, RenewalIsServed

\* Renewing everything takes no name from the certificate that it finds and
\* replaces, whatever is run on its volume between the reading of the names and
\* lego, and whether or not the run is still there (RenewAll, sanExtras).
THEOREM CertRenewAllKeepsNames == Spec => RenewAllKeepsNames
<1>1. Inv /\ [Next]_vars =>
        [/\ \A a \in Actors :
              At(a, "order") /\ op'[a].pc = "perms" /\ Replaces(OrderOf(op[a])) =>
                store[op[a].host].names \subseteq store'[op[a].host].names
         /\ \A w \in late \ late' :
              Replaces(w) => store[w.host].names \subseteq store'[w.host].names]_vars
  <2> SUFFICES ASSUME Inv, Next
               PROVE  /\ \A a \in Actors :
                           At(a, "order") /\ op'[a].pc = "perms" /\ Replaces(OrderOf(op[a])) =>
                             store[op[a].host].names \subseteq store'[op[a].host].names
                      /\ \A w \in late \ late' :
                           Replaces(w) => store[w.host].names \subseteq store'[w.host].names
    OBVIOUS
  <2>t. TypeOK /\ Orders /\ store \in [Domains -> Cert] /\ late \subseteq Order
    BY DEF Inv, TypeOK, ProxyTypeOK
  <2>1. ASSUME NEW a \in Actors, op[a].pc = "order", op'[a].pc = "perms",
               Replaces(OrderOf(op[a]))
        PROVE  store[op[a].host].names \subseteq store'[op[a].host].names
    <3>1. op[a] \in Op /\ op'[a] # op[a] /\ Asks(a)
      BY <2>1 DEF Inv, TypeOK
    <3>2. PICK b \in Actors : Begin(b) \/ Step(b) \/ Crash(b)
      BY <3>1, NextIs, WorldDoes
    <3>3. b = a
      <4>1. Turns(b)
        BY <3>2, TurnFiles
      <4> QED
        BY <3>1, <4>1 DEF Turns
    <3>4. EndLego(a)
      <4>1. ~Begin(a)
        BY <2>1 DEF Begin, BeginApp, BeginIssue, BeginRenew, BeginProxy, BeginRemove, Begins, At
      <4>2. ~Crash(a)
        <5>1. Crash(a) => op'[a] = Idle
          BY CrashDoes
        <5> QED
          BY <2>1, <5>1, IdleIs
      <4> QED
        BY <2>1, <3>2, <3>3, <4>1, <4>2
        DEF Step, ListCerts, CertInfo, PushEnv, StartLego, FixCertPerms, CleanEnv, ReadBack,
            FindRunning, Register, RemoveCert, StartFinds, StartApp, EnsureRunning, StopApp,
            PullProxyImage, ProxyRemove, ProxyPurge, ProxyBoot, ProxyStart, ProxyStop, At
    <3>5. /\ op[a].kind = "renew_all"
          /\ store[op[a].host].gen = op[a].found /\ store'[op[a].host].gen # op[a].found
      BY <2>1 DEF Replaces, OrderOf
    <3>6. Writes(op[a].host, op[a].names)
      BY <3>4, <3>5 DEF EndLego
    <3>7. op[a].host \in Domains /\ store'[op[a].host].names = op[a].names
      BY <2>t, <3>1, <3>6 DEF Writes, Op
    <3>8. store[op[a].host].names \subseteq op[a].names
      BY <2>1, <3>1, <3>5 DEF Asks, Asked, In
    <3> QED
      BY <3>7, <3>8
  <2>2. ASSUME NEW w \in late \ late', Replaces(w)
        PROVE  store[w.host].names \subseteq store'[w.host].names
    <3>1. w \in Order /\ w.kind = "renew_all" /\ store[w.host].gen = w.found
          /\ store'[w.host].gen # w.found
      BY <2>t, <2>2 DEF Replaces
    <3>2. CASE \E v \in late : LateLego(v)
      <4>1. PICK v \in late : LateLego(v)
        BY <3>2
      <4>2. v = w
        BY <2>2, <4>1 DEF LateLego
      <4>3. Writes(w.host, w.names)
        BY <3>1, <4>1, <4>2 DEF LateLego
      <4>4. store'[w.host].names = w.names
        BY <2>t, <3>1, <4>3 DEF Writes, Order
      <4>5. store[w.host].names \subseteq w.names
        BY <2>t, <2>2, <3>1 DEF Orders, Asked
      <4> QED
        BY <4>4, <4>5
    <3>3. CASE ~\E v \in late : LateLego(v)
      <4>1. late \subseteq late'
        <5>1. CASE \E b \in Apps : Flap(b)
          BY <5>1 DEF Flap
        <5>2. ASSUME NEW a \in Actors, Begin(a) \/ Crash(a) PROVE late \subseteq late'
          BY <5>2 DEF Begin, BeginApp, BeginIssue, BeginRenew, BeginProxy, BeginRemove, Begins, Crash
        <5>3. ASSUME NEW a \in Actors, Step(a) PROVE late \subseteq late'
          <6>1. CASE EndLego(a)
            BY <6>1 DEF EndLego
          <6>2. CASE ~EndLego(a)
            BY <5>3, <6>2
            DEF Step, ListCerts, CertInfo, PushEnv, StartLego, FixCertPerms, CleanEnv, ReadBack,
                FindRunning, Register, RemoveCert, StartFinds, StartApp, EnsureRunning, StopApp,
                PullProxyImage, ProxyRemove, ProxyPurge, ProxyBoot, ProxyStart, ProxyStop
          <6> QED
            BY <6>1, <6>2
        <5> QED
          BY <3>3, <5>1, <5>2, <5>3, NextIs
      <4> QED
        BY <2>2, <4>1
    <3> QED
      BY <3>2, <3>3
  <2> QED
    BY <2>1, <2>2 DEF At
<1> QED
  BY <1>1, CertInvariant, PTL DEF Spec, RenewAllKeepsNames
=============================================================================
