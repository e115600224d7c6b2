--------------------------- MODULE SmfRuleProofs ---------------------------
(***************************************************************************)
(* What becomes of the rules of the SMF: their ids and their TEIDs.        *)
(***************************************************************************)
EXTENDS SmfProofs

-----------------------------------------------------------------------------
(* The three kinds of steps, as far as rules are concerned.                *)

\* A push, whichever way it ends.
Pushes(u, x) ==
  \/ CreateSessionOk(u, x) \/ CreateSessionErr(u, x)
  \/ UpdateSessionOk(u, x) \/ UpdateSessionErr(u, x)

\* A rule is queued, with a fresh F-TEID or none.
Queues(h, x, dnn, dir, listen, fwd) ==
  /\ Lookup(h)
  /\ AddRule(h.node, x, dnn, dir, listen, fwd)
  /\ NextListenFteidContext(h, listen) \/ (listen = None /\ UNCHANGED allocated)
  /\ UNCHANGED pfcp

RulesStay == UNCHANGED <<installed, created, lastId, allocated, handle, seids, faults>>

LEMMA StepKinds ==
  ASSUME TypeInv, [Next]_vars
  PROVE  \/ RulesStay
         \/ \E h, dnn, dir, listen, fwd : \E x \in Ips : Queues(h, x, dnn, dir, listen, fwd)
         \/ \E u \in Upfs, x \in Ips : Pushes(u, x) /\ UNCHANGED allocated
<1> DEFINE Kinds == \/ RulesStay
                    \/ \E h, dnn, dir, listen, fwd : \E x \in Ips : Queues(h, x, dnn, dir, listen, fwd)
                    \/ \E u \in Upfs, x \in Ips : Pushes(u, x) /\ UNCHANGED allocated
<1>1. ASSUME NEW p \in Procs, UplinkQueue(p) PROVE Kinds
  <2>1. Ip(p) \in Ips
    BY <1>1, KeyType DEF UplinkQueue, At
  <2> QED
    BY <1>1, <2>1 DEF UplinkQueue, CreateUplinkAnchorWithFteid, CreateUplinkIntermediateWithFteid,
                      Queues, RulesStay, rules, pfcp
<1>2. ASSUME NEW p \in Procs, DownlinkQueue(p) PROVE Kinds
  <2>1. call[p].key.ip \in Ips
    BY <1>2, KeyType DEF DownlinkQueue, At, Ip
  <2>2. UNCHANGED pfcp /\
        \/ UNCHANGED <<allocated, rules>>
        \/ /\ Lookup(Hop(p)) /\ UNCHANGED allocated
           /\ UpdateDownlinkAnchor(Hop(p).node, call[p].key.ip, call[p].key.dnn, call[p].last)
        \/ \E f : /\ Lookup(Hop(p)) /\ NextListenFteidContext(Hop(p), f)
                  /\ UpdateDownlinkIntermediateWithFteid(Hop(p).node, call[p].key.ip,
                                                         call[p].key.dnn, f, call[p].last)
    BY <1>2, Zenon DEF DownlinkQueue
  <2> QED
    BY <2>1, <2>2 DEF UpdateDownlinkAnchor, UpdateDownlinkIntermediateWithFteid, Queues, RulesStay,
                      rules, pfcp
<1>3. ASSUME NEW p \in Procs, FwQueue(p) PROVE Kinds
  <2>1. Ip(p) \in Ips /\ Lookup(Hop(p))
    BY <1>3, KeyType DEF FwQueue, At, TypeInv, CallOK, Hop, Lookup
  <2> QED
    BY <1>3, <2>1 DEF FwQueue, UpdateDownlinkIntermediateWithFteid, Queues, RulesStay, rules, pfcp
<1>4. ASSUME NEW p \in Procs, UplinkPush(p) \/ DownlinkPush(p) \/ FwPush(p) \/ SwitchPush(p)
      PROVE  Kinds
  <2>1. Ip(p) \in Ips /\ Hop(p).node \in Upfs
    BY <1>4, KeyType DEF UplinkPush, DownlinkPush, FwPush, SwitchPush, At, TypeInv, CallOK, Hop
  <2> QED
    BY <1>4, <2>1 DEF UplinkPush, DownlinkPush, FwPush, SwitchPush, Pushes
<1>5. ASSUME NEW p \in Procs, SwitchQueue(p) PROVE RulesStay
  BY <1>5 DEF SwitchQueue, UpdateDownlinkIntermediateDirectForward, RulesStay, rules, pfcp
<1>6. ASSUME NEW p \in Procs, Begin(p) PROVE RulesStay
  BY <1>6 DEF Begin, BeginUplink, BeginDownlink, BeginForward, BeginSwitch, StoreNextDownlinkFteid,
     SetIndirectForwardingRequired, RulesStay, rules, pfcp
<1>7. ASSUME NEW p \in Procs, UplinkStore(p) \/ UplinkAdd(p) \/ DownlinkRead(p) \/ DownlinkFar(p)
      PROVE  RulesStay
  BY <1>7 DEF UplinkStore, UplinkAdd, DownlinkRead, DownlinkFar, RulesStay, rules, pfcp
<1>8. ASSUME UNCHANGED vars \/ Cancel \/ ServerStop \/ \E p \in Procs : End(p) PROVE RulesStay
  BY <1>8 DEF vars, Cancel, ServerStop, End, RulesStay, rules, pfcp
<1> HIDE DEF Kinds
<1>9. RulesStay => Kinds
  BY DEF Kinds
<1>10. ASSUME NEW p \in Procs, Step(p) PROVE Kinds
  BY <1>10, <1>1, <1>2, <1>3, <1>4, <1>5, <1>7, <1>9 DEF Step
<1>11. Kinds
  BY <1>6, <1>8, <1>9, <1>10 DEF Next
<1> QED
  BY <1>11 DEF Kinds

\* An installed rule and what a push leaves of it: only its FAR may change.
SameRule(e, d) ==
  /\ e.upf = d.upf /\ e.ip = d.ip /\ e.seid = d.seid /\ e.id = d.id
  /\ e.dnn = d.dnn /\ e.dir = d.dir /\ e.listen = d.listen
  /\ e.fwd = d.fwd \/ e.fwd \in GnbFteids

\* Every installed rule has one image; what else is installed comes from the queue,
\* and a queue is cleared only when all of it has got there.
Moves(u, x, im, s) ==
  /\ \A d \in installed : im[d] \in installed' /\ SameRule(im[d], d)
  /\ \A e \in installed' : (\E d \in installed : e = im[d]) \/ e \in Installing(u, x, s)
  /\ \/ created' = created
     \/ created' = [created EXCEPT ![u][x] = {}] /\ Installing(u, x, s) \subseteq installed'

LEMMA PushMoves ==
  ASSUME TypeInv, NEW u \in Upfs, NEW x \in Ips, Pushes(u, x)
  PROVE  /\ lastId' = lastId
         /\ seids' \in [Upfs -> Nat] /\ \A v \in Upfs : seids[v] <= seids'[v]
         /\ \E im : \E s \in Nat :
              /\ Moves(u, x, im, s)
              /\ s <= seids'[u] \/ s = handle[u][x]
              /\ s = seids[u] + 1 \/ s = handle[u][x]
<1>1. seids \in [Upfs -> Nat] /\ handle[u][x] \in Nat
  BY DEF TypeInv, TypeOK
<1>2. lastId' = lastId
  BY DEF Pushes, CreateSessionOk, CreateSessionErr, UpdateSessionOk, UpdateSessionErr, rules
<1>3. seids' = seids \/ seids' = [seids EXCEPT ![u] = seids[u] + 1]
  BY DEF Pushes, CreateSessionOk, CreateSessionErr, UpdateSessionOk, UpdateSessionErr
<1>4. \A v \in Upfs : seids[v] <= seids'[v] /\ seids'[v] \in Nat
  BY <1>1, <1>3
<1>5. seids' \in [Upfs -> Nat]
  BY <1>1, <1>3
<1> DEFINE id == [d \in installed |-> d]
           red == [d \in installed |->
                     IF InSession(d, u, x, handle[u][x]) /\ \E r \in Redirects(u, x) : r.far = d.id
                     THEN [d EXCEPT !.fwd = Redirect(u, x, d.id).fwd] ELSE d]
<1>6. \A d \in installed : SameRule(id[d], d)
  BY DEF SameRule
<1>7. \A d \in installed : SameRule(red[d], d)
  <2> SUFFICES ASSUME NEW d \in installed, NEW r \in Redirects(u, x), r.far = d.id
               PROVE  SameRule([d EXCEPT !.fwd = Redirect(u, x, d.id).fwd], d)
    BY DEF SameRule
  <2>1. Redirects(u, x) \subseteq FarUpdate
    BY DEF TypeInv, TypeOK, Redirects
  <2>2. Redirect(u, x, d.id) \in Redirects(u, x)
    BY DEF Redirect
  <2>3. Redirect(u, x, d.id).fwd \in GnbFteids
    BY <2>1, <2>2 DEF FarUpdate
  <2>4. d \in Entry
    BY DEF TypeInv, TypeOK
  <2> QED
    BY <2>3, <2>4 DEF SameRule, Entry
<1>8. Redirected(u, x, handle[u][x]) = {red[d] : d \in installed}
  BY DEF Redirected
<1>9. CASE CreateSessionOk(u, x) \/ CreateSessionErr(u, x)
  <2>1. Moves(u, x, id, seids[u] + 1)
    <3>1. \/ installed' = installed /\ created' = created
          \/ installed' = installed \union Installing(u, x, seids[u] + 1)
             /\ (created' = created \/ created' = [created EXCEPT ![u][x] = {}])
      BY <1>9 DEF CreateSessionOk, CreateSessionErr, rules
    <3> HIDE DEF red
    <3> QED
      BY <3>1, <1>6 DEF Moves
  <2>2. CASE CreateSessionErr(u, x) /\ UNCHANGED <<seids, installed>>
    <3>1. created' = created /\ installed' = installed
      BY <2>2 DEF CreateSessionErr, rules
    <3>2. Moves(u, x, id, handle[u][x])
      BY <3>1, <1>6 DEF Moves
    <3> QED
      BY <3>2, <1>1, <1>2, <1>4, <1>5
  <2>3. CASE seids' = [seids EXCEPT ![u] = seids[u] + 1]
    <3>1. seids[u] + 1 <= seids'[u] /\ seids[u] + 1 \in Nat
      BY <2>3, <1>1
    <3> QED
      BY <2>1, <3>1, <1>1, <1>2, <1>4, <1>5
  <2> QED
    BY <1>9, <2>2, <2>3 DEF CreateSessionOk, CreateSessionErr
<1>10. CASE UpdateSessionOk(u, x) \/ UpdateSessionErr(u, x)
  <2>1. \/ installed' = installed /\ created' = created
        \/ /\ installed' = Redirected(u, x, handle[u][x]) \union Installing(u, x, handle[u][x])
           /\ created' = created \/ created' = [created EXCEPT ![u][x] = {}]
    BY <1>10 DEF UpdateSessionOk, UpdateSessionErr, rules
  <2> HIDE DEF red
  <2>2. CASE installed' = installed /\ created' = created
    <3>1. Moves(u, x, id, handle[u][x])
      BY <2>2, <1>6 DEF Moves
    <3> QED
      BY <3>1, <1>1, <1>2, <1>4, <1>5
  <2>3. CASE /\ installed' = Redirected(u, x, handle[u][x]) \union Installing(u, x, handle[u][x])
             /\ created' = created \/ created' = [created EXCEPT ![u][x] = {}]
    <3>1. Moves(u, x, red, handle[u][x])
      BY <2>3, <1>7, <1>8 DEF Moves
    <3> QED
      BY <3>1, <1>1, <1>2, <1>4, <1>5
  <2> QED
    BY <2>1, <2>2, <2>3
<1> QED
  BY <1>9, <1>10 DEF Pushes

\* A push leaves every queue but its own alone.
LEMMA QueuesShrink ==
  ASSUME TypeInv, NEW u \in Upfs, NEW x \in Ips, NEW im, NEW s, Moves(u, x, im, s)
  PROVE  \A v \in Upfs, y \in Ips :
           /\ created'[v][y] \subseteq created[v][y]
           /\ created'[v][y] = created[v][y]
                \/ (v = u /\ y = x /\ created'[v][y] = {} /\ Installing(u, x, s) \subseteq installed')
<1>1. created \in [Upfs -> [Ips -> SUBSET Rule]]
  BY DEF TypeInv, TypeOK
<1>2. CASE created' = created
  BY <1>2
<1>3. CASE created' = [created EXCEPT ![u][x] = {}] /\ Installing(u, x, s) \subseteq installed'
  <2> SUFFICES ASSUME NEW v \in Upfs, NEW y \in Ips
               PROVE  created'[v][y] = created[v][y] \/ (v = u /\ y = x /\ created'[v][y] = {})
    BY <1>3
  <2>1. CASE v = u /\ y = x
    BY <1>1, <1>3, <2>1
  <2>2. CASE ~(v = u /\ y = x)
    BY <1>1, <1>3, <2>2
  <2> QED
    BY <2>1, <2>2
<1> QED
  BY <1>2, <1>3 DEF Moves

LEMMA InstallingMembers ==
  ASSUME NEW u, NEW x, NEW s, NEW e \in Installing(u, x, s)
  PROVE  /\ e.upf = u /\ e.ip = x /\ e.seid = s
         /\ \E r \in created[u][x] :
              /\ e.id = r.id /\ e.dnn = r.dnn /\ e.dir = r.dir /\ e.listen = r.listen /\ e.fwd = r.fwd
              /\ ~\E d \in installed : InSession(d, u, x, s) /\ d.id = r.id
  BY DEF Installing

-----------------------------------------------------------------------------
(* Ids.                                                                    *)

\* Ids and PFCP sessions in use have been given out by the counters.
IdBound ==
  /\ \A u \in Upfs, x \in Ips : handle[u][x] <= seids[u]
  /\ \A u \in Upfs, x \in Ips : \A r \in created[u][x] : r.id <= lastId[u][x]
  /\ \A e \in installed : e.id <= lastId[e.upf][e.ip] /\ e.seid <= seids[e.upf]

Alike(r, s) == r.listen = s.listen /\ r.dir = s.dir /\ r.dnn = s.dnn

\* One id, one rule: among those that wait, among those installed, and between both.
\* (A rule whose answer was lost is installed and waits.)
IdQueued ==
  \A u \in Upfs, x \in Ips : \A r, s \in created[u][x] : r.id = s.id => r = s
IdInstalled ==
  \A e, f \in installed : e.upf = f.upf /\ e.ip = f.ip /\ e.id = f.id =>
    Alike(e, f) /\ (e.seid = f.seid => e = f)
IdBoth ==
  \A e \in installed : \A r \in created[e.upf][e.ip] : r.id = e.id => Alike(r, e)

IdInv == IdBound /\ IdQueued /\ IdInstalled /\ IdBoth

LEMMA IdQueue ==
  ASSUME TypeInv, IdInv, NEW h, NEW x \in Ips, NEW dnn, NEW dir, NEW listen, NEW fwd,
         Queues(h, x, dnn, dir, listen, fwd)
  PROVE  IdInv'
<1> DEFINE u == h.node
           n == [id |-> lastId[u][x] + 1, dnn |-> dnn, dir |-> dir, listen |-> listen, fwd |-> fwd]
<1>1. u \in Upfs /\ UNCHANGED <<handle, seids, installed>>
  BY DEF Queues, Lookup, pfcp
<1>2. lastId' = [lastId EXCEPT ![u][x] = lastId[u][x] + 1] /\ lastId \in [Upfs -> [Ips -> Nat]]
  BY DEF Queues, AddRule, NextId, TypeInv, TypeOK
<1>3. created' = [created EXCEPT ![u][x] = created[u][x] \union {n}]
      /\ created \in [Upfs -> [Ips -> SUBSET Rule]]
  BY DEF Queues, AddRule, NextId, TypeInv, TypeOK
<1>4. \A v \in Upfs, y \in Ips :
        /\ lastId[v][y] <= lastId'[v][y] /\ lastId[v][y] \in Nat /\ lastId'[v][y] \in Nat
        /\ \A r \in created[v][y] : r.id \in Nat
  BY <1>2, <1>3 DEF Rule
<1>5. \A v \in Upfs, y \in Ips : \A r \in created'[v][y] :
        r \in created[v][y] \/ (v = u /\ y = x /\ r = n)
  BY <1>1, <1>3
<1>6. n.id = lastId[u][x] + 1 /\ lastId'[u][x] = lastId[u][x] + 1
  BY <1>1, <1>2
<1>7. \A e \in installed : e.upf \in Upfs /\ e.ip \in Ips /\ e.id \in Nat
  BY DEF TypeInv, TypeOK, Entry
<1> HIDE DEF n, u
<1>8. IdBound'
  <2>1. \A v \in Upfs, y \in Ips : \A r \in created'[v][y] : r.id <= lastId'[v][y]
    BY <1>1, <1>4, <1>5, <1>6 DEF IdInv, IdBound
  <2>2. \A e \in installed : e.id <= lastId'[e.upf][e.ip]
    BY <1>4, <1>7 DEF IdInv, IdBound
  <2> QED
    BY <1>1, <2>1, <2>2 DEF IdInv, IdBound
<1>9. IdQueued'
  <2>1. \A r \in created[u][x] : r.id # n.id
    BY <1>1, <1>4, <1>6 DEF IdInv, IdBound
  <2> QED
    BY <1>5, <2>1 DEF IdInv, IdQueued
<1>10. IdInstalled'
  BY <1>1 DEF IdInv, IdInstalled, Alike
<1>11. IdBoth'
  <2>1. \A e \in installed : e.upf = u /\ e.ip = x => e.id # n.id
    BY <1>1, <1>4, <1>6, <1>7 DEF IdInv, IdBound
  <2> QED
    BY <1>1, <1>5, <1>7, <2>1 DEF IdInv, IdBoth, Alike
<1> QED
  BY <1>8, <1>9, <1>10, <1>11 DEF IdInv

LEMMA IdPush ==
  ASSUME TypeInv, IdInv, NEW u \in Upfs, NEW x \in Ips, Pushes(u, x)
  PROVE  IdInv'
<1>1. PICK im : \E s \in Nat : Moves(u, x, im, s) /\ (s <= seids'[u] \/ s = handle[u][x])
  BY PushMoves
<1>2. PICK s \in Nat : Moves(u, x, im, s) /\ (s <= seids'[u] \/ s = handle[u][x])
  BY <1>1
<1>3. lastId' = lastId /\ \A v \in Upfs : seids[v] <= seids'[v] /\ seids[v] \in Nat /\ seids'[v] \in Nat
  BY PushMoves DEF TypeInv, TypeOK
<1>4. \A e \in installed : e.upf \in Upfs /\ e.ip \in Ips /\ e.id \in Nat /\ e.seid \in Nat
  BY DEF TypeInv, TypeOK, Entry
<1>5. \A v \in Upfs, y \in Ips : created'[v][y] \subseteq created[v][y]
  BY <1>2, QueuesShrink
<1>6. ASSUME NEW e \in installed'
      PROVE  \/ \E d \in installed : e = im[d] /\ SameRule(e, d)
             \/ /\ e.upf = u /\ e.ip = x /\ e.seid = s
                /\ \E r \in created[u][x] : e.id = r.id /\ Alike(e, r)
                     /\ ~\E d \in installed : InSession(d, u, x, s) /\ d.id = r.id
  BY <1>2, InstallingMembers DEF Moves, Alike
<1>7. IdBound'
  <2>1. \A v \in Upfs, y \in Ips : handle'[v][y] <= seids'[v]
    <3>1. \/ handle' = [handle EXCEPT ![u][x] = seids[u] + 1] /\ seids' = [seids EXCEPT ![u] = seids[u] + 1]
          \/ handle' = [handle EXCEPT ![u][x] = 0]
          \/ handle' = handle
      BY DEF Pushes, CreateSessionOk, CreateSessionErr, UpdateSessionOk, UpdateSessionErr
    <3>2. handle \in [Upfs -> [Ips -> Nat]] /\ seids \in [Upfs -> Nat]
      BY DEF TypeInv, TypeOK
    <3>3. \A v \in Upfs, y \in Ips : handle[v][y] <= seids'[v]
      BY <1>3, <3>2 DEF IdInv, IdBound
    <3> QED
      BY <1>3, <3>1, <3>2, <3>3
  <2>2. \A v \in Upfs, y \in Ips : \A r \in created'[v][y] : r.id <= lastId'[v][y]
    BY <1>3, <1>5 DEF IdInv, IdBound
  <2>3. ASSUME NEW e \in installed' PROVE e.id <= lastId'[e.upf][e.ip] /\ e.seid <= seids'[e.upf]
    <3>1. CASE \E d \in installed : SameRule(e, d)
      BY <1>3, <1>4, <3>1 DEF IdInv, IdBound, SameRule
    <3>2. CASE e.upf = u /\ e.ip = x /\ e.seid = s /\ \E r \in created[u][x] : e.id = r.id
      <4>1. s <= seids'[u]
        BY <1>2, <1>3 DEF IdInv, IdBound, TypeInv, TypeOK
      <4> QED
        BY <1>3, <3>2, <4>1 DEF IdInv, IdBound
    <3> QED
      BY <1>6, <3>1, <3>2
  <2> QED
    BY <2>1, <2>2, <2>3 DEF IdBound
<1>8. IdQueued'
  BY <1>5 DEF IdInv, IdQueued
<1>9. IdInstalled'
  <2> SUFFICES ASSUME NEW e \in installed', NEW f \in installed',
                      e.upf = f.upf, e.ip = f.ip, e.id = f.id
               PROVE  Alike(e, f) /\ (e.seid = f.seid => e = f)
    BY DEF IdInstalled
  <2> DEFINE Old(g, d) == d \in installed /\ g = im[d] /\ SameRule(g, d)
             New(g, r) == /\ g.upf = u /\ g.ip = x /\ g.seid = s
                          /\ r \in created[u][x] /\ g.id = r.id /\ Alike(g, r)
                          /\ ~\E d \in installed : InSession(d, u, x, s) /\ d.id = r.id
  <2>1. \A g \in installed' : (\E d : Old(g, d)) \/ (\E r : New(g, r))
    BY <1>6
  <2>2. ASSUME NEW d, Old(e, d), NEW c, Old(f, c) PROVE Alike(e, f) /\ (e.seid = f.seid => e = f)
    BY <2>2 DEF IdInv, IdInstalled, Alike, SameRule
  <2>3. ASSUME NEW g, NEW d, Old(g, d), NEW k, NEW r, New(k, r),
               g.upf = k.upf, g.ip = k.ip, g.id = k.id
        PROVE  Alike(g, k) /\ Alike(k, g) /\ g.seid # k.seid
    <3>1. d.upf = u /\ d.ip = x /\ d.id = r.id
      BY <2>3 DEF SameRule
    <3>2. Alike(r, d)
      BY <2>3, <3>1 DEF IdInv, IdBoth
    <3>3. d.seid # s
      BY <2>3, <3>1 DEF InSession
    <3> QED
      BY <2>3, <3>2, <3>3 DEF Alike, SameRule
  <2>4. ASSUME NEW r, New(e, r), NEW q, New(f, q) PROVE Alike(e, f) /\ (e.seid = f.seid => e = f)
    <3>1. r = q
      BY <2>4 DEF IdInv, IdQueued
    <3>2. Alike(e, f)
      BY <2>4, <3>1 DEF Alike
    <3>3. e = f
      <4> HIDE DEF Old, New
      <4>1. \A g \in installed' : (\E d \in installed : g = im[d]) \/ g \in Installing(u, x, s)
        BY <1>2 DEF Moves
      <4>2. ~\E d : Old(e, d)
        BY <2>3, <2>4
      <4>3. ~\E d : Old(f, d)
        BY <2>3, <2>4
      <4>4. \A g, d : d \in installed /\ g = im[d] => Old(g, d)
        BY <1>2 DEF Moves, Old
      <4>5. e \in Installing(u, x, s) /\ f \in Installing(u, x, s)
        BY <4>1, <4>2, <4>3, <4>4
      <4>6. PICK a \in created[u][x] :
              e = [upf |-> u, ip |-> x, seid |-> s, id |-> a.id, dnn |-> a.dnn, dir |-> a.dir,
                   listen |-> a.listen, fwd |-> a.fwd]
        BY <4>5 DEF Installing
      <4>7. PICK b \in created[u][x] :
              f = [upf |-> u, ip |-> x, seid |-> s, id |-> b.id, dnn |-> b.dnn, dir |-> b.dir,
                   listen |-> b.listen, fwd |-> b.fwd]
        BY <4>5 DEF Installing
      <4>8. a = b
        BY <4>6, <4>7 DEF IdInv, IdQueued
      <4> QED
        BY <4>6, <4>7, <4>8
    <3> QED
      BY <3>2, <3>3
  <2> HIDE DEF Old, New
  <2> QED
    BY <2>1, <2>2, <2>3, <2>4
<1>10. IdBoth'
  <2> SUFFICES ASSUME NEW e \in installed', NEW q \in created'[e.upf][e.ip], q.id = e.id
               PROVE  Alike(q, e)
    BY DEF IdBoth
  <2>1. CASE \E d \in installed : SameRule(e, d)
    BY <1>4, <1>5, <2>1 DEF IdInv, IdBoth, Alike, SameRule
  <2>2. CASE e.upf = u /\ e.ip = x /\ \E r \in created[u][x] : e.id = r.id /\ Alike(e, r)
    BY <1>5, <2>2 DEF IdInv, IdQueued, Alike
  <2> QED
    BY <1>6, <2>1, <2>2
<1> QED
  BY <1>7, <1>8, <1>9, <1>10 DEF IdInv

LEMMA IdStep ==
  ASSUME TypeInv, IdInv, [Next]_vars
  PROVE  IdInv'
<1>1. CASE RulesStay
  BY <1>1 DEF RulesStay, IdInv, IdBound, IdQueued, IdInstalled, IdBoth, Alike
<1> QED
  BY <1>1, StepKinds, IdQueue, IdPush

\* Within a PFCP session an id names one rule, whatever is retried, retained or
\* answered twice: the retries of a queue never make a UPF apply a rule under the
\* id of another one.
THEOREM RuleIdsAreUnique == Spec => []RuleIdUnique
<1>1. Init => IdInv
  BY DEF Init, IdInv, IdBound, IdQueued, IdInstalled, IdBoth
<1>2. TypeInv /\ HeldInv /\ IdInv /\ [Next]_vars => (TypeInv /\ HeldInv /\ IdInv)'
  BY TypeStep, HeldStep, IdStep
<1>3. IdInv => RuleIdUnique
  BY DEF IdInv, IdInstalled, IdBoth, RuleIdUnique, Alike
<1> QED
  BY <1>1, <1>2, <1>3, TypeInit, PTL DEF Spec

-----------------------------------------------------------------------------
(* TEIDs.                                                                  *)

\* A push neither drops a rule nor makes one up, a rule that the UPF leaves out
\* being one that it has.
LEMMA OwnedKept ==
  ASSUME TypeInv, IdInv, NEW u \in Upfs, NEW x \in Ips, Pushes(u, x)
  PROVE  Owned' = Owned
<1>1. Owned' \subseteq Owned
  BY OwnedPush DEF Pushes
<1>2. PICK im : \E s \in Nat : Moves(u, x, im, s)
  BY PushMoves
<1>3. PICK s \in Nat : Moves(u, x, im, s)
  BY <1>2
<1>4. OwnedMembers'
  BY OwnedMembersHere, PTL
<1>5. ASSUME NEW d \in installed PROVE <<d.listen, d.upf, d.ip, d.id>> \in Owned'
  <2>1. im[d] \in installed' /\ SameRule(im[d], d)
    BY <1>3 DEF Moves
  <2> QED
    BY <1>4, <2>1 DEF OwnedMembers, SameRule
<1>6. ASSUME NEW v \in Upfs, NEW y \in Ips, NEW r \in created[v][y]
      PROVE  <<r.listen, v, y, r.id>> \in Owned'
  <2>1. CASE r \in created'[v][y]
    BY <1>4, <2>1 DEF OwnedMembers
  <2>2. CASE v = u /\ y = x /\ Installing(u, x, s) \subseteq installed'
    <3>1. CASE \E d \in installed : InSession(d, u, x, s) /\ d.id = r.id
      <4>1. PICK d \in installed : InSession(d, u, x, s) /\ d.id = r.id
        BY <3>1
      <4>2. d.upf = u /\ d.ip = x /\ d.listen = r.listen
        BY <2>2, <4>1 DEF InSession, IdInv, IdBoth, Alike
      <4> QED
        BY <1>5, <2>2, <4>1, <4>2
    <3>2. CASE ~\E d \in installed : InSession(d, u, x, s) /\ d.id = r.id
      <4> DEFINE e == [upf |-> u, ip |-> x, seid |-> s, id |-> r.id, dnn |-> r.dnn, dir |-> r.dir,
                       listen |-> r.listen, fwd |-> r.fwd]
      <4>1. e \in Installing(u, x, s)
        BY <2>2, <3>2 DEF Installing
      <4>2. e \in installed' /\ e.upf = u /\ e.ip = x /\ e.id = r.id /\ e.listen = r.listen
        BY <2>2, <4>1
      <4> HIDE DEF e
      <4> QED
        BY <1>4, <2>2, <4>2 DEF OwnedMembers
    <3> QED
      BY <3>1, <3>2
  <2> QED
    BY <1>3, <2>1, <2>2, QueuesShrink
<1>7. Owned \subseteq Owned'
  BY <1>5, <1>6, OwnedMembersHere DEF OwnedMembers
<1> QED
  BY <1>1, <1>7

LEMMA OwnedQueue ==
  ASSUME TypeInv, NEW h, NEW x \in Ips, NEW dnn, NEW dir, NEW listen, NEW fwd,
         Queues(h, x, dnn, dir, listen, fwd)
  PROVE  Owned' = Owned \union {<<listen, h.node, x, NextId(h.node, x)>>}
<1> DEFINE u == h.node
           n == [id |-> NextId(u, x), dnn |-> dnn, dir |-> dir, listen |-> listen, fwd |-> fwd]
<1>1. u \in Upfs /\ UNCHANGED installed
  BY DEF Queues, Lookup, pfcp
<1>2. Owned' \subseteq Owned \union {<<listen, u, x, NextId(u, x)>>}
  BY <1>1, OwnedAdd DEF Queues
<1>3. OwnedMembers'
  BY OwnedMembersHere, PTL
<1>4. n \in created'[u][x] /\ \A v \in Upfs, y \in Ips : created[v][y] \subseteq created'[v][y]
  BY <1>1 DEF Queues, AddRule, TypeInv, TypeOK
<1>5. n.listen = listen /\ n.id = NextId(u, x)
  OBVIOUS
<1> HIDE DEF n
<1>6. <<listen, u, x, NextId(u, x)>> \in Owned'
  BY <1>1, <1>3, <1>4, <1>5 DEF OwnedMembers
<1>7. Owned \subseteq Owned'
  BY <1>1, <1>3, <1>4, OwnedMembersHere DEF OwnedMembers
<1> QED
  BY <1>2, <1>6, <1>7

\* The pools of a UPF and the rules of the UPF name the same F-TEIDs.
PoolInv ==
  \A u \in Upfs : \A f : f \in allocated[u] <=> f # None /\ \E o \in Owned : o[1] = f /\ o[2] = u

LEMMA PoolStep ==
  ASSUME TypeInv, IdInv, PoolInv, [Next]_vars
  PROVE  PoolInv'
<1>1. CASE RulesStay
  <2>1. Owned' = Owned
    BY <1>1 DEF RulesStay, Owned, Pending
  <2> QED
    BY <1>1, <2>1 DEF RulesStay, PoolInv
<1>2. ASSUME NEW u \in Upfs, NEW x \in Ips, Pushes(u, x), UNCHANGED allocated PROVE PoolInv'
  BY <1>2, OwnedKept DEF PoolInv
<1>3. ASSUME NEW h, NEW x \in Ips, NEW dnn, NEW dir, NEW listen, NEW fwd,
             Queues(h, x, dnn, dir, listen, fwd)
      PROVE  PoolInv'
  <2> DEFINE n == <<listen, h.node, x, NextId(h.node, x)>>
  <2>1. Owned' = Owned \union {n} /\ n[1] = listen /\ n[2] = h.node
    BY <1>3, OwnedQueue
  <2>2. h.node \in Upfs /\ Lookup(h)
    BY <1>3 DEF Queues, Lookup
  <2> HIDE DEF n
  <2>3. CASE listen = None /\ UNCHANGED allocated
    BY <2>1, <2>3 DEF PoolInv
  <2>4. CASE NextListenFteidContext(h, listen)
    <3>1. listen \in Fteid
      BY <2>2, <2>4, FreshType DEF TypeInv
    <3>2. listen # None
      BY <3>1, FteidAssumption
    <3>3. \A v \in Upfs : \A f : f \in allocated'[v] <=> f \in allocated[v] \/ (v = h.node /\ f = listen)
      BY <2>2, <2>4 DEF NextListenFteidContext, TypeInv, TypeOK
    <3> QED
      BY <2>1, <3>2, <3>3 DEF PoolInv
  <2> QED
    BY <1>3, <2>3, <2>4 DEF Queues
<1> QED
  BY <1>1, <1>2, <1>3, StepKinds

\* A TEID is taken exactly as long as a rule listens on it, however calls fail:
\* none is lost, and none is in use that the pool could draw again.
THEOREM PoolsAgree == Spec => []PoolAgrees
<1>1. Init => PoolInv
  <2> SUFFICES ASSUME Init PROVE PoolInv
    OBVIOUS
  <2>1. \A o : o \notin Owned
    BY OwnedMembersHere DEF OwnedMembers, Init
  <2> QED
    BY <2>1 DEF PoolInv, Init
<1>2. Init => IdInv
  BY DEF Init, IdInv, IdBound, IdQueued, IdInstalled, IdBoth
<1>3. TypeInv /\ HeldInv /\ IdInv /\ PoolInv /\ [Next]_vars => (TypeInv /\ HeldInv /\ IdInv /\ PoolInv)'
  BY TypeStep, HeldStep, IdStep, PoolStep
<1>4. PoolInv => PoolAgrees
  <2> SUFFICES ASSUME PoolInv, NEW u \in Upfs
               PROVE  allocated[u] = ({e.listen : e \in {r \in installed : r.upf = u}} \union
                                      {w[3].listen : w \in {q \in Pending : q[1] = u}}) \ {None}
    BY DEF PoolAgrees
  <2>1. ASSUME NEW e \in installed, e.upf = u PROVE \E o \in Owned : o[1] = e.listen /\ o[2] = u
    <3> DEFINE o == <<e.listen, e.upf, e.ip, e.id>>
    <3>1. o \in Owned /\ o[1] = e.listen /\ o[2] = u
      BY <2>1 DEF Owned
    <3> QED
      BY <3>1
  <2>2. ASSUME NEW w \in Pending, w[1] = u PROVE \E o \in Owned : o[1] = w[3].listen /\ o[2] = u
    <3> DEFINE o == <<w[3].listen, w[1], w[2], w[3].id>>
    <3>1. o \in Owned /\ o[1] = w[3].listen /\ o[2] = u
      BY <2>2 DEF Owned
    <3> QED
      BY <3>1
  <2>3. ASSUME NEW o \in Owned, o[2] = u
        PROVE  \/ \E e \in installed : e.upf = u /\ e.listen = o[1]
               \/ \E w \in Pending : w[1] = u /\ w[3].listen = o[1]
    BY <2>3 DEF Owned
  <2> QED
    BY <2>1, <2>2, <2>3 DEF PoolInv
<1> QED
  BY <1>1, <1>2, <1>3, <1>4, TypeInit, PTL DEF Spec

-----------------------------------------------------------------------------
(* What a step leaves of an installed rule and of the other calls.         *)

\* A rule changes only by a redirection that waits for its PFCP session.
LEMMA RuleKept ==
  ASSUME TypeInv, [Next]_vars, NEW e \in installed
  PROVE  \/ e \in installed'
         \/ e.seid = handle[e.upf][e.ip] /\ \E r \in Redirects(e.upf, e.ip) : r.far = e.id
<1>1. CASE RulesStay \/ \E h, dnn, dir, listen, fwd : \E x \in Ips : Queues(h, x, dnn, dir, listen, fwd)
  BY <1>1 DEF RulesStay, Queues, pfcp
<1>2. ASSUME NEW u \in Upfs, NEW x \in Ips, Pushes(u, x)
      PROVE  \/ e \in installed'
             \/ e.seid = handle[e.upf][e.ip] /\ \E r \in Redirects(e.upf, e.ip) : r.far = e.id
  <2>1. \/ installed \subseteq installed'
        \/ Redirected(u, x, handle[u][x]) \subseteq installed'
    BY <1>2 DEF Pushes, CreateSessionOk, CreateSessionErr, UpdateSessionOk, UpdateSessionErr
  <2>2. CASE InSession(e, u, x, handle[u][x]) /\ \E r \in Redirects(u, x) : r.far = e.id
    BY <2>2 DEF InSession
  <2>3. CASE ~(InSession(e, u, x, handle[u][x]) /\ \E r \in Redirects(u, x) : r.far = e.id)
    BY <2>1, <2>3 DEF Redirected
  <2> QED
    BY <2>2, <2>3
<1> QED
  BY <1>1, <1>2, StepKinds

\* A step of one goroutine leaves the others where they are in their calls.
LEMMA OthersStay ==
  ASSUME TypeInv, NEW p \in Procs, Step(p) \/ Begin(p) \/ End(p), NEW q \in Procs, q # p
  PROVE  /\ call'[q].pc = call[q].pc /\ call'[q].key = call[q].key /\ call'[q].path = call[q].path
         /\ call'[q].i = call[q].i /\ call'[q].last = call[q].last /\ call'[q].res = call[q].res
         /\ call'[q].far = call[q].far
<1>1. call \in [Procs -> Call]
  BY DEF TypeInv, TypeOK
<1>2. CASE UplinkAdd(p)
  <2>1. call'[q] = call[q] \/ call'[q] = [call[q] EXCEPT !.held = FALSE]
    BY <1>2 DEF UplinkAdd
  <2> QED
    BY <1>1, <2>1 DEF Call
<1>3. CASE \E c : call' = [call EXCEPT ![p] = c]
  BY <1>1, <1>3
<1>4. CASE UNCHANGED call
  BY <1>4
<1>5. ASSUME Begin(p) PROVE \E c : call' = [call EXCEPT ![p] = c]
  BY <1>5 DEF Begin, BeginUplink, BeginDownlink, BeginForward, BeginSwitch, StoreNextDownlinkFteid,
     SetIndirectForwardingRequired, Return, Start
<1>6. ASSUME UplinkQueue(p) \/ UplinkPush(p) \/ UplinkStore(p) \/ DownlinkPush(p) \/ FwQueue(p)
             \/ FwPush(p) \/ SwitchPush(p) \/ End(p) \/ DownlinkRead(p) \/ DownlinkFar(p)
      PROVE  \E c : call' = [call EXCEPT ![p] = c]
  BY <1>6 DEF UplinkQueue, UplinkPush, UplinkStore, DownlinkRead, DownlinkFar, DownlinkPush, FwQueue,
     FwPush, SwitchPush, End, Return
<1>7. ASSUME DownlinkQueue(p) PROVE \E c : call' = [call EXCEPT ![p] = c]
  BY <1>7 DEF DownlinkQueue, Return
<1>8. ASSUME SwitchQueue(p) PROVE UNCHANGED call \/ \E c : call' = [call EXCEPT ![p] = c]
  BY <1>8 DEF SwitchQueue
<1> QED
  BY <1>2, <1>3, <1>4, <1>5, <1>6, <1>7, <1>8 DEF Step

=============================================================================
