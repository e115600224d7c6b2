-------------------------- MODULE SmfForwardProofs --------------------------
(***************************************************************************)
(* Where the rules of the SMF forward to: nothing is sent to an F-TEID     *)
(* that no UPF listens on for the same UE and slice, the uplink of a       *)
(* session leads to the data network, and a downlink path that has been    *)
(* set up leads from there to a gNB.                                       *)
(***************************************************************************)
EXTENDS SmfRuleProofs

\* A UPF listens on f for packets of this UE, slice and direction.
Live(x, dnn, dir, f) ==
  \E e \in installed : e.listen = f /\ e.ip = x /\ e.dnn = dnn /\ e.dir = dir

\* It does, or will as soon as a queue of u is pushed.
Soon(u, x, dnn, dir, f) ==
  \/ Live(x, dnn, dir, f)
  \/ \E r \in created[u][x] : r.listen = f /\ r.dnn = dnn /\ r.dir = dir

FwdRules ==
  /\ \A e \in installed : e.fwd \in Fteid => Live(e.ip, e.dnn, e.dir, e.fwd)
  /\ \A u \in Upfs, x \in Ips : \A r \in created[u][x] : r.fwd \in Fteid => Live(x, r.dnn, r.dir, r.fwd)

\* What a call is about to forward to: the hop set up before.
FwdCall(p) ==
  LET c == call[p] IN
  /\ c.pc \in {"ulStore", "ulAdd"} \/ (c.pc = "ulQueue" /\ c.i # Len(c.path)) =>
       Live(c.key.ip, c.key.dnn, "UL", c.last)
  /\ c.pc = "ulPush" => Soon(c.path[c.i].node, c.key.ip, c.key.dnn, "UL", c.last)
  /\ c.pc \in {"dlQueue", "fwQueue"} /\ c.last \in Fteid => Live(c.key.ip, c.key.dnn, "DL", c.last)
  /\ c.pc \in {"dlFar", "dlPush", "fwPush"} /\ c.last \in Fteid =>
       Soon(c.path[c.i].node, c.key.ip, c.key.dnn, "DL", c.last)

\* The uplink F-TEID of a stored session is listened on.
UplinkListened ==
  \A k \in Keys : sessions[k] # None => Live(k.ip, k.dnn, "UL", sessions[k].ul)

FwdInv == FwdRules /\ (\A p \in Procs : FwdCall(p)) /\ UplinkListened

-----------------------------------------------------------------------------
(* What is listened on stays so, and what is pushed gets there.            *)

LEMMA PushLands ==
  ASSUME TypeInv, IdInv, NEW u \in Upfs, NEW x \in Ips, Pushes(u, x)
  PROVE  /\ \A y, dnn, dir, f : Live(y, dnn, dir, f) => Live(y, dnn, dir, f)'
         /\ \A v \in Upfs, y \in Ips : \A dnn, dir, f :
              Soon(v, y, dnn, dir, f) => Soon(v, y, dnn, dir, f)'
         /\ created'[u][x] = {} =>
              \A dnn, dir, f : Soon(u, x, dnn, dir, f) => Live(x, dnn, dir, f)'
<1>1. PICK im : \E s \in Nat : Moves(u, x, im, s)
  BY PushMoves
<1>2. PICK s \in Nat : Moves(u, x, im, s)
  BY <1>1
<1>3. ASSUME NEW d \in installed
      PROVE  \E e \in installed' : e.listen = d.listen /\ e.ip = d.ip /\ e.dnn = d.dnn /\ e.dir = d.dir
  BY <1>2 DEF Moves, SameRule
<1>4. ASSUME NEW y, NEW dnn, NEW dir, NEW f, Live(y, dnn, dir, f) PROVE Live(y, dnn, dir, f)'
  BY <1>3, <1>4 DEF Live
<1>5. ASSUME NEW r \in created[u][x], Installing(u, x, s) \subseteq installed'
      PROVE  Live(x, r.dnn, r.dir, r.listen)'
  <2>1. CASE \E d \in installed : InSession(d, u, x, s) /\ d.id = r.id
    <3>1. PICK d \in installed : InSession(d, u, x, s) /\ d.id = r.id
      BY <2>1
    <3>2. d.ip = x /\ d.listen = r.listen /\ d.dnn = r.dnn /\ d.dir = r.dir
      BY <3>1 DEF InSession, IdInv, IdBoth, Alike
    <3> QED
      BY <3>2, <1>3 DEF Live
  <2>2. CASE ~\E d \in installed : InSession(d, u, x, s) /\ d.id = r.id
    <3> DEFINE e == [upf |-> u, ip |-> x, seid |-> s, id |-> r.id, dnn |-> r.dnn, dir |-> r.dir,
                     listen |-> r.listen, fwd |-> r.fwd]
    <3>1. e \in Installing(u, x, s)
      BY <2>2 DEF Installing
    <3>2. e \in installed' /\ e.ip = x /\ e.dnn = r.dnn /\ e.dir = r.dir /\ e.listen = r.listen
      BY <1>5, <3>1
    <3> HIDE DEF e
    <3> QED
      BY <3>2 DEF Live
  <2> QED
    BY <2>1, <2>2
<1>6. ASSUME NEW v \in Upfs, NEW y \in Ips, NEW dnn, NEW dir, NEW f, Soon(v, y, dnn, dir, f)
      PROVE  Soon(v, y, dnn, dir, f)'
  <2>1. CASE created'[v][y] = created[v][y]
    BY <1>4, <1>6, <2>1 DEF Soon
  <2>2. CASE v = u /\ y = x /\ Installing(u, x, s) \subseteq installed'
    BY <1>4, <1>5, <1>6, <2>2 DEF Soon
  <2> QED
    BY <1>2, <2>1, <2>2, QueuesShrink
<1>7. ASSUME created'[u][x] = {}, NEW dnn, NEW dir, NEW f, Soon(u, x, dnn, dir, f)
      PROVE  Live(x, dnn, dir, f)'
  BY <1>6, <1>7 DEF Soon
<1> QED
  BY <1>4, <1>6, <1>7

LEMMA LiveStays ==
  ASSUME TypeInv, IdInv, [Next]_vars
  PROVE  /\ \A y, dnn, dir, f : Live(y, dnn, dir, f) => Live(y, dnn, dir, f)'
         /\ \A v \in Upfs, y \in Ips : \A dnn, dir, f :
              Soon(v, y, dnn, dir, f) => Soon(v, y, dnn, dir, f)'
<1>1. CASE RulesStay
  BY <1>1 DEF RulesStay, Live, Soon
<1>2. ASSUME NEW h, NEW x \in Ips, NEW dnn, NEW dir, NEW listen, NEW fwd,
             Queues(h, x, dnn, dir, listen, fwd)
      PROVE  UNCHANGED installed /\ \A v \in Upfs, y \in Ips : created[v][y] \subseteq created'[v][y]
  BY <1>2 DEF Queues, AddRule, Lookup, pfcp, TypeInv, TypeOK
<1>3. CASE \E h, dnn, dir, listen, fwd : \E x \in Ips : Queues(h, x, dnn, dir, listen, fwd)
  <2>1. UNCHANGED installed /\ \A v \in Upfs, y \in Ips : created[v][y] \subseteq created'[v][y]
    BY <1>2, <1>3
  <2> QED
    BY <2>1 DEF Live, Soon
<1>4. ASSUME NEW u \in Upfs, NEW x \in Ips, Pushes(u, x)
      PROVE  /\ \A y, dnn, dir, f : Live(y, dnn, dir, f) => Live(y, dnn, dir, f)'
             /\ \A v \in Upfs, y \in Ips : \A dnn, dir, f :
                  Soon(v, y, dnn, dir, f) => Soon(v, y, dnn, dir, f)'
  BY <1>4, PushLands
<1> QED
  BY <1>1, <1>3, <1>4, StepKinds

-----------------------------------------------------------------------------
(* Rules.                                                                  *)

LEMMA FwdRulesStay ==
  ASSUME TypeInv, IdInv, FwdRules, [Next]_vars, RulesStay
  PROVE  FwdRules'
  BY LiveStays DEF FwdRules, RulesStay

LEMMA FwdRulesQueue ==
  ASSUME TypeInv, IdInv, FwdRules, [Next]_vars,
         NEW h, NEW x \in Ips, NEW dnn, NEW dir, NEW listen, NEW fwd,
         Queues(h, x, dnn, dir, listen, fwd), fwd \in Fteid => Live(x, dnn, dir, fwd)
  PROVE  FwdRules'
<1> DEFINE n == [id |-> NextId(h.node, x), dnn |-> dnn, dir |-> dir, listen |-> listen, fwd |-> fwd]
<1>1. UNCHANGED installed
  BY DEF Queues, pfcp
<1>2. \A v \in Upfs, y \in Ips : \A r \in created'[v][y] : r \in created[v][y] \/ (y = x /\ r = n)
  BY DEF Queues, Lookup, AddRule, TypeInv, TypeOK
<1>3. n.dnn = dnn /\ n.dir = dir /\ n.fwd = fwd
  OBVIOUS
<1> HIDE DEF n
<1> QED
  BY <1>1, <1>2, <1>3, LiveStays DEF FwdRules

LEMMA FwdRulesPush ==
  ASSUME TypeInv, IdInv, FwdRules, [Next]_vars, NEW u \in Upfs, NEW x \in Ips, Pushes(u, x)
  PROVE  FwdRules'
<1>1. PICK im : \E s \in Nat : Moves(u, x, im, s)
  BY PushMoves
<1>2. PICK s \in Nat : Moves(u, x, im, s)
  BY <1>1
<1>3. ASSUME NEW e \in installed', e.fwd \in Fteid PROVE Live(e.ip, e.dnn, e.dir, e.fwd)'
  <2>1. CASE \E d \in installed : SameRule(e, d)
    <3>1. PICK d \in installed : SameRule(e, d)
      BY <2>1
    <3>2. e.fwd = d.fwd /\ e.ip = d.ip /\ e.dnn = d.dnn /\ e.dir = d.dir
      BY <1>3, <3>1, FteidAssumption DEF SameRule
    <3> QED
      BY <1>3, <3>2, LiveStays DEF FwdRules
  <2>2. CASE e \in Installing(u, x, s)
    <3>1. PICK r \in created[u][x] : e.ip = x /\ e.dnn = r.dnn /\ e.dir = r.dir /\ e.fwd = r.fwd
      BY <2>2, InstallingMembers
    <3> QED
      BY <1>3, <3>1, LiveStays DEF FwdRules
  <2> QED
    BY <1>2, <2>1, <2>2 DEF Moves
<1>4. \A v \in Upfs, y \in Ips : created'[v][y] \subseteq created[v][y]
  BY <1>2, QueuesShrink
<1> QED
  BY <1>3, <1>4, LiveStays DEF FwdRules

-----------------------------------------------------------------------------
(* Calls.                                                                  *)

\* What the other goroutines know stays true.
LEMMA FwdOthers ==
  ASSUME TypeInv, IdInv, [Next]_vars, NEW p \in Procs, Step(p) \/ Begin(p) \/ End(p),
         NEW q \in Procs, q # p, FwdCall(q)
  PROVE  FwdCall(q)'
<1>1. /\ call'[q].pc = call[q].pc /\ call'[q].key = call[q].key /\ call'[q].path = call[q].path
      /\ call'[q].i = call[q].i /\ call'[q].last = call[q].last
  BY OthersStay
<1>2. call[q].pc \in {"ulPush", "dlFar", "dlPush", "fwPush"} =>
        call[q].path[call[q].i].node \in Upfs /\ call[q].key.ip \in Ips
  BY KeyType DEF TypeInv, CallOK, Ip
<1> QED
  BY <1>1, <1>2, LiveStays DEF FwdCall

LEMMA FwdSelf ==
  ASSUME TypeInv, IdInv, [Next]_vars, NEW p \in Procs, Step(p) \/ Begin(p) \/ End(p),
         \A q \in Procs : FwdCall(q), FwdCall(p)'
  PROVE  \A q \in Procs : FwdCall(q)'
  BY FwdOthers

\* A call that has returned, or one for a switch, has nothing to forward to.
LEMMA FwdNothing ==
  ASSUME NEW p \in Procs, call'[p].pc \in {"idle", "swQueue", "swPush"}
  PROVE  FwdCall(p)'
  BY DEF FwdCall

LEMMA ReturnPc ==
  ASSUME TypeInv, NEW p \in Procs, NEW res, NEW f, Return(p, res, f)
  PROVE  call'[p].pc = "idle"
  BY DEF Return, Idle, TypeInv, TypeOK

\* A call goes on at the same hop.
GoesOn(p, pc, last) ==
  /\ call'[p].pc = pc /\ call'[p].last = last /\ call'[p].key = call[p].key
  /\ call'[p].path = call[p].path /\ call'[p].i = call[p].i /\ call'[p].res = call[p].res

\* What queueing a hop of a downlink path does to the call and the rules.
QueuesDownlink(p, u, x, dnn, listen, last) ==
  /\ Lookup(Hop(p))
  /\ AddRule(u, x, dnn, "DL", listen, call[p].last)
  /\ GoesOn(p, "dlFar", last) /\ call'[p].far = QueuedFar(u, x)
  /\ IF AtEnd(p) THEN listen = None /\ last = call[p].last /\ UNCHANGED allocated
     ELSE listen = last /\ NextListenFteidContext(Hop(p), listen) /\ listen \in Fteid

LEMMA DownlinkQueues ==
  ASSUME TypeInv, NEW p \in Procs, DownlinkQueue(p)
  PROVE  \/ UNCHANGED <<allocated, rules>> /\ Return(p, "err", None)
         \/ \E listen, last : QueuesDownlink(p, Hop(p).node, call[p].key.ip, call[p].key.dnn, listen, last)
<1> DEFINE u == Hop(p).node
           x == call[p].key.ip
           Queued(last) == call' = [call EXCEPT ![p].pc = "dlFar", ![p].last = last,
                                                ![p].far = QueuedFar(u, x)]
<1>1. ASSUME NEW last, Queued(last) PROVE GoesOn(p, "dlFar", last) /\ call'[p].far = QueuedFar(u, x)
  <2>1. PICK far : far = QueuedFar(u, x)
    OBVIOUS
  <2>2. call' = [call EXCEPT ![p].pc = "dlFar", ![p].last = last, ![p].far = far]
    BY <1>1, <2>1
  <2> QED
    BY <2>1, <2>2 DEF GoesOn, TypeInv, TypeOK, Call
<1>2. \/ UNCHANGED <<allocated, rules>> /\ Return(p, "err", None)
      \/ /\ Lookup(Hop(p)) /\ AtEnd(p)
         /\ AddRule(u, x, call[p].key.dnn, "DL", None, call[p].last)
         /\ Queued(call[p].last) /\ UNCHANGED allocated
      \/ /\ Lookup(Hop(p)) /\ ~AtEnd(p)
         /\ \E f \in [addr : {Hop(p).addr}, teid : Teids] :
              /\ NextListenFteidContext(Hop(p), f)
              /\ AddRule(u, x, call[p].key.dnn, "DL", f, call[p].last)
              /\ Queued(f)
  BY Zenon DEF DownlinkQueue, UpdateDownlinkAnchor, UpdateDownlinkIntermediateWithFteid
<1>3. ASSUME Lookup(Hop(p)), NEW f \in [addr : {Hop(p).addr}, teid : Teids], NextListenFteidContext(Hop(p), f)
      PROVE  f \in Fteid
  BY <1>3 DEF NextListenFteidContext, ListenRefused, Lookup, Fteid, Addrs
<1> HIDE DEF Queued
<1> QED
  BY <1>1, <1>2, <1>3 DEF QueuesDownlink

\* What is read back is the F-TEID of a gNB.
LEMMA DownlinkReads ==
  ASSUME TypeInv, HeldInv, NEW p \in Procs, DownlinkRead(p)
  PROVE  /\ GoesOn(p, "dlQueue", call'[p].last) /\ call[p].pc = "dlRead"
         /\ call'[p].last \in GnbFteids
<1>1. call[p] \in Call /\ call \in [Procs -> Call] /\ call[p].pc = "dlRead" /\ call[p].key \in Keys
      /\ call[p].last \in GnbFteids
  BY KeyType DEF DownlinkRead, At, TypeInv, TypeOK, CallOK
<1>2. call[p].held => sessions[call[p].key].dl \in GnbFteids
  BY <1>1 DEF HeldInv, StoredInv, ReadInv, DlPcs, TypeInv, TypeOK, Session
<1>3. PICK f : f = IF call[p].held THEN sessions[call[p].key].dl ELSE call[p].last
  OBVIOUS
<1>4. call' = [call EXCEPT ![p].pc = "dlQueue", ![p].last = f] /\ f \in GnbFteids
  BY <1>1, <1>2, <1>3 DEF DownlinkRead
<1> QED
  BY <1>1, <1>4 DEF GoesOn, Call

LEMMA QueueFwd ==
  ASSUME TypeInv, IdInv, FwdInv, NEW p \in Procs, [Next]_vars,
         UplinkQueue(p) \/ DownlinkQueue(p) \/ FwQueue(p)
  PROVE  FwdRules' /\ FwdCall(p)'
<1>0. PICK u, x, dnn : u = Hop(p).node /\ x = call[p].key.ip /\ dnn = call[p].key.dnn
  OBVIOUS
<1>1. call[p] \in Call /\ call \in [Procs -> Call] /\ x \in Ips /\ FwdCall(p) /\ Ip(p) = x
  BY <1>0, KeyType DEF UplinkQueue, DownlinkQueue, FwQueue, At, Ip, TypeInv, TypeOK, FwdInv
<1>2. FwdRules /\ Core \notin Fteid
  BY FteidAssumption DEF FwdInv
<1>3. CASE UNCHANGED <<allocated, rules>> /\ \E res, f : Return(p, res, f)
  <2>1. RulesStay
    BY <1>3 DEF RulesStay, UplinkQueue, DownlinkQueue, FwQueue, rules, pfcp
  <2> QED
    BY <1>2, <1>3, <2>1, FwdRulesStay, ReturnPc, FwdNothing
<1>4. ASSUME NEW pc \in {"ulPush", "dlFar", "fwPush"}, NEW dir, NEW listen, NEW fwd, NEW last,
             Queues(Hop(p), x, dnn, dir, listen, fwd), fwd \in Fteid => Live(x, dnn, dir, fwd),
             GoesOn(p, pc, last),
             dir = IF pc = "ulPush" THEN "UL" ELSE "DL",
             last = listen \/ (pc # "ulPush" /\ last = fwd)
      PROVE  FwdRules' /\ FwdCall(p)'
  <2>1. FwdRules'
    BY <1>1, <1>2, <1>4, FwdRulesQueue
  <2>2. /\ call'[p].pc = pc /\ call'[p].last = last /\ call'[p].key = call[p].key
        /\ call'[p].path = call[p].path /\ call'[p].i = call[p].i
    BY <1>4 DEF GoesOn
  <2>3. Soon(u, x, dnn, dir, listen)'
    <3> DEFINE n == [id |-> NextId(u, x), dnn |-> dnn, dir |-> dir, listen |-> listen, fwd |-> fwd]
    <3>1. n \in created'[u][x]
      BY <1>0, <1>1, <1>4 DEF Queues, Lookup, AddRule, TypeInv, TypeOK
    <3>2. n.listen = listen /\ n.dnn = dnn /\ n.dir = dir
      OBVIOUS
    <3> HIDE DEF n
    <3> QED
      BY <3>1, <3>2 DEF Soon
  <2>4. fwd \in Fteid => Soon(u, x, dnn, dir, fwd)'
    BY <1>4, LiveStays DEF Soon
  <2>5. FwdCall(p)'
    BY <1>0, <1>4, <2>2, <2>3, <2>4 DEF FwdCall, Hop
  <2> QED
    BY <2>1, <2>5
<1>8. ASSUME NEW pc, NEW f, call' = [call EXCEPT ![p].pc = pc, ![p].last = f] PROVE GoesOn(p, pc, f)
  BY <1>1, <1>8 DEF GoesOn, Call
<1>5. CASE UplinkQueue(p)
  <2>1. \/ UNCHANGED <<allocated, rules>> /\ Return(p, "err", None)
        \/ \E f : /\ Lookup(Hop(p)) /\ NextListenFteidContext(Hop(p), f)
                  /\ IF AtEnd(p) THEN AddRule(u, x, dnn, "UL", f, Core)
                     ELSE AddRule(u, x, dnn, "UL", f, call[p].last)
                  /\ call' = [call EXCEPT ![p].pc = "ulPush", ![p].last = f]
    BY <1>0, <1>1, <1>5 DEF UplinkQueue, CreateUplinkAnchorWithFteid, CreateUplinkIntermediateWithFteid
  <2>2. ~AtEnd(p) => Live(x, dnn, "UL", call[p].last)
    BY <1>0, <1>1, <1>5 DEF UplinkQueue, At, AtEnd, FwdCall
  <2>3. UNCHANGED pfcp
    BY <1>5 DEF UplinkQueue
  <2> QED
    BY <1>0, <1>2, <1>3, <1>4, <1>8, <2>1, <2>2, <2>3 DEF Queues
<1>6. CASE DownlinkQueue(p)
  <2>1. \/ UNCHANGED <<allocated, rules>> /\ Return(p, "err", None)
        \/ \E listen, last : QueuesDownlink(p, u, x, dnn, listen, last)
    BY <1>0, <1>6, DownlinkQueues
  <2>2. call[p].last \in Fteid => Live(x, dnn, "DL", call[p].last)
    BY <1>0, <1>1, <1>6 DEF DownlinkQueue, At, FwdCall
  <2>3. UNCHANGED pfcp
    BY <1>6 DEF DownlinkQueue
  <2>4. ASSUME NEW listen, NEW last, QueuesDownlink(p, u, x, dnn, listen, last)
        PROVE  FwdRules' /\ FwdCall(p)'
    <3>1. Queues(Hop(p), x, dnn, "DL", listen, call[p].last)
      BY <1>0, <2>3, <2>4 DEF Queues, QueuesDownlink
    <3>2. GoesOn(p, "dlFar", last) /\ (last = listen \/ last = call[p].last)
      BY <2>4 DEF QueuesDownlink
    <3> QED
      BY <1>4, <2>2, <3>1, <3>2
  <2> QED
    BY <1>3, <2>1, <2>4
<1>7. CASE FwQueue(p)
  <2>1. \/ UNCHANGED <<allocated, rules>> /\ Return(p, "err", None)
        \/ \E f : /\ NextListenFteidContext(Hop(p), f)
                  /\ AddRule(u, x, dnn, "DL", f, call[p].last)
                  /\ call' = [call EXCEPT ![p].pc = "fwPush", ![p].last = f]
    BY <1>0, <1>1, <1>7 DEF FwQueue, UpdateDownlinkIntermediateWithFteid
  <2>2. call[p].last \in Fteid => Live(x, dnn, "DL", call[p].last)
    BY <1>0, <1>1, <1>7 DEF FwQueue, At, FwdCall
  <2>3. UNCHANGED pfcp /\ Lookup(Hop(p))
    BY <1>7 DEF FwQueue, At, TypeInv, CallOK, Hop, Lookup
  <2> QED
    BY <1>0, <1>3, <1>4, <1>8, <2>1, <2>2, <2>3 DEF Queues
<1> QED
  BY <1>5, <1>6, <1>7

LEMMA PushFwd ==
  ASSUME TypeInv, IdInv, FwdInv, NEW p \in Procs, [Next]_vars,
         UplinkPush(p) \/ DownlinkPush(p) \/ FwPush(p) \/ SwitchPush(p)
  PROVE  FwdRules' /\ FwdCall(p)'
<1>0. PICK u, k, f : u = Hop(p).node /\ k = call[p].key /\ f = call[p].last
  OBVIOUS
<1>1. call[p] \in Call /\ call \in [Procs -> Call] /\ k.ip \in Ips /\ Ip(p) = k.ip /\ u \in Upfs
      /\ FwdCall(p)
  BY <1>0, KeyType DEF UplinkPush, DownlinkPush, FwPush, SwitchPush, At, Ip, TypeInv, TypeOK, CallOK, Hop, FwdInv
<1>2. Pushes(u, k.ip)
  BY <1>0, <1>1 DEF UplinkPush, DownlinkPush, FwPush, SwitchPush, Pushes
<1>3. FwdRules'
  BY <1>0, <1>1, <1>2, FwdRulesPush DEF FwdInv
<1>4. CASE \E res, g : Return(p, res, g)
  BY <1>3, <1>4, ReturnPc, FwdNothing
<1>5. CASE /\ UplinkPush(p) /\ CreateSessionOk(u, k.ip)
           /\ IF call[p].i = 1 THEN call' = [call EXCEPT ![p].pc = "ulStore"]
              ELSE call' = [call EXCEPT ![p].pc = "ulQueue", ![p].i = @ - 1]
  <2>1. created'[u][k.ip] = {}
    BY <1>0, <1>1, <1>5 DEF CreateSessionOk, TypeInv, TypeOK
  <2>2. Soon(u, k.ip, k.dnn, "UL", f)
    BY <1>0, <1>1, <1>5 DEF UplinkPush, At, FwdCall, Hop
  <2>3. Live(k.ip, k.dnn, "UL", f)'
    BY <1>0, <1>1, <1>2, <2>1, <2>2, PushLands
  <2>4. call'[p].key = k /\ call'[p].last = f /\ call'[p].pc \in {"ulStore", "ulQueue"}
    BY <1>0, <1>1, <1>5 DEF Call
  <2> QED
    BY <1>3, <2>3, <2>4 DEF FwdCall
<1>6. CASE /\ DownlinkPush(p) /\ UpdateSessionOk(u, k.ip)
           /\ call' = [call EXCEPT ![p].pc = "dlQueue", ![p].i = @ + 1]
  <2>1. created'[u][k.ip] = {}
    BY <1>0, <1>1, <1>6 DEF UpdateSessionOk, TypeInv, TypeOK
  <2>2. f \in Fteid => Soon(u, k.ip, k.dnn, "DL", f)
    BY <1>0, <1>1, <1>6 DEF DownlinkPush, At, FwdCall, Hop
  <2>3. f \in Fteid => Live(k.ip, k.dnn, "DL", f)'
    BY <1>0, <1>1, <1>2, <2>1, <2>2, PushLands
  <2>4. call'[p].key = k /\ call'[p].last = f /\ call'[p].pc = "dlQueue"
    BY <1>0, <1>1, <1>6 DEF Call
  <2> QED
    BY <1>3, <2>3, <2>4 DEF FwdCall
<1> QED
  BY <1>0, <1>1, <1>3, <1>4, <1>5, <1>6 DEF UplinkPush, DownlinkPush, FwPush, SwitchPush

LEMMA BeginFwd ==
  ASSUME TypeInv, IdInv, NEW p \in Procs, [Next]_vars, Begin(p)
  PROVE  FwdCall(p)'
<1>1. CASE \E res, f : Return(p, res, f)
  BY <1>1, ReturnPc, FwdNothing
<1>2. ASSUME NEW pc \in {"ulQueue", "dlRead", "fwQueue"}, NEW k, NEW path, NEW i, NEW last,
             Start(p, pc, k, path, i, last), pc = "ulQueue" => i = Len(path),
             pc # "ulQueue" /\ last \in Fteid => Live(k.ip, k.dnn, "DL", last)
      PROVE  FwdCall(p)'
  <2>1. /\ call'[p].pc = pc /\ call'[p].key = k /\ call'[p].path = path /\ call'[p].i = i
        /\ call'[p].last = last
    BY <1>2 DEF Start, TypeInv, TypeOK
  <2> QED
    BY <1>2, <2>1, LiveStays DEF FwdCall
<1>3. ASSUME NEW k \in Keys, NEW g \in Gnbs, BeginUplink(p, k, g) PROVE FwdCall(p)'
  BY <1>1, <1>2, <1>3 DEF BeginUplink
<1>4. ASSUME NEW k \in Keys, NEW g \in Gnbs, NEW f \in GnbFteids, BeginDownlink(p, k, g, f)
      PROVE  FwdCall(p)'
  BY <1>1, <1>2, <1>4, FteidAssumption DEF BeginDownlink
<1>5. ASSUME NEW k \in Keys, NEW h, NEW f \in Targets(k), BeginForward(p, k, h, f) PROVE FwdCall(p)'
  <2>1. f \in Fteid => Live(k.ip, k.dnn, "DL", f)
    BY <1>5, FteidAssumption DEF Targets, Live
  <2> QED
    BY <1>1, <1>2, <1>5, <2>1 DEF BeginForward
<1>6. ASSUME NEW k \in Keys, NEW g \in Gnbs, BeginSwitch(p, k, g) PROVE FwdCall(p)'
  <2>1. CASE \E path : call' = [call EXCEPT ![p] =
               [pc |-> "swQueue", key |-> k, path |-> path, i |-> 1, far |-> sessions[k].far,
                held |-> TRUE, last |-> sessions[k].next, res |-> "none"]]
    <3>1. call'[p].pc = "swQueue"
      BY <2>1 DEF TypeInv, TypeOK
    <3> QED
      BY <3>1, FwdNothing
  <2> QED
    BY <1>1, <1>6, <2>1 DEF BeginSwitch
<1>7. ASSUME NEW k \in Keys, \/ \E f : StoreNextDownlinkFteid(p, k, f)
                             \/ \E b : SetIndirectForwardingRequired(p, k, b)
      PROVE  FwdCall(p)'
  BY <1>1, <1>7 DEF StoreNextDownlinkFteid, SetIndirectForwardingRequired
<1> QED
  BY <1>3, <1>4, <1>5, <1>6, <1>7 DEF Begin

-----------------------------------------------------------------------------
(* Sessions.                                                               *)

\* Only the end of an uplink call changes the uplink F-TEID of a session.
LEMMA UplinkFteidStays ==
  ASSUME TypeInv, HeldInv, NEW k \in Keys, sessions'[k] # None,
         \/ UNCHANGED vars \/ Cancel \/ ServerStop
         \/ \E p \in Procs : \/ Begin(p) \/ End(p)
                             \/ Step(p) /\ ~UplinkStore(p) /\ ~UplinkAdd(p)
  PROVE  sessions[k] # None /\ sessions'[k].ul = sessions[k].ul
<1>1. \A j \in Keys : sessions[j] # None => sessions[j] \in Session
  BY DEF TypeInv, TypeOK
<1>2. CASE UNCHANGED sessions
  BY <1>2
<1>3. ASSUME NEW j \in Keys, sessions[j] # None, NEW v,
             \/ sessions' = [sessions EXCEPT ![j].dl = v]
             \/ sessions' = [sessions EXCEPT ![j].next = v]
             \/ sessions' = [sessions EXCEPT ![j].indirect = v]
             \/ sessions' = [sessions EXCEPT ![j].far = v]
      PROVE  sessions[k] # None /\ sessions'[k].ul = sessions[k].ul
  <2>1. sessions \in [Keys -> Session \union {None}]
    BY DEF TypeInv, TypeOK
  <2>2. CASE k # j
    BY <1>3, <2>1, <2>2
  <2>3. CASE k = j
    <3>1. sessions[j] \in Session
      BY <1>1, <1>3
    <3>2. \/ sessions'[j] = [sessions[j] EXCEPT !.dl = v]
          \/ sessions'[j] = [sessions[j] EXCEPT !.next = v]
          \/ sessions'[j] = [sessions[j] EXCEPT !.indirect = v]
          \/ sessions'[j] = [sessions[j] EXCEPT !.far = v]
      BY <1>3, <2>1
    <3>3. sessions'[j].ul = sessions[j].ul
      BY <3>1, <3>2 DEF Session
    <3> QED
      BY <1>3, <2>3, <3>3
  <2> QED
    BY <2>2, <2>3
<1>4. ASSUME NEW p \in Procs, Begin(p) PROVE sessions[k] # None /\ sessions'[k].ul = sessions[k].ul
  <2>1. \/ UNCHANGED sessions
        \/ \E v : \E j \in Keys : /\ sessions[j] # None
                                  /\ \/ sessions' = [sessions EXCEPT ![j].dl = v]
                                     \/ sessions' = [sessions EXCEPT ![j].next = v]
                                     \/ sessions' = [sessions EXCEPT ![j].indirect = v]
    BY <1>4 DEF Begin, BeginUplink, BeginDownlink, BeginForward, BeginSwitch, StoreNextDownlinkFteid,
       SetIndirectForwardingRequired
  <2> QED
    BY <1>2, <1>3, <2>1
<1>5. ASSUME NEW p \in Procs, DownlinkFar(p)
      PROVE  sessions[k] # None /\ sessions'[k].ul = sessions[k].ul
  <2>1. UNCHANGED sessions \/ \E v : sessions' = [sessions EXCEPT ![call[p].key].far = v]
    BY <1>5 DEF DownlinkFar
  <2>2. call[p].key \in Keys /\ sessions[call[p].key] # None
    BY <1>5, KeyType DEF DownlinkFar, At, HeldInv, StoredInv, DlPcs
  <2> QED
    BY <1>2, <1>3, <2>1, <2>2
<1> QED
  BY <1>2, <1>4, <1>5 DEF Step, UplinkQueue, UplinkPush, DownlinkRead, DownlinkQueue, DownlinkPush, FwQueue, FwPush, SwitchQueue,
     SwitchPush, Cancel, ServerStop, End, vars

LEMMA UplinkListenedStep ==
  ASSUME TypeInv, HeldInv, IdInv, FwdInv, [Next]_vars
  PROVE  UplinkListened'
<1> SUFFICES ASSUME NEW k \in Keys, sessions'[k] # None, NEW g, g = sessions'[k].ul
             PROVE  Live(k.ip, k.dnn, "UL", g)'
  BY DEF UplinkListened, Live
<1>1. CASE sessions[k] # None /\ sessions'[k].ul = sessions[k].ul
  <2>1. Live(k.ip, k.dnn, "UL", g)
    BY <1>1 DEF FwdInv, UplinkListened
  <2> QED
    BY <2>1, LiveStays
<1>2. ASSUME NEW p \in Procs, UplinkStore(p) \/ UplinkAdd(p)
      PROVE  Live(k.ip, k.dnn, "UL", g)'
  <2>1. PICK f : f = call[p].last
    OBVIOUS
  <2>2. call[p].key \in Keys /\ sessions \in [Keys -> Session \union {None}]
    BY <1>2, KeyType DEF UplinkStore, UplinkAdd, At, TypeInv, TypeOK
  <2>3. CASE k = call[p].key
    <3>1. Live(k.ip, k.dnn, "UL", f)
      BY <1>2, <2>1, <2>3 DEF UplinkStore, UplinkAdd, At, FwdInv, FwdCall
    <3>2. Live(k.ip, k.dnn, "UL", f)'
      BY <3>1, LiveStays
    <3>3. (UNCHANGED sessions /\ sessions[k] = None) \/ g = f
      BY <1>2, <2>1, <2>2, <2>3
         DEF UplinkStore, UplinkAdd, SetUplinkFteid, SessionAdded, Session
    <3> QED
      BY <3>2, <3>3
  <2>4. CASE k # call[p].key
    <3>1. sessions'[k] = sessions[k]
      BY <1>2, <2>2, <2>4 DEF UplinkStore, UplinkAdd, SetUplinkFteid, SessionAdded
    <3> QED
      BY <1>1, <3>1
  <2> QED
    BY <2>3, <2>4
<1> QED
  BY <1>1, <1>2, UplinkFteidStays DEF Next

LEMMA FwdStep ==
  ASSUME TypeInv, HeldInv, IdInv, FwdInv, [Next]_vars
  PROVE  FwdInv'
<1> DEFINE Kept == FwdRules' /\ \A q \in Procs : FwdCall(q)'
<1>1. ASSUME NEW p \in Procs, Step(p) \/ Begin(p) \/ End(p), FwdRules', FwdCall(p)' PROVE Kept
  BY <1>1, FwdSelf DEF FwdInv
<1>2. ASSUME NEW p \in Procs, Step(p) PROVE Kept
  <2>1. CASE UplinkQueue(p) \/ DownlinkQueue(p) \/ FwQueue(p)
    BY <1>1, <2>1, QueueFwd DEF Step
  <2>2. CASE UplinkPush(p) \/ DownlinkPush(p) \/ FwPush(p) \/ SwitchPush(p)
    BY <1>1, <2>2, PushFwd DEF Step
  <2>3. CASE UplinkStore(p) \/ UplinkAdd(p) \/ SwitchQueue(p)
    <3>1. RulesStay
      BY <2>3 DEF RulesStay, UplinkStore, UplinkAdd, SwitchQueue,
         UpdateDownlinkIntermediateDirectForward, rules, pfcp
    <3>2. FwdRules'
      BY <3>1, FwdRulesStay DEF FwdInv
    <3>3. FwdCall(p)'
      <4>1. call[p] \in Call /\ call \in [Procs -> Call] /\ FwdCall(p)
        BY DEF TypeInv, TypeOK, FwdInv
      <4>2. CASE call' = [call EXCEPT ![p].pc = "ulAdd"] /\ call[p].pc = "ulStore"
        <5>1. PICK k, f : k = call[p].key /\ f = call[p].last
          OBVIOUS
        <5>2. Live(k.ip, k.dnn, "UL", f)
          BY <4>1, <4>2, <5>1 DEF FwdCall
        <5>3. Live(k.ip, k.dnn, "UL", f)'
          BY <5>2, LiveStays
        <5>4. call'[p].pc = "ulAdd" /\ call'[p].key = k /\ call'[p].last = f
          BY <4>1, <4>2, <5>1 DEF Call
        <5> QED
          BY <5>3, <5>4 DEF FwdCall
      <4>3. call'[p].pc \in {"idle", "swQueue", "swPush"} => FwdCall(p)'
        BY FwdNothing
      <4>4. \/ call' = [call EXCEPT ![p].pc = "ulAdd"] /\ call[p].pc = "ulStore"
            \/ call'[p].pc \in {"idle", "swQueue", "swPush"}
        BY <2>3, <4>1 DEF UplinkStore, UplinkAdd, SwitchQueue, At, Return, Idle, Call
      <4> QED
        BY <4>2, <4>3, <4>4
    <3> QED
      BY <1>1, <2>3, <3>2, <3>3 DEF Step
  <2>4. CASE DownlinkRead(p) \/ DownlinkFar(p)
    <3>1. RulesStay
      BY <2>4 DEF RulesStay, DownlinkRead, DownlinkFar, rules, pfcp
    <3>2. FwdRules'
      BY <3>1, FwdRulesStay DEF FwdInv
    <3>3. call[p] \in Call /\ call \in [Procs -> Call] /\ FwdCall(p)
      BY DEF TypeInv, TypeOK, FwdInv
    <3>4. CASE DownlinkRead(p)
      <4>1. call'[p].pc = "dlQueue" /\ call'[p].last \in GnbFteids
        BY <3>4, DownlinkReads DEF GoesOn
      <4> QED
        BY <1>1, <1>2, <3>2, <4>1, FteidAssumption DEF FwdCall
    <3>5. CASE DownlinkFar(p)
      <4>1. GoesOn(p, "dlPush", call[p].last) /\ call[p].pc = "dlFar"
        BY <3>3, <3>5 DEF DownlinkFar, At, GoesOn, Call
      <4>2. FwdCall(p)'
        BY <3>1, <3>3, <4>1 DEF GoesOn, FwdCall, RulesStay, Soon, Live
      <4> QED
        BY <1>1, <1>2, <3>2, <4>2
    <3> QED
      BY <2>4, <3>4, <3>5
  <2> HIDE DEF Kept
  <2> QED
    BY <1>2, <2>1, <2>2, <2>3, <2>4 DEF Step
<1>3. ASSUME NEW p \in Procs, Begin(p) \/ End(p) PROVE Kept
  <2>1. RulesStay
    BY <1>3 DEF Begin, BeginUplink, BeginDownlink, BeginForward, BeginSwitch, StoreNextDownlinkFteid,
       SetIndirectForwardingRequired, End, RulesStay, rules, pfcp
  <2>2. FwdRules'
    BY <2>1, FwdRulesStay DEF FwdInv
  <2>3. FwdCall(p)'
    BY <1>3, BeginFwd, ReturnPc, FwdNothing DEF End
  <2> QED
    BY <1>1, <1>3, <2>2, <2>3
<1>4. ASSUME UNCHANGED vars \/ Cancel \/ ServerStop PROVE Kept
  <2>1. RulesStay /\ UNCHANGED call
    BY <1>4 DEF vars, Cancel, ServerStop, RulesStay, rules, pfcp
  <2>2. FwdRules'
    BY <2>1, FwdRulesStay DEF FwdInv
  <2>3. \A q \in Procs : FwdCall(q)'
    BY <2>1 DEF FwdInv, FwdCall, RulesStay, Live, Soon
  <2> QED
    BY <2>2, <2>3
<1>5. Kept
  <2> HIDE DEF Kept
  <2> QED
    BY <1>2, <1>3, <1>4 DEF Next
<1> QED
  BY <1>5, UplinkListenedStep DEF FwdInv

LEMMA FwdInit == Init => IdInv /\ FwdInv
<1> SUFFICES ASSUME Init PROVE IdInv /\ FwdInv
  OBVIOUS
<1>1. IdInv
  BY DEF Init, IdInv, IdBound, IdQueued, IdInstalled, IdBoth
<1>2. \A p \in Procs : call[p].pc = "idle"
  BY DEF Init, Idle
<1> QED
  BY <1>1, <1>2 DEF Init, FwdInv, FwdRules, FwdCall, UplinkListened

\* Everything the proofs know of the SMF.
SmfInv == TypeInv /\ HeldInv /\ IdInv /\ FwdInv

LEMMA SmfInvariant == Spec => []SmfInv
<1>1. Init => SmfInv
  BY TypeInit, FwdInit DEF SmfInv
<1>2. SmfInv /\ [Next]_vars => SmfInv'
  BY TypeStep, HeldStep, IdStep, FwdStep DEF SmfInv
<1> QED
  BY <1>1, <1>2, PTL DEF Spec

\* Whatever order paths are set up in and whatever fails, a rule that forwards to a
\* UPF forwards to an F-TEID that is listened on for the same UE, slice and direction.
THEOREM NothingDangles == Spec => []NoDanglingForward
<1>1. SmfInv => NoDanglingForward
  BY DEF SmfInv, FwdInv, FwdRules, Live, NoDanglingForward
<1> QED
  BY <1>1, SmfInvariant, PTL

\* The uplink F-TEID of a stored session, which is what the AMF gives to the gNBs, is
\* always listened on by an uplink rule of that session.
THEOREM UplinkIsListened == Spec => []UplinkListened
<1>1. SmfInv => UplinkListened
  BY DEF SmfInv, FwdInv
<1> QED
  BY <1>1, SmfInvariant, PTL

-----------------------------------------------------------------------------
(* What is reached.                                                        *)

LEMMA ReachedSelf ==
  ASSUME NEW f, NEW rs
  PROVE  f \in Reached(f, rs)
  BY DEF Reached

\* A rule leads on to what its target reaches.
LEMMA ReachedVia ==
  ASSUME NEW rs, NEW r \in rs, NEW v \in Reached(r.fwd, rs)
  PROVE  v \in Reached(r.listen, rs)
<1> DEFINE all(f) == {f} \union {q.fwd : q \in rs}
<1>1. v \in all(r.listen)
  BY DEF Reached
<1>2. ASSUME NEW S \in SUBSET all(r.listen), r.listen \in S,
             \A q \in rs : q.listen \in S => q.fwd \in S
      PROVE  v \in S
  <2> DEFINE T == S \intersect all(r.fwd)
  <2>1. T \in SUBSET all(r.fwd) /\ r.fwd \in T
    BY <1>2
  <2>2. \A q \in rs : q.listen \in T => q.fwd \in T
    BY <1>2
  <2>3. v \in T
    BY <2>1, <2>2 DEF Reached
  <2> QED
    BY <2>3
<1> QED
  BY <1>1, <1>2 DEF Reached

\* More rules reach more.
LEMMA ReachedMore ==
  ASSUME NEW f, NEW rs, NEW qs, rs \subseteq qs, NEW v \in Reached(f, rs)
  PROVE  v \in Reached(f, qs)
<1> DEFINE all(r) == {f} \union {q.fwd : q \in r}
<1>1. v \in all(qs)
  BY DEF Reached
<1>2. ASSUME NEW S \in SUBSET all(qs), f \in S, \A q \in qs : q.listen \in S => q.fwd \in S
      PROVE  v \in S
  <2> DEFINE T == S \intersect all(rs)
  <2>1. T \in SUBSET all(rs) /\ f \in T
    BY <1>2
  <2>2. \A q \in rs : q.listen \in T => q.fwd \in T
    BY <1>2
  <2>3. v \in T
    BY <2>1, <2>2 DEF Reached
  <2> QED
    BY <2>3
<1> QED
  BY <1>1, <1>2 DEF Reached

-----------------------------------------------------------------------------
(* The uplink.                                                             *)

\* The uplink packets of UE address x in a slice that are sent to f reach the core.
ToCore(x, dnn, f) ==
  Core \in Reached(f, {r \in installed : r.ip = x /\ r.dnn = dnn /\ r.dir = "UL"})

\* What an uplink rule takes reaches the core; what a waiting one will take, too.
CoreInv ==
  /\ \A e \in installed : e.dir = "UL" => ToCore(e.ip, e.dnn, e.listen)
  /\ \A u \in Upfs, x \in Ips : \A r \in created[u][x] : r.dir = "UL" => ToCore(x, r.dnn, r.fwd)

\* As long as no switch redirects an uplink rule, each stays as it is.
LEMMA ToCoreStays ==
  ASSUME TypeInv, RedirectsDownlink, [Next]_vars, NEW x, NEW dnn, NEW f, ToCore(x, dnn, f)
  PROVE  ToCore(x, dnn, f)'
<1> DEFINE Uplink == {r \in installed : r.ip = x /\ r.dnn = dnn /\ r.dir = "UL"}
<1>1. ASSUME NEW e \in installed, e.dir = "UL" PROVE e \in installed'
  BY <1>1, RuleKept DEF RedirectsDownlink
<1>2. Uplink \subseteq Uplink'
  BY <1>1
<1>3. Core \in Reached(f, Uplink)
  BY DEF ToCore
<1>4. PICK more : more = Uplink'
  OBVIOUS
<1>5. Core \in Reached(f, more)
  BY <1>2, <1>3, <1>4, ReachedMore
<1> QED
  BY <1>4, <1>5 DEF ToCore

\* A new uplink rule forwards to the core or to the hop set up before.
LEMMA NewUplinkRules ==
  ASSUME TypeInv, [Next]_vars, NEW u \in Upfs, NEW x \in Ips, NEW r \in created'[u][x], r.dir = "UL"
  PROVE  r \in created[u][x] \/ r.fwd \in Fteid \union {Core}
<1> DEFINE OK == r \in created[u][x] \/ r.fwd \in Fteid \union {Core}
<1>1. ASSUME NEW v, NEW y, NEW dnn, NEW dir, NEW listen, NEW fwd,
             AddRule(v, y, dnn, dir, listen, fwd), dir = "UL" => fwd \in Fteid \union {Core}
      PROVE  OK
  <2> DEFINE n == [id |-> NextId(v, y), dnn |-> dnn, dir |-> dir, listen |-> listen, fwd |-> fwd]
  <2>1. r \in created[u][x] \/ r = n
    BY <1>1 DEF AddRule, TypeInv, TypeOK
  <2>2. n.dir = dir /\ n.fwd = fwd
    OBVIOUS
  <2> HIDE DEF n
  <2> QED
    BY <1>1, <2>1, <2>2
<1>2. ASSUME RulesStay PROVE OK
  BY <1>2 DEF RulesStay
<1>3. ASSUME NEW p \in Procs, UplinkQueue(p) PROVE OK
  <2>1. ~AtEnd(p) => call[p].last \in Fteid
    BY <1>3 DEF UplinkQueue, At, AtEnd, TypeInv, CallOK
  <2> QED
    BY <1>1, <1>3, <2>1 DEF UplinkQueue, rules, CreateUplinkAnchorWithFteid,
       CreateUplinkIntermediateWithFteid
<1>4. ASSUME NEW p \in Procs, DownlinkQueue(p) PROVE OK
  <2>1. UNCHANGED rules \/ \E v, y, dnn, f, fwd : AddRule(v, y, dnn, "DL", f, fwd)
    BY <1>4, Zenon DEF DownlinkQueue, UpdateDownlinkAnchor, UpdateDownlinkIntermediateWithFteid
  <2> QED
    BY <1>1, <2>1 DEF rules
<1>5. ASSUME NEW p \in Procs, FwQueue(p) PROVE OK
  BY <1>1, <1>5 DEF FwQueue, UpdateDownlinkIntermediateWithFteid, rules
<1>6. ASSUME NEW v \in Upfs, NEW y \in Ips, Pushes(v, y) PROVE OK
  <2>1. PICK im : \E s \in Nat : Moves(v, y, im, s)
    BY <1>6, PushMoves
  <2> QED
    BY <2>1, QueuesShrink
<1> HIDE DEF OK
<1>7. ASSUME NEW p \in Procs, Step(p) PROVE OK
  <2>1. CASE UplinkPush(p) \/ DownlinkPush(p) \/ FwPush(p) \/ SwitchPush(p)
    <3>1. Ip(p) \in Ips /\ Hop(p).node \in Upfs
      BY <2>1, KeyType DEF UplinkPush, DownlinkPush, FwPush, SwitchPush, At, TypeInv, CallOK, Hop
    <3> QED
      BY <1>6, <2>1, <3>1 DEF UplinkPush, DownlinkPush, FwPush, SwitchPush, Pushes
  <2>2. CASE UplinkStore(p) \/ UplinkAdd(p) \/ DownlinkRead(p) \/ DownlinkFar(p) \/ SwitchQueue(p)
    BY <1>2, <2>2 DEF RulesStay, UplinkStore, UplinkAdd, DownlinkRead, DownlinkFar, SwitchQueue,
       UpdateDownlinkIntermediateDirectForward, rules, pfcp
  <2> QED
    BY <1>3, <1>4, <1>5, <1>7, <2>1, <2>2 DEF Step
<1>8. ASSUME NEW p \in Procs, Begin(p) PROVE RulesStay
  BY <1>8 DEF Begin, BeginUplink, BeginDownlink, BeginForward, BeginSwitch, StoreNextDownlinkFteid,
     SetIndirectForwardingRequired, RulesStay, rules, pfcp
<1>9. ASSUME UNCHANGED vars \/ Cancel \/ ServerStop \/ \E p \in Procs : End(p) PROVE RulesStay
  BY <1>9 DEF vars, Cancel, ServerStop, End, RulesStay, rules, pfcp
<1> QED
  BY <1>2, <1>7, <1>8, <1>9 DEF Next, OK

\* A rule is queued by a step that installs none.
LEMMA NewRuleStep ==
  ASSUME TypeInv, [Next]_vars, NEW u \in Upfs, NEW x \in Ips, NEW r \in created'[u][x], r \notin created[u][x]
  PROVE  installed' = installed
<1>1. ASSUME NEW v \in Upfs, NEW y \in Ips, Pushes(v, y) PROVE FALSE
  <2>1. PICK im : \E s \in Nat : Moves(v, y, im, s)
    BY <1>1, PushMoves
  <2> QED
    BY <2>1, QueuesShrink
<1> QED
  BY <1>1, StepKinds DEF RulesStay, Queues, pfcp

\* What is installed was installed before, but for its FAR, or waited.
LEMMA InstalledFrom ==
  ASSUME TypeInv, [Next]_vars, NEW e \in installed'
  PROVE  \/ \E d \in installed : SameRule(e, d)
         \/ \E u \in Upfs, x \in Ips : \E s \in Nat : e \in Installing(u, x, s)
<1>1. ASSUME NEW v \in Upfs, NEW y \in Ips, Pushes(v, y)
      PROVE  \/ \E d \in installed : SameRule(e, d)
             \/ \E u \in Upfs, x \in Ips : \E s \in Nat : e \in Installing(u, x, s)
  <2>1. PICK im : \E s \in Nat : Moves(v, y, im, s)
    BY <1>1, PushMoves
  <2>2. PICK s \in Nat : Moves(v, y, im, s)
    BY <2>1
  <2> QED
    BY <2>2 DEF Moves
<1>2. CASE installed' = installed
  BY <1>2 DEF SameRule
<1> QED
  BY <1>1, <1>2, StepKinds DEF RulesStay, Queues, pfcp

\* A rule is queued when what it forwards to is listened on, so that it leads to the
\* core by then, and stays so until it is pushed and after.
LEMMA CoreStep ==
  ASSUME SmfInv, SmfInv', CoreInv, RedirectsDownlink, [Next]_vars
  PROVE  CoreInv'
<1>1. TypeInv /\ IdInv /\ FwdInv /\ FwdInv'
  BY DEF SmfInv
<1>2. ASSUME NEW x, NEW dnn, NEW f, ToCore(x, dnn, f) PROVE ToCore(x, dnn, f)'
  BY <1>1, <1>2, ToCoreStays
<1>3. ASSUME NEW u \in Upfs, NEW x \in Ips, NEW r \in created'[u][x], r.dir = "UL"
      PROVE  ToCore(x, r.dnn, r.fwd)'
  <2>1. CASE r \in created[u][x]
    BY <1>2, <1>3, <2>1 DEF CoreInv
  <2>2. CASE r.fwd = Core
    BY <2>2, ReachedSelf DEF ToCore
  <2>3. CASE r.fwd \in Fteid /\ r \notin created[u][x]
    <3>1. PICK e \in installed' : e.listen = r.fwd /\ e.ip = x /\ e.dnn = r.dnn /\ e.dir = "UL"
      BY <1>1, <1>3, <2>3 DEF FwdInv, FwdRules, Live
    <3>2. installed' = installed
      BY <1>1, <1>3, <2>3, StepKinds, NewRuleStep
    <3>3. ToCore(x, r.dnn, r.fwd)
      BY <3>1, <3>2 DEF CoreInv
    <3> QED
      BY <1>2, <3>3
  <2> QED
    BY <1>1, <1>3, <2>1, <2>2, <2>3, NewUplinkRules
<1>4. ASSUME NEW e \in installed', e.dir = "UL" PROVE ToCore(e.ip, e.dnn, e.listen)'
  <2>1. CASE \E d \in installed : SameRule(e, d)
    BY <1>2, <1>4, <2>1 DEF CoreInv, SameRule
  <2>2. ASSUME NEW u \in Upfs, NEW x \in Ips, NEW s, e \in Installing(u, x, s)
        PROVE  ToCore(e.ip, e.dnn, e.listen)'
    <3>1. PICK r \in created[u][x] : e.ip = x /\ e.dnn = r.dnn /\ e.dir = r.dir /\ e.fwd = r.fwd
      BY <2>2, InstallingMembers
    <3>2. ToCore(e.ip, e.dnn, e.fwd)
      BY <1>4, <3>1 DEF CoreInv
    <3>3. ToCore(e.ip, e.dnn, e.fwd)'
      BY <1>2, <3>2
    <3> QED
      BY <1>4, <3>3, ReachedVia DEF ToCore
  <2> QED
    BY <1>1, <1>4, <2>1, <2>2, InstalledFrom
<1> QED
  BY <1>3, <1>4 DEF CoreInv

LEMMA CoreInvariant == Spec /\ []RedirectsDownlink => []CoreInv
<1>1. Init => CoreInv
  BY DEF Init, CoreInv
<1>2. SmfInv /\ SmfInv' /\ CoreInv /\ RedirectsDownlink /\ [Next]_vars => CoreInv'
  BY CoreStep
<1> QED
  BY <1>1, <1>2, SmfInvariant, PTL DEF Spec

\* Nothing but the redirection of an uplink rule could take an uplink apart.
LEMMA UplinksLead == Spec /\ []RedirectsDownlink => []UplinkReachesCore
<1>1. SmfInv /\ CoreInv => UplinkReachesCore
  BY DEF SmfInv, FwdInv, UplinkListened, Live, CoreInv, ToCore, UplinkReachesCore, ReachesCore, Applied
<1> QED
  BY <1>1, SmfInvariant, CoreInvariant, PTL

-----------------------------------------------------------------------------
(* The downlink.  A path is set up from UPF-i, whose rule leads to the     *)
(* gNB, to the anchor.                                                     *)

\* The same F-TEID, or two of gNBs: what a redirection may exchange.
LeadsTo(v, w) == v = w \/ (v \in GnbFteids /\ w \in GnbFteids)

\* Rule d of hop h takes downlink packets of session k.
Serves(d, k, h) == d.upf = h.node /\ d.ip = k.ip /\ d.dnn = k.dnn /\ d.dir = "DL"

\* The first n hops of a path lead, rule by rule, from F-TEID last to a gNB.
Built(rs, k, path, n, last) ==
  \E hop \in [1 .. n -> rs] :
    /\ \A i \in 1 .. n :
         /\ Serves(hop[i], k, path[i]) /\ hop[i].listen \in Fteid
         /\ i = 1 => hop[i].fwd \in GnbFteids
         /\ i # 1 => hop[i].fwd = hop[i - 1].listen
    /\ n = 0 => last \in GnbFteids
    /\ n # 0 => last = hop[n].listen

\* No hop: only a gNB is reached.
LEMMA BuiltNothing ==
  ASSUME NEW rs, NEW k, NEW path, NEW last \in GnbFteids
  PROVE  Built(rs, k, path, 0, last)
<1>1. 1 .. 0 = {} /\ [i \in {} |-> 0] \in [{} -> rs]
  OBVIOUS
<1> QED
  BY <1>1 DEF Built

\* One more hop.
LEMMA BuiltOn ==
  ASSUME NEW rs, NEW k, NEW path \in Seq(Hops), NEW n \in Nat, NEW last, Built(rs, k, path, n, last),
         NEW e \in rs, Serves(e, k, path[n + 1]), LeadsTo(e.fwd, last)
  PROVE  /\ e.listen \in Fteid => Built(rs, k, path, n + 1, e.listen)
         /\ e.listen = None /\ Len(path) = n + 1 => \E f \in GnbFteids : Carries(k, path, f, rs)
<1>1. PICK hop \in [1 .. n -> rs] :
        /\ \A i \in 1 .. n :
             /\ Serves(hop[i], k, path[i]) /\ hop[i].listen \in Fteid
             /\ i = 1 => hop[i].fwd \in GnbFteids
             /\ i # 1 => hop[i].fwd = hop[i - 1].listen
        /\ n = 0 => last \in GnbFteids
        /\ n # 0 => last = hop[n].listen
  BY DEF Built
<1>2. PICK more : more = [i \in 1 .. n + 1 |-> IF i = n + 1 THEN e ELSE hop[i]]
  OBVIOUS
<1>3. more \in [1 .. n + 1 -> rs] /\ more[n + 1] = e /\ \A i \in 1 .. n : more[i] = hop[i]
  BY <1>2
<1>4. /\ n = 0 => e.fwd \in GnbFteids
      /\ n # 0 => e.fwd = more[n].listen
  BY <1>1, <1>3, FteidAssumption DEF LeadsTo
<1>5. ASSUME NEW i \in 1 .. n + 1
      PROVE  /\ Serves(more[i], k, path[i])
             /\ i # n + 1 => more[i].listen \in Fteid
             /\ i = 1 => more[i].fwd \in GnbFteids
             /\ i # 1 => more[i].fwd = more[i - 1].listen
  <2>1. CASE i = n + 1
    BY <1>3, <1>4, <2>1
  <2>2. CASE i \in 1 .. n
    <3>1. more[i] = hop[i] /\ (i # 1 => more[i - 1] = hop[i - 1])
      BY <1>3, <2>2
    <3> QED
      BY <1>1, <2>2, <3>1
  <2> QED
    BY <2>1, <2>2
<1>6. ASSUME e.listen \in Fteid PROVE Built(rs, k, path, n + 1, e.listen)
  BY <1>3, <1>5, <1>6 DEF Built
<1>7. ASSUME e.listen = None, Len(path) = n + 1 PROVE \E f \in GnbFteids : Carries(k, path, f, rs)
  <2>1. DOMAIN path = 1 .. n + 1 /\ path # <<>> /\ 1 \in 1 .. n + 1
    BY <1>7
  <2>2. \A i \in 1 .. n + 1 : more[i] \in Applied(k, "DL", rs) /\ more[i].upf = path[i].node
    BY <1>3, <1>5 DEF Applied, Serves
  <2>3. more \in [1 .. n + 1 -> Applied(k, "DL", rs)]
    BY <1>3, <2>2
  <2>4. more[1].fwd \in GnbFteids
    BY <1>5, <2>1
  <2>5. Carries(k, path, more[1].fwd, rs)
    BY <1>3, <1>5, <1>7, <2>1, <2>2, <2>3 DEF Carries
  <2> QED
    BY <2>4, <2>5
<1> QED
  BY <1>6, <1>7

\* A rule is still there after a step, and leads on if it did.
LEMMA RuleImage ==
  ASSUME TypeInv, IdInv', RedirectsLastHop, [Next]_vars, NEW d \in installed
  PROVE  /\ \E e \in installed' : SameRule(e, d)
         /\ \A e \in installed' : SameRule(e, d) => LeadsTo(e.fwd, d.fwd)
<1>1. d \in installed' \/ d.fwd \in GnbFteids
  BY RuleKept DEF RedirectsLastHop
<1>2. ASSUME NEW e \in installed', SameRule(e, d) PROVE LeadsTo(e.fwd, d.fwd)
  <2>1. CASE d \in installed'
    BY <1>2, <2>1 DEF IdInv, IdInstalled, SameRule, LeadsTo
  <2>2. CASE d.fwd \in GnbFteids
    BY <1>2, <2>2 DEF SameRule, LeadsTo
  <2> QED
    BY <1>1, <2>1, <2>2
<1>3. \E e \in installed' : SameRule(e, d)
  <2>1. CASE installed' = installed
    BY <2>1 DEF SameRule
  <2>2. ASSUME NEW u \in Upfs, NEW x \in Ips, Pushes(u, x) PROVE \E e \in installed' : SameRule(e, d)
    <3>1. PICK im : \E s \in Nat : Moves(u, x, im, s)
      BY <2>2, PushMoves
    <3> QED
      BY <3>1 DEF Moves
  <2> QED
    BY <2>1, <2>2, StepKinds DEF RulesStay, Queues, pfcp
<1> QED
  BY <1>2, <1>3

\* The hops of a path stay linked.
LEMMA BuiltStays ==
  ASSUME TypeInv, IdInv', RedirectsLastHop, [Next]_vars,
         NEW k, NEW path, NEW n \in Nat, NEW last, Built(installed, k, path, n, last)
  PROVE  Built(installed', k, path, n, last)
<1>1. PICK hop \in [1 .. n -> installed] :
        /\ \A i \in 1 .. n :
             /\ Serves(hop[i], k, path[i]) /\ hop[i].listen \in Fteid
             /\ i = 1 => hop[i].fwd \in GnbFteids
             /\ i # 1 => hop[i].fwd = hop[i - 1].listen
        /\ n = 0 => last \in GnbFteids
        /\ n # 0 => last = hop[n].listen
  BY DEF Built
<1>2. PICK rs : rs = installed'
  OBVIOUS
<1>3. \A d \in installed : \E e \in rs : SameRule(e, d)
  BY <1>2, RuleImage
<1>4. PICK im : im = [i \in 1 .. n |-> CHOOSE e \in rs : SameRule(e, hop[i])]
  OBVIOUS
<1>5. \A i \in 1 .. n : im[i] \in rs /\ SameRule(im[i], hop[i])
  BY <1>1, <1>3, <1>4
<1>6. im \in [1 .. n -> rs]
  BY <1>4, <1>5
<1>7. \A i \in 1 .. n : LeadsTo(im[i].fwd, hop[i].fwd)
  BY <1>1, <1>2, <1>5, RuleImage
<1>8. ASSUME NEW i \in 1 .. n
      PROVE  /\ Serves(im[i], k, path[i]) /\ im[i].listen \in Fteid
             /\ i = 1 => im[i].fwd \in GnbFteids
             /\ i # 1 => im[i].fwd = im[i - 1].listen
  <2>1. Serves(im[i], k, path[i]) /\ im[i].listen = hop[i].listen
    BY <1>1, <1>5 DEF SameRule, Serves
  <2>2. i = 1 => im[i].fwd \in GnbFteids
    BY <1>1, <1>7 DEF LeadsTo
  <2>3. ASSUME i # 1 PROVE im[i].fwd = im[i - 1].listen
    <3>1. i - 1 \in 1 .. n
      BY <2>3
    <3>2. im[i - 1].listen = hop[i - 1].listen /\ hop[i - 1].listen \in Fteid
      BY <1>1, <1>5, <3>1 DEF SameRule
    <3>3. hop[i].fwd = hop[i - 1].listen
      BY <1>1, <2>3
    <3> QED
      BY <1>7, <3>2, <3>3, FteidAssumption DEF LeadsTo
  <2> QED
    BY <1>1, <2>1, <2>2, <2>3
<1>9. n # 0 => last = im[n].listen
  BY <1>1, <1>5 DEF SameRule
<1>10. Built(rs, k, path, n, last)
  BY <1>1, <1>6, <1>8, <1>9 DEF Built
<1> QED
  BY <1>2, <1>10

\* A rule that waits although it is installed, its answer having been lost, leads where
\* the installed one does.
FwdBoth ==
  \A e \in installed : \A r \in created[e.upf][e.ip] : r.id = e.id => LeadsTo(r.fwd, e.fwd)

LEMMA FwdBothStep ==
  ASSUME TypeInv, IdInv, IdInv', RedirectsLastHop, FwdBoth, [Next]_vars
  PROVE  FwdBoth'
<1>0. \A e \in installed : e.upf \in Upfs /\ e.ip \in Ips /\ e.id \in Nat
  BY DEF TypeInv, TypeOK, Entry
<1>1. CASE RulesStay
  BY <1>1 DEF RulesStay, FwdBoth
<1>2. ASSUME NEW h, NEW x \in Ips, NEW dnn, NEW dir, NEW listen, NEW fwd,
             Queues(h, x, dnn, dir, listen, fwd)
      PROVE  FwdBoth'
  <2> DEFINE n == [id |-> lastId[h.node][x] + 1, dnn |-> dnn, dir |-> dir, listen |-> listen, fwd |-> fwd]
  <2>1. \A v \in Upfs, y \in Ips : \A r \in created'[v][y] :
          r \in created[v][y] \/ (v = h.node /\ y = x /\ r = n)
    BY <1>2 DEF Queues, Lookup, AddRule, NextId, TypeInv, TypeOK
  <2>2. n.id = lastId[h.node][x] + 1 /\ UNCHANGED installed
    BY <1>2 DEF Queues, pfcp
  <2>3. lastId[h.node][x] \in Nat
    BY <1>2 DEF Queues, Lookup, TypeInv, TypeOK
  <2> HIDE DEF n
  <2>4. \A e \in installed : e.upf = h.node /\ e.ip = x => e.id # n.id
    BY <1>0, <2>2, <2>3 DEF IdInv, IdBound
  <2> QED
    BY <1>0, <2>1, <2>2, <2>4 DEF FwdBoth
<1>3. ASSUME NEW u \in Upfs, NEW x \in Ips, Pushes(u, x) PROVE FwdBoth'
  <2>1. PICK im : \E s \in Nat : Moves(u, x, im, s)
    BY <1>3, PushMoves
  <2>2. PICK s \in Nat : Moves(u, x, im, s)
    BY <2>1
  <2>3. \A v \in Upfs, y \in Ips : created'[v][y] \subseteq created[v][y]
    BY <2>2, QueuesShrink
  <2>4. ASSUME NEW d \in installed, NEW e \in installed', SameRule(e, d), NEW r \in created'[e.upf][e.ip],
               r.id = e.id
        PROVE  LeadsTo(r.fwd, e.fwd)
    <3>1. r \in created[d.upf][d.ip] /\ r.id = d.id
      BY <1>0, <2>3, <2>4 DEF SameRule
    <3>2. LeadsTo(r.fwd, d.fwd) /\ LeadsTo(e.fwd, d.fwd)
      BY <2>4, <3>1, RuleImage DEF FwdBoth
    <3> QED
      BY <3>2 DEF LeadsTo
  <2>5. ASSUME NEW e \in Installing(u, x, s), NEW r \in created'[e.upf][e.ip], r.id = e.id
        PROVE  LeadsTo(r.fwd, e.fwd)
    <3>1. PICK q \in created[u][x] : e.id = q.id /\ e.fwd = q.fwd
      BY <2>5, InstallingMembers
    <3>2. e.upf = u /\ e.ip = x
      BY <2>5, InstallingMembers
    <3>3. r \in created[u][x]
      BY <2>3, <2>5, <3>2
    <3>4. r = q
      BY <2>5, <3>1, <3>3 DEF IdInv, IdQueued
    <3> QED
      BY <3>1, <3>4 DEF LeadsTo
  <2>6. \A e \in installed' : (\E d \in installed : SameRule(e, d)) \/ e \in Installing(u, x, s)
    BY <2>2 DEF Moves
  <2> QED
    BY <2>4, <2>5, <2>6 DEF FwdBoth
<1> QED
  BY <1>1, <1>2, <1>3, StepKinds

\* The rule of hop h that leads on to F-TEID prev is installed.
Installed(k, h, listen, prev) ==
  \E e \in installed : Serves(e, k, h) /\ e.listen = listen /\ LeadsTo(e.fwd, prev)

\* It is, or will be when the queue of the UPF is pushed.
Placed(k, h, listen, prev) ==
  \/ Installed(k, h, listen, prev)
  \/ \E r \in created[h.node][k.ip] :
       r.dnn = k.dnn /\ r.dir = "DL" /\ r.listen = listen /\ LeadsTo(r.fwd, prev)

LEMMA InstalledStays ==
  ASSUME TypeInv, IdInv', RedirectsLastHop, [Next]_vars,
         NEW k, NEW h, NEW listen, NEW prev, Installed(k, h, listen, prev)
  PROVE  Installed(k, h, listen, prev)'
<1>1. PICK d \in installed : Serves(d, k, h) /\ d.listen = listen /\ LeadsTo(d.fwd, prev)
  BY DEF Installed
<1>2. PICK e \in installed' : SameRule(e, d)
  BY RuleImage
<1>3. LeadsTo(e.fwd, d.fwd)
  BY <1>2, RuleImage
<1>4. Serves(e, k, h) /\ e.listen = listen /\ LeadsTo(e.fwd, prev)
  BY <1>1, <1>2, <1>3 DEF SameRule, Serves, LeadsTo
<1> QED
  BY <1>4 DEF Installed

LEMMA PlacedStays ==
  ASSUME TypeInv, IdInv, IdInv', RedirectsLastHop, FwdBoth, [Next]_vars,
         NEW k, NEW h, NEW listen, NEW prev, k.ip \in Ips, h.node \in Upfs, Placed(k, h, listen, prev)
  PROVE  /\ Placed(k, h, listen, prev)'
         /\ Pushes(h.node, k.ip) /\ created'[h.node][k.ip] = {} => Installed(k, h, listen, prev)'
<1> DEFINE Suits(r) == r.dnn = k.dnn /\ r.dir = "DL" /\ r.listen = listen /\ LeadsTo(r.fwd, prev)
<1>1. CASE Installed(k, h, listen, prev)
  BY <1>1, InstalledStays DEF Placed
<1>2. ASSUME NEW r \in created[h.node][k.ip], Suits(r)
      PROVE  \/ r \in created'[h.node][k.ip]
             \/ Installed(k, h, listen, prev)' /\ Pushes(h.node, k.ip)
  <2>1. CASE RulesStay
    BY <2>1 DEF RulesStay
  <2>2. CASE \E g, dnn, dir, l, fwd : \E x \in Ips : Queues(g, x, dnn, dir, l, fwd)
    BY <2>2 DEF Queues, Lookup, AddRule, TypeInv, TypeOK
  <2>3. ASSUME NEW u \in Upfs, NEW x \in Ips, Pushes(u, x), r \notin created'[h.node][k.ip]
        PROVE  Installed(k, h, listen, prev)' /\ Pushes(h.node, k.ip)
    <3>1. PICK im : \E s \in Nat : Moves(u, x, im, s)
      BY <2>3, PushMoves
    <3>2. PICK s \in Nat : Moves(u, x, im, s)
      BY <3>1
    <3>3. u = h.node /\ x = k.ip /\ Installing(u, x, s) \subseteq installed'
      BY <2>3, <3>2, QueuesShrink
    <3>4. CASE \E d \in installed : InSession(d, u, x, s) /\ d.id = r.id
      <4>1. PICK d \in installed : InSession(d, u, x, s) /\ d.id = r.id
        BY <3>4
      <4>2. d.upf = u /\ d.ip = x /\ r \in created[d.upf][d.ip]
        BY <1>2, <3>3, <4>1 DEF InSession
      <4>3. Alike(r, d) /\ LeadsTo(r.fwd, d.fwd)
        BY <4>1, <4>2 DEF IdInv, IdBoth, FwdBoth
      <4>4. Serves(d, k, h) /\ d.listen = listen /\ LeadsTo(d.fwd, prev)
        BY <1>2, <3>3, <4>2, <4>3 DEF Alike, Serves, LeadsTo
      <4>5. Installed(k, h, listen, prev)
        BY <4>4 DEF Installed
      <4> QED
        BY <2>3, <3>3, <4>5, InstalledStays
    <3>5. CASE ~\E d \in installed : InSession(d, u, x, s) /\ d.id = r.id
      <4> DEFINE e == [upf |-> u, ip |-> x, seid |-> s, id |-> r.id, dnn |-> r.dnn, dir |-> r.dir,
                       listen |-> r.listen, fwd |-> r.fwd]
      <4>1. e \in Installing(u, x, s)
        BY <3>3, <3>5 DEF Installing
      <4>2. e \in installed' /\ Serves(e, k, h) /\ e.listen = listen /\ LeadsTo(e.fwd, prev)
        BY <1>2, <3>3, <4>1 DEF Serves
      <4> HIDE DEF e
      <4> QED
        BY <2>3, <3>3, <4>2 DEF Installed
    <3> QED
      BY <3>4, <3>5
  <2> QED
    BY <2>1, <2>2, <2>3, StepKinds
<1>3. CASE \E r \in created[h.node][k.ip] : Suits(r)
  <2>1. PICK r \in created[h.node][k.ip] : Suits(r)
    BY <1>3
  <2> QED
    BY <1>2, <2>1 DEF Placed
<1> QED
  BY <1>1, <1>3 DEF Placed

\* Where a downlink call is: the hops before are in place, the rule of this one waits.
DlCall(p) ==
  LET c == call[p] IN c.pc \in DlPcs =>
    /\ c.res = "none" /\ c.i \in 1 .. Len(c.path)
    /\ c.pc = "dlRead" => c.i = 1
    /\ c.pc = "dlQueue" => Built(installed, c.key, c.path, c.i - 1, c.last)
    /\ c.pc \in {"dlFar", "dlPush"} =>
         \E prev : /\ Built(installed, c.key, c.path, c.i - 1, prev)
                   /\ IF c.i = Len(c.path) THEN Placed(c.key, c.path[c.i], None, prev)
                      ELSE c.last \in Fteid /\ Placed(c.key, c.path[c.i], c.last, prev)

DlInv == FwdBoth /\ \A p \in Procs : DlCall(p)

LEMMA DlOthers ==
  ASSUME TypeInv, IdInv, IdInv', RedirectsLastHop, FwdBoth, [Next]_vars,
         NEW p \in Procs, Step(p) \/ Begin(p) \/ End(p), NEW q \in Procs, q # p, DlCall(q)
  PROVE  DlCall(q)'
<1>1. PICK k, path, i, last : k = call[q].key /\ path = call[q].path /\ i = call[q].i /\ last = call[q].last
  OBVIOUS
<1>2. /\ call'[q].pc = call[q].pc /\ call'[q].key = k /\ call'[q].path = path
      /\ call'[q].i = i /\ call'[q].last = last /\ call'[q].res = call[q].res
  BY <1>1, OthersStay
<1>3. i \in Nat
  BY <1>1 DEF TypeInv, TypeOK, Call
<1>4. call[q].pc \in {"dlFar", "dlPush"} => k.ip \in Ips /\ path[i].node \in Upfs
  BY <1>1, KeyType DEF TypeInv, CallOK, Ip
<1>5. \A n \in Nat : \A f : Built(installed, k, path, n, f) => Built(installed', k, path, n, f)
  BY BuiltStays
<1>6. \A l, prev : call[q].pc \in {"dlFar", "dlPush"} /\ Placed(k, path[i], l, prev) => Placed(k, path[i], l, prev)'
  BY <1>4, PlacedStays
<1>7. CASE call[q].pc = "dlQueue"
  BY <1>1, <1>2, <1>3, <1>5, <1>7 DEF DlCall, DlPcs
<1>8. CASE call[q].pc \in {"dlFar", "dlPush"}
  <2>1. PICK prev : /\ Built(installed, k, path, i - 1, prev)
                    /\ IF i = Len(path) THEN Placed(k, path[i], None, prev)
                       ELSE last \in Fteid /\ Placed(k, path[i], last, prev)
    BY <1>1, <1>8 DEF DlCall, DlPcs
  <2>2. call[q].res = "none" /\ i \in 1 .. Len(path) /\ i - 1 \in Nat
    BY <1>1, <1>3, <1>8 DEF DlCall, DlPcs
  <2>3. /\ Built(installed', k, path, i - 1, prev)
        /\ IF i = Len(path) THEN Placed(k, path[i], None, prev)'
           ELSE last \in Fteid /\ Placed(k, path[i], last, prev)'
    BY <1>5, <1>6, <1>8, <2>1, <2>2
  <2> QED
    BY <1>2, <1>8, <2>2, <2>3 DEF DlCall, DlPcs
<1>9. CASE call[q].pc = "dlRead"
  BY <1>1, <1>2, <1>9 DEF DlCall, DlPcs
<1> QED
  BY <1>2, <1>7, <1>8, <1>9 DEF DlCall, DlPcs

\* A downlink call starts with nothing to lead to but a gNB.
LEMMA DlBegin ==
  ASSUME TypeInv, NEW p \in Procs, Begin(p)
  PROVE  DlCall(p)'
<1>1. CASE call'[p].pc \notin DlPcs
  BY <1>1 DEF DlCall
<1>2. CASE \E res, f : Return(p, res, f)
  BY <1>1, <1>2, ReturnPc DEF DlPcs
<1>3. ASSUME NEW k \in Keys, NEW g \in Gnbs, NEW f \in GnbFteids, BeginDownlink(p, k, g, f)
      PROVE  DlCall(p)'
  <2>1. ASSUME NEW path \in Routes(k.dnn, g), path # <<>>, Start(p, "dlRead", k, path, 1, f)
        PROVE  DlCall(p)'
    <3>0. path \in Seq(Hops)
      BY <2>1, PathsAssumption DEF Routes
    <3>1. 1 \in 1 .. Len(path)
      BY <2>1, <3>0
    <3>2. /\ call'[p].pc = "dlRead" /\ call'[p].key = k /\ call'[p].path = path /\ call'[p].i = 1
          /\ call'[p].last = f /\ call'[p].res = "none"
      BY <2>1 DEF Start, TypeInv, TypeOK
    <3> QED
      BY <3>1, <3>2 DEF DlCall
  <2> QED
    BY <1>2, <1>3, <2>1 DEF BeginDownlink
<1>4. ASSUME NEW k \in Keys, NEW g \in Gnbs, BeginUplink(p, k, g) PROVE DlCall(p)'
  <2>1. \A path, i : Start(p, "ulQueue", k, path, i, None) => call'[p].pc = "ulQueue"
    BY DEF Start, TypeInv, TypeOK
  <2> QED
    BY <1>1, <1>2, <1>4, <2>1 DEF BeginUplink, DlPcs
<1>5. ASSUME NEW k \in Keys, NEW h, NEW f, BeginForward(p, k, h, f) PROVE DlCall(p)'
  <2>1. Start(p, "fwQueue", k, <<h>>, 1, f) => call'[p].pc = "fwQueue"
    BY DEF Start, TypeInv, TypeOK
  <2> QED
    BY <1>1, <1>2, <1>5, <2>1 DEF BeginForward, DlPcs
<1>6. ASSUME NEW k \in Keys, NEW g \in Gnbs, BeginSwitch(p, k, g) PROVE DlCall(p)'
  <2>1. CASE \E path : call' = [call EXCEPT ![p] =
               [pc |-> "swQueue", key |-> k, path |-> path, i |-> 1, far |-> sessions[k].far,
                held |-> TRUE, last |-> sessions[k].next, res |-> "none"]]
    <3>1. call'[p].pc = "swQueue"
      BY <2>1 DEF TypeInv, TypeOK
    <3> QED
      BY <1>1, <3>1 DEF DlPcs
  <2> QED
    BY <1>2, <1>6, <2>1 DEF BeginSwitch
<1>7. ASSUME NEW k \in Keys, \/ \E f : StoreNextDownlinkFteid(p, k, f)
                             \/ \E b : SetIndirectForwardingRequired(p, k, b)
      PROVE  DlCall(p)'
  BY <1>2, <1>7 DEF StoreNextDownlinkFteid, SetIndirectForwardingRequired
<1> QED
  BY <1>3, <1>4, <1>5, <1>6, <1>7 DEF Begin

\* A path starts with nothing but a gNB to lead to.
LEMMA DlRead ==
  ASSUME TypeInv, HeldInv, NEW p \in Procs, DownlinkRead(p), DlCall(p)
  PROVE  DlCall(p)'
<1>1. GoesOn(p, "dlQueue", call'[p].last) /\ call[p].pc = "dlRead" /\ call'[p].last \in GnbFteids
  BY DownlinkReads
<1>2. call[p].i = 1 /\ call[p].res = "none" /\ 1 \in 1 .. Len(call[p].path)
  BY <1>1 DEF DlCall, DlPcs
<1>3. \A k, path, f : f \in GnbFteids => Built(installed', k, path, 0, f)
  BY BuiltNothing
<1>4. Built(installed', call'[p].key, call'[p].path, 0, call'[p].last)
  BY <1>1, <1>3
<1> QED
  BY <1>1, <1>2, <1>4 DEF GoesOn, DlCall

\* A hop is queued that leads to the hops before.
LEMMA DlQueue ==
  ASSUME TypeInv, IdInv, IdInv', RedirectsLastHop, [Next]_vars, NEW p \in Procs, DownlinkQueue(p), DlCall(p)
  PROVE  DlCall(p)'
<1>1. PICK k, path, i, last : k = call[p].key /\ path = call[p].path /\ i = call[p].i /\ last = call[p].last
  OBVIOUS
<1>2. /\ call \in [Procs -> Call] /\ call[p] \in Call /\ call[p].pc = "dlQueue" /\ call[p].res = "none"
      /\ i \in 1 .. Len(path) /\ i - 1 \in Nat /\ Built(installed, k, path, i - 1, last) /\ k.ip \in Ips
  <2>1. call \in [Procs -> Call] /\ call[p] \in Call /\ call[p].pc = "dlQueue" /\ i \in Nat
    BY <1>1 DEF DownlinkQueue, At, TypeInv, TypeOK, Call
  <2>2. call[p].res = "none" /\ i \in 1 .. Len(path) /\ Built(installed, k, path, i - 1, last)
    BY <1>1, <2>1 DEF DlCall, DlPcs
  <2>3. k.ip \in Ips
    BY <1>1, <2>1, KeyType DEF Ip
  <2> QED
    BY <2>1, <2>2, <2>3
<1>3. Built(installed', k, path, i - 1, last)
  BY <1>2, BuiltStays
<1>4. CASE \E res, f : Return(p, res, f)
  <2>1. call'[p].pc = "idle"
    BY <1>4, ReturnPc
  <2> QED
    BY <2>1 DEF DlCall, DlPcs
<1>7. Hop(p) = path[i] /\ (AtEnd(p) <=> i = Len(path))
  BY <1>1 DEF Hop, AtEnd
<1>5. ASSUME NEW listen, NEW new, QueuesDownlink(p, path[i].node, k.ip, k.dnn, listen, new)
      PROVE  DlCall(p)'
  <2> DEFINE n == [id |-> NextId(path[i].node, k.ip), dnn |-> k.dnn, dir |-> "DL", listen |-> listen,
                   fwd |-> last]
  <2>0. /\ Lookup(path[i]) /\ AddRule(path[i].node, k.ip, k.dnn, "DL", listen, last)
        /\ GoesOn(p, "dlFar", new)
        /\ IF i = Len(path) THEN listen = None ELSE listen = new /\ new \in Fteid
    BY <1>1, <1>5, <1>7 DEF QueuesDownlink
  <2>1. n \in created'[path[i].node][k.ip]
    BY <1>2, <2>0 DEF AddRule, Lookup, TypeInv, TypeOK
  <2>2. n.dnn = k.dnn /\ n.dir = "DL" /\ n.listen = listen /\ n.fwd = last
    OBVIOUS
  <2> HIDE DEF n
  <2>3. Placed(k, path[i], listen, last)'
    BY <2>1, <2>2 DEF Placed, LeadsTo
  <2>4. /\ call'[p].pc = "dlFar" /\ call'[p].key = k /\ call'[p].path = path /\ call'[p].i = i
        /\ call'[p].last = new /\ call'[p].res = "none"
    BY <1>1, <1>2, <2>0 DEF GoesOn
  <2> QED
    BY <1>2, <1>3, <2>0, <2>3, <2>4 DEF DlCall
<1> QED
  BY <1>1, <1>4, <1>5, <1>7, DownlinkQueues

LEMMA DlFar ==
  ASSUME TypeInv, NEW p \in Procs, DownlinkFar(p), DlCall(p)
  PROVE  DlCall(p)'
<1>1. GoesOn(p, "dlPush", call[p].last) /\ call[p].pc = "dlFar"
  BY DEF DownlinkFar, At, GoesOn, TypeInv, TypeOK, Call
<1>2. UNCHANGED <<installed, created>>
  BY DEF DownlinkFar, rules, pfcp
<1> QED
  BY <1>1, <1>2 DEF GoesOn, DlCall, DlPcs, Placed, Installed

\* The push of a hop puts it in place; after the last one the path is complete.
LEMMA DlPush ==
  ASSUME TypeInv, IdInv, IdInv', RedirectsLastHop, FwdBoth, [Next]_vars, NEW p \in Procs,
         DownlinkPush(p), DlCall(p)
  PROVE  /\ DlCall(p)'
         /\ call'[p].res = "ok" =>
              \E f \in GnbFteids : Carries(call[p].key, call[p].path, f, installed')
<1>1. PICK k, path, i, last, rs :
        /\ k = call[p].key /\ path = call[p].path /\ i = call[p].i /\ last = call[p].last
        /\ rs = installed'
  OBVIOUS
<1>2. /\ call \in [Procs -> Call] /\ call[p] \in Call /\ call[p].pc = "dlPush" /\ call[p].res = "none"
      /\ path \in Seq(Hops) /\ i \in 1 .. Len(path) /\ i - 1 \in Nat /\ (i - 1) + 1 = i
      /\ k.ip \in Ips /\ path[i].node \in Upfs
  BY <1>1, KeyType DEF DownlinkPush, At, TypeInv, TypeOK, CallOK, Call, DlCall, DlPcs, Ip
<1>3. PICK prev, listen :
        /\ Built(installed, k, path, i - 1, prev) /\ Placed(k, path[i], listen, prev)
        /\ IF i = Len(path) THEN listen = None ELSE listen = last /\ last \in Fteid
  BY <1>1, <1>2 DEF DlCall, DlPcs
<1>4. Built(rs, k, path, i - 1, prev)
  BY <1>1, <1>2, <1>3, BuiltStays
<1>5. ASSUME NEW f, Return(p, "err", f) PROVE DlCall(p)' /\ call'[p].res = "err"
  BY <1>2, <1>5 DEF Return, Idle, DlCall, DlPcs
<1>6. CASE UpdateSessionOk(path[i].node, k.ip) /\
           IF i = Len(path) THEN Return(p, "ok", last)
           ELSE call' = [call EXCEPT ![p].pc = "dlQueue", ![p].i = @ + 1]
  <2>1. Pushes(path[i].node, k.ip) /\ created'[path[i].node][k.ip] = {}
    BY <1>2, <1>6 DEF Pushes, UpdateSessionOk, TypeInv, TypeOK
  <2>2. Installed(k, path[i], listen, prev)'
    BY <1>2, <1>3, <2>1, PlacedStays
  <2>3. PICK e \in rs : Serves(e, k, path[i]) /\ e.listen = listen /\ LeadsTo(e.fwd, prev)
    BY <1>1, <2>2 DEF Installed
  <2>4. /\ listen \in Fteid => Built(rs, k, path, i, listen)
        /\ listen = None /\ Len(path) = i => \E f \in GnbFteids : Carries(k, path, f, rs)
    BY <1>2, <1>4, <2>3, BuiltOn
  <2>5. CASE i = Len(path)
    <3>1. call'[p].pc = "idle"
      BY <1>6, <2>5, ReturnPc
    <3> QED
      BY <1>1, <1>3, <2>4, <2>5, <3>1 DEF DlCall, DlPcs
  <2>6. CASE i # Len(path)
    <3>1. /\ call'[p].pc = "dlQueue" /\ call'[p].key = k /\ call'[p].path = path /\ call'[p].i = i + 1
          /\ call'[p].last = last /\ call'[p].res = "none"
      BY <1>1, <1>2, <1>6, <2>6 DEF Call
    <3>2. i + 1 \in 1 .. Len(path) /\ (i + 1) - 1 = i
      BY <1>2, <2>6
    <3> QED
      BY <1>1, <1>3, <2>4, <2>6, <3>1, <3>2 DEF DlCall, DlPcs
  <2> QED
    BY <2>5, <2>6
<1> QED
  BY <1>1, <1>5, <1>6 DEF DownlinkPush, Hop, AtEnd, Ip

LEMMA DlStep ==
  ASSUME TypeInv, HeldInv, IdInv, IdInv', RedirectsLastHop, DlInv, [Next]_vars
  PROVE  DlInv'
<1>1. FwdBoth'
  BY FwdBothStep DEF DlInv
<1>2. ASSUME NEW p \in Procs, Step(p) \/ Begin(p) \/ End(p), DlCall(p)' PROVE \A q \in Procs : DlCall(q)'
  BY <1>2, DlOthers DEF DlInv
<1>3. ASSUME NEW p \in Procs, call'[p].pc \notin DlPcs PROVE DlCall(p)'
  BY <1>3 DEF DlCall
<1>4. ASSUME NEW p \in Procs, Step(p) PROVE DlCall(p)'
  <2>1. \A res, f : Return(p, res, f) => call'[p].pc = "idle"
    BY ReturnPc
  <2>2. call \in [Procs -> Call] /\ call[p] \in Call
    BY DEF TypeInv, TypeOK
  <2>3. CASE UplinkQueue(p) \/ FwQueue(p) \/ UplinkStore(p)
    <3>1. \/ \E res, f : Return(p, res, f)
          \/ \E f : call' = [call EXCEPT ![p].pc = "ulPush", ![p].last = f]
          \/ \E f : call' = [call EXCEPT ![p].pc = "fwPush", ![p].last = f]
          \/ call' = [call EXCEPT ![p].pc = "ulAdd"]
      BY <2>3 DEF UplinkQueue, FwQueue, UplinkStore
    <3>2. call'[p].pc \in {"idle", "ulPush", "fwPush", "ulAdd"}
      BY <2>1, <2>2, <3>1 DEF Call
    <3> QED
      BY <1>3, <3>2 DEF DlPcs
  <2>4. CASE UplinkPush(p) \/ FwPush(p) \/ SwitchPush(p)
    <3>1. \/ \E res, f : Return(p, res, f)
          \/ call' = [call EXCEPT ![p].pc = "ulStore"]
          \/ call' = [call EXCEPT ![p].pc = "ulQueue", ![p].i = @ - 1]
      BY <2>4 DEF UplinkPush, FwPush, SwitchPush
    <3>2. call'[p].pc \in {"idle", "ulStore", "ulQueue"}
      BY <2>1, <2>2, <3>1 DEF Call
    <3> QED
      BY <1>3, <3>2 DEF DlPcs
  <2>5. CASE UplinkAdd(p) \/ SwitchQueue(p)
    <3>1. call'[p].pc \in {"idle", "swQueue", "swPush"}
      BY <2>2, <2>5 DEF UplinkAdd, SwitchQueue, At, Idle, Call
    <3> QED
      BY <1>3, <3>1 DEF DlPcs
  <2> QED
    BY <1>4, <2>3, <2>4, <2>5, DlRead, DlQueue, DlFar, DlPush DEF Step, DlInv
<1>5. ASSUME NEW p \in Procs, End(p) PROVE DlCall(p)'
  BY <1>3, <1>5, ReturnPc DEF End, DlPcs
<1>6. ASSUME UNCHANGED vars \/ Cancel \/ ServerStop PROVE \A q \in Procs : DlCall(q)'
  <2>1. UNCHANGED <<call, installed, created>>
    BY <1>6 DEF vars, Cancel, ServerStop, rules, pfcp
  <2> QED
    BY <2>1 DEF DlInv, DlCall, Placed, Installed
<1>7. \A q \in Procs : DlCall(q)'
  BY <1>2, <1>4, <1>5, <1>6, DlBegin DEF Next
<1> QED
  BY <1>1, <1>7 DEF DlInv

\* Nothing but the redirection of a rule between UPFs could take a downlink path apart.
LEMMA DownlinksLead == Spec /\ []RedirectsLastHop => DownlinkComplete
<1> DEFINE Complete == \A p \in Procs : call[p].pc = "dlPush" /\ call'[p].res = "ok" =>
                         \E f \in GnbFteids : Carries(call[p].key, call[p].path, f, installed')
<1>1. ASSUME TypeInv, HeldInv, IdInv, IdInv', DlInv, RedirectsLastHop, [Next]_vars PROVE Complete
  <2> SUFFICES ASSUME NEW p \in Procs, call[p].pc = "dlPush", call'[p].res = "ok"
               PROVE  \E f \in GnbFteids : Carries(call[p].key, call[p].path, f, installed')
    OBVIOUS
  <2>1. call[p].res = "none" /\ DlCall(p) /\ FwdBoth
    BY <1>1 DEF DlInv, DlCall, DlPcs
  <2>2. CASE DownlinkPush(p)
    BY <1>1, <2>1, <2>2, DlPush
  <2>3. ASSUME NEW q \in Procs, q # p, Step(q) \/ Begin(q) \/ End(q) PROVE FALSE
    BY <1>1, <2>1, <2>3, OthersStay
  <2>4. ASSUME Step(p) \/ Begin(p) \/ End(p) PROVE DownlinkPush(p)
    BY <2>4 DEF Step, UplinkQueue, UplinkPush, UplinkStore, UplinkAdd, DownlinkRead, DownlinkQueue,
       DownlinkFar, FwQueue, FwPush,
       SwitchQueue, SwitchPush, At, Begin, BeginUplink, BeginDownlink, BeginForward, BeginSwitch,
       StoreNextDownlinkFteid, SetIndirectForwardingRequired, Enter, End
  <2>5. ASSUME UNCHANGED vars \/ Cancel \/ ServerStop PROVE FALSE
    BY <2>1, <2>5 DEF vars, Cancel, ServerStop
  <2> QED
    BY <1>1, <2>2, <2>3, <2>4, <2>5 DEF Next
<1>2. Init => DlInv
  BY DEF Init, Idle, DlInv, FwdBoth, DlCall, DlPcs
<1>3. SmfInv /\ SmfInv' /\ DlInv /\ RedirectsLastHop /\ [Next]_vars => DlInv' /\ [Complete]_vars
  BY <1>1, DlStep DEF SmfInv
<1>4. DownlinkComplete <=> [][Complete]_vars
  BY PTL DEF DownlinkComplete
<1> QED
  BY <1>2, <1>3, <1>4, SmfInvariant, PTL DEF Spec

-----------------------------------------------------------------------------
(* Which rules a switch redirects.  A FAR id is that of the last hop a     *)
(* downlink set-up has been at, and a switch uses it at the first hop of a *)
(* path of the slice: the same UPF only when the paths have one hop.       *)

\* The paths of a slice are one and the same UPF, as in the configuration the
\* repository ships.
OneUpf ==
  \A r, s \in DOMAIN Paths : r[1] = s[1] /\ Paths[r] # <<>> /\ Paths[s] # <<>> =>
    Len(Paths[r]) = 1 /\ Paths[r][1].node = Paths[s][1].node

OnPath(d, path) == path # <<>> /\ \E r \in DOMAIN Paths : r[1] = d /\ path = Paths[r]
UpfOf(d, u)     == \E path : OnPath(d, path) /\ u = path[1].node

\* A rule takes the packets of the data network to a gNB.
Anchors(r) == r.dir = "DL" /\ r.listen = None /\ r.fwd \in GnbFteids

\* An id that has been given out names no other kind of rule.
AnchorId(u, x, id) ==
  /\ id \in Nat /\ id <= lastId[u][x]
  /\ \A e \in installed : e.upf = u /\ e.ip = x /\ e.id = id => Anchors(e)
  /\ \A r \in created[u][x] : r.id = id => Anchors(r)

\* It does so at the UPF of the session.
SessionId(k, id) == \A u \in Upfs : UpfOf(k.dnn, u) => AnchorId(u, k.ip, id)

FarCall(p) ==
  LET c == call[p] IN
  /\ c.pc \in DlPcs \union {"swQueue"} => c.i = 1 /\ OnPath(c.key.dnn, c.path)
  /\ c.pc = "dlQueue" => c.last \in GnbFteids
  /\ c.pc \in {"dlFar", "swQueue"} => SessionId(c.key, c.far)

\* 0, the FAR id of a session without downlink, is no rule's.
IdsFromOne ==
  /\ \A e \in installed : e.id # 0
  /\ \A u \in Upfs, x \in Ips : \A r \in created[u][x] : r.id # 0

FarInv ==
  /\ IdsFromOne
  /\ \A u \in Upfs, x \in Ips : \A r \in Redirects(u, x) : AnchorId(u, x, r.far)
  /\ \A k \in Keys : sessions[k] # None => SessionId(k, sessions[k].far)
  /\ \A p \in Procs : FarCall(p)

LEMMA OnePath ==
  ASSUME OneUpf, NEW d, NEW path, OnPath(d, path)
  PROVE  Len(path) = 1 /\ UpfOf(d, path[1].node) /\ \A u : UpfOf(d, u) => u = path[1].node
  BY DEF OneUpf, OnPath, UpfOf

LEMMA RoutesOn ==
  ASSUME NEW d, NEW g, NEW path \in Routes(d, g), path # <<>>
  PROVE  OnPath(d, path)
<1>1. PICK a \in AreasOf[g] : <<d, a>> \in DOMAIN Paths /\ path = Paths[<<d, a>>]
  BY DEF Routes
<1>2. <<d, a>>[1] = d
  OBVIOUS
<1> QED
  BY <1>1, <1>2 DEF OnPath

\* No step gives an id that is out to another rule, or the id 0 to any.
LEMMA AnchorStays ==
  ASSUME TypeInv, IdInv, IdsFromOne, [Next]_vars
  PROVE  /\ \A u \in Upfs, x \in Ips : \A id : AnchorId(u, x, id) => AnchorId(u, x, id)'
         /\ IdsFromOne'
<1>1. \A e \in installed : e.upf \in Upfs /\ e.ip \in Ips /\ e.id \in Nat
  BY DEF TypeInv, TypeOK, Entry
<1>2. lastId \in [Upfs -> [Ips -> Nat]]
  BY DEF TypeInv, TypeOK
<1>3. CASE RulesStay
  BY <1>3 DEF RulesStay, AnchorId, IdsFromOne
<1>4. ASSUME NEW h, NEW y \in Ips, NEW dnn, NEW dir, NEW listen, NEW fwd,
             Queues(h, y, dnn, dir, listen, fwd)
      PROVE  /\ \A u \in Upfs, x \in Ips : \A id : AnchorId(u, x, id) => AnchorId(u, x, id)'
             /\ IdsFromOne'
  <2> DEFINE n == [id |-> lastId[h.node][y] + 1, dnn |-> dnn, dir |-> dir, listen |-> listen, fwd |-> fwd]
  <2>1. \A v \in Upfs, x \in Ips : \A r \in created'[v][x] :
          r \in created[v][x] \/ (v = h.node /\ x = y /\ r = n)
    BY <1>4 DEF Queues, Lookup, AddRule, NextId, TypeInv, TypeOK
  <2>2. n.id = lastId[h.node][y] + 1 /\ UNCHANGED installed /\ h.node \in Upfs
    BY <1>4 DEF Queues, Lookup, pfcp
  <2>3. lastId' = [lastId EXCEPT ![h.node][y] = lastId[h.node][y] + 1]
    BY <1>4 DEF Queues, AddRule, NextId
  <2> HIDE DEF n
  <2>4. \A v \in Upfs, x \in Ips : lastId[v][x] <= lastId'[v][x] /\ lastId[v][x] \in Nat /\ lastId'[v][x] \in Nat
    BY <1>2, <2>2, <2>3
  <2>5. ASSUME NEW u \in Upfs, NEW x \in Ips, NEW id, AnchorId(u, x, id) PROVE AnchorId(u, x, id)'
    <3>1. id \in Nat /\ id <= lastId'[u][x]
      BY <2>4, <2>5 DEF AnchorId
    <3>2. u = h.node /\ x = y => n.id # id
      BY <2>2, <2>4, <2>5 DEF AnchorId
    <3> QED
      BY <2>1, <2>2, <2>5, <3>1, <3>2 DEF AnchorId
  <2>6. IdsFromOne'
    BY <2>1, <2>2, <2>4 DEF IdsFromOne
  <2> QED
    BY <2>5, <2>6
<1>5. ASSUME NEW v \in Upfs, NEW y \in Ips, Pushes(v, y)
      PROVE  /\ \A u \in Upfs, x \in Ips : \A id : AnchorId(u, x, id) => AnchorId(u, x, id)'
             /\ IdsFromOne'
  <2>1. PICK im : \E s \in Nat : Moves(v, y, im, s)
    BY <1>5, PushMoves
  <2>2. PICK s \in Nat : Moves(v, y, im, s)
    BY <2>1
  <2>3. lastId' = lastId
    BY <1>5, PushMoves
  <2>4. \A u \in Upfs, x \in Ips : created'[u][x] \subseteq created[u][x]
    BY <2>2, QueuesShrink
  <2>5. ASSUME NEW e \in installed'
        PROVE  \/ \E d \in installed : SameRule(e, d)
               \/ \E r \in created[v][y] : /\ e.upf = v /\ e.ip = y /\ e.id = r.id
                                           /\ e.dir = r.dir /\ e.listen = r.listen /\ e.fwd = r.fwd
    BY <2>2, InstallingMembers DEF Moves
  <2>6. ASSUME NEW u \in Upfs, NEW x \in Ips, NEW id, AnchorId(u, x, id) PROVE AnchorId(u, x, id)'
    <3>1. ASSUME NEW e \in installed', e.upf = u, e.ip = x, e.id = id PROVE Anchors(e)
      BY <2>5, <2>6, <3>1 DEF AnchorId, Anchors, SameRule
    <3> QED
      BY <2>3, <2>4, <2>6, <3>1 DEF AnchorId
  <2>7. IdsFromOne'
    BY <2>4, <2>5 DEF IdsFromOne, SameRule
  <2> QED
    BY <2>6, <2>7
<1> QED
  BY <1>3, <1>4, <1>5, StepKinds

LEMMA SessionIdStays ==
  ASSUME TypeInv, IdInv, IdsFromOne, [Next]_vars, NEW k, k.ip \in Ips, NEW id, SessionId(k, id)
  PROVE  SessionId(k, id)'
  BY AnchorStays DEF SessionId

\* 0 is the id of no rule.
LEMMA NoId ==
  ASSUME TypeInv, IdsFromOne, NEW k, k.ip \in Ips
  PROVE  SessionId(k, 0)
<1>1. \A u \in Upfs : 0 <= lastId[u][k.ip]
  BY DEF TypeInv, TypeOK
<1> QED
  BY <1>1 DEF SessionId, AnchorId, IdsFromOne

\* The rule queued at the only hop of a path is the anchor's.
LEMMA FarQueue ==
  ASSUME OneUpf, TypeInv, IdInv, IdsFromOne, [Next]_vars, NEW p \in Procs, FarCall(p), DownlinkQueue(p)
  PROVE  FarCall(p)'
<1>1. PICK k, path, u : k = call[p].key /\ path = call[p].path /\ u = Hop(p).node
  OBVIOUS
<1>2. /\ call[p].pc = "dlQueue" /\ call[p].i = 1 /\ OnPath(k.dnn, path) /\ call[p].last \in GnbFteids
      /\ k.ip \in Ips
  BY <1>1, KeyType DEF DownlinkQueue, At, FarCall, DlPcs, Ip
<1>3. AtEnd(p) /\ u = path[1].node /\ \A v : UpfOf(k.dnn, v) => v = u
  BY <1>1, <1>2, OnePath DEF AtEnd, Hop
<1>4. CASE \E res, f : Return(p, res, f)
  <2>1. call'[p].pc = "idle"
    BY <1>4, ReturnPc
  <2> QED
    BY <2>1 DEF FarCall, DlPcs
<1>5. ASSUME NEW listen, NEW last, QueuesDownlink(p, u, k.ip, k.dnn, listen, last)
      PROVE  FarCall(p)'
  <2>0. PICK id : id = lastId[u][k.ip] + 1
    OBVIOUS
  <2> DEFINE n == [id |-> id, dnn |-> k.dnn, dir |-> "DL", listen |-> None, fwd |-> call[p].last]
  <2>1. /\ u \in Upfs /\ AddRule(u, k.ip, k.dnn, "DL", None, call[p].last)
        /\ GoesOn(p, "dlFar", last) /\ call'[p].far = id
    BY <1>1, <1>3, <1>5, <2>0 DEF QueuesDownlink, Lookup, QueuedFar, NextId
  <2>10. /\ lastId' = [lastId EXCEPT ![u][k.ip] = id]
        /\ created' = [created EXCEPT ![u][k.ip] = created[u][k.ip] \union {n}]
    BY <2>0, <2>1 DEF AddRule, NextId
  <2>11. n.id = id /\ n.dir = "DL" /\ n.listen = None /\ n.fwd = call[p].last
    OBVIOUS
  <2>3. n.id = id /\ Anchors(n)
    BY <1>2, <2>11 DEF Anchors
  <2> HIDE DEF n
  <2>2. /\ \A r \in created'[u][k.ip] : r \in created[u][k.ip] \/ r = n
        /\ lastId'[u][k.ip] = id /\ id \in Nat
        /\ \A r \in created[u][k.ip] : r.id \in Nat
    BY <1>2, <2>0, <2>1, <2>10 DEF TypeInv, TypeOK, Rule
  <2>4. UNCHANGED installed /\ \A e \in installed : e.id \in Nat
    BY DEF DownlinkQueue, pfcp, TypeInv, TypeOK, Entry
  <2>5. \A e \in installed : e.upf = u /\ e.ip = k.ip => e.id # id
    BY <1>2, <2>0, <2>1, <2>2, <2>4 DEF IdInv, IdBound, TypeInv, TypeOK
  <2>6. \A r \in created[u][k.ip] : r.id # id
    BY <1>2, <2>0, <2>1, <2>2 DEF IdInv, IdBound, TypeInv, TypeOK
  <2>7. AnchorId(u, k.ip, id)'
    <3>1. id <= lastId'[u][k.ip]
      BY <2>2
    <3>2. \A r \in created'[u][k.ip] : r.id = id => Anchors(r)
      BY <2>2, <2>3, <2>6
    <3> QED
      BY <2>2, <2>4, <2>5, <3>1, <3>2 DEF AnchorId
  <2>8. SessionId(k, id)'
    BY <1>3, <2>7 DEF SessionId
  <2>9. /\ call'[p].pc = "dlFar" /\ call'[p].key = k /\ call'[p].path = path /\ call'[p].i = 1
        /\ call'[p].far = id
    BY <1>1, <1>2, <2>1 DEF GoesOn
  <2> QED
    BY <1>2, <2>8, <2>9 DEF FarCall
<1> QED
  BY <1>1, <1>4, <1>5, DownlinkQueues

\* What the other goroutines hold stays good.
LEMMA FarOthers ==
  ASSUME TypeInv, IdInv, IdsFromOne, [Next]_vars, NEW p \in Procs, Step(p) \/ Begin(p) \/ End(p),
         NEW q \in Procs, q # p, FarCall(q)
  PROVE  FarCall(q)'
<1>1. /\ call'[q].pc = call[q].pc /\ call'[q].key = call[q].key /\ call'[q].path = call[q].path
      /\ call'[q].i = call[q].i /\ call'[q].last = call[q].last /\ call'[q].far = call[q].far
  BY OthersStay
<1>2. call[q].pc # "idle" => call[q].key.ip \in Ips
  BY KeyType DEF Ip
<1>3. \A k, id : k.ip \in Ips /\ SessionId(k, id) => SessionId(k, id)'
  BY SessionIdStays
<1> QED
  BY <1>1, <1>2, <1>3 DEF FarCall

LEMMA FarNothing ==
  ASSUME NEW p \in Procs, call'[p].pc \notin DlPcs \union {"swQueue"}
  PROVE  FarCall(p)'
  BY DEF FarCall, DlPcs

\* A call starts at the first hop of a path of the slice; a switch takes the id of
\* the session.
LEMMA FarBegin ==
  ASSUME TypeInv, IdInv, FarInv, [Next]_vars, NEW p \in Procs, Begin(p)
  PROVE  FarCall(p)'
<1>1. \A res, f : Return(p, res, f) => FarCall(p)'
  BY ReturnPc, FarNothing DEF DlPcs
<1>2. ASSUME NEW k \in Keys, NEW pc, NEW path, NEW i, NEW f, Start(p, pc, k, path, i, f)
      PROVE  call'[p].pc = pc /\ call'[p].key = k /\ call'[p].path = path /\ call'[p].i = i
  BY <1>2 DEF Start, TypeInv, TypeOK
<1>3. ASSUME NEW k \in Keys, NEW path, NEW i, NEW f,
             Start(p, "ulQueue", k, path, i, f) \/ Start(p, "fwQueue", k, path, i, f)
      PROVE  FarCall(p)'
  BY <1>2, <1>3, FarNothing DEF DlPcs
<1>4. ASSUME NEW k \in Keys, NEW g \in Gnbs, BeginUplink(p, k, g) PROVE FarCall(p)'
  BY <1>1, <1>3, <1>4 DEF BeginUplink
<1>5. ASSUME NEW k \in Keys, NEW h, NEW f, BeginForward(p, k, h, f) PROVE FarCall(p)'
  BY <1>1, <1>3, <1>5 DEF BeginForward
<1>6. ASSUME NEW k \in Keys, NEW g \in Gnbs, NEW f \in GnbFteids, BeginDownlink(p, k, g, f)
      PROVE  FarCall(p)'
  <2>1. ASSUME NEW path \in Routes(k.dnn, g), path # <<>>, Start(p, "dlRead", k, path, 1, f)
        PROVE  FarCall(p)'
    <3>1. OnPath(k.dnn, path)
      BY <2>1, RoutesOn
    <3> QED
      BY <1>2, <2>1, <3>1 DEF FarCall
  <2> QED
    BY <1>1, <1>6, <2>1 DEF BeginDownlink
<1>7. ASSUME NEW k \in Keys, NEW g \in Gnbs, BeginSwitch(p, k, g) PROVE FarCall(p)'
  <2>1. ASSUME sessions[k] # None, NEW path \in Routes(k.dnn, g), path # <<>>,
               call' = [call EXCEPT ![p] =
                 [pc |-> "swQueue", key |-> k, path |-> path, i |-> 1, far |-> sessions[k].far,
                  held |-> TRUE, last |-> sessions[k].next, res |-> "none"]]
        PROVE  FarCall(p)'
    <3>0. PICK id : id = sessions[k].far
      OBVIOUS
    <3>1. OnPath(k.dnn, path)
      BY <2>1, RoutesOn
    <3>2. /\ call'[p].pc = "swQueue" /\ call'[p].key = k /\ call'[p].path = path /\ call'[p].i = 1
          /\ call'[p].far = sessions[k].far
      BY <2>1 DEF TypeInv, TypeOK
    <3>3. SessionId(k, id) /\ k.ip \in Ips
      BY <2>1, <3>0 DEF FarInv, Ips
    <3>4. SessionId(k, id)'
      BY <3>3, SessionIdStays DEF FarInv
    <3> QED
      BY <3>0, <3>1, <3>2, <3>4 DEF FarCall
  <2> QED
    BY <1>1, <1>7, <2>1 DEF BeginSwitch
<1>8. ASSUME NEW k \in Keys, \/ \E f : StoreNextDownlinkFteid(p, k, f)
                             \/ \E b : SetIndirectForwardingRequired(p, k, b)
      PROVE  FarCall(p)'
  BY <1>1, <1>8 DEF StoreNextDownlinkFteid, SetIndirectForwardingRequired
<1> QED
  BY <1>4, <1>5, <1>6, <1>7, <1>8 DEF Begin

LEMMA FarRead ==
  ASSUME TypeInv, HeldInv, NEW p \in Procs, DownlinkRead(p), FarCall(p)
  PROVE  FarCall(p)'
<1>1. GoesOn(p, "dlQueue", call'[p].last) /\ call[p].pc = "dlRead" /\ call'[p].last \in GnbFteids
  BY DownlinkReads
<1> QED
  BY <1>1 DEF GoesOn, FarCall, DlPcs

LEMMA FarFar ==
  ASSUME TypeInv, NEW p \in Procs, DownlinkFar(p), FarCall(p)
  PROVE  FarCall(p)'
<1>1. GoesOn(p, "dlPush", call[p].last) /\ call[p].pc = "dlFar"
  BY DEF DownlinkFar, At, GoesOn, TypeInv, TypeOK, Call
<1> QED
  BY <1>1 DEF GoesOn, FarCall, DlPcs

\* The only hop of a path is its last.
LEMMA FarPush ==
  ASSUME OneUpf, TypeInv, NEW p \in Procs, DownlinkPush(p), FarCall(p)
  PROVE  FarCall(p)'
<1>1. call[p].pc = "dlPush" /\ call[p].i = 1 /\ OnPath(call[p].key.dnn, call[p].path)
  BY DEF DownlinkPush, At, FarCall, DlPcs
<1>2. AtEnd(p)
  BY <1>1, OnePath DEF AtEnd
<1>3. \E res, f : Return(p, res, f)
  BY <1>2 DEF DownlinkPush
<1> QED
  BY <1>3, ReturnPc, FarNothing DEF DlPcs

LEMMA FarSwitch ==
  ASSUME TypeInv, IdInv, IdsFromOne, [Next]_vars, NEW p \in Procs, SwitchQueue(p), FarCall(p)
  PROVE  FarCall(p)'
<1>1. CASE UNCHANGED call
  <2>1. call[p].key.ip \in Ips
    BY KeyType DEF SwitchQueue, At, Ip
  <2>2. \A k, id : k.ip \in Ips /\ SessionId(k, id) => SessionId(k, id)'
    BY SessionIdStays
  <2> QED
    BY <1>1, <2>1, <2>2 DEF FarCall
<1>2. CASE call' = [call EXCEPT ![p].pc = "swPush"]
  <2>1. call'[p].pc = "swPush"
    BY <1>2 DEF TypeInv, TypeOK, Call
  <2> QED
    BY <2>1, FarNothing DEF DlPcs
<1> QED
  BY <1>1, <1>2 DEF SwitchQueue

LEMMA FarCalls ==
  ASSUME OneUpf, TypeInv, HeldInv, IdInv, FarInv, [Next]_vars
  PROVE  \A q \in Procs : FarCall(q)'
<1>1. ASSUME NEW p \in Procs, Step(p) \/ Begin(p) \/ End(p), FarCall(p)'
      PROVE  \A q \in Procs : FarCall(q)'
  BY <1>1, FarOthers DEF FarInv
<1>2. ASSUME NEW p \in Procs, Step(p) PROVE FarCall(p)'
  <2>1. \A res, f : Return(p, res, f) => call'[p].pc = "idle"
    BY ReturnPc
  <2>2. call \in [Procs -> Call] /\ call[p] \in Call
    BY DEF TypeInv, TypeOK
  <2>3. CASE UplinkQueue(p) \/ FwQueue(p) \/ UplinkStore(p)
    <3>1. \/ \E res, f : Return(p, res, f)
          \/ \E f : call' = [call EXCEPT ![p].pc = "ulPush", ![p].last = f]
          \/ \E f : call' = [call EXCEPT ![p].pc = "fwPush", ![p].last = f]
          \/ call' = [call EXCEPT ![p].pc = "ulAdd"]
      BY <2>3 DEF UplinkQueue, FwQueue, UplinkStore
    <3>2. call'[p].pc \in {"idle", "ulPush", "fwPush", "ulAdd"}
      BY <2>1, <2>2, <3>1 DEF Call
    <3> QED
      BY <3>2, FarNothing DEF DlPcs
  <2>4. CASE UplinkPush(p) \/ FwPush(p) \/ SwitchPush(p)
    <3>1. \/ \E res, f : Return(p, res, f)
          \/ call' = [call EXCEPT ![p].pc = "ulStore"]
          \/ call' = [call EXCEPT ![p].pc = "ulQueue", ![p].i = @ - 1]
      BY <2>4 DEF UplinkPush, FwPush, SwitchPush
    <3>2. call'[p].pc \in {"idle", "ulStore", "ulQueue"}
      BY <2>1, <2>2, <3>1 DEF Call
    <3> QED
      BY <3>2, FarNothing DEF DlPcs
  <2>5. CASE UplinkAdd(p)
    <3>1. call'[p].pc = "idle"
      BY <2>2, <2>5 DEF UplinkAdd, Idle
    <3> QED
      BY <3>1, FarNothing DEF DlPcs
  <2> QED
    BY <1>2, <2>3, <2>4, <2>5, FarRead, FarQueue, FarFar, FarPush, FarSwitch DEF Step, FarInv
<1>3. ASSUME NEW p \in Procs, End(p) PROVE FarCall(p)'
  BY <1>3, ReturnPc, FarNothing DEF End, DlPcs
<1>4. CASE UNCHANGED vars \/ Cancel \/ ServerStop
  <2>1. UNCHANGED call
    BY <1>4 DEF vars, Cancel, ServerStop
  <2>2. \A k, id : k.ip \in Ips /\ SessionId(k, id) => SessionId(k, id)'
    BY SessionIdStays DEF FarInv
  <2>3. \A q \in Procs : call[q].pc # "idle" => call[q].key.ip \in Ips
    BY KeyType DEF Ip
  <2> QED
    BY <2>1, <2>2, <2>3 DEF FarCall, FarInv
<1> QED
  BY <1>1, <1>2, <1>3, <1>4, FarBegin DEF Next

-----------------------------------------------------------------------------
LEMMA ChangedFar ==
  ASSUME TypeInv, NEW j \in Keys, sessions[j] # None, NEW s \in Session,
         sessions' = [sessions EXCEPT ![j] = s], s.far = sessions[j].far, NEW k \in Keys
  PROVE  sessions'[k] = None \/ (sessions[k] # None /\ sessions'[k].far = sessions[k].far)
  BY DEF TypeInv, TypeOK

\* Where the FAR id of a session comes from: it has just been added, or a downlink call
\* has stored the id of the rule it has queued.
LEMMA FarComes ==
  ASSUME TypeInv, HeldInv, [Next]_vars, NEW k \in Keys, sessions'[k] # None
  PROVE  \/ sessions[k] # None /\ sessions'[k].far = sessions[k].far
         \/ sessions'[k].far = 0
         \/ \E p \in Procs : /\ DownlinkFar(p) /\ call[p].key = k /\ call[p].pc = "dlFar"
                            /\ sessions'[k].far = call[p].far
<1> DEFINE Good == \/ sessions[k] # None /\ sessions'[k].far = sessions[k].far
                   \/ sessions'[k].far = 0
                   \/ \E p \in Procs : /\ DownlinkFar(p) /\ call[p].key = k /\ call[p].pc = "dlFar"
                                      /\ sessions'[k].far = call[p].far
<1>1. CASE UNCHANGED sessions
  BY <1>1
<1>2. ASSUME NEW j \in Keys, sessions[j] # None, NEW s \in Session, Writes(j, s), s.far = sessions[j].far
      PROVE  Good
  BY <1>2, ChangedFar DEF Writes
<1>3. \A j \in Keys : sessions[j] # None => sessions[j] \in Session
  BY DEF TypeInv, TypeOK
<1>4. ASSUME NEW p \in Procs, UplinkStore(p) PROVE Good
  <2> DEFINE j == call[p].key
             s == [sessions[j] EXCEPT !.ul = call[p].last]
  <2>1. j \in Keys /\ call[p].last \in Fteid
    BY <1>4, KeyType DEF UplinkStore, At, TypeInv, CallOK
  <2>2. CASE sessions[j] # None
    <3>1. s \in Session /\ s.far = sessions[j].far
      BY <1>3, <2>1, <2>2 DEF Session
    <3>2. Writes(j, s)
      BY <1>4, <2>2 DEF UplinkStore, SetUplinkFteid, Writes
    <3> HIDE DEF j, s
    <3> QED
      BY <1>2, <2>1, <2>2, <3>1, <3>2
  <2> QED
    BY <1>1, <1>4, <2>2 DEF UplinkStore
<1>5. ASSUME NEW p \in Procs, UplinkAdd(p) PROVE Good
  <2>1. CASE call[p].key = k
    <3>1. sessions'[k] = [ul |-> call[p].last, dl |-> None, next |-> None, far |-> 0, indirect |-> FALSE]
      BY <1>5, <2>1 DEF UplinkAdd, SessionAdded, TypeInv, TypeOK
    <3> QED
      BY <3>1
  <2>2. CASE call[p].key # k
    BY <1>5, <2>2 DEF UplinkAdd, SessionAdded, TypeInv, TypeOK
  <2> QED
    BY <2>1, <2>2
<1>6. ASSUME NEW p \in Procs, DownlinkFar(p) PROVE Good
  <2> DEFINE j == call[p].key
             s == [sessions[j] EXCEPT !.far = call[p].far]
  <2>1. j \in Keys /\ call[p].far \in Nat /\ call[p].pc = "dlFar" /\ sessions[j] # None
    BY <1>6, KeyType DEF DownlinkFar, At, Call, HeldInv, StoredInv, DlPcs
  <2>2. CASE call[p].held
    <3>1. sessions' = [sessions EXCEPT ![j] = s] /\ s.far = call[p].far
      BY <1>3, <1>6, <2>1, <2>2 DEF DownlinkFar, Session
    <3> HIDE DEF s
    <3>2. IF k = j THEN sessions'[k].far = call[p].far ELSE sessions'[k] = sessions[k]
      BY <3>1 DEF TypeInv, TypeOK
    <3> QED
      BY <1>6, <2>1, <3>2
  <2> QED
    BY <1>1, <1>6, <2>2 DEF DownlinkFar
<1>7. ASSUME NEW p \in Procs, NEW j \in Keys, NEW g \in Gnbs, NEW f \in GnbFteids, BeginDownlink(p, j, g, f)
      PROVE  Good
  <2> DEFINE s == [sessions[j] EXCEPT !.dl = f]
  <2>1. CASE sessions[j] # None /\ ~UNCHANGED sessions
    <3>1. s \in Session /\ s.far = sessions[j].far
      BY <1>3, <2>1 DEF Session
    <3>2. Writes(j, s)
      BY <1>7, <2>1 DEF BeginDownlink, Writes
    <3> HIDE DEF s
    <3> QED
      BY <1>2, <2>1, <3>1, <3>2
  <2> QED
    BY <1>1, <1>7, <2>1 DEF BeginDownlink
<1>8. ASSUME NEW p \in Procs, NEW j \in Keys, NEW f \in GnbFteids \union {None}, StoreNextDownlinkFteid(p, j, f)
      PROVE  Good
  <2> DEFINE s == [sessions[j] EXCEPT !.next = f]
  <2>1. CASE sessions[j] # None
    <3>1. s \in Session /\ s.far = sessions[j].far
      BY <1>3, <2>1 DEF Session
    <3>2. Writes(j, s)
      BY <1>8, <2>1 DEF StoreNextDownlinkFteid, Writes
    <3> HIDE DEF s
    <3> QED
      BY <1>2, <2>1, <3>1, <3>2
  <2> QED
    BY <1>1, <1>8, <2>1 DEF StoreNextDownlinkFteid
<1>9. ASSUME NEW p \in Procs, NEW j \in Keys, NEW b \in BOOLEAN, SetIndirectForwardingRequired(p, j, b)
      PROVE  Good
  <2> DEFINE s == [sessions[j] EXCEPT !.indirect = b]
  <2>1. CASE sessions[j] # None
    <3>1. s \in Session /\ s.far = sessions[j].far
      BY <1>3, <2>1 DEF Session
    <3>2. Writes(j, s)
      BY <1>9, <2>1 DEF SetIndirectForwardingRequired, Writes
    <3> HIDE DEF s
    <3> QED
      BY <1>2, <2>1, <3>1, <3>2
  <2> QED
    BY <1>1, <1>9, <2>1 DEF SetIndirectForwardingRequired
<1>10. ASSUME NEW p \in Procs, Step(p) PROVE Good
  BY <1>1, <1>4, <1>5, <1>6, <1>10 DEF Step, UplinkQueue, UplinkPush, DownlinkRead, DownlinkQueue,
     DownlinkPush, FwQueue, FwPush, SwitchQueue, SwitchPush
<1>11. ASSUME NEW p \in Procs, Begin(p) \/ End(p) PROVE Good
  BY <1>1, <1>7, <1>8, <1>9, <1>11 DEF Begin, BeginUplink, BeginForward, BeginSwitch, End
<1>12. ASSUME UNCHANGED vars \/ Cancel \/ ServerStop PROVE Good
  BY <1>1, <1>12 DEF vars, Cancel, ServerStop
<1> QED
  BY <1>10, <1>11, <1>12 DEF Next

\* Where a FAR update comes from: a switch, with the id it has read.
LEMMA RedirectComes ==
  ASSUME TypeInv, [Next]_vars, NEW u \in Upfs, NEW x \in Ips, NEW r \in Redirects(u, x)'
  PROVE  \/ r \in Redirects(u, x)
         \/ \E p \in Procs : /\ call[p].pc = "swQueue" /\ Hop(p).node = u /\ call[p].key.ip = x
                            /\ r.far = call[p].far
<1>1. updated \in [Upfs -> [Ips -> Seq(FarUpdate)]]
  BY DEF TypeInv, TypeOK
<1>2. CASE UNCHANGED updated
  BY <1>2 DEF Redirects
<1>3. CASE \E v \in Upfs, y \in Ips : updated' = [updated EXCEPT ![v][y] = <<>>]
  <2>1. updated'[u][x] = updated[u][x] \/ updated'[u][x] = <<>>
    BY <1>1, <1>3
  <2> QED
    BY <2>1 DEF Redirects
<1>4. ASSUME NEW p \in Procs, SwitchQueue(p)
      PROVE  \/ r \in Redirects(u, x)
             \/ /\ call[p].pc = "swQueue" /\ Hop(p).node = u /\ call[p].key.ip = x
                /\ r.far = call[p].far
  <2>1. CASE UNCHANGED updated
    BY <1>2, <2>1 DEF Redirects
  <2> DEFINE v == Hop(p).node
             y == call[p].key.ip
             c == [far |-> call[p].far, fwd |-> call[p].last]
  <2>2. CASE updated' = [updated EXCEPT ![v][y] = Append(updated[v][y], c)]
    <3>1. c.far = call[p].far /\ call[p].pc = "swQueue"
      BY <1>4 DEF SwitchQueue, At
    <3> HIDE DEF c, v, y
    <3>2. CASE u = v /\ x = y
      <4>1. updated'[u][x] = Append(updated[u][x], c) /\ updated[u][x] \in Seq(FarUpdate)
        BY <1>1, <2>2, <3>2
      <4>2. \A n \in DOMAIN updated'[u][x] : 
              updated'[u][x][n] = c \/ (n \in DOMAIN updated[u][x] /\ updated'[u][x][n] = updated[u][x][n])
        BY <4>1
      <4> QED
        BY <3>1, <3>2, <4>2 DEF Redirects, v, y
    <3>3. CASE ~(u = v /\ x = y)
      <4>1. updated'[u][x] = updated[u][x]
        BY <1>1, <2>2, <3>3
      <4> QED
        BY <4>1 DEF Redirects
    <3> QED
      BY <3>2, <3>3
  <2> QED
    BY <1>4, <2>1, <2>2 DEF SwitchQueue, UpdateDownlinkIntermediateDirectForward, Ip, rules
<1>5. ASSUME NEW p \in Procs, Step(p), ~SwitchQueue(p)
      PROVE  UNCHANGED updated \/ \E v \in Upfs, y \in Ips : updated' = [updated EXCEPT ![v][y] = <<>>]
  <2>1. CASE DownlinkQueue(p)
    BY <2>1, Zenon DEF DownlinkQueue, UpdateDownlinkAnchor, UpdateDownlinkIntermediateWithFteid,
       AddRule, rules
  <2>2. CASE UplinkQueue(p) \/ FwQueue(p) \/ UplinkStore(p) \/ UplinkAdd(p) \/ DownlinkRead(p)
             \/ DownlinkFar(p)
    BY <2>2 DEF UplinkQueue, FwQueue, UplinkStore, UplinkAdd, DownlinkRead, DownlinkFar, CreateUplinkAnchorWithFteid,
       CreateUplinkIntermediateWithFteid, UpdateDownlinkIntermediateWithFteid, AddRule, rules
  <2>3. CASE UplinkPush(p) \/ DownlinkPush(p) \/ FwPush(p) \/ SwitchPush(p)
    <3>1. Ip(p) \in Ips /\ Hop(p).node \in Upfs
      BY <2>3, KeyType DEF UplinkPush, DownlinkPush, FwPush, SwitchPush, At, TypeInv, CallOK, Hop
    <3> QED
      BY <2>3, <3>1 DEF UplinkPush, DownlinkPush, FwPush, SwitchPush, CreateSessionOk, CreateSessionErr,
         UpdateSessionOk, UpdateSessionErr, rules
  <2> QED
    BY <1>5, <2>1, <2>2, <2>3 DEF Step
<1>6. ASSUME NEW p \in Procs, Begin(p) \/ End(p) PROVE UNCHANGED updated
  BY <1>6 DEF Begin, BeginUplink, BeginDownlink, BeginForward, BeginSwitch, StoreNextDownlinkFteid,
     SetIndirectForwardingRequired, End, rules
<1>7. CASE UNCHANGED vars \/ Cancel \/ ServerStop
  BY <1>2, <1>7 DEF vars, Cancel, ServerStop, rules
<1> QED
  BY <1>2, <1>3, <1>4, <1>5, <1>6, <1>7 DEF Next

LEMMA FarStep ==
  ASSUME OneUpf, TypeInv, HeldInv, IdInv, FarInv, [Next]_vars
  PROVE  FarInv'
<1>1. IdsFromOne' /\ \A u \in Upfs, x \in Ips : \A id : AnchorId(u, x, id) => AnchorId(u, x, id)'
  BY AnchorStays DEF FarInv
<1>2. \A q \in Procs : FarCall(q)'
  BY FarCalls
<1>3. \A k, id : k.ip \in Ips /\ SessionId(k, id) => SessionId(k, id)'
  BY SessionIdStays DEF FarInv
<1>4. ASSUME NEW k \in Keys, sessions'[k] # None PROVE SessionId(k, sessions[k].far)'
  <2>1. PICK id : id = sessions'[k].far
    OBVIOUS
  <2>2. k.ip \in Ips
    BY DEF Ips
  <2>3. SessionId(k, id)
    BY <1>4, <2>1, <2>2, FarComes, NoId DEF FarInv, FarCall
  <2>4. SessionId(k, id)'
    BY <1>3, <2>2, <2>3
  <2> QED
    BY <2>1, <2>4
<1>5. ASSUME NEW u \in Upfs, NEW x \in Ips, NEW r \in Redirects(u, x)' PROVE AnchorId(u, x, r.far)'
  <2>1. ASSUME NEW p \in Procs, call[p].pc = "swQueue", Hop(p).node = u, call[p].key.ip = x,
               r.far = call[p].far
        PROVE  AnchorId(u, x, r.far)
    <3>1. call[p].i = 1 /\ OnPath(call[p].key.dnn, call[p].path) /\ SessionId(call[p].key, call[p].far)
      BY <2>1 DEF FarInv, FarCall
    <3>2. UpfOf(call[p].key.dnn, u)
      BY <2>1, <3>1, OnePath DEF Hop
    <3> QED
      BY <2>1, <3>1, <3>2 DEF SessionId
  <2>2. AnchorId(u, x, r.far)
    BY <2>1, RedirectComes DEF FarInv
  <2> QED
    BY <1>1, <2>2
<1> QED
  BY <1>1, <1>2, <1>4, <1>5 DEF FarInv

LEMMA FarInvariant ==
  ASSUME OneUpf
  PROVE  Spec => []FarInv
<1>1. ASSUME Init PROVE FarInv
  <2>1. IdsFromOne
    BY <1>1 DEF Init, IdsFromOne
  <2>2. \A u \in Upfs, x \in Ips : Redirects(u, x) = {}
    BY <1>1 DEF Init, Redirects
  <2>3. \A p \in Procs : call[p].pc = "idle"
    BY <1>1 DEF Init, Idle
  <2>4. \A k \in Keys : sessions[k] = None
    BY <1>1 DEF Init
  <2> QED
    BY <2>1, <2>2, <2>3, <2>4 DEF FarInv, FarCall, DlPcs
<1>2. SmfInv /\ FarInv /\ [Next]_vars => FarInv'
  BY FarStep DEF SmfInv
<1> QED
  BY <1>1, <1>2, SmfInvariant, PTL DEF Spec

LEMMA OneUpfRedirects ==
  ASSUME OneUpf
  PROVE  Spec => [](RedirectsDownlink /\ RedirectsLastHop)
<1>1. SmfInv /\ FarInv => RedirectsDownlink /\ RedirectsLastHop
  <2> SUFFICES ASSUME SmfInv, FarInv, NEW e \in installed, NEW r \in Redirects(e.upf, e.ip), r.far = e.id
               PROVE  e.dir = "DL" /\ e.fwd \in GnbFteids
    BY DEF RedirectsDownlink, RedirectsLastHop
  <2>1. e.upf \in Upfs /\ e.ip \in Ips
    BY DEF SmfInv, TypeInv, TypeOK, Entry
  <2>2. Anchors(e)
    BY <2>1 DEF FarInv, AnchorId
  <2> QED
    BY <2>2 DEF Anchors
<1> QED
  BY <1>1, SmfInvariant, FarInvariant, PTL

\* Where the paths of a slice are one UPF, the uplink F-TEID of every stored session leads
\* to the data network over rules of that session only, whatever other calls set up,
\* switch, fail or repeat.
THEOREM UplinksReachCore ==
  ASSUME OneUpf
  PROVE  Spec => []UplinkReachesCore
BY OneUpfRedirects, UplinksLead, PTL

\* Where the paths of a slice are one UPF, CreateSessionDownlinkContext succeeds only when
\* the whole path is installed, from the anchor to a gNB, whatever other calls have done
\* to that UPF meanwhile.
THEOREM DownlinksAreComplete ==
  ASSUME OneUpf
  PROVE  Spec => DownlinkComplete
BY OneUpfRedirects, DownlinksLead, PTL

\* Without switches no FAR update ever waits.
NoUpdate ==
  /\ \A u \in Upfs, x \in Ips : updated[u][x] = <<>>
  /\ \A p \in Procs : call[p].pc # "swQueue"

LEMMA NoUpdateStep ==
  ASSUME "switch" \notin Ops, TypeInv, NoUpdate, [Next]_vars
  PROVE  NoUpdate'
<1>1. ASSUME NEW p \in Procs, Step(p) \/ Begin(p) \/ End(p), call'[p].pc # "swQueue"
      PROVE  \A q \in Procs : call'[q].pc # "swQueue"
  BY <1>1, OthersStay DEF NoUpdate
<1>2. ASSUME NEW p \in Procs, Step(p) \/ Begin(p) \/ End(p) PROVE call'[p].pc # "swQueue"
  <2>1. call \in [Procs -> Call] /\ call[p] \in Call /\ call[p].pc # "swQueue"
    BY DEF TypeInv, TypeOK, NoUpdate
  <2>2. \A res, f : Return(p, res, f) => call'[p].pc = "idle"
    BY ReturnPc
  <2>3. CASE Begin(p) \/ End(p)
    <3>1. \A k, path, i, f : \A pc \in Pcs : Start(p, pc, k, path, i, f) => call'[p].pc = pc
      BY <2>1 DEF Start
    <3>2. \/ \E res, f : Return(p, res, f)
          \/ \E pc \in {"ulQueue", "dlRead", "fwQueue"} : \E k, path, i, f : Start(p, pc, k, path, i, f)
      BY <2>3 DEF Begin, BeginUplink, BeginDownlink, BeginForward, BeginSwitch, StoreNextDownlinkFteid,
         SetIndirectForwardingRequired, End
    <3> QED
      BY <2>2, <3>1, <3>2 DEF Pcs
  <2>4. CASE DownlinkQueue(p)
    BY <2>2, <2>4, DownlinkQueues DEF QueuesDownlink, GoesOn
  <2>5. CASE UplinkQueue(p) \/ FwQueue(p) \/ UplinkStore(p)
    <3>1. \/ \E res, f : Return(p, res, f)
          \/ \E f : call' = [call EXCEPT ![p].pc = "ulPush", ![p].last = f]
          \/ \E f : call' = [call EXCEPT ![p].pc = "fwPush", ![p].last = f]
          \/ call' = [call EXCEPT ![p].pc = "ulAdd"]
      BY <2>5 DEF UplinkQueue, FwQueue, UplinkStore
    <3> QED
      BY <2>1, <2>2, <3>1 DEF Call
  <2>6. CASE UplinkPush(p) \/ DownlinkPush(p) \/ FwPush(p) \/ SwitchPush(p)
    <3>1. \/ \E res, f : Return(p, res, f)
          \/ call' = [call EXCEPT ![p].pc = "ulStore"]
          \/ call' = [call EXCEPT ![p].pc = "ulQueue", ![p].i = @ - 1]
          \/ call' = [call EXCEPT ![p].pc = "dlQueue", ![p].i = @ + 1]
      BY <2>6 DEF UplinkPush, DownlinkPush, FwPush, SwitchPush
    <3> QED
      BY <2>1, <2>2, <3>1 DEF Call
  <2>7. CASE UplinkAdd(p)
    BY <2>1, <2>7 DEF UplinkAdd, Idle
  <2>8. CASE DownlinkRead(p) \/ DownlinkFar(p)
    BY <2>1, <2>8 DEF DownlinkRead, DownlinkFar, Call
  <2> QED
    BY <1>2, <2>1, <2>3, <2>4, <2>5, <2>6, <2>7, <2>8 DEF Step, SwitchQueue, At
<1>3. ASSUME UNCHANGED vars \/ Cancel \/ ServerStop PROVE \A q \in Procs : call'[q].pc # "swQueue"
  BY <1>3 DEF vars, Cancel, ServerStop, NoUpdate
<1>4. \A q \in Procs : call'[q].pc # "swQueue"
  BY <1>1, <1>2, <1>3 DEF Next
<1>5. ASSUME NEW v \in Upfs, NEW y \in Ips, UNCHANGED updated \/ updated' = [updated EXCEPT ![v][y] = <<>>],
             NEW u \in Upfs, NEW x \in Ips
      PROVE  updated'[u][x] = <<>>
  BY <1>5 DEF NoUpdate, TypeInv, TypeOK
<1>6. ASSUME NEW p \in Procs, Step(p)
      PROVE  UNCHANGED updated \/ \E v \in Upfs, y \in Ips : updated' = [updated EXCEPT ![v][y] = <<>>]
  <2>1. CASE DownlinkQueue(p)
    BY <2>1, Zenon DEF DownlinkQueue, UpdateDownlinkAnchor, UpdateDownlinkIntermediateWithFteid,
       AddRule, rules
  <2>2. CASE UplinkQueue(p) \/ FwQueue(p) \/ UplinkStore(p) \/ UplinkAdd(p) \/ DownlinkRead(p)
             \/ DownlinkFar(p)
    BY <2>2 DEF UplinkQueue, FwQueue, UplinkStore, UplinkAdd, DownlinkRead, DownlinkFar, CreateUplinkAnchorWithFteid,
       CreateUplinkIntermediateWithFteid, UpdateDownlinkIntermediateWithFteid, AddRule, rules
  <2>3. CASE UplinkPush(p) \/ DownlinkPush(p) \/ FwPush(p) \/ SwitchPush(p)
    <3>1. Ip(p) \in Ips /\ Hop(p).node \in Upfs
      BY <2>3, KeyType DEF UplinkPush, DownlinkPush, FwPush, SwitchPush, At, TypeInv, CallOK, Hop
    <3> QED
      BY <2>3, <3>1 DEF UplinkPush, DownlinkPush, FwPush, SwitchPush, CreateSessionOk, CreateSessionErr,
         UpdateSessionOk, UpdateSessionErr, rules
  <2>4. ~SwitchQueue(p)
    BY DEF SwitchQueue, At, NoUpdate
  <2> QED
    BY <1>6, <2>1, <2>2, <2>3, <2>4 DEF Step
<1>7. ASSUME NEW p \in Procs, Begin(p) \/ End(p) PROVE UNCHANGED updated
  BY <1>7 DEF Begin, BeginUplink, BeginDownlink, BeginForward, BeginSwitch, StoreNextDownlinkFteid,
     SetIndirectForwardingRequired, End, rules
<1>8. ASSUME UNCHANGED vars \/ Cancel \/ ServerStop PROVE UNCHANGED updated
  BY <1>8 DEF vars, Cancel, ServerStop, rules
<1>9. \A u \in Upfs, x \in Ips : updated'[u][x] = <<>>
  BY <1>5, <1>6, <1>7, <1>8 DEF Next
<1> QED
  BY <1>4, <1>9 DEF NoUpdate

\* Nothing but a switch redirects: set-ups and forwarding alone satisfy the hypotheses
\* of UplinksLead and DownlinksLead.
LEMMA SetUpsRedirectNothing ==
  ASSUME "switch" \notin Ops
  PROVE  Spec => [](RedirectsDownlink /\ RedirectsLastHop)
<1>1. Init => NoUpdate
  BY DEF Init, Idle, NoUpdate
<1>2. SmfInv /\ NoUpdate /\ [Next]_vars => NoUpdate'
  BY NoUpdateStep DEF SmfInv
<1>3. SmfInv /\ NoUpdate => RedirectsDownlink /\ RedirectsLastHop
  <2> SUFFICES ASSUME SmfInv, NoUpdate, NEW e \in installed PROVE Redirects(e.upf, e.ip) = {}
    BY DEF RedirectsDownlink, RedirectsLastHop
  <2>1. e.upf \in Upfs /\ e.ip \in Ips
    BY DEF SmfInv, TypeInv, TypeOK, Entry
  <2>2. DOMAIN updated[e.upf][e.ip] = {}
    BY <2>1 DEF NoUpdate
  <2> QED
    BY <2>2 DEF Redirects
<1> QED
  BY <1>1, <1>2, <1>3, SmfInvariant, PTL DEF Spec

\* Without switches, as in a network where no UE is handed over by direct forwarding,
\* the set-ups keep what they promise without any hypothesis, however they interleave,
\* fail and repeat one another.
THEOREM SetUpsLeadThrough ==
  ASSUME "switch" \notin Ops
  PROVE  Spec => []UplinkReachesCore /\ DownlinkComplete
<1>1. Spec => [](RedirectsDownlink /\ RedirectsLastHop)
  BY SetUpsRedirectNothing
<1> QED
  BY <1>1, UplinksLead, DownlinksLead, PTL

=============================================================================
