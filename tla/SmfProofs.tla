----------------------------- MODULE SmfProofs -----------------------------
(***************************************************************************)
(* Theorems about the SMF for every set of goroutines, PDU sessions, UPFs, *)
(* areas and paths, and any number of calls and failed requests.           *)
(***************************************************************************)
EXTENDS Smf, TLAPS

\* What a goroutine that is inside a call knows: the conjuncts that TypeOK needs
\* to be inductive.
CallOK(c) ==
  /\ c.pc # "idle" => c.key \in Keys
  /\ c.pc \in {"ulPush", "ulStore", "ulAdd"} => c.last \in Fteid
  /\ c.pc = "ulQueue" /\ c.i # Len(c.path) => c.last \in Fteid
  /\ c.pc \in {"ulQueue", "ulPush"} => c.i >= 1
  /\ c.pc \in {"dlQueue", "dlFar", "dlPush", "fwQueue", "fwPush"} => c.last \in Fteid \union GnbFteids
  /\ c.pc = "dlRead" => c.last \in GnbFteids
  /\ c.pc = "dlFar" => c.far # 0
  /\ c.pc = "swQueue" => c.last \in GnbFteids \union {None}
  /\ c.pc = "swPush" => c.last \in GnbFteids
  /\ c.pc \in {"ulPush", "dlFar", "dlPush", "fwQueue", "fwPush", "swQueue", "swPush"} =>
       c.path[c.i].node \in Upfs

TypeInv == TypeOK /\ \A p \in Procs : CallOK(call[p])

DlPcs == {"dlRead", "dlQueue", "dlFar", "dlPush"}

\* A downlink call works on a session that exists ...
StoredInv == \A p \in Procs : call[p].pc \in DlPcs => sessions[call[p].key] # None
\* ... and reads back a downlink F-TEID, its own or that of another call.
ReadInv == \A p \in Procs : call[p].pc = "dlRead" /\ call[p].held => sessions[call[p].key].dl # None
HeldInv == StoredInv /\ ReadInv

-----------------------------------------------------------------------------
(* Lemmas about the operators the actions share.                           *)

LEMMA IdleCall ==
  ASSUME NEW res \in {"none", "ok", "err"}, NEW f \in Fteid \union GnbFteids \union {None}
  PROVE  Idle(res, f) \in Call /\ CallOK(Idle(res, f))
  BY SMTT(30) DEF Idle, Call, CallOK, Pcs

\* Replacing the call of one goroutine.
LEMMA CallUpdate ==
  ASSUME TypeInv, NEW p \in Procs, NEW c \in Call, CallOK(c), call' = [call EXCEPT ![p] = c]
  PROVE  call' \in [Procs -> Call] /\ \A q \in Procs : CallOK(call'[q])
  BY DEF TypeInv, TypeOK

RulesType ==
  /\ lastId \in [Upfs -> [Ips -> Nat]]
  /\ created \in [Upfs -> [Ips -> SUBSET Rule]]
  /\ updated \in [Upfs -> [Ips -> Seq(FarUpdate)]]

PfcpType ==
  /\ handle \in [Upfs -> [Ips -> Nat]]
  /\ seids \in [Upfs -> Nat]
  /\ installed \subseteq Entry
  /\ faults \in Nat

LEMMA AddRuleType ==
  ASSUME RulesType, NEW u \in Upfs, NEW x \in Ips, NEW dnn \in Dnns, NEW dir \in {"UL", "DL"},
         NEW listen \in Fteid \union {None}, NEW fwd \in Fteid \union GnbFteids \union {Core},
         AddRule(u, x, dnn, dir, listen, fwd)
  PROVE  RulesType'
<1>1. NextId(u, x) \in Nat
  BY DEF RulesType, NextId
<1>2. [id |-> NextId(u, x), dnn |-> dnn, dir |-> dir, listen |-> listen, fwd |-> fwd] \in Rule
  BY <1>1 DEF Rule
<1>3. lastId' \in [Upfs -> [Ips -> Nat]]
  BY <1>1 DEF RulesType, AddRule
<1>4. created' \in [Upfs -> [Ips -> SUBSET Rule]]
  BY <1>2 DEF RulesType, AddRule
<1> QED
  BY <1>3, <1>4 DEF RulesType, AddRule

LEMMA DirectForwardType ==
  ASSUME RulesType, NEW u \in Upfs, NEW x \in Ips, NEW far \in Nat, NEW fwd \in GnbFteids,
         UpdateDownlinkIntermediateDirectForward(u, x, far, fwd)
  PROVE  RulesType'
<1> DEFINE r == [far |-> far, fwd |-> fwd]
<1>1. r \in FarUpdate
  BY DEF FarUpdate
<1>2. Append(updated[u][x], r) \in Seq(FarUpdate)
  BY <1>1 DEF RulesType
<1>3. updated' = [updated EXCEPT ![u][x] = Append(updated[u][x], r)]
  BY DEF UpdateDownlinkIntermediateDirectForward
<1>4. updated' \in [Upfs -> [Ips -> Seq(FarUpdate)]]
  BY <1>2, <1>3 DEF RulesType
<1> QED
  BY <1>4 DEF RulesType, UpdateDownlinkIntermediateDirectForward

LEMMA InstallingType ==
  ASSUME RulesType, NEW u \in Upfs, NEW x \in Ips, NEW s \in Nat
  PROVE  Installing(u, x, s) \subseteq Entry
<1>1. created[u][x] \subseteq Rule
  BY DEF RulesType
<1> QED
  BY <1>1 DEF Installing, Rule, Entry

LEMMA RedirectedType ==
  ASSUME RulesType, PfcpType, NEW u \in Upfs, NEW x \in Ips, NEW s \in Nat
  PROVE  Redirected(u, x, s) \subseteq Entry
<1>1. Redirects(u, x) \subseteq FarUpdate
  BY DEF RulesType, Redirects
<1> SUFFICES ASSUME NEW e \in installed,
                    \E r \in Redirects(u, x) : r.far = e.id
             PROVE  [e EXCEPT !.fwd = Redirect(u, x, e.id).fwd] \in Entry
  BY DEF PfcpType, Redirected
<1>2. Redirect(u, x, e.id) \in Redirects(u, x)
  BY DEF Redirect
<1>3. Redirect(u, x, e.id).fwd \in GnbFteids
  BY <1>1, <1>2 DEF FarUpdate
<1>4. e \in Entry
  BY DEF PfcpType
<1> QED
  BY <1>3, <1>4 DEF Entry

LEMMA CreateSessionType ==
  ASSUME RulesType, PfcpType, MaxFaults \in Nat, NEW u \in Upfs, NEW x \in Ips,
         CreateSessionOk(u, x) \/ CreateSessionErr(u, x)
  PROVE  RulesType' /\ PfcpType'
<1>1. seids[u] + 1 \in Nat /\ Installing(u, x, seids[u] + 1) \subseteq Entry
  BY InstallingType DEF PfcpType
<1>2. CASE CreateSessionOk(u, x)
  <2>1. created' \in [Upfs -> [Ips -> SUBSET Rule]]
    BY <1>2 DEF CreateSessionOk, RulesType
  <2>2. seids' \in [Upfs -> Nat] /\ handle' \in [Upfs -> [Ips -> Nat]]
    BY <1>2, <1>1 DEF CreateSessionOk, PfcpType
  <2> QED
    BY <1>1, <1>2, <2>1, <2>2 DEF CreateSessionOk, PfcpType, RulesType
<1>3. CASE CreateSessionErr(u, x)
  <2>1. seids' \in [Upfs -> Nat] /\ handle' \in [Upfs -> [Ips -> Nat]]
    BY <1>3, <1>1 DEF CreateSessionErr, PfcpType
  <2>2. installed' \subseteq Entry
    BY <1>3, <1>1 DEF CreateSessionErr, PfcpType
  <2>3. faults' \in Nat
    BY <1>3 DEF CreateSessionErr, Fault, PfcpType
  <2> QED
    BY <1>3, <2>1, <2>2, <2>3 DEF CreateSessionErr, PfcpType, RulesType, rules
<1> QED
  BY <1>2, <1>3

LEMMA UpdateSessionType ==
  ASSUME RulesType, PfcpType, MaxFaults \in Nat, NEW u \in Upfs, NEW x \in Ips,
         UpdateSessionOk(u, x) \/ UpdateSessionErr(u, x)
  PROVE  RulesType' /\ PfcpType'
<1>1. handle[u][x] \in Nat
  BY DEF PfcpType
<1>2. Redirected(u, x, handle[u][x]) \union Installing(u, x, handle[u][x]) \subseteq Entry
  BY <1>1, InstallingType, RedirectedType
<1>3. CASE UpdateSessionOk(u, x)
  <2>1. created' \in [Upfs -> [Ips -> SUBSET Rule]] /\ updated' \in [Upfs -> [Ips -> Seq(FarUpdate)]]
    BY <1>3 DEF UpdateSessionOk, RulesType
  <2> QED
    BY <1>2, <1>3, <2>1 DEF UpdateSessionOk, PfcpType, RulesType
<1>4. CASE UpdateSessionErr(u, x)
  <2>1. faults' \in Nat /\ installed' \subseteq Entry
    BY <1>4, <1>2 DEF UpdateSessionErr, Fault, PfcpType
  <2> QED
    BY <1>4, <2>1 DEF UpdateSessionErr, PfcpType, RulesType, rules
<1> QED
  BY <1>3, <1>4

-----------------------------------------------------------------------------
(* One lemma per action: it keeps the type invariant.                      *)

LEMMA TypeParts ==
  /\ TypeInv => RulesType /\ PfcpType
  /\ TypeInv' <=> TypeOK' /\ \A q \in Procs : CallOK(call'[q])
  /\ TypeOK' <=> /\ started' \in BOOLEAN /\ ctxDone' \in BOOLEAN /\ crashed' \in BOOLEAN
                 /\ allocated' \in [Upfs -> SUBSET Fteid]
                 /\ RulesType' /\ PfcpType'
                 /\ sessions' \in [Keys -> Session \union {None}]
                 /\ call' \in [Procs -> Call] /\ calls' \in Nat
  BY DEF TypeInv, TypeOK, RulesType, PfcpType, CallOK

\* A call that returns at once.
LEMMA ReturnType ==
  ASSUME TypeInv, NEW p \in Procs, NEW res \in {"none", "ok", "err"},
         NEW f \in Fteid \union GnbFteids \union {None}, Return(p, res, f)
  PROVE  call' \in [Procs -> Call] /\ \A q \in Procs : CallOK(call'[q])
  BY IdleCall, CallUpdate DEF Return

LEMMA RoutesType ==
  ASSUME NEW d, NEW g, NEW path \in Routes(d, g)
  PROVE  path \in Seq(Hops) /\ Len(path) \in Nat /\ (path # <<>> => Len(path) >= 1)
<1>1. path \in Seq(Hops)
  BY PathsAssumption DEF Routes
<1> QED
  BY <1>1

LEMMA StartType ==
  ASSUME TypeInv, NEW p \in Procs, NEW k \in Keys, NEW path \in Seq(Hops), NEW i \in Nat,
         NEW last \in Fteid \union GnbFteids \union {None},
         NEW pc \in {"ulQueue", "dlRead", "fwQueue"},
         pc = "ulQueue" => i = Len(path) /\ i >= 1,
         pc # "ulQueue" => last # None,
         pc = "dlRead" => last \in GnbFteids,
         pc = "fwQueue" => path[i].node \in Upfs,
         Start(p, pc, k, path, i, last)
  PROVE  call' \in [Procs -> Call] /\ \A q \in Procs : CallOK(call'[q])
<1> DEFINE c == [pc |-> pc, key |-> k, path |-> path, i |-> i, far |-> 0,
                 held |-> TRUE, last |-> last, res |-> "none"]
<1>1. c \in Call
  BY DEF Call, Pcs
<1>2. CallOK(c)
  BY DEF CallOK
<1>3. call' = [call EXCEPT ![p] = c]
  BY DEF Start
<1> HIDE DEF c
<1> QED
  BY <1>1, <1>2, <1>3, CallUpdate

LEMMA BeginUplinkType ==
  ASSUME TypeInv, NEW p \in Procs, NEW k \in Keys, NEW g \in Gnbs, BeginUplink(p, k, g)
  PROVE  TypeInv'
<1>1. call' \in [Procs -> Call] /\ \A q \in Procs : CallOK(call'[q])
  <2>1. CASE Return(p, "err", None)
    BY <2>1, ReturnType
  <2>2. CASE \E path \in Routes(k.dnn, g) :
               path # <<>> /\ Start(p, "ulQueue", k, path, Len(path), None)
    BY <2>2, RoutesType, StartType
  <2> QED
    BY <2>1, <2>2 DEF BeginUplink
<1>2. calls' \in Nat
  BY DEF BeginUplink, Enter, TypeInv, TypeOK
<1> QED
  BY <1>1, <1>2 DEF BeginUplink, TypeInv, TypeOK, life, rules, pfcp

LEMMA KeyType ==
  ASSUME TypeInv, NEW p \in Procs, call[p].pc # "idle"
  PROVE  call[p] \in Call /\ call[p].key \in Keys /\ Ip(p) \in Ips /\ call[p].key.dnn \in Dnns
  BY DEF TypeInv, TypeOK, CallOK, Ip, Ips, Dnns

LEMMA FreshFteid ==
  ASSUME NEW h, NEW f \in Fresh(h)
  PROVE  f \in [addr : {h.addr}, teid : Teids] /\ f \notin allocated[h.node]
<1> DEFINE free == {t \in Teids : [addr |-> h.addr, teid |-> t] \notin allocated[h.node]}
<1>1. Draw(free) \subseteq free
  BY DrawAssumption
<1>2. f \in [addr : {h.addr}, teid : Draw(free)]
  BY DEF Fresh
<1>3. f.teid \in free /\ f = [addr |-> h.addr, teid |-> f.teid]
  BY <1>1, <1>2
<1> QED
  BY <1>3

LEMMA FreshType ==
  ASSUME TypeOK, NEW h, Lookup(h), NEW f, NextListenFteidContext(h, f)
  PROVE  f \in Fteid /\ allocated' \in [Upfs -> SUBSET Fteid]
<1>1. h.addr \in Addrs
  BY DEF NextListenFteidContext, ListenRefused, Lookup, Addrs
<1>2. f \in Fteid
  BY <1>1, FreshFteid DEF NextListenFteidContext, Fteid
<1> QED
  BY <1>2 DEF NextListenFteidContext, Lookup, TypeOK

LEMMA UplinkQueueType ==
  ASSUME TypeInv, NEW p \in Procs, UplinkQueue(p)
  PROVE  TypeInv'
<1>1. call[p].pc = "ulQueue" /\ call[p] \in Call /\ call[p].key \in Keys /\ Ip(p) \in Ips
      /\ call[p].key.dnn \in Dnns /\ CallOK(call[p])
  BY KeyType DEF UplinkQueue, At, TypeInv
<1>2. CASE Return(p, "err", None) /\ UNCHANGED <<allocated, rules>>
  BY <1>2, ReturnType DEF UplinkQueue, TypeInv, TypeOK, life, rules, pfcp
<1>3. ASSUME Lookup(Hop(p)),
             NEW f, NextListenFteidContext(Hop(p), f),
             IF AtEnd(p)
             THEN CreateUplinkAnchorWithFteid(Hop(p).node, Ip(p), call[p].key.dnn, f)
             ELSE CreateUplinkIntermediateWithFteid(Hop(p).node, Ip(p), call[p].key.dnn, f, call[p].last),
             call' = [call EXCEPT ![p].pc = "ulPush", ![p].last = f]
      PROVE  TypeInv'
  <2>1. f \in Fteid /\ allocated' \in [Upfs -> SUBSET Fteid]
    BY <1>3, FreshType DEF TypeInv
  <2>2. RulesType'
    <3>1. CASE AtEnd(p)
      BY <1>1, <1>3, <2>1, <3>1, TypeParts, AddRuleType DEF CreateUplinkAnchorWithFteid, Lookup
    <3>2. CASE ~AtEnd(p)
      <4>1. call[p].last \in Fteid
        BY <1>1, <3>2 DEF AtEnd, CallOK
      <4> QED
        BY <1>1, <1>3, <2>1, <3>2, <4>1, TypeParts, AddRuleType
           DEF CreateUplinkIntermediateWithFteid, Lookup
    <3> QED
      BY <3>1, <3>2
  <2>3. call' \in [Procs -> Call] /\ \A q \in Procs : CallOK(call'[q])
    <3> DEFINE c == [call[p] EXCEPT !.pc = "ulPush", !.last = f]
    <3>1. c \in Call
      BY <1>1, <2>1 DEF Call, Pcs
    <3>2. CallOK(c)
      BY <1>1, <1>3, <2>1 DEF CallOK, Call, Hop, Lookup
    <3>3. call' = [call EXCEPT ![p] = c]
      BY <1>3
    <3> HIDE DEF c
    <3> QED
      BY <3>1, <3>2, <3>3, CallUpdate
  <2> QED
    BY <2>1, <2>2, <2>3, TypeParts DEF UplinkQueue, TypeInv, TypeOK, life, pfcp, PfcpType
<1> QED
  BY <1>2, <1>3 DEF UplinkQueue

LEMMA UplinkPushType ==
  ASSUME TypeInv, NEW p \in Procs, UplinkPush(p)
  PROVE  TypeInv'
<1>1. call[p].pc = "ulPush" /\ call[p] \in Call /\ call[p].key \in Keys /\ Ip(p) \in Ips
      /\ CallOK(call[p]) /\ Hop(p).node \in Upfs
  BY KeyType DEF UplinkPush, At, TypeInv, CallOK, Hop
<1>2. RulesType' /\ PfcpType'
  BY <1>1, TypeParts, CreateSessionType, BoundsAssumption DEF UplinkPush
<1>3. call' \in [Procs -> Call] /\ \A q \in Procs : CallOK(call'[q])
  <2>1. CASE Return(p, "err", None)
    BY <2>1, ReturnType
  <2>2. CASE call[p].i = 1 /\ call' = [call EXCEPT ![p].pc = "ulStore"]
    <3> DEFINE c == [call[p] EXCEPT !.pc = "ulStore"]
    <3>1. c \in Call /\ CallOK(c) /\ call' = [call EXCEPT ![p] = c]
      BY <1>1, <2>2 DEF Call, Pcs, CallOK
    <3> HIDE DEF c
    <3> QED
      BY <3>1, CallUpdate
  <2>3. CASE call[p].i # 1 /\ call' = [call EXCEPT ![p].pc = "ulQueue", ![p].i = @ - 1]
    <3> DEFINE c == [call[p] EXCEPT !.pc = "ulQueue", !.i = call[p].i - 1]
    <3>1. call[p].i - 1 \in Nat /\ call[p].i - 1 >= 1
      BY <1>1, <2>3 DEF Call, CallOK
    <3>2. c \in Call /\ CallOK(c) /\ call' = [call EXCEPT ![p] = c]
      BY <1>1, <2>3, <3>1 DEF Call, Pcs, CallOK
    <3> HIDE DEF c
    <3> QED
      BY <3>2, CallUpdate
  <2> QED
    BY <2>1, <2>2, <2>3 DEF UplinkPush
<1> QED
  BY <1>2, <1>3, TypeParts DEF UplinkPush, TypeInv, TypeOK, life

LEMMA UplinkStoreType ==
  ASSUME TypeInv, NEW p \in Procs, UplinkStore(p)
  PROVE  TypeInv'
<1>1. call[p].pc = "ulStore" /\ call[p] \in Call /\ call[p].key \in Keys /\ CallOK(call[p])
      /\ call[p].last \in Fteid
  BY KeyType DEF UplinkStore, SetUplinkFteid, At, TypeInv, CallOK
<1>2. CASE sessions[call[p].key] = None /\ call' = [call EXCEPT ![p].pc = "ulAdd"]
           /\ UNCHANGED sessions
  <2> DEFINE c == [call[p] EXCEPT !.pc = "ulAdd"]
  <2>1. c \in Call /\ CallOK(c) /\ call' = [call EXCEPT ![p] = c]
    BY <1>1, <1>2 DEF Call, Pcs, CallOK
  <2> HIDE DEF c
  <2>2. call' \in [Procs -> Call] /\ \A q \in Procs : CallOK(call'[q])
    BY <2>1, CallUpdate
  <2> QED
    BY <1>2, <2>2 DEF UplinkStore, SetUplinkFteid, TypeInv, TypeOK, life, rules, pfcp
<1>3. CASE /\ sessions[call[p].key] # None
           /\ sessions' = [sessions EXCEPT ![call[p].key].ul = call[p].last]
           /\ Return(p, "ok", call[p].last)
  <2> DEFINE s == [sessions[call[p].key] EXCEPT !.ul = call[p].last]
  <2>1. s \in Session
    BY <1>1, <1>3 DEF TypeInv, TypeOK, Session
  <2>2. sessions' = [sessions EXCEPT ![call[p].key] = s]
    BY <1>3
  <2> HIDE DEF s
  <2>3. sessions' \in [Keys -> Session \union {None}]
    BY <2>1, <2>2, <1>1 DEF TypeInv, TypeOK
  <2>4. call' \in [Procs -> Call] /\ \A q \in Procs : CallOK(call'[q])
    BY <1>1, <1>3, ReturnType
  <2> QED
    BY <2>3, <2>4 DEF UplinkStore, SetUplinkFteid, TypeInv, TypeOK, life, rules, pfcp
<1> QED
  BY <1>2, <1>3 DEF UplinkStore, SetUplinkFteid

LEMMA UplinkAddType ==
  ASSUME TypeInv, NEW p \in Procs, UplinkAdd(p)
  PROVE  TypeInv'
<1>1. call[p].key \in Keys /\ call[p].last \in Fteid
  BY KeyType DEF UplinkAdd, SessionAdded, At, TypeInv, CallOK
<1> DEFINE s == [ul |-> call[p].last, dl |-> None, next |-> None, far |-> 0, indirect |-> FALSE]
           c(q) == IF q = p THEN Idle("ok", call[p].last)
                   ELSE IF call[q].key = call[p].key THEN [call[q] EXCEPT !.held = FALSE]
                   ELSE call[q]
<1>2. s \in Session
  BY <1>1 DEF Session
<1>3. sessions' \in [Keys -> Session \union {None}]
  BY <1>1, <1>2 DEF UplinkAdd, SessionAdded, TypeInv, TypeOK
<1>4. \A q \in Procs : c(q) \in Call /\ CallOK(c(q))
  <2> SUFFICES ASSUME NEW q \in Procs PROVE c(q) \in Call /\ CallOK(c(q))
    OBVIOUS
  <2>1. CASE q = p
    BY <1>1, <2>1, IdleCall
  <2>2. CASE q # p /\ call[q].key = call[p].key
    <3> DEFINE d == [call[q] EXCEPT !.held = FALSE]
    <3>1. call[q] \in Call /\ CallOK(call[q])
      BY DEF TypeInv, TypeOK
    <3>2. d \in Call
      BY <3>1 DEF Call
    <3>3. CallOK(d)
      BY <3>1 DEF Call, CallOK
    <3>4. c(q) = d
      BY <2>2
    <3> HIDE DEF c, d
    <3> QED
      BY <3>2, <3>3, <3>4
  <2>3. CASE q # p /\ call[q].key # call[p].key
    BY <2>3 DEF TypeInv, TypeOK
  <2> QED
    BY <2>1, <2>2, <2>3
<1>5. call' = [q \in Procs |-> c(q)]
  BY DEF UplinkAdd, SessionAdded
<1> HIDE DEF c
<1>6. call' \in [Procs -> Call] /\ \A q \in Procs : CallOK(call'[q])
  BY <1>4, <1>5
<1> QED
  BY <1>3, <1>6 DEF UplinkAdd, SessionAdded, TypeInv, TypeOK, life, rules, pfcp

LEMMA BeginDownlinkType ==
  ASSUME TypeInv, NEW p \in Procs, NEW k \in Keys, NEW g \in Gnbs, NEW f \in GnbFteids,
         BeginDownlink(p, k, g, f)
  PROVE  TypeInv'
<1>1. f # None
  BY FteidAssumption
<1>2. call' \in [Procs -> Call] /\ \A q \in Procs : CallOK(call'[q])
  <2>1. CASE \E h \in {f, None}, res \in {"ok", "err"} : Return(p, res, h)
    BY <2>1, ReturnType
  <2>2. CASE \E path \in Routes(k.dnn, g) : path # <<>> /\ Start(p, "dlRead", k, path, 1, f)
    BY <1>1, <2>2, RoutesType, StartType
  <2> QED
    BY <2>1, <2>2 DEF BeginDownlink
<1>3. sessions' \in [Keys -> Session \union {None}]
  <2>1. CASE UNCHANGED sessions
    BY <2>1 DEF TypeInv, TypeOK
  <2>2. CASE sessions[k] # None /\ sessions' = [sessions EXCEPT ![k].dl = f]
    <3> DEFINE s == [sessions[k] EXCEPT !.dl = f]
    <3>1. s \in Session /\ sessions' = [sessions EXCEPT ![k] = s]
      BY <2>2 DEF TypeInv, TypeOK, Session
    <3> HIDE DEF s
    <3> QED
      BY <3>1 DEF TypeInv, TypeOK
  <2> QED
    BY <2>1, <2>2 DEF BeginDownlink
<1>4. calls' \in Nat
  BY DEF BeginDownlink, Enter, TypeInv, TypeOK
<1> QED
  BY <1>2, <1>3, <1>4 DEF BeginDownlink, TypeInv, TypeOK, life, rules, pfcp

LEMMA DownlinkReadType ==
  ASSUME TypeInv, HeldInv, NEW p \in Procs, DownlinkRead(p)
  PROVE  TypeInv'
<1> DEFINE last == IF call[p].held THEN sessions[call[p].key].dl ELSE call[p].last
           c    == [call[p] EXCEPT !.pc = "dlQueue", !.last = last]
<1>1. call[p].pc = "dlRead" /\ call[p] \in Call /\ CallOK(call[p]) /\ call[p].key \in Keys
  BY KeyType DEF DownlinkRead, At, TypeInv
<1>2. last \in GnbFteids
  <2>1. sessions[call[p].key] \in Session
    BY <1>1 DEF HeldInv, StoredInv, DlPcs, TypeInv, TypeOK
  <2> QED
    BY <1>1, <2>1 DEF HeldInv, ReadInv, CallOK, Session
<1>3. call' = [call EXCEPT ![p] = c]
  BY DEF DownlinkRead
<1> HIDE DEF last
<1>4. c \in Call /\ CallOK(c)
  BY <1>1, <1>2 DEF Call, Pcs, CallOK
<1> HIDE DEF c
<1>5. call' \in [Procs -> Call] /\ \A q \in Procs : CallOK(call'[q])
  BY <1>3, <1>4, CallUpdate
<1> QED
  BY <1>5 DEF DownlinkRead, TypeInv, TypeOK, life, rules, pfcp

LEMMA DownlinkQueueType ==
  ASSUME TypeInv, NEW p \in Procs, DownlinkQueue(p)
  PROVE  TypeInv'
<1> DEFINE h == Hop(p)
           k == call[p].key
           Goes(last) == call' = [call EXCEPT ![p].pc = "dlFar", ![p].last = last,
                                              ![p].far = QueuedFar(h.node, k.ip)]
<1>1. call[p].pc = "dlQueue" /\ call[p] \in Call /\ k \in Keys /\ k.ip \in Ips
      /\ k.dnn \in Dnns /\ CallOK(call[p]) /\ call[p].last \in Fteid \union GnbFteids
  BY KeyType DEF DownlinkQueue, At, TypeInv, CallOK, Ip
<1>2. ASSUME Lookup(h), NEW last \in Fteid \union GnbFteids, Goes(last)
      PROVE  call' \in [Procs -> Call] /\ \A q \in Procs : CallOK(call'[q])
  <2> DEFINE n == QueuedFar(h.node, k.ip)
             c == [call[p] EXCEPT !.pc = "dlFar", !.last = last, !.far = n]
  <2>1. n \in Nat /\ n # 0
    BY <1>1, <1>2 DEF TypeInv, TypeOK, NextId, QueuedFar, Lookup
  <2>2. call' = [call EXCEPT ![p] = c]
    BY <1>2
  <2> HIDE DEF n
  <2>3. c \in Call
    BY <1>1, <2>1 DEF Call, Pcs
  <2>4. CallOK(c)
    BY <1>1, <1>2, <2>1 DEF CallOK, Call, Lookup, Hop
  <2> HIDE DEF c
  <2> QED
    BY <2>2, <2>3, <2>4, CallUpdate
<1>3. CASE Return(p, "err", None) /\ UNCHANGED <<allocated, rules>>
  BY <1>3, ReturnType DEF DownlinkQueue, TypeInv, TypeOK, life, rules, pfcp
<1>4. CASE /\ Lookup(h)
           /\ UpdateDownlinkAnchor(h.node, k.ip, k.dnn, call[p].last)
           /\ Goes(call[p].last)
           /\ UNCHANGED allocated
  <2>1. RulesType'
    BY <1>1, <1>4, TypeParts, AddRuleType DEF UpdateDownlinkAnchor, Lookup
  <2>2. call' \in [Procs -> Call] /\ \A q \in Procs : CallOK(call'[q])
    BY <1>1, <1>2, <1>4
  <2> QED
    BY <1>4, <2>1, <2>2, TypeParts DEF DownlinkQueue, TypeInv, TypeOK, life, pfcp, PfcpType
<1>5. ASSUME Lookup(h), NEW f, NextListenFteidContext(h, f),
             UpdateDownlinkIntermediateWithFteid(h.node, k.ip, k.dnn, f, call[p].last), Goes(f)
      PROVE  TypeInv'
  <2>1. f \in Fteid /\ allocated' \in [Upfs -> SUBSET Fteid]
    BY <1>5, FreshType DEF TypeInv
  <2>2. RulesType'
    BY <1>1, <1>5, <2>1, TypeParts, AddRuleType DEF UpdateDownlinkIntermediateWithFteid, Lookup
  <2>3. call' \in [Procs -> Call] /\ \A q \in Procs : CallOK(call'[q])
    BY <1>2, <1>5, <2>1
  <2> QED
    BY <2>1, <2>2, <2>3, TypeParts DEF DownlinkQueue, TypeInv, TypeOK, life, pfcp, PfcpType
<1> HIDE DEF Goes, h, k
<1>6. \/ Return(p, "err", None) /\ UNCHANGED <<allocated, rules>>
      \/ /\ Lookup(h)
         /\ UpdateDownlinkAnchor(h.node, k.ip, k.dnn, call[p].last)
         /\ Goes(call[p].last)
         /\ UNCHANGED allocated
      \/ \E f : /\ Lookup(h)
                /\ NextListenFteidContext(h, f)
                /\ UpdateDownlinkIntermediateWithFteid(h.node, k.ip, k.dnn, f, call[p].last)
                /\ Goes(f)
  BY Zenon DEF DownlinkQueue, Goes, h, k
<1> QED
  BY <1>3, <1>4, <1>5, <1>6

LEMMA DownlinkFarType ==
  ASSUME TypeInv, HeldInv, NEW p \in Procs, DownlinkFar(p)
  PROVE  TypeInv'
<1> DEFINE c == [call[p] EXCEPT !.pc = "dlPush", !.far = 0]
<1>1. call[p].pc = "dlFar" /\ call[p] \in Call /\ CallOK(call[p]) /\ call[p].key \in Keys
  BY KeyType DEF DownlinkFar, At, TypeInv
<1>2. c \in Call /\ CallOK(c) /\ call' = [call EXCEPT ![p] = c]
  BY <1>1 DEF Call, Pcs, CallOK, DownlinkFar
<1> HIDE DEF c
<1>3. call' \in [Procs -> Call] /\ \A q \in Procs : CallOK(call'[q])
  BY <1>2, CallUpdate
<1>4. sessions' \in [Keys -> Session \union {None}]
  <2>1. CASE ~call[p].held
    BY <2>1 DEF DownlinkFar, TypeInv, TypeOK
  <2>2. CASE call[p].held
    <3> DEFINE s == [sessions[call[p].key] EXCEPT !.far = call[p].far]
    <3>1. sessions[call[p].key] \in Session /\ call[p].far \in Nat
      BY <1>1 DEF HeldInv, StoredInv, DlPcs, TypeInv, TypeOK, Call
    <3>2. s \in Session /\ sessions' = [sessions EXCEPT ![call[p].key] = s]
      BY <2>2, <3>1 DEF DownlinkFar, Session
    <3> HIDE DEF s
    <3> QED
      BY <1>1, <3>2 DEF TypeInv, TypeOK
  <2> QED
    BY <2>1, <2>2
<1> QED
  BY <1>3, <1>4 DEF DownlinkFar, TypeInv, TypeOK, life, rules, pfcp

LEMMA DownlinkPushType ==
  ASSUME TypeInv, NEW p \in Procs, DownlinkPush(p)
  PROVE  TypeInv'
<1>1. call[p].pc = "dlPush" /\ call[p] \in Call /\ call[p].key \in Keys /\ Ip(p) \in Ips
      /\ CallOK(call[p]) /\ Hop(p).node \in Upfs /\ call[p].last \in Fteid \union GnbFteids
  BY KeyType DEF DownlinkPush, At, TypeInv, CallOK, Hop
<1>2. RulesType' /\ PfcpType'
  BY <1>1, TypeParts, UpdateSessionType, BoundsAssumption DEF DownlinkPush
<1>3. call' \in [Procs -> Call] /\ \A q \in Procs : CallOK(call'[q])
  <2>1. CASE \E f \in {call[p].last, None}, res \in {"ok", "err"} : Return(p, res, f)
    BY <1>1, <2>1, ReturnType
  <2>2. CASE call' = [call EXCEPT ![p].pc = "dlQueue", ![p].i = @ + 1]
    <3> DEFINE c == [call[p] EXCEPT !.pc = "dlQueue", !.i = call[p].i + 1]
    <3>1. call[p].i + 1 \in Nat
      BY <1>1 DEF Call
    <3>2. c \in Call
      BY <1>1, <3>1 DEF Call, Pcs
    <3>3. CallOK(c) /\ call' = [call EXCEPT ![p] = c]
      BY <1>1, <2>2 DEF Call, CallOK
    <3> HIDE DEF c
    <3> QED
      BY <3>2, <3>3, CallUpdate
  <2> QED
    BY <2>1, <2>2 DEF DownlinkPush
<1> QED
  BY <1>2, <1>3, TypeParts DEF DownlinkPush, TypeInv, TypeOK, life

LEMMA BeginForwardType ==
  ASSUME TypeInv, NEW p \in Procs, NEW k \in Keys, NEW g \in Gnbs,
         NEW h \in FirstUpfs(k.dnn, g), NEW f \in Targets(k), BeginForward(p, k, h, f)
  PROVE  TypeInv'
<1>1. h \in Hops
  BY RoutesType DEF FirstUpfs
<1>2. f \in Fteid \union GnbFteids
  BY DEF Targets, TypeInv, TypeOK, Entry
<1>3. f # None
  BY <1>2, FteidAssumption
<1>4. <<h>> \in Seq(Hops) /\ <<h>>[1] = h
  BY <1>1
<1>5. call' \in [Procs -> Call] /\ \A q \in Procs : CallOK(call'[q])
  <2>1. CASE Return(p, "err", None)
    BY <2>1, ReturnType
  <2>2. CASE Lookup(h) /\ Start(p, "fwQueue", k, <<h>>, 1, f)
    BY <1>2, <1>3, <1>4, <2>2, StartType DEF Lookup
  <2> QED
    BY <2>1, <2>2 DEF BeginForward
<1>6. calls' \in Nat
  BY DEF BeginForward, Enter, TypeInv, TypeOK
<1> QED
  BY <1>5, <1>6 DEF BeginForward, TypeInv, TypeOK, life, rules, pfcp

LEMMA FwQueueType ==
  ASSUME TypeInv, NEW p \in Procs, FwQueue(p)
  PROVE  TypeInv'
<1>1. call[p].pc = "fwQueue" /\ call[p] \in Call /\ call[p].key \in Keys /\ Ip(p) \in Ips
      /\ call[p].key.dnn \in Dnns /\ CallOK(call[p]) /\ Lookup(Hop(p))
      /\ call[p].last \in Fteid \union GnbFteids
  BY KeyType DEF FwQueue, At, TypeInv, CallOK, Hop, Lookup
<1>2. CASE Return(p, "err", None) /\ UNCHANGED <<allocated, rules>>
  BY <1>2, ReturnType DEF FwQueue, TypeInv, TypeOK, life, rules, pfcp
<1>3. ASSUME NEW f, NextListenFteidContext(Hop(p), f),
             UpdateDownlinkIntermediateWithFteid(Hop(p).node, Ip(p), call[p].key.dnn, f, call[p].last),
             call' = [call EXCEPT ![p].pc = "fwPush", ![p].last = f]
      PROVE  TypeInv'
  <2>1. f \in Fteid /\ allocated' \in [Upfs -> SUBSET Fteid]
    BY <1>1, <1>3, FreshType DEF TypeInv
  <2>2. RulesType'
    BY <1>1, <1>3, <2>1, TypeParts, AddRuleType DEF UpdateDownlinkIntermediateWithFteid, Lookup
  <2>3. call' \in [Procs -> Call] /\ \A q \in Procs : CallOK(call'[q])
    <3> DEFINE c == [call[p] EXCEPT !.pc = "fwPush", !.last = f]
    <3>1. c \in Call
      BY <1>1, <2>1 DEF Call, Pcs
    <3>2. CallOK(c) /\ call' = [call EXCEPT ![p] = c]
      BY <1>1, <1>3, <2>1 DEF CallOK, Call
    <3> HIDE DEF c
    <3> QED
      BY <3>1, <3>2, CallUpdate
  <2> QED
    BY <2>1, <2>2, <2>3, TypeParts DEF FwQueue, TypeInv, TypeOK, life, pfcp, PfcpType
<1> QED
  BY <1>2, <1>3 DEF FwQueue

\* A push that ends its call.
LEMMA LastPushType ==
  ASSUME TypeInv, NEW p \in Procs, call[p].pc \in {"fwPush", "swPush"},
         \/ UpdateSessionOk(Hop(p).node, Ip(p)) /\ Return(p, "ok", call[p].last)
         \/ UpdateSessionErr(Hop(p).node, Ip(p)) /\ Return(p, "err", None),
         UNCHANGED <<life, crashed, allocated, sessions, calls>>
  PROVE  TypeInv'
<1>1. Ip(p) \in Ips /\ Hop(p).node \in Upfs /\ call[p].last \in Fteid \union GnbFteids
  BY KeyType DEF TypeInv, CallOK, Hop
<1>2. RulesType' /\ PfcpType'
  BY <1>1, TypeParts, UpdateSessionType, BoundsAssumption
<1>3. call' \in [Procs -> Call] /\ \A q \in Procs : CallOK(call'[q])
  BY <1>1, ReturnType
<1> QED
  BY <1>2, <1>3, TypeParts DEF TypeInv, TypeOK, life

LEMMA BeginSwitchType ==
  ASSUME TypeInv, NEW p \in Procs, NEW k \in Keys, NEW g \in Gnbs, BeginSwitch(p, k, g)
  PROVE  TypeInv'
<1>1. call' \in [Procs -> Call] /\ \A q \in Procs : CallOK(call'[q])
  <2>1. CASE Return(p, "err", None)
    BY <2>1, ReturnType
  <2>2. ASSUME sessions[k] # None, NEW path \in Routes(k.dnn, g), Lookup(path[1]),
               call' = [call EXCEPT ![p] =
                 [pc |-> "swQueue", key |-> k, path |-> path, i |-> 1, far |-> sessions[k].far,
                  held |-> TRUE, last |-> sessions[k].next, res |-> "none"]]
        PROVE  call' \in [Procs -> Call] /\ \A q \in Procs : CallOK(call'[q])
    <3> DEFINE c == [pc |-> "swQueue", key |-> k, path |-> path, i |-> 1, far |-> sessions[k].far,
                     held |-> TRUE, last |-> sessions[k].next, res |-> "none"]
    <3>1. sessions[k].far \in Nat /\ sessions[k].next \in GnbFteids \union {None}
      BY <2>2 DEF TypeInv, TypeOK, Session
    <3>2. c \in Call
      BY <3>1, RoutesType DEF Call, Pcs
    <3>3. CallOK(c)
      BY <2>2, <3>1 DEF CallOK, Lookup
    <3>4. call' = [call EXCEPT ![p] = c]
      BY <2>2
    <3> HIDE DEF c
    <3> QED
      BY <3>2, <3>3, <3>4, CallUpdate
  <2> QED
    BY <2>1, <2>2 DEF BeginSwitch
<1>2. calls' \in Nat
  BY DEF BeginSwitch, Enter, TypeInv, TypeOK
<1> QED
  BY <1>1, <1>2 DEF BeginSwitch, TypeInv, TypeOK, life, rules, pfcp

LEMMA SwitchQueueType ==
  ASSUME TypeInv, NEW p \in Procs, SwitchQueue(p)
  PROVE  TypeInv'
<1>1. call[p].pc = "swQueue" /\ call[p] \in Call /\ call[p].key \in Keys /\ Ip(p) \in Ips
      /\ CallOK(call[p]) /\ Hop(p).node \in Upfs /\ call[p].far \in Nat
      /\ call[p].last \in GnbFteids \union {None}
  BY KeyType DEF SwitchQueue, At, TypeInv, CallOK, Hop, Call
<1>2. CASE call[p].last = None
  BY <1>2 DEF SwitchQueue, TypeInv, TypeOK, life, rules, pfcp
<1>3. CASE call[p].last # None
  <2>1. RulesType'
    BY <1>1, <1>3, TypeParts, DirectForwardType DEF SwitchQueue
  <2>2. call' \in [Procs -> Call] /\ \A q \in Procs : CallOK(call'[q])
    <3> DEFINE c == [call[p] EXCEPT !.pc = "swPush"]
    <3>1. c \in Call
      BY <1>1 DEF Call, Pcs
    <3>2. CallOK(c) /\ call' = [call EXCEPT ![p] = c]
      BY <1>1, <1>3 DEF SwitchQueue, CallOK, Call
    <3> HIDE DEF c
    <3> QED
      BY <3>1, <3>2, CallUpdate
  <2> QED
    BY <1>3, <2>1, <2>2, TypeParts DEF SwitchQueue, TypeInv, TypeOK, life, pfcp, PfcpType
<1> QED
  BY <1>2, <1>3

\* The two calls that only set a field of the session.
LEMMA SetFieldType ==
  ASSUME TypeInv, NEW p \in Procs, NEW k \in Keys,
         \/ \E f \in GnbFteids \union {None} : StoreNextDownlinkFteid(p, k, f)
         \/ \E b \in BOOLEAN : SetIndirectForwardingRequired(p, k, b)
  PROVE  TypeInv'
<1>1. call' \in [Procs -> Call] /\ \A q \in Procs : CallOK(call'[q])
  <2>1. \E res \in {"ok", "err"} : Return(p, res, None)
    BY DEF StoreNextDownlinkFteid, SetIndirectForwardingRequired
  <2> QED
    BY <2>1, ReturnType
<1>2. sessions' \in [Keys -> Session \union {None}]
  <2>1. CASE UNCHANGED sessions
    BY <2>1 DEF TypeInv, TypeOK
  <2>2. CASE sessions[k] # None /\ \E f \in GnbFteids \union {None} : sessions' = [sessions EXCEPT ![k].next = f]
    BY <2>2 DEF TypeInv, TypeOK, Session
  <2>3. CASE sessions[k] # None /\ \E b \in BOOLEAN : sessions' = [sessions EXCEPT ![k].indirect = b]
    BY <2>3 DEF TypeInv, TypeOK, Session
  <2> QED
    BY <2>1, <2>2, <2>3 DEF StoreNextDownlinkFteid, SetIndirectForwardingRequired
<1>3. calls' \in Nat
  BY DEF StoreNextDownlinkFteid, SetIndirectForwardingRequired, Enter, TypeInv, TypeOK
<1> QED
  BY <1>1, <1>2, <1>3
     DEF StoreNextDownlinkFteid, SetIndirectForwardingRequired, TypeInv, TypeOK, life, rules, pfcp

LEMMA TypeStep ==
  ASSUME TypeInv, HeldInv, [Next]_vars
  PROVE  TypeInv'
<1>1. CASE UNCHANGED vars
  BY <1>1 DEF vars, TypeInv, TypeOK
<1>2. CASE Cancel \/ ServerStop
  BY <1>2 DEF Cancel, ServerStop, TypeInv, TypeOK, life, rules, pfcp
<1>3. ASSUME NEW p \in Procs, Begin(p) PROVE TypeInv'
  BY <1>3, BeginUplinkType, BeginDownlinkType, BeginForwardType, BeginSwitchType, SetFieldType
     DEF Begin
<1>4. ASSUME NEW p \in Procs, Step(p) PROVE TypeInv'
  <2>1. CASE FwPush(p)
    BY <2>1, LastPushType DEF FwPush, At
  <2>2. CASE SwitchPush(p)
    BY <2>2, LastPushType DEF SwitchPush, At
  <2> QED
    BY <1>4, <2>1, <2>2, UplinkQueueType, UplinkPushType, UplinkStoreType, UplinkAddType,
       DownlinkReadType, DownlinkQueueType, DownlinkFarType, DownlinkPushType, FwQueueType, SwitchQueueType DEF Step
<1>5. ASSUME NEW p \in Procs, End(p) PROVE TypeInv'
  BY <1>5, ReturnType, TypeParts DEF End, TypeInv, TypeOK, life, rules, pfcp, RulesType, PfcpType
<1> QED
  BY <1>1, <1>2, <1>3, <1>4, <1>5 DEF Next

\* A step loses nothing that was stored in session k, unless it adds the session anew.
Keeps(k) ==
  /\ sessions'[k] # None
  /\ sessions[k].dl # None => sessions'[k].dl # None
  /\ sessions[k].far # 0 => sessions'[k].far # 0

\* A step that writes one stored session.
Writes(j, s) == sessions' = [sessions EXCEPT ![j] = s]

LEMMA SessionEdits ==
  ASSUME TypeInv, [Next]_vars, NEW k \in Keys, sessions[k] # None
  PROVE  Keeps(k) \/ \E p \in Procs : UplinkAdd(p) /\ call[p].key = k
<1>1. \A j \in Keys : sessions[j] # None => sessions[j] \in Session
  BY DEF TypeInv, TypeOK
<1>2. ASSUME UNCHANGED sessions PROVE Keeps(k)
  BY <1>2 DEF Keeps
<1>3. ASSUME NEW j \in Keys, sessions[j] # None, NEW s \in Session,
             Writes(j, s),
             sessions[j].dl # None => s.dl # None, sessions[j].far # 0 => s.far # 0
      PROVE  Keeps(k)
  BY <1>3, NoneAssumption DEF Writes, Keeps, TypeInv, TypeOK
<1>4. ASSUME NEW p \in Procs, UplinkStore(p) PROVE Keeps(k)
  <2> DEFINE j == call[p].key
             s == [sessions[j] EXCEPT !.ul = call[p].last]
  <2>1. j \in Keys /\ call[p].last \in Fteid
    BY <1>4, KeyType DEF UplinkStore, At, TypeInv, CallOK
  <2>2. UNCHANGED sessions \/ (sessions[j] # None /\ Writes(j, s))
    BY <1>4 DEF Writes, UplinkStore, SetUplinkFteid
  <2>3. sessions[j] # None => s \in Session /\ s.dl = sessions[j].dl /\ s.far = sessions[j].far
    BY <1>1, <2>1 DEF Session
  <2> HIDE DEF s, j
  <2> QED
    BY <1>2, <1>3, <2>1, <2>2, <2>3
<1>5. ASSUME NEW p \in Procs, UplinkAdd(p), call[p].key # k PROVE Keeps(k)
  BY <1>5 DEF UplinkAdd, SessionAdded, Keeps, TypeInv, TypeOK
<1>6. ASSUME NEW p \in Procs, DownlinkFar(p) PROVE Keeps(k)
  <2> DEFINE j == call[p].key
             s == [sessions[j] EXCEPT !.far = call[p].far]
  <2>1. j \in Keys /\ call[p].far \in Nat /\ call[p].far # 0
    BY <1>6, KeyType DEF DownlinkFar, At, TypeInv, TypeOK, CallOK, Call
  <2>2. UNCHANGED sessions \/ Writes(j, s)
    BY <1>6 DEF Writes, DownlinkFar
  <2>3. sessions[j] # None => s \in Session /\ s.dl = sessions[j].dl /\ s.far # 0
    BY <1>1, <2>1 DEF Session
  <2>4. Writes(j, s) /\ sessions[j] = None => Keeps(k)
    BY <2>1 DEF Writes, Keeps, TypeInv, TypeOK
  <2> HIDE DEF s, j
  <2> QED
    BY <1>2, <1>3, <2>1, <2>2, <2>3, <2>4
<1>7. ASSUME NEW p \in Procs, Begin(p) PROVE Keeps(k)
  <2>1. ASSUME NEW j \in Keys, NEW g \in Gnbs, NEW f \in GnbFteids, BeginDownlink(p, j, g, f)
        PROVE  Keeps(k)
    <3> DEFINE s == [sessions[j] EXCEPT !.dl = f]
    <3>1. UNCHANGED sessions \/ (sessions[j] # None /\ Writes(j, s))
      BY <2>1 DEF Writes, BeginDownlink
    <3>2. sessions[j] # None => s \in Session /\ s.dl # None /\ s.far = sessions[j].far
      BY <1>1, FteidAssumption DEF Session
    <3> HIDE DEF s
    <3> QED
      BY <1>2, <1>3, <3>1, <3>2
  <2>2. ASSUME NEW j \in Keys, NEW f \in GnbFteids \union {None}, StoreNextDownlinkFteid(p, j, f)
        PROVE  Keeps(k)
    <3> DEFINE s == [sessions[j] EXCEPT !.next = f]
    <3>1. UNCHANGED sessions \/ (sessions[j] # None /\ Writes(j, s))
      BY <2>2 DEF Writes, StoreNextDownlinkFteid
    <3>2. sessions[j] # None => s \in Session /\ s.dl = sessions[j].dl /\ s.far = sessions[j].far
      BY <1>1 DEF Session
    <3> HIDE DEF s
    <3> QED
      BY <1>2, <1>3, <3>1, <3>2
  <2>3. ASSUME NEW j \in Keys, NEW b \in BOOLEAN, SetIndirectForwardingRequired(p, j, b)
        PROVE  Keeps(k)
    <3> DEFINE s == [sessions[j] EXCEPT !.indirect = b]
    <3>1. UNCHANGED sessions \/ (sessions[j] # None /\ Writes(j, s))
      BY <2>3 DEF Writes, SetIndirectForwardingRequired
    <3>2. sessions[j] # None => s \in Session /\ s.dl = sessions[j].dl /\ s.far = sessions[j].far
      BY <1>1 DEF Session
    <3> HIDE DEF s
    <3> QED
      BY <1>2, <1>3, <3>1, <3>2
  <2> QED
    BY <1>2, <1>7, <2>1, <2>2, <2>3 DEF Begin, BeginUplink, BeginForward, BeginSwitch
<1> QED
  BY <1>2, <1>4, <1>5, <1>6, <1>7
     DEF Next, Step, End, Cancel, ServerStop, vars, UplinkQueue, UplinkPush, DownlinkRead,
         DownlinkQueue, DownlinkPush, FwQueue, FwPush, SwitchQueue, SwitchPush

\* A stored session stays stored.
LEMMA SessionsStay ==
  ASSUME TypeInv, HeldInv, [Next]_vars, NEW k \in Keys, sessions[k] # None
  PROVE  sessions'[k] # None
<1>1. ASSUME NEW p \in Procs, UplinkAdd(p) PROVE sessions'[k] # None
  <2>1. call[p].last \in Fteid
    BY <1>1, KeyType DEF UplinkAdd, At, TypeInv, CallOK
  <2>2. [ul |-> call[p].last, dl |-> None, next |-> None, far |-> 0, indirect |-> FALSE] \in Session
    BY <2>1 DEF Session
  <2> QED
    BY <1>1, <2>2, NoneAssumption DEF UplinkAdd, SessionAdded, TypeInv, TypeOK
<1> QED
  BY <1>1, SessionEdits DEF Keeps

\* A call that is setting up a downlink path was doing so before, for the same
\* session, or has just stored the F-TEID it is to read back.
Resumed(q) ==
  /\ call[q].pc \in DlPcs /\ call'[q].key = call[q].key
  /\ call'[q].pc = "dlRead" => call[q].pc = "dlRead" /\ (call'[q].held => call[q].held)
Entered(q) ==
  call'[q].key \in Keys /\ sessions'[call'[q].key] # None /\ sessions'[call'[q].key].dl # None

LEMMA DownlinkCalls ==
  ASSUME TypeInv, [Next]_vars, NEW q \in Procs, call'[q].pc \in DlPcs
  PROVE  Resumed(q) \/ Entered(q)
<1>1. ASSUME call'[q] = call[q] PROVE Resumed(q)
  BY <1>1 DEF Resumed, TypeInv, TypeOK, Call
<1>2. ASSUME NEW p \in Procs, NEW c, call' = [call EXCEPT ![p] = c], c.pc \notin DlPcs
      PROVE  Resumed(q)
  BY <1>1, <1>2 DEF Resumed, TypeInv, TypeOK
<1>3. ASSUME NEW p \in Procs, NEW res, NEW f, Return(p, res, f) PROVE Resumed(q)
  <2>1. Idle(res, f).pc \notin DlPcs
    BY DEF Idle, DlPcs
  <2> QED
    BY <1>2, <1>3, <2>1 DEF Return
<1>4. ASSUME NEW p \in Procs, Begin(p) PROVE Resumed(q) \/ Entered(q)
  <2>1. ASSUME NEW k \in Keys, NEW g \in Gnbs, NEW f \in GnbFteids, BeginDownlink(p, k, g, f)
        PROVE  Resumed(q) \/ Entered(q)
    <3>1. \/ Return(p, "err", None) \/ Return(p, "ok", f)
          \/ /\ sessions[k] # None /\ sessions' = [sessions EXCEPT ![k].dl = f]
             /\ \E path : Start(p, "dlRead", k, path, 1, f)
      BY <2>1 DEF BeginDownlink
    <3>2. ASSUME NEW path, Start(p, "dlRead", k, path, 1, f), sessions[k] # None,
                 sessions' = [sessions EXCEPT ![k].dl = f]
          PROVE  Resumed(q) \/ Entered(q)
      <4>1. CASE q # p
        BY <1>1, <3>2, <4>1 DEF Start, TypeInv, TypeOK
      <4>2. CASE q = p
        <5>1. call'[q].key = k
          BY <3>2, <4>2 DEF Start, TypeInv, TypeOK
        <5>2. sessions'[k] \in Session /\ sessions'[k].dl # None
          BY <3>2, FteidAssumption DEF Session, TypeInv, TypeOK
        <5> QED
          BY <5>1, <5>2, NoneAssumption DEF Entered
      <4> QED
        BY <4>1, <4>2
    <3> QED
      BY <1>3, <3>1, <3>2
  <2>2. ASSUME NEW k, NEW path, NEW i, NEW last, NEW pc \in {"ulQueue", "fwQueue"},
               Start(p, pc, k, path, i, last)
        PROVE  Resumed(q)
    <3> DEFINE c == [pc |-> pc, key |-> k, path |-> path, i |-> i, far |-> 0, held |-> TRUE,
                     last |-> last, res |-> "none"]
    <3>1. c.pc \notin DlPcs /\ call' = [call EXCEPT ![p] = c]
      BY <2>2 DEF Start, DlPcs
    <3> HIDE DEF c
    <3> QED
      BY <1>2, <3>1
  <2>3. ASSUME NEW k \in Keys, NEW g \in Gnbs, BeginSwitch(p, k, g) PROVE Resumed(q)
    <3>1. ASSUME NEW path,
                 call' = [call EXCEPT ![p] =
                   [pc |-> "swQueue", key |-> k, path |-> path, i |-> 1, far |-> sessions[k].far,
                    held |-> TRUE, last |-> sessions[k].next, res |-> "none"]]
          PROVE  Resumed(q)
      <4> DEFINE c == [pc |-> "swQueue", key |-> k, path |-> path, i |-> 1, far |-> sessions[k].far,
                       held |-> TRUE, last |-> sessions[k].next, res |-> "none"]
      <4>1. c.pc \notin DlPcs /\ call' = [call EXCEPT ![p] = c]
        BY <3>1 DEF DlPcs
      <4> HIDE DEF c
      <4> QED
        BY <1>2, <4>1
    <3> QED
      BY <1>3, <2>3, <3>1 DEF BeginSwitch
  <2> QED
    BY <1>3, <1>4, <2>1, <2>2, <2>3
       DEF Begin, BeginUplink, BeginForward, StoreNextDownlinkFteid, SetIndirectForwardingRequired
<1>5. ASSUME NEW p \in Procs, Step(p) PROVE Resumed(q)
  <2>1. CASE UplinkAdd(p)
    <3>1. CASE q = p
      BY <2>1, <3>1 DEF UplinkAdd, Idle, DlPcs
    <3>2. CASE q # p
      BY <2>1, <3>2 DEF UplinkAdd, Resumed, TypeInv, TypeOK, Call
    <3> QED
      BY <3>1, <3>2
  <2>2. CASE ~UplinkAdd(p) /\ q # p
    BY <1>1, <1>5, <2>2
       DEF Step, UplinkQueue, UplinkPush, UplinkStore, SetUplinkFteid, DownlinkRead, DownlinkQueue,
           DownlinkFar, DownlinkPush, FwQueue, FwPush, SwitchQueue, SwitchPush, Return, TypeInv, TypeOK
  <2>3. CASE q = p
    <3>1. call[p] \in Call
      BY DEF TypeInv, TypeOK
    <3>2. CASE UplinkQueue(p) \/ UplinkPush(p) \/ UplinkStore(p) \/ FwQueue(p)
      <4>1. call'[p].pc \in {"idle", "ulQueue", "ulPush", "ulStore", "ulAdd", "fwPush"}
        BY <3>1, <3>2 DEF UplinkQueue, UplinkPush, UplinkStore, SetUplinkFteid, FwQueue, Return, Idle,
                          Call, TypeInv, TypeOK
      <4> QED
        BY <2>3, <4>1 DEF DlPcs
    <3>3. CASE FwPush(p) \/ SwitchPush(p)
      BY <1>3, <3>3 DEF FwPush, SwitchPush
    <3>4. CASE SwitchQueue(p)
      BY <1>1, <2>3, <3>1, <3>4 DEF SwitchQueue, Call, TypeInv, TypeOK, DlPcs
    <3>5. CASE DownlinkRead(p) \/ DownlinkFar(p)
      BY <2>3, <3>1, <3>5 DEF DownlinkRead, DownlinkFar, At, Resumed, Call, TypeInv, TypeOK, DlPcs
    <3>6. CASE DownlinkQueue(p) \/ DownlinkPush(p)
      <4>1. call[p].pc \in {"dlQueue", "dlPush"}
        BY <3>6 DEF DownlinkQueue, DownlinkPush, At
      <4>2. ASSUME NEW res, NEW f, Return(p, res, f) PROVE call'[p].pc = "idle"
        BY <4>2 DEF Return, Idle, TypeInv, TypeOK
      <4>4. ASSUME DownlinkQueue(p), call'[p].pc # "idle"
            PROVE  call'[p].key = call[p].key /\ call'[p].pc # "dlRead"
        <5>1. \E last : call' = [call EXCEPT ![p].pc = "dlFar", ![p].last = last,
                                  ![p].far = QueuedFar(Hop(p).node, call[p].key.ip)]
          BY <4>2, <4>4 DEF DownlinkQueue
        <5> QED
          BY <3>1, <5>1 DEF Call, TypeInv, TypeOK
      <4>3. \/ call'[p].pc = "idle"
            \/ call'[p].key = call[p].key /\ call'[p].pc # "dlRead"
        BY <3>1, <3>6, <4>2, <4>4 DEF DownlinkPush, Call, TypeInv, TypeOK
      <4> QED
        BY <2>3, <4>1, <4>3 DEF Resumed, DlPcs
    <3> QED
      BY <1>5, <2>1, <3>2, <3>3, <3>4, <3>5, <3>6 DEF Step
  <2> QED
    BY <2>1, <2>2, <2>3
<1>6. ASSUME NEW p \in Procs, End(p) PROVE Resumed(q)
  BY <1>3, <1>6 DEF End
<1> QED
  BY <1>1, <1>4, <1>5, <1>6 DEF Next, Cancel, ServerStop, vars

LEMMA HeldStep ==
  ASSUME TypeInv, HeldInv, [Next]_vars
  PROVE  HeldInv'
<1>1. ASSUME NEW q \in Procs, call'[q].pc \in DlPcs PROVE sessions'[call'[q].key] # None
  BY <1>1, DownlinkCalls, SessionsStay, KeyType DEF HeldInv, StoredInv, Resumed, Entered, DlPcs
<1>2. ASSUME NEW q \in Procs, call'[q].pc = "dlRead", call'[q].held
      PROVE  sessions'[call'[q].key].dl # None
  <2>1. CASE Entered(q)
    BY <2>1 DEF Entered
  <2>2. CASE Resumed(q)
    <3>1. call[q].pc = "dlRead" /\ call[q].held /\ call'[q].key = call[q].key /\ call[q].key \in Keys
      BY <1>2, <2>2, KeyType DEF Resumed
    <3>2. sessions[call[q].key] # None /\ sessions[call[q].key].dl # None
      BY <3>1 DEF HeldInv, StoredInv, ReadInv, DlPcs
    <3>3. ASSUME NEW p \in Procs, UplinkAdd(p), call[p].key = call[q].key PROVE FALSE
      <4>1. p # q
        BY <3>1, <3>3 DEF UplinkAdd, At
      <4>2. call'[q] = [call[q] EXCEPT !.held = FALSE]
        BY <3>3, <4>1 DEF UplinkAdd
      <4> QED
        BY <1>2, <4>2 DEF TypeInv, TypeOK, Call
    <3>4. Keeps(call[q].key)
      BY <3>1, <3>2, <3>3, SessionEdits
    <3> QED
      BY <3>1, <3>2, <3>4 DEF Keeps
  <2> QED
    BY <1>2, <2>1, <2>2, DownlinkCalls DEF DlPcs
<1> QED
  BY <1>1, <1>2 DEF HeldInv, StoredInv, ReadInv

LEMMA TypeInit == Init => TypeInv /\ HeldInv
<1> SUFFICES ASSUME Init PROVE TypeInv /\ HeldInv
  OBVIOUS
<1>1. \A p \in Procs : call[p] \in Call /\ CallOK(call[p])
  BY IdleCall DEF Init
<1>2. \A p \in Procs : call[p].pc = "idle"
  BY DEF Init, Idle
<1>3. call \in [Procs -> Call]
  BY <1>1 DEF Init
<1>4. updated \in [Upfs -> [Ips -> Seq(FarUpdate)]] /\ created \in [Upfs -> [Ips -> SUBSET Rule]]
  BY DEF Init
<1> QED
  BY <1>1, <1>2, <1>3, <1>4 DEF Init, TypeInv, TypeOK, HeldInv, StoredInv, ReadInv, DlPcs

\* Every variable keeps its type: in particular every F-TEID a rule forwards to is
\* one the code has drawn or a gNB has sent, never nil.
THEOREM TypeCorrect == Spec => []TypeOK
<1>1. TypeInv /\ HeldInv /\ [Next]_vars => (TypeInv /\ HeldInv)'
  BY TypeStep, HeldStep
<1>2. TypeInv => TypeOK
  BY DEF TypeInv
<1> QED
  BY <1>1, <1>2, TypeInit, PTL DEF Spec

-----------------------------------------------------------------------------
(* Exclusive tunnels.                                                      *)

\* An F-TEID that a rule of UPF u listens on is taken from the pool of one of u's
\* own interfaces, so the next draw of that pool returns another one.
Drawn == \A o \in Owned : o[1] # None => o[1] \in allocated[o[2]] /\ o[1].addr \in Ifaces[o[2]]

ExclInv == TunnelExclusive /\ Drawn

OwnedMembers ==
  \A o : o \in Owned <=>
    \/ \E e \in installed : o = <<e.listen, e.upf, e.ip, e.id>>
    \/ \E u \in Upfs, x \in Ips : \E r \in created[u][x] : o = <<r.listen, u, x, r.id>>

LEMMA OwnedMembersHere == OwnedMembers
<1> SUFFICES ASSUME NEW o
             PROVE  o \in Owned <=>
                      \/ \E e \in installed : o = <<e.listen, e.upf, e.ip, e.id>>
                      \/ \E u \in Upfs, x \in Ips : \E r \in created[u][x] : o = <<r.listen, u, x, r.id>>
  BY DEF OwnedMembers
<1>1. ASSUME NEW u \in Upfs, NEW x \in Ips, NEW r \in created[u][x]
      PROVE  <<u, x, r>> \in Pending
  <2> DEFINE Q(v, y) == {<<v, y, q>> : q \in created[v][y]}
  <2>1. <<u, x, r>> \in Q(u, x)
    BY <1>1
  <2>2. Pending = UNION {Q(v, y) : v \in Upfs, y \in Ips}
    BY DEF Pending
  <2> HIDE DEF Q
  <2> QED
    BY <2>1, <2>2
<1>2. ASSUME NEW w \in Pending
      PROVE  \E u \in Upfs, x \in Ips : \E r \in created[u][x] : w = <<u, x, r>>
  BY <1>2 DEF Pending
<1>3. ASSUME NEW u \in Upfs, NEW x \in Ips, NEW r \in created[u][x], o = <<r.listen, u, x, r.id>>
      PROVE  o \in Owned
  <2> DEFINE w == <<u, x, r>>
  <2>1. w \in Pending /\ o = <<w[3].listen, w[1], w[2], w[3].id>>
    BY <1>1, <1>3
  <2> HIDE DEF w
  <2> QED
    BY <2>1 DEF Owned
<1>4. ASSUME NEW w \in Pending, o = <<w[3].listen, w[1], w[2], w[3].id>>
      PROVE  \E u \in Upfs, x \in Ips : \E r \in created[u][x] : o = <<r.listen, u, x, r.id>>
  <2>1. PICK u \in Upfs, x \in Ips : \E r \in created[u][x] : w = <<u, x, r>>
    BY <1>2
  <2>2. PICK r \in created[u][x] : w = <<u, x, r>>
    BY <2>1
  <2>3. w[1] = u /\ w[2] = x /\ w[3] = r
    BY <2>2
  <2> QED
    BY <1>4, <2>3
<1> QED
  BY <1>3, <1>4 DEF Owned

\* Pushing moves rules from a queue to a UPF; no rule appears that was in neither.
LEMMA OwnedPush ==
  ASSUME TypeInv, NEW u \in Upfs, NEW x \in Ips,
         \/ CreateSessionOk(u, x) \/ CreateSessionErr(u, x)
         \/ UpdateSessionOk(u, x) \/ UpdateSessionErr(u, x)
  PROVE  Owned' \subseteq Owned
<1>1. \A v \in Upfs, y \in Ips : created'[v][y] \subseteq created[v][y]
  <2>1. created' = created \/ created' = [created EXCEPT ![u][x] = {}]
    BY DEF CreateSessionOk, CreateSessionErr, UpdateSessionOk, UpdateSessionErr, rules
  <2>2. created \in [Upfs -> [Ips -> SUBSET Rule]]
    BY DEF TypeInv, TypeOK
  <2> SUFFICES ASSUME NEW v \in Upfs, NEW y \in Ips PROVE created'[v][y] \subseteq created[v][y]
    OBVIOUS
  <2>3. CASE created' = [created EXCEPT ![u][x] = {}]
    <3>1. CASE v = u /\ y = x
      BY <2>2, <2>3, <3>1
    <3>2. CASE ~(v = u /\ y = x)
      BY <2>2, <2>3, <3>2
    <3> QED
      BY <3>1, <3>2
  <2> QED
    BY <2>1, <2>3
<1>2. \A s : \A e \in Installing(u, x, s) :
        \E r \in created[u][x] : <<e.listen, e.upf, e.ip, e.id>> = <<r.listen, u, x, r.id>>
  BY DEF Installing
<1>3. \A s : \A e \in Redirected(u, x, s) :
        \E d \in installed : <<e.listen, e.upf, e.ip, e.id>> = <<d.listen, d.upf, d.ip, d.id>>
  <2> SUFFICES ASSUME NEW s, NEW d \in installed,
                      NEW e, e = d \/ e = [d EXCEPT !.fwd = Redirect(u, x, d.id).fwd]
               PROVE  <<e.listen, e.upf, e.ip, e.id>> = <<d.listen, d.upf, d.ip, d.id>>
    BY DEF Redirected
  <2>1. d \in Entry
    BY DEF TypeInv, TypeOK
  <2> QED
    BY <2>1 DEF Entry
<1>4. ASSUME NEW e \in installed'
      PROVE  \/ \E d \in installed : <<e.listen, e.upf, e.ip, e.id>> = <<d.listen, d.upf, d.ip, d.id>>
             \/ \E r \in created[u][x] : <<e.listen, e.upf, e.ip, e.id>> = <<r.listen, u, x, r.id>>
  <2>1. \/ e \in installed \/ \E s : e \in Installing(u, x, s) \/ e \in Redirected(u, x, s)
    BY <1>4 DEF CreateSessionOk, CreateSessionErr, UpdateSessionOk, UpdateSessionErr
  <2> QED
    BY <1>2, <1>3, <2>1
<1> SUFFICES ASSUME NEW o \in Owned' PROVE o \in Owned
  OBVIOUS
<1>5. \/ \E e \in installed' : o = <<e.listen, e.upf, e.ip, e.id>>
      \/ \E v \in Upfs, y \in Ips : \E r \in created'[v][y] : o = <<r.listen, v, y, r.id>>
  <2>1. OwnedMembers'
    BY OwnedMembersHere, PTL
  <2> QED
    BY <2>1 DEF OwnedMembers
<1> QED
  BY <1>1, <1>4, <1>5, OwnedMembersHere DEF OwnedMembers

LEMMA OwnedAdd ==
  ASSUME TypeInv, NEW u \in Upfs, NEW x \in Ips, NEW dnn, NEW dir, NEW listen, NEW fwd,
         AddRule(u, x, dnn, dir, listen, fwd), UNCHANGED installed
  PROVE  Owned' \subseteq Owned \union {<<listen, u, x, NextId(u, x)>>}
<1> DEFINE n == [id |-> NextId(u, x), dnn |-> dnn, dir |-> dir, listen |-> listen, fwd |-> fwd]
<1>1. \A v \in Upfs, y \in Ips : \A r \in created'[v][y] :
        r \in created[v][y] \/ (v = u /\ y = x /\ r = n)
  BY DEF AddRule, TypeInv, TypeOK
<1>2. n.listen = listen /\ n.id = NextId(u, x)
  OBVIOUS
<1> HIDE DEF n
<1> SUFFICES ASSUME NEW o \in Owned' PROVE o \in Owned \/ o = <<listen, u, x, NextId(u, x)>>
  OBVIOUS
<1>3. \/ \E e \in installed' : o = <<e.listen, e.upf, e.ip, e.id>>
      \/ \E v \in Upfs, y \in Ips : \E r \in created'[v][y] : o = <<r.listen, v, y, r.id>>
  <2>1. OwnedMembers'
    BY OwnedMembersHere, PTL
  <2> QED
    BY <2>1 DEF OwnedMembers
<1> QED
  BY <1>1, <1>2, <1>3, OwnedMembersHere DEF OwnedMembers

LEMMA ExclShrink ==
  ASSUME ExclInv, Owned' \subseteq Owned, TypeInv,
         \A u \in Upfs : allocated[u] \subseteq allocated'[u]
  PROVE  ExclInv'
<1>1. \A o \in Owned : o[2] \in Upfs
  <2> SUFFICES ASSUME NEW o \in Owned PROVE o[2] \in Upfs
    OBVIOUS
  <2>1. CASE \E e \in installed : o = <<e.listen, e.upf, e.ip, e.id>>
    BY <2>1 DEF TypeInv, TypeOK, Entry
  <2>2. CASE \E u \in Upfs, x \in Ips : \E r \in created[u][x] : o = <<r.listen, u, x, r.id>>
    BY <2>2
  <2> QED
    BY <2>1, <2>2, OwnedMembersHere DEF OwnedMembers
<1> QED
  BY <1>1 DEF ExclInv, TunnelExclusive, Drawn

LEMMA ExclSame ==
  ASSUME ExclInv, TypeInv, UNCHANGED <<installed, created, allocated>>
  PROVE  ExclInv'
<1>1. Owned' = Owned
  BY DEF Owned, Pending
<1> QED
  BY <1>1, ExclShrink

LEMMA ExclPush ==
  ASSUME ExclInv, TypeInv, NEW u \in Upfs, NEW x \in Ips, UNCHANGED allocated,
         \/ CreateSessionOk(u, x) \/ CreateSessionErr(u, x)
         \/ UpdateSessionOk(u, x) \/ UpdateSessionErr(u, x)
  PROVE  ExclInv'
  BY OwnedPush, ExclShrink

\* The rule that a fresh F-TEID is drawn for, or one without F-TEID.
LEMMA ExclAdd ==
  ASSUME ExclInv, TypeInv, NEW h, Lookup(h), NEW x \in Ips, NEW dnn, NEW dir, NEW listen, NEW fwd,
         AddRule(h.node, x, dnn, dir, listen, fwd), UNCHANGED installed,
         \/ NextListenFteidContext(h, listen)
         \/ listen = None /\ UNCHANGED allocated
  PROVE  ExclInv'
<1> DEFINE n == <<listen, h.node, x, NextId(h.node, x)>>
<1>1. h.node \in Upfs
  BY DEF Lookup
<1>2. Owned' \subseteq Owned \union {n}
  BY <1>1, OwnedAdd
<1>3. n[1] = listen /\ n[2] = h.node
  OBVIOUS
<1> HIDE DEF n
<1>4. \A o \in Owned : o[2] \in Upfs
  <2> SUFFICES ASSUME NEW o \in Owned PROVE o[2] \in Upfs
    OBVIOUS
  <2>1. CASE \E e \in installed : o = <<e.listen, e.upf, e.ip, e.id>>
    BY <2>1 DEF TypeInv, TypeOK, Entry
  <2>2. CASE \E u \in Upfs, y \in Ips : \E r \in created[u][y] : o = <<r.listen, u, y, r.id>>
    BY <2>2
  <2> QED
    BY <2>1, <2>2, OwnedMembersHere DEF OwnedMembers
<1>5. \A u \in Upfs : allocated[u] \subseteq allocated'[u]
  BY DEF NextListenFteidContext, TypeInv, TypeOK
<1>6. CASE listen = None /\ UNCHANGED allocated
  BY <1>2, <1>3, <1>6 DEF ExclInv, TunnelExclusive, Drawn
<1>7. CASE NextListenFteidContext(h, listen)
  <2>1. listen.addr \in Ifaces[h.node] /\ listen \notin allocated[h.node]
    BY <1>7, FreshFteid DEF NextListenFteidContext, ListenRefused
  <2>2. listen \in allocated'[h.node]
    BY <1>1, <1>7 DEF NextListenFteidContext, TypeInv, TypeOK
  <2>3. \A o \in Owned : o[1] # None => o[1] # listen
    BY <1>1, <1>4, <2>1, IfacesAssumption DEF ExclInv, Drawn
  <2>4. TunnelExclusive'
    BY <1>2, <1>3, <2>3 DEF ExclInv, TunnelExclusive
  <2>5. Drawn'
    BY <1>2, <1>3, <1>4, <1>5, <2>1, <2>2 DEF ExclInv, Drawn
  <2> QED
    BY <2>4, <2>5 DEF ExclInv
<1> QED
  BY <1>6, <1>7

LEMMA ExclStep ==
  ASSUME TypeInv, ExclInv, [Next]_vars
  PROVE  ExclInv'
<1>1. CASE UNCHANGED <<installed, created, allocated>>
  BY <1>1, ExclSame
<1>2. ASSUME NEW p \in Procs, UplinkQueue(p) PROVE ExclInv'
  <2>1. Ip(p) \in Ips /\ UNCHANGED installed
    BY <1>2, KeyType DEF UplinkQueue, At, pfcp
  <2> QED
    BY <1>1, <1>2, <2>1, ExclAdd
       DEF UplinkQueue, CreateUplinkAnchorWithFteid, CreateUplinkIntermediateWithFteid, rules
<1>3. ASSUME NEW p \in Procs, DownlinkQueue(p) PROVE ExclInv'
  <2>1. call[p].key.ip \in Ips /\ UNCHANGED installed
    BY <1>3, KeyType DEF DownlinkQueue, At, pfcp, Ip
  <2>2. \/ UNCHANGED <<allocated, rules>>
        \/ /\ Lookup(Hop(p)) /\ UNCHANGED allocated
           /\ UpdateDownlinkAnchor(Hop(p).node, call[p].key.ip, call[p].key.dnn, call[p].last)
        \/ \E f : /\ Lookup(Hop(p)) /\ NextListenFteidContext(Hop(p), f)
                  /\ UpdateDownlinkIntermediateWithFteid(Hop(p).node, call[p].key.ip,
                                                         call[p].key.dnn, f, call[p].last)
    BY <1>3, Zenon DEF DownlinkQueue
  <2> QED
    BY <1>1, <2>1, <2>2, ExclAdd DEF UpdateDownlinkAnchor, UpdateDownlinkIntermediateWithFteid, rules
<1>4. ASSUME NEW p \in Procs, FwQueue(p) PROVE ExclInv'
  <2>1. Ip(p) \in Ips /\ UNCHANGED installed /\ Lookup(Hop(p))
    BY <1>4, KeyType DEF FwQueue, At, pfcp, TypeInv, CallOK, Hop, Lookup
  <2> QED
    BY <1>1, <1>4, <2>1, ExclAdd DEF FwQueue, UpdateDownlinkIntermediateWithFteid, rules
<1>5. ASSUME NEW p \in Procs, UplinkPush(p) \/ DownlinkPush(p) \/ FwPush(p) \/ SwitchPush(p)
      PROVE  ExclInv'
  <2>1. Ip(p) \in Ips /\ Hop(p).node \in Upfs
    BY <1>5, KeyType DEF UplinkPush, DownlinkPush, FwPush, SwitchPush, At, TypeInv, CallOK, Hop
  <2> QED
    BY <1>5, <2>1, ExclPush DEF UplinkPush, DownlinkPush, FwPush, SwitchPush
<1>6. ASSUME NEW p \in Procs, SwitchQueue(p) PROVE UNCHANGED <<installed, created, allocated>>
  BY <1>6 DEF SwitchQueue, UpdateDownlinkIntermediateDirectForward, rules, pfcp
<1>7. ASSUME NEW p \in Procs, Begin(p) PROVE UNCHANGED <<installed, created, allocated>>
  BY <1>7 DEF Begin, BeginUplink, BeginDownlink, BeginForward, BeginSwitch, StoreNextDownlinkFteid,
     SetIndirectForwardingRequired, rules, pfcp
<1>8. ASSUME NEW p \in Procs,
             UplinkStore(p) \/ UplinkAdd(p) \/ DownlinkRead(p) \/ DownlinkFar(p)
      PROVE  UNCHANGED <<installed, created, allocated>>
  BY <1>8 DEF UplinkStore, SetUplinkFteid, UplinkAdd, SessionAdded, DownlinkRead, DownlinkFar, rules, pfcp
<1> QED
  BY <1>1, <1>2, <1>3, <1>4, <1>5, <1>6, <1>7, <1>8
     DEF Next, Step, End, Cancel, ServerStop, vars, rules, pfcp

\* Whatever calls interleave, fail or are repeated, no F-TEID is ever listened on
\* by two rules: two sessions never share a tunnel.
THEOREM TunnelsAreExclusive == Spec => []TunnelExclusive
<1>1. Init => ExclInv
  <2> SUFFICES ASSUME Init PROVE ExclInv
    OBVIOUS
  <2>1. \A o : o \notin Owned
    BY OwnedMembersHere DEF OwnedMembers, Init
  <2> QED
    BY <2>1 DEF ExclInv, TunnelExclusive, Drawn
<1>2. TypeInv /\ HeldInv /\ ExclInv /\ [Next]_vars => (TypeInv /\ HeldInv /\ ExclInv)'
  BY TypeStep, HeldStep, ExclStep
<1>3. ExclInv => TunnelExclusive
  BY DEF ExclInv
<1> QED
  BY <1>1, <1>2, <1>3, TypeInit, PTL DEF Spec

=============================================================================
