-------------------------------- MODULE Smf --------------------------------
(***************************************************************************)
(* The Session Management Function (src/internal/smf).                     *)
(*                                                                         *)
(* Goroutines of the AMF call the SMF concurrently.  A call walks the path *)
(* of UPFs configured for a gNB's area; at every hop it draws a listening  *)
(* F-TEID, appends one PDR and its FAR to the rules kept for (UPF, UE      *)
(* address) and pushes these rules to the UPF over PFCP.  Each of those    *)
(* steps holds its own lock and calls interleave between them, so each is  *)
(* one action here.                                                        *)
(*                                                                         *)
(* A PDR and its FAR are always appended together under the same lock and  *)
(* numbered in step, so they are one record, a "rule".  Precedence, source *)
(* interface and header removal are the same for all rules of a direction. *)
(* What a UPF has installed, and when it refuses a request, is external.   *)
(***************************************************************************)
EXTENDS Naturals, Sequences, FiniteSets

CONSTANTS
  Procs,      \* goroutines that call the SMF
  Keys,       \* PDU sessions: records [dnn, ue, ip]
  SliceUpfs,  \* configured slice (DNN) -> the node ids of its UPFs
  Ifaces,     \* UPF -> addresses of its GTP interfaces
  AreasOf,    \* gNB -> the areas that list it
  Hops,       \* the [node, addr] pairs the configured paths are made of
  Paths,      \* <<DNN, area>> -> path, a sequence of hops, UPF-i first
  Teids,      \* TEIDs a pool can draw: the non-zero 32-bit numbers
  Draw(_),    \* the free TEIDs -> those the random generator may come up with
  GnbFteids,  \* downlink F-TEIDs of the gNBs
  Core,       \* forwarding towards the data network
  None,       \* a nil pointer, or a PDR without F-TEID
  MaxCalls,   \* bound: calls made by the callers
  MaxFaults,  \* bound: PFCP requests that fail
  Ops         \* bound: of AllOps, what happens in this instance

Gnbs   == DOMAIN AreasOf
Slices == DOMAIN SliceUpfs
Ips    == {k.ip : k \in Keys}
Dnns   == {k.dnn : k \in Keys}

\* NewUpfsMap: one Upf per node id, whichever slices list it.
Upfs   == UNION {SliceUpfs[d] : d \in Slices}
Addrs  == UNION {Ifaces[u] : u \in Upfs}
Fteid  == [addr : Addrs, teid : Teids]

ASSUME KeysAssumption   == \A k \in Keys : k = [dnn |-> k.dnn, ue |-> k.ue, ip |-> k.ip]
ASSUME IfacesAssumption ==
  /\ Upfs \subseteq DOMAIN Ifaces
  /\ \A u, v \in Upfs : u # v => Ifaces[u] \cap Ifaces[v] = {}
ASSUME DrawAssumption   == \A free \in SUBSET Teids : Draw(free) \subseteq free
ASSUME PathsAssumption  ==
  /\ \A h \in Hops : h = [node |-> h.node, addr |-> h.addr]
  /\ \A r \in DOMAIN Paths : Paths[r] \in Seq(Hops) /\ r[1] \in Slices
ASSUME FteidAssumption  ==
  /\ GnbFteids \cap Fteid = {}
  /\ \A v \in {Core, None} : v \notin GnbFteids /\ v \notin Fteid
  /\ Core # None
AllOps == {"forward", "switch", "indirect", "stop"}
ASSUME BoundsAssumption == MaxCalls \in Nat /\ MaxFaults \in Nat /\ Ops \subseteq AllOps

VARIABLES
  started,    \* Smf.started
  ctxDone,    \* the context of the SMF, the UPFs and the pools is done
  crashed,    \* a goroutine has panicked: the process is gone
  allocated,  \* UPF -> F-TEIDs whose TEID is taken from the interface's pool
  lastId,     \* UPF -> UE address -> currentpdrid, currentfarid
  created,    \* UPF -> UE address -> rules waiting in createpdrs, createfars
  updated,    \* UPF -> UE address -> FAR updates waiting in updatefars
  handle,     \* UPF -> UE address -> Pfcprules.session, 0 when nil
  seids,      \* UPF -> PFCP sessions it has been asked for (external)
  installed,  \* the rules the UPFs apply (external)
  sessions,   \* PDU session -> PduSessionN3, None when absent
  call,       \* goroutine -> the SMF call it is in
  calls,      \* calls so far, up to MaxCalls
  faults      \* failed PFCP requests so far, up to MaxFaults

life   == <<started, ctxDone>>
rules  == <<lastId, created, updated>>
pfcp   == <<handle, seids, installed, faults>>
vars   == <<started, ctxDone, crashed, allocated, lastId, created, updated, handle,
            seids, installed, sessions, call, calls, faults>>

Rule == [id : Nat, dnn : Dnns, dir : {"UL", "DL"}, listen : Fteid \union {None},
         fwd : Fteid \union GnbFteids \union {Core}]
FarUpdate == [far : Nat, fwd : GnbFteids]
Entry == [upf : Upfs, ip : Ips, seid : Nat, id : Nat, dnn : Dnns, dir : {"UL", "DL"},
          listen : Fteid \union {None}, fwd : Fteid \union GnbFteids \union {Core}]
Session == [ul : Fteid, dl : GnbFteids \union {None}, next : GnbFteids \union {None},
            far : Nat, indirect : BOOLEAN]
ASSUME NoneAssumption == None \notin Session
Pcs == {"idle", "ulQueue", "ulPush", "ulStore", "ulAdd", "dlRead", "dlQueue", "dlFar", "dlPush",
        "fwQueue", "fwPush", "swQueue", "swPush"}
\* far: the FAR id read for a switch, or to be stored; held: the session object of
\* the call is the stored one; last: the F-TEID the next rule forwards to, then
\* the result.
Call == [pc : Pcs, key : Keys \union {None}, path : Seq(Hops), i : Nat, far : Nat,
         held : BOOLEAN, last : Fteid \union GnbFteids \union {None},
         res : {"none", "ok", "err"}]

TypeOK ==
  /\ started \in BOOLEAN /\ ctxDone \in BOOLEAN /\ crashed \in BOOLEAN
  /\ allocated \in [Upfs -> SUBSET Fteid]
  /\ lastId \in [Upfs -> [Ips -> Nat]]
  /\ created \in [Upfs -> [Ips -> SUBSET Rule]]
  /\ updated \in [Upfs -> [Ips -> Seq(FarUpdate)]]
  /\ handle \in [Upfs -> [Ips -> Nat]]
  /\ seids \in [Upfs -> Nat]
  /\ installed \subseteq Entry
  /\ sessions \in [Keys -> Session \union {None}]
  /\ call \in [Procs -> Call]
  /\ calls \in Nat /\ faults \in Nat

Idle(res, fteid) ==
  [pc |-> "idle", key |-> None, path |-> <<>>, i |-> 0, far |-> 0, held |-> TRUE,
   last |-> fteid, res |-> res]

\* NewSmf and Start: the pools, the rules and the session maps are empty and
\* every UPF is associated before the AMF serves its first request.
Init ==
  /\ started = TRUE /\ ctxDone = FALSE /\ crashed = FALSE
  /\ allocated = [u \in Upfs |-> {}]
  /\ lastId  = [u \in Upfs |-> [x \in Ips |-> 0]]
  /\ created = [u \in Upfs |-> [x \in Ips |-> {}]]
  /\ updated = [u \in Upfs |-> [x \in Ips |-> <<>>]]
  /\ handle  = [u \in Upfs |-> [x \in Ips |-> 0]]
  /\ seids   = [u \in Upfs |-> 0]
  /\ installed = {}
  /\ sessions = [k \in Keys |-> None]
  /\ call = [p \in Procs |-> Idle("none", None)]
  /\ calls = 0 /\ faults = 0

-----------------------------------------------------------------------------
(* What every call shares.                                                 *)

Runnable == started /\ ~ctxDone

\* Areas.Area and slice.Paths: a gNB listed by several areas is found in any of
\* them, the areas being a Go map.
Routes(d, g)  == {Paths[<<d, a>>] : a \in {b \in AreasOf[g] : <<d, b>> \in DOMAIN Paths}}
NoRoute(d, g) == AreasOf[g] = {} \/ \E a \in AreasOf[g] : <<d, a>> \notin DOMAIN Paths

Hop(p)    == call[p].path[call[p].i]
Lookup(h) == h.node \in Upfs                           \* smf.upfs.Load
Ip(p)     == call[p].key.ip
AtEnd(p)  == call[p].i = Len(call[p].path)

\* A call is made while the bound allows it.
Enter(p) ==
  /\ ~crashed /\ call[p].pc = "idle" /\ calls < MaxCalls
  /\ calls' = calls + 1

Return(p, res, fteid) == call' = [call EXCEPT ![p] = Idle(res, fteid)]

Start(p, pc, k, path, i, last) ==
  call' = [call EXCEPT ![p] = [pc |-> pc, key |-> k, path |-> path, i |-> i, far |-> 0,
                               held |-> TRUE, last |-> last, res |-> "none"]]

At(p, pc) == ~crashed /\ call[p].pc = pc

-----------------------------------------------------------------------------
(* The rules of a UE at one UPF.                                           *)

\* NextListenFteidContext fails when the context is done or the interface is not
\* one of the UPF; otherwise the pool draws until the TEID is not taken.  With
\* every TEID taken it draws for ever, holding the pool's lock.
ListenRefused(h) == ctxDone \/ h.addr \notin Ifaces[h.node]
FreshUnchecked(h) == [addr : {h.addr}, teid : Draw(Teids)]   \* seeded: any TEID
Fresh(h) ==
  [addr : {h.addr}, teid : Draw({t \in Teids : [addr |-> h.addr, teid |-> t] \notin allocated[h.node]})]
NextListenFteidContext(h, f) ==
  /\ ~ListenRefused(h)
  /\ f \in Fresh(h)
  /\ allocated' = [allocated EXCEPT ![h.node] = @ \union {f}]

NextIdStale(u, x) == lastId[u][x]                            \* seeded: no increment
NextId(u, x) == lastId[u][x] + 1

QueuedFarStale(u, x) == lastId[u][x]                         \* seeded: before the increment
QueuedFar(u, x) == NextId(u, x)                              \* what the downlink rules return

\* Each appends a PDR and a FAR that carry the next ids.
AddRule(u, x, dnn, dir, listen, fwd) ==
  /\ lastId'  = [lastId EXCEPT ![u][x] = NextId(u, x)]
  /\ created' = [created EXCEPT ![u][x] = @ \union
       {[id |-> NextId(u, x), dnn |-> dnn, dir |-> dir, listen |-> listen, fwd |-> fwd]}]
  /\ UNCHANGED updated

CreateUplinkAnchorNil(u, x, dnn, f) == AddRule(u, x, dnn, "UL", f, None)   \* seeded
CreateUplinkAnchorWithFteid(u, x, dnn, f)            == AddRule(u, x, dnn, "UL", f, Core)
CreateUplinkIntermediateLoop(u, x, dnn, f, fwd) == AddRule(u, x, dnn, "UL", f, f)  \* seeded
CreateUplinkIntermediateWithFteid(u, x, dnn, f, fwd) == AddRule(u, x, dnn, "UL", f, fwd)
UpdateDownlinkIntermediateWithFteid(u, x, dnn, f, fwd) == AddRule(u, x, dnn, "DL", f, fwd)
UpdateDownlinkAnchor(u, x, dnn, fwd)                 == AddRule(u, x, dnn, "DL", None, fwd)

UpdateDownlinkIntermediateDirectForward(u, x, far, fwd) ==
  /\ updated' = [updated EXCEPT ![u][x] = Append(@, [far |-> far, fwd |-> fwd])]
  /\ UNCHANGED <<lastId, created>>

-----------------------------------------------------------------------------
(* PFCP exchanges.  The lock of the rules is held from the request to its  *)
(* answer.                                                                 *)

InSession(e, u, x, s) == e.upf = u /\ e.ip = x /\ e.seid = s

\* What PFCP session s of the UPF gains from the waiting rules.
Installing(u, x, s) ==
  {[upf |-> u, ip |-> x, seid |-> s, id |-> r.id, dnn |-> r.dnn, dir |-> r.dir,
    listen |-> r.listen, fwd |-> r.fwd] :
     r \in {q \in created[u][x] : ~\E e \in installed : InSession(e, u, x, s) /\ e.id = q.id}}

Redirects(u, x) == {updated[u][x][n] : n \in DOMAIN updated[u][x]}

\* The FAR updates applied to what is installed.
Redirect(u, x, far) == CHOOSE r \in Redirects(u, x) : r.far = far
Redirected(u, x, s) ==
  {IF InSession(e, u, x, s) /\ \E r \in Redirects(u, x) : r.far = e.id
   THEN [e EXCEPT !.fwd = Redirect(u, x, e.id).fwd] ELSE e : e \in installed}

\* NewFARMapUpdate refuses two updates of one FAR; the UPF those of a FAR that
\* its session does not have.
Acceptable(u, x) ==
  /\ \A m, n \in DOMAIN updated[u][x] : updated[u][x][m].far = updated[u][x][n].far => m = n
  /\ \A r \in Redirects(u, x) :
       \E e \in installed : InSession(e, u, x, handle[u][x]) /\ e.id = r.far

\* A request fails: refused, lost or its answer lost, or the stack is stopping.
Fault ==
  \/ faults < MaxFaults /\ faults' = faults + 1
  \/ ctxDone /\ UNCHANGED faults

CreateSessionRetains(u, x) ==                    \* seeded: the queue is not cleared
  /\ seids'     = [seids EXCEPT ![u] = @ + 1]
  /\ handle'    = [handle EXCEPT ![u][x] = seids[u] + 1]
  /\ installed' = installed \union Installing(u, x, seids[u] + 1)
  /\ UNCHANGED <<rules, faults>>

\* Upf.CreateSession opens a PFCP session that holds only the waiting rules, and
\* forgets the handle of the one the UE had.
CreateSessionOk(u, x) ==
  /\ seids'     = [seids EXCEPT ![u] = @ + 1]
  /\ handle'    = [handle EXCEPT ![u][x] = seids[u] + 1]
  /\ installed' = installed \union Installing(u, x, seids[u] + 1)
  /\ created'   = [created EXCEPT ![u][x] = {}]
  /\ UNCHANGED <<lastId, updated, faults>>

CreateSessionErrClears(u, x) ==                  \* seeded: the queue is dropped on an error
  /\ Fault
  /\ handle'  = [handle EXCEPT ![u][x] = 0]
  /\ created' = [created EXCEPT ![u][x] = {}]
  /\ UNCHANGED <<lastId, updated, seids, installed>>

\* On an error the nil handle is stored and the rules stay queued.
CreateSessionErr(u, x) ==
  /\ Fault
  /\ handle' = [handle EXCEPT ![u][x] = 0]
  /\ \/ UNCHANGED <<seids, installed>>
     \/ /\ seids'     = [seids EXCEPT ![u] = @ + 1]
        /\ installed' = installed \union Installing(u, x, seids[u] + 1)
  /\ UNCHANGED rules

\* Upf.UpdateSession sends the waiting rules and FAR updates to the session.
UpdateSessionOk(u, x) ==
  /\ handle[u][x] # 0 /\ Acceptable(u, x)
  /\ installed' = Redirected(u, x, handle[u][x]) \union Installing(u, x, handle[u][x])
  /\ created'   = [created EXCEPT ![u][x] = {}]
  /\ updated'   = [updated EXCEPT ![u][x] = <<>>]
  /\ UNCHANGED <<lastId, handle, seids, faults>>

UpdateSessionErr(u, x) ==
  /\ \/ /\ handle[u][x] = 0 \/ ~Acceptable(u, x)
        /\ UNCHANGED <<faults, installed>>
     \/ /\ handle[u][x] # 0 /\ Acceptable(u, x)
        /\ Fault
        /\ \/ UNCHANGED installed
           \/ installed' = Redirected(u, x, handle[u][x]) \union Installing(u, x, handle[u][x])
  /\ UNCHANGED <<rules, handle, seids>>

-----------------------------------------------------------------------------
(* CreateSessionUplinkContext: from the anchor down to UPF-i.              *)

BeginUplink(p, k, g) ==
  /\ Enter(p)
  /\ \/ (~Runnable \/ NoRoute(k.dnn, g)) /\ Return(p, "err", None)
     \/ /\ Runnable
        /\ \E path \in Routes(k.dnn, g) :
             IF path = <<>> THEN Return(p, "err", None)
             ELSE Start(p, "ulQueue", k, path, Len(path), None)
  /\ UNCHANGED <<life, crashed, allocated, rules, pfcp, sessions>>

\* One hop: the listening F-TEID is drawn and the rule queued.  The draw and the
\* append hold two locks in turn; the TEID is nobody else's in between.
UplinkQueue(p) ==
  /\ At(p, "ulQueue")
  /\ \/ /\ ~Lookup(Hop(p)) \/ ListenRefused(Hop(p))
        /\ Return(p, "err", None)
        /\ UNCHANGED <<allocated, rules>>
     \/ /\ Lookup(Hop(p))
        /\ \E f \in [addr : {Hop(p).addr}, teid : Teids] :
             /\ NextListenFteidContext(Hop(p), f)
             /\ IF AtEnd(p)
                THEN CreateUplinkAnchorWithFteid(Hop(p).node, Ip(p), call[p].key.dnn, f)
                ELSE CreateUplinkIntermediateWithFteid(Hop(p).node, Ip(p), call[p].key.dnn, f,
                                                       call[p].last)
             /\ call' = [call EXCEPT ![p].pc = "ulPush", ![p].last = f]
  /\ UNCHANGED <<life, crashed, pfcp, sessions, calls>>

UplinkPushStuck(p) ==                            \* seeded: the loop does not go down
  /\ At(p, "ulPush")
  /\ \/ /\ CreateSessionOk(Hop(p).node, Ip(p))
        /\ IF call[p].i = 1 THEN call' = [call EXCEPT ![p].pc = "ulStore"]
           ELSE call' = [call EXCEPT ![p].pc = "ulQueue"]
     \/ CreateSessionErr(Hop(p).node, Ip(p)) /\ Return(p, "err", None)
  /\ UNCHANGED <<life, crashed, allocated, sessions, calls>>

UplinkPush(p) ==
  /\ At(p, "ulPush")
  /\ \/ /\ CreateSessionOk(Hop(p).node, Ip(p))
        /\ IF call[p].i = 1 THEN call' = [call EXCEPT ![p].pc = "ulStore"]
           ELSE call' = [call EXCEPT ![p].pc = "ulQueue", ![p].i = @ - 1]
     \/ CreateSessionErr(Hop(p).node, Ip(p)) /\ Return(p, "err", None)
  /\ UNCHANGED <<life, crashed, allocated, sessions, calls>>

SetUplinkFteid(k, f) == [sessions EXCEPT ![k].ul = f]
SessionAdded(k, f) ==
  [sessions EXCEPT ![k] = [ul |-> f, dl |-> None, next |-> None, far |-> 0, indirect |-> FALSE]]

UplinkStoreAlwaysAdds(p) ==                      \* seeded: no look for an existing session
  /\ At(p, "ulStore")
  /\ call' = [call EXCEPT ![p].pc = "ulAdd"]
  /\ UNCHANGED <<life, crashed, allocated, sessions, rules, pfcp, calls>>

\* An existing session gets the new uplink F-TEID at once, whichever gNB the UE
\* is still attached to.
UplinkStore(p) ==
  /\ At(p, "ulStore")
  /\ IF sessions[call[p].key] = None
     THEN call' = [call EXCEPT ![p].pc = "ulAdd"] /\ UNCHANGED sessions
     ELSE /\ sessions' = SetUplinkFteid(call[p].key, call[p].last)
          /\ Return(p, "ok", call[p].last)
  /\ UNCHANGED <<life, crashed, allocated, rules, pfcp, calls>>

\* Get and Add take the lock in turn: a session added in between is replaced,
\* and the calls that hold it go on with an object nobody finds any more.
UplinkAdd(p) ==
  /\ At(p, "ulAdd")
  /\ sessions' = SessionAdded(call[p].key, call[p].last)
  /\ call' = [q \in Procs |-> IF q = p THEN Idle("ok", call[p].last)
                              ELSE IF call[q].key = call[p].key THEN [call[q] EXCEPT !.held = FALSE]
                              ELSE call[q]]
  /\ UNCHANGED <<life, crashed, allocated, rules, pfcp, calls>>

-----------------------------------------------------------------------------
(* CreateSessionDownlinkContext: from UPF-i up to the anchor.              *)

\* The new downlink F-TEID is stored before anything else is checked, without the
\* lock of the sessions ...
BeginDownlink(p, k, g, f) ==
  /\ Enter(p)
  /\ IF ~Runnable \/ sessions[k] = None
     THEN Return(p, "err", None) /\ UNCHANGED sessions
     ELSE /\ sessions' = [sessions EXCEPT ![k].dl = f]
          /\ \/ (SliceUpfs[k.dnn] = {} \/ NoRoute(k.dnn, g)) /\ Return(p, "err", None)
             \/ /\ SliceUpfs[k.dnn] # {}
                /\ \E path \in Routes(k.dnn, g) :
                     IF path = <<>> THEN Return(p, "ok", f)
                     ELSE Start(p, "dlRead", k, path, 1, f)
  /\ UNCHANGED <<life, crashed, allocated, rules, pfcp>>

\* ... and read back from the session, where another call may have replaced it.
DownlinkRead(p) ==
  /\ At(p, "dlRead")
  /\ call' = [call EXCEPT ![p].pc = "dlQueue",
                          ![p].last = IF call[p].held THEN sessions[call[p].key].dl ELSE @]
  /\ UNCHANGED <<life, crashed, allocated, rules, pfcp, sessions, calls>>

DownlinkQueue(p) ==
  /\ At(p, "dlQueue")
  /\ LET h == Hop(p)
         k == call[p].key
         Queued(last) == call' = [call EXCEPT ![p].pc = "dlFar", ![p].last = last,
                                              ![p].far = QueuedFar(h.node, k.ip)]
     IN \/ /\ ~Lookup(h) \/ (~AtEnd(p) /\ ListenRefused(h))
           /\ Return(p, "err", None)
           /\ UNCHANGED <<allocated, rules>>
        \/ /\ Lookup(h) /\ AtEnd(p)
           /\ UpdateDownlinkAnchor(h.node, k.ip, k.dnn, call[p].last)
           /\ Queued(call[p].last)
           /\ UNCHANGED allocated
        \/ /\ Lookup(h) /\ ~AtEnd(p)
           /\ \E f \in [addr : {h.addr}, teid : Teids] :
                /\ NextListenFteidContext(h, f)
                /\ UpdateDownlinkIntermediateWithFteid(h.node, k.ip, k.dnn, f, call[p].last)
                /\ Queued(f)
  /\ UNCHANGED <<life, crashed, pfcp, sessions, calls>>

\* Every hop overwrites the FAR id of the session: the anchor's remains.
DownlinkFar(p) ==
  /\ At(p, "dlFar")
  /\ sessions' = IF call[p].held THEN [sessions EXCEPT ![call[p].key].far = call[p].far]
                 ELSE sessions
  /\ call' = [call EXCEPT ![p].pc = "dlPush", ![p].far = 0]
  /\ UNCHANGED <<life, crashed, allocated, rules, pfcp, calls>>

DownlinkPushEarly(p) ==                          \* seeded: the anchor is left out
  /\ At(p, "dlPush")
  /\ \/ /\ UpdateSessionOk(Hop(p).node, Ip(p))
        /\ IF call[p].i + 1 >= Len(call[p].path) THEN Return(p, "ok", call[p].last)
           ELSE call' = [call EXCEPT ![p].pc = "dlQueue", ![p].i = @ + 1]
     \/ UpdateSessionErr(Hop(p).node, Ip(p)) /\ Return(p, "err", None)
  /\ UNCHANGED <<life, crashed, allocated, sessions, calls>>

DownlinkPushIgnoresError(p) ==                   \* seeded: no return on an error
  /\ At(p, "dlPush")
  /\ UpdateSessionOk(Hop(p).node, Ip(p)) \/ UpdateSessionErr(Hop(p).node, Ip(p))
  /\ IF AtEnd(p) THEN Return(p, "ok", call[p].last)
     ELSE call' = [call EXCEPT ![p].pc = "dlQueue", ![p].i = @ + 1]
  /\ UNCHANGED <<life, crashed, allocated, sessions, calls>>

DownlinkPush(p) ==
  /\ At(p, "dlPush")
  /\ \/ /\ UpdateSessionOk(Hop(p).node, Ip(p))
        /\ IF AtEnd(p) THEN Return(p, "ok", call[p].last)
           ELSE call' = [call EXCEPT ![p].pc = "dlQueue", ![p].i = @ + 1]
     \/ UpdateSessionErr(Hop(p).node, Ip(p)) /\ Return(p, "err", None)
  /\ UNCHANGED <<life, crashed, allocated, sessions, calls>>

-----------------------------------------------------------------------------
(* The calls of a handover.                                                *)

\* SessionFirstUpf: UPF-i of an area the gNB is in.
FirstUpfs(d, g) == {path[1] : path \in {r \in Routes(d, g) : r # <<>> /\ SliceUpfs[d] # {}}}
NoFirstUpf(d, g) == NoRoute(d, g) \/ SliceUpfs[d] = {} \/ <<>> \in Routes(d, g)

\* CreateSessionDownlinkFWUpfIContext adds a rule on one UPF-i that forwards to
\* a gNB or to the rule of another UPF-i.  It does not look the session up.
BeginForward(p, k, h, f) ==
  /\ "forward" \in Ops
  /\ Enter(p)
  /\ IF Runnable /\ Lookup(h) THEN Start(p, "fwQueue", k, <<h>>, 1, f) ELSE Return(p, "err", None)
  /\ UNCHANGED <<life, crashed, allocated, rules, pfcp, sessions>>

FwQueue(p) ==
  /\ At(p, "fwQueue")
  /\ \/ ListenRefused(Hop(p)) /\ Return(p, "err", None) /\ UNCHANGED <<allocated, rules>>
     \/ \E f \in [addr : {Hop(p).addr}, teid : Teids] :
          /\ NextListenFteidContext(Hop(p), f)
          /\ UpdateDownlinkIntermediateWithFteid(Hop(p).node, Ip(p), call[p].key.dnn, f, call[p].last)
          /\ call' = [call EXCEPT ![p].pc = "fwPush", ![p].last = f]
  /\ UNCHANGED <<life, crashed, pfcp, sessions, calls>>

FwPush(p) ==
  /\ At(p, "fwPush")
  /\ \/ UpdateSessionOk(Hop(p).node, Ip(p)) /\ Return(p, "ok", call[p].last)
     \/ UpdateSessionErr(Hop(p).node, Ip(p)) /\ Return(p, "err", None)
  /\ UNCHANGED <<life, crashed, allocated, sessions, calls>>

\* UpdateSessionDownlinkContext redirects one FAR of UPF-i of the old gNB: the
\* one whose id the session holds.  It checks neither started nor the context.
BeginSwitch(p, k, g) ==
  /\ "switch" \in Ops
  /\ Enter(p)
  /\ \/ (sessions[k] = None \/ NoRoute(k.dnn, g)) /\ Return(p, "err", None)
     \/ /\ sessions[k] # None
        /\ \E path \in Routes(k.dnn, g) :
             IF path = <<>> \/ ~Lookup(path[1]) THEN Return(p, "err", None)
             ELSE call' = [call EXCEPT ![p] =
                    [pc |-> "swQueue", key |-> k, path |-> path, i |-> 1, far |-> sessions[k].far,
                     held |-> TRUE, last |-> sessions[k].next, res |-> "none"]]
  /\ UNCHANGED <<life, crashed, allocated, rules, pfcp, sessions>>

\* The F-TEID to switch to is dereferenced whether or not it was ever stored.
SwitchQueue(p) ==
  /\ At(p, "swQueue")
  /\ IF call[p].last = None
     THEN crashed' = TRUE /\ UNCHANGED <<rules, call>>
     ELSE /\ UpdateDownlinkIntermediateDirectForward(Hop(p).node, Ip(p), call[p].far, call[p].last)
          /\ call' = [call EXCEPT ![p].pc = "swPush"]
          /\ UNCHANGED crashed
  /\ UNCHANGED <<life, allocated, pfcp, sessions, calls>>

SwitchPush(p) ==
  /\ At(p, "swPush")
  /\ \/ UpdateSessionOk(Hop(p).node, Ip(p)) /\ Return(p, "ok", call[p].last)
     \/ UpdateSessionErr(Hop(p).node, Ip(p)) /\ Return(p, "err", None)
  /\ UNCHANGED <<life, crashed, allocated, sessions, calls>>

\* Sessions.SetNextDownlinkFteid and SetIndirectForwardingRequired.
StoreNextDownlinkFteid(p, k, f) ==
  /\ "switch" \in Ops
  /\ Enter(p)
  /\ IF sessions[k] = None THEN Return(p, "err", None) /\ UNCHANGED sessions
     ELSE Return(p, "ok", None) /\ sessions' = [sessions EXCEPT ![k].next = f]
  /\ UNCHANGED <<life, crashed, allocated, rules, pfcp>>

SetIndirectForwardingRequired(p, k, b) ==
  /\ "indirect" \in Ops
  /\ Enter(p)
  /\ IF sessions[k] = None THEN Return(p, "err", None) /\ UNCHANGED sessions
     ELSE Return(p, "ok", None) /\ sessions' = [sessions EXCEPT ![k].indirect = b]
  /\ UNCHANGED <<life, crashed, allocated, rules, pfcp>>

\* What a caller reads of a session that exists, each under the lock of its own call.
GetSessionUplinkFteid(k)                == sessions[k].ul
GetSessionDownlinkFteid(k)              == sessions[k].dl
GetNextDownlinkFteid(k)                 == sessions[k].next
GetSessionIndirectForwardingRequired(k) == sessions[k].indirect

-----------------------------------------------------------------------------
\* A goroutine has used the result of its last call and ends; another starts.
End(p) ==
  /\ ~crashed /\ call[p].pc = "idle" /\ call[p].res # "none"
  /\ Return(p, "none", None)
  /\ UNCHANGED <<life, crashed, allocated, rules, pfcp, sessions, calls>>

\* The program is told to stop.
Cancel ==
  /\ "stop" \in Ops /\ ~crashed /\ ~ctxDone
  /\ ctxDone' = TRUE
  /\ UNCHANGED <<started, crashed, allocated, rules, pfcp, sessions, call, calls>>

\* The goroutine of the PFCP server returns: stopped, or failed by itself.
ServerStop ==
  /\ "stop" \in Ops /\ ~crashed /\ started
  /\ started' = FALSE
  /\ UNCHANGED <<ctxDone, crashed, allocated, rules, pfcp, sessions, call, calls>>

\* What a caller can forward to: a gNB, or a downlink rule of the same UE.
Targets(k) == GnbFteids \union
  {e.listen : e \in {r \in installed : r.ip = k.ip /\ r.dnn = k.dnn /\ r.dir = "DL" /\ r.listen # None}}

Begin(p) == \E k \in Keys :
  \/ \E g \in Gnbs :
       \/ BeginUplink(p, k, g)
       \/ \E f \in GnbFteids : BeginDownlink(p, k, g, f)
       \/ \E h \in FirstUpfs(k.dnn, g), f \in Targets(k) : BeginForward(p, k, h, f)
       \/ BeginSwitch(p, k, g)
  \/ \E f \in GnbFteids \union {None} : StoreNextDownlinkFteid(p, k, f)
  \/ \E b \in BOOLEAN : SetIndirectForwardingRequired(p, k, b)

Step(p) ==
  \/ UplinkQueue(p) \/ UplinkPush(p) \/ UplinkStore(p) \/ UplinkAdd(p)
  \/ DownlinkRead(p) \/ DownlinkQueue(p) \/ DownlinkFar(p) \/ DownlinkPush(p)
  \/ FwQueue(p) \/ FwPush(p)
  \/ SwitchQueue(p) \/ SwitchPush(p)

Next == Cancel \/ ServerStop \/ \E p \in Procs : Begin(p) \/ Step(p) \/ End(p)

Spec == Init /\ [][Next]_vars

\* A goroutine that can go on is scheduled, and a PFCP request ends with an
\* answer or with the last of its retransmissions.
FairSpec == Spec /\ \A p \in Procs : WF_vars(Step(p))

-----------------------------------------------------------------------------
(* Safety.                                                                 *)

Pending == UNION {{<<u, x, r>> : r \in created[u][x]} : u \in Upfs, x \in Ips}

\* Who listens on an F-TEID: rule id of UE x at UPF u, queued or installed.
Owned == {<<e.listen, e.upf, e.ip, e.id>> : e \in installed} \union
         {<<w[3].listen, w[1], w[2], w[3].id>> : w \in Pending}

\* No two rules ever listen on one F-TEID, however calls for several UEs
\* interleave at an interface: an F-TEID belongs to one rule of one UE at one UPF.
\* (After a lost answer a rule may be in two PFCP sessions.)
TunnelExclusive == \A a, b \in Owned : a[1] = b[1] /\ a[1] # None => a = b

\* A TEID is taken from a pool exactly when a rule listens on it: calls that fail
\* half-way neither lose a TEID nor use one that could be drawn again.
PoolAgrees ==
  \A u \in Upfs :
    allocated[u] = ({e.listen : e \in {r \in installed : r.upf = u}} \union
                    {w[3].listen : w \in {q \in Pending : q[1] = u}}) \ {None}

\* What a rule forwards to inside the network is installed, for the same UE and
\* slice: the order in which a path is set up never leaves a rule whose packets
\* the next UPF does not know, nor one that leads to another UE's tunnel.
NoDanglingForward ==
  \A e \in installed : e.fwd \in Fteid =>
    \E f \in installed : f.listen = e.fwd /\ f.ip = e.ip /\ f.dnn = e.dnn /\ f.dir = e.dir

\* The rules that UPFs apply to the packets of session k in one direction.
Applied(k, dir, rs) == {r \in rs : r.ip = k.ip /\ r.dnn = k.dnn /\ r.dir = dir}

\* Where packets sent to F-TEID f arrive, on their way or in the end, when UPFs
\* apply the rules rs: the smallest set that holds f and that no rule leads out of.
Reached(f, rs) ==
  LET all == {f} \union {r.fwd : r \in rs}
  IN {v \in all : \A S \in SUBSET all :
        f \in S /\ (\A r \in rs : r.listen \in S => r.fwd \in S) => v \in S}

\* The uplink packets of session k sent to F-TEID f reach the data network, through
\* rules of that session only.
ReachesCore(k, f) == Core \in Reached(f, Applied(k, "UL", installed))

\* The uplink F-TEID of a stored session leads to the data network.
UplinkReachesCore == \A k \in Keys : sessions[k] # None => ReachesCore(k, sessions[k].ul)

\* A switch redirects a downlink rule, as it means to: the FAR id it has read from the
\* session without its lock names no uplink rule of UPF-i.  That is so where the paths
\* of a slice are one UPF; with an anchor of its own a path leaves the id of the anchor
\* in the session (smf.go:158), and SwitchMovesPath shows what follows.
RedirectsDownlink ==
  \A e \in installed : \A r \in Redirects(e.upf, e.ip) :
    e.seid = handle[e.upf][e.ip] /\ r.far = e.id => e.dir = "DL"

\* It redirects a rule that leads to a gNB, and so takes no downlink path apart: in the
\* same networks, although set-ups and other switches write the FAR id meanwhile.
RedirectsLastHop ==
  \A e \in installed : \A r \in Redirects(e.upf, e.ip) :
    e.seid = handle[e.upf][e.ip] /\ r.far = e.id => e.fwd \in GnbFteids

\* Within a PFCP session an id names one rule, and a rule that waits does not
\* carry the id of a different one: retries and retained queues do not reuse ids.
RuleIdUnique ==
  \A e \in installed :
    /\ \A f \in installed : e.upf = f.upf /\ e.ip = f.ip /\ e.id = f.id =>
         e.listen = f.listen /\ e.dir = f.dir /\ (e.seid = f.seid => e = f)
    /\ \A r \in created[e.upf][e.ip] : r.id = e.id => r.listen = e.listen /\ r.dir = e.dir

\* As long as no request has failed, rules wait only for a goroutine that is about
\* to push them, at a UPF where the UE has no PFCP session, or behind a FAR update
\* that the UPF refuses.
QueueDrained ==
  faults = 0 /\ ~ctxDone =>
    \A u \in Upfs, x \in Ips : created[u][x] # {} =>
      \/ handle[u][x] = 0 \/ updated[u][x] # <<>>
      \/ \E p \in Procs : call[p].pc \in {"ulPush", "dlFar", "dlPush", "fwPush"} /\ Hop(p).node = u /\ Ip(p) = x

-----------------------------------------------------------------------------
(* What a step may never do.                                               *)

\* A path carries the downlink packets of session k to F-TEID f: each hop has a rule
\* that leads to the one before, and the anchor's takes packets without F-TEID.
Carries(k, path, f, rs) ==
  path # <<>> /\ \E hop \in [DOMAIN path -> Applied(k, "DL", rs)] :
    /\ \A i \in DOMAIN path :
         hop[i].upf = path[i].node /\ hop[i].fwd = IF i = 1 THEN f ELSE hop[i - 1].listen
    /\ hop[Len(path)].listen = None

\* When CreateSessionDownlink succeeds the whole path is in place, from the anchor
\* to a gNB.
DownlinkComplete ==
  [][\A p \in Procs : call[p].pc = "dlPush" /\ call'[p].res = "ok" =>
       \E f \in GnbFteids : Carries(call[p].key, call[p].path, f, installed')]_vars

-----------------------------------------------------------------------------
(* Liveness.                                                               *)

\* Every call of the SMF returns, with success or an error, unless the process
\* is gone.
CallsReturn == \A p \in Procs : call[p].pc # "idle" ~> call[p].pc = "idle" \/ crashed

=============================================================================
