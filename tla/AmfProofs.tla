----------------------------- MODULE AmfProofs -----------------------------
(***************************************************************************)
(* Theorems about the AMF: its handlers use the SMF as the SMF expects to  *)
(* be used, so what is proved of the SMF under any callers holds under the *)
(* AMF, whatever the gNBs send and whatever is lost.                       *)
(***************************************************************************)
EXTENDS Amf, SmfForwardProofs, FiniteSetTheorems, SequenceTheorems

-----------------------------------------------------------------------------
(* The messages and the handlers' variables.                               *)

EstabMsgs    == [kind : {"estab"}, ue : Ues, dnn : Dnns, gnb : Gnbs]
N2ReqMsgs    == [kind : {"n2req"}, ue : Ues, gnb : Gnbs, key : Keys, ul : Fteid]
N2RespMsgs   == [kind : {"n2resp"}, ue : Ues, gnb : Gnbs, key : Keys, dl : GnbFteids]
RequiredMsgs == [kind : {"hoRequired"}, ue : Ues, source : Gnbs, target : Gnbs,
                 indirect : BOOLEAN, sessions : Seq(Items)]
HandoverMsgs == [kind : {"hoRequest", "hoAck", "hoCommand", "hoNotify"}, ue : Ues,
                 source : Gnbs, target : Gnbs, sessions : Seq(Items)]
Msgs == EstabMsgs \union N2ReqMsgs \union N2RespMsgs \union RequiredMsgs \union HandoverMsgs

\* What the establishment handler keeps of its request.
Requests == [kind : {"n2req"}, ue : Ues, gnb : Gnbs, key : Keys]

JobsOf(kind, pcs, ms) ==
  [kind : {kind}, pc : pcs, m : ms, n : Nat \ {0}, out : Seq(Items), inter : BOOLEAN,
   ind : BOOLEAN, dl : GnbFteids \union {None}]
EstabJobs    == JobsOf("estab", {"loop"}, EstabMsgs)
ReplyJobs    == JobsOf("estab", {"reply", "sent"}, Requests)
N2RespJobs   == JobsOf("n2resp", {"loop", "end"}, N2RespMsgs)
RequiredJobs == JobsOf("required", {"loop", "path", "uplink", "sent"}, RequiredMsgs)
AckJobs      == JobsOf("ack", {"loop", "dl", "store", "fwTarget", "fwSource", "fwDone", "sent"}, HandoverMsgs)
NotifyJobs   == JobsOf("notify", {"loop", "switch", "path", "down", "reset"}, HandoverMsgs)
Jobs == EstabJobs \union ReplyJobs \union N2RespJobs \union RequiredJobs \union AckJobs \union NotifyJobs

-----------------------------------------------------------------------------
(* What a handler knows while it waits for the SMF.                        *)

\* An uplink path is being set up for session k, or has been.
Asks(p, k) ==
  /\ call[p].pc # "idle" => /\ call[p].pc \in {"ulQueue", "ulPush", "ulStore", "ulAdd"}
                            /\ call[p].key = k
  /\ call[p].pc = "idle" /\ call[p].res # "err" => sessions[k] # None

\* A forwarding rule is being set up for session k, or listens.
Forwards(p, k) ==
  /\ call[p].pc # "idle" => call[p].pc \in {"fwQueue", "fwPush"} /\ call[p].key = k
  /\ call[p].pc = "idle" /\ call[p].res = "ok" => call[p].last \in Targets(k)

AckPcs    == {"dl", "store", "fwTarget", "fwSource", "fwDone"}
NotifyPcs == {"switch", "path", "down", "reset"}

\* A handler works on a session of its message; it has looked the session up, which
\* is never removed, before it reads the fields.
JobOK(p) ==
  LET j == job[p] IN
  /\ j.kind = "estab" /\ j.pc = "reply" => j.m.key \in used /\ Asks(p, j.m.key)
  /\ j.kind = "required" /\ j.pc \in {"path", "uplink"} => j.n \in DOMAIN j.m.sessions
  /\ j.kind = "required" /\ j.pc = "uplink" => Asks(p, Key(p))
  /\ j.kind = "ack" /\ j.pc \in AckPcs => j.n \in DOMAIN j.m.sessions /\ sessions[Key(p)] # None
  /\ j.kind = "ack" /\ j.pc = "store" /\ j.ind => AckFteid(p) # None
  /\ j.kind = "ack" /\ j.pc = "fwTarget" => AckFteid(p) # None
  /\ j.kind = "ack" /\ j.pc = "fwSource" => Forwards(p, Key(p))
  /\ j.kind = "notify" /\ j.pc \in NotifyPcs => j.n \in DOMAIN j.m.sessions /\ sessions[Key(p)] # None

JobsInv ==
  /\ job \in [Procs -> Jobs \union {NoJob}]
  /\ \A p \in Procs : job[p] # NoJob => JobOK(p)

MsgsInv ==
  /\ msgs \subseteq Msgs
  /\ \A m \in msgs : m.kind = "n2req" => m.key \in used
  /\ used \subseteq Keys /\ active \subseteq used /\ IsFiniteSet(active)
  /\ moving \subseteq Ues /\ at \in [Ues -> Gnbs \union {None}]

AmfInv == JobsInv /\ MsgsInv

-----------------------------------------------------------------------------
(* Lemmas about jobs.                                                      *)

LEMMA NoJobKind == NoJob \notin Jobs
  BY DEF NoJob, Jobs, JobsOf, EstabJobs, ReplyJobs, N2RespJobs, RequiredJobs, AckJobs, NotifyJobs

\* The kind of a job, and for an establishment its place, say what its variables are.
LEMMA JobKinds ==
  ASSUME NEW j \in Jobs
  PROVE  /\ j.kind = "estab" /\ j.pc = "loop" => j \in EstabJobs
         /\ j.kind = "estab" /\ j.pc = "reply" => j \in ReplyJobs
         /\ j.kind = "n2resp" => j \in N2RespJobs
         /\ j.kind = "required" => j \in RequiredJobs
         /\ j.kind = "ack" => j \in AckJobs
         /\ j.kind = "notify" => j \in NotifyJobs
         /\ j.kind \in {"estab", "n2resp", "required", "ack", "notify"}
  BY DEF Jobs, JobsOf, EstabJobs, ReplyJobs, N2RespJobs, RequiredJobs, AckJobs, NotifyJobs

LEMMA JobMembers ==
  ASSUME NEW kind, NEW pcs, NEW ms, NEW j \in JobsOf(kind, pcs, ms)
  PROVE  /\ j.kind = kind /\ j.pc \in pcs /\ j.m \in ms /\ j.n \in Nat \ {0} /\ j.out \in Seq(Items)
         /\ j.inter \in BOOLEAN /\ j.ind \in BOOLEAN /\ j.dl \in GnbFteids \union {None}
  BY DEF JobsOf

LEMMA JobMoves ==
  ASSUME NEW kind, NEW pcs, NEW ms, NEW j \in JobsOf(kind, pcs, ms), NEW pc \in pcs
  PROVE  /\ [j EXCEPT !.pc = pc] \in JobsOf(kind, pcs, ms)
         /\ [j EXCEPT !.pc = pc].kind = kind /\ [j EXCEPT !.pc = pc].pc = pc
         /\ [j EXCEPT !.pc = pc].m = j.m /\ [j EXCEPT !.pc = pc].n = j.n
         /\ [j EXCEPT !.pc = pc].ind = j.ind
  BY DEF JobsOf

\* The next session, without an entry for the former one or with one.
LEMMA JobLoopsIn ==
  ASSUME NEW j \in Jobs, j.kind \in {"required", "ack", "notify"},
         NEW n \in Nat \ {0}, NEW out \in Seq(Items), NEW i,
         \/ i = [j EXCEPT !.pc = "loop", !.n = n]
         \/ i = [j EXCEPT !.pc = "loop", !.n = n, !.out = out]
  PROVE  i \in Jobs /\ i.pc = "loop"
<1>1. PICK kind, pcs, ms : /\ JobsOf(kind, pcs, ms) \in {RequiredJobs, AckJobs, NotifyJobs}
                           /\ "loop" \in pcs /\ j \in JobsOf(kind, pcs, ms)
  <2>1. j.kind = "required" => j \in RequiredJobs
    BY JobKinds
  <2>2. j.kind = "ack" => j \in AckJobs
    BY JobKinds
  <2>3. j.kind = "notify" => j \in NotifyJobs
    BY JobKinds
  <2> QED
    BY <2>1, <2>2, <2>3 DEF RequiredJobs, AckJobs, NotifyJobs
<1>2. i \in JobsOf(kind, pcs, ms) /\ i.pc = "loop"
  BY <1>1 DEF JobsOf
<1> QED
  BY <1>1, <1>2 DEF Jobs

LEMMA ItemTypes ==
  ASSUME NEW k \in Keys, NEW ul \in Fteid \union {None}, NEW dl \in GnbFteids \union {None},
         NEW fwd \in Fteid \union GnbFteids \union {None}
  PROVE  Item(k, ul, dl, fwd) \in Items
  BY DEF Item, Items

\* A handover names the gNBs and lists sessions.
LEMMA HandoverJob ==
  ASSUME NEW j \in Jobs, j.kind \in {"required", "ack", "notify"}
  PROVE  j.m.sessions \in Seq(Items) /\ j.m.source \in Gnbs /\ j.m.target \in Gnbs /\ j.m.ue \in Ues
<1>1. CASE j.kind = "required"
  <2>1. j.m \in RequiredMsgs
    BY <1>1, JobKinds, JobMembers DEF RequiredJobs
  <2> QED
    BY <2>1 DEF RequiredMsgs
<1>2. CASE j.kind \in {"ack", "notify"}
  <2>1. j.m \in HandoverMsgs
    BY <1>2, JobKinds, JobMembers DEF AckJobs, NotifyJobs
  <2> QED
    BY <2>1 DEF HandoverMsgs
<1> QED
  BY <1>1, <1>2

\* The session a handler works on.
LEMMA KeyOfJob ==
  ASSUME NEW p, job[p].m.sessions \in Seq(Items), job[p].n \in DOMAIN job[p].m.sessions
  PROVE  /\ Key(p) \in Keys /\ AckFteid(p) \in GnbFteids \union {None}
         /\ job[p].m.sessions[job[p].n].ul \in Fteid \union {None}
<1>1. job[p].m.sessions[job[p].n] \in Items
  OBVIOUS
<1> QED
  BY <1>1 DEF Key, AckFteid, Items

-----------------------------------------------------------------------------
(* What a handler waits for stays true while others work ...               *)

\* A call keeps its place and its result.
CallStays(p) ==
  /\ call'[p].pc = call[p].pc /\ call'[p].key = call[p].key
  /\ call'[p].last = call[p].last /\ call'[p].res = call[p].res

LEMMA TargetsStay ==
  ASSUME SmfInv, [Next]_vars, NEW k \in Keys, NEW f \in Targets(k)
  PROVE  f \in Targets(k)'
<1>1. CASE f \in GnbFteids
  BY <1>1 DEF Targets
<1>2. CASE f \notin GnbFteids
  <2>1. Live(k.ip, k.dnn, "DL", f) /\ f # None
    BY <1>2 DEF Targets, Live
  <2>2. Live(k.ip, k.dnn, "DL", f)'
    BY <2>1, LiveStays DEF SmfInv
  <2> QED
    BY <2>1, <2>2 DEF Targets, Live
<1> QED
  BY <1>1, <1>2

\* What a handler may wait for.
Waiting(p) ==
  \A k \in Keys : (Asks(p, k) => Asks(p, k)') /\ (Forwards(p, k) => Forwards(p, k)')

LEMMA CallWaiting ==
  ASSUME SmfInv, [Next]_vars, NEW p \in Procs, CallStays(p)
  PROVE  Waiting(p)
<1>1. \A k \in Keys : sessions[k] # None => sessions'[k] # None
  BY SessionsStay DEF SmfInv
<1>2. \A k \in Keys : Asks(p, k) => Asks(p, k)'
  BY <1>1 DEF Asks, CallStays
<1>3. \A k \in Keys : Forwards(p, k) => Forwards(p, k)'
  BY TargetsStay DEF Forwards, CallStays
<1> QED
  BY <1>2, <1>3 DEF Waiting

LEMMA JobStays ==
  ASSUME SmfInv, [Next]_vars, NEW p \in Procs, job[p] \in Jobs, JobOK(p), Waiting(p),
         job'[p] = job[p], used \subseteq used', used \subseteq Keys
  PROVE  JobOK(p)'
<1>1. PICK j : j = job[p]
  OBVIOUS
<1>2. \A k \in Keys : sessions[k] # None => sessions'[k] # None
  BY SessionsStay DEF SmfInv
<1>3. \A k \in Keys : Asks(p, k) => Asks(p, k)'
  BY DEF Waiting
<1>4. \A k \in Keys : Forwards(p, k) => Forwards(p, k)'
  BY DEF Waiting
<1>5. j.kind \in {"required", "ack", "notify"} => j.m.sessions \in Seq(Items)
  BY <1>1, HandoverJob
<1>6. /\ j.kind = "required" /\ j.pc \in {"path", "uplink"} => Key(p) \in Keys
      /\ j.kind = "ack" /\ j.pc \in AckPcs => Key(p) \in Keys
      /\ j.kind = "notify" /\ j.pc \in NotifyPcs => Key(p) \in Keys
  BY <1>1, <1>5, KeyOfJob DEF JobOK
<1>7. PICK k : k = Key(p)
  OBVIOUS
<1>8. Key(p)' = k /\ AckFteid(p)' = AckFteid(p)
  BY <1>7 DEF Key, AckFteid
<1>9. j.kind = "estab" /\ j.pc = "reply" => j.m.key \in Keys
  BY <1>1 DEF JobOK
<1> QED
  BY <1>1, <1>2, <1>3, <1>4, <1>6, <1>7, <1>8, <1>9 DEF JobOK, AckPcs, NotifyPcs

-----------------------------------------------------------------------------
(* ... and comes true when its own call goes on.                           *)

LEMMA StepPc ==
  ASSUME NEW p, Step(p)
  PROVE  call[p].pc # "idle"
  BY DEF Step, UplinkQueue, UplinkPush, UplinkStore, UplinkAdd, DownlinkRead, DownlinkQueue, DownlinkFar,
     DownlinkPush, FwQueue, FwPush, SwitchQueue, SwitchPush, At

\* A call that sets up an uplink path returns an error or leaves the session stored.
LEMMA AsksRuns ==
  ASSUME SmfInv, [Next]_vars, NEW p \in Procs, Step(p), NEW k \in Keys, Asks(p, k)
  PROVE  Asks(p, k)'
<1>1. call[p] \in Call /\ call \in [Procs -> Call] /\ sessions \in [Keys -> Session \union {None}]
  BY DEF SmfInv, TypeInv, TypeOK
<1>2. call[p].key = k /\ call[p].pc \in {"ulQueue", "ulPush", "ulStore", "ulAdd"}
  BY StepPc DEF Asks
<1>3. UplinkQueue(p) \/ UplinkPush(p) \/ UplinkStore(p) \/ UplinkAdd(p)
  BY <1>2 DEF Step, DownlinkRead, DownlinkQueue, DownlinkFar, DownlinkPush, FwQueue, FwPush, SwitchQueue, SwitchPush, At
<1>4. CASE UplinkQueue(p)
  BY <1>1, <1>2, <1>4 DEF UplinkQueue, Return, Idle, Asks, Call
<1>5. CASE UplinkPush(p)
  BY <1>1, <1>2, <1>5 DEF UplinkPush, Return, Idle, Asks, Call
<1>6. CASE UplinkStore(p)
  <2>1. CASE sessions[k] = None
    BY <1>1, <1>2, <1>6, <2>1 DEF UplinkStore, Asks, Call
  <2>2. CASE sessions[k] # None
    BY <2>2, <1>1, <1>2, <1>6, SessionsStay DEF UplinkStore, Asks, Return, Idle, SmfInv
  <2> QED
    BY <2>1, <2>2
<1>7. CASE UplinkAdd(p)
  <2>1. PICK s : s = [ul |-> call[p].last, dl |-> None, next |-> None, far |-> 0, indirect |-> FALSE]
    OBVIOUS
  <2>2. call[p].last \in Fteid
    BY <1>7 DEF UplinkAdd, At, SmfInv, TypeInv, CallOK
  <2>3. s \in Session
    BY <2>1, <2>2 DEF Session
  <2>4. sessions'[k] = s /\ call'[p].pc = "idle"
    BY <1>1, <1>2, <1>7, <2>1 DEF UplinkAdd, SessionAdded, Idle
  <2> QED
    BY <2>3, <2>4, NoneAssumption DEF Asks
<1> QED
  BY <1>3, <1>4, <1>5, <1>6, <1>7

\* A call that sets up a forwarding rule returns an error or an F-TEID listened on.
LEMMA ForwardsRuns ==
  ASSUME SmfInv, [Next]_vars, NEW p \in Procs, Step(p), NEW k \in Keys, Forwards(p, k)
  PROVE  Forwards(p, k)'
<1>1. call[p] \in Call /\ call \in [Procs -> Call]
  BY DEF SmfInv, TypeInv, TypeOK
<1>2. call[p].key = k /\ call[p].pc \in {"fwQueue", "fwPush"}
  BY StepPc DEF Forwards
<1>3. FwQueue(p) \/ FwPush(p)
  BY <1>2 DEF Step, DownlinkRead, DownlinkQueue, DownlinkFar, DownlinkPush, UplinkQueue, UplinkPush, UplinkStore, UplinkAdd,
     SwitchQueue, SwitchPush, At
<1>4. CASE FwQueue(p)
  BY <1>1, <1>2, <1>4 DEF FwQueue, Return, Idle, Forwards, Call
<1>5. CASE FwPush(p) /\ Return(p, "err", None)
  BY <1>1, <1>5 DEF Return, Idle, Forwards
<1>6. CASE FwPush(p) /\ Return(p, "ok", call[p].last) /\ UpdateSessionOk(Hop(p).node, Ip(p))
  <2>1. PICK u, f : u = Hop(p).node /\ f = call[p].last
    OBVIOUS
  <2>2. u \in Upfs /\ k.ip \in Ips /\ Ip(p) = k.ip /\ created \in [Upfs -> [Ips -> SUBSET Rule]]
    BY <1>2, <1>6, <2>1, KeyType DEF FwPush, At, SmfInv, TypeInv, TypeOK, CallOK, Hop, Ip
  <2>3. Pushes(u, k.ip) /\ created'[u][k.ip] = {}
    BY <1>6, <2>1, <2>2 DEF Pushes, UpdateSessionOk
  <2>4. f \in Fteid \union GnbFteids
    BY <1>6, <2>1 DEF FwPush, At, SmfInv, TypeInv, CallOK
  <2>5. CASE f \in GnbFteids
    BY <1>1, <1>6, <2>1, <2>5 DEF Return, Idle, Forwards, Targets
  <2>6. CASE f \in Fteid
    <3>1. Soon(u, k.ip, k.dnn, "DL", f)
      BY <1>2, <1>6, <2>1, <2>6 DEF FwPush, At, SmfInv, FwdInv, FwdCall, Hop
    <3>2. Live(k.ip, k.dnn, "DL", f)'
      BY <2>2, <2>3, <3>1, PushLands DEF SmfInv
    <3>3. f # None
      BY <2>6, FteidAssumption
    <3>4. f \in Targets(k)'
      BY <3>2, <3>3 DEF Targets, Live
    <3>5. call'[p].pc = "idle" /\ call'[p].last = f
      BY <1>1, <1>6, <2>1 DEF Return, Idle
    <3> QED
      BY <3>4, <3>5 DEF Forwards
  <2> QED
    BY <2>4, <2>5, <2>6
<1> QED
  BY <1>3, <1>4, <1>5, <1>6 DEF FwPush

LEMMA StepWaiting ==
  ASSUME SmfInv, [Next]_vars, NEW p \in Procs, Step(p)
  PROVE  Waiting(p)
  BY AsksRuns, ForwardsRuns DEF Waiting

\* Only the job of p changes: the other handlers have what they wait for.
LEMMA JobsStep ==
  ASSUME SmfInv, JobsInv, used \subseteq Keys, [Next]_vars, NEW p \in Procs,
         UNCHANGED vars \/ Begin(p) \/ Step(p) \/ End(p), used \subseteq used',
         NEW j \in Jobs \union {NoJob}, job' = [job EXCEPT ![p] = j], j # NoJob => JobOK(p)'
  PROVE  JobsInv'
<1>1. job' \in [Procs -> Jobs \union {NoJob}]
  BY DEF JobsInv
<1>2. ASSUME NEW q \in Procs, q # p, job'[q] # NoJob PROVE JobOK(q)'
  <2>1. CallStays(q)
    BY <1>2, OthersStay DEF SmfInv, CallStays, vars
  <2>2. Waiting(q)
    BY <2>1, CallWaiting
  <2>3. job'[q] = job[q] /\ job[q] \in Jobs
    BY <1>2 DEF JobsInv
  <2> QED
    BY <1>2, <2>2, <2>3, JobStays DEF JobsInv
<1>3. job'[p] = j
  BY DEF JobsInv
<1> QED
  BY <1>1, <1>2, <1>3 DEF JobsInv

LEMMA JobsSame ==
  ASSUME SmfInv, JobsInv, used \subseteq Keys, [Next]_vars, NEW p \in Procs,
         UNCHANGED vars \/ Step(p) \/ Cancel \/ ServerStop, used \subseteq used', UNCHANGED job
  PROVE  JobsInv'
<1> SUFFICES ASSUME NEW q \in Procs, job[q] # NoJob PROVE JobOK(q)'
  BY DEF JobsInv
<1>1. CASE q # p \/ UNCHANGED vars \/ Cancel \/ ServerStop
  <2>1. CallStays(q)
    BY <1>1, OthersStay DEF SmfInv, CallStays, vars, Cancel, ServerStop
  <2> QED
    BY <2>1, CallWaiting, JobStays DEF JobsInv
<1>2. CASE q = p /\ Step(p)
  BY <1>2, StepWaiting, JobStays DEF JobsInv
<1> QED
  BY <1>1, <1>2

-----------------------------------------------------------------------------
(* What a handler finds in its variables.                                  *)

LEMMA AtHandover ==
  ASSUME SmfInv, AmfInv, NEW p \in Procs, NEW kind \in {"required", "ack", "notify"}, NEW pc,
         JobAt(p, kind, pc)
  PROVE  /\ job[p] \in Jobs /\ JobOK(p) /\ job[p].kind = kind /\ job[p].pc = pc
         /\ job[p].m.sessions \in Seq(Items) /\ job[p].m.source \in Gnbs /\ job[p].m.target \in Gnbs
         /\ job[p].m.ue \in Ues
  BY HandoverJob DEF AmfInv, JobsInv, JobAt

\* The session it works on, once it has started with it ...
LEMMA AtSession ==
  ASSUME SmfInv, AmfInv, NEW p \in Procs, NEW kind \in {"required", "ack", "notify"}, NEW pc,
         JobAt(p, kind, pc), pc \notin {"loop", "sent"} \/ (pc = "loop" /\ More(p))
  PROVE  /\ job[p].n \in DOMAIN job[p].m.sessions
         /\ Key(p) \in Keys /\ AckFteid(p) \in GnbFteids \union {None}
         /\ job[p].m.sessions[job[p].n].ul \in Fteid \union {None}
<1>1. /\ job[p] \in Jobs /\ JobOK(p) /\ job[p].kind = kind /\ job[p].pc = pc
      /\ job[p].m.sessions \in Seq(Items)
  BY AtHandover
<1>2. job[p].n \in Nat \ {0}
  BY <1>1, JobKinds, JobMembers DEF RequiredJobs, AckJobs, NotifyJobs
<1>3. CASE pc = "loop"
  BY <1>1, <1>2, <1>3, KeyOfJob DEF More
<1>4. CASE pc # "loop"
  <2>1. kind = "required" => pc \in {"path", "uplink"}
    BY <1>1, <1>4, JobKinds, JobMembers DEF RequiredJobs
  <2>2. job[p].n \in DOMAIN job[p].m.sessions
    <3>1. CASE kind = "required"
      BY <1>1, <2>1, <3>1 DEF JobOK
    <3>2. CASE kind = "ack"
      <4>1. pc \in AckPcs
        BY <1>1, <1>4, <3>2, JobKinds, JobMembers DEF AckJobs, AckPcs
      <4> QED
        BY <1>1, <3>2, <4>1 DEF JobOK
    <3>3. CASE kind = "notify"
      <4>1. pc \in NotifyPcs
        BY <1>1, <1>4, <3>3, JobKinds, JobMembers DEF NotifyJobs, NotifyPcs
      <4> QED
        BY <1>1, <3>3, <4>1 DEF JobOK
    <3> QED
      BY <3>1, <3>2, <3>3
  <2> QED
    BY <1>1, <2>2, KeyOfJob
<1> QED
  BY <1>3, <1>4

\* ... which is stored, when it has been looked up.
LEMMA AtStored ==
  ASSUME SmfInv, AmfInv, NEW p \in Procs, NEW kind \in {"ack", "notify"}, NEW pc,
         JobAt(p, kind, pc), pc \notin {"loop", "sent"}
  PROVE  sessions[Key(p)] \in Session
<1>1. job[p] \in Jobs /\ JobOK(p) /\ job[p].kind = kind /\ job[p].pc = pc /\ Key(p) \in Keys
  BY AtHandover, AtSession
<1>2. kind = "ack" => pc \in AckPcs
  BY <1>1, JobKinds, JobMembers DEF AckJobs, AckPcs
<1>3. kind = "notify" => pc \in NotifyPcs
  BY <1>1, JobKinds, JobMembers DEF NotifyJobs, NotifyPcs
<1>4. sessions[Key(p)] # None
  BY <1>1, <1>2, <1>3 DEF JobOK
<1> QED
  BY <1>1, <1>4 DEF SmfInv, TypeInv, TypeOK

-----------------------------------------------------------------------------
(* Every step of a handler is a call of the SMF that Smf allows, or none.  *)

Uses(p) == UNCHANGED vars \/ Begin(p) \/ End(p)

LEMMA EndedUses ==
  ASSUME NEW p, Ended(p)
  PROVE  Uses(p)
  BY DEF Ended, Uses

LEMMA PostUses ==
  ASSUME NEW p, NEW m, Post(p, m)
  PROVE  Uses(p)
  BY EndedUses DEF Post

LEMMA EstablishUses ==
  ASSUME SmfInv, AmfInv, NEW p \in Procs,
         EstablishUplink(p) \/ EstablishReply(p) \/ EstablishDownlink(p) \/ EstablishEnd(p)
  PROVE  Uses(p)
<1>1. CASE EstablishUplink(p)
  <2>1. job[p] \in EstabJobs
    BY <1>1, JobKinds DEF EstablishUplink, JobAt, AmfInv, JobsInv
  <2>2. job[p].m.gnb \in Gnbs
    <3>1. job[p].m \in EstabMsgs
      BY <2>1, JobMembers DEF EstabJobs
    <3> QED
      BY <3>1 DEF EstabMsgs
  <2>3. Ended(p) \/ \E k \in Keys : BeginUplink(p, k, job[p].m.gnb)
    BY <1>1 DEF EstablishUplink, Finish
  <2> QED
    BY <2>2, <2>3, EndedUses DEF Uses, Begin
<1>2. CASE EstablishReply(p) \/ EstablishEnd(p)
  BY <1>2, EndedUses, PostUses DEF EstablishReply, EstablishEnd, Finish, Uses
<1>3. CASE EstablishDownlink(p)
  <2>1. job[p] \in N2RespJobs
    BY <1>3, JobKinds DEF EstablishDownlink, JobAt, AmfInv, JobsInv
  <2>2. job[p].m.gnb \in Gnbs /\ job[p].m.key \in Keys /\ job[p].m.dl \in GnbFteids
    <3>1. job[p].m \in N2RespMsgs
      BY <2>1, JobMembers DEF N2RespJobs
    <3> QED
      BY <3>1 DEF N2RespMsgs
  <2> QED
    BY <1>3, <2>2 DEF EstablishDownlink, Uses, Begin
<1> QED
  BY <1>1, <1>2, <1>3

LEMMA RequiredUses ==
  ASSUME SmfInv, AmfInv, NEW p \in Procs,
         RequiredFlag(p) \/ RequiredPath(p) \/ RequiredUplink(p) \/ RequiredSend(p)
  PROVE  Uses(p)
<1>1. CASE RequiredFlag(p)
  <2>1. Key(p) \in Keys
    BY <1>1, AtSession DEF RequiredFlag
  <2> QED
    BY <1>1, <2>1 DEF RequiredFlag, Uses, Begin
<1>2. CASE RequiredPath(p)
  <2>1. Key(p) \in Keys /\ job[p].m.target \in Gnbs
    BY <1>2, AtSession, AtHandover DEF RequiredPath
  <2> QED
    BY <1>2, <2>1 DEF RequiredPath, Uses, Begin
<1>3. CASE RequiredUplink(p) \/ RequiredSend(p)
  BY <1>3, PostUses DEF RequiredUplink, RequiredSend, Uses
<1> QED
  BY <1>1, <1>2, <1>3

LEMMA AckUses ==
  ASSUME SmfInv, AmfInv, NEW p \in Procs,
         AckFlag(p) \/ AckDownlink(p) \/ AckStore(p) \/ AckForwardTarget(p) \/ AckForwardSource(p)
         \/ AckForwarded(p) \/ AckSend(p)
  PROVE  Uses(p)
<1>1. CASE AckStore(p)
  <2>1. Key(p) \in Keys /\ AckFteid(p) \in GnbFteids \union {None}
    BY <1>1, AtSession DEF AckStore
  <2> QED
    BY <1>1, <2>1 DEF AckStore, Uses, Begin
<1>2. CASE AckForwardTarget(p)
  <2>1. /\ Key(p) \in Keys /\ AckFteid(p) \in GnbFteids \union {None} /\ job[p].m.target \in Gnbs
        /\ JobOK(p) /\ job[p].kind = "ack" /\ job[p].pc = "fwTarget"
    BY <1>2, AtSession, AtHandover DEF AckForwardTarget
  <2>2. AckFteid(p) \in Targets(Key(p))
    BY <2>1 DEF JobOK, Targets
  <2> QED
    BY <1>2, <2>1, <2>2 DEF AckForwardTarget, Uses, Begin
<1>3. CASE AckForwardSource(p)
  <2>1. /\ Key(p) \in Keys /\ job[p].m.source \in Gnbs
        /\ JobOK(p) /\ job[p].kind = "ack" /\ job[p].pc = "fwSource" /\ call[p].pc = "idle"
    BY <1>3, AtSession, AtHandover DEF AckForwardSource, JobAt
  <2>2. call[p].res = "ok" => call[p].last \in Targets(Key(p))
    BY <2>1 DEF JobOK, Forwards
  <2>3. UNCHANGED vars \/ (call[p].res = "ok" /\ \E h \in FirstUpfs(Key(p).dnn, job[p].m.source) :
                                BeginForward(p, Key(p), h, call[p].last))
    BY <1>3 DEF AckForwardSource
  <2> QED
    BY <2>1, <2>2, <2>3 DEF Uses, Begin
<1>4. CASE AckFlag(p) \/ AckDownlink(p) \/ AckForwarded(p) \/ AckSend(p)
  BY <1>4, PostUses DEF AckFlag, AckDownlink, AckForwarded, AckSend, Uses
<1> QED
  BY <1>1, <1>2, <1>3, <1>4

LEMMA NotifyUses ==
  ASSUME SmfInv, AmfInv, NEW p \in Procs,
         NotifyFlag(p) \/ NotifySwitch(p) \/ NotifyPath(p) \/ NotifyDown(p) \/ NotifyReset(p)
         \/ NotifyEnd(p)
  PROVE  Uses(p)
<1>1. CASE NotifySwitch(p)
  <2>1. Key(p) \in Keys /\ job[p].m.source \in Gnbs
    BY <1>1, AtSession, AtHandover DEF NotifySwitch
  <2> QED
    BY <1>1, <2>1 DEF NotifySwitch, Uses, Begin
<1>2. CASE NotifyPath(p)
  <2>1. Key(p) \in Keys /\ job[p].m.target \in Gnbs /\ sessions[Key(p)] \in Session
    BY <1>2, AtSession, AtHandover, AtStored DEF NotifyPath
  <2>2. GetNextDownlinkFteid(Key(p)) \in GnbFteids \union {None}
    BY <2>1 DEF GetNextDownlinkFteid, Session
  <2> QED
    BY <1>2, <2>1, <2>2 DEF NotifyPath, Uses, Begin
<1>3. CASE NotifyReset(p)
  <2>1. Key(p) \in Keys
    BY <1>3, AtSession DEF NotifyReset
  <2> QED
    BY <1>3, <2>1 DEF NotifyReset, Uses, Begin
<1>4. CASE NotifyFlag(p) \/ NotifyDown(p) \/ NotifyEnd(p)
  BY <1>4, EndedUses DEF NotifyFlag, NotifyDown, NotifyEnd, Finish, Uses
<1> QED
  BY <1>1, <1>2, <1>3, <1>4

LEMMA HandlerUses ==
  ASSUME SmfInv, AmfInv, NEW p \in Procs, HandlerStep(p)
  PROVE  Uses(p)
<1>1. GiveUp(p) => Uses(p)
  BY DEF GiveUp, Uses
<1> QED
  BY <1>1, EstablishUses, RequiredUses, AckUses, NotifyUses DEF HandlerStep

\* A step of the AMF, its UEs and gNBs is a step of the SMF or leaves it alone.
LEMMA StepRefines ==
  ASSUME SmfInv, AmfInv, [AmfNext]_allVars
  PROVE  [Next]_vars
<1>1. ASSUME NEW p \in Procs, HandlerStep(p) PROVE [Next]_vars
  BY <1>1, HandlerUses DEF Uses, Next
<1>2. ASSUME NEW p \in Procs, SmfStep(p) PROVE [Next]_vars
  BY <1>2 DEF SmfStep, Next
<1>3. ASSUME NEW p \in Procs, NEW m \in msgs, Deliver(p, m) PROVE UNCHANGED vars
  BY <1>3 DEF Deliver
<1>4. ASSUME Env PROVE UNCHANGED vars
  BY <1>4 DEF Env, Answered, UeRequests, SourceRequires, GnbAccepts, TargetAcks, UeMoves, Lose
<1>5. ASSUME Stopping PROVE [Next]_vars
  BY <1>5 DEF Stopping, Next
<1> QED
  BY <1>1, <1>2, <1>3, <1>4, <1>5 DEF AmfNext, allVars

-----------------------------------------------------------------------------
(* What the steps of a handler make of its job.                            *)

\* The job of p is replaced by one that has what it waits for, or ends.
Proceeds(p) ==
  \E j \in Jobs \union {NoJob} : job' = [job EXCEPT ![p] = j] /\ (j # NoJob => JobOK(p)')

LEMMA ProceedsDone ==
  ASSUME NEW p, Done(p)
  PROVE  Proceeds(p)
  BY DEF Done, Proceeds

LEMMA ProceedsTo ==
  ASSUME JobsInv, NEW p \in Procs, NEW j \in Jobs, job' = [job EXCEPT ![p] = j],
         j.pc \in {"loop", "end", "sent"} \/ JobOK(p)'
  PROVE  Proceeds(p)
<1>1. job'[p] = j
  BY DEF JobsInv
<1>2. j.pc \in {"loop", "end", "sent"} => JobOK(p)'
  <2>1. j.pc \in {"loop", "end", "sent"} =>
          job'[p].pc \notin {"reply", "path", "uplink"} \union AckPcs \union NotifyPcs
    BY <1>1 DEF AckPcs, NotifyPcs
  <2> QED
    BY <1>1, <2>1 DEF JobOK, AckPcs
<1> QED
  BY <1>2 DEF Proceeds

\* Nor when the answer of a gNB is.
LEMMA ProceedsPost ==
  ASSUME JobsInv, NEW p \in Procs, job[p] \in ReplyJobs \union RequiredJobs \union AckJobs, NEW m, Post(p, m)
  PROVE  Proceeds(p)
<1>1. PICK j : j = [job[p] EXCEPT !.pc = "sent", !.out = <<>>]
  OBVIOUS
<1>2. <<>> \in Seq(Items)
  OBVIOUS
<1>3. j \in Jobs /\ j.pc = "sent"
  <2>1. ASSUME NEW kind, NEW pcs, NEW ms, "sent" \in pcs, job[p] \in JobsOf(kind, pcs, ms)
        PROVE  j \in JobsOf(kind, pcs, ms) /\ j.pc = "sent"
    BY <1>1, <1>2, <2>1 DEF JobsOf
  <2> QED
    BY <2>1 DEF Jobs, ReplyJobs, RequiredJobs, AckJobs
<1>4. job' = [job EXCEPT ![p] = j] \/ Done(p)
  BY <1>1 DEF Post, JobsInv
<1> QED
  BY <1>3, <1>4, ProceedsTo, ProceedsDone

\* Between two sessions nothing is waited for.
LEMMA ProceedsLoop ==
  ASSUME JobsInv, NEW p \in Procs, job[p] \in Jobs, job[p].kind \in {"required", "ack", "notify"},
         Continue(p) \/ \E item \in Items : Add(p, item)
  PROVE  Proceeds(p)
<1>1. job[p].n \in Nat \ {0} /\ job[p].out \in Seq(Items)
  BY JobKinds, JobMembers DEF RequiredJobs, AckJobs, NotifyJobs
<1>2. PICK n \in Nat \ {0} : n = job[p].n + 1
  BY <1>1
<1>3. CASE Continue(p)
  <2>1. PICK j : j = [job[p] EXCEPT !.pc = "loop", !.n = n]
    OBVIOUS
  <2>2. j \in Jobs /\ j.pc = "loop"
    BY <1>1, <2>1, JobLoopsIn
  <2>3. job' = [job EXCEPT ![p] = j]
    BY <1>2, <1>3, <2>1 DEF Continue, JobsInv
  <2> QED
    BY <2>2, <2>3, ProceedsTo
<1>4. ASSUME NEW item \in Items, Add(p, item) PROVE Proceeds(p)
  <2>1. PICK out \in Seq(Items) : out = Append(job[p].out, item)
    BY <1>1, AppendProperties
  <2>2. PICK j : j = [job[p] EXCEPT !.pc = "loop", !.n = n, !.out = out]
    OBVIOUS
  <2>3. j \in Jobs /\ j.pc = "loop"
    BY <2>2, JobLoopsIn
  <2>4. job' = [job EXCEPT ![p] = j]
    BY <1>2, <1>4, <2>1, <2>2 DEF Add, JobsInv
  <2> QED
    BY <2>3, <2>4, ProceedsTo
<1> QED
  BY <1>3, <1>4

\* The next place in the handler, for the same session.
Places == [n2resp   |-> {"loop", "end"}, required |-> {"loop", "path", "uplink"},
           ack      |-> {"loop", "dl", "store", "fwTarget", "fwSource", "fwDone"},
           notify   |-> {"loop", "switch", "path", "down", "reset"}]

LEMMA GotoKeeps ==
  ASSUME JobsInv, NEW p \in Procs, job[p] \in Jobs, NEW kind \in {"n2resp", "required", "ack", "notify"},
         job[p].kind = kind, NEW pc \in Places[kind], Goto(p, pc)
  PROVE  /\ \E j \in Jobs : j = job'[p] /\ job' = [job EXCEPT ![p] = j]
         /\ job'[p].kind = kind /\ job'[p].pc = pc /\ job'[p].m = job[p].m /\ job'[p].n = job[p].n
         /\ job'[p].ind = job[p].ind /\ Key(p)' = Key(p) /\ AckFteid(p)' = AckFteid(p)
<1>1. PICK j : j = [job[p] EXCEPT !.pc = pc]
  OBVIOUS
<1>2. job' = [job EXCEPT ![p] = j] /\ job'[p] = j
  BY <1>1 DEF Goto, JobsInv
<1>3. j \in Jobs /\ j.kind = kind /\ j.pc = pc /\ j.m = job[p].m /\ j.n = job[p].n /\ j.ind = job[p].ind
  <2>1. CASE kind = "n2resp"
    BY <1>1, <2>1, JobKinds, JobMoves DEF N2RespJobs, Jobs, Places
  <2>2. CASE kind = "required"
    BY <1>1, <2>2, JobKinds, JobMoves DEF RequiredJobs, Jobs, Places
  <2>3. CASE kind = "ack"
    BY <1>1, <2>3, JobKinds, JobMoves DEF AckJobs, Jobs, Places
  <2>4. CASE kind = "notify"
    BY <1>1, <2>4, JobKinds, JobMoves DEF NotifyJobs, Jobs, Places
  <2> QED
    BY <2>1, <2>2, <2>3, <2>4
<1> QED
  BY <1>2, <1>3 DEF Key, AckFteid

\* A session looked up stays stored while its handler goes on.
LEMMA ProceedsStored ==
  ASSUME SmfInv, AmfInv, [Next]_vars, NEW p \in Procs, NEW kind \in {"ack", "notify"}, NEW from,
         JobAt(p, kind, from), from \notin {"loop", "sent"}, NEW pc \in Places[kind], Goto(p, pc),
         pc \notin {"store", "fwTarget", "fwSource"}
  PROVE  Proceeds(p)
<1>1. /\ job[p] \in Jobs /\ job[p].kind = kind /\ JobsInv /\ Key(p) \in Keys
      /\ job[p].n \in DOMAIN job[p].m.sessions
  BY AtHandover, AtSession DEF AmfInv
<1>2. PICK j \in Jobs : j = job'[p] /\ job' = [job EXCEPT ![p] = j]
  BY <1>1, GotoKeeps
<1>3. /\ job'[p].kind = kind /\ job'[p].pc = pc /\ job'[p].m = job[p].m /\ job'[p].n = job[p].n
      /\ Key(p)' = Key(p)
  BY <1>1, GotoKeeps
<1>4. sessions'[Key(p)] # None
  BY <1>1, AtStored, NoneAssumption, SessionsStay DEF SmfInv
<1>5. JobOK(p)'
  BY <1>1, <1>3, <1>4 DEF JobOK
<1> QED
  BY <1>1, <1>2, <1>5, ProceedsTo

-----------------------------------------------------------------------------
(* The steps of each handler.                                              *)

LEMMA UsesNext ==
  ASSUME NEW p \in Procs, Uses(p)
  PROVE  [Next]_vars
  BY DEF Uses, Next

LEMMA BeginUplinkAsks ==
  ASSUME SmfInv, NEW p \in Procs, NEW k \in Keys, NEW g, BeginUplink(p, k, g)
  PROVE  Asks(p, k)'
<1>1. call \in [Procs -> Call]
  BY DEF SmfInv, TypeInv, TypeOK
<1> QED
  BY <1>1 DEF BeginUplink, Return, Start, Idle, Asks

LEMMA BeginForwardForwards ==
  ASSUME SmfInv, NEW p \in Procs, NEW k \in Keys, NEW h, NEW f, BeginForward(p, k, h, f)
  PROVE  Forwards(p, k)'
<1>1. call \in [Procs -> Call]
  BY DEF SmfInv, TypeInv, TypeOK
<1> QED
  BY <1>1 DEF BeginForward, Return, Start, Idle, Forwards

LEMMA EstablishProceeds ==
  ASSUME SmfInv, AmfInv, NEW p \in Procs,
         EstablishUplink(p) \/ EstablishReply(p) \/ EstablishDownlink(p) \/ EstablishEnd(p)
  PROVE  Proceeds(p) \/ UNCHANGED <<vars, job>>
<1>0. JobsInv
  BY DEF AmfInv
<1>1. CASE EstablishUplink(p)
  <2>1. job[p] \in EstabJobs
    BY <1>1, JobKinds DEF EstablishUplink, JobAt, AmfInv, JobsInv
  <2>2. job[p].m \in EstabMsgs
    BY <2>1, JobMembers DEF EstabJobs
  <2>3. job[p].m.gnb \in Gnbs
    BY <2>2 DEF EstabMsgs
  <2>4. ASSUME NEW k \in Keys, BeginUplink(p, k, job[p].m.gnb), used' = used \union {k},
               job' = [job EXCEPT ![p].pc = "reply", ![p].m =
                         [kind |-> "n2req", ue |-> k.ue, gnb |-> job[p].m.gnb, key |-> k]]
        PROVE  Proceeds(p)
    <3>1. PICK m : m = [kind |-> "n2req", ue |-> k.ue, gnb |-> job[p].m.gnb, key |-> k]
      OBVIOUS
    <3>2. m \in Requests /\ m.key = k
      BY <2>3, <3>1 DEF Requests, Ues
    <3>3. PICK j : j = [job[p] EXCEPT !.pc = "reply", !.m = m]
      OBVIOUS
    <3>4. j \in ReplyJobs /\ j.kind = "estab" /\ j.pc = "reply" /\ j.m = m
      BY <2>1, <3>2, <3>3 DEF EstabJobs, ReplyJobs, JobsOf
    <3>5. job' = [job EXCEPT ![p] = j] /\ job'[p] = j
      BY <1>0, <2>4, <3>1, <3>3 DEF JobsInv
    <3>6. Asks(p, k)'
      BY <2>4, BeginUplinkAsks
    <3>7. JobOK(p)'
      BY <2>4, <3>2, <3>4, <3>5, <3>6 DEF JobOK
    <3> QED
      BY <1>0, <3>4, <3>5, <3>7, ProceedsTo DEF Jobs
  <2> QED
    BY <1>1, <2>4, ProceedsDone DEF EstablishUplink, Finish
<1>2. CASE EstablishReply(p) \/ EstablishEnd(p)
  <2>1. EstablishReply(p) => job[p] \in ReplyJobs
    BY JobKinds DEF EstablishReply, JobAt, AmfInv, JobsInv
  <2> QED
    BY <1>0, <1>2, <2>1, ProceedsDone, ProceedsPost DEF EstablishReply, EstablishEnd, Finish
<1>3. CASE EstablishDownlink(p)
  <2>1. job[p] \in Jobs /\ job[p].kind = "n2resp" /\ "end" \in Places["n2resp"]
    BY <1>3 DEF EstablishDownlink, JobAt, AmfInv, JobsInv, Places
  <2>2. PICK j \in Jobs : j = job'[p] /\ job' = [job EXCEPT ![p] = j]
    BY <1>0, <1>3, <2>1, GotoKeeps DEF EstablishDownlink
  <2>3. job'[p].pc = "end"
    BY <1>0, <1>3, <2>1, GotoKeeps DEF EstablishDownlink
  <2> QED
    BY <1>0, <2>2, <2>3, ProceedsTo
<1> QED
  BY <1>1, <1>2, <1>3

LEMMA RequiredProceeds ==
  ASSUME SmfInv, AmfInv, NEW p \in Procs,
         RequiredFlag(p) \/ RequiredPath(p) \/ RequiredUplink(p) \/ RequiredSend(p)
  PROVE  Proceeds(p)
<1>0. /\ JobsInv /\ job[p] \in Jobs /\ job[p].kind = "required" /\ JobOK(p)
      /\ {"path", "uplink"} \subseteq Places["required"]
  BY DEF AmfInv, JobsInv, RequiredFlag, RequiredPath, RequiredUplink, RequiredSend, JobAt, Places
<1>1. CASE RequiredSend(p)
  <2>1. job[p] \in RequiredJobs
    BY <1>0, JobKinds
  <2> QED
    BY <1>0, <1>1, <2>1, ProceedsPost DEF RequiredSend
<1>2. CASE Continue(p)
  BY <1>0, <1>2, ProceedsLoop
<1>3. ASSUME ~RequiredSend(p) PROVE Key(p) \in Keys /\ job[p].n \in DOMAIN job[p].m.sessions
  BY <1>3, AtSession DEF RequiredFlag, RequiredPath, RequiredUplink
<1>4. ASSUME ~RequiredSend(p), sessions[Key(p)] # None,
             Add(p, Item(Key(p), GetSessionUplinkFteid(Key(p)), None, None))
      PROVE  Proceeds(p)
  <2>1. sessions[Key(p)] \in Session
    BY <1>3, <1>4 DEF SmfInv, TypeInv, TypeOK
  <2>2. GetSessionUplinkFteid(Key(p)) \in Fteid
    BY <2>1 DEF GetSessionUplinkFteid, Session
  <2>3. Item(Key(p), GetSessionUplinkFteid(Key(p)), None, None) \in Items
    BY <1>3, <1>4, <2>2, ItemTypes
  <2> QED
    BY <1>0, <1>4, <2>3, ProceedsLoop
<1>5. CASE RequiredFlag(p) /\ Goto(p, "path")
  <2>1. PICK j \in Jobs : j = job'[p] /\ job' = [job EXCEPT ![p] = j]
    BY <1>0, <1>5, GotoKeeps
  <2>2. /\ job'[p].kind = "required" /\ job'[p].pc = "path"
        /\ job'[p].n = job[p].n /\ job'[p].m = job[p].m
    BY <1>0, <1>5, GotoKeeps
  <2>3. job'[p].n \in DOMAIN job'[p].m.sessions
    BY <1>5, <2>2, AtSession DEF RequiredFlag
  <2>4. JobOK(p)'
    BY <2>2, <2>3 DEF JobOK
  <2> QED
    BY <1>0, <2>1, <2>4, ProceedsTo
<1>6. CASE RequiredFlag(p)
  BY <1>2, <1>5, <1>6 DEF RequiredFlag
<1>7. CASE RequiredPath(p)
  <2>0. ~RequiredSend(p)
    BY <1>7 DEF RequiredPath, RequiredSend, JobAt
  <2>1. CASE BeginUplink(p, Key(p), job[p].m.target) /\ Goto(p, "uplink")
    <3>0. PICK k \in Keys : k = Key(p)
      BY <1>3, <2>0
    <3>1. PICK j \in Jobs : j = job'[p] /\ job' = [job EXCEPT ![p] = j]
      BY <1>0, <2>1, GotoKeeps
    <3>2. /\ job'[p].kind = "required" /\ job'[p].pc = "uplink" /\ Key(p)' = k
          /\ job'[p].n = job[p].n /\ job'[p].m = job[p].m
      BY <1>0, <2>1, <3>0, GotoKeeps
    <3>3. job'[p].n \in DOMAIN job'[p].m.sessions
      BY <1>3, <2>0, <3>2
    <3>4. Asks(p, k)'
      BY <2>1, <3>0, BeginUplinkAsks
    <3>5. JobOK(p)'
      BY <3>2, <3>3, <3>4 DEF JobOK, Asks
    <3> QED
      BY <1>0, <3>1, <3>5, ProceedsTo
  <2> QED
    BY <1>2, <1>4, <1>7, <2>0, <2>1 DEF RequiredPath, Known
<1>8. CASE RequiredUplink(p)
  <2>1. ~RequiredSend(p) /\ Asks(p, Key(p)) /\ call[p].pc = "idle"
    BY <1>0, <1>8 DEF RequiredUplink, RequiredSend, JobAt, JobOK
  <2>2. call[p].res # "err" => sessions[Key(p)] # None
    BY <2>1 DEF Asks
  <2> QED
    BY <1>2, <1>4, <1>8, <2>1, <2>2 DEF RequiredUplink
<1> QED
  BY <1>1, <1>6, <1>7, <1>8

LEMMA AckProceeds ==
  ASSUME SmfInv, AmfInv, NEW p \in Procs,
         AckFlag(p) \/ AckDownlink(p) \/ AckStore(p) \/ AckForwardTarget(p) \/ AckForwardSource(p)
         \/ AckForwarded(p) \/ AckSend(p)
  PROVE  Proceeds(p)
<1>0. /\ JobsInv /\ job[p] \in AckJobs /\ job[p] \in Jobs /\ job[p].kind = "ack" /\ JobOK(p)
      /\ call[p].pc = "idle" /\ {"store", "fwTarget", "fwSource", "fwDone"} \subseteq Places["ack"]
  BY JobKinds DEF AmfInv, JobsInv, AckFlag, AckDownlink, AckStore, AckForwardTarget,
     AckForwardSource, AckForwarded, AckSend, JobAt, Places
<1>1. [Next]_vars
  BY AckUses, UsesNext
<1>2. CASE AckSend(p)
  BY <1>0, <1>2, ProceedsPost DEF AckSend
<1>3. CASE Continue(p)
  BY <1>0, <1>3, ProceedsLoop
<1>4. ASSUME ~AckSend(p)
      PROVE  /\ Key(p) \in Keys /\ AckFteid(p) \in GnbFteids \union {None}
             /\ job[p].n \in DOMAIN job[p].m.sessions
             /\ job[p].m.sessions[job[p].n].ul \in Fteid \union {None}
  BY <1>4, AtSession
     DEF AckFlag, AckDownlink, AckStore, AckForwardTarget, AckForwardSource, AckForwarded
<1>5. ASSUME ~AckSend(p), NEW fwd \in Fteid \union GnbFteids \union {None}, Add(p, AckItem(p, fwd))
      PROVE  Proceeds(p)
  <2>1. job[p].dl \in GnbFteids \union {None}
    BY <1>0, JobMembers DEF AckJobs
  <2>2. AckItem(p, fwd) \in Items
    BY <1>4, <1>5, <2>1, ItemTypes DEF AckItem
  <2> QED
    BY <1>0, <1>5, <2>2, ProceedsLoop
<1>6. call[p].last \in Fteid \union GnbFteids \union {None}
  BY DEF SmfInv, TypeInv, TypeOK, Call
<1>7. CASE AckFlag(p) /\ ~Continue(p)
  <2>0. ~AckSend(p) /\ UNCHANGED vars /\ sessions[Key(p)] # None
    BY <1>7 DEF AckFlag, AckSend, Known
  <2>1. sessions[Key(p)] \in Session
    BY <1>4, <2>0 DEF SmfInv, TypeInv, TypeOK
  <2>2. PICK b \in BOOLEAN : b = GetSessionIndirectForwardingRequired(Key(p))
    BY <2>1 DEF GetSessionIndirectForwardingRequired, Session
  <2>3. PICK j : j = [job[p] EXCEPT !.pc = "dl", !.ind = b]
    OBVIOUS
  <2>4. j \in AckJobs /\ j.kind = "ack" /\ j.pc = "dl" /\ j.n = job[p].n /\ j.m = job[p].m
    BY <1>0, <2>3 DEF AckJobs, JobsOf
  <2>5. job' = [job EXCEPT ![p] = j] /\ job'[p] = j
    BY <1>0, <1>7, <2>2, <2>3 DEF AckFlag, JobsInv
  <2>6. sessions'[Key(p)'] # None /\ job'[p].n \in DOMAIN job'[p].m.sessions
    BY <1>4, <2>0, <2>4, <2>5 DEF Key, vars
  <2>7. JobOK(p)'
    BY <2>4, <2>5, <2>6 DEF JobOK
  <2> QED
    BY <1>0, <2>4, <2>5, <2>7, ProceedsTo DEF Jobs
<1>8. CASE AckDownlink(p) /\ ~Continue(p)
  <2>0. ~AckSend(p) /\ UNCHANGED vars /\ (job[p].ind => AckFteid(p) # None)
    BY <1>8 DEF AckDownlink, AckSend, JobAt
  <2>1. sessions[Key(p)] \in Session
    BY <1>8, AtStored DEF AckDownlink
  <2>2. PICK f \in GnbFteids \union {None} : f = GetSessionDownlinkFteid(Key(p))
    BY <2>1 DEF GetSessionDownlinkFteid, Session
  <2>3. PICK j : j = [job[p] EXCEPT !.pc = "store", !.dl = f]
    OBVIOUS
  <2>4. /\ j \in AckJobs /\ j.kind = "ack" /\ j.pc = "store" /\ j.n = job[p].n /\ j.m = job[p].m
        /\ j.ind = job[p].ind
    BY <1>0, <2>3 DEF AckJobs, JobsOf
  <2>5. job' = [job EXCEPT ![p] = j] /\ job'[p] = j
    BY <1>0, <1>8, <2>2, <2>3 DEF AckDownlink, JobsInv
  <2>6. sessions'[Key(p)'] # None /\ job'[p].n \in DOMAIN job'[p].m.sessions
    BY <1>4, <2>0, <2>1, <2>4, <2>5, NoneAssumption DEF Key, vars
  <2>7. AckFteid(p)' = AckFteid(p)
    BY <2>4, <2>5 DEF AckFteid
  <2>8. JobOK(p)'
    BY <2>0, <2>4, <2>5, <2>6, <2>7 DEF JobOK
  <2> QED
    BY <1>0, <2>4, <2>5, <2>8, ProceedsTo DEF Jobs
<1>9. CASE AckStore(p)
  <2>0. ~AckSend(p)
    BY <1>9 DEF AckStore, AckSend, JobAt
  <2>1. CASE job[p].ind /\ Goto(p, "fwTarget")
    <3>0. PICK k \in Keys : k = Key(p)
      BY <1>4, <2>0
    <3>1. PICK j \in Jobs : j = job'[p] /\ job' = [job EXCEPT ![p] = j]
      BY <1>0, <2>1, GotoKeeps
    <3>2. /\ job'[p].kind = "ack" /\ job'[p].pc = "fwTarget" /\ Key(p)' = k
          /\ job'[p].n = job[p].n /\ job'[p].m = job[p].m /\ AckFteid(p)' = AckFteid(p)
      BY <1>0, <2>1, <3>0, GotoKeeps
    <3>3. job'[p].n \in DOMAIN job'[p].m.sessions
      BY <1>4, <2>0, <3>2
    <3>4. AckFteid(p) # None
      BY <1>0, <1>9, <2>1 DEF AckStore, JobAt, JobOK
    <3>5. sessions'[k] # None
      BY <1>1, <1>9, <3>0, AtStored, NoneAssumption, SessionsStay DEF AckStore, SmfInv
    <3>6. JobOK(p)'
      BY <3>2, <3>3, <3>4, <3>5 DEF JobOK
    <3> QED
      BY <1>0, <3>1, <3>6, ProceedsTo
  <2> QED
    BY <1>4, <1>5, <1>9, <2>0, <2>1 DEF AckStore
<1>10. CASE AckForwardTarget(p)
  <2>0. ~AckSend(p) /\ Goto(p, "fwSource")
    BY <1>10 DEF AckForwardTarget, AckSend, JobAt
  <2>1. PICK k \in Keys : k = Key(p)
    BY <1>4, <2>0
  <2>2. PICK j \in Jobs : j = job'[p] /\ job' = [job EXCEPT ![p] = j]
    BY <1>0, <2>0, GotoKeeps
  <2>3. /\ job'[p].kind = "ack" /\ job'[p].pc = "fwSource" /\ Key(p)' = k
        /\ job'[p].n = job[p].n /\ job'[p].m = job[p].m
    BY <1>0, <2>0, <2>1, GotoKeeps
  <2>4. job'[p].n \in DOMAIN job'[p].m.sessions
    BY <1>4, <2>0, <2>3
  <2>5. sessions'[k] # None
    BY <1>1, <1>10, <2>1, AtStored, NoneAssumption, SessionsStay DEF AckForwardTarget, SmfInv
  <2>6. Forwards(p, k)'
    BY <1>10, <2>1, BeginForwardForwards DEF AckForwardTarget
  <2>7. JobOK(p)'
    BY <2>3, <2>4, <2>5, <2>6 DEF JobOK, Forwards
  <2> QED
    BY <1>0, <2>2, <2>7, ProceedsTo
<1>11. CASE AckForwardSource(p)
  <2>0. ~AckSend(p)
    BY <1>11 DEF AckForwardSource, AckSend, JobAt
  <2>1. ASSUME Goto(p, "fwDone") PROVE Proceeds(p)
    <3>1. JobAt(p, "ack", "fwSource") /\ "fwSource" \notin {"loop", "sent"} /\ "fwDone" \in Places["ack"]
      BY <1>0, <1>11 DEF AckForwardSource
    <3> QED
      BY <1>1, <2>1, <3>1, ProceedsStored
  <2> QED
    BY <1>3, <1>5, <1>6, <1>11, <2>0, <2>1 DEF AckForwardSource
<1>12. CASE AckForwarded(p)
  <2>0. ~AckSend(p)
    BY <1>12 DEF AckForwarded, AckSend, JobAt
  <2> QED
    BY <1>3, <1>5, <1>6, <1>12, <2>0 DEF AckForwarded
<1> QED
  BY <1>2, <1>3, <1>7, <1>8, <1>9, <1>10, <1>11, <1>12

LEMMA NotifyProceeds ==
  ASSUME SmfInv, AmfInv, NEW p \in Procs,
         NotifyFlag(p) \/ NotifySwitch(p) \/ NotifyPath(p) \/ NotifyDown(p) \/ NotifyReset(p)
         \/ NotifyEnd(p)
  PROVE  Proceeds(p) \/ UNCHANGED <<vars, job>>
<1>0. /\ JobsInv /\ job[p] \in NotifyJobs /\ job[p] \in Jobs /\ job[p].kind = "notify" /\ JobOK(p)
      /\ {"path", "down", "reset"} \subseteq Places["notify"]
  BY JobKinds DEF AmfInv, JobsInv, NotifyFlag, NotifySwitch, NotifyPath, NotifyDown, NotifyReset,
     NotifyEnd, JobAt, Places
<1>1. [Next]_vars
  BY NotifyUses, UsesNext
<1>2. CASE NotifyEnd(p)
  BY <1>2, ProceedsDone DEF NotifyEnd, Finish
<1>3. CASE Continue(p)
  BY <1>0, <1>3, ProceedsLoop
<1>4. ASSUME NEW from, from \notin {"loop", "sent"}, JobAt(p, "notify", from), NEW pc \in {"path", "down", "reset"},
             Goto(p, pc)
      PROVE  Proceeds(p)
  <2>1. pc \in Places["notify"] /\ pc \notin {"store", "fwTarget", "fwSource"}
    BY <1>0
  <2> QED
    BY <1>1, <1>4, <2>1, ProceedsStored
<1>5. CASE NotifyFlag(p) /\ ~Continue(p)
  <2>0. /\ UNCHANGED vars /\ sessions[Key(p)] # None /\ Key(p) \in Keys
        /\ job[p].n \in DOMAIN job[p].m.sessions
    BY <1>5, AtSession DEF NotifyFlag, Known
  <2>1. sessions[Key(p)] \in Session
    BY <2>0 DEF SmfInv, TypeInv, TypeOK
  <2>2. PICK b \in BOOLEAN : b = GetSessionIndirectForwardingRequired(Key(p))
    BY <2>1 DEF GetSessionIndirectForwardingRequired, Session
  <2>3. PICK pc \in {"path", "switch"} : pc = IF b THEN "path" ELSE "switch"
    BY <2>2
  <2>4. PICK j : j = [job[p] EXCEPT !.ind = b, !.pc = pc]
    OBVIOUS
  <2>5. j \in NotifyJobs /\ j.kind = "notify" /\ j.pc = pc /\ j.n = job[p].n /\ j.m = job[p].m
    BY <1>0, <2>3, <2>4 DEF NotifyJobs, JobsOf
  <2>6. job' = [job EXCEPT ![p] = j] /\ job'[p] = j
    BY <1>0, <1>5, <2>2, <2>3, <2>4 DEF NotifyFlag, JobsInv
  <2>7. sessions'[Key(p)'] # None /\ job'[p].n \in DOMAIN job'[p].m.sessions
    BY <2>0, <2>5, <2>6 DEF Key, vars
  <2>8. JobOK(p)'
    BY <2>5, <2>6, <2>7 DEF JobOK
  <2> QED
    BY <1>0, <2>5, <2>6, <2>8, ProceedsTo DEF Jobs
<1>6. CASE NotifySwitch(p)
  BY <1>4, <1>6 DEF NotifySwitch
<1>7. CASE NotifyPath(p)
  BY <1>4, <1>7 DEF NotifyPath
<1>8. CASE NotifyDown(p)
  BY <1>3, <1>4, <1>8 DEF NotifyDown
<1>9. CASE NotifyReset(p)
  BY <1>3, <1>9 DEF NotifyReset
<1> QED
  BY <1>2, <1>3, <1>5, <1>6, <1>7, <1>8, <1>9

\* The HTTP handler starts a handler for the kinds of messages it has one for.
LEMMA MsgKinds ==
  ASSUME NEW m \in Msgs
  PROVE  /\ m.kind = "estab" => m \in EstabMsgs
         /\ m.kind = "n2req" => m \in N2ReqMsgs
         /\ m.kind = "n2resp" => m \in N2RespMsgs
         /\ m.kind = "hoRequired" => m \in RequiredMsgs
         /\ m.kind \in {"hoRequest", "hoAck", "hoCommand", "hoNotify"} => m \in HandoverMsgs
         /\ m.ue \in Ues
  BY DEF Msgs, EstabMsgs, N2ReqMsgs, N2RespMsgs, RequiredMsgs, HandoverMsgs

LEMMA DeliverProceeds ==
  ASSUME AmfInv, NEW p \in Procs, NEW m \in msgs, Deliver(p, m)
  PROVE  Proceeds(p) \/ UNCHANGED job
<1>1. m \in Msgs /\ m.kind \in DOMAIN Handler /\ JobsInv
  BY DEF AmfInv, MsgsInv, Deliver
<1>2. ASSUME NEW inter \in Inters(m),
             job' = [job EXCEPT ![p] = [kind |-> Handler[m.kind], pc |-> "loop", m |-> m, n |-> 1,
                                        out |-> <<>>, inter |-> inter, ind |-> FALSE, dl |-> None]]
      PROVE  Proceeds(p)
  <2>1. inter \in BOOLEAN
    BY DEF Inters
  <2>2. PICK j : j = [kind |-> Handler[m.kind], pc |-> "loop", m |-> m, n |-> 1,
                      out |-> <<>>, inter |-> inter, ind |-> FALSE, dl |-> None]
    OBVIOUS
  <2>3. ASSUME NEW pcs, "loop" \in pcs, NEW ms, m \in ms
        PROVE  j \in JobsOf(Handler[m.kind], pcs, ms)
    BY <2>1, <2>2, <2>3 DEF JobsOf
  <2>4. j \in Jobs
    <3>1. CASE m.kind = "estab"
      <4>1. Handler[m.kind] = "estab" /\ m \in EstabMsgs
        BY <1>1, <3>1, MsgKinds DEF Handler
      <4> QED
        BY <2>3, <4>1 DEF Jobs, EstabJobs
    <3>2. CASE m.kind = "n2resp"
      <4>1. Handler[m.kind] = "n2resp" /\ m \in N2RespMsgs
        BY <1>1, <3>2, MsgKinds DEF Handler
      <4> QED
        BY <2>3, <4>1 DEF Jobs, N2RespJobs
    <3>3. CASE m.kind = "hoRequired"
      <4>1. Handler[m.kind] = "required" /\ m \in RequiredMsgs
        BY <1>1, <3>3, MsgKinds DEF Handler
      <4> QED
        BY <2>3, <4>1 DEF Jobs, RequiredJobs
    <3>4. CASE m.kind = "hoAck"
      <4>1. Handler[m.kind] = "ack" /\ m \in HandoverMsgs
        BY <1>1, <3>4, MsgKinds DEF Handler
      <4> QED
        BY <2>3, <4>1 DEF Jobs, AckJobs
    <3>5. CASE m.kind = "hoNotify"
      <4>1. Handler[m.kind] = "notify" /\ m \in HandoverMsgs
        BY <1>1, <3>5, MsgKinds DEF Handler
      <4> QED
        BY <2>3, <4>1 DEF Jobs, NotifyJobs
    <3> QED
      BY <1>1, <3>1, <3>2, <3>3, <3>4, <3>5 DEF Handler
  <2> QED
    BY <1>1, <1>2, <2>2, <2>4, ProceedsTo
<1> QED
  BY <1>2 DEF Deliver

-----------------------------------------------------------------------------
(* The messages, and what the UEs and gNBs do with them.                   *)

\* At most one message is added.
LEMMA MsgsAdded ==
  ASSUME MsgsInv, NEW m \in Msgs, m.kind = "n2req" => m.key \in used, msgs' \subseteq msgs \union {m},
         used \subseteq used'
  PROVE  msgs' \subseteq Msgs /\ \A x \in msgs' : x.kind = "n2req" => x.key \in used'
  BY DEF MsgsInv

LEMMA MsgsPosted ==
  ASSUME MsgsInv, NEW m \in Msgs, m.kind = "n2req" => m.key \in used, NEW p, Post(p, m),
         UNCHANGED <<used, env>>
  PROVE  MsgsInv'
<1>1. msgs' \subseteq msgs \union {m}
  BY DEF Post, Send
<1>2. msgs' \subseteq Msgs /\ \A x \in msgs' : x.kind = "n2req" => x.key \in used'
  BY <1>1, MsgsAdded
<1> QED
  BY <1>2 DEF MsgsInv, env

LEMMA MsgsKept ==
  ASSUME MsgsInv, msgs' \subseteq msgs, UNCHANGED <<used, env>>
  PROVE  MsgsInv'
  BY DEF MsgsInv, env

LEMMA HandlerMsgs ==
  ASSUME SmfInv, AmfInv, NEW p \in Procs, HandlerStep(p)
  PROVE  MsgsInv'
<1>0. MsgsInv /\ JobsInv
  BY DEF AmfInv
<1>1. CASE NoMsg
  BY <1>0, <1>1, MsgsKept DEF NoMsg
<1>2. CASE EstablishUplink(p)
  BY <1>0, <1>2 DEF EstablishUplink, MsgsInv, env
<1>3. CASE EstablishReply(p)
  <2>1. job[p] \in ReplyJobs /\ JobOK(p)
    BY <1>0, <1>3, JobKinds DEF EstablishReply, JobAt, JobsInv
  <2>2. job[p].m \in Requests /\ job[p].kind = "estab" /\ job[p].pc = "reply"
    BY <1>3, <2>1, JobMembers DEF ReplyJobs, EstablishReply, JobAt
  <2>3. job[p].m.ue \in Ues /\ job[p].m.gnb \in Gnbs /\ job[p].m.key \in Keys
    BY <2>2 DEF Requests
  <2>4. job[p].m.key \in used /\ Asks(p, job[p].m.key)
    BY <2>1, <2>2 DEF JobOK
  <2>5. CASE call[p].res = "err"
    BY <1>0, <1>3, <2>5, MsgsKept DEF EstablishReply
  <2>6. CASE call[p].res # "err"
    <3>1. sessions[job[p].m.key] # None
      BY <1>3, <2>4, <2>6 DEF EstablishReply, JobAt, Asks
    <3>2. sessions[job[p].m.key] \in Session
      BY <2>3, <3>1 DEF SmfInv, TypeInv, TypeOK
    <3>3. sessions[job[p].m.key].ul \in Fteid
      BY <3>2 DEF Session
    <3>4. PICK m : m = [kind |-> "n2req", ue |-> job[p].m.ue, gnb |-> job[p].m.gnb,
                        key |-> job[p].m.key, ul |-> sessions[job[p].m.key].ul]
      OBVIOUS
    <3>5. m \in N2ReqMsgs /\ m.key \in used
      BY <2>3, <2>4, <3>3, <3>4 DEF N2ReqMsgs
    <3>6. Post(p, m) /\ UNCHANGED <<used, env>>
      BY <1>3, <2>6, <3>4 DEF EstablishReply
    <3> QED
      BY <1>0, <3>5, <3>6, MsgsPosted DEF Msgs
  <2> QED
    BY <2>5, <2>6
<1>4. CASE RequiredSend(p) \/ AckSend(p)
  <2>1. job[p].m.source \in Gnbs /\ job[p].m.target \in Gnbs /\ job[p].m.ue \in Ues
    BY <1>4, AtHandover DEF RequiredSend, AckSend
  <2>2. job[p] \in RequiredJobs \union AckJobs
    BY <1>0, <1>4, JobKinds DEF RequiredSend, AckSend, JobAt, JobsInv
  <2>3. job[p].out \in Seq(Items)
    BY <2>2, JobMembers DEF RequiredJobs, AckJobs
  <2>4. PICK kind \in {"hoRequest", "hoCommand"} :
          Post(p, [kind |-> kind, ue |-> job[p].m.ue, source |-> job[p].m.source,
                   target |-> job[p].m.target, sessions |-> job[p].out])
    BY <1>4 DEF RequiredSend, AckSend
  <2>5. PICK m : m = [kind |-> kind, ue |-> job[p].m.ue, source |-> job[p].m.source,
                      target |-> job[p].m.target, sessions |-> job[p].out]
    OBVIOUS
  <2>6. m \in HandoverMsgs /\ m.kind # "n2req"
    BY <2>1, <2>3, <2>5 DEF HandoverMsgs
  <2>7. Post(p, m) /\ UNCHANGED <<used, env>>
    BY <1>4, <2>4, <2>5 DEF RequiredSend, AckSend
  <2> QED
    BY <1>0, <2>6, <2>7, MsgsPosted DEF Msgs
<1>5. CASE NotifyPath(p)
  BY <1>0, <1>5, MsgsKept DEF NotifyPath
<1>7. CASE GiveUp(p)
  BY <1>0, <1>7, MsgsKept DEF GiveUp
<1>6. NoMsg \/ EstablishUplink(p) \/ EstablishReply(p) \/ RequiredSend(p) \/ AckSend(p) \/ NotifyPath(p) \/ GiveUp(p)
  BY DEF HandlerStep, EstablishDownlink, EstablishEnd, RequiredFlag, RequiredPath, RequiredUplink,
     AckFlag, AckDownlink, AckStore, AckForwardTarget, AckForwardSource, AckForwarded,
     NotifyFlag, NotifySwitch, NotifyDown, NotifyReset, NotifyEnd
<1> QED
  BY <1>1, <1>2, <1>3, <1>4, <1>5, <1>6, <1>7

\* The list of a source gNB is a sequence of the active sessions of the UE.
LEMMA ListsType ==
  ASSUME MsgsInv, NEW u, NEW list \in Lists(u)
  PROVE  list \in Seq(Items)
<1>1. PICK ks : ks = {k \in active : k.ue = u}
  OBVIOUS
<1>2. IsFiniteSet(ks)
  BY <1>1, FS_Subset DEF MsgsInv
<1>3. PICK n \in Nat : n = Cardinality(ks)
  BY <1>2, FS_CardinalityType
<1>4. \A k \in ks : Item(k, None, None, None) \in Items
  BY <1>1, ItemTypes DEF MsgsInv
<1>5. list \in [1..n -> {Item(k, None, None, None) : k \in ks}]
  BY <1>1, <1>3 DEF Lists
<1>6. list \in [1..n -> Items]
  BY <1>4, <1>5
<1> QED
  BY <1>6, SeqDef

LEMMA TargetItems ==
  ASSUME NEW list \in Seq(Items), NEW f \in GnbFteids \union {None}
  PROVE  [n \in DOMAIN list |-> [list[n] EXCEPT !.dl = f]] \in Seq(Items)
<1>1. ASSUME NEW n \in DOMAIN list PROVE [list[n] EXCEPT !.dl = f] \in Items
  <2>1. PICK i \in Items : i = list[n]
    OBVIOUS
  <2>2. [i EXCEPT !.dl = f] \in Items
    BY DEF Items
  <2> QED
    BY <2>1, <2>2, Zenon
<1>2. DOMAIN list = 1..Len(list) /\ Len(list) \in Nat
  OBVIOUS
<1>3. [n \in DOMAIN list |-> [list[n] EXCEPT !.dl = f]] \in [1..Len(list) -> Items]
  BY <1>1, <1>2
<1> QED
  BY <1>2, <1>3, SeqDef

LEMMA EnvMsgs ==
  ASSUME AmfInv, Env
  PROVE  /\ MsgsInv' /\ UNCHANGED vars
         /\ UNCHANGED job \/ \E p \in Procs : Done(p)
<1>0. MsgsInv
  BY DEF AmfInv
<1>1. ASSUME NEW u \in Ues, NEW d \in Dnns, NEW g \in Gnbs, UeRequests(u, d, g) PROVE MsgsInv'
  <2>1. PICK m : m = [kind |-> "estab", ue |-> u, dnn |-> d, gnb |-> g]
    OBVIOUS
  <2>2. m \in EstabMsgs /\ m.kind # "n2req"
    BY <2>1 DEF EstabMsgs
  <2>3. msgs' \subseteq msgs \union {m}
    BY <1>1, <2>1 DEF UeRequests, Send
  <2>4. msgs' \subseteq Msgs /\ \A x \in msgs' : x.kind = "n2req" => x.key \in used'
    BY <1>0, <1>1, <2>2, <2>3, MsgsAdded DEF Msgs, UeRequests
  <2> QED
    BY <1>0, <1>1, <2>4 DEF MsgsInv, UeRequests
<1>2. ASSUME NEW u \in Ues, NEW t \in Gnbs, NEW kind \in Kinds, SourceRequires(u, t, kind) PROVE MsgsInv'
  <2>1. PICK list \in Lists(u) :
          Send([kind |-> "hoRequired", ue |-> u, source |-> at[u], target |-> t,
                indirect |-> kind = "indirect", sessions |-> list])
    BY <1>2 DEF SourceRequires
  <2>2. PICK m : m = [kind |-> "hoRequired", ue |-> u, source |-> at[u], target |-> t,
                      indirect |-> kind = "indirect", sessions |-> list]
    OBVIOUS
  <2>3. at[u] \in Gnbs /\ list \in Seq(Items)
    BY <1>0, <1>2, ListsType DEF SourceRequires, MsgsInv
  <2>4. m \in RequiredMsgs /\ m.kind # "n2req"
    BY <2>2, <2>3 DEF RequiredMsgs
  <2>5. msgs' \subseteq msgs \union {m}
    BY <2>1, <2>2 DEF Send
  <2>6. msgs' \subseteq Msgs /\ \A x \in msgs' : x.kind = "n2req" => x.key \in used'
    BY <1>0, <1>2, <2>4, <2>5, MsgsAdded DEF Msgs, SourceRequires
  <2> QED
    BY <1>0, <1>2, <2>6 DEF MsgsInv, SourceRequires
<1>3. ASSUME NEW o \in msgs, GnbAccepts(o) PROVE MsgsInv'
  <2>1. o \in N2ReqMsgs /\ o.key \in used
    BY <1>0, <1>3, MsgKinds DEF GnbAccepts, MsgsInv
  <2>2. CASE msgs' = msgs \ {o} /\ UNCHANGED active
    BY <1>0, <1>3, <2>2, MsgsKept DEF GnbAccepts, env
  <2>3. CASE GnbFteid[o.gnb] # None /\ active' = active \union {o.key} /\ msgs' = (msgs \ {o}) \union
               {[kind |-> "n2resp", ue |-> o.ue, gnb |-> o.gnb, key |-> o.key, dl |-> GnbFteid[o.gnb]]}
    <3>1. PICK m : m = [kind |-> "n2resp", ue |-> o.ue, gnb |-> o.gnb, key |-> o.key,
                        dl |-> GnbFteid[o.gnb]]
      OBVIOUS
    <3>2. o.ue \in Ues /\ o.gnb \in Gnbs /\ o.key \in Keys
      BY <2>1 DEF N2ReqMsgs
    <3>3. GnbFteid[o.gnb] \in GnbFteids
      BY <2>3, <3>2, GnbAssumption
    <3>4. m \in N2RespMsgs /\ m.kind # "n2req"
      BY <3>1, <3>2, <3>3 DEF N2RespMsgs
    <3>5. msgs' \subseteq Msgs /\ \A x \in msgs' : x.kind = "n2req" => x.key \in used'
      BY <1>0, <1>3, <2>3, <3>1, <3>4, MsgsAdded DEF Msgs, GnbAccepts
    <3>6. active' \subseteq used' /\ IsFiniteSet(active')
      BY <1>0, <1>3, <2>1, <2>3, FS_AddElement DEF MsgsInv, GnbAccepts
    <3> QED
      BY <1>0, <1>3, <3>5, <3>6 DEF MsgsInv, GnbAccepts
  <2> QED
    BY <1>3, <2>2, <2>3 DEF GnbAccepts
<1>4. ASSUME NEW o \in msgs, TargetAcks(o) PROVE MsgsInv'
  <2>1. o \in HandoverMsgs
    BY <1>0, <1>4, MsgKinds DEF TargetAcks, MsgsInv
  <2>2. o.target \in Gnbs /\ o.sessions \in Seq(Items)
    BY <2>1 DEF HandoverMsgs
  <2>3. PICK f \in GnbFteids \union {None} : f = GnbFteid[o.target]
    BY <2>2, GnbAssumption
  <2>4. PICK list \in Seq(Items) :
          list = [n \in DOMAIN o.sessions |-> [o.sessions[n] EXCEPT !.dl = GnbFteid[o.target]]]
    BY <2>2, <2>3, TargetItems
  <2>5. PICK m : m = [o EXCEPT !.kind = "hoAck", !.sessions = list]
    OBVIOUS
  <2>6. m \in HandoverMsgs /\ m.kind # "n2req"
    BY <2>1, <2>5 DEF HandoverMsgs
  <2>7. msgs' \subseteq msgs \union {m}
    BY <1>4, <2>4, <2>5 DEF TargetAcks
  <2>8. msgs' \subseteq Msgs /\ \A x \in msgs' : x.kind = "n2req" => x.key \in used'
    BY <1>0, <1>4, <2>6, <2>7, MsgsAdded DEF Msgs, TargetAcks
  <2> QED
    BY <1>0, <1>4, <2>8 DEF MsgsInv, TargetAcks, env
<1>5. ASSUME NEW o \in msgs, UeMoves(o) PROVE MsgsInv'
  <2>1. o \in HandoverMsgs
    BY <1>0, <1>5, MsgKinds DEF UeMoves, MsgsInv
  <2>2. PICK m : m = [o EXCEPT !.kind = "hoNotify"]
    OBVIOUS
  <2>3. m \in HandoverMsgs /\ m.kind # "n2req" /\ o.target \in Gnbs
    BY <2>1, <2>2 DEF HandoverMsgs
  <2>4. msgs' \subseteq msgs \union {m}
    BY <1>5, <2>2 DEF UeMoves
  <2>5. msgs' \subseteq Msgs /\ \A x \in msgs' : x.kind = "n2req" => x.key \in used'
    BY <1>0, <1>5, <2>3, <2>4, MsgsAdded DEF Msgs, UeMoves
  <2> QED
    BY <1>0, <1>5, <2>3, <2>5 DEF MsgsInv, UeMoves
<1>6. ASSUME NEW o \in msgs, Lose(o) PROVE MsgsInv'
  BY <1>0, <1>6 DEF MsgsInv, Lose
<1>7. ASSUME NEW p \in Procs, Answered(p) PROVE MsgsInv'
  BY <1>0, <1>7, MsgsKept DEF Answered
<1>8. UNCHANGED vars /\ (UNCHANGED job \/ \E p \in Procs : Done(p))
  BY DEF Env, Answered, UeRequests, SourceRequires, GnbAccepts, TargetAcks, UeMoves, Lose
<1> QED
  BY <1>1, <1>2, <1>3, <1>4, <1>5, <1>6, <1>7, <1>8 DEF Env

-----------------------------------------------------------------------------
(* The invariant.                                                          *)

LEMMA AmfInvInit == AmfInit => AmfInv
<1> SUFFICES ASSUME AmfInit PROVE AmfInv
  OBVIOUS
<1>1. JobsInv
  BY DEF AmfInit, JobsInv
<1>2. IsFiniteSet(active)
  BY FS_EmptySet DEF AmfInit
<1>3. MsgsInv
  BY <1>2 DEF AmfInit, MsgsInv
<1> QED
  BY <1>1, <1>3 DEF AmfInv

LEMMA AmfInvStep ==
  ASSUME SmfInv, AmfInv, [AmfNext]_allVars
  PROVE  AmfInv'
<1>0. [Next]_vars /\ JobsInv /\ MsgsInv /\ used \subseteq Keys
  BY StepRefines DEF AmfInv, MsgsInv
<1>1. ASSUME NEW p \in Procs, Proceeds(p) \/ UNCHANGED <<vars, job>>,
             UNCHANGED vars \/ Begin(p) \/ Step(p) \/ End(p), used \subseteq used'
      PROVE  JobsInv'
  <2>1. CASE Proceeds(p)
    BY <1>0, <1>1, <2>1, JobsStep DEF Proceeds
  <2>2. CASE UNCHANGED <<vars, job>>
    BY <1>0, <1>1, <2>2, JobsSame
  <2> QED
    BY <1>1, <2>1, <2>2
<1>2. ASSUME NEW p \in Procs, HandlerStep(p) PROVE AmfInv'
  <2>1. Proceeds(p) \/ UNCHANGED <<vars, job>>
    <3>1. GiveUp(p) => Proceeds(p)
      BY ProceedsDone DEF GiveUp
    <3> QED
      BY <1>2, <3>1, EstablishProceeds, RequiredProceeds, AckProceeds, NotifyProceeds DEF HandlerStep
  <2>2. UNCHANGED vars \/ Begin(p) \/ Step(p) \/ End(p)
    BY <1>2, HandlerUses DEF Uses
  <2>3. used \subseteq used'
    BY <1>2 DEF HandlerStep, EstablishUplink, EstablishReply, EstablishDownlink, EstablishEnd, NoMsg,
       RequiredFlag, RequiredPath, RequiredUplink, RequiredSend, AckFlag, AckDownlink, AckStore,
       AckForwardTarget, AckForwardSource, AckForwarded, AckSend, NotifyFlag, NotifySwitch,
       NotifyPath, NotifyDown, NotifyReset, NotifyEnd, GiveUp
  <2> QED
    BY <1>1, <1>2, <2>1, <2>2, <2>3, HandlerMsgs DEF AmfInv
<1>3. ASSUME NEW p \in Procs, NEW m \in msgs, Deliver(p, m) PROVE AmfInv'
  <2>1. UNCHANGED <<vars, used, env>> /\ msgs' \subseteq msgs
    BY <1>3 DEF Deliver
  <2>2. Proceeds(p) \/ UNCHANGED <<vars, job>>
    BY <1>3, <2>1, DeliverProceeds
  <2>3. JobsInv'
    BY <1>1, <2>1, <2>2
  <2> QED
    BY <1>0, <2>1, <2>3, MsgsKept DEF AmfInv
<1>4. ASSUME NEW p \in Procs, SmfStep(p) PROVE AmfInv'
  <2>1. Step(p) /\ UNCHANGED <<job, msgs, used, env>>
    BY <1>4 DEF SmfStep, amfVars
  <2> QED
    BY <1>0, <2>1, JobsSame, MsgsKept DEF AmfInv
<1>5. ASSUME Env PROVE AmfInv'
  <2>1. MsgsInv' /\ UNCHANGED vars /\ (UNCHANGED job \/ \E p \in Procs : Done(p))
    BY <1>5, EnvMsgs
  <2>2. used \subseteq used'
    BY <1>5 DEF Env, Answered, UeRequests, SourceRequires, GnbAccepts, TargetAcks, UeMoves, Lose
  <2>3. JobsInv'
    <3>1. CASE Procs = {}
      BY <1>0, <2>1, <3>1 DEF JobsInv
    <3>2. CASE Procs # {}
      BY <1>1, <2>1, <2>2, <3>2, ProceedsDone
    <3> QED
      BY <3>1, <3>2
  <2> QED
    BY <2>1, <2>3 DEF AmfInv
<1>6. ASSUME UNCHANGED allVars \/ Stopping PROVE AmfInv'
  <2>1. (UNCHANGED vars \/ Cancel \/ ServerStop) /\ UNCHANGED <<job, msgs, used, env>>
    BY <1>6 DEF Stopping, allVars, amfVars
  <2>2. JobsInv'
    <3>1. CASE Procs = {}
      BY <1>0, <2>1, <3>1 DEF JobsInv
    <3>2. CASE Procs # {}
      BY <1>0, <2>1, <3>2, JobsSame
    <3> QED
      BY <3>1, <3>2
  <2> QED
    BY <1>0, <2>1, <2>2, MsgsKept DEF AmfInv
<1> QED
  BY <1>2, <1>3, <1>4, <1>5, <1>6 DEF AmfNext

LEMMA AmfInvariant == AmfSpec => [](SmfInv /\ AmfInv)
<1>1. AmfInit => SmfInv /\ AmfInv
  BY TypeInit, FwdInit, AmfInvInit DEF AmfInit, SmfInv
<1>2. SmfInv /\ AmfInv /\ [AmfNext]_allVars => (SmfInv /\ AmfInv)'
  <2> SUFFICES ASSUME SmfInv, AmfInv, [AmfNext]_allVars PROVE (SmfInv /\ AmfInv)'
    OBVIOUS
  <2>1. [Next]_vars
    BY StepRefines
  <2> QED
    BY <2>1, TypeStep, HeldStep, IdStep, FwdStep, AmfInvStep DEF SmfInv
<1> QED
  BY <1>1, <1>2, PTL DEF AmfSpec

\* The AMF calls the SMF only as Smf assumes: with F-TEIDs of gNBs or of downlink
\* rules that listen, for gNBs and PDU sessions that exist, one call at a time in a
\* goroutine, and it reads a session only after it has found it.  Whatever messages
\* come, and are lost, the AMF over the SMF is a behaviour of the SMF.
THEOREM AmfUsesSmf == AmfSpec => Spec
<1>1. AmfInit => Init
  BY DEF AmfInit
<1>2. SmfInv /\ AmfInv /\ [AmfNext]_allVars => [Next]_vars
  BY StepRefines
<1> QED
  BY <1>1, <1>2, AmfInvariant, PTL DEF AmfSpec, Spec

\* The messages and the variables of the handlers have their types: no handler
\* sends a gNB the fields of a session that it has not found.
THEOREM AmfTypeCorrect == AmfSpec => []AmfTypeOK
<1>1. SmfInv /\ AmfInv => AmfTypeOK
  <2> SUFFICES ASSUME SmfInv, AmfInv PROVE AmfTypeOK
    OBVIOUS
  <2>1. \A j \in Jobs : j.n \in Nat /\ j.out \in Seq(Items)
    BY DEF Jobs, JobsOf, EstabJobs, ReplyJobs, N2RespJobs, RequiredJobs, AckJobs, NotifyJobs
  <2>2. \A j \in Jobs : j.kind \in {"estab", "n2resp", "required", "ack", "notify"}
    BY JobKinds
  <2>3. \A m \in Msgs : m.ue \in Ues
    BY MsgKinds
  <2> QED
    BY <2>1, <2>2, <2>3 DEF SmfInv, TypeInv, AmfInv, JobsInv, MsgsInv, AmfTypeOK
<1> QED
  BY <1>1, AmfInvariant, PTL

\* What holds of the SMF under any callers holds under the AMF.
COROLLARY AmfTunnels ==
  AmfSpec => [](TunnelExclusive /\ PoolAgrees /\ RuleIdUnique /\ NoDanglingForward)
  BY AmfUsesSmf, TunnelsAreExclusive, PoolsAgree, RuleIdsAreUnique, NothingDangles, PTL

=============================================================================
