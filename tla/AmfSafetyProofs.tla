--------------------------- MODULE AmfSafetyProofs ---------------------------
(***************************************************************************)
(* What the handlers of the AMF achieve together: the uplink F-TEIDs they  *)
(* offer to gNBs are listened on, and none of them panics in a network     *)
(* that is configured completely.                                          *)
(***************************************************************************)
EXTENDS AmfProofs

-----------------------------------------------------------------------------
(* Sessions are stored before a gNB or a handover names them, and are      *)
(* never replaced.                                                         *)

UlPcs == {"ulQueue", "ulPush", "ulStore", "ulAdd"}

Stored(k) == sessions[k] # None

\* A handler is establishing session k.
Adds(p, k) == job[p] # NoJob /\ job[p].kind = "estab" /\ job[p].pc = "reply" /\ job[p].m.key = k

\* Only the handler that establishes a session calls the SMF for it before it is stored.
OnceInv ==
  /\ \A p, q \in Procs : \A k \in Keys : Adds(p, k) /\ Adds(q, k) => p = q
  /\ \A p \in Procs : call[p].pc \in UlPcs => Stored(call[p].key) \/ Adds(p, call[p].key)
  /\ \A p \in Procs : call[p].pc = "ulAdd" => ~Stored(call[p].key)

StoredAll(list) == \A n \in DOMAIN list : Stored(list[n].key)
Listened(list)  == \A n \in DOMAIN list : Live(list[n].key.ip, list[n].key.dnn, "UL", list[n].ul)

\* What a message says of sessions; what a handler has read of them.
MsgSafe(m) ==
  /\ m.kind \in {"n2req", "n2resp"} => Stored(m.key)
  /\ m.kind = "n2req" => Live(m.key.ip, m.key.dnn, "UL", m.ul)
  /\ m.kind = "hoRequired" => StoredAll(m.sessions)
  /\ m.kind = "hoRequest" => Listened(m.sessions)

JobSafe(p) == job[p].kind = "required" => StoredAll(job[p].m.sessions) /\ Listened(job[p].out)

OfferInv ==
  /\ \A m \in msgs : MsgSafe(m)
  /\ \A k \in active : Stored(k)
  /\ \A p \in Procs : job[p] # NoJob => JobSafe(p)

SafeInv == OnceInv /\ OfferInv

-----------------------------------------------------------------------------
(* Lemmas about jobs and what they name.                                   *)

LEMMA JobFields ==
  ASSUME NEW j \in Jobs
  PROVE  /\ j = [kind |-> j.kind, pc |-> j.pc, m |-> j.m, n |-> j.n, out |-> j.out,
                 inter |-> j.inter, ind |-> j.ind, dl |-> j.dl]
         /\ j.out \in Seq(Items)
<1>1. PICK kind, pcs, ms : j \in JobsOf(kind, pcs, ms)
  BY DEF Jobs, EstabJobs, ReplyJobs, N2RespJobs, RequiredJobs, AckJobs, NotifyJobs
<1> QED
  BY <1>1 DEF JobsOf

\* The job once its message is on its way.
Sent(p) == job' = [job EXCEPT ![p].pc = "sent", ![p].out = <<>>]

\* What the steps of a handler leave of its job.
LEMMA JobEdits ==
  ASSUME JobsInv, NEW p \in Procs, job[p] \in Jobs
  PROVE  /\ \A pc : Goto(p, pc) =>
              /\ job'[p].kind = job[p].kind /\ job'[p].pc = pc /\ job'[p].m = job[p].m
              /\ job'[p].n = job[p].n /\ job'[p].out = job[p].out
         /\ \A pc, b : job' = [job EXCEPT ![p].pc = pc, ![p].ind = b] =>
              /\ job'[p].kind = job[p].kind /\ job'[p].pc = pc /\ job'[p].m = job[p].m
              /\ job'[p].n = job[p].n /\ job'[p].out = job[p].out
         /\ \A pc, b : job' = [job EXCEPT ![p].pc = pc, ![p].dl = b] =>
              /\ job'[p].kind = job[p].kind /\ job'[p].pc = pc /\ job'[p].m = job[p].m
              /\ job'[p].n = job[p].n /\ job'[p].out = job[p].out
         /\ Continue(p) =>
              /\ job'[p].kind = job[p].kind /\ job'[p].pc = "loop" /\ job'[p].m = job[p].m
              /\ job'[p].out = job[p].out
         /\ \A item : Add(p, item) =>
              /\ job'[p].kind = job[p].kind /\ job'[p].pc = "loop" /\ job'[p].m = job[p].m
              /\ job'[p].out = Append(job[p].out, item)
         /\ Sent(p) =>
              /\ job'[p].kind = job[p].kind /\ job'[p].pc = "sent" /\ job'[p].m = job[p].m
              /\ job'[p].out = <<>>
<1>1. PICK kind, pc, m, n : kind = job[p].kind /\ pc = job[p].pc /\ m = job[p].m /\ n = job[p].n
  OBVIOUS
<1>2. PICK out, inter, ind, dl :
        out = job[p].out /\ inter = job[p].inter /\ ind = job[p].ind /\ dl = job[p].dl
  OBVIOUS
<1>3. job[p] = [kind |-> kind, pc |-> pc, m |-> m, n |-> n, out |-> out, inter |-> inter,
                ind |-> ind, dl |-> dl]
  BY <1>1, <1>2, JobFields
<1> QED
  BY <1>3 DEF JobsInv, Goto, Continue, Add, Sent

\* An entry is added to a list of items.
LEMMA ListedItems ==
  ASSUME NEW list \in Seq(Items), NEW item \in Items, NEW n \in DOMAIN Append(list, item)
  PROVE  \/ n \in DOMAIN list /\ Append(list, item)[n] = list[n]
         \/ Append(list, item)[n] = item
  BY AppendProperties

\* A step of a handler leaves the other handlers alone, and itself of its kind.
LEMMA HandlerJobs ==
  ASSUME SmfInv, AmfInv, NEW p \in Procs, HandlerStep(p)
  PROVE  /\ job[p] \in Jobs /\ call[p].pc = "idle" /\ job' \in [Procs -> Jobs \union {NoJob}]
         /\ \A q \in Procs : q # p => job'[q] = job[q]
         /\ job'[p] # NoJob => job'[p].kind = job[p].kind
<1>1. job[p] \in Jobs /\ call[p].pc = "idle" /\ JobsInv
  BY DEF AmfInv, JobsInv, HandlerStep, EstablishUplink, EstablishReply, EstablishDownlink,
     EstablishEnd, RequiredFlag, RequiredPath, RequiredUplink, RequiredSend, AckFlag, AckDownlink,
     AckStore, AckForwardTarget, AckForwardSource, AckForwarded, AckSend, NotifyFlag, NotifySwitch,
     NotifyPath, NotifyDown, NotifyReset, NotifyEnd, GiveUp, Waits, JobAt
<1>2. Proceeds(p) \/ UNCHANGED job
  <2>1. GiveUp(p) => Proceeds(p)
    BY ProceedsDone DEF GiveUp
  <2> QED
    BY <2>1, EstablishProceeds, RequiredProceeds, AckProceeds, NotifyProceeds DEF HandlerStep
<1>3. job' \in [Procs -> Jobs \union {NoJob}] /\ \A q \in Procs : q # p => job'[q] = job[q]
  BY <1>1, <1>2 DEF Proceeds, JobsInv
<1>4. ASSUME job'[p] # NoJob PROVE job'[p].kind = job[p].kind
  <2>1. ~Done(p)
    BY <1>1, <1>4 DEF Done, JobsInv
  <2>2. CASE EstablishUplink(p)
    <3>1. PICK j, m : j = job[p] /\ job' = [job EXCEPT ![p].pc = "reply", ![p].m = m]
      BY <2>1, <2>2 DEF EstablishUplink, Finish
    <3>2. job'[p] = [j EXCEPT !.pc = "reply", !.m = m]
      BY <1>1, <3>1 DEF JobsInv
    <3>3. PICK kind, pcs, ms : j \in JobsOf(kind, pcs, ms)
      BY <1>1, <3>1 DEF Jobs, EstabJobs, ReplyJobs, N2RespJobs, RequiredJobs, AckJobs, NotifyJobs
    <3>4. [j EXCEPT !.pc = "reply", !.m = m].kind = j.kind
      BY <3>3 DEF JobsOf
    <3> QED
      BY <3>1, <3>2, <3>4
  <2>3. CASE UNCHANGED job \/ Continue(p) \/ (\E pc : Goto(p, pc)) \/ (\E item : Add(p, item)) \/ Sent(p)
    BY <1>1, <2>3, JobEdits
  <2>4. CASE AckFlag(p) \/ AckDownlink(p)
    <3>1. ASSUME NEW pc, NEW b, job' = [job EXCEPT ![p].pc = pc, ![p].ind = b]
          PROVE  job'[p].kind = job[p].kind
      BY <1>1, <3>1, JobEdits
    <3>2. ASSUME NEW pc, NEW b, job' = [job EXCEPT ![p].pc = pc, ![p].dl = b]
          PROVE  job'[p].kind = job[p].kind
      BY <1>1, <3>2, JobEdits
    <3> QED
      BY <2>3, <2>4, <3>1, <3>2 DEF AckFlag, AckDownlink
  <2>5. CASE NotifyFlag(p) /\ ~Continue(p)
    <3>1. PICK b, pc : job' = [job EXCEPT ![p].ind = b, ![p].pc = pc]
      BY <2>5 DEF NotifyFlag
    <3>2. job'[p] = [job[p] EXCEPT !.ind = b, !.pc = pc]
      BY <1>1, <3>1 DEF JobsInv
    <3>3. PICK kind, pcs, ms : job[p] \in JobsOf(kind, pcs, ms)
      BY <1>1 DEF Jobs, EstabJobs, ReplyJobs, N2RespJobs, RequiredJobs, AckJobs, NotifyJobs
    <3>4. [job[p] EXCEPT !.ind = b, !.pc = pc].kind = job[p].kind
      BY <3>3 DEF JobsOf
    <3> QED
      BY <3>2, <3>4
  <2>6. CASE EstablishReply(p) \/ EstablishDownlink(p) \/ EstablishEnd(p)
    BY <2>1, <2>3, <2>6 DEF EstablishReply, EstablishDownlink, EstablishEnd, Finish, Post, Sent
  <2>7. CASE RequiredFlag(p) \/ RequiredPath(p) \/ RequiredUplink(p) \/ RequiredSend(p)
    BY <2>1, <2>3, <2>7 DEF RequiredFlag, RequiredPath, RequiredUplink, RequiredSend, Post, Sent
  <2>8. CASE AckStore(p) \/ AckForwardTarget(p) \/ AckSend(p)
             \/ AckForwardSource(p) \/ AckForwarded(p)
    BY <2>1, <2>3, <2>8 DEF AckStore, AckForwardTarget, AckSend,
       AckForwardSource, AckForwarded, Post, Sent
  <2>9. CASE NotifySwitch(p) \/ NotifyPath(p) \/ NotifyDown(p) \/ NotifyReset(p) \/ NotifyEnd(p)
             \/ GiveUp(p)
    BY <2>1, <2>3, <2>9 DEF NotifySwitch, NotifyPath, NotifyDown, NotifyReset, NotifyEnd, Finish, GiveUp
  <2> QED
    BY <2>2, <2>3, <2>5, <2>6, <2>7, <2>8, <2>9, <2>4 DEF HandlerStep
<1> QED
  BY <1>1, <1>3, <1>4

\* A gNB may answer a handler, which ends.
LEMMA EnvJobs ==
  ASSUME AmfInv, Env, NEW q \in Procs, job'[q] # NoJob
  PROVE  job'[q] = job[q]
BY EnvMsgs DEF Done, AmfInv, JobsInv

-----------------------------------------------------------------------------
(* Sessions are stored once.                                               *)

LEMMA StoredStays ==
  ASSUME SmfInv, [Next]_vars, NEW k \in Keys, Stored(k)
  PROVE  Stored(k)'
  BY SessionsStay DEF SmfInv, Stored

\* Only UplinkAdd stores a session that was not there.
LEMMA StoredBy ==
  ASSUME SmfInv, [Next]_vars, NEW k \in Keys, ~Stored(k), Stored(k)'
  PROVE  \E p \in Procs : UplinkAdd(p) /\ call[p].key = k
<1>0. TypeInv /\ HeldInv /\ sessions \in [Keys -> Session \union {None}]
  BY DEF SmfInv, TypeInv, TypeOK
<1>1. PICK p \in Procs : UplinkStore(p) \/ UplinkAdd(p)
  BY <1>0, UplinkFteidStays DEF Next, Stored
<1>2. CASE UplinkStore(p)
  <2>1. call[p].key \in Keys /\ ~UNCHANGED sessions
    BY <1>0, <1>2, KeyType DEF UplinkStore, At, Stored
  <2>2. sessions[call[p].key] # None /\ sessions' = SetUplinkFteid(call[p].key, call[p].last)
    BY <1>2, <2>1 DEF UplinkStore
  <2>3. k # call[p].key
    BY <2>2 DEF Stored
  <2> QED
    BY <1>0, <2>2, <2>3 DEF SetUplinkFteid, Stored
<1>3. CASE UplinkAdd(p)
  <2>1. call[p].key \in Keys
    BY <1>0, <1>3, KeyType DEF UplinkAdd, At
  <2> QED
    BY <1>0, <1>3, <2>1 DEF UplinkAdd, SessionAdded, Stored
<1> QED
  BY <1>1, <1>2, <1>3

LEMMA NoUplinkCall ==
  ASSUME SmfInv, NEW p \in Procs, call[p].pc = "idle",
         \/ UNCHANGED vars \/ Ended(p)
         \/ \E k, g, f : BeginDownlink(p, k, g, f) \/ BeginForward(p, k, g, f)
         \/ \E k, g : BeginSwitch(p, k, g) \/ StoreNextDownlinkFteid(p, k, g)
                      \/ SetIndirectForwardingRequired(p, k, g)
  PROVE  call'[p].pc \notin UlPcs
<1>1. call \in [Procs -> Call]
  BY DEF SmfInv, TypeInv, TypeOK
<1>2. ASSUME NEW res, NEW f, Return(p, res, f) PROVE call'[p].pc = "idle"
  BY <1>1, <1>2 DEF Return, Idle
<1>3. ASSUME NEW pc, NEW k, NEW path, NEW i, NEW last, Start(p, pc, k, path, i, last)
      PROVE  call'[p].pc = pc
  BY <1>1, <1>3 DEF Start
<1>4. CASE UNCHANGED vars \/ Ended(p)
  BY <1>2, <1>4 DEF Ended, End, vars, UlPcs
<1>5. ASSUME NEW k, NEW g, NEW f, BeginDownlink(p, k, g, f) PROVE call'[p].pc \notin UlPcs
  BY <1>2, <1>3, <1>5 DEF BeginDownlink, UlPcs
<1>6. ASSUME NEW k, NEW g, NEW f, BeginForward(p, k, g, f) PROVE call'[p].pc \notin UlPcs
  BY <1>2, <1>3, <1>6 DEF BeginForward, UlPcs
<1>7. ASSUME NEW k, NEW g, BeginSwitch(p, k, g) PROVE call'[p].pc \notin UlPcs
  BY <1>1, <1>2, <1>7 DEF BeginSwitch, UlPcs
<1>8. ASSUME NEW k, NEW g, StoreNextDownlinkFteid(p, k, g) \/ SetIndirectForwardingRequired(p, k, g)
      PROVE  call'[p].pc \notin UlPcs
  BY <1>2, <1>8 DEF StoreNextDownlinkFteid, SetIndirectForwardingRequired, UlPcs
<1> QED
  BY <1>4, <1>5, <1>6, <1>7, <1>8

\* A handler sets up an uplink path for the session it establishes, or for one that
\* a handover names.
LEMMA HandlerOnce ==
  ASSUME SmfInv, AmfInv, SafeInv, NEW p \in Procs, HandlerStep(p)
  PROVE  /\ call'[p].pc \in UlPcs => (Stored(call[p].key) \/ Adds(p, call[p].key))'
         /\ call'[p].pc # "ulAdd"
<1>0. /\ job[p] \in Jobs /\ call[p].pc = "idle" /\ JobsInv /\ call \in [Procs -> Call]
  BY HandlerJobs DEF AmfInv, SmfInv, TypeInv, TypeOK
<1> DEFINE OK == /\ call'[p].pc \in UlPcs => (Stored(call[p].key) \/ Adds(p, call[p].key))'
                 /\ call'[p].pc # "ulAdd"
<1>1. CASE call'[p].pc \notin UlPcs
  BY <1>1 DEF UlPcs
<1>2. ASSUME NEW k, NEW g, BeginUplink(p, k, g), call'[p].pc \in UlPcs
      PROVE  call'[p].pc = "ulQueue" /\ call'[p].key = k /\ UNCHANGED sessions
  BY <1>0, <1>2 DEF BeginUplink, Return, Start, Idle, UlPcs
<1>3. CASE EstablishUplink(p) /\ call'[p].pc \in UlPcs
  <2>1. PICK k, m : /\ BeginUplink(p, k, job[p].m.gnb) /\ m.key = k
                    /\ job' = [job EXCEPT ![p].pc = "reply", ![p].m = m]
    <3>1. ~Ended(p)
      BY <1>0, <1>3, NoUplinkCall
    <3>2. PICK k : /\ BeginUplink(p, k, job[p].m.gnb)
                   /\ job' = [job EXCEPT ![p].pc = "reply", ![p].m =
                                [kind |-> "n2req", ue |-> k.ue, gnb |-> job[p].m.gnb, key |-> k]]
      BY <1>3, <3>1 DEF EstablishUplink, Finish
    <3> QED
      BY <3>2
  <2>2. PICK j : j = job[p]
    OBVIOUS
  <2>3. j \in EstabJobs
    BY <1>0, <1>3, <2>2, JobKinds DEF EstablishUplink, JobAt
  <2>4. job'[p] = [j EXCEPT !.pc = "reply", !.m = m]
    BY <1>0, <2>1, <2>2 DEF JobsInv
  <2>5. job'[p].kind = "estab" /\ job'[p].pc = "reply" /\ job'[p].m = m
    BY <2>3, <2>4 DEF EstabJobs, JobsOf
  <2>6. job'[p] # NoJob
    BY <2>5 DEF NoJob
  <2> QED
    BY <1>2, <1>3, <2>1, <2>5, <2>6 DEF Adds
<1>4. CASE RequiredPath(p) /\ call'[p].pc \in UlPcs
  <2>1. BeginUplink(p, Key(p), job[p].m.target)
    BY <1>0, <1>4, NoUplinkCall DEF RequiredPath
  <2>2. job[p] # NoJob /\ job[p].kind = "required" /\ job[p].n \in DOMAIN job[p].m.sessions
    BY <1>4, AtSession DEF RequiredPath, JobAt
  <2>3. Stored(Key(p))
    BY <2>2 DEF SafeInv, OfferInv, JobSafe, StoredAll, Key
  <2> QED
    BY <1>2, <1>4, <2>1, <2>3 DEF Stored
<1> HIDE DEF OK
<1>5. CASE \/ EstablishReply(p) \/ EstablishDownlink(p) \/ EstablishEnd(p)
           \/ RequiredFlag(p) \/ RequiredUplink(p) \/ RequiredSend(p)
  BY <1>0, <1>1, <1>5, NoUplinkCall DEF EstablishReply, EstablishDownlink, EstablishEnd,
     RequiredFlag, RequiredUplink, RequiredSend, Finish, Post, OK
<1>6. CASE \/ AckFlag(p) \/ AckDownlink(p) \/ AckStore(p) \/ AckForwardTarget(p)
           \/ AckForwardSource(p) \/ AckForwarded(p) \/ AckSend(p)
  BY <1>0, <1>1, <1>6, NoUplinkCall DEF AckFlag, AckDownlink, AckStore, AckForwardTarget,
     AckForwardSource, AckForwarded, AckSend, Post, OK
<1>7. CASE \/ NotifyFlag(p) \/ NotifySwitch(p) \/ NotifyPath(p) \/ NotifyDown(p) \/ NotifyReset(p)
           \/ NotifyEnd(p) \/ GiveUp(p)
  BY <1>0, <1>1, <1>7, NoUplinkCall DEF NotifyFlag, NotifySwitch, NotifyPath, NotifyDown,
     NotifyReset, NotifyEnd, Finish, GiveUp, OK
<1> QED
  BY <1>1, <1>3, <1>4, <1>5, <1>6, <1>7 DEF HandlerStep, OK

\* The steps of the AMF as goroutine q sees them.
LEMMA CallCases ==
  ASSUME SmfInv, AmfInv, [AmfNext]_allVars, NEW q \in Procs
  PROVE  CallStays(q) \/ HandlerStep(q) \/ (Step(q) /\ UNCHANGED job)
<1>1. ASSUME UNCHANGED call PROVE CallStays(q)
  BY <1>1 DEF CallStays
<1>2. ASSUME NEW p \in Procs, p # q, Step(p) \/ Begin(p) \/ End(p) PROVE CallStays(q)
  BY <1>2, OthersStay DEF SmfInv, CallStays
<1>3. ASSUME NEW p \in Procs, p # q, HandlerStep(p) PROVE CallStays(q)
  <2>1. UNCHANGED vars \/ Begin(p) \/ End(p)
    BY <1>3, HandlerUses DEF Uses
  <2>2. UNCHANGED vars => UNCHANGED call
    BY DEF vars
  <2> QED
    BY <1>1, <1>2, <1>3, <2>1, <2>2
<1>4. ASSUME NEW p \in Procs, SmfStep(p) PROVE Step(p) /\ UNCHANGED job
  BY <1>4 DEF SmfStep, amfVars
<1>5. ASSUME Env PROVE UNCHANGED call
  BY <1>5 DEF Env, Answered, UeRequests, SourceRequires, GnbAccepts, TargetAcks, UeMoves, Lose, vars
<1>6. ASSUME Stopping \/ UNCHANGED allVars PROVE UNCHANGED call
  BY <1>6 DEF Stopping, Cancel, ServerStop, allVars, vars
<1>7. ASSUME NEW p \in Procs, NEW m \in msgs, Deliver(p, m) PROVE UNCHANGED call
  BY <1>7 DEF Deliver, vars
<1> QED
  BY <1>1, <1>2, <1>3, <1>4, <1>5, <1>6, <1>7 DEF AmfNext

\* The job of a goroutine that is in an SMF call does not change.
LEMMA BusyKeeps ==
  ASSUME SmfInv, AmfInv, [AmfNext]_allVars, NEW q \in Procs, call[q].pc # "idle"
  PROVE  job'[q] = job[q]
<1>1. ASSUME NEW p \in Procs, HandlerStep(p) PROVE job'[q] = job[q]
  BY <1>1, HandlerJobs
<1>2. ASSUME NEW p \in Procs, NEW m \in msgs, Deliver(p, m) PROVE job'[q] = job[q]
  BY <1>2 DEF Deliver, AmfInv, JobsInv
<1>3. ASSUME NEW p \in Procs, SmfStep(p) PROVE job'[q] = job[q]
  BY <1>3 DEF SmfStep, amfVars
<1>4. ASSUME NEW p \in Procs, Answered(p) PROVE job'[q] = job[q]
  BY <1>4 DEF Answered, Waits, Done, AmfInv, JobsInv
<1>5. ASSUME Env \/ Stopping \/ UNCHANGED allVars PROVE job'[q] = job[q]
  BY <1>4, <1>5 DEF Env, UeRequests, SourceRequires, GnbAccepts, TargetAcks, UeMoves, Lose, Stopping,
     allVars, amfVars
<1> QED
  BY <1>1, <1>2, <1>3, <1>5 DEF AmfNext

\* A session is established by one handler: the next address of the pool is new.
LEMMA AddsBy ==
  ASSUME SmfInv, AmfInv, [AmfNext]_allVars, NEW q \in Procs, NEW k, Adds(q, k)', ~Adds(q, k)
  PROVE  k \notin used /\ \A o \in Procs : o # q => job'[o] = job[o]
<1>1. job'[q] # job[q]
  BY DEF Adds
<1>2. ASSUME NEW p \in Procs, NEW m \in msgs, Deliver(p, m) PROVE FALSE
  <2>1. job'[q] = NoJob \/ job'[q].pc = "loop"
    BY <1>1, <1>2 DEF Deliver, AmfInv, JobsInv
  <2> QED
    BY <2>1 DEF Adds
<1>3. ASSUME NEW p \in Procs, HandlerStep(p)
      PROVE  p = q /\ job'[p].kind = job[p].kind /\ \A o \in Procs : o # q => job'[o] = job[o]
  BY <1>1, <1>3, HandlerJobs DEF Adds
<1>4. PICK p \in Procs : HandlerStep(p)
  <2>0. ASSUME NEW o \in Procs, Answered(o) PROVE FALSE
    BY <1>1, <2>0 DEF Answered, Done, AmfInv, JobsInv, Adds
  <2>1. ~Env /\ ~Stopping /\ ~UNCHANGED allVars /\ ~\E o \in Procs : SmfStep(o)
    BY <1>1, <2>0 DEF Env, UeRequests, SourceRequires, GnbAccepts, TargetAcks, UeMoves, Lose, Stopping,
       allVars, amfVars, SmfStep
  <2> QED
    BY <1>2, <2>1 DEF AmfNext
<1>5. p = q /\ job[q].kind = "estab" /\ job'[q] # NoJob
  BY <1>3, <1>4 DEF Adds
<1>6. EstablishUplink(q) \/ EstablishReply(q)
  <2>1. ~GiveUp(q)
    BY <1>4, <1>5 DEF GiveUp, Done, AmfInv, JobsInv
  <2> QED
    BY <1>4, <1>5, <2>1 DEF HandlerStep, EstablishDownlink, EstablishEnd, RequiredFlag, RequiredPath,
     RequiredUplink, RequiredSend, AckFlag, AckDownlink, AckStore, AckForwardTarget, AckForwardSource,
     AckForwarded, AckSend, NotifyFlag, NotifySwitch, NotifyPath, NotifyDown, NotifyReset, NotifyEnd,
     JobAt
<1>7. ~Done(q)
  BY <1>5 DEF Done, AmfInv, JobsInv
<1>8. EstablishUplink(q)
  <2>1. Sent(q) => job'[q].pc = "sent"
    BY <1>4, <1>5, HandlerJobs, JobEdits DEF AmfInv
  <2>2. ~Sent(q)
    BY <2>1 DEF Adds
  <2> QED
    BY <1>1, <1>6, <1>7, <2>2 DEF EstablishReply, Post, Sent
<1>9. PICK j : j = job[q]
  OBVIOUS
<1>10. PICK i \in Keys : /\ i \notin used
                   /\ job' = [job EXCEPT ![q].pc = "reply", ![q].m =
                        [kind |-> "n2req", ue |-> i.ue, gnb |-> j.m.gnb, key |-> i]]
  BY <1>7, <1>8, <1>9 DEF EstablishUplink, Finish
<1>11. j \in EstabJobs
  BY <1>8, <1>9, JobKinds DEF EstablishUplink, JobAt, AmfInv, JobsInv
<1>12. PICK m : m = [kind |-> "n2req", ue |-> i.ue, gnb |-> j.m.gnb, key |-> i]
  OBVIOUS
<1>13. job'[q] = [j EXCEPT !.pc = "reply", !.m = m]
  BY <1>10, <1>12, <1>9 DEF AmfInv, JobsInv
<1>14. job'[q].m = m
  BY <1>11, <1>13 DEF EstabJobs, JobsOf
<1>15. i = k
  BY <1>12, <1>14 DEF Adds
<1> QED
  BY <1>3, <1>4, <1>10, <1>15

\* How a call gets on with an uplink path.
LEMMA StepUplink ==
  ASSUME SmfInv, NEW p \in Procs, Step(p), call'[p].pc \in UlPcs
  PROVE  /\ call[p].pc \in UlPcs /\ call'[p].key = call[p].key
         /\ call'[p].pc = "ulAdd" => ~Stored(call[p].key) /\ UNCHANGED sessions
<1>1. call \in [Procs -> Call]
  BY DEF SmfInv, TypeInv, TypeOK
<1>2. ASSUME NEW res, NEW f, Return(p, res, f) PROVE FALSE
  BY <1>1, <1>2 DEF Return, Idle, UlPcs
<1>3. CASE UplinkQueue(p)
  BY <1>1, <1>2, <1>3 DEF UplinkQueue, At, UlPcs, Call
<1>4. CASE UplinkPush(p)
  BY <1>1, <1>2, <1>4 DEF UplinkPush, At, UlPcs, Call
<1>5. CASE UplinkStore(p)
  BY <1>1, <1>2, <1>5 DEF UplinkStore, At, UlPcs, Call, Stored
<1>6. CASE UplinkAdd(p)
  BY <1>1, <1>6 DEF UplinkAdd, Idle, UlPcs
<1>7. CASE DownlinkQueue(p)
  <2>1. (\E res, f : Return(p, res, f))
          \/ \E last, far : call' = [call EXCEPT ![p].pc = "dlFar", ![p].last = last, ![p].far = far]
    BY <1>7, Zenon DEF DownlinkQueue
  <2>2. ASSUME NEW last, NEW far,
               call' = [call EXCEPT ![p].pc = "dlFar", ![p].last = last, ![p].far = far]
        PROVE  FALSE
    <3>1. call'[p].pc = "dlFar"
      BY <1>1, <2>2 DEF Call
    <3> QED
      BY <3>1 DEF UlPcs
  <2>3. ~ \E res, f : Return(p, res, f)
    BY <1>2
  <2>4. ~ \E last, far : call' = [call EXCEPT ![p].pc = "dlFar", ![p].last = last, ![p].far = far]
    BY <2>2
  <2> QED
    BY <2>1, <2>3, <2>4
<1>8. CASE DownlinkRead(p) \/ DownlinkFar(p) \/ DownlinkPush(p)
  BY <1>1, <1>2, <1>8 DEF DownlinkRead, DownlinkFar, DownlinkPush, UlPcs, Call
<1>9. CASE FwQueue(p) \/ FwPush(p)
  BY <1>1, <1>2, <1>9 DEF FwQueue, FwPush, UlPcs, Call
<1>10. CASE SwitchQueue(p) \/ SwitchPush(p)
  BY <1>1, <1>2, <1>10 DEF SwitchQueue, SwitchPush, At, UlPcs, Call
<1>11. \/ UplinkQueue(p) \/ UplinkPush(p) \/ UplinkStore(p) \/ UplinkAdd(p) \/ DownlinkQueue(p)
       \/ (DownlinkRead(p) \/ DownlinkFar(p) \/ DownlinkPush(p)) \/ (FwQueue(p) \/ FwPush(p))
       \/ (SwitchQueue(p) \/ SwitchPush(p))
  BY DEF Step
<1> QED
  BY <1>3, <1>4, <1>5, <1>6, <1>7, <1>8, <1>9, <1>10, <1>11

LEMMA OnceStep ==
  ASSUME SmfInv, AmfInv, SafeInv, [AmfNext]_allVars
  PROVE  OnceInv'
<1>0. [Next]_vars /\ OnceInv /\ TypeInv
  BY StepRefines DEF SafeInv, SmfInv
<1>1. ASSUME NEW p \in Procs, NEW q \in Procs, NEW k, Adds(p, k)', Adds(q, k)', p # q PROVE FALSE
  <2>1. \A o \in Procs : Adds(o, k) => k \in used /\ k \in Keys
    BY DEF Adds, AmfInv, JobsInv, MsgsInv, JobOK
  <2>2. ASSUME NEW o \in Procs, NEW i \in Procs, o # i, ~Adds(o, k), Adds(o, k)', Adds(i, k)'
        PROVE  FALSE
    <3>1. k \notin used /\ job'[i] = job[i]
      BY <2>2, AddsBy
    <3>2. Adds(i, k)
      BY <2>2, <3>1 DEF Adds
    <3> QED
      BY <2>1, <3>1, <3>2
  <2> QED
    BY <1>0, <1>1, <2>1, <2>2 DEF OnceInv
<1>2. ASSUME NEW q \in Procs, CallStays(q), call'[q].pc \in UlPcs
      PROVE  /\ (Stored(call[q].key) \/ Adds(q, call[q].key))'
             /\ call'[q].pc = "ulAdd" => ~Stored(call[q].key)
  <2>1. PICK k \in Keys : k = call[q].key /\ k = call'[q].key
    BY <1>0, <1>2, KeyType DEF CallStays, UlPcs
  <2>2. job'[q] = job[q]
    BY <1>2, BusyKeeps DEF CallStays, UlPcs
  <2>3. Stored(k) \/ Adds(q, k)
    BY <1>0, <1>2, <2>1 DEF OnceInv, CallStays
  <2>4. Stored(k)' \/ Adds(q, k)'
    BY <1>0, <2>2, <2>3, StoredStays DEF Adds
  <2> QED
    BY <1>0, <1>2, <2>1, <2>4 DEF OnceInv, CallStays
<1>3. ASSUME NEW q \in Procs, Step(q), UNCHANGED job, call'[q].pc \in UlPcs
      PROVE  /\ (Stored(call[q].key) \/ Adds(q, call[q].key))'
             /\ call'[q].pc = "ulAdd" => ~Stored(call[q].key) /\ call'[q].key = call[q].key
  <2>1. PICK k \in Keys : k = call[q].key /\ k = call'[q].key /\ call[q].pc \in UlPcs
    BY <1>0, <1>3, KeyType, StepUplink DEF UlPcs
  <2>2. Stored(k) \/ Adds(q, k)
    BY <1>0, <2>1 DEF OnceInv
  <2>3. Stored(k)' \/ Adds(q, k)'
    BY <1>0, <1>3, <2>2, StoredStays DEF Adds
  <2> QED
    BY <1>3, <2>1, <2>3, StepUplink
<1>4. ASSUME NEW q \in Procs, call'[q].pc \in UlPcs
      PROVE  (Stored(call[q].key) \/ Adds(q, call[q].key))'
  BY <1>2, <1>3, <1>4, CallCases, HandlerOnce
<1>5. ASSUME NEW q \in Procs, call'[q].pc = "ulAdd" PROVE ~Stored(call[q].key)'
  <2>0. call'[q].pc \in UlPcs
    BY <1>5 DEF UlPcs
  <2>1. ~Stored(call[q].key) /\ call'[q].key = call[q].key
    BY <1>2, <1>3, <1>5, <2>0, CallCases, HandlerOnce DEF CallStays
  <2>2. PICK k \in Keys : k = call[q].key
    <3>1. call[q].pc # "idle"
      BY <1>5, <2>0, CallCases, HandlerOnce, StepPc DEF CallStays
    <3> QED
      BY <1>0, <3>1, KeyType
  <2>3. ASSUME NEW p \in Procs, UplinkAdd(p), call[p].key = k PROVE FALSE
    <3>1. p # q
      BY <1>0, <1>5, <2>3 DEF UplinkAdd, Idle, TypeInv, TypeOK
    <3>2. Step(p) /\ call[p].pc = "ulAdd"
      BY <2>3 DEF Step, UplinkAdd, At
    <3>3. call[q].pc = "ulAdd"
      BY <1>0, <1>5, <3>1, <3>2, OthersStay
    <3>4. Adds(p, k) /\ Adds(q, k)
      BY <1>0, <2>1, <2>2, <2>3, <3>2, <3>3 DEF OnceInv, UlPcs
    <3> QED
      BY <1>0, <3>1, <3>4 DEF OnceInv
  <2>4. ~Stored(k)'
    BY <1>0, <2>1, <2>2, <2>3, StoredBy
  <2> QED
    BY <2>1, <2>2, <2>4 DEF Stored
<1> QED
  BY <1>1, <1>4, <1>5 DEF OnceInv

-----------------------------------------------------------------------------
(* What the messages say stays true, and new ones say what holds.          *)

LEMMA ListStays ==
  ASSUME SmfInv, [Next]_vars, NEW list \in Seq(Items)
  PROVE  (StoredAll(list) => StoredAll(list)') /\ (Listened(list) => Listened(list)')
<1>1. \A n \in DOMAIN list : list[n].key \in Keys
  <2>1. \A n \in DOMAIN list : list[n] \in Items
    OBVIOUS
  <2> QED
    BY <2>1 DEF Items
<1>2. \A n \in DOMAIN list : Stored(list[n].key) => Stored(list[n].key)'
  BY <1>1, StoredStays
<1>3. \A y, dnn, dir, f : Live(y, dnn, dir, f) => Live(y, dnn, dir, f)'
  BY LiveStays DEF SmfInv
<1> QED
  BY <1>2, <1>3 DEF StoredAll, Listened

LEMMA MsgStays ==
  ASSUME SmfInv, [Next]_vars, NEW m \in Msgs, MsgSafe(m)
  PROVE  MsgSafe(m)'
<1>1. CASE m.kind \in {"n2req", "n2resp"}
  <2>1. m.key \in Keys
    BY <1>1, MsgKinds DEF N2ReqMsgs, N2RespMsgs
  <2>2. Stored(m.key)'
    BY <1>1, <2>1, StoredStays DEF MsgSafe
  <2>3. m.kind = "n2req" => Live(m.key.ip, m.key.dnn, "UL", m.ul)'
    BY LiveStays DEF MsgSafe, SmfInv
  <2> QED
    BY <1>1, <2>2, <2>3 DEF MsgSafe
<1>2. CASE m.kind \in {"hoRequired", "hoRequest"}
  <2>1. m.sessions \in Seq(Items)
    BY <1>2, MsgKinds DEF RequiredMsgs, HandoverMsgs
  <2> QED
    BY <1>2, <2>1, ListStays DEF MsgSafe
<1>3. CASE m.kind \notin {"n2req", "n2resp", "hoRequired", "hoRequest"}
  BY <1>3 DEF MsgSafe
<1> QED
  BY <1>1, <1>2, <1>3

\* At most one message is added, and it says what holds.
LEMMA SafeMsgs ==
  ASSUME SmfInv, AmfInv, SafeInv, [Next]_vars,
         msgs' \subseteq msgs \/ \E m : msgs' \subseteq msgs \union {m} /\ MsgSafe(m)'
  PROVE  \A m \in msgs' : MsgSafe(m)'
<1>1. \A m \in msgs : MsgSafe(m)'
  BY MsgStays DEF SafeInv, OfferInv, AmfInv, MsgsInv
<1> QED
  BY <1>1

LEMMA HandlerSends ==
  ASSUME SmfInv, AmfInv, SafeInv, NEW p \in Procs, HandlerStep(p)
  PROVE  \A m \in msgs' : MsgSafe(m)'
<1>0. [Next]_vars
  BY HandlerUses, UsesNext
<1> DEFINE Sends == msgs' \subseteq msgs \/ \E m : msgs' \subseteq msgs \union {m} /\ MsgSafe(m)'
<1>1. ASSUME NEW m, Post(p, m), MsgSafe(m)' PROVE Sends
  BY <1>1 DEF Post, Send
<1>2. CASE EstablishReply(p) /\ call[p].res # "err"
  <2>1. PICK k \in Keys : k = job[p].m.key /\ Asks(p, k)
    BY <1>2 DEF EstablishReply, JobAt, AmfInv, JobsInv, MsgsInv, JobOK
  <2>2. PICK f : f = sessions[k].ul
    OBVIOUS
  <2>3. sessions[k] # None
    BY <1>2, <2>1 DEF EstablishReply, JobAt, Asks
  <2>4. Live(k.ip, k.dnn, "UL", f)
    BY <2>2, <2>3 DEF SmfInv, FwdInv, UplinkListened
  <2>5. Stored(k)' /\ Live(k.ip, k.dnn, "UL", f)'
    BY <1>0, <2>3, <2>4, StoredStays, LiveStays DEF Stored, SmfInv
  <2>6. PICK m : m = [kind |-> "n2req", ue |-> job[p].m.ue, gnb |-> job[p].m.gnb, key |-> k, ul |-> f]
    OBVIOUS
  <2>7. MsgSafe(m)'
    BY <2>5, <2>6 DEF MsgSafe
  <2>8. Post(p, m)
    BY <1>2, <2>1, <2>2, <2>6 DEF EstablishReply
  <2> QED
    BY <1>0, <1>1, <2>7, <2>8, SafeMsgs
<1>3. CASE RequiredSend(p)
  <2>1. job[p] \in Jobs /\ job[p] # NoJob /\ job[p].kind = "required"
    BY <1>3 DEF RequiredSend, JobAt, AmfInv, JobsInv
  <2>2. PICK list \in Seq(Items) : list = job[p].out
    BY <2>1, JobFields
  <2>3. Listened(list)
    BY <2>1, <2>2 DEF SafeInv, OfferInv, JobSafe
  <2>4. Listened(list)'
    BY <1>0, <2>3, ListStays
  <2>5. PICK m : m = [kind |-> "hoRequest", ue |-> job[p].m.ue, source |-> job[p].m.source,
                      target |-> job[p].m.target, sessions |-> list]
    OBVIOUS
  <2>6. MsgSafe(m)'
    BY <2>4, <2>5 DEF MsgSafe
  <2>7. Post(p, m)
    BY <1>3, <2>2, <2>5 DEF RequiredSend
  <2> QED
    BY <1>0, <1>1, <2>6, <2>7, SafeMsgs
<1>4. CASE AckSend(p)
  <2>1. PICK m : m = [kind |-> "hoCommand", ue |-> job[p].m.ue, source |-> job[p].m.source,
                      target |-> job[p].m.target, sessions |-> job[p].out]
    OBVIOUS
  <2>2. MsgSafe(m)' /\ Post(p, m)
    BY <1>4, <2>1 DEF MsgSafe, AckSend
  <2> QED
    BY <1>0, <1>1, <2>2, SafeMsgs
<1>5. CASE UNCHANGED msgs
  BY <1>0, <1>5, SafeMsgs
<1>6. \/ EstablishReply(p) /\ call[p].res # "err"
      \/ RequiredSend(p) \/ AckSend(p) \/ UNCHANGED msgs
  BY DEF HandlerStep, EstablishUplink, EstablishReply, EstablishDownlink, EstablishEnd, RequiredFlag,
     RequiredPath, RequiredUplink, AckFlag, AckDownlink, AckStore, AckForwardTarget, AckForwardSource,
     AckForwarded, NotifyFlag, NotifySwitch, NotifyPath, NotifyDown, NotifyReset, NotifyEnd, GiveUp, NoMsg
<1> QED
  BY <1>2, <1>3, <1>4, <1>5, <1>6

LEMMA EnvSends ==
  ASSUME SmfInv, AmfInv, SafeInv, Env
  PROVE  (\A m \in msgs' : MsgSafe(m)') /\ (\A k \in active' : Stored(k)')
<1>0. [Next]_vars /\ UNCHANGED sessions /\ active \subseteq Keys
  BY EnvMsgs DEF vars, AmfInv, MsgsInv
<1>1. \A k \in active : Stored(k)'
  BY <1>0, StoredStays DEF SafeInv, OfferInv
<1>2. ASSUME NEW u \in Ues, NEW d \in Dnns, NEW g \in Gnbs, UeRequests(u, d, g)
      PROVE  (\A m \in msgs' : MsgSafe(m)') /\ UNCHANGED active
  <2>1. PICK m : m = [kind |-> "estab", ue |-> u, dnn |-> d, gnb |-> g]
    OBVIOUS
  <2>2. MsgSafe(m)' /\ msgs' \subseteq msgs \union {m} /\ UNCHANGED active
    BY <1>2, <2>1 DEF MsgSafe, UeRequests, Send
  <2> QED
    BY <1>0, <2>2, SafeMsgs
<1>3. ASSUME NEW u \in Ues, NEW t \in Gnbs, NEW kind \in Kinds, SourceRequires(u, t, kind)
      PROVE  (\A m \in msgs' : MsgSafe(m)') /\ UNCHANGED active
  <2>1. PICK list \in Lists(u) :
          Send([kind |-> "hoRequired", ue |-> u, source |-> at[u], target |-> t,
                indirect |-> kind = "indirect", sessions |-> list])
    BY <1>3 DEF SourceRequires
  <2>2. PICK m : m = [kind |-> "hoRequired", ue |-> u, source |-> at[u], target |-> t,
                      indirect |-> kind = "indirect", sessions |-> list]
    OBVIOUS
  <2>3. \A n \in DOMAIN list : list[n].key \in active
    BY DEF Lists, Listed
  <2>4. \A n \in DOMAIN list : Stored(list[n].key)'
    BY <1>1, <2>3
  <2>5. MsgSafe(m)'
    BY <2>2, <2>4 DEF MsgSafe, StoredAll
  <2>6. msgs' \subseteq msgs \union {m} /\ UNCHANGED active
    BY <1>3, <2>1, <2>2 DEF Send, SourceRequires
  <2> QED
    BY <1>0, <2>5, <2>6, SafeMsgs
<1>4. ASSUME NEW o \in msgs, GnbAccepts(o)
      PROVE  (\A m \in msgs' : MsgSafe(m)') /\ \A k \in active' : Stored(k)'
  <2>1. MsgSafe(o)'
    BY <1>0, MsgStays DEF SafeInv, OfferInv, AmfInv, MsgsInv
  <2>2. Stored(o.key)'
    BY <1>4, <2>1 DEF MsgSafe, GnbAccepts
  <2>3. PICK m : m = [kind |-> "n2resp", ue |-> o.ue, gnb |-> o.gnb, key |-> o.key,
                      dl |-> GnbFteid[o.gnb]]
    OBVIOUS
  <2>4. MsgSafe(m)'
    BY <2>2, <2>3 DEF MsgSafe
  <2>5. msgs' \subseteq msgs \union {m} /\ active' \subseteq active \union {o.key}
    BY <1>4, <2>3 DEF GnbAccepts
  <2> QED
    BY <1>0, <1>1, <2>2, <2>4, <2>5, SafeMsgs
<1>5. ASSUME NEW o \in msgs, TargetAcks(o) \/ UeMoves(o)
      PROVE  (\A m \in msgs' : MsgSafe(m)') /\ UNCHANGED active
  <2>0. o \in HandoverMsgs
    BY <1>5, MsgKinds DEF TargetAcks, UeMoves, AmfInv, MsgsInv
  <2>1. ASSUME NEW kind \in {"hoAck", "hoNotify"}, NEW list,
               msgs' \subseteq msgs \union {[o EXCEPT !.kind = kind, !.sessions = list]},
               UNCHANGED active
        PROVE  (\A m \in msgs' : MsgSafe(m)') /\ UNCHANGED active
    <3>1. PICK m : m = [o EXCEPT !.kind = kind, !.sessions = list]
      OBVIOUS
    <3>2. m.kind = kind
      BY <2>0, <3>1 DEF HandoverMsgs
    <3>3. MsgSafe(m)'
      BY <3>2 DEF MsgSafe
    <3> QED
      BY <1>0, <2>1, <3>1, <3>3, SafeMsgs
  <2>2. CASE TargetAcks(o)
    BY <2>1, <2>2 DEF TargetAcks, env
  <2>3. CASE UeMoves(o)
    <3>1. [o EXCEPT !.kind = "hoNotify"] = [o EXCEPT !.kind = "hoNotify", !.sessions = o.sessions]
      BY <2>0 DEF HandoverMsgs
    <3>2. /\ msgs' \subseteq msgs \union {[o EXCEPT !.kind = "hoNotify", !.sessions = o.sessions]}
          /\ UNCHANGED active
      BY <2>3, <3>1 DEF UeMoves
    <3> QED
      BY <2>1, <3>2
  <2> QED
    BY <1>5, <2>2, <2>3
<1>6. ASSUME NEW o \in msgs, Lose(o)
      PROVE  (\A m \in msgs' : MsgSafe(m)') /\ UNCHANGED active
  <2>1. msgs' \subseteq msgs /\ UNCHANGED active
    BY <1>6 DEF Lose
  <2> QED
    BY <1>0, <2>1, SafeMsgs
<1>7. ASSUME NEW p \in Procs, Answered(p)
      PROVE  (\A m \in msgs' : MsgSafe(m)') /\ UNCHANGED active
  BY <1>0, <1>7, SafeMsgs DEF Answered, env
<1> QED
  BY <1>1, <1>2, <1>3, <1>4, <1>5, <1>6, <1>7 DEF Env

-----------------------------------------------------------------------------
(* What the handlers have read stays true.                                 *)

LEMMA JobSafeStays ==
  ASSUME SmfInv, AmfInv, SafeInv, [Next]_vars, NEW q \in Procs, job[q] # NoJob, job'[q] = job[q]
  PROVE  JobSafe(q)'
<1>1. CASE job[q].kind = "required"
  <2>1. job[q] \in Jobs /\ JobSafe(q)
    BY DEF AmfInv, JobsInv, SafeInv, OfferInv
  <2>2. PICK list \in Seq(Items), out \in Seq(Items) : list = job[q].m.sessions /\ out = job[q].out
    BY <1>1, <2>1, HandoverJob, JobFields
  <2>3. StoredAll(list)' /\ Listened(out)'
    BY <1>1, <2>1, <2>2, ListStays DEF JobSafe
  <2> QED
    BY <2>2, <2>3 DEF JobSafe
<1>2. CASE job[q].kind # "required"
  BY <1>2 DEF JobSafe
<1> QED
  BY <1>1, <1>2

\* The uplink F-TEID of a session that is stored is listened on.
LEMMA ItemListened ==
  ASSUME SmfInv, [Next]_vars, NEW list \in Seq(Items), Listened(list), NEW k \in Keys, Stored(k),
         NEW item \in Items, item = Item(k, GetSessionUplinkFteid(k), None, None)
  PROVE  Listened(Append(list, item))'
<1>1. PICK f : f = sessions[k].ul
  OBVIOUS
<1>2. Live(k.ip, k.dnn, "UL", f)
  BY <1>1 DEF SmfInv, FwdInv, UplinkListened, Stored
<1>3. item.key = k /\ item.ul = f
  BY <1>1 DEF Item, GetSessionUplinkFteid
<1>4. PICK all \in Seq(Items) : all = Append(list, item)
  BY AppendProperties
<1>5. \A n \in DOMAIN all : (n \in DOMAIN list /\ all[n] = list[n]) \/ all[n] = item
  BY <1>4, ListedItems
<1>6. Listened(all)
  BY <1>2, <1>3, <1>5 DEF Listened
<1>7. Listened(all)'
  BY <1>6, ListStays
<1> QED
  BY <1>4, <1>7

LEMMA HandlerJobSafe ==
  ASSUME SmfInv, AmfInv, SafeInv, NEW p \in Procs, HandlerStep(p), job'[p] # NoJob
  PROVE  JobSafe(p)'
<1>0. [Next]_vars
  BY HandlerUses, UsesNext
<1>1. job[p] \in Jobs /\ JobsInv /\ job'[p].kind = job[p].kind /\ job[p] # NoJob
  BY HandlerJobs, NoJobKind DEF AmfInv
<1>2. CASE job[p].kind # "required"
  BY <1>1, <1>2 DEF JobSafe
<1>3. CASE job[p].kind = "required"
  <2>0. ~Done(p)
    BY <1>1 DEF Done, JobsInv
  <2>1. RequiredFlag(p) \/ RequiredPath(p) \/ RequiredUplink(p) \/ RequiredSend(p)
    BY <1>3, <2>0 DEF HandlerStep, EstablishUplink, EstablishReply, EstablishDownlink, EstablishEnd,
       GiveUp, AckFlag, AckDownlink, AckStore, AckForwardTarget, AckForwardSource,
       AckForwarded, AckSend, NotifyFlag, NotifySwitch, NotifyPath, NotifyDown, NotifyReset,
       NotifyEnd, JobAt
  <2>2. JobSafe(p)
    BY <1>1 DEF SafeInv, OfferInv
  <2>3. PICK list \in Seq(Items), out \in Seq(Items) : list = job[p].m.sessions /\ out = job[p].out
    BY <1>1, <1>3, HandoverJob, JobFields
  <2>4. StoredAll(list) /\ Listened(out)
    BY <1>3, <2>2, <2>3 DEF JobSafe
  <2>5. StoredAll(list)' /\ Listened(out)'
    BY <1>0, <2>4, ListStays
  <2>6. CASE RequiredSend(p)
    <3>1. Sent(p)
      BY <2>0, <2>6 DEF RequiredSend, Post, Sent
    <3>2. job'[p].m.sessions = list /\ job'[p].out = <<>>
      BY <1>1, <2>3, <3>1, JobEdits
    <3> QED
      BY <2>5, <3>2 DEF JobSafe, Listened
  <2>7. CASE ~RequiredSend(p)
    <3>0. Key(p) \in Keys /\ job[p].n \in DOMAIN job[p].m.sessions
      BY <2>1, <2>7, AtSession DEF RequiredFlag, RequiredPath, RequiredUplink
    <3>1. PICK k \in Keys : k = Key(p) /\ Stored(k)
      BY <2>3, <2>4, <3>0 DEF StoredAll, Key
    <3>2. ASSUME NEW item, item = Item(k, GetSessionUplinkFteid(k), None, None), Add(p, item)
          PROVE  JobSafe(p)'
      <4>1. sessions[k] \in Session
        BY <3>1 DEF Stored, SmfInv, TypeInv, TypeOK
      <4>2. item \in Items
        BY <3>2, <4>1, ItemTypes DEF GetSessionUplinkFteid, Session
      <4>3. Listened(Append(out, item))'
        BY <1>0, <2>4, <3>1, <3>2, <4>2, ItemListened
      <4>4. job'[p].m.sessions = list /\ job'[p].out = Append(out, item)
        BY <1>1, <2>3, <3>2, JobEdits
      <4>5. PICK all : all = Append(out, item)
        OBVIOUS
      <4> QED
        BY <2>5, <4>3, <4>4, <4>5 DEF JobSafe
    <3>3. ASSUME Continue(p) \/ (\E pc : Goto(p, pc)) PROVE JobSafe(p)'
      <4>1. job'[p].m.sessions = list /\ job'[p].out = out
        BY <1>1, <2>3, <3>3, JobEdits
      <4> QED
        BY <2>5, <4>1 DEF JobSafe
    <3>4. \/ Continue(p) \/ (\E pc : Goto(p, pc))
          \/ Add(p, Item(k, GetSessionUplinkFteid(k), None, None))
      BY <2>1, <2>7, <3>1 DEF RequiredFlag, RequiredPath, RequiredUplink
    <3> QED
      BY <3>2, <3>3, <3>4
  <2> QED
    BY <2>6, <2>7
<1> QED
  BY <1>2, <1>3

LEMMA OfferStep ==
  ASSUME SmfInv, AmfInv, SafeInv, [AmfNext]_allVars
  PROVE  OfferInv'
<1>0. [Next]_vars /\ JobsInv
  BY StepRefines DEF AmfInv
<1> DEFINE MsgsOK == (\A m \in msgs' : MsgSafe(m)') /\ (\A k \in active' : Stored(k)')
<1>1. \A k \in active : Stored(k)'
  BY <1>0, StoredStays DEF SafeInv, OfferInv, AmfInv, MsgsInv
<1>2. ASSUME NEW p \in Procs, HandlerStep(p) PROVE MsgsOK /\ \A q \in Procs : job'[q] # NoJob => JobSafe(q)'
  <2>1. UNCHANGED active
    BY <1>2, HandlerMsgs DEF HandlerStep, EstablishUplink, EstablishReply, EstablishDownlink, EstablishEnd,
       RequiredFlag, RequiredPath, RequiredUplink, RequiredSend, AckFlag, AckDownlink, AckStore,
       AckForwardTarget, AckForwardSource, AckForwarded, AckSend, NotifyFlag, NotifySwitch, NotifyPath,
       NotifyDown, NotifyReset, NotifyEnd, GiveUp, NoMsg, env
  <2>2. \A q \in Procs : job'[q] # NoJob => JobSafe(q)'
    BY <1>0, <1>2, HandlerJobSafe, HandlerJobs, JobSafeStays
  <2> QED
    BY <1>1, <1>2, <2>1, <2>2, HandlerSends
<1>3. ASSUME NEW p \in Procs, NEW m \in msgs, Deliver(p, m)
      PROVE  MsgsOK /\ \A q \in Procs : job'[q] # NoJob => JobSafe(q)'
  <2>1. msgs' \subseteq msgs /\ UNCHANGED <<active, sessions>>
    BY <1>3 DEF Deliver, vars, env
  <2>2. MsgsOK
    BY <1>0, <1>1, <2>1, SafeMsgs
  <2>3. ASSUME NEW q \in Procs, job'[q] # NoJob, job'[q] # job[q] PROVE JobSafe(q)'
    <3>1. job'[q].kind = Handler[m.kind] /\ job'[q].m = m /\ job'[q].out = <<>>
      BY <1>0, <1>3, <2>3 DEF Deliver, JobsInv
    <3>2. m.kind \in DOMAIN Handler
      BY <1>3 DEF Deliver
    <3>3. CASE m.kind = "hoRequired"
      <4>1. StoredAll(m.sessions)'
        BY <1>0, <3>3, MsgStays DEF SafeInv, OfferInv, MsgSafe, AmfInv, MsgsInv
      <4>2. PICK list : list = m.sessions
        OBVIOUS
      <4>3. Listened(<<>>)'
        BY DEF Listened
      <4> QED
        BY <3>1, <4>1, <4>2, <4>3 DEF JobSafe
    <3>4. CASE m.kind # "hoRequired"
      BY <3>1, <3>2, <3>4 DEF JobSafe, Handler
    <3> QED
      BY <3>3, <3>4
  <2> QED
    BY <1>0, <2>2, <2>3, JobSafeStays
<1>4. ASSUME UNCHANGED <<job, msgs, active>>
      PROVE  MsgsOK /\ \A q \in Procs : job'[q] # NoJob => JobSafe(q)'
  BY <1>0, <1>1, <1>4, SafeMsgs, JobSafeStays
<1>5. ASSUME Env PROVE MsgsOK /\ \A q \in Procs : job'[q] # NoJob => JobSafe(q)'
  <2>1. \A q \in Procs : job'[q] # NoJob => job'[q] = job[q]
    BY <1>5, EnvJobs
  <2> QED
    BY <1>0, <1>5, <2>1, EnvSends, JobSafeStays
<1>6. ASSUME Stopping \/ UNCHANGED allVars \/ \E p \in Procs : SmfStep(p) PROVE UNCHANGED <<job, msgs, active>>
  BY <1>6 DEF Stopping, SmfStep, allVars, amfVars, env
<1>7. MsgsOK /\ \A q \in Procs : job'[q] # NoJob => JobSafe(q)'
  <2> HIDE DEF MsgsOK
  <2> QED
    BY <1>2, <1>3, <1>4, <1>5, <1>6 DEF AmfNext
<1> QED
  BY <1>7 DEF OfferInv

LEMMA SafeInvariant == AmfSpec => [](SmfInv /\ AmfInv /\ SafeInv)
<1>1. AmfInit => SafeInv
  BY DEF AmfInit, Init, Idle, SafeInv, OnceInv, OfferInv, Adds, UlPcs
<1>2. SmfInv /\ AmfInv /\ SafeInv /\ [AmfNext]_allVars => SafeInv'
  BY OnceStep, OfferStep DEF SafeInv
<1> QED
  BY <1>1, <1>2, AmfInvariant, PTL DEF AmfSpec

\* Nothing that a session has stored is lost: its downlink F-TEID and FAR id are
\* replaced, never removed.  The SMF looks for a session and adds it in two steps
\* (smf.go:312 and :319); it is added by the one handler that establishes it, with an
\* address the pool has given once, and no gNB or handler names it before.
THEOREM SessionsAreKept == AmfSpec => SessionKept
<1> DEFINE Kept == \A k \in Keys : sessions[k] # None =>
                     /\ sessions'[k] # None
                     /\ sessions[k].dl # None => sessions'[k].dl # None
                     /\ sessions[k].far # 0 => sessions'[k].far # 0
<1>1. SmfInv /\ AmfInv /\ SafeInv /\ [AmfNext]_allVars => [Kept]_allVars
  <2> SUFFICES ASSUME SmfInv, AmfInv, SafeInv, [AmfNext]_allVars, NEW k \in Keys, sessions[k] # None
               PROVE  Keeps(k)
    BY DEF Keeps
  <2>1. ASSUME NEW p \in Procs, UplinkAdd(p) PROVE call[p].key # k
    BY <2>1 DEF UplinkAdd, At, SafeInv, OnceInv, Stored
  <2>2. [Next]_vars
    BY StepRefines
  <2> QED
    BY <2>1, <2>2, SessionEdits DEF SmfInv
<1> QED
  BY <1>1, SafeInvariant, PTL DEF AmfSpec, SessionKept

\* What the invariant says of the offers.
LEMMA OffersLive ==
  ASSUME AmfInv, SafeInv, NEW o \in Offers
  PROVE  Live(o[1].ip, o[1].dnn, "UL", o[2])
<1>1. CASE \E m \in msgs : m.kind = "n2req" /\ o = <<m.key, m.ul>>
  BY <1>1 DEF SafeInv, OfferInv, MsgSafe
<1>2. ASSUME NEW m \in msgs, m.kind = "hoRequest", NEW n \in DOMAIN m.sessions,
             o = <<m.sessions[n].key, m.sessions[n].ul>>
      PROVE  Live(o[1].ip, o[1].dnn, "UL", o[2])
  BY <1>2 DEF SafeInv, OfferInv, MsgSafe, Listened
<1> QED
  BY <1>1, <1>2 DEF Offers

\* An uplink F-TEID that is offered to a gNB, at an establishment or a handover, is
\* listened on by an uplink rule of that session, whatever fails or is lost: a handler
\* reads it from a session that is stored and never replaced.
THEOREM OffersAreListened == AmfSpec => []OffersListened
<1>1. AmfInv /\ SafeInv => OffersListened
  BY OffersLive DEF Live, OffersListened, Applied
<1> QED
  BY <1>1, SafeInvariant, PTL

\* What is listened on leads to the core when no switch redirects an uplink rule.
LEMMA OffersLead == AmfSpec /\ []RedirectsDownlink => []UplinkOffered
<1>1. AmfInv /\ SafeInv /\ CoreInv => UplinkOffered
  <2>1. ASSUME CoreInv, NEW k, NEW f, Live(k.ip, k.dnn, "UL", f) PROVE ReachesCore(k, f)
    BY <2>1 DEF CoreInv, ToCore, Live, ReachesCore, Applied
  <2> QED
    BY <2>1, OffersLive DEF UplinkOffered
<1> QED
  BY <1>1, SafeInvariant, CoreInvariant, AmfUsesSmf, PTL

\* Where the paths of a slice are one UPF, an uplink F-TEID is offered to a gNB only when
\* packets to it reach the data network over rules of that session, although other
\* handlers set up and switch paths meanwhile, requests fail and messages are lost.
THEOREM OffersReachCore ==
  ASSUME OneUpf
  PROVE  AmfSpec => []UplinkOffered
BY OffersLead, OneUpfRedirects, AmfUsesSmf, PTL

-----------------------------------------------------------------------------
(* No handler panics.                                                      *)

\* The network is configured completely: every gNB is in areas that have a path for
\* every slice, the paths name interfaces of configured UPFs, and the gNBs answer a
\* handover with an F-TEID.
Configured ==
  /\ \A h \in Hops : h.node \in Upfs /\ h.addr \in Ifaces[h.node]
  /\ \A d \in Dnns, g \in Gnbs : ~NoRoute(d, g)
  /\ \A r \in DOMAIN Paths : Paths[r] # <<>>
  /\ \A g \in Gnbs : GnbFteid[g] # None

\* A request has failed or the program is stopping.
Trouble == faults # 0 \/ ctxDone \/ ~started

HasNext(k)    == Stored(k) /\ sessions[k].next # None
AllNext(list) == \A n \in DOMAIN list : HasNext(list[n].key)
AllDl(list)   == \A n \in DOMAIN list : list[n].dl # None

NextMsg(m) ==
  /\ m.kind = "hoAck" => AllDl(m.sessions)
  /\ m.kind \in {"hoCommand", "hoNotify"} => AllNext(m.sessions)

\* A handover is commanded, and notified, for sessions whose next F-TEID is stored.
NextJob(p) ==
  LET j == job[p] IN
  /\ j.kind = "ack" => AllDl(j.m.sessions) /\ AllNext(j.out)
  /\ j.kind = "ack" /\ j.pc \in {"fwTarget", "fwSource", "fwDone"} => HasNext(Key(p))
  /\ j.kind = "notify" => AllNext(j.m.sessions)
  /\ j.kind = "estab" /\ j.pc = "reply" /\ call[p].pc = "idle" /\ call[p].res = "err" => Trouble

\* A session is switched to an F-TEID; an uplink path is walked inside its hops.
NextCall(p) == call[p].pc = "swQueue" => call[p].last # None
Walks(p)    == call[p].pc \in {"ulQueue", "ulPush"} => call[p].i \in DOMAIN call[p].path

NextInv ==
  /\ \A m \in msgs : NextMsg(m)
  /\ \A p \in Procs : job[p] # NoJob => NextJob(p)
  /\ \A p \in Procs : NextCall(p) /\ Walks(p)
  /\ ~crashed /\ (panicked => Trouble)

AllInv == SmfInv /\ AmfInv /\ SafeInv /\ NextInv

LEMMA TroubleStays ==
  ASSUME SmfInv, [Next]_vars, Trouble
  PROVE  Trouble'
<1>1. faults \in Nat
  BY DEF SmfInv, TypeInv, TypeOK
<1>2. ASSUME UNCHANGED <<started, ctxDone>>, UNCHANGED faults \/ faults' = faults + 1 PROVE Trouble'
  BY <1>1, <1>2 DEF Trouble
<1>3. ASSUME NEW u, NEW x,
             CreateSessionOk(u, x) \/ CreateSessionErr(u, x) \/ UpdateSessionOk(u, x) \/ UpdateSessionErr(u, x)
      PROVE  UNCHANGED faults \/ faults' = faults + 1
  BY <1>3 DEF CreateSessionOk, CreateSessionErr, UpdateSessionOk, UpdateSessionErr, Fault
<1>4. ASSUME NEW p \in Procs, Step(p) PROVE Trouble'
  <2>1. UNCHANGED <<started, ctxDone>>
    BY <1>4 DEF Step, UplinkQueue, UplinkPush, UplinkStore, UplinkAdd, DownlinkRead, DownlinkQueue, DownlinkFar,
       DownlinkPush, FwQueue, FwPush, SwitchQueue, SwitchPush, life
  <2>2. UNCHANGED faults \/ \E u, x : \/ CreateSessionOk(u, x) \/ CreateSessionErr(u, x)
                                      \/ UpdateSessionOk(u, x) \/ UpdateSessionErr(u, x)
    BY <1>4 DEF Step, UplinkQueue, UplinkPush, UplinkStore, UplinkAdd, DownlinkRead, DownlinkQueue, DownlinkFar,
       DownlinkPush, FwQueue, FwPush, SwitchQueue, SwitchPush, pfcp
  <2> QED
    BY <1>2, <1>3, <2>1, <2>2
<1>5. ASSUME NEW p \in Procs, Begin(p) \/ End(p) PROVE UNCHANGED <<started, ctxDone, faults>>
  BY <1>5 DEF Begin, BeginUplink, BeginDownlink, BeginForward, BeginSwitch, StoreNextDownlinkFteid,
     SetIndirectForwardingRequired, End, life, pfcp
<1>6. ASSUME UNCHANGED vars \/ Cancel \/ ServerStop PROVE Trouble'
  BY <1>6 DEF vars, Cancel, ServerStop, Trouble, pfcp
<1> QED
  BY <1>2, <1>4, <1>5, <1>6 DEF Next

\* What a handler does with the stored sessions.
LEMMA HandlerSessions ==
  ASSUME NEW p, HandlerStep(p)
  PROVE  \/ UNCHANGED sessions \/ AckStore(p)
         \/ \E j, v : /\ sessions[j] # None
                      /\ \/ sessions' = [sessions EXCEPT ![j].dl = v]
                         \/ sessions' = [sessions EXCEPT ![j].indirect = v]
<1> DEFINE Edits == \E j, v : /\ sessions[j] # None
                              /\ \/ sessions' = [sessions EXCEPT ![j].dl = v]
                                 \/ sessions' = [sessions EXCEPT ![j].indirect = v]
<1>1. ASSUME NEW k, NEW g, NEW f, BeginDownlink(p, k, g, f) PROVE UNCHANGED sessions \/ Edits
  BY <1>1 DEF BeginDownlink
<1>2. ASSUME NEW k, NEW b, SetIndirectForwardingRequired(p, k, b) PROVE UNCHANGED sessions \/ Edits
  BY <1>2 DEF SetIndirectForwardingRequired
<1>3. ASSUME UNCHANGED vars \/ Ended(p) \/ (\E k, g : BeginUplink(p, k, g) \/ BeginSwitch(p, k, g))
             \/ \E k, h, f : BeginForward(p, k, h, f)
      PROVE  UNCHANGED sessions
  BY <1>3 DEF vars, Ended, End, BeginUplink, BeginSwitch, BeginForward
<1> HIDE DEF Edits
<1>4. CASE EstablishUplink(p) \/ EstablishReply(p) \/ EstablishDownlink(p) \/ EstablishEnd(p)
  BY <1>1, <1>3, <1>4 DEF EstablishUplink, EstablishReply, EstablishDownlink, EstablishEnd, Finish, Post, Edits
<1>5. CASE RequiredFlag(p) \/ RequiredPath(p) \/ RequiredUplink(p) \/ RequiredSend(p)
  BY <1>2, <1>3, <1>5 DEF RequiredFlag, RequiredPath, RequiredUplink, RequiredSend, Post, Edits
<1>6. CASE \/ AckFlag(p) \/ AckDownlink(p) \/ AckForwardTarget(p)
           \/ AckForwardSource(p) \/ AckForwarded(p) \/ AckSend(p)
  BY <1>3, <1>6 DEF AckFlag, AckDownlink, AckForwardTarget, AckForwardSource, AckForwarded, AckSend, Post
<1>7. CASE \/ NotifyFlag(p) \/ NotifySwitch(p) \/ NotifyPath(p) \/ NotifyDown(p) \/ NotifyReset(p)
           \/ NotifyEnd(p) \/ GiveUp(p)
  BY <1>1, <1>2, <1>3, <1>7 DEF NotifyFlag, NotifySwitch, NotifyPath, NotifyDown, NotifyReset,
     NotifyEnd, Finish, GiveUp, Edits
<1> QED
  BY <1>4, <1>5, <1>6, <1>7 DEF HandlerStep, Edits

\* A field of a stored session other than its next F-TEID is written.
LEMMA EditKeepsNext ==
  ASSUME SmfInv, [Next]_vars, NEW j, sessions[j] # None, NEW v,
         \/ sessions' = [sessions EXCEPT ![j].dl = v] \/ sessions' = [sessions EXCEPT ![j].ul = v]
         \/ sessions' = [sessions EXCEPT ![j].indirect = v] \/ sessions' = [sessions EXCEPT ![j].far = v],
         NEW k \in Keys, HasNext(k)
  PROVE  HasNext(k)'
<1>1. Stored(k)' /\ sessions[k] \in Session /\ sessions \in [Keys -> Session \union {None}]
  BY StoredStays DEF HasNext, Stored, SmfInv, TypeInv, TypeOK
<1>2. PICK s \in Session : s = sessions[k]
  BY <1>1
<1>3. /\ [s EXCEPT !.dl = v].next = s.next /\ [s EXCEPT !.ul = v].next = s.next
      /\ [s EXCEPT !.indirect = v].next = s.next /\ [s EXCEPT !.far = v].next = s.next
  BY DEF Session
<1>4. CASE k = j
  BY <1>1, <1>2, <1>3, <1>4 DEF HasNext
<1>5. CASE k # j
  BY <1>1, <1>5 DEF HasNext
<1> QED
  BY <1>4, <1>5

\* A handover acknowledgement stores the next F-TEID of its session.
LEMMA AckStores ==
  ASSUME AllInv, NEW p \in Procs, AckStore(p), NEW k \in Keys, k = Key(p) \/ HasNext(k)
  PROVE  HasNext(k)'
<1>1. /\ Key(p) \in Keys /\ sessions[Key(p)] \in Session /\ job[p].n \in DOMAIN job[p].m.sessions
      /\ job[p].kind = "ack" /\ job[p] # NoJob /\ AckFteid(p) \in GnbFteids \union {None}
  BY AtSession, AtStored DEF AckStore, JobAt, AllInv
<1>2. AckFteid(p) # None
  BY <1>1 DEF AllInv, NextInv, NextJob, AllDl, AckFteid
<1>3. PICK i \in Keys, f \in GnbFteids : i = Key(p) /\ f = AckFteid(p)
  BY <1>1, <1>2
<1>4. sessions' = [sessions EXCEPT ![i].next = f]
  BY <1>1, <1>3, NoneAssumption DEF AckStore, StoreNextDownlinkFteid
<1>5. PICK s \in Session : s = sessions[i]
  BY <1>1, <1>3
<1>6. [s EXCEPT !.next = f] \in Session /\ [s EXCEPT !.next = f].next = f
  BY DEF Session
<1>7. sessions \in [Keys -> Session \union {None}]
  BY DEF AllInv, SmfInv, TypeInv, TypeOK
<1>8. CASE k = i
  <2>1. sessions'[k] = [s EXCEPT !.next = f]
    BY <1>4, <1>5, <1>7, <1>8
  <2> QED
    BY <1>2, <1>3, <1>6, <2>1, NoneAssumption DEF HasNext, Stored
<1>9. CASE k # i
  BY <1>3, <1>4, <1>7, <1>9 DEF HasNext, Stored
<1> QED
  BY <1>8, <1>9

\* A next F-TEID that is stored stays stored: no handler replaces a session.
LEMMA NextStays ==
  ASSUME AllInv, [AmfNext]_allVars, NEW k \in Keys, HasNext(k)
  PROVE  HasNext(k)'
<1>0. SmfInv /\ AmfInv /\ SafeInv /\ [Next]_vars
  BY StepRefines DEF AllInv
<1>1. CASE UNCHANGED sessions
  BY <1>1 DEF HasNext, Stored
<1>2. ASSUME NEW p \in Procs, HandlerStep(p) PROVE HasNext(k)'
  BY <1>0, <1>1, <1>2, HandlerSessions, AckStores, EditKeepsNext
<1>3. ASSUME NEW p \in Procs, Step(p) PROVE HasNext(k)'
  <2>1. PICK i : i = call[p].key
    OBVIOUS
  <2>2. CASE UplinkStore(p)
    BY <1>0, <1>1, <2>1, <2>2, EditKeepsNext DEF UplinkStore, SetUplinkFteid
  <2>3. CASE UplinkAdd(p)
    <3>1. k # i /\ sessions \in [Keys -> Session \union {None}]
      BY <1>0, <2>1, <2>3 DEF UplinkAdd, At, SafeInv, OnceInv, HasNext, SmfInv, TypeInv, TypeOK
    <3> QED
      BY <2>1, <2>3, <3>1 DEF UplinkAdd, SessionAdded, HasNext, Stored
  <2>4. CASE DownlinkFar(p)
    <3>1. CASE UNCHANGED sessions
      BY <1>1, <3>1
    <3>2. CASE ~UNCHANGED sessions
      <4>1. sessions[i] # None
        BY <1>0, <2>1, <2>4, <3>2 DEF DownlinkFar, At, SmfInv, HeldInv, StoredInv, DlPcs
      <4>2. \E n : sessions' = [sessions EXCEPT ![i].far = n]
        BY <2>1, <2>4, <3>2, Zenon DEF DownlinkFar
      <4> QED
        BY <1>0, <4>1, <4>2, EditKeepsNext
    <3> QED
      BY <3>1, <3>2
  <2>5. CASE UNCHANGED sessions
    BY <1>1, <2>5
  <2> QED
    BY <1>3, <2>2, <2>3, <2>4, <2>5 DEF Step, UplinkQueue, UplinkPush, DownlinkRead, DownlinkQueue, DownlinkPush, FwQueue,
       FwPush, SwitchQueue, SwitchPush
<1>4. ASSUME NEW p \in Procs, SmfStep(p) PROVE Step(p)
  BY <1>4 DEF SmfStep
<1>5. ASSUME Env \/ Stopping \/ UNCHANGED allVars \/ \E p \in Procs, m \in msgs : Deliver(p, m)
      PROVE  UNCHANGED sessions
  BY <1>5 DEF Env, Answered, UeRequests, SourceRequires, GnbAccepts, TargetAcks, UeMoves, Lose, Stopping, Cancel,
     ServerStop, Deliver, allVars, vars
<1> QED
  BY <1>1, <1>2, <1>3, <1>4, <1>5 DEF AmfNext

\* A walk down an uplink path stays on the path.
LEMMA WalkStep ==
  ASSUME SmfInv, [Next]_vars, NEW q \in Procs, Walks(q)
  PROVE  Walks(q)'
<1>0. call \in [Procs -> Call] /\ TypeInv /\ call[q] \in Call
  BY DEF SmfInv, TypeInv, TypeOK
<1>1. ASSUME UNCHANGED call PROVE Walks(q)'
  BY <1>1 DEF Walks
<1>2. ASSUME NEW p \in Procs, p # q, Step(p) \/ Begin(p) \/ End(p) PROVE Walks(q)'
  BY <1>0, <1>2, OthersStay DEF Walks
<1>3. ASSUME call'[q].pc \notin UlPcs PROVE Walks(q)'
  BY <1>3 DEF Walks, UlPcs
<1>4. CASE Step(q)
  <2>1. CASE UplinkQueue(q)
    BY <1>0, <2>1 DEF UplinkQueue, At, Return, Idle, Call, Walks
  <2>2. CASE UplinkPush(q)
    <3>1. CASE call[q].i # 1 /\ call' = [call EXCEPT ![q].pc = "ulQueue", ![q].i = @ - 1]
      <4>1. PICK c \in Call : c = call[q] /\ c.i \in DOMAIN c.path /\ c.i # 1
        BY <1>0, <2>2, <3>1 DEF UplinkPush, At, Walks
      <4>2. c.i - 1 \in DOMAIN c.path
        BY <4>1 DEF Call
      <4>3. call'[q] = [c EXCEPT !.pc = "ulQueue", !.i = c.i - 1]
        BY <1>0, <3>1, <4>1
      <4> QED
        BY <4>2, <4>3 DEF Call, Walks
    <3>2. CASE call' = [call EXCEPT ![q].pc = "ulStore"] \/ Return(q, "err", None)
      BY <1>0, <3>2 DEF Return, Idle, Call, Walks
    <3> QED
      BY <2>2, <3>1, <3>2 DEF UplinkPush
  <2>3. CASE UplinkStore(q) \/ UplinkAdd(q)
    BY <1>0, <2>3 DEF UplinkStore, UplinkAdd, At, Return, Idle, Call, Walks
  <2>4. CASE ~(UplinkQueue(q) \/ UplinkPush(q) \/ UplinkStore(q) \/ UplinkAdd(q))
    <3>1. call[q].pc \notin UlPcs
      BY <1>4, <2>4 DEF Step, DownlinkRead, DownlinkQueue, DownlinkFar, DownlinkPush, FwQueue, FwPush, SwitchQueue, SwitchPush,
         At, UlPcs
    <3> QED
      BY <1>3, <1>4, <3>1, StepUplink
  <2> QED
    BY <2>1, <2>2, <2>3, <2>4
<1>5. CASE Begin(q)
  <2>1. ASSUME NEW k \in Keys, NEW g \in Gnbs, BeginUplink(q, k, g) PROVE Walks(q)'
    <3>1. CASE Return(q, "err", None)
      BY <1>0, <3>1 DEF Return, Idle, Walks
    <3>2. ASSUME NEW path \in Routes(k.dnn, g), path # <<>>,
                 Start(q, "ulQueue", k, path, Len(path), None)
          PROVE  Walks(q)'
      <4>1. path \in Seq(Hops) /\ Len(path) \in DOMAIN path
        BY <3>2, RoutesType
      <4>2. call'[q].path = path /\ call'[q].i = Len(path)
        BY <1>0, <3>2 DEF Start
      <4> QED
        BY <4>1, <4>2 DEF Walks
    <3> QED
      BY <2>1, <3>1, <3>2 DEF BeginUplink
  <2>2. call[q].pc = "idle"
    BY <1>5 DEF Begin, BeginUplink, BeginDownlink, BeginForward, BeginSwitch, StoreNextDownlinkFteid,
       SetIndirectForwardingRequired, Enter
  <2>3. ASSUME NEW k, NEW g, NEW f, BeginDownlink(q, k, g, f) \/ BeginForward(q, k, g, f) PROVE Walks(q)'
    BY <1>3, <2>2, <2>3, NoUplinkCall
  <2>4. ASSUME NEW k, NEW g, BeginSwitch(q, k, g) \/ StoreNextDownlinkFteid(q, k, g)
                             \/ SetIndirectForwardingRequired(q, k, g)
        PROVE  Walks(q)'
    BY <1>3, <2>2, <2>4, NoUplinkCall
  <2> QED
    BY <1>5, <2>1, <2>3, <2>4 DEF Begin
<1>6. CASE End(q)
  BY <1>0, <1>6 DEF End, Return, Idle, Walks
<1>7. CASE UNCHANGED vars \/ Cancel \/ ServerStop
  BY <1>1, <1>7 DEF vars, Cancel, ServerStop
<1> QED
  BY <1>2, <1>4, <1>5, <1>6, <1>7 DEF Next

\* A handler switches a session only to an F-TEID that is stored.
LEMMA SwitchStarts ==
  ASSUME AllInv, NEW p \in Procs, HandlerStep(p), call'[p].pc = "swQueue"
  PROVE  call'[p].last # None
<1>0. call \in [Procs -> Call] /\ call[p].pc = "idle"
  BY HandlerJobs DEF AllInv, SmfInv, TypeInv, TypeOK
<1>1. ASSUME NEW res, NEW f, Return(p, res, f) PROVE FALSE
  BY <1>0, <1>1 DEF Return, Idle
<1>2. ASSUME NEW pc, pc # "swQueue", NEW k, NEW path, NEW i, NEW last, Start(p, pc, k, path, i, last)
      PROVE  FALSE
  BY <1>0, <1>2 DEF Start
<1>3. ASSUME UNCHANGED vars \/ Ended(p) PROVE FALSE
  BY <1>0, <1>1, <1>3 DEF Ended, End, vars
<1>4. ASSUME NEW k, NEW g, BeginUplink(p, k, g) PROVE FALSE
  BY <1>1, <1>2, <1>4 DEF BeginUplink
<1>5. ASSUME NEW k, NEW g, NEW f, BeginDownlink(p, k, g, f) PROVE FALSE
  BY <1>1, <1>2, <1>5 DEF BeginDownlink
<1>6. ASSUME NEW k, NEW h, NEW f, BeginForward(p, k, h, f) PROVE FALSE
  BY <1>1, <1>2, <1>6 DEF BeginForward
<1>7. ASSUME NEW k, NEW f, StoreNextDownlinkFteid(p, k, f) \/ SetIndirectForwardingRequired(p, k, f)
      PROVE  FALSE
  BY <1>1, <1>7 DEF StoreNextDownlinkFteid, SetIndirectForwardingRequired
<1>8. NotifySwitch(p)
  <2>1. ~(EstablishUplink(p) \/ EstablishReply(p) \/ EstablishDownlink(p) \/ EstablishEnd(p))
    BY <1>3, <1>4, <1>5 DEF EstablishUplink, EstablishReply, EstablishDownlink, EstablishEnd, Finish, Post
  <2>2. ~(RequiredFlag(p) \/ RequiredPath(p) \/ RequiredUplink(p) \/ RequiredSend(p))
    BY <1>3, <1>4, <1>7 DEF RequiredFlag, RequiredPath, RequiredUplink, RequiredSend, Post
  <2>3. ~(AckFlag(p) \/ AckDownlink(p) \/ AckStore(p) \/ AckForwardTarget(p) \/ AckForwardSource(p)
          \/ AckForwarded(p) \/ AckSend(p))
    BY <1>3, <1>6, <1>7 DEF AckFlag, AckDownlink, AckStore, AckForwardTarget, AckForwardSource,
       AckForwarded, AckSend, Post
  <2>4. ~(NotifyFlag(p) \/ NotifyPath(p) \/ NotifyDown(p) \/ NotifyReset(p) \/ NotifyEnd(p) \/ GiveUp(p))
    BY <1>3, <1>5, <1>7 DEF NotifyFlag, NotifyPath, NotifyDown, NotifyReset, NotifyEnd, GiveUp, Finish
  <2> QED
    BY <2>1, <2>2, <2>3, <2>4 DEF HandlerStep
<1>9. HasNext(Key(p))
  <2>1. job[p] # NoJob /\ job[p].kind = "notify" /\ job[p].n \in DOMAIN job[p].m.sessions
    BY <1>8, AtSession DEF NotifySwitch, JobAt, AllInv
  <2> QED
    BY <2>1 DEF AllInv, NextInv, NextJob, AllNext, Key
<1>10. call'[p].last = sessions[Key(p)].next
  BY <1>0, <1>1, <1>8 DEF NotifySwitch, BeginSwitch
<1> QED
  BY <1>9, <1>10 DEF HasNext

LEMMA SwitchStep ==
  ASSUME AllInv, [AmfNext]_allVars, NEW q \in Procs
  PROVE  NextCall(q)'
<1>0. call \in [Procs -> Call] /\ NextCall(q) /\ SmfInv /\ AmfInv
  BY DEF AllInv, NextInv, SmfInv, TypeInv, TypeOK
<1>1. CASE CallStays(q)
  BY <1>0, <1>1 DEF NextCall, CallStays
<1>2. CASE HandlerStep(q)
  BY <1>2, SwitchStarts DEF NextCall
<1>3. CASE Step(q)
  <2>0. ASSUME NEW res, NEW f, Return(q, res, f) PROVE NextCall(q)'
    BY <1>0, <2>0 DEF Return, Idle, NextCall
  <2>1. CASE SwitchQueue(q)
    BY <1>0, <2>1 DEF SwitchQueue, At, NextCall, Call
  <2>2. CASE UplinkQueue(q) \/ UplinkPush(q) \/ UplinkStore(q)
    BY <1>0, <2>0, <2>2 DEF UplinkQueue, UplinkPush, UplinkStore, NextCall, Call
  <2>3. CASE UplinkAdd(q)
    BY <1>0, <2>3 DEF UplinkAdd, Idle, NextCall
  <2>4. CASE DownlinkQueue(q)
    <3>1. \/ \E res, f : Return(q, res, f)
          \/ \E last, far : call' = [call EXCEPT ![q].pc = "dlFar", ![q].last = last, ![q].far = far]
      BY <2>4, Zenon DEF DownlinkQueue
    <3> QED
      BY <1>0, <2>0, <3>1 DEF NextCall, Call
  <2>5. CASE DownlinkRead(q) \/ DownlinkFar(q) \/ DownlinkPush(q) \/ FwQueue(q) \/ FwPush(q) \/ SwitchPush(q)
    BY <1>0, <2>0, <2>5 DEF DownlinkRead, DownlinkFar, DownlinkPush, FwQueue, FwPush, SwitchPush, NextCall, Call
  <2> QED
    BY <1>3, <2>1, <2>2, <2>3, <2>4, <2>5 DEF Step
<1> QED
  BY <1>0, <1>1, <1>2, <1>3, CallCases

\* In a network that is configured completely an uplink path cannot be set up only
\* when a request fails or the program stops.
LEMMA UplinkError ==
  ASSUME Configured, AllInv, NEW p \in Procs, Step(p), call[p].pc \in UlPcs,
         call'[p].pc = "idle", call'[p].res = "err"
  PROVE  Trouble'
<1>0. call \in [Procs -> Call] /\ Walks(p) /\ faults \in Nat
  BY DEF AllInv, NextInv, SmfInv, TypeInv, TypeOK
<1>1. CASE UplinkQueue(p)
  <2>1. Hop(p) \in Hops
    <3>1. call[p].path \in Seq(Hops) /\ call[p].i \in DOMAIN call[p].path
      BY <1>0, <1>1 DEF UplinkQueue, At, Walks, Call
    <3> QED
      BY <3>1 DEF Hop
  <2>2. ~Lookup(Hop(p)) \/ ListenRefused(Hop(p))
    BY <1>0, <1>1 DEF UplinkQueue, Call
  <2>3. ctxDone /\ UNCHANGED ctxDone
    BY <1>1, <2>1, <2>2 DEF Configured, Lookup, ListenRefused, UplinkQueue, life
  <2> QED
    BY <2>3 DEF Trouble
<1>2. CASE UplinkPush(p)
  <2>1. CreateSessionErr(Hop(p).node, Ip(p)) /\ UNCHANGED ctxDone
    BY <1>0, <1>2 DEF UplinkPush, Call, life
  <2>2. faults' = faults + 1 \/ ctxDone
    BY <2>1 DEF CreateSessionErr, Fault
  <2> QED
    BY <1>0, <2>1, <2>2 DEF Trouble
<1>3. CASE UplinkStore(p) \/ UplinkAdd(p)
  BY <1>0, <1>3 DEF UplinkStore, UplinkAdd, Return, Idle, Call
<1> QED
  BY <1>1, <1>2, <1>3 DEF Step, DownlinkRead, DownlinkQueue, DownlinkFar, DownlinkPush, FwQueue, FwPush, SwitchQueue, SwitchPush,
     At, UlPcs

LEMMA BeginUplinkError ==
  ASSUME Configured, AllInv, NEW p \in Procs, NEW k \in Keys, NEW g \in Gnbs, BeginUplink(p, k, g),
         call'[p].pc = "idle", call'[p].res = "err"
  PROVE  Trouble'
<1>0. call \in [Procs -> Call]
  BY DEF AllInv, SmfInv, TypeInv, TypeOK
<1>1. ~NoRoute(k.dnn, g)
  BY DEF Configured, Dnns
<1>2. \A path \in Routes(k.dnn, g) : path # <<>>
  BY DEF Routes, Configured
<1>3. CASE ~Runnable
  BY <1>3 DEF Runnable, Trouble, BeginUplink, life
<1>4. ASSUME NEW path, Start(p, "ulQueue", k, path, Len(path), None) PROVE FALSE
  BY <1>0, <1>4 DEF Start
<1> QED
  BY <1>1, <1>2, <1>3, <1>4 DEF BeginUplink

-----------------------------------------------------------------------------
(* What the handlers and the messages say of the stored F-TEIDs.           *)

LEMMA NextList ==
  ASSUME AllInv, [AmfNext]_allVars, NEW list \in Seq(Items), AllNext(list)
  PROVE  AllNext(list)'
<1>1. \A n \in DOMAIN list : list[n].key \in Keys
  <2>1. \A n \in DOMAIN list : list[n] \in Items
    OBVIOUS
  <2> QED
    BY <2>1 DEF Items
<1> QED
  BY <1>1, NextStays DEF AllNext

LEMMA NextMsgStays ==
  ASSUME AllInv, [AmfNext]_allVars, NEW m \in Msgs, NextMsg(m)
  PROVE  NextMsg(m)'
<1>1. CASE m.kind \in {"hoCommand", "hoNotify"}
  <2>1. m.sessions \in Seq(Items)
    BY <1>1, MsgKinds DEF HandoverMsgs
  <2> QED
    BY <1>1, <2>1, NextList DEF NextMsg
<1>2. CASE m.kind \notin {"hoCommand", "hoNotify"}
  BY <1>2 DEF NextMsg, AllDl
<1> QED
  BY <1>1, <1>2

\* The job of another handler, or of one whose call goes on.
LEMMA NextJobStays ==
  ASSUME AllInv, [AmfNext]_allVars, NEW q \in Procs, job[q] # NoJob, job'[q] = job[q],
         call'[q].pc = "idle" /\ call'[q].res = "err" /\ Adds(q, job[q].m.key) =>
           Trouble' \/ CallStays(q)
  PROVE  NextJob(q)'
<1>0. [Next]_vars /\ SmfInv /\ AmfInv /\ NextJob(q) /\ job[q] \in Jobs /\ JobOK(q)
  BY StepRefines DEF AllInv, NextInv, AmfInv, JobsInv
<1>1. PICK j \in Jobs : j = job[q] /\ j = job'[q]
  BY <1>0
<1>2. ASSUME j.kind = "ack" PROVE NextJob(q)'
  <2>1. PICK list \in Seq(Items), out \in Seq(Items) : list = j.m.sessions /\ out = j.out
    BY <1>2, HandoverJob, JobFields
  <2>2. AllDl(list) /\ AllNext(out) /\ AllNext(out)' /\ AllDl(list)'
    BY <1>0, <1>1, <1>2, <2>1, NextList DEF NextJob, AllDl
  <2>3. ASSUME j.pc \in {"fwTarget", "fwSource", "fwDone"} PROVE HasNext(Key(q))'
    <3>1. PICK k \in Keys : k = Key(q)
      BY <1>0, <1>1, <1>2, <2>1, <2>3, KeyOfJob DEF JobOK, AckPcs
    <3>2. HasNext(k)'
      BY <1>0, <1>1, <1>2, <2>3, <3>1, NextStays DEF NextJob
    <3>3. Key(q)' = k
      BY <1>1, <3>1 DEF Key
    <3> QED
      BY <3>2, <3>3
  <2> QED
    BY <1>1, <1>2, <2>1, <2>2, <2>3 DEF NextJob
<1>3. ASSUME j.kind = "notify" PROVE NextJob(q)'
  <2>1. PICK list \in Seq(Items) : list = j.m.sessions
    BY <1>3, HandoverJob
  <2>2. AllNext(list)'
    BY <1>0, <1>1, <1>3, <2>1, NextList DEF NextJob
  <2> QED
    BY <1>1, <1>3, <2>1, <2>2 DEF NextJob
<1>4. ASSUME j.kind = "estab" PROVE NextJob(q)'
  <2>1. ASSUME j.pc = "reply", call'[q].pc = "idle", call'[q].res = "err" PROVE Trouble'
    <3>1. CASE CallStays(q)
      BY <1>0, <1>1, <1>4, <2>1, <3>1, TroubleStays DEF NextJob, CallStays
    <3> QED
      BY <1>1, <1>4, <2>1, <3>1 DEF Adds
  <2> QED
    BY <1>1, <1>4, <2>1 DEF NextJob
<1>5. ASSUME j.kind \notin {"ack", "notify", "estab"} PROVE NextJob(q)'
  BY <1>1, <1>5 DEF NextJob
<1> QED
  BY <1>2, <1>3, <1>4, <1>5

\* A handler keeps to it: what it stores an F-TEID for it commands, and what it is
\* notified of it has stored.
LEMMA HandlerNext ==
  ASSUME Configured, AllInv, NEW p \in Procs, HandlerStep(p), [AmfNext]_allVars, job'[p] # NoJob
  PROVE  NextJob(p)'
<1>0. /\ [Next]_vars /\ JobsInv /\ job[p] \in Jobs /\ job'[p].kind = job[p].kind /\ job[p] # NoJob
      /\ NextJob(p) /\ SmfInv /\ AmfInv /\ call[p].pc = "idle"
  BY StepRefines, HandlerJobs, NoJobKind DEF AllInv, AmfInv, NextInv
<1>1. ~Done(p)
  BY <1>0 DEF Done, JobsInv
<1>2. CASE job[p].kind = "estab"
  <2>1. EstablishUplink(p) \/ EstablishReply(p)
    BY <1>1, <1>2 DEF HandlerStep, EstablishDownlink, EstablishEnd, RequiredFlag, RequiredPath,
       RequiredUplink, RequiredSend, AckFlag, AckDownlink, AckStore, AckForwardTarget,
       AckForwardSource, AckForwarded, AckSend, NotifyFlag, NotifySwitch, NotifyPath, NotifyDown,
       NotifyReset, NotifyEnd, GiveUp, JobAt
  <2>2. ASSUME EstablishUplink(p), call'[p].pc = "idle", call'[p].res = "err" PROVE Trouble'
    <3>1. PICK k \in Keys : BeginUplink(p, k, job[p].m.gnb)
      BY <1>1, <2>2 DEF EstablishUplink, Finish
    <3>2. job[p] \in EstabJobs
      BY <1>0, <2>2, JobKinds DEF EstablishUplink, JobAt
    <3>3. job[p].m.gnb \in Gnbs
      BY <3>2 DEF EstabJobs, JobsOf, EstabMsgs
    <3> QED
      BY <2>2, <3>1, <3>3, BeginUplinkError
  <2>3. CASE EstablishUplink(p)
    BY <1>0, <1>2, <2>2, <2>3 DEF NextJob
  <2>4. CASE EstablishReply(p)
    <3>1. UNCHANGED <<vars, job>> \/ Sent(p)
      BY <1>1, <2>4 DEF EstablishReply, Post, Sent
    <3>2. CASE Sent(p)
      <4>1. job'[p].pc = "sent"
        BY <1>0, <3>2, JobEdits
      <4> QED
        BY <1>0, <1>2, <4>1 DEF NextJob
    <3>3. CASE UNCHANGED <<vars, job>>
      <4>1. job[p].pc = "reply"
        BY <2>4 DEF EstablishReply, JobAt
      <4>2. call'[p] = call[p] /\ Trouble' = Trouble /\ job'[p] = job[p]
        BY <3>3 DEF vars, Trouble
      <4> QED
        BY <1>0, <1>2, <4>1, <4>2 DEF NextJob
    <3> QED
      BY <3>1, <3>2, <3>3
  <2> QED
    BY <2>1, <2>3, <2>4
<1>3. CASE job[p].kind = "ack"
  <2>1. PICK list \in Seq(Items), out \in Seq(Items) : list = job[p].m.sessions /\ out = job[p].out
    BY <1>0, <1>3, HandoverJob, JobFields
  <2>2. AllDl(list)' /\ AllNext(out)'
    BY <1>0, <1>3, <2>1, NextList DEF NextJob, AllDl
  <2>3. ASSUME job'[p].m = job[p].m, job'[p].out = out,
               job'[p].pc \notin {"fwTarget", "fwSource", "fwDone"}
        PROVE  NextJob(p)'
    BY <1>0, <1>3, <2>1, <2>2, <2>3 DEF NextJob
  <2>4. ASSUME Continue(p) \/ \E pc : Goto(p, pc) /\ pc \notin {"fwTarget", "fwSource", "fwDone"}
        PROVE  NextJob(p)'
    BY <1>0, <2>1, <2>3, <2>4, JobEdits
  <2>5. ASSUME NEW pc, Goto(p, pc), NEW k \in Keys, k = Key(p), HasNext(k)' PROVE NextJob(p)'
    <3>1. job'[p].m = job[p].m /\ job'[p].out = out /\ job'[p].n = job[p].n
      BY <1>0, <2>1, <2>5, JobEdits
    <3>2. Key(p)' = k
      BY <2>5, <3>1 DEF Key
    <3> QED
      BY <1>0, <1>3, <2>1, <2>2, <2>5, <3>1, <3>2 DEF NextJob
  <2>6. ASSUME NEW item \in Items, Add(p, item), HasNext(item.key)' PROVE NextJob(p)'
    <3>1. PICK all \in Seq(Items) : all = Append(out, item)
      BY AppendProperties
    <3>2. \A n \in DOMAIN all : (n \in DOMAIN out /\ all[n] = out[n]) \/ all[n] = item
      BY <3>1, ListedItems
    <3>3. AllNext(all)'
      BY <2>2, <2>6, <3>2 DEF AllNext
    <3>4. job'[p].m = job[p].m /\ job'[p].out = all /\ job'[p].pc = "loop"
      BY <1>0, <2>1, <2>6, <3>1, JobEdits
    <3> QED
      BY <1>0, <1>3, <2>1, <2>2, <3>3, <3>4 DEF NextJob
  <2>7. CASE AckFlag(p)
    <3>1. CASE Continue(p)
      BY <2>4, <3>1
    <3>2. ASSUME NEW b, job' = [job EXCEPT ![p].pc = "dl", ![p].ind = b] PROVE NextJob(p)'
      <4>1. /\ job'[p].m = job[p].m /\ job'[p].out = job[p].out
            /\ job'[p].pc = "dl"
        BY <1>0, <3>2, JobEdits
      <4> QED
        BY <2>1, <2>3, <4>1
    <3> QED
      BY <2>7, <3>1, <3>2 DEF AckFlag
  <2>8. CASE AckDownlink(p)
    <3>1. ASSUME NEW b, job' = [job EXCEPT ![p].pc = "store", ![p].dl = b] PROVE NextJob(p)'
      <4>1. /\ job'[p].m = job[p].m /\ job'[p].out = job[p].out
            /\ job'[p].pc = "store"
        BY <1>0, <3>1, JobEdits
      <4> QED
        BY <2>1, <2>3, <4>1
    <3> QED
      BY <2>4, <2>8, <3>1 DEF AckDownlink
  <2>9. CASE AckStore(p)
    <3>1. PICK k \in Keys : k = Key(p)
      BY <1>0, <2>9, AtSession DEF AckStore
    <3>2. HasNext(k)'
      BY <2>9, <3>1, AckStores
    <3>3. sessions[k] \in Session /\ job[p] \in AckJobs
      BY <1>0, <1>3, <2>9, <3>1, AtStored, JobKinds DEF AckStore
    <3>4. AckItem(p, AckFteid(p)) \in Items /\ AckItem(p, AckFteid(p)).key = k
      <4>1. job[p].dl \in GnbFteids \union {None}
        BY <3>3, JobMembers DEF AckJobs
      <4>2. /\ AckFteid(p) \in GnbFteids \union {None}
            /\ job[p].m.sessions[job[p].n].ul \in Fteid \union {None}
        BY <1>0, <2>9, AtSession DEF AckStore
      <4> QED
        BY <3>1, <4>1, <4>2, ItemTypes DEF AckItem, Item
    <3> QED
      BY <2>5, <2>6, <2>9, <3>1, <3>2, <3>4 DEF AckStore
  <2>10. CASE AckForwardTarget(p) \/ AckForwardSource(p) \/ AckForwarded(p)
    <3>1. PICK k \in Keys : k = Key(p)
      BY <1>0, <2>10, AtSession DEF AckForwardTarget, AckForwardSource, AckForwarded
    <3>2. HasNext(k)'
      BY <1>0, <1>3, <2>10, <3>1, NextStays DEF AckForwardTarget, AckForwardSource, AckForwarded,
         JobAt, NextJob
    <3>3. ASSUME call[p].res # "err", job[p].pc \in {"fwSource", "fwDone"}, Add(p, AckItem(p, call[p].last))
          PROVE  NextJob(p)'
      <4>1. job[p].dl \in GnbFteids \union {None}
        BY <1>0, <1>3, JobKinds, JobMembers DEF AckJobs
      <4>2. job[p].m.sessions[job[p].n].ul \in Fteid \union {None}
        BY <1>0, <2>10, AtSession DEF AckForwardTarget, AckForwardSource, AckForwarded
      <4>3. call[p].last \in Fteid \union GnbFteids \union {None}
        BY <1>0 DEF SmfInv, TypeInv, TypeOK, Call
      <4>4. AckItem(p, call[p].last) \in Items /\ AckItem(p, call[p].last).key = k
        BY <3>1, <4>1, <4>2, <4>3, ItemTypes DEF AckItem, Item
      <4> QED
        BY <2>6, <3>2, <3>3, <4>4
    <3>4. \/ Continue(p) \/ \E pc : Goto(p, pc)
          \/ call[p].res # "err" /\ job[p].pc \in {"fwSource", "fwDone"} /\ Add(p, AckItem(p, call[p].last))
      BY <2>10 DEF AckForwardTarget, AckForwardSource, AckForwarded, JobAt
    <3> QED
      BY <2>4, <2>5, <3>1, <3>2, <3>3, <3>4
  <2>11. CASE AckSend(p)
    <3>1. Sent(p)
      BY <1>1, <2>11 DEF AckSend, Post, Sent
    <3>2. job'[p].m = job[p].m /\ job'[p].out = <<>> /\ job'[p].pc = "sent"
      BY <1>0, <3>1, JobEdits
    <3>3. AllNext(<<>>)'
      BY DEF AllNext
    <3> QED
      BY <1>0, <1>3, <2>1, <2>2, <3>2, <3>3 DEF NextJob
  <2> QED
    BY <1>1, <1>3, <2>7, <2>8, <2>9, <2>10, <2>11 DEF HandlerStep, EstablishUplink, EstablishReply,
       EstablishDownlink, EstablishEnd, RequiredFlag, RequiredPath, RequiredUplink, RequiredSend,
       NotifyFlag, NotifySwitch, NotifyPath, NotifyDown, NotifyReset, NotifyEnd, GiveUp, JobAt
<1>4. CASE job[p].kind = "notify"
  <2>1. PICK list \in Seq(Items) : list = job[p].m.sessions
    BY <1>0, <1>4, HandoverJob
  <2>2. AllNext(list)'
    BY <1>0, <1>4, <2>1, NextList DEF NextJob
  <2>3. NotifyFlag(p) \/ NotifySwitch(p) \/ NotifyPath(p) \/ NotifyDown(p) \/ NotifyReset(p)
    BY <1>1, <1>4 DEF HandlerStep, EstablishUplink, EstablishReply,
       EstablishDownlink, EstablishEnd, RequiredFlag, RequiredPath, RequiredUplink, RequiredSend,
       AckFlag, AckDownlink, AckStore, AckForwardTarget, AckForwardSource, AckForwarded, AckSend,
       NotifyEnd, GiveUp, JobAt, Finish
  <2>4. job'[p].m = job[p].m
    <3>1. CASE UNCHANGED job \/ Continue(p) \/ \E pc : Goto(p, pc)
      BY <1>0, <3>1, JobEdits
    <3>2. ASSUME NEW b, NEW pc, job' = [job EXCEPT ![p].ind = b, ![p].pc = pc]
          PROVE  job'[p].m = job[p].m
      <4>1. PICK j : j = job[p]
        OBVIOUS
      <4>2. j \in NotifyJobs
        BY <1>0, <1>4, <4>1, JobKinds
      <4>3. job'[p] = [j EXCEPT !.ind = b, !.pc = pc]
        BY <1>0, <3>2, <4>1 DEF JobsInv
      <4>4. [j EXCEPT !.ind = b, !.pc = pc].m = j.m
        BY <4>2 DEF NotifyJobs, JobsOf
      <4> QED
        BY <4>1, <4>3, <4>4
    <3> QED
      BY <2>3, <3>1, <3>2 DEF NotifyFlag, NotifySwitch, NotifyPath, NotifyDown, NotifyReset
  <2> QED
    BY <1>0, <1>4, <2>1, <2>2, <2>4 DEF NextJob
<1>5. CASE job[p].kind \notin {"estab", "ack", "notify"}
  BY <1>0, <1>5 DEF NextJob
<1> QED
  BY <1>2, <1>3, <1>4, <1>5

\* At most one message is added, and it says what holds.
LEMMA NextMsgs ==
  ASSUME AllInv, [AmfNext]_allVars,
         msgs' \subseteq msgs \/ \E m : msgs' \subseteq msgs \union {m} /\ NextMsg(m)'
  PROVE  \A m \in msgs' : NextMsg(m)'
<1>1. \A m \in msgs : NextMsg(m)'
  BY NextMsgStays DEF AllInv, NextInv, AmfInv, MsgsInv
<1> QED
  BY <1>1

LEMMA HandlerSendsNext ==
  ASSUME AllInv, NEW p \in Procs, HandlerStep(p), [AmfNext]_allVars
  PROVE  \A m \in msgs' : NextMsg(m)'
<1>1. ASSUME NEW m, Post(p, m), NextMsg(m)' PROVE \A o \in msgs' : NextMsg(o)'
  BY <1>1, NextMsgs DEF Post, Send
<1>2. CASE EstablishReply(p) /\ call[p].res # "err"
  <2>1. PICK m : /\ Post(p, m)
                 /\ m = [kind |-> "n2req", ue |-> job[p].m.ue, gnb |-> job[p].m.gnb,
                         key |-> job[p].m.key, ul |-> sessions[job[p].m.key].ul]
    BY <1>2 DEF EstablishReply
  <2>2. m.kind = "n2req"
    BY <2>1
  <2> QED
    BY <1>1, <2>1, <2>2 DEF NextMsg
<1>3. CASE RequiredSend(p)
  <2>1. PICK m : /\ Post(p, m)
                 /\ m = [kind |-> "hoRequest", ue |-> job[p].m.ue, source |-> job[p].m.source,
                         target |-> job[p].m.target, sessions |-> job[p].out]
    BY <1>3 DEF RequiredSend
  <2>2. m.kind = "hoRequest"
    BY <2>1
  <2> QED
    BY <1>1, <2>1, <2>2 DEF NextMsg
<1>4. CASE AckSend(p)
  <2>1. job[p] \in Jobs /\ job[p] # NoJob /\ job[p].kind = "ack"
    BY <1>4 DEF AckSend, JobAt, AllInv, AmfInv, JobsInv
  <2>2. PICK out \in Seq(Items) : out = job[p].out
    BY <2>1, JobFields
  <2>3. AllNext(out)'
    BY <2>1, <2>2, NextList DEF AllInv, NextInv, NextJob
  <2>4. PICK m : m = [kind |-> "hoCommand", ue |-> job[p].m.ue, source |-> job[p].m.source,
                      target |-> job[p].m.target, sessions |-> out]
    OBVIOUS
  <2>5. NextMsg(m)'
    BY <2>3, <2>4 DEF NextMsg
  <2>6. Post(p, m)
    BY <1>4, <2>2, <2>4 DEF AckSend
  <2> QED
    BY <1>1, <2>5, <2>6
<1>5. CASE UNCHANGED msgs
  BY <1>5, NextMsgs
<1>6. \/ EstablishReply(p) /\ call[p].res # "err"
      \/ RequiredSend(p) \/ AckSend(p) \/ UNCHANGED msgs
  BY DEF HandlerStep, EstablishUplink, EstablishReply, EstablishDownlink, EstablishEnd, RequiredFlag,
     RequiredPath, RequiredUplink, AckFlag, AckDownlink, AckStore, AckForwardTarget, AckForwardSource,
     AckForwarded, NotifyFlag, NotifySwitch, NotifyPath, NotifyDown, NotifyReset, NotifyEnd, GiveUp, NoMsg
<1> QED
  BY <1>2, <1>3, <1>4, <1>5, <1>6

LEMMA EnvSendsNext ==
  ASSUME Configured, AllInv, Env, [AmfNext]_allVars
  PROVE  \A m \in msgs' : NextMsg(m)'
<1>1. ASSUME NEW u \in Ues, NEW d \in Dnns, NEW g \in Gnbs, UeRequests(u, d, g)
      PROVE  \A m \in msgs' : NextMsg(m)'
  <2>1. PICK m : m = [kind |-> "estab", ue |-> u, dnn |-> d, gnb |-> g]
    OBVIOUS
  <2>2. NextMsg(m)' /\ msgs' \subseteq msgs \union {m}
    BY <1>1, <2>1 DEF NextMsg, UeRequests, Send
  <2> QED
    BY <2>2, NextMsgs
<1>2. ASSUME NEW u \in Ues, NEW t \in Gnbs, NEW kind \in Kinds, SourceRequires(u, t, kind)
      PROVE  \A m \in msgs' : NextMsg(m)'
  <2>1. PICK list \in Lists(u) :
          Send([kind |-> "hoRequired", ue |-> u, source |-> at[u], target |-> t,
                indirect |-> kind = "indirect", sessions |-> list])
    BY <1>2 DEF SourceRequires
  <2>2. PICK m : m = [kind |-> "hoRequired", ue |-> u, source |-> at[u], target |-> t,
                      indirect |-> kind = "indirect", sessions |-> list]
    OBVIOUS
  <2>3. m.kind = "hoRequired" /\ msgs' \subseteq msgs \union {m}
    BY <2>1, <2>2 DEF Send
  <2> QED
    BY <2>3, NextMsgs DEF NextMsg
<1>3. ASSUME NEW o \in msgs, GnbAccepts(o) PROVE \A m \in msgs' : NextMsg(m)'
  <2>1. PICK m : m = [kind |-> "n2resp", ue |-> o.ue, gnb |-> o.gnb, key |-> o.key,
                      dl |-> GnbFteid[o.gnb]]
    OBVIOUS
  <2>2. NextMsg(m)' /\ msgs' \subseteq msgs \union {m}
    BY <1>3, <2>1 DEF NextMsg, GnbAccepts
  <2> QED
    BY <2>2, NextMsgs
<1>4. ASSUME NEW o \in msgs, TargetAcks(o) PROVE \A m \in msgs' : NextMsg(m)'
  <2>1. o \in HandoverMsgs
    BY <1>4, MsgKinds DEF TargetAcks, AllInv, AmfInv, MsgsInv
  <2>2. o.target \in Gnbs /\ o.sessions \in Seq(Items)
    BY <2>1 DEF HandoverMsgs
  <2>3. PICK f : f = GnbFteid[o.target] /\ f # None
    BY <2>2 DEF Configured
  <2>4. PICK list : list = [n \in DOMAIN o.sessions |-> [o.sessions[n] EXCEPT !.dl = f]]
    OBVIOUS
  <2>5. ASSUME NEW n \in DOMAIN list PROVE list[n].dl = f
    <3>1. PICK i \in Items : i = o.sessions[n]
      BY <2>2, <2>4
    <3>2. list[n] = [i EXCEPT !.dl = f]
      BY <2>4, <3>1
    <3>3. [i EXCEPT !.dl = f].dl = f
      BY DEF Items
    <3> QED
      BY <3>2, <3>3
  <2>6. PICK m : m = [o EXCEPT !.kind = "hoAck", !.sessions = list]
    OBVIOUS
  <2>7. m.kind = "hoAck" /\ m.sessions = list
    BY <2>1, <2>6 DEF HandoverMsgs
  <2>8. NextMsg(m)'
    BY <2>3, <2>5, <2>7 DEF NextMsg, AllDl
  <2>9. msgs' \subseteq msgs \union {m}
    BY <1>4, <2>3, <2>4, <2>6 DEF TargetAcks
  <2> QED
    BY <2>8, <2>9, NextMsgs
<1>5. ASSUME NEW o \in msgs, UeMoves(o) PROVE \A m \in msgs' : NextMsg(m)'
  <2>1. o \in HandoverMsgs /\ NextMsg(o)
    BY <1>5, MsgKinds DEF UeMoves, AllInv, AmfInv, MsgsInv, NextInv
  <2>2. PICK list \in Seq(Items) : list = o.sessions /\ AllNext(list)
    BY <1>5, <2>1 DEF UeMoves, HandoverMsgs, NextMsg
  <2>3. AllNext(list)'
    BY <2>2, NextList
  <2>4. PICK m : m = [o EXCEPT !.kind = "hoNotify"]
    OBVIOUS
  <2>5. m.kind = "hoNotify" /\ m.sessions = list
    BY <2>1, <2>2, <2>4 DEF HandoverMsgs
  <2>6. NextMsg(m)'
    BY <2>3, <2>5 DEF NextMsg
  <2>7. msgs' \subseteq msgs \union {m}
    BY <1>5, <2>4 DEF UeMoves
  <2> QED
    BY <2>6, <2>7, NextMsgs
<1>6. ASSUME NEW o \in msgs, Lose(o) PROVE \A m \in msgs' : NextMsg(m)'
  <2>1. msgs' \subseteq msgs
    BY <1>6 DEF Lose
  <2> QED
    BY <2>1, NextMsgs
<1>7. ASSUME NEW p \in Procs, Answered(p) PROVE \A m \in msgs' : NextMsg(m)'
  BY <1>7, NextMsgs DEF Answered
<1> QED
  BY <1>1, <1>2, <1>3, <1>4, <1>5, <1>6, <1>7 DEF Env

-----------------------------------------------------------------------------
(* The invariant.                                                          *)

LEMMA PanicStep ==
  ASSUME Configured, AllInv, [AmfNext]_allVars
  PROVE  ~crashed' /\ (panicked' => Trouble')
<1>0. [Next]_vars /\ SmfInv /\ AmfInv /\ ~crashed /\ (panicked => Trouble)
  BY StepRefines DEF AllInv, NextInv
<1>1. panicked => Trouble'
  BY <1>0, TroubleStays
<1>2. ~crashed'
  <2>1. ASSUME NEW p \in Procs, Step(p) PROVE ~crashed'
    <3>1. CASE SwitchQueue(p)
      BY <1>0, <3>1 DEF SwitchQueue, At, AllInv, NextInv, NextCall
    <3>2. CASE ~SwitchQueue(p)
      BY <1>0, <2>1, <3>2 DEF Step, UplinkQueue, UplinkPush, UplinkStore, UplinkAdd, DownlinkRead,
         DownlinkQueue, DownlinkFar, DownlinkPush, FwQueue, FwPush, SwitchPush
    <3> QED
      BY <3>1, <3>2
  <2>2. ASSUME NEW p \in Procs, Begin(p) \/ End(p) PROVE ~crashed'
    BY <1>0, <2>2 DEF Begin, BeginUplink, BeginDownlink, BeginForward, BeginSwitch,
       StoreNextDownlinkFteid, SetIndirectForwardingRequired, End
  <2> QED
    BY <1>0, <2>1, <2>2 DEF Next, Cancel, ServerStop, vars
<1>3. ASSUME NEW p \in Procs, HandlerStep(p) PROVE panicked' => Trouble'
  <2>1. CASE EstablishReply(p) /\ call[p].res = "err"
    <3>1. Trouble /\ UNCHANGED vars
      BY <2>1 DEF EstablishReply, JobAt, AllInv, NextInv, NextJob
    <3> QED
      BY <3>1 DEF Trouble, vars
  <2>2. CASE NotifyPath(p)
    <3>1. HasNext(Key(p))
      <4>1. job[p] # NoJob /\ job[p].kind = "notify" /\ job[p].n \in DOMAIN job[p].m.sessions
        BY <1>0, <2>2, AtSession DEF NotifyPath, JobAt
      <4> QED
        BY <4>1 DEF AllInv, NextInv, NextJob, AllNext, Key
    <3>2. UNCHANGED panicked
      BY <2>2, <3>1 DEF NotifyPath, HasNext, GetNextDownlinkFteid
    <3> QED
      BY <1>1, <3>2
  <2>3. CASE UNCHANGED panicked
    BY <1>1, <2>3
  <2> QED
    BY <1>3, <2>1, <2>2, <2>3 DEF HandlerStep, EstablishUplink, EstablishReply, EstablishDownlink,
       EstablishEnd, RequiredFlag, RequiredPath, RequiredUplink, RequiredSend, AckFlag, AckDownlink,
       AckStore, AckForwardTarget, AckForwardSource, AckForwarded, AckSend, NotifyFlag, NotifySwitch,
       NotifyDown, NotifyReset, NotifyEnd, GiveUp, NoMsg
<1>4. ASSUME Env \/ Stopping \/ UNCHANGED allVars \/ \E p \in Procs : SmfStep(p) \/ \E m \in msgs : Deliver(p, m)
      PROVE  UNCHANGED panicked
  BY <1>4 DEF Env, Answered, UeRequests, SourceRequires, GnbAccepts, TargetAcks, UeMoves, Lose, Stopping, SmfStep,
     Deliver, allVars, amfVars
<1> QED
  BY <1>1, <1>2, <1>3, <1>4 DEF AmfNext

LEMMA NextStep ==
  ASSUME Configured, AllInv, [AmfNext]_allVars
  PROVE  NextInv'
<1>0. [Next]_vars /\ SmfInv /\ AmfInv /\ JobsInv
  BY StepRefines DEF AllInv, AmfInv
<1>1. \A q \in Procs : NextCall(q)' /\ Walks(q)'
  BY <1>0, SwitchStep, WalkStep DEF AllInv, NextInv
<1> DEFINE Rest == (\A m \in msgs' : NextMsg(m)') /\ \A q \in Procs : job'[q] # NoJob => NextJob(q)'
<1>2. ASSUME NEW q \in Procs, job[q] # NoJob, job'[q] = job[q], CallStays(q) PROVE NextJob(q)'
  BY <1>2, NextJobStays
<1>3. ASSUME NEW p \in Procs, HandlerStep(p) PROVE Rest
  <2>1. \A q \in Procs : q # p => job'[q] = job[q]
    BY <1>0, <1>3, HandlerJobs
  <2>2. ASSUME NEW q \in Procs, q # p PROVE CallStays(q)
    <3>1. Begin(p) \/ End(p) \/ UNCHANGED vars
      BY <1>0, <1>3, HandlerUses DEF Uses
    <3>2. CASE UNCHANGED vars
      BY <3>2 DEF vars, CallStays
    <3> QED
      BY <1>0, <2>2, <3>1, <3>2, OthersStay DEF CallStays, SmfInv
  <2> QED
    BY <1>2, <1>3, <2>1, <2>2, HandlerNext, HandlerSendsNext
<1>4. ASSUME NEW p \in Procs, NEW m \in msgs, Deliver(p, m) PROVE Rest
  <2>1. msgs' \subseteq msgs /\ UNCHANGED call
    BY <1>4 DEF Deliver, vars
  <2>2. \A o \in msgs' : NextMsg(o)'
    BY <2>1, NextMsgs
  <2>3. ASSUME NEW q \in Procs, job'[q] # NoJob, job'[q] # job[q] PROVE NextJob(q)'
    <3>1. /\ job'[q].kind = Handler[m.kind] /\ job'[q].m = m /\ job'[q].out = <<>>
          /\ job'[q].pc = "loop"
      BY <1>0, <1>4, <2>3 DEF Deliver, JobsInv
    <3>2. m.kind \in DOMAIN Handler
      BY <1>4 DEF Deliver
    <3>3. NextMsg(m)'
      BY NextMsgStays DEF AllInv, NextInv, AmfInv, MsgsInv
    <3>4. AllNext(<<>>)'
      BY DEF AllNext
    <3>5. CASE m.kind = "hoAck"
      <4>1. AllDl(m.sessions)'
        BY <3>3, <3>5 DEF NextMsg
      <4> QED
        BY <3>1, <3>4, <3>5, <4>1 DEF NextJob, Handler
    <3>6. CASE m.kind = "hoNotify"
      <4>1. AllNext(m.sessions)'
        BY <3>3, <3>6 DEF NextMsg
      <4> QED
        BY <3>1, <3>6, <4>1 DEF NextJob, Handler
    <3>7. CASE m.kind \notin {"hoAck", "hoNotify"}
      BY <3>1, <3>2, <3>7 DEF NextJob, Handler
    <3> QED
      BY <3>5, <3>6, <3>7
  <2> QED
    BY <1>2, <2>1, <2>2, <2>3 DEF CallStays
<1>5. ASSUME NEW p \in Procs, SmfStep(p) PROVE Rest
  <2>1. Step(p) /\ UNCHANGED <<job, msgs>>
    BY <1>5 DEF SmfStep, amfVars
  <2>2. \A m \in msgs' : NextMsg(m)'
    BY <2>1, NextMsgs
  <2>3. ASSUME NEW q \in Procs, job[q] # NoJob PROVE NextJob(q)'
    <3>1. CASE q # p
      BY <1>0, <1>2, <2>1, <2>3, <3>1, OthersStay DEF CallStays, SmfInv
    <3>2. ASSUME q = p, call'[q].pc = "idle", call'[q].res = "err", Adds(q, job[q].m.key)
          PROVE  Trouble'
      <4>1. call[q].pc \in UlPcs
        BY <1>0, <2>1, <3>2, StepPc DEF Adds, JobsInv, JobOK, Asks, UlPcs
      <4> QED
        BY <2>1, <3>2, <4>1, UplinkError
    <3> QED
      BY <2>1, <2>3, <3>1, <3>2, NextJobStays
  <2> QED
    BY <2>1, <2>2, <2>3
<1>6. ASSUME Env PROVE Rest
  <2>1. \A q \in Procs : job'[q] # NoJob => job'[q] = job[q]
    BY <1>0, <1>6, EnvJobs
  <2>2. UNCHANGED call
    BY <1>0, <1>6, EnvMsgs DEF vars
  <2> QED
    BY <1>2, <1>6, <2>1, <2>2, EnvSendsNext DEF CallStays
<1>7. ASSUME Stopping \/ UNCHANGED allVars PROVE Rest
  <2>1. UNCHANGED <<job, msgs, call>>
    BY <1>7 DEF Stopping, Cancel, ServerStop, allVars, amfVars, vars
  <2> QED
    BY <1>2, <2>1, NextMsgs DEF CallStays
<1>8. Rest
  <2> HIDE DEF Rest
  <2> QED
    BY <1>3, <1>4, <1>5, <1>6, <1>7 DEF AmfNext
<1> QED
  BY <1>1, <1>8, PanicStep DEF NextInv

\* In a network that is configured completely no handler dereferences an F-TEID or
\* a session that is not there, in whatever order the messages, handlers and SMF
\* calls come and whichever messages are lost, until a request to a UPF fails or the
\* program stops: a handover is commanded only for sessions whose next F-TEID is
\* stored, and a stored session, with its next F-TEID, is never replaced.
THEOREM NothingPanics ==
  ASSUME Configured
  PROVE  AmfSpec => []NoPanic
<1>1. AmfInit => NextInv
  BY DEF AmfInit, Init, Idle, NextInv, NextCall, Walks
<1>2. SmfInv /\ AmfInv /\ SafeInv /\ NextInv /\ [AmfNext]_allVars => NextInv'
  BY NextStep DEF AllInv
<1>3. NextInv => NoPanic
  BY DEF NextInv, NoPanic, Trouble
<1> QED
  BY <1>1, <1>2, <1>3, SafeInvariant, PTL DEF AmfSpec

-----------------------------------------------------------------------------
(* Forwarding.                                                             *)

\* A rule that is come across leads on.
LEMMA ReachedOn ==
  ASSUME NEW f, NEW rs, NEW r \in rs, r.listen \in Reached(f, rs)
  PROVE  r.fwd \in Reached(f, rs)
<1> DEFINE all == {f} \union {q.fwd : q \in rs}
<1>1. r.fwd \in all
  OBVIOUS
<1>2. ASSUME NEW S \in SUBSET all, f \in S, \A q \in rs : q.listen \in S => q.fwd \in S
      PROVE  r.fwd \in S
  BY <1>2 DEF Reached
<1> QED
  BY <1>1, <1>2 DEF Reached

\* What is reached from where packets arrive is reached.
LEMMA ReachedFurther ==
  ASSUME NEW f, NEW rs, NEW v \in Reached(f, rs), NEW w \in Reached(v, rs)
  PROVE  w \in Reached(f, rs)
<1> DEFINE all(g) == {g} \union {q.fwd : q \in rs}
<1>1. v \in all(f) /\ w \in all(v)
  BY DEF Reached
<1>2. ASSUME NEW S \in SUBSET all(f), f \in S, \A q \in rs : q.listen \in S => q.fwd \in S
      PROVE  w \in S
  <2> DEFINE T == S \intersect all(v)
  <2>1. v \in S
    BY <1>2 DEF Reached
  <2>2. T \in SUBSET all(v) /\ v \in T /\ \A q \in rs : q.listen \in T => q.fwd \in T
    BY <1>2, <2>1
  <2>3. w \in T
    BY <2>2 DEF Reached
  <2> QED
    BY <2>3
<1>3. w \in all(f)
  BY <1>1
<1> QED
  BY <1>2, <1>3 DEF Reached

\* Rules that take the place of those come across, and lead on or to the target
\* itself, reach the target.
LEMMA ReachedImage ==
  ASSUME NEW f, NEW rs, NEW qs, NEW t \in Reached(f, rs),
         \A r \in rs : r.listen \in Reached(f, rs) =>
           \E q \in qs : q.listen = r.listen /\ q.fwd \in {r.fwd, t}
  PROVE  t \in Reached(f, qs)
<1> DEFINE all(r) == {f} \union {q.fwd : q \in r}
<1>1. ASSUME NEW S, f \in S, \A q \in qs : q.listen \in S => q.fwd \in S
      PROVE  t \in S
  <2> SUFFICES ASSUME t \notin S PROVE FALSE
    OBVIOUS
  <2> DEFINE T == S \intersect Reached(f, rs)
  <2>1. T \in SUBSET all(rs)
    BY DEF Reached
  <2>2. f \in T
    BY <1>1, ReachedSelf
  <2>3. ASSUME NEW r \in rs, r.listen \in T PROVE r.fwd \in T
    <3>1. PICK q \in qs : q.listen = r.listen /\ q.fwd \in {r.fwd, t}
      BY <2>3
    <3>2. q.fwd \in S
      BY <1>1, <2>3, <3>1
    <3> QED
      BY <2>3, <3>1, <3>2, ReachedOn
  <2>4. t \in T
    <3> HIDE DEF T
    <3> QED
      BY <2>1, <2>2, <2>3 DEF Reached
  <2> QED
    BY <2>4
<1>2. t \in all(qs)
  <2>1. \A q \in qs : q.listen \in all(qs) => q.fwd \in all(qs)
    OBVIOUS
  <2> QED
    BY <1>1, <2>1
<1> QED
  BY <1>1, <1>2 DEF Reached

\* A rule keeps its place; a redirection that waits for its PFCP session may have
\* changed where it leads.
LEMMA RuleLed ==
  ASSUME TypeInv, [Next]_vars, NEW e \in installed
  PROVE  \E d \in installed' :
           /\ d.upf = e.upf /\ d.ip = e.ip /\ d.dnn = e.dnn /\ d.dir = e.dir /\ d.listen = e.listen
           /\ \/ d.fwd = e.fwd
              \/ /\ e.seid = handle[e.upf][e.ip]
                 /\ \E r \in Redirects(e.upf, e.ip) : r.far = e.id /\ d.fwd = r.fwd
<1>1. CASE e \in installed'
  BY <1>1
<1>2. CASE e \notin installed'
  <2>1. PICK u \in Upfs, x \in Ips : Pushes(u, x)
    BY <1>2, StepKinds DEF RulesStay, Queues, pfcp
  <2>2. Redirected(u, x, handle[u][x]) \subseteq installed'
    BY <1>2, <2>1 DEF Pushes, CreateSessionOk, CreateSessionErr, UpdateSessionOk, UpdateSessionErr
  <2>3. InSession(e, u, x, handle[u][x]) /\ \E r \in Redirects(u, x) : r.far = e.id
    BY <1>2, <2>2 DEF Redirected
  <2>4. PICK r \in Redirects(u, x) : r = Redirect(u, x, e.id) /\ r.far = e.id
    BY <2>3 DEF Redirect
  <2>5. [e EXCEPT !.fwd = r.fwd] \in installed'
    BY <2>2, <2>3, <2>4 DEF Redirected
  <2>6. e \in Entry
    BY DEF TypeInv, TypeOK
  <2>7. PICK d \in installed' : d = [e EXCEPT !.fwd = r.fwd]
    BY <2>5
  <2>8. /\ d.upf = e.upf /\ d.ip = e.ip /\ d.dnn = e.dnn /\ d.dir = e.dir /\ d.listen = e.listen
        /\ d.fwd = r.fwd
    BY <2>6, <2>7 DEF Entry
  <2> QED
    BY <2>3, <2>4, <2>8 DEF InSession
<1> QED
  BY <1>1, <1>2

\* Packets of session k sent to f arrive at t, through rules of that session.
Leads(k, f, t) == f = t \/ (f \in Fteid /\ t \in Reached(f, Applied(k, "DL", installed)))

\* They will, once UPF u applies the rule that listens on f.
Coming(k, u, f, t) ==
  \/ Leads(k, f, t)
  \/ /\ f \in Fteid /\ ~\E e \in installed : e.listen = f
     /\ \E r \in created[u][k.ip] :
          r.listen = f /\ r.dnn = k.dnn /\ r.dir = "DL" /\ Leads(k, r.fwd, t)

\* A handover in preparation forwards through f to t.
Tracks(k, f, t) == \E w \in Forwarding : w.key = k /\ w.to = t /\ f \in Reached(w.fwd, Expected(k))

\* What handovers forward through keeps leading to the target.
LEMMA LeadsStays ==
  ASSUME SmfInv, RedirectsForward, [Next]_vars, NEW k, NEW f, NEW t, Leads(k, f, t),
         f # t => Tracks(k, f, t)
  PROVE  Leads(k, f, t)'
<1>1. CASE f = t
  BY <1>1 DEF Leads
<1>2. CASE f # t
  <2>1. f \in Fteid /\ t \in Reached(f, Applied(k, "DL", installed))
    BY <1>2 DEF Leads
  <2>2. PICK w \in Forwarding : w.key = k /\ w.to = t /\ f \in Reached(w.fwd, Expected(k))
    BY <1>2 DEF Tracks
  <2>3. PICK rs, qs, more : rs = Applied(k, "DL", installed) /\ qs = Applied(k, "DL", installed')
                            /\ more = Expected(k)
    OBVIOUS
  <2>4. rs \subseteq more
    BY <2>3 DEF Expected
  <2>5. ASSUME NEW r \in rs, r.listen \in Reached(f, rs)
        PROVE  \E q \in qs : q.listen = r.listen /\ q.fwd \in {r.fwd, t}
    <3>1. r \in installed /\ r.ip = k.ip /\ r.dnn = k.dnn /\ r.dir = "DL"
      BY <2>3, <2>5 DEF Applied
    <3>2. r.listen \in Reached(w.fwd, more)
      <4>1. r.listen \in Reached(f, more)
        BY <2>4, <2>5, ReachedMore
      <4> QED
        BY <2>2, <2>3, <4>1, ReachedFurther
    <3>3. PICK d \in installed' :
            /\ d.upf = r.upf /\ d.ip = r.ip /\ d.dnn = r.dnn /\ d.dir = r.dir /\ d.listen = r.listen
            /\ \/ d.fwd = r.fwd
               \/ /\ r.seid = handle[r.upf][r.ip]
                  /\ \E o \in Redirects(r.upf, r.ip) : o.far = r.id /\ d.fwd = o.fwd
      BY <3>1, RuleLed DEF SmfInv
    <3>4. d \in qs
      BY <2>3, <3>1, <3>3 DEF Applied
    <3>5. d.fwd \in {r.fwd, t}
      BY <2>2, <2>3, <2>5, <3>1, <3>2, <3>3 DEF RedirectsForward
    <3> QED
      BY <3>3, <3>4, <3>5
  <2>6. t \in Reached(f, qs)
    BY <2>1, <2>3, <2>5, ReachedImage
  <2> QED
    BY <2>1, <2>3, <2>6 DEF Leads
<1> QED
  BY <1>1, <1>2

\* A rule that leads to the target makes packets to it arrive there.
LEMMA LeadsBy ==
  ASSUME NEW k, NEW e \in installed', e.ip = k.ip, e.dnn = k.dnn, e.dir = "DL", e.listen \in Fteid,
         NEW t, Leads(k, e.fwd, t)'
  PROVE  Leads(k, e.listen, t)'
<1>1. PICK rs : rs = Applied(k, "DL", installed')
  OBVIOUS
<1>2. e \in rs
  BY <1>1 DEF Applied
<1>3. t \in Reached(e.fwd, rs)
  BY <1>1, ReachedSelf DEF Leads
<1>4. t \in Reached(e.listen, rs)
  BY <1>2, <1>3, ReachedVia
<1> QED
  BY <1>1, <1>4 DEF Leads

\* A session that is led through the rule in preparation is tracked.
LEMMA ComingTracks ==
  ASSUME NEW k, NEW u \in Upfs, NEW f, NEW t, NEW r \in created[u][k.ip], r.listen = f, r.dnn = k.dnn,
         r.dir = "DL", Tracks(k, f, t)
  PROVE  Tracks(k, r.fwd, t)
<1>1. PICK w \in Forwarding : w.key = k /\ w.to = t /\ f \in Reached(w.fwd, Expected(k))
  BY DEF Tracks
<1>2. r \in Expected(k)
  BY DEF Expected
<1>3. r.fwd \in Reached(w.fwd, Expected(k))
  BY <1>1, <1>2, ReachedOn
<1> QED
  BY <1>1, <1>3 DEF Tracks

\* The rule that waits becomes the one that is come across.
LEMMA ComingStays ==
  ASSUME SmfInv, TunnelExclusive, RedirectsForward, [Next]_vars, NEW k \in Keys, NEW u \in Upfs,
         NEW f, NEW t, Coming(k, u, f, t), f # t => Tracks(k, f, t)
  PROVE  /\ Coming(k, u, f, t)'
         /\ Pushes(u, k.ip) /\ created'[u][k.ip] = {} => Leads(k, f, t)'
<1>0. TypeInv /\ IdInv /\ k.ip \in Ips
  BY DEF SmfInv, Ips
<1>1. CASE Leads(k, f, t)
  BY <1>1, LeadsStays DEF Coming
<1>2. CASE ~Leads(k, f, t)
  <2>1. f # t
    BY <1>2 DEF Leads
  <2>2. f \in Fteid /\ ~\E e \in installed : e.listen = f
    BY <1>2 DEF Coming
  <2>3. PICK r \in created[u][k.ip] : r.listen = f /\ r.dnn = k.dnn /\ r.dir = "DL" /\ Leads(k, r.fwd, t)
    BY <1>2 DEF Coming
  <2>4. Leads(k, r.fwd, t)'
    BY <2>1, <2>3, ComingTracks, LeadsStays
  <2>5. CASE installed' = installed /\ created[u][k.ip] \subseteq created'[u][k.ip]
    BY <2>2, <2>3, <2>4, <2>5 DEF Coming
  <2>6. ASSUME NEW v \in Upfs, NEW x \in Ips, Pushes(v, x)
        PROVE  \/ Leads(k, f, t)'
               \/ created'[u][k.ip] = created[u][k.ip] /\ ~\E e \in installed' : e.listen = f
    <3>1. PICK im, s : Moves(v, x, im, s)
      BY <1>0, <2>6, PushMoves
    <3>2. ASSUME NEW e \in installed', e.listen = f PROVE Leads(k, f, t)'
      <4>1. e \in Installing(v, x, s)
        BY <2>2, <3>1, <3>2 DEF Moves, SameRule
      <4>2. PICK o \in created[v][x] : e.upf = v /\ e.ip = x /\ e.id = o.id /\ e.dnn = o.dnn
                                       /\ e.dir = o.dir /\ e.listen = o.listen /\ e.fwd = o.fwd
        BY <4>1, InstallingMembers
      <4>3. <<r.listen, u, k.ip, r.id>> \in Owned /\ <<o.listen, v, x, o.id>> \in Owned
        BY <1>0, OwnedMembersHere DEF OwnedMembers
      <4>4. f # None
        BY <2>2, FteidAssumption
      <4>5. v = u /\ x = k.ip /\ o.id = r.id
        BY <2>3, <3>2, <4>2, <4>3, <4>4 DEF TunnelExclusive
      <4>6. o = r
        BY <1>0, <4>5 DEF IdInv, IdQueued
      <4>7. e.ip = k.ip /\ e.dnn = k.dnn /\ e.dir = "DL" /\ Leads(k, e.fwd, t)'
        BY <2>3, <2>4, <4>2, <4>5, <4>6
      <4> QED
        BY <2>2, <3>2, <4>7, LeadsBy
    <3>3. CASE created'[u][k.ip] = created[u][k.ip]
      BY <3>2, <3>3
    <3>4. CASE created'[u][k.ip] # created[u][k.ip]
      <4>1. u = v /\ k.ip = x /\ Installing(v, x, s) \subseteq installed'
        BY <1>0, <3>1, <3>4, QueuesShrink
      <4>2. ~\E e \in installed : InSession(e, v, x, s) /\ e.id = r.id
        BY <1>0, <2>2, <2>3, <4>1 DEF InSession, IdInv, IdBoth, Alike
      <4>3. r \in {q \in created[v][x] : ~\E e \in installed : InSession(e, v, x, s) /\ e.id = q.id}
        BY <4>1, <4>2
      <4>4. PICK e : e = [upf |-> v, ip |-> x, seid |-> s, id |-> r.id, dnn |-> r.dnn, dir |-> r.dir,
                          listen |-> r.listen, fwd |-> r.fwd]
        OBVIOUS
      <4>5. e \in Installing(v, x, s)
        BY <4>3, <4>4 DEF Installing
      <4>6. e.listen = r.listen
        BY <4>4
      <4> QED
        BY <2>3, <3>2, <4>1, <4>5, <4>6
    <3> QED
      BY <3>3, <3>4
  <2>7. ASSUME NEW h, NEW x \in Ips, NEW dnn, NEW dir, NEW listen, NEW fwd,
               Queues(h, x, dnn, dir, listen, fwd)
        PROVE  installed' = installed /\ created[u][k.ip] \subseteq created'[u][k.ip]
    BY <1>0, <2>7 DEF Queues, AddRule, pfcp, TypeInv, TypeOK
  <2>8. Coming(k, u, f, t)'
    <3>1. CASE RulesStay
      BY <2>5, <3>1 DEF RulesStay
    <3>2. ASSUME NEW v \in Upfs, NEW x \in Ips, Pushes(v, x) PROVE Coming(k, u, f, t)'
      BY <2>2, <2>3, <2>4, <2>6, <3>2 DEF Coming
    <3> QED
      BY <1>0, <2>5, <2>7, <3>1, <3>2, StepKinds
  <2>9. Pushes(u, k.ip) /\ created'[u][k.ip] = {} => Leads(k, f, t)'
    BY <1>0, <2>3, <2>6
  <2> QED
    BY <2>8, <2>9
<1> QED
  BY <1>1, <1>2

LeadsAll(list, t) == \A n \in DOMAIN list : Leads(list[n].key, list[n].fwd, t)
DlAll(list, t)    == \A n \in DOMAIN list : list[n].dl = t

\* An acknowledgement carries the F-TEID of its target, a command what leads there.
TargetMsg(m) ==
  /\ m.kind = "hoAck" => DlAll(m.sessions, GnbFteid[m.target])
  /\ m.kind = "hoCommand" => LeadsAll(m.sessions, GnbFteid[m.target])

\* The forwarding call of goroutine p for session k.
TargetCall(p, k, t) ==
  LET c == call[p] IN
  /\ c.pc = "idle" => c.res \in {"ok", "err"} /\ (c.res = "ok" => Leads(k, c.last, t))
  /\ c.pc # "idle" => c.pc \in {"fwQueue", "fwPush"} /\ c.key = k
  /\ c.pc = "fwQueue" => Leads(k, c.last, t)
  /\ c.pc = "fwPush" => Coming(k, c.path[c.i].node, c.last, t)

TargetJob(p) ==
  LET j == job[p]
      t == GnbFteid[j.m.target]
  IN j.kind = "ack" =>
       /\ DlAll(j.m.sessions, t) /\ LeadsAll(j.out, t)
       /\ j.pc \in {"fwSource", "fwDone"} => TargetCall(p, Key(p), t)

TargetInv ==
  /\ \A m \in msgs : TargetMsg(m)
  /\ \A p \in Procs : job[p] # NoJob => TargetJob(p)

LEMMA ForwardingMembers ==
  ASSUME NEW w, w.fwd \in Fteid,
         \/ \E m \in msgs : m.kind = "hoCommand" /\ w \in Listing(m.sessions, m.target)
         \/ \E p \in Acks : w \in Listing(job[p].out, job[p].m.target)
         \/ \E p \in Acks : job[p].pc \in {"fwSource", "fwDone"}
                            /\ w = Via(Key(p), call[p].last, job[p].m.target)
  PROVE  w \in Forwarding
<1>1. ASSUME NEW m \in msgs, m.kind = "hoCommand", w \in Listing(m.sessions, m.target)
      PROVE  w \in Commanded
  BY <1>1 DEF Commanded
<1>2. ASSUME NEW p \in Acks, w \in Listing(job[p].out, job[p].m.target) PROVE w \in Prepared
  BY <1>2 DEF Prepared
<1>3. ASSUME NEW p \in Acks, job[p].pc \in {"fwSource", "fwDone"},
             w = Via(Key(p), call[p].last, job[p].m.target)
      PROVE  w \in Preparing
  BY <1>3 DEF Preparing
<1> QED
  BY <1>1, <1>2, <1>3 DEF Forwarding

\* A list that handovers forward through keeps leading to the target.
LEMMA ListLeads ==
  ASSUME SmfInv, RedirectsForward, [Next]_vars, NEW list, NEW g, LeadsAll(list, GnbFteid[g]),
         \A w \in Listing(list, g) : w.fwd \in Fteid => w \in Forwarding
  PROVE  LeadsAll(list, GnbFteid[g])'
<1>1. PICK t : t = GnbFteid[g]
  OBVIOUS
<1>2. ASSUME NEW n \in DOMAIN list PROVE Leads(list[n].key, list[n].fwd, t)'
  <2>1. PICK k, f : k = list[n].key /\ f = list[n].fwd
    OBVIOUS
  <2>2. Leads(k, f, t)
    BY <1>1, <2>1 DEF LeadsAll
  <2>3. ASSUME f # t PROVE Tracks(k, f, t)
    <3>1. PICK w : w = Via(k, f, g)
      OBVIOUS
    <3>2. w \in Listing(list, g) /\ w.key = k /\ w.fwd = f /\ w.to = t
      BY <1>1, <2>1, <3>1 DEF Listing, Via
    <3>3. w \in Forwarding
      BY <2>2, <2>3, <3>2 DEF Leads
    <3> QED
      BY <3>2, <3>3, ReachedSelf DEF Tracks
  <2>4. Leads(k, f, t)'
    BY <2>2, <2>3, LeadsStays
  <2> QED
    BY <2>1, <2>4
<1>3. LeadsAll(list, t)'
  BY <1>2 DEF LeadsAll
<1> QED
  BY <1>1, <1>3

\* The call of a handler that goes on, or waits while others go on.
LEMMA TargetCallStays ==
  ASSUME SmfInv, TunnelExclusive, RedirectsForward, [Next]_vars, NEW p \in Procs, Step(p),
         NEW q \in Procs, q # p, NEW k \in Keys, NEW t, TargetCall(q, k, t),
         call[q].last \in Fteid => Tracks(k, call[q].last, t)
  PROVE  TargetCall(q, k, t)'
<1>1. /\ call'[q].pc = call[q].pc /\ call'[q].key = call[q].key /\ call'[q].path = call[q].path
      /\ call'[q].i = call[q].i /\ call'[q].last = call[q].last /\ call'[q].res = call[q].res
  BY OthersStay DEF SmfInv
<1>2. PICK f, h : f = call[q].last /\ h = call[q].path[call[q].i]
  OBVIOUS
<1>3. ASSUME Leads(k, f, t) PROVE Leads(k, f, t)'
  BY <1>2, <1>3, LeadsStays DEF Leads
<1>4. ASSUME call[q].pc = "fwPush", Coming(k, h.node, f, t) PROVE Coming(k, h.node, f, t)'
  <2>1. h.node \in Upfs
    BY <1>2, <1>4 DEF SmfInv, TypeInv, CallOK
  <2>2. f # t => Tracks(k, f, t)
    BY <1>2, <1>4 DEF Coming, Leads
  <2> QED
    BY <1>4, <2>1, <2>2, ComingStays
<1> QED
  BY <1>1, <1>2, <1>3, <1>4 DEF TargetCall

LEMMA TargetCallQueue ==
  ASSUME SmfInv, TunnelExclusive', RedirectsForward, [Next]_vars, NEW p \in Procs, FwQueue(p),
         NEW k \in Keys, NEW t, TargetCall(p, k, t)
  PROVE  TargetCall(p, k, t)'
<1>0. TypeInv /\ IdInv /\ TypeInv' /\ call[p].pc = "fwQueue" /\ call[p].key = k /\ installed' = installed
  <2>1. TypeInv'
    BY TypeStep DEF SmfInv
  <2> QED
    BY <2>1 DEF FwQueue, At, TargetCall, SmfInv, pfcp
<1>1. CASE Return(p, "err", None)
  BY <1>0, <1>1 DEF Return, Idle, TargetCall, TypeInv, TypeOK
<1>2. CASE ~Return(p, "err", None)
  <2>1. PICK f : /\ UpdateDownlinkIntermediateWithFteid(Hop(p).node, Ip(p), call[p].key.dnn, f, call[p].last)
                 /\ NextListenFteidContext(Hop(p), f)
                 /\ call' = [call EXCEPT ![p].pc = "fwPush", ![p].last = f]
    BY <1>2 DEF FwQueue
  <2>2. PICK u, last, c : u = Hop(p).node /\ last = call[p].last /\ c = call[p]
    OBVIOUS
  <2>3. u \in Upfs /\ c \in Call /\ k.ip \in Ips
    BY <1>0, <2>2 DEF TypeInv, TypeOK, CallOK, Hop, Ips
  <2>4. PICK r : r = [id |-> NextId(u, k.ip), dnn |-> k.dnn, dir |-> "DL", listen |-> f, fwd |-> last]
    OBVIOUS
  <2>5. r \in created'[u][k.ip]
    BY <1>0, <2>1, <2>2, <2>3, <2>4
       DEF UpdateDownlinkIntermediateWithFteid, AddRule, Ip, TypeInv, TypeOK
  <2>6. f \in Fteid
    BY <1>0, <2>1, <2>2, <2>3, FreshType DEF Lookup, TypeInv
  <2>7. ~\E e \in installed' : e.listen = f
    <3>1. SUFFICES ASSUME NEW e \in installed, e.listen = f PROVE FALSE
      BY <1>0
    <3>2. <<r.listen, u, k.ip, r.id>> \in Owned' /\ <<e.listen, e.upf, e.ip, e.id>> \in Owned'
      <4>1. OwnedMembers'
        BY <1>0, OwnedMembersHere, PTL
      <4> QED
        BY <1>0, <2>3, <2>5, <4>1 DEF OwnedMembers
    <3>3. f # None
      BY <2>6, FteidAssumption
    <3>4. e.upf = u /\ e.ip = k.ip /\ e.id = NextId(u, k.ip)
      BY <2>4, <3>1, <3>2, <3>3 DEF TunnelExclusive
    <3>5. e.id \in Nat /\ lastId[u][k.ip] \in Nat /\ e.id <= lastId[u][k.ip]
      BY <1>0, <2>3, <3>4 DEF IdInv, IdBound, TypeInv, TypeOK, Entry
    <3> QED
      BY <3>4, <3>5 DEF NextId
  <2>8. Leads(k, last, t)'
    BY <1>0, <2>2 DEF TargetCall, Leads
  <2>9. Coming(k, u, f, t)'
    <3>1. r.listen = f /\ r.dnn = k.dnn /\ r.dir = "DL" /\ r.fwd = last
      BY <2>4
    <3> QED
      BY <2>5, <2>6, <2>7, <2>8, <3>1 DEF Coming
  <2>10. /\ call'[p].pc = "fwPush" /\ call'[p].key = k /\ call'[p].last = f
         /\ call'[p].path[call'[p].i].node = u
    BY <1>0, <2>1, <2>2, <2>3 DEF Call, Hop, TypeInv, TypeOK
  <2> QED
    BY <2>9, <2>10 DEF TargetCall
<1> QED
  BY <1>1, <1>2

LEMMA TargetCallPush ==
  ASSUME SmfInv, TunnelExclusive, RedirectsForward, [Next]_vars, NEW p \in Procs, FwPush(p),
         NEW k \in Keys, NEW t, TargetCall(p, k, t), call[p].last \in Fteid => Tracks(k, call[p].last, t)
  PROVE  TargetCall(p, k, t)'
<1>0. TypeInv /\ call[p].pc = "fwPush" /\ call[p].key = k /\ call \in [Procs -> Call]
  BY DEF FwPush, At, TargetCall, SmfInv, TypeInv, TypeOK
<1>1. CASE Return(p, "err", None)
  BY <1>0, <1>1 DEF Return, Idle, TargetCall
<1>2. CASE ~Return(p, "err", None)
  <2>1. UpdateSessionOk(Hop(p).node, Ip(p)) /\ Return(p, "ok", call[p].last)
    BY <1>2 DEF FwPush
  <2>2. PICK u, f : u = Hop(p).node /\ f = call[p].last
    OBVIOUS
  <2>3. u \in Upfs /\ k.ip = Ip(p) /\ k.ip \in Ips
    BY <1>0, <2>2 DEF TypeInv, CallOK, Hop, Ip, Ips
  <2>4. Coming(k, u, f, t)
    BY <1>0, <2>2 DEF TargetCall, Hop
  <2>5. Pushes(u, k.ip) /\ created'[u][k.ip] = {}
    BY <1>0, <2>1, <2>2, <2>3 DEF Pushes, UpdateSessionOk, TypeInv, TypeOK
  <2>6. Leads(k, f, t)'
    BY <2>2, <2>3, <2>4, <2>5, ComingStays DEF Coming, Leads
  <2>7. call'[p].pc = "idle" /\ call'[p].res = "ok" /\ call'[p].last = f
    BY <1>0, <2>1, <2>2 DEF Return, Idle
  <2> QED
    BY <2>6, <2>7 DEF TargetCall
<1> QED
  BY <1>1, <1>2

\* A step of the SMF.
LEMMA TargetSmfStep ==
  ASSUME SmfInv, AmfInv, TunnelExclusive, TunnelExclusive', TargetInv, RedirectsForward, [Next]_vars,
         NEW p \in Procs, SmfStep(p)
  PROVE  TargetInv'
<1>0. Step(p) /\ UNCHANGED <<job, msgs>>
  BY DEF SmfStep, amfVars
<1>1. ASSUME NEW m \in msgs PROVE TargetMsg(m)'
  <2>1. CASE m.kind = "hoCommand"
    <3>1. LeadsAll(m.sessions, GnbFteid[m.target])
      BY <2>1 DEF TargetInv, TargetMsg
    <3>2. \A w \in Listing(m.sessions, m.target) : w.fwd \in Fteid => w \in Forwarding
      BY <2>1, ForwardingMembers
    <3>3. LeadsAll(m.sessions, GnbFteid[m.target])'
      BY <3>1, <3>2, ListLeads
    <3> QED
      BY <2>1, <3>3 DEF TargetMsg
  <2>2. CASE m.kind # "hoCommand"
    BY <2>2 DEF TargetInv, TargetMsg, DlAll
  <2> QED
    BY <2>1, <2>2
<1>2. ASSUME NEW q \in Procs, job[q] # NoJob, job[q].kind = "ack" PROVE TargetJob(q)'
  <2>1. PICK j : j = job[q] /\ j = job'[q]
    BY <1>0
  <2>2. PICK t : t = GnbFteid[j.m.target]
    OBVIOUS
  <2>3. q \in Acks /\ TargetJob(q) /\ j \in Jobs /\ JobOK(q)
    BY <1>2, <2>1 DEF Acks, TargetInv, AmfInv, JobsInv
  <2>4. DlAll(j.m.sessions, t)' /\ LeadsAll(j.out, t)
    BY <1>2, <2>1, <2>2, <2>3 DEF TargetJob, DlAll
  <2>5. LeadsAll(j.out, t)'
    <3>1. \A w \in Listing(j.out, j.m.target) : w.fwd \in Fteid => w \in Forwarding
      BY <2>1, <2>3, ForwardingMembers
    <3> QED
      BY <2>2, <2>4, <3>1, ListLeads
  <2>6. ASSUME j.pc \in {"fwSource", "fwDone"} PROVE TargetCall(q, Key(q), t)'
    <3>1. PICK k \in Keys : k = Key(q)
      <4>1. j.m.sessions \in Seq(Items)
        BY <1>2, <2>1, <2>3, HandoverJob
      <4> QED
        BY <1>2, <2>1, <2>3, <2>6, <4>1, KeyOfJob DEF JobOK, AckPcs
    <3>2. Key(q)' = k
      BY <2>1, <3>1 DEF Key
    <3>3. TargetCall(q, k, t)
      BY <1>2, <2>1, <2>2, <2>3, <2>6, <3>1 DEF TargetJob
    <3>4. ASSUME call[q].last \in Fteid PROVE Tracks(k, call[q].last, t)
      <4>1. PICK w : w = Via(Key(q), call[q].last, job[q].m.target)
        OBVIOUS
      <4>2. w.key = k /\ w.fwd = call[q].last /\ w.to = t
        BY <2>1, <2>2, <3>1, <4>1 DEF Via
      <4>3. w \in Forwarding
        BY <2>1, <2>3, <2>6, <3>4, <4>1, <4>2, ForwardingMembers
      <4> QED
        BY <4>2, <4>3, ReachedSelf DEF Tracks
    <3>5. ASSUME q # p PROVE TargetCall(q, k, t)'
      BY <1>0, <3>3, <3>4, <3>5, TargetCallStays
    <3>6. ASSUME q = p PROVE TargetCall(q, k, t)'
      <4>1. call[p].pc \in {"fwQueue", "fwPush"}
        BY <1>0, <3>3, <3>6, StepPc DEF TargetCall
      <4>2. FwQueue(p) \/ FwPush(p)
        BY <1>0, <4>1 DEF Step, UplinkQueue, UplinkPush, UplinkStore, UplinkAdd, DownlinkRead,
           DownlinkQueue, DownlinkFar, DownlinkPush, SwitchQueue, SwitchPush, At
      <4> QED
        BY <3>3, <3>4, <3>6, <4>2, TargetCallQueue, TargetCallPush
    <3>7. TargetCall(q, k, t)'
      BY <3>5, <3>6
    <3> QED
      BY <3>2, <3>7 DEF TargetCall
  <2> QED
    BY <2>1, <2>2, <2>4, <2>5, <2>6 DEF TargetJob
<1>3. ASSUME NEW q \in Procs, job'[q] # NoJob PROVE TargetJob(q)'
  BY <1>0, <1>2, <1>3 DEF TargetJob
<1> QED
  BY <1>0, <1>1, <1>3 DEF TargetInv

\* A step that leaves the rules alone.
LEMMA LeadsQuietly ==
  ASSUME UNCHANGED <<installed, created>>
  PROVE  /\ \A k, f, t : Leads(k, f, t) => Leads(k, f, t)'
         /\ \A k, u, f, t : Coming(k, u, f, t) => Coming(k, u, f, t)'
         /\ \A list, t : LeadsAll(list, t) => LeadsAll(list, t)'
         /\ \A m : TargetMsg(m) => TargetMsg(m)'
<1>1. \A k, f, t : Leads(k, f, t) => Leads(k, f, t)'
  BY DEF Leads
<1>2. \A k, u, f, t : Coming(k, u, f, t) => Coming(k, u, f, t)'
  BY <1>1 DEF Coming
<1>3. \A list, t : LeadsAll(list, t) => LeadsAll(list, t)'
  BY <1>1 DEF LeadsAll
<1>4. \A m : TargetMsg(m) => TargetMsg(m)'
  BY <1>3 DEF TargetMsg, DlAll
<1> QED
  BY <1>1, <1>2, <1>3, <1>4

\* At most one message is added, and it says what holds.
LEMMA TargetMsgsQuiet ==
  ASSUME TargetInv, UNCHANGED <<installed, created>>,
         msgs' \subseteq msgs \/ \E m : msgs' \subseteq msgs \union {m} /\ TargetMsg(m)'
  PROVE  \A m \in msgs' : TargetMsg(m)'
BY LeadsQuietly DEF TargetInv

\* A handler that waits.
LEMMA TargetJobQuiet ==
  ASSUME TargetInv, UNCHANGED <<installed, created>>, NEW q \in Procs, job[q] # NoJob, job'[q] = job[q],
         call'[q].pc = call[q].pc, call'[q].key = call[q].key, call'[q].path = call[q].path,
         call'[q].i = call[q].i, call'[q].last = call[q].last, call'[q].res = call[q].res
  PROVE  TargetJob(q)'
<1>1. PICK j, k, t : j = job[q] /\ j = job'[q] /\ k = Key(q) /\ t = GnbFteid[j.m.target]
  OBVIOUS
<1>2. TargetJob(q)
  BY DEF TargetInv
<1>3. Key(q)' = k
  BY <1>1 DEF Key
<1>4. ASSUME j.kind = "ack" PROVE DlAll(j.m.sessions, t)' /\ LeadsAll(j.out, t)'
  BY <1>1, <1>2, <1>4, LeadsQuietly DEF TargetJob, DlAll
<1>5. ASSUME j.kind = "ack", j.pc \in {"fwSource", "fwDone"} PROVE TargetCall(q, k, t)'
  <2>1. TargetCall(q, k, t)
    BY <1>1, <1>2, <1>5 DEF TargetJob
  <2> QED
    BY <2>1, LeadsQuietly DEF TargetCall
<1>6. ASSUME j.kind = "ack", j.pc \in {"fwSource", "fwDone"} PROVE TargetCall(q, Key(q), t)'
  BY <1>3, <1>5, <1>6 DEF TargetCall
<1> QED
  BY <1>1, <1>4, <1>6 DEF TargetJob

\* A handler does not change rules itself.
LEMMA HandlerQuiet ==
  ASSUME SmfInv, AmfInv, NEW p \in Procs, HandlerStep(p)
  PROVE  UNCHANGED <<installed, created>>
<1>1. Uses(p)
  BY HandlerUses
<1> QED
  BY <1>1 DEF Uses, vars, Begin, End, BeginUplink, BeginDownlink, BeginForward, BeginSwitch,
     StoreNextDownlinkFteid, SetIndirectForwardingRequired, rules, pfcp

\* What a forwarding call is made for.
LEMMA BeginForwardTarget ==
  ASSUME TypeInv, NEW p \in Procs, NEW k, NEW h, NEW f, NEW t, BeginForward(p, k, h, f), Leads(k, f, t)
  PROVE  TargetCall(p, k, t)'
<1>1. UNCHANGED <<installed, created>> /\ Leads(k, f, t)'
  <2>1. UNCHANGED <<installed, created>>
    BY DEF BeginForward, rules, pfcp
  <2> QED
    BY <2>1, LeadsQuietly
<1>2. CASE Start(p, "fwQueue", k, <<h>>, 1, f)
  <2>1. call'[p].pc = "fwQueue" /\ call'[p].key = k /\ call'[p].last = f
    BY <1>2 DEF Start, TypeInv, TypeOK
  <2> QED
    BY <1>1, <2>1 DEF TargetCall
<1>3. CASE Return(p, "err", None)
  <2>1. call'[p].pc = "idle" /\ call'[p].res = "err"
    BY <1>3 DEF Return, Idle, TypeInv, TypeOK
  <2> QED
    BY <2>1 DEF TargetCall
<1> QED
  BY <1>2, <1>3 DEF BeginForward

\* The handler of an acknowledgement lists what leads to its target.
LEMMA HandlerTarget ==
  ASSUME SmfInv, AmfInv, TargetInv, NEW p \in Procs, HandlerStep(p), job'[p] # NoJob
  PROVE  TargetJob(p)'
<1>0. /\ JobsInv /\ job[p] \in Jobs /\ job'[p].kind = job[p].kind /\ job[p] # NoJob
      /\ TargetJob(p) /\ call[p].pc = "idle" /\ TypeInv
      /\ UNCHANGED <<installed, created>>
  BY HandlerJobs, HandlerQuiet, NoJobKind DEF AmfInv, SmfInv, TargetInv
<1>1. ~Done(p)
  BY <1>0 DEF Done, JobsInv
<1>2. CASE job[p].kind # "ack"
  BY <1>0, <1>2 DEF TargetJob
<1>3. CASE job[p].kind = "ack"
  <2>0. job[p].m.sessions \in Seq(Items) /\ job[p].out \in Seq(Items)
    BY <1>0, <1>3, HandoverJob, JobFields
  <2>1. PICK list, out, k, t :
          /\ list = job[p].m.sessions /\ out = job[p].out /\ list \in Seq(Items) /\ out \in Seq(Items)
          /\ k = Key(p) /\ t = GnbFteid[job[p].m.target]
    BY <2>0
  <2>2. DlAll(list, t)' /\ LeadsAll(out, t)' /\ DlAll(list, t)
    BY <1>0, <1>3, <2>1, LeadsQuietly DEF TargetJob, DlAll
  <2>3. ASSUME job'[p].m = job[p].m, NEW all, job'[p].out = all, LeadsAll(all, t)',
               job'[p].pc \notin {"fwSource", "fwDone"}
        PROVE  TargetJob(p)'
    BY <1>0, <1>3, <2>1, <2>2, <2>3 DEF TargetJob
  <2>4. ASSUME Continue(p) \/ \E pc : Goto(p, pc) /\ pc \notin {"fwSource", "fwDone"}
        PROVE  TargetJob(p)'
    BY <1>0, <2>1, <2>2, <2>3, <2>4, JobEdits
  <2>5. ASSUME NEW pc, Goto(p, pc), TargetCall(p, k, t)' PROVE TargetJob(p)'
    <3>1. job'[p].m = job[p].m /\ job'[p].out = out /\ job'[p].n = job[p].n
      BY <1>0, <2>1, <2>5, JobEdits
    <3>2. Key(p)' = k
      BY <2>1, <3>1 DEF Key
    <3>3. TargetCall(p, Key(p), t)'
      BY <2>5, <3>2 DEF TargetCall
    <3> QED
      BY <1>0, <1>3, <2>1, <2>2, <3>1, <3>3 DEF TargetJob
  <2>6. ASSUME NEW item \in Items, Add(p, item), Leads(item.key, item.fwd, t)' PROVE TargetJob(p)'
    <3>1. PICK all \in Seq(Items) : all = Append(out, item)
      BY <2>1, AppendProperties
    <3>2. \A n \in DOMAIN all : (n \in DOMAIN out /\ all[n] = out[n]) \/ all[n] = item
      BY <3>1, ListedItems
    <3>3. LeadsAll(all, t)'
      BY <2>2, <2>6, <3>2 DEF LeadsAll
    <3>4. job'[p].m = job[p].m /\ job'[p].out = all /\ job'[p].pc = "loop"
      BY <1>0, <2>1, <2>6, <3>1, JobEdits
    <3> QED
      BY <2>3, <3>3, <3>4
  <2>7. CASE AckFlag(p)
    <3>1. ASSUME NEW b, job' = [job EXCEPT ![p].pc = "dl", ![p].ind = b] PROVE TargetJob(p)'
      <4>1. job'[p].m = job[p].m /\ job'[p].out = job[p].out /\ job'[p].pc = "dl"
        BY <1>0, <3>1, JobEdits
      <4> QED
        BY <2>1, <2>2, <2>3, <4>1
    <3> QED
      BY <2>4, <2>7, <3>1 DEF AckFlag
  <2>8. CASE AckDownlink(p)
    <3>1. ASSUME NEW b, job' = [job EXCEPT ![p].pc = "store", ![p].dl = b] PROVE TargetJob(p)'
      <4>1. job'[p].m = job[p].m /\ job'[p].out = job[p].out /\ job'[p].pc = "store"
        BY <1>0, <3>1, JobEdits
      <4> QED
        BY <2>1, <2>2, <2>3, <4>1
    <3> QED
      BY <2>4, <2>8, <3>1 DEF AckDownlink
  <2>9. ASSUME AckStore(p) \/ AckForwardTarget(p) \/ AckForwardSource(p) \/ AckForwarded(p)
        PROVE  TargetJob(p)'
    <3>1. /\ k \in Keys /\ AckFteid(p) \in GnbFteids \union {None}
          /\ job[p].m.sessions[job[p].n].ul \in Fteid \union {None}
          /\ job[p].n \in DOMAIN list
      BY <2>1, <2>9, AtSession DEF AckStore, AckForwardTarget, AckForwardSource, AckForwarded
    <3>2. AckFteid(p) = t
      BY <2>1, <2>2, <3>1 DEF AckFteid, DlAll
    <3>3. job[p].dl \in GnbFteids \union {None}
      BY <1>0, <1>3, JobKinds, JobMembers DEF AckJobs
    <3>4. ASSUME NEW f \in Fteid \union GnbFteids \union {None}, Leads(k, f, t), Add(p, AckItem(p, f))
          PROVE  TargetJob(p)'
      <4>1. PICK item \in Items : item = AckItem(p, f) /\ item.key = k /\ item.fwd = f
        BY <2>1, <3>1, <3>3, ItemTypes DEF AckItem, Item
      <4>2. Leads(item.key, item.fwd, t)'
        BY <1>0, <3>4, <4>1, LeadsQuietly
      <4> QED
        BY <2>6, <3>4, <4>1, <4>2
    <3>5. ASSUME NEW h, NEW f, BeginForward(p, k, h, f), Leads(k, f, t), NEW pc, Goto(p, pc)
          PROVE  TargetJob(p)'
      BY <1>0, <2>5, <3>5, BeginForwardTarget
    <3>6. Leads(k, AckFteid(p), t)
      BY <3>2 DEF Leads
    <3>7. ASSUME job[p].pc \in {"fwSource", "fwDone"}, call[p].res # "err"
          PROVE  Leads(k, call[p].last, t)
      BY <1>0, <1>3, <2>1, <3>7 DEF TargetJob, TargetCall
    <3>8. CASE AckStore(p)
      BY <2>4, <3>1, <3>4, <3>6, <3>8 DEF AckStore
    <3>9. CASE AckForwardTarget(p)
      BY <2>1, <3>5, <3>6, <3>9 DEF AckForwardTarget
    <3>10. CASE AckForwardSource(p) \/ AckForwarded(p)
      <4>1. call[p].last \in Fteid \union GnbFteids \union {None}
        BY <1>0 DEF TypeInv, TypeOK, Call
      <4>2. \/ Continue(p)
            \/ call[p].res # "err" /\ job[p].pc \in {"fwSource", "fwDone"} /\ Add(p, AckItem(p, call[p].last))
            \/ /\ call[p].res # "err" /\ job[p].pc \in {"fwSource", "fwDone"}
               /\ \E h : BeginForward(p, k, h, call[p].last)
               /\ Goto(p, "fwDone")
        BY <2>1, <3>10 DEF AckForwardSource, AckForwarded, JobAt
      <4> QED
        BY <2>4, <3>4, <3>5, <3>7, <4>1, <4>2
    <3> QED
      BY <2>9, <3>8, <3>9, <3>10
  <2>10. CASE AckSend(p)
    <3>1. Sent(p)
      BY <1>1, <2>10 DEF AckSend, Post, Sent
    <3>2. job'[p].m = job[p].m /\ job'[p].out = <<>> /\ job'[p].pc = "sent"
      BY <1>0, <3>1, JobEdits
    <3>3. LeadsAll(<<>>, t)'
      BY DEF LeadsAll
    <3> QED
      BY <2>3, <3>2, <3>3
  <2> QED
    BY <1>1, <1>3, <2>7, <2>8, <2>9, <2>10 DEF HandlerStep, EstablishUplink, EstablishReply,
       EstablishDownlink, EstablishEnd, RequiredFlag, RequiredPath, RequiredUplink, RequiredSend,
       NotifyFlag, NotifySwitch, NotifyPath, NotifyDown, NotifyReset, NotifyEnd, GiveUp, JobAt
<1> QED
  BY <1>2, <1>3

LEMMA HandlerSendsTarget ==
  ASSUME SmfInv, AmfInv, TargetInv, NEW p \in Procs, HandlerStep(p)
  PROVE  \A m \in msgs' : TargetMsg(m)'
<1>0. UNCHANGED <<installed, created>>
  BY HandlerQuiet
<1>1. ASSUME NEW m, Post(p, m), TargetMsg(m)' PROVE \A o \in msgs' : TargetMsg(o)'
  BY <1>0, <1>1, TargetMsgsQuiet DEF Post, Send
<1>2. ASSUME NEW m, Post(p, m), m.kind \in {"n2req", "hoRequest"} PROVE \A o \in msgs' : TargetMsg(o)'
  BY <1>1, <1>2 DEF TargetMsg
<1>3. CASE EstablishReply(p) /\ call[p].res # "err"
  BY <1>2, <1>3 DEF EstablishReply
<1>4. CASE RequiredSend(p)
  BY <1>2, <1>4 DEF RequiredSend
<1>5. CASE AckSend(p)
  <2>1. job[p] # NoJob /\ job[p].kind = "ack" /\ TargetJob(p)
    BY <1>5 DEF AckSend, JobAt, TargetInv
  <2>2. PICK out, t : out = job[p].out /\ t = GnbFteid[job[p].m.target]
    OBVIOUS
  <2>3. LeadsAll(out, t)'
    BY <1>0, <2>1, <2>2, LeadsQuietly DEF TargetJob
  <2>4. PICK m : m = [kind |-> "hoCommand", ue |-> job[p].m.ue, source |-> job[p].m.source,
                      target |-> job[p].m.target, sessions |-> out]
    OBVIOUS
  <2>5. m.kind = "hoCommand" /\ m.sessions = out /\ GnbFteid[m.target] = t
    BY <2>2, <2>4
  <2>6. TargetMsg(m)'
    BY <2>3, <2>5 DEF TargetMsg
  <2>7. Post(p, m)
    BY <1>5, <2>2, <2>4 DEF AckSend
  <2> QED
    BY <1>1, <2>6, <2>7
<1>6. CASE UNCHANGED msgs
  BY <1>0, <1>6, TargetMsgsQuiet
<1>7. \/ EstablishReply(p) /\ call[p].res # "err"
      \/ RequiredSend(p) \/ AckSend(p) \/ UNCHANGED msgs
  BY DEF HandlerStep, EstablishUplink, EstablishReply, EstablishDownlink, EstablishEnd, RequiredFlag,
     RequiredPath, RequiredUplink, AckFlag, AckDownlink, AckStore, AckForwardTarget, AckForwardSource,
     AckForwarded, NotifyFlag, NotifySwitch, NotifyPath, NotifyDown, NotifyReset, NotifyEnd, GiveUp, NoMsg
<1> QED
  BY <1>3, <1>4, <1>5, <1>6, <1>7

LEMMA EnvSendsTarget ==
  ASSUME AmfInv, TargetInv, Env
  PROVE  \A m \in msgs' : TargetMsg(m)'
<1>0. UNCHANGED <<installed, created>>
  BY EnvMsgs DEF vars
<1>1. ASSUME NEW m, msgs' \subseteq msgs \union {m}, m.kind \notin {"hoAck", "hoCommand"}
      PROVE  \A o \in msgs' : TargetMsg(o)'
  BY <1>0, <1>1, TargetMsgsQuiet DEF TargetMsg
<1>2. ASSUME NEW u \in Ues, NEW d \in Dnns, NEW g \in Gnbs, UeRequests(u, d, g)
      PROVE  \A m \in msgs' : TargetMsg(m)'
  BY <1>1, <1>2 DEF UeRequests, Send
<1>3. ASSUME NEW u \in Ues, NEW t \in Gnbs, NEW kind \in Kinds, SourceRequires(u, t, kind)
      PROVE  \A m \in msgs' : TargetMsg(m)'
  BY <1>1, <1>3 DEF SourceRequires, Send
<1>4. ASSUME NEW o \in msgs, GnbAccepts(o) PROVE \A m \in msgs' : TargetMsg(m)'
  <2>1. PICK m : m = [kind |-> "n2resp", ue |-> o.ue, gnb |-> o.gnb, key |-> o.key,
                      dl |-> GnbFteid[o.gnb]]
    OBVIOUS
  <2>2. m.kind = "n2resp" /\ msgs' \subseteq msgs \union {m}
    BY <1>4, <2>1 DEF GnbAccepts
  <2> QED
    BY <1>1, <2>2
<1>5. ASSUME NEW o \in msgs, TargetAcks(o) PROVE \A m \in msgs' : TargetMsg(m)'
  <2>1. o \in HandoverMsgs
    BY <1>5, MsgKinds DEF TargetAcks, AmfInv, MsgsInv
  <2>2. o.target \in Gnbs /\ o.sessions \in Seq(Items)
    BY <2>1 DEF HandoverMsgs
  <2>3. PICK f : f = GnbFteid[o.target]
    OBVIOUS
  <2>4. PICK list : list = [n \in DOMAIN o.sessions |-> [o.sessions[n] EXCEPT !.dl = f]]
    OBVIOUS
  <2>5. ASSUME NEW n \in DOMAIN list PROVE list[n].dl = f
    <3>1. PICK i \in Items : i = o.sessions[n]
      BY <2>2, <2>4
    <3>2. list[n] = [i EXCEPT !.dl = f]
      BY <2>4, <3>1
    <3>3. [i EXCEPT !.dl = f].dl = f
      BY DEF Items
    <3> QED
      BY <3>2, <3>3
  <2>6. PICK m : m = [o EXCEPT !.kind = "hoAck", !.sessions = list]
    OBVIOUS
  <2>7. m.kind = "hoAck" /\ m.sessions = list /\ m.target = o.target
    BY <2>1, <2>6 DEF HandoverMsgs
  <2>8. TargetMsg(m)'
    BY <2>3, <2>5, <2>7 DEF TargetMsg, DlAll
  <2>9. msgs' \subseteq msgs \union {m}
    BY <1>5, <2>3, <2>4, <2>6 DEF TargetAcks
  <2> QED
    BY <1>0, <2>8, <2>9, TargetMsgsQuiet
<1>6. ASSUME NEW o \in msgs, UeMoves(o) PROVE \A m \in msgs' : TargetMsg(m)'
  <2>1. o \in HandoverMsgs
    BY <1>6, MsgKinds DEF UeMoves, AmfInv, MsgsInv
  <2>2. PICK m : m = [o EXCEPT !.kind = "hoNotify"]
    OBVIOUS
  <2>3. m.kind = "hoNotify"
    BY <2>1, <2>2 DEF HandoverMsgs
  <2>4. msgs' \subseteq msgs \union {m}
    BY <1>6, <2>2 DEF UeMoves
  <2> QED
    BY <1>1, <2>3, <2>4
<1>7. ASSUME NEW o \in msgs, Lose(o) PROVE \A m \in msgs' : TargetMsg(m)'
  <2>1. msgs' \subseteq msgs
    BY <1>7 DEF Lose
  <2> QED
    BY <1>0, <2>1, TargetMsgsQuiet
<1>8. ASSUME NEW p \in Procs, Answered(p) PROVE \A m \in msgs' : TargetMsg(m)'
  BY <1>0, <1>8, TargetMsgsQuiet DEF Answered
<1> QED
  BY <1>2, <1>3, <1>4, <1>5, <1>6, <1>7, <1>8 DEF Env

LEMMA TargetStep ==
  ASSUME SmfInv, AmfInv, TunnelExclusive, TunnelExclusive', TargetInv, RedirectsForward,
         [AmfNext]_allVars
  PROVE  TargetInv'
<1>0. [Next]_vars /\ JobsInv /\ TypeInv
  BY StepRefines DEF AmfInv, SmfInv
<1>1. ASSUME UNCHANGED <<installed, created>>, NEW q \in Procs, job[q] # NoJob, job'[q] = job[q],
             UNCHANGED call
      PROVE  TargetJob(q)'
  BY <1>1, TargetJobQuiet
<1>2. ASSUME NEW p \in Procs, HandlerStep(p) PROVE TargetInv'
  <2>1. \A q \in Procs : q # p => job'[q] = job[q]
    BY <1>2, HandlerJobs
  <2>2. UNCHANGED <<installed, created>>
    BY <1>2, HandlerQuiet
  <2>3. ASSUME NEW q \in Procs, q # p, job'[q] # NoJob PROVE TargetJob(q)'
    <3>1. Begin(p) \/ End(p) \/ UNCHANGED vars
      BY <1>2, HandlerUses DEF Uses
    <3>2. CASE UNCHANGED vars
      BY <1>1, <2>1, <2>2, <2>3, <3>2 DEF vars
    <3>3. CASE Begin(p) \/ End(p)
      <4>1. /\ call'[q].pc = call[q].pc /\ call'[q].key = call[q].key /\ call'[q].path = call[q].path
            /\ call'[q].i = call[q].i /\ call'[q].last = call[q].last /\ call'[q].res = call[q].res
        BY <1>0, <2>3, <3>3, OthersStay
      <4> QED
        BY <2>1, <2>2, <2>3, <4>1, TargetJobQuiet
    <3> QED
      BY <3>1, <3>2, <3>3
  <2> QED
    BY <1>2, <2>3, HandlerTarget, HandlerSendsTarget DEF TargetInv
<1>3. ASSUME NEW p \in Procs, NEW m \in msgs, Deliver(p, m) PROVE TargetInv'
  <2>1. msgs' \subseteq msgs /\ UNCHANGED <<call, installed, created>>
    BY <1>3 DEF Deliver, vars
  <2>2. \A o \in msgs' : TargetMsg(o)'
    BY <2>1, TargetMsgsQuiet
  <2>3. ASSUME NEW q \in Procs, job'[q] # NoJob, job'[q] # job[q] PROVE TargetJob(q)'
    <3>1. /\ job'[q].kind = Handler[m.kind] /\ job'[q].m = m /\ job'[q].out = <<>>
          /\ job'[q].pc = "loop"
      BY <1>0, <1>3, <2>3 DEF Deliver, JobsInv
    <3>2. m.kind \in DOMAIN Handler /\ TargetMsg(m)
      BY <1>3 DEF Deliver, TargetInv
    <3>3. CASE m.kind = "hoAck"
      <4>1. DlAll(m.sessions, GnbFteid[m.target])' /\ LeadsAll(<<>>, GnbFteid[m.target])'
        BY <3>2, <3>3 DEF TargetMsg, DlAll, LeadsAll
      <4> QED
        BY <3>1, <4>1 DEF TargetJob
    <3>4. CASE m.kind # "hoAck"
      BY <3>1, <3>2, <3>4 DEF TargetJob, Handler
    <3> QED
      BY <3>3, <3>4
  <2> QED
    BY <1>1, <2>1, <2>2, <2>3 DEF TargetInv
<1>4. ASSUME NEW p \in Procs, SmfStep(p) PROVE TargetInv'
  BY <1>0, <1>4, TargetSmfStep
<1>5. ASSUME Env PROVE TargetInv'
  <2>1. UNCHANGED <<installed, created, call>>
    BY <1>5, EnvMsgs DEF vars
  <2>2. \A q \in Procs : job'[q] # NoJob => job'[q] = job[q]
    BY <1>5, EnvJobs
  <2> QED
    BY <1>1, <1>5, <2>1, <2>2, EnvSendsTarget DEF TargetInv
<1>6. ASSUME Stopping \/ UNCHANGED allVars PROVE TargetInv'
  <2>1. UNCHANGED <<installed, created, call, job, msgs>>
    BY <1>6 DEF Stopping, Cancel, ServerStop, allVars, amfVars, vars, rules, pfcp
  <2> QED
    BY <1>1, <2>1, TargetMsgsQuiet DEF TargetInv
<1> QED
  BY <1>2, <1>3, <1>4, <1>5, <1>6 DEF AmfNext

\* As long as a switch that comes across a rule which forwarded packets pass makes it
\* lead to the target itself.
LEMMA ForwardsLead == AmfSpec /\ []RedirectsForward => []ForwardOffered
<1>1. AmfInit => TargetInv
  BY DEF AmfInit, TargetInv
<1>2. SmfInv /\ AmfInv /\ TunnelExclusive /\ TunnelExclusive' /\ TargetInv /\ RedirectsForward
      /\ [AmfNext]_allVars => TargetInv'
  BY TargetStep
<1>3. TargetInv => ForwardOffered
  BY ReachedSelf DEF TargetInv, TargetMsg, LeadsAll, Leads, ForwardOffered
<1> QED
  BY <1>1, <1>2, <1>3, AmfInvariant, AmfTunnels, PTL DEF AmfSpec

\* Nothing arrives at None, where no rule sends packets.
LEMMA ReachedSome ==
  ASSUME NEW f, NEW rs, f # None, \A r \in rs : r.fwd # None
  PROVE  None \notin Reached(f, rs)
BY DEF Reached

\* Handovers forward packets of sessions.
LEMMA ForwardingKeys ==
  ASSUME AmfInv, NEW w \in Forwarding
  PROVE  w.key \in Keys
<1>1. ASSUME NEW list \in Seq(Items), NEW g, w \in Listing(list, g) PROVE w.key \in Keys
  <2>1. PICK n \in DOMAIN list : w = Via(list[n].key, list[n].fwd, g)
    BY <1>1 DEF Listing
  <2>2. list[n] \in Items
    OBVIOUS
  <2> QED
    BY <2>1, <2>2 DEF Via, Items
<1>2. CASE w \in Commanded
  <2>1. PICK m \in msgs : m.kind = "hoCommand" /\ w \in Listing(m.sessions, m.target)
    BY <1>2 DEF Commanded
  <2>2. m.sessions \in Seq(Items)
    BY <2>1, MsgKinds DEF HandoverMsgs, AmfInv, MsgsInv
  <2> QED
    BY <1>1, <2>1, <2>2
<1>3. CASE w \in Prepared
  <2>1. PICK p \in Acks : w \in Listing(job[p].out, job[p].m.target)
    BY <1>3 DEF Prepared
  <2>2. job[p].out \in Seq(Items)
    BY JobFields DEF Acks, AmfInv, JobsInv
  <2> QED
    BY <1>1, <2>1, <2>2
<1>4. CASE w \in Preparing
  <2>1. PICK p \in Acks : job[p].pc \in {"fwSource", "fwDone"} /\ w = Via(Key(p), call[p].last, job[p].m.target)
    BY <1>4 DEF Preparing
  <2>2. job[p] \in Jobs /\ job[p].kind = "ack" /\ JobOK(p)
    BY DEF Acks, AmfInv, JobsInv
  <2>3. Key(p) \in Keys
    BY <2>1, <2>2, HandoverJob, KeyOfJob DEF JobOK, AckPcs
  <2> QED
    BY <2>1, <2>3 DEF Via
<1> QED
  BY <1>2, <1>3, <1>4 DEF Forwarding

\* Where the paths of a slice are one UPF, a switch redirects only rules that take packets
\* of the data network, which come from no gNB, to a gNB (FarInv).
LEMMA OneUpfForwards ==
  ASSUME OneUpf
  PROVE  AmfSpec => []RedirectsForward
<1>1. SmfInv /\ AmfInv /\ FarInv => RedirectsForward
  <2> SUFFICES ASSUME SmfInv, AmfInv, FarInv, NEW e \in installed, NEW r \in Redirects(e.upf, e.ip), r.far = e.id,
                      NEW w \in Forwarding, e.listen \in Reached(w.fwd, Expected(w.key))
               PROVE  FALSE
    BY DEF RedirectsForward
  <2>1. e.upf \in Upfs /\ e.ip \in Ips
    BY DEF SmfInv, TypeInv, TypeOK, Entry
  <2>2. e.listen = None
    BY <2>1 DEF FarInv, AnchorId, Anchors
  <2>3. w.key.ip \in Ips /\ w.fwd \in Fteid
    BY ForwardingKeys DEF Forwarding, Ips
  <2>4. ASSUME NEW q \in Expected(w.key) PROVE q.fwd \in Fteid \union GnbFteids \union {Core}
    <3>1. CASE q \in installed
      BY <3>1 DEF SmfInv, TypeInv, TypeOK, Entry
    <3>2. ASSUME NEW u \in Upfs, q \in created[u][w.key.ip] PROVE q.fwd \in Fteid \union GnbFteids \union {Core}
      <4>1. created[u][w.key.ip] \subseteq Rule
        BY <2>3, <3>2 DEF SmfInv, TypeInv, TypeOK
      <4> QED
        BY <3>2, <4>1 DEF Rule
    <3> QED
      BY <2>4, <3>1, <3>2 DEF Expected, Applied
  <2>5. w.fwd # None /\ \A q \in Expected(w.key) : q.fwd # None
    BY <2>3, <2>4, FteidAssumption
  <2> QED
    BY <2>2, <2>5, ReachedSome
<1> QED
  BY <1>1, AmfUsesSmf, AmfInvariant, FarInvariant, PTL

\* Where the paths of a slice are one UPF, the F-TEID that the source gNB is commanded to
\* forward to leads to the target gNB: from the moment a temporary rule is queued to that
\* at which the UE moves, however the calls of other handlers and UEs interleave, whatever
\* fails and in however many PFCP sessions a rule ends up.
THEOREM ForwardsReachTarget ==
  ASSUME OneUpf
  PROVE  AmfSpec => []ForwardOffered
BY ForwardsLead, OneUpfForwards, PTL

=============================================================================
