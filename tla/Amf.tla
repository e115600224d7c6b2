-------------------------------- MODULE Amf --------------------------------
(***************************************************************************)
(* The Access and Mobility Function (src/internal/amf) over the SMF.       *)
(*                                                                         *)
(* Every message of a gNB is answered 202 at once and handled by a         *)
(* goroutine of its own.  A handler is a sequence of SMF calls, made for   *)
(* one PDU session after the other, that ends with a message to a gNB; it  *)
(* reads and writes session fields between the calls.  Each call is one of *)
(* the Begin actions of Smf, and its inner steps are Step; the handler     *)
(* goes on when its goroutine is back in "idle".                           *)
(*                                                                         *)
(* UEs and gNBs are external: what they send, and when, is at the end.     *)
(***************************************************************************)
EXTENDS Smf

CONSTANTS
  GnbFteid,      \* gNB -> the downlink F-TEID it gives to a session, or None
  Kinds,         \* bound: handovers are "direct", "indirect"
  MaxHandovers,  \* bound: handovers the gNBs start
  MaxLost,       \* bound: messages to a gNB that are lost
  Patient        \* a handover starts only when no handler works for the UE

ASSUME GnbAssumption == GnbFteid \in [Gnbs -> GnbFteids \union {None}]
ASSUME KindsAssumption == Kinds \subseteq {"direct", "indirect"} /\ Patient \in BOOLEAN

VARIABLES
  job,        \* goroutine -> the handler it runs
  msgs,       \* messages on their way
  used,       \* UE addresses handed out, as PDU sessions
  panicked,   \* a handler has dereferenced a nil pointer: the process is gone
  asked,      \* establishments the UEs have requested: <<UE, DNN>>
  active,     \* PDU sessions a gNB has accepted
  at,         \* UE -> the gNB it is attached to, None before its first session
  moving,     \* the UEs for which a handover has started and not ended
  handovers,  \* handovers so far, up to MaxHandovers
  lost        \* messages lost so far, up to MaxLost

env     == <<asked, active, at, moving, handovers, lost>>
amfVars == <<job, msgs, used, panicked, env>>
allVars == <<vars, amfVars>>

Ues == {k.ue : k \in Keys}

NoJob == [kind |-> "none"]
Item(k, ul, dl, fwd) == [key |-> k, ul |-> ul, dl |-> dl, fwd |-> fwd]
Items == [key : Keys, ul : Fteid \union {None}, dl : GnbFteids \union {None},
          fwd : Fteid \union GnbFteids \union {None}]

AmfTypeOK ==
  /\ TypeOK
  /\ \A p \in Procs : job[p] # NoJob =>
       /\ job[p].kind \in {"estab", "n2resp", "required", "ack", "notify"}
       /\ job[p].n \in Nat /\ job[p].out \in Seq(Items)
  /\ \A m \in msgs : m.ue \in Ues
  /\ used \subseteq Keys /\ active \subseteq used /\ moving \subseteq Ues
  /\ at \in [Ues -> Gnbs \union {None}]

AmfInit ==
  /\ Init
  /\ job = [p \in Procs |-> NoJob]
  /\ msgs = {} /\ used = {} /\ panicked = FALSE
  /\ asked = {} /\ active = {} /\ at = [u \in Ues |-> None] /\ moving = {}
  /\ handovers = 0 /\ lost = 0

-----------------------------------------------------------------------------
(* What the handlers share.                                                *)

\* The job of goroutine p is of that kind, at that point, and in no SMF call.
JobAt(p, kind, pc) ==
  /\ ~panicked /\ ~crashed
  /\ call[p].pc = "idle"
  /\ job[p] # NoJob /\ job[p].kind = kind /\ job[p].pc = pc

Key(p)  == job[p].m.sessions[job[p].n].key
More(p) == job[p].n <= Len(job[p].m.sessions)

Goto(p, pc)  == job' = [job EXCEPT ![p].pc = pc]
\* The entry of a session that fails stays zero, and names no session.
Continue(p)  == job' = [job EXCEPT ![p].pc = "loop", ![p].n = @ + 1]
Add(p, item) == job' = [job EXCEPT ![p].pc = "loop", ![p].n = @ + 1, ![p].out = Append(@, item)]
Done(p)      == job' = [job EXCEPT ![p] = NoJob]
Ended(p)     == IF call[p].res = "none" THEN UNCHANGED vars ELSE End(p)
Finish(p)    == Done(p) /\ Ended(p)

Send(m) == msgs' = msgs \union {m}
\* A request to a gNB is made with the context of the AMF and without a timeout: the
\* handler waits until the gNB has answered.
Waits(p) == job[p] # NoJob /\ job[p].pc = "sent" /\ call[p].pc = "idle"
Post(p, m) ==
  /\ Ended(p)
  /\ IF ctxDone THEN Done(p) /\ UNCHANGED msgs
     ELSE Send(m) /\ job' = [job EXCEPT ![p].pc = "sent", ![p].out = <<>>]

\* The wait ends with the context ...
GiveUp(p) ==
  /\ ~panicked /\ ~crashed /\ ctxDone
  /\ Waits(p) /\ Done(p)
  /\ UNCHANGED <<vars, msgs, used, panicked, env>>

NoMsg    == UNCHANGED <<msgs, used, panicked, env>>
Known(k) == sessions[k] # None

Handler == [estab |-> "estab", n2resp |-> "n2resp", hoRequired |-> "required",
            hoAck |-> "ack", hoNotify |-> "notify"]

\* A handler reads the area of both gNBs first; inter: they differ.
Inters(m) ==
  {inter \in BOOLEAN : IF m.kind \in {"estab", "n2resp"} THEN ~inter
     ELSE \E s \in AreasOf[m.source], t \in AreasOf[m.target] : inter <=> s # t}

\* The HTTP handler starts the goroutine.  It ends at once when an area is unknown.
Deliver(p, m) ==
  /\ ~panicked /\ ~crashed
  /\ job[p] = NoJob /\ call[p].pc = "idle"
  /\ m.kind \in DOMAIN Handler
  /\ msgs' = msgs \ {m}
  /\ \/ Inters(m) = {} /\ UNCHANGED job
     \/ \E inter \in Inters(m) :
          job' = [job EXCEPT ![p] = [kind |-> Handler[m.kind], pc |-> "loop", m |-> m, n |-> 1,
                                     out |-> <<>>, inter |-> inter, ind |-> FALSE, dl |-> None]]
  /\ UNCHANGED <<vars, used, panicked, env>>

-----------------------------------------------------------------------------
(* HandleEstablishmentRequest                                              *)

EstablishUplinkSameIp(p) ==                      \* seeded: the pool does not advance
  /\ JobAt(p, "estab", "loop")
  /\ LET free == {k \in Keys \ used : k.ue = job[p].m.ue /\ k.dnn = job[p].m.dnn}
     IN IF free = {} THEN Finish(p)
        ELSE \E k \in free :
               /\ BeginUplink(p, k, job[p].m.gnb)
               /\ job' = [job EXCEPT ![p].pc = "reply", ![p].m =
                            [kind |-> "n2req", ue |-> k.ue, gnb |-> job[p].m.gnb, key |-> k]]
  /\ UNCHANGED <<used, msgs, panicked, env>>

\* The next address of the slice's pool, then the uplink path of the session.
EstablishUplink(p) ==
  /\ JobAt(p, "estab", "loop")
  /\ LET free == {k \in Keys \ used : k.ue = job[p].m.ue /\ k.dnn = job[p].m.dnn}
     IN IF free = {} THEN Finish(p) /\ UNCHANGED used
        ELSE \E k \in free :
               /\ BeginUplink(p, k, job[p].m.gnb)
               /\ used' = used \union {k}
               /\ job' = [job EXCEPT ![p].pc = "reply", ![p].m =
                            [kind |-> "n2req", ue |-> k.ue, gnb |-> job[p].m.gnb, key |-> k]]
  /\ UNCHANGED <<msgs, panicked, env>>

EstablishReplyAnyway(p) ==                       \* seeded: an error is not looked at
  /\ JobAt(p, "estab", "reply")
  /\ Post(p, [kind |-> "n2req", ue |-> job[p].m.ue, gnb |-> job[p].m.gnb, key |-> job[p].m.key,
              ul |-> call[p].last])
  /\ UNCHANGED <<panicked, used, env>>

\* An error is logged and the handler goes on with a nil session.
EstablishReply(p) ==
  /\ JobAt(p, "estab", "reply")
  /\ IF call[p].res = "err"
     THEN panicked' = TRUE /\ UNCHANGED <<vars, job, msgs>>
     ELSE /\ Post(p, [kind |-> "n2req", ue |-> job[p].m.ue, gnb |-> job[p].m.gnb,
                      key |-> job[p].m.key, ul |-> sessions[job[p].m.key].ul])
          /\ UNCHANGED panicked
  /\ UNCHANGED <<used, env>>

(* HandleN2EstablishmentResponse                                           *)

EstablishDownlink(p) ==
  /\ JobAt(p, "n2resp", "loop")
  /\ BeginDownlink(p, job[p].m.key, job[p].m.gnb, job[p].m.dl)
  /\ Goto(p, "end")
  /\ NoMsg

EstablishEnd(p) ==
  /\ JobAt(p, "n2resp", "end")
  /\ Finish(p)
  /\ NoMsg

-----------------------------------------------------------------------------
(* HandleHandoverRequired                                                  *)

\* The flag is set for an indirect handover and left alone for a direct one.
RequiredFlag(p) ==
  /\ JobAt(p, "required", "loop") /\ More(p)
  /\ IF job[p].m.indirect
     THEN /\ SetIndirectForwardingRequired(p, Key(p), TRUE)
          /\ IF Known(Key(p)) THEN Goto(p, "path") ELSE Continue(p)
     ELSE Goto(p, "path") /\ UNCHANGED vars
  /\ NoMsg

RequiredPath(p) ==
  /\ JobAt(p, "required", "path")
  /\ IF job[p].inter
     THEN BeginUplink(p, Key(p), job[p].m.target) /\ Goto(p, "uplink")
     ELSE /\ IF Known(Key(p)) THEN Add(p, Item(Key(p), GetSessionUplinkFteid(Key(p)), None, None))
             ELSE Continue(p)
          /\ UNCHANGED vars
  /\ NoMsg

RequiredUplink(p) ==
  /\ JobAt(p, "required", "uplink")
  /\ IF call[p].res = "err" THEN Continue(p)
     ELSE Add(p, Item(Key(p), GetSessionUplinkFteid(Key(p)), None, None))
  /\ NoMsg /\ UNCHANGED vars

RequiredSend(p) ==
  /\ JobAt(p, "required", "loop") /\ ~More(p)
  /\ Post(p, [kind |-> "hoRequest", ue |-> job[p].m.ue, source |-> job[p].m.source,
              target |-> job[p].m.target, sessions |-> job[p].out])
  /\ UNCHANGED <<used, panicked, env>>

-----------------------------------------------------------------------------
(* HandleHandoverRequestAck                                                *)

AckFlag(p) ==
  /\ JobAt(p, "ack", "loop") /\ More(p)
  /\ IF Known(Key(p))
     THEN job' = [job EXCEPT ![p].pc = "dl", ![p].ind = GetSessionIndirectForwardingRequired(Key(p))]
     ELSE Continue(p)
  /\ NoMsg /\ UNCHANGED vars

AckFteid(p) == job[p].m.sessions[job[p].n].dl

AckDownlinkRetries(p) ==                         \* seeded: the same session again
  /\ JobAt(p, "ack", "dl")
  /\ \/ job[p].ind /\ AckFteid(p) = None /\ Goto(p, "loop")
     \/ /\ job[p].ind => AckFteid(p) # None
        /\ job' = [job EXCEPT ![p].pc = "store", ![p].dl = GetSessionDownlinkFteid(Key(p))]
  /\ NoMsg /\ UNCHANGED vars

\* The downlink F-TEID to report; for indirect forwarding also the UPF-i of both
\* gNBs, and the F-TEID of the target, which must be there.
AckDownlink(p) ==
  /\ JobAt(p, "ack", "dl")
  /\ \/ job[p].ind /\ (\E g \in {job[p].m.target, job[p].m.source} : NoFirstUpf(Key(p).dnn, g))
        /\ Continue(p)
     \/ job[p].ind /\ AckFteid(p) = None /\ Continue(p)
     \/ /\ job[p].ind => /\ AckFteid(p) # None
                         /\ \A g \in {job[p].m.target, job[p].m.source} : FirstUpfs(Key(p).dnn, g) # {}
        /\ job' = [job EXCEPT ![p].pc = "store", ![p].dl = GetSessionDownlinkFteid(Key(p))]
  /\ NoMsg /\ UNCHANGED vars

AckItem(p, fwd) == Item(Key(p), job[p].m.sessions[job[p].n].ul, job[p].dl, fwd)

AckStoreDirectOnly(p) ==                         \* seeded: not for indirect forwarding
  /\ JobAt(p, "ack", "store")
  /\ IF job[p].ind THEN Goto(p, "fwTarget") /\ UNCHANGED vars
     ELSE StoreNextDownlinkFteid(p, Key(p), AckFteid(p)) /\ Add(p, AckItem(p, AckFteid(p)))
  /\ NoMsg

AckStore(p) ==
  /\ JobAt(p, "ack", "store")
  /\ StoreNextDownlinkFteid(p, Key(p), AckFteid(p))
  /\ IF job[p].ind THEN Goto(p, "fwTarget") ELSE Add(p, AckItem(p, AckFteid(p)))
  /\ NoMsg

AckForwardTargetToSource(p) ==                   \* seeded: to the former F-TEID
  /\ JobAt(p, "ack", "fwTarget")
  /\ \E h \in FirstUpfs(Key(p).dnn, job[p].m.target) : BeginForward(p, Key(p), h, job[p].dl)
  /\ Goto(p, "fwSource")
  /\ NoMsg

\* A temporary rule on the target's UPF-i ...
AckForwardTarget(p) ==
  /\ JobAt(p, "ack", "fwTarget")
  /\ \E h \in FirstUpfs(Key(p).dnn, job[p].m.target) : BeginForward(p, Key(p), h, AckFteid(p))
  /\ Goto(p, "fwSource")
  /\ NoMsg

\* ... and between areas one on the source's UPF-i that leads to it.
AckForwardSource(p) ==
  /\ JobAt(p, "ack", "fwSource")
  /\ \/ call[p].res = "err" /\ Continue(p) /\ UNCHANGED vars
     \/ /\ call[p].res = "ok" /\ ~job[p].inter
        /\ Add(p, AckItem(p, call[p].last)) /\ UNCHANGED vars
     \/ /\ call[p].res = "ok" /\ job[p].inter
        /\ \E h \in FirstUpfs(Key(p).dnn, job[p].m.source) : BeginForward(p, Key(p), h, call[p].last)
        /\ Goto(p, "fwDone")
  /\ NoMsg

AckForwarded(p) ==
  /\ JobAt(p, "ack", "fwDone")
  /\ IF call[p].res = "err" THEN Continue(p) ELSE Add(p, AckItem(p, call[p].last))
  /\ NoMsg /\ UNCHANGED vars

AckSend(p) ==
  /\ JobAt(p, "ack", "loop") /\ ~More(p)
  /\ Post(p, [kind |-> "hoCommand", ue |-> job[p].m.ue, source |-> job[p].m.source,
              target |-> job[p].m.target, sessions |-> job[p].out])
  /\ UNCHANGED <<used, panicked, env>>

-----------------------------------------------------------------------------
(* HandleHandoverNotify                                                    *)

NotifyFlagInverted(p) ==                         \* seeded: the flag is inverted
  /\ JobAt(p, "notify", "loop") /\ More(p)
  /\ IF Known(Key(p))
     THEN job' = [job EXCEPT ![p].ind = GetSessionIndirectForwardingRequired(Key(p)),
                   ![p].pc = IF GetSessionIndirectForwardingRequired(Key(p)) THEN "switch" ELSE "path"]
     ELSE Continue(p)
  /\ NoMsg /\ UNCHANGED vars

NotifyFlag(p) ==
  /\ JobAt(p, "notify", "loop") /\ More(p)
  /\ IF Known(Key(p))
     THEN job' = [job EXCEPT ![p].ind = GetSessionIndirectForwardingRequired(Key(p)),
                   ![p].pc = IF GetSessionIndirectForwardingRequired(Key(p)) THEN "path" ELSE "switch"]
     ELSE Continue(p)
  /\ NoMsg /\ UNCHANGED vars

\* Direct forwarding: the rule of the source's UPF-i is redirected.
NotifySwitch(p) ==
  /\ JobAt(p, "notify", "switch")
  /\ BeginSwitch(p, Key(p), job[p].m.source)
  /\ Goto(p, "path")
  /\ NoMsg

NotifyPathSource(p) ==                           \* seeded: the path of the wrong gNB
  /\ JobAt(p, "notify", "path")
  /\ IF ~job[p].inter
     THEN Goto(p, "reset") /\ UNCHANGED <<vars, panicked>>
     ELSE IF GetNextDownlinkFteid(Key(p)) = None
     THEN panicked' = TRUE /\ UNCHANGED <<vars, job>>
     ELSE /\ BeginDownlink(p, Key(p), job[p].m.source, GetNextDownlinkFteid(Key(p)))
          /\ Goto(p, "down")
          /\ UNCHANGED panicked
  /\ UNCHANGED <<msgs, used, env>>

\* An error of the switch is logged only.  Between areas a new downlink path is
\* set up towards the stored F-TEID, which is dereferenced.
NotifyPath(p) ==
  /\ JobAt(p, "notify", "path")
  /\ IF ~job[p].inter
     THEN Goto(p, "reset") /\ UNCHANGED <<vars, panicked>>
     ELSE IF GetNextDownlinkFteid(Key(p)) = None
     THEN panicked' = TRUE /\ UNCHANGED <<vars, job>>
     ELSE /\ BeginDownlink(p, Key(p), job[p].m.target, GetNextDownlinkFteid(Key(p)))
          /\ Goto(p, "down")
          /\ UNCHANGED panicked
  /\ UNCHANGED <<msgs, used, env>>

NotifyDown(p) ==
  /\ JobAt(p, "notify", "down")
  /\ IF call[p].res = "err" THEN Continue(p) ELSE Goto(p, "reset")
  /\ NoMsg /\ UNCHANGED vars

NotifyResetUnlocked(p) ==                        \* seeded: not through the SMF
  /\ JobAt(p, "notify", "reset")
  /\ sessions' = [sessions EXCEPT ![Key(p)].indirect = FALSE]
  /\ Continue(p)
  /\ UNCHANGED <<life, crashed, allocated, rules, pfcp, call, calls>>
  /\ NoMsg

NotifyReset(p) ==
  /\ JobAt(p, "notify", "reset")
  /\ IF job[p].ind THEN SetIndirectForwardingRequired(p, Key(p), FALSE) ELSE UNCHANGED vars
  /\ Continue(p)
  /\ NoMsg

NotifyEnd(p) ==
  /\ JobAt(p, "notify", "loop") /\ ~More(p)
  /\ Finish(p)
  /\ NoMsg

-----------------------------------------------------------------------------
(* UEs and gNBs (external).  A gNB reads the messages to it and answers    *)
(* from what they say; a handover that loses a message is given up.        *)

About(u) == {m \in msgs : m.ue = u} \union {job[p].m : p \in {q \in Procs : job[q] # NoJob /\ job[q].m.ue = u}}

UeRequests(u, d, g) ==
  /\ <<u, d>> \notin asked /\ at[u] \in {None, g} /\ u \notin moving
  /\ Send([kind |-> "estab", ue |-> u, dnn |-> d, gnb |-> g])
  /\ asked' = asked \union {<<u, d>>}
  /\ at' = [at EXCEPT ![u] = g]
  /\ UNCHANGED <<vars, job, used, panicked, active, moving, handovers, lost>>

GnbAccepts(m) ==
  /\ m.kind = "n2req"
  /\ IF at[m.ue] = m.gnb /\ m.ue \notin moving /\ GnbFteid[m.gnb] # None
     THEN /\ msgs' = (msgs \ {m}) \union
               {[kind |-> "n2resp", ue |-> m.ue, gnb |-> m.gnb, key |-> m.key, dl |-> GnbFteid[m.gnb]]}
          /\ active' = active \union {m.key}
     ELSE msgs' = msgs \ {m} /\ UNCHANGED active
  /\ UNCHANGED <<vars, job, used, panicked, asked, at, moving, handovers, lost>>

\* The source gNB lists the sessions of the UE, in any order.
Listed(u, sq) ==
  /\ {sq[n].key : n \in DOMAIN sq} = {k \in active : k.ue = u}
  /\ \A n, o \in DOMAIN sq : n # o => sq[n] # sq[o]
Lists(u) == LET ks == {k \in active : k.ue = u}
            IN {sq \in [1..Cardinality(ks) -> {Item(k, None, None, None) : k \in ks}] : Listed(u, sq)}

SourceRequires(u, t, kind) ==
  /\ handovers < MaxHandovers /\ u \notin moving
  /\ at[u] # None /\ t # at[u] /\ \E k \in active : k.ue = u
  /\ Patient => About(u) = {}
  /\ \E list \in Lists(u) :
       Send([kind |-> "hoRequired", ue |-> u, source |-> at[u], target |-> t,
             indirect |-> kind = "indirect", sessions |-> list])
  /\ moving' = moving \union {u} /\ handovers' = handovers + 1
  /\ UNCHANGED <<vars, job, used, panicked, asked, active, at, lost>>

TargetAcks(m) ==
  /\ m.kind = "hoRequest"
  /\ msgs' = (msgs \ {m}) \union
       {[m EXCEPT !.kind = "hoAck",
                  !.sessions = [n \in DOMAIN m.sessions |-> [m.sessions[n] EXCEPT !.dl = GnbFteid[m.target]]]]}
  /\ UNCHANGED <<vars, job, used, panicked, env>>

UeMoves(m) ==
  /\ m.kind = "hoCommand"
  /\ msgs' = (msgs \ {m}) \union {[m EXCEPT !.kind = "hoNotify"]}
  /\ at' = [at EXCEPT ![m.ue] = m.target] /\ moving' = moving \ {m.ue}
  /\ UNCHANGED <<vars, job, used, panicked, asked, active, handovers, lost>>

Lose(m) ==
  /\ lost < MaxLost /\ m.kind \in {"hoRequest", "hoCommand"}
  /\ msgs' = msgs \ {m} /\ moving' = moving \ {m.ue} /\ lost' = lost + 1
  /\ UNCHANGED <<vars, job, used, panicked, asked, active, at, handovers>>

\* ... or with the answer, or with the failure, of the request, some time or never.
Answered(p) ==
  /\ Waits(p) /\ Done(p)
  /\ UNCHANGED <<vars, msgs, used, panicked, env>>

Env ==
  \/ \E p \in Procs : Answered(p)
  \/ \E u \in Ues, d \in Dnns, g \in Gnbs : UeRequests(u, d, g)
  \/ \E u \in Ues, t \in Gnbs, kind \in Kinds : SourceRequires(u, t, kind)
  \/ \E m \in msgs : GnbAccepts(m) \/ TargetAcks(m) \/ UeMoves(m) \/ Lose(m)

-----------------------------------------------------------------------------
SmfStep(p) == ~panicked /\ Step(p) /\ UNCHANGED amfVars

HandlerStep(p) ==
  \/ EstablishUplink(p) \/ EstablishReply(p) \/ EstablishDownlink(p) \/ EstablishEnd(p)
  \/ RequiredFlag(p) \/ RequiredPath(p) \/ RequiredUplink(p) \/ RequiredSend(p)
  \/ AckFlag(p) \/ AckDownlink(p) \/ AckStore(p) \/ AckForwardTarget(p) \/ AckForwardSource(p)
  \/ AckForwarded(p) \/ AckSend(p)
  \/ NotifyFlag(p) \/ NotifySwitch(p) \/ NotifyPath(p) \/ NotifyDown(p) \/ NotifyReset(p)
  \/ NotifyEnd(p) \/ GiveUp(p)

Stopping == ~panicked /\ (Cancel \/ ServerStop) /\ UNCHANGED amfVars

AmfNext ==
  \/ ~panicked /\ ~crashed /\ Env
  \/ Stopping
  \/ \E p \in Procs : (\E m \in msgs : Deliver(p, m)) \/ HandlerStep(p) \/ SmfStep(p)

AmfSpec == AmfInit /\ [][AmfNext]_allVars

\* A goroutine that can go on is scheduled.  Nothing is assumed of UEs and gNBs, which
\* may never answer.
AmfFairSpec == AmfSpec /\ \A p \in Procs : WF_allVars(HandlerStep(p)) /\ WF_allVars(SmfStep(p))

-----------------------------------------------------------------------------
(* Safety.                                                                 *)

\* No handler panics, as long as no request to a UPF fails and every gNB is in a
\* configured area: messages and handlers come in no order that makes one of them
\* use an F-TEID that is not stored yet.
NoPanic == faults = 0 /\ ~ctxDone /\ started => ~panicked /\ ~crashed

\* The uplink F-TEIDs of sessions that gNBs are about to be told.
Offers == {<<m.key, m.ul>> : m \in {n \in msgs : n.kind = "n2req"}} \union
          UNION {{<<m.sessions[n].key, m.sessions[n].ul>> : n \in DOMAIN m.sessions} :
                   m \in {o \in msgs : o.kind = "hoRequest"}}

\* An uplink F-TEID is sent to a gNB only when packets to it reach the data network,
\* although other handlers and a switch of the UE run meanwhile and a request fails.
\* That is so where a slice has one UPF; else see OffersListened.
UplinkOffered == \A o \in Offers : ReachesCore(o[1], o[2])

\* Whatever fails, an uplink F-TEID that is sent to a gNB is listened on by an uplink
\* rule of that very session, which a UPF applies.
OffersListened == \A o \in Offers : \E e \in Applied(o[1], "UL", installed) : e.listen = o[2]

\* The source gNB is told to forward packets only to an F-TEID that leads to the
\* target gNB, so that no packet is lost while the UE moves.
ForwardOffered ==
  \A m \in msgs : m.kind = "hoCommand" => \A n \in DOMAIN m.sessions :
    GnbFteid[m.target] \in Reached(m.sessions[n].fwd, Applied(m.sessions[n].key, "DL", installed))

\* The downlink rules of session k that UPFs apply, or will when they are pushed.
Expected(k) == Applied(k, "DL", installed) \union
               UNION {{r \in created[u][k.ip] : r.dnn = k.dnn /\ r.dir = "DL"} : u \in Upfs}

\* What handovers in preparation forward through UPFs, or are about to: packets of a
\* session, sent to an F-TEID, for a gNB.
Via(k, f, g) == [key |-> k, fwd |-> f, to |-> GnbFteid[g]]
Listing(list, g) == {Via(list[n].key, list[n].fwd, g) : n \in DOMAIN list}
Acks == {p \in Procs : job[p] # NoJob /\ job[p].kind = "ack"}
Commanded == UNION {Listing(m.sessions, m.target) : m \in {n \in msgs : n.kind = "hoCommand"}}
Prepared  == UNION {Listing(job[p].out, job[p].m.target) : p \in Acks}
Preparing == {Via(Key(p), call[p].last, job[p].m.target) :
                p \in {q \in Acks : job[q].pc \in {"fwSource", "fwDone"}}}
Forwarding == {w \in Commanded \union Prepared \union Preparing : w.fwd \in Fteid}

\* A switch that comes across a rule which forwarded packets pass makes it lead to
\* the target itself.
RedirectsForward ==
  \A e \in installed : \A r \in Redirects(e.upf, e.ip) :
    e.seid = handle[e.upf][e.ip] /\ r.far = e.id =>
      \A w \in Forwarding :
        e \in Applied(w.key, "DL", installed) /\ e.listen \in Reached(w.fwd, Expected(w.key)) =>
          r.fwd \in {e.fwd, w.to}

\* Session k is reached by the data network at gNB g.
Served(k, g) == \E path \in Routes(k.dnn, g) : Carries(k, path, GnbFteid[g], installed)

\* Once no handler works for a UE and no message about it is on its way, its
\* sessions are reached at the gNB it is attached to: a request that failed has
\* cut off one session, never another one of the UE.
DownlinkFollows ==
  \A u \in Ues : About(u) = {} /\ u \notin moving /\ ~ctxDone /\ started =>
    Cardinality({k \in active : k.ue = u /\ ~Served(k, at[u])}) <= faults

\* Nothing that was stored in a session is lost: an uplink set-up finds the session
\* that another one has added, and never puts a new one in its place, as long as the
\* pool gives a UE no address twice (AddressesAgree of Establishment).
SessionKept ==
  [][\A k \in Keys : sessions[k] # None =>
       /\ sessions'[k] # None
       /\ sessions[k].dl # None => sessions'[k].dl # None
       /\ sessions[k].far # 0 => sessions'[k].far # 0]_allVars

\* While a Handover Request Ack is handled, the downlink path to the source gNB stays,
\* until a Handover Notify of the UE has been received.
PreservedUntilNotify ==
  [][\A p \in Acks, k \in active, g \in Gnbs :
       k.ue = job[p].m.ue /\ g = job[p].m.source /\ Served(k, g) /\ ~Served(k, g)' =>
       \E q \in Procs : job[q] # NoJob /\ job[q].kind = "notify" /\ job[q].m.ue = k.ue]_allVars

\* After direct forwarding the Handover Notify redirects the downlink path of the
\* session: the FAR that a successful switch rewrites is on a path from the anchor,
\* which now leads to the F-TEID the target gNB gave.
SwitchMovesPath ==
  [][\A p \in Procs : faults = 0 /\ call[p].pc = "swPush" /\ call'[p].res = "ok" =>
       \E path \in UNION {Routes(call[p].key.dnn, g) : g \in Gnbs} :
         Carries(call[p].key, path, call[p].last, installed')]_allVars

\* The kind of forwarding is stored when a handover starts: until it ends, the
\* flag that the later handlers read says what the source gNB asked for.
ForwardingStored ==
  \A p \in Procs : job[p] # NoJob /\ job[p].kind = "required" /\ job[p].pc \in {"path", "uplink"}
    => sessions[Key(p)].indirect = job[p].m.indirect

-----------------------------------------------------------------------------
(* Liveness.                                                               *)

\* Every handler ends, or waits for a gNB that does not answer; and then it ends with
\* the context, unless the process is gone.
HandlersEnd ==
  \A p \in Procs : job[p] # NoJob ~>
    job[p] = NoJob \/ (Waits(p) /\ ~ctxDone) \/ panicked \/ crashed

=============================================================================
