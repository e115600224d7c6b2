---------------------------- MODULE Establishment ----------------------------
(***************************************************************************)
(* What establishments at once share inside the SMF, lock by lock: the     *)
(* address pool of a slice (ue_ip_pool.go), which has no lock, the TEID    *)
(* pool of an interface, which has one, and the Go map of the rules of a   *)
(* UPF (Upf.Rules), which has none, while each rule set in it has one.     *)
(*                                                                         *)
(* Each goroutine establishes one session over a path of one hop: address, *)
(* TEID, rule set, rule, PFCP request.  Smf takes the same steps in larger *)
(* pieces, and Amf hands out addresses in one step.                        *)
(*                                                                         *)
(* An unsynchronised access of a Go map while it is written is undefined:  *)
(* the runtime may stop the process, the write may be lost, or nothing     *)
(* happens.  The address is one machine word and is read and written whole.*)
(***************************************************************************)
EXTENDS TeidsPool

CONSTANTS
  Dnns,      \* the names UEs ask for
  Slices,    \* those that are configured
  PoolAddr,  \* slice -> the address its prefix is written with, a number
  Prefix     \* slice -> the addresses of the prefix

ASSUME SlicesAssumption ==
  /\ Slices \subseteq Dnns /\ None \notin Dnns
  /\ PoolAddr \in [Slices -> Nat] /\ Prefix \in [Slices -> SUBSET Nat]

VARIABLES
  current,     \* UeIpPool.current of each slice
  est,         \* goroutine -> the establishment it works on
  sessions,    \* Upf.sessions: UE address -> rule set, named after its creator
  queue,       \* rule set -> the goroutines whose rule waits in it
  sent,        \* goroutines whose rule has been sent to the UPF
  crashed,     \* the runtime has stopped the process
  overlapped,  \* history: slices where two calls of UeIpPool.Next have overlapped
  raced        \* history: two accesses of Upf.sessions have overlapped

shared  == <<current, sessions, queue, sent>>
history == <<overlapped, raced>>
estVars == <<current, est, sessions, queue, sent, crashed, overlapped, raced>>
allVars == <<poolVars, estVars>>

Ips == UNION {Prefix[d] : d \in Slices}
EstPcs == {"start", "write", "teid", "rules", "put", "putting", "append", "push",
           "ok", "err"}

EstTypeOK ==
  /\ PoolTypeOK
  /\ current \in [Slices -> Nat]
  /\ est \in [Procs -> [pc : EstPcs, dnn : Dnns \union {None}, ip : Nat,
                        set : Procs \union {None}]]
  /\ sessions \in [Ips -> Procs \union {None}]
  /\ queue \in [Procs -> SUBSET Procs] /\ sent \subseteq Procs
  /\ \A p \in Procs : est[p].pc \in {"append", "push"} => est[p].set # None
  /\ crashed \in BOOLEAN /\ overlapped \subseteq Slices /\ raced \in BOOLEAN

EstInit ==
  /\ PoolInit
  /\ current = PoolAddr
  /\ est = [p \in Procs |-> [pc |-> "start", dnn |-> None, ip |-> 0, set |-> None]]
  /\ sessions = [x \in Ips |-> None] /\ queue = [p \in Procs |-> {}] /\ sent = {}
  /\ crashed = FALSE /\ overlapped = {} /\ raced = FALSE

At(p, pc)   == ~crashed /\ est[p].pc = pc
Goto(p, pc) == est' = [est EXCEPT ![p].pc = pc]

-----------------------------------------------------------------------------
(* GetNextUeIpAddr and UeIpPool.Next                                       *)

DnnUnknown(p) ==
  /\ At(p, "start")
  /\ \E d \in Dnns \ Slices : est' = [est EXCEPT ![p].dnn = d, ![p].pc = "err"]
  /\ UNCHANGED <<poolVars, shared, crashed, history>>

NextAddrFirst(d) == PoolAddr[d] + 1              \* seeded: after the first address
NextAddr(d) == current[d] + 1                    \* Addr.Next

\* The first statement reads current; a second read before the write that follows
\* is an overlap.
IpRead(p) ==
  /\ At(p, "start")
  /\ \E d \in Slices :
       /\ est' = [est EXCEPT ![p].dnn = d, ![p].ip = NextAddr(d), ![p].pc = "write"]
       /\ overlapped' = IF \E q \in Procs : est[q].pc = "write" /\ est[q].dnn = d
                        THEN overlapped \union {d} ELSE overlapped
  /\ UNCHANGED <<poolVars, shared, crashed, raced>>

\* The second one writes what was read.  An address outside the prefix is an error,
\* and current stays behind the end.
IpWrite(p) ==
  /\ At(p, "write")
  /\ current' = [current EXCEPT ![est[p].dnn] = est[p].ip]
  /\ IF est[p].ip \in Prefix[est[p].dnn]
     THEN Goto(p, "teid") /\ NextCall(p)
     ELSE Goto(p, "err") /\ UNCHANGED poolVars
  /\ UNCHANGED <<sessions, queue, sent, crashed, history>>

-----------------------------------------------------------------------------
(* NextListenFteidContext                                                  *)

TeidDraw(p) ==
  /\ At(p, "teid")
  /\ NextLock(p) \/ NextDraw(p) \/ NextTest(p) \/ NextInsert(p)
  /\ UNCHANGED estVars

TeidEnd(p) ==
  /\ At(p, "teid")
  /\ \/ NextReturn(p) /\ Goto(p, "rules")
     \/ NextGiveUp(p) /\ Goto(p, "err")
  /\ UNCHANGED <<shared, crashed, history>>

-----------------------------------------------------------------------------
(* Upf.Rules, the rule, Upf.CreateSession                                  *)

Writing(p)   == \E q \in Procs \ {p} : est[q].pc = "putting"
Accessing(p) == est[p].pc \in {"rules", "put", "putting", "push"}

\* Another goroutine is writing the map, or about to write the same entry.
Races(p) == Writing(p) \/ \E q \in Procs \ {p} : est[q].pc = "put" /\ est[q].ip = est[p].ip

\* The runtime detects some concurrent accesses and stops the process.
MapRace(p) ==
  /\ ~crashed /\ Accessing(p) /\ Writing(p)
  /\ crashed' = TRUE /\ raced' = TRUE
  /\ UNCHANGED <<poolVars, est, shared, overlapped>>

RulesGetNil(p) ==                                \* seeded: absent rules are not made
  /\ At(p, "rules")
  /\ est' = [est EXCEPT ![p].pc = "append", ![p].set = sessions[est[p].ip]]
  /\ raced' = (raced \/ Races(p))
  /\ UNCHANGED <<poolVars, shared, crashed, overlapped>>

RulesGetNew(p) ==                                \* seeded: always a new rule set
  /\ At(p, "rules")
  /\ est' = [est EXCEPT ![p].pc = "put", ![p].set = p]
  /\ raced' = (raced \/ Races(p))
  /\ UNCHANGED <<poolVars, shared, crashed, overlapped>>

RulesGet(p) ==
  /\ At(p, "rules")
  /\ LET s == sessions[est[p].ip]
     IN est' = [est EXCEPT ![p].pc = IF s = None THEN "put" ELSE "append",
                           ![p].set = IF s = None THEN p ELSE s]
  /\ raced' = (raced \/ Races(p))
  /\ UNCHANGED <<poolVars, shared, crashed, overlapped>>

RulesPut(p) ==
  /\ At(p, "put")
  /\ Goto(p, "putting")
  /\ raced' = (raced \/ Writing(p))
  /\ UNCHANGED <<poolVars, shared, crashed, overlapped>>

RulesPutEnd(p) ==
  /\ At(p, "putting")
  /\ \/ sessions' = [sessions EXCEPT ![est[p].ip] = est[p].set]
     \/ Writing(p) /\ UNCHANGED sessions
  /\ Goto(p, "append")
  /\ UNCHANGED <<poolVars, current, queue, sent, crashed, history>>

AppendRule(p) ==
  /\ At(p, "append")
  /\ queue' = [queue EXCEPT ![est[p].set] = @ \union {p}]
  /\ Goto(p, "push")
  /\ UNCHANGED <<poolVars, current, sessions, sent, crashed, history>>

\* The rule set is looked up again; what waits in it is sent, and stays if the
\* request fails.
Push(p) ==
  /\ At(p, "push")
  /\ LET s == sessions[est[p].ip]
     IN \/ /\ s # None
           /\ sent' = sent \union queue[s] /\ queue' = [queue EXCEPT ![s] = {}]
           /\ Goto(p, "ok")
        \/ Goto(p, "err") /\ UNCHANGED <<sent, queue>>
  /\ raced' = (raced \/ Writing(p))
  /\ UNCHANGED <<poolVars, current, sessions, crashed, overlapped>>

-----------------------------------------------------------------------------
Stop == ~crashed /\ PoolStop /\ UNCHANGED estVars

EstStart(p) == DnnUnknown(p) \/ IpRead(p)

EstStep(p) ==
  \/ IpWrite(p) \/ TeidDraw(p) \/ TeidEnd(p)
  \/ RulesGet(p) \/ RulesPut(p) \/ RulesPutEnd(p) \/ AppendRule(p) \/ Push(p)

EstNext == Stop \/ \E p \in Procs : EstStart(p) \/ EstStep(p) \/ MapRace(p)

EstSpec == EstInit /\ [][EstNext]_allVars

\* A goroutine that can go on is scheduled.
EstFairSpec == EstSpec /\ \A p \in Procs : WF_allVars(EstStep(p))

-----------------------------------------------------------------------------
Drew(d) == {p \in Procs : est[p].dnn = d /\ est[p].pc # "write"}

\* As long as no two calls of UeIpPool.Next for a slice have overlapped, every
\* address since the first one has gone to exactly one establishment, up to the
\* end of the pool and beyond: none is given twice, none is left out, and a pool
\* that has run out does not start again.
AddressesAgree ==
  \A d \in Slices \ overlapped : (\A p \in Procs : ~(est[p].pc = "write" /\ est[p].dnn = d)) =>
    /\ {est[p].ip : p \in Drew(d)} = (PoolAddr[d] + 1)..current[d]
    /\ \A p, q \in Drew(d) : est[p].ip = est[q].ip => p = q

\* As long as no two goroutines have been in the map of the rules at once, an
\* establishment that succeeds has sent its rule: UEs that share an address share
\* one rule set, and none is replaced while a goroutine works on it.
RulePushed == ~raced => ~crashed /\ \A p \in Procs : est[p].pc = "ok" => p \in sent

\* Once the context is done every establishment ends, also one that draws from a
\* full pool and those that wait for its mutex.
StopEnds ==
  \A p \in Procs :
    done /\ est[p].pc # "start" ~> est[p].pc \in {"ok", "err"} \/ crashed
=============================================================================
