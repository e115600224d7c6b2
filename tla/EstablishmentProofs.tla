-------------------------- MODULE EstablishmentProofs --------------------------
(***************************************************************************)
(* Establishments at once, for any number of them, of slices, addresses    *)
(* and TEIDs: they use the TEID pool as its module says.                   *)
(***************************************************************************)
EXTENDS Establishment, TeidsPoolProofs

OnPath == {"teid", "rules", "put", "putting", "append", "push"}

\* What the place of an establishment says of its name, address and rule set.
PlaceInv == \A p \in Procs :
  /\ est[p].pc = "start" => est[p].dnn = None
  /\ est[p].pc = "write" => est[p].dnn \in Slices
  /\ est[p].pc \in OnPath => est[p].ip \in Ips
  /\ est[p].pc \in {"put", "putting"} => est[p].set = p

EstInv == PoolInv /\ EstTypeOK /\ PlaceInv

-----------------------------------------------------------------------------
(* The pool.                                                               *)

\* Every step of an establishment is a step of the TEID pool, or leaves it alone.
LEMMA EstPoolStep == ASSUME [EstNext]_allVars PROVE [PoolNext]_poolVars
<1>1. CASE Stop
  BY <1>1 DEF Stop, PoolNext
<1>2. ASSUME NEW p \in Procs, IpWrite(p)
      PROVE  [PoolNext]_poolVars
  BY <1>2 DEF IpWrite, PoolNext
<1>3. ASSUME NEW p \in Procs, TeidDraw(p) \/ TeidEnd(p)
      PROVE  [PoolNext]_poolVars
  BY <1>3 DEF TeidDraw, TeidEnd, NextStep, PoolNext
<1>4. ASSUME NEW p \in Procs,
             EstStart(p) \/ RulesGet(p) \/ RulesPut(p) \/ RulesPutEnd(p) \/ AppendRule(p) \/ Push(p)
               \/ MapRace(p)
      PROVE  UNCHANGED poolVars
  BY <1>4 DEF EstStart, DnnUnknown, IpRead, RulesGet, RulesPut, RulesPutEnd, AppendRule, Push,
              MapRace
<1> QED
  BY <1>1, <1>2, <1>3, <1>4 DEF EstNext, EstStep, allVars

\* The pool that establishments use is the one of TeidsPool.
THEOREM EstablishmentsUsePool == EstSpec => PoolSpec
<1>1. EstInit => PoolInit
  BY DEF EstInit
<1> QED
  BY <1>1, EstPoolStep, PTL DEF EstSpec, PoolSpec

\* However establishments interleave, each TEID goes to one of them.
THEOREM EstablishmentsGetTeids == EstSpec => TeidsDispensed
BY EstablishmentsUsePool, PoolImplementsDispenser, PTL

-----------------------------------------------------------------------------
(* Types and places.                                                       *)

LEMMA EstInitially == EstInit => EstInv
<1> SUFFICES ASSUME EstInit PROVE EstInv
  OBVIOUS
<1>1. \A p \in Procs : est[p].pc = "start" /\ est[p].dnn = None
  BY DEF EstInit
<1>2. PoolInv
  BY PoolInitially DEF EstInit
<1>3. EstTypeOK
  BY <1>2, SlicesAssumption DEF EstInit, EstTypeOK, EstPcs, PoolInv
<1>4. PlaceInv
  BY <1>1 DEF PlaceInv, OnPath
<1> QED
  BY <1>2, <1>3, <1>4 DEF EstInv

EstRecords == 
  [Procs -> [pc : EstPcs, dnn : Dnns \union {None}, ip : Nat, set : Procs \union {None}]]

LEMMA EstRecord ==
  ASSUME est \in EstRecords, NEW p \in Procs, NEW d \in Dnns, NEW x \in Nat
  PROVE  /\ [est EXCEPT ![p].dnn = d, ![p].pc = "err"] \in EstRecords
         /\ [est EXCEPT ![p].dnn = d, ![p].ip = x, ![p].pc = "write"] \in EstRecords
<1>1. /\ [est[p] EXCEPT !.dnn = d, !.pc = "err"]
           \in [pc : EstPcs, dnn : Dnns \union {None}, ip : Nat, set : Procs \union {None}]
      /\ [est[p] EXCEPT !.dnn = d, !.ip = x, !.pc = "write"]
           \in [pc : EstPcs, dnn : Dnns \union {None}, ip : Nat, set : Procs \union {None}]
  BY DEF EstRecords, EstPcs
<1> QED
  BY <1>1 DEF EstRecords

LEMMA IpKeepsType ==
  ASSUME EstInv, PoolInv', NEW p \in Procs, DnnUnknown(p) \/ IpRead(p) \/ IpWrite(p)
  PROVE  EstInv'
<1>0. est \in EstRecords
  BY DEF EstInv, EstTypeOK, EstRecords
<1> USE SlicesAssumption DEF EstInv, PlaceInv, EstTypeOK, EstPcs, OnPath, At, Goto, shared, history
<1>1. PoolTypeOK'
  BY DEF PoolInv
<1>2. CASE DnnUnknown(p)
  <2>1. PICK d \in Dnns \ Slices : est' = [est EXCEPT ![p].dnn = d, ![p].pc = "err"]
    BY <1>2 DEF DnnUnknown
  <2>2. UNCHANGED <<current, sessions, queue, sent, crashed, overlapped, raced>>
    BY <1>2 DEF DnnUnknown
  <2>3. est' \in EstRecords
    BY <1>0, <2>1, EstRecord
  <2>4. \A q \in Procs : est'[q].pc \in {"append", "push"} => est'[q].set # None
    BY <2>1
  <2>5. PlaceInv'
    BY <2>1, <2>2
  <2> QED
    BY <1>1, <2>2, <2>3, <2>4, <2>5 DEF EstRecords
<1>3. CASE IpRead(p)
  <2>1. PICK d \in Slices :
          /\ est' = [est EXCEPT ![p].dnn = d, ![p].ip = NextAddr(d), ![p].pc = "write"]
          /\ overlapped' \in {overlapped, overlapped \union {d}}
    BY <1>3 DEF IpRead
  <2>2. overlapped' \subseteq Slices /\ NextAddr(d) \in Nat /\ d \in Dnns
    BY <2>1 DEF NextAddr
  <2>3. UNCHANGED <<current, sessions, queue, sent, crashed, raced>>
    BY <1>3 DEF IpRead
  <2>4. PlaceInv'
    BY <2>1, <2>3
  <2>5. est' \in EstRecords
    BY <1>0, <2>1, <2>2, EstRecord
  <2>6. \A q \in Procs : est'[q].pc \in {"append", "push"} => est'[q].set # None
    BY <2>1
  <2> QED
    BY <1>1, <2>2, <2>3, <2>4, <2>5, <2>6 DEF EstRecords
<1>4. CASE IpWrite(p)
  <2>1. est[p].dnn \in Slices /\ (est[p].ip \in Prefix[est[p].dnn] => est[p].ip \in Ips)
    BY <1>4 DEF IpWrite, Ips
  <2> QED
    BY <1>1, <1>4, <2>1 DEF IpWrite
<1> QED
  BY <1>2, <1>3, <1>4

LEMMA TeidKeepsType ==
  ASSUME EstInv, PoolInv', NEW p \in Procs, TeidDraw(p) \/ TeidEnd(p)
  PROVE  EstInv'
<1> USE DEF EstInv, PlaceInv, EstTypeOK, EstPcs, OnPath, At, Goto, shared, history
<1>1. PoolTypeOK'
  BY DEF PoolInv
<1>2. CASE TeidDraw(p)
  BY <1>1, <1>2 DEF TeidDraw, estVars
<1>3. CASE TeidEnd(p)
  BY <1>1, <1>3 DEF TeidEnd
<1> QED
  BY <1>2, <1>3

LEMMA RulesKeepType ==
  ASSUME EstInv, PoolInv', NEW p \in Procs,
         RulesGet(p) \/ RulesPut(p) \/ RulesPutEnd(p) \/ AppendRule(p) \/ Push(p) \/ MapRace(p)
  PROVE  EstInv'
<1> USE NobodyAssumption DEF EstInv, PlaceInv, EstTypeOK, EstPcs, OnPath, At, Goto, shared, history
<1>1. PoolTypeOK'
  BY DEF PoolInv
<1>2. CASE RulesGet(p)
  <2>1. est[p].ip \in Ips /\ sessions[est[p].ip] \in Procs \union {None}
    BY <1>2 DEF RulesGet
  <2>2. raced' \in BOOLEAN
    BY <1>2 DEF RulesGet, Races, Writing
  <2>3. UNCHANGED <<current, sessions, queue, sent, crashed, overlapped>>
    BY <1>2 DEF RulesGet
  <2>4. \/ est' = [est EXCEPT ![p].pc = "put", ![p].set = p]
        \/ /\ sessions[est[p].ip] # None
           /\ est' = [est EXCEPT ![p].pc = "append", ![p].set = sessions[est[p].ip]]
    BY <1>2 DEF RulesGet
  <2>5. est[p].pc = "rules"
    BY <1>2 DEF RulesGet
  <2>6. PlaceInv'
    BY <2>1, <2>3, <2>4, <2>5
  <2> QED
    BY <1>1, <2>1, <2>2, <2>3, <2>4, <2>6
<1>3. CASE RulesPut(p)
  <2>1. raced' \in BOOLEAN
    BY <1>3 DEF RulesPut, Writing
  <2> QED
    BY <1>1, <1>3, <2>1 DEF RulesPut
<1>4. CASE RulesPutEnd(p)
  BY <1>1, <1>4 DEF RulesPutEnd
<1>5. CASE AppendRule(p)
  BY <1>1, <1>5 DEF AppendRule
<1>6. CASE Push(p)
  <2>1. est[p].ip \in Ips /\ sessions[est[p].ip] \in Procs \union {None}
    BY <1>6 DEF Push
  <2>2. raced' \in BOOLEAN
    BY <1>6 DEF Push, Writing
  <2> QED
    BY <1>1, <1>6, <2>1, <2>2 DEF Push
<1>7. CASE MapRace(p)
  BY <1>1, <1>7 DEF MapRace
<1> QED
  BY <1>2, <1>3, <1>4, <1>5, <1>6, <1>7

LEMMA EstInductive == EstInv /\ [EstNext]_allVars => EstInv'
<1> SUFFICES ASSUME EstInv, [EstNext]_allVars
             PROVE  EstInv'
  OBVIOUS
<1>1. PoolInv'
  BY EstPoolStep, PoolInductive DEF EstInv
<1>2. CASE Stop \/ UNCHANGED allVars
  <2>1. PoolTypeOK' /\ UNCHANGED estVars
    BY <1>1, <1>2 DEF PoolInv, Stop, allVars
  <2> QED
    BY <1>1, <2>1 DEF EstInv, EstTypeOK, PlaceInv, estVars
<1>3. CASE \E p \in Procs : EstStart(p) \/ EstStep(p) \/ MapRace(p)
  BY <1>1, <1>3, IpKeepsType, TeidKeepsType, RulesKeepType DEF EstStart, EstStep
<1> QED
  BY <1>2, <1>3 DEF EstNext

-----------------------------------------------------------------------------
\* The type invariant holds in every state.
THEOREM EstTypeCorrect == EstSpec => []EstTypeOK
<1>1. EstInv => EstTypeOK
  BY DEF EstInv
<1> QED
  BY <1>1, EstInitially, EstInductive, PTL DEF EstSpec
=============================================================================
