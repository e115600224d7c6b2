--------------------------- MODULE TeidsPoolProofs ---------------------------
(***************************************************************************)
(* The TEID pool implements the dispenser, for any number of goroutines    *)
(* and of TEIDs.  The mutex is needed from the test of a TEID to the       *)
(* return: PoolInv says what it protects.                                  *)
(***************************************************************************)
EXTENDS TeidsPool, TLAPS

Inside(p) == next[p].pc \in {"draw", "test", "insert", "return"}

MutexInv == \A p \in Procs : Inside(p) => mutex = p

\* The TEID that is about to be inserted is free; one about to be returned is
\* taken, and nobody holds it yet.
DrawnInv ==
  /\ \A p \in Procs : next[p].pc = "insert" => next[p].teid \notin teids
  /\ \A p \in Procs : next[p].pc = "return" =>
       /\ next[p].teid \in teids
       /\ next[p].teid \in Uint32
       /\ \A q \in Procs : next[p].teid \notin held[q]
  /\ \A p \in Procs : next[p].pc \in {"test", "insert"} => next[p].teid \in Uint32

HeldInv ==
  /\ \A p \in Procs : held[p] \subseteq teids
  /\ \A p, q \in Procs : p # q => held[p] \cap held[q] = {}

PoolInv == PoolTypeOK /\ MutexInv /\ DrawnInv /\ HeldInv

-----------------------------------------------------------------------------
LEMMA PoolInitially == PoolInit => PoolInv
<1> SUFFICES ASSUME PoolInit PROVE PoolInv
  OBVIOUS
<1>1. \A p \in Procs : next[p].pc = "idle" /\ held[p] = {}
  BY DEF PoolInit
<1>2. PoolTypeOK
  BY DEF PoolInit, PoolTypeOK, PoolPcs
<1>3. MutexInv /\ DrawnInv
  BY <1>1 DEF MutexInv, DrawnInv, Inside
<1>4. HeldInv
  BY <1>1 DEF HeldInv
<1> QED
  BY <1>2, <1>3, <1>4 DEF PoolInv

LEMMA PoolInductive == PoolInv /\ [PoolNext]_poolVars => PoolInv'
<1> SUFFICES ASSUME PoolInv, [PoolNext]_poolVars
             PROVE  PoolInv'
  OBVIOUS
<1> USE NobodyAssumption DEF PoolInv, PoolTypeOK, MutexInv, DrawnInv, HeldInv, Inside, PoolPcs
<1>1. CASE PoolStop
  BY <1>1 DEF PoolStop
<1>2. ASSUME NEW p \in Procs, NextCall(p)
      PROVE  PoolInv'
  BY <1>2 DEF NextCall, NextAt, NextTo
<1>3. ASSUME NEW p \in Procs, NextLock(p)
      PROVE  PoolInv'
  BY <1>3 DEF NextLock, NextAt, NextTo
<1>4. ASSUME NEW p \in Procs, NextGiveUp(p)
      PROVE  PoolInv'
  BY <1>4 DEF NextGiveUp, NextAt, NextTo
<1>5. ASSUME NEW p \in Procs, NextDraw(p)
      PROVE  PoolInv'
  BY <1>5 DEF NextDraw, NextAt
<1>6. ASSUME NEW p \in Procs, NextTest(p)
      PROVE  PoolInv'
  BY <1>6 DEF NextTest, NextAt, NextTo
<1>7. ASSUME NEW p \in Procs, NextInsert(p)
      PROVE  PoolInv'
  BY <1>7 DEF NextInsert, NextAt, NextTo
<1>8. ASSUME NEW p \in Procs, NextReturn(p)
      PROVE  PoolInv'
  BY <1>8 DEF NextReturn, NextAt, NextTo
<1>9. ASSUME NEW p \in Procs, NEW t \in Uint32, Delete(p, t)
      PROVE  PoolInv'
  BY <1>9 DEF Delete, NextAt
<1>10. CASE UNCHANGED poolVars
  BY <1>10 DEF poolVars
<1> QED
  BY <1>1, <1>2, <1>3, <1>4, <1>5, <1>6, <1>7, <1>8, <1>9, <1>10 DEF PoolNext, NextStep

\* The type invariant holds in every state.
THEOREM PoolTypeCorrect == PoolSpec => []PoolTypeOK
<1>1. PoolInv => PoolTypeOK
  BY DEF PoolInv
<1> QED
  BY <1>1, PoolInitially, PoolInductive, PTL DEF PoolSpec

\* Next is a dispenser: a return gives a TEID that nobody holds, Delete gives one
\* back, and no other step changes who holds what.
THEOREM PoolImplementsDispenser == PoolSpec => TeidsDispensed
<1>1. PoolInit => Dispensed!Init
  BY DEF PoolInit, Dispensed!Init
<1>2. PoolInv /\ [PoolNext]_poolVars => [Dispensed!Next]_held
  <2> SUFFICES ASSUME PoolInv, [PoolNext]_poolVars
               PROVE  [Dispensed!Next]_held
    OBVIOUS
  <2>1. ASSUME NEW p \in Procs, NextReturn(p)
        PROVE  Dispensed!Next
    <3>1. next[p].teid \in Uint32 /\ \A q \in Procs : next[p].teid \notin held[q]
      BY <2>1 DEF NextReturn, NextAt, PoolInv, DrawnInv
    <3>2. Dispensed!Give(p, next[p].teid)
      BY <2>1, <3>1 DEF NextReturn, Dispensed!Give
    <3> QED
      BY <3>1, <3>2 DEF Dispensed!Next
  <2>2. ASSUME NEW p \in Procs, NEW t \in Uint32, Delete(p, t)
        PROVE  Dispensed!Next
    BY <2>2 DEF Delete, Dispensed!GiveBack, Dispensed!Next
  <2>3. ASSUME NEW p \in Procs, NextCall(p) \/ NextStep(p), ~NextReturn(p)
        PROVE  UNCHANGED held
    BY <2>3 DEF NextCall, NextStep, NextLock, NextGiveUp, NextDraw, NextTest, NextInsert
  <2> QED
    BY <2>1, <2>2, <2>3 DEF PoolNext, NextStep, PoolStop, poolVars
<1> QED
  BY <1>1, <1>2, PoolInitially, PoolInductive, PTL DEF PoolSpec, TeidsDispensed, Dispensed!Spec

\* A TEID is never held by two goroutines.
THEOREM TeidsExclusive == PoolSpec => []Dispensed!Exclusive
<1>1. PoolInv => Dispensed!Exclusive
  BY DEF PoolInv, HeldInv, Dispensed!Exclusive
<1> QED
  BY <1>1, PoolInitially, PoolInductive, PTL DEF PoolSpec
=============================================================================
