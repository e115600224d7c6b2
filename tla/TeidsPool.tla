------------------------------ MODULE TeidsPool ------------------------------
(***************************************************************************)
(* The TEIDs of one GTP interface (src/internal/smf/teids_pool.go).        *)
(*                                                                         *)
(* Next keeps the mutex of the pool from its first draw to its return, and *)
(* draws until it comes across a TEID that is not taken or the context is  *)
(* done.  It returns a TEID nobody else holds, which is all that Smf says  *)
(* of it (NextListenFteidContext).                                         *)
(***************************************************************************)
EXTENDS Naturals

CONSTANTS
  Procs,   \* goroutines
  Uint32,  \* what rand.Uint32 returns
  None     \* nobody has the mutex

ASSUME Uint32Assumption == Uint32 \subseteq Nat
ASSUME NobodyAssumption == None \notin Procs

VARIABLES
  teids,  \* TEIDsPool.teids
  mutex,  \* the goroutine that has locked the pool, or None
  done,   \* the context is done
  next,   \* goroutine -> where it is in Next, and the TEID it has drawn
  held    \* goroutine -> the TEIDs Next has returned to it

poolVars == <<teids, mutex, done, next, held>>

PoolPcs == {"idle", "lock", "draw", "test", "insert", "return"}

PoolTypeOK ==
  /\ teids \subseteq Uint32
  /\ mutex \in Procs \union {None}
  /\ done \in BOOLEAN
  /\ next \in [Procs -> [pc : PoolPcs, teid : Uint32 \union {0}]]
  /\ held \in [Procs -> SUBSET Uint32]

\* NewTEIDsPool
PoolInit ==
  /\ teids = {} /\ mutex = None /\ done = FALSE
  /\ next = [p \in Procs |-> [pc |-> "idle", teid |-> 0]]
  /\ held = [p \in Procs |-> {}]

-----------------------------------------------------------------------------
(* Next.  No caller passes a nil context.                                  *)

NextAt(p, pc) == next[p].pc = pc
NextTo(p, pc) == next' = [next EXCEPT ![p].pc = pc]

NextCall(p) ==
  /\ NextAt(p, "idle")
  /\ NextTo(p, "lock")
  /\ UNCHANGED <<teids, mutex, done, held>>

NextLockShared(p) ==                             \* seeded: a read lock
  /\ NextAt(p, "lock")
  /\ mutex' = p
  /\ NextTo(p, "draw")
  /\ UNCHANGED <<teids, done, held>>

NextLock(p) ==
  /\ NextAt(p, "lock") /\ mutex = None
  /\ mutex' = p
  /\ NextTo(p, "draw")
  /\ UNCHANGED <<teids, done, held>>

NextDrawsOn(p) ==                                \* seeded: the context is not looked at
  /\ FALSE
  /\ UNCHANGED poolVars

\* The context is looked at before each draw; TEID 0 is never returned.
NextGiveUp(p) ==
  /\ NextAt(p, "draw") /\ done
  /\ mutex' = None
  /\ NextTo(p, "idle")
  /\ UNCHANGED <<teids, done, held>>

NextDraw(p) ==
  /\ NextAt(p, "draw") /\ ~done
  /\ \E t \in Uint32 : next' = [next EXCEPT ![p] = [pc |-> "test", teid |-> t]]
  /\ UNCHANGED <<teids, mutex, done, held>>

NextTest(p) ==
  /\ NextAt(p, "test")
  /\ IF next[p].teid = 0 \/ next[p].teid \in teids THEN NextTo(p, "draw") ELSE NextTo(p, "insert")
  /\ UNCHANGED <<teids, mutex, done, held>>

NextInsert(p) ==
  /\ NextAt(p, "insert")
  /\ teids' = teids \union {next[p].teid}
  /\ NextTo(p, "return")
  /\ UNCHANGED <<mutex, done, held>>

NextReturn(p) ==
  /\ NextAt(p, "return")
  /\ mutex' = None
  /\ held' = [held EXCEPT ![p] = @ \union {next[p].teid}]
  /\ NextTo(p, "idle")
  /\ UNCHANGED <<teids, done>>

NextStep(p) ==
  NextLock(p) \/ NextGiveUp(p) \/ NextDraw(p) \/ NextTest(p) \/ NextInsert(p) \/ NextReturn(p)

\* A TEID goes back to the pool once its owner has no use for it any more.  The SMF
\* does not call it yet.
Delete(p, t) ==
  /\ NextAt(p, "idle") /\ mutex = None /\ t \in held[p]
  /\ teids' = teids \ {t}
  /\ held' = [held EXCEPT ![p] = @ \ {t}]
  /\ UNCHANGED <<mutex, done, next>>

\* The context of the pool is done.
PoolStop == ~done /\ done' = TRUE /\ UNCHANGED <<teids, mutex, next, held>>

PoolNext ==
  \/ PoolStop
  \/ \E p \in Procs : NextCall(p) \/ NextStep(p) \/ \E t \in Uint32 : Delete(p, t)

PoolSpec == PoolInit /\ [][PoolNext]_poolVars

-----------------------------------------------------------------------------
\* The pool is a dispenser of TEIDs: however the calls of Next interleave, a TEID
\* is returned to a goroutine only while nobody holds it.
Dispensed == INSTANCE Dispenser WITH Clients <- Procs, Values <- Uint32

TeidsDispensed == Dispensed!Spec
=============================================================================
