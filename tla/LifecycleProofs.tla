--------------------------- MODULE LifecycleProofs ---------------------------
(***************************************************************************)
(* The order of the start and of the end, for any UPFs and any number of   *)
(* requests.  LifeInv relates where the goroutine of main is to what the   *)
(* three other goroutines may have done by then.                           *)
(***************************************************************************)
EXTENDS Lifecycle, TLAPS

Starting == main \in {"conf", "smfStart", "ready", "associate", "amfStart"}

\* Nothing of the AMF runs before Smf.Start has succeeded.
StartInv ==
  /\ Starting => stopper = "off" /\ status = 0
  /\ stopper = "off" <=> http = "off"
  /\ http = "off" => requests = 0
  /\ stopper # "off" => status = 0
  /\ main = "up" => stopper # "off"

\* From the end of Smf.Start on.
ReadyInv ==
  main = "amfStart" \/ http # "off" =>
    todo = {} /\ (started \/ server \in {"closing", "gone"})

\* After the call of http.Server.Shutdown.
DrainInv ==
  /\ stopper \in {"draining", "gone"} => ctxDone /\ http # "serving"
  /\ stopper = "gone" => requests = 0 \/ drainExpired

WaitInv ==
  /\ main \in {"waitAmf", "waitSmf", "exit"} /\ status = 0 => ctxDone
  /\ main = "waitSmf" => waitExpired \/ AmfClosed
  /\ EndsInOrder

LifeInv == LifeTypeOK /\ StartInv /\ ReadyInv /\ DrainInv /\ WaitInv

-----------------------------------------------------------------------------
LEMMA LifeInitially == LifeInit => LifeInv
<1> SUFFICES ASSUME LifeInit PROVE LifeInv
  OBVIOUS
<1>1. associated = Upfs \ todo /\ requests \in 0..MaxRequests
  BY RequestsAssumption DEF LifeInit
<1> QED
  BY <1>1 DEF LifeInit, LifeInv, LifeTypeOK, StartInv, ReadyInv, DrainInv, WaitInv, Starting,
              EndsInOrder, AmfClosed, SmfClosed

LEMMA MainKeeps == ASSUME LifeInv, MainStep PROVE LifeInv'
<1> USE DEF LifeInv, LifeTypeOK, StartInv, ReadyInv, DrainInv, WaitInv, Starting, EndsInOrder,
            AmfClosed, SmfClosed, Fatal, Fail, Main, amf, smf
<1>1. CASE ParseConf
  BY <1>1 DEF ParseConf
<1>2. CASE StartServer
  BY <1>2 DEF StartServer
<1>3. CASE WaitReady
  BY <1>3 DEF WaitReady
<1>4. ASSUME NEW u \in Upfs, Associate(u)
      PROVE  LifeInv'
  <2>1. associated' = Upfs \ todo' /\ todo' \subseteq Upfs
    BY <1>4 DEF Associate
  <2> QED
    BY <1>4, <2>1 DEF Associate
<1>5. CASE AssociateFails
  BY <1>5 DEF AssociateFails
<1>6. CASE StartEnds
  BY <1>6 DEF StartEnds
<1>7. CASE AmfStart
  BY <1>7 DEF AmfStart
<1>8. CASE RunEnds
  BY <1>8 DEF RunEnds
<1>9. CASE WaitAmf
  BY <1>9 DEF WaitAmf
<1>10. CASE WaitSmf
  BY <1>10 DEF WaitSmf
<1> QED
  BY <1>1, <1>2, <1>3, <1>4, <1>5, <1>6, <1>7, <1>8, <1>9, <1>10 DEF MainStep

LEMMA ServerKeeps == ASSUME LifeInv, ServerStep PROVE LifeInv'
<1> USE DEF LifeInv, LifeTypeOK, StartInv, ReadyInv, DrainInv, WaitInv, Starting, EndsInOrder,
            AmfClosed, SmfClosed, amf, Alive
<1>1. CASE ServerReady
  BY <1>1 DEF ServerReady
<1>2. CASE ServerEnds
  BY <1>2 DEF ServerEnds
<1>3. CASE ServerResets
  BY <1>3 DEF ServerResets
<1>4. CASE ServerCloses
  BY <1>4 DEF ServerCloses
<1> QED
  BY <1>1, <1>2, <1>3, <1>4 DEF ServerStep

LEMMA HttpKeeps == ASSUME LifeInv, HttpStep PROVE LifeInv'
<1> USE RequestsAssumption DEF LifeInv, LifeTypeOK, StartInv, ReadyInv, DrainInv, WaitInv, Starting, EndsInOrder,
            AmfClosed, SmfClosed, smf, Alive
<1>1. CASE HttpServe
  BY <1>1 DEF HttpServe
<1>2. CASE HttpFails
  BY <1>2 DEF HttpFails
<1>3. CASE RequestBegins
  BY <1>3 DEF RequestBegins
<1>4. CASE RequestEnds
  BY <1>4 DEF RequestEnds
<1> QED
  BY <1>1, <1>2, <1>3, <1>4 DEF HttpStep

LEMMA StopperKeeps == ASSUME LifeInv, StopperStep \/ DrainExpires PROVE LifeInv'
BY DEF LifeInv, LifeTypeOK, StartInv, ReadyInv, DrainInv, WaitInv, Starting, EndsInOrder, AmfClosed,
       SmfClosed, smf, Alive, StopperStep, StopperShutsDown, StopperCloses, DrainExpires

LEMMA LifeInductive == LifeInv /\ [LifeNext]_lifeVars => LifeInv'
<1> SUFFICES ASSUME LifeInv, [LifeNext]_lifeVars
             PROVE  LifeInv'
  OBVIOUS
<1>1. CASE Signal
  BY <1>1 DEF Signal, LifeInv, LifeTypeOK, StartInv, ReadyInv, DrainInv, WaitInv, Starting,
              EndsInOrder, AmfClosed, SmfClosed, smf, amf, Alive
<1>2. CASE Expire
  BY <1>2 DEF Expire, LifeInv, LifeTypeOK, StartInv, ReadyInv, DrainInv, WaitInv, Starting,
              EndsInOrder, AmfClosed, SmfClosed, smf, amf
<1>3. CASE UNCHANGED lifeVars
  BY <1>3 DEF lifeVars, LifeInv, LifeTypeOK, StartInv, ReadyInv, DrainInv, WaitInv, Starting,
              EndsInOrder, AmfClosed, SmfClosed, smf, amf
<1> QED
  BY <1>1, <1>2, <1>3, MainKeeps, ServerKeeps, HttpKeeps, StopperKeeps DEF LifeNext

LEMMA LifeAlways == LifeSpec => []LifeInv
BY LifeInitially, LifeInductive, PTL DEF LifeSpec

-----------------------------------------------------------------------------
\* The type invariant holds in every state.
THEOREM LifeTypeCorrect == LifeSpec => []LifeTypeOK
<1>1. LifeInv => LifeTypeOK
  BY DEF LifeInv
<1> QED
  BY <1>1, LifeAlways, PTL

\* No request is accepted before every UPF is associated, whatever fails or stops
\* during the start.
THEOREM RequestsFindSmfReady == LifeSpec => []ServingIsReady
<1>1. LifeInv => ServingIsReady
  BY DEF LifeInv, LifeTypeOK, StartInv, ReadyInv, ServingIsReady
<1> QED
  BY <1>1, LifeAlways, PTL

\* A closed AMF accepts no request, and has none left unless 100 ms were over.
THEOREM ClosedAmfIsQuiet == LifeSpec => []AmfClosedIsQuiet
<1>1. LifeInv => AmfClosedIsQuiet
  BY DEF LifeInv, DrainInv, AmfClosedIsQuiet, AmfClosed
<1> QED
  BY <1>1, LifeAlways, PTL

\* Success is reported only after a signal; and the program ends before the second is
\* over only with success, and when both servers have closed.
THEOREM EndIsOrdered == LifeSpec => []EndsInOrder
<1>1. LifeInv => EndsInOrder
  BY DEF LifeInv, WaitInv
<1> QED
  BY <1>1, LifeAlways, PTL
=============================================================================
