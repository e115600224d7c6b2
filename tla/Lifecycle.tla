------------------------------ MODULE Lifecycle ------------------------------
(***************************************************************************)
(* From the start of the program to its end: main.go, Setup.Run            *)
(* (app/setup.go), Smf.Start, Amf.Start and what waits for them.           *)
(*                                                                         *)
(* Four goroutines: the one of main, the PFCP server, the HTTP server, and *)
(* the one that shuts the HTTP server down.  They meet at the context of   *)
(* the signal, at Smf.started, which has no lock, and at the channels      *)
(* Amf.closed and Smf.closed.  A timeout may come at any time: nothing is  *)
(* assumed of how long the others take.                                    *)
(*                                                                         *)
(* The PFCP stack, net/http and the requests are external.                 *)
(***************************************************************************)
EXTENDS Naturals

CONSTANTS
  Upfs,        \* the UPFs of the configuration
  MaxRequests  \* bound: HTTP requests in progress

ASSUME RequestsAssumption == MaxRequests \in Nat

VARIABLES
  ctxDone,       \* SIGTERM or SIGINT has been received
  main,          \* where the goroutine of main is
  status,        \* the exit status, as far as it is decided
  todo,          \* UPFs that Smf.Start still has to associate with
  associated,    \* UPFs with an association and a context for their TEID pools
  started,       \* Smf.started
  server,        \* the goroutine of the PFCP server
  http,          \* the HTTP server
  stopper,       \* the goroutine that shuts it down
  requests,      \* HTTP requests in progress
  drainExpired,  \* the 100 ms of http.Server.Shutdown are over
  waitExpired    \* the second that the end may take is over

amf      == <<http, stopper, requests, drainExpired>>
smf      == <<todo, associated, started, server>>
lifeVars == <<ctxDone, main, status, smf, amf, waitExpired>>

LifeTypeOK ==
  /\ ctxDone \in BOOLEAN /\ started \in BOOLEAN
  /\ drainExpired \in BOOLEAN /\ waitExpired \in BOOLEAN
  /\ main \in {"conf", "smfStart", "ready", "associate", "amfStart", "up", "waitAmf", "waitSmf",
               "exit", "dead"}
  /\ status \in {0, 1}
  /\ todo \subseteq Upfs /\ associated = Upfs \ todo
  /\ server \in {"off", "starting", "running", "ended", "closing", "gone"}
  /\ http \in {"off", "listening", "serving", "closed"}
  /\ stopper \in {"off", "waiting", "draining", "gone"}
  /\ requests \in 0..MaxRequests

LifeInit ==
  /\ ctxDone = FALSE /\ main = "conf" /\ status = 0
  /\ todo = Upfs /\ associated = {} /\ started = FALSE /\ server = "off"
  /\ http = "off" /\ stopper = "off" /\ requests = 0
  /\ drainExpired = FALSE /\ waitExpired = FALSE

\* Smf.closed and Amf.closed.
SmfClosed == server = "gone"
AmfClosed == stopper = "gone"

\* The process ends at the end of main, or on the spot by logrus.Fatal.
Alive == main \notin {"exit", "dead"}
Main(from, to) == main = from /\ main' = to
Fatal == main' = "dead" /\ status' = 1
Fail  == main' = "waitAmf" /\ status' = 1          \* Run returns an error, after its defer

-----------------------------------------------------------------------------
(* The goroutine of main.                                                  *)

\* The configuration may be missing or wrong.
ParseConf ==
  /\ main = "conf"
  /\ Fatal \/ (main' = "smfStart" /\ UNCHANGED status)
  /\ UNCHANGED <<ctxDone, smf, amf, waitExpired>>

\* Smf.Start: the PFCP server gets a goroutine ...
StartServer ==
  /\ Main("smfStart", "ready")
  /\ server' = "starting"
  /\ UNCHANGED <<ctxDone, status, todo, associated, started, amf, waitExpired>>

\* ... and 100 ms to get ready; a signal in that time also stops the program.
WaitReady ==
  /\ main = "ready"
  /\ \/ server = "running" /\ main' = "associate" /\ UNCHANGED status
     \/ Fatal
  /\ UNCHANGED <<ctxDone, smf, amf, waitExpired>>

\* One UPF after the other, in any order, up to the first failure.
Associate(u) ==
  /\ main = "associate" /\ u \in todo /\ server = "running"
  /\ todo' = todo \ {u} /\ associated' = associated \union {u}
  /\ UNCHANGED <<ctxDone, main, status, started, server, amf, waitExpired>>

AssociateSkips ==                                \* seeded: a failure is not returned
  /\ main = "associate" /\ todo # {}
  /\ \E u \in todo : todo' = todo \ {u}
  /\ UNCHANGED <<ctxDone, main, status, associated, started, server, amf, waitExpired>>

AssociateFails ==
  /\ main = "associate" /\ todo # {}
  /\ Fail
  /\ UNCHANGED <<ctxDone, smf, amf, waitExpired>>

\* Smf.Start marks the SMF as started, whatever its server does by now.
StartEnds ==
  /\ todo = {} /\ Main("associate", "amfStart")
  /\ started' = TRUE
  /\ UNCHANGED <<ctxDone, status, todo, associated, server, amf, waitExpired>>

\* Amf.Start: it listens, and two goroutines serve and shut down.
AmfStart ==
  /\ main = "amfStart"
  /\ \/ main' = "up" /\ http' = "listening" /\ stopper' = "waiting" /\ UNCHANGED status
     \/ Fail /\ UNCHANGED <<http, stopper>>
  /\ UNCHANGED <<ctxDone, smf, requests, drainExpired, waitExpired>>

RunEnds ==
  /\ ctxDone /\ Main("up", "waitAmf")
  /\ UNCHANGED <<ctxDone, status, smf, amf, waitExpired>>

\* waitShutdown: one second for both, the AMF first.
WaitAmfClosed ==                                 \* seeded: without a timeout
  /\ AmfClosed /\ Main("waitAmf", "waitSmf")
  /\ UNCHANGED <<ctxDone, status, smf, amf, waitExpired>>
WaitAmf ==
  /\ AmfClosed \/ waitExpired
  /\ Main("waitAmf", "waitSmf")
  /\ UNCHANGED <<ctxDone, status, smf, amf, waitExpired>>

WaitSmfNot ==                                    \* seeded: it does not wait for the SMF
  /\ Main("waitSmf", "exit")
  /\ UNCHANGED <<ctxDone, status, smf, amf, waitExpired>>
WaitSmf ==
  /\ SmfClosed \/ waitExpired
  /\ Main("waitSmf", "exit")
  /\ UNCHANGED <<ctxDone, status, smf, amf, waitExpired>>

Expire ==
  /\ main \in {"waitAmf", "waitSmf"} /\ ~waitExpired
  /\ waitExpired' = TRUE
  /\ UNCHANGED <<ctxDone, main, status, smf, amf>>

MainStep ==
  \/ ParseConf \/ StartServer \/ WaitReady \/ (\E u \in Upfs : Associate(u)) \/ AssociateFails
  \/ StartEnds \/ AmfStart \/ RunEnds \/ WaitAmf \/ WaitSmf

-----------------------------------------------------------------------------
(* The goroutine of the PFCP server.                                       *)

ServerReady ==
  /\ Alive /\ server = "starting" /\ server' = "running"
  /\ UNCHANGED <<ctxDone, main, status, todo, associated, started, amf, waitExpired>>

\* ListenAndServeContext returns: the context is done, or an error.
ServerEnds ==
  /\ Alive /\ server \in {"starting", "running"} /\ server' = "ended"
  /\ UNCHANGED <<ctxDone, main, status, todo, associated, started, amf, waitExpired>>

ServerResets ==
  /\ Alive /\ server = "ended" /\ server' = "closing"
  /\ started' = FALSE
  /\ UNCHANGED <<ctxDone, main, status, todo, associated, amf, waitExpired>>

ServerCloses ==
  /\ Alive /\ server = "closing" /\ server' = "gone"
  /\ UNCHANGED <<ctxDone, main, status, todo, associated, started, amf, waitExpired>>

ServerStep == ServerReady \/ ServerEnds \/ ServerResets \/ ServerCloses

-----------------------------------------------------------------------------
(* The HTTP server and the goroutine that shuts it down.                   *)

\* http.Server.Serve refuses to start once Shutdown has been called.
HttpServe ==
  /\ Alive /\ http = "listening"
  /\ http' = IF stopper = "waiting" THEN "serving" ELSE "closed"
  /\ UNCHANGED <<ctxDone, main, status, smf, stopper, requests, drainExpired, waitExpired>>

\* Any other error of Serve is logged and the program goes on.
HttpFails ==
  /\ Alive /\ http = "serving" /\ http' = "closed"
  /\ UNCHANGED <<ctxDone, main, status, smf, stopper, requests, drainExpired, waitExpired>>

StopperKeepsListener ==                          \* seeded: the server is not shut down
  /\ Alive /\ stopper = "waiting" /\ ctxDone /\ stopper' = "draining"
  /\ UNCHANGED <<ctxDone, main, status, smf, http, requests, drainExpired, waitExpired>>

\* http.Server.Shutdown closes the listener that is served ...
StopperShutsDown ==
  /\ Alive /\ stopper = "waiting" /\ ctxDone /\ stopper' = "draining"
  /\ http' = IF http = "serving" THEN "closed" ELSE http
  /\ UNCHANGED <<ctxDone, main, status, smf, requests, drainExpired, waitExpired>>

DrainExpires ==
  /\ Alive /\ stopper = "draining" /\ ~drainExpired /\ drainExpired' = TRUE
  /\ UNCHANGED <<ctxDone, main, status, smf, http, stopper, requests, waitExpired>>

\* ... and waits for the requests in progress, 100 ms at most.
StopperCloses ==
  /\ Alive /\ stopper = "draining" /\ (requests = 0 \/ drainExpired) /\ stopper' = "gone"
  /\ UNCHANGED <<ctxDone, main, status, smf, http, requests, drainExpired, waitExpired>>

StopperStep == StopperShutsDown \/ StopperCloses

RequestBegins ==
  /\ Alive /\ http = "serving" /\ requests < MaxRequests /\ requests' = requests + 1
  /\ UNCHANGED <<ctxDone, main, status, smf, http, stopper, drainExpired, waitExpired>>

RequestEnds ==
  /\ Alive /\ requests > 0 /\ requests' = requests - 1
  /\ UNCHANGED <<ctxDone, main, status, smf, http, stopper, drainExpired, waitExpired>>

HttpStep == HttpServe \/ HttpFails \/ RequestBegins \/ RequestEnds

-----------------------------------------------------------------------------
Signal == Alive /\ ~ctxDone /\ ctxDone' = TRUE
          /\ UNCHANGED <<main, status, smf, amf, waitExpired>>

LifeNext ==
  Signal \/ MainStep \/ Expire \/ ServerStep \/ HttpStep \/ StopperStep \/ DrainExpires

LifeSpec == LifeInit /\ [][LifeNext]_lifeVars

\* The goroutine of main is scheduled, what it waits for ends (a PFCP request with
\* its last retransmission), and time passes.
LifeFairSpec == LifeSpec /\ WF_lifeVars(MainStep) /\ WF_lifeVars(Expire)

-----------------------------------------------------------------------------
\* Requests are accepted only when every UPF is associated and its TEID pools have
\* their context, as Next demands (teids_pool.go:30); and the SMF answers "not
\* started" only because its PFCP server has ended.
ServingIsReady ==
  http = "serving" \/ requests > 0 =>
    associated = Upfs /\ (started \/ server \in {"closing", "gone"})

\* Once Amf.closed is closed no request is accepted any more, although Serve may
\* not have begun when Shutdown is called; and none is in progress, unless the
\* 100 ms were over.
AmfClosedIsQuiet ==
  AmfClosed => http # "serving" /\ (requests = 0 \/ drainExpired)

\* The program ends with status 0 only after a signal, with both servers closed or
\* the second over.  After a start that has failed nobody closes the AMF: the end
\* always takes the full second.
EndsInOrder ==
  main = "exit" =>
    IF status = 0 THEN ctxDone /\ (waitExpired \/ (AmfClosed /\ SmfClosed)) ELSE waitExpired

\* The program ends after a signal, and after a start that has failed.
ProgramEnds == ctxDone \/ main = "waitAmf" ~> ~Alive
=============================================================================
