# Formal model of NextMN-CP Lite

CP-Lite is a minimal 5G control plane. UEs and gNBs talk to its AMF over HTTP; the AMF calls
the SMF; the SMF programs UPFs over PFCP so that the packets of a PDU session flow from the gNB
to the data network (uplink) and back (downlink), also while a UE is handed over between gNBs.

This directory holds TLA+ modules translated from `src/internal`, the TLC runs that check them
on small instances, and TLAPS proofs for every instance. `PROJECT.json` lists components, runs,
the mutation of the code each property detects, the lines each definition stands for, hazards
and theorems.

## Inventory

| Component | State | Operations | What is hard | What makes it correct |
|---|---|---|---|---|
| SMF procedures (`smf/smf.go`) | `started`, the context; per call: path, hop, last F-TEID | uplink path (anchor first), downlink path (UPF-i first), temporary forwarding rule, switch of one FAR, getters and setters | a call is many steps and calls of one UE interleave; every step may fail and nothing is undone | what a session names always leads somewhere; a successful call has installed what it says |
| UPF rules (`smf/upf.go`, `pfcp_rules.go`) | per (UPF, UE address): waiting PDRs and FARs, FAR updates, last ids, PFCP session handle | append a rule, `CreateSession`, `UpdateSession` | queues survive an error; a second `CreateSession` replaces the handle; answers get lost | ids name one rule; what waits is not applied by somebody else's request; rules in use are not disturbed |
| Session store (`smf/sessions.go`) | per PDU session: uplink F-TEID, downlink F-TEID, next downlink F-TEID, FAR id, kind of forwarding | get, add, set | fields also written without the lock; get-then-add | see SMF and AMF |
| TEID pools (`smf/teids_pool.go`) | TEIDs taken per interface, mutex | `Next` (draw until free), `Delete` (no caller yet) | full pool: `Next` draws for ever with the mutex locked | a TEID has one owner; all callers end with the context |
| UE address pool (`smf/ue_ip_pool.go`) | last address | `Next` | two statements without a lock | an address has one owner |
| Areas, slices, interfaces (`smf/area.go`, `slice.go`, `upf_interface.go`) | constant after start | look-ups | a gNB in several areas, UPFs shared by slices | see SMF |
| AMF handlers (`amf/*.go`) | per message: the list of sessions and where the handler is | establishment request and response, handover required, request ack, notify | one goroutine per message, no order between them; messages get lost; a gNB need not answer a request; one session of several fails | uplink works before the target is told; packets are not lost during the move; the downlink follows the UE |
| AMF server, start, shutdown (`amf/amf.go`, `app/setup.go`, `smf.Start`, `main.go`) | `Smf.started`, associations, listener, channels `closed`, contexts, timeouts | start, serve, shut down, wait | four goroutines; a start that fails half-way; a signal or a timeout at any moment; `started` has no lock | requests find a ready SMF; nothing is served after the end; the program ends |
| Configuration, errors, logging | – | – | – | not modelled, or constants |

The gNB's message starts a goroutine in the AMF (`go amf.Handle...`), which calls methods of the
SMF; these share the session store and the rules of the UPFs, each under its own lock, and no
lock is held from one step of a procedure to the next. The UPF answers PFCP requests
synchronously while the lock of the rules is held. The answer to the gNB is a new HTTP request.

`PROJECT.json` lists the hazards at their lines.

## Modules

### `Smf`

The SMF with its UPFs, pools and session store. `Procs` are the goroutines that call it;
`call[p]` is the call goroutine `p` is in: program counter, PDU session, path, hop, the F-TEID
that the next rule forwards to, and at the end the result.

| Variable | Code |
|---|---|
| `started`, `ctxDone` | `Smf.started`; the common context of SMF, UPFs and pools |
| `allocated` | `TEIDsPool.teids` of every interface, as F-TEIDs |
| `lastId`, `created`, `updated`, `handle` | `currentpdrid`/`currentfarid`, `createpdrs`/`createfars`, `updatefars`, `session` of `Pfcprules` |
| `sessions` | `SessionsMap` of every slice |
| `seids`, `installed` | external: PFCP sessions of the UPFs and the rules they apply |

A PDR and its FAR are appended under one lock with equal numbers, so they are one *rule*
`[id, dnn, dir, listen, fwd]`. Each procedure is cut where it releases a lock: `Begin...` (the
checks and the look-ups), `...Queue` (the F-TEID is drawn and the rule appended), `...Push` (the
PFCP request and its answer), `UplinkStore`/`UplinkAdd` (`Get`, then `Add` or
`SetUplinkFteid`). Fields that are accessed without the lock of the sessions have steps of their
own: a downlink set-up writes the session's F-TEID (`BeginDownlink`), reads it back
(`DownlinkRead`), and writes the FAR id after the rule has been appended (`DownlinkFar`); a
switch reads both when it begins. Every early return is a disjunct that ends with result `"err"`.
Drawing and appending are one action although two locks are taken in turn: the TEID in between
belongs to the goroutine alone, and nothing that other goroutines read depends on it.

What a PFCP request does is external and as unkind as the interface allows. It may fail before
or after the UPF has applied it (`CreateSessionErr`, `UpdateSessionErr`); `MaxFaults` bounds
these failures, which are free once the context is done. An update of a FAR that the session
does not have, or two updates of one FAR in a request, are always refused. A rule whose id the
PFCP session already has is not added a second time. `CreateSession` of the PFCP library is
taken to return a nil handle with an error.

### `Amf`

The five handlers over `Smf` (`EXTENDS Smf`). `job[p]` is the handler goroutine `p` runs: the
message, the session of the loop, the list under construction, `inter` (the areas differ) and what
has been read from the session. A handler action is what happens between two calls of the SMF; a
call is a `Begin...` action of `Smf`, its inner steps are `SmfStep`, and the handler goes on when
`call[p]` is idle again. Whatever the code reads before a call and uses after it is kept in `job`. A
request to a gNB is sent with the context of the AMF and without a timeout, so that `Post` leaves
the handler waiting (`Waits`): it ends when the gNB has answered or the request has failed
(`Answered`, external), or with the context (`GiveUp`). A nil dereference sets `panicked`: handlers
are goroutines of their own, so `gin` does not recover them and the process is gone.

UEs and gNBs are external: a UE asks for each of its slices once, a gNB accepts a session of a
UE attached to it, a source gNB starts one handover of a UE at a time, the target acknowledges
and notifies. A lost `handover-request` or `handover-command` ends the handover (`MaxLost`).
`Patient` restricts a source gNB to start a handover when no handler works for the UE.

### `Dispenser`, `TeidsPool`

`Dispenser` is an abstract specification and no code: clients are given values, and a value is
given only while nobody holds it. `TeidsPool` is `TEIDsPool` statement by statement: `NextLock`,
`NextDraw`, `NextTest`, `NextInsert`, `NextReturn`, and `NextGiveUp` when the context is done.
`next[p]` is where goroutine `p` is in `Next` and what it has drawn; `held[p]` is what it has been
given. `TeidsDispensed` says that the pool implements the dispenser, with `held` as the common
variable: drawing, testing and inserting are stutters, the return is `Give`. `Smf` takes `Next` as
one step that returns a TEID nobody has, which is `Give`.

### `Establishment`

What several establishments share inside the SMF, one step per access (`EXTENDS TeidsPool`): the
read and the write of `UeIpPool.current`, the TEID pool, the look-up and the write of the Go map
`Upf.sessions`, the append to the rule set under its lock, and the second look-up in
`CreateSession`. `est[p]` is the establishment of goroutine `p`. A rule set is named after the
goroutine that made it.

An access of a Go map while it is written is undefined: the model lets the process stop
(`MapRace`), the write get lost, or nothing happen. `overlapped` and `raced` are history: the
slices where two calls of `UeIpPool.Next` have overlapped, and whether two goroutines have been
in the map at once.

### `Lifecycle`

From `main` to its end, with the four goroutines `main`, `server` (PFCP), `http` and `stopper`.
`main` goes from the configuration through `Smf.Start` (`StartServer`, `WaitReady`, one
`Associate` per UPF, `StartEnds`) and `Amf.Start` to the wait for the signal, and from there, or
from the first error, to `waitShutdown`. `logrus.Fatal` ends the process on the spot. The channels
`Smf.closed` and `Amf.closed` are closed when `server` and `stopper` are `"gone"`. The timeouts
(100 ms to get ready, 100 ms to drain, one second to end) may come at any time.

`Init` of `Smf` is the state in which `Lifecycle` accepts its first request: `ServingIsReady`.

### Proof modules and values for TLC

The theorems about `Smf` are in `SmfProofs` (types, exclusive tunnels), `SmfRuleProofs` (ids and
pools; extends it) and `SmfForwardProofs` (where rules forward to; extends that one); those about
`Amf` in `AmfProofs` (types and refinement) and `AmfSafetyProofs`; `TeidsPoolProofs`,
`EstablishmentProofs` and `LifecycleProofs` belong to the modules they are named after. `MCSmf`,
`MCAmf`, `MCShipped` and `MCEstablishment` hold the values of the constants for TLC. Definitions
marked *seeded* are plausible bugs of the definition after them; nothing uses them but the mutations
of `PROJECT.json`.

## Runs

| Run | Instance | Shows |
|---|---|---|
| `SmfSetUps` | 3 sessions of 2 slices with overlapping addresses over one path, 2 goroutines, 3 calls, 3 TEIDs; the program may stop, and any request fail from then on | `TypeOK`, `PoolAgrees`, `NoDanglingForward`, `UplinkReachesCore`, `RuleIdUnique`, `QueueDrained`, `TunnelExclusive`, `DownlinkComplete` |
| `SmfHandover` | 1 UE, 2 goroutines, 4 calls of every kind, 2 areas with one anchor | `NoDanglingForward`, `RuleIdUnique` |
| `AmfHandover` | paths of 2 UPFs, 2 goroutines, 2 handovers that overlap with each other and the establishment, 1 lost message | `AmfTypeOK`, `NoPanic`, `ForwardOffered`, `RedirectsForward`, `NoDanglingForward`, `RuleIdUnique`, `SessionKept` |
| `AmfShipped` | the shipped `config/config.yaml` (1 UPF), 2 goroutines, 2 handovers that overlap with each other and the establishment, 1 failed request | `UplinkOffered`, `ForwardOffered`, `RedirectsDownlink`, `RedirectsLastHop` |
| `AmfDirect` | 2 sessions of a UE in 2 slices, 3 direct handovers one after the other, 1 lost message, 1 failed request | `OffersListened`, `DownlinkFollows`, `SwitchMovesPath` |
| `AmfLive` | 1 handover, gNBs in no area, in two areas, without F-TEID; the program and the PFCP server may stop | `HandlersEnd`, `CallsReturn`, and `Spec` |
| `Pools` | 3 establishments, 2 TEIDs, 2 slices with overlapping prefixes, one of them with one free address, and an unknown one | `EstTypeOK`, `AddressesAgree`, `RulePushed`, `TeidsDispensed`, `StopEnds` |
| `Lifecycle` | 2 UPFs, 2 requests at once | `LifeTypeOK`, `ServingIsReady`, `AmfClosedIsQuiet`, `EndsInOrder`, `ProgramEnds` |
| `AmfIndirect`, `AmfStored` | the shipped `config/config.yaml`, 1 or 2 handovers one after the other | the disagreements below |
| `AmfPreserved` | paths of 2 UPFs, 1 goroutine, 3 handovers, 1 failed request | the disagreement below |
| `AmfSwitch` | 2 handovers one after the other | the disagreement below |

The property `Spec` in `AmfLive` is the composition's refinement: whatever the AMF does, the
variables of the SMF change as the module `Smf` allows, so the handlers use only its calls, and
what is proved of `Smf` holds under the AMF. `AmfUsesSmf` proves it for every instance.

**Bounds.** Two goroutines are enough for every race on a pair of steps, and three calls for a
set-up that fails, the one that repeats it and one that interferes. A path of two hops has both
kinds of hop, anchor and intermediate; areas have an anchor each (`MCAmf`), or share one (`MCSmf`),
or share the one UPF of the shipped network; slices share both UPFs of a path. Three handovers bring
a UE to a gNB it has left before, and from there on. `AmfDirect` has one goroutine and is about a
sequence of handovers and the sessions of one UE that share its UPFs, not about overlap, which
`AmfHandover` and `AmfShipped` have. In `SmfSetUps` the pools may hand out any free TEID and get
exhausted; in the other runs the smallest free one is drawn: no TEID is ever given back, so that
which one is drawn makes no difference. `MaxCalls = 100` in the AMF runs is never reached: the
handlers bound the calls. The gNBs of one area differ by their F-TEIDs only, so that exchanging
them, each with its F-TEID, is a symmetry (`GnbSymmetry`); in the shipped network so is exchanging
the two areas with all that is in them (`AreaSymmetry`). Three goroutines are the smallest number
with which the third finds a full pool of two TEIDs, or enters the map while one writes and one is
about to. Deadlock is not checked because the bounds end every behaviour, and a full TEID pool stops
its callers.

**Fairness.** `FairSpec` and `AmfFairSpec` assume weak fairness of the steps of each goroutine: the
Go scheduler runs a goroutine that can go on, a Go mutex is given to each of its waiters in the end,
and a PFCP request ends with an answer or with its last retransmission. Nothing is assumed of
callers, UEs, gNBs or of the stop: a gNB may never answer, and `HandlersEnd` says that a handler
ends, or waits for such a gNB until the context is done, and ends then. In `AmfLive` the pools do
not get full; in `Pools` they do, and a call that draws from a full pool returns only once the
context is done (`StopEnds`). `EstFairSpec` assumes the same of the steps of each establishment.
That weak fairness is enough there needs no fair mutex: once the context is done whoever has the
mutex gives it back, and each goroutine asks for it once more at most. `LifeFairSpec` assumes that
main is scheduled and that its second passes, and nothing of the servers: `ProgramEnds` holds also
when they hang. No run with a liveness property uses symmetry.

## What the runs found

- `AmfIndirect`: for an indirect handover the acknowledgement stores the F-TEID of the target
  "to update the DL path upon reception of Handover Notfify" (`handover_request_ack.go:91`), but
  the notification switches only after direct forwarding and re-creates the path only between
  areas. Inside an area the downlink path still ends at the gNB the UE has left.
- `AmfSwitch`: the FAR id kept for the switch is that of the last hop, the anchor (`smf.go:158`),
  and the switch uses it at UPF-i (`smf.go:430`). It works as long as both UPFs number alike. An
  indirect handover between areas puts one more rule on UPF-i of the target; the direct handover
  that follows redirects the wrong rule and reports success.
- `AmfStored`: "store type of forwarding for later" (`handover_required.go:61`) never stores
  *direct*. After an indirect handover that was given up, a direct one is handled as indirect.
- `AmfPreserved`: while an indirect handover is prepared the "existing DL rule to source gNB is
  preserved until Handover Notify reception" (`handover_request_ack.go:38`). A FAR update whose
  request fails stays in the queue (`upf.go:364`), and the next push at that UPF applies it,
  whoever pushes. So after a switch that failed, and when the UE is back at the gNB it came from,
  the push of the temporary rule redirects the downlink rule away from it.

Seen while modelling, and the reason for what is claimed in which network:

- *Overlapping switches.* If a source gNB does not wait (`Patient = FALSE`) and a switch overlaps
  with the downlink set-up of the establishment or with another handover, it may read the FAR id
  before the set-up has written it, or leave an update in the queue that makes the push of the other
  goroutine fail. TLC finds `DownlinkFollows` and `SwitchMovesPath` violated then, with one UPF
  too; they are checked for handovers one after the other.
- *The wrong FAR id* of `AmfSwitch` can hit an uplink rule, or one inside a downlink path.
  `RedirectsDownlink` says that a FAR update that waits is one of a downlink rule, or of no rule;
  `RedirectsLastHop` that the rule leads to a gNB. With an anchor of its own on the path both are
  violated, in the instance of `AmfDirect` after the failed request and in that of `AmfHandover` when
  handovers overlap, and `UplinkReachesCore` breaks with them, in `AmfHandover` also `UplinkOffered`. Where the
  paths of a slice are one UPF, as in the shipped network, the id is of the UPF it is used at: both
  hold in `AmfShipped` and are proved (below), and so are `UplinkOffered` and `ForwardOffered`.
  `OffersListened` is what remains true of an offered F-TEID on longer paths.
- *A redirected temporary rule.* When handovers overlap, the switch of one may redirect a temporary
  rule that the next one forwards through. `RedirectsForward` says that the rule then leads straight
  to the gNB the packets are forwarded to, so that none is lost. TLC finds no violation in
  `AmfHandover`, where no request fails and each gNB is in one area. In the code nothing but the
  order of the messages and the numbering of the rules excludes one, and TLC finds one when a gNB is
  in two areas.
- *The switch and the session.* `UpdateSessionDownlinkContext` "Updates Session to
  NextDownlinkFteid", says its comment (`smf.go:398`), but it writes nothing into the session: after
  every switch the session names the gNB the UE has left, and a later Handover Command between areas
  reports it. `SwitchPush` models the code; no run is spent on it.
- *One anchor for two areas*, as in the shipped configuration: handovers between areas leave two
  downlink rules with one match at the UPF, as `handover_notify.go:87` says itself. Which one the
  UPF uses is not modelled; the properties ask that a path is installed.
- After an error of the SMF the handler of an establishment panics (`establishment_request.go:51`),
  and so does a notification whose F-TEID was never stored; `NoPanic` says that no order of messages
  does it.

`AddressesAgree` and `RulePushed` of `Pools` hold under a condition, and both conditions are
needed: without them TLC finds the same address given twice as soon as two calls of
`UeIpPool.Next` overlap (or much later, when a slow writer sets `current` back), a rule that is
appended to a rule set nobody sends, and a process stopped by the Go runtime. The AMF starts a
goroutine for each request, so that nothing in the code excludes the overlap.

From `Lifecycle`: `Smf.Start` sets `started` at its end although its server may be gone by then, and
nothing resets it afterwards, so that a stopped SMF stays marked as started; a failed start always
waits the full second, as nobody closes `Amf.closed`. In the shipped configuration the URI of gnb2,
`http://192.0.2.4.8080`, has a dot where the port should be set off by a colon: a gNB at port 8080
of that address is in no area, and its messages are dropped.

## Proofs

All theorems hold for every value of the constants under the named assumptions of the modules:
any number of goroutines, sessions, slices, UPFs, addresses and TEIDs.

**`SmfProofs`**, for any number of calls and failed requests. Assumed: interfaces of different
UPFs have different addresses; a gNB's F-TEID is none of a UPF's; a path belongs to a slice; the
generator returns a TEID of the set it draws from.

- `TypeCorrect`: `Spec => []TypeOK`. `TypeOK` is not inductive: a rule is built from the F-TEID
  in `call[p].last` at the hop `call[p].path[call[p].i]`, so `CallOK` says, per program counter,
  what these hold (`TypeInv`), and `HeldInv` that a downlink call works on a session that exists,
  since it writes the session's FAR id, and that there is an F-TEID to read back.
- `TunnelsAreExclusive`: `Spec => []TunnelExclusive`. The strengthening `ExclInv` adds that every
  F-TEID a rule listens on is taken from its pool. A new rule listens on an F-TEID that was not
  taken, so on none of these (`OwnedAdd`, `ExclAdd`); a push only moves rules from the queue to the
  UPF, keeping their owner (`OwnedPush`, `ExclPush`).

**`SmfRuleProofs`**, under the same assumptions.

- `RuleIdsAreUnique`: ids only grow, so a rule that waits has an id no other rule of the PFCP
  session has, unless it is that rule, sent before and its answer lost (`IdInv`).
- `PoolsAgree`: a taken F-TEID is one that a rule listens on, as drawing and appending are one
  step, a failure keeps the queue, and a push moves rules only (`PoolInv`).

**`SmfForwardProofs`**.

- `NothingDangles`: `FwdInv` says that a rule forwards to nothing, to a gNB, or to an F-TEID that
  a rule of the same UE, slice and direction listens on, *installed* already if the forwarding rule
  is, or waiting at a UPF that comes before in the path of the goroutine; `FwdCall` says it of the
  F-TEID a call keeps in `last`. That needs the order of a procedure: hop `i` is pushed before a
  rule of hop `i + 1` is drawn.
- `UplinkIsListened`: the uplink F-TEID of a stored session is listened on.
- `UplinksReachCore`: `Spec => []UplinkReachesCore` if `OneUpf`: the paths of a slice are one and
  the same UPF, as in the shipped configuration. `Reached(f, R)` is the least set closed under the
  rules of `R`: defined as an intersection it needs no recursion, and it grows with the rules.
  `CoreInv` says that *every* installed uplink rule leads to the core, and a waiting one will when it
  is pushed, as long as `RedirectsDownlink` holds (`UplinksLead`).
- `DownlinksAreComplete`: `Spec => DownlinkComplete` if `OneUpf`. `DlInv` says of a downlink call
  that the hops before are installed and linked (`Built`), and that the rule of this hop is
  installed or waits at its UPF (`Placed`); `FwdBoth` that a rule that waits although it is installed
  leads where the installed one does, as long as `RedirectsLastHop` holds (`DownlinksLead`). A
  redirection may exchange one gNB for another in between, so that the path leads to *a* gNB.
- `OneUpfRedirects` proves both conditions from `OneUpf`. `FarInv`: the FAR id in a session, in a
  call that has read it or is to write it, and in a FAR update that waits, has been given out by
  the UPF of the session, and the rules of that id take the packets of the data network to a gNB
  (`AnchorId`); 0, the id of a session without downlink, is no rule's (`IdsFromOne`). A new rule
  gets an id above all of these, so it is none of them. Without `OneUpf` the conditions do not hold
  (see above), and neither do the theorems.
- `SetUpsLeadThrough`: without switches (`"switch" \notin Ops`, as in `SmfSetUps`) no
  FAR update ever waits, and both hold for paths of any length.

**`AmfProofs`**. `AmfInv` types messages and handlers, and says at each place of a handler which
call of the SMF it waits for. Then a handler's action is a stutter, a `Begin...` or an `End` of
`Smf`, with the arguments that `Smf` expects:

- `AmfUsesSmf`: `AmfSpec => Spec`; `AmfTunnels` transfers exclusive tunnels, unique ids, agreeing
  pools and `NoDanglingForward` to the composition.
- `AmfTypeCorrect`: `AmfSpec => []AmfTypeOK`.

**`AmfSafetyProofs`**.

- `SessionsAreKept`: `AmfSpec => SessionKept`, from `OnceInv` below and the edits of a session that
  each step of the SMF makes (`SessionEdits`).
- `OffersAreListened`: `AmfSpec => []OffersListened`, every uplink F-TEID the AMF tells a gNB is
  listened on by a rule of the session it is told for. `OnceInv`: only one handler ever establishes
  a session, so that the race of `Get` and `Add` in the SMF (two uplink set-ups of a new session)
  does not happen under the AMF, and a session that is stored is never replaced. `OfferInv`:
  sessions that a message or a handler names are stored, and the F-TEIDs they carry are listened on.
- `OffersReachCore`: if `OneUpf` they lead to the core (`UplinkOffered`).
- `NothingPanics`: `AmfSpec => []NoPanic` if the network is `Configured`: every gNB is in an area
  and has an F-TEID, and paths name interfaces that UPFs have. Without that the code does panic (a
  handover to a gNB in no area stores no F-TEID, and the notification dereferences it), so the
  hypothesis is not a convenience; the instance of `AmfHandover`, which checks `NoPanic`, satisfies
  it. `NextInv`: a handover is commanded, and so notified, only for sessions whose
  `NextDownlinkFteid` is stored; nothing ever removes it; a call of the SMF ends with an error
  only after a failed request or the stop (`Trouble`), which `NoPanic` excepts.
- `ForwardsReachTarget`: `AmfSpec => []ForwardOffered` if `OneUpf`. `ForwardsLead` proves it while
  `RedirectsForward` holds, and `OneUpfForwards` that this holds: what is redirected are rules that
  listen on nothing (`FarInv`), and forwarded packets are sent to an F-TEID. `TargetInv`: the
  acknowledgements carry the F-TEID of the target; in every list of a message or a job, and in every
  forwarding call, the F-TEID to forward to *leads* to the target over the installed rules and those
  still *coming*, which wait at the hop where the call is: if its push succeeds none waits any more.
  The F-TEID a call holds before its last hop is covered by the same clause, so that a rule of the
  next hop leads on by `ReachedFurther`. A push keeps what leads somewhere (`LeadsStays`): rules are
  added (`ReachedOn`), and one that is redirected either is not on the way or, by
  `RedirectsForward`, goes to the target at once (`ReachedImage`).

**`TeidsPoolProofs`**: `PoolImplementsDispenser`, `PoolSpec => TeidsDispensed`. The invariant
`PoolInv` says what the mutex protects: who is between lock and unlock has it (`MutexInv`), so that
a TEID tested free is still free when it is inserted, and one that is returned is taken and held by
nobody (`DrawnInv`). With it each step is `Give`, `GiveBack` or a stutter. `TeidsExclusive` follows.

**`EstablishmentProofs`**: `EstablishmentsUsePool` shows that every step of an establishment is a
step of the pool or leaves it alone, so `EstSpec => PoolSpec`, and what is proved of the pool holds
for establishments (`EstablishmentsGetTeids`). `EstTypeCorrect`
uses `PlaceInv`, what the place of an establishment says of its fields.

**`LifecycleProofs`**: `LifeTypeCorrect`, `RequestsFindSmfReady`, `ClosedAmfIsQuiet`,
`EndIsOrdered`. `ServingIsReady` needs `StartInv` (what is done and not yet done at each place of
main) and `ReadyInv` (once the start has ended, `started` is false only if the server has reset
it); `AmfClosedIsQuiet` needs that the server does not serve after the shutdown has begun
(`DrainInv`); `EndsInOrder` that main waits with status 0 only after the signal (`WaitInv`).

Only model-checked: `RedirectsDownlink`, `RedirectsLastHop` and `RedirectsForward` where a path has
more than one UPF, `QueueDrained`, and `DownlinkFollows` and `SwitchMovesPath` of `Amf`: they
compare a whole path with the gNB the UE is at, and hold only for handovers one after the other, or
while no redirection has hit a wrong rule. `AddressesAgree` and `RulePushed` hold until unlocked
accesses meet, which nothing in the code prevents, so that a theorem would say little. Out of the
prover's reach: liveness (`CallsReturn`, `HandlersEnd`, `StopEnds`, `ProgramEnds`).

## Plan

1. Done: `Smf`, `Amf`, `TeidsPool`, `Establishment`, `Lifecycle`, their runs and the proofs above,
   the shipped configuration as an instance.
2. Done: proofs of the rules (`SmfRuleProofs`), of where they forward to (`SmfForwardProofs`), of
   the refinement of `Smf` by `Amf` (`AmfProofs`) and of the handlers (`AmfSafetyProofs`).
3. Done: whole paths, offers and forwarding where the paths of a slice are one UPF (`FarInv`).
4. Left: for handovers one after the other, `SwitchMovesPath` and `DownlinkFollows`, which need an
   invariant that describes the downlink path of each session hop by hop; and `RedirectsForward` on
   longer paths, which needs a bound on how the numbering of two UPFs may diverge.

## Not modelled

Parsing of the configuration and of JSON, logging, PFCP heartbeats and retransmissions below the
request, `Contains`, `IsN3` and `IsN9` (no caller), the `status` route and the `healthcheck`
command (a constant answer, and another process). A PFCP server that fails while the program
runs leaves it running with every call of the SMF refused (`ServerStop`). The PDR id is 16 bits
and wraps after 65535 rules of one UE at one UPF, beyond what a run can hold. The pools of
`Establishment` and the rules of `Smf` are not in one model: `Smf` takes a draw as one step, and the
map of the rules as having an entry for each address, which `Establishment` shows to hold while
unlocked accesses do not meet. Shutting down in the middle of PFCP exchanges is in `Smf` (requests
fail once the context is done), not in `Lifecycle`.
