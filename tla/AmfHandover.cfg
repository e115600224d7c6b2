\* One UE and two handovers of any kind that overlap with each other and with the
\* establishment; one message is lost.
SPECIFICATION AmfSpec
CONSTANTS
  p1 = p1
  p2 = p2
  g1 = g1
  g2 = g2
  g3 = g3
  f1 = f1
  f2 = f2
  f3 = f3
  Core = Core
  None = None
  Procs <- MCProcs
  Keys <- MCKeys1
  SliceUpfs <- MCSliceUpfs
  Ifaces <- MCIfaces
  AreasOf <- MCAreasOf
  Hops <- MCHops
  Paths <- MCPaths
  Teids <- MCTeids
  Draw <- MCDraw
  GnbFteids <- MCGnbFteids
  GnbFteid <- MCGnbFteid
  MaxCalls = 100
  MaxFaults = 0
  Ops = {"forward", "switch", "indirect"}
  Kinds = {"direct", "indirect"}
  MaxHandovers = 2
  MaxLost = 1
  Patient = FALSE
SYMMETRY GnbSymmetry
CHECK_DEADLOCK FALSE
INVARIANTS AmfTypeOK NoPanic ForwardOffered RedirectsForward
PROPERTIES SessionKept
