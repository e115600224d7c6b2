\* Three handovers and one request that fails: the update of a direct handover that
\* failed stays queued, and the next request to that UPF, the one that prepares an
\* indirect handover, sends it.
SPECIFICATION AmfSpec
CONSTANTS
  p1 = p1
  p2 = p2
  g1 = g1
  g2 = g2
  g3 = g3
  f1 = f1
  f2 = f2
  f3 = f3
  Core = Core
  None = None
  Procs <- MCProcs1
  Keys <- MCKeys1
  SliceUpfs <- MCSliceUpfs
  Ifaces <- MCIfaces
  AreasOf <- MCAreasOf4
  Hops <- MCHops
  Paths <- MCPaths
  Teids <- MCTeids
  Draw <- MCDraw
  GnbFteids <- MCGnbFteids
  GnbFteid <- MCGnbFteid4
  MaxCalls = 100
  MaxFaults = 1
  Ops = {"forward", "switch", "indirect"}
  Kinds = {"direct", "indirect"}
  MaxHandovers = 3
  MaxLost = 0
  Patient = FALSE
SYMMETRY Symmetry
CHECK_DEADLOCK FALSE
PROPERTIES PreservedUntilNotify
