\* Every handler ends, whatever the configuration of the gNBs.  No symmetry: it is
\* not sound for liveness.
SPECIFICATION AmfFairSpec
CONSTANTS
  p1 = p1
  p2 = p2
  g1 = g1
  g2 = g2
  g3 = g3
  f1 = f1
  f2 = f2
  f3 = f3
  Core = Core
  None = None
  Procs <- MCProcs
  Keys <- MCKeys1
  SliceUpfs <- MCSliceUpfs
  Ifaces <- MCIfaces
  AreasOf <- MCAreasOf3
  Hops <- MCHops
  Paths <- MCPaths
  Teids <- MCTeids
  Draw <- MCDraw
  GnbFteids <- MCGnbFteids
  GnbFteid <- MCGnbFteid3
  MaxCalls = 100
  MaxFaults = 0
  Ops = {"forward", "switch", "indirect", "stop"}
  Kinds = {"direct", "indirect"}
  MaxHandovers = 1
  MaxLost = 0
  Patient = FALSE
CHECK_DEADLOCK FALSE
PROPERTIES Spec HandlersEnd CallsReturn
