\* One UE with sessions in two slices and three direct handovers, inside an area and
\* between areas, one after the other; one message is lost and one request fails.
SPECIFICATION AmfSpec
CONSTANTS
  p1 = p1
  p2 = p2
  g1 = g1
  g2 = g2
  g3 = g3
  f1 = f1
  f2 = f2
  f3 = f3
  Core = Core
  None = None
  Procs <- MCProcs1
  Keys <- MCKeys2
  SliceUpfs <- MCSliceUpfs2
  Ifaces <- MCIfaces
  AreasOf <- MCAreasOf
  Hops <- MCHops
  Paths <- MCPaths2
  Teids <- MCTeids
  Draw <- MCDraw
  GnbFteids <- MCGnbFteids
  GnbFteid <- MCGnbFteid
  MaxCalls = 100
  MaxFaults = 1
  Ops = {"forward", "switch", "indirect"}
  Kinds = {"direct"}
  MaxHandovers = 3
  MaxLost = 1
  Patient = TRUE
SYMMETRY GnbSymmetry
CHECK_DEADLOCK FALSE
INVARIANTS OffersListened DownlinkFollows
PROPERTIES SwitchMovesPath
