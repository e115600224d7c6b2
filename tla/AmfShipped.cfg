\* The shipped configuration (config/config.yaml): one UPF with an interface for each
\* area.  Two handovers of any kind overlap with each other and with the establishment
\* on two goroutines, and one request fails.
SPECIFICATION AmfSpec
CONSTANTS
  p1 = p1
  p2 = p2
  g1 = g1
  g2 = g2
  g3 = g3
  f1 = f1
  f2 = f2
  f3 = f3
  Core = Core
  None = None
  area1 = area1
  area2 = area2
  srgw1 = srgw1
  srgw2 = srgw2
  Procs <- MCProcs
  Keys <- MCKeys1
  SliceUpfs <- MCSliceUpfsShipped
  Ifaces <- MCSIfaces
  AreasOf <- MCSAreasOf
  Hops <- MCSHops
  Paths <- MCSPaths
  Teids <- MCTeids
  Draw <- MCDraw
  GnbFteids <- MCGnbFteids
  GnbFteid <- MCGnbFteid4
  MaxCalls = 100
  MaxFaults = 1
  Ops = {"forward", "switch", "indirect"}
  Kinds = {"direct", "indirect"}
  MaxHandovers = 2
  MaxLost = 0
  Patient = FALSE
SYMMETRY AreaSymmetry
CHECK_DEADLOCK FALSE
INVARIANTS UplinkOffered ForwardOffered RedirectsDownlink RedirectsLastHop
