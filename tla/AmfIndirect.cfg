\* One indirect handover between gNBs of one area, nothing lost and no request that
\* fails.  The F-TEID of the target is stored, and the notification uses it for
\* nothing: the downlink path still ends at the source gNB.
SPECIFICATION AmfSpec
CONSTANTS
  p1 = p1
  p2 = p2
  g1 = g1
  g2 = g2
  g3 = g3
  f1 = f1
  f2 = f2
  f3 = f3
  Core = Core
  None = None
  Procs <- MCProcs
  Keys <- MCKeys1
  SliceUpfs <- MCSliceUpfsShipped
  Ifaces <- MCIfacesShipped
  AreasOf <- MCAreasOf
  Hops <- MCHopsShipped
  Paths <- MCPathsShipped
  Teids <- MCTeids
  Draw <- MCDraw
  GnbFteids <- MCGnbFteids
  GnbFteid <- MCGnbFteid
  MaxCalls = 100
  MaxFaults = 0
  Ops = {"forward", "switch", "indirect"}
  Kinds = {"indirect"}
  MaxHandovers = 1
  MaxLost = 0
  Patient = TRUE
SYMMETRY GnbSymmetry
CHECK_DEADLOCK FALSE
INVARIANTS DownlinkFollows
