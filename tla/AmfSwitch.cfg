\* An indirect handover to the area of the target, then a direct one inside it: the
\* FAR id kept in the session is the one the anchor gave, and on UPF-i it names the
\* temporary forwarding rule.  g1 is in one area, g2 and g3 in the other.
SPECIFICATION AmfSpec
CONSTANTS
  p1 = p1
  p2 = p2
  g1 = g1
  g2 = g2
  g3 = g3
  f1 = f1
  f2 = f2
  f3 = f3
  Core = Core
  None = None
  Procs <- MCProcs
  Keys <- MCKeys1
  SliceUpfs <- MCSliceUpfs
  Ifaces <- MCIfaces
  AreasOf <- MCAreasOf2
  Hops <- MCHops
  Paths <- MCPaths
  Teids <- MCTeids
  Draw <- MCDraw
  GnbFteids <- MCGnbFteids
  GnbFteid <- MCGnbFteid
  MaxCalls = 100
  MaxFaults = 0
  Ops = {"forward", "switch", "indirect"}
  Kinds = {"direct", "indirect"}
  MaxHandovers = 2
  MaxLost = 0
  Patient = TRUE
SYMMETRY Symmetry
CHECK_DEADLOCK FALSE
PROPERTIES SwitchMovesPath
