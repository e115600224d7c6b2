\* Three sessions: two UEs of a slice, and one of another slice with the same address.
\* The program may stop in the middle: from then on any request may fail.
SPECIFICATION Spec
CONSTANTS
  p1 = p1
  p2 = p2
  t1 = t1
  t2 = t2
  t3 = t3
  t4 = t4
  f1 = f1
  f2 = f2
  Core = Core
  None = None
  Procs <- MCProcs
  Keys <- MCKeys
  SliceUpfs <- MCSliceUpfs2
  Ifaces <- MCIfaces
  AreasOf <- MCAreasOf2
  Hops <- MCHops
  Paths <- MCPaths2
  Teids <- MCTeids
  Draw <- MCDraw
  GnbFteids <- MCGnbFteids
  MaxCalls = 3
  MaxFaults = 0
  Ops = {"stop"}
SYMMETRY Symmetry
CHECK_DEADLOCK FALSE
INVARIANTS TypeOK PoolAgrees NoDanglingForward UplinkReachesCore RuleIdUnique QueueDrained TunnelExclusive
PROPERTY DownlinkComplete
