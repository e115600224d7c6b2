\* One UE whose handovers interleave.
SPECIFICATION Spec
CONSTANTS
  p1 = p1
  p2 = p2
  t1 = t1
  t2 = t2
  t3 = t3
  t4 = t4
  f1 = f1
  f2 = f2
  Core = Core
  None = None
  Procs <- MCProcs
  Keys <- MCKeys1
  SliceUpfs <- MCSliceUpfs
  Ifaces <- MCIfaces
  AreasOf <- MCAreasOf
  Hops <- MCHops
  Paths <- MCPaths
  Teids <- MCTeidsN
  Draw <- MCDrawFirst
  GnbFteids <- MCGnbFteids
  MaxCalls = 4
  MaxFaults = 0
  Ops = {"forward", "switch", "indirect"}
SYMMETRY SymmetryP
CHECK_DEADLOCK FALSE
INVARIANTS NoDanglingForward RuleIdUnique
