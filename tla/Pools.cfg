\* Three establishments at once; two TEIDs, so that the third one draws for ever
\* until the program is told to stop.
SPECIFICATION EstFairSpec
CONSTANTS
  p1 = p1
  p2 = p2
  p3 = p3
  None = None
  Procs <- MCProcs
  Uint32 <- MCUint32
  Dnns = {"net", "ims", "typo"}
  Slices = {"net", "ims"}
  PoolAddr <- MCPoolAddr
  Prefix <- MCPrefix
CHECK_DEADLOCK FALSE
INVARIANTS EstTypeOK AddressesAgree RulePushed
PROPERTIES TeidsDispensed StopEnds
