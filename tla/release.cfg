SPECIFICATION FairSpec
CONSTANTS
  b1 = b1
  b2 = b2
  r1 = r1
  r2 = r2
  again = again
  None = None
  Build = {b1, b2}
  Receipt = {r1, r2, again}
  BuildOf <- BuildOfReceipt
  BundleOf <- OwnBundle
  VersionOf <- OneVersion
  Root = {x1}
  Command = {c1, c2}
  First = r1
  MaxStarts = 3
  MaxFaults = 1
INVARIANTS TypeOK ChannelServed ApprovedIsWhole
PROPERTIES InitNeverRepins PromiseKept UpdateConverges
CHECK_DEADLOCK FALSE
