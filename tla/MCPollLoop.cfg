CONSTANTS
  p1 = p1  p2 = p2
  Peers <- MCPeers
  Readers <- MCReaders
  Limits = {3, 4}
  Room = 1
  MaxAsked = 1
  MaxOutgoing = 1
SPECIFICATION FairSpec
CHECK_DEADLOCK FALSE
INVARIANTS DescriptorsAgree EveryReadyVisited SpareDescriptor EndingsExplained
PROPERTIES OnlyDepartedDropped RequestsServed OutputSent StopHonoured
