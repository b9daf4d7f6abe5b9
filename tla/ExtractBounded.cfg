\* A free child against the limits on bytes and time.
SPECIFICATION FairSpec
CONSTANTS
  MaxInputBytes = 2
  MaxTextBytes = 4
  ReadSize = 2
  PipeCapacity = 3
  Timeout = 3
  Grace = 1
  MaxDelay = 2
  LeaseMargin = 4
  LeaseFloor = 2
  Prints <- MCPrints
INVARIANTS TypeOK AcceptedTextIsWhole RefusalIsJustified NothingIsLeftBehind LeaseOutlastsExtraction
PROPERTIES EveryExtractionEnds
