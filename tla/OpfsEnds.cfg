SPECIFICATION FairSpec
CONSTANTS
  a = a  b = b  d1 = d1  d2 = d2  i1 = i1  i2 = i2
  None = None
  Hashes = {a, b}
  Content <- TwoContent
  Single = {b}
  Children <- ListingChildren
  Downloads = {d1, d2}
  DownloadOf <- DownloadBoth
  Imports = {i1}
  ImportOf <- ImportA
  Tagged = {}
  Collects = TRUE
  MaxFaults = 1
INVARIANT TypeOK
INVARIANT ReadersFind
INVARIANT FaultsSpoilOne
PROPERTY DownloadsEnd
PROPERTY SealedStays
