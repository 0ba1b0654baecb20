SPECIFICATION Spec
CONSTANTS
  a = a  b = b  d1 = d1  d2 = d2  i1 = i1  i2 = i2
  None = None
  Hashes = {a}
  Content <- OneContent
  Single = {}
  Children <- NoChildren
  Downloads = {d1, d2}
  DownloadOf <- DownloadTwice
  Imports = {i1}
  ImportOf <- ImportA
  Tagged = {a}
  Collects = TRUE
  MaxFaults = 0
INVARIANT CompleteIsWhole
PROPERTY TaggedIsKept
