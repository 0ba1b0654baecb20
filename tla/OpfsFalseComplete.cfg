SPECIFICATION Spec
CONSTANTS
  a = a  b = b  d1 = d1  d2 = d2  i1 = i1  i2 = i2
  None = None
  Hashes = {a}
  Content <- OneContent
  Single = {}
  Children <- NoChildren
  Downloads = {d1}
  DownloadOf <- DownloadA
  Imports = {}
  ImportOf <- Nothing
  Tagged = {}
  Collects = FALSE
  MaxFaults = 1
INVARIANT CompleteIsWhole
