SPECIFICATION Spec
CONSTANTS
  UsizeMax = 10
  PageSize = 2
  Pages = {1, 2, 3}
  Bytes = {0, 1}
  Requests <- SmallRequests
  Contents <- Zeros
  Layouts <- MixedLayouts
  MaxFailures = 2
INVARIANTS
  TypeOK
  StoresAllowed
  Coherent
  AbortNeedsTwoFailures
PROPERTIES
  OnlyWriteAdded
  WriteIsAtomic
