\* Any three commands, failing calls and killed processes.
CONSTANTS
  p1 = p1  p2 = p2  p3 = p3  dev = dev  prod = prod
  n1 = n1  n2 = n2  a1 = a1  a2 = a2
  Procs = {p1, p2, p3}
  Profiles = {dev, prod}
  Names = {n1, n2}
  Ids = {a1, a2}
  Default = dev
  Requests <- AnyRequest
  Starts <- AnyStart
  Pieces <- SomePieces
  Faults = {"api", "keychain"}
  Crashes = TRUE
  NoProfile = NoProfile  Unreadable = Unreadable  NoProc = NoProc
  NoToken = NoToken  BadToken = BadToken  InactiveToken = InactiveToken
SPECIFICATION Spec
\* Every process runs one command and ends.
CHECK_DEADLOCK FALSE
SYMMETRY ProcSymmetry
INVARIANTS TypeOK CurrentIsKnown StoredWasVerified OneAccountPerProfile OneBecameCurrent AddedIsUsable ListingIsBracketed
