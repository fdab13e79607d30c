\* Applies, rotations and execs, failing calls and killed processes.
CONSTANTS
  p1 = p1  p2 = p2  p3 = p3  p4 = p4
  n1 = n1  n2 = n2
  i1 = i1  i2 = i2  i3 = i3  i4 = i4
  Procs = {p1, p2, p3, p4}
  Names = {n1, n2}
  Ids = {i1, i2, i3, i4}
  SpecLists <- TwoNameLists
  Seeds <- MixedSeeds
  CommandsOf <- NoDeletion
  MaxRetries = 0
  Faults = {"api", "keychain"}
  Crashes = TRUE
  Dashboard = FALSE
  NoProc = NoProc  NoId = NoId  NoName = NoName  NoSecret = NoSecret
SPECIFICATION Spec
\* Every process runs one command and ends.
CHECK_DEADLOCK FALSE
SYMMETRY ProcSymmetry
INVARIANTS ApplyWouldSucceed NoForgottenSecret
