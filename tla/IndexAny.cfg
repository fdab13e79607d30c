\* Two writers and a reader, everything that can go wrong.
CONSTANTS
  w1 = w1  w2 = w2  r1 = r1
  dev = dev  prod = prod  n1 = n1  i1 = i1  i2 = i2
  Writers = {w1, w2}
  Readers = {r1}
  Profiles = {dev, prod}
  Names = {n1}
  Ids = {i1, i2}
  Default = dev
  Files0 <- AllForms
  Faults = TRUE
  Crashes = TRUE
  NoProfile = NoProfile  Unreadable = Unreadable  NoWriter = NoWriter  NoFile = NoFile
SPECIFICATION Spec
\* Every call ends.
CHECK_DEADLOCK FALSE
INVARIANTS TypeOK LoadInventsNothing
PROPERTIES WithLockIsAtomic UnreadableIsKept
