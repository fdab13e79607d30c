\* Listings in every order, zones that come and go, and every kind of mistake.
CONSTANTS
  dns = dns  cache1 = cache1  i1 = i1  i2 = i2  z1 = z1  z2 = z2
  site = site  near = near  acc = acc  accName = accName
  GroupNames = {dns, cache1}
  GroupIds = {i1, i2}
  ZoneNames = {site, near}
  ZoneIds = {z1, z2}
  AccountNames = {accName}
  AccountIds = {acc}
  NoName = NoName
  Inputs <- AnyInput
  Faults = TRUE
SPECIFICATION Spec
\* The command ends.
CHECK_DEADLOCK FALSE
INVARIANTS TypeOK IndexIsOrderFree GrantsAreAsked ZoneIsStable ValidatorCaughtIt
