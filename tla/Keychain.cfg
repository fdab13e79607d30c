\* Execs among Gets, Sets, Deletes and Lists of three secrets; one process
\* uses the any-app option; anything may fail.
CONSTANTS
  c1 = c1  c2 = c2  c3 = c3  v1 = v1  v2 = v2  x = x  d = d
  Clients = {c1, c2, c3}
  Values = {v1, v2}
  Missing = Missing
  Slash = Slash
  Symbols = {x, d, Slash}
  Default <- DefaultProfile
  Keys <- SomeKeys
  Asks <- SomeAsks
  AnyApp = {c3}
  Faults = TRUE
  Crashes = FALSE
  EnvName = "CLOUDFLARE_API_TOKEN"
  Environment <- AnEnvironment
  Commands <- SomeCommands
  Invocations <- SomeInvocations
  NoCommand = NoCommand
SPECIFICATION ExecSpec
\* Every process makes one call.
CHECK_DEADLOCK FALSE
INVARIANTS TypeOK ChildHasItsToken
PROPERTY StoreIsAMap
