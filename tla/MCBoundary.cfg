\* exec() and callbacks, nested, of a library that is configured and torn down.
SPECIFICATION FairBoundarySpec
CONSTANTS
  LogKinds = {"log"}
  LogObjs = {o1, o2}
  Options = {"pmasz", "spill"}
  Settings = {s1}
  Spill = "spill"
  Pmasz = "pmasz"
  None = None
  LibBeyond <- PlainUse
  Exceptions = {e1, e2}
  SqlError = SqlError
  Hooks = {"commit", "function", "log"}
  MaxDepth = 4
  MaxLeaks = 2
INVARIANTS
  LogLive
  BoundaryTypeOK
  MessagesFreed
PROPERTIES
  ExecTellsCaller
  ThrowEndsExec
  LogImplementsStore
