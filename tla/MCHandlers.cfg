\* Handlers of two connections, used within the contract.
SPECIFICATION Spec
CONSTANTS
  Conns = {c1, c2}
  Stmts = {s1, s2}
  Dbs = {d1, d2}
  Vms = {v1, v2}
  None = None
  Builtin = Builtin
  Objs = {o1, o2, o3}
  Kinds = {"wal", "collation"}
  Beyond <- Contract
SYMMETRY Symmetry
INVARIANTS
  TypeOK
  HandleOwned
  StatementOwned
  StatementDb
  HookLive
  HandlersOwned
  CollationConnection
PROPERTIES
  ImplementsStore
