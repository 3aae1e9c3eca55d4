\* Everything beyond the contract at once: each handler keeps one owner.
SPECIFICATION Spec
CONSTANTS
  Conns = {c1, c2}
  Stmts = {s1, s2}
  Dbs = {d1, d2}
  Vms = {v1}
  None = None
  Builtin = Builtin
  Objs = {o1, o2}
  Kinds = {"wal"}
  Beyond <- Anything
SYMMETRY Symmetry
INVARIANTS
  HandlersOwned
