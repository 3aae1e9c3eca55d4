\* Functions and collations of one connection object with two statements.
SPECIFICATION Spec
CONSTANTS
  Conns = {c1}
  Stmts = {s1, s2}
  Dbs = {d1, d2}
  Vms = {v1, v2}
  None = None
  Static = Static
  Callables = {o1, o2, o3}
  Functions = {"f"}
  Collations = {"c"}
  Beyond <- Contract
SYMMETRY Symmetry
INVARIANTS
  TypeOK
  CopyForLifetime
  CalledLive
PROPERTIES
  ImplementsStore
