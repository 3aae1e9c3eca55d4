\* The life cycle of connections and statements, with moves.
SPECIFICATION FairConnSpec
CONSTANTS
  Conns = {c1, c2}
  Stmts = {s1, s2}
  Dbs = {d1, d2}
  Vms = {v1, v2}
  None = None
  Beyond <- Moving
INVARIANTS
  ConnTypeOK
  NothingLeaks
PROPERTIES
  DelayedClosureFinishes
