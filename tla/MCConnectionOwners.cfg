\* A moved statement: two objects hold one handle.
SPECIFICATION ConnSpec
CONSTANTS
  Conns = {c1, c2}
  Stmts = {s1, s2}
  Dbs = {d1, d2}
  Vms = {v1, v2}
  None = None
  Beyond <- Moving
SYMMETRY Symmetry
INVARIANTS
  StatementOwned
