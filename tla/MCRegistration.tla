--------------------------- MODULE MCRegistration ---------------------------
(***************************************************************************)
(* A small instance of Registration: two databases of one connection       *)
(* object, so that a zombie and an open database exist side by side.       *)
(***************************************************************************)
EXTENDS Registration, TLC

Contract == {}

Symmetry == Permutations(Stmts) \cup Permutations(Dbs) \cup Permutations(Vms)
              \cup Permutations(Callables)
=============================================================================
