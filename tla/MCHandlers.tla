----------------------------- MODULE MCHandlers -----------------------------
(***************************************************************************)
(* Small instances of Handlers.                                            *)
(***************************************************************************)
EXTENDS Handlers, TLC

Contract == {}
Anything == Behaviours

Symmetry == Permutations(Conns) \cup Permutations(Stmts) \cup Permutations(Dbs)
              \cup Permutations(Vms) \cup Permutations(Objs)
=============================================================================
