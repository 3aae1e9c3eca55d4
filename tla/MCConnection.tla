---------------------------- MODULE MCConnection ----------------------------
(***************************************************************************)
(* A small instance of Connection: two connection objects and two database *)
(* handles, so that one object can leave a zombie behind while the other   *)
(* is open, two statement objects and two statement handles.               *)
(***************************************************************************)
EXTENDS Connection, TLC

Moving == {"move"}

Symmetry == Permutations(Conns) \cup Permutations(Stmts)
              \cup Permutations(Dbs) \cup Permutations(Vms)
=============================================================================
