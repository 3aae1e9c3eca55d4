----------------------------- MODULE MCBoundary -----------------------------
(***************************************************************************)
(* A small instance of Boundary and Library.                               *)
(***************************************************************************)
EXTENDS Boundary

PlainUse == {}
=============================================================================
