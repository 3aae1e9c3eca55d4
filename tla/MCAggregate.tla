---------------------------- MODULE MCAggregate ----------------------------
(***************************************************************************)
(* A small instance of Aggregate: groups of several rows, and two calls    *)
(* that have states at the same time.                                      *)
(***************************************************************************)
EXTENDS Aggregate
=============================================================================
