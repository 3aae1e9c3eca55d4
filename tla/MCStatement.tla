---------------------------- MODULE MCStatement ----------------------------
(***************************************************************************)
(* A small instance of Statement, used beyond the documented pattern.      *)
(***************************************************************************)
EXTENDS Statement

EarlyLookup == {"early"}

\* One column, two columns in both orders, and a name that occurs twice.
SmallSchemas == {<<"a">>, <<"a", "b">>, <<"b", "a">>, <<"a", "a">>}
ColumnNames == {"a", "b"}
=============================================================================
