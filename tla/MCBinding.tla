----------------------------- MODULE MCBinding -----------------------------
(***************************************************************************)
(* A small instance of Binding, and with it of Statement.                  *)
(***************************************************************************)
EXTENDS Binding

Contract == {}

\* One column, the same as the second of two, and a name that occurs twice.
SmallSchemas == {<<"a">>, <<"b", "a">>, <<"a", "a">>}
ColumnNames == {"a", "b"}

\* Two parameters with names, and a name that neither has.
SmallParams == {":x", ":y", ":z"}
SmallNumbers == [n \in SmallParams |-> CASE n = ":x" -> 1 [] n = ":y" -> 2 [] n = ":z" -> 0]

SmallTypes == {"const char*"}

\* Nothing, a string with a zero inside, and a byte that is that of no number.
SmallContents == {<<>>, <<1, 0, 2>>, NaN}
=============================================================================
