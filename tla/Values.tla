------------------------------- MODULE Values -------------------------------
(***************************************************************************)
(* How a C++ value becomes an SQL value and is read back.                  *)
(*                                                                         *)
(* bind(), for parameters, and context::result(), for the results of C++   *)
(* functions, choose a C function by the type of the value; val(), for     *)
(* columns, and value::val(), for the arguments of C++ functions, choose   *)
(* one by the type asked for.  Contents are sequences of bytes, those of   *)
(* numbers opaque but for two: zero, which stands for NULL where a number  *)
(* is asked for, and the double that is not a number, for which SQLite     *)
(* puts NULL.                                                              *)
(***************************************************************************)
EXTENDS Naturals, Sequences

Numbers == {"int", "int64_t", "double"}
Types == Numbers \cup {"const char*", "std::string", "blob"}

Zero == <<0>>
NaN == <<255>>

\* A C++ value: its type, whether its pointer is null, and its content.  A
\* blob without data has a length, and stands for that many zeroes.  The
\* type "nothing" is bind() or result() without a value, and "unknown" is a
\* value the caller cannot tell.
CValue(type, null, data) == [type |-> type, null |-> null, data |-> data]
Nothing == CValue("nothing", TRUE, <<>>)
Unknown == CValue("unknown", TRUE, <<>>)
CValues == [type : Types \cup {"nothing", "unknown"}, null : BOOLEAN, data : Seq(Nat)]

SqlValue(kind, data) == [kind |-> kind, data |-> data]
SqlNull == SqlValue("null", <<>>)
SqlValues == [kind : {"null", "number", "text", "blob"}, data : Seq(Nat)]

\* strlen(): a `const char*` ends before its first zero.
UpToZero(s) == LET Zeroes == {i \in 1 .. Len(s) : s[i] = 0}
               IN SubSeq(s, 1, IF Zeroes = {} THEN Len(s)
                               ELSE (CHOOSE i \in Zeroes : \A j \in Zeroes : i <= j) - 1)

TextOf(s) == SqlValue("text", s)
ZeroBlob(length) == SqlValue("blob", [i \in 1 .. length |-> 0])

\* sqlite3_bind_double() and sqlite3_result_double(), and the functions for
\* integers.
IsNaN(v) == v.type = "double" /\ v.data = NaN
NumberOf(v) == IF IsNaN(v) THEN SqlNull ELSE SqlValue("number", v.data)

\* The specializations of bind(): a null `const char*` gives NULL and a null
\* blob gives zeroes.
ToSql(v) ==
  CASE v.type = "nothing"     -> SqlNull
    [] v.type \in Numbers     -> NumberOf(v)
    [] v.type = "const char*" -> IF v.null THEN SqlNull ELSE TextOf(UpToZero(v.data))
    [] v.type = "std::string" -> TextOf(v.data)
    [] v.type = "blob"        -> IF v.null THEN ZeroBlob(Len(v.data))
                                 ELSE SqlValue("blob", v.data)

\* sqlite3_column_double() and sqlite3_value_double(), and so on.
FromNumber(s) == IF s.kind = "null" THEN Zero ELSE s.data

\* The specializations of statement::val(), for an SQL value of that type or
\* NULL.  The C functions give a null pointer for NULL and for an empty blob,
\* of which the code makes an empty string or blob.
FromSql(T, s) ==
  CASE T \in Numbers     -> CValue(T, FALSE, FromNumber(s))
    [] T = "const char*" -> CValue(T, s.kind = "null", UpToZero(s.data))
    [] T = "std::string" -> CValue(T, FALSE, s.data)
    [] T = "blob"        -> CValue(T, s.data = <<>>, s.data)

\* The specializations of value::val(), for the argument of a C++ function.
Argument(T, s) ==
  CASE T \in Numbers     -> CValue(T, FALSE, FromNumber(s))
    [] T = "const char*" -> CValue(T, s.kind = "null", UpToZero(s.data))
    [] T = "std::string" -> CValue(T, FALSE, s.data)
    [] T = "blob"        -> CValue(T, s.data = <<>>, s.data)

\* Mutant: a blob is returned without a look at its pointer.
ResultUnchecked(v) == IF v.type = "blob" /\ v.null THEN SqlNull ELSE ToSql(v)

\* The specializations of context::result(), for what a C++ function returns.
Result(v) ==
  CASE v.type = "nothing"     -> SqlNull
    [] v.type \in Numbers     -> NumberOf(v)
    [] v.type = "const char*" -> IF v.null THEN SqlNull ELSE TextOf(UpToZero(v.data))
    [] v.type = "std::string" -> TextOf(v.data)
    [] v.type = "blob"        -> IF v.null THEN ZeroBlob(Len(v.data))
                                 ELSE SqlValue("blob", v.data)

\* What SQLite gets from a C++ function that returns its argument.
Returned(T, s) == Result(Argument(T, s))

\* The SQL value s is what a caller means by the C++ value v.  There are no
\* NaN in SQL, NULL stands for them.
Means(v, s) ==
  CASE v.type = "nothing" \/ IsNaN(v) -> s.kind = "null"
    [] v.type = "const char*"         -> /\ FromSql(v.type, s).null = v.null
                                         /\ FromSql(v.type, s).data = UpToZero(v.data)
    [] OTHER                          -> /\ s.kind # "null"
                                         /\ FromSql(v.type, s).data = v.data
=============================================================================
