------------------------------- MODULE Binding -------------------------------
(***************************************************************************)
(* Binding the parameters of a statement.                                  *)
(*                                                                         *)
(* bind() gives SQLite a value, or a pointer into a buffer of the caller   *)
(* that SQLite may copy.  reset() keeps the bindings and so the pointers.  *)
(* SQLite refuses to bind while the statement is not reset.  A parameter   *)
(* is numbered from 1 by SQLite, indexed from 0 by sqxx, and may have a    *)
(* name; a `parameter` object holds its index.                             *)
(*                                                                         *)
(* The caller is modelled by what it relies on: the value it has bound     *)
(* last, and the buffers it has lent, which it leaves alone until the      *)
(* query is completed (statement.hpp:135-138).                             *)
(***************************************************************************)
EXTENDS Statement, Values

CONSTANTS ParamNames,   \* names that are asked for
          ParamNumber,  \* SQLite's number of each name, 0 if there is none
          ParamCount,
          BindTypes,    \* the types of values that are bound
          Buffers,      \* strings and blobs of the caller
          Contents      \* what the buffers may hold

ASSUME ParamAssumption == /\ ParamCount \in Nat
                          /\ ParamNumber \in [ParamNames -> 0 .. ParamCount]
ASSUME TypesAssumption == BindTypes \subseteq Types
ASSUME BufferAssumption == None \notin Buffers /\ Contents \subseteq Seq(Nat)

Params == 1 .. ParamCount

VARIABLES bound,    \* the SQL value of a parameter and, if it is not
                    \* copied, the buffer it is in
          memory,   \* the contents of the buffers
          expect,   \* the C++ value the caller relies on
          lent      \* the buffer the caller keeps for it, or None

bindVars == <<bound, memory, expect, lent>>
allVars == <<vars, bindVars>>

Bound(s, from) == [value |-> s, from |-> from]

BindInit ==
  /\ Init
  /\ bound = [p \in Params |-> Bound(SqlNull, None)]
  /\ memory \in [Buffers -> Contents]
  /\ expect = [p \in Params |-> Nothing]
  /\ lent = [p \in Params |-> None]

-----------------------------------------------------------------------------
(* sqlite3_bind_*(), external. *)

\* The outcomes for parameter p.
BindCodes(p) == IF vm # "ready" THEN {"misuse"}
                ELSE IF p \notin Params THEN {"range"} ELSE {"ok", "nomem"}

SqliteBind(p, v, from, rv) ==
  bound' = CASE rv = "ok"    -> [bound EXCEPT ![p] = Bound(ToSql(v), from)]
             [] rv = "nomem" -> [bound EXCEPT ![p] = Bound(SqlNull, None)]
             [] OTHER        -> bound

\* The value a query finds in parameter p now.
Sees(p) == IF bound[p].from = None THEN bound[p].value
           ELSE [bound[p].value EXCEPT !.data = memory[bound[p].from]]

-----------------------------------------------------------------------------
(* statement and parameter *)

\* Mutant: a result code is not looked at.
ThrowsNothing(rv) == FALSE

Throws(rv) == rv # "ok"

\* SQLITE_STATIC or SQLITE_TRANSIENT.
Reference(b, copy) == IF copy THEN None ELSE b

\* bind() of a value for the index idx, which is meant for parameter p.  An
\* exception tells the caller that p is not what it wanted, if it is that
\* memory is short; otherwise p is as before.
BindFor(p, idx, v, b, copy) ==
  \E rv \in BindCodes(idx + 1) :
    /\ SqliteBind(idx + 1, v, Reference(b, copy), rv)
    /\ IF p \notin Params THEN UNCHANGED <<expect, lent>>
       ELSE IF Throws(rv)
       THEN /\ expect' = IF rv = "nomem" THEN [expect EXCEPT ![p] = Unknown] ELSE expect
            /\ UNCHANGED lent
       ELSE /\ expect' = [expect EXCEPT ![p] = v]
            /\ lent' = [lent EXCEPT ![p] = IF copy THEN None ELSE b]

\* The values that are in no buffer, and those that are.
Unbuffered == {Nothing} \cup
  {CValue(T, FALSE, <<1>>) : T \in BindTypes \cap Numbers} \cup
  {CValue(T, FALSE, NaN) : T \in BindTypes \cap {"double"}} \cup
  {CValue(T, TRUE, <<>>) : T \in BindTypes \cap {"const char*", "blob"}}
Buffered(b) == {CValue(T, FALSE, memory[b]) : T \in BindTypes \ Numbers}

\* bind() for a parameter, by whatever way it was found.
Bind(p, idx) ==
  /\ \/ \E v \in Unbuffered : BindFor(p, idx, v, None, TRUE)
     \/ \E b \in Buffers, copy \in BOOLEAN :
          \E v \in Buffered(b) : BindFor(p, idx, v, b, copy)
  /\ UNCHANGED <<vars, memory>>

\* param_index(), which throws when there is no such name.
HasParam(n) == ParamNumber[n] # 0
ParamIndex(n) == ParamNumber[n] - 1

\* bind(idx, ...)
BindIndex(idx) == Bind(idx + 1, idx)

\* bind(name, ...), and param(name).bind(...), which keeps the index.
BindName(n) == HasParam(n) /\ Bind(ParamNumber[n], ParamIndex(n))

\* clear_bindings(), at any time.
ClearBindings ==
  /\ bound' = [p \in Params |-> Bound(SqlNull, None)]
  /\ expect' = [p \in Params |-> Nothing]
  /\ lent' = [p \in Params |-> None]
  /\ UNCHANGED <<vars, memory>>

-----------------------------------------------------------------------------
(* The caller. *)

\* A buffer is written to or freed; one that is lent, when the query is
\* completed.  What was bound with it is not to be relied on any more.
Rewrite(b, content) ==
  LET Borrowers == {p \in Params : lent[p] = b} IN
  /\ Borrowers # {} => vm \in {"done", "error"}
  /\ memory' = [memory EXCEPT ![b] = content]
  /\ expect' = [p \in Params |-> IF p \in Borrowers THEN Unknown ELSE expect[p]]
  /\ lent' = [p \in Params |-> IF p \in Borrowers THEN None ELSE lent[p]]
  /\ UNCHANGED <<vars, bound>>

\* A statement is not run with a parameter the caller has given up.
RunBound ==
  /\ vm = "row" \/ "lapsed" \in Beyond \/ \A p \in Params : expect[p] # Unknown
  /\ Run
  /\ UNCHANGED bindVars

ResetBound == Reset /\ UNCHANGED bindVars

BindNext ==
  \/ RunBound \/ ResetBound \/ ClearBindings
  \/ Alter /\ UNCHANGED bindVars
  \/ \E n \in Names : ColIndex(n) /\ UNCHANGED bindVars
  \/ \E i \in Iters : (Begin(i) \/ Increment(i) \/ Leave(i)) /\ UNCHANGED bindVars
  \/ \E idx \in -1 .. ParamCount : BindIndex(idx)
  \/ \E n \in ParamNames : BindName(n)
  \/ \E b \in Buffers, content \in Contents : Rewrite(b, content)

BindSpec == BindInit /\ [][BindNext]_allVars

FairBindSpec ==
  BindSpec /\ \A i \in Iters : WF_allVars(LoopStep(i) /\ UNCHANGED bindVars)

-----------------------------------------------------------------------------
(* What makes it correct. *)

\* A running query sees each parameter as the caller has bound it last,
\* whichever bind() was refused meanwhile, and whatever happens to buffers
\* that are not lent; and there is no parameter that the caller cannot tell.
QuerySeesBound ==
  vm = "row" => \A p \in Params : expect[p] # Unknown /\ Means(expect[p], Sees(p))

\* "Parameters values of types ... are supported" (statement.hpp:114-115): a
\* value of each type means the same when it is bound and read back, and when
\* a C++ function is given it and returns it.  A double that is not a number
\* is the exception: it is bound as NULL, and a function that is given NULL
\* and returns its argument returns 0.0.
ValuesSurvive ==
  \A T \in Types, b \in Buffers :
    LET Survives(v) == Means(v, ToSql(v)) /\ Means(v, Returned(T, ToSql(v)))
        content == CValue(T, FALSE, memory[b])
    IN
    /\ IF IsNaN(content)
       THEN ToSql(content) = SqlNull /\ Returned(T, SqlNull) = SqlValue("number", Zero)
       ELSE Survives(content)
    /\ T = "const char*" => Survives(CValue(T, TRUE, <<>>))
    /\ T = "blob" => Survives(CValue(T, TRUE, [i \in 1 .. Len(memory[b]) |-> 0]))
=============================================================================
