----------------------------- MODULE Statement -----------------------------
(***************************************************************************)
(* Running one prepared statement: step(), run(), next_row(), reset(), the *)
(* row iterators, and the table of column indexes.                         *)
(*                                                                         *)
(* The statement object keeps two things that SQLite knows too: completed, *)
(* whether a row is there, and a cache of the column names.  Neither is    *)
(* asked of SQLite again, so both can go stale.  The SQLite side is        *)
(* external: a step goes to the next row, ends, or fails, and a step after *)
(* the end or a failure starts over, compiling the statement again if the  *)
(* schema has changed.                                                     *)
(***************************************************************************)
EXTENDS Integers, Sequences

CONSTANTS Iters,      \* row iterators
          MaxRows,    \* the most rows a result has (a bound for TLC)
          Schemas,    \* the columns the statement can be compiled to
          Names,      \* the column names that are asked for
          None,       \* no iterator target, no cached index
          Beyond      \* uses beyond the documented pattern

\* "rerun":   step() after the end or a failure, without reset()
\* "mixed":   step() or reset() while an iterator is at a row
\* "several": several iterators at the same time
\* "idle":    begin() when the statement has not been run (again)
\* "early":   columns are looked up when no row is there
\* "unknown": columns are looked up that the result does not have
\* "lapsed":  a parameter is used whose buffer the caller has given up
Behaviours == {"rerun", "mixed", "several", "idle", "early", "unknown", "lapsed"}

ASSUME BeyondAssumption == Beyond \subseteq Behaviours
ASSUME SchemasAssumption == Schemas # {} /\ Schemas \subseteq Seq(Names)
ASSUME NoneAssumption == None \notin Nat
ASSUME MaxRowsAssumption == MaxRows \in Nat

VARIABLES vm,         \* of sqlite3_stmt: "ready", "row", "done", "error"
          rows,       \* the number of rows of this execution
          row,        \* the row it is at, from 1
          schema,     \* what the statement would be compiled to now
          cols,       \* what it has been compiled to
          completed,  \* statement::completed
          built,      \* statement::col_index_table_built
          index,      \* statement::col_index_table
          iter        \* the row iterators

stmtVars == <<vm, rows, row, schema, cols, completed>>
cacheVars == <<built, index>>
vars == <<stmtVars, cacheVars, iter>>

\* A row_iterator: `on` unless its statement pointer is null, rowidx, and
\* two values the code does not keep: the row of the result it began at, and
\* whether another execution has been started since.
Iterator == [on : BOOLEAN, rowidx : Nat, first : Nat, stale : BOOLEAN]
MaxRowidx == MaxRows + 1   \* a bound for TLC on rowidx
NoIterator == [on |-> FALSE, rowidx |-> 0, first |-> 0, stale |-> FALSE]

TypeOK ==
  /\ vm \in {"ready", "row", "done", "error"}
  /\ rows \in 0 .. MaxRows /\ row \in 0 .. rows
  /\ schema \in Schemas /\ cols \in Schemas
  /\ completed \in BOOLEAN
  /\ built \in BOOLEAN
  /\ index \in [Names -> Nat \cup {None}]
  /\ iter \in [Iters -> Iterator]

NoIndex == [n \in Names |-> None]

\* statement(): prepared, not yet run, and completed.
Init ==
  /\ vm = "ready" /\ rows = 0 /\ row = 0
  /\ schema \in Schemas /\ cols = schema
  /\ completed = TRUE
  /\ built = FALSE /\ index = NoIndex
  /\ iter = [i \in Iters |-> NoIterator]

On(i) == iter[i].on
NoneOn == \A i \in Iters : ~On(i)

-----------------------------------------------------------------------------
(* sqlite3_step() and the schema, external. *)

SqliteNextRow ==
  /\ vm = "row"
  /\ \/ row < rows /\ vm' = "row" /\ row' = row + 1
     \/ row = rows /\ vm' = "done" /\ row' = 0
     \/ vm' = "error" /\ row' = 0
  /\ UNCHANGED <<rows, cols>>

SqliteStart ==
  /\ vm # "row"
  /\ cols' = schema
  /\ rows' \in 0 .. MaxRows
  /\ \/ rows' > 0 /\ vm' = "row" /\ row' = 1
     \/ rows' = 0 /\ vm' = "done" /\ row' = 0
     \/ vm' = "error" /\ row' = 0

SqliteStep == (SqliteNextRow \/ SqliteStart) /\ UNCHANGED schema

\* Iterators that are still on belong to the execution that was.
Outdated(its) == [i \in Iters |-> [its[i] EXCEPT !.stale = @ \/ (its[i].on /\ vm # "row")]]

-----------------------------------------------------------------------------
(* statement *)

\* Mutant: step() sets `completed` at the end only.
stepKeepsCompleted ==
  /\ SqliteStep
  /\ completed' = (completed \/ vm' = "done")
  /\ UNCHANGED cacheVars

\* step() keeps the outcome in `completed`; an error is thrown before.
step ==
  /\ SqliteStep
  /\ completed' = CASE vm' = "row"   -> FALSE
                    [] vm' = "done"  -> TRUE
                    [] vm' = "error" -> completed
  /\ UNCHANGED cacheVars

\* step(), run(), query() and next_row(), none of which checks anything.
Run ==
  /\ NoneOn \/ "mixed" \in Beyond
  /\ vm \in {"ready", "row"} \/ "rerun" \in Beyond
  /\ step
  /\ iter' = Outdated(iter)

\* Mutant: reset() keeps the cache of columns.
ResetKeepsCache ==
  /\ NoneOn \/ "mixed" \in Beyond
  /\ vm' = "ready" /\ rows' = 0 /\ row' = 0
  /\ UNCHANGED <<schema, cols, completed, iter, cacheVars>>

\* Mutant: reset() marks every name as missing, with -1.
ResetToEnd ==
  /\ NoneOn \/ "mixed" \in Beyond
  /\ vm' = "ready" /\ rows' = 0 /\ row' = 0
  /\ built' = FALSE /\ index' = [n \in Names |-> 0 - 1]
  /\ UNCHANGED <<schema, cols, completed, iter>>

\* reset() clears the cache of columns, and does not touch `completed`.
Reset ==
  /\ NoneOn \/ "mixed" \in Beyond
  /\ vm' = "ready" /\ rows' = 0 /\ row' = 0
  /\ built' = FALSE /\ index' = NoIndex
  /\ UNCHANGED <<schema, cols, completed, iter>>

\* The table of column indexes: of equal names the last one stays.
TableOf(cs) ==
  [n \in Names |->
     LET At == {j \in 1 .. Len(cs) : cs[j] = n}
     IN IF At = {} THEN None ELSE (CHOOSE j \in At : \A k \in At : k <= j) - 1]

\* col_index(): builds the table once, and makes an entry for a name that
\* has none (std::map::operator[]), which is 0.
ColIndex(n) ==
  /\ vm = "row" \/ "early" \in Beyond
  /\ (\E j \in 1 .. Len(cols) : cols[j] = n) \/ "unknown" \in Beyond
  /\ built' = TRUE
  /\ LET known == IF built THEN index ELSE TableOf(cols)
     IN index' = [known EXCEPT ![n] = IF @ = None THEN 0 ELSE @]
  /\ UNCHANGED <<stmtVars, iter>>

\* The schema changes, by this connection or another.
Alter ==
  /\ schema' \in Schemas
  /\ UNCHANGED <<vm, rows, row, cols, completed, cacheVars, iter>>

-----------------------------------------------------------------------------
(* row_iterator *)

\* Mutant: the constructor does not call check_complete().
BeginUnchecked(i) ==
  /\ ~On(i)
  /\ NoneOn \/ "several" \in Beyond
  /\ vm \in {"row", "done"} \/ "idle" \in Beyond
  /\ iter' = [iter EXCEPT ![i] = [on |-> TRUE, rowidx |-> 0,
                                  first |-> row, stale |-> FALSE]]
  /\ UNCHANGED <<stmtVars, cacheVars>>

\* begin(): an iterator, which is at the end at once when `completed`.
Begin(i) ==
  /\ ~On(i)
  /\ NoneOn \/ "several" \in Beyond
  /\ vm \in {"row", "done"} \/ "idle" \in Beyond
  /\ iter' = [iter EXCEPT ![i] = [on |-> ~completed, rowidx |-> 0,
                                  first |-> row, stale |-> FALSE]]
  /\ UNCHANGED <<stmtVars, cacheVars>>

\* Mutant: operator++ does not call check_complete().
IncrementUnchecked(i) ==
  /\ On(i)
  /\ iter[i].rowidx < MaxRowidx
  /\ vm = "row" \/ "rerun" \in Beyond
  /\ step
  /\ iter' = IF vm' = "error" THEN Outdated(iter)
             ELSE [Outdated(iter) EXCEPT ![i].rowidx = @ + 1]

\* Mutant: operator++ takes a step that fails for the end.
IncrementEndsOnError(i) ==
  /\ On(i)
  /\ iter[i].rowidx < MaxRowidx
  /\ vm = "row" \/ "rerun" \in Beyond
  /\ step
  /\ iter' = [Outdated(iter) EXCEPT ![i].on = vm' = "row", ![i].rowidx = @ + 1]

\* Mutant: operator++ does not count the row.
IncrementUncounted(i) ==
  /\ On(i)
  /\ iter[i].rowidx < MaxRowidx
  /\ vm = "row" \/ "rerun" \in Beyond
  /\ step
  /\ iter' = IF vm' = "error" THEN Outdated(iter)
             ELSE [Outdated(iter) EXCEPT ![i].on = ~completed']

\* operator++: a step, and the end is noticed.  When the step throws, the
\* iterator is left as it was.
Increment(i) ==
  /\ On(i)
  /\ iter[i].rowidx < MaxRowidx
  /\ vm = "row" \/ "rerun" \in Beyond
  /\ step
  /\ iter' = IF vm' = "error" THEN Outdated(iter)
             ELSE [Outdated(iter) EXCEPT ![i].on = ~completed',
                                         ![i].rowidx = @ + 1]

\* The loop is left early, by a break or an exception.
Leave(i) ==
  /\ On(i)
  /\ iter' = [iter EXCEPT ![i] = NoIterator]
  /\ UNCHANGED <<stmtVars, cacheVars>>

-----------------------------------------------------------------------------
Next == \/ Run \/ Reset \/ Alter
        \/ \E n \in Names : ColIndex(n)
        \/ \E i \in Iters : Begin(i) \/ Increment(i) \/ Leave(i)

\* A loop goes on, and is left when an exception is thrown.
LoopStep(i) == Increment(i) \/ (vm = "error" /\ Leave(i))

Spec == Init /\ [][Next]_vars

FairSpec == Spec /\ \A i \in Iters : WF_vars(LoopStep(i))

-----------------------------------------------------------------------------
(* What makes it correct. *)

\* completed never hides a row that is there, and done() holds once all
\* rows have been processed, whatever order the functions are called in.
CompletedTruthful == /\ vm = "row" => ~completed
                     /\ vm = "done" => completed

\* An iterator that is not at the end is at a row of the result, and of the
\* execution it began in; only an exception comes between.
IteratorAtRow ==
  \A i \in Iters : On(i) => ~iter[i].stale /\ vm \in {"row", "error"}

\* operator* is the number of the row, counted from where the loop began
\* (test/sqxx_test.cpp:105), so no row is skipped or shown twice.
IteratorNumbersRows ==
  \A i \in Iters : On(i) /\ vm = "row" =>
    row = iter[i].first + iter[i].rowidx

\* A loop that ends without an exception has seen the rest of the result.
LoopSeesAllRows ==
  [][\A i \in Iters : On(i) /\ Increment(i) /\ ~iter'[i].on =>
       iter'[i].first + iter'[i].rowidx = rows + 1]_vars

\* "Return the index of a column with name `name`" (statement.hpp:260): the
\* table only holds indexes of columns that have that name.
ColIndexCorrect ==
  built => \A n \in Names : index[n] # None =>
             index[n] < Len(cols) /\ cols[index[n] + 1] = n

\* A range-based for loop over the rows ends.
LoopEnds == \A i \in Iters : On(i) ~> ~On(i)
=============================================================================
