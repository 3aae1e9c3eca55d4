-------------------------- MODULE StatementProofs --------------------------
(***************************************************************************)
(* Proofs about Statement, for all numbers of rows, columns and iterators, *)
(* and about Binding, for all parameters, buffers and contents.            *)
(***************************************************************************)
EXTENDS Binding, SequenceTheorems, WellFoundedInduction, TLAPS

\* The documented pattern: one loop at a time over a statement that is at a
\* row or at its end, reset before it is run again.
Looped == Beyond \cap {"rerun", "mixed", "several", "idle"} = {}

\* The statement is reset before it is run again, and the columns that are
\* looked up are those of the row.
LookedUp == Beyond \cap {"rerun", "early", "unknown"} = {}

USE BeyondAssumption, SchemasAssumption, MaxRowsAssumption

\* The types that the other invariants need.
RunTypes == /\ vm \in {"ready", "row", "done", "error"}
            /\ rows \in 0 .. MaxRows /\ row \in 0 .. rows
            /\ completed \in BOOLEAN
            /\ iter \in [Iters -> Iterator]

\* One step of SQLite: to a row, to the end, or to an error.
LEMMA Stepping ==
  ASSUME RunTypes, SqliteStep
  PROVE  /\ vm' \in {"row", "done", "error"}
         /\ rows' \in 0 .. MaxRows /\ row' \in 0 .. rows'
         /\ vm = "row" =>
              /\ rows' = rows
              /\ vm' = "row" => row' = row + 1
              /\ vm' = "done" => row = rows
BY DEF RunTypes, SqliteStep, SqliteNextRow, SqliteStart

\* step() keeps the outcome.
LEMMA StepOutcome ==
  ASSUME RunTypes, step
  PROVE  /\ SqliteStep /\ UNCHANGED cacheVars
         /\ completed' \in BOOLEAN
         /\ vm' = "row" => completed' = FALSE
         /\ vm' = "done" => completed' = TRUE
BY Stepping DEF step, RunTypes

LEMMA OutdatedIterators ==
  ASSUME RunTypes
  PROVE  /\ Outdated(iter) \in [Iters -> Iterator]
         /\ \A i \in Iters :
              /\ Outdated(iter)[i].on = iter[i].on
              /\ Outdated(iter)[i].rowidx = iter[i].rowidx
              /\ Outdated(iter)[i].first = iter[i].first
              /\ vm = "row" => Outdated(iter)[i].stale = iter[i].stale
BY DEF RunTypes, Outdated, Iterator

LEMMA IncrementTypes ==
  ASSUME RunTypes, NEW i \in Iters, Increment(i)
  PROVE  iter' \in [Iters -> Iterator]
<1>1. CASE vm' = "error"
  BY <1>1, OutdatedIterators DEF Increment
<1>2. CASE vm' # "error"
  <2>1. completed' \in BOOLEAN
    BY StepOutcome DEF Increment
  <2> DEFINE o == Outdated(iter)
  <2>2. o \in [Iters -> Iterator] /\ iter' = [o EXCEPT ![i].on = ~completed', ![i].rowidx = @ + 1]
    BY <1>2, OutdatedIterators DEF Increment
  <2>3. [o[i] EXCEPT !.on = ~completed', !.rowidx = @ + 1] \in Iterator
    BY <2>1, <2>2 DEF Iterator
  <2> HIDE DEF o
  <2> QED
    BY <2>2, <2>3 DEF Iterator
<1> QED
  BY <1>1, <1>2

LEMMA TypesStep == ASSUME RunTypes, [Next]_vars PROVE RunTypes'
<1>1. ASSUME Run  PROVE RunTypes'
  <2>1. step /\ iter' = Outdated(iter)
    BY <1>1 DEF Run
  <2> QED
    BY <2>1, StepOutcome, Stepping, OutdatedIterators DEF RunTypes
<1>2. ASSUME Reset \/ Alter \/ \E n \in Names : ColIndex(n)  PROVE RunTypes'
  <2>1. CASE Reset
    BY <2>1 DEF Reset, RunTypes
  <2>2. CASE Alter
    BY <2>2 DEF Alter, RunTypes
  <2>3. CASE \E n \in Names : ColIndex(n)
    <3>1. UNCHANGED <<stmtVars, iter>>
      BY <2>3 DEF ColIndex
    <3> QED
      BY <3>1 DEF RunTypes, stmtVars
  <2> QED
    BY <1>2, <2>1, <2>2, <2>3
<1>3. ASSUME NEW i \in Iters, Begin(i) \/ Leave(i)  PROVE RunTypes'
  <2>1. UNCHANGED stmtVars
    BY <1>3 DEF Begin, Leave
  <2>2. PICK it \in Iterator : iter' = [iter EXCEPT ![i] = it]
    <3>1. CASE Begin(i)
      <4>1. /\ [on |-> ~completed, rowidx |-> 0, first |-> row, stale |-> FALSE] \in Iterator
        BY DEF RunTypes, Iterator
      <4> QED
        BY <3>1, <4>1 DEF Begin
    <3>2. CASE Leave(i)
      BY <3>2 DEF Leave, NoIterator, Iterator
    <3> QED
      BY <1>3, <3>1, <3>2
  <2>3. iter' \in [Iters -> Iterator]
    BY <2>2 DEF RunTypes
  <2> QED
    BY <2>1, <2>3 DEF RunTypes, stmtVars
<1>4. ASSUME NEW i \in Iters, Increment(i)  PROVE RunTypes'
  <2>1. step
    BY <1>4 DEF Increment
  <2> QED
    BY <1>4, <2>1, StepOutcome, Stepping, IncrementTypes DEF RunTypes
<1>5. CASE UNCHANGED vars
  BY <1>5 DEF vars, stmtVars, RunTypes
<1> QED
  BY <1>1, <1>2, <1>3, <1>4, <1>5 DEF Next

LEMMA InitTypes == Init => RunTypes
BY DEF Init, RunTypes, Iterator, NoIterator

LEMMA TruthfulStep ==
  ASSUME RunTypes, CompletedTruthful, [Next]_vars
  PROVE  CompletedTruthful'
<1>1. ASSUME step  PROVE CompletedTruthful'
  BY <1>1, StepOutcome DEF CompletedTruthful
<1>2. ASSUME Run \/ \E i \in Iters : Increment(i)  PROVE step
  BY <1>2 DEF Run, Increment
<1>3. ASSUME \/ Reset \/ Alter \/ \E n \in Names : ColIndex(n)
             \/ \E i \in Iters : Begin(i) \/ Leave(i)
             \/ UNCHANGED vars
      PROVE  CompletedTruthful'
  BY <1>3 DEF Reset, Alter, ColIndex, Begin, Leave, vars, stmtVars, CompletedTruthful
<1> QED
  BY <1>1, <1>2, <1>3 DEF Next

\* done() and the iterators may rely on `completed` in every order of calls: it
\* never hides a row that is there, and it holds after the last row.
THEOREM CompletedIsTruthful == Spec => []CompletedTruthful
<1>1. Init => RunTypes /\ CompletedTruthful
  BY InitTypes DEF Init, CompletedTruthful
<1>2. RunTypes /\ CompletedTruthful /\ [Next]_vars => RunTypes' /\ CompletedTruthful'
  BY TypesStep, TruthfulStep
<1> QED
  BY <1>1, <1>2, PTL DEF Spec

-----------------------------------------------------------------------------
(* The row iterators, used as documented. *)

\* One loop at a time.
OneLoop == \A i, j \in Iters : On(i) /\ On(j) => i = j

LoopInv == /\ RunTypes
           /\ CompletedTruthful
           /\ OneLoop
           /\ IteratorAtRow
           /\ IteratorNumbersRows

\* What operator++ does to the iterator it is called on, and to the others.
LEMMA IncrementEffect ==
  ASSUME LoopInv, Looped, NEW i \in Iters, Increment(i)
  PROVE  /\ vm = "row" /\ step
         /\ \A j \in Iters : j # i => ~iter[j].on /\ ~iter'[j].on
         /\ iter'[i].first = iter[i].first
         /\ iter'[i].stale = iter[i].stale
         /\ vm' # "error" => /\ iter'[i].on = ~completed'
                             /\ iter'[i].rowidx = iter[i].rowidx + 1
         /\ vm' = "error" => iter'[i].on /\ iter'[i].rowidx = iter[i].rowidx
<1>1. vm = "row" /\ step /\ On(i)
  BY DEF Increment, Looped
<1> DEFINE o == Outdated(iter)
<1>2. o \in [Iters -> Iterator]
  BY OutdatedIterators DEF LoopInv
<1>3. \A j \in Iters : /\ o[j].on = iter[j].on /\ o[j].rowidx = iter[j].rowidx
                       /\ o[j].first = iter[j].first /\ o[j].stale = iter[j].stale
  BY <1>1, OutdatedIterators DEF LoopInv
<1>4. \A j \in Iters : j # i => ~iter[j].on
  BY <1>1 DEF LoopInv, OneLoop, On
<1>5. CASE vm' = "error"
  <2>1. iter' = o
    BY <1>5 DEF Increment
  <2> HIDE DEF o
  <2> QED
    BY <1>1, <1>3, <1>4, <1>5, <2>1 DEF On
<1>6. CASE vm' # "error"
  <2>1. iter' = [o EXCEPT ![i].on = ~completed', ![i].rowidx = @ + 1]
    BY <1>6 DEF Increment
  <2> HIDE DEF o
  <2>2. \A j \in Iters : j # i => iter'[j] = o[j]
    BY <1>2, <2>1
  <2>3. iter'[i] = [o[i] EXCEPT !.on = ~completed', !.rowidx = @ + 1] /\ o[i] \in Iterator
    BY <1>2, <2>1
  <2>4. /\ iter'[i].on = ~completed' /\ iter'[i].rowidx = o[i].rowidx + 1
        /\ iter'[i].first = o[i].first /\ iter'[i].stale = o[i].stale
    BY <2>3 DEF Iterator
  <2> QED
    BY <1>1, <1>3, <1>4, <1>6, <2>2, <2>4
<1> QED
  BY <1>5, <1>6

LEMMA IncrementLoop ==
  ASSUME LoopInv, Looped, NEW i \in Iters, Increment(i)
  PROVE  /\ OneLoop' /\ IteratorAtRow' /\ IteratorNumbersRows'
         /\ ~iter'[i].on => iter'[i].first + iter'[i].rowidx = rows + 1
<1>1. /\ vm = "row" /\ iter[i].on /\ ~iter[i].stale
      /\ row = iter[i].first + iter[i].rowidx
      /\ row \in Nat /\ iter[i].first \in Nat /\ iter[i].rowidx \in Nat
  <2>1. vm = "row" /\ iter[i].on
    BY IncrementEffect DEF Increment, On
  <2>2. iter[i] \in Iterator /\ row \in Nat
    BY DEF LoopInv, RunTypes
  <2> QED
    BY <2>1, <2>2 DEF LoopInv, IteratorAtRow, IteratorNumbersRows, On, Iterator
<1>2. /\ vm' \in {"row", "done", "error"} /\ rows' = rows
      /\ vm' = "row" => row' = row + 1 /\ completed' = FALSE
      /\ vm' = "done" => row = rows /\ completed' = TRUE
  BY <1>1, IncrementEffect, StepOutcome, Stepping DEF LoopInv
<1>3. ASSUME NEW j \in Iters, iter'[j].on  PROVE j = i
  BY <1>3, IncrementEffect
<1>4. OneLoop'
  BY <1>3 DEF OneLoop, On
<1>5. IteratorAtRow'
  BY <1>1, <1>2, <1>3, IncrementEffect DEF IteratorAtRow, On
<1>6. IteratorNumbersRows'
  <2>1. ASSUME NEW j \in Iters, iter'[j].on, vm' = "row"
        PROVE  row' = iter'[j].first + iter'[j].rowidx
    <3>1. j = i
      BY <1>3, <2>1
    <3>2. iter'[i].first = iter[i].first /\ iter'[i].rowidx = iter[i].rowidx + 1
      BY <2>1, IncrementEffect
    <3>3. row' = row + 1
      BY <1>2, <2>1
    <3> QED
      BY ONLY <1>1, <3>1, <3>2, <3>3
  <2> QED
    BY ONLY <2>1 DEF IteratorNumbersRows, On
<1>7. ~iter'[i].on => iter'[i].first + iter'[i].rowidx = rows + 1
  <2>1. CASE vm' = "done"
    <3>1. iter'[i].rowidx = iter[i].rowidx + 1 /\ iter'[i].first = iter[i].first
      BY <2>1, IncrementEffect
    <3> QED
      BY <1>1, <1>2, <2>1, <3>1
  <2>2. CASE vm' # "done"
    BY <1>2, <2>2, IncrementEffect
  <2> QED
    BY <2>1, <2>2
<1> QED
  BY <1>4, <1>5, <1>6, <1>7

LEMMA BeginLoop ==
  ASSUME LoopInv, Looped, NEW i \in Iters, Begin(i) \/ Leave(i)
  PROVE  OneLoop' /\ IteratorAtRow' /\ IteratorNumbersRows'
<1>1. \A j \in Iters : j # i => ~iter[j].on
  BY DEF Begin, Leave, NoneOn, Looped, LoopInv, OneLoop, On
<1>2. /\ \A j \in Iters : j # i => iter'[j] = iter[j]
      /\ UNCHANGED <<vm, row>>
  BY DEF Begin, Leave, stmtVars, LoopInv, RunTypes
<1>3. iter'[i].on => /\ vm = "row" /\ ~iter'[i].stale
                     /\ iter'[i].first = row /\ iter'[i].rowidx = 0
  <2>1. CASE Leave(i)
    BY <2>1 DEF Leave, NoIterator, LoopInv, RunTypes
  <2>2. CASE Begin(i)
    <3>1. /\ iter'[i] = [on |-> ~completed, rowidx |-> 0, first |-> row, stale |-> FALSE]
          /\ vm \in {"row", "done"}
      BY <2>2 DEF Begin, Looped, LoopInv, RunTypes
    <3>2. ASSUME iter'[i].on  PROVE vm = "row"
      <4> DEFINE it == [on |-> ~completed, rowidx |-> 0, first |-> row, stale |-> FALSE]
      <4>1. it.on = ~completed
        OBVIOUS
      <4>2. iter'[i] = it
        BY <3>1
      <4> HIDE DEF it
      <4>3. ~completed
        BY <3>2, <4>1, <4>2, Zenon
      <4> QED
        BY <3>1, <4>3 DEF LoopInv, CompletedTruthful
    <3> QED
      BY <3>1, <3>2
  <2> QED
    BY <2>1, <2>2
<1>4. row \in Nat
  BY DEF LoopInv, RunTypes
<1> QED
  BY <1>1, <1>2, <1>3, <1>4 DEF OneLoop, IteratorAtRow, IteratorNumbersRows, On

LEMMA LoopStepInv == ASSUME LoopInv, Looped, [Next]_vars PROVE LoopInv'
<1>1. RunTypes' /\ CompletedTruthful'
  BY TypesStep, TruthfulStep DEF LoopInv
<1>2. ASSUME Run \/ Reset  PROVE OneLoop' /\ IteratorAtRow' /\ IteratorNumbersRows'
  <2>1. \A i \in Iters : ~iter[i].on
    BY <1>2 DEF Run, Reset, NoneOn, On, Looped
  <2>2. \A i \in Iters : ~iter'[i].on
    BY <1>2, <2>1, OutdatedIterators DEF Run, Reset, LoopInv
  <2> QED
    BY <2>2 DEF OneLoop, IteratorAtRow, IteratorNumbersRows, On
<1>3. ASSUME Alter \/ (\E n \in Names : ColIndex(n)) \/ UNCHANGED vars
      PROVE  OneLoop' /\ IteratorAtRow' /\ IteratorNumbersRows'
  <2>1. UNCHANGED <<vm, row, iter>>
    BY <1>3 DEF Alter, ColIndex, vars, stmtVars
  <2> QED
    BY <2>1 DEF LoopInv, OneLoop, IteratorAtRow, IteratorNumbersRows, On
<1>4. OneLoop' /\ IteratorAtRow' /\ IteratorNumbersRows'
  BY <1>2, <1>3, BeginLoop, IncrementLoop DEF Next
<1> QED
  BY <1>1, <1>4 DEF LoopInv

LEMMA LoopInit == Init => LoopInv
BY InitTypes DEF Init, LoopInv, CompletedTruthful, OneLoop, IteratorAtRow,
                 IteratorNumbersRows, On, NoIterator

LEMMA LoopInvariant == ASSUME Looped PROVE Spec => []LoopInv
<1>1. LoopInv /\ [Next]_vars => LoopInv'
  BY LoopStepInv
<1> QED
  BY LoopInit, <1>1, PTL DEF Spec

\* In a loop over the rows, the iterator is at a row of the execution it began
\* in and counts the rows without a gap, whatever the number of rows and
\* wherever the loop began.
THEOREM IteratorsFollowRows ==
  ASSUME Looped
  PROVE  Spec => [](IteratorAtRow /\ IteratorNumbersRows)
<1>1. LoopInv => IteratorAtRow /\ IteratorNumbersRows
  BY DEF LoopInv
<1> QED
  BY LoopInvariant, <1>1, PTL

\* A loop that reaches the end has seen every row that was left.
THEOREM LoopsSeeAllRows == ASSUME Looped PROVE Spec => LoopSeesAllRows
<1>1. LoopInv /\ [Next]_vars =>
        [\A i \in Iters : On(i) /\ Increment(i) /\ ~iter'[i].on =>
           iter'[i].first + iter'[i].rowidx = rows + 1]_vars
  BY IncrementLoop
<1> QED
  BY LoopInvariant, <1>1, PTL DEF Spec, LoopSeesAllRows

-----------------------------------------------------------------------------
(* The table of column indexes, of names that the row has. *)

\* Every nonempty set of natural numbers has a least member.
LEMMA LeastOf ==
  ASSUME NEW T \in SUBSET Nat, T # {}
  PROVE  \E x \in T : \A y \in T : x <= y
<1> DEFINE R == OpToRel(<, Nat)
<1>1. IsWellFoundedOn(R, Nat)
  BY NatLessThanWellFounded
<1>2. \A x, y \in Nat : y < x => <<y, x>> \in R
  BY DEF OpToRel
<1> HIDE DEF R
<1>3. PICK x \in T : \A y \in T : ~ (<<y, x>> \in R)
  BY <1>1, WFMin
<1>4. ASSUME NEW y \in T  PROVE x <= y
  <2>1. x \in Nat /\ y \in Nat /\ ~ (<<y, x>> \in R)
    BY <1>3
  <2>2. ~ (y < x)
    BY <1>2, <2>1, Zenon
  <2> QED
    BY <2>1, <2>2
<1> QED
  BY <1>4

\* Every nonempty set of natural numbers up to m has a greatest member.
LEMMA GreatestOf ==
  ASSUME NEW m \in Nat, NEW T \in SUBSET (1 .. m), T # {}
  PROVE  \E x \in T : \A y \in T : y <= x
<1> DEFINE D == {m - x : x \in T}
<1>1. D \in SUBSET Nat
  BY SMT
<1>2. D # {}
  OBVIOUS
<1>3. PICK d \in D : \A e \in D : d <= e
  BY <1>1, <1>2, LeastOf
<1>4. PICK x \in T : d = m - x
  OBVIOUS
<1>5. ASSUME NEW y \in T  PROVE y <= x
  <2>1. m - y \in D
    OBVIOUS
  <2>2. m - x <= m - y
    BY <1>3, <1>4, <2>1
  <2> QED
    BY <2>2
<1> QED
  BY <1>5

\* What the table of column indexes says of a name.
LEMMA TableCorrect ==
  ASSUME NEW cs \in Seq(Names), NEW n \in Names
  PROVE  /\ TableOf(cs)[n] # None =>
              /\ TableOf(cs)[n] \in Nat /\ TableOf(cs)[n] < Len(cs)
              /\ cs[TableOf(cs)[n] + 1] = n
         /\ (\E j \in 1 .. Len(cs) : cs[j] = n) => TableOf(cs)[n] # None
<1> DEFINE At == {j \in 1 .. Len(cs) : cs[j] = n}
           last == CHOOSE j \in At : \A k \in At : k <= j
<1>1. TableOf(cs)[n] = IF At = {} THEN None ELSE last - 1
  BY DEF TableOf
<1>2. ASSUME At # {}  PROVE last \in At
  <2>1. Len(cs) \in Nat /\ At \in SUBSET (1 .. Len(cs))
    OBVIOUS
  <2>2. \E j \in At : \A k \in At : k <= j
    BY <1>2, <2>1, GreatestOf
  <2> QED
    BY <2>2
<1>3. \A j \in At : j \in 1 .. Len(cs) /\ cs[j] = n
  OBVIOUS
<1>4. (\E j \in 1 .. Len(cs) : cs[j] = n) => At # {}
  OBVIOUS
<1> HIDE DEF At, last
<1>5. CASE At = {}
  BY <1>1, <1>4, <1>5
<1>6. CASE At # {}
  <2>1. last \in 1 .. Len(cs) /\ cs[last] = n /\ TableOf(cs)[n] = last - 1
    BY <1>1, <1>2, <1>3, <1>6
  <2> QED
    BY <2>1, NoneAssumption
<1> QED
  BY <1>5, <1>6

\* The table that is built is that of the columns of the current execution.
ColumnInv == /\ schema \in Schemas /\ cols \in Schemas
             /\ built => index = TableOf(cols) /\ vm # "ready"

LEMMA ColIndexStep ==
  ASSUME ColumnInv, LookedUp, NEW n \in Names, ColIndex(n)
  PROVE  index' = TableOf(cols)
<1> DEFINE known == IF built THEN index ELSE TableOf(cols)
<1>1. known = TableOf(cols)
  BY DEF ColumnInv
<1>2. TableOf(cols)[n] # None
  BY TableCorrect DEF ColIndex, LookedUp, ColumnInv
<1>3. index' = [TableOf(cols) EXCEPT ![n] = IF @ = None THEN 0 ELSE @]
  BY <1>1 DEF ColIndex
<1> QED
  BY <1>2, <1>3 DEF TableOf

LEMMA ColumnStep ==
  ASSUME RunTypes, ColumnInv, LookedUp, [Next]_vars
  PROVE  ColumnInv'
<1>1. ASSUME step, vm \in {"ready", "row"}  PROVE ColumnInv'
  <2>1. vm' # "ready" /\ UNCHANGED <<schema, built, index>>
    BY <1>1, StepOutcome, Stepping DEF cacheVars, SqliteStep
  <2>2. CASE vm = "row"
    <3>1. cols' = cols
      BY <1>1, <2>2, StepOutcome DEF SqliteStep, SqliteNextRow, SqliteStart
    <3>2. TableOf(cols)' = TableOf(cols)
      BY <3>1 DEF TableOf
    <3> QED
      BY <2>1, <3>1, <3>2 DEF ColumnInv
  <2>3. CASE vm = "ready"
    <3>1. cols' = schema
      BY <1>1, <2>3, StepOutcome DEF SqliteStep, SqliteNextRow, SqliteStart
    <3> QED
      BY <2>1, <2>3, <3>1 DEF ColumnInv
  <2> QED
    BY <1>1, <2>2, <2>3
<1>2. ASSUME Run \/ \E i \in Iters : Increment(i)  PROVE step /\ vm \in {"ready", "row"}
  BY <1>2 DEF Run, Increment, LookedUp
<1>3. ASSUME NEW n \in Names, ColIndex(n)  PROVE ColumnInv'
  <2>1. UNCHANGED <<vm, schema, cols>> /\ vm = "row"
    BY <1>3 DEF ColIndex, stmtVars, LookedUp
  <2>2. index' = TableOf(cols)
    BY <1>3, ColIndexStep
  <2> QED
    BY <2>1, <2>2 DEF ColumnInv, TableOf
<1>4. ASSUME Reset \/ Alter  PROVE ColumnInv'
  BY <1>4 DEF Reset, Alter, ColumnInv, cacheVars
<1>5. ASSUME (\E i \in Iters : Begin(i) \/ Leave(i)) \/ UNCHANGED vars  PROVE ColumnInv'
  <2>1. UNCHANGED <<vm, schema, cols, built, index>>
    BY <1>5 DEF Begin, Leave, vars, stmtVars, cacheVars
  <2>2. TableOf(cols)' = TableOf(cols)
    BY <2>1 DEF TableOf
  <2> QED
    BY <2>1, <2>2 DEF ColumnInv
<1> QED
  BY <1>1, <1>2, <1>3, <1>4, <1>5 DEF Next

\* col_index() returns the index of a column that has the name: the cache is
\* that of this execution, even if the schema changes between executions.
THEOREM ColumnIndexesCorrect == ASSUME LookedUp PROVE Spec => []ColIndexCorrect
<1>1. Init => RunTypes /\ ColumnInv
  BY InitTypes DEF Init, ColumnInv
<1>2. RunTypes /\ ColumnInv /\ [Next]_vars => RunTypes' /\ ColumnInv'
  BY TypesStep, ColumnStep
<1>3. ColumnInv => ColIndexCorrect
  BY TableCorrect DEF ColumnInv, ColIndexCorrect
<1> QED
  BY <1>1, <1>2, <1>3, PTL DEF Spec

-----------------------------------------------------------------------------

LEMMA TypeStep == ASSUME TypeOK, [Next]_vars PROVE TypeOK'
<1> DEFINE Rest == /\ schema \in Schemas /\ cols \in Schemas /\ built \in BOOLEAN
                   /\ index \in [Names -> Nat \cup {None}]
<1>1. RunTypes'
  BY TypesStep DEF TypeOK, RunTypes
<1>2. Rest
  BY DEF TypeOK
<1>3. ASSUME step  PROVE Rest'
  <2>1. UNCHANGED <<built, index>> /\ SqliteStep
    BY <1>3, StepOutcome DEF TypeOK, RunTypes, cacheVars
  <2> QED
    BY <1>2, <2>1 DEF SqliteStep, SqliteNextRow, SqliteStart
<1>4. ASSUME NEW n \in Names, ColIndex(n)  PROVE Rest'
  <2>1. TableOf(cols) \in [Names -> Nat \cup {None}]
    <3>1. cols \in Seq(Names)
      BY <1>2
    <3>2. \A m \in Names : TableOf(cols)[m] \in Nat \cup {None}
      BY <3>1, TableCorrect
    <3> QED
      BY <3>2 DEF TableOf
  <2> DEFINE known == IF built THEN index ELSE TableOf(cols)
  <2>2. known \in [Names -> Nat \cup {None}]
    BY <1>2, <2>1
  <2>3. /\ built' = TRUE /\ UNCHANGED <<schema, cols>>
        /\ index' = [known EXCEPT ![n] = IF @ = None THEN 0 ELSE @]
    BY <1>4 DEF ColIndex, stmtVars
  <2> HIDE DEF known
  <2> QED
    BY <1>2, <2>2, <2>3
<1>5. ASSUME \/ Reset \/ Alter \/ UNCHANGED vars
             \/ \E i \in Iters : Begin(i) \/ Leave(i)
      PROVE  Rest'
  BY <1>2, <1>5 DEF Reset, Alter, Begin, Leave, NoIndex, vars, stmtVars, cacheVars
<1>6. Rest'
  BY <1>3, <1>4, <1>5 DEF Next, Run, Increment
<1> QED
  BY <1>1, <1>6 DEF TypeOK, RunTypes

\* The types, for every use of the statement: the index of a column is a number
\* even for a name that the row does not have.
THEOREM StatementTypes == Spec => []TypeOK
<1>1. Init => TypeOK
  BY InitTypes DEF Init, TypeOK, RunTypes, NoIndex
<1>2. TypeOK /\ [Next]_vars => TypeOK'
  BY TypeStep
<1> QED
  BY <1>1, <1>2, PTL DEF Spec
-----------------------------------------------------------------------------
(* Values: what an SQL value keeps of a C++ value. *)

\* A content without a zero is passed whole, and what is passed has no zero.
LEMMA NoZero ==
  ASSUME NEW s \in Seq(Nat), \A i \in 1 .. Len(s) : s[i] # 0
  PROVE  UpToZero(s) = s
<1> DEFINE Zeroes == {i \in 1 .. Len(s) : s[i] = 0}
<1>1. Zeroes = {}
  OBVIOUS
<1>2. UpToZero(s) = SubSeq(s, 1, IF Zeroes = {} THEN Len(s)
                     ELSE (CHOOSE i \in Zeroes : \A j \in Zeroes : i <= j) - 1)
  BY DEF UpToZero
<1> HIDE DEF Zeroes
<1>3. UpToZero(s) = SubSeq(s, 1, Len(s))
  BY <1>1, <1>2
<1> QED
  BY <1>3, SubSeqFull

LEMMA UpToZeroOnce ==
  ASSUME NEW s \in Seq(Nat)
  PROVE  UpToZero(s) \in Seq(Nat) /\ UpToZero(UpToZero(s)) = UpToZero(s)
<1> DEFINE Zeroes == {i \in 1 .. Len(s) : s[i] = 0}
           first == CHOOSE i \in Zeroes : \A j \in Zeroes : i <= j
           m == IF Zeroes = {} THEN Len(s) ELSE first - 1
<1>1. UpToZero(s) = SubSeq(s, 1, m)
  BY DEF UpToZero
<1>2. Len(s) \in Nat /\ Zeroes \in SUBSET Nat /\ Zeroes \subseteq 1 .. Len(s)
  OBVIOUS
<1>3. \A i \in 1 .. Len(s) : s[i] \in Nat /\ (i \notin Zeroes => s[i] # 0)
  OBVIOUS
<1>4. ASSUME Zeroes # {}  PROVE first \in Zeroes /\ \A j \in Zeroes : first <= j
  <2>1. \E i \in Zeroes : \A j \in Zeroes : i <= j
    BY <1>2, <1>4, LeastOf
  <2> QED
    BY <2>1
<1> HIDE DEF Zeroes, first
<1>5. m \in 0 .. Len(s) /\ \A i \in 1 .. m : s[i] \in Nat /\ s[i] # 0
  <2>1. CASE Zeroes = {}
    BY <1>2, <1>3, <2>1
  <2>2. CASE Zeroes # {}
    <3>1. /\ m = first - 1 /\ first \in 1 .. Len(s)
      BY <1>2, <1>4, <2>2 DEF m
    <3>2. \A i \in 1 .. Len(s) : i < first => i \notin Zeroes
      BY <1>2, <1>4, <2>2, <3>1
    <3> QED
      BY <1>2, <1>3, <3>1, <3>2
  <2> QED
    BY <2>1, <2>2
<1> HIDE DEF m
<1> DEFINE u == SubSeq(s, 1, m)
<1>6. /\ u \in Seq(Nat) /\ Len(u) = IF 1 <= m THEN m - 1 + 1 ELSE 0
      /\ \A i \in 1 .. m - 1 + 1 : u[i] = s[1 + i - 1]
  BY <1>2, <1>5, SubSeqProperties
<1> HIDE DEF u
<1>7. \A i \in 1 .. Len(u) : u[i] # 0
  <2>1. Len(u) = m /\ m \in Nat
    BY <1>2, <1>5, <1>6
  <2>2. \A i \in 1 .. m : u[i] = s[i]
    BY <1>2, <1>5, <1>6
  <2> QED
    BY <1>5, <2>1, <2>2
<1>8. UpToZero(u) = u
  BY <1>6, <1>7, NoZero
<1> QED
  BY <1>1, <1>6, <1>8 DEF u

\* The zeroes that a blob without data stands for.
LEMMA ZeroSequence ==
  ASSUME NEW n \in Nat
  PROVE  /\ [i \in 1 .. n |-> 0] \in Seq(Nat)
         /\ Len([i \in 1 .. n |-> 0]) = n
         /\ n = 0 => [i \in 1 .. n |-> 0] = <<>>
<1> DEFINE z == [i \in 1 .. n |-> 0]
<1>1. z \in Seq(Nat) /\ Len(z) = n
  OBVIOUS
<1>2. n = 0 => Len(z) = Len(<<>>) /\ <<>> \in Seq(Nat) /\ \A i \in 1 .. Len(z) : z[i] = <<>>[i]
  BY <1>1
<1> HIDE DEF z
<1>3. n = 0 => z = <<>>
  BY <1>1, <1>2, SeqEqual
<1> QED
  BY <1>1, <1>3 DEF z

\* value::val() chooses as statement::val() does, and result() as bind().
LEMMA SameChoices ==
  \A T, s : Returned(T, s) = ToSql(FromSql(T, s))
<1>1. \A T, s : Argument(T, s) = FromSql(T, s)
  BY DEF Argument, FromSql
<1>2. \A v : Result(v) = ToSql(v)
  BY DEF Result, ToSql
<1> QED
  BY <1>1, <1>2 DEF Returned

\* A value with a content means the same when it is bound and read back, and
\* when a function is given it and returns it.
LEMMA ContentSurvives ==
  ASSUME NEW T \in Types, NEW s \in Seq(Nat), ~IsNaN(CValue(T, FALSE, s))
  PROVE  LET v == CValue(T, FALSE, s)
         IN  Means(v, ToSql(v)) /\ Means(v, Returned(T, ToSql(v)))
<1> DEFINE v == CValue(T, FALSE, s)
           q == ToSql(v)
           w == FromSql(T, q)
<1>1. v.type = T /\ v.null = FALSE /\ v.data = s /\ ~IsNaN(v)
  BY DEF CValue
<1>2. Len(s) \in Nat /\ UpToZero(s) \in Seq(Nat) /\ UpToZero(UpToZero(s)) = UpToZero(s)
  BY UpToZeroOnce
<1>3. ASSUME T \in Numbers  PROVE Means(v, q) /\ ToSql(w) = q
  <2>1. q = SqlValue("number", s)
    BY <1>1, <1>3 DEF ToSql, NumberOf, Numbers
  <2>2. FromSql(T, SqlValue("number", s)) = CValue(T, FALSE, s)
    <3>1. FromNumber(SqlValue("number", s)) = s
      BY DEF FromNumber, SqlValue
    <3> QED
      BY <1>3, <3>1 DEF FromSql, Numbers
  <2>3. w = v
    BY <2>1, <2>2
  <2> HIDE DEF v
  <2>4. Means(v, q)
    <3> HIDE DEF q
    <3>1. FromSql(v.type, q).data = v.data /\ q.kind # "null"
      BY <1>1, <2>1, <2>3 DEF SqlValue
    <3> QED
      BY <1>1, <1>3, <3>1 DEF Means, Numbers
  <2> QED
    BY <2>3, <2>4
<1>4. ASSUME T = "const char*"  PROVE Means(v, q) /\ ToSql(w) = q
  <2> DEFINE u == UpToZero(s)
  <2>1. q = SqlValue("text", u)
    BY <1>1, <1>4 DEF ToSql, Numbers, TextOf
  <2>2. UpToZero(u) = u
    BY <1>2
  <2> HIDE DEF u
  <2>3. FromSql(T, SqlValue("text", u)) = CValue(T, FALSE, u)
    BY <1>4, <2>2 DEF FromSql, SqlValue, Numbers
  <2>4. w = CValue(T, FALSE, u)
    BY <2>1, <2>3
  <2>5. w.type = T /\ w.null = FALSE /\ w.data = u
    BY <2>4 DEF CValue
  <2> HIDE DEF v
  <2>6. Means(v, q)
    <3> HIDE DEF q
    <3>1. FromSql(v.type, q).data = UpToZero(v.data) /\ FromSql(v.type, q).null = v.null
      BY <1>1, <2>5 DEF u
    <3> QED
      BY <1>1, <1>4, <3>1 DEF Means
  <2> HIDE DEF w, q
  <2>7. ToSql(w) = q
    BY <1>4, <2>1, <2>2, <2>5 DEF ToSql, Numbers, TextOf
  <2> QED
    BY <2>6, <2>7
<1>5. ASSUME T = "std::string"  PROVE Means(v, q) /\ ToSql(w) = q
  <2>1. q = SqlValue("text", s)
    BY <1>1, <1>5 DEF ToSql, Numbers, TextOf
  <2>2. FromSql(T, SqlValue("text", s)) = CValue(T, FALSE, s)
    BY <1>5 DEF FromSql, SqlValue, Numbers
  <2>3. w = v
    BY <2>1, <2>2
  <2> HIDE DEF v
  <2>4. Means(v, q)
    <3> HIDE DEF q
    <3>1. FromSql(v.type, q).data = v.data /\ q.kind # "null"
      BY <1>1, <2>1, <2>3 DEF SqlValue
    <3> QED
      BY <1>1, <1>5, <3>1 DEF Means
  <2> QED
    BY <2>3, <2>4
<1>6. ASSUME T = "blob"  PROVE Means(v, q) /\ ToSql(w) = q
  <2>1. q = SqlValue("blob", s)
    BY <1>1, <1>6 DEF ToSql, Numbers
  <2> DEFINE r == FromSql(T, SqlValue("blob", s))
  <2>2. r.data = s /\ r.type = T /\ (r.null <=> s = <<>>)
    BY <1>6 DEF FromSql, SqlValue, CValue, Numbers
  <2>3. s = <<>> => [i \in 1 .. Len(s) |-> 0] = <<>>
    <3>1. s = <<>> => Len(s) = 0
      OBVIOUS
    <3> QED
      BY <1>2, <3>1, ZeroSequence
  <2>4. w = r
    BY <2>1
  <2> HIDE DEF v, r
  <2>5. Means(v, q)
    <3> HIDE DEF q
    <3>1. FromSql(v.type, q).data = v.data /\ q.kind # "null"
      BY <1>1, <2>1, <2>2, <2>4 DEF SqlValue
    <3> QED
      BY <1>1, <1>6, <3>1 DEF Means
  <2>6. r.null => ZeroBlob(Len(r.data)) = SqlValue("blob", s)
    BY <2>2, <2>3 DEF ZeroBlob
  <2>7. ToSql(r) = SqlValue("blob", s)
    BY <1>6, <2>2, <2>6 DEF ToSql, Numbers
  <2> QED
    BY <2>1, <2>4, <2>5, <2>7
<1> HIDE DEF q, w
<1>7. Means(v, q) /\ ToSql(w) = q
  BY <1>3, <1>4, <1>5, <1>6 DEF Types
<1>8. Returned(T, q) = q
  BY <1>7, SameChoices DEF w
<1> QED
  BY <1>7, <1>8 DEF q, v

\* So does a null pointer to characters, as NULL, and so do zeroes.
LEMMA NullSurvives ==
  /\ LET v == CValue("const char*", TRUE, <<>>)
     IN  Means(v, ToSql(v)) /\ Means(v, Returned("const char*", ToSql(v)))
  /\ \A n \in Nat :
       LET v == CValue("blob", TRUE, [i \in 1 .. n |-> 0])
       IN  Means(v, ToSql(v)) /\ Means(v, Returned("blob", ToSql(v)))
<1>1. LET v == CValue("const char*", TRUE, <<>>)
      IN  Means(v, ToSql(v)) /\ Means(v, Returned("const char*", ToSql(v)))
  <2> DEFINE T == "const char*"
             v == CValue(T, TRUE, <<>>)
             w == FromSql(T, SqlNull)
  <2>1. UpToZero(<<>>) = <<>>
    <3>1. <<>> \in Seq(Nat) /\ \A i \in 1 .. Len(<<>>) : <<>>[i] # 0
      OBVIOUS
    <3> QED
      BY <3>1, NoZero
  <2>2. ToSql(v) = SqlNull
    BY DEF ToSql, CValue, Numbers
  <2>3. FromSql(T, SqlNull) = CValue(T, TRUE, <<>>)
    BY <2>1 DEF FromSql, SqlNull, SqlValue, Numbers
  <2>4. v.type = T /\ v.null = TRUE /\ v.data = <<>>
    BY DEF CValue
  <2>5. w = v
    BY <2>3
  <2> HIDE DEF v
  <2>6. Means(v, SqlNull)
    <3>1. FromSql(v.type, SqlNull).null = v.null /\ FromSql(v.type, SqlNull).data = UpToZero(v.data)
      BY <2>1, <2>4, <2>5
    <3> QED
      BY <2>4, <3>1 DEF Means, IsNaN
  <2> QED
    BY <2>2, <2>5, <2>6, SameChoices DEF v, w
<1>2. ASSUME NEW n \in Nat
      PROVE  LET v == CValue("blob", TRUE, [i \in 1 .. n |-> 0])
             IN  Means(v, ToSql(v)) /\ Means(v, Returned("blob", ToSql(v)))
  <2> DEFINE z == [i \in 1 .. n |-> 0]
             v == CValue("blob", TRUE, z)
             q == SqlValue("blob", z)
             w == FromSql("blob", q)
  <2>1. Len(z) = n
    BY ZeroSequence
  <2>2. ZeroBlob(Len(z)) = q
    BY <2>1 DEF ZeroBlob
  <2> HIDE DEF z
  <2>3. v.type = "blob" /\ v.null = TRUE /\ v.data = z
    BY DEF CValue
  <2>4. q.kind = "blob" /\ q.data = z
    BY DEF SqlValue
  <2>5. w.type = "blob" /\ w.data = z
    BY <2>4 DEF FromSql, CValue, Numbers
  <2> HIDE DEF v, q
  <2>6. ToSql(v) = q
    BY <2>2, <2>3 DEF ToSql, Numbers
  <2>7. Means(v, q)
    BY <2>3, <2>4, <2>5 DEF Means, IsNaN
  <2> HIDE DEF w
  <2>8. ToSql(w) = q
    BY <2>2, <2>5 DEF ToSql, Numbers, q
  <2> QED
    BY <2>6, <2>7, <2>8, SameChoices DEF v, w, z
<1> QED
  BY <1>1, <1>2

\* A value that is still in its buffer is found there.
LEMMA InPlace ==
  ASSUME NEW T \in Types \ Numbers, NEW s \in Seq(Nat)
  PROVE  LET v == CValue(T, FALSE, s) IN Means(v, [ToSql(v) EXCEPT !.data = s])
<1> DEFINE v == CValue(T, FALSE, s)
           q == [ToSql(v) EXCEPT !.data = s]
           kind == IF T = "blob" THEN "blob" ELSE "text"
<1>1. v.type = T /\ v.null = FALSE /\ v.data = s
  BY DEF CValue
<1>2. q = SqlValue(kind, s)
  <2> HIDE DEF v
  <2>1. \E data : ToSql(v) = SqlValue(kind, data)
    <3>1. CASE T = "blob"
      BY <1>1, <3>1 DEF ToSql, Numbers
    <3>2. CASE T = "const char*"
      BY <1>1, <3>2 DEF ToSql, TextOf, Numbers
    <3>3. CASE T = "std::string"
      BY <1>1, <3>3 DEF ToSql, TextOf, Numbers
    <3> QED
      BY <3>1, <3>2, <3>3 DEF Types
  <2> HIDE DEF kind
  <2> QED
    BY <2>1 DEF SqlValue
<1> HIDE DEF v
<1>3. CASE T = "const char*"
  <2> DEFINE u == UpToZero(s)
  <2>1. FromSql(T, SqlValue("text", s)) = CValue(T, FALSE, u)
    BY <1>3 DEF FromSql, SqlValue, Numbers
  <2>2. kind = "text"
    BY <1>3
  <2> HIDE DEF u, q, kind
  <2>3. FromSql(T, q).null = FALSE /\ FromSql(T, q).data = u
    BY <1>2, <2>1, <2>2 DEF CValue
  <2>4. FromSql(v.type, q).null = v.null /\ FromSql(v.type, q).data = UpToZero(v.data)
    BY <1>1, <2>3 DEF u
  <2>5. Means(v, q)
    BY <1>1, <1>3, <2>4 DEF Means, IsNaN
  <2> QED
    BY <2>5 DEF q, v
<1>4. CASE T # "const char*"
  <2>1. FromSql(T, SqlValue(kind, s)).data = s /\ kind # "null"
    BY <1>4 DEF FromSql, SqlValue, CValue, Types, Numbers
  <2> HIDE DEF q, kind
  <2>2. FromSql(v.type, q).data = v.data /\ q.kind # "null"
    BY <1>1, <1>2, <2>1 DEF SqlValue
  <2>3. Means(v, q)
    BY <1>1, <1>4, <2>2 DEF Means, IsNaN, Types, Numbers
  <2> QED
    BY <2>3 DEF q, v
<1> QED
  BY <1>3, <1>4

-----------------------------------------------------------------------------
(* Binding: what the caller relies on. *)

\* A bound statement is a statement.
LEMMA BindNextIsNext == [BindNext]_allVars => [Next]_vars
<1>1. ASSUME NEW p, NEW idx, Bind(p, idx)  PROVE UNCHANGED vars
  BY <1>1 DEF Bind
<1> QED
  BY <1>1 DEF BindNext, RunBound, ResetBound, ClearBindings, BindIndex, BindName,
              Rewrite, Next, allVars

\* Binding parameters does nothing to the rows, the iterators and the columns: a
\* statement that is bound behaves as Statement describes it, so that all that
\* is proved about Spec holds for it.
THEOREM BoundIsStatement == BindSpec => Spec
<1>1. BindInit => Init
  BY DEF BindInit
<1> QED
  BY <1>1, BindNextIsNext, PTL DEF BindSpec, Spec

\* The types that the proofs need.
BoundTyped == /\ bound = [p \in Params |-> bound[p]]
              /\ expect = [p \in Params |-> expect[p]]
              /\ lent = [p \in Params |-> lent[p]]
              /\ memory \in [Buffers -> Contents]

\* SQLite has a value that the caller relies on as the caller means it, or it
\* has a reference to a buffer, the one the caller keeps for this parameter,
\* and in which the value still is.
Kept(p) ==
  expect[p] # Unknown =>
    IF bound[p].from = None THEN Means(expect[p], bound[p].value)
    ELSE /\ lent[p] = bound[p].from /\ lent[p] \in Buffers
         /\ bound[p].value = ToSql(expect[p])
         /\ \E T \in Types \ Numbers : expect[p] = CValue(T, FALSE, memory[lent[p]])

BoundInv == /\ BoundTyped
            /\ \A p \in Params : Kept(p)
            /\ vm = "row" => \A p \in Params : expect[p] # Unknown

\* The parameters of a running query are not given up.
Reliable == Beyond \cap {"lapsed", "rerun"} = {}

LEMMA BoundInit == BindInit => BoundInv
<1>1. Means(Nothing, SqlNull) /\ Nothing # Unknown
  BY DEF Means, Nothing, Unknown, CValue, SqlNull, SqlValue
<1> SUFFICES ASSUME BindInit PROVE BoundInv
  OBVIOUS
<1>2. BoundTyped
  BY DEF BindInit, BoundTyped
<1>3. ASSUME NEW p \in Params  PROVE Kept(p) /\ expect[p] # Unknown
  <2>1. bound[p].from = None /\ bound[p].value = SqlNull /\ expect[p] = Nothing
    BY DEF BindInit, Bound
  <2> QED
    BY <1>1, <2>1 DEF Kept
<1> QED
  BY <1>2, <1>3 DEF BoundInv

\* Each value that is bound by copying means what it should.
LEMMA CopiesMean ==
  ASSUME BoundTyped,
         NEW v \in Unbuffered \cup UNION {Buffered(b) : b \in Buffers}
  PROVE  Means(v, ToSql(v)) /\ v # Unknown
<1>1. CASE v = Nothing
  <2>1. ToSql(Nothing) = SqlNull
    <3>1. Nothing.type = "nothing"
      BY DEF Nothing, CValue
    <3> QED
      BY <3>1 DEF ToSql, Numbers
  <2>2. Means(Nothing, SqlNull) /\ Nothing # Unknown
    BY DEF Means, Nothing, Unknown, CValue, SqlNull, SqlValue
  <2> QED
    BY <1>1, <2>1, <2>2
<1>2. ASSUME NEW T \in Types, NEW null, NEW data, CValue(T, null, data) = Unknown
      PROVE  FALSE
  <2>1. CValue(T, null, data).type = T /\ Unknown.type = "unknown"
    BY DEF CValue, Unknown
  <2> QED
    BY <1>2, <2>1 DEF Types, Numbers
<1>3. ASSUME NEW T \in BindTypes \cap Numbers, NEW number \in {<< 1 >>, NaN},
             v = CValue(T, FALSE, number)
      PROVE  Means(v, ToSql(v)) /\ v # Unknown
  <2>1. T \in Types /\ number \in Seq(Nat)
    <3>1. << 1 >> \in Seq(Nat) /\ << 255 >> \in Seq(Nat)
      OBVIOUS
    <3> QED
      BY <1>3, <3>1, TypesAssumption DEF NaN
  <2>2. CASE IsNaN(v)
    <3>1. v.type = "double" /\ v.data = NaN
      BY <2>2 DEF IsNaN
    <3>2. ToSql(v) = SqlNull
      BY <2>2, <3>1 DEF ToSql, NumberOf, Numbers
    <3>3. Means(v, SqlNull)
      BY <2>2, <3>1 DEF Means, SqlNull, SqlValue
    <3> QED
      BY <1>2, <1>3, <2>1, <3>2, <3>3
  <2>3. CASE ~IsNaN(v)
    BY <1>2, <1>3, <2>1, <2>3, ContentSurvives
  <2> QED
    BY <2>2, <2>3
<1>4. ASSUME NEW T \in BindTypes \cap {"const char*", "blob"}, v = CValue(T, TRUE, <<>>)
      PROVE  Means(v, ToSql(v)) /\ v # Unknown
  <2>1. T \in Types /\ [i \in 1 .. 0 |-> 0] = <<>>
    BY TypesAssumption, ZeroSequence
  <2>2. CASE T = "const char*"
    BY <1>2, <1>4, <2>1, <2>2, NullSurvives
  <2>3. CASE T = "blob"
    <3> DEFINE x == CValue("blob", TRUE, [i \in 1 .. 0 |-> 0])
    <3>1. Means(x, ToSql(x))
      BY NullSurvives
    <3>2. x = v
      BY <1>4, <2>1, <2>3
    <3> QED
      BY <1>2, <1>4, <2>1, <3>1, <3>2
  <2> QED
    BY <2>2, <2>3
<1>5. ASSUME NEW b \in Buffers, NEW T \in BindTypes \ Numbers, v = CValue(T, FALSE, memory[b])
      PROVE  Means(v, ToSql(v)) /\ v # Unknown
  <2>1. T \in Types /\ memory[b] \in Seq(Nat)
    BY TypesAssumption, BufferAssumption DEF BoundTyped
  <2>2. ~IsNaN(CValue(T, FALSE, memory[b]))
    BY DEF IsNaN, CValue, Numbers
  <2> QED
    BY <1>2, <1>5, <2>1, <2>2, ContentSurvives
<1>6. CASE v \in Unbuffered
  <2>1. \/ v = Nothing
        \/ \E T \in BindTypes \cap Numbers : v = CValue(T, FALSE, << 1 >>)
        \/ \E T \in BindTypes \cap {"double"} : v = CValue(T, FALSE, NaN)
        \/ \E T \in BindTypes \cap {"const char*", "blob"} : v = CValue(T, TRUE, <<>>)
    BY <1>6 DEF Unbuffered
  <2> QED
    BY <1>1, <1>3, <1>4, <2>1 DEF Numbers
<1>7. CASE v \in UNION {Buffered(b) : b \in Buffers}
  BY <1>5, <1>7 DEF Buffered
<1> QED
  BY <1>6, <1>7

\* What bind() of the value v does for the parameter p: it takes the value, or
\* loses what was there for want of memory, or is refused.
Outcome(p, v, from) ==
  \/ UNCHANGED <<bound, expect, lent>>
  \/ p \in Params /\ expect'[p] = Unknown
  \/ /\ p \in Params /\ expect'[p] = v
     /\ bound'[p] = Bound(ToSql(v), from) /\ lent'[p] = from

\* The other parameters are left alone, and all of them while a query runs.
OthersKept(p) ==
  /\ vm = "row" => UNCHANGED expect
  /\ \A o \in Params : o # p => /\ bound'[o] = bound[o] /\ expect'[o] = expect[o]
                                /\ lent'[o] = lent[o]

LEMMA BindForEffect ==
  ASSUME BoundTyped, NEW p \in Int, NEW v, NEW b, NEW copy \in BOOLEAN,
         BindFor(p, p - 1, v, b, copy), UNCHANGED <<vars, memory>>
  PROVE  BoundTyped' /\ OthersKept(p) /\ Outcome(p, v, Reference(b, copy))
<1>1. p - 1 + 1 = p
  OBVIOUS
<1>2. PICK rv \in BindCodes(p) :
        /\ SqliteBind(p, v, Reference(b, copy), rv)
        /\ IF p \notin Params THEN UNCHANGED <<expect, lent>>
           ELSE IF Throws(rv)
           THEN /\ expect' = IF rv = "nomem" THEN [expect EXCEPT ![p] = Unknown] ELSE expect
                /\ UNCHANGED lent
           ELSE /\ expect' = [expect EXCEPT ![p] = v]
                /\ lent' = [lent EXCEPT ![p] = IF copy THEN None ELSE b]
  BY <1>1 DEF BindFor
<1>3. rv \in {"misuse", "range", "ok", "nomem"} /\ (vm = "row" => rv = "misuse")
      /\ (p \notin Params => rv \in {"misuse", "range"})
  BY DEF BindCodes
<1>4. CASE rv \in {"misuse", "range"}
  <2>1. UNCHANGED <<bound, expect, lent>>
    BY <1>2, <1>4 DEF SqliteBind, Throws
  <2> QED
    BY <2>1 DEF BoundTyped, OthersKept, Outcome
<1>5. CASE rv = "nomem"
  <2>1. /\ p \in Params /\ vm # "row" /\ bound' = [bound EXCEPT ![p] = Bound(SqlNull, None)]
        /\ expect' = [expect EXCEPT ![p] = Unknown] /\ lent' = lent
    BY <1>2, <1>3, <1>5 DEF SqliteBind, Throws
  <2> QED
    BY <2>1 DEF BoundTyped, OthersKept, Outcome
<1>6. CASE rv = "ok"
  <2>1. /\ p \in Params /\ vm # "row"
        /\ bound' = [bound EXCEPT ![p] = Bound(ToSql(v), Reference(b, copy))]
        /\ expect' = [expect EXCEPT ![p] = v]
        /\ lent' = [lent EXCEPT ![p] = Reference(b, copy)]
    BY <1>2, <1>3, <1>6 DEF SqliteBind, Throws, Reference
  <2> QED
    BY <2>1 DEF BoundTyped, OthersKept, Outcome
<1> QED
  BY <1>3, <1>4, <1>5, <1>6

LEMMA BindEffect ==
  ASSUME BoundTyped, NEW p \in Int, Bind(p, p - 1)
  PROVE  /\ BoundTyped' /\ UNCHANGED <<vars, memory>> /\ OthersKept(p)
         /\ \/ \E v \in Unbuffered \cup UNION {Buffered(b) : b \in Buffers} : Outcome(p, v, None)
            \/ \E b \in Buffers : \E v \in Buffered(b) : Outcome(p, v, b)
<1>1. UNCHANGED <<vars, memory>>
  BY DEF Bind
<1>2. TRUE \in BOOLEAN /\ FALSE \in BOOLEAN
  OBVIOUS
<1>3. ASSUME NEW v, NEW b, BindFor(p, p - 1, v, b, TRUE)
      PROVE  BoundTyped' /\ OthersKept(p) /\ Outcome(p, v, None)
  <2>1. Reference(b, TRUE) = None
    BY DEF Reference
  <2> QED
    BY <1>1, <1>2, <1>3, <2>1, BindForEffect
<1>4. ASSUME NEW v, NEW b, BindFor(p, p - 1, v, b, FALSE)
      PROVE  BoundTyped' /\ OthersKept(p) /\ Outcome(p, v, b)
  <2>1. Reference(b, FALSE) = b
    BY DEF Reference
  <2> QED
    BY <1>1, <1>2, <1>4, <2>1, BindForEffect
<1>5. CASE \E v \in Unbuffered : BindFor(p, p - 1, v, None, TRUE)
  BY <1>1, <1>3, <1>5
<1>6. CASE \E b \in Buffers : \E v \in Buffered(b) : BindFor(p, p - 1, v, b, TRUE)
  BY <1>1, <1>3, <1>6
<1>7. CASE \E b \in Buffers : \E v \in Buffered(b) : BindFor(p, p - 1, v, b, FALSE)
  BY <1>1, <1>4, <1>7
<1>8. (\E b \in Buffers, copy \in BOOLEAN : \E v \in Buffered(b) : BindFor(p, p - 1, v, b, copy))
      => \/ \E b \in Buffers : \E v \in Buffered(b) : BindFor(p, p - 1, v, b, TRUE)
         \/ \E b \in Buffers : \E v \in Buffered(b) : BindFor(p, p - 1, v, b, FALSE)
  OBVIOUS
<1> QED
  BY <1>5, <1>6, <1>7, <1>8 DEF Bind

LEMMA BindKeeps ==
  ASSUME BoundInv, NEW p \in Int, Bind(p, p - 1)
  PROVE  BoundInv'
<1>1. BoundTyped
  BY DEF BoundInv
<1>2. BoundTyped' /\ UNCHANGED memory /\ vm' = vm
  BY <1>1, BindEffect DEF vars, stmtVars
<1>3. OthersKept(p)
  BY <1>1, BindEffect
<1>4. ASSUME NEW o \in Params, o # p \/ UNCHANGED <<bound, expect, lent>>  PROVE Kept(o)'
  <2>1. bound'[o] = bound[o] /\ expect'[o] = expect[o] /\ lent'[o] = lent[o]
    BY <1>3, <1>4 DEF OthersKept
  <2> QED
    BY <1>2, <2>1 DEF BoundInv, Kept
<1>5. ASSUME p \in Params, expect'[p] = Unknown  PROVE Kept(p)'
  BY <1>5 DEF Kept
<1>6. ASSUME p \in Params, NEW v \in Unbuffered \cup UNION {Buffered(b) : b \in Buffers},
             Outcome(p, v, None)
      PROVE  Kept(p)'
  <2>1. Means(v, ToSql(v))
    BY <1>1, CopiesMean
  <2>2. UNCHANGED <<bound, expect, lent>> => Kept(p)'
    BY <1>4, <1>6
  <2>3. expect'[p] = Unknown => Kept(p)'
    BY <1>5, <1>6
  <2>4. expect'[p] = v /\ bound'[p] = Bound(ToSql(v), None) => Kept(p)'
    BY <2>1 DEF Kept, Bound
  <2> QED
    BY <1>6, <2>2, <2>3, <2>4, Zenon DEF Outcome
<1>7. ASSUME p \in Params, NEW b \in Buffers, NEW v \in Buffered(b), Outcome(p, v, b)
      PROVE  Kept(p)'
  <2>1. PICK T \in Types \ Numbers : v = CValue(T, FALSE, memory[b])
    BY TypesAssumption DEF Buffered
  <2>2. CASE expect'[p] = v /\ bound'[p] = Bound(ToSql(v), b) /\ lent'[p] = b
    <3>1. bound'[p].from = b /\ bound'[p].value = ToSql(v) /\ b # None
      BY <2>2, BufferAssumption DEF Bound
    <3>2. expect'[p] = CValue(T, FALSE, memory'[lent'[p]])
      BY <1>2, <2>1, <2>2
    <3> QED
      BY <2>2, <3>1, <3>2 DEF Kept
  <2>3. UNCHANGED <<bound, expect, lent>> => Kept(p)'
    BY <1>4, <1>7
  <2>4. expect'[p] = Unknown => Kept(p)'
    BY <1>5, <1>7
  <2> QED
    BY <1>7, <2>2, <2>3, <2>4, Zenon DEF Outcome
<1>8. \A o \in Params : Kept(o)'
  <2>1. p \in Params => Kept(p)'
    BY <1>1, <1>6, <1>7, BindEffect
  <2> QED
    BY <1>4, <2>1
<1>9. vm' = "row" => \A o \in Params : expect'[o] # Unknown
  BY <1>2, <1>3 DEF BoundInv, OthersKept
<1> QED
  BY <1>2, <1>8, <1>9 DEF BoundInv

\* The caller may write to its buffers: what it relies on is in no other.
LEMMA RewriteKeeps ==
  ASSUME BoundInv, NEW b \in Buffers, NEW content \in Contents, Rewrite(b, content)
  PROVE  BoundInv'
<1> DEFINE Borrowers == {p \in Params : lent[p] = b}
<1>1. /\ Borrowers # {} => vm \in {"done", "error"}
      /\ memory' = [memory EXCEPT ![b] = content]
      /\ expect' = [p \in Params |-> IF p \in Borrowers THEN Unknown ELSE expect[p]]
      /\ lent' = [p \in Params |-> IF p \in Borrowers THEN None ELSE lent[p]]
      /\ vm' = vm /\ bound' = bound
  BY DEF Rewrite, vars, stmtVars
<1>2. BoundTyped'
  BY <1>1 DEF BoundInv, BoundTyped
<1>3. ASSUME NEW p \in Params, lent[p] # b, Kept(p)  PROVE Kept(p)'
  <2>1. expect'[p] = expect[p] /\ lent'[p] = lent[p] /\ bound'[p] = bound[p]
    BY <1>1, <1>3
  <2>2. lent[p] \in Buffers => memory'[lent[p]] = memory[lent[p]]
    BY <1>1, <1>3 DEF BoundInv, BoundTyped
  <2>3. CASE expect[p] # Unknown /\ bound[p].from # None
    <3>1. /\ lent[p] = bound[p].from /\ lent[p] \in Buffers
          /\ bound[p].value = ToSql(expect[p])
      BY <1>3, <2>3 DEF Kept
    <3>2. PICK T \in Types \ Numbers : expect[p] = CValue(T, FALSE, memory[lent[p]])
      BY <1>3, <2>3 DEF Kept
    <3>3. expect'[p] = CValue(T, FALSE, memory'[lent'[p]])
      BY <2>1, <2>2, <3>1, <3>2
    <3> QED
      BY <2>1, <2>3, <3>1, <3>3 DEF Kept
  <2>4. CASE ~(expect[p] # Unknown /\ bound[p].from # None)
    BY <1>3, <2>1, <2>4 DEF Kept
  <2> QED
    BY <2>3, <2>4
<1>4. ASSUME NEW p \in Params, lent[p] = b  PROVE Kept(p)'
  <2>1. expect'[p] = Unknown
    BY <1>1, <1>4
  <2> QED
    BY <2>1 DEF Kept
<1>5. ASSUME vm' = "row", NEW p \in Params  PROVE expect'[p] # Unknown
  BY <1>1, <1>5 DEF BoundInv
<1> QED
  BY <1>2, <1>3, <1>4, <1>5 DEF BoundInv

\* The statement runs, or is looked at, with the parameters that it has.
LEMMA RunKeeps ==
  ASSUME BoundInv, Reliable, UNCHANGED bindVars,
         \/ RunBound \/ Reset \/ Alter
         \/ \E n \in Names : ColIndex(n)
         \/ \E i \in Iters : Begin(i) \/ Increment(i) \/ Leave(i)
  PROVE  BoundInv'
<1>1. BoundTyped' /\ \A p \in Params : Kept(p)'
  BY DEF BoundInv, BoundTyped, Kept, bindVars
<1>2. vm' = "row" => vm = "row" \/ \A p \in Params : expect[p] # Unknown
  <2>1. CASE RunBound
    BY <2>1 DEF RunBound, Reliable
  <2>2. CASE \E i \in Iters : Increment(i)
    BY <2>2 DEF Increment, Reliable
  <2>3. CASE Reset
    BY <2>3 DEF Reset
  <2>4. CASE \/ Alter \/ \E n \in Names : ColIndex(n)
             \/ \E i \in Iters : Begin(i) \/ Leave(i)
    BY <2>4 DEF Alter, ColIndex, Begin, Leave, stmtVars
  <2> QED
    BY <2>1, <2>2, <2>3, <2>4
<1>3. vm' = "row" => \A p \in Params : expect'[p] # Unknown
  BY <1>2 DEF BoundInv, bindVars
<1> QED
  BY <1>1, <1>3 DEF BoundInv

LEMMA BoundStep == ASSUME BoundInv, Reliable, [BindNext]_allVars PROVE BoundInv'
<1>1. CASE RunBound \/ ResetBound
  BY <1>1, RunKeeps DEF RunBound, ResetBound
<1>2. CASE ClearBindings
  <2>1. Means(Nothing, SqlNull) /\ Nothing # Unknown
    BY DEF Means, Nothing, Unknown, CValue, SqlNull, SqlValue
  <2>2. BoundTyped'
    BY <1>2 DEF ClearBindings, BoundInv, BoundTyped
  <2>3. ASSUME NEW p \in Params  PROVE Kept(p)' /\ expect'[p] # Unknown
    <3>1. bound'[p].from = None /\ bound'[p].value = SqlNull /\ expect'[p] = Nothing
      BY <1>2 DEF ClearBindings, Bound
    <3> QED
      BY <2>1, <3>1 DEF Kept
  <2> QED
    BY <2>2, <2>3 DEF BoundInv
<1>3. CASE \/ Alter /\ UNCHANGED bindVars
           \/ \E n \in Names : ColIndex(n) /\ UNCHANGED bindVars
           \/ \E i \in Iters : (Begin(i) \/ Increment(i) \/ Leave(i)) /\ UNCHANGED bindVars
  BY <1>3, RunKeeps
<1>4. ASSUME NEW idx \in -1 .. ParamCount, BindIndex(idx)  PROVE BoundInv'
  <2>1. idx + 1 \in Int /\ idx = (idx + 1) - 1
    BY ParamAssumption
  <2>2. Bind(idx + 1, (idx + 1) - 1)
    BY <1>4, <2>1 DEF BindIndex
  <2> QED
    BY <2>1, <2>2, BindKeeps
<1>5. ASSUME NEW n \in ParamNames, BindName(n)  PROVE BoundInv'
  <2>1. ParamNumber[n] \in Int
    BY ParamAssumption
  <2>2. Bind(ParamNumber[n], ParamNumber[n] - 1)
    BY <1>5 DEF BindName, ParamIndex
  <2> QED
    BY <2>1, <2>2, BindKeeps
<1>6. CASE \E b \in Buffers, content \in Contents : Rewrite(b, content)
  BY <1>6, RewriteKeeps
<1>7. CASE UNCHANGED allVars
  BY <1>7 DEF allVars, bindVars, vars, stmtVars, BoundInv, BoundTyped, Kept
<1> QED
  BY <1>1, <1>2, <1>3, <1>4, <1>5, <1>6, <1>7 DEF BindNext

LEMMA BoundInvariant == ASSUME Reliable PROVE BindSpec => []BoundInv
<1>1. BoundInv /\ [BindNext]_allVars => BoundInv'
  BY BoundStep
<1> QED
  BY BoundInit, <1>1, PTL DEF BindSpec

\* What is kept is what the query finds.
LEMMA KeptIsSeen ==
  ASSUME BoundInv, NEW p \in Params, expect[p] # Unknown
  PROVE  Means(expect[p], Sees(p))
<1>1. CASE bound[p].from = None
  BY <1>1 DEF BoundInv, Kept, Sees
<1>2. CASE bound[p].from # None
  <2>1. lent[p] = bound[p].from /\ lent[p] \in Buffers /\ bound[p].value = ToSql(expect[p])
    BY <1>2 DEF BoundInv, Kept
  <2>2. PICK T \in Types \ Numbers : expect[p] = CValue(T, FALSE, memory[lent[p]])
    BY <1>2 DEF BoundInv, Kept
  <2>3. memory[lent[p]] \in Seq(Nat)
    BY <2>1, BufferAssumption DEF BoundInv, BoundTyped
  <2>4. Sees(p) = [ToSql(expect[p]) EXCEPT !.data = memory[lent[p]]]
    BY <1>2, <2>1 DEF Sees
  <2> DEFINE m == memory[lent[p]]
             v == CValue(T, FALSE, m)
  <2>5. Means(v, [ToSql(v) EXCEPT !.data = m])
    <3> HIDE DEF m
    <3> QED
      BY <2>3, InPlace DEF m
  <2>6. expect[p] = v
    BY <2>2
  <2> HIDE DEF v
  <2> QED
    BY <2>4, <2>5, <2>6
<1> QED
  BY <1>1, <1>2

\* A query that runs sees each parameter as the caller has bound it last, by
\* copy or in the caller's buffer, through any sequence of bind(), of refused
\* and failed bind(), reset() and clear_bindings().
THEOREM QueriesSeeBound == ASSUME Reliable PROVE BindSpec => []QuerySeesBound
<1>1. BoundInv => QuerySeesBound
  BY KeptIsSeen DEF QuerySeesBound, BoundInv
<1> QED
  BY BoundInvariant, <1>1, PTL

\* A value of each type that can be bound, whatever its content, is the same
\* when it is read back, and when a C++ function is given it and returns it;
\* but a NaN is NULL, and comes back as 0.0.
THEOREM ValuesSurviveBinding == BindSpec => []ValuesSurvive
<1> DEFINE Mem == memory \in [Buffers -> Contents]
<1>1. BindInit => Mem
  BY DEF BindInit
<1>2. Mem /\ [BindNext]_allVars => Mem'
  <2>1. ASSUME Mem, NEW b \in Buffers, NEW content \in Contents, Rewrite(b, content)
        PROVE  Mem'
    BY <2>1 DEF Rewrite
  <2>2. ASSUME NEW p, NEW idx, Bind(p, idx)  PROVE UNCHANGED memory
    BY <2>2 DEF Bind
  <2> QED
    BY <2>1, <2>2 DEF BindNext, RunBound, ResetBound, ClearBindings, BindIndex, BindName,
                      bindVars, allVars
<1>3. Mem => ValuesSurvive
  <2> SUFFICES ASSUME Mem, NEW T \in Types, NEW b \in Buffers
               PROVE  LET Survives(v) == Means(v, ToSql(v)) /\ Means(v, Returned(T, ToSql(v)))
                          content == CValue(T, FALSE, memory[b])
                      IN
                      /\ IF IsNaN(content)
                         THEN /\ ToSql(content) = SqlNull
                              /\ Returned(T, SqlNull) = SqlValue("number", Zero)
                         ELSE Survives(content)
                      /\ T = "const char*" => Survives(CValue(T, TRUE, <<>>))
                      /\ T = "blob" => Survives(CValue(T, TRUE, [i \in 1 .. Len(memory[b]) |-> 0]))
    BY DEF ValuesSurvive
  <2> DEFINE Survives(v) == Means(v, ToSql(v)) /\ Means(v, Returned(T, ToSql(v)))
             content == CValue(T, FALSE, memory[b])
  <2>1. memory[b] \in Seq(Nat) /\ Len(memory[b]) \in Nat
    BY BufferAssumption
  <2>2. ~IsNaN(content) => Survives(content)
    BY <2>1, ContentSurvives
  <2>3. T = "const char*" => Survives(CValue(T, TRUE, <<>>))
    BY NullSurvives
  <2>4. T = "blob" => Survives(CValue(T, TRUE, [i \in 1 .. Len(memory[b]) |-> 0]))
    BY <2>1, NullSurvives
  <2>5. ASSUME IsNaN(content)
        PROVE  ToSql(content) = SqlNull /\ Returned(T, SqlNull) = SqlValue("number", Zero)
    <3>1. content.type = T /\ T = "double"
      BY <2>5 DEF IsNaN, CValue
    <3> HIDE DEF content
    <3>2. ToSql(content) = SqlNull
      BY <2>5, <3>1 DEF ToSql, NumberOf, Numbers
    <3> DEFINE w == CValue("double", FALSE, Zero)
    <3>3. FromSql(T, SqlNull) = w
      BY <3>1 DEF FromSql, FromNumber, SqlNull, SqlValue, Numbers
    <3>4. w.type = "double" /\ w.data = Zero /\ Zero # NaN
      <4>1. Zero[1] = 0 /\ NaN[1] = 255
        BY DEF Zero, NaN
      <4> QED
        BY <4>1 DEF CValue
    <3> HIDE DEF w
    <3>5. ToSql(w) = SqlValue("number", Zero)
      BY <3>4 DEF ToSql, NumberOf, IsNaN, Numbers
    <3> QED
      BY <3>2, <3>3, <3>5, SameChoices
  <2> QED
    BY <2>2, <2>3, <2>4, <2>5
<1> QED
  BY <1>1, <1>2, <1>3, PTL DEF BindSpec
=============================================================================
