------------------------------- MODULE Backup -------------------------------
(***************************************************************************)
(* class backup: copying one database to another in steps.                 *)
(*                                                                         *)
(* SQLite is external: a step copies some pages into a transaction on the  *)
(* destination and commits it with the last page.  Pages that change       *)
(* meanwhile are copied again, or the copying starts over.  A step that    *)
(* cannot get a lock may be tried again, other errors are final, and after *)
(* the end SQLite answers "done" for ever.                                 *)
(***************************************************************************)
EXTENDS Integers

CONSTANTS Iters,         \* step_iterators
          PageCount,     \* the pages of the database
          Versions,      \* what a page may hold
          StepSizes,     \* the numbers of pages to copy at once
          MaxDisturbed,  \* the most writes and locks in between (a bound)
          None

ASSUME PageCountAssumption == PageCount \in Nat \ {0}
ASSUME MaxDisturbedAssumption == MaxDisturbed \in Nat
\* begin(0) and step(0), which copy nothing and never end, are left out.
ASSUME StepSizesAssumption == StepSizes \subseteq Int \ {0} /\ None \notin StepSizes

Pages == 1 .. PageCount
Sides == {"dest", "source"}    \* the parameters of the constructor

VARIABLES data,       \* the committed pages of both databases
          written,    \* the uncommitted pages of the copy
          at,         \* the next page to copy
          code,       \* the last result code, or "none" without a backup
          iter,       \* b and stepsize of the iterators; None for a null b
          disturbed   \* writes and locks so far

vars == <<data, written, at, code, iter, disturbed>>

Codes == {"none", "ok", "done", "busy", "error"}
NotWritten == [p \in Pages |-> None]

TypeOK ==
  /\ data \in [Sides -> [Pages -> Versions]]
  /\ written \in [Pages -> Versions \cup {None}]
  /\ at \in 1 .. PageCount + 1
  /\ code \in Codes
  /\ iter \in [Iters -> StepSizes \cup {None}]
  /\ disturbed \in 0 .. MaxDisturbed

Init ==
  /\ data \in [Sides -> [Pages -> Versions]]
  /\ written = NotWritten /\ at = 1
  /\ code = "none"
  /\ iter = [i \in Iters |-> None]
  /\ disturbed = 0

On(i) == iter[i] # None

-----------------------------------------------------------------------------
(* What the constructor passes to sqlite3_backup_init(), whose parameters   *)
(* are the destination and then the source.                                 *)
To == "source"
From == "dest"

\* The constructor; it throws when SQLite makes no handle.
Construct ==
  /\ code = "none"
  /\ code' = "ok"
  /\ UNCHANGED <<data, written, at, iter, disturbed>>

\* The destructor: an unfinished copy is rolled back.
Destroy ==
  /\ code # "none" /\ \A i \in Iters : ~On(i)
  /\ code' = "none" /\ written' = NotWritten /\ at' = 1
  /\ UNCHANGED <<data, iter, disturbed>>

-----------------------------------------------------------------------------
(* sqlite3_backup_step(), external. *)

\* The last page of a step of n pages, all of them if n is negative.
LastOf(n) == IF n < 0 \/ at + n > PageCount THEN PageCount ELSE at + n - 1

SqliteCopies(n) ==
  /\ code \in {"ok", "busy"}
  /\ LET copied == [p \in Pages |-> IF p \in at .. LastOf(n) THEN data[From][p]
                                                             ELSE written[p]]
     IN IF LastOf(n) = PageCount
        THEN /\ code' = "done"
             /\ data' = [data EXCEPT ![To] = copied]
             /\ written' = NotWritten /\ at' = 1
        ELSE /\ code' = "ok"
             /\ written' = copied /\ at' = LastOf(n) + 1
             /\ UNCHANGED data
  /\ UNCHANGED disturbed

SqliteLocked ==
  /\ code \in {"ok", "busy"} /\ disturbed < MaxDisturbed
  /\ code' = "busy" /\ disturbed' = disturbed + 1
  /\ UNCHANGED <<data, written, at>>

SqliteFails ==
  /\ code \in {"ok", "busy"}
  /\ code' = "error"
  /\ UNCHANGED <<data, written, at, disturbed>>

SqliteAgain ==
  /\ code \in {"done", "error"}
  /\ UNCHANGED <<data, written, at, code, disturbed>>

SqliteStep(n) == SqliteCopies(n) \/ SqliteLocked \/ SqliteFails \/ SqliteAgain

\* The database copied from is written to: SQLite copies the page again, or
\* starts over when another connection has written it.
Write(p, v) ==
  /\ disturbed < MaxDisturbed /\ disturbed' = disturbed + 1
  /\ data' = [data EXCEPT ![From][p] = v]
  /\ \/ at' = 1 /\ written' = NotWritten
     \/ at' = at /\ written' = [written EXCEPT ![p] = IF p < at THEN v ELSE @]
  /\ UNCHANGED <<code, iter>>

-----------------------------------------------------------------------------
(* step(), run() and the iterators. *)

\* Mutant: everything but SQLITE_OK ends the backup.
EndOfCode(rv) == IF rv = "ok" THEN "more" ELSE "end"

\* What step() makes of the result code: true, false or an exception.
Outcome(rv) == CASE rv = "ok"   -> "more"
                 [] rv = "done" -> "end"
                 [] OTHER       -> "thrown"

\* step(n), and run(), which is step(-1).
Step(n) ==
  /\ code # "none"
  /\ SqliteStep(n)
  /\ UNCHANGED iter

\* begin(n), an iterator that has not made a step yet.
Begin(i, n) ==
  /\ code # "none" /\ ~On(i)
  /\ iter' = [iter EXCEPT ![i] = n]
  /\ UNCHANGED <<data, written, at, code, disturbed>>

\* Mutant: operator++ does not look at the result of step().
IncrementBlindly(i) ==
  /\ On(i) /\ SqliteStep(iter[i])
  /\ UNCHANGED iter

\* Mutant: at the end operator++ clears the step size, and not b.
IncrementToSizeZero(i) ==
  /\ On(i) /\ SqliteStep(iter[i])
  /\ iter' = IF Outcome(code') = "end" THEN [iter EXCEPT ![i] = 0] ELSE iter

\* operator++: a step, after which the iterator is at the end when step()
\* returned false.  An exception leaves it where it was.
Increment(i) ==
  /\ On(i) /\ SqliteStep(iter[i])
  /\ iter' = IF Outcome(code') = "end" THEN [iter EXCEPT ![i] = None] ELSE iter

\* The loop is left early.
Leave(i) ==
  /\ On(i)
  /\ iter' = [iter EXCEPT ![i] = None]
  /\ UNCHANGED <<data, written, at, code, disturbed>>

-----------------------------------------------------------------------------
Next == \/ Construct \/ Destroy
        \/ \E n \in StepSizes : Step(n)
        \/ \E p \in Pages, v \in Versions : Write(p, v)
        \/ \E i \in Iters, n \in StepSizes : Begin(i, n)
        \/ \E i \in Iters : Increment(i) \/ Leave(i)

Spec == Init /\ [][Next]_vars

\* A loop goes on, and is left when an exception is thrown.
LoopStep(i) == Increment(i) \/ (Outcome(code) = "thrown" /\ Leave(i))

FairSpec == Spec /\ \A i \in Iters : WF_vars(LoopStep(i))

-----------------------------------------------------------------------------
(* What makes it correct. *)

\* The iterators are there "to iterate through the complete backup"
\* (backup.hpp:76): one that gets to the end without an exception has the
\* copy committed, whichever of the iterators and step() calls did so; and
\* when that happens, what is copied to is what is copied from, even if some
\* of it was written to between the steps.
LoopCompletes ==
  [][/\ \A i \in Iters : On(i) /\ Increment(i) /\ iter'[i] = None => code' = "done"
     /\ code # "done" /\ code' = "done" => data'[To] = data'[From]]_vars

\* A loop ends, also when other iterators and step() calls finish the backup
\* or meet its errors, if the database is left alone at some time.
LoopEnds == \A i \in Iters : On(i) ~> ~On(i)

\* backup(connection &dest, ..., connection &source, ...) copies "from one DB
\* to another" (backup.hpp:14,24): the source is not changed by a step.
SourceIsKept ==
  [][code # "done" /\ code' = "done" => data'["source"] = data["source"]]_vars
=============================================================================
