---------------------------- MODULE BackupProofs ----------------------------
(***************************************************************************)
(* Proofs about Backup, for databases of any size and content, any sizes   *)
(* of steps, and any number of iterators, locks and writes.                *)
(***************************************************************************)
EXTENDS Backup, TLAPS

USE PageCountAssumption, MaxDisturbedAssumption, StepSizesAssumption

\* The pages before the next one to copy are as they are in the database that
\* is copied from, whatever has been written to it since.
CopiedSoFar == \A p \in Pages : p < at => written[p] = data[From][p]

\* The copying.  The types alone are not inductive: that the committed pages
\* are versions depends on none of them being left out.
CopyInv == /\ data \in [Sides -> [Pages -> Versions]]
           /\ written \in [Pages -> Versions \cup {None}]
           /\ at \in 1 .. PageCount + 1
           /\ code \in Codes
           /\ disturbed \in 0 .. MaxDisturbed
           /\ CopiedSoFar

IterTyped == iter \in [Iters -> StepSizes \cup {None}]

LEMMA BackupInit == Init => CopyInv /\ IterTyped
BY DEF Init, CopyInv, IterTyped, CopiedSoFar, Codes, NotWritten, Sides, Pages

-----------------------------------------------------------------------------
(* The steps of SQLite. *)

\* A step copies at least one page, and none beyond the last.
LEMMA LastOfStep ==
  ASSUME CopyInv, NEW n \in StepSizes
  PROVE  LastOf(n) \in Pages /\ (LastOf(n) # PageCount => at <= LastOf(n))
BY DEF CopyInv, LastOf, Pages

\* What SQLite copies in a step of n pages.
LEMMA CopiesInv ==
  ASSUME CopyInv, NEW n \in StepSizes, SqliteCopies(n)
  PROVE  CopyInv' /\ (code' = "done" => data'[To] = data'[From])
<1> DEFINE copied == [p \in Pages |-> IF p \in at .. LastOf(n) THEN data[From][p]
                                                               ELSE written[p]]
<1>1. /\ LastOf(n) \in Pages
      /\ at \in 1 .. PageCount + 1 /\ PageCount \in Nat
      /\ data[From] \in [Pages -> Versions] /\ To # From
      /\ To \in Sides /\ From \in Sides
  BY LastOfStep DEF CopyInv, Sides, To, From
<1>2. \A p \in Pages : p <= LastOf(n) => copied[p] = data[From][p]
  BY <1>1 DEF CopyInv, CopiedSoFar, Pages
<1>3. copied \in [Pages -> Versions \cup {None}]
  BY <1>1 DEF CopyInv
<1>4. CASE LastOf(n) = PageCount
  <2>1. /\ code' = "done" /\ written' = NotWritten /\ at' = 1
        /\ data' = [data EXCEPT ![To] = copied] /\ UNCHANGED disturbed
    BY <1>4 DEF SqliteCopies
  <2>2. copied = data[From]
    <3>1. \A p \in Pages : copied[p] = data[From][p]
      BY <1>1, <1>2, <1>4 DEF Pages
    <3> QED
      BY <1>1, <3>1
  <2> HIDE DEF copied
  <2>3. data' \in [Sides -> [Pages -> Versions]] /\ data'[To] = data'[From]
    BY <1>1, <2>1, <2>2 DEF CopyInv
  <2>4. CopiedSoFar'
    BY <2>1 DEF CopiedSoFar, Pages
  <2> QED
    BY <1>1, <2>1, <2>3, <2>4 DEF CopyInv, NotWritten, Codes
<1>5. CASE LastOf(n) # PageCount
  <2>1. /\ code' = "ok" /\ written' = copied /\ at' = LastOf(n) + 1
        /\ UNCHANGED <<data, disturbed>>
    BY <1>5 DEF SqliteCopies
  <2> HIDE DEF copied
  <2>2. CopiedSoFar'
    BY <1>1, <1>2, <2>1 DEF CopiedSoFar, Pages
  <2> QED
    BY <1>1, <1>3, <1>5, <2>1, <2>2 DEF CopyInv, Codes, Pages
<1> QED
  BY <1>4, <1>5

LEMMA SqliteStepInv ==
  ASSUME CopyInv, NEW n \in StepSizes, SqliteStep(n)
  PROVE  CopyInv' /\ (code # "done" /\ code' = "done" => data'[To] = data'[From])
<1>1. CASE SqliteCopies(n)
  BY <1>1, CopiesInv
<1>2. CASE SqliteLocked
  BY <1>2 DEF SqliteLocked, CopyInv, CopiedSoFar, Codes
<1>3. CASE SqliteFails
  BY <1>3 DEF SqliteFails, CopyInv, CopiedSoFar, Codes
<1>4. CASE SqliteAgain
  BY <1>4 DEF SqliteAgain, CopyInv, CopiedSoFar
<1> QED
  BY <1>1, <1>2, <1>3, <1>4 DEF SqliteStep

\* A page that has been copied is copied again when it is written to.
LEMMA WriteInv ==
  ASSUME CopyInv, NEW p \in Pages, NEW v \in Versions, Write(p, v)
  PROVE  CopyInv'
<1>1. /\ From \in Sides /\ UNCHANGED <<code, iter>>
      /\ disturbed' \in 0 .. MaxDisturbed
  BY DEF Write, From, Sides, CopyInv
<1>2. /\ data' \in [Sides -> [Pages -> Versions]]
      /\ \A q \in Pages : data'[From][q] = IF q = p THEN v ELSE data[From][q]
  <2>1. data[From] \in [Pages -> Versions]
    BY <1>1 DEF CopyInv
  <2>2. data' = [data EXCEPT ![From] = [data[From] EXCEPT ![p] = v]]
    BY DEF Write
  <2> QED
    BY <1>1, <2>1, <2>2 DEF CopyInv
<1>3. CASE at' = 1 /\ written' = NotWritten
  BY <1>1, <1>2, <1>3 DEF CopyInv, CopiedSoFar, NotWritten, Pages
<1>4. CASE at' = at /\ written' = [written EXCEPT ![p] = IF p < at THEN v ELSE @]
  <2>1. written' \in [Pages -> Versions \cup {None}]
    BY <1>4 DEF CopyInv
  <2>2. CopiedSoFar'
    BY <1>2, <1>4 DEF CopyInv, CopiedSoFar
  <2> QED
    BY <1>1, <1>2, <1>4, <2>1, <2>2 DEF CopyInv
<1> QED
  BY <1>3, <1>4 DEF Write

-----------------------------------------------------------------------------
(* The steps of the class. *)

\* Only a step that SQLite answers with "done" takes an iterator to the end.
LEMMA IncrementInv ==
  ASSUME CopyInv, IterTyped, NEW i \in Iters, Increment(i)
  PROVE  /\ CopyInv' /\ IterTyped'
         /\ iter'[i] = None => code' = "done"
         /\ code # "done" /\ code' = "done" => data'[To] = data'[From]
<1>1. iter[i] \in StepSizes /\ SqliteStep(iter[i])
  BY DEF Increment, On, IterTyped
<1>2. CopyInv' /\ (code # "done" /\ code' = "done" => data'[To] = data'[From])
  BY <1>1, SqliteStepInv
<1>3. Outcome(code') = "end" <=> code' = "done"
  BY <1>2 DEF Outcome, CopyInv, Codes
<1>4. IterTyped' /\ (iter'[i] = None => code' = "done")
  BY <1>1, <1>3 DEF Increment, IterTyped
<1> QED
  BY <1>2, <1>4

\* The iterators that are at work are left alone by the other steps.
LEMMA BackupStep ==
  ASSUME CopyInv, IterTyped, [Next]_vars
  PROVE  /\ CopyInv' /\ IterTyped'
         /\ code # "done" /\ code' = "done" => data'[To] = data'[From]
<1> DEFINE Goal == /\ CopyInv' /\ IterTyped'
                   /\ code # "done" /\ code' = "done" => data'[To] = data'[From]
<1>1. CASE Construct \/ Destroy
  BY <1>1 DEF Construct, Destroy, CopyInv, CopiedSoFar, IterTyped, NotWritten, Codes, Pages
<1>2. ASSUME NEW n \in StepSizes, Step(n)  PROVE Goal
  BY <1>2, SqliteStepInv DEF Step, IterTyped
<1>3. ASSUME NEW p \in Pages, NEW v \in Versions, Write(p, v)  PROVE Goal
  BY <1>3, WriteInv DEF Write, IterTyped
<1>4. ASSUME NEW i \in Iters, (\E n \in StepSizes : Begin(i, n)) \/ Leave(i)  PROVE Goal
  BY <1>4 DEF Begin, Leave, CopyInv, CopiedSoFar, IterTyped
<1>5. ASSUME NEW i \in Iters, Increment(i)  PROVE Goal
  BY <1>5, IncrementInv
<1>6. CASE UNCHANGED vars
  BY <1>6 DEF vars, CopyInv, CopiedSoFar, IterTyped
<1> QED
  BY <1>1, <1>2, <1>3, <1>4, <1>5, <1>6 DEF Next

LEMMA BackupInvariant == Spec => [](CopyInv /\ IterTyped)
BY BackupInit, BackupStep, PTL DEF Spec

\* The types of a backup, its iterators and both databases.
THEOREM BackupTypes == Spec => []TypeOK
<1>1. CopyInv /\ IterTyped => TypeOK
  BY DEF CopyInv, IterTyped, TypeOK
<1> QED
  BY <1>1, BackupInvariant, PTL

\* A loop that gets to its end has the whole database copied, whatever other
\* iterators, locks and failures came in between; and the copy that is
\* committed is of the database as it is then, not of one half old half new.
THEOREM LoopsComplete == Spec => LoopCompletes
<1> DEFINE Complete ==
      /\ \A i \in Iters : On(i) /\ Increment(i) /\ iter'[i] = None => code' = "done"
      /\ code # "done" /\ code' = "done" => data'[To] = data'[From]
<1>1. CopyInv /\ IterTyped /\ [Next]_vars => [Complete]_vars
  BY BackupStep, IncrementInv
<1> QED
  BY <1>1, BackupInvariant, PTL DEF Spec, LoopCompletes
=============================================================================
