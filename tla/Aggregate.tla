----------------------------- MODULE Aggregate -----------------------------
(***************************************************************************)
(* The state of an aggregate function: class aggregate_data.               *)
(*                                                                         *)
(* A query has one aggregate context for each aggregate call in it, memory *)
(* that SQLite makes at the first step of a group and frees after final.   *)
(* sqxx constructs the state object in that memory at the first step, as a *)
(* copy of the zero state, and destroys it in final.  SQLite is external:  *)
(* it steps through the rows of a group and calls final for every call; a  *)
(* query that fails calls final for the contexts that were asked for.      *)
(***************************************************************************)
EXTENDS Integers, Sequences

CONSTANTS Queries,     \* queries that run, nested or in other threads
          Calls,       \* the aggregate calls in a query
          Values,      \* the arguments of step
          MaxRows,     \* the most rows of a group (a bound for TLC)
          ZeroThrows   \* whether copying the zero state may throw

ASSUME ZeroThrowsAssumption == ZeroThrows \in BOOLEAN
ASSUME MaxRowsAssumption == MaxRows \in Nat

VARIABLES phase,     \* of a query: "idle", "scan", "output", "abort"
          memory,    \* the aggregate context of each call of each query
          count,     \* times a state was constructed minus times destroyed
          state,     \* what has been folded into the state, from the zero
          running,   \* which callable runs
          fed,       \* the arguments step was called with in this group
          left       \* the calls whose final is still to come

vars == <<phase, memory, count, state, running, fed, left>>

\* "none":    SQLite has not been asked for memory
\* "null":    it had none
\* "fresh":   the memory is zeroed, so `initialized` is false
\* "flagged": `initialized` is true
Memory == {"none", "null", "fresh", "flagged"}

TypeOK ==
  /\ phase \in [Queries -> {"idle", "scan", "output", "abort"}]
  /\ memory \in [Queries -> [Calls -> Memory]]
  /\ count \in [Queries -> [Calls -> {0, 1}]]   \* no state, or one
  /\ state \in [Queries -> [Calls -> Seq(Values)]]
  /\ running \in [Queries -> [Calls -> {"none", "step", "final"}]]
  /\ fed \in [Queries -> [Calls -> Seq(Values)]]
  /\ left \in [Queries -> SUBSET Calls]

Zero == <<>>       \* nothing folded: aggregate_data::state_zero

Init ==
  /\ phase = [q \in Queries |-> "idle"]
  /\ memory = [q \in Queries |-> [c \in Calls |-> "none"]]
  /\ count = [q \in Queries |-> [c \in Calls |-> 0]]
  /\ state = [q \in Queries |-> [c \in Calls |-> Zero]]
  /\ running = [q \in Queries |-> [c \in Calls |-> "none"]]
  /\ fed = [q \in Queries |-> [c \in Calls |-> <<>>]]
  /\ left = [q \in Queries |-> {}]

\* SQLite calls one callable of a query at a time.
Quiet(q) == \A c \in Calls : running[q][c] = "none"

\* aggregate_context() returns a pointer.
HasMemory(q, c) == memory[q][c] \in {"fresh", "flagged"}

-----------------------------------------------------------------------------
(* step *)

\* The query fails.  final is still called for the contexts asked for.
Fail(q) ==
  /\ phase' = [phase EXCEPT ![q] = "abort"]
  /\ left' = [left EXCEPT ![q] = {c \in Calls : memory'[q][c] # "none"}]

\* The constructor of the state: `initialized` is set, the zero is copied.
Construct(q, c) ==
  /\ memory' = [memory EXCEPT ![q][c] = "flagged"]
  /\ count' = [count EXCEPT ![q][c] = @ + 1]
  /\ state' = [state EXCEPT ![q][c] = Zero]
  /\ running' = [running EXCEPT ![q][c] = "step"]
  /\ UNCHANGED <<phase, left>>

\* The copy of the zero throws, after `initialized` has been set in an object
\* that never comes to exist: the flag may or may not be in the memory.
ConstructThrows(q, c) ==
  /\ ZeroThrows
  /\ \E m \in {"fresh", "flagged"} : memory' = [memory EXCEPT ![q][c] = m]
  /\ Fail(q)
  /\ UNCHANGED <<count, state, running>>

\* SQLite has no memory: std::bad_alloc, which becomes SQLITE_NOMEM.
NoMemory(q, c) ==
  /\ memory' = [memory EXCEPT ![q][c] = "null"]
  /\ Fail(q)
  /\ UNCHANGED <<count, state, running>>

\* Mutant: `initialized` is not looked at.
GetStateAnew(q, c) ==
  \/ Construct(q, c)
  \/ memory[q][c] = "none" /\ (ConstructThrows(q, c) \/ NoMemory(q, c))

\* get_state_create(): constructs the state in memory that is not flagged.
GetStateCreate(q, c) ==
  \/ memory[q][c] = "none" /\ (\/ Construct(q, c)
                               \/ ConstructThrows(q, c)
                               \/ NoMemory(q, c))
  \/ /\ memory[q][c] = "flagged"
     /\ running' = [running EXCEPT ![q][c] = "step"]
     /\ UNCHANGED <<phase, memory, count, state, left>>

\* step_call() up to the callable, which may run other queries.
BeginStep(q, c) ==
  /\ phase[q] = "scan" /\ Quiet(q)
  /\ Len(fed[q][c]) < MaxRows
  /\ GetStateCreate(q, c)
  /\ UNCHANGED fed

\* The callable has folded v into the state.
EndStep(q, c, v) ==
  /\ running[q][c] = "step"
  /\ state' = [state EXCEPT ![q][c] = Append(@, v)]
  /\ fed' = [fed EXCEPT ![q][c] = Append(@, v)]
  /\ running' = [running EXCEPT ![q][c] = "none"]
  /\ UNCHANGED <<phase, memory, count, left>>

\* The callable throws, before or after it has changed the state;
\* aggregate_call_step() reports an error to SQLite.
StepThrows(q, c, v) ==
  /\ running[q][c] = "step"
  /\ \/ UNCHANGED state
     \/ state' = [state EXCEPT ![q][c] = Append(@, v)]
  /\ running' = [running EXCEPT ![q][c] = "none"]
  /\ UNCHANGED <<memory, count, fed>>
  /\ Fail(q)

-----------------------------------------------------------------------------
(* final *)

\* final_call() up to the callable.
BeginFinal(q, c) ==
  /\ Quiet(q) /\ c \in left[q]
  /\ running' = [running EXCEPT ![q][c] = "final"]
  /\ left' = [left EXCEPT ![q] = @ \ {c}]
  /\ UNCHANGED <<phase, memory, count, state, fed>>

\* The state that final's callable is given: get_state_existing(), or the zero.
FinalArgument(q, c) == IF HasMemory(q, c) THEN state[q][c] ELSE Zero

\* Mutant: the state is destroyed explicitly, and by ownedobj_ptr again.
DisposeTwice(q, c, thrown) ==
  /\ count' = [count EXCEPT ![q][c] = IF HasMemory(q, c) THEN @ - 2 ELSE @]
  /\ state' = [state EXCEPT ![q][c] = Zero]
  /\ memory' = [memory EXCEPT ![q][c] = "none"]

\* Mutant: the state is destroyed only when the callable returns.
DisposeOnReturn(q, c, thrown) ==
  /\ count' = [count EXCEPT ![q][c] = IF HasMemory(q, c) /\ ~thrown THEN @ - 1 ELSE @]
  /\ state' = [state EXCEPT ![q][c] = Zero]
  /\ memory' = [memory EXCEPT ![q][c] = "none"]

\* Mutant: SQLite's memory is taken to be all there is to free.
DisposeNothing(q, c, thrown) ==
  /\ state' = [state EXCEPT ![q][c] = Zero]
  /\ memory' = [memory EXCEPT ![q][c] = "none"]
  /\ UNCHANGED count

\* ownedobj_ptr destroys the state, also when the callable throws, and
\* SQLite frees the memory.
Dispose(q, c, thrown) ==
  /\ count' = [count EXCEPT ![q][c] = IF HasMemory(q, c) THEN @ - 1 ELSE @]
  /\ state' = [state EXCEPT ![q][c] = Zero]
  /\ memory' = [memory EXCEPT ![q][c] = "none"]

EndFinal(q, c) ==
  /\ running[q][c] = "final"
  /\ Dispose(q, c, FALSE)
  /\ running' = [running EXCEPT ![q][c] = "none"]
  /\ UNCHANGED <<phase, fed, left>>

FinalThrows(q, c) ==
  /\ running[q][c] = "final"
  /\ Dispose(q, c, TRUE)
  /\ running' = [running EXCEPT ![q][c] = "none"]
  /\ Fail(q)
  /\ UNCHANGED fed

-----------------------------------------------------------------------------
(* The query, external. *)

StartGroup(q) ==
  /\ phase[q] = "idle" \/ (phase[q] = "output" /\ left[q] = {} /\ Quiet(q))
  /\ phase' = [phase EXCEPT ![q] = "scan"]
  /\ fed' = [fed EXCEPT ![q] = [c \in Calls |-> <<>>]]
  /\ UNCHANGED <<memory, count, state, running, left>>

\* The group ends; a call that had no row is finalized without memory.
EndGroup(q) ==
  /\ phase[q] = "scan" /\ Quiet(q)
  /\ phase' = [phase EXCEPT ![q] = "output"]
  /\ left' = [left EXCEPT ![q] = Calls]
  /\ UNCHANGED <<memory, count, state, running, fed>>

\* The query fails on its own, or is reset.
Interrupt(q) ==
  /\ phase[q] \in {"scan", "output"} /\ Quiet(q)
  /\ UNCHANGED <<memory, count, state, running, fed>>
  /\ Fail(q)

EndQuery(q) ==
  /\ phase[q] \in {"output", "abort"} /\ left[q] = {} /\ Quiet(q)
  /\ phase' = [phase EXCEPT ![q] = "idle"]
  /\ fed' = [fed EXCEPT ![q] = [c \in Calls |-> <<>>]]
  /\ UNCHANGED <<memory, count, state, running, left>>

-----------------------------------------------------------------------------
Query(q) ==
  \/ StartGroup(q) \/ EndGroup(q) \/ Interrupt(q) \/ EndQuery(q)
  \/ \E c \in Calls : \/ BeginStep(q, c) \/ BeginFinal(q, c)
                      \/ EndFinal(q, c) \/ FinalThrows(q, c)
  \/ \E c \in Calls, v \in Values : EndStep(q, c, v) \/ StepThrows(q, c, v)

Next == \E q \in Queries : Query(q)

Spec == Init /\ [][Next]_vars

\* A query goes on: callables return or throw, and groups are finite.
FairSpec == Spec /\ \A q \in Queries : WF_vars(Query(q))

-----------------------------------------------------------------------------
(* What makes it correct. *)

\* The result of a group is final of the zero state stepped through the rows
\* of that group, each once and in order, whatever the groups before it, the
\* calls beside it and failed queries left behind.  Without a row it is final
\* of the zero state.
ResultOfGroup ==
  \A q \in Queries, c \in Calls :
    running[q][c] = "final" /\ phase[q] = "output" =>
      FinalArgument(q, c) = fed[q][c]

\* "The state has to be destroyed again after the end of the aggregation"
\* (DESIGN.md:129): when SQLite frees the memory no state is left in it, also
\* after exceptions in the callables or a failure of the query.
StatesDestroyed ==
  \A q \in Queries, c \in Calls : memory[q][c] = "none" => count[q][c] = 0

\* "We have state" (final_call): the memory that final finds holds a state.
FinalHasState ==
  \A q \in Queries, c \in Calls :
    running[q][c] = "final" /\ HasMemory(q, c) => count[q][c] = 1

\* Every state is destroyed at some time.
AggregationEnds ==
  \A q \in Queries, c \in Calls : count[q][c] = 1 ~> count[q][c] = 0
=============================================================================
