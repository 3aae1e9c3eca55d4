# Verification of sqxx

`sqxx` (in `src/`) is a C++ wrapper around the SQLite C API. It has few threads
and no network; what is hard in it is *ownership across a language boundary*:
SQLite is given bare pointers to C++ objects and calls back through them, handles
outlive the objects that closed them, setters run in two steps, and caches mirror
what SQLite knows better. This project models that logic in TLA+, checks it with
TLC on small instances, and proves its safety properties with TLAPS for all
instances.

## Inventory

| Component (source) | State it keeps | Operations | What makes it correct | Where |
|---|---|---|---|---|
| Connection life cycle (`connection.cpp`, `connection.hpp`) | `handle`; SQLite's state of the database: open, zombie, freed | constructor, `open`, `close`, `close_sync`, destructor, defaulted moves | each handle is closed once, no handle is lost, a delayed closure finishes | `Connection` |
| Statement life cycle (`statement.cpp`, `statement.hpp`) | `handle`, reference to the connection | `prepare`, destructor, defaulted move | each handle is finalized once, no statement loses its database | `Connection` |
| Connection handlers (`connection.cpp`) | `callbacks` (a table of ten `unique_ptr`s), the hooks inside SQLite | `set_X_handler(fun)`, `set_X_handler()`, `busy_timeout`, `wal_autocheckpoint`, the trampolines | what SQLite can call is not freed, everything made is freed once | `Handlers` |
| SQL functions, aggregates, collations (`connection_create_*.impl.hpp`, `connection_callbacks.impl.hpp`) | heap copies of callables, owned by SQLite | `create_X`, `remove_X`, the trampolines | a copy lives exactly as long as its registration | `Registration` |
| Statement execution (`statement.cpp`, `statement.hpp`) | `completed`, the table of column indexes, iterators | `step`, `run`, `next_row`, `reset`, `begin`, `operator++`, `col_index` | every row once, loops end, columns found where they are | `Statement` |
| Parameters (`statement.cpp`, `parameter.*`) | bindings inside SQLite, pointers into the caller's buffers | `bind` by index, name and `parameter`, `clear_bindings` | a query sees what was bound last | `Binding` |
| Values (`statement.cpp`, `value.cpp`, `context.cpp`) | none of their own | `bind`, `val`, `value::val`, `result` per type | a value means the same when it is bound and read back | `Values` |
| Aggregate state (`connection_create_aggregate.impl.hpp`) | the struct in SQLite's aggregate context | step, final | a state per group, constructed and destroyed once | `Aggregate` |
| `exec` and the exception boundary (`connection.cpp`, `error.cpp`) | `exec_context`, the error message, `callback_exception_handler` | `exec`, trampolines, `set_callback_exception_handler` | callers learn what happened, messages are freed, `exec` ends | `Boundary` |
| Backup (`backup.cpp`, `backup.hpp`) | handle, step iterator | `step`, `run`, `begin`, `operator++`, `remaining` | copies in the right direction, iterators end with the copy | `Backup` |
| Library configuration (`config.cpp`, `sqxx.cpp`) | `config_callbacks`, `setup`; SQLite's options, initialized or not | `config_*`, `lib_setup`, `sqlite3_initialize`, `sqlite3_shutdown` | log handlers live while SQLite logs; options are set as asked, which one function breaks and no run is about | `Library` |
| Blobs (`blob.cpp`) | handle, position | `read`, `write`, `seek`, `close` | stays in bounds | not modelled: none can be made |
| Columns, global functions | none of their own | forwarding | - | not modelled |
| Callable traits, tests, examples | none at run time | - | - | not modelled |

How they interact: a `statement` refers to its `connection` by reference and to the
same database through its own handle; `close()` on a connection with statements
leaves a *zombie* database, which the last `~statement()` frees. The zombie keeps
calling the handlers, which the *connection object* owns, and the registered
functions, which *SQLite* owns. Handlers and functions run inside a `step()` and
may use connections themselves. `Handlers` and `Registration` therefore both
extend `Connection`, and both implement one abstract specification. All callbacks,
the row handler of `exec()` and the log handler of the library run *inside* C
functions, may run SQL themselves, and may throw, which `Boundary` is about.

Hard behaviours: the two steps of every setter (SQLite is told first, the table
is changed afterwards) with calls, other connections and allocation failures in
between; delayed closing; destruction in two steps (the body closes, the members
die afterwards); moves defaulted over raw handles; data destroyed by SQLite for a
refused function but not for a refused collation; recompilation of a statement
under a cache of its columns; exceptions in callbacks nested in one another; calls
that SQLite refuses halfway. There is no persistence of the library's own, so
there is no crash recovery; there are no messages to lose.
`PROJECT.json` lists the hazards line by line.

## Modules

**`Connection`** - `Conns`, `Stmts` are the C++ objects, `Dbs`, `Vms` the handles of
SQLite. Each is memory that is used again after destruction. One action per
operation; `CloseV2` and `Finalize` are the C library (external), modelled from how
`connection.cpp` and `statement.cpp` use it. The constant `Beyond` names what may
happen beyond the plain use of the classes: `"move"`, `"overwrite"` (opening over an
open handle), `"reopen"` (opening while statements of the closed database remain),
`"reentrant"` (a handler sets or clears itself), `"nomem"`.
`Beyond = {}` is called *the contract* below. One obligation is always on the
caller, as `statement.hpp:48-50` has it: a connection object outlives its statements.

**`Handlers`** extends it with the callback table. `Register`, `Unregister` and
`UseBuiltin` are the first half of a setter (up to the call of `sqlite3_X_hook`),
`Store` is the second (the table takes the object, the replaced one is freed),
`StoreNoMem` the second when `setup_callbacks()` throws. A handler may set and
clear the other handlers of the connection that calls it. The code does not look whether
it sets or clears itself (`connection.cpp:456`), which frees it while it runs: `CanSet` asks that
of the *caller*, and `"reentrant"` lifts it. `Call` and `Return` are a
trampoline, two actions because anything may happen on other connections in
between. The life-cycle actions are those of `Connection` with their effect on the
table and the hooks. All ten kinds of handlers have the same code, so one set of
actions with a `Kinds` parameter stands for them; `BuiltinKinds` and `CompileKinds` say
where they differ.

**`Registration`** extends `Connection` with SQL functions, aggregates and collations.
`count` is the number of times a copy was made minus the times it was destroyed, so
that a double free is a state (-1) and not a silent no-op. `FunctionDestroys` and
`CollationDestroys` are SQLite's share, `FunctionCleanup` and `CollationCleanup` the
wrapper's.

**`CallableStore`** is the abstract specification of these two and of the log handlers: objects are stored, bound
(SQLite has a pointer) and in use (a call runs), and nothing bound or in use is
freed. `Handlers` maps `heap`, the set of hooks and the running handlers to it;
`Registration` maps the counted copies, the registrations and the running calls.

**`Statement`** is one statement with its iterators. SQLite's cursor is external and
goes to a row, to the end, or fails, nondeterministically; `Alter` changes the schema
between executions. `first` and `stale` of an iterator are history that the code does
not keep. Its `Beyond` names uses outside the documented pattern.

**`Binding`** extends `Statement` with its parameters. `bound` is SQLite's side: a value,
or the buffer it is in when `copy` is false. The caller is modelled by what it relies
on: `expect`, the value it has bound last as it was told by returns and exceptions,
and `lent`, the buffers it leaves alone until the query is completed, as
`statement.hpp:135-140` asks of it. `reset()` keeps bindings and pointers; SQLite refuses to
bind to a statement that is not reset, or may be out of memory. A parameter can be
bound by index, by name, or through a `parameter` object; names go through
`ParamIndex`, indexes are one less than SQLite's numbers.

**`Values`** has the conversions: `ToSql` is what the specializations of `bind()` choose,
`FromSql` those of `val()`, `Argument` those of `value::val()` and `Result` those of
`context::result()`, for the six types, with null pointers, zeroes inside of strings, and
NaN, which SQLite makes a NULL of and which then reads back as 0.0. `Means` is what the
documentation promises of them. That the length of a blob is narrowed to `int`
(`datatypes.hpp:15`) is left out: contents are short.

**`Library`** is the configuration of SQLite as a whole: the static objects `setup` and
`config_callbacks`, each with its destruction, the log handlers, and one action for
the `config_X()` functions without a handler. SQLite's part is whether it is
initialized, its options, and whether it accepts a call (`ConfigCodes`; versions differ
on the log handler). `OptionOf` is the option that a function hands to SQLite, which is
not its own for `config_stmtjrnl_spill()`. `LibBeyond` names `"exit"`, the other order of
destruction.

**`Boundary`** extends it with the stack: frames of `exec()` and, alternating with them,
callbacks - the row handler, handlers, functions and the log handler - and the handler
of exceptions on top of a callback that threw. A frame of `exec()` has the fields of
`exec_context`; `first` and `failed` are history that the code does not keep. Each callback
returns or throws, and C++ code at any depth may call `exec()` or configure the
library; SQLite calls back in any order. `FailsSql` says for which callbacks an
exception becomes a failure. Here the log handlers implement `CallableStore`, too.

**`Aggregate`** is class `aggregate_data`: the state object that step constructs in the
aggregate context of SQLite and final destroys. `memory` is that context with its
flag `initialized`; `count` is constructions minus destructions, so that a state
destroyed twice is visible; `state` is the sequence of arguments folded into it, so
that any step callable is covered. Step and final are two actions each, around the
callable, and each can throw. What SQLite does is external: groups, final for every
call of a group, final for the contexts in use when a query fails.

**`Backup`** is class `backup` with its step iterators on two databases of pages. The
constructor's choice of arguments is `To` and `From`; `Outcome` is what `step()` makes
of a result code. SQLite's part (a transaction on the destination, pages copied again
or from the start when they change, locks) is external. `StepSizes` leaves out 0, which
`begin(int)` accepts: such a step copies nothing, so that the loop never ends.

`MC*` modules give TLC the sets that a `.cfg` cannot write. `*Proofs` modules hold
the theorems of the module they are named after.

## Runs

| Run | Question | Result |
|---|---|---|
| `connection` | Is a handle ever lost, with the defaulted moves? Does a delayed closure finish? | no; yes |
| `connection_owners` | Has each statement handle one owner, with moves? | **violated** |
| `handlers` | Within the contract, with handlers that set and clear the others of their connection: one owner per handle, nothing that SQLite can call is freed, nothing leaks, collations find their connection, `CallableStore` is implemented | holds |
| `handlers_beyond` | Everything in `Beyond` at once: has each handler one owner? | holds |
| `registration` | Are copies destroyed exactly once and never during a call? `CallableStore`? | holds |
| `statement` | Documented use, with errors, early exits, schema changes, refused calls of `bind()`, buffers reused: are loops, columns and parameters right? Does each type survive, a NaN excepted? | yes |
| `statement_early` | Are columns correct if looked up before the first step? | **violated** |
| `aggregate` | Is each result that of its own group? Is each state destroyed once, in the end? | yes |
| `aggregate_throws` | Does final find a state in its memory, if copying the zero may throw? | **violated** |
| `backup` | Does a loop over the steps end, and with the backup complete? Is a completed backup a copy? | yes |
| `backup_direction` | Is the database called source kept? | **violated** |
| `boundary` | Callbacks that throw, nested: does each `exec()` tell its caller, free its message, and end? Are the log handlers live until the exit? `CallableStore`? | yes |

Bounds. Two connections, two statements, two databases and two statement handles:
the least with which handles can be confused, reused, or kept by a second
statement, and with which one connection acts during the setter or the call of
another. Three handler objects: one in the table, one in a setter, one of the other
connection. Two kinds of handlers in `handlers`: `"wal"` has a built-in alternative,
`"collation"` has the back reference and is not called on a zombie; the other eight
behave as one or the other. `MaxRows` is 3 (a first, a middle and a last row),
`MaxRowidx` cuts an iterator's counter one after the last row, which no documented
use reaches. The schemas have one column, two of which the second is the same, and a repeated name.
One iterator
is enough in `statement`, as documented loops do not share a statement. Two
parameters, three names of which one is unknown, indexes one beyond both ends, one
buffer with three contents, of which one is a NaN: a binding can be confused with another, missing, or
changed behind SQLite. `"const char*"` is the type that is bound, as it has null
pointers and buffers; `ValuesSurvive` goes through all six. `boundary` has a stack of
four (`MaxDepth`): an `exec()`, its row handler or another callback, an `exec()` in that,
and a callback of its own, or the handler of exceptions; the proofs are for any depth.
`MaxLeaks` is 2, two row handlers that throw, in sequence or nested. The three kinds of
hooks are a handler whose exception fails the statement, a function, and the log
handler, whose exception does not fail it and of which there are two, the old and the
new one. Symmetry is used for the model values in runs that check safety only.
`aggregate` has one query with two calls, groups of up to three rows and two values:
calls can fail in each other's groups, groups follow each other, and rows have an
order. Queries share nothing but the constant zero, so more of them add nothing to
the run; the proofs are for any number. `backup` copies three pages one, two
or all at a time, so that copies end exactly at and beyond a step's size;
`MaxDisturbed` is 2, a lock and a write in either order.

Fairness. `FairConnSpec` assumes that every statement object is destroyed at some
time, as scopes end; with it `DelayedClosureFinishes` says that a zombie is freed.
`Statement` assumes that a loop goes on and that a thrown exception leaves it
(`LoopStep`), which is what C++ does; `LoopEnds` follows. `Backup` assumes the same of its
loops, and `MaxDisturbed` that the database is left alone at some time. `Aggregate`
assumes that a query goes on, that is, that callables return or throw. No fairness
of users, schema changes or SQLite's outcomes is assumed. `Boundary` assumes that
callbacks end, with what they execute, and that `sqlite3_exec()` ends when it was told
to stop, as SQLite documents; it does *not* assume that an outermost `exec()` ends by
itself, so that `ThrowEndsExec` depends on the 1 that the trampoline returns. The
fairness is strong, as callbacks come in between again and again.

### What the violations show

* A moved-from `statement` keeps its handle (`statement.hpp:66`, defaulted), and both
  destructors finalize it.
* Column indexes cached before the first step survive a recompilation
  (`statement.cpp:170`).
* The constructor of the aggregate state sets `initialized` before it copies the zero
  (`connection_create_aggregate.impl.hpp:21`), and final does not look at the flag.
* `backup` hands the source to SQLite as the destination (`backup.cpp:11`).

Also visible in the models, without a run of their own: `set_X_handler()` hands SQLite
the pointer and then allocates the table (`connection.cpp:455`), and if that throws, SQLite
keeps a pointer to the freed handler (`"nomem"` in `Handlers`); `exec()` loses the error
message when it throws its row handler's exception (`MessagesFreed` counts them);
`config_stmtjrnl_spill()` sets the option of `config_pmasz()` (`config.cpp:186`, `OptionOf` in
`Library`); a handler that sets itself anew is freed while it runs (`"reentrant"` in `Handlers`);
a log handler is freed
before SQLite is shut down if the static objects go in that order (`"exit"`); `close()` keeps the table
while the zombie keeps the hooks, so that after `open()` on the same object the next
setter frees the zombie's handler (`"reopen"` in `Handlers`); after a move a collation
handler still refers to the connection it was set on (`"move"` in `Handlers`), and
`col_index()` of an unknown name answers 0 (`"unknown"` in `Statement`).

## Proofs

TLAPS proves the following for every value of the constants; every safety property
that a passing run checks is stated by one of the theorems. The named assumptions
of the modules are the only ones: `None`, `Builtin` and `Static` are not objects,
function and collation names are distinct, hooks are not log handlers, `None` is not
a number, bounds are naturals. What a theorem assumes of the *use* of the classes is
its hypothesis, as weak as the proof allows:

| Hypothesis | Behaviours excluded | Theorems |
|---|---|---|
| none | - | `ConnTypes`, `HandlersHaveOneOwner`, `HandlersRefineConnection`, `StoreIsCallable`, all of `RegistrationProofs` but `RegistrationLeakFree`, `CompletedIsTruthful`, `StatementTypes`, `BoundIsStatement`, `ValuesSurviveBinding`, `ResultsAreOfGroups`, `BackupTypes`, `LoopsComplete`, `BoundaryTypes`, `ExecIsTruthful`, `MessagesAreFreed` |
| - | `"overwrite"` | `LeakFree`, `RegistrationLeakFree` |
| - | `"move"` | `HandlesOwnedOnce`, `StatementsOwnedOnce`, and both with handlers |
| `Plain` | `"move"`, `"overwrite"` | `Ownership`, `StatementsKeepDatabase` |
| `MayReenter` | all but `"reentrant"` | `HooksAreLive`, `CollationFindsConnection`, `SettersFreeTheirOwn` |
| `WithinContract` | all | `TableImplementsStore` |
| `Looped` | `"rerun"`, `"mixed"`, `"several"`, `"idle"` | `IteratorsFollowRows`, `LoopsSeeAllRows` |
| `LookedUp` | `"rerun"`, `"early"`, `"unknown"` | `ColumnIndexesCorrect` |
| `Reliable` | `"lapsed"`, `"rerun"` | `QueriesSeeBound` |
| `~ZeroThrows` | the zero's copy throws | `StatesLiveForAggregation` |
| - | `"exit"` | `LogHandlersLive`, `LogHandlersImplementStore` |

The arguments:

* **`ConnectionProofs`** - `HandlesOwnedOnce` and `StatementsOwnedOnce` are inductive
  together with the types and `OnlyLiveHold` (an object that is not live holds no
  handle). `StatementDb` (`Ownership`) needs more: destroying needs that a statement's
  connection object is live (`ConnectionStays`), and freeing needs that nothing else is
  lost (`NothingLeaks`); `ConnInv` is their conjunction. `LeakFree`: `NothingLeaks` also
  with moves, which give a handle a second owner but never take the last.
* **`HandlersProofs`** - `HandlersRefineConnection`: every step is one of `Connection` or
  leaves it alone, so that the theorems above hold here. `HandlersHaveOneOwner` needs
  no contract: `OwnInv` says that what is in a table or in a setter is live, at one
  place only, and that everything live is at some place. `HooksAreLive` and
  `CollationFindsConnection` come from `HdlInv == ConnInv /\ OwnInv /\ HookInv`. The heart
  is where a bound object is: `HookOfOpen` (in the table of the connection that has
  the database, or in its setter when that kind is being set) and `HookOfZombie` (in
  the table of the connection that the zombie's statements refer to, which is not
  open). With `OwnedOnce` this shows that a setter frees nothing that SQLite can still
  call. None of it depends on whether a handler runs, so it holds for handlers that
  set or clear themselves. `SettersFreeTheirOwn` says what is left of a running handler
  then: `KeptInv` adds `RunningKept`, that a running handler that has not been freed is in
  the table of the connection that has the database, or is still bound to a zombie. A
  setter frees only what is in the member it stores to, and what is bound to a zombie is
  in a table that no setter reaches (`HookOfZombie`). The refinement of `CallableStore`,
  `TableImplementsStore`, needs that no handler sets or clears itself: `CallInv` adds
  `RunningIsHooked`, that what runs is what SQLite would call.
* **`RegistrationProofs`** - `CopiesLiveForRegistration`, `CalledAreLive` and
  `RegistrationImplementsStore`. `RegInv` says that a copy is registered once and
  counted once, and that what is called is registered in the database of an *active*
  statement, for which SQLite refuses to change the name and keeps the database.
  `RegistrationRefinesConnection` and `RegistrationLeakFree` carry the life cycle over.
* **`CallableStoreProofs`** - `StoreIsCallable`: the promise implies that whatever SQLite
  calls is stored.
* **`StatementProofs`** - `CompletedIsTruthful` and `StatementTypes`; `IteratorsFollowRows`
  and `LoopsSeeAllRows` for any number of rows and iterators, from `LoopInv`;
  `ColumnIndexesCorrect` from `ColumnInv`, which ties the cache to the compiled columns
  and needs that a set of positions has a greatest member (`GreatestOf`, from the
  well-foundedness of the naturals). `BoundIsStatement` carries them over to `Binding`.
  `QueriesSeeBound` is from `BoundInv`: each parameter is *kept*, that is, what SQLite has
  for it means what the caller expects, either by value, or by a pointer to a buffer
  that still has the contents and that is lent while a query runs. A refused `bind()`
  keeps it because nothing is written, a buffer that is written to because it is not
  lent or the parameter becomes unknown to the caller. `ValuesSurviveBinding` goes
  through the six types, with the exception of a double that is a NaN; what it needs of
  strings with zeroes is `UpToZeroOnce`: to cut at the first zero once is to cut for good.
* **`AggregateProofs`** - `ResultsAreOfGroups`, in every case, and
  `StatesLiveForAggregation`, if copying the zero does not throw. `GroupInv` says of
  each call that the callable runs in the right phase on the right memory, that
  memory is only kept while its final is to come, and that until its final the
  state is the fold of the group's rows (`GroupFolded`); without `MemoryWanted` a
  group could begin with the state of the one before. `FlagMeansState` ties
  `initialized` to the existence of a state.
* **`BackupProofs`** - `BackupTypes` and `LoopsComplete`. `CopiedSoFar` says that the pages
  before the next one to copy are as they are in the database copied from, whatever
  has been written to it since, so that the step that copies the last page makes a
  copy; and an iterator ends only where SQLite answers *done* to its own step. The
  types depend on that: what is committed has no page that was left out.
* **`BoundaryProofs`** - `LogHandlersLive`, from `LibInv`: until
  `config_callbacks` is destroyed, what SQLite calls is what the table has, each handler
  once. `ExecIsTruthful` and `MessagesAreFreed` hold for any depth:
  `StackInv` says that what the frame of an `exec()` knows is what has happened in it, that
  callbacks are on top of an `exec()`, and that below a running row handler nothing has
  stopped it yet, so that its exception is the first. `CountInv` counts the
  exceptions caught as messages lost and `exec()` calls that are yet to lose theirs.
  `LogHandlersImplementStore` adds `UseInv`: whatever is on the stack runs in an `exec()`,
  which needs the library, and log handlers only run in frames of their own. As nothing
  is configured while one runs (a log handler must not use SQLite), what frees a handler finds none running, and a step
  that leaves frames ends at most one call of a log handler (`CallsEnd`).

Only model-checked are the liveness properties `DelayedClosureFinishes`,
`AggregationEnds`, `LoopEnds` (of `Statement` and of `Backup`) and `ThrowEndsExec`: liveness
under fairness and ENABLED are out of the prover's reach. The violated properties
are shown by counterexamples. `FreedBySetter` is proved only, as the runs that let a handler set
itself also move objects, which frees running handlers in other ways.
No module uses RECURSIVE operators.

## Limits of the models

SQLite is modelled as far as the wrapper depends on it. One thread uses a connection
at a time (the wrapper has no locks of its own; SQLite serialises a database); the
threads of two connections interleave. Opening is modelled with its outcome, not with
flags or file names. The pass-through functions (limits, status counters, `changes`,
`interrupt`, ...) have no state in sqxx and are left out.

Iterators of one statement share its row. The runs and the theorems on loops are about
one iterator at a time, as documented: with a second iterator, or with `step()` called
in between (`"several"`, `"mixed"`), each `operator++` takes a row away from the others and
the counts differ, which follows from the shape of the code and is not checked. Nor is
`begin()` on a statement that has not been run again (`"idle"`), whose `completed` is that
of the execution before.
The handler of exceptions is not replaced while it runs (`SetReporter`): what
`std::function` does then is not the code's own.

### Not modelled

* *Incremental blobs*: `blob_source` has a private constructor, its friend `connection` has no
  function that calls it, and `C_API_COVERAGE.md` lists `sqlite3_blob_open` as missing. There
  is no state of a program with such an object. (Its arithmetic would need care:
  `write()` narrows a length to `int`, `seek()` from the end is one off.)
* *Column objects, global functions, limits and status*: one C call each, without state.
* *Callable traits*: types, computed by the compiler.
* *Tests, examples, case studies*: read for how the library is meant to be used.

## Plan

Done: `Connection`, `CallableStore`, `Handlers`, `Registration`, `Statement`, `Aggregate`,
`Backup`, `Values`, `Binding`, `Library`, `Boundary`, and the proofs of all their safety
properties. Left, in this order:

1. `Backup` composed with `Connection`: an unfinished backup keeps its databases as
   zombies, and its implicit copies finish the handle twice.
2. What is left of `HookLive` when objects are moved, and when one is opened again while
   a zombie of its is left.
