------------------------------ MODULE Boundary ------------------------------
(***************************************************************************)
(* Exceptions at the boundary between C and C++: exec() with its row       *)
(* handler, the other callbacks, and callback_exception_handler.           *)
(*                                                                         *)
(* exec() runs SQL inside of sqlite3_exec(), which calls back: the row     *)
(* handler, handlers and functions of the connection, and the log handler. *)
(* These may run SQL again.  No exception may pass through a C function:   *)
(* that of the row handler is kept and thrown again by exec(), that of a   *)
(* handler is reported and becomes a result code, that of a function       *)
(* becomes an SQL error.                                                   *)
(***************************************************************************)
EXTENDS Library, Integers, Sequences

CONSTANTS Exceptions,   \* what callbacks throw
          SqlError,     \* the exception for a result code
          Hooks,        \* the callbacks besides the row handler
          MaxDepth,     \* the most frames on the stack (a bound)
          MaxLeaks      \* the most exceptions of row handlers (a bound)

ASSUME ExceptionsAssumption == None \notin Exceptions \cup {SqlError}
ASSUME HooksAssumption == Hooks \subseteq {"commit", "wal", "update", "function"} \cup LogKinds
ASSUME ObjectsAssumption == Hooks \cap LogObjs = {}
ASSUME BoundsAssumption == MaxDepth \in Nat /\ MaxLeaks \in Nat

VARIABLES stack,      \* the frames, the innermost one last
          outcome,    \* what the last exec() did: None is to return
          reporter,   \* callback_exception_handler is not empty
          messages,   \* the error messages of SQLite not yet freed
          caught      \* how often a row handler has thrown

stackVars == <<stack, outcome, reporter, messages, caught>>
boundVars == <<libVars, stackVars>>

\* A frame of exec() or of a callback.  Of exec() it has exec_context::ex,
\* whether SQLite is to stop, the first exception of the row handler, and
\* whether a callback has failed in it.
Frame(kind, what) == [kind |-> kind, what |-> what, ex |-> None, stop |-> FALSE,
                      first |-> None, failed |-> FALSE]
Kinds == {"exec", "row", "hook", "report"}
Frames == [kind : Kinds, what : Hooks \cup LogObjs \cup {None},
           ex : Exceptions \cup {SqlError, None}, stop : BOOLEAN,
           first : Exceptions \cup {SqlError, None}, failed : BOOLEAN]

BoundaryTypeOK ==
  /\ LibTypeOK
  /\ stack \in Seq(Frames) /\ Len(stack) <= MaxDepth
  /\ outcome \in Exceptions \cup {SqlError, None}
  /\ reporter \in BOOLEAN
  /\ messages \in 0 .. MaxLeaks /\ caught \in 0 .. MaxLeaks

BoundaryInit ==
  /\ LibInit
  /\ stack = <<>> /\ outcome = None
  /\ reporter = TRUE
  /\ messages = 0 /\ caught = 0

\* When the n innermost frames are gone, the one below may have changed to f.
Depth == Len(stack)
In(kind) == Depth > 0 /\ stack[Depth].kind = kind
Push(f) == Depth < MaxDepth /\ stack' = Append(stack, f)
Popped(n) == SubSeq(stack, 1, Depth - n)
Resumed(n, f) == [Popped(n) EXCEPT ![Depth - n] = f]

-----------------------------------------------------------------------------
(* C++ code: the program, and the callbacks. *)

\* C++ code runs.  A log handler must not use SQLite, nor what it calls.
MayUseSqlite == ~In("exec") /\ \A i \in 1 .. Depth : stack[i].what \notin LogObjs

\* exec() is called, up to the first thing that SQLite does.
Exec ==
  /\ up /\ setup = "alive" /\ MayUseSqlite
  /\ Push(Frame("exec", None))
  /\ outcome' = None
  /\ UNCHANGED <<libVars, reporter, messages, caught>>

\* set_callback_exception_handler(), not while the handler runs.
SetReporter ==
  /\ MayUseSqlite /\ \A i \in 1 .. Depth : stack[i].kind # "report"
  /\ reporter' = ~reporter
  /\ UNCHANGED <<libVars, stack, outcome, messages, caught>>

\* The program sets the library up, configures it and tears it down; a
\* callback can still try to configure it.
UseLibrary ==
  /\ IF stack = <<>> THEN LibNext ELSE MayUseSqlite /\ Configure
  /\ UNCHANGED stackVars

-----------------------------------------------------------------------------
(* The row handler, called through sqxx_call_exec_handler(). *)

CallRow ==
  /\ In("exec") /\ ~stack[Depth].stop
  /\ Push(Frame("row", None))
  /\ UNCHANGED <<libVars, outcome, reporter, messages, caught>>

\* Anything but false stops SQLite.
RowReturns(result) ==
  /\ In("row")
  /\ stack' = Resumed(1, [stack[Depth - 1] EXCEPT !.stop = result])
  /\ UNCHANGED <<libVars, outcome, reporter, messages, caught>>

\* Mutant: it returns 0 after an exception.
GoOnAfterThrow == FALSE

\* It returns 1 after an exception.
StopAfterThrow == TRUE

\* The exception is kept for exec().
RowThrows(e) ==
  /\ In("row") /\ caught < MaxLeaks
  /\ stack' = Resumed(1, [stack[Depth - 1] EXCEPT !.stop = StopAfterThrow, !.ex = e,
                                                  !.first = IF @ = None THEN e ELSE @])
  /\ caught' = caught + (IF stack[Depth - 1].first = None THEN 1 ELSE 0)
  /\ UNCHANGED <<libVars, outcome, reporter, messages>>

-----------------------------------------------------------------------------
(* The other callbacks, and handle_callback_exception(). *)

\* Also while SQLite is about to stop: then it rolls back, and logs.
CallHook(h) ==
  /\ In("exec")
  /\ IF h \in LogKinds THEN logHook[h] # None /\ Push(Frame("hook", logHook[h]))
                       ELSE Push(Frame("hook", h))
  /\ UNCHANGED <<libVars, outcome, reporter, messages, caught>>

HookReturns ==
  /\ In("hook")
  /\ stack' = Popped(1)
  /\ UNCHANGED <<libVars, outcome, reporter, messages, caught>>

\* Mutant: after an exception of a commit handler SQLite commits.
FailsFunctions(h) == h \in {"function", "wal"}

\* The callbacks whose exceptions make SQLite fail: for a commit handler 1 is
\* returned, for a WAL handler an error, a function gets an error as result.
\* After those of the others the statement goes on.
FailsSql(h) == h \in {"commit", "wal", "function"}

\* The n innermost frames, of a callback that threw, are gone.
AfterFailure(n) ==
  LET h == stack[Depth - n + 1].what IN
  Resumed(n, [stack[Depth - n] EXCEPT !.stop = @ \/ FailsSql(h),
                                      !.failed = @ \/ h \in {"commit", "wal", "function"}])

\* A function's exception is not reported.
HookThrows ==
  /\ In("hook")
  /\ IF reporter /\ stack[Depth].what # "function"
     THEN Push(Frame("report", None))
     ELSE stack' = AfterFailure(1)
  /\ UNCHANGED <<libVars, outcome, reporter, messages, caught>>

\* The handler of exceptions returns; or throws itself, and the default one
\* takes over, which does not throw.
ReportEnds ==
  /\ In("report")
  /\ stack' = AfterFailure(2)
  /\ UNCHANGED <<libVars, outcome, reporter, messages, caught>>

-----------------------------------------------------------------------------
(* The end of exec(). *)

\* sqlite3_exec() fails if it was stopped, and may fail otherwise; then it
\* has allocated a message.
ExecCodes(f) == IF f.stop THEN {"abort"} ELSE {"ok", "error"}

\* Mutant: exec() looks at the result code first.
CodeFirst(f, rv) == IF rv # "ok" THEN SqlError ELSE f.ex

\* Mutant: exec() throws the bare result code.
ThrownCode(f, rv) == IF f.ex # None THEN f.ex ELSE IF rv # "ok" THEN rv ELSE None

\* What exec() throws, or None: the row handler's exception goes first.
Thrown(f, rv) == IF f.ex # None THEN f.ex ELSE IF rv # "ok" THEN SqlError ELSE None

\* Mutant: the message is never freed.
FreesNothing(f, rv) == FALSE

\* The message is freed before the error is thrown, and not when the row
\* handler's exception is.
FreesMessage(f, rv) == f.ex = None

ExecEnds ==
  /\ In("exec")
  /\ LET f == stack[Depth] IN
     \E rv \in ExecCodes(f) :
       /\ outcome' = Thrown(f, rv)
       /\ messages' = messages + (IF rv = "ok" \/ FreesMessage(f, rv) THEN 0 ELSE 1)
  /\ stack' = Popped(1)
  /\ UNCHANGED <<libVars, reporter, caught>>

-----------------------------------------------------------------------------
BoundaryNext ==
  \/ Exec \/ SetReporter \/ UseLibrary
  \/ CallRow \/ HookReturns \/ HookThrows \/ ReportEnds \/ ExecEnds
  \/ \E result \in BOOLEAN : RowReturns(result)
  \/ \E e \in Exceptions \cup {outcome} : e # None /\ RowThrows(e)
  \/ \E h \in Hooks : CallHook(h)

BoundarySpec == BoundaryInit /\ [][BoundaryNext]_boundVars

\* Callbacks come to an end, with what they execute, and sqlite3_exec() does
\* once it was stopped; the rows of an outermost exec() may go on for ever.
EndsAt(d) ==
  /\ Depth = d
  /\ \/ RowReturns(TRUE) \/ RowReturns(FALSE) \/ HookReturns \/ ReportEnds
     \/ (d > 1 \/ stack[d].stop) /\ ExecEnds
FairBoundarySpec == BoundarySpec /\ \A d \in 1 .. MaxDepth : SF_boundVars(EndsAt(d))

-----------------------------------------------------------------------------
(* What makes it correct. *)

\* exec() tells its caller what happened in it, whatever other exec() calls
\* and callbacks run inside and after: it throws the first exception of its
\* own row handler, or an error if a callback has failed it.
ExecTellsCaller ==
  [][ExecEnds => LET f == stack[Depth] IN
       /\ f.first # None => outcome' = f.first
       /\ f.first = None /\ f.failed => outcome' = SqlError]_boundVars

\* Each error message is freed, but those of an exec() that throws a row
\* handler's exception (connection.cpp:307).
MessagesFreed == stack = <<>> => messages = caught

\* When its row handler has thrown, an exec() comes to an end even if there is
\* no end of rows, whatever callbacks it still makes.
ThrowEndsExec ==
  \A d \in 1 .. MaxDepth :
    (Depth >= d /\ stack[d].kind = "exec" /\ stack[d].first # None) ~> Depth < d

-----------------------------------------------------------------------------
(* The log handlers implement the callable store. *)

LogBound == IF setup = "gone" THEN {} ELSE {o \in LogObjs : \E k \in LogKinds : logHook[k] = o}
LogInUse == {o \in LogObjs : \E i \in 1 .. Depth : stack[i].what = o}

Abstract == INSTANCE CallableStore
              WITH Callables <- LogObjs, stored <- logHeap, bound <- LogBound, inUse <- LogInUse

\* The configuration keeps the promise of CallableStore, at exit too.
LogImplementsStore == Abstract!Spec
=============================================================================
