---------------------------- MODULE Registration ----------------------------
(***************************************************************************)
(* SQL functions, aggregates and collations made from C++ callables.       *)
(*                                                                         *)
(* create_function(), create_aggregate() and create_collation() copy the   *)
(* callable to the heap and hand the copy to SQLite together with a        *)
(* function that destroys it.  Who destroys the copy depends on the        *)
(* outcome and on the C function: SQLite destroys a function's data when   *)
(* the registration fails and a collation's data not, so the wrapper has   *)
(* to.  A function pointer is registered without data to destroy.          *)
(*                                                                         *)
(* Registrations belong to the database handle, so they live and die with  *)
(* the handles of Connection, not with the connection object.              *)
(***************************************************************************)
EXTENDS Connection, Integers

CONSTANTS Callables,    \* heap copies of callables and aggregate data
          Functions,    \* names of SQL functions and aggregates
          Collations,   \* names of collations
          Static        \* a function pointer, which needs no heap copy

Names == Functions \cup Collations

ASSUME NamesAssumption == Functions \cap Collations = {}
ASSUME CallablesAssumption ==
  None \notin Callables /\ Static \notin Callables /\ None # Static

VARIABLES count,    \* times a copy was made minus times it was destroyed
          reg,      \* what each database has registered under each name
          active,   \* the statement handle is between step() and its end
          calling   \* the callable that a statement is in a call of

regVars == <<count, reg, active, calling>>
vars == <<connVars, regVars>>

NoNames == [n \in Names |-> None]

RegTypeOK ==
  /\ count \in [Callables -> Int]
  /\ reg \in [Dbs -> [Names -> Callables \cup {None, Static}]]
  /\ active \in [Vms -> BOOLEAN]
  /\ calling \in [Vms -> Callables \cup {None}]

TypeOK == ConnTypeOK /\ RegTypeOK

Init ==
  /\ ConnInit
  /\ count = [o \in Callables |-> 0]
  /\ reg = [d \in Dbs |-> NoNames]
  /\ active = [v \in Vms |-> FALSE]
  /\ calling = [v \in Vms |-> None]

-----------------------------------------------------------------------------
(* The C library: sqlite3_create_function_v2(), sqlite3_create_collation_v2 *)

\* SQLITE_BUSY: a name in use is not changed while a statement is active.
Busy(d, n) == reg[d][n] # None /\ \E v \in VmsOf(d) : active[v]

\* What the C function destroys itself.
FunctionDestroys(d, n, data, ok) == IF ok THEN {reg[d][n]} ELSE {data}
CollationDestroys(d, n, data, ok) == IF ok THEN {reg[d][n]} ELSE {}

\* A copy is made, and each of the two sides destroys some.
Account(Made, BySqlite, ByWrapper) ==
  LET One(S, o) == IF o \in S THEN 1 ELSE 0 IN
  count' = [o \in Callables |->
              count[o] + One(Made, o) - One(BySqlite, o) - One(ByWrapper, o)]

Registered(d, n, data, ok) ==
  reg' = IF ok THEN [reg EXCEPT ![d] = [@ EXCEPT ![n] = data]] ELSE reg

-----------------------------------------------------------------------------
(* The functions of sqxx. *)

\* create_function_register() and create_aggregate_register() destroy
\* nothing themselves: "Registered destructor is called automatically".
FunctionCleanup(data, ok) == {}

\* Mutant: create_collation_register() relies on SQLite, too.
CollationNoCleanup(data, ok) == {}

\* create_collation_register() calls `destroy` when the C function fails.
CollationCleanup(data, ok) == IF ok THEN {} ELSE {data}

\* The connection is open, and a name that is busy cannot be registered.
CanRegister(c, n, ok) ==
  /\ phase[c] = "live"
  /\ handle[c] # None /\ db[handle[c]] = "open"
  /\ ok => ~Busy(handle[c], n)

\* create_function() and create_aggregate() with a callable that is copied,
\* or with a function pointer, which is stored as it is.
CreateFunction(c, n, data, ok) ==
  /\ n \in Functions
  /\ CanRegister(c, n, ok)
  /\ data = Static \/ (data \in Callables /\ count[data] = 0)
  /\ Account({data}, FunctionDestroys(handle[c], n, data, ok),
             FunctionCleanup(data, ok))
  /\ Registered(handle[c], n, data, ok)
  /\ UNCHANGED <<connVars, active, calling>>

CreateCollation(c, n, data, ok) ==
  /\ n \in Collations
  /\ CanRegister(c, n, ok)
  /\ data = Static \/ (data \in Callables /\ count[data] = 0)
  /\ Account({data}, CollationDestroys(handle[c], n, data, ok),
             CollationCleanup(data, ok))
  /\ Registered(handle[c], n, data, ok)
  /\ UNCHANGED <<connVars, active, calling>>

\* Mutant: the data is destroyed before SQLite is asked to remove the name.
RemoveDestroysFirst(c, n) ==
  /\ CanRegister(c, n, FALSE)
  /\ Account({}, {}, {reg[handle[c]][n]})
  /\ Registered(handle[c], n, None, ~Busy(handle[c], n))
  /\ UNCHANGED <<connVars, active, calling>>

\* remove_function(), remove_aggregate() and remove_collation() register
\* null; one that fails changes nothing.
Remove(c, n) ==
  /\ CanRegister(c, n, TRUE)
  /\ Account({}, {reg[handle[c]][n]}, {})
  /\ Registered(handle[c], n, None, TRUE)
  /\ UNCHANGED <<connVars, active, calling>>

-----------------------------------------------------------------------------
(* Statements run, and call what is registered. *)

\* step() starts a statement; also one that keeps a zombie.
StartStep(v) ==
  /\ vmdb[v] # None /\ ~active[v]
  /\ active' = [active EXCEPT ![v] = TRUE]
  /\ UNCHANGED <<connVars, count, reg, calling>>

\* The statement is done, fails, or is reset.
EndStep(v) ==
  /\ active[v] /\ calling[v] = None
  /\ active' = [active EXCEPT ![v] = FALSE]
  /\ UNCHANGED <<connVars, count, reg, calling>>

\* Mutant: a function pointer is called as a heap copy is.
CallAnyData(v, n) ==
  /\ active[v] /\ calling[v] = None
  /\ reg[vmdb[v]][n] # None
  /\ calling' = [calling EXCEPT ![v] = reg[vmdb[v]][n]]
  /\ UNCHANGED <<connVars, count, reg, active>>

\* function_call_ptr(), aggregate_call_step(), aggregate_call_final() and
\* collation_compare_ptr() call through the data pointer; the callable may
\* use the connection, which is why the call is a state of its own.
CallData(v, n) ==
  /\ active[v] /\ calling[v] = None
  /\ reg[vmdb[v]][n] \in Callables
  /\ calling' = [calling EXCEPT ![v] = reg[vmdb[v]][n]]
  /\ UNCHANGED <<connVars, count, reg, active>>

ReturnData(v) ==
  /\ calling[v] # None
  /\ calling' = [calling EXCEPT ![v] = None]
  /\ UNCHANGED <<connVars, count, reg, active>>

-----------------------------------------------------------------------------
(* The life cycle of the handles. *)

\* Mutant: the data is destroyed when a database is closed, a zombie or not.
FreeWhenClosed ==
  LET Freed == {d \in Dbs : db[d] = "open" /\ db'[d] # "open"} IN
  /\ reg' = [d \in Dbs |-> IF d \in Freed THEN NoNames ELSE reg[d]]
  /\ Account({}, {reg[d][n] : d \in Freed, n \in Names}, {})

\* Freeing a database destroys the data of all its registrations.
FreeRegistrations ==
  LET Freed == {d \in Dbs : db[d] # "free" /\ db'[d] = "free"} IN
  /\ reg' = [d \in Dbs |-> IF d \in Freed THEN NoNames ELSE reg[d]]
  /\ Account({}, {reg[d][n] : d \in Freed, n \in Names}, {})

ConstructConn(c) == Construct(c) /\ UNCHANGED regVars
OpenConn(c) == Open(c) /\ UNCHANGED regVars
OpenFailsConn(c) == OpenFails(c) /\ UNCHANGED regVars
DestroyMembersConn(c) == DestroyMembers(c) /\ UNCHANGED regVars
PrepareStmt(c, s) == Prepare(c, s) /\ UNCHANGED regVars

CloseConn(c) ==
  /\ Close(c) \/ CloseSync(c) \/ Destroy(c)
  /\ FreeRegistrations
  /\ UNCHANGED <<active, calling>>

\* A callable does not destroy the statement that calls it.
DestroyStmt(s) ==
  /\ vm[s] \in Vms => calling[vm[s]] = None
  /\ DestroyStatement(s)
  /\ FreeRegistrations
  /\ active' = [v \in Vms |-> active[v] /\ v # vm[s]]
  /\ UNCHANGED calling

-----------------------------------------------------------------------------
Register(c) ==
  \/ \E n \in Names, data \in Callables \cup {Static}, ok \in BOOLEAN :
        CreateFunction(c, n, data, ok) \/ CreateCollation(c, n, data, ok)
  \/ \E n \in Names : Remove(c, n)

LifeCycle(c) ==
  \/ ConstructConn(c) \/ OpenConn(c) \/ OpenFailsConn(c)
  \/ CloseConn(c) \/ DestroyMembersConn(c)
  \/ \E s \in Stmts : PrepareStmt(c, s)

Run(v) == \/ StartStep(v) \/ EndStep(v) \/ ReturnData(v)
          \/ \E n \in Names : CallData(v, n)

Next == \/ \E c \in Conns : Register(c) \/ LifeCycle(c)
        \/ \E s \in Stmts : DestroyStmt(s)
        \/ \E v \in Vms : Run(v)

Spec == Init /\ [][Next]_vars

-----------------------------------------------------------------------------
(* What makes it correct. *)

\* "A copy is made and stored for the lifetime of the sqlite function"
\* (connection.hpp:450-451): a copy exists exactly while one name of one
\* database has it registered.  No copy leaks, on success, failure, removal,
\* replacement or (delayed) closing, and none is destroyed twice.
CopyForLifetime ==
  \A o \in Callables :
    LET Uses == {u \in Dbs \X Names : reg[u[1]][u[2]] = o} IN
    IF Uses = {} THEN count[o] = 0
                 ELSE count[o] = 1 /\ \E u \in Uses : Uses = {u}

\* A callable is not destroyed while it is called, even if it uses the
\* connection to register, remove or close.
CalledLive == \A v \in Vms : calling[v] # None => count[calling[v]] = 1

-----------------------------------------------------------------------------
(* Registrations implement the callable store. *)

Stored == {o \in Callables : count[o] > 0}
Bound == {o \in Callables : \E d \in Dbs, n \in Names : reg[d][n] = o}
InUse == {o \in Callables : \E v \in Vms : calling[v] = o}

Abstract == INSTANCE CallableStore
              WITH stored <- Stored, bound <- Bound, inUse <- InUse

\* Registration keeps the promise of CallableStore, with SQLite as the owner.
ImplementsStore == Abstract!Spec
=============================================================================
