------------------------------ MODULE Handlers ------------------------------
(***************************************************************************)
(* The handlers of a connection: the callback table of the connection      *)
(* object and the hooks SQLite keeps for the database, as the              *)
(* set_..._handler() functions, the trampolines that SQLite calls, and the *)
(* life cycle of Connection change them.                                   *)
(*                                                                         *)
(* A setter gives SQLite the new object first and moves it into the table  *)
(* afterwards, which frees the object it replaces; both steps are actions. *)
(* One thread uses a database at a time, but the threads of two databases  *)
(* interleave, and a handler may use every connection but its own.         *)
(***************************************************************************)
EXTENDS Connection

CONSTANTS Objs,     \* heap objects: std::function or collation_data_t
          Kinds,    \* the kinds of handlers
          Builtin   \* a hook that SQLite itself provides

AllKinds == {"commit", "rollback", "update", "trace", "profile", "authorize",
             "busy", "progress", "wal", "collation"}

\* Kinds for which SQLite has a hook of its own, and the function setting it:
\* busy_timeout() and wal_autocheckpoint().
BuiltinKinds == {"busy", "wal"}

\* Hooks called only when a statement is compiled, which a zombie refuses.
CompileKinds == {"authorize", "collation"}

ASSUME KindsAssumption == Kinds \subseteq AllKinds /\ None \notin Kinds
ASSUME ObjsAssumption == None \notin Objs /\ Builtin \notin Objs /\ Builtin # None

VARIABLES heap,     \* the objects that have been made and not freed
          home,     \* collation_data_t::conn, for every object
          table,    \* connection::callbacks is not null
          slot,     \* the members of the callback table
          hook,     \* what SQLite calls, for each database and kind
          setting,  \* the kind a connection object is in the setter of
          cb,       \* the new object that the setter holds
          running   \* the handler a database is calling

hdlVars == <<heap, home, table, slot, hook, setting, cb, running>>
vars == <<connVars, hdlVars>>

NoSlots == [k \in Kinds |-> None]

HdlTypeOK ==
  /\ heap \subseteq Objs
  /\ home \in [Objs -> Conns \cup {None}]
  /\ table \in [Conns -> BOOLEAN]
  /\ slot \in [Conns -> [Kinds -> Objs \cup {None}]]
  /\ hook \in [Dbs -> [Kinds -> Objs \cup {None, Builtin}]]
  /\ setting \in [Conns -> Kinds \cup {None}]
  /\ cb \in [Conns -> Objs \cup {None}]
  /\ running \in [Dbs -> Objs \cup {None}]

TypeOK == ConnTypeOK /\ HdlTypeOK

Init ==
  /\ ConnInit
  /\ heap = {}
  /\ home = [o \in Objs |-> None]
  /\ table = [c \in Conns |-> FALSE]
  /\ slot = [c \in Conns |-> NoSlots]
  /\ hook = [d \in Dbs |-> NoSlots]
  /\ setting = [c \in Conns |-> None]
  /\ cb = [c \in Conns |-> None]
  /\ running = [d \in Dbs |-> None]

SlotsOf(c) == {slot[c][k] : k \in Kinds}

\* No handler of this database is running.
Quiet(h) == h \in Dbs => running[h] = None

\* The connection object is in no setter, and none of its handlers runs.
Ready(c) == setting[c] = None /\ Quiet(handle[c])

-----------------------------------------------------------------------------
(* The setters. *)

\* The handler that SQLite has for this kind is running.
Runs(c, k) == running[handle[c]] # None /\ hook[handle[c]][k] = running[handle[c]]

\* What all setters need: the connection is open.  A handler that runs may set
\* and clear the other handlers of its connection.  The code does not look
\* whether it sets its own kind and so frees itself; that it does not, but with
\* "reentrant", is the caller's part of the contract.
CanSet(c, k) ==
  /\ phase[c] = "live" /\ setting[c] = None
  /\ handle[c] # None /\ db[handle[c]] = "open"
  /\ ~Runs(c, k) \/ "reentrant" \in Beyond

\* A new object.  Its name is not that of one which has been freed and is
\* still running, so that the two can be told apart.
Unused(o) == o \notin heap /\ \A d \in Dbs : running[d] # o

\* Mutant: the connection referred to is always the same one.
RegisterForOne(c, k, o) ==
  /\ CanSet(c, k)
  /\ Unused(o)
  /\ heap' = heap \cup {o}
  /\ home' = [home EXCEPT ![o] = CHOOSE x \in Conns : TRUE]
  /\ hook' = [hook EXCEPT ![handle[c]] = [@ EXCEPT ![k] = o]]
  /\ setting' = [setting EXCEPT ![c] = k]
  /\ cb' = [cb EXCEPT ![c] = o]
  /\ UNCHANGED <<connVars, table, slot, running>>

\* set_X_handler(fun), to the sqlite3_X_hook() call: a new object is made
\* and SQLite is given a pointer to it.
Register(c, k, o) ==
  /\ CanSet(c, k)
  /\ Unused(o)
  /\ heap' = heap \cup {o}
  /\ home' = [home EXCEPT ![o] = c]
  /\ hook' = [hook EXCEPT ![handle[c]] = [@ EXCEPT ![k] = o]]
  /\ setting' = [setting EXCEPT ![c] = k]
  /\ cb' = [cb EXCEPT ![c] = o]
  /\ UNCHANGED <<connVars, table, slot, running>>

\* Mutant: a handler is cleared in the table only.
UnregisterTableOnly(c, k) ==
  /\ CanSet(c, k)
  /\ setting' = [setting EXCEPT ![c] = k]
  /\ UNCHANGED <<connVars, heap, home, table, slot, hook, cb, running>>

\* set_X_handler() and set_X_handler(nullptr), to the sqlite3_X_hook() call.
Unregister(c, k) ==
  /\ CanSet(c, k)
  /\ hook' = [hook EXCEPT ![handle[c]] = [@ EXCEPT ![k] = None]]
  /\ setting' = [setting EXCEPT ![c] = k]
  /\ UNCHANGED <<connVars, heap, home, table, slot, cb, running>>

\* Mutant: the table is given SQLite's own handler.
UseBuiltinStored(c, k) ==
  /\ CanSet(c, k)
  /\ k \in BuiltinKinds
  /\ hook' = [hook EXCEPT ![handle[c]] = [@ EXCEPT ![k] = Builtin]]
  /\ setting' = [setting EXCEPT ![c] = k]
  /\ cb' = [cb EXCEPT ![c] = Builtin]
  /\ UNCHANGED <<connVars, heap, home, table, slot, running>>

\* busy_timeout() and wal_autocheckpoint(), to the call into SQLite, which
\* puts a hook of its own in place of the handler.
UseBuiltin(c, k) ==
  /\ CanSet(c, k)
  /\ k \in BuiltinKinds
  /\ hook' = [hook EXCEPT ![handle[c]] = [@ EXCEPT ![k] = Builtin]]
  /\ setting' = [setting EXCEPT ![c] = k]
  /\ UNCHANGED <<connVars, heap, home, table, slot, cb, running>>

\* Mutant: the object that is replaced is not freed.
StoreLeaks(c) ==
  /\ setting[c] # None
  /\ slot' = [slot EXCEPT ![c] = [@ EXCEPT ![setting[c]] = cb[c]]]
  /\ table' = [table EXCEPT ![c] = @ \/ cb[c] # None]
  /\ setting' = [setting EXCEPT ![c] = None]
  /\ cb' = [cb EXCEPT ![c] = None]
  /\ UNCHANGED <<connVars, heap, home, hook, running>>

\* The end of a setter: the table, made on demand for a new handler, takes
\* the object, and the object that it replaces is freed.
Store(c) ==
  /\ setting[c] # None
  /\ heap' = heap \ {slot[c][setting[c]]}
  /\ slot' = [slot EXCEPT ![c] = [@ EXCEPT ![setting[c]] = cb[c]]]
  /\ table' = [table EXCEPT ![c] = @ \/ cb[c] # None]
  /\ setting' = [setting EXCEPT ![c] = None]
  /\ cb' = [cb EXCEPT ![c] = None]
  /\ UNCHANGED <<connVars, home, hook, running>>

\* Mutant: the new object is not freed when setup_callbacks() throws.
StoreNoMemLeaks(c) ==
  /\ "nomem" \in Beyond
  /\ setting[c] # None
  /\ cb[c] # None /\ ~table[c]
  /\ setting' = [setting EXCEPT ![c] = None]
  /\ cb' = [cb EXCEPT ![c] = None]
  /\ UNCHANGED <<connVars, heap, home, table, slot, hook, running>>

\* setup_callbacks() throws: the new object is freed on the way out.
StoreNoMem(c) ==
  /\ "nomem" \in Beyond
  /\ setting[c] # None
  /\ cb[c] # None /\ ~table[c]
  /\ heap' = heap \ {cb[c]}
  /\ setting' = [setting EXCEPT ![c] = None]
  /\ cb' = [cb EXCEPT ![c] = None]
  /\ UNCHANGED <<connVars, home, table, slot, hook, running>>

-----------------------------------------------------------------------------
(* The calls, sqxx_call_X_handler(). *)

\* SQLite calls a handler: from a statement or exec() of an open database, or
\* from a statement that keeps a zombie.
Call(d, k) ==
  /\ db[d] = "open" \/ (db[d] = "zombie" /\ k \notin CompileKinds)
  /\ running[d] = None
  /\ \A c \in Conns : handle[c] = d => setting[c] = None
  /\ hook[d][k] \in Objs
  /\ running' = [running EXCEPT ![d] = hook[d][k]]
  /\ UNCHANGED <<connVars, heap, home, table, slot, hook, setting, cb>>

\* The handler returns, or throws: the trampoline catches everything.
Return(d) ==
  /\ running[d] # None
  /\ \A c \in Conns : handle[c] = d => setting[c] = None
  /\ running' = [running EXCEPT ![d] = None]
  /\ UNCHANGED <<connVars, heap, home, table, slot, hook, setting, cb>>

-----------------------------------------------------------------------------
(* The life cycle, with the table and the hooks. *)

\* A database that is freed forgets its hooks.
HooksAfterFree ==
  hook' = [d \in Dbs |-> IF db'[d] = "free" THEN NoSlots ELSE hook[d]]

ConstructConn(c) == Construct(c) /\ UNCHANGED hdlVars

\* open() sets up no handler and leaves the table alone.
OpenConn(c) ==
  /\ Ready(c)
  /\ StmtsOf(c) = {} \/ "reopen" \in Beyond
  /\ Open(c)
  /\ UNCHANGED hdlVars

OpenFailsConn(c) == Ready(c) /\ OpenFails(c) /\ UNCHANGED hdlVars

\* Mutant: close() empties the callback table.
CloseConnFreesTable(c) ==
  /\ Ready(c)
  /\ Close(c) \/ CloseSync(c)
  /\ HooksAfterFree
  /\ heap' = heap \ SlotsOf(c)
  /\ slot' = [slot EXCEPT ![c] = NoSlots]
  /\ UNCHANGED <<home, table, setting, cb, running>>

\* close() and close_sync() leave the table alone.
CloseConn(c) ==
  /\ Ready(c)
  /\ Close(c) \/ CloseSync(c)
  /\ HooksAfterFree
  /\ UNCHANGED <<heap, home, table, slot, setting, cb, running>>

DestroyConn(c) ==
  /\ Ready(c)
  /\ Destroy(c)
  /\ HooksAfterFree
  /\ UNCHANGED <<heap, home, table, slot, setting, cb, running>>

\* After the body of ~connection(), the table goes with its objects.
DestroyTable(c) ==
  /\ DestroyMembers(c)
  /\ heap' = heap \ SlotsOf(c)
  /\ slot' = [slot EXCEPT ![c] = NoSlots]
  /\ table' = [table EXCEPT ![c] = FALSE]
  /\ UNCHANGED <<home, hook, setting, cb, running>>

\* The defaulted moves hand over the table, and free the one replaced.
MoveConn(c, to) ==
  /\ Ready(c) /\ Ready(to)
  /\ MoveConnection(c, to)
  /\ heap' = heap \ SlotsOf(to)
  /\ slot' = [slot EXCEPT ![to] = slot[c], ![c] = NoSlots]
  /\ table' = [table EXCEPT ![to] = table[c], ![c] = FALSE]
  /\ UNCHANGED <<home, hook, setting, cb, running>>

PrepareStmt(c, s) == Ready(c) /\ Prepare(c, s) /\ UNCHANGED hdlVars

\* A statement is not destroyed by a handler that it calls.
DestroyStmt(s) ==
  /\ vm[s] \in Vms => Quiet(vmdb[vm[s]])
  /\ DestroyStatement(s)
  /\ HooksAfterFree
  /\ UNCHANGED <<heap, home, table, slot, setting, cb, running>>

MoveStmt(s, to) == MoveStatement(s, to) /\ UNCHANGED hdlVars

-----------------------------------------------------------------------------
Set(c) == \/ \E k \in Kinds, o \in Objs : Register(c, k, o)
          \/ \E k \in Kinds : Unregister(c, k) \/ UseBuiltin(c, k)
          \/ Store(c)
          \/ StoreNoMem(c)

LifeCycle(c) == \/ ConstructConn(c) \/ OpenConn(c) \/ OpenFailsConn(c)
                \/ CloseConn(c) \/ DestroyConn(c) \/ DestroyTable(c)
                \/ \E to \in Conns : MoveConn(c, to)
                \/ \E s \in Stmts : PrepareStmt(c, s)

Next == \/ \E c \in Conns : Set(c) \/ LifeCycle(c)
        \/ \E s \in Stmts : DestroyStmt(s) \/ \E to \in Stmts : MoveStmt(s, to)
        \/ \E d \in Dbs : (\E k \in Kinds : Call(d, k)) \/ Return(d)

Spec == Init /\ [][Next]_vars

-----------------------------------------------------------------------------
(* What makes it correct. *)

\* Every handler that SQLite may still call, on an open database or on one
\* whose closing is delayed, has not been freed.
HookLive ==
  \A d \in Dbs, k \in Kinds :
    db[d] # "free" /\ hook[d][k] \in Objs => hook[d][k] \in heap

\* A handler is freed while it runs only by a setter of its own kind, called
\* on its own connection from inside of it: whatever else a handler changes,
\* and whatever happens to other connections or to the one that has left a
\* zombie, a running handler stays.
FreedBySetter ==
  [][\A d \in Dbs : running[d] \in heap \ heap' =>
       \E c \in Conns : /\ handle[c] = d /\ setting[c] # None
                         /\ slot[c][setting[c]] = running[d]]_vars

\* The places that own an object: a member of a table, or a setter's `cb`.
Owners(o) == {p \in Conns \X Kinds : slot[p[1]][p[2]] = o}
Holders(o) == {c \in Conns : cb[c] = o}

\* Every object that has not been freed has exactly one owner, which frees
\* it: no handler leaks and none is freed twice.
HandlersOwned ==
  \A o \in heap :
    \/ /\ Holders(o) = {}
       /\ \E p \in Owners(o) : Owners(o) = {p}
    \/ /\ Owners(o) = {}
       /\ \E c \in Holders(o) : Holders(o) = {c}

\* "We store a reference to the connection in collation_data_t ... we can
\* assume we get the correct thing back" (connection.cpp:766-768): the
\* collation handler is given the connection whose database asks.
CollationConnection ==
  "collation" \in Kinds =>
  \A d \in Dbs : db[d] = "open" /\ hook[d]["collation"] \in Objs =>
    LET c == home[hook[d]["collation"]]
    IN c \in Conns /\ phase[c] = "live" /\ handle[c] = d

-----------------------------------------------------------------------------
(* The callback table implements the callable store. *)

Bound == {o \in Objs : \E d \in Dbs, k \in Kinds : hook[d][k] = o}
InUse == {o \in Objs : \E d \in Dbs : running[d] = o}

Abstract == INSTANCE CallableStore
              WITH Callables <- Objs, stored <- heap,
                   bound <- Bound, inUse <- InUse

\* The set_..._handler() functions keep the promise of CallableStore: what
\* is freed is neither bound nor running, and what is called was bound.
ImplementsStore == Abstract!Spec
=============================================================================
