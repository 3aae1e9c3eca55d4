----------------------------- MODULE Connection -----------------------------
(***************************************************************************)
(* Life cycle of `connection` and `statement` objects, and of the SQLite   *)
(* handles (sqlite3 and sqlite3_stmt) that they own.                       *)
(*                                                                         *)
(* A C++ object is a member of Conns or Stmts, a handle a member of Dbs or *)
(* Vms.  Both are memory: an object that has been destroyed and a handle   *)
(* that has been freed can be allocated again under the same name.  SQLite *)
(* is modelled from how connection.cpp and statement.cpp call it: a handle *)
(* closed with sqlite3_close_v2() while it has statements becomes a zombie *)
(* and is freed with its last statement.                                   *)
(***************************************************************************)

CONSTANTS Conns,    \* connection objects
          Stmts,    \* statement objects
          Dbs,      \* sqlite3 handles
          Vms,      \* sqlite3_stmt handles
          None,     \* the null pointer
          Beyond    \* what may happen beyond the plain use of the classes

\* "move":      objects are moved, which connection.hpp and statement.hpp allow
\* "overwrite": open() or a move assignment overwrites a handle that is open
\* "reopen":    open() is called while statements of a closed database remain
\* "reentrant": a handler sets or clears itself, on the connection calling it
\* "nomem":     an allocation fails
Behaviours == {"move", "overwrite", "reopen", "reentrant", "nomem"}

ASSUME BeyondAssumption == Beyond \subseteq Behaviours
ASSUME NoneAssumption == /\ None \notin Conns
                         /\ None \notin Dbs
                         /\ None \notin Vms

VARIABLES phase,    \* of a connection object: "none", "live", "dying"
          handle,   \* connection::handle
          db,       \* of a sqlite3 handle: "free", "open", "zombie"
          made,     \* the statement object exists
          vm,       \* statement::handle
          sconn,    \* statement::conn
          vmdb      \* the database of a sqlite3_stmt handle, None when freed

connVars == <<phase, handle, db, made, vm, sconn, vmdb>>

Phases == {"none", "live", "dying"}
DbStates == {"free", "open", "zombie"}

ConnTypeOK ==
  /\ phase \in [Conns -> Phases]
  /\ handle \in [Conns -> Dbs \cup {None}]
  /\ db \in [Dbs -> DbStates]
  /\ made \in [Stmts -> BOOLEAN]
  /\ vm \in [Stmts -> Vms \cup {None}]
  /\ sconn \in [Stmts -> Conns \cup {None}]
  /\ vmdb \in [Vms -> Dbs \cup {None}]

ConnInit ==
  /\ phase = [c \in Conns |-> "none"]
  /\ handle = [c \in Conns |-> None]
  /\ db = [d \in Dbs |-> "free"]
  /\ made = [s \in Stmts |-> FALSE]
  /\ vm = [s \in Stmts |-> None]
  /\ sconn = [s \in Stmts |-> None]
  /\ vmdb = [v \in Vms |-> None]

VmsOf(d) == {v \in Vms : vmdb[v] = d}
StmtsOf(c) == {s \in Stmts : made[s] /\ sconn[s] = c}

-----------------------------------------------------------------------------
(* The C library. *)

\* sqlite3_close_v2(): with statements left, the database becomes a zombie.
\* Closing null does nothing; closing a freed handle is undefined, and there
\* is nothing left for it to free.
CloseV2(h) ==
  db' = IF h \in Dbs /\ db[h] = "open"
        THEN [db EXCEPT ![h] = IF VmsOf(h) = {} THEN "free" ELSE "zombie"]
        ELSE db

\* sqlite3_finalize(): the last statement takes a zombie database with it.
Finalize(v) ==
  IF v \in Vms /\ vmdb[v] # None
  THEN /\ vmdb' = [vmdb EXCEPT ![v] = None]
       /\ db' = IF db[vmdb[v]] = "zombie" /\ VmsOf(vmdb[v]) = {v}
                THEN [db EXCEPT ![vmdb[v]] = "free"] ELSE db
  ELSE UNCHANGED <<vmdb, db>>

-----------------------------------------------------------------------------
(* Operations of connection. *)

\* Mutant: connection() without its initializer for `handle`.
ConstructUninitialized(c) ==
  /\ phase[c] = "none"
  /\ phase' = [phase EXCEPT ![c] = "live"]
  /\ handle' = [handle EXCEPT ![c] = "indeterminate"]
  /\ UNCHANGED <<db, made, vm, sconn, vmdb>>

\* connection(): a connection object that is not open.
Construct(c) ==
  /\ phase[c] = "none"
  /\ phase' = [phase EXCEPT ![c] = "live"]
  /\ handle' = [handle EXCEPT ![c] = None]
  /\ UNCHANGED <<db, made, vm, sconn, vmdb>>

\* open() stores the new handle over whatever `handle` was.
Open(c) ==
  /\ phase[c] = "live"
  /\ handle[c] = None \/ "overwrite" \in Beyond
  /\ \E d \in Dbs : /\ db[d] = "free"
                    /\ db' = [db EXCEPT ![d] = "open"]
                    /\ handle' = [handle EXCEPT ![c] = d]
  /\ UNCHANGED <<phase, made, vm, sconn, vmdb>>

\* open() fails: the handle SQLite stored, if any, is closed again and
\* `handle` is left null.
OpenFails(c) ==
  /\ phase[c] = "live"
  /\ handle[c] = None \/ "overwrite" \in Beyond
  /\ handle' = [handle EXCEPT ![c] = None]
  /\ UNCHANGED <<phase, db, made, vm, sconn, vmdb>>

\* Mutant: close() does not set `handle` to null.
CloseKeepsHandle(c) ==
  /\ phase[c] = "live"
  /\ CloseV2(handle[c])
  /\ UNCHANGED <<phase, handle, made, vm, sconn, vmdb>>

\* Mutant: close() finalizes the statements that are left.
CloseFinalizes(c) ==
  /\ phase[c] = "live"
  /\ handle[c] # None
  /\ db' = [db EXCEPT ![handle[c]] = "free"]
  /\ vmdb' = [v \in Vms |-> IF vmdb[v] = handle[c] THEN None ELSE vmdb[v]]
  /\ handle' = [handle EXCEPT ![c] = None]
  /\ UNCHANGED <<phase, made, vm, sconn>>

\* close(): cannot fail, and may leave a zombie.
Close(c) ==
  /\ phase[c] = "live"
  /\ CloseV2(handle[c])
  /\ handle' = [handle EXCEPT ![c] = None]
  /\ UNCHANGED <<phase, made, vm, sconn, vmdb>>

\* Mutant: close_sync() forgets the handle when SQLite refuses to close it.
CloseSyncForgets(c) ==
  /\ phase[c] = "live"
  /\ IF handle[c] # None /\ VmsOf(handle[c]) # {}
     THEN UNCHANGED db
     ELSE CloseV2(handle[c])
  /\ handle' = [handle EXCEPT ![c] = None]
  /\ UNCHANGED <<phase, made, vm, sconn, vmdb>>

\* close_sync(): with statements left, SQLite refuses and the handle is kept.
CloseSync(c) ==
  /\ phase[c] = "live"
  /\ IF handle[c] # None /\ VmsOf(handle[c]) # {}
     THEN UNCHANGED <<db, handle>>
     ELSE /\ CloseV2(handle[c])
          /\ handle' = [handle EXCEPT ![c] = None]
  /\ UNCHANGED <<phase, made, vm, sconn, vmdb>>

\* Mutant: ~connection() does not close the handle.
DestroyUnclosed(c) ==
  /\ phase[c] = "live"
  /\ StmtsOf(c) = {}
  /\ handle' = [handle EXCEPT ![c] = None]
  /\ phase' = [phase EXCEPT ![c] = "dying"]
  /\ UNCHANGED <<db, made, vm, sconn, vmdb>>

\* ~connection(), the body: closes an open handle.  The caller destroys the
\* statements that refer to this object first (statement.hpp:48-50).
Destroy(c) ==
  /\ phase[c] = "live"
  /\ StmtsOf(c) = {}
  /\ CloseV2(handle[c])
  /\ handle' = [handle EXCEPT ![c] = None]
  /\ phase' = [phase EXCEPT ![c] = "dying"]
  /\ UNCHANGED <<made, vm, sconn, vmdb>>

\* ~connection(), after the body: the members are destroyed.
DestroyMembers(c) ==
  /\ phase[c] = "dying"
  /\ phase' = [phase EXCEPT ![c] = "none"]
  /\ UNCHANGED <<handle, db, made, vm, sconn, vmdb>>

\* connection(connection&&) and operator=(connection&&), both defaulted: the
\* raw handle is copied over the target's and stays in the source.
MoveConnection(c, to) ==
  /\ "move" \in Beyond
  /\ c # to /\ phase[c] = "live" /\ phase[to] # "dying"
  /\ phase[to] = "live" => handle[to] = None \/ "overwrite" \in Beyond
  /\ phase' = [phase EXCEPT ![to] = "live"]
  /\ handle' = [handle EXCEPT ![to] = handle[c]]
  /\ UNCHANGED <<db, made, vm, sconn, vmdb>>

-----------------------------------------------------------------------------
(* Operations of statement. *)

\* prepare(): the new statement object owns the new handle, which is null
\* when the SQL holds no statement.
Prepare(c, s) ==
  /\ phase[c] = "live"
  /\ handle[c] # None /\ db[handle[c]] = "open"
  /\ ~made[s]
  /\ made' = [made EXCEPT ![s] = TRUE]
  /\ sconn' = [sconn EXCEPT ![s] = c]
  /\ \/ /\ vm' = [vm EXCEPT ![s] = None]
        /\ UNCHANGED vmdb
     \/ \E v \in Vms : /\ vmdb[v] = None
                       /\ vm' = [vm EXCEPT ![s] = v]
                       /\ vmdb' = [vmdb EXCEPT ![v] = handle[c]]
  /\ UNCHANGED <<phase, handle, db>>

\* Mutant: ~statement() does not finalize the handle.
DestroyUnfinalized(s) ==
  /\ made[s]
  /\ made' = [made EXCEPT ![s] = FALSE]
  /\ vm' = [vm EXCEPT ![s] = None]
  /\ sconn' = [sconn EXCEPT ![s] = None]
  /\ UNCHANGED <<phase, handle, db, vmdb>>

\* ~statement(): finalizes the handle.
DestroyStatement(s) ==
  /\ made[s]
  /\ Finalize(vm[s])
  /\ made' = [made EXCEPT ![s] = FALSE]
  /\ vm' = [vm EXCEPT ![s] = None]
  /\ sconn' = [sconn EXCEPT ![s] = None]
  /\ UNCHANGED <<phase, handle>>

\* statement(statement&&), defaulted: both objects hold the handle.
MoveStatement(s, to) ==
  /\ "move" \in Beyond
  /\ made[s] /\ ~made[to]
  /\ made' = [made EXCEPT ![to] = TRUE]
  /\ vm' = [vm EXCEPT ![to] = vm[s]]
  /\ sconn' = [sconn EXCEPT ![to] = sconn[s]]
  /\ UNCHANGED <<phase, handle, db, vmdb>>

-----------------------------------------------------------------------------
ConnNext ==
  \/ \E c \in Conns : \/ Construct(c) \/ Open(c) \/ OpenFails(c) \/ Close(c)
                      \/ CloseSync(c) \/ Destroy(c) \/ DestroyMembers(c)
  \/ \E c, to \in Conns : MoveConnection(c, to)
  \/ \E c \in Conns, s \in Stmts : Prepare(c, s)
  \/ \E s \in Stmts : DestroyStatement(s)
  \/ \E s, to \in Stmts : MoveStatement(s, to)

\* Every statement object is destroyed at some time: it lives in a scope of
\* the program.  Nothing else is assumed of the program.
ConnFairness == \A s \in Stmts : WF_connVars(DestroyStatement(s))

ConnSpec == ConnInit /\ [][ConnNext]_connVars

FairConnSpec == ConnSpec /\ ConnFairness

-----------------------------------------------------------------------------
(* What makes it correct. *)

\* The handle of a connection object is open and is the handle of no other
\* connection object, so that each close() closes it exactly once.
HandleOwned ==
  \A c \in Conns : phase[c] = "live" /\ handle[c] # None =>
    /\ db[handle[c]] = "open"
    /\ \A c2 \in Conns : phase[c2] = "live" /\ handle[c2] = handle[c] => c2 = c

\* The handle of a statement object has not been finalized and is the handle
\* of no other statement object ("takes ownership of the C API handle and
\* will close it on destruction", statement.hpp:52-53).
StatementOwned ==
  \A s \in Stmts : made[s] /\ vm[s] # None =>
    /\ vmdb[vm[s]] # None
    /\ \A s2 \in Stmts : made[s2] /\ vm[s2] = vm[s] => s2 = s

\* A statement's database has not been freed, and while it is still open it
\* is the one its connection object holds: close() cannot pull the database
\* away from under a statement.
StatementDb ==
  \A s \in Stmts : made[s] /\ vm[s] # None =>
    LET d == vmdb[vm[s]] IN
    /\ d # None /\ db[d] # "free"
    /\ db[d] = "open" => sconn[s] # None /\ handle[sconn[s]] = d

\* No database and no statement handle is lost: each belongs to an object
\* whose destruction releases it.
NothingLeaks ==
  /\ \A d \in Dbs : db[d] = "open" =>
       \E c \in Conns : phase[c] = "live" /\ handle[c] = d
  /\ \A d \in Dbs : db[d] = "zombie" => VmsOf(d) # {}
  /\ \A v \in Vms : vmdb[v] # None => \E s \in Stmts : made[s] /\ vm[s] = v

\* "might delay closure and finish it async" (connection.hpp:174): a closed
\* database is freed in the end.
DelayedClosureFinishes == \A d \in Dbs : db[d] = "zombie" ~> db[d] = "free"
=============================================================================
