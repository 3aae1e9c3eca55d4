--------------------------- MODULE CallableStore ---------------------------
(***************************************************************************)
(* What sqxx promises about every C++ callable it hands to the C library.  *)
(*                                                                         *)
(* SQLite is given a bare pointer to a heap object: a std::function for a  *)
(* handler, a copy of the caller's callable for an SQL function, aggregate *)
(* or collation.  SQLite may call through any pointer it is bound to, so   *)
(* the object has to be stored for as long as a pointer is bound and for   *)
(* as long as a call through it is running.  Handlers and Registration     *)
(* implement this specification, with two different owners: the callback   *)
(* table of the connection object, and SQLite itself.                      *)
(***************************************************************************)

CONSTANT Callables          \* the heap objects

VARIABLES stored,           \* the objects that have been made and not freed
          bound,            \* the objects SQLite holds a pointer to
          inUse             \* the objects a call is running in

vars == <<stored, bound, inUse>>

TypeOK == /\ stored \subseteq Callables
          /\ bound \subseteq Callables
          /\ inUse \subseteq Callables

Init == stored = {} /\ bound = {} /\ inUse = {}

\* SQLite is given a pointer to a new or a stored object, and forgets Out.
Bind(o, Out) == /\ stored' = stored \cup {o}
                /\ bound' = (bound \ Out) \cup {o}
                /\ UNCHANGED inUse

Unbind(Out) == /\ bound' = bound \ Out
               /\ UNCHANGED <<stored, inUse>>

\* Objects are freed: only those nothing can call any more.
Free(Out) == /\ Out \cap (bound \cup inUse) = {}
             /\ stored' = stored \ Out
             /\ UNCHANGED <<bound, inUse>>

\* SQLite forgets pointers and frees their objects in one step.
Drop(Out) == /\ Out \cap inUse = {}
             /\ bound' = bound \ Out
             /\ stored' = stored \ Out
             /\ UNCHANGED inUse

\* A pointer to a new object takes the place of those in Out, which go too.
Replace(o, Out) == /\ o \notin stored
                   /\ Out \cap inUse = {}
                   /\ bound' = (bound \ Out) \cup {o}
                   /\ stored' = (stored \ Out) \cup {o}
                   /\ UNCHANGED inUse

\* SQLite calls through a pointer, and the call comes back.
Begin(o) == /\ o \in bound
            /\ inUse' = inUse \cup {o}
            /\ UNCHANGED <<stored, bound>>

End(o) == /\ o \in inUse
          /\ inUse' = inUse \ {o}
          /\ UNCHANGED <<stored, bound>>

Next == \/ \E o \in Callables : Begin(o) \/ End(o)
        \/ \E o \in Callables, Out \in SUBSET Callables : Bind(o, Out) \/ Replace(o, Out)
        \/ \E Out \in SUBSET Callables : Unbind(Out) \/ Free(Out) \/ Drop(Out)

Spec == Init /\ [][Next]_vars

\* Whatever SQLite can call, or is calling, is still stored.
Callable == bound \cup inUse \subseteq stored
=============================================================================
