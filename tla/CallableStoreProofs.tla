------------------------ MODULE CallableStoreProofs ------------------------
(***************************************************************************)
(* What follows from the promise of CallableStore.                         *)
(***************************************************************************)
EXTENDS CallableStore, TLAPS

\* Whatever SQLite can call, or is calling, has not been freed.  An
\* implementation of the callable store inherits this.
THEOREM StoreIsCallable == Spec => []Callable
<1>1. Init => Callable
  BY DEF Init, Callable
<1>2. Callable /\ [Next]_vars => Callable'
  <2> SUFFICES ASSUME Callable, [Next]_vars PROVE Callable'
    OBVIOUS
  <2> USE DEF Callable
  <2>1. ASSUME NEW o \in Callables, Begin(o) \/ End(o)  PROVE Callable'
    BY <2>1 DEF Begin, End
  <2>2. ASSUME NEW o \in Callables, NEW Out \in SUBSET Callables,
               Bind(o, Out) \/ Replace(o, Out)
        PROVE  Callable'
    BY <2>2 DEF Bind, Replace
  <2>3. ASSUME NEW Out \in SUBSET Callables, Unbind(Out) \/ Free(Out) \/ Drop(Out)
        PROVE  Callable'
    BY <2>3 DEF Unbind, Free, Drop
  <2>4. CASE UNCHANGED vars
    BY <2>4 DEF vars
  <2> QED
    BY <2>1, <2>2, <2>3, <2>4 DEF Next
<1> QED
  BY <1>1, <1>2, PTL DEF Spec
=============================================================================
