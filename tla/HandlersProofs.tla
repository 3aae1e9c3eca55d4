--------------------------- MODULE HandlersProofs ---------------------------
(***************************************************************************)
(* Proofs about Handlers, for all sets of objects and kinds of handlers.   *)
(***************************************************************************)
EXTENDS Handlers, ConnectionProofs

USE ObjsAssumption, KindsAssumption

-----------------------------------------------------------------------------
(* Every handler has one owner, whatever happens. *)

\* What is in a table or held by a setter has not been freed.
OwnedIsLive ==
  /\ \A c \in Conns, k \in Kinds : slot[c][k] # None => slot[c][k] \in heap
  /\ \A c \in Conns : cb[c] # None => cb[c] \in heap

\* No object is at two places.
OwnedOnce ==
  /\ \A c1, c2 \in Conns, k1, k2 \in Kinds :
       slot[c1][k1] # None /\ slot[c1][k1] = slot[c2][k2] => c1 = c2 /\ k1 = k2
  /\ \A c1, c2 \in Conns : cb[c1] # None /\ cb[c1] = cb[c2] => c1 = c2
  /\ \A c1, c2 \in Conns, k \in Kinds : cb[c1] # None => cb[c1] # slot[c2][k]

\* What has not been freed is at some place.
LiveIsOwned ==
  \A o \in heap : \/ \E c \in Conns, k \in Kinds : slot[c][k] = o
                  \/ \E c \in Conns : cb[c] = o

\* Only a setter holds a new object.
OnlySettersHold == \A c \in Conns : setting[c] = None => cb[c] = None

OwnInv == HdlTypeOK /\ OwnedIsLive /\ OwnedOnce /\ LiveIsOwned /\ OnlySettersHold

LEMMA InitOwn == Init => OwnInv
BY DEF Init, OwnInv, HdlTypeOK, OwnedIsLive, OwnedOnce, LiveIsOwned, OnlySettersHold, NoSlots

\* Setting one hook of one database.
LEMMA HookType ==
  ASSUME hook \in [Dbs -> [Kinds -> Objs \cup {None, Builtin}]],
         NEW h \in Dbs, NEW k \in Kinds, NEW x \in Objs \cup {None, Builtin},
         hook' = [hook EXCEPT ![h] = [@ EXCEPT ![k] = x]]
  PROVE  hook' \in [Dbs -> [Kinds -> Objs \cup {None, Builtin}]]
<1>1. [hook[h] EXCEPT ![k] = x] \in [Kinds -> Objs \cup {None, Builtin}]
  OBVIOUS
<1> QED
  BY <1>1

LEMMA RegisterOwn ==
  ASSUME OwnInv, handle \in [Conns -> Dbs \cup {None}],
         NEW c \in Conns, NEW k \in Kinds, NEW o \in Objs, Register(c, k, o)
  PROVE  OwnInv'
<1> USE DEF OwnInv, Register, CanSet, Unused
<1>1. HdlTypeOK'
  <2>1. heap' \subseteq Objs /\ home' \in [Objs -> Conns \cup {None}]
    BY DEF HdlTypeOK
  <2>2. hook' \in [Dbs -> [Kinds -> Objs \cup {None, Builtin}]]
    <3>1. handle[c] \in Dbs /\ o \in Objs \cup {None, Builtin}
      OBVIOUS
    <3> QED
      BY <3>1, HookType DEF HdlTypeOK
  <2>3. /\ setting' \in [Conns -> Kinds \cup {None}]
        /\ cb' \in [Conns -> Objs \cup {None}]
    BY DEF HdlTypeOK
  <2>4. UNCHANGED <<table, slot, running>>
    OBVIOUS
  <2> HIDE DEF Register, CanSet
  <2> QED
    BY <2>1, <2>2, <2>3, <2>4 DEF HdlTypeOK
<1>2. OwnedIsLive'
  BY DEF HdlTypeOK, OwnedIsLive, OwnedOnce
<1>3. OwnedOnce'
  BY DEF HdlTypeOK, OwnedOnce, OwnedIsLive, OnlySettersHold
<1>4. LiveIsOwned'
  BY DEF HdlTypeOK, LiveIsOwned, OnlySettersHold
<1>5. OnlySettersHold'
  BY DEF HdlTypeOK, OnlySettersHold
<1> QED
  BY <1>1, <1>2, <1>3, <1>4, <1>5

LEMMA UnregisterOwn ==
  ASSUME OwnInv, handle \in [Conns -> Dbs \cup {None}],
         NEW c \in Conns, NEW k \in Kinds, Unregister(c, k) \/ UseBuiltin(c, k)
  PROVE  OwnInv'
<1> USE DEF OwnInv, Unregister, UseBuiltin, CanSet
<1>1. HdlTypeOK'
  <2>1. handle[c] \in Dbs
    OBVIOUS
  <2>2. PICK x \in {None, Builtin} :
          hook' = [hook EXCEPT ![handle[c]] = [@ EXCEPT ![k] = x]]
    OBVIOUS
  <2>3. hook' \in [Dbs -> [Kinds -> Objs \cup {None, Builtin}]]
    BY <2>1, <2>2, HookType DEF HdlTypeOK
  <2>4. setting' \in [Conns -> Kinds \cup {None}]
    BY DEF HdlTypeOK
  <2>5. UNCHANGED <<heap, home, table, slot, cb, running>>
    OBVIOUS
  <2> HIDE DEF Unregister, UseBuiltin, CanSet
  <2> QED
    BY <2>3, <2>4, <2>5 DEF HdlTypeOK
<1>2. OwnedIsLive'
  BY DEF HdlTypeOK, OwnedIsLive, OwnedOnce
<1>3. OwnedOnce'
  BY DEF HdlTypeOK, OwnedOnce, OwnedIsLive, OnlySettersHold
<1>4. LiveIsOwned'
  <2>1. UNCHANGED <<heap, slot, cb>>
    OBVIOUS
  <2> HIDE DEF Unregister, UseBuiltin, CanSet
  <2> QED
    BY <2>1 DEF LiveIsOwned
<1>5. OnlySettersHold'
  BY DEF HdlTypeOK, OnlySettersHold
<1> QED
  BY <1>1, <1>2, <1>3, <1>4, <1>5

LEMMA StoreOwn ==
  ASSUME OwnInv, NEW c \in Conns, Store(c)
  PROVE  OwnInv'
<1> USE DEF OwnInv, Store
<1>1. HdlTypeOK'
  BY DEF HdlTypeOK
<1>2. OwnedIsLive'
  BY DEF HdlTypeOK, OwnedIsLive, OwnedOnce
<1>3. OwnedOnce'
  BY DEF HdlTypeOK, OwnedOnce, OwnedIsLive, OnlySettersHold
<1>4. LiveIsOwned'
  BY DEF HdlTypeOK, LiveIsOwned, OnlySettersHold
<1>5. OnlySettersHold'
  BY DEF HdlTypeOK, OnlySettersHold
<1> QED
  BY <1>1, <1>2, <1>3, <1>4, <1>5

LEMMA StoreNoMemOwn ==
  ASSUME OwnInv, NEW c \in Conns, StoreNoMem(c)
  PROVE  OwnInv'
<1> USE DEF OwnInv, StoreNoMem
<1>1. HdlTypeOK'
  BY DEF HdlTypeOK
<1>2. OwnedIsLive'
  BY DEF HdlTypeOK, OwnedIsLive, OwnedOnce
<1>3. OwnedOnce'
  BY DEF HdlTypeOK, OwnedOnce, OwnedIsLive, OnlySettersHold
<1>4. LiveIsOwned'
  BY DEF HdlTypeOK, LiveIsOwned, OnlySettersHold
<1>5. OnlySettersHold'
  BY DEF HdlTypeOK, OnlySettersHold
<1> QED
  BY <1>1, <1>2, <1>3, <1>4, <1>5

LEMMA DestroyTableOwn ==
  ASSUME OwnInv, NEW c \in Conns, DestroyTable(c)
  PROVE  OwnInv'
<1> USE DEF OwnInv, DestroyTable, NoSlots, SlotsOf
<1>1. HdlTypeOK'
  BY DEF HdlTypeOK
<1>2. OwnedIsLive'
  BY DEF HdlTypeOK, OwnedIsLive, OwnedOnce
<1>3. OwnedOnce'
  BY DEF HdlTypeOK, OwnedOnce, OwnedIsLive, OnlySettersHold
<1>4. LiveIsOwned'
  BY DEF HdlTypeOK, LiveIsOwned, OnlySettersHold
<1>5. OnlySettersHold'
  BY DEF HdlTypeOK, OnlySettersHold
<1> QED
  BY <1>1, <1>2, <1>3, <1>4, <1>5

LEMMA MoveConnOwn ==
  ASSUME OwnInv, NEW c \in Conns, NEW to \in Conns, MoveConn(c, to)
  PROVE  OwnInv'
<1> USE DEF OwnInv
<1>1. HdlTypeOK'
  BY DEF HdlTypeOK, MoveConn, NoSlots
<1>2. /\ \A x \in Conns, k \in Kinds :
           slot'[x][k] = IF x = to THEN slot[c][k] ELSE IF x = c THEN None ELSE slot[x][k]
      /\ c # to
  BY DEF HdlTypeOK, MoveConn, MoveConnection, NoSlots
<1>3. /\ \A o \in Objs : o \in heap' <=> o \in heap /\ \A k \in Kinds : slot[to][k] # o
      /\ cb' = cb /\ setting' = setting /\ cb[to] = None
  BY DEF HdlTypeOK, MoveConn, Ready, SlotsOf, OnlySettersHold
<1>4. OwnedIsLive'
  BY <1>2, <1>3 DEF HdlTypeOK, OwnedIsLive, OwnedOnce
<1>5. OwnedOnce'
  <2>1. ASSUME NEW x \in Conns, NEW y \in Conns, NEW k \in Kinds, NEW l \in Kinds,
               slot'[x][k] # None, slot'[x][k] = slot'[y][l]
        PROVE  x = y /\ k = l
    <3>1. x # c /\ y # c
      BY <1>2, <2>1
    <3>2. CASE x = to /\ y # to
      BY <1>2, <2>1, <3>1, <3>2 DEF OwnedOnce
    <3>3. CASE x # to /\ y = to
      BY <1>2, <2>1, <3>1, <3>3 DEF OwnedOnce
    <3>4. CASE (x = to) <=> (y = to)
      BY <1>2, <2>1, <3>1, <3>4 DEF OwnedOnce
    <3> QED
      BY <3>2, <3>3, <3>4
  <2>2. ASSUME NEW x \in Conns, NEW y \in Conns, NEW k \in Kinds, cb'[x] # None
        PROVE  cb'[x] # slot'[y][k]
    BY <1>2, <1>3, <2>2 DEF OwnedOnce
  <2> QED
    BY <1>3, <2>1, <2>2 DEF OwnedOnce
<1>6. LiveIsOwned'
  <2>1. ASSUME NEW o \in heap', NEW x \in Conns, NEW k \in Kinds, slot[x][k] = o
        PROVE  \E y \in Conns, l \in Kinds : slot'[y][l] = o
    <3>1. x # to /\ o # None
      BY <1>1, <1>3, <2>1 DEF HdlTypeOK
    <3>2. CASE x = c
      BY <1>2, <2>1, <3>2
    <3>3. CASE x # c
      BY <1>2, <2>1, <3>1, <3>3
    <3> QED
      BY <3>2, <3>3
  <2> QED
    BY <1>1, <1>3, <2>1 DEF HdlTypeOK, LiveIsOwned
<1>7. OnlySettersHold'
  BY <1>3 DEF OnlySettersHold
<1> QED
  BY <1>1, <1>4, <1>5, <1>6, <1>7

LEMMA CallOwn ==
  ASSUME OwnInv, NEW d \in Dbs, (\E k \in Kinds : Call(d, k)) \/ Return(d)
  PROVE  OwnInv'
<1>1. HdlTypeOK'
  <2>1. CASE \E k \in Kinds : Call(d, k)
    BY <2>1 DEF Call, OwnInv, HdlTypeOK
  <2>2. CASE Return(d)
    BY <2>2 DEF Return, OwnInv, HdlTypeOK
  <2> QED
    BY <2>1, <2>2
<1>2. UNCHANGED <<heap, slot, setting, cb>>
  BY DEF Call, Return
<1> QED
  BY <1>1, <1>2 DEF OwnInv, OwnedIsLive, OwnedOnce, LiveIsOwned, OnlySettersHold

\* The other steps of the life cycle leave the owners alone.
LEMMA LifeCycleOwn ==
  ASSUME OwnInv, HooksAfterFree \/ UNCHANGED hook,
         UNCHANGED <<heap, home, table, slot, setting, cb, running>>
  PROVE  OwnInv'
<1>1. HdlTypeOK'
  BY DEF HooksAfterFree, OwnInv, HdlTypeOK, NoSlots
<1> QED
  BY <1>1 DEF OwnInv, OwnedIsLive, OwnedOnce, LiveIsOwned, OnlySettersHold

\* Every step of the handlers is a step of the life cycle, or changes nothing
\* of it.
LEMMA NextIsConnNext == ASSUME [Next]_vars PROVE [ConnNext]_connVars
<1> USE DEF ConnNext
<1>1. ASSUME NEW c \in Conns, Set(c)  PROVE UNCHANGED connVars
  BY <1>1 DEF Set, Register, Unregister, UseBuiltin, Store, StoreNoMem
<1>2. ASSUME NEW c \in Conns, LifeCycle(c)  PROVE ConnNext
  BY <1>2 DEF LifeCycle, ConstructConn, OpenConn, OpenFailsConn, CloseConn,
              DestroyConn, DestroyTable, MoveConn, PrepareStmt
<1>3. ASSUME NEW s \in Stmts, DestroyStmt(s) \/ \E to \in Stmts : MoveStmt(s, to)
      PROVE  ConnNext
  BY <1>3 DEF DestroyStmt, MoveStmt
<1>4. ASSUME NEW d \in Dbs, (\E k \in Kinds : Call(d, k)) \/ Return(d)
      PROVE  UNCHANGED connVars
  BY <1>4 DEF Call, Return
<1>5. CASE UNCHANGED vars
  BY <1>5 DEF vars
<1> HIDE DEF ConnNext
<1> QED
  BY <1>1, <1>2, <1>3, <1>4, <1>5 DEF Next

LEMMA NextOwn == ASSUME ConnTypeOK, OwnInv, [Next]_vars PROVE OwnInv'
<1> USE DEF ConnTypeOK
<1>1. ASSUME NEW c \in Conns, Set(c)  PROVE OwnInv'
  BY <1>1, RegisterOwn, UnregisterOwn, StoreOwn, StoreNoMemOwn DEF Set
<1>2. ASSUME NEW c \in Conns, LifeCycle(c)  PROVE OwnInv'
  <2>1. CASE DestroyTable(c)
    BY <2>1, DestroyTableOwn
  <2>2. CASE \E to \in Conns : MoveConn(c, to)
    BY <2>2, MoveConnOwn
  <2>3. CASE ConstructConn(c) \/ OpenConn(c) \/ OpenFailsConn(c)
             \/ \E s \in Stmts : PrepareStmt(c, s)
    BY <2>3, LifeCycleOwn DEF ConstructConn, OpenConn, OpenFailsConn, PrepareStmt, hdlVars
  <2>4. CASE CloseConn(c) \/ DestroyConn(c)
    BY <2>4, LifeCycleOwn DEF CloseConn, DestroyConn
  <2> QED
    BY <1>2, <2>1, <2>2, <2>3, <2>4 DEF LifeCycle
<1>3. ASSUME NEW s \in Stmts, DestroyStmt(s) \/ \E to \in Stmts : MoveStmt(s, to)
      PROVE  OwnInv'
  BY <1>3, LifeCycleOwn DEF DestroyStmt, MoveStmt, hdlVars
<1>4. ASSUME NEW d \in Dbs, (\E k \in Kinds : Call(d, k)) \/ Return(d)
      PROVE  OwnInv'
  BY <1>4, CallOwn
<1>5. CASE UNCHANGED vars
  BY <1>5, LifeCycleOwn DEF vars, hdlVars
<1> QED
  BY <1>1, <1>2, <1>3, <1>4, <1>5 DEF Next

\* One owner, as HandlersOwned says it.
LEMMA OwnersUnique == ASSUME OwnInv PROVE HandlersOwned
<1> SUFFICES ASSUME NEW o \in heap
             PROVE  \/ /\ Holders(o) = {}
                       /\ \E p \in Owners(o) : Owners(o) = {p}
                    \/ /\ Owners(o) = {}
                       /\ \E c \in Holders(o) : Holders(o) = {c}
  BY DEF HandlersOwned
<1>1. o # None
  BY DEF OwnInv, HdlTypeOK
<1>2. CASE \E c \in Conns, k \in Kinds : slot[c][k] = o
  <2>1. PICK c \in Conns, k \in Kinds : slot[c][k] = o
    BY <1>2
  <2>2. Holders(o) = {}
    BY <1>1, <2>1 DEF Holders, OwnInv, OwnedOnce
  <2>3. <<c, k>> \in Owners(o)
    BY <2>1 DEF Owners
  <2>4. ASSUME NEW p \in Owners(o)  PROVE p = <<c, k>>
    BY <1>1, <2>1, <2>4 DEF Owners, OwnInv, OwnedOnce
  <2> QED
    BY <2>2, <2>3, <2>4
<1>3. CASE \E c \in Conns : cb[c] = o
  <2>1. PICK c \in Conns : cb[c] = o
    BY <1>3
  <2>2. Owners(o) = {}
    BY <1>1, <2>1 DEF Owners, OwnInv, OwnedOnce
  <2>3. Holders(o) = {c}
    BY <1>1, <2>1 DEF Holders, OwnInv, OwnedOnce
  <2> QED
    BY <2>2, <2>3
<1> QED
  BY <1>2, <1>3 DEF OwnInv, LiveIsOwned

LEMMA InitType == Init => ConnTypeOK
BY DEF Init, ConnInit, ConnTypeOK, Phases, DbStates

\* Every handler that has been made and not freed has one owner, which frees
\* it once: whatever is moved, overwritten, reopened or called from a handler,
\* and whichever allocation fails.
THEOREM HandlersHaveOneOwner == Spec => [](TypeOK /\ HandlersOwned)
<1> DEFINE Inv == ConnTypeOK /\ OwnInv
<1>1. Init => Inv
  BY InitType, InitOwn
<1>2. Inv /\ [Next]_vars => Inv'
  BY NextIsConnNext, ConnTypeStep, NextOwn
<1>3. Inv => TypeOK /\ HandlersOwned
  BY OwnersUnique DEF TypeOK, OwnInv
<1> QED
  BY <1>1, <1>2, <1>3, PTL DEF Spec

-----------------------------------------------------------------------------
(* What SQLite calls has not been freed, within the contract. *)

USE NoneAssumption

\* The contract: no object is moved, none is opened while it is open or while
\* its statements remain, no handler sets or clears itself, and there is memory.
WithinContract == Beyond = {}

\* The contract but for handlers that set or clear themselves, which only
\* endangers the handler that is running.
MayReenter == Beyond \subseteq {"reentrant"}

\* A database that is free has no hooks.
FreeIsBare == \A d \in Dbs, k \in Kinds : db[d] = "free" => hook[d][k] = None

\* What the database of a connection object calls is in the table of that
\* object, or held by its setter, and refers back to that object.
HookOfOpen ==
  \A c \in Conns, k \in Kinds :
    handle[c] # None /\ hook[handle[c]][k] \in Objs =>
      /\ hook[handle[c]][k] = IF setting[c] = k THEN cb[c] ELSE slot[c][k]
      /\ home[hook[handle[c]][k]] = c

\* What a zombie calls is in the table of the connection object that its
\* statements refer to, which is still there and not open.
HookOfZombie ==
  \A s \in Stmts : made[s] /\ vm[s] # None /\ db[vmdb[vm[s]]] = "zombie" =>
    /\ handle[sconn[s]] = None
    /\ \A k \in Kinds : hook[vmdb[vm[s]]][k] \in Objs =>
         slot[sconn[s]][k] = hook[vmdb[vm[s]]][k]

\* A setter runs on an open connection.
SettersOpen == \A c \in Conns : setting[c] # None => handle[c] # None

\* A handler that runs is one that the database still has.
RunningIsHooked ==
  \A d \in Dbs : running[d] # None =>
    db[d] # "free" /\ \E k \in Kinds : hook[d][k] = running[d]

HookInv == /\ FreeIsBare
           /\ HookOfOpen
           /\ HookOfZombie
           /\ SettersOpen

\* The inductive invariant of the handlers, and what the contract adds to it.
HdlInv == ConnInv /\ OwnInv /\ HookInv
CallInv == HdlInv /\ RunningIsHooked

LEMMA InitHook == Init => HookInv
BY DEF Init, ConnInit, HookInv, FreeIsBare, HookOfOpen, HookOfZombie, SettersOpen, NoSlots

\* A zombie has a statement object, and an open database a connection object.
LEMMA HookedIsLive == ASSUME HdlInv PROVE HookLive
<1> SUFFICES ASSUME NEW d \in Dbs, NEW k \in Kinds, db[d] # "free", hook[d][k] \in Objs
             PROVE  hook[d][k] \in heap
  BY DEF HookLive
<1> USE DEF HdlInv, ConnInv, NothingLeaks, OwnInv, OwnedIsLive, HookInv
<1>1. CASE db[d] = "open"
  <2>1. PICK c \in Conns : handle[c] = d
    BY <1>1
  <2>2. hook[d][k] = IF setting[c] = k THEN cb[c] ELSE slot[c][k]
    BY <2>1 DEF HookOfOpen
  <2> QED
    BY <2>2
<1>2. CASE db[d] = "zombie"
  <2>1. PICK s \in Stmts : made[s] /\ vm[s] \in Vms /\ vmdb[vm[s]] = d
    BY <1>2 DEF VmsOf
  <2>2. slot[sconn[s]][k] = hook[d][k] /\ sconn[s] \in Conns
    BY <1>2, <2>1 DEF HookOfZombie, ConnectionStays
  <2> QED
    BY <2>2
<1> QED
  BY <1>1, <1>2 DEF ConnTypeOK, DbStates

LEMMA CollationHome == ASSUME HdlInv PROVE CollationConnection
<1> SUFFICES ASSUME "collation" \in Kinds, NEW d \in Dbs, db[d] = "open",
                    hook[d]["collation"] \in Objs
             PROVE  LET c == home[hook[d]["collation"]]
                    IN  c \in Conns /\ phase[c] = "live" /\ handle[c] = d
  BY DEF CollationConnection
<1>1. PICK c \in Conns : phase[c] = "live" /\ handle[c] = d
  BY DEF HdlInv, ConnInv, NothingLeaks
<1> QED
  BY <1>1 DEF HdlInv, HookInv, HookOfOpen

LEMMA RegisterHook ==
  ASSUME HdlInv, NEW c \in Conns, NEW k \in Kinds, NEW o \in Objs,
         Register(c, k, o)
  PROVE  HookInv'
<1> USE DEF HdlInv, ConnInv, ConnTypeOK, OwnInv, HdlTypeOK, HookInv
<1>1. /\ db[handle[c]] = "open" /\ handle[c] \in Dbs
      /\ UNCHANGED <<connVars, slot>>
      /\ \A d \in Dbs, l \in Kinds :
           hook'[d][l] = IF d = handle[c] /\ l = k THEN o ELSE hook[d][l]
      /\ \A x \in Conns : setting'[x] = IF x = c THEN k ELSE setting[x]
      /\ \A x \in Conns : cb'[x] = IF x = c THEN o ELSE cb[x]
      /\ \A x \in Objs : home'[x] = IF x = o THEN c ELSE home[x]
  BY DEF Register, CanSet
<1>2. \A d \in Dbs, l \in Kinds : db[d] # "free" => hook[d][l] # o
  BY HookedIsLive DEF Register, Unused, HookLive
<1>3. setting[c] = None
  BY DEF Register, CanSet
<1>4. FreeIsBare'
  BY <1>1 DEF FreeIsBare, connVars
<1>5. HookOfOpen'
  BY <1>1, <1>2, <1>3 DEF HookOfOpen, HandleOwned, OnlyLiveHold, connVars
<1>6. HookOfZombie'
  BY <1>1 DEF HookOfZombie, StatementDb, connVars
<1>7. SettersOpen'
  BY <1>1 DEF SettersOpen, connVars
<1> QED
  BY <1>4, <1>5, <1>6, <1>7

LEMMA UnregisterHook ==
  ASSUME HdlInv, NEW c \in Conns, NEW k \in Kinds,
         Unregister(c, k) \/ UseBuiltin(c, k)
  PROVE  HookInv'
<1> USE DEF HdlInv, ConnInv, ConnTypeOK, OwnInv, HdlTypeOK, HookInv
<1>1. PICK x \in {None, Builtin} :
        /\ handle[c] \in Dbs
        /\ db[handle[c]] = "open" /\ setting[c] = None
        /\ UNCHANGED <<connVars, home, slot, cb>>
        /\ \A d \in Dbs, l \in Kinds :
             hook'[d][l] = IF d = handle[c] /\ l = k THEN x ELSE hook[d][l]
        /\ \A y \in Conns : setting'[y] = IF y = c THEN k ELSE setting[y]
  BY DEF Unregister, UseBuiltin, CanSet
<1>2. x \notin Objs
  OBVIOUS
<1>4. FreeIsBare'
  BY <1>1, <1>2 DEF FreeIsBare, HandleOwned, OnlyLiveHold, StatementDb, connVars
<1>5. HookOfOpen'
  <2>1. ASSUME NEW y \in Conns, NEW l \in Kinds, handle[y] # None, hook'[handle[y]][l] \in Objs
        PROVE  /\ hook'[handle[y]][l] = hook[handle[y]][l]
               /\ setting'[y] = l <=> setting[y] = l
    <3>1. y = c => l # k
      BY <1>1, <1>2, <2>1
    <3>2. handle[y] = handle[c] => y = c
      BY <1>1, <2>1 DEF HandleOwned, OnlyLiveHold
    <3> QED
      BY <1>1, <2>1, <3>1, <3>2
  <2>2. HookOfOpen /\ UNCHANGED <<handle, home, slot, cb>>
    BY <1>1 DEF connVars
  <2> HIDE DEF HdlInv
  <2> QED
    BY <2>1, <2>2 DEF HookOfOpen
<1>6. HookOfZombie'
  BY <1>1, <1>2 DEF HookOfZombie, HandleOwned, OnlyLiveHold, StatementDb, connVars
<1>7. SettersOpen'
  BY <1>1, <1>2 DEF SettersOpen, HandleOwned, OnlyLiveHold, StatementDb, connVars
<1> QED
  BY <1>4, <1>5, <1>6, <1>7

LEMMA StoreHook ==
  ASSUME HdlInv, NEW c \in Conns, Store(c)
  PROVE  HookInv'
<1> USE DEF HdlInv, ConnInv, ConnTypeOK, OwnInv, HdlTypeOK, HookInv
<1>1. /\ setting[c] \in Kinds /\ handle[c] # None
      /\ UNCHANGED <<connVars, hook, home, running>>
      /\ \A x \in Conns : setting'[x] = IF x = c THEN None ELSE setting[x]
      /\ \A x \in Conns, l \in Kinds :
           slot'[x][l] = IF x = c /\ l = setting[c] THEN cb[c] ELSE slot[x][l]
      /\ \A x \in Conns : x # c => cb'[x] = cb[x]
  BY DEF Store, SettersOpen
<1>4. FreeIsBare'
  BY <1>1 DEF FreeIsBare, connVars, ConnectionStays, StatementDb
<1>5. HookOfOpen'
  <2>1. HookOfOpen /\ handle' = handle
    BY <1>1 DEF connVars
  <2> HIDE DEF HdlInv
  <2> QED
    BY <1>1, <2>1 DEF HookOfOpen
<1>6. HookOfZombie'
  BY <1>1 DEF HookOfZombie, connVars, ConnectionStays, StatementDb
<1>7. SettersOpen'
  BY <1>1 DEF SettersOpen, connVars, ConnectionStays, StatementDb
<1> QED
  BY <1>4, <1>5, <1>6, <1>7

LEMMA CallHook ==
  ASSUME HdlInv, NEW d \in Dbs, (\E k \in Kinds : Call(d, k)) \/ Return(d)
  PROVE  HookInv'
<1> USE DEF HdlInv, ConnInv, ConnTypeOK, OwnInv, HdlTypeOK, HookInv
<1>1. /\ UNCHANGED <<connVars, heap, home, slot, hook, setting, cb>>
      /\ \A c \in Conns : handle[c] = d => setting[c] = None
      /\ \A x \in Dbs : x # d => running'[x] = running[x]
      /\ \/ running'[d] = None
         \/ db[d] # "free" /\ \E k \in Kinds : hook[d][k] = running'[d]
  BY DEF Call, Return
<1>4. FreeIsBare'
  BY <1>1 DEF FreeIsBare, connVars
<1>5. HookOfOpen'
  BY <1>1 DEF HookOfOpen, connVars
<1>6. HookOfZombie'
  BY <1>1 DEF HookOfZombie, connVars
<1>7. SettersOpen'
  BY <1>1 DEF SettersOpen, connVars
<1> QED
  BY <1>4, <1>5, <1>6, <1>7

\* Opening a connection, or failing to: its statements are gone.
LEMMA OpenHook ==
  ASSUME HdlInv, NEW c \in Conns, MayReenter, OpenConn(c) \/ OpenFailsConn(c)
  PROVE  HookInv'
<1> USE DEF HdlInv, ConnInv, ConnTypeOK, OwnInv, HdlTypeOK, HookInv
<1>1. CASE OpenConn(c)
  <2>1. PICK d \in Dbs : /\ db[d] = "free"
                        /\ db' = [db EXCEPT ![d] = "open"]
                        /\ handle' = [handle EXCEPT ![c] = d]
    BY <1>1 DEF OpenConn, Open
  <2>2. /\ setting[c] = None /\ UNCHANGED <<made, vm, sconn, vmdb>> /\ UNCHANGED hdlVars
        /\ \A s \in Stmts : made[s] => sconn[s] # c
        /\ \A k \in Kinds : hook[d][k] = None
    BY <1>1, <2>1 DEF OpenConn, Open, Ready, StmtsOf, MayReenter, FreeIsBare
  <2>3. FreeIsBare'
    BY <2>1, <2>2 DEF FreeIsBare, hdlVars
  <2>4. HookOfOpen'
    BY <2>1, <2>2 DEF HookOfOpen, hdlVars
  <2>5. HookOfZombie'
    BY <2>1, <2>2 DEF HookOfZombie, StatementDb, ConnectionStays, hdlVars
  <2>6. SettersOpen'
    BY <2>1, <2>2 DEF SettersOpen, hdlVars
  <2> QED
    BY <2>3, <2>4, <2>5, <2>6
<1>2. CASE OpenFailsConn(c)
  BY <1>2 DEF OpenFailsConn, OpenFails, Ready, MayReenter, hdlVars, FreeIsBare,
              HookOfOpen, HookOfZombie, SettersOpen
<1> QED
  BY <1>1, <1>2

\* close(), close_sync() and the body of the destructor: the database is freed
\* without its hooks, or it becomes a zombie that keeps them.
LEMMA CloseHook ==
  ASSUME HdlInv, NEW c \in Conns, CloseConn(c) \/ DestroyConn(c)
  PROVE  HookInv'
<1> USE DEF HdlInv, ConnInv, ConnTypeOK, OwnInv, HdlTypeOK, HookInv
<1>1. \/ UNCHANGED <<db, handle>>
      \/ CloseV2(handle[c]) /\ handle' = [handle EXCEPT ![c] = None]
  BY DEF CloseConn, DestroyConn, Close, CloseSync, Destroy
<1>2. /\ UNCHANGED <<heap, home, slot, setting, cb, running, made, vm, sconn, vmdb>>
      /\ setting[c] = None
      /\ handle[c] # None => running[handle[c]] = None
      /\ HooksAfterFree
  BY DEF CloseConn, DestroyConn, Close, CloseSync, Destroy, Ready, Quiet
<1>3. /\ db' \in [Dbs -> DbStates]
      /\ \A d \in Dbs : db'[d] # db[d] => d = handle[c] /\ db'[d] # "open"
      /\ \A x \in Conns : handle'[x] = handle[x] \/ (x = c /\ handle'[x] = None)
      /\ \A d \in Dbs : d = handle[c] /\ db'[d] = "zombie" => handle'[c] = None
  BY <1>1, ClosingOne DEF HandleOwned, OnlyLiveHold, Phases
<1>4. \A d \in Dbs : hook'[d] = IF db'[d] = "free" THEN NoSlots ELSE hook[d]
  BY <1>2 DEF HooksAfterFree
<1>5. FreeIsBare'
  BY <1>2, <1>3, <1>4 DEF FreeIsBare, NoSlots, ConnectionStays, StatementDb, HandleOwned, OnlyLiveHold
<1>6. HookOfOpen'
  <2>1. ASSUME NEW x \in Conns, NEW k \in Kinds, handle'[x] # None,
               hook'[handle'[x]][k] \in Objs
        PROVE  handle'[x] = handle[x] /\ hook'[handle'[x]][k] = hook[handle[x]][k]
    <3>1. handle'[x] = handle[x]
      BY <1>3, <2>1
    <3>2. handle[x] \in Dbs
      BY <2>1, <3>1
    <3> HIDE DEF HdlInv
    <3> QED
      BY <1>4, <2>1, <3>1, <3>2 DEF NoSlots
  <2> QED
    BY <1>2, <2>1 DEF HookOfOpen
<1>7. HookOfZombie'
  <2>1. ASSUME NEW s \in Stmts, made[s], vm[s] # None, db'[vmdb[vm[s]]] = "zombie"
        PROVE  /\ handle'[sconn[s]] = None
               /\ \A k \in Kinds : hook[vmdb[vm[s]]][k] \in Objs =>
                    slot[sconn[s]][k] = hook[vmdb[vm[s]]][k]
    <3>1. vmdb[vm[s]] \in Dbs /\ sconn[s] \in Conns
      BY <2>1 DEF StatementDb, ConnectionStays
    <3>2. CASE db[vmdb[vm[s]]] = "zombie"
      BY <1>3, <2>1, <3>1, <3>2 DEF HookOfZombie
    <3>3. CASE db[vmdb[vm[s]]] # "zombie"
      <4>1. db[vmdb[vm[s]]] = "open" /\ vmdb[vm[s]] = handle[c]
        BY <1>3, <2>1, <3>1, <3>3 DEF StatementDb, DbStates
      <4>2. sconn[s] = c
        BY <2>1, <3>1, <4>1 DEF StatementDb, HandleOwned, OnlyLiveHold
      <4> QED
        BY <1>2, <1>3, <2>1, <3>1, <4>1, <4>2 DEF HookOfOpen
    <3> QED
      BY <3>2, <3>3
  <2>2. ASSUME NEW s \in Stmts, made[s], vm[s] # None, db'[vmdb[vm[s]]] = "zombie"
        PROVE  hook'[vmdb[vm[s]]] = hook[vmdb[vm[s]]]
    BY <1>4, <2>2 DEF StatementDb
  <2> QED
    BY <1>2, <2>1, <2>2 DEF HookOfZombie
<1>8. SettersOpen'
  BY <1>2, <1>3, <1>4 DEF SettersOpen, NoSlots, ConnectionStays, StatementDb, HandleOwned, OnlyLiveHold
<1> QED
  BY <1>5, <1>6, <1>7, <1>8

LEMMA ConstructHook ==
  ASSUME HdlInv, NEW c \in Conns, ConstructConn(c)
  PROVE  HookInv'
<1> USE DEF HdlInv, ConnInv, ConnTypeOK, OwnInv, HdlTypeOK, HookInv
<1>1. handle' = handle /\ UNCHANGED <<db, made, vm, sconn, vmdb>> /\ UNCHANGED hdlVars
  BY DEF ConstructConn, Construct, OnlyLiveHold
<1> QED
  BY <1>1 DEF hdlVars, FreeIsBare, HookOfOpen, HookOfZombie, SettersOpen

\* A connection object that is destroyed holds no handle and has no statements.
LEMMA DestroyTableHook ==
  ASSUME HdlInv, NEW c \in Conns, DestroyTable(c)
  PROVE  HookInv'
<1> USE DEF HdlInv, ConnInv, ConnTypeOK, OwnInv, HdlTypeOK, HookInv
<1>1. /\ phase[c] = "dying" /\ handle[c] = None
      /\ UNCHANGED <<handle, db, made, vm, sconn, vmdb, home, hook, setting, cb, running>>
      /\ \A x \in Conns : x # c => slot'[x] = slot[x]
  BY DEF DestroyTable, DestroyMembers, OnlyLiveHold
<1>4. FreeIsBare'
  BY <1>1 DEF FreeIsBare, ConnectionStays, StatementDb
<1>5. HookOfOpen'
  <2>1. ASSUME NEW x \in Conns, handle[x] # None
        PROVE  slot'[x] = slot[x]
    BY <1>1, <2>1
  <2>2. HookOfOpen
    OBVIOUS
  <2> HIDE DEF HdlInv
  <2> QED
    BY <1>1, <2>1, <2>2 DEF HookOfOpen
<1>6. HookOfZombie'
  <2>1. ASSUME NEW s \in Stmts, made[s]
        PROVE  slot'[sconn[s]] = slot[sconn[s]]
    BY <1>1, <2>1 DEF ConnectionStays
  <2>2. HookOfZombie
    OBVIOUS
  <2> HIDE DEF HdlInv
  <2> QED
    BY <1>1, <2>1, <2>2 DEF HookOfZombie
<1>7. SettersOpen'
  BY <1>1 DEF SettersOpen, ConnectionStays, StatementDb
<1> QED
  BY <1>4, <1>5, <1>6, <1>7

LEMMA PrepareHook ==
  ASSUME HdlInv, NEW c \in Conns, NEW s \in Stmts, PrepareStmt(c, s)
  PROVE  HookInv'
<1> USE DEF HdlInv, ConnInv, ConnTypeOK, OwnInv, HdlTypeOK, HookInv
<1>1. /\ UNCHANGED <<handle, db>> /\ UNCHANGED hdlVars
      /\ \A x \in Stmts : x # s => made'[x] = made[x] /\ vm'[x] = vm[x] /\ sconn'[x] = sconn[x]
      /\ vm'[s] # None => vmdb'[vm'[s]] = handle[c] /\ db[handle[c]] = "open"
      /\ \A x \in Stmts : x # s /\ made[x] /\ vm[x] # None => vmdb'[vm[x]] = vmdb[vm[x]]
  BY DEF PrepareStmt, Prepare, StatementOwned
<1>4. FreeIsBare'
  BY <1>1 DEF FreeIsBare, hdlVars
<1>5. HookOfOpen'
  <2>1. HookOfOpen /\ UNCHANGED <<handle, hook, setting, cb, slot, home>>
    BY <1>1 DEF hdlVars
  <2> HIDE DEF HdlInv
  <2> QED
    BY <2>1 DEF HookOfOpen
<1>6. HookOfZombie'
  <2>1. UNCHANGED <<handle, db, hook, slot>>
    BY <1>1 DEF hdlVars
  <2>2. ASSUME NEW x \in Stmts, made'[x], vm'[x] # None, db'[vmdb'[vm'[x]]] = "zombie"
        PROVE  made[x] /\ vm[x] # None /\ vm'[x] = vm[x] /\ sconn'[x] = sconn[x]
               /\ vmdb'[vm[x]] = vmdb[vm[x]]
    BY <1>1, <2>1, <2>2
  <2>3. HookOfZombie
    OBVIOUS
  <2> HIDE DEF HdlInv
  <2> QED
    BY <2>1, <2>2, <2>3 DEF HookOfZombie
<1>7. SettersOpen'
  BY <1>1 DEF SettersOpen, hdlVars
<1> QED
  BY <1>4, <1>5, <1>6, <1>7

\* The last statement of a zombie takes the database, with its hooks, with it.
LEMMA DestroyStmtHook ==
  ASSUME HdlInv, NEW s \in Stmts, DestroyStmt(s)
  PROVE  HookInv'
<1> USE DEF HdlInv, ConnInv, ConnTypeOK, OwnInv, HdlTypeOK, HookInv
<1>1. /\ UNCHANGED <<handle, heap, home, slot, setting, cb, running>>
      /\ \A x \in Stmts : made'[x] => x # s /\ made[x] /\ vm'[x] = vm[x] /\ sconn'[x] = sconn[x]
      /\ \A v \in Vms : vmdb'[v] = IF v = vm[s] THEN None ELSE vmdb[v]
  BY DEF DestroyStmt, DestroyStatement, Finalize
<1>2. /\ db' \in [Dbs -> DbStates]
      /\ \A d \in Dbs : db'[d] # db[d] =>
           db[d] = "zombie" /\ db'[d] = "free" /\ running[d] = None
  <2>1. CASE vm[s] \in Vms /\ vmdb[vm[s]] # None
    <3>1. /\ vmdb[vm[s]] \in Dbs /\ running[vmdb[vm[s]]] = None
          /\ db' = db \/ (db[vmdb[vm[s]]] = "zombie" /\ db' = [db EXCEPT ![vmdb[vm[s]]] = "free"])
      BY <2>1 DEF DestroyStmt, DestroyStatement, Finalize, Quiet
    <3> QED
      BY <3>1 DEF DbStates
  <2>2. CASE ~(vm[s] \in Vms /\ vmdb[vm[s]] # None)
    BY <2>2 DEF DestroyStmt, DestroyStatement, Finalize
  <2> QED
    BY <2>1, <2>2
<1>3. \A d \in Dbs : hook'[d] = IF db'[d] = "free" THEN NoSlots ELSE hook[d]
  BY DEF DestroyStmt, HooksAfterFree
<1>4. FreeIsBare'
  BY <1>1, <1>2, <1>3 DEF FreeIsBare, NoSlots, StatementOwned, StatementDb, HandleOwned, OnlyLiveHold
<1>5. HookOfOpen'
  <2>1. ASSUME NEW x \in Conns, NEW k \in Kinds, handle[x] # None,
               hook'[handle[x]][k] \in Objs
        PROVE  hook'[handle[x]][k] = hook[handle[x]][k]
    <3>1. handle[x] \in Dbs
      BY <2>1
    <3> HIDE DEF HdlInv
    <3> QED
      BY <1>3, <2>1, <3>1 DEF NoSlots
  <2> QED
    BY <1>1, <2>1 DEF HookOfOpen
<1>6. HookOfZombie'
  <2>1. ASSUME NEW x \in Stmts, made'[x], vm'[x] # None, db'[vmdb'[vm'[x]]] = "zombie"
        PROVE  /\ made[x] /\ vm'[x] = vm[x] /\ sconn'[x] = sconn[x]
               /\ vmdb'[vm[x]] = vmdb[vm[x]] /\ db[vmdb[vm[x]]] = "zombie"
               /\ hook'[vmdb[vm[x]]] = hook[vmdb[vm[x]]]
    <3>1. made[x] /\ vm[x] \in Vms /\ vm'[x] = vm[x] /\ sconn'[x] = sconn[x] /\ x # s
      BY <1>1, <2>1
    <3>2. made[s] /\ vm[x] # vm[s]
      BY <2>1, <3>1 DEF StatementOwned, DestroyStmt, DestroyStatement
    <3>3. vmdb'[vm[x]] = vmdb[vm[x]] /\ vmdb[vm[x]] \in Dbs
      BY <1>1, <3>1, <3>2 DEF StatementDb
    <3> QED
      BY <1>2, <1>3, <2>1, <3>1, <3>3
  <2> QED
    BY <1>1, <2>1 DEF HookOfZombie
<1>7. SettersOpen'
  BY <1>1, <1>2, <1>3 DEF SettersOpen, NoSlots, StatementOwned, StatementDb, HandleOwned, OnlyLiveHold
<1> QED
  BY <1>4, <1>5, <1>6, <1>7

LEMMA NextHook == ASSUME HdlInv, MayReenter, Next PROVE HookInv'
<1>1. ASSUME NEW c \in Conns, Set(c)  PROVE HookInv'
  <2>1. ASSUME StoreNoMem(c)  PROVE FALSE
    BY <2>1 DEF StoreNoMem, MayReenter
  <2> QED
    BY <1>1, <2>1, RegisterHook, UnregisterHook, StoreHook DEF Set
<1>2. ASSUME NEW c \in Conns, LifeCycle(c)  PROVE HookInv'
  <2>1. ASSUME NEW to \in Conns, MoveConn(c, to)  PROVE FALSE
    BY <2>1 DEF MoveConn, MoveConnection, MayReenter
  <2> QED
    BY <1>2, <2>1, ConstructHook, OpenHook, CloseHook, DestroyTableHook, PrepareHook
       DEF LifeCycle
<1>3. ASSUME NEW s \in Stmts, DestroyStmt(s) \/ \E to \in Stmts : MoveStmt(s, to)
      PROVE  HookInv'
  <2>1. ASSUME NEW to \in Stmts, MoveStmt(s, to)  PROVE FALSE
    BY <2>1 DEF MoveStmt, MoveStatement, MayReenter
  <2> QED
    BY <1>3, <2>1, DestroyStmtHook
<1> QED
  BY <1>1, <1>2, <1>3, CallHook DEF Next

LEMMA NextHdlInv == ASSUME HdlInv, MayReenter, [Next]_vars PROVE HdlInv'
<1>1. ConnInv' /\ OwnInv'
  BY NextIsConnNext, ConnNextInv, NextOwn DEF Plain, MayReenter, HdlInv, ConnInv
<1>2. CASE UNCHANGED vars
  BY <1>1, <1>2 DEF vars, connVars, hdlVars, HdlInv, HookInv, FreeIsBare, HookOfOpen,
                    HookOfZombie, SettersOpen
<1> QED
  BY <1>1, <1>2, NextHook DEF HdlInv

LEMMA HdlInvariant == ASSUME MayReenter PROVE Spec => []HdlInv
<1>1. Init => HdlInv
  BY InitHook, InitOwn, ConnInitInv DEF Init, HdlInv
<1>2. HdlInv /\ [Next]_vars => HdlInv'
  BY NextHdlInv
<1> QED
  BY <1>1, <1>2, PTL DEF Spec

-----------------------------------------------------------------------------
(* The handler that runs, which may set or clear itself.                   *)

\* A handler that runs and has not been freed is in the table of the connection
\* object whose database it is, or the zombie it belongs to still calls it.
RunningKept ==
  \A d \in Dbs : running[d] \in heap =>
    \/ \E c \in Conns, k \in Kinds : handle[c] = d /\ slot[c][k] = running[d]
    \/ db[d] = "zombie" /\ \E k \in Kinds : hook[d][k] = running[d]

KeptInv == HdlInv /\ RunningKept

\* What a step has to leave alone for a database whose handler runs.
LEMMA KeptStep ==
  ASSUME KeptInv, UNCHANGED running,
         \A d \in Dbs : running[d] \in heap' => running[d] \in heap,
         \A c \in Conns, k \in Kinds :
           /\ handle[c] \in Dbs /\ running[handle[c]] \in heap'
           /\ slot[c][k] = running[handle[c]]
           => handle'[c] = handle[c] /\ slot'[c][k] = slot[c][k],
         \A d \in Dbs : running[d] \in heap' /\ db[d] = "zombie" =>
           db'[d] = "zombie" /\ hook'[d] = hook[d]
  PROVE  RunningKept'
<1> SUFFICES ASSUME NEW d \in Dbs, running[d] \in heap'
             PROVE  \/ \E c \in Conns, k \in Kinds : handle'[c] = d /\ slot'[c][k] = running[d]
                    \/ db'[d] = "zombie" /\ \E k \in Kinds : hook'[d][k] = running[d]
  BY DEF RunningKept
<1>1. CASE \E c \in Conns, k \in Kinds : handle[c] = d /\ slot[c][k] = running[d]
  <2>1. PICK c \in Conns, k \in Kinds : handle[c] = d /\ slot[c][k] = running[d]
    BY <1>1
  <2>2. handle'[c] = d /\ slot'[c][k] = running[d]
    BY <2>1
  <2> QED
    BY <2>2
<1>2. CASE db[d] = "zombie" /\ \E k \in Kinds : hook[d][k] = running[d]
  BY <1>2
<1> QED
  BY <1>1, <1>2 DEF KeptInv, RunningKept

LEMMA SetterKept ==
  ASSUME KeptInv, NEW c \in Conns,
         \/ \E k \in Kinds, o \in Objs : Register(c, k, o)
         \/ \E k \in Kinds : Unregister(c, k) \/ UseBuiltin(c, k)
  PROVE  RunningKept'
<1> USE DEF HdlInv, ConnInv, ConnTypeOK, OwnInv, HdlTypeOK
<1>1. /\ db[handle[c]] = "open" /\ UNCHANGED <<connVars, slot, running>>
      /\ \A d \in Dbs : running[d] \in heap' => running[d] \in heap
      /\ \A d \in Dbs : d # handle[c] => hook'[d] = hook[d]
  BY DEF KeptInv, Register, Unregister, UseBuiltin, CanSet, Unused
<1>2. \A d \in Dbs : db[d] = "zombie" => db'[d] = "zombie" /\ hook'[d] = hook[d]
  BY <1>1 DEF connVars
<1> QED
  BY <1>1, <1>2, KeptStep DEF connVars

LEMMA StoreKept ==
  ASSUME KeptInv, NEW c \in Conns, Store(c)
  PROVE  RunningKept'
<1> USE DEF HdlInv, OwnInv, HdlTypeOK
<1>1. /\ UNCHANGED <<connVars, hook, running>> /\ setting[c] \in Kinds
      /\ heap' = heap \ {slot[c][setting[c]]}
      /\ \A x \in Conns, l \in Kinds :
           slot'[x][l] = IF x = c /\ l = setting[c] THEN cb[c] ELSE slot[x][l]
  BY DEF KeptInv, Store
<1>2. ASSUME NEW x \in Conns, NEW k \in Kinds, slot[x][k] \in heap'
      PROVE  slot'[x][k] = slot[x][k]
  BY <1>1, <1>2
<1> QED
  BY <1>1, <1>2, KeptStep DEF connVars

LEMMA CallKept ==
  ASSUME KeptInv, NEW d \in Dbs, (\E k \in Kinds : Call(d, k)) \/ Return(d)
  PROVE  RunningKept'
<1> USE DEF KeptInv, HdlInv, ConnInv, ConnTypeOK, OwnInv, HdlTypeOK
<1>1. /\ UNCHANGED <<connVars, heap, slot, hook>>
      /\ \A x \in Dbs : x # d => running'[x] = running[x]
  BY DEF Call, Return
<1>2. ASSUME NEW k \in Kinds, Call(d, k)
      PROVE  \/ \E c \in Conns : handle[c] = d /\ slot[c][k] = running'[d]
             \/ db[d] = "zombie" /\ hook[d][k] = running'[d]
  <2>1. /\ running'[d] = hook[d][k] /\ hook[d][k] \in Objs
        /\ db[d] = "open" \/ db[d] = "zombie"
        /\ \A c \in Conns : handle[c] = d => setting[c] = None
    BY <1>2 DEF Call
  <2>2. CASE db[d] = "open"
    <3>1. PICK c \in Conns : handle[c] = d
      BY <2>2 DEF NothingLeaks
    <3>2. slot[c][k] = hook[d][k]
      BY <2>1, <3>1 DEF HookInv, HookOfOpen
    <3> QED
      BY <2>1, <3>1, <3>2
  <2> QED
    BY <2>1, <2>2
<1>3. CASE Return(d)
  BY <1>1, <1>3 DEF Return, RunningKept, connVars
<1>4. CASE \E k \in Kinds : Call(d, k)
  <2> SUFFICES ASSUME NEW x \in Dbs, running'[x] \in heap
               PROVE  \/ \E c \in Conns, k \in Kinds :
                           handle[c] = x /\ slot[c][k] = running'[x]
                      \/ db[x] = "zombie" /\ \E k \in Kinds : hook[x][k] = running'[x]
    BY <1>1 DEF RunningKept, connVars
  <2>1. CASE x = d
    BY <1>2, <1>4, <2>1
  <2>2. CASE x # d
    BY <1>1, <2>2 DEF RunningKept
  <2> QED
    BY <2>1, <2>2
<1> QED
  BY <1>3, <1>4

\* The rest of the life cycle: a connection object that is opened was not open,
\* and none is closed while a handler of its database runs.
LEMMA LifeKept ==
  ASSUME KeptInv, MayReenter, NEW c \in Conns,
         \/ ConstructConn(c) \/ OpenConn(c) \/ OpenFailsConn(c)
         \/ CloseConn(c) \/ DestroyConn(c) \/ \E s \in Stmts : PrepareStmt(c, s)
  PROVE  RunningKept'
<1> USE DEF HdlInv, ConnInv, ConnTypeOK, OwnInv, HdlTypeOK
<1>1. UNCHANGED <<heap, slot, running>>
  BY DEF ConstructConn, OpenConn, OpenFailsConn, CloseConn, DestroyConn, PrepareStmt, hdlVars
<1>2. /\ \A x \in Conns : handle[x] # None /\ running[handle[x]] # None =>
           handle'[x] = handle[x]
      /\ \A d \in Dbs : running[d] # None /\ db[d] = "zombie" =>
           db'[d] = "zombie" /\ hook'[d] = hook[d]
  <2>1. CASE ConstructConn(c) \/ \E s \in Stmts : PrepareStmt(c, s)
    BY <2>1 DEF KeptInv, ConstructConn, Construct, PrepareStmt, Prepare, OnlyLiveHold, hdlVars
  <2>2. CASE OpenConn(c) \/ OpenFailsConn(c)
    BY <2>2 DEF KeptInv, OpenConn, Open, OpenFailsConn, OpenFails, MayReenter, hdlVars
  <2>3. CASE CloseConn(c) \/ DestroyConn(c)
    <3>1. /\ \/ UNCHANGED <<db, handle>>
             \/ CloseV2(handle[c]) /\ handle' = [handle EXCEPT ![c] = None]
          /\ handle[c] \in Dbs => running[handle[c]] = None
          /\ HooksAfterFree
      BY <2>3 DEF CloseConn, DestroyConn, Close, CloseSync, Destroy, Ready, Quiet
    <3>2. \A d \in Dbs : running[d] # None => db'[d] = db[d]
      BY <3>1, ClosingOne DEF KeptInv
    <3>3. \A d \in Dbs : db'[d] = "zombie" => hook'[d] = hook[d]
      BY <3>1 DEF HooksAfterFree
    <3>4. ASSUME NEW x \in Conns, handle[x] # None, running[handle[x]] # None
          PROVE  handle'[x] = handle[x]
      BY <3>1, <3>4 DEF KeptInv
    <3> QED
      BY <3>2, <3>3, <3>4
  <2> QED
    BY <2>1, <2>2, <2>3
<1>3. \A d \in Dbs : running[d] \in heap => running[d] # None
  BY DEF KeptInv
<1> QED
  BY <1>1, <1>2, <1>3, KeptStep DEF KeptInv

LEMMA DestroyTableKept ==
  ASSUME KeptInv, NEW c \in Conns, DestroyTable(c)
  PROVE  RunningKept'
<1> USE DEF HdlInv, ConnInv, ConnTypeOK, OwnInv, HdlTypeOK
<1>1. /\ UNCHANGED <<handle, db, hook, running>> /\ handle[c] = None
      /\ heap' \subseteq heap
      /\ \A x \in Conns : x # c => slot'[x] = slot[x]
  BY DEF KeptInv, DestroyTable, DestroyMembers, OnlyLiveHold
<1> QED
  BY <1>1, KeptStep DEF KeptInv

LEMMA DestroyStmtKept ==
  ASSUME KeptInv, NEW s \in Stmts, DestroyStmt(s)
  PROVE  RunningKept'
<1> USE DEF HdlInv, ConnInv, ConnTypeOK, OwnInv, HdlTypeOK
<1>1. /\ UNCHANGED <<handle, heap, slot, running>>
      /\ \A d \in Dbs : running[d] # None => db'[d] = db[d]
  BY DEF KeptInv, DestroyStmt, DestroyStatement, Finalize, Quiet
<1>2. \A d \in Dbs : db'[d] = "zombie" => hook'[d] = hook[d]
  BY DEF DestroyStmt, HooksAfterFree
<1>3. \A d \in Dbs : running[d] \in heap => running[d] # None
  BY DEF KeptInv
<1> QED
  BY <1>1, <1>2, <1>3, KeptStep

LEMMA NextKept == ASSUME KeptInv, MayReenter, [Next]_vars PROVE RunningKept'
<1>1. ASSUME NEW c \in Conns, Set(c)  PROVE RunningKept'
  <2>1. ASSUME StoreNoMem(c)  PROVE FALSE
    BY <2>1 DEF StoreNoMem, MayReenter
  <2> QED
    BY <1>1, <2>1, SetterKept, StoreKept DEF Set
<1>2. ASSUME NEW c \in Conns, LifeCycle(c)  PROVE RunningKept'
  <2>1. ASSUME NEW to \in Conns, MoveConn(c, to)  PROVE FALSE
    BY <2>1 DEF MoveConn, MoveConnection, MayReenter
  <2> QED
    BY <1>2, <2>1, LifeKept, DestroyTableKept DEF LifeCycle
<1>3. ASSUME NEW s \in Stmts, DestroyStmt(s) \/ \E to \in Stmts : MoveStmt(s, to)
      PROVE  RunningKept'
  <2>1. ASSUME NEW to \in Stmts, MoveStmt(s, to)  PROVE FALSE
    BY <2>1 DEF MoveStmt, MoveStatement, MayReenter
  <2> QED
    BY <1>3, <2>1, DestroyStmtKept
<1>4. CASE UNCHANGED vars
  BY <1>4 DEF KeptInv, RunningKept, vars, connVars, hdlVars
<1> QED
  BY <1>1, <1>2, <1>3, <1>4, CallKept DEF Next

LEMMA KeptInvariant == ASSUME MayReenter PROVE Spec => []KeptInv
<1>1. Init => KeptInv
  BY InitHook, InitOwn, ConnInitInv DEF Init, KeptInv, HdlInv, RunningKept
<1>2. KeptInv /\ [Next]_vars => KeptInv'
  BY NextHdlInv, NextKept DEF KeptInv
<1> QED
  BY <1>1, <1>2, PTL DEF Spec

\* The connection object whose table has a handler that runs: its database is
\* the one that runs it, or is a zombie that has statements of the object.
LEMMA RunningOwner ==
  ASSUME KeptInv, NEW d \in Dbs, running[d] \in heap,
         NEW c \in Conns, NEW k \in Kinds, slot[c][k] = running[d]
  PROVE  handle[c] = d \/ (handle[c] = None /\ phase[c] = "live")
<1> USE DEF KeptInv, HdlInv, ConnInv, ConnTypeOK, OwnInv, HdlTypeOK
<1>1. running[d] # None /\ running[d] \in Objs
  OBVIOUS
<1>2. CASE \E x \in Conns, l \in Kinds : handle[x] = d /\ slot[x][l] = running[d]
  <2>1. PICK x \in Conns, l \in Kinds : handle[x] = d /\ slot[x][l] = running[d]
    BY <1>2
  <2>2. slot[x][l] # None /\ slot[x][l] = slot[c][k]
    BY <1>1, <2>1
  <2>3. x = c
    BY <2>2 DEF OwnedOnce
  <2> QED
    BY <2>1, <2>3
<1>3. CASE db[d] = "zombie" /\ \E l \in Kinds : hook[d][l] = running[d]
  <2>1. PICK l \in Kinds : hook[d][l] = running[d]
    BY <1>3
  <2>2. PICK s \in Stmts : made[s] /\ vm[s] \in Vms /\ vmdb[vm[s]] = d
    BY <1>3 DEF NothingLeaks, VmsOf
  <2>3. /\ sconn[s] \in Conns /\ phase[sconn[s]] = "live"
        /\ handle[sconn[s]] = None /\ slot[sconn[s]][l] = running[d]
    BY <1>1, <1>3, <2>1, <2>2 DEF HookInv, HookOfZombie, ConnectionStays
  <2>4. c = sconn[s]
    BY <1>1, <2>3 DEF OwnedOnce
  <2> QED
    BY <2>3, <2>4
<1>4. \/ \E x \in Conns, l \in Kinds : handle[x] = d /\ slot[x][l] = running[d]
      \/ db[d] = "zombie" /\ \E l \in Kinds : hook[d][l] = running[d]
  BY DEF RunningKept
<1> QED
  BY <1>2, <1>3, <1>4

\* Objects are freed by the end of a setter and with a table; the table goes
\* when the connection object is dying, and no handler of it runs by then.
LEMMA FreedStep ==
  ASSUME KeptInv, MayReenter, [Next]_vars, NEW d \in Dbs, running[d] \in heap \ heap'
  PROVE  \E c \in Conns : /\ handle[c] = d /\ setting[c] # None
                          /\ slot[c][setting[c]] = running[d]
<1> USE DEF KeptInv, HdlInv, OwnInv, HdlTypeOK
<1>1. ASSUME NEW c \in Conns, Set(c)
      PROVE  /\ handle[c] = d /\ setting[c] # None
             /\ slot[c][setting[c]] = running[d]
  <2>1. Store(c)
    BY <1>1 DEF Set, Register, Unregister, UseBuiltin, StoreNoMem, MayReenter
  <2>2. setting[c] \in Kinds /\ slot[c][setting[c]] = running[d] /\ handle[c] # None
    BY <2>1 DEF Store, HookInv, SettersOpen
  <2>3. handle[c] = d
    BY <2>2, RunningOwner
  <2> QED
    BY <2>2, <2>3
<1>2. ASSUME NEW c \in Conns, LifeCycle(c)  PROVE FALSE
  <2>1. DestroyTable(c)
    BY <1>2 DEF LifeCycle, ConstructConn, OpenConn, OpenFailsConn, CloseConn, DestroyConn,
                MoveConn, MoveConnection, PrepareStmt, hdlVars, MayReenter
  <2>2. /\ phase[c] = "dying" /\ handle[c] = None
        /\ \E k \in Kinds : slot[c][k] = running[d]
    BY <2>1 DEF DestroyTable, DestroyMembers, SlotsOf, ConnInv, OnlyLiveHold
  <2>3. d # None
    BY NoneAssumption
  <2> QED
    BY <2>2, <2>3, RunningOwner
<1>3. ASSUME NEW s \in Stmts, DestroyStmt(s) \/ \E to \in Stmts : MoveStmt(s, to)
      PROVE  FALSE
  BY <1>3 DEF DestroyStmt, MoveStmt, hdlVars
<1>4. ASSUME NEW x \in Dbs, (\E k \in Kinds : Call(x, k)) \/ Return(x)  PROVE FALSE
  BY <1>4 DEF Call, Return
<1>5. CASE UNCHANGED vars
  BY <1>5 DEF vars, hdlVars
<1> QED
  BY <1>1, <1>2, <1>3, <1>4, <1>5 DEF Next

\* A running handler may change all the handlers of its connection, and is
\* freed only by setting or clearing its own kind: not by setting another kind,
\* by other connections, by open() of a connection that has left a zombie, or
\* by the destruction of a table.
THEOREM SettersFreeTheirOwn == ASSUME MayReenter PROVE Spec => FreedBySetter
<1> DEFINE Freed == \A d \in Dbs : running[d] \in heap \ heap' =>
                      \E c \in Conns : /\ handle[c] = d /\ setting[c] # None
                                        /\ slot[c][setting[c]] = running[d]
<1>1. KeptInv /\ [Next]_vars => [Freed]_vars
  BY FreedStep
<1>2. Spec => [][Freed]_vars
  <2> HIDE DEF Freed
  <2> QED
    BY KeptInvariant, <1>1, PTL DEF Spec
<1> QED
  BY <1>2 DEF FreedBySetter

-----------------------------------------------------------------------------
(* The handler that runs, when none sets or clears itself.                 *)

\* A setter does not touch the hook that is being called.
LEMMA SetterRunning ==
  ASSUME CallInv, WithinContract, NEW c \in Conns, NEW k \in Kinds,
         (\E o \in Objs : Register(c, k, o)) \/ Unregister(c, k) \/ UseBuiltin(c, k)
  PROVE  RunningIsHooked'
<1> USE DEF CallInv, HdlInv, ConnInv, ConnTypeOK, OwnInv, HdlTypeOK
<1>1. /\ handle[c] \in Dbs /\ ~Runs(c, k)
      /\ UNCHANGED <<connVars, running>>
      /\ \A d \in Dbs, l \in Kinds : d # handle[c] \/ l # k => hook'[d][l] = hook[d][l]
  BY DEF Register, Unregister, UseBuiltin, CanSet, WithinContract
<1> SUFFICES ASSUME NEW d \in Dbs, running'[d] # None
             PROVE  db'[d] # "free" /\ \E l \in Kinds : hook'[d][l] = running'[d]
  BY DEF RunningIsHooked
<1>2. db' = db /\ running' = running
  BY <1>1 DEF connVars
<1>3. PICK l \in Kinds : db[d] # "free" /\ hook[d][l] = running[d]
  BY <1>2 DEF RunningIsHooked
<1>4. d # handle[c] \/ l # k
  BY <1>1, <1>2, <1>3 DEF Runs
<1> QED
  BY <1>1, <1>2, <1>3, <1>4

LEMMA StoreRunning ==
  ASSUME CallInv, NEW c \in Conns, Store(c)
  PROVE  RunningIsHooked'
<1>1. /\ UNCHANGED <<connVars, hook, running>>
      /\ \A x \in Conns : setting'[x] = IF x = c THEN None ELSE setting[x]
  BY DEF Store, CallInv, HdlInv, OwnInv, HdlTypeOK
<1> QED
  BY <1>1 DEF CallInv, RunningIsHooked, connVars

LEMMA CallRunning ==
  ASSUME CallInv, NEW d \in Dbs, (\E k \in Kinds : Call(d, k)) \/ Return(d)
  PROVE  RunningIsHooked'
<1>1. /\ UNCHANGED <<connVars, hook>>
      /\ \A x \in Dbs : x # d => running'[x] = running[x]
      /\ \/ running'[d] = None
         \/ db[d] # "free" /\ \E k \in Kinds : hook[d][k] = running'[d]
  BY DEF Call, Return, CallInv, HdlInv, OwnInv, HdlTypeOK
<1>2. RunningIsHooked /\ UNCHANGED <<db, hook>>
  BY <1>1 DEF CallInv, connVars
<1> QED
  BY <1>1, <1>2 DEF RunningIsHooked

\* A database that is opened runs nothing.
LEMMA OpenRunning ==
  ASSUME CallInv, NEW c \in Conns, OpenConn(c) \/ OpenFailsConn(c)
  PROVE  RunningIsHooked'
<1> USE DEF CallInv, HdlInv, ConnInv, ConnTypeOK, OwnInv, HdlTypeOK
<1>1. CASE OpenConn(c)
  <2>1. PICK d \in Dbs : /\ db[d] = "free"
                        /\ db' = [db EXCEPT ![d] = "open"]
                        /\ handle' = [handle EXCEPT ![c] = d]
    BY <1>1 DEF OpenConn, Open
  <2>2. UNCHANGED hdlVars /\ running[d] = None
    BY <1>1, <2>1 DEF OpenConn, RunningIsHooked
  <2> QED
    BY <2>1, <2>2 DEF RunningIsHooked, hdlVars
<1>2. CASE OpenFailsConn(c)
  BY <1>2 DEF OpenFailsConn, OpenFails, hdlVars, RunningIsHooked
<1> QED
  BY <1>1, <1>2

\* A database whose handler runs is neither closed nor freed.
LEMMA ReleaseRunning ==
  ASSUME CallInv, UNCHANGED running, HooksAfterFree,
         \A d \in Dbs : running[d] # None => db'[d] = db[d]
  PROVE  RunningIsHooked'
<1> USE DEF CallInv
<1>1. \A d \in Dbs : hook'[d] = IF db'[d] = "free" THEN NoSlots ELSE hook[d]
  BY DEF HooksAfterFree
<1>2. ASSUME NEW d \in Dbs, running[d] # None
      PROVE  db'[d] # "free" /\ hook'[d] = hook[d]
  BY <1>1, <1>2 DEF RunningIsHooked
<1>3. ASSUME NEW d \in Dbs, running'[d] # None
      PROVE  db'[d] # "free" /\ \E k \in Kinds : hook'[d][k] = running'[d]
  BY <1>2, <1>3 DEF RunningIsHooked
<1> QED
  BY <1>3 DEF RunningIsHooked

LEMMA CloseRunning ==
  ASSUME CallInv, NEW c \in Conns, CloseConn(c) \/ DestroyConn(c)
  PROVE  RunningIsHooked'
<1> USE DEF CallInv, HdlInv, ConnInv, ConnTypeOK
<1>1. \/ UNCHANGED <<db, handle>>
      \/ CloseV2(handle[c]) /\ handle' = [handle EXCEPT ![c] = None]
  BY DEF CloseConn, DestroyConn, Close, CloseSync, Destroy
<1>2. /\ UNCHANGED running /\ HooksAfterFree
      /\ handle[c] \in Dbs => running[handle[c]] = None
  BY DEF CloseConn, DestroyConn, Ready, Quiet
<1>3. \A d \in Dbs : running[d] # None => db'[d] = db[d]
  BY <1>1, <1>2, ClosingOne
<1> QED
  BY <1>2, <1>3, ReleaseRunning

LEMMA DestroyStmtRunning ==
  ASSUME CallInv, NEW s \in Stmts, DestroyStmt(s)
  PROVE  RunningIsHooked'
<1> USE DEF CallInv, HdlInv, ConnInv, ConnTypeOK
<1>1. UNCHANGED running /\ HooksAfterFree
  BY DEF DestroyStmt, DestroyStatement
<1>2. \A d \in Dbs : running[d] # None => db'[d] = db[d]
  BY DEF DestroyStmt, DestroyStatement, Finalize, Quiet
<1> QED
  BY <1>1, <1>2, ReleaseRunning

LEMMA OtherRunning ==
  ASSUME CallInv, UNCHANGED <<db, hook, running>>
  PROVE  RunningIsHooked'
BY DEF CallInv, RunningIsHooked

LEMMA NextRunning == ASSUME CallInv, WithinContract, [Next]_vars PROVE RunningIsHooked'
<1>1. ASSUME NEW c \in Conns, Set(c)  PROVE RunningIsHooked'
  <2>1. ASSUME StoreNoMem(c)  PROVE FALSE
    BY <2>1 DEF StoreNoMem, WithinContract
  <2> QED
    BY <1>1, <2>1, SetterRunning, StoreRunning DEF Set
<1>2. ASSUME NEW c \in Conns, LifeCycle(c)  PROVE RunningIsHooked'
  <2>1. ASSUME NEW to \in Conns, MoveConn(c, to)  PROVE FALSE
    BY <2>1 DEF MoveConn, MoveConnection, WithinContract
  <2>2. CASE ConstructConn(c) \/ DestroyTable(c) \/ \E s \in Stmts : PrepareStmt(c, s)
    BY <2>2, OtherRunning DEF ConstructConn, Construct, DestroyTable, DestroyMembers,
                              PrepareStmt, Prepare, hdlVars
  <2> QED
    BY <1>2, <2>1, <2>2, OpenRunning, CloseRunning DEF LifeCycle
<1>3. ASSUME NEW s \in Stmts, DestroyStmt(s) \/ \E to \in Stmts : MoveStmt(s, to)
      PROVE  RunningIsHooked'
  <2>1. ASSUME NEW to \in Stmts, MoveStmt(s, to)  PROVE FALSE
    BY <2>1 DEF MoveStmt, MoveStatement, WithinContract
  <2> QED
    BY <1>3, <2>1, DestroyStmtRunning
<1>4. CASE UNCHANGED vars
  BY <1>4, OtherRunning DEF vars, connVars, hdlVars
<1> QED
  BY <1>1, <1>2, <1>3, <1>4, CallRunning DEF Next

LEMMA CallInvariant == ASSUME WithinContract PROVE Spec => []CallInv
<1>1. Init => CallInv
  BY InitHook, InitOwn, ConnInitInv DEF Init, CallInv, HdlInv, RunningIsHooked
<1>2. CallInv /\ [Next]_vars => CallInv'
  BY NextHdlInv, NextRunning DEF CallInv, WithinContract, MayReenter
<1> QED
  BY <1>1, <1>2, PTL DEF Spec

-----------------------------------------------------------------------------

\* SQLite has no handler that has been freed: not while a setter has told
\* SQLite of an object and not yet stored it, not after the connection has been
\* closed and its database lives on for its statements, and not after the table
\* is destroyed.  This holds also if a handler changes the handlers of its
\* connection, itself included.
THEOREM HooksAreLive == ASSUME MayReenter PROVE Spec => []HookLive
BY HdlInvariant, HookedIsLive, PTL

\* The assumption of the collation trampoline: the connection that the
\* collation_data_t refers to is the one whose database asks.
THEOREM CollationFindsConnection == ASSUME MayReenter PROVE Spec => []CollationConnection
BY HdlInvariant, CollationHome, PTL

\* The handlers, the setters and the calls leave the life cycle as it is, so
\* that what is proved of Connection holds with handlers, too.
THEOREM HandlersRefineConnection == Spec => ConnSpec
<1>1. Init => ConnInit
  BY DEF Init
<1> QED
  BY <1>1, NextIsConnNext, PTL DEF Spec, ConnSpec

\* With handlers, a connection that is not moved is the only owner of its
\* handle, and closes it once.
THEOREM HandlesOwnedWithHandlers ==
  ASSUME "move" \notin Beyond PROVE Spec => []HandleOwned
BY HandlersRefineConnection, HandlesOwnedOnce, PTL

\* With handlers, a statement that is not moved is the only owner of its handle.
THEOREM StatementsOwnedWithHandlers ==
  ASSUME "move" \notin Beyond PROVE Spec => []StatementOwned
BY HandlersRefineConnection, StatementsOwnedOnce, PTL

\* With handlers, a statement keeps its database and its connection, as long
\* as nothing is moved and no open handle is overwritten.
THEOREM StatementsKeepDatabase == ASSUME Plain PROVE Spec => []StatementDb
BY HandlersRefineConnection, Ownership, PTL

-----------------------------------------------------------------------------
(* The callback table implements the callable store, within the contract. *)

\* The steps of the callable store that change what SQLite can call.
LEMMA BindStep ==
  ASSUME NEW o \in Objs, heap' = heap \cup {o}, Bound' \subseteq Bound \cup {o}, o \in Bound',
         UNCHANGED InUse
  PROVE  Abstract!Next
<1> DEFINE Out == Bound \ Bound'
<1>1. Out \in SUBSET Objs
  BY DEF Bound
<1>2. Abstract!Bind(o, Out)
  BY DEF Abstract!Bind
<1> QED
  BY <1>1, <1>2 DEF Abstract!Next

LEMMA UnbindStep ==
  ASSUME UNCHANGED heap, Bound' \subseteq Bound, UNCHANGED InUse
  PROVE  Abstract!Next
<1> DEFINE Out == Bound \ Bound'
<1>1. Out \in SUBSET Objs
  BY DEF Bound
<1>2. Abstract!Unbind(Out)
  BY DEF Abstract!Unbind
<1> QED
  BY <1>1, <1>2 DEF Abstract!Next

LEMMA FreeStep ==
  ASSUME heap \in SUBSET Objs, heap' \subseteq heap,
         (heap \ heap') \cap (Bound \cup InUse) = {}, UNCHANGED <<Bound, InUse>>
  PROVE  Abstract!Next
<1> DEFINE Out == heap \ heap'
<1>1. Abstract!Free(Out)
  BY DEF Abstract!Free
<1> QED
  BY <1>1 DEF Abstract!Next

\* What runs is bound.
LEMMA InUseBound == ASSUME CallInv PROVE InUse \subseteq Bound
<1> SUFFICES ASSUME NEW o \in Objs, NEW d \in Dbs, running[d] = o
             PROVE  \E k \in Kinds : hook[d][k] = o
  BY DEF InUse, Bound
<1> QED
  BY DEF CallInv, RunningIsHooked

\* What SQLite can call is what a setter holds, or what the table has for a
\* kind that is not being set, of a connection object that is live.
LEMMA BoundIsStored ==
  ASSUME HdlInv, NEW o \in Bound
  PROVE  \E c \in Conns, k \in Kinds :
           /\ phase[c] = "live"
           /\ o = IF setting[c] = k THEN cb[c] ELSE slot[c][k]
<1>1. PICK d \in Dbs, k \in Kinds : hook[d][k] = o /\ o \in Objs
  BY DEF Bound
<1> USE DEF HdlInv, ConnInv, ConnTypeOK, NothingLeaks, HookInv
<1>2. CASE db[d] = "open"
  <2>1. PICK c \in Conns : phase[c] = "live" /\ handle[c] = d
    BY <1>2
  <2> QED
    BY <1>1, <2>1 DEF HookOfOpen
<1>3. CASE db[d] = "zombie"
  <2>1. PICK s \in Stmts : made[s] /\ vm[s] \in Vms /\ vmdb[vm[s]] = d
    BY <1>3 DEF VmsOf
  <2>2. /\ slot[sconn[s]][k] = o /\ sconn[s] \in Conns /\ phase[sconn[s]] = "live"
        /\ setting[sconn[s]] = None
    BY <1>1, <1>3, <2>1 DEF HookOfZombie, ConnectionStays, SettersOpen
  <2> QED
    BY <2>2
<1>4. CASE db[d] = "free"
  BY <1>1, <1>4 DEF FreeIsBare
<1> QED
  BY <1>2, <1>3, <1>4 DEF DbStates

LEMMA StoreIsStep ==
  ASSUME CallInv, NEW c \in Conns, Store(c)
  PROVE  Abstract!Next
<1> USE DEF CallInv
<1>1. /\ setting[c] \in Kinds /\ UNCHANGED <<hook, running>>
      /\ heap' = heap \ {slot[c][setting[c]]} /\ heap \subseteq Objs
  BY DEF Store, HdlInv, OwnInv, HdlTypeOK
<1>2. ASSUME NEW o \in Bound  PROVE o # slot[c][setting[c]]
  <2>1. PICK x \in Conns, k \in Kinds : o = IF setting[x] = k THEN cb[x] ELSE slot[x][k]
    BY BoundIsStored
  <2>2. o # None
    BY DEF Bound
  <2> QED
    BY <1>1, <2>1, <2>2 DEF HdlInv, OwnInv, OwnedOnce
<1>3. UNCHANGED <<Bound, InUse>>
  BY <1>1 DEF Bound, InUse
<1> QED
  BY <1>1, <1>2, <1>3, InUseBound, FreeStep

LEMMA DestroyTableIsStep ==
  ASSUME CallInv, NEW c \in Conns, DestroyTable(c)
  PROVE  Abstract!Next
<1> USE DEF CallInv
<1>1. /\ UNCHANGED <<hook, running>> /\ phase[c] = "dying"
      /\ heap' = heap \ SlotsOf(c) /\ heap \subseteq Objs
  BY DEF DestroyTable, DestroyMembers, HdlInv, OwnInv, HdlTypeOK
<1>2. ASSUME NEW o \in Bound  PROVE o \notin SlotsOf(c)
  <2>1. PICK x \in Conns, k \in Kinds :
          phase[x] = "live" /\ o = IF setting[x] = k THEN cb[x] ELSE slot[x][k]
    BY BoundIsStored
  <2>2. o # None
    BY DEF Bound
  <2> QED
    BY <1>1, <2>1, <2>2 DEF HdlInv, OwnInv, OwnedOnce, SlotsOf
<1>3. UNCHANGED <<Bound, InUse>>
  BY <1>1 DEF Bound, InUse
<1> QED
  BY <1>1, <1>2, <1>3, InUseBound, FreeStep

LEMMA RegisterIsStep ==
  ASSUME HdlInv, NEW c \in Conns, NEW k \in Kinds, NEW o \in Objs, Register(c, k, o)
  PROVE  Abstract!Next
<1>1. /\ handle[c] \in Dbs /\ heap' = heap \cup {o} /\ UNCHANGED running
      /\ \A d \in Dbs, l \in Kinds :
           hook'[d][l] = IF d = handle[c] /\ l = k THEN o ELSE hook[d][l]
  BY DEF Register, CanSet, HdlInv, ConnInv, ConnTypeOK, OwnInv, HdlTypeOK
<1>2. Bound' \subseteq Bound \cup {o} /\ o \in Bound' /\ UNCHANGED InUse
  BY <1>1 DEF Bound, InUse
<1> QED
  BY <1>1, <1>2, BindStep

\* Unregistering, and every way for a database to be freed.
LEMMA ForgettingIsStep ==
  ASSUME HdlTypeOK, UNCHANGED <<heap, running>>,
         \A d \in Dbs, k \in Kinds : hook'[d][k] \in Objs => hook'[d][k] = hook[d][k]
  PROVE  Abstract!Next
<1>1. Bound' \subseteq Bound
  <2> SUFFICES ASSUME NEW o \in Objs, NEW d \in Dbs, NEW k \in Kinds, hook'[d][k] = o
               PROVE  hook[d][k] = o
    BY DEF Bound
  <2> QED
    OBVIOUS
<1>2. UNCHANGED InUse
  BY DEF InUse
<1> QED
  BY <1>1, <1>2, UnbindStep

LEMMA FreeForgets ==
  ASSUME HdlTypeOK, UNCHANGED <<heap, running>>, HooksAfterFree
  PROVE  Abstract!Next
<1>1. \A d \in Dbs : hook'[d] = IF db'[d] = "free" THEN NoSlots ELSE hook[d]
  BY DEF HooksAfterFree
<1>2. \A d \in Dbs, k \in Kinds : hook'[d][k] \in Objs => hook'[d][k] = hook[d][k]
  BY <1>1 DEF NoSlots
<1> QED
  BY <1>2, ForgettingIsStep

LEMMA UnregisterIsStep ==
  ASSUME HdlInv, NEW c \in Conns, NEW k \in Kinds, Unregister(c, k) \/ UseBuiltin(c, k)
  PROVE  Abstract!Next
<1>1. PICK x \in {None, Builtin} :
        /\ UNCHANGED <<heap, running>>
        /\ \A d \in Dbs, l \in Kinds :
             hook'[d][l] = IF d = handle[c] /\ l = k THEN x ELSE hook[d][l]
  BY DEF Unregister, UseBuiltin, CanSet, HdlInv, ConnInv, ConnTypeOK, OwnInv, HdlTypeOK
<1>2. \A d \in Dbs, l \in Kinds : hook'[d][l] \in Objs => hook'[d][l] = hook[d][l]
  BY <1>1
<1> QED
  BY <1>1, <1>2, ForgettingIsStep DEF HdlInv, OwnInv

LEMMA CallIsStep ==
  ASSUME HdlInv, NEW d \in Dbs, NEW k \in Kinds, Call(d, k)
  PROVE  Abstract!Next
<1> DEFINE o == hook[d][k]
<1>1. o \in Objs /\ UNCHANGED <<heap, hook>> /\ running[d] = None
      /\ \A x \in Dbs : running'[x] = IF x = d THEN o ELSE running[x]
  BY DEF Call, HdlInv, OwnInv, HdlTypeOK
<1>2. o \in Bound /\ UNCHANGED <<heap, Bound>>
  BY <1>1 DEF Bound
<1>3. InUse' = InUse \cup {o}
  BY <1>1 DEF InUse
<1>4. Abstract!Begin(o)
  BY <1>2, <1>3 DEF Abstract!Begin
<1> QED
  BY <1>1, <1>4 DEF Abstract!Next

LEMMA ReturnIsStep ==
  ASSUME HdlInv, NEW d \in Dbs, Return(d)
  PROVE  [Abstract!Next]_<<heap, Bound, InUse>>
<1> DEFINE o == running[d]
<1>1. o \in Objs /\ UNCHANGED <<heap, hook>>
      /\ \A x \in Dbs : running'[x] = IF x = d THEN None ELSE running[x]
  BY DEF Return, HdlInv, OwnInv, HdlTypeOK
<1>2. o \in InUse /\ UNCHANGED <<heap, Bound>>
  BY <1>1 DEF InUse, Bound
<1>3. InUse' = InUse \/ InUse' = InUse \ {o}
  BY <1>1 DEF InUse
<1>4. CASE InUse' = InUse \ {o}
  <2>1. Abstract!End(o)
    BY <1>2, <1>4 DEF Abstract!End
  <2> QED
    BY <1>1, <2>1 DEF Abstract!Next
<1> QED
  BY <1>2, <1>3, <1>4

LEMMA NextImplements ==
  ASSUME CallInv, WithinContract, [Next]_vars
  PROVE  [Abstract!Next]_<<heap, Bound, InUse>>
<1> USE DEF CallInv
<1>1. ASSUME NEW c \in Conns, Set(c)  PROVE Abstract!Next
  <2>1. ASSUME StoreNoMem(c)  PROVE FALSE
    BY <2>1 DEF StoreNoMem, WithinContract
  <2> QED
    BY <1>1, <2>1, RegisterIsStep, UnregisterIsStep, StoreIsStep DEF Set
<1>2. ASSUME UNCHANGED hdlVars  PROVE UNCHANGED <<heap, Bound, InUse>>
  BY <1>2 DEF hdlVars, Bound, InUse
<1>3. ASSUME NEW c \in Conns, LifeCycle(c)  PROVE [Abstract!Next]_<<heap, Bound, InUse>>
  <2>1. ASSUME NEW to \in Conns, MoveConn(c, to)  PROVE FALSE
    BY <2>1 DEF MoveConn, MoveConnection, WithinContract
  <2>2. CASE CloseConn(c) \/ DestroyConn(c)
    BY <2>2, FreeForgets DEF CloseConn, DestroyConn, HdlInv, OwnInv
  <2>3. CASE ConstructConn(c) \/ OpenConn(c) \/ OpenFailsConn(c)
             \/ \E s \in Stmts : PrepareStmt(c, s)
    BY <1>2, <2>3 DEF ConstructConn, OpenConn, OpenFailsConn, PrepareStmt
  <2> QED
    BY <1>3, <2>1, <2>2, <2>3, DestroyTableIsStep DEF LifeCycle
<1>4. ASSUME NEW s \in Stmts, DestroyStmt(s) \/ \E to \in Stmts : MoveStmt(s, to)
      PROVE  [Abstract!Next]_<<heap, Bound, InUse>>
  <2>1. CASE DestroyStmt(s)
    BY <2>1, FreeForgets DEF DestroyStmt, HdlInv, OwnInv
  <2>2. CASE \E to \in Stmts : MoveStmt(s, to)
    BY <1>2, <2>2 DEF MoveStmt
  <2> QED
    BY <1>4, <2>1, <2>2
<1>5. ASSUME NEW d \in Dbs, (\E k \in Kinds : Call(d, k)) \/ Return(d)
      PROVE  [Abstract!Next]_<<heap, Bound, InUse>>
  BY <1>5, CallIsStep, ReturnIsStep
<1>6. CASE UNCHANGED vars
  BY <1>2, <1>6 DEF vars
<1> QED
  BY <1>1, <1>3, <1>4, <1>5, <1>6 DEF Next

\* The set_..._handler() functions, the trampolines and the life cycle keep
\* what CallableStore promises: no handler is freed while SQLite can call it
\* or while it runs, and SQLite calls only what it was given.
THEOREM TableImplementsStore ==
  ASSUME WithinContract
  PROVE  Spec => ImplementsStore
<1>1. Init => Abstract!Init
  BY DEF Init, Abstract!Init, Bound, InUse, NoSlots
<1>2. CallInv /\ [Next]_vars => [Abstract!Next]_<<heap, Bound, InUse>>
  BY NextImplements
<1>3. Spec => Abstract!Init /\ [][Abstract!Next]_<<heap, Bound, InUse>>
  BY CallInvariant, <1>1, <1>2, PTL DEF Spec
<1> QED
  BY <1>3 DEF ImplementsStore, Abstract!Spec, Abstract!vars
=============================================================================
