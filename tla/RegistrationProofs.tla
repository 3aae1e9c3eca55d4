------------------------- MODULE RegistrationProofs -------------------------
(***************************************************************************)
(* Proofs about Registration, for all sets of callables and names: the     *)
(* copies are accounted for exactly, none is destroyed while it is called, *)
(* and SQLite, as their owner, keeps the promise of CallableStore.         *)
(***************************************************************************)
EXTENDS Registration, ConnectionProofs

USE NoneAssumption, CallablesAssumption

-----------------------------------------------------------------------------
(* The inductive invariant. *)

\* A database that is free has nothing registered.
FreeIsBare == \A d \in Dbs, n \in Names : db[d] = "free" => reg[d][n] = None

\* No copy is registered twice.
RegisteredOnce ==
  \A d, e \in Dbs, m, n \in Names :
    reg[d][m] \in Callables /\ reg[d][m] = reg[e][n] => d = e /\ m = n

\* A copy exists when it is registered.
Counted ==
  \A o \in Callables :
    count[o] = IF \E d \in Dbs, n \in Names : reg[d][n] = o THEN 1 ELSE 0

\* A statement handle keeps its database.
VmsKeepDb == \A v \in Vms : vmdb[v] # None => db[vmdb[v]] # "free"

\* What a statement calls is registered in its database, and the statement is
\* active, so that SQLite refuses to replace or to remove it.
CallingActive ==
  \A v \in Vms :
    /\ active[v] => vmdb[v] # None
    /\ calling[v] # None =>
         active[v] /\ \E n \in Names : reg[vmdb[v]][n] = calling[v]

RegInv == /\ ConnTypeOK
          /\ RegTypeOK
          /\ FreeIsBare
          /\ RegisteredOnce
          /\ Counted
          /\ VmsKeepDb
          /\ CallingActive

LEMMA RegInit == Init => RegInv
BY DEF Init, ConnInit, RegInv, ConnTypeOK, Phases, DbStates, RegTypeOK, FreeIsBare,
       RegisteredOnce, Counted, VmsKeepDb, CallingActive, NoNames

-----------------------------------------------------------------------------
(* The consequences. *)

LEMMA CopiesCounted == ASSUME RegInv PROVE CopyForLifetime
<1> SUFFICES ASSUME NEW o \in Callables
             PROVE  LET Uses == {u \in Dbs \X Names : reg[u[1]][u[2]] = o}
                    IN  IF Uses = {} THEN count[o] = 0
                                     ELSE count[o] = 1 /\ \E u \in Uses : Uses = {u}
  BY DEF CopyForLifetime
<1> DEFINE Uses == {u \in Dbs \X Names : reg[u[1]][u[2]] = o}
<1>1. CASE Uses = {}
  <2>1. ~ \E d \in Dbs, n \in Names : reg[d][n] = o
    <3> SUFFICES ASSUME NEW d \in Dbs, NEW n \in Names, reg[d][n] = o PROVE FALSE
      OBVIOUS
    <3>1. <<d, n>> \in Uses
      OBVIOUS
    <3> QED
      BY <1>1, <3>1
  <2> QED
    BY <1>1, <2>1 DEF RegInv, Counted
<1>2. CASE Uses # {}
  <2>1. PICK u \in Uses : TRUE
    BY <1>2
  <2>2. count[o] = 1
    BY <2>1 DEF RegInv, Counted
  <2>3. ASSUME NEW w \in Uses  PROVE w = u
    <3>1. w[1] = u[1] /\ w[2] = u[2]
      BY <2>1 DEF RegInv, RegisteredOnce
    <3> QED
      BY <3>1
  <2>4. Uses = {u}
    BY <2>3
  <2> QED
    BY <1>2, <2>2, <2>4
<1> QED
  BY <1>1, <1>2

LEMMA CalledIsLive == ASSUME RegInv PROVE CalledLive
BY DEF RegInv, RegTypeOK, ConnTypeOK, CallingActive, Counted, CalledLive

-----------------------------------------------------------------------------
(* Registering and removing. *)

\* What a database has under a name becomes x.
SetName(d, n, x) ==
  /\ \A e \in Dbs, m \in Names : reg'[e][m] = IF e = d /\ m = n THEN x ELSE reg[e][m]
  /\ reg' \in [Dbs -> [Names -> Callables \cup {None, Static}]]
  /\ count' \in [Callables -> Int]
  /\ \A o \in Callables :
       count'[o] = IF o = x THEN 1 ELSE IF o = reg[d][n] THEN 0 ELSE count[o]
  /\ UNCHANGED <<connVars, active, calling>>

LEMMA RegType ==
  ASSUME reg \in [Dbs -> [Names -> Callables \cup {None, Static}]],
         NEW d \in Dbs, NEW n \in Names, NEW x \in Callables \cup {None, Static},
         reg' = [reg EXCEPT ![d] = [@ EXCEPT ![n] = x]]
  PROVE  /\ reg' \in [Dbs -> [Names -> Callables \cup {None, Static}]]
         /\ \A e \in Dbs, m \in Names :
              reg'[e][m] = IF e = d /\ m = n THEN x ELSE reg[e][m]
<1>1. [reg[d] EXCEPT ![n] = x] \in [Names -> Callables \cup {None, Static}]
  OBVIOUS
<1> QED
  BY <1>1

\* A copy that is registered is counted once, one that is not is not.
LEMMA CountOfRegistered ==
  ASSUME RegInv
  PROVE  /\ \A d \in Dbs, n \in Names : reg[d][n] \in Callables => count[reg[d][n]] = 1
         /\ \A o \in Callables, d \in Dbs, n \in Names : count[o] = 0 => reg[d][n] # o
BY DEF RegInv, Counted

\* The outcome of the registering functions: a name is set, or nothing is.
LEMMA CreateEffect ==
  ASSUME RegInv, NEW c \in Conns, NEW n \in Names, NEW data \in Callables \cup {Static},
         NEW ok \in BOOLEAN,
         CreateFunction(c, n, data, ok) \/ CreateCollation(c, n, data, ok)
  PROVE  /\ ~ok => UNCHANGED vars
         /\ ok => /\ handle[c] \in Dbs /\ db[handle[c]] = "open" /\ ~Busy(handle[c], n)
                  /\ data \in Callables => count[data] = 0
                  /\ SetName(handle[c], n, data)
<1> DEFINE d == handle[c]
<1>1. /\ d \in Dbs /\ db[d] = "open"
      /\ ok => ~Busy(d, n)
      /\ data \in Callables => count[data] = 0
      /\ UNCHANGED <<connVars, active, calling>>
      /\ Registered(d, n, data, ok)
  BY DEF CreateFunction, CreateCollation, CanRegister, RegInv, ConnTypeOK
<1>2. CASE ok
  <2>1. Account({data}, {reg[d][n]}, {})
    BY <1>2 DEF CreateFunction, CreateCollation, FunctionDestroys, CollationDestroys,
                FunctionCleanup, CollationCleanup
  <2>2. /\ count' \in [Callables -> Int]
        /\ \A o \in Callables :
             count'[o] = IF o = data THEN 1 ELSE IF o = reg[d][n] THEN 0 ELSE count[o]
    <3>1. count \in [Callables -> Int]
      BY DEF RegInv, RegTypeOK
    <3>2. /\ data \in Callables => count[data] = 0 /\ reg[d][n] # data
          /\ reg[d][n] \in Callables => count[reg[d][n]] = 1
      BY <1>1, CountOfRegistered
    <3> HIDE DEF d
    <3> QED
      BY <2>1, <3>1, <3>2 DEF Account
  <2>3. /\ reg' \in [Dbs -> [Names -> Callables \cup {None, Static}]]
        /\ \A e \in Dbs, m \in Names :
             reg'[e][m] = IF e = d /\ m = n THEN data ELSE reg[e][m]
    <3>1. d \in Dbs /\ reg' = [reg EXCEPT ![d] = [@ EXCEPT ![n] = data]]
      BY <1>1, <1>2 DEF Registered
    <3> HIDE DEF d
    <3> QED
      BY <3>1, RegType DEF RegInv, RegTypeOK
  <2>4. SetName(d, n, data)
    BY <1>1, <2>2, <2>3 DEF SetName
  <2> QED
    BY <1>1, <1>2, <2>4
<1>3. CASE ~ok
  <2>1. Account({data}, {data}, {}) \/ Account({data}, {}, {data})
    BY <1>3 DEF CreateFunction, CreateCollation, FunctionDestroys, CollationDestroys,
                FunctionCleanup, CollationCleanup
  <2>2. count' = count
    BY <2>1 DEF Account, RegInv, RegTypeOK
  <2>3. reg' = reg
    BY <1>1, <1>3 DEF Registered
  <2> QED
    BY <1>1, <1>3, <2>2, <2>3 DEF vars, regVars
<1> QED
  BY <1>2, <1>3

LEMMA RemoveEffect ==
  ASSUME RegInv, NEW c \in Conns, NEW n \in Names, Remove(c, n)
  PROVE  /\ handle[c] \in Dbs /\ db[handle[c]] = "open" /\ ~Busy(handle[c], n)
         /\ SetName(handle[c], n, None)
<1> DEFINE d == handle[c]
<1>1. /\ d \in Dbs /\ db[d] = "open" /\ ~Busy(d, n)
      /\ UNCHANGED <<connVars, active, calling>>
      /\ reg' = [reg EXCEPT ![d] = [@ EXCEPT ![n] = None]]
      /\ Account({}, {reg[d][n]}, {})
  BY DEF Remove, CanRegister, Registered, RegInv, ConnTypeOK
<1>2. /\ count' \in [Callables -> Int]
      /\ \A o \in Callables :
           count'[o] = IF o = None THEN 1 ELSE IF o = reg[d][n] THEN 0 ELSE count[o]
  BY <1>1, CountOfRegistered DEF Account, RegInv, RegTypeOK
<1>3. /\ reg' \in [Dbs -> [Names -> Callables \cup {None, Static}]]
      /\ \A e \in Dbs, m \in Names :
           reg'[e][m] = IF e = d /\ m = n THEN None ELSE reg[e][m]
  BY <1>1, RegType DEF RegInv, RegTypeOK
<1> QED
  BY <1>1, <1>2, <1>3 DEF SetName

LEMMA SetNameInv ==
  ASSUME RegInv, NEW d \in Dbs, NEW n \in Names, NEW x \in Callables \cup {None, Static},
         db[d] = "open", ~Busy(d, n), x \in Callables => count[x] = 0,
         SetName(d, n, x)
  PROVE  RegInv'
<1> USE DEF SetName
<1>1. UNCHANGED <<phase, handle, db, made, vm, sconn, vmdb, active, calling>>
  BY DEF connVars
<1>2. \A e \in Dbs, m \in Names : x \in Callables => reg[e][m] # x
  BY CountOfRegistered
<1>3. ConnTypeOK' /\ RegTypeOK'
  BY <1>1 DEF RegInv, ConnTypeOK, RegTypeOK
<1>4. FreeIsBare'
  BY <1>1 DEF RegInv, FreeIsBare
<1>5. RegisteredOnce'
  BY <1>2 DEF RegInv, RegisteredOnce
<1>6. Counted'
  <2> SUFFICES ASSUME NEW o \in Callables
               PROVE  count'[o] = IF \E e \in Dbs, m \in Names : reg'[e][m] = o THEN 1 ELSE 0
    BY DEF Counted
  <2>1. CASE o = x
    BY <2>1
  <2>2. CASE o # x /\ o = reg[d][n]
    <3>1. \A e \in Dbs, m \in Names : reg'[e][m] # o
      BY <2>2 DEF RegInv, RegisteredOnce
    <3> QED
      BY <2>2, <3>1
  <2>3. CASE o # x /\ o # reg[d][n]
    <3>1. \A e \in Dbs, m \in Names : reg'[e][m] = o <=> reg[e][m] = o
      BY <2>3
    <3> QED
      BY <2>3, <3>1 DEF RegInv, Counted
  <2> QED
    BY <2>1, <2>2, <2>3
<1>7. VmsKeepDb'
  BY <1>1 DEF RegInv, VmsKeepDb
<1>8. CallingActive'
  <2>1. ASSUME NEW v \in Vms, calling[v] # None
        PROVE  \E m \in Names : reg'[vmdb[v]][m] = calling[v]
    <3>1. active[v] /\ vmdb[v] \in Dbs
      BY <2>1 DEF RegInv, CallingActive, ConnTypeOK
    <3>2. PICK m \in Names : reg[vmdb[v]][m] = calling[v]
      BY <2>1 DEF RegInv, CallingActive
    <3>3. vmdb[v] # d \/ m # n
      BY <2>1, <3>1, <3>2 DEF Busy, VmsOf
    <3> QED
      BY <3>1, <3>2, <3>3
  <2> QED
    BY <1>1, <2>1 DEF RegInv, CallingActive
<1> QED
  BY <1>3, <1>4, <1>5, <1>6, <1>7, <1>8 DEF RegInv

LEMMA RegisterInv == ASSUME RegInv, NEW c \in Conns, Register(c) PROVE RegInv'
<1>1. ASSUME UNCHANGED vars  PROVE RegInv'
  BY <1>1 DEF vars, connVars, regVars, RegInv, ConnTypeOK, RegTypeOK, FreeIsBare,
              RegisteredOnce, Counted, VmsKeepDb, CallingActive
<1> QED
  BY <1>1, CreateEffect, RemoveEffect, SetNameInv DEF Register

-----------------------------------------------------------------------------
(* The life cycle. *)

\* What a database has registered goes with it, and nothing else does.
LEMMA FreeEffect ==
  ASSUME RegInv, FreeRegistrations,
         \A d \in Dbs : db[d] = "free" => db'[d] = "free"
  PROVE  /\ reg' \in [Dbs -> [Names -> Callables \cup {None, Static}]]
         /\ count' \in [Callables -> Int]
         /\ \A d \in Dbs, n \in Names :
              reg'[d][n] = IF db'[d] = "free" THEN None ELSE reg[d][n]
         /\ \A o \in Callables :
              count'[o] = IF \E d \in Dbs, n \in Names : db'[d] = "free" /\ reg[d][n] = o
                          THEN 0 ELSE count[o]
<1> DEFINE Freed == {d \in Dbs : db[d] # "free" /\ db'[d] = "free"}
           Out == {reg[d][n] : d \in Freed, n \in Names}
<1>1. /\ reg' = [d \in Dbs |-> IF d \in Freed THEN NoNames ELSE reg[d]]
      /\ Account({}, Out, {})
  BY DEF FreeRegistrations
<1>2. \A d \in Dbs, n \in Names : reg'[d][n] = IF db'[d] = "free" THEN None ELSE reg[d][n]
  BY <1>1 DEF NoNames, RegInv, FreeIsBare
<1>3. reg' \in [Dbs -> [Names -> Callables \cup {None, Static}]]
  BY <1>1 DEF NoNames, RegInv, RegTypeOK
<1>4. \A o \in Callables :
        o \in Out <=> \E d \in Dbs, n \in Names : db'[d] = "free" /\ reg[d][n] = o
  BY DEF RegInv, FreeIsBare
<1>5. \A o \in Callables : o \in Out => count[o] = 1
  BY <1>4, CountOfRegistered
<1>6. count \in [Callables -> Int]
  BY DEF RegInv, RegTypeOK
<1> HIDE DEF Out
<1>7. /\ count' \in [Callables -> Int]
      /\ \A o \in Callables : count'[o] = IF o \in Out THEN 0 ELSE count[o]
  BY <1>1, <1>5, <1>6 DEF Account
<1> QED
  BY <1>2, <1>3, <1>4, <1>7

LEMMA FreeInv ==
  ASSUME RegInv, ConnTypeOK', FreeRegistrations, VmsKeepDb', UNCHANGED calling,
         \A d \in Dbs : db[d] = "free" => db'[d] = "free",
         active' \in [Vms -> BOOLEAN],
         \A v \in Vms : active'[v] => vmdb'[v] # None,
         \A v \in Vms : calling[v] # None => active'[v] /\ vmdb'[v] = vmdb[v]
  PROVE  RegInv'
<1>1. RegTypeOK'
  BY FreeEffect DEF RegInv, RegTypeOK
<1>2. FreeIsBare'
  BY FreeEffect DEF FreeIsBare
<1>3. RegisteredOnce'
  BY FreeEffect DEF RegInv, RegisteredOnce
<1>4. Counted'
  <2> SUFFICES ASSUME NEW o \in Callables
               PROVE  count'[o] = IF \E d \in Dbs, n \in Names : reg'[d][n] = o THEN 1 ELSE 0
    BY DEF Counted
  <2>1. CASE \E d \in Dbs, n \in Names : db'[d] = "free" /\ reg[d][n] = o
    <3>1. \A d \in Dbs, n \in Names : reg'[d][n] # o
      BY <2>1, FreeEffect DEF RegInv, RegisteredOnce
    <3>2. count'[o] = 0
      BY <2>1, FreeEffect
    <3> QED
      BY <3>1, <3>2
  <2>2. CASE ~ \E d \in Dbs, n \in Names : db'[d] = "free" /\ reg[d][n] = o
    <3>1. \A d \in Dbs, n \in Names : reg'[d][n] = o <=> reg[d][n] = o
      BY <2>2, FreeEffect
    <3>2. count'[o] = count[o]
      BY <2>2, FreeEffect
    <3> QED
      BY <3>1, <3>2 DEF RegInv, Counted
  <2> QED
    BY <2>1, <2>2
<1>5. CallingActive'
  <2>1. ASSUME NEW v \in Vms, calling[v] # None
        PROVE  \E n \in Names : reg'[vmdb'[v]][n] = calling[v]
    <3>1. vmdb'[v] = vmdb[v] /\ vmdb[v] \in Dbs
      BY <2>1 DEF RegInv, CallingActive, ConnTypeOK
    <3>2. db'[vmdb[v]] # "free"
      BY <3>1 DEF VmsKeepDb
    <3>3. PICK n \in Names : reg[vmdb[v]][n] = calling[v]
      BY <2>1 DEF RegInv, CallingActive
    <3> QED
      BY <3>1, <3>2, <3>3, FreeEffect
  <2> QED
    BY <2>1 DEF CallingActive
<1> QED
  BY <1>1, <1>2, <1>3, <1>4, <1>5 DEF RegInv

LEMMA CloseRegInv == ASSUME RegInv, NEW c \in Conns, CloseConn(c) PROVE RegInv'
<1>1. /\ UNCHANGED <<vmdb, active, calling>> /\ FreeRegistrations
      /\ db' = db \/ CloseV2(handle[c])
  BY DEF CloseConn, Close, CloseSync, Destroy
<1>2. ConnTypeOK'
  BY ConnTypeStep DEF CloseConn, ConnNext, RegInv
<1>3. /\ \A d \in Dbs : db[d] = "free" => db'[d] = "free"
      /\ \A d \in Dbs : db'[d] = "free" /\ db[d] # "free" => VmsOf(d) = {}
  BY <1>1, ClosingOne DEF RegInv, ConnTypeOK
<1>4. VmsKeepDb'
  BY <1>1, <1>3 DEF RegInv, VmsKeepDb, VmsOf, ConnTypeOK
<1> QED
  BY <1>1, <1>2, <1>3, <1>4, FreeInv DEF RegInv, RegTypeOK, CallingActive

LEMMA DestroyStmtRegInv == ASSUME RegInv, NEW s \in Stmts, DestroyStmt(s) PROVE RegInv'
<1>1. /\ UNCHANGED calling /\ FreeRegistrations
      /\ active' = [v \in Vms |-> active[v] /\ v # vm[s]]
      /\ vm[s] \in Vms => calling[vm[s]] = None
      /\ Finalize(vm[s])
  BY DEF DestroyStmt, DestroyStatement
<1>2. ConnTypeOK'
  BY ConnTypeStep DEF DestroyStmt, ConnNext, RegInv
<1>3. /\ \A v \in Vms : vmdb'[v] = IF v = vm[s] THEN None ELSE vmdb[v]
      /\ \A d \in Dbs : db[d] = "free" => db'[d] = "free"
      /\ \A d \in Dbs : db'[d] = "free" /\ db[d] # "free" => VmsOf(d) = {vm[s]}
  BY <1>1 DEF Finalize, RegInv, ConnTypeOK
<1>4. VmsKeepDb'
  BY <1>3 DEF RegInv, VmsKeepDb, VmsOf, ConnTypeOK
<1>5. \A v \in Vms : calling[v] # None => v # vm[s] /\ active[v]
  BY <1>1 DEF RegInv, CallingActive
<1>6. /\ active' \in [Vms -> BOOLEAN]
      /\ \A v \in Vms : active'[v] => vmdb'[v] # None
      /\ \A v \in Vms : calling[v] # None => active'[v] /\ vmdb'[v] = vmdb[v]
  BY <1>1, <1>3, <1>5 DEF RegInv, RegTypeOK, CallingActive
<1> QED
  BY <1>1, <1>2, <1>3, <1>4, <1>6, FreeInv

LEMMA LifeCycleRegInv == ASSUME RegInv, NEW c \in Conns, LifeCycle(c) PROVE RegInv'
<1>1. CASE CloseConn(c)
  BY <1>1, CloseRegInv
<1>2. CASE \/ ConstructConn(c) \/ OpenConn(c) \/ OpenFailsConn(c) \/ DestroyMembersConn(c)
           \/ \E s \in Stmts : PrepareStmt(c, s)
  <2>1. ConnTypeOK' /\ UNCHANGED <<count, reg, active, calling>>
    BY <1>2, ConnTypeStep DEF ConstructConn, OpenConn, OpenFailsConn, DestroyMembersConn,
       PrepareStmt, ConnNext, RegInv, regVars
  <2>2. \A d \in Dbs : db'[d] = "free" => db[d] = "free"
    BY <1>2 DEF ConstructConn, OpenConn, OpenFailsConn, DestroyMembersConn, PrepareStmt,
       Construct, Open, OpenFails, DestroyMembers, Prepare, RegInv, ConnTypeOK
  <2>3. \A v \in Vms : vmdb'[v] = vmdb[v] \/
           (vmdb[v] = None /\ vmdb'[v] \in Dbs /\ db'[vmdb'[v]] # "free")
    BY <1>2 DEF ConstructConn, OpenConn, OpenFailsConn, DestroyMembersConn, PrepareStmt,
       Construct, Open, OpenFails, DestroyMembers, Prepare, RegInv, ConnTypeOK
  <2>4. FreeIsBare' /\ RegisteredOnce' /\ Counted' /\ RegTypeOK'
    BY <2>1, <2>2 DEF RegInv, FreeIsBare, RegisteredOnce, Counted, RegTypeOK
  <2>5. VmsKeepDb'
    BY <2>1, <2>2, <2>3 DEF RegInv, VmsKeepDb, ConnTypeOK
  <2>6. CallingActive'
    BY <2>1, <2>3 DEF RegInv, CallingActive
  <2> QED
    BY <2>1, <2>4, <2>5, <2>6 DEF RegInv
<1> QED
  BY <1>1, <1>2 DEF LifeCycle

LEMMA RunRegInv == ASSUME RegInv, NEW v \in Vms, Run(v) PROVE RegInv'
<1>1. UNCHANGED <<connVars, count, reg>> /\ UNCHANGED <<db, vmdb>>
  BY DEF Run, StartStep, EndStep, CallData, ReturnData, connVars
<1>2. RegTypeOK'
  BY DEF Run, StartStep, EndStep, CallData, ReturnData, RegInv, RegTypeOK
<1>3. CallingActive'
  BY DEF Run, StartStep, EndStep, CallData, ReturnData, connVars, RegInv, RegTypeOK,
         CallingActive
<1> QED
  BY <1>1, <1>2, <1>3 DEF connVars, RegInv, ConnTypeOK, FreeIsBare, RegisteredOnce,
     Counted, VmsKeepDb

LEMMA RegNextInv == ASSUME RegInv, [Next]_vars PROVE RegInv'
<1>1. CASE UNCHANGED vars
  BY <1>1 DEF vars, connVars, regVars, RegInv, ConnTypeOK, RegTypeOK, FreeIsBare,
              RegisteredOnce, Counted, VmsKeepDb, CallingActive
<1> QED
  BY <1>1, RegisterInv, LifeCycleRegInv, DestroyStmtRegInv, RunRegInv DEF Next

LEMMA RegInvariant == Spec => []RegInv
<1>1. RegInv /\ [Next]_vars => RegInv'
  BY RegNextInv
<1> QED
  BY RegInit, <1>1, PTL DEF Spec

\* Every copy of a callable exists exactly while it is registered under one
\* name of one database, whatever registrations fail, are replaced or removed,
\* and however late a closed database is freed.
THEOREM CopiesLiveForRegistration == Spec => [](TypeOK /\ CopyForLifetime)
<1>1. RegInv => TypeOK /\ CopyForLifetime
  BY CopiesCounted DEF RegInv, TypeOK
<1> QED
  BY RegInvariant, <1>1, PTL

\* No callable is destroyed while it is called.
THEOREM CalledAreLive == Spec => []CalledLive
BY RegInvariant, CalledIsLive, PTL

-----------------------------------------------------------------------------
(* Registration implements the callable store, with SQLite as the owner. *)

\* The copies that exist are the ones that are registered, and what is called
\* is among them.
LEMMA StoredIsBound == RegInv => Stored = Bound /\ InUse \subseteq Bound
<1> SUFFICES ASSUME RegInv PROVE Stored = Bound /\ InUse \subseteq Bound
  OBVIOUS
<1>1. Stored = Bound
  BY DEF RegInv, Counted, Stored, Bound
<1>2. InUse \subseteq Bound
  <2> SUFFICES ASSUME NEW o \in Callables, NEW v \in Vms, calling[v] = o
               PROVE  \E d \in Dbs, n \in Names : reg[d][n] = o
    BY DEF InUse, Bound
  <2> QED
    BY DEF RegInv, CallingActive, ConnTypeOK
<1> QED
  BY <1>1, <1>2

LEMMA StoredIsBoundNext == RegInv' => Stored' = Bound' /\ InUse' \subseteq Bound'
<1>1. (RegInv => Stored = Bound /\ InUse \subseteq Bound)'
  BY StoredIsBound, PTL
<1> QED
  BY <1>1

\* Names are set to a function pointer or removed, or databases freed.
LEMMA DropStep ==
  ASSUME RegInv, RegInv', Bound' \subseteq Bound, UNCHANGED calling
  PROVE  Abstract!Next
<1> DEFINE Out == Bound \ Bound'
<1>1. Stored = Bound /\ InUse \subseteq Bound
  BY StoredIsBound
<1>2. Stored' = Bound' /\ InUse' \subseteq Bound'
  BY StoredIsBoundNext
<1>3. InUse' = InUse
  BY DEF InUse
<1>4. Abstract!Drop(Out) /\ Out \in SUBSET Callables
  BY <1>1, <1>2, <1>3 DEF Abstract!Drop, Bound
<1> QED
  BY <1>4 DEF Abstract!Next

\* A name is set to a new copy.
LEMMA ReplaceStep ==
  ASSUME RegInv, RegInv', NEW o \in Callables, o \notin Bound, o \in Bound',
         Bound' \subseteq Bound \cup {o}, UNCHANGED calling
  PROVE  Abstract!Next
<1> DEFINE Out == Bound \ Bound'
<1>1. Stored = Bound /\ InUse \subseteq Bound
  BY StoredIsBound
<1>2. Stored' = Bound' /\ InUse' \subseteq Bound'
  BY StoredIsBoundNext
<1>3. InUse' = InUse
  BY DEF InUse
<1>4. Abstract!Replace(o, Out) /\ Out \in SUBSET Callables
  BY <1>1, <1>2, <1>3 DEF Abstract!Replace, Bound
<1> QED
  BY <1>4 DEF Abstract!Next

LEMMA SetNameIsStep ==
  ASSUME RegInv, RegInv', NEW d \in Dbs, NEW n \in Names,
         NEW x \in Callables \cup {None, Static},
         x \in Callables => count[x] = 0, SetName(d, n, x)
  PROVE  Abstract!Next
<1>1. \A e \in Dbs, m \in Names : reg'[e][m] = IF e = d /\ m = n THEN x ELSE reg[e][m]
  BY DEF SetName
<1>2. UNCHANGED calling
  BY DEF SetName
<1>3. CASE x \in Callables
  <2>1. x \notin Bound
    BY <1>3, CountOfRegistered DEF Bound
  <2>2. x \in Bound' /\ Bound' \subseteq Bound \cup {x}
    BY <1>1, <1>3 DEF Bound
  <2> QED
    BY <1>2, <1>3, <2>1, <2>2, ReplaceStep
<1>4. CASE x \notin Callables
  <2>1. Bound' \subseteq Bound
    BY <1>1, <1>4 DEF Bound
  <2> QED
    BY <1>2, <2>1, DropStep
<1> QED
  BY <1>3, <1>4

LEMMA FreeIsStep ==
  ASSUME RegInv, RegInv', FreeRegistrations, UNCHANGED calling,
         \A d \in Dbs : db[d] = "free" => db'[d] = "free"
  PROVE  Abstract!Next
<1>1. \A d \in Dbs, n \in Names : reg'[d][n] = IF db'[d] = "free" THEN None ELSE reg[d][n]
  BY FreeEffect
<1>2. Bound' \subseteq Bound
  BY <1>1 DEF Bound
<1> QED
  BY <1>2, DropStep

LEMMA CallDataIsStep ==
  ASSUME RegInv, NEW v \in Vms, NEW n \in Names, CallData(v, n)
  PROVE  Abstract!Next
<1> DEFINE o == reg[vmdb[v]][n]
<1>1. /\ o \in Callables /\ vmdb[v] \in Dbs /\ calling[v] = None
      /\ UNCHANGED <<count, reg>>
      /\ \A w \in Vms : calling'[w] = IF w = v THEN o ELSE calling[w]
  BY DEF CallData, RegInv, RegTypeOK, ConnTypeOK, CallingActive
<1>2. o \in Bound /\ UNCHANGED <<Stored, Bound>>
  BY <1>1 DEF Bound, Stored
<1>3. InUse' = InUse \cup {o}
  BY <1>1 DEF InUse
<1>4. Abstract!Begin(o)
  BY <1>2, <1>3 DEF Abstract!Begin
<1> QED
  BY <1>1, <1>4 DEF Abstract!Next

LEMMA ReturnDataIsStep ==
  ASSUME RegInv, NEW v \in Vms, ReturnData(v)
  PROVE  [Abstract!Next]_<<Stored, Bound, InUse>>
<1> DEFINE o == calling[v]
<1>1. /\ o \in Callables /\ UNCHANGED <<count, reg>>
      /\ \A w \in Vms : calling'[w] = IF w = v THEN None ELSE calling[w]
  BY DEF ReturnData, RegInv, RegTypeOK
<1>2. o \in InUse /\ UNCHANGED <<Stored, Bound>>
  BY <1>1 DEF InUse, Bound, Stored
<1>3. InUse' = InUse \/ InUse' = InUse \ {o}
  BY <1>1 DEF InUse
<1>4. CASE InUse' = InUse \ {o}
  <2>1. Abstract!End(o)
    BY <1>2, <1>4 DEF Abstract!End
  <2> QED
    BY <1>1, <2>1 DEF Abstract!Next
<1> QED
  BY <1>2, <1>3, <1>4

LEMMA RegNextImplements ==
  ASSUME RegInv, RegInv', [Next]_vars
  PROVE  [Abstract!Next]_<<Stored, Bound, InUse>>
<1>1. ASSUME UNCHANGED <<count, reg, calling>>  PROVE UNCHANGED <<Stored, Bound, InUse>>
  BY <1>1 DEF Stored, Bound, InUse
<1>2. ASSUME NEW c \in Conns, Register(c)  PROVE [Abstract!Next]_<<Stored, Bound, InUse>>
  <2>1. ASSUME NEW n \in Names, NEW data \in Callables \cup {Static}, NEW ok \in BOOLEAN,
               CreateFunction(c, n, data, ok) \/ CreateCollation(c, n, data, ok)
        PROVE  [Abstract!Next]_<<Stored, Bound, InUse>>
    <3>1. CASE ~ok
      BY <1>1, <2>1, <3>1, CreateEffect DEF vars, regVars
    <3>2. CASE ok
      <4>1. /\ handle[c] \in Dbs
            /\ data \in Callables => count[data] = 0
            /\ SetName(handle[c], n, data)
        BY <2>1, <3>2, CreateEffect
      <4> QED
        BY <4>1, SetNameIsStep
    <3> QED
      BY <3>1, <3>2
  <2>2. ASSUME NEW n \in Names, Remove(c, n)  PROVE Abstract!Next
    BY <2>2, RemoveEffect, SetNameIsStep
  <2> QED
    BY <1>2, <2>1, <2>2 DEF Register
<1>3. ASSUME NEW c \in Conns, CloseConn(c)  PROVE Abstract!Next
  <2>1. UNCHANGED calling /\ FreeRegistrations /\ (db' = db \/ CloseV2(handle[c]))
    BY <1>3 DEF CloseConn, Close, CloseSync, Destroy
  <2>2. \A d \in Dbs : db[d] = "free" => db'[d] = "free"
    BY <2>1, ClosingOne DEF RegInv, ConnTypeOK
  <2> QED
    BY <2>1, <2>2, FreeIsStep
<1>4. ASSUME NEW c \in Conns, LifeCycle(c), ~CloseConn(c)
      PROVE  UNCHANGED <<Stored, Bound, InUse>>
  BY <1>1, <1>4 DEF LifeCycle, ConstructConn, OpenConn, OpenFailsConn, DestroyMembersConn,
     PrepareStmt, regVars
<1>5. ASSUME NEW s \in Stmts, DestroyStmt(s)  PROVE Abstract!Next
  <2>1. UNCHANGED calling /\ FreeRegistrations /\ Finalize(vm[s])
    BY <1>5 DEF DestroyStmt, DestroyStatement
  <2>2. \A d \in Dbs : db[d] = "free" => db'[d] = "free"
    BY <2>1 DEF Finalize, RegInv, ConnTypeOK
  <2> QED
    BY <2>1, <2>2, FreeIsStep
<1>6. ASSUME NEW v \in Vms, Run(v)  PROVE [Abstract!Next]_<<Stored, Bound, InUse>>
  <2>1. CASE StartStep(v) \/ EndStep(v)
    BY <1>1, <2>1 DEF StartStep, EndStep
  <2> QED
    BY <1>6, <2>1, CallDataIsStep, ReturnDataIsStep DEF Run
<1>7. CASE UNCHANGED vars
  BY <1>1, <1>7 DEF vars, regVars
<1> QED
  BY <1>2, <1>3, <1>4, <1>5, <1>6, <1>7 DEF Next

\* create_function(), create_aggregate(), create_collation() and their
\* remove_ counterparts keep what CallableStore promises, with SQLite as the
\* owner of the copies: a copy is made and bound in one step, and unbound and
\* destroyed in one step, never during a call.
THEOREM RegistrationImplementsStore == Spec => ImplementsStore
<1>1. Init => Abstract!Init
  BY DEF Init, Abstract!Init, Stored, Bound, InUse, NoNames
<1>2. RegInv /\ RegInv' /\ [Next]_vars => [Abstract!Next]_<<Stored, Bound, InUse>>
  BY RegNextImplements
<1>3. Spec => Abstract!Init /\ [][Abstract!Next]_<<Stored, Bound, InUse>>
  BY RegInvariant, <1>1, <1>2, PTL DEF Spec
<1> QED
  BY <1>3 DEF ImplementsStore, Abstract!Spec, Abstract!vars

-----------------------------------------------------------------------------
(* Registrations leave the life cycle as it is. *)

LEMMA RegNextIsConnNext == ASSUME [Next]_vars PROVE [ConnNext]_connVars
<1> USE DEF ConnNext
<1>1. ASSUME NEW c \in Conns, Register(c)  PROVE UNCHANGED connVars
  BY <1>1 DEF Register, CreateFunction, CreateCollation, Remove
<1>2. ASSUME NEW c \in Conns, LifeCycle(c)  PROVE ConnNext
  BY <1>2 DEF LifeCycle, ConstructConn, OpenConn, OpenFailsConn, CloseConn,
              DestroyMembersConn, PrepareStmt
<1>3. ASSUME NEW s \in Stmts, DestroyStmt(s)  PROVE ConnNext
  BY <1>3 DEF DestroyStmt
<1>4. ASSUME NEW v \in Vms, Run(v)  PROVE UNCHANGED connVars
  BY <1>4 DEF Run, StartStep, EndStep, CallData, ReturnData
<1>5. CASE UNCHANGED vars
  BY <1>5 DEF vars
<1> HIDE DEF ConnNext
<1> QED
  BY <1>1, <1>2, <1>3, <1>4, <1>5 DEF Next

\* Functions, aggregates and collations do not change what connections and
\* statements own: Registration is Connection, with more to look at.
THEOREM RegistrationRefinesConnection == Spec => ConnSpec
<1>1. Init => ConnInit
  BY DEF Init
<1> QED
  BY <1>1, RegNextIsConnNext, PTL DEF Spec, ConnSpec

\* What is registered is freed in the end only if the database is: with
\* registrations, no database and no statement handle is lost either, and so
\* no copy outlives every object that could free it.
THEOREM RegistrationLeakFree ==
  ASSUME "overwrite" \notin Beyond PROVE Spec => []NothingLeaks
BY RegistrationRefinesConnection, LeakFree, PTL
=============================================================================
