-------------------------- MODULE ConnectionProofs --------------------------
(***************************************************************************)
(* Proofs about Connection, for all sets of objects and handles: without   *)
(* moves and without open() on an open connection, every handle has one    *)
(* owner, no statement loses its database, and nothing leaks.              *)
(***************************************************************************)
EXTENDS Connection, TLAPS

\* The uses of the classes that the theorems on ownership are about.
Plain == "move" \notin Beyond /\ "overwrite" \notin Beyond

\* A connection object that is not live holds no handle.
OnlyLiveHold == \A c \in Conns : phase[c] # "live" => handle[c] = None

\* A statement refers to a connection object that is live.
ConnectionStays ==
  \A s \in Stmts : made[s] => sconn[s] \in Conns /\ phase[sconn[s]] = "live"

\* The inductive invariant.  What it adds to the safety properties is what
\* the next step needs: who may close, and that a statement's connection
\* object is there to hold the database.
ConnInv == /\ ConnTypeOK
           /\ OnlyLiveHold
           /\ ConnectionStays
           /\ HandleOwned
           /\ StatementOwned
           /\ StatementDb
           /\ NothingLeaks

USE NoneAssumption DEF Plain

-----------------------------------------------------------------------------

LEMMA ConnInitInv == ConnInit => ConnInv
BY DEF ConnInit, ConnInv, ConnTypeOK, Phases, DbStates, OnlyLiveHold,
       ConnectionStays, HandleOwned, StatementOwned, StatementDb, NothingLeaks

\* A database handle that is freed or becomes a zombie had the state "open",
\* and the others are left alone.
LEMMA ClosingOne ==
  ASSUME ConnTypeOK, NEW h \in Dbs \cup {None}, CloseV2(h)
  PROVE  /\ db' \in [Dbs -> DbStates]
         /\ \A d \in Dbs : d # h => db'[d] = db[d]
         /\ \A d \in Dbs : d = h /\ db[d] = "open" =>
              db'[d] = IF VmsOf(d) = {} THEN "free" ELSE "zombie"
         /\ \A d \in Dbs : db[d] # "open" => db'[d] = db[d]
BY DEF ConnTypeOK, DbStates, CloseV2

LEMMA ConstructInv ==
  ASSUME ConnInv, NEW c \in Conns, Construct(c)  PROVE ConnInv'
BY DEF Construct, ConnInv, ConnTypeOK, Phases, OnlyLiveHold, ConnectionStays,
       HandleOwned, StatementOwned, StatementDb, NothingLeaks, VmsOf

LEMMA OpenInv ==
  ASSUME Plain, ConnInv, NEW c \in Conns, Open(c)  PROVE ConnInv'
BY DEF Open, ConnInv, ConnTypeOK, DbStates, OnlyLiveHold, ConnectionStays,
       HandleOwned, StatementOwned, StatementDb, NothingLeaks, VmsOf

LEMMA OpenFailsInv ==
  ASSUME Plain, ConnInv, NEW c \in Conns, OpenFails(c)  PROVE ConnInv'
BY DEF OpenFails, ConnInv, ConnTypeOK, OnlyLiveHold, ConnectionStays,
       HandleOwned, StatementOwned, StatementDb, NothingLeaks, VmsOf

LEMMA CloseInv ==
  ASSUME ConnInv, NEW c \in Conns, Close(c)  PROVE ConnInv'
BY ClosingOne DEF Close, ConnInv, ConnTypeOK, OnlyLiveHold, ConnectionStays,
       HandleOwned, StatementOwned, StatementDb, NothingLeaks, VmsOf

LEMMA CloseSyncInv ==
  ASSUME ConnInv, NEW c \in Conns, CloseSync(c)  PROVE ConnInv'
BY ClosingOne DEF CloseSync, ConnInv, ConnTypeOK, OnlyLiveHold, ConnectionStays,
       HandleOwned, StatementOwned, StatementDb, NothingLeaks, VmsOf

LEMMA DestroyInv ==
  ASSUME ConnInv, NEW c \in Conns, Destroy(c)  PROVE ConnInv'
BY ClosingOne DEF Destroy, StmtsOf, ConnInv, ConnTypeOK, Phases, OnlyLiveHold, ConnectionStays,
       HandleOwned, StatementOwned, StatementDb, NothingLeaks, VmsOf

LEMMA DestroyMembersInv ==
  ASSUME ConnInv, NEW c \in Conns, DestroyMembers(c)  PROVE ConnInv'
BY DEF DestroyMembers, ConnInv, ConnTypeOK, Phases, OnlyLiveHold, ConnectionStays,
       HandleOwned, StatementOwned, StatementDb, NothingLeaks, VmsOf

LEMMA PrepareInv ==
  ASSUME ConnInv, NEW c \in Conns, NEW s \in Stmts, Prepare(c, s)  PROVE ConnInv'
BY DEF Prepare, ConnInv, ConnTypeOK, OnlyLiveHold, ConnectionStays,
       HandleOwned, StatementOwned, StatementDb, NothingLeaks, VmsOf

LEMMA DestroyStatementInv ==
  ASSUME ConnInv, NEW s \in Stmts, DestroyStatement(s)  PROVE ConnInv'
BY DEF DestroyStatement, Finalize, ConnInv, ConnTypeOK, DbStates, OnlyLiveHold, ConnectionStays,
       HandleOwned, StatementOwned, StatementDb, NothingLeaks, VmsOf

LEMMA ConnStutterInv ==
  ASSUME ConnInv, UNCHANGED connVars  PROVE ConnInv'
BY DEF connVars, ConnInv, ConnTypeOK, OnlyLiveHold, ConnectionStays,
       HandleOwned, StatementOwned, StatementDb, NothingLeaks, VmsOf

LEMMA ConnNextInv ==
  ASSUME Plain, ConnInv, [ConnNext]_connVars
  PROVE  ConnInv'
<1>1. ASSUME NEW c \in Conns, Construct(c)  PROVE ConnInv'
  BY <1>1, ConstructInv
<1>2. ASSUME NEW c \in Conns, Open(c)  PROVE ConnInv'
  BY <1>2, OpenInv
<1>3. ASSUME NEW c \in Conns, OpenFails(c)  PROVE ConnInv'
  BY <1>3, OpenFailsInv
<1>4. ASSUME NEW c \in Conns, Close(c)  PROVE ConnInv'
  BY <1>4, CloseInv
<1>5. ASSUME NEW c \in Conns, CloseSync(c)  PROVE ConnInv'
  BY <1>5, CloseSyncInv
<1>6. ASSUME NEW c \in Conns, Destroy(c)  PROVE ConnInv'
  BY <1>6, DestroyInv
<1>7. ASSUME NEW c \in Conns, DestroyMembers(c)  PROVE ConnInv'
  BY <1>7, DestroyMembersInv
<1>8. ASSUME NEW c \in Conns, NEW s \in Stmts, Prepare(c, s)  PROVE ConnInv'
  BY <1>8, PrepareInv
<1>9. ASSUME NEW s \in Stmts, DestroyStatement(s)  PROVE ConnInv'
  BY <1>9, DestroyStatementInv
<1>10. ASSUME NEW c \in Conns, NEW to \in Conns, MoveConnection(c, to)  PROVE FALSE
  BY <1>10 DEF MoveConnection
<1>11. ASSUME NEW s \in Stmts, NEW to \in Stmts, MoveStatement(s, to)  PROVE FALSE
  BY <1>11 DEF MoveStatement
<1>12. CASE UNCHANGED connVars
  BY <1>12, ConnStutterInv
<1> QED
  BY <1>1, <1>2, <1>3, <1>4, <1>5, <1>6, <1>7, <1>8, <1>9, <1>10, <1>11, <1>12
     DEF ConnNext

-----------------------------------------------------------------------------

\* Connections and statements keep their variables in their types, are the
\* only owners of their handles, and every statement keeps its database:
\* close(), close_sync() and the destructors release each handle once.
THEOREM Ownership ==
  ASSUME Plain
  PROVE  ConnSpec => [](ConnTypeOK /\ HandleOwned /\ StatementOwned /\ StatementDb)
<1>1. ConnInv /\ [ConnNext]_connVars => ConnInv'
  BY ConnNextInv
<1>2. ConnInv => ConnTypeOK /\ HandleOwned /\ StatementOwned /\ StatementDb
  BY DEF ConnInv
<1> QED
  BY ConnInitInv, <1>1, <1>2, PTL DEF ConnSpec

\* The whole invariant, which the modules that extend Connection build on.
THEOREM ConnInvariant == ASSUME Plain PROVE ConnSpec => []ConnInv
<1>1. ConnInv /\ [ConnNext]_connVars => ConnInv'
  BY ConnNextInv
<1> QED
  BY ConnInitInv, <1>1, PTL DEF ConnSpec

\* The types alone need no assumption on the use of the classes.
LEMMA ConnTypeStep ==
  ASSUME ConnTypeOK, [ConnNext]_connVars
  PROVE  ConnTypeOK'
<1> USE DEF ConnTypeOK, Phases, DbStates
<1>1. ASSUME NEW c \in Conns, Construct(c) \/ Open(c) \/ OpenFails(c) \/ DestroyMembers(c)
      PROVE  ConnTypeOK'
  BY <1>1 DEF Construct, Open, OpenFails, DestroyMembers
<1>2. ASSUME NEW c \in Conns, Close(c) \/ CloseSync(c) \/ Destroy(c)
      PROVE  ConnTypeOK'
  BY <1>2, ClosingOne DEF Close, CloseSync, Destroy
<1>3. ASSUME NEW c \in Conns, NEW to \in Conns, MoveConnection(c, to)
      PROVE  ConnTypeOK'
  BY <1>3 DEF MoveConnection
<1>4. ASSUME NEW c \in Conns, NEW s \in Stmts, Prepare(c, s)
      PROVE  ConnTypeOK'
  BY <1>4 DEF Prepare
<1>5. ASSUME NEW s \in Stmts, DestroyStatement(s)
      PROVE  ConnTypeOK'
  BY <1>5 DEF DestroyStatement, Finalize
<1>6. ASSUME NEW s \in Stmts, NEW to \in Stmts, MoveStatement(s, to)
      PROVE  ConnTypeOK'
  BY <1>6 DEF MoveStatement
<1>7. CASE UNCHANGED connVars
  BY <1>7 DEF connVars
<1> QED
  BY <1>1, <1>2, <1>3, <1>4, <1>5, <1>6, <1>7 DEF ConnNext

-----------------------------------------------------------------------------
(* Nothing leaks, even when objects are moved. *)

LEMMA NoLeakStep ==
  ASSUME "overwrite" \notin Beyond, ConnTypeOK, NothingLeaks, ConnNext
  PROVE  NothingLeaks'
<1> USE DEF ConnTypeOK, Phases, DbStates, NothingLeaks, VmsOf
<1>1. ASSUME NEW c \in Conns, Construct(c) \/ Open(c) \/ OpenFails(c) \/ DestroyMembers(c)
      PROVE  NothingLeaks'
  BY <1>1 DEF Construct, Open, OpenFails, DestroyMembers
<1>2. ASSUME NEW c \in Conns, Close(c) \/ CloseSync(c) \/ Destroy(c)
      PROVE  NothingLeaks'
  BY <1>2, ClosingOne DEF Close, CloseSync, Destroy
<1>3. ASSUME NEW c \in Conns, NEW to \in Conns, MoveConnection(c, to)
      PROVE  NothingLeaks'
  BY <1>3 DEF MoveConnection
<1>4. ASSUME NEW c \in Conns, NEW s \in Stmts, Prepare(c, s)
      PROVE  NothingLeaks'
  BY <1>4 DEF Prepare
<1>5. ASSUME NEW s \in Stmts, DestroyStatement(s)
      PROVE  NothingLeaks'
  BY <1>5 DEF DestroyStatement, Finalize
<1>6. ASSUME NEW s \in Stmts, NEW to \in Stmts, MoveStatement(s, to)
      PROVE  NothingLeaks'
  BY <1>6 DEF MoveStatement
<1> QED
  BY <1>1, <1>2, <1>3, <1>4, <1>5, <1>6 DEF ConnNext

\* No database and no statement handle is ever lost, as long as no open
\* handle is overwritten: the defaulted moves give a handle a second owner,
\* but never take the last.
THEOREM LeakFree ==
  ASSUME "overwrite" \notin Beyond
  PROVE  ConnSpec => []NothingLeaks
<1> DEFINE Inv == ConnTypeOK /\ NothingLeaks
<1>1. ConnInit => Inv
  BY DEF ConnInit, ConnTypeOK, Phases, DbStates, NothingLeaks
<1>2. Inv /\ [ConnNext]_connVars => Inv'
  <2>1. CASE UNCHANGED connVars
    BY <2>1 DEF connVars, ConnTypeOK, NothingLeaks, VmsOf
  <2> QED
    BY <2>1, NoLeakStep, ConnTypeStep
<1> QED
  BY <1>1, <1>2, PTL DEF ConnSpec

-----------------------------------------------------------------------------
(* What holds of every use, and of open() over an open handle. *)

\* The variables of connections and statements keep their types, also when
\* objects are moved and handles overwritten.
THEOREM ConnTypes == ConnSpec => []ConnTypeOK
<1>1. ConnInit => ConnTypeOK
  BY DEF ConnInit, ConnTypeOK, Phases, DbStates
<1> QED
  BY <1>1, ConnTypeStep, PTL DEF ConnSpec

\* HandleOwned and StatementOwned are inductive together, with the destroyed
\* connection objects holding nothing.
OwnedInv == ConnTypeOK /\ OnlyLiveHold /\ HandleOwned /\ StatementOwned

LEMMA OwnedStep ==
  ASSUME "move" \notin Beyond, OwnedInv, [ConnNext]_connVars
  PROVE  OwnedInv'
<1> USE DEF OwnedInv
<1>t. ConnTypeOK'
  BY ConnTypeStep
<1> USE DEF ConnTypeOK, Phases, DbStates, OnlyLiveHold, HandleOwned, StatementOwned
<1>1. ASSUME NEW c \in Conns, Construct(c) \/ Open(c) \/ OpenFails(c) \/ DestroyMembers(c)
      PROVE  OnlyLiveHold' /\ HandleOwned' /\ StatementOwned'
  BY <1>1 DEF Construct, Open, OpenFails, DestroyMembers
<1>2. ASSUME NEW c \in Conns, Close(c) \/ CloseSync(c) \/ Destroy(c)
      PROVE  OnlyLiveHold' /\ HandleOwned' /\ StatementOwned'
  BY <1>2, ClosingOne DEF Close, CloseSync, Destroy
<1>3. ASSUME NEW c \in Conns, NEW to \in Conns, MoveConnection(c, to)
      PROVE  FALSE
  BY <1>3 DEF MoveConnection
<1>4. ASSUME NEW c \in Conns, NEW s \in Stmts, Prepare(c, s)
      PROVE  OnlyLiveHold' /\ HandleOwned' /\ StatementOwned'
  BY <1>4 DEF Prepare
<1>5. ASSUME NEW s \in Stmts, DestroyStatement(s)
      PROVE  OnlyLiveHold' /\ HandleOwned' /\ StatementOwned'
  BY <1>5 DEF DestroyStatement, Finalize
<1>6. ASSUME NEW s \in Stmts, NEW to \in Stmts, MoveStatement(s, to)
      PROVE  FALSE
  BY <1>6 DEF MoveStatement
<1>7. CASE UNCHANGED connVars
  BY <1>7, <1>t DEF connVars
<1> QED
  BY <1>t, <1>1, <1>2, <1>3, <1>4, <1>5, <1>6, <1>7 DEF ConnNext

LEMMA OwnedInvariant ==
  ASSUME "move" \notin Beyond
  PROVE  ConnSpec => [](HandleOwned /\ StatementOwned)
<1>1. ConnInit => OwnedInv
  BY DEF ConnInit, OwnedInv, ConnTypeOK, Phases, DbStates, OnlyLiveHold,
         HandleOwned, StatementOwned
<1>2. OwnedInv /\ [ConnNext]_connVars => OwnedInv'
  BY OwnedStep
<1>3. OwnedInv => HandleOwned /\ StatementOwned
  BY DEF OwnedInv
<1> QED
  BY <1>1, <1>2, <1>3, PTL DEF ConnSpec

\* Unless a connection is moved, its handle is open and is its alone, so that
\* every close() closes a database once.  open() over an open handle loses
\* the old database (see LeakFree) but shares none.
THEOREM HandlesOwnedOnce ==
  ASSUME "move" \notin Beyond PROVE ConnSpec => []HandleOwned
BY OwnedInvariant, PTL

\* Unless a statement is moved, its handle is allocated and is its alone, so
\* that ~statement() finalizes each handle once.
THEOREM StatementsOwnedOnce ==
  ASSUME "move" \notin Beyond PROVE ConnSpec => []StatementOwned
BY OwnedInvariant, PTL
=============================================================================
