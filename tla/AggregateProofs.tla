-------------------------- MODULE AggregateProofs --------------------------
(***************************************************************************)
(* Proofs about Aggregate, for any queries, calls, arguments and rows.     *)
(***************************************************************************)
EXTENDS Aggregate, TLAPS

RunTypes ==
  /\ phase \in [Queries -> {"idle", "scan", "output", "abort"}]
  /\ memory \in [Queries -> [Calls -> Memory]]
  /\ count \in [Queries -> [Calls -> Int]]
  /\ state \in [Queries -> [Calls -> Seq(Values)]]
  /\ running \in [Queries -> [Calls -> {"none", "step", "final"}]]
  /\ fed \in [Queries -> [Calls -> Seq(Values)]]
  /\ left \in [Queries -> SUBSET Calls]

\* The callable of step runs in a scan, on a state that has been constructed;
\* that of final runs after the scan.
RunningInPhase(q, c) ==
  /\ running[q][c] = "step" => phase[q] = "scan" /\ memory[q][c] = "flagged"
  /\ running[q][c] = "final" => phase[q] \in {"output", "abort"} /\ c \notin left[q]

\* Until the end of a scan there is nothing to finalize.
NothingLeft(q) == phase[q] \in {"idle", "scan"} => left[q] = {}

\* Memory is in use, or its final is running or still to come.
MemoryWanted(q, c) ==
  memory[q][c] # "none" =>
    phase[q] = "scan" \/ c \in left[q] \/ running[q][c] = "final"

\* The group is still in the state, or is being finalized from it.
InGroup(q, c) ==
  \/ phase[q] = "scan"
  \/ phase[q] = "output" /\ (c \in left[q] \/ running[q][c] = "final")

GroupFolded(q, c) ==
  InGroup(q, c) => /\ memory[q][c] \in {"none", "flagged"}
                   /\ FinalArgument(q, c) = fed[q][c]

CallInv(q, c) == RunningInPhase(q, c) /\ MemoryWanted(q, c) /\ GroupFolded(q, c)

\* SQLite calls one callable at a time.
OneRuns(q) ==
  \A c, d \in Calls : running[q][c] # "none" /\ running[q][d] # "none" => c = d

QueryInv(q) == /\ NothingLeft(q) /\ OneRuns(q)
               /\ \A c \in Calls : CallInv(q, c)

GroupInv == RunTypes /\ \A q \in Queries : QueryInv(q)

LEMMA InitGroup == Init => GroupInv
BY DEF Init, GroupInv, QueryInv, CallInv, RunTypes, Memory, Zero, RunningInPhase,
       NothingLeft, MemoryWanted, GroupFolded, InGroup, FinalArgument, HasMemory,
       OneRuns

\* What happens in one query leaves the others alone.
LEMMA OtherQueries ==
  ASSUME RunTypes, NEW q \in Queries, Query(q), NEW r \in Queries, r # q
  PROVE  /\ phase'[r] = phase[r] /\ memory'[r] = memory[r] /\ count'[r] = count[r]
         /\ state'[r] = state[r] /\ running'[r] = running[r]
         /\ fed'[r] = fed[r] /\ left'[r] = left[r]
<1>1. CASE StartGroup(q) \/ EndGroup(q) \/ Interrupt(q) \/ EndQuery(q)
  BY <1>1 DEF StartGroup, EndGroup, Interrupt, EndQuery, Fail, RunTypes
<1>2. ASSUME NEW c \in Calls, BeginStep(q, c)
      PROVE  /\ phase'[r] = phase[r] /\ memory'[r] = memory[r] /\ count'[r] = count[r]
             /\ state'[r] = state[r] /\ running'[r] = running[r]
             /\ fed'[r] = fed[r] /\ left'[r] = left[r]
  BY <1>2 DEF BeginStep, GetStateCreate, Construct, ConstructThrows, NoMemory, Fail, RunTypes
<1>3. ASSUME NEW c \in Calls, BeginFinal(q, c) \/ EndFinal(q, c) \/ FinalThrows(q, c)
      PROVE  /\ phase'[r] = phase[r] /\ memory'[r] = memory[r] /\ count'[r] = count[r]
             /\ state'[r] = state[r] /\ running'[r] = running[r]
             /\ fed'[r] = fed[r] /\ left'[r] = left[r]
  BY <1>3 DEF BeginFinal, EndFinal, FinalThrows, Dispose, Fail, RunTypes
<1>4. ASSUME NEW c \in Calls, NEW v \in Values, EndStep(q, c, v) \/ StepThrows(q, c, v)
      PROVE  /\ phase'[r] = phase[r] /\ memory'[r] = memory[r] /\ count'[r] = count[r]
             /\ state'[r] = state[r] /\ running'[r] = running[r]
             /\ fed'[r] = fed[r] /\ left'[r] = left[r]
  BY <1>4 DEF EndStep, StepThrows, Fail, RunTypes
<1> QED
  BY <1>1, <1>2, <1>3, <1>4 DEF Query

LEMMA SetOne ==
  ASSUME NEW S, NEW f \in [Queries -> [Calls -> S]],
         NEW q \in Queries, NEW c \in Calls, NEW x \in S
  PROVE  /\ [f EXCEPT ![q][c] = x] \in [Queries -> [Calls -> S]]
         /\ [f EXCEPT ![q][c] = x][q][c] = x
         /\ \A d \in Calls : d # c => [f EXCEPT ![q][c] = x][q][d] = f[q][d]
OBVIOUS

LEMMA FailTypes ==
  ASSUME RunTypes, NEW q \in Queries, Fail(q)
  PROVE  /\ phase' \in [Queries -> {"idle", "scan", "output", "abort"}]
         /\ left' \in [Queries -> SUBSET Calls]
         /\ phase'[q] = "abort"
         /\ left'[q] = {c \in Calls : memory'[q][c] # "none"}
<1>1. {c \in Calls : memory'[q][c] # "none"} \in SUBSET Calls
  OBVIOUS
<1> QED
  BY <1>1 DEF Fail, RunTypes

LEMMA TypesStep == ASSUME RunTypes, [Next]_vars PROVE RunTypes'
<1>1. ASSUME NEW q \in Queries,
             StartGroup(q) \/ EndGroup(q) \/ Interrupt(q) \/ EndQuery(q)
      PROVE  RunTypes'
  <2>1. CASE StartGroup(q) \/ EndGroup(q) \/ EndQuery(q)
    <3>1. UNCHANGED <<memory, count, state, running>>
      BY <2>1 DEF StartGroup, EndGroup, EndQuery
    <3>2. phase' \in [Queries -> {"idle", "scan", "output", "abort"}]
      BY <2>1 DEF StartGroup, EndGroup, EndQuery, RunTypes
    <3>3. left' \in [Queries -> SUBSET Calls]
      BY <2>1 DEF StartGroup, EndGroup, EndQuery, RunTypes
    <3>4. fed' \in [Queries -> [Calls -> Seq(Values)]]
      <4>1. [d \in Calls |-> <<>>] \in [Calls -> Seq(Values)]
        OBVIOUS
      <4> QED
        BY <2>1, <4>1 DEF StartGroup, EndGroup, EndQuery, RunTypes
    <3> QED
      BY <3>1, <3>2, <3>3, <3>4 DEF RunTypes
  <2>2. CASE Interrupt(q)
    BY <2>2, FailTypes DEF Interrupt, RunTypes
  <2> QED
    BY <1>1, <2>1, <2>2
<1>2. ASSUME NEW q \in Queries, NEW c \in Calls, BeginStep(q, c)  PROVE RunTypes'
  <2>1. UNCHANGED fed
    BY <1>2 DEF BeginStep
  <2>2. CASE Construct(q, c)
    <3>1. count[q][c] + 1 \in Int /\ Zero \in Seq(Values)
      BY DEF RunTypes, Zero
    <3>2. /\ memory' \in [Queries -> [Calls -> Memory]]
          /\ count' \in [Queries -> [Calls -> Int]]
          /\ state' \in [Queries -> [Calls -> Seq(Values)]]
          /\ running' \in [Queries -> [Calls -> {"none", "step", "final"}]]
      BY <2>2, <3>1, SetOne DEF Construct, RunTypes, Memory
    <3> QED
      BY <2>1, <2>2, <3>2 DEF Construct, RunTypes
  <2>3. CASE ConstructThrows(q, c) \/ NoMemory(q, c)
    <3>1. PICK m \in Memory : memory' = [memory EXCEPT ![q][c] = m]
      BY <2>3 DEF ConstructThrows, NoMemory, Memory
    <3>3. memory' \in [Queries -> [Calls -> Memory]]
      BY <3>1, SetOne DEF RunTypes
    <3>2. Fail(q) /\ UNCHANGED <<count, state, running>>
      BY <2>3 DEF ConstructThrows, NoMemory
    <3> QED
      BY <2>1, <3>2, <3>3, FailTypes DEF RunTypes
  <2>4. CASE /\ running' = [running EXCEPT ![q][c] = "step"]
             /\ UNCHANGED <<phase, memory, count, state, left>>
    BY <2>1, <2>4, SetOne DEF RunTypes
  <2> QED
    BY <1>2, <2>2, <2>3, <2>4 DEF BeginStep, GetStateCreate
<1>3. ASSUME NEW q \in Queries, NEW c \in Calls, BeginFinal(q, c)  PROVE RunTypes'
  BY <1>3 DEF BeginFinal, RunTypes
<1>4. ASSUME NEW q \in Queries, NEW c \in Calls, EndFinal(q, c) \/ FinalThrows(q, c)
      PROVE  RunTypes'
  <2>1. UNCHANGED fed /\ running' = [running EXCEPT ![q][c] = "none"]
    BY <1>4 DEF EndFinal, FinalThrows
  <2>2. /\ count' = [count EXCEPT ![q][c] = IF HasMemory(q, c) THEN @ - 1 ELSE @]
        /\ state' = [state EXCEPT ![q][c] = Zero]
        /\ memory' = [memory EXCEPT ![q][c] = "none"]
    BY <1>4 DEF EndFinal, FinalThrows, Dispose
  <2>3. /\ (IF HasMemory(q, c) THEN count[q][c] - 1 ELSE count[q][c]) \in Int
        /\ Zero \in Seq(Values) /\ "none" \in Memory
    BY DEF RunTypes, Zero, Memory
  <2>4. /\ count' \in [Queries -> [Calls -> Int]]
        /\ state' \in [Queries -> [Calls -> Seq(Values)]]
        /\ memory' \in [Queries -> [Calls -> Memory]]
        /\ running' \in [Queries -> [Calls -> {"none", "step", "final"}]]
    BY <2>1, <2>2, <2>3, SetOne DEF RunTypes
  <2>5. /\ phase' \in [Queries -> {"idle", "scan", "output", "abort"}]
        /\ left' \in [Queries -> SUBSET Calls]
    BY <1>4, FailTypes DEF EndFinal, FinalThrows, RunTypes
  <2> QED
    BY <2>1, <2>4, <2>5 DEF RunTypes
<1>5. ASSUME NEW q \in Queries, NEW c \in Calls, NEW v \in Values,
             EndStep(q, c, v) \/ StepThrows(q, c, v)
      PROVE  RunTypes'
  <2>1. Append(state[q][c], v) \in Seq(Values) /\ Append(fed[q][c], v) \in Seq(Values)
    BY DEF RunTypes
  <2>2. state' \in [Queries -> [Calls -> Seq(Values)]]
    <3>1. state' = state \/ state' = [state EXCEPT ![q][c] = Append(state[q][c], v)]
      BY <1>5 DEF EndStep, StepThrows
    <3>2. [state EXCEPT ![q][c] = Append(state[q][c], v)] \in [Queries -> [Calls -> Seq(Values)]]
      BY <2>1, SetOne DEF RunTypes
    <3> QED
      BY <3>1, <3>2 DEF RunTypes
  <2>3. fed' \in [Queries -> [Calls -> Seq(Values)]]
    <3>1. fed' = fed \/ fed' = [fed EXCEPT ![q][c] = Append(fed[q][c], v)]
      BY <1>5 DEF EndStep, StepThrows
    <3>2. [fed EXCEPT ![q][c] = Append(fed[q][c], v)] \in [Queries -> [Calls -> Seq(Values)]]
      BY <2>1, SetOne DEF RunTypes
    <3> QED
      BY <3>1, <3>2 DEF RunTypes
  <2>4. /\ running' = [running EXCEPT ![q][c] = "none"]
        /\ UNCHANGED <<memory, count>>
    BY <1>5 DEF EndStep, StepThrows
  <2>5. running' \in [Queries -> [Calls -> {"none", "step", "final"}]]
    BY <2>4, SetOne DEF RunTypes
  <2>6. /\ phase' \in [Queries -> {"idle", "scan", "output", "abort"}]
        /\ left' \in [Queries -> SUBSET Calls]
    BY <1>5, FailTypes DEF EndStep, StepThrows, RunTypes
  <2> QED
    BY <2>2, <2>3, <2>4, <2>5, <2>6 DEF RunTypes
<1>6. CASE UNCHANGED vars
  BY <1>6 DEF vars, RunTypes
<1> QED
  BY <1>1, <1>2, <1>3, <1>4, <1>5, <1>6 DEF Next, Query

\* A query that fails only has the contexts left that were asked for.
LEMMA AfterFail ==
  ASSUME RunTypes, NEW q \in Queries, Fail(q),
         \A d \in Calls : running'[q][d] = "none"
  PROVE  QueryInv(q)'
<1>1. phase'[q] = "abort" /\ left'[q] = {c \in Calls : memory'[q][c] # "none"}
  BY FailTypes
<1>2. NothingLeft(q)' /\ OneRuns(q)'
  BY <1>1 DEF NothingLeft, OneRuns
<1>3. ASSUME NEW d \in Calls  PROVE CallInv(q, d)'
  BY <1>1 DEF CallInv, RunningInPhase, MemoryWanted, GroupFolded, InGroup
<1> QED
  BY <1>2, <1>3 DEF QueryInv

\* step: on a state that is there, or a new one, or the query fails.
LEMMA BeginStepGroup ==
  ASSUME GroupInv, NEW q \in Queries, NEW c \in Calls, BeginStep(q, c)
  PROVE  QueryInv(q)'
<1>1. RunTypes /\ phase[q] = "scan" /\ fed' = fed /\ \A d \in Calls : running[q][d] = "none"
  BY DEF BeginStep, Quiet, GroupInv
<1>2. NothingLeft(q) /\ \A d \in Calls : CallInv(q, d)
  BY DEF GroupInv, QueryInv
<1>3. CASE memory[q][c] = "none" /\ Construct(q, c)
  <2>1. /\ memory'[q][c] = "flagged" /\ state'[q][c] = Zero /\ running'[q][c] = "step"
        /\ \A d \in Calls : d # c => /\ memory'[q][d] = memory[q][d]
                                     /\ state'[q][d] = state[q][d]
                                     /\ running'[q][d] = running[q][d]
        /\ UNCHANGED <<phase, left>>
    BY <1>1, <1>3, SetOne DEF Construct, RunTypes
  <2>2. CallInv(q, c)'
    <3>1. fed[q][c] = Zero
      BY <1>1, <1>2, <1>3 DEF CallInv, GroupFolded, InGroup, FinalArgument, HasMemory
    <3> QED
      BY <1>1, <2>1, <3>1 DEF CallInv, RunningInPhase, MemoryWanted, GroupFolded,
                              InGroup, FinalArgument, HasMemory
  <2>3. ASSUME NEW d \in Calls, d # c  PROVE CallInv(q, d)'
    BY <1>1, <1>2, <2>1, <2>3 DEF CallInv, RunningInPhase, MemoryWanted, GroupFolded,
                                  InGroup, FinalArgument, HasMemory
  <2> QED
    BY <1>1, <1>2, <2>1, <2>2, <2>3 DEF QueryInv, NothingLeft, OneRuns
<1>4. CASE ConstructThrows(q, c) \/ NoMemory(q, c)
  <2>1. Fail(q) /\ running' = running
    BY <1>4 DEF ConstructThrows, NoMemory
  <2> QED
    BY <1>1, <2>1, AfterFail
<1>5. CASE /\ memory[q][c] = "flagged"
           /\ running' = [running EXCEPT ![q][c] = "step"]
           /\ UNCHANGED <<phase, memory, count, state, left>>
  <2>1. /\ running'[q][c] = "step"
        /\ \A d \in Calls : d # c => running'[q][d] = running[q][d]
    BY <1>1, <1>5, SetOne DEF RunTypes
  <2>2. ASSUME NEW d \in Calls  PROVE CallInv(q, d)'
    BY <1>1, <1>2, <1>5, <2>1 DEF CallInv, RunningInPhase, MemoryWanted, GroupFolded,
                                  InGroup, FinalArgument, HasMemory
  <2> QED
    BY <1>1, <1>2, <1>5, <2>1, <2>2 DEF QueryInv, NothingLeft, OneRuns
<1> QED
  BY <1>3, <1>4, <1>5 DEF BeginStep, GetStateCreate

\* The callable of step folds a row, or throws.
LEMMA EndStepGroup ==
  ASSUME GroupInv, NEW q \in Queries, NEW c \in Calls, NEW v \in Values,
         EndStep(q, c, v) \/ StepThrows(q, c, v)
  PROVE  QueryInv(q)'
<1>1. /\ RunTypes /\ running[q][c] = "step"
      /\ NothingLeft(q) /\ OneRuns(q) /\ \A d \in Calls : CallInv(q, d)
  BY DEF EndStep, StepThrows, GroupInv, QueryInv
<1>2. phase[q] = "scan" /\ memory[q][c] = "flagged"
  BY <1>1 DEF CallInv, RunningInPhase
<1>3. CASE EndStep(q, c, v)
  <2>1. Append(state[q][c], v) \in Seq(Values) /\ Append(fed[q][c], v) \in Seq(Values)
    BY <1>1 DEF RunTypes
  <2>2. /\ state'[q][c] = Append(state[q][c], v) /\ fed'[q][c] = Append(fed[q][c], v)
        /\ running'[q][c] = "none"
        /\ \A d \in Calls : d # c => /\ state'[q][d] = state[q][d]
                                     /\ fed'[q][d] = fed[q][d]
                                     /\ running'[q][d] = running[q][d]
        /\ UNCHANGED <<phase, memory, left>>
    BY <1>1, <1>3, <2>1, SetOne DEF EndStep, RunTypes
  <2>3. ASSUME NEW d \in Calls  PROVE CallInv(q, d)'
    <3>1. CASE d = c
      <4>1. state[q][c] = fed[q][c]
        BY <1>1, <1>2 DEF CallInv, GroupFolded, InGroup, FinalArgument, HasMemory
      <4> QED
        BY <1>2, <2>2, <3>1, <4>1 DEF CallInv, RunningInPhase, MemoryWanted, GroupFolded,
                                      InGroup, FinalArgument, HasMemory
    <3>2. CASE d # c
      BY <1>1, <2>2, <3>2 DEF CallInv, RunningInPhase, MemoryWanted, GroupFolded,
                              InGroup, FinalArgument, HasMemory
    <3> QED
      BY <3>1, <3>2
  <2> QED
    BY <1>1, <2>2, <2>3 DEF QueryInv, NothingLeft, OneRuns
<1>4. CASE StepThrows(q, c, v)
  <2>1. Fail(q) /\ running' = [running EXCEPT ![q][c] = "none"]
    BY <1>4 DEF StepThrows
  <2>2. \A d \in Calls : running'[q][d] = "none"
    BY <1>1, <2>1, SetOne DEF RunTypes, OneRuns
  <2> QED
    BY <1>1, <2>1, <2>2, AfterFail
<1> QED
  BY <1>3, <1>4

\* final: it runs, and disposes of the state and the memory.
LEMMA FinalGroup ==
  ASSUME GroupInv, NEW q \in Queries, NEW c \in Calls,
         BeginFinal(q, c) \/ EndFinal(q, c) \/ FinalThrows(q, c)
  PROVE  QueryInv(q)'
<1>1. RunTypes /\ NothingLeft(q) /\ OneRuns(q) /\ \A d \in Calls : CallInv(q, d)
  BY DEF GroupInv, QueryInv
<1>2. CASE BeginFinal(q, c)
  <2>1. /\ \A d \in Calls : running[q][d] = "none"
        /\ c \in left[q] /\ phase[q] \in {"output", "abort"}
    BY <1>1, <1>2 DEF BeginFinal, Quiet, NothingLeft, RunTypes
  <2>2. /\ running'[q][c] = "final" /\ left'[q] = left[q] \ {c}
        /\ \A d \in Calls : d # c => running'[q][d] = running[q][d]
        /\ UNCHANGED <<phase, memory, state, fed>>
    BY <1>1, <1>2, SetOne DEF BeginFinal, RunTypes
  <2>3. ASSUME NEW d \in Calls  PROVE CallInv(q, d)'
    BY <1>1, <2>1, <2>2 DEF CallInv, RunningInPhase, MemoryWanted, GroupFolded,
                            InGroup, FinalArgument, HasMemory
  <2> QED
    BY <2>1, <2>2, <2>3 DEF QueryInv, NothingLeft, OneRuns
<1>3. CASE EndFinal(q, c)
  <2>1. /\ running[q][c] = "final" /\ phase[q] \in {"output", "abort"}
        /\ \A d \in Calls : d # c => running[q][d] = "none"
    BY <1>1, <1>3 DEF EndFinal, CallInv, RunningInPhase, OneRuns
  <2>2. /\ running'[q][c] = "none" /\ memory'[q][c] = "none" /\ state'[q][c] = Zero
        /\ \A d \in Calls : d # c => /\ memory'[q][d] = memory[q][d]
                                     /\ state'[q][d] = state[q][d]
                                     /\ running'[q][d] = running[q][d]
        /\ UNCHANGED <<phase, left, fed>>
    <3>1. Zero \in Seq(Values) /\ "none" \in Memory
      BY DEF Zero, Memory
    <3> QED
      BY <1>1, <1>3, <3>1, SetOne DEF EndFinal, Dispose, RunTypes
  <2>3. c \notin left[q] => CallInv(q, c)'
    BY <2>1, <2>2 DEF CallInv, RunningInPhase, MemoryWanted, GroupFolded, InGroup
  <2>4. ASSUME NEW d \in Calls, d # c  PROVE CallInv(q, d)'
    BY <1>1, <2>1, <2>2, <2>4 DEF CallInv, RunningInPhase, MemoryWanted, GroupFolded,
                                  InGroup, FinalArgument, HasMemory
  <2>5. c \notin left[q]
    BY <1>1, <2>1 DEF CallInv, RunningInPhase
  <2> QED
    BY <1>1, <2>1, <2>2, <2>3, <2>4, <2>5 DEF QueryInv, NothingLeft, OneRuns
<1>4. CASE FinalThrows(q, c)
  <2>1. Fail(q) /\ running[q][c] = "final" /\ running' = [running EXCEPT ![q][c] = "none"]
    BY <1>4 DEF FinalThrows
  <2>2. \A d \in Calls : running'[q][d] = "none"
    BY <1>1, <2>1, SetOne DEF RunTypes, OneRuns
  <2> QED
    BY <1>1, <2>1, <2>2, AfterFail
<1> QED
  BY <1>2, <1>3, <1>4

\* SQLite goes to the next group, or ends the query.
LEMMA QueryGroup ==
  ASSUME GroupInv, NEW q \in Queries,
         StartGroup(q) \/ EndGroup(q) \/ Interrupt(q) \/ EndQuery(q)
  PROVE  QueryInv(q)'
<1>1. RunTypes /\ NothingLeft(q) /\ OneRuns(q) /\ \A d \in Calls : CallInv(q, d)
  BY DEF GroupInv, QueryInv
<1>2. \A d \in Calls : running[q][d] = "none"
  BY <1>1 DEF StartGroup, EndGroup, Interrupt, EndQuery, Quiet, CallInv,
              RunningInPhase, RunTypes
<1>3. CASE Interrupt(q)
  BY <1>1, <1>2, <1>3, AfterFail DEF Interrupt
<1>4. CASE EndGroup(q)
  <2>1. /\ phase[q] = "scan" /\ phase'[q] = "output" /\ left'[q] = Calls
        /\ UNCHANGED <<memory, state, running, fed>>
    BY <1>1, <1>4 DEF EndGroup, RunTypes
  <2>2. ASSUME NEW d \in Calls  PROVE CallInv(q, d)'
    BY <1>1, <1>2, <2>1 DEF CallInv, RunningInPhase, MemoryWanted, GroupFolded,
                            InGroup, FinalArgument, HasMemory
  <2> QED
    BY <1>2, <2>1, <2>2 DEF QueryInv, NothingLeft, OneRuns
<1>5. CASE StartGroup(q) \/ EndQuery(q)
  <2>1. /\ phase[q] # "scan" /\ left[q] = {} /\ left'[q] = {} /\ phase'[q] \in {"scan", "idle"}
        /\ \A d \in Calls : fed'[q][d] = Zero
        /\ UNCHANGED <<memory, state, running>>
    BY <1>1, <1>5 DEF StartGroup, EndQuery, NothingLeft, RunTypes, Zero
  <2>2. \A d \in Calls : memory[q][d] = "none"
    BY <1>1, <1>2, <2>1 DEF CallInv, MemoryWanted
  <2>3. ASSUME NEW d \in Calls  PROVE CallInv(q, d)'
    BY <1>2, <2>1, <2>2 DEF CallInv, RunningInPhase, MemoryWanted, GroupFolded,
                            InGroup, FinalArgument, HasMemory
  <2> QED
    BY <1>2, <2>1, <2>3 DEF QueryInv, NothingLeft, OneRuns
<1> QED
  BY <1>3, <1>4, <1>5

LEMMA GroupStep == ASSUME GroupInv, [Next]_vars PROVE GroupInv'
<1>1. RunTypes'
  BY TypesStep DEF GroupInv
<1>2. ASSUME NEW q \in Queries, Query(q)  PROVE \A r \in Queries : QueryInv(r)'
  <2>1. QueryInv(q)'
    BY <1>2, BeginStepGroup, EndStepGroup, FinalGroup, QueryGroup DEF Query
  <2>2. ASSUME NEW r \in Queries, r # q  PROVE QueryInv(r)'
    <3>1. /\ phase'[r] = phase[r] /\ memory'[r] = memory[r] /\ state'[r] = state[r]
          /\ running'[r] = running[r] /\ fed'[r] = fed[r] /\ left'[r] = left[r]
      BY <1>2, <2>2, OtherQueries DEF GroupInv
    <3>2. QueryInv(r)
      BY DEF GroupInv
    <3> QED
      BY <3>1, <3>2 DEF QueryInv, NothingLeft, OneRuns, CallInv, RunningInPhase,
                        MemoryWanted, GroupFolded, InGroup, FinalArgument, HasMemory
  <2> QED
    BY <2>1, <2>2
<1>3. ASSUME UNCHANGED vars, NEW r \in Queries  PROVE QueryInv(r)'
  <2>1. QueryInv(r)
    BY DEF GroupInv
  <2> QED
    BY <1>3, <2>1 DEF vars, QueryInv, NothingLeft, OneRuns, CallInv, RunningInPhase,
                      MemoryWanted, GroupFolded, InGroup, FinalArgument, HasMemory
<1> QED
  BY <1>1, <1>2, <1>3 DEF Next, GroupInv

\* The result of a group is final of the zero stepped through its rows, for
\* any number of queries, calls and rows, also if copying the zero may throw.
THEOREM ResultsAreOfGroups == Spec => []ResultOfGroup
<1>1. GroupInv /\ [Next]_vars => GroupInv'
  BY GroupStep
<1>2. GroupInv => ResultOfGroup
  BY DEF GroupInv, QueryInv, CallInv, GroupFolded, InGroup, ResultOfGroup
<1> QED
  BY <1>1, <1>2, InitGroup, PTL DEF Spec

-----------------------------------------------------------------------------
(* When copying the zero state does not throw. *)

\* `initialized` is set exactly where there is a state.
FlagMeansState ==
  \A q \in Queries, c \in Calls :
    /\ memory[q][c] # "fresh"
    /\ count[q][c] = IF memory[q][c] = "flagged" THEN 1 ELSE 0

LEMMA FlagStep ==
  ASSUME ~ZeroThrows, RunTypes, FlagMeansState, [Next]_vars
  PROVE  FlagMeansState'
<1>1. ASSUME NEW q \in Queries, Query(q), NEW d \in Calls
      PROVE  /\ memory'[q][d] # "fresh"
             /\ count'[q][d] = IF memory'[q][d] = "flagged" THEN 1 ELSE 0
  <2>1. /\ memory[q][d] # "fresh"
        /\ count[q][d] = IF memory[q][d] = "flagged" THEN 1 ELSE 0
    BY DEF FlagMeansState
  <2>2. CASE UNCHANGED <<memory, count>>
    BY <2>1, <2>2
  <2>3. ASSUME NEW c \in Calls, BeginStep(q, c), ~UNCHANGED <<memory, count>>
        PROVE  /\ memory'[q][d] # "fresh"
               /\ count'[q][d] = IF memory'[q][d] = "flagged" THEN 1 ELSE 0
    <3>1. memory[q][c] = "none" /\ count[q][c] = 0
      BY <2>3 DEF BeginStep, GetStateCreate, FlagMeansState
    <3>2. CASE Construct(q, c)
      <4>1. "flagged" \in Memory /\ count[q][c] + 1 \in Int
        BY <3>1 DEF Memory
      <4>2. /\ memory'[q][c] = "flagged" /\ count'[q][c] = count[q][c] + 1
            /\ d # c => memory'[q][d] = memory[q][d] /\ count'[q][d] = count[q][d]
        BY <3>2, <4>1, SetOne DEF Construct, RunTypes
      <4> QED
        BY <2>1, <3>1, <4>2
    <3>3. CASE NoMemory(q, c)
      <4>1. "null" \in Memory
        BY DEF Memory
      <4>2. /\ memory'[q][c] = "null" /\ count' = count
            /\ d # c => memory'[q][d] = memory[q][d]
        BY <3>3, <4>1, SetOne DEF NoMemory, RunTypes
      <4> QED
        BY <2>1, <3>1, <4>2
    <3> QED
      BY <2>3, <3>2, <3>3 DEF BeginStep, GetStateCreate, ConstructThrows
  <2>4. ASSUME NEW c \in Calls, EndFinal(q, c) \/ FinalThrows(q, c)
        PROVE  /\ memory'[q][d] # "fresh"
               /\ count'[q][d] = IF memory'[q][d] = "flagged" THEN 1 ELSE 0
    <3>1. /\ count' = [count EXCEPT ![q][c] = IF HasMemory(q, c) THEN @ - 1 ELSE @]
          /\ memory' = [memory EXCEPT ![q][c] = "none"]
      BY <2>4 DEF EndFinal, FinalThrows, Dispose
    <3>2. /\ (IF HasMemory(q, c) THEN count[q][c] - 1 ELSE count[q][c]) = 0
          /\ "none" \in Memory
      BY DEF FlagMeansState, HasMemory, RunTypes, Memory
    <3>3. /\ count' = [count EXCEPT ![q][c] = 0]
      BY <3>1, <3>2 DEF RunTypes
    <3>4. /\ memory'[q][c] = "none" /\ count'[q][c] = 0
          /\ d # c => memory'[q][d] = memory[q][d] /\ count'[q][d] = count[q][d]
      BY <3>1, <3>2, <3>3, SetOne DEF RunTypes
    <3> QED
      BY <2>1, <3>4
  <2>5. \/ UNCHANGED <<memory, count>>
        \/ \E c \in Calls : BeginStep(q, c) \/ EndFinal(q, c) \/ FinalThrows(q, c)
    BY <1>1 DEF Query, StartGroup, EndGroup, Interrupt, EndQuery, BeginFinal,
                EndStep, StepThrows
  <2> QED
    BY <2>2, <2>3, <2>4, <2>5
<1>2. ASSUME NEW q \in Queries, Query(q)  PROVE FlagMeansState'
  <2>1. ASSUME NEW r \in Queries, r # q
        PROVE  memory'[r] = memory[r] /\ count'[r] = count[r]
    BY <1>2, <2>1, OtherQueries
  <2> QED
    BY <1>1, <1>2, <2>1 DEF FlagMeansState
<1>3. CASE UNCHANGED vars
  BY <1>3 DEF vars, FlagMeansState
<1> QED
  BY <1>2, <1>3 DEF Next

\* No state leaks, none is destroyed twice, and final never works on memory
\* without one, in every order of rows, exceptions and failures.
THEOREM StatesLiveForAggregation ==
  ASSUME ~ZeroThrows
  PROVE  Spec => [](TypeOK /\ StatesDestroyed /\ FinalHasState)
<1>1. Init => GroupInv /\ FlagMeansState
  BY InitGroup DEF Init, FlagMeansState
<1>2. GroupInv /\ FlagMeansState /\ [Next]_vars => GroupInv' /\ FlagMeansState'
  BY GroupStep, FlagStep DEF GroupInv
<1>3. GroupInv /\ FlagMeansState => TypeOK /\ StatesDestroyed /\ FinalHasState
  <2>1. ASSUME GroupInv, FlagMeansState  PROVE count \in [Queries -> [Calls -> {0, 1}]]
    <3>1. \A q \in Queries : count[q] \in [Calls -> {0, 1}]
      BY <2>1 DEF GroupInv, RunTypes, FlagMeansState
    <3> QED
      BY <2>1, <3>1 DEF GroupInv, RunTypes
  <2> QED
    BY <2>1 DEF GroupInv, RunTypes, TypeOK, FlagMeansState, StatesDestroyed,
                FinalHasState, HasMemory
<1> QED
  BY <1>1, <1>2, <1>3, PTL DEF Spec
=============================================================================
