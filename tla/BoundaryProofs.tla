--------------------------- MODULE BoundaryProofs ---------------------------
(***************************************************************************)
(* What holds of Library and Boundary for every number of handlers,        *)
(* options and exceptions, and every depth of the stack.                   *)
(***************************************************************************)
EXTENDS Boundary, SequenceTheorems, FiniteSetTheorems, TLAPS

(***************************************************************************)
(* The library.  Until config_callbacks is destroyed, what SQLite can call *)
(* is what the table has, each handler is in it once, and all of them are  *)
(* live; after that, SQLite is shut down.                                  *)
(***************************************************************************)
LogKept ==
  /\ setup = "gone" => ~up
  /\ tableGone => setup = "gone"
  /\ ~tableGone => \A k \in LogKinds :
       /\ logHook[k] # None => logHook[k] = logSlot[k]
       /\ logSlot[k] # None => logSlot[k] \in logHeap
       /\ \A l \in LogKinds : k # l /\ logSlot[k] # None => logSlot[l] # logSlot[k]

LibInv == LibTypeOK /\ LogKept

LEMMA LibInvInit == LibInit => LibInv
BY DEF LibInit, LibInv, LibTypeOK, LogKept

LEMMA LibInvConfigure == ASSUME LibInv, Configure PROVE LibInv'
<1>1. ASSUME NEW k \in LogKinds, NEW o \in LogObjs, ConfigLog(k, o)  PROVE LibInv'
  <2>1. PICK rv \in ConfigCodes(k) :
          /\ logHook' = IF rv = "ok" THEN [logHook EXCEPT ![k] = o] ELSE logHook
          /\ StoreLogHandler(k, o, rv)
    BY <1>1 DEF ConfigLog
  <2>2. CASE rv = "ok"
    BY <1>1, <2>1, <2>2, LogObjsAssumption
    DEF LibInv, LibTypeOK, LogKept, ConfigLog, StoreLogHandler, ConfigThrows,
        staticVars, Exiting
  <2>3. CASE rv # "ok"
    BY <1>1, <2>1, <2>3
    DEF LibInv, LibTypeOK, LogKept, ConfigLog, StoreLogHandler, ConfigThrows,
        staticVars
  <2> QED
    BY <2>2, <2>3
<1>2. ASSUME NEW k \in LogKinds, ConfigLogOff(k)  PROVE LibInv'
  BY <1>2 DEF LibInv, LibTypeOK, LogKept, ConfigLogOff, staticVars
<1>3. ASSUME NEW f \in Options, NEW value \in Settings, ConfigOption(f, value)
      PROVE  LibInv'
  BY <1>3, OptionsAssumption
  DEF LibInv, LibTypeOK, LogKept, ConfigOption, OptionOf, staticVars, logVars
<1> QED
  BY <1>1, <1>2, <1>3 DEF Configure

LEMMA LibInvStep ==
  ASSUME LibInv, [LibNext]_libVars, "exit" \notin LibBeyond
  PROVE  LibInv'
<1> USE DEF LibInv, LibTypeOK, LogKept, logVars
<1>1. CASE LibSetup
  BY <1>1 DEF LibSetup
<1>2. CASE RawInitialize
  BY <1>2 DEF RawInitialize, Exiting
<1>3. CASE LibTeardown
  BY <1>3 DEF LibTeardown
<1>4. CASE TableTeardown
  BY <1>4 DEF TableTeardown
<1>5. CASE Configure
  BY <1>5, LibInvConfigure
<1>6. CASE UNCHANGED libVars
  BY <1>6 DEF libVars, staticVars
<1> QED
  BY <1>1, <1>2, <1>3, <1>4, <1>5, <1>6 DEF LibNext

LEMMA LibInvLive == LibInv => LogLive
BY DEF LibInv, LogKept, LogLive

-----------------------------------------------------------------------------
\* A step with callbacks is one of the library, or leaves it alone.
LEMMA StepOfLibrary == [BoundaryNext]_boundVars => [LibNext]_libVars
BY DEF BoundaryNext, boundVars, LibNext, UseLibrary, Exec, SetReporter, CallRow, HookReturns,
   HookThrows, ReportEnds, ExecEnds, RowReturns, RowThrows, CallHook

\* The log handlers that SQLite can call have not been freed, whatever
\* exec() and callbacks are doing while the library is configured, and at
\* exit, unless config_callbacks is destroyed before SQLite is shut down.
THEOREM LogHandlersLive ==
  ASSUME "exit" \notin LibBeyond
  PROVE  BoundarySpec => []LogLive
<1>1. BoundaryInit => LibInv
  BY LibInvInit DEF BoundaryInit
<1>2. LibInv /\ [BoundaryNext]_boundVars => LibInv'
  BY LibInvStep, StepOfLibrary
<1> QED
  BY <1>1, <1>2, LibInvLive, PTL DEF BoundarySpec

-----------------------------------------------------------------------------
(***************************************************************************)
(* The stack.  What exec() knows is what has happened in it (FrameOK); a   *)
(* callback is called by exec(), and while the row handler runs nothing    *)
(* has stopped that exec() yet (FrameFits).                                *)
(***************************************************************************)
Outcomes == Exceptions \cup {SqlError, None}
StackTyped == stack \in Seq(Frames) /\ outcome \in Outcomes

FrameOK(f) ==
  /\ f.ex = f.first
  /\ f.first # None \/ f.failed => f.stop
  /\ f.first # None => f.kind = "exec"

FrameFits(f, below) ==
  CASE f.kind = "row"    -> below.kind = "exec" /\ ~below.stop
    [] f.kind = "hook"   -> below.kind = "exec"
    [] f.kind = "report" -> below.kind = "hook"
    [] OTHER             -> TRUE

StackInv ==
  /\ StackTyped
  /\ \A i \in 1 .. Len(stack) : FrameOK(stack[i])
  /\ Len(stack) > 0 => stack[1].kind = "exec"
  /\ \A i \in 2 .. Len(stack) : FrameFits(stack[i], stack[i - 1])

\* The exec() calls under way whose row handler has thrown.
Raisers == {i \in 1 .. Len(stack) : stack[i].first # None}

LEMMA LenStack == ASSUME StackTyped PROVE Len(stack) \in Nat
BY LenProperties DEF StackTyped

LEMMA FrameTyped ==
  ASSUME NEW kind \in Kinds, NEW what \in Hooks \cup LogObjs \cup {None}
  PROVE  Frame(kind, what) \in Frames /\ (FrameOK(Frame(kind, what)))
BY DEF Frame, Frames, FrameOK

\* A frame is pushed.
LEMMA PushKeeps ==
  ASSUME StackInv, outcome' \in Outcomes, NEW f \in Frames, f.first = None, FrameOK(f),
         IF stack = <<>> THEN f.kind = "exec" ELSE FrameFits(f, stack[Len(stack)]),
         stack' = Append(stack, f)
  PROVE  StackInv' /\ Raisers' = Raisers
<1>1. Len(stack) \in Nat /\ stack \in Seq(Frames)
  BY LenStack DEF StackInv, StackTyped
<1>2. /\ stack' \in Seq(Frames) /\ Len(stack') = Len(stack) + 1
      /\ \A i \in 1 .. Len(stack) : stack'[i] = stack[i]
      /\ stack'[Len(stack) + 1] = f
  BY <1>1, AppendProperties
<1>3. stack = <<>> <=> Len(stack) = 0
  BY <1>1, EmptySeq
<1>4. \A i \in 1 .. Len(stack') : FrameOK(stack'[i])
  BY <1>1, <1>2 DEF StackInv
<1>5. stack'[1].kind = "exec"
  BY <1>1, <1>2, <1>3 DEF StackInv
<1>6. \A i \in 2 .. Len(stack') : FrameFits(stack'[i], stack'[i - 1])
  <2> SUFFICES ASSUME NEW i \in 2 .. Len(stack')
               PROVE  FrameFits(stack'[i], stack'[i - 1])
    OBVIOUS
  <2>1. CASE i \in 2 .. Len(stack)
    <3>1. i \in 1 .. Len(stack) /\ i - 1 \in 1 .. Len(stack)
      BY <1>1, <2>1
    <3> QED
      BY <1>2, <2>1, <3>1 DEF StackInv
  <2>2. CASE i = Len(stack) + 1
    <3>1. i - 1 \in 1 .. Len(stack) /\ i - 1 = Len(stack) /\ stack # <<>>
      BY <1>1, <1>3, <2>2
    <3> QED
      BY <1>2, <2>2, <3>1
  <2> QED
    BY <1>1, <1>2, <2>1, <2>2
<1>7. Raisers' = Raisers
  BY <1>1, <1>2 DEF Raisers
<1> QED
  BY <1>2, <1>4, <1>5, <1>6, <1>7 DEF StackInv, StackTyped

LEMMA PrefixSeq ==
  ASSUME NEW S, NEW s \in Seq(S), NEW d \in 0 .. Len(s)
  PROVE  /\ SubSeq(s, 1, d) \in Seq(S) /\ Len(SubSeq(s, 1, d)) = d
         /\ \A i \in 1 .. d : SubSeq(s, 1, d)[i] = s[i]
<1>1. \A i \in 1 .. d : s[i] \in S
  <2>1. Len(s) \in Nat
    BY LenProperties
  <2> QED
    BY <2>1, ElementOfSeq
<1>2. d \in Int /\ 1 \in Int
  BY LenProperties
<1>3. /\ SubSeq(s, 1, d) \in Seq(S)
      /\ Len(SubSeq(s, 1, d)) = IF 1 <= d THEN d - 1 + 1 ELSE 0
      /\ \A i \in 1 .. d - 1 + 1 : SubSeq(s, 1, d)[i] = s[1 + i - 1]
  BY <1>1, <1>2, SubSeqProperties
<1>4. d \in Nat
  BY LenProperties
<1> QED
  BY <1>3, <1>4

LEMMA PoppedSeq ==
  ASSUME StackInv, NEW n \in Nat, n <= Len(stack)
  PROVE  /\ Popped(n) \in Seq(Frames) /\ Len(Popped(n)) = Len(stack) - n
         /\ \A i \in 1 .. Len(stack) - n : Popped(n)[i] = stack[i]
<1>1. Len(stack) - n \in 0 .. Len(stack) /\ stack \in Seq(Frames)
  BY LenStack DEF StackInv, StackTyped
<1> QED
  BY <1>1, PrefixSeq DEF Popped, Depth

\* A frame is popped that is not one of a throwing callback.
LEMMA PopKeeps ==
  ASSUME StackInv, outcome' \in Outcomes, Len(stack) > 0, stack' = Popped(1)
  PROVE  StackInv' /\ Raisers' = Raisers \ {Len(stack)}
<1>1. Len(stack) \in Nat
  BY LenStack DEF StackInv
<1>2. /\ stack' \in Seq(Frames) /\ Len(stack') = Len(stack) - 1
      /\ \A i \in 1 .. Len(stack) - 1 : stack'[i] = stack[i]
  <2>1. 1 \in Nat /\ 1 <= Len(stack)
    BY <1>1
  <2> QED
    BY <2>1, PoppedSeq
<1>3. \A i \in 2 .. Len(stack') : FrameFits(stack'[i], stack'[i - 1])
  <2> SUFFICES ASSUME NEW i \in 2 .. Len(stack')
               PROVE  FrameFits(stack'[i], stack'[i - 1])
    OBVIOUS
  <2>1. i \in 1 .. Len(stack) - 1 /\ i - 1 \in 1 .. Len(stack) - 1 /\ i \in 2 .. Len(stack)
    BY <1>1, <1>2
  <2> QED
    BY <1>2, <2>1 DEF StackInv
<1>4. \A i \in 1 .. Len(stack') : FrameOK(stack'[i])
  BY <1>1, <1>2 DEF StackInv
<1>5. Len(stack') > 0 => stack'[1].kind = "exec"
  BY <1>1, <1>2 DEF StackInv
<1>6. Raisers' = Raisers \ {Len(stack)}
  BY <1>1, <1>2 DEF Raisers
<1> QED
  BY <1>2, <1>3, <1>4, <1>5, <1>6 DEF StackInv, StackTyped

\* The n frames of a callback are popped, and the frame of exec() below them
\* becomes f.
LEMMA ResumeKeeps ==
  ASSUME StackInv, outcome' \in Outcomes, NEW n \in 1 .. 2, Len(stack) > n,
         \A i \in Len(stack) - n + 1 .. Len(stack) : stack[i].kind # "exec",
         NEW f \in Frames, FrameOK(f), f.kind = "exec",
         stack[Len(stack) - n].kind = "exec", stack' = Resumed(n, f)
  PROVE  /\ StackInv'
         /\ Raisers' = IF f.first = None THEN Raisers \ {Len(stack) - n}
                                         ELSE Raisers \cup {Len(stack) - n}
<1> DEFINE d == Len(stack) - n
<1>1. Len(stack) \in Nat /\ d \in Nat /\ d > 0
  BY LenStack DEF StackInv
<1>2. /\ Popped(n) \in Seq(Frames) /\ Len(Popped(n)) = d
      /\ \A i \in 1 .. d : Popped(n)[i] = stack[i]
  <2>1. n \in Nat /\ n <= Len(stack)
    BY <1>1
  <2> QED
    BY <2>1, PoppedSeq
<1>3. stack' = [Popped(n) EXCEPT ![d] = f]
  BY DEF Resumed, Depth
<1>4. /\ stack' \in Seq(Frames) /\ Len(stack') = d
      /\ \A i \in 1 .. d : stack'[i] = IF i = d THEN f ELSE stack[i]
  <2>1. d \in 1 .. Len(Popped(n))
    BY <1>1, <1>2
  <2>2. /\ [Popped(n) EXCEPT ![d] = f] \in Seq(Frames)
        /\ Len([Popped(n) EXCEPT ![d] = f]) = Len(Popped(n))
        /\ \A j \in 1 .. Len(Popped(n)) :
             [Popped(n) EXCEPT ![d] = f][j] = IF j = d THEN f ELSE Popped(n)[j]
    BY <1>2, <2>1, ExceptSeq
  <2> HIDE DEF d
  <2> QED
    BY <1>2, <1>3, <2>2
<1>5. \A i \in 2 .. d : FrameFits(stack'[i], stack'[i - 1])
  <2> SUFFICES ASSUME NEW i \in 2 .. d
               PROVE  FrameFits(stack'[i], stack'[i - 1])
    OBVIOUS
  <2>1. i \in 1 .. d /\ i - 1 \in 1 .. d /\ i \in 2 .. Len(stack) /\ i - 1 # d
    BY <1>1
  <2>2. stack'[i - 1] = stack[i - 1] /\ FrameFits(stack[i], stack[i - 1])
    BY <1>4, <2>1 DEF StackInv
  <2>3. CASE i = d
    BY <1>4, <2>1, <2>3 DEF FrameFits
  <2>4. CASE i # d
    BY <1>4, <2>1, <2>2, <2>4
  <2> QED
    BY <2>3, <2>4
<1>6. \A i \in 1 .. d : FrameOK(stack'[i])
  BY <1>1, <1>4 DEF StackInv
<1>7. stack'[1].kind = "exec"
  BY <1>1, <1>4 DEF StackInv
<1>8. \A i \in d + 1 .. Len(stack) : stack[i].first = None
  BY <1>1 DEF StackInv, FrameOK
<1>9. Raisers' = IF f.first = None THEN Raisers \ {d} ELSE Raisers \cup {d}
  BY <1>1, <1>4, <1>8 DEF Raisers
<1> QED
  BY <1>4, <1>5, <1>6, <1>7, <1>9 DEF StackInv, StackTyped

\* What is below a callback.
LEMMA BelowCallback ==
  ASSUME StackInv, Len(stack) > 0, stack[Len(stack)].kind \in {"row", "hook"}
  PROVE  /\ Len(stack) > 1 /\ stack[Len(stack) - 1] \in Frames
         /\ stack[Len(stack) - 1].kind = "exec" /\ FrameOK(stack[Len(stack) - 1])
         /\ stack[Len(stack)].kind = "row" => ~stack[Len(stack) - 1].stop
<1>1. Len(stack) \in Nat
  BY LenStack DEF StackInv
<1>2. Len(stack) > 1
  BY <1>1 DEF StackInv
<1>3. Len(stack) - 1 \in 1 .. Len(stack) /\ Len(stack) \in 2 .. Len(stack)
  BY <1>1, <1>2
<1>4. FrameFits(stack[Len(stack)], stack[Len(stack) - 1])
  BY <1>3 DEF StackInv
<1>5. stack[Len(stack) - 1] \in Frames
  BY <1>3, ElementOfSeq DEF StackInv, StackTyped
<1> QED
  BY <1>2, <1>3, <1>4, <1>5 DEF StackInv, FrameFits

LEMMA BelowReport ==
  ASSUME StackInv, Len(stack) > 0, stack[Len(stack)].kind = "report"
  PROVE  /\ Len(stack) > 2 /\ stack[Len(stack) - 2] \in Frames
         /\ stack[Len(stack) - 1].kind = "hook"
         /\ stack[Len(stack) - 2].kind = "exec" /\ FrameOK(stack[Len(stack) - 2])
<1>1. Len(stack) \in Nat
  BY LenStack DEF StackInv
<1>2. Len(stack) > 1
  BY <1>1 DEF StackInv
<1>3. Len(stack) - 1 \in 1 .. Len(stack) /\ Len(stack) \in 2 .. Len(stack)
  BY <1>1, <1>2
<1>4. stack[Len(stack) - 1].kind = "hook"
  BY <1>3 DEF StackInv, FrameFits
<1>5. Len(stack) > 2
  BY <1>1, <1>2, <1>4 DEF StackInv
<1>6. Len(stack) - 2 \in 1 .. Len(stack) /\ Len(stack) - 1 \in 2 .. Len(stack)
  BY <1>1, <1>5
<1>7. FrameFits(stack[Len(stack) - 1], stack[Len(stack) - 1 - 1])
  BY <1>6 DEF StackInv
<1>8. Len(stack) - 1 - 1 = Len(stack) - 2
  BY <1>1
<1>9. stack[Len(stack) - 2] \in Frames
  BY <1>6, ElementOfSeq DEF StackInv, StackTyped
<1> QED
  BY <1>4, <1>5, <1>6, <1>7, <1>8, <1>9 DEF StackInv, FrameFits

\* As many exceptions of row handlers were caught as messages are lost and
\* exec() calls are yet to lose one.
CountInv == messages \in Nat /\ caught \in Nat /\ caught = messages + Cardinality(Raisers)

LEMMA RaisersFinite == ASSUME StackInv PROVE IsFiniteSet(Raisers) /\ Cardinality(Raisers) \in Nat
<1>1. 1 \in Int /\ Len(stack) \in Int
  BY LenStack DEF StackInv
<1>2. IsFiniteSet(1 .. Len(stack))
  BY <1>1, FS_Interval
<1>3. Raisers \in SUBSET (1 .. Len(stack))
  BY DEF Raisers
<1>4. IsFiniteSet(Raisers)
  BY <1>2, <1>3, FS_Subset
<1> QED
  BY <1>4, FS_CardinalityType

LEMMA CountKept ==
  ASSUME CountInv, UNCHANGED <<messages, caught>>, Raisers' = Raisers
  PROVE  CountInv'
BY DEF CountInv

LEMMA AfterFailureKeeps ==
  ASSUME StackInv, CountInv, UNCHANGED <<outcome, messages, caught>>, NEW n \in 1 .. 2,
         Len(stack) > n, stack[Len(stack) - n] \in Frames, FrameOK(stack[Len(stack) - n]),
         stack[Len(stack) - n].kind = "exec",
         \A i \in Len(stack) - n + 1 .. Len(stack) : stack[i].kind # "exec",
         stack' = AfterFailure(n)
  PROVE  StackInv' /\ CountInv'
<1> DEFINE old == stack[Len(stack) - n]
           h == stack[Len(stack) - n + 1].what
           f == [old EXCEPT !.stop = @ \/ FailsSql(h),
                            !.failed = @ \/ h \in {"commit", "wal", "function"}]
<1>1. stack' = Resumed(n, f)
  BY DEF AfterFailure, Depth
<1>2. old \in Frames /\ old.stop \in BOOLEAN /\ old.failed \in BOOLEAN
  BY DEF Frames
<1>3. /\ f \in Frames /\ f.kind = old.kind /\ f.first = old.first /\ f.ex = old.ex
      /\ f.stop = (old.stop \/ FailsSql(h))
      /\ f.failed = (old.failed \/ h \in {"commit", "wal", "function"})
  BY <1>2 DEF Frames, FailsSql
<1>4. FrameOK(f)
  BY <1>2, <1>3 DEF FrameOK, FailsSql
<1>5. Len(stack) - n \in 1 .. Len(stack) /\ outcome' \in Outcomes
  BY LenStack DEF StackInv, StackTyped
<1>6. f.kind = "exec"
  BY <1>3
<1> HIDE DEF f
<1>7. StackInv' /\ Raisers' = IF f.first = None THEN Raisers \ {Len(stack) - n}
                                                ELSE Raisers \cup {Len(stack) - n}
  BY <1>1, <1>3, <1>4, <1>5, <1>6, ResumeKeeps
<1>8. Raisers' = Raisers
  BY <1>3, <1>5, <1>7 DEF Raisers
<1> QED
  BY <1>7, <1>8, CountKept

LEMMA StackInvStep ==
  ASSUME LibTypeOK, StackInv, CountInv, [BoundaryNext]_boundVars
  PROVE  StackInv' /\ CountInv'
<1> DEFINE len == Len(stack)
<1>1. len \in Nat /\ (stack = <<>> <=> len = 0) /\ stack \in Seq(Frames)
  BY LenStack, EmptySeq DEF StackInv, StackTyped
<1>2. outcome \in Outcomes
  BY DEF StackInv, StackTyped
<1>3. ASSUME Exec  PROVE StackInv' /\ CountInv'
  <2>1. /\ Frame("exec", None) \in Frames /\ FrameOK(Frame("exec", None))
        /\ Frame("exec", None).kind = "exec" /\ Frame("exec", None).first = None
    BY FrameTyped DEF Frame, Kinds
  <2>2. stack' = Append(stack, Frame("exec", None)) /\ outcome' \in Outcomes
    BY <1>3 DEF Exec, Push, Outcomes
  <2>3. FrameFits(Frame("exec", None), stack[len])
    BY DEF FrameFits, Frame
  <2>4. StackInv' /\ Raisers' = Raisers
    BY <2>1, <2>2, <2>3, PushKeeps
  <2> QED
    BY <1>3, <2>4, CountKept DEF Exec
<1>4. ASSUME NEW f \in Frames, f.first = None, FrameOK(f), f.kind # "exec",
             len > 0, FrameFits(f, stack[len]), stack' = Append(stack, f),
             UNCHANGED <<outcome, messages, caught>>
      PROVE  StackInv' /\ CountInv'
  <2>1. stack # <<>> /\ outcome' \in Outcomes
    BY <1>1, <1>2, <1>4
  <2>2. StackInv' /\ Raisers' = Raisers
    BY <1>4, <2>1, PushKeeps
  <2> QED
    BY <1>4, <2>2, CountKept
<1>5. ASSUME CallRow  PROVE StackInv' /\ CountInv'
  <2>1. /\ Frame("row", None) \in Frames /\ FrameOK(Frame("row", None))
        /\ Frame("row", None).kind = "row" /\ Frame("row", None).first = None
    BY FrameTyped DEF Frame, Kinds
  <2>2. FrameFits(Frame("row", None), stack[len]) /\ len > 0
    BY <1>5, <2>1 DEF CallRow, In, Depth, FrameFits
  <2> QED
    BY <1>4, <1>5, <2>1, <2>2 DEF CallRow, Push
<1>6. ASSUME NEW h \in Hooks, CallHook(h)  PROVE StackInv' /\ CountInv'
  <2>1. PICK what \in Hooks \cup LogObjs \cup {None} : stack' = Append(stack, Frame("hook", what))
    BY <1>6 DEF CallHook, Push, LibTypeOK
  <2>2. /\ Frame("hook", what) \in Frames /\ FrameOK(Frame("hook", what))
        /\ Frame("hook", what).kind = "hook" /\ Frame("hook", what).first = None
    BY FrameTyped DEF Frame, Kinds
  <2>3. FrameFits(Frame("hook", what), stack[len]) /\ len > 0
    BY <1>6, <2>2 DEF CallHook, In, Depth, FrameFits
  <2> QED
    BY <1>4, <1>6, <2>1, <2>2, <2>3 DEF CallHook
<1>7. ASSUME NEW f \in Frames, FrameOK(f), f.kind = "exec", In("row"), stack' = Resumed(1, f),
             UNCHANGED <<outcome, messages>>,
             caught' = IF f.first = None THEN caught ELSE caught + 1
      PROVE  StackInv' /\ CountInv'
  <2>1. len > 0 /\ stack[len].kind = "row"
    BY <1>7 DEF In, Depth
  <2>2. /\ len > 1 /\ stack[len - 1].kind = "exec" /\ stack[len - 1].first = None
    BY <2>1, BelowCallback DEF FrameOK
  <2>3. \A i \in len - 1 + 1 .. len : stack[i].kind # "exec"
    BY <1>1, <2>1
  <2>4. outcome' \in Outcomes /\ 1 \in 1 .. 2
    BY <1>2, <1>7
  <2>5. StackInv' /\ Raisers' = IF f.first = None THEN Raisers \ {len - 1}
                                                  ELSE Raisers \cup {len - 1}
    BY <1>7, <2>2, <2>3, <2>4, ResumeKeeps
  <2>6. len - 1 \notin Raisers
    BY <2>2 DEF Raisers
  <2>7. CASE f.first = None
    BY <1>7, <2>5, <2>6, <2>7, CountKept
  <2>8. CASE f.first # None
    <3>1. Cardinality(Raisers') = Cardinality(Raisers) + 1
      BY <2>5, <2>6, <2>8, RaisersFinite, FS_AddElement
    <3> QED
      BY <1>7, <2>5, <2>8, <3>1, RaisersFinite DEF CountInv
  <2> QED
    BY <2>7, <2>8
<1>8. ASSUME NEW result \in BOOLEAN, RowReturns(result)  PROVE StackInv' /\ CountInv'
  <2> DEFINE old == stack[len - 1]
             f == [old EXCEPT !.stop = result]
  <2>1. old \in Frames /\ FrameOK(old) /\ old.kind = "exec" /\ ~old.stop
    BY <1>8, BelowCallback DEF RowReturns, In, Depth
  <2>2. f \in Frames /\ f.first = old.first /\ f.kind = old.kind /\ f.ex = old.ex
        /\ f.failed = old.failed
    BY <2>1 DEF Frames
  <2>3. FrameOK(f) /\ f.first = None
    BY <2>1, <2>2 DEF FrameOK
  <2>4. /\ In("row") /\ stack' = Resumed(1, f) /\ UNCHANGED <<outcome, messages, caught>>
    BY <1>8 DEF RowReturns, Depth
  <2> HIDE DEF f
  <2> QED
    BY <1>7, <2>1, <2>2, <2>3, <2>4
<1>9. ASSUME NEW e \in Exceptions \cup {outcome}, e # None, RowThrows(e)
      PROVE  StackInv' /\ CountInv'
  <2> DEFINE old == stack[len - 1]
             f == [old EXCEPT !.stop = StopAfterThrow, !.ex = e,
                              !.first = IF @ = None THEN e ELSE @]
  <2>1. old \in Frames /\ FrameOK(old) /\ old.kind = "exec" /\ ~old.stop
    BY <1>9, BelowCallback DEF RowThrows, In, Depth
  <2>2. old.first = None
    BY <2>1 DEF FrameOK
  <2>3. f \in Frames /\ f.first = e /\ f.kind = old.kind /\ f.ex = e /\ f.stop
    BY <1>2, <2>1, <2>2 DEF Frames, Outcomes, StopAfterThrow
  <2>4. FrameOK(f) /\ f.first # None /\ f.kind = "exec"
    BY <1>9, <2>1, <2>3 DEF FrameOK
  <2>5. /\ In("row") /\ stack' = Resumed(1, f) /\ UNCHANGED <<outcome, messages>>
        /\ caught' = caught + 1
    BY <1>9, <2>2 DEF RowThrows, Depth
  <2> HIDE DEF f
  <2> QED
    BY <1>7, <2>3, <2>4, <2>5
<1>10. ASSUME In("hook"), stack' = Popped(1), UNCHANGED <<outcome, messages, caught>>
       PROVE  StackInv' /\ CountInv'
  <2>1. len > 0 /\ stack[len].kind = "hook" /\ outcome' \in Outcomes
    BY <1>2, <1>10 DEF In, Depth
  <2>2. StackInv' /\ Raisers' = Raisers \ {len}
    BY <1>10, <2>1, PopKeeps
  <2>3. len \notin Raisers
    BY <1>1, <2>1 DEF Raisers, StackInv, FrameOK
  <2> QED
    BY <1>10, <2>2, <2>3, CountKept
<1>11. ASSUME HookThrows  PROVE StackInv' /\ CountInv'
  <2>1. len > 0 /\ stack[len].kind = "hook"
    BY <1>11 DEF HookThrows, In, Depth
  <2>2. CASE Push(Frame("report", None))
    <3>1. /\ Frame("report", None) \in Frames /\ FrameOK(Frame("report", None))
          /\ Frame("report", None).kind = "report" /\ Frame("report", None).first = None
      BY FrameTyped DEF Frame, Kinds
    <3>2. FrameFits(Frame("report", None), stack[len])
      BY <2>1, <3>1 DEF FrameFits
    <3> QED
      BY <1>4, <1>11, <2>1, <2>2, <3>1, <3>2 DEF HookThrows, Push
  <2>3. CASE stack' = AfterFailure(1)
    <3>1. \A i \in len - 1 + 1 .. len : stack[i].kind # "exec"
      BY <1>1, <2>1
    <3>2. 1 \in 1 .. 2
      OBVIOUS
    <3> QED
      BY <1>11, <2>1, <2>3, <3>1, <3>2, BelowCallback, AfterFailureKeeps DEF HookThrows
  <2> QED
    BY <1>11, <2>2, <2>3 DEF HookThrows
<1>12. ASSUME ReportEnds  PROVE StackInv' /\ CountInv'
  <2>1. len > 0 /\ stack[len].kind = "report"
    BY <1>12 DEF ReportEnds, In, Depth
  <2>2. \A i \in len - 2 + 1 .. len : stack[i].kind # "exec"
    <3>1. \A i \in len - 2 + 1 .. len : i = len - 1 \/ i = len
      BY <1>1
    <3> QED
      BY <2>1, <3>1, BelowReport
  <2>3. 2 \in 1 .. 2
    OBVIOUS
  <2> QED
    BY <1>12, <2>1, <2>2, <2>3, BelowReport, AfterFailureKeeps DEF ReportEnds
<1>13. ASSUME ExecEnds  PROVE StackInv' /\ CountInv'
  <2> DEFINE f == stack[len]
  <2>1. len > 0 /\ f.kind = "exec" /\ len \in 1 .. len
    BY <1>1, <1>13 DEF ExecEnds, In, Depth
  <2>2. FrameOK(f) /\ f \in Frames
    BY <1>1, <2>1, ElementOfSeq DEF StackInv
  <2>3. PICK rv \in ExecCodes(f) :
          /\ outcome' = Thrown(f, rv)
          /\ messages' = messages + (IF rv = "ok" \/ FreesMessage(f, rv) THEN 0 ELSE 1)
    BY <1>13 DEF ExecEnds, Depth
  <2>4. stack' = Popped(1) /\ caught' = caught
    BY <1>13 DEF ExecEnds
  <2>5. outcome' \in Outcomes
    BY <2>2, <2>3 DEF Thrown, Outcomes, Frames
  <2>6. StackInv' /\ Raisers' = Raisers \ {len}
    BY <2>1, <2>4, <2>5, PopKeeps
  <2>7. CASE f.first = None
    <3>1. len \notin Raisers
      BY <2>7 DEF Raisers
    <3>2. messages' = messages
      BY <2>2, <2>3, <2>7 DEF FrameOK, FreesMessage, CountInv
    <3> QED
      BY <2>4, <2>6, <3>1, <3>2, CountKept
  <2>8. CASE f.first # None
    <3>1. len \in Raisers
      BY <2>1, <2>8 DEF Raisers
    <3>2. messages' = messages + 1
      BY <2>2, <2>3, <2>8 DEF FrameOK, FreesMessage, ExecCodes
    <3>3. Cardinality(Raisers') = Cardinality(Raisers) - 1
      BY <2>6, <3>1, RaisersFinite, FS_RemoveElement
    <3> QED
      BY <2>4, <2>6, <3>2, <3>3, RaisersFinite DEF CountInv
  <2> QED
    BY <2>6, <2>7, <2>8
<1>14. ASSUME UNCHANGED <<stack, outcome, messages, caught>>  PROVE StackInv' /\ CountInv'
  BY <1>14 DEF StackInv, StackTyped, CountInv, Raisers
<1> QED
  BY <1>3, <1>5, <1>6, <1>8, <1>9, <1>10, <1>11, <1>12, <1>13, <1>14
  DEF BoundaryNext, boundVars, stackVars, SetReporter, UseLibrary, HookReturns

LEMMA LibTypeStep == ASSUME LibTypeOK, [LibNext]_libVars PROVE LibTypeOK'
<1> USE DEF LibTypeOK
<1>1. CASE LibSetup \/ RawInitialize \/ LibTeardown \/ TableTeardown
  BY <1>1 DEF LibSetup, RawInitialize, LibTeardown, TableTeardown, logVars
<1>2. CASE \E k \in LogKinds : ConfigLogOff(k) \/ \E o \in LogObjs : ConfigLog(k, o)
  BY <1>2 DEF ConfigLogOff, ConfigLog, StoreLogHandler, staticVars
<1>3. CASE \E f \in Options, value \in Settings : ConfigOption(f, value)
  BY <1>3, OptionsAssumption DEF ConfigOption, OptionOf, staticVars, logVars
<1>4. CASE UNCHANGED libVars
  BY <1>4 DEF libVars, staticVars, logVars
<1> QED
  BY <1>1, <1>2, <1>3, <1>4 DEF LibNext, Configure

LEMMA StackInvAlways == BoundarySpec => [](LibTypeOK /\ StackInv /\ CountInv)
<1>1. BoundaryInit => LibTypeOK /\ StackInv /\ CountInv
  <2> SUFFICES ASSUME BoundaryInit PROVE LibTypeOK /\ StackInv /\ CountInv
    OBVIOUS
  <2>1. stack \in Seq(Frames) /\ Len(stack) = 0
    BY EmptySeq DEF BoundaryInit
  <2>2. Raisers = {}
    BY <2>1 DEF Raisers
  <2>3. StackInv
    BY <2>1 DEF BoundaryInit, StackInv, StackTyped, Outcomes
  <2> QED
    BY <2>2, <2>3, LibInvInit, FS_EmptySet DEF BoundaryInit, LibInv, CountInv
<1>2. LibTypeOK /\ StackInv /\ CountInv /\ [BoundaryNext]_boundVars
        => (LibTypeOK /\ StackInv /\ CountInv)'
  BY StackInvStep, LibTypeStep, StepOfLibrary
<1> QED
  BY <1>1, <1>2, PTL DEF BoundarySpec

\* However exec() calls and callbacks are nested, exec() throws the first
\* exception of its own row handler, if there was one, and an error if
\* another callback has failed it.
THEOREM ExecIsTruthful == BoundarySpec => ExecTellsCaller
<1> DEFINE Told == ExecEnds => LET f == stack[Depth] IN
                     /\ f.first # None => outcome' = f.first
                     /\ f.first = None /\ f.failed => outcome' = SqlError
<1>1. StackInv /\ [BoundaryNext]_boundVars => [Told]_boundVars
  <2> SUFFICES ASSUME StackInv, ExecEnds  PROVE Told
    OBVIOUS
  <2>1. Depth \in 1 .. Len(stack)
    BY LenStack DEF ExecEnds, In, Depth, StackInv
  <2>2. FrameOK(stack[Depth])
    BY <2>1 DEF StackInv
  <2>3. PICK rv \in ExecCodes(stack[Depth]) : outcome' = Thrown(stack[Depth], rv)
    BY DEF ExecEnds
  <2> QED
    BY <2>2, <2>3 DEF FrameOK, Thrown, ExecCodes
<1> QED
  BY <1>1, StackInvAlways, PTL DEF BoundarySpec, ExecTellsCaller

\* When no exec() runs, exactly the messages of those are left that threw an
\* exception of their row handler (connection.cpp:307).
THEOREM MessagesAreFreed == BoundarySpec => []MessagesFreed
<1>1. StackInv /\ CountInv => MessagesFreed
  <2> SUFFICES ASSUME StackInv, CountInv, stack = <<>>  PROVE messages = caught
    BY DEF MessagesFreed
  <2>1. Raisers = {}
    BY EmptySeq DEF Raisers
  <2> QED
    BY <2>1, FS_EmptySet DEF CountInv
<1> QED
  BY <1>1, StackInvAlways, PTL

-----------------------------------------------------------------------------
(***************************************************************************)
(* The types of the whole: those of the library and of the stack, and that *)
(* no counter passes its bound.                                            *)
(***************************************************************************)
BoundsKept == Len(stack) <= MaxDepth /\ reporter \in BOOLEAN /\ caught \in 0 .. MaxLeaks

LEMMA BoundsStep ==
  ASSUME StackInv, CountInv, BoundsKept, [BoundaryNext]_boundVars
  PROVE  BoundsKept'
<1>1. Len(stack) \in Nat /\ stack \in Seq(Frames) /\ MaxDepth \in Nat /\ MaxLeaks \in Nat
  BY LenStack, BoundsAssumption DEF StackInv, StackTyped
<1>2. ASSUME NEW f, Push(f)  PROVE Len(stack') <= MaxDepth
  <2>1. Len(stack') = Len(stack) + 1 /\ Len(stack) < MaxDepth
    BY <1>1, <1>2 DEF Push, Depth
  <2> QED
    BY <1>1, <2>1
<1>3. ASSUME NEW n \in 1 .. 2, Len(stack) > n, NEW f, stack' = Resumed(n, f) \/ stack' = Popped(n)
      PROVE  Len(stack') <= MaxDepth
  <2>1. n \in Nat /\ n <= Len(stack)
    BY <1>1, <1>3
  <2>2. Popped(n) \in Seq(Frames) /\ Len(Popped(n)) = Len(stack) - n
    BY <2>1, PoppedSeq
  <2>3. Len(Resumed(n, f)) = Len(Popped(n))
    BY <2>2 DEF Resumed
  <2> QED
    BY <1>1, <1>3, <2>1, <2>2, <2>3 DEF BoundsKept
<1>4. ASSUME Len(stack) > 0, stack' = Popped(1)  PROVE Len(stack') <= MaxDepth
  <2>1. Len(Popped(1)) = Len(stack) - 1
    BY <1>1, <1>4, PoppedSeq
  <2> QED
    BY <1>1, <1>4, <2>1 DEF BoundsKept
<1>5. CASE Exec \/ CallRow \/ \E h \in Hooks : CallHook(h)
  BY <1>2, <1>5 DEF Exec, CallRow, CallHook, BoundsKept
<1>6. ASSUME (\E result \in BOOLEAN : RowReturns(result)) \/ \E e : RowThrows(e)
      PROVE  BoundsKept'
  <2>1. Len(stack) > 0 /\ stack[Len(stack)].kind = "row"
    BY <1>6 DEF RowReturns, RowThrows, In, Depth
  <2>2. Len(stack) > 1 /\ 1 \in 1 .. 2
    BY <2>1, BelowCallback
  <2>3. Len(stack') <= MaxDepth
    BY <1>3, <1>6, <2>2 DEF RowReturns, RowThrows
  <2>4. caught' \in 0 .. MaxLeaks /\ reporter' = reporter
    <3>1. CASE \E result \in BOOLEAN : RowReturns(result)
      BY <3>1 DEF RowReturns, BoundsKept
    <3>2. CASE \E e : RowThrows(e)
      <4>1. /\ caught < MaxLeaks /\ reporter' = reporter
            /\ caught' = caught + (IF stack[Depth - 1].first = None THEN 1 ELSE 0)
        BY <3>2 DEF RowThrows
      <4>2. caught' = caught \/ caught' = caught + 1
        BY <4>1 DEF CountInv
      <4> QED
        BY <1>1, <4>1, <4>2 DEF BoundsKept
    <3> QED
      BY <1>6, <3>1, <3>2
  <2> QED
    BY <2>3, <2>4 DEF BoundsKept
<1>7. CASE HookReturns \/ ExecEnds
  BY <1>4, <1>7 DEF HookReturns, ExecEnds, In, Depth, BoundsKept
<1>8. CASE HookThrows
  <2>1. Len(stack) > 1 /\ 1 \in 1 .. 2
    BY <1>8, BelowCallback DEF HookThrows, In, Depth
  <2>2. Len(stack') <= MaxDepth
    BY <1>2, <1>3, <1>8, <2>1 DEF HookThrows, AfterFailure
  <2> QED
    BY <1>8, <2>2 DEF HookThrows, BoundsKept
<1>9. CASE ReportEnds
  <2>1. Len(stack) > 2 /\ 2 \in 1 .. 2
    BY <1>9, BelowReport DEF ReportEnds, In, Depth
  <2>2. Len(stack') <= MaxDepth
    BY <1>3, <1>9, <2>1 DEF ReportEnds, AfterFailure
  <2> QED
    BY <1>9, <2>2 DEF ReportEnds, BoundsKept
<1>10. CASE SetReporter \/ UseLibrary \/ UNCHANGED boundVars
  BY <1>10 DEF SetReporter, UseLibrary, stackVars, boundVars, BoundsKept
<1> QED
  BY <1>5, <1>6, <1>7, <1>8, <1>9, <1>10 DEF BoundaryNext

\* The types, whatever exec() and the callbacks do: no more error messages are
\* lost than exceptions of row handlers were caught.
THEOREM BoundaryTypes == BoundarySpec => []BoundaryTypeOK
<1> DEFINE TInv == LibTypeOK /\ StackInv /\ CountInv
<1>1. BoundaryInit => BoundsKept
  BY BoundsAssumption, EmptySeq DEF BoundaryInit, BoundsKept
<1>2. TInv /\ BoundsKept /\ [BoundaryNext]_boundVars => BoundsKept'
  BY BoundsStep
<1>3. TInv /\ BoundsKept => BoundaryTypeOK
  <2> SUFFICES ASSUME TInv, BoundsKept PROVE BoundaryTypeOK
    OBVIOUS
  <2>1. messages \in 0 .. MaxLeaks
    BY RaisersFinite, BoundsAssumption DEF CountInv, BoundsKept
  <2> QED
    BY <2>1 DEF BoundaryTypeOK, BoundsKept, StackInv, StackTyped, Outcomes
<1> QED
  BY <1>1, <1>2, <1>3, StackInvAlways, PTL DEF BoundarySpec

-----------------------------------------------------------------------------
(***************************************************************************)
(* The log handlers implement the callable store.  A log handler only runs *)
(* in an exec(), which needs the library, and while it runs nothing is     *)
(* configured (UseInv); so whatever frees one finds that none is running.  *)
(***************************************************************************)
UseInv ==
  /\ stack # <<>> => setup = "alive"
  /\ \A i \in 1 .. Len(stack) : stack[i].kind # "hook" => stack[i].what \notin LogObjs

\* A frame is pushed.
LEMMA PushUses ==
  ASSUME StackInv, UseInv, NEW f \in Frames, f.kind # "hook" => f.what \notin LogObjs,
         setup = "alive", setup' = setup, stack' = Append(stack, f)
  PROVE  UseInv' /\ LogInUse' = LogInUse \cup ({f.what} \cap LogObjs)
<1>1. Len(stack) \in Nat /\ stack \in Seq(Frames)
  BY LenStack DEF StackInv, StackTyped
<1>2. /\ Len(stack') = Len(stack) + 1
      /\ \A i \in 1 .. Len(stack) : stack'[i] = stack[i]
      /\ stack'[Len(stack) + 1] = f
  BY <1>1, AppendProperties
<1>3. UseInv'
  BY <1>1, <1>2 DEF UseInv
<1>4. LogInUse' = LogInUse \cup ({f.what} \cap LogObjs)
  BY <1>1, <1>2 DEF LogInUse, Depth
<1> QED
  BY <1>3, <1>4

\* Calls come back, of which at most one, the outermost, was of a log handler.
CallsEnd == LogInUse' = LogInUse \/ \E o \in LogInUse : LogInUse' = LogInUse \ {o}

LEMMA FewerUses ==
  ASSUME StackInv, UseInv, setup' = setup, NEW d \in 0 .. Len(stack),
         Len(stack') = d, stack' \in Seq(Frames),
         \A i \in 1 .. d : stack'[i].what = stack[i].what /\ stack'[i].kind = stack[i].kind,
         \A i \in d + 2 .. Len(stack) : stack[i].kind # "hook"
  PROVE  UseInv' /\ CallsEnd
<1>1. Len(stack) \in Nat
  BY LenStack DEF StackInv
<1>2. UseInv'
  <2>1. stack' # <<>> => stack # <<>>
    BY <1>1, EmptySeq DEF StackInv, StackTyped
  <2> QED
    BY <1>1, <2>1 DEF UseInv
<1>3. LogInUse' = {o \in LogObjs : \E i \in 1 .. d : stack[i].what = o}
  BY DEF LogInUse, Depth
<1>4. CASE d = Len(stack)
  BY <1>2, <1>3, <1>4 DEF CallsEnd, LogInUse, Depth
<1>5. CASE d # Len(stack)
  <2> DEFINE o == stack[d + 1].what
  <2>1. \A i \in 1 .. Len(stack) : i \in 1 .. d \/ i = d + 1 \/ stack[i].what \notin LogObjs
    BY <1>1 DEF UseInv
  <2>2. d + 1 \in 1 .. Len(stack)
    BY <1>1, <1>5
  <2>3. LogInUse = LogInUse' \cup ({o} \cap LogObjs)
    BY <1>1, <1>3, <2>1, <2>2 DEF LogInUse, Depth
  <2> HIDE DEF o
  <2>4. LogInUse' = LogInUse \/ (o \in LogInUse /\ LogInUse' = LogInUse \ {o})
    BY <2>3
  <2> QED
    BY <1>2, <2>4 DEF CallsEnd
<1> QED
  BY <1>4, <1>5

LEMMA PoppedUses ==
  ASSUME StackInv, UseInv, setup' = setup, Len(stack) > 0, stack' = Popped(1)
  PROVE  UseInv' /\ CallsEnd
<1> DEFINE d == Len(stack) - 1
<1>1. Len(stack) \in Nat /\ d \in 0 .. Len(stack)
  BY LenStack DEF StackInv
<1>2. stack' \in Seq(Frames) /\ Len(stack') = d /\ \A i \in 1 .. d : stack'[i] = stack[i]
  BY <1>1, PoppedSeq
<1>3. \A i \in d + 2 .. Len(stack) : stack[i].kind # "hook"
  BY <1>1
<1>4. \A i \in 1 .. d : stack'[i].what = stack[i].what /\ stack'[i].kind = stack[i].kind
  BY <1>2
<1> HIDE DEF d
<1> QED
  BY <1>1, <1>2, <1>3, <1>4, FewerUses

LEMMA ResumedUses ==
  ASSUME StackInv, UseInv, setup' = setup, NEW n \in 1 .. 2, Len(stack) > n,
         n = 2 => stack[Len(stack)].kind # "hook",
         NEW f \in Frames, f.what = stack[Len(stack) - n].what,
         f.kind = stack[Len(stack) - n].kind, stack' = Resumed(n, f)
  PROVE  UseInv' /\ CallsEnd
<1> DEFINE d == Len(stack) - n
<1>1. Len(stack) \in Nat /\ d \in 0 .. Len(stack) /\ d > 0
  BY LenStack DEF StackInv
<1>2. Popped(n) \in Seq(Frames) /\ Len(Popped(n)) = d /\ \A i \in 1 .. d : Popped(n)[i] = stack[i]
  BY <1>1, PoppedSeq
<1>3. /\ stack' \in Seq(Frames) /\ Len(stack') = d
      /\ \A i \in 1 .. d : stack'[i] = IF i = d THEN f ELSE stack[i]
  <2>1. stack' = [Popped(n) EXCEPT ![d] = f]
    BY DEF Resumed, Depth
  <2>2. d \in 1 .. Len(Popped(n))
    BY <1>1, <1>2
  <2> HIDE DEF d
  <2>3. /\ [Popped(n) EXCEPT ![d] = f] \in Seq(Frames)
        /\ Len([Popped(n) EXCEPT ![d] = f]) = Len(Popped(n))
        /\ \A j \in 1 .. Len(Popped(n)) :
             [Popped(n) EXCEPT ![d] = f][j] = IF j = d THEN f ELSE Popped(n)[j]
    BY <1>2, <2>2, ExceptSeq
  <2> QED
    BY <1>2, <2>1, <2>3
<1>4. \A i \in d + 2 .. Len(stack) : stack[i].kind # "hook"
  <2>1. \A i \in d + 2 .. Len(stack) : n = 2 /\ i = Len(stack)
    BY <1>1
  <2> QED
    BY <2>1
<1>5. \A i \in 1 .. d : stack'[i].what = stack[i].what /\ stack'[i].kind = stack[i].kind
  BY <1>3
<1> HIDE DEF d
<1> QED
  BY <1>1, <1>3, <1>4, <1>5, FewerUses

\* A callback that throws is left.
LEMMA FailureUses ==
  ASSUME StackInv, UseInv, setup' = setup, NEW n \in 1 .. 2, Len(stack) > n,
         stack[Len(stack) - n] \in Frames,
         n = 2 => stack[Len(stack)].kind # "hook", stack' = AfterFailure(n)
  PROVE  UseInv' /\ CallsEnd
<1> DEFINE old == stack[Len(stack) - n]
           h == stack[Len(stack) - n + 1].what
           f == [old EXCEPT !.stop = @ \/ FailsSql(h),
                            !.failed = @ \/ h \in {"commit", "wal", "function"}]
<1>1. stack' = Resumed(n, f)
  BY DEF AfterFailure, Depth
<1>2. old \in Frames /\ old.stop \in BOOLEAN /\ old.failed \in BOOLEAN
  BY DEF Frames
<1>3. f \in Frames /\ f.kind = old.kind /\ f.what = old.what
  BY <1>2 DEF Frames, FailsSql
<1> HIDE DEF f
<1> QED
  BY <1>1, <1>3, ResumedUses

-----------------------------------------------------------------------------
LogVars == <<logHeap, LogBound, LogInUse>>

LEMMA EndImplements ==
  ASSUME CallsEnd, UNCHANGED <<logHeap, LogBound>>
  PROVE  [Abstract!Next]_LogVars
<1>1. CASE LogInUse' = LogInUse
  BY <1>1 DEF LogVars
<1>2. ASSUME NEW o \in LogInUse, LogInUse' = LogInUse \ {o}  PROVE Abstract!Next
  <2>1. o \in LogObjs
    BY DEF LogInUse
  <2>2. Abstract!End(o)
    BY <1>2 DEF Abstract!End
  <2> QED
    BY <2>1, <2>2 DEF Abstract!Next
<1> QED
  BY <1>1, <1>2 DEF CallsEnd

\* config_log() and config_sqllog(): the new handler takes the place of the
\* one in the table, which nothing else refers to, or nothing changes.
LEMMA ConfigLogImplements ==
  ASSUME LibInv, LogInUse = {}, UNCHANGED LogInUse,
         NEW k \in LogKinds, NEW o \in LogObjs, ConfigLog(k, o)
  PROVE  [Abstract!Next]_LogVars
<1>1. PICK rv \in ConfigCodes(k) :
        /\ logHook' = IF rv = "ok" THEN [logHook EXCEPT ![k] = o] ELSE logHook
        /\ StoreLogHandler(k, o, rv)
  BY DEF ConfigLog
<1>2. setup # "gone" /\ ~tableGone /\ setup' = setup /\ o \notin logHeap
  BY DEF ConfigLog, Exiting, staticVars
<1>3. CASE rv # "ok"
  BY <1>1, <1>2, <1>3 DEF StoreLogHandler, ConfigThrows, LogBound, LogVars
<1>4. CASE rv = "ok"
  <2> DEFINE Out == {logSlot[k]} \ {None}
  <2>1. /\ logHook' = [logHook EXCEPT ![k] = o]
        /\ logHeap' = (logHeap \ {logSlot[k]}) \cup {o}
    BY <1>1, <1>4 DEF StoreLogHandler, ConfigThrows
  <2>2. Out \in SUBSET LogObjs
    BY DEF LibInv, LibTypeOK
  <2>3. logHeap' = (logHeap \ Out) \cup {o}
    BY <2>1, LogObjsAssumption DEF LibInv, LibTypeOK
  <2>4. LogBound' = (LogBound \ Out) \cup {o}
    <3>1. \A l \in LogKinds : logHook'[l] = IF l = k THEN o ELSE logHook[l]
      BY <2>1 DEF LibInv, LibTypeOK
    <3>2. LogBound' = {x \in LogObjs : \E l \in LogKinds : logHook'[l] = x}
      BY <1>2 DEF LogBound
    <3>3. LogBound = {x \in LogObjs : \E l \in LogKinds : logHook[l] = x}
      BY <1>2 DEF LogBound
    <3>4. \A l \in LogKinds : logHook[l] # None => (logHook[l] \in Out <=> l = k)
      BY <1>2 DEF LibInv, LogKept
    <3>5. \A x \in LogObjs : x # None
      BY LogObjsAssumption
    <3> HIDE DEF Out
    <3> QED
      BY <3>1, <3>2, <3>3, <3>4, <3>5
  <2>5. Abstract!Replace(o, Out)
    BY <1>2, <2>3, <2>4 DEF Abstract!Replace
  <2> QED
    BY <2>2, <2>5 DEF Abstract!Next
<1> QED
  BY <1>3, <1>4

LEMMA ConfigLogOffImplements ==
  ASSUME LibInv, UNCHANGED LogInUse, NEW k \in LogKinds, ConfigLogOff(k)
  PROVE  [Abstract!Next]_LogVars
<1> DEFINE Out == {logHook[k]} \ {None}
<1>1. setup # "gone" /\ ~tableGone /\ setup' = setup /\ UNCHANGED logHeap
      /\ logHook' = [logHook EXCEPT ![k] = None]
  BY DEF ConfigLogOff, Exiting, staticVars
<1>2. Out \in SUBSET LogObjs
  BY DEF LibInv, LibTypeOK
<1>3. LogBound' = LogBound \ Out
  <2>1. \A l \in LogKinds : logHook'[l] = IF l = k THEN None ELSE logHook[l]
    BY <1>1 DEF LibInv, LibTypeOK
  <2>2. LogBound' = {x \in LogObjs : \E l \in LogKinds : logHook'[l] = x}
    BY <1>1 DEF LogBound
  <2>3. LogBound = {x \in LogObjs : \E l \in LogKinds : logHook[l] = x}
    BY <1>1 DEF LogBound
  <2>4. \A l \in LogKinds : logHook[l] # None => (logHook[l] \in Out <=> l = k)
    BY <1>1 DEF LibInv, LogKept
  <2>5. \A x \in LogObjs : x # None
    BY LogObjsAssumption
  <2> HIDE DEF Out
  <2> QED
    BY <2>1, <2>2, <2>3, <2>4, <2>5
<1>4. Abstract!Unbind(Out)
  BY <1>1, <1>3 DEF Abstract!Unbind
<1> QED
  BY <1>2, <1>4 DEF Abstract!Next

LEMMA LibraryImplements ==
  ASSUME LibInv, LogInUse = {}, UNCHANGED LogInUse, LibNext, "exit" \notin LibBeyond
  PROVE  [Abstract!Next]_LogVars
<1>1. LogBound \in SUBSET LogObjs /\ logHeap \in SUBSET LogObjs
  BY DEF LogBound, LibInv, LibTypeOK
<1>2. CASE LibSetup \/ RawInitialize \/ \E f \in Options, value \in Settings : ConfigOption(f, value)
  <2>1. UNCHANGED logVars /\ (setup' = "gone" <=> setup = "gone")
    BY <1>2 DEF LibSetup, RawInitialize, ConfigOption, staticVars
  <2> QED
    BY <2>1 DEF logVars, LogBound, LogVars
<1>3. CASE LibTeardown
  <2>1. LogBound' = LogBound \ LogBound /\ UNCHANGED logHeap
    BY <1>3 DEF LibTeardown, LogBound, logVars
  <2>2. Abstract!Unbind(LogBound)
    BY <2>1 DEF Abstract!Unbind
  <2> QED
    BY <1>1, <2>2 DEF Abstract!Next
<1>4. CASE TableTeardown
  <2>1. logHeap' = {} /\ LogBound = {} /\ LogBound' = {}
    BY <1>4 DEF TableTeardown, LogBound
  <2>2. Abstract!Drop(logHeap)
    BY <2>1 DEF Abstract!Drop
  <2> QED
    BY <1>1, <2>2 DEF Abstract!Next
<1> QED
  BY <1>2, <1>3, <1>4, ConfigLogImplements, ConfigLogOffImplements DEF LibNext, Configure

\* SQLite calls the handler it has.
LEMMA CallHookImplements ==
  ASSUME LibInv, StackInv, UseInv, NEW h \in Hooks, CallHook(h)
  PROVE  UseInv' /\ [Abstract!Next]_LogVars
<1>1. PICK what \in Hooks \cup LogObjs \cup {None} :
        /\ stack' = Append(stack, Frame("hook", what))
        /\ what \in LogObjs => h \in LogKinds /\ logHook[h] = what
  BY ObjectsAssumption DEF CallHook, Push, LibInv, LibTypeOK
<1>2. stack # <<>>
  BY EmptySeq DEF CallHook, In, Depth
<1>3. setup = "alive" /\ setup' = setup /\ UNCHANGED <<logHeap, LogBound>>
  BY <1>2 DEF CallHook, UseInv, LogBound, libVars, staticVars, logVars
<1>4. Frame("hook", what) \in Frames /\ Frame("hook", what).what = what
      /\ Frame("hook", what).kind = "hook"
  BY FrameTyped DEF Frame, Kinds
<1>5. UseInv' /\ LogInUse' = LogInUse \cup ({what} \cap LogObjs)
  BY <1>1, <1>3, <1>4, PushUses
<1>6. CASE what \notin LogObjs
  BY <1>3, <1>5, <1>6 DEF LogVars
<1>7. CASE what \in LogObjs
  <2>1. what \in LogBound
    BY <1>1, <1>3, <1>7 DEF LogBound
  <2>2. Abstract!Begin(what)
    BY <1>3, <1>5, <1>7, <2>1 DEF Abstract!Begin
  <2> QED
    BY <1>5, <1>7, <2>2 DEF Abstract!Next
<1> QED
  BY <1>6, <1>7

LEMMA LogStepImplements ==
  ASSUME LibInv, StackInv, UseInv, "exit" \notin LibBeyond, [BoundaryNext]_boundVars
  PROVE  UseInv' /\ [Abstract!Next]_LogVars
<1> DEFINE len == Len(stack)
<1>1. len \in Nat /\ (stack = <<>> <=> len = 0) /\ stack \in Seq(Frames)
  BY LenStack, EmptySeq DEF StackInv, StackTyped
<1>2. UNCHANGED libVars => setup' = setup /\ UNCHANGED <<logHeap, LogBound>>
  BY DEF libVars, staticVars, logVars, LogBound
<1>3. ASSUME UNCHANGED libVars, UseInv', CallsEnd  PROVE UseInv' /\ [Abstract!Next]_LogVars
  BY <1>2, <1>3, EndImplements
<1>4. ASSUME UNCHANGED <<stack, libVars>>  PROVE UseInv' /\ [Abstract!Next]_LogVars
  <2>1. UseInv' /\ LogInUse' = LogInUse
    BY <1>2, <1>4 DEF UseInv, LogInUse, Depth
  <2> QED
    BY <1>3, <1>4, <2>1 DEF CallsEnd
<1>5. ASSUME NEW kind \in Kinds \ {"hook"}, UNCHANGED libVars, setup = "alive",
             Push(Frame(kind, None))
      PROVE  UseInv' /\ [Abstract!Next]_LogVars
  <2>1. /\ Frame(kind, None) \in Frames /\ Frame(kind, None).kind = kind
        /\ Frame(kind, None).what = None /\ None \notin LogObjs
    BY FrameTyped, LogObjsAssumption DEF Frame
  <2>2. UseInv' /\ LogInUse' = LogInUse \cup ({None} \cap LogObjs)
    BY <1>2, <1>5, <2>1, PushUses DEF Push
  <2> QED
    BY <1>3, <1>5, <2>1, <2>2 DEF CallsEnd
<1>6. CASE Exec \/ CallRow
  <2>1. setup = "alive"
    BY <1>1, <1>6 DEF Exec, CallRow, In, Depth, UseInv
  <2> QED
    BY <1>5, <1>6, <2>1 DEF Exec, CallRow, Kinds
<1>7. CASE UseLibrary
  <2>1. UNCHANGED stack
    BY <1>7 DEF UseLibrary, stackVars
  <2>2. LogInUse = {} /\ UNCHANGED LogInUse
    <3>1. stack = <<>> => LogInUse = {}
      BY <1>1 DEF LogInUse, Depth
    <3>2. stack # <<>> => LogInUse = {}
      BY <1>7 DEF UseLibrary, MayUseSqlite, LogInUse
    <3> QED
      BY <2>1, <3>1, <3>2 DEF LogInUse, Depth
  <2>3. LibNext
    BY <1>7 DEF UseLibrary, LibNext
  <2>4. stack # <<>> => setup' = setup
    BY <1>7 DEF UseLibrary, Configure, ConfigLog, ConfigLogOff, ConfigOption, staticVars
  <2>5. UseInv'
    BY <2>1, <2>4 DEF UseInv
  <2> QED
    BY <2>2, <2>3, <2>5, LibraryImplements
<1>8. CASE HookReturns \/ ExecEnds
  <2>1. len > 0 /\ stack' = Popped(1) /\ UNCHANGED libVars
    BY <1>8 DEF HookReturns, ExecEnds, In, Depth
  <2> QED
    BY <1>2, <1>3, <2>1, PoppedUses
<1>9. ASSUME NEW f \in Frames, In("row"), stack' = Resumed(1, f), UNCHANGED libVars,
             f.what = stack[len - 1].what, f.kind = stack[len - 1].kind
      PROVE  UseInv' /\ [Abstract!Next]_LogVars
  <2>1. len > 1 /\ 1 \in 1 .. 2
    BY <1>9, BelowCallback DEF In, Depth
  <2> QED
    BY <1>2, <1>3, <1>9, <2>1, ResumedUses
<1>10. ASSUME NEW result \in BOOLEAN, RowReturns(result)
       PROVE  UseInv' /\ [Abstract!Next]_LogVars
  <2> DEFINE old == stack[len - 1]
             f == [old EXCEPT !.stop = result]
  <2>1. old \in Frames
    BY <1>10, BelowCallback DEF RowReturns, In, Depth
  <2>2. f \in Frames /\ f.what = old.what /\ f.kind = old.kind
    BY <2>1 DEF Frames
  <2>3. In("row") /\ stack' = Resumed(1, f) /\ UNCHANGED libVars
    BY <1>10 DEF RowReturns, Depth
  <2> HIDE DEF f
  <2> QED
    BY <1>9, <2>2, <2>3
<1>11. ASSUME NEW e \in Exceptions \cup {outcome}, RowThrows(e)
       PROVE  UseInv' /\ [Abstract!Next]_LogVars
  <2> DEFINE old == stack[len - 1]
             f == [old EXCEPT !.stop = StopAfterThrow, !.ex = e,
                              !.first = IF @ = None THEN e ELSE @]
  <2>1. old \in Frames /\ outcome \in Outcomes
    BY <1>11, BelowCallback DEF RowThrows, In, Depth, StackInv, StackTyped
  <2>2. f \in Frames /\ f.what = old.what /\ f.kind = old.kind
    BY <2>1 DEF Frames, StopAfterThrow, Outcomes
  <2>3. In("row") /\ stack' = Resumed(1, f) /\ UNCHANGED libVars
    BY <1>11 DEF RowThrows, Depth
  <2> HIDE DEF f
  <2> QED
    BY <1>9, <2>2, <2>3
<1>12. CASE HookThrows
  <2>1. /\ len > 1 /\ stack[len - 1] \in Frames /\ 1 \in 1 .. 2 /\ stack # <<>>
        /\ UNCHANGED libVars
    BY <1>1, <1>12, BelowCallback DEF HookThrows, In, Depth
  <2>2. CASE Push(Frame("report", None))
    BY <1>5, <2>1, <2>2 DEF UseInv, Kinds
  <2>3. CASE stack' = AfterFailure(1)
    BY <1>2, <1>3, <2>1, <2>3, FailureUses
  <2> QED
    BY <1>12, <2>2, <2>3 DEF HookThrows
<1>13. CASE ReportEnds
  <2>1. /\ len > 2 /\ stack[len - 2] \in Frames /\ 2 \in 1 .. 2 /\ stack[len].kind # "hook"
        /\ UNCHANGED libVars /\ stack' = AfterFailure(2)
    BY <1>13, BelowReport DEF ReportEnds, In, Depth
  <2> QED
    BY <1>2, <1>3, <2>1, FailureUses
<1>14. CASE SetReporter \/ UNCHANGED boundVars
  BY <1>4, <1>14 DEF SetReporter, boundVars, stackVars
<1> QED
  BY <1>6, <1>7, <1>8, <1>10, <1>11, <1>12, <1>13, <1>14, CallHookImplements DEF BoundaryNext

\* config_log() and config_sqllog() keep the promise of CallableStore, with
\* config_callbacks as the owner of the handlers: a handler takes the place of
\* the old one in one step, is never freed while SQLite may call it or while
\* it runs, not when a call was refused, and not at exit, unless
\* config_callbacks is destroyed before SQLite is shut down.
THEOREM LogHandlersImplementStore ==
  ASSUME "exit" \notin LibBeyond
  PROVE  BoundarySpec => LogImplementsStore
<1>1. BoundaryInit => LibInv /\ UseInv /\ Abstract!Init
  <2> SUFFICES ASSUME BoundaryInit PROVE LibInv /\ UseInv /\ Abstract!Init
    OBVIOUS
  <2>1. stack = <<>> /\ Len(stack) = 0
    BY EmptySeq DEF BoundaryInit
  <2>2. LogBound = {}
    BY LogObjsAssumption DEF BoundaryInit, LibInit, LogBound
  <2>3. LogInUse = {} /\ UseInv
    BY <2>1 DEF LogInUse, Depth, UseInv
  <2>4. logHeap = {} /\ LibInv
    BY LibInvInit DEF BoundaryInit, LibInit
  <2> QED
    BY <2>2, <2>3, <2>4 DEF Abstract!Init
<1>2. LibTypeOK /\ StackInv /\ LibInv /\ UseInv /\ [BoundaryNext]_boundVars
        => LibInv' /\ UseInv' /\ [Abstract!Next]_<<logHeap, LogBound, LogInUse>>
  BY LibInvStep, StepOfLibrary, LogStepImplements DEF LogVars
<1>3. BoundarySpec => Abstract!Init /\ [][Abstract!Next]_<<logHeap, LogBound, LogInUse>>
  BY StackInvAlways, <1>1, <1>2, PTL DEF BoundarySpec
<1> QED
  BY <1>3 DEF LogImplementsStore, Abstract!Spec, Abstract!vars
=============================================================================
